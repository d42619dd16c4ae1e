--------------------------- MODULE AgentRuntime_proofs ---------------------------
(***************************************************************************)
(* AgentRuntimeService.run for any limits, any prices and any callers: the *)
(* cost cap is overrun by less than one answer, the usage ledger misses    *)
(* only what CANCELLED and failed recordings explain, and an aborted run   *)
(* stops at its next step.                                                 *)
(*                                                                         *)
(* The two invariants speak of the cost a run was given; what is inductive *)
(* is how it relates, at each await, to the cost the run itself counts:    *)
(* equal to it, below the cap when the provider is asked, and below the    *)
(* cap without the last answer while that answer is handled.               *)
(***************************************************************************)
EXTENDS AgentRuntime, TLAPS

\* What each await knows of the costs.
AtAwait(r) ==
  LET x == run[r] IN
  /\ x.pc = "idle" => spent[r] = 0 /\ recorded[r] = 0
  /\ x.pc \in {"chat", "record", "tool"} => x.cost = spent[r]
  /\ x.pc \in {"chat", "tool"} => recordFailed[r] \/ recorded[r] = spent[r]
  /\ x.pc = "chat" => x.cost < MaxCost
  /\ x.pc \in {"record", "tool"} => x.last \in Costs /\ x.cost < MaxCost + x.last
  /\ x.pc = "record" => recordFailed[r] \/ recorded[r] + x.last = spent[r]
  /\ x.pc = "tool" => x.calls > 0

\* What is left of it when the run has stopped.
AtEnd(r) ==
  run[r].pc = "done" =>
    /\ spent[r] = 0 \/ \E c \in Costs : spent[r] < MaxCost + c
    /\ \/ recordFailed[r] \/ recorded[r] = spent[r]
       \/ run[r].stopReason = "CANCELLED" /\ \E c \in Costs : spent[r] = recorded[r] + c

IInv == TypeOK /\ \A r \in Runs : AtAwait(r) /\ AtEnd(r)

\* A run that begins has the type of a run.
LEMMA NewRunType == NewRun \in Run
BY RuntimeAssumption DEF NewRun, Run, StopReasons

\* The loop head asks the provider only below the cap, and otherwise stops; it
\* leaves the costs alone.
LEMMA LoopHeadFacts ==
  ASSUME NEW x \in Run, NEW ab \in BOOLEAN
  PROVE  /\ LoopHead(x, ab) \in Run
         /\ LoopHead(x, ab).pc \in {"done", "chat"}
         /\ LoopHead(x, ab).pc = "chat" => x.cost < MaxCost /\ ~ab
         /\ LoopHead(x, ab).cost = x.cost
<1>0. /\ x.iterations \in 0 .. MaxIterations /\ x.cost \in Nat /\ MaxCost \in Nat
      /\ MaxIterations \in Nat
  BY RuntimeAssumption DEF Run
<1>1. CASE x.iterations >= MaxIterations
  <2>1. LoopHead(x, ab) = [x EXCEPT !.pc = "done"]
    BY <1>0, <1>1 DEF LoopHead
  <2> QED
    BY <2>1 DEF Run
<1>2. CASE x.iterations < MaxIterations /\ ab
  <2>1. LoopHead(x, ab) = [x EXCEPT !.pc = "done", !.stopReason = "CANCELLED"]
    BY <1>0, <1>2 DEF LoopHead, Stopped
  <2> QED
    BY <2>1 DEF Run, StopReasons
<1> DEFINE next == x.iterations + 1
<1>3. CASE x.iterations < MaxIterations /\ ~ab
  <2>1. next \in 0 .. MaxIterations
    BY <1>0, <1>3
  <2>2. CASE x.cost >= MaxCost
    <3>1. LoopHead(x, ab) =
            [x EXCEPT !.iterations = next, !.pc = "done", !.stopReason = "BUDGET_EXCEEDED"]
      BY <1>0, <1>3, <2>2 DEF LoopHead, Stopped, Run
    <3> HIDE DEF next
    <3> QED
      BY <2>1, <3>1 DEF Run, StopReasons
  <2>3. CASE x.cost < MaxCost
    <3>1. LoopHead(x, ab) = [x EXCEPT !.iterations = next, !.pc = "chat"]
      BY <1>0, <1>3, <2>3 DEF LoopHead
    <3> HIDE DEF next
    <3> QED
      BY <1>3, <2>1, <2>3, <3>1 DEF Run
  <2> QED
    BY <1>0, <2>2, <2>3
<1> QED
  BY <1>0, <1>1, <1>2, <1>3

\* The tool loop starts a tool only if one is left and the run is not aborted.
LEMMA NextToolFacts ==
  ASSUME NEW x \in Run, NEW ab \in BOOLEAN
  PROVE  /\ NextTool(x, ab) \in Run
         /\ NextTool(x, ab).pc \in {"done", "chat", "tool"}
         /\ NextTool(x, ab).pc = "chat" => x.cost < MaxCost /\ ~ab
         /\ NextTool(x, ab).pc = "tool" =>
              x.calls > 0 /\ ~ab /\ NextTool(x, ab) = [x EXCEPT !.pc = "tool"]
         /\ NextTool(x, ab).cost = x.cost
<1>1. CASE x.calls > 0 /\ ~ab
  BY <1>1, RuntimeAssumption DEF NextTool, Run
<1>2. CASE ~(x.calls > 0 /\ ~ab)
  <2> DEFINE left == IF x.calls > 0 THEN [x EXCEPT !.stopReason = "CANCELLED"] ELSE x
             y == IF x.iterations >= MaxIterations
                    THEN [left EXCEPT !.stopReason = "MAX_ITERATIONS"] ELSE left
  <2>1. y \in Run /\ y.cost = x.cost
    BY DEF Run, StopReasons
  <2>2. NextTool(x, ab) = LoopHead(y, ab)
    BY <1>2 DEF NextTool, ToolsLeft
  <2> HIDE DEF y
  <2> QED
    BY <2>1, <2>2, LoopHeadFacts
<1> QED
  BY <1>1, <1>2

\* A step of one run leaves the others, their costs and their records alone.
LEMMA Local ==
  ASSUME TypeOK, NEW r \in Runs, Begin(r) \/ Step(r), NEW s \in Runs, s # r
  PROVE  /\ run'[s] = run[s] /\ spent'[s] = spent[s]
         /\ recorded'[s] = recorded[s] /\ recordFailed'[s] = recordFailed[s]
BY DEF TypeOK, Begin, Step, ChatFails, ChatAnswers, UsageRecorded, ToolEnds

\* The facts of IInv about one run, all that its own step depends on.
LEMMA OwnFacts ==
  ASSUME IInv, NEW r \in Runs
  PROVE  /\ run[r] \in Run /\ aborted[r] \in BOOLEAN
         /\ spent[r] \in Nat /\ recorded[r] \in Nat /\ recordFailed[r] \in BOOLEAN
         /\ run[r].cost \in Nat /\ AtAwait(r) /\ AtEnd(r)
BY DEF IInv, TypeOK, Run

\* A run that begins keeps the invariant,
LEMMA BeginPreserves ==
  ASSUME IInv, NEW r \in Runs, Begin(r)
  PROVE  AtAwait(r)' /\ AtEnd(r)' /\ run'[r] \in Run
<1>1. run'[r] = LoopHead(NewRun, aborted[r])
  BY DEF Begin, IInv, TypeOK
<1>2. spent'[r] = 0 /\ recorded'[r] = 0
  BY DEF Begin, IInv, TypeOK
<1>3. NewRun \in Run /\ NewRun.cost = 0 /\ aborted[r] \in BOOLEAN
  BY NewRunType, OwnFacts DEF NewRun
<1>4. /\ run'[r] \in Run /\ run'[r].pc \in {"done", "chat"} /\ run'[r].cost = 0
      /\ run'[r].pc = "chat" => 0 < MaxCost
  BY <1>1, <1>3, LoopHeadFacts
<1> QED
  BY <1>2, <1>4 DEF AtAwait, AtEnd

\* as does an answer of the model,
LEMMA ChatPreserves ==
  ASSUME IInv, NEW r \in Runs, ChatFails(r) \/ ChatAnswers(r)
  PROVE  AtAwait(r)' /\ AtEnd(r)' /\ run'[r] \in Run
<1>0. /\ run[r].pc = "chat" /\ run[r].cost = spent[r] /\ run[r].cost < MaxCost
      /\ recordFailed[r] \/ recorded[r] = spent[r]
  BY OwnFacts DEF ChatFails, ChatAnswers, AtAwait
<1>1. CASE ChatFails(r)
  <2>1. /\ run'[r] = [run[r] EXCEPT !.pc = "done", !.stopReason = "PROVIDER_ERROR"]
        /\ spent' = spent /\ recorded' = recorded /\ recordFailed' = recordFailed
    BY <1>1 DEF ChatFails, Stopped, IInv, TypeOK
  <2>2. run'[r] \in Run /\ run'[r].pc = "done"
    BY <2>1, OwnFacts DEF Run, StopReasons
  <2>3. spent[r] = 0 \/ \E c \in Costs : spent[r] < MaxCost + c
    <3>1. PICK c \in Costs : c \in Nat
      BY RuntimeAssumption
    <3> QED
      BY <1>0, <3>1, OwnFacts, RuntimeAssumption
  <2> QED
    BY <1>0, <2>1, <2>2, <2>3 DEF AtAwait, AtEnd
<1>2. CASE ChatAnswers(r)
  <2>1. PICK c \in Costs, final \in BOOLEAN, calls \in 0 .. MaxCalls :
          /\ run'[r] = Answered(run[r], aborted[r], c, final, calls)
          /\ spent'[r] = spent[r] + c
    BY <1>2 DEF ChatAnswers, IInv, TypeOK
  <2>2. recorded' = recorded /\ recordFailed' = recordFailed
    BY <1>2 DEF ChatAnswers
  <2>3. c \in Nat /\ MaxCost \in Nat
    BY RuntimeAssumption
  <2>4. CASE aborted[r]
    <3>1. run'[r] = [run[r] EXCEPT !.pc = "done", !.stopReason = "CANCELLED"]
      BY <2>1, <2>4 DEF Answered, Stopped
    <3>2. /\ run'[r] \in Run /\ run'[r].pc = "done"
          /\ run'[r].stopReason = "CANCELLED"
      BY <3>1, OwnFacts DEF Run, StopReasons
    <3>3. spent'[r] < MaxCost + c /\ (recordFailed[r] \/ spent'[r] = recorded[r] + c)
      BY <1>0, <2>1, <2>3, OwnFacts
    <3> QED
      BY <2>2, <3>2, <3>3 DEF AtAwait, AtEnd
  <2>5. CASE ~aborted[r]
    <3> DEFINE sum == run[r].cost + c
    <3>1. run'[r] = [run[r] EXCEPT !.pc = "record", !.cost = sum, !.last = c,
                                   !.final = final, !.calls = calls]
      BY <2>1, <2>5 DEF Answered
    <3>2. sum \in Nat /\ sum = spent'[r] /\ sum < MaxCost + c
      BY <1>0, <2>1, <2>3, OwnFacts
    <3>3. recordFailed[r] \/ recorded[r] + c = spent'[r]
      BY <1>0, <2>1, <2>3, OwnFacts
    <3> HIDE DEF sum
    <3>4. /\ run'[r] \in Run /\ run'[r].pc = "record" /\ run'[r].cost = sum
          /\ run'[r].last = c
      BY <3>1, <3>2, OwnFacts DEF Run
    <3> QED
      BY <2>2, <3>2, <3>3, <3>4 DEF AtAwait, AtEnd
  <2> QED
    BY <2>4, <2>5
<1> QED
  BY <1>1, <1>2

\* What the tool loop is entered with, after the usage and after each tool, and
\* what it leaves.
LEMMA ToolLoopPreserves ==
  ASSUME IInv, NEW r \in Runs, NEW x \in Run,
         run'[r] = NextTool(x, aborted[r]),
         x.cost = spent[r], x.last \in Costs, x.cost < MaxCost + x.last,
         recordFailed'[r] \/ recorded'[r] = spent[r],
         spent'[r] = spent[r]
  PROVE  AtAwait(r)' /\ AtEnd(r)' /\ run'[r] \in Run
<1> DEFINE y == run'[r]
<1>1. /\ y \in Run /\ y.pc \in {"done", "chat", "tool"} /\ y.cost = spent'[r]
      /\ y.pc = "chat" => y.cost < MaxCost
      /\ y.pc = "tool" => y.calls > 0 /\ y.last = x.last
  <2>1. aborted[r] \in BOOLEAN
    BY OwnFacts
  <2>2. /\ y \in Run /\ y.pc \in {"done", "chat", "tool"} /\ y.cost = x.cost
        /\ y.pc = "chat" => x.cost < MaxCost
        /\ y.pc = "tool" => x.calls > 0 /\ y = [x EXCEPT !.pc = "tool"]
    BY <2>1, NextToolFacts
  <2>3. y = [x EXCEPT !.pc = "tool"] => y.calls = x.calls /\ y.last = x.last
    BY DEF Run
  <2> HIDE DEF y
  <2> QED
    BY <2>2, <2>3
<1>2. spent'[r] < MaxCost + x.last
  OBVIOUS
<1> QED
  BY <1>1, <1>2 DEF AtAwait, AtEnd

\* a record that is written,
LEMMA RecordPreserves ==
  ASSUME IInv, NEW r \in Runs, UsageRecorded(r)
  PROVE  /\ AtAwait(r)' /\ AtEnd(r)' /\ run'[r] \in Run
         /\ recorded'[r] \in Nat /\ recordFailed'[r] \in BOOLEAN
<1>0. /\ run[r].pc = "record" /\ run[r].cost = spent[r]
      /\ run[r].last \in Costs /\ run[r].cost < MaxCost + run[r].last
      /\ recordFailed[r] \/ recorded[r] + run[r].last = spent[r]
      /\ spent'[r] = spent[r]
  BY OwnFacts DEF UsageRecorded, AtAwait
<1>1. /\ recordFailed'[r] \/ recorded'[r] = spent[r]
      /\ recorded'[r] \in Nat /\ recordFailed'[r] \in BOOLEAN
  <2>0. run[r].last \in Nat
    BY <1>0, RuntimeAssumption
  <2>1. CASE recorded' = [recorded EXCEPT ![r] = @ + Usage(run[r])] /\ UNCHANGED recordFailed
    <3>1. recorded'[r] = recorded[r] + run[r].last /\ recordFailed'[r] = recordFailed[r]
      BY <2>1 DEF Usage, IInv, TypeOK
    <3> QED
      BY <1>0, <2>0, <3>1, OwnFacts
  <2>2. CASE recordFailed' = [recordFailed EXCEPT ![r] = TRUE] /\ UNCHANGED recorded
    BY <2>2, OwnFacts DEF IInv, TypeOK
  <2> QED
    BY <2>1, <2>2 DEF UsageRecorded
<1>2. CASE run[r].final
  <2>1. run'[r] = [run[r] EXCEPT !.pc = "done", !.stopReason = "COMPLETED"]
    BY <1>2 DEF UsageRecorded, Stopped, IInv, TypeOK
  <2>2. run'[r] \in Run /\ run'[r].pc = "done"
    BY <2>1, OwnFacts DEF Run, StopReasons
  <2> QED
    BY <1>0, <1>1, <2>2 DEF AtAwait, AtEnd
<1>3. CASE ~run[r].final
  <2>1. run'[r] = NextTool(run[r], aborted[r])
    BY <1>3 DEF UsageRecorded, IInv, TypeOK
  <2> QED
    BY <1>0, <1>1, <2>1, OwnFacts, ToolLoopPreserves
<1> QED
  BY <1>2, <1>3

\* a tool that is executed,
LEMMA ToolPreserves ==
  ASSUME IInv, NEW r \in Runs, ToolEnds(r)
  PROVE  AtAwait(r)' /\ AtEnd(r)' /\ run'[r] \in Run
<1>0. /\ run[r].pc = "tool" /\ run[r].cost = spent[r] /\ run[r].calls > 0
      /\ run[r].last \in Costs /\ run[r].cost < MaxCost + run[r].last
      /\ recordFailed[r] \/ recorded[r] = spent[r]
  BY OwnFacts DEF ToolEnds, AtAwait
<1> DEFINE left == run[r].calls - 1
           x == [run[r] EXCEPT !.calls = left]
<1>1. left \in 0 .. MaxCalls
  BY <1>0, OwnFacts, RuntimeAssumption DEF Run
<1>2. run'[r] = NextTool(x, aborted[r])
  <2>1. run' = [run EXCEPT ![r] = NextTool(x, aborted[r])]
    BY DEF ToolEnds
  <2> QED
    BY <2>1 DEF IInv, TypeOK
<1>3. /\ spent'[r] = spent[r]
      /\ recorded'[r] = recorded[r] /\ recordFailed'[r] = recordFailed[r]
  BY DEF ToolEnds
<1> HIDE DEF left
<1>4. x \in Run /\ x.cost = run[r].cost /\ x.last = run[r].last
  BY <1>1, OwnFacts DEF Run
<1> HIDE DEF x
<1> QED
  BY <1>0, <1>2, <1>3, <1>4, ToolLoopPreserves

\* The tables keep their types when the entry of one run is replaced.
LEMMA TypesPreserved ==
  ASSUME IInv, NEW r \in Runs, Begin(r) \/ Step(r), UNCHANGED aborted,
         run'[r] \in Run
  PROVE  TypeOK'
<1>1. run' \in [Runs -> Run]
  BY DEF IInv, TypeOK, Begin, Step, ChatFails, ChatAnswers, UsageRecorded, ToolEnds
<1>2. spent' \in [Runs -> Nat]
  BY RuntimeAssumption DEF IInv, TypeOK, Begin, Step, ChatFails, ChatAnswers, UsageRecorded, ToolEnds
<1>3. recorded' \in [Runs -> Nat] /\ recordFailed' \in [Runs -> BOOLEAN]
  <2>1. CASE UsageRecorded(r)
    BY <2>1, RecordPreserves DEF IInv, TypeOK, UsageRecorded
  <2>2. CASE Begin(r)
    BY <2>2 DEF IInv, TypeOK, Begin
  <2>3. CASE ChatFails(r) \/ ChatAnswers(r) \/ ToolEnds(r)
    BY <2>3 DEF IInv, TypeOK, ChatFails, ChatAnswers, ToolEnds
  <2> QED
    BY <2>1, <2>2, <2>3 DEF Step
<1> QED
  BY <1>1, <1>2, <1>3 DEF IInv, TypeOK

\* and so every step.
LEMMA StepPreserves == IInv /\ [Next]_vars => IInv'
<1> SUFFICES ASSUME IInv, [Next]_vars
             PROVE  IInv'
  OBVIOUS
<1>1. ASSUME NEW r \in Runs, Begin(r) \/ Step(r), UNCHANGED aborted
      PROVE  IInv'
  <2>1. AtAwait(r)' /\ AtEnd(r)' /\ run'[r] \in Run
    BY <1>1, BeginPreserves, ChatPreserves, RecordPreserves, ToolPreserves DEF Step
  <2>2. ASSUME NEW s \in Runs, s # r
        PROVE  AtAwait(s)' /\ AtEnd(s)'
    <3>1. /\ run'[s] = run[s] /\ spent'[s] = spent[s]
          /\ recorded'[s] = recorded[s] /\ recordFailed'[s] = recordFailed[s]
      BY <1>1, <2>2, Local DEF IInv
    <3> QED
      BY <3>1, OwnFacts DEF AtAwait, AtEnd
  <2>3. TypeOK'
    BY <1>1, <2>1, TypesPreserved
  <2> QED
    BY <2>1, <2>2, <2>3 DEF IInv
<1>2. CASE IsAbortedChanges \/ UNCHANGED vars
  <2>1. UNCHANGED <<run, spent, recorded, recordFailed>> /\ aborted' \in [Runs -> BOOLEAN]
    BY <1>2 DEF IsAbortedChanges, vars, IInv, TypeOK
  <2> QED
    BY <2>1 DEF IInv, TypeOK, AtAwait, AtEnd
<1> QED
  BY <1>1, <1>2 DEF Next

\* It holds before any run has begun.
LEMMA InitEstablishes == Init => IInv
<1> SUFFICES ASSUME Init
             PROVE  IInv
  OBVIOUS
<1>1. TypeOK
  BY NewRunType DEF Init, TypeOK
<1>2. ASSUME NEW r \in Runs
      PROVE  AtAwait(r) /\ AtEnd(r)
  BY DEF Init, NewRun, AtAwait, AtEnd
<1> QED
  BY <1>1, <1>2 DEF IInv

\* It holds of every reachable state.
LEMMA Inductive == Spec => []IInv
BY InitEstablishes, StepPreserves, PTL DEF Spec

\* A run of AgentRuntimeService.run overruns maxCostUsd by less than the answer
\* during which it passed it, at any prices and in any interleaving.
THEOREM CapOverrunByLessThanOneAnswer == Spec => []CostCapped
<1>1. IInv => CostCapped
  <2> SUFFICES ASSUME IInv, NEW r \in Runs
               PROVE  spent[r] = 0 \/ \E c \in Costs : spent[r] < MaxCost + c
    BY DEF CostCapped
  <2>1. PICK c \in Costs : c \in Nat
    BY RuntimeAssumption
  <2>2. CASE run[r].pc = "chat"
    <3>1. spent[r] < MaxCost + c
      BY <2>1, <2>2, OwnFacts, RuntimeAssumption DEF AtAwait
    <3> QED
      BY <3>1
  <2>3. CASE run[r].pc \in {"record", "tool"}
    BY <2>3, OwnFacts DEF AtAwait
  <2>4. CASE run[r].pc \in {"idle", "done"}
    BY <2>4, OwnFacts DEF AtAwait, AtEnd
  <2> QED
    BY <2>2, <2>3, <2>4, OwnFacts DEF Run
<1> QED
  BY <1>1, Inductive, PTL

\* The usage ledger of AiBudgetService misses only what an abort or a failed
\* recordUsage keeps from it.
THEOREM LedgerAccountsForAnswers == Spec => []UsageAccounted
<1>1. IInv => UsageAccounted
  <2> SUFFICES ASSUME IInv, NEW r \in Runs, ~recordFailed[r], spent[r] # recorded[r]
               PROVE  /\ \/ run[r].pc = "record"
                         \/ run[r].pc = "done" /\ run[r].stopReason = "CANCELLED"
                      /\ \E c \in Costs : spent[r] = recorded[r] + c
    BY DEF UsageAccounted
  <2>1. CASE run[r].pc = "record"
    BY <2>1, OwnFacts DEF AtAwait
  <2>2. CASE run[r].pc = "done"
    BY <2>2, OwnFacts DEF AtEnd
  <2>3. CASE run[r].pc \in {"idle", "chat", "tool"}
    BY <2>3, OwnFacts DEF AtAwait
  <2> QED
    BY <2>1, <2>2, <2>3, OwnFacts DEF Run
<1> QED
  BY <1>1, Inductive, PTL

\* Of a run whose isAborted answers yes nothing follows but its end: the four
\* places that ask it leave no path from an await to a question or a tool.
THEOREM AbortIsObeyed == Spec => AbortedRunStops
<1>1. ASSUME IInv, [Next]_vars
      PROVE  [\A r \in Runs : aborted[r] /\ run'[r] # run[r] => run'[r].pc = "done"]_vars
  <2> SUFFICES ASSUME NEW r \in Runs, aborted[r], run'[r] # run[r]
               PROVE  run'[r].pc = "done"
    OBVIOUS
  <2>1. Begin(r) \/ Step(r)
    BY <1>1, Local DEF Next, vars, IsAbortedChanges, IInv
  <2>2. run[r] \in Run /\ aborted[r] = TRUE
    BY <1>1, OwnFacts
  <2>3. CASE Begin(r)
    <3>1. run'[r] = LoopHead(NewRun, TRUE)
      BY <1>1, <2>2, <2>3 DEF Begin, IInv, TypeOK
    <3> QED
      BY <2>2, <3>1, LoopHeadFacts, NewRunType
  <2>4. CASE ChatFails(r) \/ ChatAnswers(r)
    <3>1. run'[r] = Stopped(run[r], "PROVIDER_ERROR") \/ run'[r] = Stopped(run[r], "CANCELLED")
      BY <1>1, <2>4 DEF ChatFails, ChatAnswers, Answered, IInv, TypeOK
    <3> QED
      BY <2>2, <3>1 DEF Stopped, Run
  <2>5. CASE UsageRecorded(r)
    <3>1. run'[r] = Stopped(run[r], "COMPLETED") \/ run'[r] = NextTool(run[r], TRUE)
      BY <1>1, <2>2, <2>5 DEF UsageRecorded, IInv, TypeOK
    <3>2. CASE run'[r] = Stopped(run[r], "COMPLETED")
      BY <2>2, <3>2 DEF Stopped, Run
    <3>3. CASE run'[r] = NextTool(run[r], TRUE)
      BY <2>2, <3>3, NextToolFacts
    <3> QED
      BY <3>1, <3>2, <3>3
  <2>6. CASE ToolEnds(r)
    <3> DEFINE left == run[r].calls - 1
               x == [run[r] EXCEPT !.calls = left]
    <3>1. run'[r] = NextTool(x, TRUE)
      <4>1. run' = [run EXCEPT ![r] = NextTool(x, TRUE)]
        BY <2>2, <2>6 DEF ToolEnds
      <4> QED
        BY <1>1, <4>1 DEF IInv, TypeOK
    <3>0. run[r].calls > 0
      BY <1>1, <2>6, OwnFacts DEF ToolEnds, AtAwait
    <3>2. left \in 0 .. MaxCalls
      BY <2>2, <3>0, RuntimeAssumption DEF Run
    <3> HIDE DEF left
    <3>3. x \in Run
      BY <2>2, <3>2 DEF Run
    <3> HIDE DEF x
    <3> QED
      BY <2>2, <3>1, <3>3, NextToolFacts
  <2> QED
    BY <2>1, <2>3, <2>4, <2>5, <2>6 DEF Step
<1> QED
  BY <1>1, Inductive, PTL DEF Spec, AbortedRunStops
================================================================================
