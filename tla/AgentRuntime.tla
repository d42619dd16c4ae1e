------------------------------ MODULE AgentRuntime ------------------------------
(***************************************************************************)
(* AgentRuntimeService.run: the loop in which an agent asks the provider   *)
(* what to do, runs the tools the answer names, and asks again, under a    *)
(* limit of iterations, a cap on cost and a caller who may abort it.       *)
(*                                                                         *)
(* The loop gives up control at three awaits only: the provider's answer,  *)
(* the recording of its usage and a tool.  A step here is what runs        *)
(* between two of them.  isAborted is asked afresh at each of its four     *)
(* places and may say no again after it said yes.                          *)
(*                                                                         *)
(* Calls of unknown tools are left out: they are answered without an       *)
(* await and change nothing the properties tell apart.                     *)
(***************************************************************************)
EXTENDS Naturals

CONSTANTS
  Runs,          \* the runs; one that has stopped may begin anew
  MaxIterations, \* options.maxIterations
  MaxCost,       \* options.maxCostUsd, in the unit of Costs
  Costs,         \* what an answer of the provider may cost
  MaxCalls       \* bound on the tool calls of one answer

ASSUME RuntimeAssumption ==
  /\ MaxIterations \in Nat
  /\ MaxCost \in Nat
  /\ Costs \subseteq Nat /\ Costs # {}
  /\ MaxCalls \in Nat

VARIABLES
  run,         \* the local variables of each run, and where it waits
  aborted,     \* what options.isAborted() answers
  spent,       \* history: the cost of all the answers a run was given
  recorded,    \* the part of it in the usage ledger of AiBudgetService
  recordFailed \* history: a recordUsage failed, which the runtime ignores

vars == <<run, aborted, spent, recorded, recordFailed>>

StopReasons == {"COMPLETED", "MAX_ITERATIONS", "BUDGET_EXCEEDED",
                "PROVIDER_ERROR", "CANCELLED"}

\* final: the answer being handled names no tool; calls: the tools it names
\* that have not run; last: what it cost.
Run == [pc : {"idle", "chat", "record", "tool", "done"},
        iterations : 0 .. MaxIterations, cost : Nat, last : Costs \cup {0},
        final : BOOLEAN, calls : 0 .. MaxCalls, stopReason : StopReasons]

TypeOK ==
  /\ run \in [Runs -> Run]
  /\ aborted \in [Runs -> BOOLEAN]
  /\ spent \in [Runs -> Nat]
  /\ recorded \in [Runs -> Nat]
  /\ recordFailed \in [Runs -> BOOLEAN]

NewRun == [pc |-> "idle", iterations |-> 0, cost |-> 0, last |-> 0,
           final |-> FALSE, calls |-> 0, stopReason |-> "COMPLETED"]

Init ==
  /\ run = [r \in Runs |-> NewRun]
  /\ aborted \in [Runs -> BOOLEAN]
  /\ spent = [r \in Runs |-> 0]
  /\ recorded = [r \in Runs |-> 0]
  /\ recordFailed = [r \in Runs |-> FALSE]

--------------------------------------------------------------------------------
(* The synchronous stretches of the loop, from the local variables x of a   *)
(* run and the answer ab of isAborted to the variables at the next await.   *)

Stopped(x, why) == [x EXCEPT !.pc = "done", !.stopReason = why]

\* *Fault*: the abort is asked about only after an answer.
LoopHeadUnaborted(x, ab) ==
  CASE x.iterations >= MaxIterations -> [x EXCEPT !.pc = "done"]
    [] x.iterations < MaxIterations /\ x.cost >= MaxCost ->
         Stopped([x EXCEPT !.iterations = @ + 1], "BUDGET_EXCEEDED")
    [] OTHER -> [x EXCEPT !.iterations = @ + 1, !.pc = "chat"]

\* *Fault*: the cost is compared with > instead of >=.
LoopHeadAtCap(x, ab) ==
  CASE x.iterations >= MaxIterations -> [x EXCEPT !.pc = "done"]
    [] x.iterations < MaxIterations /\ ab -> Stopped(x, "CANCELLED")
    [] x.iterations < MaxIterations /\ ~ab /\ x.cost > MaxCost ->
         Stopped([x EXCEPT !.iterations = @ + 1], "BUDGET_EXCEEDED")
    [] OTHER -> [x EXCEPT !.iterations = @ + 1, !.pc = "chat"]

\* *Fault*: an iteration is not counted.
LoopHeadUncounted(x, ab) ==
  CASE ab -> Stopped(x, "CANCELLED")
    [] ~ab /\ x.cost >= MaxCost -> Stopped(x, "BUDGET_EXCEEDED")
    [] OTHER -> [x EXCEPT !.pc = "chat"]

\* The while condition, the abort, the cap, and the next question.
LoopHead(x, ab) ==
  CASE x.iterations >= MaxIterations -> [x EXCEPT !.pc = "done"]
    [] x.iterations < MaxIterations /\ ab -> Stopped(x, "CANCELLED")
    [] x.iterations < MaxIterations /\ ~ab /\ x.cost >= MaxCost ->
         Stopped([x EXCEPT !.iterations = @ + 1], "BUDGET_EXCEEDED")
    [] OTHER -> [x EXCEPT !.iterations = @ + 1, !.pc = "chat"]

\* After the last tool, or the abort that left the others: the iteration limit
\* replaces the reason, so a run aborted in its last iteration ends as one
\* that ran out of them.
ToolsLeft(x, ab) ==
  LET left == IF x.calls > 0 THEN [x EXCEPT !.stopReason = "CANCELLED"] ELSE x
  IN LoopHead(IF x.iterations >= MaxIterations
                THEN [left EXCEPT !.stopReason = "MAX_ITERATIONS"] ELSE left, ab)

\* The head of the tool loop.
NextTool(x, ab) ==
  IF x.calls > 0 /\ ~ab THEN [x EXCEPT !.pc = "tool"] ELSE ToolsLeft(x, ab)

--------------------------------------------------------------------------------
(* The actions. *)

Begin(r) ==
  /\ run[r].pc \in {"idle", "done"}
  /\ run' = [run EXCEPT ![r] = LoopHead(NewRun, aborted[r])]
  /\ spent' = [spent EXCEPT ![r] = 0]
  /\ recorded' = [recorded EXCEPT ![r] = 0]
  /\ recordFailed' = [recordFailed EXCEPT ![r] = FALSE]

\* chat throws: paused, unreachable, or a failing status.
ChatFails(r) ==
  /\ run[r].pc = "chat"
  /\ run' = [run EXCEPT ![r] = Stopped(@, "PROVIDER_ERROR")]
  /\ UNCHANGED <<spent, recorded, recordFailed>>

\* An answer of cost c: dropped, cost and all, by a run aborted meanwhile.
Answered(x, ab, c, final, calls) ==
  IF ab THEN Stopped(x, "CANCELLED")
        ELSE [x EXCEPT !.pc = "record", !.cost = @ + c, !.last = c,
                       !.final = final, !.calls = calls]

ChatAnswers(r) ==
  /\ run[r].pc = "chat"
  /\ \E c \in Costs, final \in BOOLEAN, calls \in 0 .. MaxCalls :
       /\ final => calls = 0
       /\ run' = [run EXCEPT ![r] = Answered(@, aborted[r], c, final, calls)]
       /\ spent' = [spent EXCEPT ![r] = @ + c]
  /\ UNCHANGED <<recorded, recordFailed>>

\* *Fault*: the usage of a final answer is not recorded.
UsageOfTools(x) == IF x.final THEN 0 ELSE x.last

\* What recordUsage adds to the ledger.
Usage(x) == x.last

\* recordUsage answers, or throws and is ignored; then the answer is final or
\* its tools run.
UsageRecorded(r) ==
  /\ run[r].pc = "record"
  /\ \/ /\ recorded' = [recorded EXCEPT ![r] = @ + Usage(run[r])]
        /\ UNCHANGED recordFailed
     \/ /\ recordFailed' = [recordFailed EXCEPT ![r] = TRUE]
        /\ UNCHANGED recorded
  /\ run' = [run EXCEPT ![r] = IF @.final THEN Stopped(@, "COMPLETED")
                                          ELSE NextTool(@, aborted[r])]
  /\ UNCHANGED spent

\* A tool returns or throws; either way the next one is looked at.
ToolEnds(r) ==
  /\ run[r].pc = "tool"
  /\ run' = [run EXCEPT ![r] = NextTool([run[r] EXCEPT !.calls = @ - 1], aborted[r])]
  /\ UNCHANGED <<spent, recorded, recordFailed>>

Step(r) == ChatFails(r) \/ ChatAnswers(r) \/ UsageRecorded(r) \/ ToolEnds(r)

\* The callers change their minds.
IsAbortedChanges ==
  /\ aborted' \in [Runs -> BOOLEAN]
  /\ aborted' # aborted
  /\ UNCHANGED <<run, spent, recorded, recordFailed>>

Next ==
  \/ \E r \in Runs : Begin(r) /\ UNCHANGED aborted
  \/ \E r \in Runs : Step(r) /\ UNCHANGED aborted
  \/ IsAbortedChanges

Spec == Init /\ [][Next]_vars

\* Every await of the runtime is answered: a fetch, a repository call and a
\* tool all end in a result or an error.
FairSpec == Spec /\ \A r \in Runs : WF_vars(Step(r) /\ UNCHANGED aborted)

--------------------------------------------------------------------------------
(* Properties. *)

\* The cost cap is looked at between answers, so it is overrun by less than
\* one answer: whatever the tools, aborts and failures, what a run was given
\* before its last answer is below the cap.
CostCapped ==
  \A r \in Runs : spent[r] = 0 \/ \E c \in Costs : spent[r] < MaxCost + c

\* Whichever of its awaits an aborted run is in, the next thing it does is
\* stop: it starts no tool, asks no question and records nothing more.
AbortedRunStops ==
  [][\A r \in Runs : aborted[r] /\ run'[r] # run[r] => run'[r].pc = "done"]_vars

\* The usage ledger misses no answer of a run, except one that arrived after an
\* abort, and those whose recording failed.
UsageAccounted ==
  \A r \in Runs : ~recordFailed[r] /\ spent[r] # recorded[r] =>
    /\ \/ run[r].pc = "record"
       \/ run[r].pc = "done" /\ run[r].stopReason = "CANCELLED"
    /\ \E c \in Costs : spent[r] = recorded[r] + c

\* Every run stops, however often the provider asks for another tool.
EveryRunStops ==
  \A r \in Runs : run[r].pc # "idle" ~> run[r].pc = "done"
================================================================================
