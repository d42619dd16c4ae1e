----------------------------- MODULE Platform_proofs -----------------------------
(***************************************************************************)
(* What is proved of the components that MCPlatform composes, for any      *)
(* number of handlers, rows, replicas, confidences and limits: the steps   *)
(* of the simulator, the registry of agents, the capacity loop, the        *)
(* infrastructure and the enterprise saga, tasks and goals, the loop of    *)
(* the simulator, the audit trail and the event stream, experiments, and   *)
(* the outbox.                                                             *)
(*                                                                         *)
(* Each section names the slots of MCPlatform as its component does, states*)
(* what is inductive of the component, and proves it of the component      *)
(* alone, without the bounds of its scene.  The last section carries it    *)
(* over to the scenes, and to the properties of MCPlatform.                *)
(***************************************************************************)
EXTENDS MCPlatform, SequenceTheorems, FiniteSetTheorems, WellFoundedInduction, TLAPS

-----------------------------------------------------------------------------

(***************************************************************************)
(* The steps of the simulator.                                             *)
(***************************************************************************)

AllScenarios == ToSet(Agents) \cup ToSet(Scripted)
TableSets == {Business, SalesReps, Workforce}
StepPcs == {"idle", "ensure", "list", "create", "act", "close", "narrate"}

StepState ==
  [pc : StepPcs, scenario : AllScenarios \cup {None}, todo : Seq(TableSets),
   tables : Seq(Tables), pos : Nat, wrote : BOOLEAN, persisted : BOOLEAN]

\* Whether a step may say that something was persisted.
ClaimIsTrue(scenario, persisted, wrote) ==
  persisted /\ scenario \in ToSet(Scripted) \ {"finance"} => wrote

\* What is so of the local state of a step, at each of its awaits.
StepOK(x) ==
  /\ x \in StepState
  /\ x.pc = "idle" => x = NoStep
  /\ x.pc \in {"list", "create"} => x.tables # <<>>
  /\ x.pc = "create" => x.pos \in 1 .. RosterSize[Head(x.tables)]
  /\ x.pc = "narrate" => ClaimIsTrue(x.scenario, x.persisted, x.wrote)

\* Agents are at work in agent mode only.
InMode(s) == agentMode /\ slot[s] # NoStep => slot[s].scenario \in ToSet(Agents)

RowsOK ==
  /\ rows = [t \in Tables |-> rows[t]]
  /\ \A t \in Tables : rows[t] \in [1 .. RosterSize[t] -> Nat]

\* A step that creates rows finds those to come not created.
Unseeded(s) ==
  slot[s].pc = "create" =>
    LET t == Head(slot[s].tables)
    IN \A m \in slot[s].pos .. RosterSize[t] : rows[t][m] = 0

SeededOnce ==
  ~overlapped =>
    /\ \A t \in Tables : \A n \in 1 .. RosterSize[t] : rows[t][n] <= 1
    /\ \A s, r \in UnderWay : s = r
    /\ \A s \in Slots : Unseeded(s)

StepsInv ==
  /\ agentMode \in BOOLEAN
  /\ cached \subseteq Tables
  /\ abandoned \subseteq UnderWay
  /\ slot \in [Slots -> StepState]
  /\ \A s \in Slots : StepOK(slot[s]) /\ InMode(s)
  /\ RowsOK
  /\ SeededOnce
  /\ ClaimsAreTrue

\* The tables the seeding functions fill, by name.
LEMMA TablesAre ==
  /\ Tables = {"customers", "warehouses", "products", "salesReps", "departments", "employees"}
  /\ \A S \in TableSets : S \in Seq(Tables) /\ S # <<>>
<1>1. /\ ToSet(Business) = {"customers", "warehouses", "products"}
      /\ ToSet(SalesReps) = {"salesReps"}
      /\ ToSet(Workforce) = {"departments", "employees"}
  BY DEF ToSet, Business, SalesReps, Workforce
<1>2. Tables = {"customers", "warehouses", "products", "salesReps", "departments", "employees"}
  BY <1>1 DEF Tables
<1> QED
  BY <1>2 DEF TableSets, Business, SalesReps, Workforce

\* The scenarios of both modes, by name.
LEMMA ScenariosAre ==
  /\ ToSet(Scripted) = {"sales", "inventory", "finance", "hris", "infra", "goal"}
  /\ ToSet(Agents) = {"sales-agent", "inventory-agent", "finance-agent", "hris-agent",
                      "infra-agent", "orchestrator", "debugger-agent", "tester-agent"}
BY DEF ToSet, Scripted, Agents

\* What a scenario seeds is a sequence of sets of tables.
LEMMA SeedsType ==
  ASSUME NEW x
  PROVE  Seeds(x) \in Seq(TableSets)
<1>1. /\ <<Business, SalesReps>> \in Seq(TableSets) /\ <<Business>> \in Seq(TableSets)
      /\ <<Workforce>> \in Seq(TableSets) /\ << >> \in Seq(TableSets)
      /\ <<Business, SalesReps, Workforce>> \in Seq(TableSets)
  BY DEF TableSets
<1> QED
  BY <1>1 DEF Seeds

\* A slot without a step has nothing to answer for.
LEMMA NoStepOK == StepOK(NoStep)
BY DEF StepOK, NoStep, StepState, StepPcs

\* One slot changes, and the tables stay.
LEMMA SlotChanges ==
  ASSUME StepsInv, NEW s \in Slots, NEW x, StepOK(x), SlotBecomes(s, x),
         x # NoStep, slot[s] # NoStep, x.scenario = slot[s].scenario,
         x.pc # "create",
         UNCHANGED <<agentMode, rows, overlapped, claims, abandoned>>,
         cached' \subseteq Tables
  PROVE  StepsInv'
<1>1. /\ slot' \in [Slots -> StepState] /\ slot'[s] = x
      /\ \A r \in Slots : r # s => slot'[r] = slot[r]
  BY DEF StepsInv, StepOK, SlotBecomes
<1>2. UnderWay' = UnderWay
  BY <1>1 DEF UnderWay
<1>3. \A r \in Slots : StepOK(slot'[r]) /\ InMode(r)'
  BY <1>1 DEF StepsInv, InMode
<1>4. SeededOnce'
  BY <1>1, <1>2 DEF StepsInv, SeededOnce, Unseeded
<1> QED
  BY <1>1, <1>2, <1>3, <1>4 DEF StepsInv, RowsOK, ClaimsAreTrue

\* A step ends, with or without an event.
LEMMA StepEnds ==
  ASSUME StepsInv, NEW s \in Slots, EndStep(s), ClaimsAreTrue',
         UNCHANGED <<agentMode, rows, cached, overlapped>>
  PROVE  StepsInv'
<1>1. /\ slot' \in [Slots -> StepState] /\ slot'[s] = NoStep
      /\ \A r \in Slots : r # s => slot'[r] = slot[r]
  BY NoStepOK DEF StepsInv, StepOK, EndStep, SlotBecomes
<1>2. UnderWay' = UnderWay \ {s}
  BY <1>1 DEF UnderWay
<1>3. \A r \in Slots : StepOK(slot'[r]) /\ InMode(r)'
  BY <1>1, NoStepOK DEF StepsInv, InMode
<1>4. SeededOnce'
  <2>1. \A r \in Slots : Unseeded(r) => Unseeded(r)'
    BY <1>1 DEF Unseeded, NoStep
  <2> QED
    BY <1>2, <2>1 DEF StepsInv, SeededOnce
<1>5. abandoned' \subseteq UnderWay'
  BY <1>2 DEF EndStep, StepsInv
<1> QED
  BY <1>1, <1>3, <1>4, <1>5 DEF StepsInv, RowsOK

\* An event that claims persistence is true if its step wrote.
LEMMA Emits ==
  ASSUME StepsInv, NEW s \in Slots, NEW p \in BOOLEAN, NEW w \in BOOLEAN, Emit(s, p, w),
         ClaimIsTrue(slot[s].scenario, p, w)
  PROVE  StepsInv'
<1>1. ClaimsAreTrue'
  BY DEF StepsInv, Emit, ClaimsAreTrue, ClaimIsTrue
<1> QED
  BY <1>1, StepEnds DEF Emit

\* A step goes on to narrate what it did, if that is true.
LEMMA StartsNarrating ==
  ASSUME StepsInv, NEW s \in Slots, slot[s] # NoStep, NEW p \in BOOLEAN, NEW w \in BOOLEAN,
         Narrates(s, p, w), ClaimIsTrue(slot[s].scenario, p, w)
  PROVE  StepsInv'
<1> DEFINE x == [slot[s] EXCEPT !.pc = "narrate", !.persisted = p, !.wrote = w]
<1>0. slot[s] \in StepState /\ StepOK(slot[s])
  BY DEF StepsInv
<1>1. /\ x \in StepState /\ x.pc = "narrate" /\ x.persisted = p /\ x.wrote = w
      /\ x.scenario = slot[s].scenario /\ x # NoStep
  BY <1>0 DEF StepState, StepPcs, NoStep
<1>2. StepOK(x)
  BY <1>1 DEF StepOK
<1>3. SlotBecomes(s, x) /\ UNCHANGED <<agentMode, rows, cached, abandoned, overlapped, claims>>
  BY DEF Narrates
<1>4. cached' \subseteq Tables
  BY <1>3 DEF StepsInv
<1> HIDE DEF x
<1> QED
  BY <1>1, <1>2, <1>3, <1>4, SlotChanges

\* The slot of a step that has dealt with a table.
LEMMA AfterTable ==
  ASSUME NEW s \in Slots, StepOK(slot[s]), slot[s].pc \in {"list", "create"}
  PROVE  /\ StepOK(TableDone(s)) /\ TableDone(s) # NoStep
         /\ TableDone(s).pc \in {"ensure", "list"} /\ TableDone(s).scenario = slot[s].scenario
         /\ StepOK(GivenUp(s)) /\ GivenUp(s) # NoStep
         /\ GivenUp(s).pc = "ensure" /\ GivenUp(s).scenario = slot[s].scenario
         /\ Head(slot[s].tables) \in Tables
<1>1. /\ slot[s] \in StepState /\ slot[s].tables \in Seq(Tables) /\ slot[s].tables # <<>>
  BY DEF StepOK, StepState
<1>2. Head(slot[s].tables) \in Tables /\ Tail(slot[s].tables) \in Seq(Tables)
  BY <1>1
<1>3. Len(slot[s].tables) # 1 => Tail(slot[s].tables) # <<>>
  <2>1. Len(slot[s].tables) \in Nat \ {0} /\ Len(Tail(slot[s].tables)) = Len(slot[s].tables) - 1
    BY <1>1, EmptySeq, HeadTailProperties
  <2>2. ASSUME Len(slot[s].tables) # 1, Tail(slot[s].tables) = << >>
        PROVE  FALSE
    <3>1. Len(<< >>) = 0
      OBVIOUS
    <3>2. Len(Tail(slot[s].tables)) = 0
      BY <2>2, <3>1, Zenon
    <3> QED
      BY <2>1, <2>2, <3>2
  <2> QED
    BY <2>2
<1>4. StepOK(GivenUp(s)) /\ GivenUp(s).pc = "ensure" /\ GivenUp(s).scenario = slot[s].scenario
  <2>1. << >> \in Seq(Tables)
    OBVIOUS
  <2> QED
    BY <1>1, <2>1 DEF GivenUp, StepOK, StepState, StepPcs
<1>5. CASE Len(slot[s].tables) = 1
  <2>1. TableDone(s) = GivenUp(s)
    BY <1>5 DEF TableDone, GivenUp
  <2> QED
    BY <1>2, <1>4, <2>1 DEF NoStep
<1>6. CASE Len(slot[s].tables) # 1
  <2> DEFINE rest == Tail(slot[s].tables)
             x == [slot[s] EXCEPT !.pc = "list", !.tables = rest, !.pos = 0]
  <2>1. TableDone(s) = x
    BY <1>6 DEF TableDone
  <2>2. x \in StepState /\ x.pc = "list" /\ x.scenario = slot[s].scenario /\ x.tables = rest
    <3>1. rest \in Seq(Tables)
      BY <1>2
    <3> HIDE DEF rest
    <3> QED
      BY <1>1, <3>1 DEF StepState, StepPcs
  <2> HIDE DEF x
  <2>3. StepOK(x)
    BY <1>3, <1>6, <2>2 DEF StepOK
  <2> QED
    BY <1>2, <1>4, <2>1, <2>2, <2>3 DEF NoStep
<1> QED
  BY <1>5, <1>6

\* The ensure...SeedData functions are called one after another.
LEMMA EnsurePreserves ==
  ASSUME StepsInv, NEW s \in Slots, Ensure(s)
  PROVE  StepsInv'
<1> DEFINE todo == slot[s].todo
<1>0. /\ slot[s] \in StepState /\ StepOK(slot[s]) /\ slot[s].pc = "ensure" /\ slot[s] # NoStep
      /\ todo \in Seq(TableSets)
  BY DEF StepsInv, Ensure, NoStep, StepState
<1>1. /\ UNCHANGED <<agentMode, rows, cached, abandoned, overlapped, claims>>
      /\ cached' \subseteq Tables
  BY DEF Ensure, StepsInv
<1>2. CASE todo = <<>>
  <2> DEFINE x == [slot[s] EXCEPT !.pc = "act"]
  <2>1. SlotBecomes(s, x)
    BY <1>2 DEF Ensure
  <2>2. StepOK(x) /\ x.pc = "act" /\ x.scenario = slot[s].scenario /\ x # NoStep
    BY <1>0 DEF StepOK, StepState, StepPcs, NoStep
  <2> QED
    BY <1>0, <1>1, <2>1, <2>2, SlotChanges
<1>3. CASE todo # <<>>
  <2>1. Head(todo) \in TableSets /\ Tail(todo) \in Seq(TableSets)
    BY <1>0, <1>3
  <2>2. Head(todo) \in Seq(Tables) /\ Head(todo) # <<>>
    BY <2>1, TablesAre
  <2>3. CASE ToSet(Head(todo)) \subseteq cached
    <3> DEFINE x == [slot[s] EXCEPT !.todo = Tail(todo)]
    <3>1. SlotBecomes(s, x)
      BY <1>3, <2>3 DEF Ensure
    <3>2. StepOK(x) /\ x.pc = "ensure" /\ x.scenario = slot[s].scenario /\ x # NoStep
      BY <1>0, <2>1 DEF StepOK, StepState, StepPcs, NoStep
    <3> QED
      BY <1>0, <1>1, <3>1, <3>2, SlotChanges
  <2>4. CASE ~(ToSet(Head(todo)) \subseteq cached)
    <3> DEFINE x == [slot[s] EXCEPT !.pc = "list", !.tables = Head(todo), !.todo = Tail(todo)]
    <3>1. SlotBecomes(s, x)
      BY <1>3, <2>4 DEF Ensure
    <3>2. StepOK(x) /\ x.pc = "list" /\ x.scenario = slot[s].scenario /\ x # NoStep
      BY <1>0, <2>1, <2>2 DEF StepOK, StepState, StepPcs, NoStep
    <3> QED
      BY <1>0, <1>1, <3>1, <3>2, SlotChanges
  <2> QED
    BY <2>3, <2>4
<1> QED
  BY <1>2, <1>3

\* A seeding function lists its table, and skips one that has rows.
LEMMA ListTablePreserves ==
  ASSUME StepsInv, NEW s \in Slots, ListTable(s)
  PROVE  StepsInv'
<1> DEFINE t == Head(slot[s].tables)
<1>0. /\ slot[s] \in StepState /\ StepOK(slot[s]) /\ slot[s].pc = "list" /\ slot[s] # NoStep
  BY DEF StepsInv, ListTable, NoStep
<1>1. t \in Tables
  BY <1>0, AfterTable
<1>2. UNCHANGED <<agentMode, rows, abandoned, overlapped, claims>>
  BY DEF ListTable
<1>3. CASE SlotBecomes(s, TableDone(s)) /\ cached' = cached \cup {t}
  BY <1>0, <1>1, <1>2, <1>3, AfterTable, SlotChanges DEF StepsInv
<1>4. CASE SlotBecomes(s, GivenUp(s)) /\ UNCHANGED cached
  BY <1>0, <1>2, <1>4, AfterTable, SlotChanges DEF StepsInv
<1>5. CASE ~Adopted(t) /\ SlotBecomes(s, [slot[s] EXCEPT !.pc = "create", !.pos = 1]) /\ UNCHANGED cached
  <2> DEFINE x == [slot[s] EXCEPT !.pc = "create", !.pos = 1]
  <2>1. RosterSize[t] \in Nat \ {0}
    BY <1>1, RosterAssumption
  <2>2. /\ StepOK(x) /\ x.pc = "create" /\ x.scenario = slot[s].scenario /\ x # NoStep
        /\ x.pos = 1 /\ x.tables = slot[s].tables
    <3>1. /\ x \in StepState /\ x.pc = "create" /\ x.scenario = slot[s].scenario
          /\ x.pos = 1 /\ x.tables = slot[s].tables
      BY <1>0 DEF StepState, StepPcs
    <3> HIDE DEF x
    <3> QED
      BY <1>0, <2>1, <3>1 DEF StepOK, NoStep
  <2>3. SlotBecomes(s, x)
    BY <1>5
  <2> HIDE DEF x
  <2>4. /\ slot' \in [Slots -> StepState] /\ slot'[s] = x
        /\ \A r \in Slots : r # s => slot'[r] = slot[r]
    BY <2>2, <2>3 DEF StepsInv, StepOK, SlotBecomes
  <2>5. UnderWay' = UnderWay
    BY <1>0, <2>2, <2>4 DEF UnderWay
  <2>6. \A r \in Slots : StepOK(slot'[r]) /\ InMode(r)'
    BY <1>0, <1>2, <2>2, <2>4 DEF StepsInv, InMode
  <2>7. Unseeded(s)'
    <3>1. \A n \in 1 .. RosterSize[t] : rows[t][n] = 0
      BY <1>1, <1>5, <2>1 DEF Adopted, Exist, StepsInv, RowsOK
    <3> QED
      BY <1>2, <2>2, <2>4, <3>1 DEF Unseeded
  <2>8. SeededOnce'
    <3>1. \A r \in Slots : Unseeded(r) => Unseeded(r)'
      BY <1>2, <2>4, <2>7 DEF Unseeded
    <3> QED
      BY <1>2, <2>5, <3>1 DEF StepsInv, SeededOnce
  <2> QED
    BY <1>2, <1>5, <2>4, <2>5, <2>6, <2>8 DEF StepsInv, RowsOK, ClaimsAreTrue
<1> QED
  BY <1>3, <1>4, <1>5 DEF ListTable

\* It creates the rows one by one; who is alone creates none twice.
LEMMA CreateRowPreserves ==
  ASSUME StepsInv, NEW s \in Slots, CreateRow(s)
  PROVE  StepsInv'
<1> DEFINE t == Head(slot[s].tables)
           n == slot[s].pos
           x == IF n = RosterSize[t] THEN TableDone(s) ELSE [slot[s] EXCEPT !.pos = n + 1]
<1>0. /\ slot[s] \in StepState /\ StepOK(slot[s]) /\ slot[s].pc = "create" /\ slot[s] # NoStep
  BY DEF StepsInv, CreateRow, NoStep
<1>1. t \in Tables /\ RosterSize[t] \in Nat \ {0} /\ n \in 1 .. RosterSize[t]
  BY <1>0, AfterTable, RosterAssumption DEF StepOK
<1>2. UNCHANGED <<agentMode, abandoned, overlapped, claims>>
  BY DEF CreateRow
<1>3. CASE SlotBecomes(s, GivenUp(s)) /\ UNCHANGED <<rows, cached>>
  BY <1>0, <1>2, <1>3, AfterTable, SlotChanges DEF StepsInv
<1>4. CASE /\ rows' = [rows EXCEPT ![t][n] = @ + 1]
           /\ cached' = cached \cup {t}
           /\ SlotBecomes(s, x)
  <2>1. /\ StepOK(x) /\ x # NoStep /\ x.scenario = slot[s].scenario
        /\ x.pc = "create" => x.tables = slot[s].tables /\ x.pos = n + 1
    <3>1. CASE n = RosterSize[t]
      BY <1>0, <3>1, AfterTable
    <3>2. CASE n # RosterSize[t]
      <4>1. x = [slot[s] EXCEPT !.pos = n + 1] /\ n + 1 \in 1 .. RosterSize[t]
        BY <1>1, <3>2
      <4> QED
        BY <1>0, <1>1, <4>1 DEF StepOK, StepState, StepPcs, NoStep
    <3> QED
      BY <3>1, <3>2
  <2> HIDE DEF x
  <2>2. /\ slot' \in [Slots -> StepState] /\ slot'[s] = x
        /\ \A r \in Slots : r # s => slot'[r] = slot[r]
    BY <1>4, <2>1 DEF StepsInv, StepOK, SlotBecomes
  <2>3. UnderWay' = UnderWay
    BY <1>0, <2>1, <2>2 DEF UnderWay
  <2>4. \A r \in Slots : StepOK(slot'[r]) /\ InMode(r)'
    BY <1>0, <1>2, <2>1, <2>2 DEF StepsInv, InMode
  <2>5. /\ rows' = [u \in Tables |-> rows'[u]]
        /\ \A u \in Tables : rows[u] \in [1 .. RosterSize[u] -> Nat]
        /\ rows'[t] = [rows[t] EXCEPT ![n] = rows[t][n] + 1]
        /\ \A u \in Tables : u # t => rows'[u] = rows[u]
    BY <1>1, <1>4 DEF StepsInv, RowsOK
  <2>6. RowsOK'
    <3>1. rows'[t] \in [1 .. RosterSize[t] -> Nat]
      BY <1>1, <2>5
    <3>2. \A u \in Tables : rows'[u] \in [1 .. RosterSize[u] -> Nat]
      BY <2>5, <3>1
    <3> QED
      BY <2>5, <3>2 DEF RowsOK
  <2>7. SeededOnce'
    <3> SUFFICES ASSUME ~overlapped
                 PROVE  /\ \A u \in Tables : \A m \in 1 .. RosterSize[u] : rows'[u][m] <= 1
                        /\ \A r, q \in UnderWay' : r = q
                        /\ \A r \in Slots : Unseeded(r)'
      BY <1>2 DEF SeededOnce
    <3>1. /\ \A u \in Tables : \A m \in 1 .. RosterSize[u] : rows[u][m] <= 1
          /\ \A r, q \in UnderWay : r = q
          /\ \A m \in n .. RosterSize[t] : rows[t][m] = 0
      BY <1>0 DEF StepsInv, SeededOnce, Unseeded
    <3>2. rows[t][n] = 0
      BY <1>1, <3>1
    <3>3. \A u \in Tables : \A m \in 1 .. RosterSize[u] : rows'[u][m] <= 1
      BY <1>1, <2>5, <3>1, <3>2
    <3>4. \A r \in Slots : r # s => slot'[r].pc # "create"
      BY <1>0, <2>2, <3>1 DEF UnderWay, NoStep
    <3>5. Unseeded(s)'
      <4>1. \A m \in n + 1 .. RosterSize[t] : rows'[t][m] = 0
        BY <1>1, <2>5, <3>1
      <4> QED
        BY <2>1, <2>2, <4>1 DEF Unseeded
    <3> QED
      BY <2>3, <3>1, <3>3, <3>4, <3>5 DEF Unseeded
  <2> QED
    BY <1>1, <1>2, <1>4, <2>2, <2>3, <2>4, <2>6, <2>7 DEF StepsInv, ClaimsAreTrue
<1> QED
  BY <1>3, <1>4 DEF CreateRow
\* The turns: those whose turn came in this round have had one more.
TurnsInv ==
  /\ agentMode \in BOOLEAN
  /\ actionCursor \in 0 .. Len(scenarios) - 1
  /\ turns \in [ToSet(scenarios) -> Nat]
  /\ \E q \in Nat : \A i \in 1 .. Len(scenarios) :
       turns[scenarios[i]] = IF i <= actionCursor THEN q + 1 ELSE q

\* The roster of either mode names each scenario once.
LEMMA RosterOfScenarios ==
  ASSUME agentMode \in BOOLEAN
  PROVE  /\ Len(scenarios) \in {6, 8}
         /\ \A i \in 1 .. Len(scenarios) : scenarios[i] \in ToSet(scenarios)
         /\ \A x \in ToSet(scenarios) : \E i \in 1 .. Len(scenarios) : x = scenarios[i]
         /\ \A i, j \in 1 .. Len(scenarios) : scenarios[i] = scenarios[j] => i = j
         /\ ToSet(scenarios) \subseteq AllScenarios
         /\ agentMode => ToSet(scenarios) = ToSet(Agents)
<1>1. Len(Agents) = 8 /\ \A i, j \in 1 .. 8 : Agents[i] = Agents[j] => i = j
  BY DEF Agents
<1>2. Len(Scripted) = 6 /\ \A i, j \in 1 .. 6 : Scripted[i] = Scripted[j] => i = j
  BY DEF Scripted
<1>3. DOMAIN Agents = 1 .. 8 /\ DOMAIN Scripted = 1 .. 6
  BY DEF Agents, Scripted
<1>4. CASE agentMode
  <2>1. scenarios = Agents
    BY <1>4 DEF scenarios
  <2> QED
    BY <1>1, <1>3, <1>4, <2>1 DEF ToSet, AllScenarios
<1>5. CASE ~agentMode
  <2>1. scenarios = Scripted
    BY <1>5 DEF scenarios
  <2> QED
    BY <1>2, <1>3, <1>5, <2>1 DEF ToSet, AllScenarios
<1> QED
  BY <1>4, <1>5

\* Nobody has had a turn at the start.
LEMMA TurnsInit == StepsInit => TurnsInv
<1> SUFFICES ASSUME StepsInit
             PROVE  TurnsInv
  OBVIOUS
<1>1. agentMode \in BOOLEAN /\ actionCursor = 0 /\ turns = [x \in ToSet(scenarios) |-> 0]
  BY DEF StepsInit
<1>2. \A i \in 1 .. Len(scenarios) : turns[scenarios[i]] = IF i <= actionCursor THEN 0 + 1 ELSE 0
  BY <1>1, RosterOfScenarios
<1> QED
  BY <1>1, <1>2, RosterOfScenarios DEF TurnsInv

\* A step that begins is the turn of whoever is next.
LEMMA BeginTakesTurn ==
  ASSUME TurnsInv, NEW s \in Slots, BeginStep(s)
  PROVE  TurnsInv'
<1> DEFINE n == Len(scenarios)
           x == scenarios[actionCursor + 1]
<1>1. /\ n \in {6, 8} /\ actionCursor \in 0 .. n - 1 /\ agentMode \in BOOLEAN
      /\ turns \in [ToSet(scenarios) -> Nat] /\ x \in ToSet(scenarios)
  BY RosterOfScenarios DEF TurnsInv
<1>2. /\ agentMode' = agentMode /\ scenarios' = scenarios
      /\ turns' = [turns EXCEPT ![x] = turns[x] + 1]
      /\ actionCursor' = (actionCursor + 1) % n
  BY DEF BeginStep, NextTurn, scenarios
<1>3. /\ \A i, j \in 1 .. n : scenarios[i] = scenarios[j] => i = j
      /\ \A i \in 1 .. n : scenarios[i] \in ToSet(scenarios)
  BY RosterOfScenarios DEF TurnsInv
<1> HIDE DEF n
<1>4. turns' \in [ToSet(scenarios) -> Nat]
  BY <1>1, <1>2
<1>5. PICK q \in Nat : \A i \in 1 .. n :
        turns[scenarios[i]] = IF i <= actionCursor THEN q + 1 ELSE q
  BY DEF TurnsInv, n
<1>6. \A i \in 1 .. n : turns'[scenarios[i]] = IF i <= actionCursor + 1 THEN q + 1 ELSE q
  <2> TAKE i \in 1 .. n
  <2>1. CASE i = actionCursor + 1
    BY <1>1, <1>2, <1>5, <2>1
  <2>2. CASE i # actionCursor + 1
    <3>1. scenarios[i] # x /\ scenarios[i] \in ToSet(scenarios)
      BY <1>1, <1>3, <2>2
    <3>2. turns'[scenarios[i]] = turns[scenarios[i]]
      BY <1>1, <1>2, <3>1
    <3> QED
      BY <1>1, <1>5, <2>2, <3>2
  <2> QED
    BY <2>1, <2>2
<1>7. CASE actionCursor + 1 < n
  <2>1. actionCursor' = actionCursor + 1
    BY <1>1, <1>2, <1>7
  <2>2. \A i \in 1 .. n : turns'[scenarios'[i]] = IF i <= actionCursor' THEN q + 1 ELSE q
    BY <1>2, <1>6, <2>1
  <2>3. actionCursor' \in 0 .. n - 1
    BY <1>1, <1>7, <2>1
  <2> QED
    BY <1>1, <1>2, <1>4, <1>5, <2>2, <2>3 DEF TurnsInv, n
<1>8. CASE actionCursor + 1 = n
  <2>1. actionCursor' = 0
    BY <1>1, <1>2, <1>8
  <2>2. \A i \in 1 .. n : turns'[scenarios'[i]] = IF i <= actionCursor' THEN (q + 1) + 1 ELSE q + 1
    BY <1>1, <1>2, <1>6, <1>8, <2>1
  <2>3. actionCursor' \in 0 .. n - 1 /\ q + 1 \in Nat
    BY <1>1, <1>5, <2>1
  <2> QED
    BY <1>1, <1>2, <1>4, <2>2, <2>3 DEF TurnsInv, n
<1> QED
  BY <1>1, <1>7, <1>8

\* Whoever has had a turn, the next one has not.
LEMMA TurnsStep == TurnsInv /\ [StepsNext]_stepVars => TurnsInv'
<1> SUFFICES ASSUME TurnsInv, [StepsNext]_stepVars
             PROVE  TurnsInv'
  OBVIOUS
<1>1. CASE UNCHANGED <<agentMode, actionCursor, turns>>
  BY <1>1 DEF TurnsInv, scenarios
<1>2. ASSUME NEW s \in Slots, BeginStep(s)
      PROVE  TurnsInv'
  BY <1>2, BeginTakesTurn
<1>3. CASE Restart
  <2>1. /\ agentMode' = agentMode /\ actionCursor' = 0 /\ scenarios' = scenarios
        /\ turns' = [x \in ToSet(scenarios) |-> 0] /\ agentMode \in BOOLEAN
    BY <1>3 DEF Restart, scenarios, TurnsInv
  <2>2. \A i \in 1 .. Len(scenarios) : turns'[scenarios[i]] = IF i <= actionCursor' THEN 0 + 1 ELSE 0
    BY <2>1, RosterOfScenarios
  <2>3. turns' \in [ToSet(scenarios) -> Nat]
    BY <2>1
  <2>5. actionCursor' \in 0 .. Len(scenarios) - 1
    <3> DEFINE n == Len(scenarios)
    <3>1. n \in {6, 8}
      BY <2>1, RosterOfScenarios
    <3> HIDE DEF n
    <3>2. 0 \in 0 .. n - 1
      BY <3>1
    <3> QED
      BY <2>1, <3>2 DEF n
  <2>4. \E q \in Nat : \A i \in 1 .. Len(scenarios) :
          turns'[scenarios[i]] = IF i <= actionCursor' THEN q + 1 ELSE q
    BY <2>2
  <2> QED
    BY <2>1, <2>3, <2>4, <2>5 DEF TurnsInv
<1>4. ASSUME NEW s \in Slots, StepsOf(s), ~BeginStep(s)
      PROVE  UNCHANGED <<agentMode, actionCursor, turns>>
  BY <1>4 DEF StepsOf, Ensure, ListTable, CreateRow, SalesInbound, CloseLead, InventoryCheck,
    FinanceAudit, HrisCheck, InfraPulse, ReasoningGoal, RunAgent, Narrated, Narrates, Emit
<1> QED
  BY <1>1, <1>2, <1>3, <1>4 DEF StepsNext, stepVars, StartSimulator, StopSimulator

\* Whoever has had q or q + 1 turns is not two ahead of another.
LEMMA TurnsShare == TurnsInv => EveryoneHasATurn
<1> SUFFICES ASSUME TurnsInv, NEW x \in DOMAIN turns, NEW y \in DOMAIN turns
             PROVE  turns[x] <= turns[y] + 1
  BY DEF EveryoneHasATurn
<1>1. PICK q \in Nat : \A i \in 1 .. Len(scenarios) :
        turns[scenarios[i]] = IF i <= actionCursor THEN q + 1 ELSE q
  BY DEF TurnsInv
<1>2. /\ \E i \in 1 .. Len(scenarios) : x = scenarios[i]
      /\ \E i \in 1 .. Len(scenarios) : y = scenarios[i]
  BY RosterOfScenarios DEF TurnsInv
<1>3. turns[x] \in {q, q + 1} /\ turns[y] \in {q, q + 1}
  BY <1>1, <1>2
<1> QED
  BY <1>1, <1>3

\* However steps fail, are stopped or overlap, and whenever the process restarts
\* (actionCursor of executeSimulatedStep), no agent and no scenario is two turns
\* ahead of another.
THEOREM TurnsAreShared == StepsSpec => []EveryoneHasATurn
<1> QED
  BY TurnsShare, TurnsInit, TurnsStep, PTL DEF StepsSpec
\* A step that begins, of either mode.
LEMMA BeginPreserves ==
  ASSUME StepsInv, TurnsInv, NEW s \in Slots, BeginStep(s)
  PROVE  StepsInv'
<1> DEFINE scenario == scenarios[actionCursor + 1]
           seeds == Seeds(scenario)
           ensure == "ensure"
           x == [NoStep EXCEPT !.pc = ensure, !.scenario = scenario, !.todo = seeds]
<1>1. /\ scenario \in AllScenarios /\ (agentMode => scenario \in ToSet(Agents))
  BY RosterOfScenarios DEF TurnsInv
<1>2. /\ x \in StepState /\ x.pc = "ensure" /\ x.scenario = scenario
  <2>1. seeds \in Seq(TableSets) /\ ensure \in StepPcs /\ NoStep \in StepState
    BY SeedsType, NoStepOK DEF StepOK, StepPcs
  <2> HIDE DEF seeds, ensure, scenario
  <2>2. x \in StepState /\ x.pc = ensure /\ x.scenario = scenario
    BY <1>1, <2>1 DEF StepState
  <2> QED
    BY <2>2 DEF ensure
<1>3. /\ slot' = [slot EXCEPT ![s] = x] /\ slot[s] = NoStep
      /\ UNCHANGED <<agentMode, rows, cached, abandoned, claims>>
      /\ overlapped' = (overlapped \/ UnderWay # {})
  BY DEF BeginStep
<1> HIDE DEF x, scenario
<1>4. StepOK(x) /\ x # NoStep
  BY <1>2 DEF StepOK, NoStep
<1>5. /\ slot' \in [Slots -> StepState] /\ slot'[s] = x
      /\ \A r \in Slots : r # s => slot'[r] = slot[r]
  BY <1>2, <1>3 DEF StepsInv
<1>6. UnderWay' = UnderWay \cup {s}
  BY <1>4, <1>5 DEF UnderWay
<1>7. \A r \in Slots : StepOK(slot'[r]) /\ InMode(r)'
  BY <1>1, <1>2, <1>3, <1>4, <1>5 DEF StepsInv, InMode
<1>8. SeededOnce'
  <2>1. ~overlapped' => ~overlapped /\ UnderWay' = {s}
    BY <1>3, <1>6
  <2>2. \A r \in Slots : Unseeded(r) => Unseeded(r)'
    BY <1>2, <1>3, <1>5 DEF Unseeded
  <2> QED
    BY <1>3, <2>1, <2>2 DEF StepsInv, SeededOnce
<1> QED
  BY <1>3, <1>5, <1>6, <1>7, <1>8 DEF StepsInv, RowsOK, ClaimsAreTrue

\* A restart forgets the steps, and in memory the rows.
LEMMA RestartPreserves ==
  ASSUME StepsInv, Restart
  PROVE  StepsInv'
<1>1. /\ slot' = [s \in Slots |-> NoStep]
      /\ UNCHANGED <<agentMode, overlapped, claims>> /\ cached' = {} /\ abandoned' = {}
      /\ rows' = [t \in Tables |-> IF storage = "memory" \/ t = "salesReps" THEN NoRows[t] ELSE rows[t]]
  BY DEF Restart
<1>2. slot' \in [Slots -> StepState] /\ \A s \in Slots : slot'[s] = NoStep
  BY <1>1, NoStepOK DEF StepOK
<1>3. UnderWay' = {}
  BY <1>2 DEF UnderWay
<1>4. \A s \in Slots : StepOK(slot'[s]) /\ InMode(s)' /\ Unseeded(s)'
  <2>1. \A s \in Slots : slot'[s].pc = "idle"
    BY <1>2 DEF NoStep
  <2> QED
    BY <1>2, <2>1, NoStepOK DEF InMode, Unseeded
<1>5. \A t \in Tables : rows'[t] = rows[t] \/ rows'[t] = [n \in 1 .. RosterSize[t] |-> 0]
  BY <1>1 DEF NoRows
<1>6. RowsOK'
  <2>1. ASSUME NEW t \in Tables
        PROVE  rows'[t] \in [1 .. RosterSize[t] -> Nat]
    <3>1. rows[t] \in [1 .. RosterSize[t] -> Nat]
      BY DEF StepsInv, RowsOK
    <3>2. [n \in 1 .. RosterSize[t] |-> 0] \in [1 .. RosterSize[t] -> Nat]
      OBVIOUS
    <3> QED
      BY <1>5, <3>1, <3>2
  <2>2. rows' = [t \in Tables |-> rows'[t]]
    BY <1>1
  <2> QED
    BY <2>1, <2>2 DEF RowsOK
<1>7. SeededOnce'
  <2>1. ASSUME ~overlapped, NEW t \in Tables, NEW n \in 1 .. RosterSize[t]
        PROVE  rows'[t][n] <= 1
    <3>1. rows[t][n] <= 1
      BY <2>1 DEF StepsInv, SeededOnce
    <3>2. rows'[t][n] = rows[t][n] \/ rows'[t][n] = 0
      BY <1>5
    <3> QED
      BY <3>1, <3>2
  <2> QED
    BY <1>1, <1>3, <1>4, <2>1 DEF SeededOnce
<1> QED
  BY <1>1, <1>2, <1>3, <1>4, <1>6, <1>7 DEF StepsInv, ClaimsAreTrue

\* The operations and the runs of agents: what they say is what they did.
LEMMA OperationsPreserve ==
  ASSUME StepsInv, NEW s \in Slots,
         \/ SalesInbound(s) \/ CloseLead(s) \/ InventoryCheck(s) \/ FinanceAudit(s)
         \/ HrisCheck(s) \/ InfraPulse(s) \/ ReasoningGoal(s) \/ RunAgent(s) \/ Narrated(s)
  PROVE  StepsInv'
<1>0. /\ slot[s] \in StepState /\ StepOK(slot[s]) /\ InMode(s)
      /\ slot[s].pc # "idle" => slot[s] # NoStep
  BY DEF StepsInv, NoStep
<1>1. ASSUME NEW p \in BOOLEAN, NEW w \in BOOLEAN, slot[s].pc # "idle",
             Narrates(s, p, w), p => w
      PROVE  StepsInv'
  BY <1>0, <1>1, StartsNarrating DEF ClaimIsTrue
<1>2. ASSUME NEW w \in BOOLEAN, Emit(s, FALSE, w)
      PROVE  StepsInv'
  BY <1>2, Emits DEF ClaimIsTrue
<1>3. CASE SalesInbound(s)
  <2>1. slot[s].pc = "act"
    BY <1>3 DEF SalesInbound, Acts
  <2>2. CASE Narrates(s, TRUE, TRUE) \/ Narrates(s, FALSE, FALSE)
    BY <1>1, <2>1, <2>2
  <2>3. CASE /\ SlotBecomes(s, [slot[s] EXCEPT !.pc = "close"])
             /\ UNCHANGED <<agentMode, storage, running, actionCursor, rows, cached,
                            abandoned, turns, overlapped, claims>>
    <3> DEFINE x == [slot[s] EXCEPT !.pc = "close"]
    <3>1. x \in StepState /\ x.pc = "close" /\ x.scenario = slot[s].scenario
      BY <1>0 DEF StepState, StepPcs
    <3>2. SlotBecomes(s, x)
      BY <2>3
    <3> HIDE DEF x
    <3>3. StepOK(x) /\ x # NoStep /\ slot[s] # NoStep /\ cached' \subseteq Tables
      BY <1>0, <2>1, <2>3, <3>1 DEF StepOK, NoStep, StepsInv
    <3> QED
      BY <2>3, <3>1, <3>2, <3>3, SlotChanges
  <2> QED
    BY <1>3, <2>2, <2>3 DEF SalesInbound
<1>4. CASE CloseLead(s)
  BY <1>1, <1>4 DEF CloseLead
<1>5. CASE InventoryCheck(s)
  BY <1>1, <1>5 DEF InventoryCheck, Acts
<1>6. CASE FinanceAudit(s)
  <2>1. slot[s].pc = "act" /\ slot[s].scenario = "finance"
    BY <1>6 DEF FinanceAudit, Acts
  <2>2. CASE Narrates(s, TRUE, FALSE)
    BY <1>0, <2>1, <2>2, StartsNarrating DEF ClaimIsTrue
  <2> QED
    BY <1>2, <1>6, <2>2 DEF FinanceAudit
<1>7. CASE HrisCheck(s)
  BY <1>1, <1>2, <1>7 DEF HrisCheck, Acts
<1>8. CASE InfraPulse(s)
  BY <1>1, <1>2, <1>8 DEF InfraPulse, Acts
<1>9. CASE ReasoningGoal(s)
  BY <1>1, <1>2, <1>9 DEF ReasoningGoal, Acts
<1>10. CASE RunAgent(s)
  <2>1. slot[s].pc = "act" /\ agentMode /\ slot[s].scenario \in ToSet(Agents)
    BY <1>0, <1>10 DEF RunAgent, InMode
  <2>2. slot[s].scenario \notin ToSet(Scripted)
    BY <2>1, ScenariosAre
  <2>3. ASSUME NEW p \in BOOLEAN, NEW w \in BOOLEAN, Narrates(s, p, w)
        PROVE  StepsInv'
    BY <1>0, <2>1, <2>2, <2>3, StartsNarrating DEF ClaimIsTrue
  <2>4. CASE /\ EndStep(s)
             /\ UNCHANGED <<agentMode, storage, running, actionCursor, rows, cached, turns,
                            overlapped, claims>>
    <3>1. ClaimsAreTrue'
      BY <2>4 DEF ClaimsAreTrue, StepsInv
    <3> QED
      BY <2>4, <3>1, StepEnds
  <2> QED
    BY <1>10, <2>3, <2>4 DEF RunAgent
<1>11. CASE Narrated(s)
  <2>1. /\ slot[s].persisted \in BOOLEAN /\ slot[s].wrote \in BOOLEAN
        /\ ClaimIsTrue(slot[s].scenario, slot[s].persisted, slot[s].wrote)
    BY <1>0, <1>11 DEF Narrated, StepOK, StepState
  <2>2. CASE Emit(s, slot[s].persisted, slot[s].wrote)
    BY <2>1, <2>2, Emits
  <2>3. CASE /\ EndStep(s)
             /\ UNCHANGED <<agentMode, storage, running, actionCursor, rows, cached, turns,
                            overlapped, claims>>
    <3>1. ClaimsAreTrue'
      BY <2>3 DEF ClaimsAreTrue, StepsInv
    <3> QED
      BY <2>3, <3>1, StepEnds
  <2> QED
    BY <1>11, <2>2, <2>3 DEF Narrated
<1> QED
  BY <1>3, <1>4, <1>5, <1>6, <1>7, <1>8, <1>9, <1>10, <1>11

\* Every step of the simulator keeps the invariant.
LEMMA StepsStep == StepsInv /\ TurnsInv /\ [StepsNext]_stepVars => StepsInv'
<1> SUFFICES ASSUME StepsInv, TurnsInv, [StepsNext]_stepVars
             PROVE  StepsInv'
  OBVIOUS
<1>1. CASE /\ UNCHANGED <<agentMode, rows, cached, slot, overlapped, claims>>
           /\ abandoned' \subseteq UnderWay
  BY <1>1 DEF StepsInv, UnderWay, InMode, RowsOK, SeededOnce, Unseeded, ClaimsAreTrue
<1>2. CASE StartSimulator \/ StopSimulator \/ UNCHANGED stepVars
  BY <1>1, <1>2 DEF StartSimulator, StopSimulator, stepVars, StepsInv
<1>3. ASSUME NEW s \in Slots, StepsOf(s)
      PROVE  StepsInv'
  BY <1>3, BeginPreserves, EnsurePreserves, ListTablePreserves, CreateRowPreserves,
    OperationsPreserve DEF StepsOf
<1> QED
  BY <1>2, <1>3, RestartPreserves DEF StepsNext

\* The invariant of the steps holds at the start.
LEMMA StepsInitially == StepsInit => StepsInv
<1> SUFFICES ASSUME StepsInit
             PROVE  StepsInv
  OBVIOUS
<1>1. /\ agentMode \in BOOLEAN /\ rows = NoRows /\ cached = {} /\ abandoned = {} /\ claims = {}
      /\ slot = [s \in Slots |-> NoStep]
  BY DEF StepsInit
<1>2. slot \in [Slots -> StepState] /\ UnderWay = {}
  BY <1>1, NoStepOK DEF StepOK, UnderWay
<1>3. \A s \in Slots : StepOK(slot[s]) /\ InMode(s) /\ Unseeded(s)
  BY <1>1, NoStepOK DEF InMode, Unseeded, NoStep
<1>4. RowsOK /\ \A t \in Tables : \A n \in 1 .. RosterSize[t] : rows[t][n] = 0
  BY <1>1 DEF RowsOK, NoRows
<1> QED
  BY <1>1, <1>2, <1>3, <1>4 DEF StepsInv, SeededOnce, ClaimsAreTrue

\* The invariant of the steps implies what they are to say.
LEMMA StepsAreSo == StepsInv => StepsTellTheTruth
<1> SUFFICES ASSUME StepsInv
             PROVE  StepsTellTheTruth
  OBVIOUS
<1>1. StepsTypeOK
  BY DEF StepsInv, StepsTypeOK, StepState, StepPcs
<1>2. SeededTwiceOnlyByOverlap
  <2> SUFFICES ASSUME NEW t \in Tables, NEW n \in DOMAIN rows[t], ~overlapped
               PROVE  ~(rows[t][n] > 1)
    BY DEF SeededTwiceOnlyByOverlap
  <2>1. rows[t] \in [1 .. RosterSize[t] -> Nat]
    BY DEF StepsInv, RowsOK
  <2>2. rows[t][n] <= 1 /\ rows[t][n] \in Nat
    BY <2>1 DEF StepsInv, SeededOnce
  <2> QED
    BY <2>2
<1> QED
  BY <1>1, <1>2 DEF StepsInv, StepsTellTheTruth

\* What steps seed and say (the ensure...SeedData functions and the events of the
\* step... functions of simulator.service.ts), whatever overlaps, fails, is
\* stopped or restarted: rows are not created twice by a step that is alone, and
\* a scripted step that claims to have persisted something has.
THEOREM StepsAreTruthful == StepsSpec => []StepsTellTheTruth
<1> QED
  BY StepsAreSo, TurnsInit, TurnsStep, StepsInitially, StepsStep, PTL DEF StepsSpec

-----------------------------------------------------------------------------
(***************************************************************************)
(* The registry of agents.                                                 *)
(***************************************************************************)
agent == s1
profile == s2
report == s3
outcomes == s4
violations == s5
registered == s6
met == s7
adjusted == s8
USE DEF agent, profile, report, outcomes, violations, registered, met, adjusted

Profiles ==
  [accuracy : 0 .. Registry!One, consistency : 0 .. Registry!One, calibration : 0 .. Registry!One,
   historicalSuccessRate : 0 .. Registry!One, failureRate : 0 .. Registry!One, policyViolations : Nat,
   overallTrust : 0 .. Registry!One, sampleCount : Nat]
Named == Versions \cup {Registry!Auto.version}
Registrations == [version : Named, available : BOOLEAN]
Adjustments == [profile : Profiles, of : Registry!Outcomes \cup {None}]

\* None is no row of the registry, nor what it is given.
LEMMA AgentBounds ==
  /\ None \notin AgentNames /\ None \notin Named /\ None \notin Registrations
  /\ None \notin Profiles /\ None \notin Registry!Outcomes /\ Confidences \subseteq 0 .. Registry!One
  BY RegistryAssumption DEF Profiles, Named, Registrations

ReportOK(p) ==
  \/ p = Registry!Unused
  \/ p \in [pc : {"register", "availability"}, agent : AgentNames, row : Registrations]
  \/ p \in [pc : {"auto"}, agent : AgentNames, row : Registry!Outcomes]
  \/ p \in [pc : {"profile"}, agent : AgentNames, row : Adjustments]

RegTypes ==
  /\ agent \in [AgentNames -> Registrations \cup {None}]
  /\ profile \in [AgentNames -> Profiles \cup {None}]
  /\ outcomes \in [AgentNames -> Nat] /\ violations \in [AgentNames -> Nat]
  /\ registered \in [AgentNames -> Named \cup {None}]
  /\ DOMAIN report = Pairs
  /\ \A r \in Pairs : ReportOK(report[r])

KnownOK(a) ==
  /\ agent[a] # None <=> profile[a] # None
  /\ agent[a] = None => /\ registered[a] = None /\ outcomes[a] = 0 /\ violations[a] = 0
                        /\ a \notin adjusted

\* Who is being written to by handlers that found it is still there.
FoundOK(r) == report[r].pc \in {"availability", "profile"} => agent[report[r].agent] # None

EarnedBy(p, n, v) ==
  /\ p.sampleCount = n /\ p.policyViolations = v
  /\ p.overallTrust <= Registry!Clamped(Registry!One - 500 * v)
  /\ p.accuracy = p.historicalSuccessRate
  /\ p.historicalSuccessRate + p.failureRate \in 5000 .. Registry!One + 1

TrustOK(a) ==
  agent[a] # None =>
    /\ agent[a].version = IF registered[a] = None THEN Registry!Auto.version ELSE registered[a]
    /\ a \notin adjusted => EarnedBy(profile[a], outcomes[a], violations[a])

CurrentOK(r) ==
  LET a == report[r].agent IN
  /\ report[r].pc = "auto" => agent[a] = None
  /\ report[r].pc = "availability" => report[r].row.version = agent[a].version
  /\ report[r].pc = "profile" /\ report[r].row.of # None =>
       report[r].row.profile = Registry!Learnt(profile[a], report[r].row.of)

AloneOK == \A r, q \in Pairs : 
  report[r].agent \in AgentNames \ met /\ report[q].agent = report[r].agent => q = r

RegInv ==
  /\ RegTypes
  /\ \A a \in AgentNames : KnownOK(a)
  /\ \A r \in Pairs : FoundOK(r)
  /\ AloneOK
  /\ \A a \in AgentNames \ met : TrustOK(a)
  /\ \A r \in Pairs : report[r].agent \in AgentNames \ met => CurrentOK(r)

\* A moving average, before it is rounded, is in range ...
LEMMA MovedRange ==
  ASSUME NEW x \in 0 .. Registry!One, NEW t \in 0 .. Registry!One
  PROVE Registry!Moved(x, t) \in Int /\ 0 <= Registry!Moved(x, t) /\ Registry!Moved(x, t) <= 100000
  <1>1. x \in Int /\ t \in Int /\ 0 <= x /\ 0 <= t /\ x <= 10000 /\ t <= 10000
    BY DEF Registry!One
  <1>2. 8 * x \in Int /\ 2 * t \in Int /\ 8 * x + 2 * t \in Int  BY <1>1
  <1>3. 0 <= 8 * x + 2 * t /\ 8 * x + 2 * t <= 100000  BY <1>1
  <1> QED BY <1>2, <1>3 DEF Registry!Moved

\* ... as is what is clamped to [0, 1] ...
LEMMA ClampedRange == \A x \in Int : Registry!Clamped(x) \in 0 .. Registry!One
  <1> SUFFICES ASSUME NEW x \in Int PROVE Registry!Clamped(x) \in 0 .. Registry!One  OBVIOUS
  <1>1. CASE x < 0  BY <1>1 DEF Registry!Clamped, Registry!One
  <1>2. CASE ~(x < 0) /\ x > Registry!One  BY <1>2 DEF Registry!Clamped, Registry!One
  <1>3. CASE ~(x < 0) /\ ~(x > Registry!One)  BY <1>3 DEF Registry!Clamped, Registry!One
  <1> QED BY <1>1, <1>2, <1>3

\* ... and success and failure rates that complement each other keep doing so ...
LEMMA Complements ==
  ASSUME NEW x \in 0 .. Registry!One, NEW y \in 0 .. Registry!One, NEW s \in {0, Registry!One}, x + y \in 5000 .. Registry!One + 1
  PROVE Registry!Rounded(Registry!Moved(x, s)) + Registry!Rounded(Registry!Moved(y, Registry!One - s)) \in 5000 .. Registry!One + 1
  <1> DEFINE m == (8 * x + 2 * s + 5) \div 10
             n == (8 * y + 2 * (Registry!One - s) + 5) \div 10
  <1>1. /\ m \in Int /\ 10 * m <= 8 * x + 2 * s + 5 /\ 8 * x + 2 * s + 5 < 10 * m + 10
        /\ n \in Int /\ 10 * n <= 8 * y + 2 * (Registry!One - s) + 5
        /\ 8 * y + 2 * (Registry!One - s) + 5 < 10 * n + 10
    BY DEF Registry!One
  <1> HIDE DEF m, n
  <1>2. x \in Int /\ y \in Int /\ s \in Int /\ 5000 <= x + y /\ x + y <= 10001
    BY DEF Registry!One
  <1>3. 5000 <= m + n /\ m + n <= 10001 /\ m + n \in Int  BY <1>1, <1>2 DEF Registry!One
  <1>4. m + n \in 5000 .. Registry!One + 1
    <2> DEFINE z == m + n
    <2>1. z \in Int /\ 5000 <= z /\ z <= 10001  BY <1>3
    <2> HIDE DEF z
    <2>2. z \in 5000 .. Registry!One + 1  BY <2>1 DEF Registry!One
    <2> QED BY <2>2 DEF z
  <1> QED BY <1>4 DEF m, n, Registry!Rounded, Registry!Moved

\* ... up to what rounding adds.
LEMMA RoundedRange ==
  \A x \in 0 .. Registry!One, t \in 0 .. Registry!One : Registry!Rounded(Registry!Moved(x, t)) \in 0 .. Registry!One
  BY DEF Registry!Rounded, Registry!Moved, Registry!One

\* What an outcome scores is in range.
LEMMA ScoreRange == ASSUME NEW o \in Registry!Outcomes
  PROVE Registry!Score(o) \in {0, Registry!One} /\ Registry!CalibrationScore(o) \in 0 .. Registry!One /\ Registry!ConsistencyScore(o) \in 0 .. Registry!One
  <1>1. o.success \in BOOLEAN /\ o.confidence \in Confidences  BY DEF Registry!Outcomes
  <1>2. o.confidence \in 0 .. Registry!One  BY <1>1, AgentBounds
  <1>3. Registry!Score(o) \in {0, Registry!One}  BY DEF Registry!Score
  <1>4. Registry!One - o.confidence \in 0 .. Registry!One
    <2> DEFINE x == o.confidence
    <2> HIDE DEF x
    <2>1. x \in 0 .. Registry!One  BY <1>2 DEF x
    <2>2. Registry!One - x \in 0 .. Registry!One  BY <2>1 DEF Registry!One
    <2> QED BY <2>2 DEF x
  <1>5. Registry!CalibrationScore(o) \in 0 .. Registry!One
    BY <1>2, <1>4 DEF Registry!CalibrationScore
  <1>6. Registry!ConsistencyScore(o) \in {Registry!One, 7000, 2000}
    BY DEF Registry!ConsistencyScore
  <1>7. Registry!ConsistencyScore(o) \in 0 .. Registry!One  BY <1>6 DEF Registry!One
  <1> QED BY <1>3, <1>5, <1>7

\* A new agent has earned the trust it starts with.
LEMMA InitialOK ==
  Registry!InitialTrust \in Profiles /\ EarnedBy(Registry!InitialTrust, 0, 0)
  BY DEF Registry!InitialTrust, Profiles, EarnedBy, Registry!Clamped, Registry!One

\* What is learnt from an outcome is a profile ...
LEMMA LearntType ==
  ASSUME NEW p \in Profiles, NEW o \in Registry!Outcomes
  PROVE Registry!Learnt(p, o) \in Profiles
  <1> DEFINE ac == Registry!Moved(p.accuracy, Registry!Score(o))
             hi == Registry!Moved(p.historicalSuccessRate, Registry!Score(o))
             ca == Registry!Moved(p.calibration, Registry!CalibrationScore(o))
             co == Registry!Moved(p.consistency, Registry!ConsistencyScore(o))
             fa == Registry!Moved(p.failureRate, Registry!One - Registry!Score(o))
             br == p.policyViolations + (IF o.violation THEN 1 ELSE 0)
             we == 3 * ac + 2 * co + 2 * ca + 3 * hi
             ot == Registry!Clamped((we - 50000 * br + 50) \div 100)
  <1>1. /\ p.accuracy \in 0 .. Registry!One /\ p.consistency \in 0 .. Registry!One /\ p.calibration \in 0 .. Registry!One
        /\ p.historicalSuccessRate \in 0 .. Registry!One /\ p.failureRate \in 0 .. Registry!One
        /\ p.policyViolations \in Nat /\ p.sampleCount \in Nat
    BY DEF Profiles
  <1>2. Registry!Score(o) \in 0 .. Registry!One /\ Registry!One - Registry!Score(o) \in 0 .. Registry!One
    BY ScoreRange DEF Registry!One
  <1>3. /\ Registry!Rounded(ac) \in 0 .. Registry!One /\ Registry!Rounded(hi) \in 0 .. Registry!One /\ Registry!Rounded(ca) \in 0 .. Registry!One
        /\ Registry!Rounded(co) \in 0 .. Registry!One /\ Registry!Rounded(fa) \in 0 .. Registry!One
    BY <1>1, <1>2, ScoreRange, RoundedRange
  <1>4. br \in Nat  BY <1>1
  <1>5. ac \in Int /\ hi \in Int /\ ca \in Int /\ co \in Int
    BY <1>1, <1>2, ScoreRange, MovedRange
  <1>6. ot \in 0 .. Registry!One
    <2> HIDE DEF ac, hi, ca, co, br
    <2> HIDE DEF ac, hi, ca, co
    <2>1. we \in Int  BY <1>5
    <2> HIDE DEF we
    <2>2. we - 50000 * br + 50 \in Int  BY <1>4, <2>1
    <2>3. (we - 50000 * br + 50) \div 100 \in Int  BY <2>2
    <2> QED BY <2>3, ClampedRange
  <1>7. Registry!Learnt(p, o) = [accuracy |-> Registry!Rounded(ac), consistency |-> Registry!Rounded(co),
          calibration |-> Registry!Rounded(ca), historicalSuccessRate |-> Registry!Rounded(hi),
          failureRate |-> Registry!Rounded(fa), policyViolations |-> br, overallTrust |-> ot,
          sampleCount |-> p.sampleCount + 1]
    BY DEF Registry!Learnt
  <1> HIDE DEF ac, hi, ca, co, fa, br, ot
  <1> QED BY <1>1, <1>3, <1>4, <1>6, <1>7 DEF Profiles

\* ... of an agent that has earned it.
LEMMA LearntEarned ==
  ASSUME NEW p \in Profiles, NEW o \in Registry!Outcomes, NEW n \in Nat, NEW v \in Nat, EarnedBy(p, n, v)
  PROVE EarnedBy(Registry!Learnt(p, o), n + 1, v + (IF o.violation THEN 1 ELSE 0))
  <1> DEFINE ac == Registry!Moved(p.accuracy, Registry!Score(o))
             hi == Registry!Moved(p.historicalSuccessRate, Registry!Score(o))
             ca == Registry!Moved(p.calibration, Registry!CalibrationScore(o))
             co == Registry!Moved(p.consistency, Registry!ConsistencyScore(o))
             fa == Registry!Moved(p.failureRate, Registry!One - Registry!Score(o))
             br == p.policyViolations + (IF o.violation THEN 1 ELSE 0)
             we == 3 * ac + 2 * co + 2 * ca + 3 * hi
             ot == Registry!Clamped((we - 50000 * br + 50) \div 100)
  <1>1. /\ p.accuracy \in 0 .. Registry!One /\ p.consistency \in 0 .. Registry!One /\ p.calibration \in 0 .. Registry!One
        /\ p.historicalSuccessRate \in 0 .. Registry!One /\ p.failureRate \in 0 .. Registry!One
        /\ p.policyViolations = v /\ p.sampleCount = n
        /\ p.accuracy = p.historicalSuccessRate
        /\ p.historicalSuccessRate + p.failureRate \in 5000 .. Registry!One + 1
    BY DEF Profiles, EarnedBy
  <1>2. Registry!Score(o) \in {0, Registry!One} /\ Registry!CalibrationScore(o) \in 0 .. Registry!One /\ Registry!ConsistencyScore(o) \in 0 .. Registry!One
    BY ScoreRange
  <1>3. /\ ac \in Int /\ co \in Int /\ ca \in Int /\ hi \in Int
        /\ ac <= 100000 /\ co <= 100000 /\ ca <= 100000 /\ hi <= 100000
    <2>1. Registry!Score(o) \in 0 .. Registry!One  BY <1>2 DEF Registry!One
    <2> QED BY <1>1, <1>2, <2>1, MovedRange
  <1>4. br \in Nat /\ br = v + (IF o.violation THEN 1 ELSE 0)  BY <1>1
  <1>5. ot <= Registry!Clamped(Registry!One - 500 * br)
    <2> HIDE DEF ac, hi, ca, co, br
    <2>1. we <= 1000000 /\ we \in Int  BY <1>3
    <2> HIDE DEF we
    <2> DEFINE x == (we - 50000 * br + 50) \div 100
    <2>2. x \in Int /\ x <= Registry!One - 500 * br  BY <2>1, <1>4 DEF Registry!One
    <2> HIDE DEF x
    <2>3. Registry!Clamped(x) <= Registry!Clamped(Registry!One - 500 * br)
      BY <2>2, <1>4 DEF Registry!Clamped, Registry!One
    <2> QED BY <2>3 DEF x
  <1>6. ac = hi  BY <1>1
  <1>7. Registry!Rounded(hi) + Registry!Rounded(fa) \in 5000 .. Registry!One + 1
    BY <1>1, <1>2, Complements
  <1>8. Registry!Learnt(p, o) = [accuracy |-> Registry!Rounded(ac), consistency |-> Registry!Rounded(co),
          calibration |-> Registry!Rounded(ca), historicalSuccessRate |-> Registry!Rounded(hi),
          failureRate |-> Registry!Rounded(fa), policyViolations |-> br, overallTrust |-> ot,
          sampleCount |-> p.sampleCount + 1]
    BY DEF Registry!Learnt
  <1> HIDE DEF ac, hi, ca, co, fa, br, ot
  <1> QED BY <1>1, <1>4, <1>5, <1>6, <1>7, <1>8 DEF EarnedBy

\* A profile that is set by hand is a profile.
LEMMA SetType == ASSUME NEW p \in Profiles, NEW x \in Confidences
  PROVE LET set == [p EXCEPT !.accuracy = x]
        IN [set EXCEPT !.overallTrust = Registry!WeightedTrust(set)] \in Profiles
  <1> DEFINE set == [p EXCEPT !.accuracy = x]
  <1>1. set \in Profiles  BY AgentBounds DEF Profiles
  <1> HIDE DEF set
  <1>2. /\ set.accuracy \in 0 .. Registry!One /\ set.consistency \in 0 .. Registry!One /\ set.calibration \in 0 .. Registry!One
        /\ set.historicalSuccessRate \in 0 .. Registry!One /\ set.policyViolations \in Nat
    BY <1>1 DEF Profiles
  <1>3. Registry!WeightedTrust(set) \in 0 .. Registry!One
    <2> DEFINE sum == 3 * set.accuracy + 2 * set.consistency + 2 * set.calibration
                        + 3 * set.historicalSuccessRate - 5000 * set.policyViolations + 5
    <2>1. sum \in Int  BY <1>2
    <2> HIDE DEF sum
    <2>2. sum \div 10 \in Int  BY <2>1
    <2>3. Registry!Clamped(sum \div 10) \in 0 .. Registry!One  BY <2>2, ClampedRange
    <2> QED BY <2>3 DEF Registry!WeightedTrust, sum
  <1>4. [set EXCEPT !.overallTrust = Registry!WeightedTrust(set)] \in Profiles
    BY <1>1, <1>3 DEF Profiles
  <1> QED BY <1>4 DEF set

\* The registry starts empty.
LEMMA RegInvInit == Registry!RegistryInit => RegInv
  <1> SUFFICES ASSUME Registry!RegistryInit PROVE RegInv  OBVIOUS
  <1>0. Registry!Unused.pc = "idle" /\ Registry!Unused.agent = None  BY DEF Registry!Unused
  <1>1. RegTypes  BY DEF Registry!RegistryInit, RegTypes, ReportOK
  <1>2. \A a \in AgentNames : KnownOK(a) /\ TrustOK(a)
    BY DEF Registry!RegistryInit, KnownOK, TrustOK
  <1>3. \A r \in Pairs : report[r] = Registry!Unused  BY DEF Registry!RegistryInit
  <1>4. \A r \in Pairs : FoundOK(r)  BY <1>0, <1>3 DEF FoundOK
  <1>5. AloneOK /\ \A r \in Pairs : report[r].agent \notin AgentNames
    BY <1>0, <1>3, AgentBounds DEF AloneOK
  <1> QED BY <1>1, <1>2, <1>4, <1>5 DEF RegInv

\* A handler that has read, and is about to write.
LEMMA EntersSoundly ==
  ASSUME RegInv, NEW r \in Pairs, NEW pc, NEW a \in AgentNames, NEW row, Registry!Enter(r, pc, a, row),
         UNCHANGED <<agent, profile, outcomes, violations, registered, adjusted>>,
         ReportOK([pc |-> pc, agent |-> a, row |-> row]),
         pc \in {"availability", "profile"} => agent[a] # None,
         pc = "auto" => agent[a] = None,
         pc = "availability" => row.version = agent[a].version,
         pc = "profile" /\ row.of # None => row.profile = Registry!Learnt(profile[a], row.of)
  PROVE RegInv'
  <1> DEFINE new == [pc |-> pc, agent |-> a, row |-> row]
  <1>1. /\ report[r] = Registry!Unused /\ report' = [report EXCEPT ![r] = new]
        /\ met' = met \cup {x \in {a} : \E q \in Pairs : report[q].agent = x}
    BY DEF Registry!Enter
  <1>2. new.pc = pc /\ new.agent = a /\ new.row = row  OBVIOUS
  <1>3. ReportOK(new)  OBVIOUS
  <1> HIDE DEF new
  <1>4. /\ DOMAIN report = Pairs /\ DOMAIN report' = Pairs /\ report'[r] = new
        /\ \A q \in Pairs : q # r => report'[q] = report[q]
    BY <1>1 DEF RegInv, RegTypes
  <1>5. RegTypes'
    <2>1. \A q \in Pairs : ReportOK(report'[q])  BY <1>3, <1>4 DEF RegInv, RegTypes
    <2> QED BY <1>4, <2>1 DEF RegInv, RegTypes
  <1>6. \A x \in AgentNames : KnownOK(x)'  BY DEF RegInv, KnownOK
  <1>7. \A q \in Pairs : FoundOK(q)'  BY <1>2, <1>4 DEF RegInv, FoundOK
  <1>8. met \subseteq met' /\ (a \notin met' => \A q \in Pairs : report[q].agent # a)
    BY <1>1
  <1>9. AloneOK'
    <2> SUFFICES ASSUME NEW p \in Pairs, NEW q \in Pairs,
                        report'[p].agent \in AgentNames \ met', report'[q].agent = report'[p].agent
                 PROVE q = p
      BY DEF AloneOK
    <2>1. CASE p = r \/ q = r  BY <1>2, <1>4, <1>8, <2>1
    <2>2. CASE p # r /\ q # r  BY <1>4, <1>8, <2>2 DEF RegInv, AloneOK
    <2> QED BY <2>1, <2>2
  <1>10. \A x \in AgentNames \ met' : TrustOK(x)'
    <2>1. \A x \in AgentNames \ met' : TrustOK(x)  BY <1>8 DEF RegInv
    <2> QED BY <2>1 DEF TrustOK
  <1>11. ASSUME NEW q \in Pairs, report'[q].agent \in AgentNames \ met' PROVE CurrentOK(q)'
    <2>1. CASE q = r  BY <1>2, <1>4, <2>1 DEF CurrentOK
    <2>2. CASE q # r
      <3>1. report'[q] = report[q] /\ CurrentOK(q)  BY <1>4, <1>8, <1>11, <2>2 DEF RegInv
      <3> QED BY <3>1 DEF CurrentOK
    <2> QED BY <2>1, <2>2
  <1> QED BY <1>5, <1>6, <1>7, <1>9, <1>10, <1>11 DEF RegInv

\* What the writer r of an agent leaves: the others at work are elsewhere or met.
LEMMA WritesSoundly ==
  ASSUME RegInv, NEW r \in Pairs, NEW a, a = report[r].agent, a \in AgentNames, RegTypes',
         met' = met, \A q \in Pairs : q # r => report'[q] = report[q],
         report'[r].agent \in {a, None},
         \A x \in AgentNames : x # a =>
           /\ agent'[x] = agent[x] /\ profile'[x] = profile[x] /\ outcomes'[x] = outcomes[x]
           /\ violations'[x] = violations[x] /\ registered'[x] = registered[x]
           /\ x \in adjusted' <=> x \in adjusted,
         agent'[a] # None, KnownOK(a)',
         a \notin met => TrustOK(a)' /\ (report'[r].agent = a => CurrentOK(r)')
  PROVE RegInv'
  <1>1. \A x \in AgentNames : KnownOK(x)'
    <2> SUFFICES ASSUME NEW x \in AgentNames, x # a PROVE KnownOK(x)'  OBVIOUS
    <2>1. KnownOK(x)  BY DEF RegInv
    <2> QED BY <2>1 DEF KnownOK
  <1>2. \A q \in Pairs : FoundOK(q)'
    <2> SUFFICES ASSUME NEW q \in Pairs PROVE FoundOK(q)'  OBVIOUS
    <2>1. CASE report'[q].agent = a  BY <2>1 DEF FoundOK
    <2>2. CASE report'[q].agent # a /\ q # r
      <3>1. report'[q] = report[q] /\ FoundOK(q) /\ ReportOK(report[q])
        BY <2>2 DEF RegInv, RegTypes
      <3>2. CASE report[q] = Registry!Unused
        <4>1. report'[q].pc = "idle"  BY <3>1, <3>2 DEF Registry!Unused
        <4> QED BY <4>1 DEF FoundOK
      <3>3. CASE report[q].agent \in AgentNames  BY <2>2, <3>1, <3>3 DEF FoundOK
      <3> QED BY <3>1, <3>2, <3>3 DEF ReportOK
    <2>3. CASE report'[q].agent # a /\ q = r
      <3>1. report'[r].agent = None /\ ReportOK(report'[r])  BY <2>3 DEF RegTypes
      <3>2. report'[r] = Registry!Unused  BY <3>1, AgentBounds DEF ReportOK
      <3>3. report'[r].pc = "idle"  BY <3>2 DEF Registry!Unused
      <3> QED BY <2>3, <3>3 DEF FoundOK
    <2> QED BY <2>1, <2>2, <2>3
  <1>3. AloneOK'
    <2> SUFFICES ASSUME NEW p \in Pairs, NEW q \in Pairs,
                        report'[p].agent \in AgentNames \ met', report'[q].agent = report'[p].agent
                 PROVE q = p
      BY DEF AloneOK
    <2>1. report[p].agent = report'[p].agent /\ report[q].agent = report'[q].agent  BY AgentBounds
    <2> QED BY <2>1 DEF RegInv, AloneOK
  <1>4. \A x \in AgentNames \ met' : TrustOK(x)'
    <2> SUFFICES ASSUME NEW x \in AgentNames \ met, x # a PROVE TrustOK(x)'  OBVIOUS
    <2>1. TrustOK(x)  BY DEF RegInv
    <2> QED BY <2>1 DEF TrustOK
  <1>5. ASSUME NEW q \in Pairs, report'[q].agent \in AgentNames \ met' PROVE CurrentOK(q)'
    <2>1. CASE q = r  BY <1>5, <2>1, AgentBounds
    <2>2. CASE q # r
      <3>1. report'[q] = report[q] /\ CurrentOK(q)  BY <1>5, <2>2 DEF RegInv
      <3>2. report[q].agent # a  BY <1>5, <2>2, <3>1 DEF RegInv, AloneOK
      <3> QED BY <1>5, <3>1, <3>2 DEF CurrentOK
    <2> QED BY <2>1, <2>2
  <1> QED BY <1>1, <1>2, <1>3, <1>4, <1>5 DEF RegInv

\* An agent is stored: a new one with the profile it starts with.
LEMMA SaveAgentStep == ASSUME RegInv, NEW r \in Pairs, Registry!SaveAgent(r) PROVE RegInv'
  <1> SUFFICES ASSUME NEW a, a = report[r].agent, NEW row, row = report[r].row PROVE RegInv'
    OBVIOUS
  <1>1. /\ report[r].pc \in {"register", "availability"}
        /\ agent' = [agent EXCEPT ![a] = row]
        /\ profile' = [profile EXCEPT ![a] = IF @ = None THEN Registry!InitialTrust ELSE @]
        /\ registered' = IF report[r].pc = "register" THEN [registered EXCEPT ![a] = row.version]
                                                     ELSE registered
        /\ report' = [report EXCEPT ![r] = Registry!Unused]
        /\ met' = met /\ outcomes' = outcomes /\ violations' = violations /\ adjusted' = adjusted
    BY DEF Registry!SaveAgent, Registry!Upserted, Registry!Exit
  <1>2. /\ RegTypes /\ ReportOK(report[r]) /\ FoundOK(r)
    BY DEF RegInv, RegTypes
  <1>3. Registry!Unused.pc = "idle" /\ Registry!Unused.agent = None  BY DEF Registry!Unused
  <1>4. a \in AgentNames /\ row \in Registrations  BY <1>1, <1>2, <1>3 DEF ReportOK
  <1>5. KnownOK(a) /\ (a \notin met => TrustOK(a) /\ CurrentOK(r))  BY <1>4 DEF RegInv
  <1>6. row.version \in Named /\ row # None  BY <1>4, AgentBounds DEF Registrations
  <1> DEFINE pr == IF profile[a] = None THEN Registry!InitialTrust ELSE profile[a]
  <1>7. pr \in Profiles  BY <1>2, <1>4, InitialOK DEF RegTypes
  <1>8. pr # None  BY <1>7, AgentBounds
  <1>9. profile' = [profile EXCEPT ![a] = pr]  BY <1>1
  <1>p. pr = IF profile[a] = None THEN Registry!InitialTrust ELSE profile[a]  OBVIOUS
  <1>fr. (report[r].pc = "availability" => agent[a] # None)  BY <1>2 DEF FoundOK
  <1>cu. a \notin met /\ report[r].pc = "availability" => row.version = agent[a].version
    BY <1>5 DEF CurrentOK
  <1> HIDE DEF pr
  <1>10. RegTypes'
    <2>1. agent' \in [AgentNames -> Registrations \cup {None}]  BY <1>1, <1>2, <1>4 DEF RegTypes
    <2>2. profile' \in [AgentNames -> Profiles \cup {None}]
      BY <1>7, <1>9, <1>2, <1>4 DEF RegTypes
    <2>3. registered' \in [AgentNames -> Named \cup {None}]  BY <1>1, <1>2, <1>6 DEF RegTypes
    <2>4. DOMAIN report' = Pairs  BY <1>1, <1>2 DEF RegTypes
    <2>5. \A q \in Pairs : ReportOK(report'[q])  BY <1>1, <1>2 DEF RegTypes, ReportOK
    <2> QED BY <1>1, <1>2, <2>1, <2>2, <2>3, <2>4, <2>5 DEF RegTypes
  <1>11. agent'[a] = row /\ profile'[a] = pr /\ report'[r] = Registry!Unused
    BY <1>1, <1>2, <1>4, <1>9 DEF RegTypes
  <1>12. registered'[a] = IF report[r].pc = "register" THEN row.version ELSE registered[a]
    BY <1>1, <1>2, <1>4 DEF RegTypes
  <1>13. KnownOK(a)'  BY <1>6, <1>8, <1>11 DEF KnownOK
  <1>14. ASSUME a \notin met PROVE TrustOK(a)'
    <2>1. agent'[a].version = IF registered'[a] = None THEN Registry!Auto.version ELSE registered'[a]
      <3>1. CASE report[r].pc = "register"  BY <1>6, <1>11, <1>12, <3>1, AgentBounds
      <3>2. CASE report[r].pc = "availability"
        <4>1. row.version = agent[a].version /\ agent[a] # None  BY <1>fr, <1>cu, <1>14, <3>2
        <4>2. agent[a].version = IF registered[a] = None THEN Registry!Auto.version ELSE registered[a]
          BY <1>5, <1>14, <4>1 DEF TrustOK
        <4> QED BY <1>11, <1>12, <3>2, <4>1, <4>2
      <3> QED BY <1>1, <3>1, <3>2
    <2>2. a \notin adjusted => EarnedBy(pr, outcomes[a], violations[a])
      <3>1. CASE agent[a] # None
        <4>1. pr = profile[a]  BY <1>5, <1>p, <3>1 DEF KnownOK
        <4> QED BY <1>5, <1>14, <3>1, <4>1 DEF TrustOK
      <3>2. CASE agent[a] = None
        <4>1. pr = Registry!InitialTrust /\ outcomes[a] = 0 /\ violations[a] = 0
          BY <1>5, <1>p, <3>2 DEF KnownOK
        <4> QED BY <4>1, InitialOK
      <3> QED BY <3>1, <3>2
    <2> QED BY <1>1, <1>11, <2>1, <2>2 DEF TrustOK
  <1>15. /\ \A q \in Pairs : q # r => report'[q] = report[q]
         /\ report'[r].agent = None
    BY <1>1, <1>2, <1>3, <1>11 DEF RegTypes
  <1>16. \A x \in AgentNames : x # a =>
           /\ agent'[x] = agent[x] /\ profile'[x] = profile[x] /\ outcomes'[x] = outcomes[x]
           /\ violations'[x] = violations[x] /\ registered'[x] = registered[x]
           /\ x \in adjusted' <=> x \in adjusted
    BY <1>1, <1>2, <1>9 DEF RegTypes
  <1>18. a # None /\ agent'[a] # None  BY <1>4, <1>6, <1>11, AgentBounds
  <1> QED BY <1>1, <1>4, <1>10, <1>13, <1>14, <1>15, <1>16, <1>18, WritesSoundly

\* An unknown agent is registered, with what it reported.
LEMMA AutoRegisterStep ==
  ASSUME RegInv, NEW r \in Pairs, Registry!AutoRegister(r)
  PROVE RegInv'
  <1> SUFFICES ASSUME NEW a, a = report[r].agent, NEW o, o = report[r].row PROVE RegInv'
    OBVIOUS
  <1> DEFINE pr == IF profile[a] = None THEN Registry!InitialTrust ELSE profile[a]
             new == [profile |-> Registry!Learnt(profile'[a], o), of |-> o]
             out == [pc |-> "profile", agent |-> a, row |-> new]
  <1>1. /\ report[r].pc = "auto"
        /\ agent' = [agent EXCEPT ![a] = Registry!Auto] /\ profile' = [profile EXCEPT ![a] = pr]
        /\ registered' = registered
        /\ report' = [report EXCEPT ![r].pc = "profile", ![r].row = new]
        /\ met' = met /\ outcomes' = outcomes /\ violations' = violations /\ adjusted' = adjusted
    BY DEF Registry!AutoRegister, Registry!Upserted
  <1>2. RegTypes /\ ReportOK(report[r])  BY DEF RegInv, RegTypes
  <1>3. Registry!Unused.pc = "idle"  BY DEF Registry!Unused
  <1>4. a \in AgentNames /\ o \in Registry!Outcomes /\ a # None
    BY <1>1, <1>2, <1>3, AgentBounds DEF ReportOK
  <1>5. KnownOK(a) /\ (a \notin met => TrustOK(a) /\ CurrentOK(r))  BY <1>4 DEF RegInv
  <1>6. Registry!Auto \in Registrations /\ Registry!Auto # None /\ Registry!Auto.version \in Named
    <2> DEFINE v == Registry!Auto.version
    <2>1. Registry!Auto = [version |-> v, available |-> TRUE]  BY DEF Registry!Auto
    <2>2. v \in Named  BY DEF Named
    <2> HIDE DEF v
    <2>3. Registry!Auto \in Registrations  BY <2>1, <2>2 DEF Registrations
    <2> QED BY <2>2, <2>3, AgentBounds DEF v
  <1>7. pr \in Profiles /\ pr # None  BY <1>2, <1>4, InitialOK, AgentBounds DEF RegTypes
  <1>p. pr = IF profile[a] = None THEN Registry!InitialTrust ELSE profile[a]  OBVIOUS
  <1>8. profile'[a] = pr /\ agent'[a] = Registry!Auto  BY <1>1, <1>2, <1>4 DEF RegTypes
  <1>9. new.profile = Registry!Learnt(pr, o) /\ new.of = o /\ new \in Adjustments
    <2>1. new = [profile |-> Registry!Learnt(pr, o), of |-> o]  BY <1>8
    <2>2. Registry!Learnt(pr, o) \in Profiles  BY <1>4, <1>7, LearntType
    <2> QED BY <2>1, <2>2, <1>4 DEF Adjustments
  <1>10. report[r] \in [pc : {"auto"}, agent : AgentNames, row : Registry!Outcomes]
    BY <1>1, <1>2, <1>3 DEF ReportOK
  <1>11. report'[r] = out
    <2>1. r \in DOMAIN report  BY <1>2 DEF RegTypes
    <2>2. report[r] = [pc |-> report[r].pc, agent |-> a, row |-> o]  BY <1>10
    <2>3. report'[r] = [report[r] EXCEPT !.pc = "profile", !.row = new]  BY <1>1, <2>1
    <2> HIDE DEF new
    <2> QED BY <2>2, <2>3
  <1>12. DOMAIN report' = Pairs /\ \A q \in Pairs : q # r => report'[q] = report[q]
    BY <1>1, <1>2 DEF RegTypes
  <1>13. out.pc = "profile" /\ out.agent = a /\ out.row = new  OBVIOUS
  <1>14. ReportOK(out)  BY <1>4, <1>9 DEF ReportOK
  <1> HIDE DEF out, new, pr
  <1>15. RegTypes'
    <2>1. agent' \in [AgentNames -> Registrations \cup {None}]
      BY <1>1, <1>2, <1>4, <1>6 DEF RegTypes
    <2>2. profile' \in [AgentNames -> Profiles \cup {None}]
      BY <1>1, <1>2, <1>4, <1>7 DEF RegTypes
    <2>3. \A q \in Pairs : ReportOK(report'[q])  BY <1>2, <1>11, <1>12, <1>14 DEF RegTypes
    <2> QED BY <1>1, <1>2, <1>12, <2>1, <2>2, <2>3 DEF RegTypes
  <1>16. KnownOK(a)'  BY <1>6, <1>7, <1>8 DEF KnownOK
  <1>17. ASSUME a \notin met PROVE TrustOK(a)' /\ CurrentOK(r)'
    <2>1. agent[a] = None  BY <1>1, <1>5, <1>17 DEF CurrentOK
    <2>2. /\ registered[a] = None /\ outcomes[a] = 0 /\ violations[a] = 0
          /\ pr = Registry!InitialTrust
      BY <1>5, <1>p, <2>1 DEF KnownOK
    <2>3. EarnedBy(pr, 0, 0)  BY <2>2, InitialOK
    <2>4. TrustOK(a)'
      <3>1. agent'[a].version = Registry!Auto.version /\ registered'[a] = None
        BY <1>1, <1>8, <2>2
      <3>2. EarnedBy(profile'[a], outcomes'[a], violations'[a])  BY <1>1, <1>8, <2>2, <2>3
      <3> QED BY <3>1, <3>2 DEF TrustOK
    <2>5. CurrentOK(r)'
      <3>1. /\ report'[r].pc = "profile" /\ report'[r].agent = a
            /\ report'[r].row.profile = Registry!Learnt(profile'[a], report'[r].row.of)
        BY <1>8, <1>9, <1>11, <1>13
      <3> QED BY <3>1 DEF CurrentOK
    <2> QED BY <2>4, <2>5
  <1>18. \A x \in AgentNames : x # a =>
           /\ agent'[x] = agent[x] /\ profile'[x] = profile[x] /\ outcomes'[x] = outcomes[x]
           /\ violations'[x] = violations[x] /\ registered'[x] = registered[x]
           /\ x \in adjusted' <=> x \in adjusted
    BY <1>1, <1>2 DEF RegTypes
  <1>19. report'[r].agent = a /\ agent'[a] # None  BY <1>6, <1>8, <1>11, <1>13
  <1> QED BY <1>1, <1>4, <1>12, <1>15, <1>16, <1>17, <1>18, <1>19, WritesSoundly

\* A profile is stored as it was computed from what was read.
LEMMA SaveProfileStep ==
  ASSUME RegInv, NEW r \in Pairs, Registry!SaveProfile(r)
  PROVE RegInv'
  <1> SUFFICES ASSUME NEW a, a = report[r].agent, NEW done, done = report[r].row PROVE RegInv'
    OBVIOUS
  <1>1. /\ report[r].pc = "profile" /\ profile' = [profile EXCEPT ![a] = done.profile]
        /\ agent' = agent /\ registered' = registered /\ report' = [report EXCEPT ![r] = Registry!Unused]
        /\ met' = met
    BY DEF Registry!SaveProfile, Registry!Exit
  <1>2. RegTypes /\ ReportOK(report[r]) /\ FoundOK(r)  BY DEF RegInv, RegTypes
  <1>3. Registry!Unused.pc = "idle" /\ Registry!Unused.agent = None  BY DEF Registry!Unused
  <1>4. a \in AgentNames /\ done \in Adjustments /\ a # None /\ agent[a] # None
    BY <1>1, <1>2, <1>3, AgentBounds DEF ReportOK, FoundOK
  <1>5. KnownOK(a) /\ (a \notin met => TrustOK(a) /\ CurrentOK(r))  BY <1>4 DEF RegInv
  <1>6. done.profile \in Profiles /\ done.profile # None /\ done.of \in Registry!Outcomes \cup {None}
    BY <1>4, AgentBounds DEF Adjustments
  <1>7. profile'[a] = done.profile /\ agent'[a] = agent[a] /\ report'[r] = Registry!Unused
        /\ DOMAIN report' = Pairs /\ \A q \in Pairs : q # r => report'[q] = report[q]
    BY <1>1, <1>2, <1>4 DEF RegTypes
  <1>8. /\ profile' \in [AgentNames -> Profiles \cup {None}]
        /\ \A q \in Pairs : ReportOK(report'[q])
    BY <1>1, <1>2, <1>4, <1>6, <1>7 DEF RegTypes, ReportOK
  <1>9. KnownOK(a)'  BY <1>4, <1>6, <1>7 DEF KnownOK
  <1>10. \A x \in AgentNames : x # a => agent'[x] = agent[x] /\ profile'[x] = profile[x]
                                     /\ registered'[x] = registered[x]
    BY <1>1, <1>2 DEF RegTypes
  <1>11. CASE done.of = None
    <2>1. adjusted' = adjusted \cup {a} /\ outcomes' = outcomes /\ violations' = violations
      BY <1>11 DEF Registry!SaveProfile
    <2>2. RegTypes'  BY <1>1, <1>2, <1>7, <1>8, <2>1 DEF RegTypes
    <2>3. a \notin met => TrustOK(a)'
      <3>1. TrustOK(a)' <=> (agent'[a].version =
                 IF registered'[a] = None THEN Registry!Auto.version ELSE registered'[a])
        BY <1>4, <1>7, <2>1 DEF TrustOK
      <3> QED BY <1>1, <1>4, <1>5, <3>1 DEF TrustOK
    <2> QED BY <1>1, <1>3, <1>4, <1>7, <1>9, <1>10, <2>1, <2>2, <2>3, WritesSoundly
  <1>12. CASE done.of # None
    <2> DEFINE one == IF done.of.violation THEN 1 ELSE 0
    <2>1. /\ adjusted' = adjusted /\ outcomes' = [outcomes EXCEPT ![a] = @ + 1]
          /\ violations' = [violations EXCEPT ![a] = @ + one]
      BY <1>12 DEF Registry!SaveProfile
    <2>2. one \in Nat  OBVIOUS
    <2>o. one = IF done.of.violation THEN 1 ELSE 0  OBVIOUS
    <2> HIDE DEF one
    <2>3. /\ outcomes' \in [AgentNames -> Nat] /\ violations' \in [AgentNames -> Nat]
          /\ outcomes'[a] = outcomes[a] + 1 /\ violations'[a] = violations[a] + one
          /\ \A x \in AgentNames : x # a => outcomes'[x] = outcomes[x] /\ violations'[x] = violations[x]
          /\ outcomes[a] \in Nat /\ violations[a] \in Nat
      BY <1>2, <1>4, <2>1, <2>2 DEF RegTypes
    <2>4. RegTypes'  BY <1>1, <1>2, <1>7, <1>8, <2>3 DEF RegTypes
    <2>5. ASSUME a \notin met PROVE TrustOK(a)'
      <3>1. agent'[a].version = IF registered'[a] = None THEN Registry!Auto.version ELSE registered'[a]
        BY <1>1, <1>4, <1>5, <2>5 DEF TrustOK
      <3>2. ASSUME a \notin adjusted PROVE EarnedBy(profile'[a], outcomes'[a], violations'[a])
        <4>1. EarnedBy(profile[a], outcomes[a], violations[a])
          BY <1>4, <1>5, <2>5, <3>2 DEF TrustOK
        <4>2. profile[a] \in Profiles  BY <1>2, <1>4, <1>5 DEF RegTypes, KnownOK
        <4>3. done.of \in Registry!Outcomes /\ done.profile = Registry!Learnt(profile[a], done.of)
          BY <1>1, <1>5, <1>6, <1>12, <2>5 DEF CurrentOK
        <4>4. EarnedBy(done.profile, outcomes[a] + 1, violations[a] + one)
          BY <2>3, <2>o, <4>1, <4>2, <4>3, LearntEarned
        <4> QED BY <1>7, <2>3, <4>4
      <3> QED BY <2>1, <3>1, <3>2 DEF TrustOK
    <2> QED BY <1>1, <1>3, <1>4, <1>7, <1>9, <1>10, <2>1, <2>3, <2>4, <2>5, WritesSoundly
  <1> QED BY <1>11, <1>12

\* Every step of the registry keeps the invariant.
LEMMA RegInvNext == RegInv /\ [Registry!RegistryNext]_(Registry!registryVars) => RegInv'
  <1> SUFFICES ASSUME RegInv, [Registry!RegistryNext]_(Registry!registryVars) PROVE RegInv'
    OBVIOUS
  <1>1. CASE UNCHANGED Registry!registryVars
    BY <1>1
       DEF Registry!registryVars, RegInv, RegTypes, KnownOK, FoundOK, AloneOK, TrustOK, CurrentOK
  <1>2. CASE Registry!RegistryNext
    <2> PICK r \in Pairs :
           \/ \E a \in AgentNames :
                \/ \E v \in Versions : Registry!RegisterAgent(r, a, v)
                \/ \E available \in BOOLEAN : Registry!UpdateAvailability(r, a, available)
                \/ \E outcome \in Registry!Outcomes : Registry!RecordUnknown(r, a, outcome) \/ Registry!RecordTrustOutcome(r, a, outcome)
                \/ \E accuracy \in Confidences : Registry!UpdateTrustProfile(r, a, accuracy)
           \/ Registry!SaveAgent(r) \/ Registry!AutoRegister(r) \/ Registry!SaveProfile(r)
      BY <1>2 DEF Registry!RegistryNext
    <2>0. RegTypes /\ \A a \in AgentNames : KnownOK(a)  BY DEF RegInv
    <2>1. ASSUME NEW a \in AgentNames, NEW v \in Versions, Registry!RegisterAgent(r, a, v)
          PROVE RegInv'
      <3> DEFINE row == IF agent[a] = None THEN [version |-> v, available |-> TRUE]
                                           ELSE [agent[a] EXCEPT !.version = v]
      <3>1. row \in Registrations  BY <2>0 DEF RegTypes, Registrations, Named
      <3>2. Registry!Enter(r, "register", a, row)
            /\ UNCHANGED <<agent, profile, outcomes, violations, registered, adjusted>>
        BY <2>1 DEF Registry!RegisterAgent
      <3> HIDE DEF row
      <3>3. ReportOK([pc |-> "register", agent |-> a, row |-> row])  BY <3>1 DEF ReportOK
      <3> QED BY <3>2, <3>3, EntersSoundly
    <2>2. ASSUME NEW a \in AgentNames, NEW available \in BOOLEAN, Registry!UpdateAvailability(r, a, available)
          PROVE RegInv'
      <3> DEFINE row == [agent[a] EXCEPT !.available = available]
      <3>1. agent[a] # None /\ agent[a] \in Registrations
        BY <2>0, <2>2 DEF Registry!UpdateAvailability, RegTypes
      <3>2. row \in Registrations /\ row.version = agent[a].version  BY <3>1 DEF Registrations
      <3>3. Registry!Enter(r, "availability", a, row)
            /\ UNCHANGED <<agent, profile, outcomes, violations, registered, adjusted>>
        BY <2>2 DEF Registry!UpdateAvailability
      <3> HIDE DEF row
      <3>4. ReportOK([pc |-> "availability", agent |-> a, row |-> row])  BY <3>2 DEF ReportOK
      <3> QED BY <3>1, <3>2, <3>3, <3>4, EntersSoundly
    <2>3. ASSUME NEW a \in AgentNames, NEW o \in Registry!Outcomes, Registry!RecordUnknown(r, a, o)
          PROVE RegInv'
      <3>1. agent[a] = None /\ Registry!Enter(r, "auto", a, o)
            /\ UNCHANGED <<agent, profile, outcomes, violations, registered, adjusted>>
        BY <2>3 DEF Registry!RecordUnknown
      <3>2. ReportOK([pc |-> "auto", agent |-> a, row |-> o])  BY DEF ReportOK
      <3> QED BY <3>1, <3>2, EntersSoundly
    <2>4. ASSUME NEW a \in AgentNames, NEW o \in Registry!Outcomes, Registry!RecordTrustOutcome(r, a, o)
          PROVE RegInv'
      <3> DEFINE row == [profile |-> Registry!Learnt(profile[a], o), of |-> o]
      <3>1. agent[a] # None /\ Registry!Enter(r, "profile", a, row)
            /\ UNCHANGED <<agent, profile, outcomes, violations, registered, adjusted>>
        BY <2>4 DEF Registry!RecordTrustOutcome
      <3>2. profile[a] \in Profiles  BY <2>0, <3>1 DEF RegTypes, KnownOK
      <3>3. row \in Adjustments  BY <3>2, LearntType DEF Adjustments
      <3>4. row.profile = Registry!Learnt(profile[a], row.of)  OBVIOUS
      <3> HIDE DEF row
      <3>5. ReportOK([pc |-> "profile", agent |-> a, row |-> row])  BY <3>3 DEF ReportOK
      <3> QED BY <3>1, <3>4, <3>5, EntersSoundly
    <2>5. ASSUME NEW a \in AgentNames, NEW x \in Confidences, Registry!UpdateTrustProfile(r, a, x)
          PROVE RegInv'
      <3> DEFINE set == [profile[a] EXCEPT !.accuracy = x]
                 p == [set EXCEPT !.overallTrust = Registry!WeightedTrust(set)]
                 row == [profile |-> p, of |-> None]
      <3>1. agent[a] # None /\ Registry!Enter(r, "profile", a, row)
            /\ UNCHANGED <<agent, profile, outcomes, violations, registered, adjusted>>
        BY <2>5 DEF Registry!UpdateTrustProfile
      <3>2. profile[a] \in Profiles  BY <2>0, <3>1 DEF RegTypes, KnownOK
      <3>3. p \in Profiles  BY <3>2, SetType
      <3> HIDE DEF p
      <3>4. row \in Adjustments /\ row.of = None  BY <3>3 DEF Adjustments
      <3> HIDE DEF row
      <3>5. ReportOK([pc |-> "profile", agent |-> a, row |-> row])  BY <3>4 DEF ReportOK
      <3> QED BY <3>1, <3>4, <3>5, EntersSoundly
    <2> QED BY <2>1, <2>2, <2>3, <2>4, <2>5, SaveAgentStep, AutoRegisterStep, SaveProfileStep
  <1> QED BY <1>1, <1>2

\* The invariant implies that trust is earned.
LEMMA RegInvImplies == RegInv => Registry!TrustIsEarned /\ Registry!RegistryTypeOK
  <1> SUFFICES ASSUME RegInv PROVE Registry!TrustIsEarned /\ Registry!RegistryTypeOK  OBVIOUS
  <1>1. Registry!TrustIsEarned  BY DEF RegInv, TrustOK, EarnedBy, Registry!TrustIsEarned
  <1>2. \A a \in AgentNames : profile[a] # None => \A f \in DOMAIN profile[a] : profile[a][f] \in Nat
    <2> SUFFICES ASSUME NEW a \in AgentNames, profile[a] # None, NEW f \in DOMAIN profile[a]
                 PROVE profile[a][f] \in Nat
      OBVIOUS
    <2>1. profile[a] \in Profiles  BY DEF RegInv, RegTypes
    <2> DEFINE p == profile[a]
    <2>2. DOMAIN p = {"accuracy", "consistency", "calibration", "historicalSuccessRate",
                      "failureRate", "policyViolations", "overallTrust", "sampleCount"}
      BY <2>1 DEF Profiles
    <2>3. /\ p.accuracy \in Nat /\ p.consistency \in Nat /\ p.calibration \in Nat
          /\ p.historicalSuccessRate \in Nat /\ p.failureRate \in Nat /\ p.policyViolations \in Nat
          /\ p.overallTrust \in Nat /\ p.sampleCount \in Nat
      <3>1. 0 .. Registry!One \subseteq Nat  BY DEF Registry!One
      <3> HIDE DEF p
      <3> QED BY <2>1, <3>1 DEF p, Profiles
    <2> HIDE DEF p
    <2>4. f \in DOMAIN p  BY DEF p
    <2>5. p[f] \in Nat  BY <2>2, <2>3, <2>4
    <2> QED BY <2>5 DEF p
  <1>3. \A r \in Pairs :
          report[r].pc \in {"idle", "register", "availability", "auto", "profile"}
    <2>1. Registry!Unused.pc = "idle"  BY DEF Registry!Unused
    <2> QED BY <2>1 DEF RegInv, RegTypes, ReportOK
  <1>4. \A a \in AgentNames : agent[a] # None <=> profile[a] # None  BY DEF RegInv, KnownOK
  <1> QED BY <1>1, <1>2, <1>3, <1>4 DEF Registry!RegistryTypeOK

\* Without the bounds of the scene too: trust is earned (agent-registry.service.ts).
THEOREM TrustStaysEarned == Registry!RegistrySpec => []Registry!TrustIsEarned
  <1>1. Registry!RegistrySpec => []RegInv
    BY RegInvInit, RegInvNext, PTL DEF Registry!RegistrySpec
  <1> QED BY <1>1, RegInvImplies, PTL

HIDE DEF agent, profile, report, outcomes, violations, registered, met, adjusted

-----------------------------------------------------------------------------
(***************************************************************************)
(* The capacity loop.                                                      *)
(***************************************************************************)
driver == s1
cluster == s2
event == s3
scaler == s4
last == s5
disturbed == s6
demand == s7
pulse == s8
moves == s9
unsettled == s10
USE DEF driver, cluster, event, scaler, last, disturbed, demand, pulse, moves, unsettled

\* The loop scales a deployment there is, by what is demanded of it.
LEMMA DemandBounds ==
  /\ Shop \in Deployments /\ OthersReplicas \subseteq Nat
  /\ Demands \subseteq [rate : Nat, backlog : Nat, mode : {"STEADY_STATE", "FLASH_SALE"}]
  /\ None \notin [of : Deployments, from : Nat, to : Nat, status : Capacity!EventStatus]
  BY ScalingAssumption DEF Shop, Capacity!EventStatus, Cloud!EventStatus

Moves == [of : Deployments, from : Nat, to : Nat, status : Capacity!EventStatus]

MoverOK(p) ==
  \/ p = Capacity!Still
  \/ p \in [op : {"requestScaling"}, pc : {"policy"}, event : {None}, of : Deployments, row : Moves]
  \/ p \in [op : {"requestScaling"}, pc : {"scale", "save"}, event : Twins, of : Deployments,
            row : Moves]

CapTypes ==
  /\ cluster \in [Deployments -> Nat] /\ event \in [Twins -> Moves \cup {None}]
  /\ DOMAIN scaler = Pairs /\ \A p \in Pairs : MoverOK(scaler[p])
  /\ pulse \in [Pairs -> [pc : {"idle", "orders", "request", "scaling"}, current : Nat, target : Nat]]
  /\ demand \in Demands /\ moves \in Nat

\* A pulse that scales asks for the one deployment, and one that does not is no handler.
PulseOK(p) ==
  IF pulse[p].pc = "scaling" THEN scaler[p] # Capacity!Still /\ scaler[p].of = Shop
                             ELSE scaler[p] = Capacity!Still

\* What a pulse asks for is what the demand calls for.
AimOK(p) ==
  /\ pulse[p].pc = "request" => pulse[p].target = Capacity!Target(demand)
  /\ pulse[p].pc = "scaling" => scaler[p].row.to = Capacity!Target(demand)

CapInv ==
  /\ CapTypes
  /\ \A p \in Pairs : PulseOK(p)
  /\ ~unsettled => \A p \in Pairs : AimOK(p)
  /\ Capacity!SettlesInOneMove

\* The planner's target is a number of replicas.
LEMMA TargetIsReplicas == ASSUME NEW d \in Demands PROVE Capacity!Target(d) \in Nat
  <1>1. d.rate \in Nat /\ d.backlog \in Nat  BY DemandBounds
  <1>2. Capacity!EffectiveLoad(d) \in Nat  BY <1>1 DEF Capacity!EffectiveLoad
  <1> DEFINE load == Capacity!EffectiveLoad(d)
  <1> HIDE DEF load
  <1>3. (3 * load + 120 - 1) \div 120 \in Int /\ (load + 60 - 1) \div 60 \in Int  BY <1>2 DEF load
  <1>4. Capacity!RawTarget(d) \in Int
    BY <1>3 DEF Capacity!RawTarget, Capacity!CeilDiv, Capacity!ORDERS_PER_MINUTE_PER_REPLICA, load
  <1> QED
    BY <1>4 DEF Capacity!Target, Capacity!DEFAULT_MIN_REPLICAS, Capacity!DEFAULT_MAX_REPLICAS

\* A decision to move moves to the target.
LEMMA PlansTheTarget ==
  ASSUME NEW n, NEW d, Capacity!PlanCapacity(n, d).kind # "HOLD"
  PROVE Capacity!PlanCapacity(n, d).targetReplicas = Capacity!Target(d)
  BY DEF Capacity!PlanCapacity

\* Nothing is moving at the start.
LEMMA CapInvInit == Capacity!LoopInit => CapInv
  <1> SUFFICES ASSUME Capacity!LoopInit PROVE CapInv  OBVIOUS
  <1>0. Capacity!Still.pc = "idle" /\ Capacity!Quiet.pc = "idle"
    BY DEF Capacity!Still, Capacity!Quiet
  <1>1. /\ \A p \in Pairs : scaler[p] = Capacity!Still /\ pulse[p] = Capacity!Quiet
        /\ DOMAIN scaler = Pairs /\ cluster \in [Deployments -> {1}]
        /\ event = [e \in Twins |-> None] /\ demand \in Demands /\ moves = 0 /\ unsettled = FALSE
        /\ pulse = [p \in Pairs |-> Capacity!Quiet]
    BY DEF Capacity!LoopInit, Capacity!InfraInit
  <1>2. Capacity!Quiet \in [pc : {"idle", "orders", "request", "scaling"}, current : Nat, target : Nat]
    BY DEF Capacity!Quiet
  <1>3. CapTypes  BY <1>1, <1>2 DEF CapTypes, MoverOK
  <1>4. \A p \in Pairs : PulseOK(p) /\ AimOK(p)  BY <1>0, <1>1 DEF PulseOK, AimOK
  <1>5. Capacity!SettlesInOneMove  BY <1>1 DEF Capacity!SettlesInOneMove
  <1> QED BY <1>3, <1>4, <1>5 DEF CapInv

\* A pulse reads the replicas.
LEMMA ReadSnapshotStep ==
  ASSUME CapInv, NEW p \in Pairs, Capacity!ReadSnapshot(p)
  PROVE CapInv'
  <1> DEFINE new == [Capacity!Quiet EXCEPT !.pc = "orders", !.current = cluster[Shop]]
  <1>1. /\ pulse' = [pulse EXCEPT ![p] = new] /\ pulse[p] = Capacity!Quiet
        /\ UNCHANGED <<Capacity!infraVars, demand, moves, unsettled>>
    BY DEF Capacity!ReadSnapshot
  <1>2. new = [pc |-> "orders", current |-> cluster[Shop], target |-> 0]
    <2>1. Capacity!Quiet = [pc |-> "idle", current |-> 0, target |-> 0]  BY DEF Capacity!Quiet
    <2> DEFINE n == cluster[Shop]
               half == [Capacity!Quiet EXCEPT !.pc = "orders"]
    <2> HIDE DEF n
    <2>2. half = [pc |-> "orders", current |-> 0, target |-> 0]  BY <2>1
    <2>3. new = [half EXCEPT !.current = n]  BY DEF n
    <2> HIDE DEF half, new
    <2>4. new = [pc |-> "orders", current |-> n, target |-> 0]  BY <2>2, <2>3
    <2> QED BY <2>4 DEF n
  <1>3. cluster[Shop] \in Nat  BY DemandBounds DEF CapInv, CapTypes
  <1>4. new \in [pc : {"idle", "orders", "request", "scaling"}, current : Nat, target : Nat]
        /\ new.pc = "orders"
    <2> HIDE DEF new
    <2> QED BY <1>2, <1>3
  <1> HIDE DEF new
  <1>5. CapTypes'  BY <1>1, <1>4 DEF CapInv, CapTypes, Capacity!infraVars
  <1>6. Capacity!Quiet.pc = "idle"  BY DEF Capacity!Quiet
  <1>7. \A q \in Pairs : PulseOK(q)' /\ (~unsettled => AimOK(q)')
    BY <1>1, <1>4, <1>6 DEF CapInv, CapTypes, PulseOK, AimOK, Capacity!infraVars
  <1>8. Capacity!SettlesInOneMove'
    BY <1>1 DEF CapInv, Capacity!SettlesInOneMove, Capacity!infraVars
  <1> QED BY <1>1, <1>5, <1>7, <1>8 DEF CapInv

\* It reads the orders, and plans the capacity.
LEMMA ReadOrdersStep == ASSUME CapInv, NEW p \in Pairs, Capacity!ReadOrders(p) PROVE CapInv'
  <1> DEFINE decision == Capacity!PlanCapacity(pulse[p].current, demand)
             new == IF decision.kind = "HOLD" THEN Capacity!Quiet
                    ELSE [pulse[p] EXCEPT !.pc = "request", !.target = decision.targetReplicas]
  <1>1. /\ pulse' = [pulse EXCEPT ![p] = new] /\ pulse[p].pc = "orders"
        /\ UNCHANGED <<Capacity!infraVars, demand, moves, unsettled>>
    BY DEF Capacity!ReadOrders, CapInv, CapTypes
  <1>2. Capacity!Target(demand) \in Nat  BY TargetIsReplicas DEF CapInv, CapTypes
  <1>3. Capacity!Quiet \in [pc : {"idle", "orders", "request", "scaling"}, current : Nat, target : Nat]
        /\ Capacity!Quiet.pc = "idle"
    BY DEF Capacity!Quiet
  <1>4. /\ new \in [pc : {"idle", "orders", "request", "scaling"}, current : Nat, target : Nat]
        /\ new.pc \in {"idle", "request"} /\ (new.pc = "request" => new.target = Capacity!Target(demand))
    <2>1. CASE decision.kind = "HOLD"  BY <1>3, <2>1
    <2>2. CASE decision.kind # "HOLD"
      <3>1. decision.targetReplicas = Capacity!Target(demand)  BY <2>2, PlansTheTarget
      <3>2. pulse[p] \in [pc : {"idle", "orders", "request", "scaling"}, current : Nat, target : Nat]
        BY DEF CapInv, CapTypes
      <3>3. new = [pc |-> "request", current |-> pulse[p].current, target |-> Capacity!Target(demand)]
        <4> DEFINE t == Capacity!Target(demand)
        <4>1. new = [pulse[p] EXCEPT !.pc = "request", !.target = t]  BY <2>2, <3>1
        <4>2. pulse[p] = [pc |-> "orders", current |-> pulse[p].current, target |-> pulse[p].target]
          BY <1>1, <3>2
        <4> DEFINE half == [pulse[p] EXCEPT !.pc = "request"]
        <4>3. half = [pc |-> "request", current |-> pulse[p].current, target |-> pulse[p].target]
          BY <4>2
        <4>4. new = [half EXCEPT !.target = t]  BY <4>1
        <4> HIDE DEF t, new, half
        <4>5. new = [pc |-> "request", current |-> pulse[p].current, target |-> t]
          BY <4>3, <4>4
        <4> QED BY <4>5 DEF t
      <3> HIDE DEF new, decision
      <3> QED BY <1>2, <3>2, <3>3
    <2> QED BY <2>1, <2>2
  <1> HIDE DEF new, decision
  <1>5. CapTypes'  BY <1>1, <1>4 DEF CapInv, CapTypes, Capacity!infraVars
  <1>7. \A q \in Pairs : PulseOK(q)' /\ (~unsettled => AimOK(q)')
    BY <1>1, <1>4 DEF CapInv, CapTypes, PulseOK, AimOK, Capacity!infraVars
  <1>8. Capacity!SettlesInOneMove'
    BY <1>1 DEF CapInv, Capacity!SettlesInOneMove, Capacity!infraVars
  <1> QED BY <1>1, <1>5, <1>7, <1>8 DEF CapInv

\* It requests the target.
LEMMA RequestTargetStep ==
  ASSUME CapInv, NEW p \in Pairs, Capacity!RequestTarget(p)
  PROVE CapInv'
  <1> DEFINE to == pulse[p].target
             row == [of |-> Shop, from |-> cluster[Shop], to |-> to, status |-> "REQUESTED"]
             new == [op |-> "requestScaling", pc |-> "policy", event |-> None, of |-> Shop,
                     row |-> row]
             beat == [pulse[p] EXCEPT !.pc = "scaling"]
  <1>1. /\ pulse[p].pc = "request" /\ pulse' = [pulse EXCEPT ![p] = beat]
        /\ scaler[p] = Capacity!Still /\ scaler' = [scaler EXCEPT ![p] = new]
        /\ UNCHANGED <<driver, cluster, event, last, demand, moves, unsettled>>
    BY DEF Capacity!RequestTarget, Capacity!RequestScaling, Capacity!Arrives, CapInv, CapTypes
  <1>2. pulse[p] \in [pc : {"idle", "orders", "request", "scaling"}, current : Nat, target : Nat]
    BY DEF CapInv, CapTypes
  <1>3. beat \in [pc : {"idle", "orders", "request", "scaling"}, current : Nat, target : Nat]
        /\ beat.pc = "scaling"
    BY <1>2
  <1>4. cluster[Shop] \in Nat /\ Shop \in Deployments  BY DemandBounds DEF CapInv, CapTypes
  <1>5. row \in Moves /\ row.to = to  BY <1>2, <1>4 DEF Moves, Capacity!EventStatus
  <1>6. ~unsettled => to = Capacity!Target(demand)  BY <1>1 DEF CapInv, AimOK
  <1> HIDE DEF row, beat, to
  <1>7. MoverOK(new) /\ new.row = row /\ new.of = Shop /\ new.pc = "policy"
    BY <1>4, <1>5 DEF MoverOK
  <1>8. Capacity!Still.pc = "idle"  BY DEF Capacity!Still
  <1>9. new # Capacity!Still  BY <1>7, <1>8
  <1> HIDE DEF new
  <1>10. CapTypes'  BY <1>1, <1>3, <1>7 DEF CapInv, CapTypes
  <1>11. \A q \in Pairs : PulseOK(q)' /\ (~unsettled => AimOK(q)')
    BY <1>1, <1>3, <1>5, <1>6, <1>7, <1>9 DEF CapInv, CapTypes, PulseOK, AimOK
  <1>12. Capacity!SettlesInOneMove'  BY <1>1 DEF CapInv, Capacity!SettlesInOneMove
  <1> QED BY <1>1, <1>10, <1>11, <1>12 DEF CapInv

\* A step of a handler that goes on, towards what it asked for, or comes to its end.
LEMMA MoverSteps ==
  ASSUME CapInv, NEW p \in Pairs, pulse[p].pc = "scaling",
         (\E e \in Twins : Capacity!DecideScaling(p, e, TRUE, TRUE)) \/ Capacity!ScaleDeployment(p) \/ Capacity!SaveEvent(p)
  PROVE /\ DOMAIN scaler' = Pairs /\ \A q \in Pairs : q # p => scaler'[q] = scaler[q]
        /\ MoverOK(scaler'[p]) /\ event' \in [Twins -> Moves \cup {None}]
        /\ scaler'[p] # Capacity!Still => scaler'[p].of = scaler[p].of /\ scaler'[p].row.to = scaler[p].row.to
        /\ cluster' = cluster \/ cluster' = [cluster EXCEPT ![Shop] = scaler[p].row.to]
        /\ scaler[p].row.to \in Nat
  <1>1. CapTypes /\ PulseOK(p)  BY DEF CapInv
  <1>2. MoverOK(scaler[p]) /\ scaler[p] # Capacity!Still /\ scaler[p].of = Shop
    BY <1>1 DEF CapTypes, PulseOK
  <1>3. scaler[p] \in [op : {"requestScaling"}, pc : {"policy", "scale", "save"},
                       event : Twins \cup {None}, of : Deployments, row : Moves]
        /\ (scaler[p].pc # "policy" => scaler[p].event \in Twins)
    BY <1>2 DEF MoverOK
  <1>4. scaler[p].row \in Moves /\ scaler[p].row.to \in Nat  BY <1>3 DEF Moves
  <1>5. \A row \in Moves : Capacity!StoredEvent(row) \in Moves
    BY DEF Capacity!StoredEvent, Moves, Capacity!EventStatus
  <1>6. CASE \E e \in Twins : Capacity!DecideScaling(p, e, TRUE, TRUE)
    <2> PICK e \in Twins : Capacity!DecideScaling(p, e, TRUE, TRUE)  BY <1>6
    <2> DEFINE row == scaler[p].row
               allowed == Capacity!Verdict(row, TRUE, TRUE) = "AUTO_APPROVE"
               stored == [row EXCEPT !.status = IF allowed THEN "REQUESTED" ELSE "POLICY_REJECTED"]
               on == [scaler[p] EXCEPT !.pc = "scale", !.event = e]
    <2>1. /\ event' = [event EXCEPT ![e] = Capacity!StoredEvent(stored)] /\ cluster' = cluster
          /\ scaler' = [scaler EXCEPT ![p] = IF allowed THEN on ELSE Capacity!Still]
      BY <1>1 DEF Capacity!DecideScaling, CapTypes
    <2>2. stored \in Moves
      <3> DEFINE st == IF allowed THEN "REQUESTED" ELSE "POLICY_REJECTED"
      <3>1. st \in Capacity!EventStatus  BY DEF Capacity!EventStatus
      <3> HIDE DEF st
      <3>2. [row EXCEPT !.status = st] \in Moves  BY <1>4, <3>1 DEF Moves
      <3> QED BY <3>2 DEF st
    <2>3. on = [op |-> "requestScaling", pc |-> "scale", event |-> e, of |-> scaler[p].of, row |-> row]
      <3>1. scaler[p] = [op |-> "requestScaling", pc |-> scaler[p].pc, event |-> scaler[p].event,
                         of |-> scaler[p].of, row |-> row]
        BY <1>3
      <3> DEFINE half == [scaler[p] EXCEPT !.pc = "scale"]
      <3>2. on = [half EXCEPT !.event = e]  OBVIOUS
      <3> HIDE DEF row, on
      <3>3. half = [op |-> "requestScaling", pc |-> "scale", event |-> scaler[p].event,
                    of |-> scaler[p].of, row |-> row]
        BY <3>1
      <3> HIDE DEF half
      <3> QED BY <3>2, <3>3
    <2>4. MoverOK(on) /\ on.of = scaler[p].of /\ on.row = row  BY <1>3, <1>4, <2>3 DEF MoverOK
    <2> HIDE DEF allowed, stored, on
    <2> QED BY <1>1, <1>4, <1>5, <2>1, <2>2, <2>4 DEF CapTypes, MoverOK
  <1>7. CASE Capacity!ScaleDeployment(p)
    <2>1. scaler[p].pc = "scale" /\ scaler[p].event \in Twins
      BY <1>3, <1>7 DEF Capacity!ScaleDeployment
    <2>2. PICK st \in {"EXECUTED", "FAILED"} :
            scaler' = [scaler EXCEPT ![p].pc = "save", ![p].row.status = st]
      BY <1>7 DEF Capacity!ScaleDeployment
    <2> DEFINE row == [scaler[p].row EXCEPT !.status = st]
               on == [op |-> "requestScaling", pc |-> "save", event |-> scaler[p].event,
                      of |-> scaler[p].of, row |-> row]
    <2>3. scaler'[p] = on
      <3>1. scaler'[p] = [scaler[p] EXCEPT !.pc = "save", !.row.status = st]
        BY <1>1, <2>2 DEF CapTypes
      <3>2. [scaler[p] EXCEPT !.pc = "save", !.row.status = st]
              = [scaler[p] EXCEPT !.pc = "save", !.row = row]
        OBVIOUS
      <3> HIDE DEF row, on
      <3>3. scaler[p] = [op |-> "requestScaling", pc |-> "scale", event |-> scaler[p].event,
                         of |-> scaler[p].of, row |-> scaler[p].row]
        BY <1>3, <2>1
      <3>4. [scaler[p] EXCEPT !.pc = "save", !.row = row] =
              [op |-> "requestScaling", pc |-> "save", event |-> scaler[p].event,
               of |-> scaler[p].of, row |-> row]
        <4> DEFINE half == [scaler[p] EXCEPT !.pc = "save"]
                   whole == [half EXCEPT !.row = row]
        <4>1. half = [op |-> "requestScaling", pc |-> "save", event |-> scaler[p].event,
                      of |-> scaler[p].of, row |-> scaler[p].row]
          BY <3>3
        <4>2. [scaler[p] EXCEPT !.pc = "save", !.row = row] = whole  OBVIOUS
        <4> HIDE DEF half
        <4>3. whole = [op |-> "requestScaling", pc |-> "save", event |-> scaler[p].event,
                       of |-> scaler[p].of, row |-> row]
          BY <4>1
        <4> QED BY <4>2, <4>3
      <3> QED BY <3>1, <3>2, <3>4 DEF on
    <2>4. row \in Moves /\ row.to = scaler[p].row.to
      <3>1. st \in Capacity!EventStatus  BY DEF Capacity!EventStatus
      <3> QED BY <1>4, <3>1 DEF Moves
    <2> HIDE DEF row
    <2>5. MoverOK(on) /\ on.of = scaler[p].of /\ on.row = row  BY <1>3, <2>1, <2>4 DEF MoverOK
    <2>6. event' = event /\ (cluster' = cluster \/ cluster' = [cluster EXCEPT ![Shop] = scaler[p].row.to])
      BY <1>2, <1>7 DEF Capacity!ScaleDeployment
    <2>7. DOMAIN scaler' = Pairs /\ \A q \in Pairs : q # p => scaler'[q] = scaler[q]
      BY <1>1, <2>2 DEF CapTypes
    <2> HIDE DEF on
    <2> QED BY <1>1, <1>4, <2>3, <2>4, <2>5, <2>6, <2>7 DEF CapTypes
  <1>8. CASE Capacity!SaveEvent(p)
    <2>1. /\ scaler[p].pc = "save" /\ scaler' = [scaler EXCEPT ![p] = Capacity!Still]
          /\ event' = [event EXCEPT ![scaler[p].event] = Capacity!StoredEvent(scaler[p].row)]
          /\ cluster' = cluster
      BY <1>8 DEF Capacity!SaveEvent
    <2> QED BY <1>1, <1>3, <1>4, <1>5, <2>1 DEF CapTypes, MoverOK
  <1> QED BY <1>6, <1>7, <1>8

\* The request is handled, by a handler of the infrastructure.
LEMMA ScalingStep == ASSUME CapInv, NEW p \in Pairs, Capacity!Scaling(p) PROVE CapInv'
  <1>1. /\ pulse[p].pc = "scaling"
        /\ (\E e \in Twins : Capacity!DecideScaling(p, e, TRUE, TRUE)) \/ Capacity!ScaleDeployment(p) \/ Capacity!SaveEvent(p)
        /\ moves' = IF cluster' = cluster THEN moves ELSE moves + 1
        /\ pulse' = [pulse EXCEPT ![p] = IF scaler'[p] = Capacity!Still THEN Capacity!Quiet ELSE pulse[p]]
        /\ UNCHANGED <<demand, unsettled>>
    BY DEF Capacity!Scaling, CapInv, CapTypes
  <1>2. /\ DOMAIN scaler' = Pairs /\ \A q \in Pairs : q # p => scaler'[q] = scaler[q]
        /\ MoverOK(scaler'[p]) /\ event' \in [Twins -> Moves \cup {None}]
        /\ scaler'[p] # Capacity!Still => scaler'[p].of = scaler[p].of /\ scaler'[p].row.to = scaler[p].row.to
        /\ cluster' = cluster \/ cluster' = [cluster EXCEPT ![Shop] = scaler[p].row.to]
        /\ scaler[p].row.to \in Nat
    BY <1>1, MoverSteps
  <1>3. Capacity!Quiet \in [pc : {"idle", "orders", "request", "scaling"}, current : Nat, target : Nat]
        /\ Capacity!Quiet.pc = "idle"
    BY DEF Capacity!Quiet
  <1>4. CapTypes /\ PulseOK(p) /\ (~unsettled => AimOK(p)) /\ Capacity!SettlesInOneMove
    BY DEF CapInv
  <1>5. CapTypes'
    <2>1. cluster' \in [Deployments -> Nat]  BY <1>2, <1>4, DemandBounds DEF CapTypes
    <2>2. moves' \in Nat  BY <1>1, <1>4 DEF CapTypes
    <2>3. pulse' \in [Pairs -> [pc : {"idle", "orders", "request", "scaling"}, current : Nat,
                                  target : Nat]]
      BY <1>1, <1>3, <1>4 DEF CapTypes
    <2>4. \A q \in Pairs : MoverOK(scaler'[q])  BY <1>2, <1>4 DEF CapTypes
    <2> QED BY <1>1, <1>2, <1>4, <2>1, <2>2, <2>3, <2>4 DEF CapTypes
  <1>6. pulse'[p] = (IF scaler'[p] = Capacity!Still THEN Capacity!Quiet ELSE pulse[p])
        /\ \A q \in Pairs : q # p => pulse'[q] = pulse[q]
    BY <1>1, <1>4 DEF CapTypes
  <1>7. \A q \in Pairs : PulseOK(q)' /\ (~unsettled => AimOK(q)')
    <2> SUFFICES ASSUME NEW q \in Pairs PROVE PulseOK(q)' /\ (~unsettled => AimOK(q)')  OBVIOUS
    <2>1. CASE q = p  BY <1>1, <1>2, <1>3, <1>4, <1>6, <2>1 DEF PulseOK, AimOK
    <2>2. CASE q # p
      <3>1. pulse'[q] = pulse[q] /\ scaler'[q] = scaler[q]  BY <1>2, <1>6, <2>2
      <3>2. PulseOK(q) /\ (~unsettled => AimOK(q))  BY DEF CapInv
      <3> QED BY <1>1, <3>1, <3>2 DEF PulseOK, AimOK
    <2> QED BY <2>1, <2>2
  <1>8. Capacity!SettlesInOneMove'
    <2> SUFFICES ASSUME ~unsettled
                 PROVE moves' <= 1 /\ (moves' = 1 => cluster'[Shop] = Capacity!Target(demand'))
      BY <1>1 DEF Capacity!SettlesInOneMove
    <2>1. scaler[p].row.to = Capacity!Target(demand)  BY <1>1, <1>4 DEF AimOK
    <2>2. CASE cluster' = cluster  BY <1>1, <1>4, <2>2 DEF Capacity!SettlesInOneMove
    <2>3. CASE cluster' # cluster
      <3>1. cluster' = [cluster EXCEPT ![Shop] = Capacity!Target(demand)]  BY <1>2, <2>1, <2>3
      <3>2. cluster[Shop] # Capacity!Target(demand)  BY <1>4, <2>3, <3>1 DEF CapTypes
      <3>3. moves = 0 /\ moves' = 1
        BY <1>1, <1>4, <2>3, <3>2 DEF Capacity!SettlesInOneMove, CapTypes
      <3>4. cluster'[Shop] = Capacity!Target(demand)  BY <1>4, <3>1, DemandBounds DEF CapTypes
      <3> QED BY <1>1, <3>3, <3>4
    <2> QED BY <2>2, <2>3
  <1> QED BY <1>1, <1>5, <1>7, <1>8 DEF CapInv

\* After a change from outside only quiet pulses are left to be counted.
LEMMA DisturbedStep ==
  ASSUME CapInv, Capacity!Disturbed, demand' \in Demands, UNCHANGED <<event, scaler>>,
         cluster' \in [Deployments -> Nat]
  PROVE CapInv'
  <1>1. moves' = 0 /\ pulse' = pulse /\ (unsettled' <=> \E p \in Pairs : pulse[p] # Capacity!Quiet)
    BY DEF Capacity!Disturbed
  <1>2. CapTypes'  BY <1>1 DEF CapInv, CapTypes
  <1>3. \A p \in Pairs : PulseOK(p)'  BY <1>1 DEF CapInv, PulseOK
  <1>4. Capacity!Quiet.pc = "idle"  BY DEF Capacity!Quiet
  <1>5. ~unsettled' => \A p \in Pairs : AimOK(p)'  BY <1>1, <1>4 DEF AimOK
  <1>6. Capacity!SettlesInOneMove'  BY <1>1 DEF Capacity!SettlesInOneMove
  <1> QED BY <1>2, <1>3, <1>5, <1>6 DEF CapInv

\* Every step of the loop keeps the invariant.
LEMMA CapInvNext == CapInv /\ [Capacity!LoopNext]_(Capacity!loopVars) => CapInv'
  <1> SUFFICES ASSUME CapInv, [Capacity!LoopNext]_(Capacity!loopVars) PROVE CapInv'  OBVIOUS
  <1>1. CASE UNCHANGED Capacity!loopVars
    BY <1>1
       DEF Capacity!loopVars, Capacity!infraVars, CapInv, CapTypes, PulseOK, AimOK,
           Capacity!SettlesInOneMove
  <1>2. ASSUME NEW d \in Demands, Capacity!DemandChanges(d) PROVE CapInv'
    BY <1>2, DisturbedStep DEF Capacity!DemandChanges, Capacity!infraVars, CapInv, CapTypes
  <1>3. ASSUME NEW n \in OthersReplicas, Capacity!OperatorScales(n) PROVE CapInv'
    <2>1. cluster' = [cluster EXCEPT ![Shop] = n] /\ n \in Nat
          /\ UNCHANGED <<event, scaler, demand>> /\ Capacity!Disturbed
      BY <1>3, DemandBounds DEF Capacity!OperatorScales, Capacity!OthersScale
    <2>2. cluster' \in [Deployments -> Nat] /\ demand' \in Demands  BY <2>1 DEF CapInv, CapTypes
    <2> QED BY <2>1, <2>2, DisturbedStep
  <1> QED BY <1>1, <1>2, <1>3, ReadSnapshotStep, ReadOrdersStep, RequestTargetStep, ScalingStep
         DEF Capacity!LoopNext

\* The invariant implies that the loop settles.
LEMMA CapInvImplies == CapInv => Capacity!SettlesInOneMove /\ Capacity!LoopTypeOK
  <1> SUFFICES ASSUME CapInv PROVE Capacity!SettlesInOneMove /\ Capacity!LoopTypeOK  OBVIOUS
  <1>1. Capacity!Still.pc = "idle"  BY DEF Capacity!Still
  <1>2. \A s \in Pairs : scaler[s].pc \in {"idle", "policy", "scale", "rollback", "save", "thrown"}
    BY <1>1 DEF CapInv, CapTypes, MoverOK
  <1>3. \A e \in Twins : event[e] # None => event[e].status \in Capacity!EventStatus /\ event[e].of \in Deployments
    BY DEF CapInv, CapTypes, Moves
  <1>4. demand \in Demands /\ \A p \in Pairs : pulse[p].pc \in {"idle", "orders", "request", "scaling"}
    BY DEF CapInv, CapTypes
  <1> QED BY <1>2, <1>3, <1>4 DEF CapInv, Capacity!LoopTypeOK, Capacity!InfraTypeOK

\* Without the bounds of the scene too: the loop settles in one move
\* (stepInfraTelemetryPulse of simulator.service.ts).
THEOREM LoopSettles == Capacity!LoopSpec => []Capacity!SettlesInOneMove
  <1>1. Capacity!LoopSpec => []CapInv  BY CapInvInit, CapInvNext, PTL DEF Capacity!LoopSpec
  <1> QED BY <1>1, CapInvImplies, PTL

HIDE DEF demand, pulse, moves, unsettled

-----------------------------------------------------------------------------
(***************************************************************************)
(* Infrastructure, and the enterprise saga.                                *)
(***************************************************************************)
Scalers == Pairs \cup {Saga}
Sagas == {Saga}
saga == s7
accountIds == s8
reserved == s9
left == s10
escalations == s11
undone == s12
USE DEF Scalers, Sagas, saga, accountIds, reserved, left, escalations, undone

\* None is no deployment, no event and no row of one.
LEMMA ScalingBounds ==
  /\ SagaReplicas \subseteq Nat /\ SagaMaxReplicas \in Nat \ {0}
  /\ None \notin Deployments /\ None \notin Twins
  /\ None \notin [of : Deployments, from : Nat, to : Nat, status : Cloud!EventStatus]
  /\ Sagas \subseteq Scalers
  BY ScalingAssumption

Rows == [of : Deployments, from : Nat, to : Nat, status : Cloud!EventStatus]

Policing == [op : {"requestScaling"}, pc : {"policy"}, event : {None}, of : Deployments, row : Rows]
Requesting == [op : {"requestScaling"}, pc : {"scale", "save"}, event : Twins, of : Deployments,
               row : Rows]
RollingBack == [op : {"rollbackScaling"}, pc : {"rollback", "save"}, event : Twins,
                of : Deployments, row : Rows]

CloudTypes ==
  /\ cluster \in [Deployments -> Nat] /\ event \in [Twins -> Rows \cup {None}]
  /\ last \in [Deployments -> Twins \cup {None}]
  /\ DOMAIN scaler = Scalers
  /\ \A s \in Scalers : scaler[s] \in {Cloud!Still} \cup Policing \cup Requesting \cup RollingBack

\* What a handler found, or stored, is still so of its event.
HoldsOK(p) ==
  /\ p \in Policing \cup Requesting \cup RollingBack =>
       p.row.of = p.of /\ (p.of \notin disturbed => p.row.from <= SagaMaxReplicas)
  /\ p \in Policing \cup Requesting => p.row.to <= SagaMaxReplicas
  /\ p \in Requesting =>
       /\ event[p.event] # None
       /\ event[p.event].status = "REQUESTED" /\ event[p.event].of = p.of
       /\ p.pc = "save" => p.row.status \in {"EXECUTED", "FAILED"}
  /\ p \in RollingBack =>
       /\ event[p.event] # None
       /\ event[p.event].status \in {"EXECUTED", "ROLLED_BACK"} /\ event[p.event].of = p.of
       /\ event[p.event].from = p.row.from /\ event[p.event].to = p.row.to
       /\ p.row.to <= SagaMaxReplicas
       /\ p.pc = "save" => p.row.status = "ROLLED_BACK"

OneRequester ==
  \A s, t \in Scalers :
    scaler[s] \in Requesting /\ scaler[t] \in Requesting /\ scaler[s].event = scaler[t].event
      => s = t

OneAtOnce ==
  \A s, t \in Scalers : scaler[s].of \in Deployments \ disturbed /\ scaler[t].of = scaler[s].of => s = t

EventOK(e) ==
  event[e] # None =>
    /\ event[e].of \notin disturbed => event[e].from <= SagaMaxReplicas
    /\ event[e].status \in {"EXECUTED", "ROLLED_BACK"} => event[e].to <= SagaMaxReplicas

LastOK(d) == last[d] # None => event[last[d]] # None /\ event[last[d]].of = d

Follows(d) ==
  IF last[d] = None THEN cluster[d] = 1
  ELSE /\ event[last[d]].status \in {"EXECUTED", "ROLLED_BACK"}
       /\ cluster[d] = IF event[last[d]].status = "EXECUTED" THEN event[last[d]].to
                                                             ELSE event[last[d]].from
       /\ cluster[d] <= SagaMaxReplicas

\* A handler the cluster obeyed, that has yet to say so.
Applied(p) == p \in Requesting \cup RollingBack /\ p.pc = "save" /\ p.row.status # "FAILED"

FollowOK(d) ==
  d \notin disturbed =>
    /\ (\A s \in Scalers : scaler[s].of = d => ~Applied(scaler[s])) => Follows(d)
    /\ \A s \in Scalers : scaler[s].of = d /\ Applied(scaler[s]) =>
         /\ last[d] = scaler[s].event
         /\ cluster[d] = IF scaler[s].row.status = "EXECUTED" THEN scaler[s].row.to
                                                              ELSE scaler[s].row.from

CloudInv ==
  /\ CloudTypes
  /\ \A s \in Scalers : HoldsOK(scaler[s])
  /\ OneRequester /\ OneAtOnce
  /\ \A e \in Twins : EventOK(e)
  /\ \A d \in Deployments : LastOK(d) /\ FollowOK(d)

\* A handler at rest is none of the others ...
LEMMA StillIsNobody ==
  /\ Cloud!Still.of = None /\ Cloud!Still.pc = "idle" /\ Cloud!Still.event = None
  /\ Cloud!Still \notin Policing \cup Requesting \cup RollingBack
  <1>1. Cloud!Still.of = None /\ Cloud!Still.pc = "idle" /\ Cloud!Still.event = None
    BY DEF Cloud!Still
  <1> QED BY <1>1 DEF Policing, Requesting, RollingBack

\* ... and those are of one kind each.
LEMMA KindsDiffer ==
  /\ \A p \in Policing : p \notin Requesting /\ p \notin RollingBack
  /\ \A p \in Requesting : p \notin RollingBack
  BY DEF Policing, Requesting, RollingBack

\* What is stored of an event is a row.
LEMMA StoredIsRow ==
  ASSUME NEW row \in Rows
  PROVE /\ Cloud!StoredEvent(row) \in Rows
        /\ Cloud!StoredEvent(row).of = row.of /\ Cloud!StoredEvent(row).from = row.from /\ Cloud!StoredEvent(row).to = row.to
        /\ row.status # "POLICY_REJECTED" => Cloud!StoredEvent(row) = row
        /\ row.status = "POLICY_REJECTED" => Cloud!StoredEvent(row).status \in {"POLICY_REJECTED", "FAILED"}
  BY DEF Cloud!StoredEvent, Rows, Cloud!EventStatus

\* No handler is at work at the start.
LEMMA CloudInvInit == Cloud!InfraInit => CloudInv
  <1> SUFFICES ASSUME Cloud!InfraInit PROVE CloudInv  OBVIOUS
  <1>1. /\ cluster \in [Deployments -> {1}] /\ event = [e \in Twins |-> None]
        /\ scaler = [s \in Scalers |-> Cloud!Still] /\ last = [d \in Deployments |-> None]
    BY DEF Cloud!InfraInit
  <1>2. CloudTypes  BY <1>1 DEF CloudTypes
  <1>3. \A s \in Scalers : scaler[s] = Cloud!Still  BY <1>1
  <1>4. \A s \in Scalers : HoldsOK(scaler[s])  BY <1>3, StillIsNobody DEF HoldsOK
  <1>5. OneRequester /\ OneAtOnce
    <2>1. \A s \in Scalers : scaler[s] \notin Requesting /\ scaler[s].of \notin Deployments
      BY <1>3, StillIsNobody, ScalingBounds
    <2> QED BY <2>1 DEF OneRequester, OneAtOnce
  <1>6. \A e \in Twins : EventOK(e)  BY <1>1 DEF EventOK
  <1>7. \A d \in Deployments : LastOK(d) /\ FollowOK(d)
    BY <1>1, <1>3, StillIsNobody DEF LastOK, FollowOK, Follows, Applied
  <1> QED BY <1>2, <1>4, <1>5, <1>6, <1>7 DEF CloudInv

\* Nothing changes at a deployment at which nothing happens.
LEMMA ElsewhereOK ==
  ASSUME NEW d, LastOK(d), FollowOK(d), d \in disturbed => d \in disturbed',
         \A t \in Scalers : scaler[t].of = d \/ scaler'[t].of = d => scaler'[t] = scaler[t],
         last'[d] = last[d], cluster'[d] = cluster[d],
         last[d] # None => event'[last[d]] = event[last[d]]
  PROVE LastOK(d)' /\ FollowOK(d)'
  <1>1. LastOK(d)'  BY DEF LastOK
  <1>2. ASSUME d \notin disturbed' PROVE FollowOK(d)'
    <2>1. /\ (\A s \in Scalers : scaler[s].of = d => ~Applied(scaler[s])) => Follows(d)
          /\ \A s \in Scalers : scaler[s].of = d /\ Applied(scaler[s]) =>
               /\ last[d] = scaler[s].event
               /\ cluster[d] = IF scaler[s].row.status = "EXECUTED" THEN scaler[s].row.to
                                                                    ELSE scaler[s].row.from
      BY <1>2 DEF FollowOK
    <2>2. Follows(d) => Follows(d)'  BY DEF Follows
    <2>3. (\A s \in Scalers : scaler'[s].of = d => ~Applied(scaler'[s]))
            => (\A s \in Scalers : scaler[s].of = d => ~Applied(scaler[s]))
      OBVIOUS
    <2>4. \A s \in Scalers : scaler'[s].of = d /\ Applied(scaler'[s]) =>
            /\ last'[d] = scaler'[s].event
            /\ cluster'[d] = IF scaler'[s].row.status = "EXECUTED" THEN scaler'[s].row.to
                                                                   ELSE scaler'[s].row.from
      BY <2>1
    <2>5. \A s \in Scalers : Applied(scaler[s])' <=> Applied(scaler'[s])  BY DEF Applied
    <2> QED BY <2>1, <2>2, <2>3, <2>4, <2>5 DEF FollowOK
  <1>3. d \in disturbed' => FollowOK(d)'  BY DEF FollowOK
  <1> QED BY <1>1, <1>2, <1>3

\* A handler arrives, with what it has found.
LEMMA ArrivesSoundly ==
  ASSUME CloudInv, NEW s \in Scalers, NEW p \in Policing \cup RollingBack,
         NEW d \in Deployments, p.of = d, p.pc # "save",
         Cloud!Arrives(s, p), UNCHANGED <<cluster, event, last>>,
         p.row.of = d, p.row.to <= SagaMaxReplicas,
         p.row.from = cluster[d] \/ p \in RollingBack,
         p \in RollingBack => /\ event[p.event] = p.row /\ p.row.status = "EXECUTED"
  PROVE CloudInv'
  <1>1. /\ scaler[s] = Cloud!Still /\ scaler' = [scaler EXCEPT ![s] = p]
        /\ disturbed' = disturbed \cup {x \in {d} : \E t \in Scalers : scaler[t].of = x}
    BY DEF Cloud!Arrives
  <1>2. CloudTypes  BY DEF CloudInv
  <1>3. /\ DOMAIN scaler' = Scalers /\ scaler'[s] = p
        /\ \A t \in Scalers : t # s => scaler'[t] = scaler[t]
    BY <1>1, <1>2 DEF CloudTypes
  <1>4. CloudTypes'  BY <1>2, <1>3 DEF CloudTypes
  <1>5. /\ disturbed \subseteq disturbed'
        /\ d \notin disturbed' => \A t \in Scalers : scaler[t].of # d
    BY <1>1
  <1>6. d \notin disturbed' => Follows(d)
    <2> SUFFICES ASSUME d \notin disturbed' PROVE Follows(d)  OBVIOUS
    <2>1. FollowOK(d) /\ d \notin disturbed  BY <1>5 DEF CloudInv
    <2> QED BY <1>5, <2>1 DEF FollowOK
  <1>7. d \notin disturbed' => p.row.from <= SagaMaxReplicas
    <2> SUFFICES ASSUME d \notin disturbed' PROVE p.row.from <= SagaMaxReplicas  OBVIOUS
    <2>1. CASE p.row.from = cluster[d]
      <3>1. cluster[d] <= SagaMaxReplicas  BY <1>6, ScalingBounds DEF Follows
      <3> QED BY <2>1, <3>1
    <2>2. CASE p \in RollingBack
      <3>1. event[p.event] = p.row /\ p.event \in Twins  BY <2>2 DEF RollingBack
      <3>2. event[p.event] # None  BY <3>1, <2>2, ScalingBounds DEF RollingBack, Rows
      <3>3. EventOK(p.event)  BY <3>1 DEF CloudInv
      <3> QED BY <1>5, <3>1, <3>2, <3>3 DEF EventOK
    <2> QED BY <2>1, <2>2
  <1>8. HoldsOK(p)'
    <2>1. p \in RollingBack => event'[p.event] # None  BY ScalingBounds DEF RollingBack, Rows
    <2>2. p \notin Requesting  BY KindsDiffer
    <2> QED BY <1>7, <2>1, <2>2 DEF HoldsOK
  <1>9. \A t \in Scalers : HoldsOK(scaler[t])'
    <2> SUFFICES ASSUME NEW t \in Scalers PROVE HoldsOK(scaler[t])'  OBVIOUS
    <2>1. CASE t = s
      <3>1. HoldsOK(p)' <=> HoldsOK(scaler[t])'  BY <1>3, <2>1 DEF HoldsOK
      <3> QED BY <1>8, <3>1
    <2>2. CASE t # s
      <3>1. scaler'[t] = scaler[t] /\ HoldsOK(scaler[t])  BY <1>3, <2>2 DEF CloudInv
      <3> QED BY <1>5, <3>1 DEF HoldsOK
    <2> QED BY <2>1, <2>2
  <1>10. OneRequester'
    <2>1. p \notin Requesting  BY KindsDiffer
    <2>2. \A t \in Scalers : scaler'[t] \in Requesting => scaler'[t] = scaler[t]  BY <1>3, <2>1
    <2>3. OneRequester  BY DEF CloudInv
    <2> SUFFICES ASSUME NEW t \in Scalers, NEW u \in Scalers, scaler'[t] \in Requesting,
                        scaler'[u] \in Requesting, scaler'[t].event = scaler'[u].event
                 PROVE t = u
      BY DEF OneRequester
    <2>4. scaler'[t] = scaler[t] /\ scaler'[u] = scaler[u]  BY <2>2
    <2> QED BY <2>3, <2>4 DEF OneRequester
  <1>11. OneAtOnce'
    <2> SUFFICES ASSUME NEW t \in Scalers, NEW u \in Scalers,
                        scaler'[t].of \in Deployments \ disturbed', scaler'[u].of = scaler'[t].of
                 PROVE t = u
      BY DEF OneAtOnce
    <2>1. CASE t = s \/ u = s  BY <1>3, <1>5, <2>1
    <2>2. CASE t # s /\ u # s  BY <1>3, <1>5, <2>2 DEF CloudInv, OneAtOnce
    <2> QED BY <2>1, <2>2
  <1>12. \A e \in Twins : EventOK(e)'  BY <1>5 DEF CloudInv, EventOK
  <1>13. \A x \in Deployments : LastOK(x)' /\ FollowOK(x)'
    <2> SUFFICES ASSUME NEW x \in Deployments PROVE LastOK(x)' /\ FollowOK(x)'  OBVIOUS
    <2>0. LastOK(x) /\ FollowOK(x)  BY DEF CloudInv
    <2>1. CASE x # d
      <3>1. \A t \in Scalers : scaler[t].of = x \/ scaler'[t].of = x => scaler'[t] = scaler[t]
        BY <1>1, <1>3, <2>1, StillIsNobody, ScalingBounds
      <3> QED BY <1>5, <2>0, <3>1, ElsewhereOK
    <2>2. CASE x = d
      <3>1. LastOK(x)'  BY <2>0 DEF LastOK
      <3>2. ASSUME d \notin disturbed' PROVE FollowOK(x)'
        <4>1. Follows(x)'  BY <1>6, <2>2, <3>2 DEF Follows
        <4>2. \A t \in Scalers : scaler'[t].of = x => ~Applied(scaler'[t])
          BY <1>3, <1>5, <2>2, <3>2 DEF Applied
        <4>3. \A t \in Scalers : Applied(scaler[t])' <=> Applied(scaler'[t])  BY DEF Applied
        <4> QED BY <4>1, <4>2, <4>3 DEF FollowOK
      <3> QED BY <2>2, <3>1, <3>2 DEF FollowOK
    <2> QED BY <2>1, <2>2
  <1> QED BY <1>4, <1>9, <1>10, <1>11, <1>12, <1>13 DEF CloudInv

\* An event that is new is no handler's, and of no deployment the last.
LEMMA NewEventIsNobodys ==
  ASSUME CloudInv, NEW e \in Twins, event[e] = None
  PROVE /\ \A t \in Scalers : scaler[t] \in Requesting \cup RollingBack => scaler[t].event # e
        /\ \A d \in Deployments : last[d] # e
  BY ScalingBounds DEF CloudInv, HoldsOK, LastOK

\* A request the policy refuses is stored, and nothing moves.
LEMMA RefuseScalingStep ==
  ASSUME CloudInv, NEW e \in Twins, NEW d \in Deployments, NEW to \in Nat, Cloud!RefuseScaling(e, d, to)
  PROVE CloudInv'
  <1> DEFINE asked == [of |-> d, from |-> 0, to |-> to, status |-> "POLICY_REJECTED"]
             row == Cloud!StoredEvent(asked)
  <1>1. event[e] = None /\ event' = [event EXCEPT ![e] = row]
        /\ UNCHANGED <<driver, cluster, scaler, last, disturbed>>
    BY DEF Cloud!RefuseScaling, Cloud!NewEvent
  <1>2. asked \in Rows /\ asked.from = 0 /\ asked.status = "POLICY_REJECTED"
    BY DEF Rows, Cloud!EventStatus
  <1> HIDE DEF asked
  <1>3. row \in Rows /\ row.from = 0 /\ row.status \in {"POLICY_REJECTED", "FAILED"}
    BY <1>2, StoredIsRow
  <1> HIDE DEF row
  <1>4. CloudTypes  BY DEF CloudInv
  <1>5. event'[e] = row /\ \A x \in Twins : x # e => event'[x] = event[x]
    BY <1>1, <1>4 DEF CloudTypes
  <1>6. CloudTypes'  BY <1>1, <1>3, <1>4 DEF CloudTypes
  <1>7. /\ \A t \in Scalers : scaler[t] \in Requesting \cup RollingBack => scaler[t].event # e
        /\ \A x \in Deployments : last[x] # e
    BY <1>1, NewEventIsNobodys
  <1>8. \A t \in Scalers : HoldsOK(scaler[t])'
    <2> SUFFICES ASSUME NEW t \in Scalers PROVE HoldsOK(scaler[t])'  OBVIOUS
    <2>1. HoldsOK(scaler[t])  BY DEF CloudInv
    <2>2. scaler[t] \in Requesting \cup RollingBack => event'[scaler[t].event] = event[scaler[t].event]
      BY <1>5, <1>7 DEF Requesting, RollingBack
    <2> QED BY <1>1, <2>1, <2>2 DEF HoldsOK
  <1>9. OneRequester' /\ OneAtOnce'  BY <1>1 DEF CloudInv, OneRequester, OneAtOnce
  <1>10. \A x \in Twins : EventOK(x)'
    <2> SUFFICES ASSUME NEW x \in Twins PROVE EventOK(x)'  OBVIOUS
    <2>1. CASE x = e  BY <1>3, <1>5, <2>1, ScalingBounds DEF EventOK
    <2>2. CASE x # e  BY <1>1, <1>5, <2>2 DEF CloudInv, EventOK
    <2> QED BY <2>1, <2>2
  <1>11. \A x \in Deployments : LastOK(x)' /\ FollowOK(x)'
    <2> SUFFICES ASSUME NEW x \in Deployments PROVE LastOK(x)' /\ FollowOK(x)'  OBVIOUS
    <2>1. last[x] # None => event'[last[x]] = event[last[x]]  BY <1>4, <1>5, <1>7 DEF CloudTypes
    <2>2. LastOK(x) /\ FollowOK(x)  BY DEF CloudInv
    <2> QED BY <1>1, <2>1, <2>2, ElsewhereOK
  <1> QED BY <1>6, <1>8, <1>9, <1>10, <1>11 DEF CloudInv

\* A request reads the replicas it finds.
LEMMA RequestScalingStep ==
  ASSUME CloudInv, NEW s \in Scalers, NEW d \in Deployments, NEW to \in Nat, Cloud!RequestScaling(s, d, to)
  PROVE CloudInv' /\ scaler'[s] \in Policing
  <1> DEFINE row == [of |-> d, from |-> cluster[d], to |-> to, status |-> "REQUESTED"]
             p == [op |-> "requestScaling", pc |-> "policy", event |-> None, of |-> d, row |-> row]
  <1>1. to <= SagaMaxReplicas /\ Cloud!Arrives(s, p) /\ UNCHANGED <<driver, cluster, event, last>>
    BY DEF Cloud!RequestScaling
  <1>2. cluster[d] \in Nat  BY DEF CloudInv, CloudTypes
  <1>3. row \in Rows /\ row.of = d /\ row.to = to /\ row.from = cluster[d]
    BY <1>2 DEF Rows, Cloud!EventStatus
  <1> HIDE DEF row
  <1>4. p \in Policing /\ p.of = d /\ p.pc = "policy" /\ p.row = row  BY <1>3 DEF Policing
  <1>5. p \notin RollingBack  BY <1>4, KindsDiffer
  <1> HIDE DEF p
  <1>6. scaler'[s] = p  BY <1>1 DEF CloudInv, CloudTypes, Cloud!Arrives
  <1> QED BY <1>1, <1>3, <1>4, <1>5, <1>6, ArrivesSoundly

\* A rollback reads the event it is of.
LEMMA RollbackScalingStep ==
  ASSUME CloudInv, NEW s \in Scalers, NEW e \in Twins, Cloud!RollbackScaling(s, e)
  PROVE CloudInv' /\ scaler'[s] \in RollingBack /\ scaler'[s].event = e
  <1> DEFINE row == event[e]
             p == [op |-> "rollbackScaling", pc |-> "rollback", event |-> e, of |-> row.of, row |-> row]
  <1>1. row # None /\ row.status = "EXECUTED" /\ Cloud!Arrives(s, p) /\ UNCHANGED <<driver, cluster, event, last>>
    BY DEF Cloud!RollbackScaling
  <1>2. row \in Rows  BY <1>1 DEF CloudInv, CloudTypes
  <1>3. row.of \in Deployments  BY <1>2 DEF Rows
  <1>4. EventOK(e)  BY DEF CloudInv
  <1>5. row.to <= SagaMaxReplicas  BY <1>1, <1>4 DEF EventOK
  <1>e. event[e] = row  OBVIOUS
  <1> HIDE DEF row
  <1>6. p \in RollingBack /\ p.of = row.of /\ p.pc = "rollback" /\ p.row = row /\ p.event = e
    BY <1>2, <1>3 DEF RollingBack
  <1> HIDE DEF p
  <1>7. scaler'[s] = p  BY <1>1 DEF CloudInv, CloudTypes, Cloud!Arrives
  <1> QED BY <1>1, <1>3, <1>5, <1>6, <1>7, <1>e, ArrivesSoundly

\* A step of a handler at its deployment d, alone there or with others it disturbs.
LEMMA StepsSoundly ==
  ASSUME CloudInv, NEW s \in Scalers, NEW p, NEW d, d = scaler[s].of, d \in Deployments,
         CloudTypes', disturbed' = disturbed,
         scaler' = [scaler EXCEPT ![s] = p], p.of \in {d, None}, HoldsOK(p)',
         p \in Requesting => \A t \in Scalers : t # s /\ scaler[t] \in Requesting => scaler[t].event # p.event,
         \A t \in Scalers : t # s => HoldsOK(scaler[t])',
         \A e \in Twins : EventOK(e)',
         \A x \in Deployments : x # d => 
           /\ last'[x] = last[x] /\ cluster'[x] = cluster[x]
           /\ last[x] # None => event'[last[x]] = event[last[x]],
         LastOK(d)',
         d \notin disturbed =>
           IF Applied(p) /\ p.of = d
           THEN /\ last'[d] = p.event
                /\ cluster'[d] = IF p.row.status = "EXECUTED" THEN p.row.to ELSE p.row.from
           ELSE Follows(d)'
  PROVE CloudInv'
  <1>1. CloudTypes  BY DEF CloudInv
  <1>2. scaler'[s] = p /\ \A t \in Scalers : t # s => scaler'[t] = scaler[t]
    BY <1>1 DEF CloudTypes
  <1>3. \A t \in Scalers : HoldsOK(scaler[t])'
    <2> SUFFICES ASSUME NEW t \in Scalers PROVE HoldsOK(scaler[t])'  OBVIOUS
    <2>1. CASE t = s
      <3>1. HoldsOK(scaler[t])' <=> HoldsOK(p)'  BY <1>2, <2>1 DEF HoldsOK
      <3> QED BY <3>1
    <2>2. CASE t # s  BY <2>2
    <2> QED BY <2>1, <2>2
  <1>4. OneRequester'
    <2> SUFFICES ASSUME NEW t \in Scalers, NEW u \in Scalers, scaler'[t] \in Requesting,
                        scaler'[u] \in Requesting, scaler'[t].event = scaler'[u].event
                 PROVE t = u
      BY DEF OneRequester
    <2>1. OneRequester  BY DEF CloudInv
    <2>2. CASE t = s \/ u = s  BY <1>2, <2>2
    <2>3. CASE t # s /\ u # s  BY <1>2, <2>1, <2>3 DEF OneRequester
    <2> QED BY <2>2, <2>3
  <1>5. \A t \in Scalers : scaler'[t].of \in Deployments => scaler[t].of = scaler'[t].of
    BY <1>2, ScalingBounds
  <1>6. OneAtOnce'
    <2>1. OneAtOnce  BY DEF CloudInv
    <2> QED BY <1>5, <2>1 DEF OneAtOnce
  <1>7. \A x \in Deployments : LastOK(x)' /\ FollowOK(x)'
    <2> SUFFICES ASSUME NEW x \in Deployments PROVE LastOK(x)' /\ FollowOK(x)'  OBVIOUS
    <2>1. CASE x # d
      <3>1. \A t \in Scalers : scaler[t].of = x \/ scaler'[t].of = x => scaler'[t] = scaler[t]
        BY <1>2, <2>1, ScalingBounds
      <3>2. LastOK(x) /\ FollowOK(x)  BY DEF CloudInv
      <3> QED BY <2>1, <3>1, <3>2, ElsewhereOK
    <2>2. CASE x = d
      <3>1. ASSUME d \notin disturbed PROVE FollowOK(x)'
        <4>1. \A t \in Scalers : scaler'[t].of = d => t = s
          BY <1>5, <3>1 DEF CloudInv, OneAtOnce
        <4>2. \A t \in Scalers : Applied(scaler[t])' <=> Applied(scaler'[t])  BY DEF Applied
        <4>3. CASE Applied(p) /\ p.of = d  BY <1>2, <2>2, <3>1, <4>1, <4>2, <4>3 DEF FollowOK
        <4>4. CASE ~(Applied(p) /\ p.of = d)
          <5>1. Follows(x)'  BY <2>2, <3>1, <4>4
          <5> QED BY <1>2, <2>2, <4>1, <4>2, <4>4, <5>1 DEF FollowOK
        <4> QED BY <4>3, <4>4
      <3> QED BY <2>2, <3>1 DEF FollowOK
    <2> QED BY <2>1, <2>2
  <1> QED BY <1>3, <1>4, <1>6, <1>7 DEF CloudInv

\* The policy decides, and an event of the request is stored.
LEMMA DecideScalingStep ==
  ASSUME CloudInv, NEW s \in Scalers, NEW e \in Twins, NEW b \in BOOLEAN, NEW c \in BOOLEAN,
         Cloud!DecideScaling(s, e, b, c)
  PROVE /\ CloudInv' /\ scaler[s] \in Policing
        /\ scaler' = [scaler EXCEPT ![s] = scaler'[s]]
        /\ scaler'[s] = Cloud!Still => event'[e] # None /\ event'[e].status \in {"POLICY_REJECTED", "FAILED"}
        /\ scaler'[s] # Cloud!Still => scaler'[s] \in Requesting
        /\ \A x \in Twins : event[x] # None => event'[x] = event[x]
  <1> SUFFICES ASSUME NEW old, old = scaler[s], NEW d, d = old.of
               PROVE /\ CloudInv' /\ scaler[s] \in Policing
                     /\ scaler' = [scaler EXCEPT ![s] = scaler'[s]]
                     /\ scaler'[s] = Cloud!Still =>
                          event'[e] # None /\ event'[e].status \in {"POLICY_REJECTED", "FAILED"}
                     /\ scaler'[s] # Cloud!Still => scaler'[s] \in Requesting
                     /\ \A x \in Twins : event[x] # None => event'[x] = event[x]
    OBVIOUS
  <1> DEFINE row == old.row
             allowed == Cloud!Verdict(row, b, c) = "AUTO_APPROVE"
             status == IF allowed THEN "REQUESTED" ELSE "POLICY_REJECTED"
             stored == [row EXCEPT !.status = status]
             kept == Cloud!StoredEvent(stored)
             on == [old EXCEPT !.pc = "scale", !.event = e]
             p == IF allowed THEN on ELSE Cloud!Still
  <1>1. CloudTypes /\ HoldsOK(old)  BY DEF CloudInv
  <1>2. /\ old.pc = "policy" /\ event[e] = None /\ event' = [event EXCEPT ![e] = kept]
        /\ scaler' = [scaler EXCEPT ![s] = p] /\ UNCHANGED <<driver, cluster, last, disturbed>>
    BY <1>1 DEF Cloud!DecideScaling, Cloud!NewEvent, CloudTypes
  <1>3. old \in Policing
    BY <1>1, <1>2, StillIsNobody DEF CloudTypes, Policing, Requesting, RollingBack
  <1>4. row \in Rows /\ d \in Deployments /\ row.of = d /\ row.to <= SagaMaxReplicas
        /\ (d \notin disturbed => row.from <= SagaMaxReplicas)
    BY <1>1, <1>3 DEF Policing, HoldsOK
  <1>5. stored \in Rows /\ stored.of = d /\ stored.from = row.from /\ stored.to = row.to
        /\ stored.status = status
    <2>1. status \in Cloud!EventStatus  BY DEF Cloud!EventStatus
    <2> HIDE DEF status, row
    <2> QED BY <1>4, <2>1 DEF Rows
  <1>6. /\ kept \in Rows /\ kept.of = d /\ kept.from = row.from /\ kept.to = row.to
        /\ allowed => kept.status = "REQUESTED"
        /\ ~allowed => kept.status \in {"POLICY_REJECTED", "FAILED"}
    <2> HIDE DEF stored, row
    <2>1. stored.status # "POLICY_REJECTED" => kept = stored  BY <1>5, StoredIsRow
    <2>2. stored.status = "POLICY_REJECTED" => kept.status \in {"POLICY_REJECTED", "FAILED"}
      BY <1>5, StoredIsRow
    <2>3. kept \in Rows /\ kept.of = stored.of /\ kept.from = stored.from /\ kept.to = stored.to
      BY <1>5, StoredIsRow
    <2> HIDE DEF kept, allowed
    <2> QED BY <1>5, <2>1, <2>2, <2>3
  <1>7. on = [op |-> "requestScaling", pc |-> "scale", event |-> e, of |-> d, row |-> row]
    <2> DEFINE half == [old EXCEPT !.pc = "scale"]
    <2>1. on = [half EXCEPT !.event = e]  OBVIOUS
    <2>2. old = [op |-> "requestScaling", pc |-> "policy", event |-> None, of |-> d, row |-> row]
      BY <1>3 DEF Policing
    <2> HIDE DEF row, on
    <2>3. half = [op |-> "requestScaling", pc |-> "scale", event |-> None, of |-> d, row |-> row]
      BY <2>2
    <2> HIDE DEF half
    <2> QED BY <2>1, <2>3
  <1> HIDE DEF row, kept, on, stored, status
  <1>8. on \in Requesting /\ on.of = d /\ on.event = e /\ on.row = row /\ on.pc = "scale"
    BY <1>4, <1>7 DEF Requesting
  <1>9. on # Cloud!Still /\ on \notin RollingBack /\ on \notin Policing
    BY <1>8, StillIsNobody, KindsDiffer
  <1>p. p = IF allowed THEN on ELSE Cloud!Still  OBVIOUS
  <1> HIDE DEF allowed, p
  <1>10. scaler'[s] = p /\ event'[e] = kept /\ (\A x \in Twins : x # e => event'[x] = event[x])
         /\ \A t \in Scalers : t # s => scaler'[t] = scaler[t]
    BY <1>1, <1>2 DEF CloudTypes
  <1>11. kept # None  BY <1>6, ScalingBounds DEF Rows
  <1>12. CloudTypes'
    <2>1. p \in {Cloud!Still} \cup Requesting  BY <1>8, <1>p
    <2> QED BY <1>1, <1>2, <1>6, <1>10, <2>1 DEF CloudTypes
  <1>13. p.of \in {d, None} /\ ~Applied(p)  BY <1>8, <1>9, <1>p, StillIsNobody DEF Applied
  <1>14. HoldsOK(p)'
    <2>1. CASE allowed  BY <1>2, <1>4, <1>6, <1>8, <1>9, <1>10, <1>11, <1>p, <2>1 DEF HoldsOK
    <2>2. CASE ~allowed  BY <1>p, <2>2, StillIsNobody DEF HoldsOK
    <2> QED BY <2>1, <2>2
  <1>15. /\ \A t \in Scalers : scaler[t] \in Requesting \cup RollingBack => scaler[t].event # e
         /\ \A x \in Deployments : last[x] # e
    BY <1>2, NewEventIsNobodys
  <1>16. p \in Requesting => \A t \in Scalers : t # s /\ scaler[t] \in Requesting => scaler[t].event # p.event
    BY <1>8, <1>p, <1>15, StillIsNobody
  <1>17. ASSUME NEW t \in Scalers, t # s PROVE HoldsOK(scaler[t])'
    <2>1. HoldsOK(scaler[t]) /\ scaler'[t] = scaler[t]  BY <1>10, <1>17 DEF CloudInv
    <2>2. scaler[t] \in Requesting \cup RollingBack => event'[scaler[t].event] = event[scaler[t].event]
      BY <1>10, <1>15 DEF Requesting, RollingBack
    <2> QED BY <1>2, <2>1, <2>2 DEF HoldsOK
  <1>18. ASSUME NEW x \in Twins PROVE EventOK(x)'
    <2>1. CASE x = e
      <3>1. kept.status \notin {"EXECUTED", "ROLLED_BACK"}  BY <1>6
      <3> QED BY <1>2, <1>4, <1>6, <1>10, <2>1, <3>1 DEF EventOK
    <2>2. CASE x # e  BY <1>2, <1>10, <2>2 DEF CloudInv, EventOK
    <2> QED BY <2>1, <2>2
  <1>19. ASSUME NEW x \in Deployments PROVE last[x] # None => event'[last[x]] = event[last[x]]
    BY <1>1, <1>10, <1>15 DEF CloudTypes
  <1>20. LastOK(d)'  BY <1>2, <1>4, <1>19 DEF CloudInv, LastOK
  <1>21. d \notin disturbed => Follows(d)'
    <2> SUFFICES ASSUME d \notin disturbed PROVE Follows(d)'  OBVIOUS
    <2>1. \A t \in Scalers : scaler[t].of = d => t = s  BY <1>4 DEF CloudInv, OneAtOnce
    <2>2. ~Applied(scaler[s])  BY <1>2 DEF Applied
    <2>3. Follows(d)  BY <1>4, <2>1, <2>2 DEF CloudInv, FollowOK
    <2> QED BY <1>2, <1>4, <1>19, <2>3 DEF Follows
  <1>22. CloudInv'
    BY <1>2, <1>4, <1>12, <1>13, <1>14, <1>16, <1>17, <1>18, <1>19, <1>20, <1>21, StepsSoundly
  <1> QED BY <1>2, <1>3, <1>6, <1>8, <1>9, <1>10, <1>11, <1>22, <1>p

\* What the cluster answered is stored.
LEMMA SaveEventStep ==
  ASSUME CloudInv, NEW s \in Scalers, Cloud!SaveEvent(s)
  PROVE /\ CloudInv' /\ scaler[s] \in Requesting \cup RollingBack
        /\ scaler' = [scaler EXCEPT ![s] = Cloud!Still]
        /\ event' = [event EXCEPT ![scaler[s].event] = scaler[s].row]
        /\ scaler[s].row \in Rows
        /\ scaler[s] \in Requesting => /\ event[scaler[s].event].status = "REQUESTED"
                                       /\ scaler[s].row.status \in {"EXECUTED", "FAILED"}
        /\ scaler[s] \in RollingBack => scaler[s].row.status = "ROLLED_BACK"
  <1> SUFFICES ASSUME NEW old, old = scaler[s], NEW d, d = old.of, NEW e, e = old.event,
                      NEW row, row = old.row
               PROVE /\ CloudInv' /\ old \in Requesting \cup RollingBack
                     /\ scaler' = [scaler EXCEPT ![s] = Cloud!Still]
                     /\ event' = [event EXCEPT ![e] = row] /\ row \in Rows
                     /\ old \in Requesting => /\ event[e].status = "REQUESTED"
                                              /\ row.status \in {"EXECUTED", "FAILED"}
                     /\ old \in RollingBack => row.status = "ROLLED_BACK"
    OBVIOUS
  <1>1. CloudTypes /\ HoldsOK(old)  BY DEF CloudInv
  <1>2. /\ old.pc = "save" /\ event' = [event EXCEPT ![e] = Cloud!StoredEvent(row)]
        /\ scaler' = [scaler EXCEPT ![s] = Cloud!Still] /\ UNCHANGED <<driver, cluster, last, disturbed>>
    BY DEF Cloud!SaveEvent
  <1>3. old \in Requesting \cup RollingBack
    BY <1>1, <1>2, StillIsNobody DEF CloudTypes, Policing
  <1>4. e \in Twins /\ row \in Rows /\ d \in Deployments /\ row.of = d
        /\ (d \notin disturbed => row.from <= SagaMaxReplicas)
    BY <1>1, <1>3 DEF Requesting, RollingBack, HoldsOK
  <1>5. /\ old \in Requesting => /\ event[e].status = "REQUESTED" /\ row.status \in {"EXECUTED", "FAILED"}
                                 /\ row.to <= SagaMaxReplicas /\ event[e] # None /\ event[e].of = d
        /\ old \in RollingBack => /\ event[e] # None /\ event[e].of = d /\ row.status = "ROLLED_BACK"
                                  /\ event[e].from = row.from /\ event[e].to = row.to
                                  /\ event[e].status \in {"EXECUTED", "ROLLED_BACK"}
                                  /\ row.to <= SagaMaxReplicas
    BY <1>1, <1>2 DEF HoldsOK
  <1>6. Cloud!StoredEvent(row) = row
    <2>1. row.status # "POLICY_REJECTED"  BY <1>3, <1>5
    <2> QED BY <1>4, <2>1, StoredIsRow
  <1>7. event'[e] = row /\ (\A x \in Twins : x # e => event'[x] = event[x])
        /\ scaler'[s] = Cloud!Still /\ \A t \in Scalers : t # s => scaler'[t] = scaler[t]
    BY <1>1, <1>2, <1>4, <1>6 DEF CloudTypes
  <1>8. row # None  BY <1>4, ScalingBounds DEF Rows
  <1>9. CloudTypes'  BY <1>1, <1>2, <1>4, <1>6, <1>7 DEF CloudTypes
  <1>10. Cloud!Still.of \in {d, None} /\ HoldsOK(Cloud!Still)' /\ ~Applied(Cloud!Still) /\ Cloud!Still \notin Requesting
    BY StillIsNobody DEF HoldsOK, Applied
  <1>11. ASSUME NEW t \in Scalers, t # s PROVE HoldsOK(scaler[t])'
    <2>1. HoldsOK(scaler[t]) /\ scaler'[t] = scaler[t]  BY <1>7, <1>11 DEF CloudInv
    <2>2. CASE scaler[t] \in Requesting
      <3>1. scaler[t].event # e
        <4>1. old \in Requesting => scaler[t].event # e
          BY <1>11, <2>2 DEF CloudInv, OneRequester
        <4>2. old \in RollingBack => scaler[t].event # e  BY <1>5, <2>1, <2>2 DEF HoldsOK
        <4> QED BY <1>3, <4>1, <4>2
      <3>2. event'[scaler[t].event] = event[scaler[t].event]  BY <1>7, <2>2, <3>1 DEF Requesting
      <3>3. scaler[t] \notin RollingBack /\ scaler[t] \notin Policing  BY <2>2, KindsDiffer
      <3> QED BY <1>2, <2>1, <2>2, <3>2, <3>3 DEF HoldsOK
    <2>3. CASE scaler[t] \in RollingBack
      <3>1. scaler[t] \notin Requesting /\ scaler[t] \notin Policing  BY <2>3, KindsDiffer
      <3>2. CASE scaler[t].event # e
        <4>1. event'[scaler[t].event] = event[scaler[t].event]
          BY <1>7, <2>3, <3>2 DEF RollingBack
        <4> QED BY <1>2, <2>1, <2>3, <3>1, <4>1 DEF HoldsOK
      <3>3. CASE scaler[t].event = e
        <4>1. old \notin Requesting  BY <1>5, <2>1, <2>3, <3>3 DEF HoldsOK
        <4>2. event[e].from = row.from /\ event[e].to = row.to /\ row.status = "ROLLED_BACK"
              /\ event[e].of = d
          BY <1>3, <1>5, <4>1
        <4> QED BY <1>2, <1>4, <1>7, <1>8, <2>1, <2>3, <3>1, <3>3, <4>2 DEF HoldsOK
      <3> QED BY <3>2, <3>3
    <2>4. CASE scaler[t] \notin Requesting \cup RollingBack  BY <1>2, <2>1, <2>4 DEF HoldsOK
    <2> QED BY <2>2, <2>3, <2>4
  <1>12. ASSUME NEW x \in Twins PROVE EventOK(x)'
    <2>1. CASE x = e  BY <1>2, <1>3, <1>4, <1>5, <1>7, <2>1 DEF EventOK
    <2>2. CASE x # e  BY <1>2, <1>7, <2>2 DEF CloudInv, EventOK
    <2> QED BY <2>1, <2>2
  <1>13. ASSUME NEW x \in Deployments, x # d
         PROVE last[x] # None => event'[last[x]] = event[last[x]]
    <2>1. LastOK(x)  BY DEF CloudInv
    <2>2. last[x] # None => last[x] \in Twins /\ last[x] # e
      BY <1>1, <1>3, <1>5, <1>13, <2>1 DEF CloudTypes, LastOK
    <2> QED BY <1>7, <2>2
  <1>14. LastOK(d)'
    <2>1. LastOK(d) /\ last[d] \in Twins \cup {None}  BY <1>1, <1>4 DEF CloudInv, CloudTypes
    <2> QED BY <1>2, <1>4, <1>7, <1>8, <2>1 DEF LastOK
  <1>15. ASSUME d \notin disturbed PROVE Follows(d)'
    <2>1. \A t \in Scalers : scaler[t].of = d => t = s  BY <1>4, <1>15 DEF CloudInv, OneAtOnce
    <2>2. FollowOK(d) /\ last[d] \in Twins \cup {None}  BY <1>1, <1>4 DEF CloudInv, CloudTypes
    <2>3. CASE row.status = "FAILED"
      <3>1. ~Applied(scaler[s])  BY <2>3 DEF Applied
      <3>2. Follows(d)  BY <1>15, <2>1, <2>2, <3>1 DEF FollowOK
      <3>3. event[e].status = "REQUESTED"  BY <1>3, <1>5, <2>3
      <3>4. last[d] # None => last[d] # e  BY <3>2, <3>3 DEF Follows
      <3>5. last[d] # None => event'[last[d]] = event[last[d]]  BY <1>7, <2>2, <3>4
      <3> QED BY <1>2, <3>2, <3>5 DEF Follows
    <2>4. CASE row.status # "FAILED"
      <3>1. Applied(scaler[s])  BY <1>2, <1>3, <2>4 DEF Applied
      <3>2. last[d] = e /\ cluster[d] = IF row.status = "EXECUTED" THEN row.to ELSE row.from
        BY <1>15, <2>2, <3>1 DEF FollowOK
      <3>3. row.status \in {"EXECUTED", "ROLLED_BACK"} /\ row.to <= SagaMaxReplicas /\ row.from <= SagaMaxReplicas
        BY <1>3, <1>4, <1>5, <1>15, <2>4
      <3>4. e # None  BY <1>4, ScalingBounds
      <3> QED BY <1>2, <1>7, <3>2, <3>3, <3>4 DEF Follows
    <2> QED BY <2>3, <2>4
  <1>16. CloudInv'
    BY <1>2, <1>4, <1>9, <1>10, <1>11, <1>12, <1>13, <1>14, <1>15, StepsSoundly
  <1> QED BY <1>2, <1>3, <1>4, <1>5, <1>6, <1>16

\* What the cluster answers a handler: it is done, or it is not.
Answered(old, st) == [old EXCEPT !.pc = "save", !.row.status = st]

\* A handler that was answered is as it was, but for the status.
LEMMA AnsweredIs ==
  ASSUME NEW st \in Cloud!EventStatus, NEW old \in Requesting \cup RollingBack
  PROVE LET p == Answered(old, st) IN
        /\ p.row \in Rows /\ p.row.of = old.row.of /\ p.row.from = old.row.from
        /\ p.row.to = old.row.to /\ p.row.status = st
        /\ p.op = old.op /\ p.pc = "save" /\ p.event = old.event /\ p.of = old.of
        /\ old \in Requesting => p \in Requesting
        /\ old \in RollingBack => p \in RollingBack
  <1> DEFINE row == [old.row EXCEPT !.status = st]
             p == [op |-> old.op, pc |-> "save", event |-> old.event, of |-> old.of, row |-> row]
  <1>1. /\ old \in [op : {"requestScaling", "rollbackScaling"}, pc : {"scale", "rollback", "save"},
                    event : Twins, of : Deployments, row : Rows]
    BY DEF Requesting, RollingBack
  <1>2. old = [op |-> old.op, pc |-> old.pc, event |-> old.event, of |-> old.of, row |-> old.row]
    BY <1>1
  <1>4. [old EXCEPT !.pc = "save", !.row.status = st] = p
    <2> DEFINE half == [old EXCEPT !.pc = "save"]
               whole == [half EXCEPT !.row = row]
    <2>1. [old EXCEPT !.pc = "save", !.row.status = st] = [old EXCEPT !.pc = "save", !.row = row]
      OBVIOUS
    <2>2. [old EXCEPT !.pc = "save", !.row = row] = whole  OBVIOUS
    <2> HIDE DEF row
    <2>3. half = [op |-> old.op, pc |-> "save", event |-> old.event, of |-> old.of, row |-> old.row]
      BY <1>2
    <2> HIDE DEF half
    <2>4. whole = [op |-> old.op, pc |-> "save", event |-> old.event, of |-> old.of, row |-> row]
      BY <2>3
    <2> QED BY <2>1, <2>2, <2>4
  <1>5. old.row \in Rows  BY <1>1
  <1>6. row \in Rows /\ row.of = old.row.of /\ row.from = old.row.from /\ row.to = old.row.to
        /\ row.status = st
    <2> DEFINE r == old.row
    <2>1. r \in Rows  BY <1>5
    <2> HIDE DEF r
    <2>2. [r EXCEPT !.status = st] \in Rows /\ [r EXCEPT !.status = st].status = st
          /\ [r EXCEPT !.status = st].of = r.of /\ [r EXCEPT !.status = st].from = r.from
          /\ [r EXCEPT !.status = st].to = r.to
      BY <2>1 DEF Rows
    <2> QED BY <2>2 DEF r
  <1> HIDE DEF row
  <1>7. p.op = old.op /\ p.pc = "save" /\ p.event = old.event /\ p.of = old.of /\ p.row = row
    OBVIOUS
  <1>8. old \in Requesting => p \in Requesting  BY <1>6 DEF Requesting
  <1>9. old \in RollingBack => p \in RollingBack  BY <1>6 DEF RollingBack
  <1> HIDE DEF p
  <1>10. Answered(old, st) = p  BY <1>4 DEF Answered
  <1> QED BY <1>6, <1>7, <1>8, <1>9, <1>10

\* The cluster is scaled, or refuses.
LEMMA ScaleDeploymentStep ==
  ASSUME CloudInv, NEW s \in Scalers, Cloud!ScaleDeployment(s)
  PROVE /\ CloudInv' /\ scaler[s] \in Requesting /\ scaler'[s] \in Requesting /\ event' = event
        /\ scaler'[s].event = scaler[s].event
        /\ scaler' = [scaler EXCEPT ![s] = scaler'[s]]
  <1> SUFFICES ASSUME NEW old, old = scaler[s], NEW d, d = old.of, NEW e, e = old.event
               PROVE /\ CloudInv' /\ old \in Requesting /\ scaler'[s] \in Requesting /\ event' = event
                     /\ scaler'[s].event = e /\ scaler' = [scaler EXCEPT ![s] = scaler'[s]]
    OBVIOUS
  <1>1. CloudTypes /\ HoldsOK(old)  BY DEF CloudInv
  <1>2. old.pc = "scale" /\ event' = event /\ UNCHANGED <<driver, disturbed>>
    BY DEF Cloud!ScaleDeployment
  <1>3. old \in Requesting  BY <1>1, <1>2, StillIsNobody DEF CloudTypes, Policing, RollingBack
  <1>4. PICK st \in {"EXECUTED", "FAILED"} :
          /\ scaler' = [scaler EXCEPT ![s].pc = "save", ![s].row.status = st]
          /\ IF st = "EXECUTED"
               THEN cluster' = [cluster EXCEPT ![d] = old.row.to] /\ last' = [last EXCEPT ![d] = e]
               ELSE cluster' = cluster /\ last' = last
    BY DEF Cloud!ScaleDeployment
  <1>5. st \in Cloud!EventStatus  BY DEF Cloud!EventStatus
  <1>a. PICK p : p = Answered(old, st)  OBVIOUS
  <1>b. PICK row : row = p.row  OBVIOUS
  <1>c. scaler' = [scaler EXCEPT ![s] = p]  BY <1>1, <1>4, <1>a DEF Answered, CloudTypes
  <1>6. /\ scaler' = [scaler EXCEPT ![s] = p]
        /\ row \in Rows /\ row.of = old.row.of /\ row.from = old.row.from
        /\ row.to = old.row.to /\ row.status = st
        /\ p.pc = "save" /\ p.event = e /\ p.of = d /\ p.row = row /\ p \in Requesting
    BY <1>3, <1>5, <1>a, <1>b, <1>c, AnsweredIs
  <1>7. d \in Deployments /\ e \in Twins /\ row.to \in Nat  BY <1>3, <1>6 DEF Requesting, Rows
  <1>8. /\ row.of = d /\ row.to <= SagaMaxReplicas /\ event[e] # None /\ event[e].status = "REQUESTED"
        /\ event[e].of = d /\ (d \notin disturbed => row.from <= SagaMaxReplicas)
    BY <1>1, <1>3, <1>6 DEF HoldsOK
  <1>9. scaler'[s] = p /\ \A t \in Scalers : t # s => scaler'[t] = scaler[t]
    BY <1>1, <1>6 DEF CloudTypes
  <1>10. CloudTypes'  BY <1>1, <1>2, <1>4, <1>6, <1>7, <1>9 DEF CloudTypes
  <1>11. p \notin RollingBack  BY <1>6, KindsDiffer
  <1>12. HoldsOK(p)'
    BY <1>2, <1>6, <1>8, <1>11 DEF HoldsOK
  <1>13. \A t \in Scalers : t # s /\ scaler[t] \in Requesting => scaler[t].event # p.event
    BY <1>3, <1>6 DEF CloudInv, OneRequester
  <1>14. ASSUME NEW t \in Scalers, t # s PROVE HoldsOK(scaler[t])'
    <2>1. HoldsOK(scaler[t]) /\ scaler'[t] = scaler[t]  BY <1>9, <1>14 DEF CloudInv
    <2> QED BY <1>2, <2>1 DEF HoldsOK
  <1>15. \A x \in Twins : EventOK(x)'  BY <1>2 DEF CloudInv, EventOK
  <1>16. \A x \in Deployments : x # d => last'[x] = last[x] /\ cluster'[x] = cluster[x]
    BY <1>1, <1>4 DEF CloudTypes
  <1>17. st = "EXECUTED" => last'[d] = e /\ cluster'[d] = row.to
    BY <1>1, <1>4, <1>6, <1>7 DEF CloudTypes
  <1>18. LastOK(d)'
    <2>1. LastOK(d)  BY <1>7 DEF CloudInv
    <2> QED BY <1>2, <1>4, <1>8, <1>17, <2>1 DEF LastOK
  <1>19. ASSUME d \notin disturbed
         PROVE IF Applied(p) /\ p.of = d
               THEN /\ last'[d] = p.event
                    /\ cluster'[d] = IF p.row.status = "EXECUTED" THEN p.row.to ELSE p.row.from
               ELSE Follows(d)'
    <2>1. CASE st = "EXECUTED"
      <3>1. Applied(p)  BY <1>6, <2>1 DEF Applied
      <3> QED BY <1>6, <1>17, <2>1, <3>1
    <2>2. CASE st # "EXECUTED"
      <3>1. ~Applied(p)  BY <1>6, <2>2 DEF Applied
      <3>2. ~Applied(scaler[s])  BY <1>2 DEF Applied
      <3>3. \A t \in Scalers : scaler[t].of = d => t = s  BY <1>7, <1>19 DEF CloudInv, OneAtOnce
      <3>4. Follows(d)  BY <1>7, <1>19, <3>2, <3>3 DEF CloudInv, FollowOK
      <3>5. Follows(d)'  BY <1>2, <1>4, <2>2, <3>4 DEF Follows
      <3> QED BY <3>1, <3>5
    <2> QED BY <2>1, <2>2
  <1>20. CloudInv'
    BY <1>2, <1>6, <1>7, <1>10, <1>12, <1>13, <1>14, <1>15, <1>16, <1>18, <1>19, StepsSoundly
  <1> QED BY <1>2, <1>3, <1>6, <1>9, <1>20

\* The cluster is scaled back, or refuses.
LEMMA ScaleBackStep ==
  ASSUME CloudInv, NEW s \in Scalers, Cloud!ScaleBack(s)
  PROVE /\ CloudInv' /\ scaler[s] \in RollingBack /\ event' = event
        /\ scaler'[s] \in RollingBack \cup {Cloud!Still}
        /\ scaler'[s] # Cloud!Still => scaler'[s].event = scaler[s].event
        /\ scaler' = [scaler EXCEPT ![s] = scaler'[s]]
  <1> SUFFICES ASSUME NEW old, old = scaler[s], NEW d, d = old.of, NEW e, e = old.event
               PROVE /\ CloudInv' /\ old \in RollingBack /\ event' = event
                     /\ scaler'[s] \in RollingBack \cup {Cloud!Still}
                     /\ scaler'[s] # Cloud!Still => scaler'[s].event = e
                     /\ scaler' = [scaler EXCEPT ![s] = scaler'[s]]
    OBVIOUS
  <1>1. CloudTypes /\ HoldsOK(old)  BY DEF CloudInv
  <1>2. old.pc = "rollback" /\ event' = event /\ UNCHANGED <<driver, disturbed>>
    BY DEF Cloud!ScaleBack
  <1>3. old \in RollingBack  BY <1>1, <1>2, StillIsNobody DEF CloudTypes, Policing, Requesting
  <1>4. d \in Deployments /\ e \in Twins /\ old.row \in Rows /\ old.row.from \in Nat
    BY <1>3 DEF RollingBack, Rows
  <1>5. /\ old.row.of = d /\ event[e] # None /\ event[e].status \in {"EXECUTED", "ROLLED_BACK"}
        /\ event[e].of = d /\ event[e].from = old.row.from /\ event[e].to = old.row.to
        /\ old.row.to <= SagaMaxReplicas /\ (d \notin disturbed => old.row.from <= SagaMaxReplicas)
    BY <1>1, <1>3 DEF HoldsOK
  <1>6. \A t \in Scalers : t # s => HoldsOK(scaler[t])
    BY DEF CloudInv
  <1>7. \A x \in Twins : EventOK(x)'  BY <1>2 DEF CloudInv, EventOK
  <1>8. ASSUME d \notin disturbed PROVE Follows(d)
    <2>1. ~Applied(scaler[s])  BY <1>2 DEF Applied
    <2>2. \A t \in Scalers : scaler[t].of = d => t = s  BY <1>4, <1>8 DEF CloudInv, OneAtOnce
    <2> QED BY <1>4, <1>8, <2>1, <2>2 DEF CloudInv, FollowOK
  <1>9. LastOK(d)  BY <1>4 DEF CloudInv
  <1>10. CASE /\ cluster' = [cluster EXCEPT ![d] = Cloud!RolledBack(old.row)]
              /\ last' = [last EXCEPT ![d] = e]
              /\ scaler' = [scaler EXCEPT ![s].pc = "save", ![s].row.status = "ROLLED_BACK"]
    <2>a. PICK p : p = Answered(old, "ROLLED_BACK")  OBVIOUS
    <2>b. PICK row : row = p.row  OBVIOUS
    <2>0. "ROLLED_BACK" \in Cloud!EventStatus  BY DEF Cloud!EventStatus
    <2>c. scaler' = [scaler EXCEPT ![s] = p]  BY <1>1, <1>10, <2>a DEF Answered, CloudTypes
    <2>1. /\ scaler' = [scaler EXCEPT ![s] = p]
          /\ row \in Rows /\ row.of = old.row.of /\ row.from = old.row.from
          /\ row.to = old.row.to /\ row.status = "ROLLED_BACK"
          /\ p.pc = "save" /\ p.event = e /\ p.of = d /\ p.row = row /\ p \in RollingBack
      BY <1>3, <2>0, <2>a, <2>b, <2>c, AnsweredIs
    <2>2. scaler'[s] = p /\ \A t \in Scalers : t # s => scaler'[t] = scaler[t]
      BY <1>1, <2>1 DEF CloudTypes
    <2>3. cluster' = [cluster EXCEPT ![d] = row.from]  BY <1>10, <2>1 DEF Cloud!RolledBack
    <2>4. CloudTypes'
      <3>1. cluster' \in [Deployments -> Nat]  BY <1>1, <1>4, <2>1, <2>3 DEF CloudTypes
      <3>2. last' \in [Deployments -> Twins \cup {None}]  BY <1>1, <1>4, <1>10 DEF CloudTypes
      <3> QED BY <1>1, <1>2, <2>1, <2>2, <3>1, <3>2 DEF CloudTypes
    <2>5. p \notin Requesting /\ p \notin Policing  BY <2>1, KindsDiffer
    <2>6. HoldsOK(p)'  BY <1>2, <1>5, <2>1, <2>5 DEF HoldsOK
    <2>7. ASSUME NEW t \in Scalers, t # s PROVE HoldsOK(scaler[t])'
      <3>1. HoldsOK(scaler[t]) /\ scaler'[t] = scaler[t]  BY <1>6, <2>2, <2>7
      <3> QED BY <1>2, <3>1 DEF HoldsOK
    <2>8. \A x \in Deployments : x # d => last'[x] = last[x] /\ cluster'[x] = cluster[x]
      BY <1>1, <1>10 DEF CloudTypes
    <2>9. last'[d] = e /\ cluster'[d] = row.from  BY <1>1, <1>4, <1>10, <2>3 DEF CloudTypes
    <2>10. LastOK(d)'  BY <1>2, <1>5, <2>9 DEF LastOK
    <2>11. /\ last'[d] = p.event
           /\ cluster'[d] = IF p.row.status = "EXECUTED" THEN p.row.to ELSE p.row.from
      BY <2>1, <2>9
    <2>12. Applied(p)  BY <2>1 DEF Applied
    <2>13. CloudInv'
      BY <1>2, <1>4, <1>7, <2>1, <2>4, <2>5, <2>6, <2>7, <2>8, <2>10, <2>11, <2>12, StepsSoundly
    <2> QED BY <1>2, <1>3, <2>1, <2>2, <2>13
  <1>11. CASE scaler' = [scaler EXCEPT ![s] = Cloud!Still] /\ UNCHANGED <<cluster, last>>
    <2>1. scaler'[s] = Cloud!Still /\ \A t \in Scalers : t # s => scaler'[t] = scaler[t]
      BY <1>1, <1>11 DEF CloudTypes
    <2>2. CloudTypes'  BY <1>1, <1>2, <1>11, <2>1 DEF CloudTypes
    <2>3. Cloud!Still.of \in {d, None} /\ HoldsOK(Cloud!Still)' /\ ~Applied(Cloud!Still) /\ Cloud!Still \notin Requesting
      BY StillIsNobody DEF HoldsOK, Applied
    <2>4. ASSUME NEW t \in Scalers, t # s PROVE HoldsOK(scaler[t])'
      <3>1. HoldsOK(scaler[t]) /\ scaler'[t] = scaler[t]  BY <1>6, <2>1, <2>4
      <3> QED BY <1>2, <3>1 DEF HoldsOK
    <2>5. LastOK(d)'  BY <1>2, <1>9, <1>11 DEF LastOK
    <2>6. d \notin disturbed => Follows(d)'  BY <1>2, <1>8, <1>11 DEF Follows
    <2>7. CloudInv'
      BY <1>2, <1>4, <1>7, <1>11, <2>2, <2>3, <2>4, <2>5, <2>6, StepsSoundly
    <2> QED BY <1>2, <1>3, <1>11, <2>1, <2>7
  <1> QED BY <1>10, <1>11 DEF Cloud!ScaleBack

\* Others scale the deployment, which is disturbed from then on.
LEMMA OthersScaleStep ==
  ASSUME CloudInv, NEW d \in Deployments, NEW n \in Nat, Cloud!OthersScale(d, n)
  PROVE CloudInv'
  <1>1. /\ cluster' = [cluster EXCEPT ![d] = n] /\ disturbed' = disturbed \cup {d}
        /\ UNCHANGED <<driver, event, scaler, last>>
    BY DEF Cloud!OthersScale
  <1>2. CloudTypes'  BY <1>1 DEF CloudInv, CloudTypes
  <1>3. ASSUME NEW t \in Scalers PROVE HoldsOK(scaler[t])'
    <2>1. HoldsOK(scaler[t])  BY DEF CloudInv
    <2> QED BY <1>1, <2>1 DEF HoldsOK
  <1>4. OneRequester' /\ OneAtOnce'  BY <1>1 DEF CloudInv, OneRequester, OneAtOnce
  <1>5. \A e \in Twins : EventOK(e)'  BY <1>1 DEF CloudInv, EventOK
  <1>6. ASSUME NEW x \in Deployments PROVE LastOK(x)' /\ FollowOK(x)'
    <2>1. LastOK(x) /\ FollowOK(x)  BY DEF CloudInv
    <2>2. CASE x = d  BY <1>1, <2>1, <2>2 DEF LastOK, FollowOK
    <2>3. CASE x # d
      <3>1. cluster'[x] = cluster[x]  BY <1>1, <2>3 DEF CloudInv, CloudTypes
      <3> QED BY <1>1, <2>1, <3>1, ElsewhereOK
    <2> QED BY <2>2, <2>3
  <1> QED BY <1>2, <1>3, <1>4, <1>5, <1>6 DEF CloudInv

\* Every step of a handler keeps the invariant ...
LEMMA InfraStepKeeps ==
  ASSUME CloudInv, NEW s \in Scalers, Cloud!InfraStep(s)
  PROVE CloudInv'
  <1>1. ASSUME NEW d \in Deployments, NEW to \in SagaReplicas, Cloud!RequestScaling(s, d, to)
        PROVE CloudInv'
    BY <1>1, ScalingBounds, RequestScalingStep
  <1> QED BY <1>1, DecideScalingStep, RollbackScalingStep, ScaleDeploymentStep, SaveEventStep,
             ScaleBackStep DEF Cloud!InfraStep

\* ... as does every step of its clients.
LEMMA CloudInvNext == CloudInv /\ [Cloud!InfraNext]_(Cloud!infraVars) => CloudInv'
  <1> SUFFICES ASSUME CloudInv, [Cloud!InfraNext]_(Cloud!infraVars) PROVE CloudInv'  OBVIOUS
  <1>1. CASE UNCHANGED Cloud!infraVars
    <2>1. /\ UNCHANGED <<cluster, event, scaler, last, disturbed>>  BY <1>1 DEF Cloud!infraVars
    <2>2. CloudTypes'  BY <2>1 DEF CloudInv, CloudTypes
    <2>3. ASSUME NEW t \in Scalers PROVE HoldsOK(scaler[t])'
      <3>1. HoldsOK(scaler[t])  BY DEF CloudInv
      <3> QED BY <2>1, <3>1 DEF HoldsOK
    <2>4. OneRequester' /\ OneAtOnce'  BY <2>1 DEF CloudInv, OneRequester, OneAtOnce
    <2>5. \A e \in Twins : EventOK(e)'  BY <2>1 DEF CloudInv, EventOK
    <2>6. \A x \in Deployments : LastOK(x)' /\ FollowOK(x)'
      BY <2>1 DEF CloudInv, LastOK, FollowOK, Follows, Applied
    <2> QED BY <2>2, <2>3, <2>4, <2>5, <2>6 DEF CloudInv
  <1>2. ASSUME NEW d \in Deployments, NEW n \in SagaReplicas, Cloud!OthersScale(d, n)
        PROVE CloudInv'
    BY <1>2, ScalingBounds, OthersScaleStep
  <1>3. ASSUME NEW d \in Deployments, NEW n \in SagaReplicas, NEW e \in Twins, Cloud!RefuseScaling(e, d, n)
        PROVE CloudInv'
    BY <1>3, ScalingBounds, RefuseScalingStep
  <1> QED BY <1>1, <1>2, <1>3, InfraStepKeeps DEF Cloud!InfraNext

\* The invariant implies that the cluster follows the events.
LEMMA CloudInvImplies == CloudInv => Cloud!ClusterFollowsEvents /\ Cloud!InfraTypeOK
  <1> SUFFICES ASSUME CloudInv PROVE Cloud!ClusterFollowsEvents /\ Cloud!InfraTypeOK  OBVIOUS
  <1>1. ASSUME NEW d \in Deployments \ disturbed, \A s \in Scalers : scaler[s].of # d
        PROVE Follows(d)
    BY <1>1 DEF CloudInv, FollowOK
  <1>2. Cloud!ClusterFollowsEvents
    <2>1. \A d \in Deployments : last[d] = None => cluster[d] = 1 \/ ~Follows(d)  BY DEF Follows
    <2> QED BY <1>1 DEF Cloud!ClusterFollowsEvents, Follows
  <1>3. \A s \in Scalers : scaler[s].pc \in {"idle", "policy", "scale", "rollback", "save", "thrown"}
    BY StillIsNobody DEF CloudInv, CloudTypes, Policing, Requesting, RollingBack
  <1>4. \A e \in Twins : event[e] # None => event[e].status \in Cloud!EventStatus /\ event[e].of \in Deployments
    BY DEF CloudInv, CloudTypes, Rows
  <1> QED BY <1>2, <1>3, <1>4 DEF Cloud!InfraTypeOK

\* Without the bounds of the scenes too: the replicas follow the events
\* (infrastructure.service.ts).
THEOREM EventsAreFollowed == Cloud!InfraSpec => []Cloud!ClusterFollowsEvents
  <1>1. Cloud!InfraSpec => []CloudInv  BY CloudInvInit, CloudInvNext, PTL DEF Cloud!InfraSpec
  <1> QED BY <1>1, CloudInvImplies, PTL

SagaPcs == {"idle", "reserve", "purchase", "scale", "scaling", "finance", "allocate", "overtime",
            "journal", "rollback", "rollingBack", "cancel", "ticket", "done"}

SagaRows == [pc : SagaPcs, scale : SagaReplicas \cup {None}, scaling : Twins \cup {None},
             reservation : BOOLEAN, status : {"PENDING", "COMPLETED", "FAILED"},
             compensation : {"SKIPPED", "COMPLETED"}]

SagaTypes == saga \in [Sagas -> SagaRows] /\ escalations \in [Sagas -> Nat]

Compensating == {"rollback", "rollingBack", "cancel", "ticket"}

Unwound(s) == saga[s].status = "FAILED" /\ saga[s].pc \in {"ticket", "done"}

SagaOK(s) ==
  /\ saga[s].pc = "scaling" => scaler[s] \in Policing \cup Requesting
  /\ saga[s].pc = "rollingBack" => scaler[s] \in RollingBack /\ scaler[s].event = saga[s].scaling
  /\ saga[s].pc \notin {"scaling", "rollingBack"} => scaler[s] = Cloud!Still
  /\ saga[s].scaling # None =>
       event[saga[s].scaling] # None /\ event[saga[s].scaling].status # "REQUESTED"
  /\ saga[s].pc \in Compensating => saga[s].status = "FAILED"
  /\ saga[s].pc = "done" => saga[s].status # "PENDING"
  /\ saga[s].pc \notin Compensating \cup {"done"} => saga[s].status = "PENDING"
  /\ escalations[s] = IF saga[s].pc = "done" /\ saga[s].status = "FAILED" THEN 1 ELSE 0
  /\ Unwound(s) => s \notin reserved \/ <<s, "reservation">> \in undone
  /\ Unwound(s) \/ saga[s].pc = "cancel" =>
       \/ saga[s].scaling = None \/ <<s, "scaling">> \in undone
       \/ event[saga[s].scaling].status # "EXECUTED"

SagaInv == CloudInv /\ SagaTypes /\ \A s \in Sagas : SagaOK(s)

\* What was decided of an event is not decided again.
EventsSettle ==
  \A e \in Twins : event[e] # None /\ event[e].status # "REQUESTED" =>
    /\ event'[e] # None /\ event'[e].status # "REQUESTED"
    /\ event[e].status # "EXECUTED" => event'[e].status # "EXECUTED"

\* No saga has begun at the start.
LEMMA SagaInvInit == Cloud!InfraInit /\ Cloud!SagaInit => SagaInv
  <1> SUFFICES ASSUME Cloud!InfraInit, Cloud!SagaInit PROVE SagaInv  OBVIOUS
  <1>1. Cloud!Ready \in SagaRows /\ Cloud!Ready.pc = "idle" /\ Cloud!Ready.scaling = None /\ Cloud!Ready.status = "PENDING"
    BY DEF Cloud!Ready, SagaRows, SagaPcs
  <1>2. SagaTypes  BY <1>1 DEF Cloud!SagaInit, SagaTypes
  <1>3. ASSUME NEW s \in Sagas PROVE SagaOK(s)
    <2>1. saga[s] = Cloud!Ready /\ escalations[s] = 0  BY DEF Cloud!SagaInit
    <2>2. scaler[s] = Cloud!Still  BY ScalingBounds DEF Cloud!InfraInit
    <2> QED BY <1>1, <2>1, <2>2 DEF SagaOK, Unwound, Compensating
  <1> QED BY <1>2, <1>3, CloudInvInit DEF SagaInv

\* A saga that goes on is as it was, but for where it is.
LEMMA SagaGoesIs ==
  ASSUME SagaTypes, NEW s \in Sagas, NEW pc \in SagaPcs, Cloud!Goes(s, pc)
  PROVE /\ saga' \in [Sagas -> SagaRows] /\ \A t \in Sagas : t # s => saga'[t] = saga[t]
        /\ saga'[s].pc = pc /\ saga'[s].scaling = saga[s].scaling /\ saga'[s].status = saga[s].status
  <1> DEFINE g == [saga[s] EXCEPT !.pc = pc]
  <1>1. saga[s] \in SagaRows  BY DEF SagaTypes
  <1>2. g \in SagaRows /\ g.pc = pc /\ g.scaling = saga[s].scaling /\ g.status = saga[s].status
    BY <1>1 DEF SagaRows
  <1>3. saga' = [saga EXCEPT ![s] = g]  BY DEF Cloud!Goes
  <1> HIDE DEF g
  <1> QED BY <1>2, <1>3 DEF SagaTypes

\* A saga whose step throws has something to undo, or fails.
LEMMA SagaThrowsIs ==
  ASSUME SagaTypes, NEW s \in Sagas, Cloud!Throws(s)
  PROVE /\ saga' \in [Sagas -> SagaRows] /\ \A t \in Sagas : t # s => saga'[t] = saga[t]
        /\ saga'[s].pc = "rollback" /\ saga'[s].scaling = saga[s].scaling
        /\ saga'[s].status = "FAILED"
  <1> DEFINE a == [saga[s] EXCEPT !.pc = "rollback"]
             b == [a EXCEPT !.status = "FAILED"]
             c == [b EXCEPT !.compensation = "COMPLETED"]
  <1>1. saga[s] \in SagaRows  BY DEF SagaTypes
  <1>2. saga' = [saga EXCEPT ![s] = c]  BY DEF Cloud!Throws
  <1>3. a \in SagaRows /\ a.pc = "rollback" /\ a.scaling = saga[s].scaling
    BY <1>1 DEF SagaRows, SagaPcs
  <1> HIDE DEF a
  <1>4. b \in SagaRows /\ b.pc = a.pc /\ b.scaling = a.scaling /\ b.status = "FAILED"
    BY <1>3 DEF SagaRows
  <1> HIDE DEF b
  <1>5. c \in SagaRows /\ c.pc = b.pc /\ c.scaling = b.scaling /\ c.status = b.status
    BY <1>4 DEF SagaRows
  <1> HIDE DEF c
  <1> QED BY <1>2, <1>3, <1>4, <1>5 DEF SagaTypes

\* What one saga does is nothing to another.
LEMMA SagaMoves ==
  ASSUME SagaInv, NEW s \in Sagas, CloudInv', SagaTypes', EventsSettle,
         undone \subseteq undone', reserved' \subseteq reserved \cup {s},
         \A t \in Sagas : t # s => /\ saga'[t] = saga[t] /\ scaler'[t] = scaler[t]
                                   /\ escalations'[t] = escalations[t],
         SagaOK(s)'
  PROVE SagaInv'
  <1>1. ASSUME NEW t \in Sagas, t # s PROVE SagaOK(t)'
    <2>1. SagaOK(t) /\ saga'[t] = saga[t] /\ scaler'[t] = scaler[t] /\ escalations'[t] = escalations[t]
      BY <1>1 DEF SagaInv
    <2>2. t \in reserved' => t \in reserved  BY <1>1
    <2>3. saga[t].scaling \in Twins \cup {None}  BY DEF SagaInv, SagaTypes, SagaRows
    <2>4. saga[t].scaling # None =>
            /\ event'[saga[t].scaling] # None /\ event'[saga[t].scaling].status # "REQUESTED"
            /\ event[saga[t].scaling].status # "EXECUTED" => event'[saga[t].scaling].status # "EXECUTED"
      BY <2>1, <2>3 DEF SagaOK, EventsSettle
    <2> QED BY <2>1, <2>2, <2>4 DEF SagaOK, Unwound
  <1> QED BY <1>1 DEF SagaInv

\* Infrastructure that stands still settles nothing anew.
LEMMA NothingScaled ==
  ASSUME CloudInv, UNCHANGED Cloud!infraVars
  PROVE CloudInv' /\ EventsSettle /\ scaler' = scaler /\ event' = event
  <1>1. CloudInv'  BY CloudInvNext
  <1> QED BY <1>1 DEF Cloud!infraVars, EventsSettle

\* Every handler leaves decided events decided.
LEMMA InfraSettles ==
  ASSUME CloudInv, NEW s \in Scalers, Cloud!InfraStep(s)
  PROVE EventsSettle
  <1>1. ASSUME NEW e \in Twins, NEW b \in BOOLEAN, NEW c \in BOOLEAN, Cloud!DecideScaling(s, e, b, c)
        PROVE EventsSettle
    BY <1>1, DecideScalingStep DEF EventsSettle
  <1>2. ASSUME Cloud!SaveEvent(s) PROVE EventsSettle
    <2>1. CloudTypes  BY DEF CloudInv
    <2>2. /\ scaler[s] \in Requesting \cup RollingBack
          /\ event' = [event EXCEPT ![scaler[s].event] = scaler[s].row]
          /\ scaler[s].row \in Rows
          /\ scaler[s] \in Requesting => event[scaler[s].event].status = "REQUESTED"
          /\ scaler[s] \in RollingBack => scaler[s].row.status = "ROLLED_BACK"
      BY <1>2, SaveEventStep
    <2>3. ASSUME NEW e \in Twins, event[e] # None, event[e].status # "REQUESTED"
          PROVE /\ event'[e] # None /\ event'[e].status # "REQUESTED"
                /\ event[e].status # "EXECUTED" => event'[e].status # "EXECUTED"
      <3>1. CASE e # scaler[s].event  BY <2>1, <2>2, <2>3, <3>1 DEF CloudTypes
      <3>2. CASE e = scaler[s].event
        <4>1. scaler[s].row.status = "ROLLED_BACK"  BY <2>2, <2>3, <3>2
        <4>2. event'[e] = scaler[s].row  BY <2>1, <2>2, <3>2 DEF CloudTypes
        <4>3. scaler[s].row # None  BY <2>2, ScalingBounds DEF Rows
        <4> QED BY <4>1, <4>2, <4>3
      <3> QED BY <3>1, <3>2
    <2> QED BY <2>3 DEF EventsSettle
  <1>3. ASSUME event' = event PROVE EventsSettle  BY <1>3 DEF EventsSettle
  <1>4. ASSUME NEW d, NEW to, Cloud!RequestScaling(s, d, to) PROVE event' = event
    BY <1>4 DEF Cloud!RequestScaling
  <1>5. ASSUME NEW e, Cloud!RollbackScaling(s, e) PROVE event' = event
    BY <1>5 DEF Cloud!RollbackScaling
  <1>6. Cloud!ScaleDeployment(s) \/ Cloud!ScaleBack(s) => event' = event
    BY DEF Cloud!ScaleDeployment, Cloud!ScaleBack
  <1> QED BY <1>1, <1>2, <1>3, <1>4, <1>5, <1>6 DEF Cloud!InfraStep

\* A handler's step moves no other handler.
LEMMA InfraMovesOne ==
  ASSUME CloudInv, NEW s \in Scalers, Cloud!InfraStep(s)
  PROVE \A t \in Scalers : t # s => scaler'[t] = scaler[t]
  <1>1. CloudTypes  BY DEF CloudInv
  <1>2. ASSUME NEW v, scaler' = [scaler EXCEPT ![s] = v]
        PROVE \A t \in Scalers : t # s => scaler'[t] = scaler[t]
    BY <1>1, <1>2 DEF CloudTypes
  <1>3. ASSUME NEW d, NEW to, Cloud!RequestScaling(s, d, to)
        PROVE \A t \in Scalers : t # s => scaler'[t] = scaler[t]
    BY <1>2, <1>3 DEF Cloud!RequestScaling, Cloud!Arrives
  <1>4. ASSUME NEW e, Cloud!RollbackScaling(s, e)
        PROVE \A t \in Scalers : t # s => scaler'[t] = scaler[t]
    BY <1>2, <1>4 DEF Cloud!RollbackScaling, Cloud!Arrives
  <1>5. ASSUME NEW e \in Twins, NEW b \in BOOLEAN, NEW c \in BOOLEAN, Cloud!DecideScaling(s, e, b, c)
        PROVE \A t \in Scalers : t # s => scaler'[t] = scaler[t]
    BY <1>2, <1>5, DecideScalingStep
  <1>6. ASSUME Cloud!ScaleDeployment(s) PROVE \A t \in Scalers : t # s => scaler'[t] = scaler[t]
    BY <1>2, <1>6, ScaleDeploymentStep
  <1>7. ASSUME Cloud!ScaleBack(s) PROVE \A t \in Scalers : t # s => scaler'[t] = scaler[t]
    BY <1>2, <1>7, ScaleBackStep
  <1>8. ASSUME Cloud!SaveEvent(s) PROVE \A t \in Scalers : t # s => scaler'[t] = scaler[t]
    BY <1>2, <1>8, SaveEventStep
  <1> QED BY <1>3, <1>4, <1>5, <1>6, <1>7, <1>8 DEF Cloud!InfraStep

\* A step of the chain that only calls.
LEMMA ChainStep ==
  ASSUME SagaInv, NEW s \in Sagas, saga[s].pc \notin Compensating \cup {"scaling", "done"},
         UNCHANGED Cloud!infraVars, UNCHANGED <<escalations, undone>>, reserved' \subseteq reserved \cup {s},
         saga' \in [Sagas -> SagaRows], \A t \in Sagas : t # s => saga'[t] = saga[t],
         saga'[s].scaling = saga[s].scaling,
         \/ /\ saga'[s].pc \notin Compensating \cup {"scaling", "done"}
            /\ saga'[s].status = saga[s].status
         \/ saga'[s].pc = "rollback" /\ saga'[s].status = "FAILED"
         \/ saga'[s].pc = "done" /\ saga'[s].status = "COMPLETED"
  PROVE SagaInv'
  <1>1. CloudInv' /\ EventsSettle /\ scaler' = scaler /\ event' = event
    BY NothingScaled DEF SagaInv
  <1>2. SagaTypes'  BY DEF SagaInv, SagaTypes
  <1>3. SagaOK(s)  BY DEF SagaInv
  <1>4. SagaOK(s)'  BY <1>1, <1>3 DEF SagaOK, Unwound, Compensating
  <1> QED BY <1>1, <1>2, <1>4, SagaMoves

\* A call to another domain that changes nothing a saga has to undo.
LEMMA CallStep ==
  ASSUME SagaInv, NEW s \in Sagas, NEW pc \in SagaPcs, NEW next \in SagaPcs, NEW created,
         pc \notin Compensating \cup {"scaling", "done"}, next \notin Compensating \cup {"scaling", "done"},
         Cloud!Call(s, pc, next, created)
  PROVE SagaInv'
  <1>1. SagaTypes  BY DEF SagaInv
  <1>2. saga[s].pc = pc /\ UNCHANGED Cloud!infraVars /\ UNCHANGED <<reserved, escalations, undone>>
    BY DEF Cloud!Call
  <1>3. CASE Cloud!Goes(s, next)  BY <1>1, <1>2, <1>3, SagaGoesIs, ChainStep
  <1>4. CASE Cloud!Throws(s)  BY <1>1, <1>2, <1>4, SagaThrowsIs, ChainStep
  <1> QED BY <1>3, <1>4 DEF Cloud!Call

\* A saga begins.
LEMMA SagaProcess ==
  ASSUME SagaInv, NEW s \in Sagas, NEW scale \in SagaReplicas \cup {None}, NEW stock \in BOOLEAN,
         Cloud!Process(s, scale, stock)
  PROVE SagaInv'
  <1> DEFINE pc == IF stock THEN "reserve" ELSE "scale"
             a == [saga[s] EXCEPT !.scale = scale]
             b == [a EXCEPT !.pc = pc]
  <1>1. saga[s] \in SagaRows  BY DEF SagaInv, SagaTypes
  <1>2. saga' = [saga EXCEPT ![s] = b] /\ saga[s] = Cloud!Ready /\ UNCHANGED Cloud!infraVars
        /\ UNCHANGED <<accountIds, reserved, left, escalations, undone>>
    BY DEF Cloud!Process
  <1>3. pc \in {"reserve", "scale"}  OBVIOUS
  <1> HIDE DEF pc
  <1>4. a \in SagaRows /\ a.scaling = saga[s].scaling /\ a.status = saga[s].status
    BY <1>1 DEF SagaRows
  <1> HIDE DEF a
  <1>5. b \in SagaRows /\ b.pc = pc /\ b.scaling = a.scaling /\ b.status = a.status
    BY <1>3, <1>4 DEF SagaRows, SagaPcs
  <1> HIDE DEF b
  <1>6. saga' \in [Sagas -> SagaRows] /\ saga'[s] = b /\ \A t \in Sagas : t # s => saga'[t] = saga[t]
    BY <1>2, <1>5 DEF SagaInv, SagaTypes
  <1>7. Cloud!Ready.pc = "idle"  BY DEF Cloud!Ready
  <1> QED BY <1>2, <1>3, <1>4, <1>5, <1>6, <1>7, ChainStep DEF Compensating

\* It reserves the stock.
LEMMA SagaReserveStock ==
  ASSUME SagaInv, NEW s \in Sagas, Cloud!ReserveStock(s)
  PROVE SagaInv'
  <1>1. SagaTypes /\ saga[s] \in SagaRows  BY DEF SagaInv, SagaTypes
  <1>2. saga[s].pc = "reserve" /\ UNCHANGED Cloud!infraVars /\ UNCHANGED <<escalations, undone>>
    BY DEF Cloud!ReserveStock
  <1>3. CASE Cloud!Throws(s) /\ UNCHANGED reserved
    BY <1>1, <1>2, <1>3, SagaThrowsIs, ChainStep DEF Compensating
  <1>4. CASE /\ reserved' = reserved \cup {s}
             /\ saga' = [saga EXCEPT ![s].pc = "purchase", ![s].reservation = TRUE]
    <2> DEFINE a == [saga[s] EXCEPT !.pc = "purchase"]
               b == [a EXCEPT !.reservation = TRUE]
    <2>1. saga' = [saga EXCEPT ![s] = b]  BY <1>4
    <2>2. a \in SagaRows /\ a.pc = "purchase" /\ a.scaling = saga[s].scaling /\ a.status = saga[s].status
      BY <1>1 DEF SagaRows, SagaPcs
    <2> HIDE DEF a
    <2>3. b \in SagaRows /\ b.pc = a.pc /\ b.scaling = a.scaling /\ b.status = a.status
      BY <2>2 DEF SagaRows
    <2> HIDE DEF b
    <2>4. saga' \in [Sagas -> SagaRows] /\ saga'[s] = b /\ \A t \in Sagas : t # s => saga'[t] = saga[t]
      BY <1>1, <2>1, <2>3 DEF SagaTypes
    <2> QED BY <1>2, <1>4, <2>2, <2>3, <2>4, ChainStep DEF Compensating
  <1> QED BY <1>3, <1>4 DEF Cloud!ReserveStock

\* It needs no scaling.
LEMMA SagaSkipScaling ==
  ASSUME SagaInv, NEW s \in Sagas, Cloud!SkipScaling(s)
  PROVE SagaInv'
  <1>1. SagaTypes  BY DEF SagaInv
  <1>2. saga[s].pc = "scale" /\ Cloud!Goes(s, "finance") /\ UNCHANGED Cloud!infraVars
        /\ UNCHANGED <<reserved, escalations, undone>>
    BY DEF Cloud!SkipScaling
  <1> QED BY <1>1, <1>2, SagaGoesIs, ChainStep DEF Compensating, SagaPcs

\* It requests overtime.
LEMMA SagaRequestOvertime ==
  ASSUME SagaInv, NEW s \in Sagas, Cloud!RequestOvertime(s)
  PROVE SagaInv'
  <1>1. SagaTypes  BY DEF SagaInv
  <1>2. CASE Cloud!Call(s, "overtime", "journal", {"overtime"})
    BY <1>2, CallStep DEF Compensating, SagaPcs
  <1>3. CASE /\ saga[s].pc = "overtime" /\ Cloud!Goes(s, "journal")
             /\ UNCHANGED <<Cloud!infraVars, accountIds, reserved, left, escalations, undone>>
    BY <1>1, <1>3, SagaGoesIs, ChainStep DEF Compensating, SagaPcs
  <1> QED BY <1>2, <1>3 DEF Cloud!RequestOvertime

\* It posts its journal, and is complete.
LEMMA SagaCreateJournal ==
  ASSUME SagaInv, NEW s \in Sagas, Cloud!CreateJournal(s)
  PROVE SagaInv'
  <1>1. SagaTypes /\ saga[s] \in SagaRows  BY DEF SagaInv, SagaTypes
  <1>2. saga[s].pc = "journal" /\ UNCHANGED Cloud!infraVars /\ UNCHANGED <<reserved, escalations, undone>>
    BY DEF Cloud!CreateJournal
  <1>3. CASE Cloud!Throws(s)  BY <1>1, <1>2, <1>3, SagaThrowsIs, ChainStep DEF Compensating
  <1>4. CASE saga' = [saga EXCEPT ![s].pc = "done", ![s].status = "COMPLETED"]
    <2> DEFINE a == [saga[s] EXCEPT !.pc = "done"]
               b == [a EXCEPT !.status = "COMPLETED"]
    <2>1. saga' = [saga EXCEPT ![s] = b]  BY <1>4
    <2>2. a \in SagaRows /\ a.pc = "done" /\ a.scaling = saga[s].scaling
      BY <1>1 DEF SagaRows, SagaPcs
    <2> HIDE DEF a
    <2>3. b \in SagaRows /\ b.pc = a.pc /\ b.scaling = a.scaling /\ b.status = "COMPLETED"
      BY <2>2 DEF SagaRows
    <2> HIDE DEF b
    <2>4. saga' \in [Sagas -> SagaRows] /\ saga'[s] = b /\ \A t \in Sagas : t # s => saga'[t] = saga[t]
      BY <1>1, <2>1, <2>3 DEF SagaTypes
    <2> QED BY <1>2, <2>2, <2>3, <2>4, ChainStep DEF Compensating
  <1> QED BY <1>3, <1>4 DEF Cloud!CreateJournal

\* A step of the saga's own handler.
LEMMA SagaScales ==
  ASSUME SagaInv, NEW s \in Sagas, Cloud!InfraStep(s), UNCHANGED escalations,
         undone \subseteq undone', reserved' \subseteq reserved \cup {s},
         saga' \in [Sagas -> SagaRows], \A t \in Sagas : t # s => saga'[t] = saga[t], SagaOK(s)'
  PROVE SagaInv'
  <1>1. s \in Scalers /\ Sagas \subseteq Scalers  BY ScalingBounds
  <1>2. CloudInv' /\ EventsSettle /\ \A t \in Scalers : t # s => scaler'[t] = scaler[t]
    BY <1>1, InfraStepKeeps, InfraSettles, InfraMovesOne DEF SagaInv
  <1>3. SagaTypes'  BY DEF SagaInv, SagaTypes
  <1> QED BY <1>1, <1>2, <1>3, SagaMoves

\* It asks the infrastructure for replicas, and waits.
LEMMA SagaBeginScaling ==
  ASSUME SagaInv, NEW s \in Sagas, NEW d \in Deployments, Cloud!BeginScaling(s, d) PROVE SagaInv'
  <1>1. SagaTypes /\ saga[s] \in SagaRows /\ SagaOK(s) /\ s \in Scalers /\ CloudInv
    BY ScalingBounds DEF SagaInv, SagaTypes
  <1>2. /\ saga[s].pc = "scale" /\ saga[s].scale # None /\ Cloud!RequestScaling(s, d, saga[s].scale)
        /\ Cloud!Goes(s, "scaling") /\ UNCHANGED <<reserved, escalations, undone>>
    BY DEF Cloud!BeginScaling
  <1>3. saga[s].scale \in SagaReplicas /\ saga[s].scale \in Nat
    BY <1>1, <1>2, ScalingBounds DEF SagaRows
  <1>4. Cloud!InfraStep(s)  BY <1>2, <1>3 DEF Cloud!InfraStep
  <1>5. scaler'[s] \in Policing /\ event' = event
    BY <1>1, <1>2, <1>3, RequestScalingStep DEF Cloud!RequestScaling
  <1>6. /\ saga' \in [Sagas -> SagaRows] /\ \A t \in Sagas : t # s => saga'[t] = saga[t]
        /\ saga'[s].pc = "scaling" /\ saga'[s].scaling = saga[s].scaling
        /\ saga'[s].status = saga[s].status
    BY <1>1, <1>2, SagaGoesIs DEF SagaPcs
  <1>7. SagaOK(s)'  BY <1>1, <1>2, <1>5, <1>6 DEF SagaOK, Unwound, Compensating
  <1> QED BY <1>2, <1>4, <1>6, <1>7, SagaScales

\* It asks for them to be rolled back, and waits.
LEMMA SagaBeginRollback ==
  ASSUME SagaInv, NEW s \in Sagas, Cloud!BeginRollback(s)
  PROVE SagaInv'
  <1> SUFFICES ASSUME NEW e, e = saga[s].scaling PROVE SagaInv'  OBVIOUS
  <1>1. SagaTypes /\ saga[s] \in SagaRows /\ SagaOK(s) /\ s \in Scalers /\ CloudInv
    BY ScalingBounds DEF SagaInv, SagaTypes
  <1>2. saga[s].pc = "rollback" /\ UNCHANGED <<reserved, escalations, undone>>
    BY DEF Cloud!BeginRollback
  <1>3. saga[s].status = "FAILED" /\ scaler[s] = Cloud!Still /\ escalations[s] = 0
    BY <1>1, <1>2 DEF SagaOK, Compensating
  <1>4. CASE /\ e = None \/ event[e].status # "EXECUTED"
             /\ Cloud!Goes(s, "cancel") /\ UNCHANGED Cloud!infraVars
    <2>1. /\ saga' \in [Sagas -> SagaRows] /\ \A t \in Sagas : t # s => saga'[t] = saga[t]
          /\ saga'[s].pc = "cancel" /\ saga'[s].scaling = e /\ saga'[s].status = "FAILED"
      BY <1>1, <1>3, <1>4, SagaGoesIs DEF SagaPcs
    <2>2. CloudInv' /\ EventsSettle /\ scaler' = scaler /\ event' = event
      BY <1>1, <1>4, NothingScaled
    <2>3. SagaOK(s)'  BY <1>1, <1>2, <1>3, <1>4, <2>1, <2>2 DEF SagaOK, Unwound, Compensating
    <2>4. SagaTypes'  BY <1>1, <1>2, <2>1 DEF SagaTypes
    <2> QED BY <1>2, <2>1, <2>2, <2>3, <2>4, SagaMoves
  <1>5. CASE e # None /\ Cloud!RollbackScaling(s, e) /\ Cloud!Goes(s, "rollingBack")
    <2>1. e \in Twins  BY <1>1, <1>5 DEF SagaRows
    <2>2. scaler'[s] \in RollingBack /\ scaler'[s].event = e /\ event' = event
      BY <1>1, <1>5, <2>1, RollbackScalingStep DEF Cloud!RollbackScaling
    <2>3. Cloud!InfraStep(s)  BY <1>5, <2>1 DEF Cloud!InfraStep
    <2>4. /\ saga' \in [Sagas -> SagaRows] /\ \A t \in Sagas : t # s => saga'[t] = saga[t]
          /\ saga'[s].pc = "rollingBack" /\ saga'[s].scaling = e /\ saga'[s].status = "FAILED"
      BY <1>1, <1>3, <1>5, SagaGoesIs DEF SagaPcs
    <2>5. SagaOK(s)'  BY <1>1, <1>2, <1>3, <2>2, <2>4 DEF SagaOK, Unwound, Compensating
    <2> QED BY <1>2, <2>3, <2>4, <2>5, SagaScales
  <1> QED BY <1>4, <1>5 DEF Cloud!BeginRollback, Cloud!AfterRollback

\* The rollback is answered.
LEMMA SagaContinueRollback ==
  ASSUME SagaInv, NEW s \in Sagas, Cloud!ContinueRollback(s)
  PROVE SagaInv'
  <1> SUFFICES ASSUME NEW e, e = saga[s].scaling PROVE SagaInv'  OBVIOUS
  <1>1. SagaTypes /\ saga[s] \in SagaRows /\ SagaOK(s) /\ s \in Scalers /\ CloudInv
    BY ScalingBounds DEF SagaInv, SagaTypes
  <1>2. saga[s].pc = "rollingBack" /\ UNCHANGED <<reserved, escalations>>
    BY DEF Cloud!ContinueRollback
  <1>3. /\ saga[s].status = "FAILED" /\ scaler[s] \in RollingBack /\ scaler[s].event = e
        /\ escalations[s] = 0
    BY <1>1, <1>2 DEF SagaOK, Compensating
  <1>4. e \in Twins /\ event[e] # None  
    BY <1>1, <1>3 DEF RollingBack, CloudInv, HoldsOK
  <1>5. Cloud!InfraStep(s)  BY DEF Cloud!ContinueRollback, Cloud!InfraStep
  <1>6. EventsSettle  BY <1>1, <1>5, InfraSettles
  <1>7. e # None  BY <1>4, ScalingBounds
  <1>8. Cloud!Still \notin RollingBack  BY StillIsNobody
  <1>9. event'[e] # None /\ event'[e].status # "REQUESTED"
    BY <1>1, <1>4, <1>6, <1>7 DEF SagaOK, EventsSettle
  <1>10. CASE Cloud!ScaleBack(s) /\ scaler'[s] = Cloud!Still /\ Cloud!Goes(s, "cancel") /\ undone' = undone \cup {<<s, "scaling">>}
    <2>1. /\ saga' \in [Sagas -> SagaRows] /\ \A t \in Sagas : t # s => saga'[t] = saga[t]
          /\ saga'[s].pc = "cancel" /\ saga'[s].scaling = e /\ saga'[s].status = "FAILED"
      BY <1>1, <1>3, <1>10, SagaGoesIs DEF SagaPcs
    <2>2. SagaOK(s)'  BY <1>1, <1>2, <1>3, <1>9, <1>10, <2>1 DEF SagaOK, Unwound, Compensating
    <2> QED BY <1>2, <1>5, <1>10, <2>1, <2>2, SagaScales
  <1>11. CASE Cloud!ScaleBack(s) /\ scaler'[s] # Cloud!Still /\ UNCHANGED <<saga, undone>>
    <2>1. scaler'[s] \in RollingBack /\ scaler'[s].event = e  BY <1>1, <1>3, <1>11, ScaleBackStep
    <2>2. SagaOK(s)'  BY <1>1, <1>2, <1>3, <1>9, <1>11, <2>1 DEF SagaOK, Unwound, Compensating
    <2>3. saga' \in [Sagas -> SagaRows]  BY <1>1, <1>11 DEF SagaTypes
    <2> QED BY <1>2, <1>5, <1>11, <2>2, <2>3, SagaScales
  <1>12. CASE Cloud!SaveEvent(s) /\ Cloud!Goes(s, "cancel") /\ UNCHANGED undone
    <2>1. /\ saga' \in [Sagas -> SagaRows] /\ \A t \in Sagas : t # s => saga'[t] = saga[t]
          /\ saga'[s].pc = "cancel" /\ saga'[s].scaling = e /\ saga'[s].status = "FAILED"
      BY <1>1, <1>3, <1>12, SagaGoesIs DEF SagaPcs
    <2>2. /\ scaler' = [scaler EXCEPT ![s] = Cloud!Still]
          /\ event' = [event EXCEPT ![e] = scaler[s].row] /\ scaler[s].row.status = "ROLLED_BACK"
      BY <1>1, <1>3, <1>12, SaveEventStep
    <2>3. scaler'[s] = Cloud!Still /\ event'[e].status = "ROLLED_BACK"
      BY <1>1, <1>4, <2>2 DEF CloudInv, CloudTypes
    <2>4. SagaOK(s)'  BY <1>1, <1>2, <1>3, <1>9, <2>1, <2>3 DEF SagaOK, Unwound, Compensating
    <2> QED BY <1>2, <1>5, <1>12, <2>1, <2>4, SagaScales
  <1> QED BY <1>10, <1>11, <1>12 DEF Cloud!ContinueRollback, Cloud!AfterRollback

\* The scaling is answered.
LEMMA SagaContinueScaling ==
  ASSUME SagaInv, NEW s \in Sagas, Cloud!ContinueScaling(s)
  PROVE SagaInv'
  <1>1. SagaTypes /\ saga[s] \in SagaRows /\ SagaOK(s) /\ s \in Scalers /\ CloudInv
    BY ScalingBounds DEF SagaInv, SagaTypes
  <1>2. saga[s].pc = "scaling" /\ UNCHANGED <<reserved, escalations, undone>>
    BY DEF Cloud!ContinueScaling
  <1>3. /\ saga[s].status = "PENDING" /\ scaler[s] \in Policing \cup Requesting
        /\ escalations[s] = 0
    BY <1>1, <1>2 DEF SagaOK, Compensating
  <1>4. Cloud!InfraStep(s)  BY DEF Cloud!ContinueScaling, Cloud!InfraStep
  <1>5. EventsSettle  BY <1>1, <1>4, InfraSettles
  <1>6. saga[s].scaling # None =>
          event'[saga[s].scaling] # None /\ event'[saga[s].scaling].status # "REQUESTED"
    BY <1>1, <1>5 DEF SagaOK, EventsSettle, SagaRows
  <1>7. Cloud!Still \notin Policing \cup Requesting  BY StillIsNobody
  <1>8. ASSUME UNCHANGED saga, scaler'[s] \in Policing \cup Requesting PROVE SagaInv'
    <2>1. SagaOK(s)'  BY <1>1, <1>2, <1>3, <1>6, <1>8 DEF SagaOK, Unwound, Compensating
    <2>2. saga' \in [Sagas -> SagaRows]  BY <1>1, <1>8 DEF SagaTypes
    <2> QED BY <1>2, <1>4, <1>8, <2>1, <2>2, SagaScales
  <1>9. ASSUME NEW e \in Twins, saga' = [saga EXCEPT ![s].pc = "finance", ![s].scaling = e],
               scaler'[s] = Cloud!Still, event'[e] # None, event'[e].status # "REQUESTED"
        PROVE SagaInv'
    <2> DEFINE a == [saga[s] EXCEPT !.pc = "finance"]
               b == [a EXCEPT !.scaling = e]
    <2>1. saga' = [saga EXCEPT ![s] = b]  BY <1>9
    <2>2. a \in SagaRows /\ a.pc = "finance" /\ a.status = saga[s].status
      BY <1>1 DEF SagaRows, SagaPcs
    <2> HIDE DEF a
    <2>3. b \in SagaRows /\ b.pc = a.pc /\ b.scaling = e /\ b.status = a.status
      BY <2>2 DEF SagaRows
    <2> HIDE DEF b
    <2>4. saga' \in [Sagas -> SagaRows] /\ saga'[s] = b /\ \A t \in Sagas : t # s => saga'[t] = saga[t]
      BY <1>1, <2>1, <2>3 DEF SagaTypes
    <2>5. SagaOK(s)'
      BY <1>1, <1>2, <1>3, <1>9, <2>2, <2>3, <2>4 DEF SagaOK, Unwound, Compensating
    <2> QED BY <1>2, <1>4, <2>4, <2>5, SagaScales
  <1>10. ASSUME NEW e \in Twins, NEW b \in BOOLEAN, NEW c \in BOOLEAN, Cloud!DecideScaling(s, e, b, c),
                saga' = IF scaler'[s] = Cloud!Still
                          THEN [saga EXCEPT ![s].pc = "finance", ![s].scaling = e] ELSE saga
         PROVE SagaInv'
    <2>1. /\ scaler'[s] = Cloud!Still => event'[e] # None /\ event'[e].status \in {"POLICY_REJECTED", "FAILED"}
          /\ scaler'[s] # Cloud!Still => scaler'[s] \in Requesting
      BY <1>1, <1>10, DecideScalingStep
    <2> QED BY <1>8, <1>9, <1>10, <2>1
  <1>11. ASSUME Cloud!ScaleDeployment(s), UNCHANGED saga PROVE SagaInv'
    BY <1>1, <1>8, <1>11, ScaleDeploymentStep
  <1>12. ASSUME Cloud!SaveEvent(s), IF scaler[s].row.status = "EXECUTED"
                  THEN saga' = [saga EXCEPT ![s].pc = "finance", ![s].scaling = scaler[s].event]
                  ELSE Cloud!Throws(s)
         PROVE SagaInv'
    <2>1. /\ scaler[s] \in Requesting \cup RollingBack /\ scaler' = [scaler EXCEPT ![s] = Cloud!Still]
          /\ event' = [event EXCEPT ![scaler[s].event] = scaler[s].row] /\ scaler[s].row \in Rows
      BY <1>1, <1>12, SaveEventStep
    <2>2. scaler[s].event \in Twins /\ scaler'[s] = Cloud!Still /\ event'[scaler[s].event] = scaler[s].row
      BY <1>1, <2>1 DEF CloudInv, CloudTypes, Requesting, RollingBack
    <2>3. CASE scaler[s].row.status = "EXECUTED"
      <3>1. scaler[s].row # None  BY <2>1, ScalingBounds DEF Rows
      <3> QED BY <1>9, <1>12, <2>2, <2>3, <3>1
    <2>4. CASE Cloud!Throws(s)
      <3>1. /\ saga' \in [Sagas -> SagaRows] /\ \A t \in Sagas : t # s => saga'[t] = saga[t]
            /\ saga'[s].pc = "rollback" /\ saga'[s].scaling = saga[s].scaling
            /\ saga'[s].status = "FAILED"
        BY <1>1, <2>4, SagaThrowsIs
      <3>2. SagaOK(s)'  BY <1>1, <1>2, <1>3, <1>6, <2>2, <3>1 DEF SagaOK, Unwound, Compensating
      <3> QED BY <1>2, <1>4, <3>1, <3>2, SagaScales
    <2> QED BY <1>12, <2>3, <2>4
  <1> QED BY <1>10, <1>11, <1>12 DEF Cloud!ContinueScaling

\* The reservation is cancelled, or that throws.
LEMMA SagaCancelReservation ==
  ASSUME SagaInv, NEW s \in Sagas, Cloud!CancelReservation(s)
  PROVE SagaInv'
  <1>1. SagaTypes /\ SagaOK(s) /\ CloudInv  BY DEF SagaInv
  <1>2. /\ saga[s].pc = "cancel" /\ Cloud!Goes(s, "ticket") /\ UNCHANGED Cloud!infraVars /\ UNCHANGED escalations
        /\ reserved' \subseteq reserved /\ undone \subseteq undone'
        /\ s \notin reserved' \/ <<s, "reservation">> \in undone'
    BY DEF Cloud!CancelReservation
  <1>3. /\ saga' \in [Sagas -> SagaRows] /\ \A t \in Sagas : t # s => saga'[t] = saga[t]
        /\ saga'[s].pc = "ticket" /\ saga'[s].scaling = saga[s].scaling
        /\ saga'[s].status = saga[s].status
    BY <1>1, <1>2, SagaGoesIs DEF SagaPcs
  <1>4. CloudInv' /\ EventsSettle /\ scaler' = scaler /\ event' = event
    BY <1>1, <1>2, NothingScaled
  <1>5. SagaOK(s)'  BY <1>1, <1>2, <1>3, <1>4 DEF SagaOK, Unwound, Compensating
  <1>6. SagaTypes'  BY <1>1, <1>2, <1>3 DEF SagaTypes
  <1> QED BY <1>2, <1>3, <1>4, <1>5, <1>6, SagaMoves

\* The failure is escalated.
LEMMA SagaCreateTicket ==
  ASSUME SagaInv, NEW s \in Sagas, Cloud!CreateSystemTicket(s)
  PROVE SagaInv'
  <1>1. SagaTypes /\ SagaOK(s) /\ CloudInv  BY DEF SagaInv
  <1>2. /\ saga[s].pc = "ticket" /\ Cloud!Goes(s, "done") /\ UNCHANGED Cloud!infraVars
        /\ UNCHANGED <<reserved, undone>> /\ escalations' = [escalations EXCEPT ![s] = @ + 1]
    BY DEF Cloud!CreateSystemTicket
  <1>3. /\ saga' \in [Sagas -> SagaRows] /\ \A t \in Sagas : t # s => saga'[t] = saga[t]
        /\ saga'[s].pc = "done" /\ saga'[s].scaling = saga[s].scaling
        /\ saga'[s].status = saga[s].status
    BY <1>1, <1>2, SagaGoesIs DEF SagaPcs
  <1>4. CloudInv' /\ EventsSettle /\ scaler' = scaler /\ event' = event
    BY <1>1, <1>2, NothingScaled
  <1>5. /\ escalations[s] = 0 /\ escalations'[s] = escalations[s] + 1
        /\ \A t \in Sagas : t # s => escalations'[t] = escalations[t]
        /\ escalations' \in [Sagas -> Nat]
    BY <1>1, <1>2 DEF SagaTypes, SagaOK
  <1>6. SagaOK(s)'  BY <1>1, <1>2, <1>3, <1>4, <1>5 DEF SagaOK, Unwound, Compensating
  <1>7. SagaTypes'  BY <1>3, <1>5 DEF SagaTypes
  <1> QED BY <1>2, <1>3, <1>4, <1>5, <1>6, <1>7, SagaMoves

\* Every step of a saga keeps the invariant.
LEMMA SagaStepKeeps == ASSUME SagaInv, NEW s \in Sagas, Cloud!SagaStep(s) PROVE SagaInv'
  <1>1. Cloud!CreatePurchaseRequest(s) \/ Cloud!CheckBudgetAvailability(s) \/ Cloud!CreateBudgetAllocation(s) => SagaInv'
    BY CallStep
       DEF Cloud!CreatePurchaseRequest, Cloud!CheckBudgetAvailability, Cloud!CreateBudgetAllocation,
                    Compensating, SagaPcs
  <1> QED BY <1>1, SagaProcess, SagaReserveStock, SagaSkipScaling, SagaBeginScaling,
             SagaContinueScaling, SagaRequestOvertime, SagaCreateJournal, SagaBeginRollback,
             SagaContinueRollback, SagaCancelReservation, SagaCreateTicket DEF Cloud!SagaStep

\* Clients of the cluster alone are no saga.
LEMMA SagaClientKeeps == ASSUME SagaInv, Cloud!SagaClient PROVE SagaInv'
  <1>1. CloudInv /\ SagaTypes  BY DEF SagaInv
  <1>2. ASSUME CloudInv', EventsSettle, \A t \in Sagas : scaler'[t] = scaler[t],
               UNCHANGED <<saga, reserved, escalations, undone>>
        PROVE SagaInv'
    <2>1. SagaTypes'  BY <1>1, <1>2 DEF SagaTypes
    <2>2. ASSUME NEW t \in Sagas PROVE SagaOK(t)'
      <3>1. SagaOK(t) /\ scaler'[t] = scaler[t]  BY <1>2 DEF SagaInv
      <3>2. saga[t].scaling # None =>
              /\ event'[saga[t].scaling] # None /\ event'[saga[t].scaling].status # "REQUESTED"
              /\ event[saga[t].scaling].status # "EXECUTED" => event'[saga[t].scaling].status # "EXECUTED"
        BY <1>1, <1>2, <3>1 DEF SagaOK, EventsSettle, SagaTypes, SagaRows
      <3> QED BY <1>2, <3>1, <3>2 DEF SagaOK, Unwound
    <2> QED BY <1>2, <2>1, <2>2 DEF SagaInv
  <1>3. ASSUME NEW id \in UUIDs, Cloud!CreateChartOfAccount(id) PROVE SagaInv'
    <2>1. UNCHANGED Cloud!infraVars /\ UNCHANGED <<saga, reserved, escalations, undone>>
      BY <1>3 DEF Cloud!CreateChartOfAccount
    <2> QED BY <1>1, <1>2, <2>1, NothingScaled
  <1>4. ASSUME UNCHANGED Cloud!sagaVars PROVE UNCHANGED <<saga, reserved, escalations, undone>>
    BY <1>4 DEF Cloud!sagaVars
  <1>5. ASSUME NEW s \in Scalers \ Sagas, Cloud!InfraStep(s), UNCHANGED Cloud!sagaVars
        PROVE SagaInv'
    <2>1. CloudInv' /\ EventsSettle /\ \A t \in Scalers : t # s => scaler'[t] = scaler[t]
      BY <1>1, <1>5, InfraStepKeeps, InfraSettles, InfraMovesOne
    <2>2. \A t \in Sagas : scaler'[t] = scaler[t]  BY <1>5, <2>1, ScalingBounds
    <2> QED BY <1>2, <1>4, <1>5, <2>1, <2>2
  <1>6. ASSUME NEW d \in Deployments, NEW n \in SagaReplicas, Cloud!OthersScale(d, n), UNCHANGED Cloud!sagaVars
        PROVE SagaInv'
    <2>1. CloudInv'  BY <1>1, <1>6, ScalingBounds, OthersScaleStep
    <2>2. event' = event /\ scaler' = scaler  BY <1>6 DEF Cloud!OthersScale
    <2> QED BY <1>2, <1>4, <1>6, <2>1, <2>2 DEF EventsSettle
  <1> QED BY <1>3, <1>5, <1>6 DEF Cloud!SagaClient

\* A state that does not change keeps it.
LEMMA SagaInvStutters ==
  SagaInv /\ UNCHANGED <<Cloud!infraVars, Cloud!sagaVars>> => SagaInv'
  <1> SUFFICES ASSUME SagaInv, UNCHANGED <<Cloud!infraVars, Cloud!sagaVars>> PROVE SagaInv'
    OBVIOUS
  <1>1. CloudInv' /\ scaler' = scaler /\ event' = event  BY NothingScaled DEF SagaInv
  <1>2. UNCHANGED <<saga, reserved, escalations, undone>>  BY DEF Cloud!sagaVars
  <1>3. \A s \in Sagas : SagaOK(s)'  BY <1>1, <1>2 DEF SagaInv, SagaOK, Unwound
  <1> QED BY <1>1, <1>2, <1>3 DEF SagaInv, SagaTypes

\* The invariant implies that failed sagas are undone.
LEMMA SagaInvImplies == SagaInv => Cloud!FailedSagaIsUndone /\ Cloud!SagaTypeOK
  BY DEF SagaInv, SagaTypes, SagaRows, SagaPcs, SagaOK, Unwound, Cloud!FailedSagaIsUndone, Cloud!SagaTypeOK

\* Without the bounds of the scene too: failed sagas are undone
\* (enterprise-saga.service.ts).
THEOREM SagasAreUndone == Cloud!SagaSpec => []Cloud!FailedSagaIsUndone
  <1>1. SagaInv /\ [Cloud!SagaClient \/ \E s \in Sagas : Cloud!SagaStep(s)]_<<Cloud!infraVars, Cloud!sagaVars>> => SagaInv'
    BY SagaStepKeeps, SagaClientKeeps, SagaInvStutters
  <1>2. Cloud!SagaSpec => []SagaInv  BY <1>1, SagaInvInit, PTL DEF Cloud!SagaSpec
  <1> QED BY <1>2, SagaInvImplies, PTL

HIDE DEF cluster, event, scaler, last, disturbed, Scalers, Sagas, saga, accountIds, reserved, left,
         escalations, undone

-----------------------------------------------------------------------------
(***************************************************************************)
(* Tasks and goals.                                                        *)
(***************************************************************************)
task == s2
late == s3
attempt == s4
tickets == s5
retries == s6
settled == s7
goal == s8
recorded == s9
trusted == s10
USE DEF task, late, attempt, tickets, retries, settled, goal, recorded, trusted

\* None is no task, no row of one and no outcome.
LEMMA TaskBounds ==
  /\ TaskConfidences \subseteq Nat /\ TokenUses \subseteq Nat
  /\ MaxIterations \subseteq Nat /\ TokenBudgets \subseteq Nat
  /\ DefaultMaxIterations \in Nat /\ DefaultTokenBudget \in Nat /\ DefaultMinConfidence \in Nat
  /\ None \notin Twins
  /\ None \notin {"EXECUTE", "RETRY", "CIRCUIT_BROKEN", "BUDGET_DENIED"}
  /\ None \notin [status : {"PENDING", "IN_PROGRESS", "COMPLETED", "FAILED", "ESCALATED"},
                  iterationCount : Nat, tokenUsed : Nat, hasDeadline : BOOLEAN,
                  maxIterations : Nat, tokenBudget : Nat, minConfidence : Nat]
  /\ Pairs \subseteq Pairs
  BY TasksAssumption DEF Work!TaskStatus

TaskRows == [status : Work!TaskStatus, iterationCount : Nat, tokenUsed : Nat, hasDeadline : BOOLEAN,
             maxIterations : Nat, tokenBudget : Nat, minConfidence : Nat]

Outcomes == {"EXECUTE", "RETRY", "CIRCUIT_BROKEN"}

Attempts == [pc : {"idle", "write", "ticket"}, task : Twins \cup {None}, outcome : Outcomes \cup {None},
             trips : BOOLEAN]

TaskTypes ==
  /\ task \in [Twins -> TaskRows \cup {None}]
  /\ attempt \in [Pairs -> Attempts]
  /\ tickets \in [Twins -> Nat] /\ retries \in [Twins -> Nat]
  /\ late \subseteq Twins /\ settled \subseteq Twins

\* What is under way is of a task there is.
AttemptOK(c) ==
  attempt[c].pc # "idle" => attempt[c].task \in Twins /\ task[attempt[c].task] # None

Ticketing(c, t) == attempt[c].pc = "ticket" /\ attempt[c].task = t

\* In memory the retries are counted, and the breaker trips once.
CountedOK(t) ==
  task[t] # None => /\ retries[t] <= task[t].iterationCount
                    /\ retries[t] > 0 => retries[t] < task[t].maxIterations

BreakerOK(t) ==
  task[t] # None /\ t \notin settled =>
    /\ \A c, d \in Pairs : Ticketing(c, t) /\ Ticketing(d, t) => c = d
    /\ tickets[t] <= 1
    /\ \A c \in Pairs : Ticketing(c, t) => tickets[t] = 0
    /\ task[t].status # "ESCALATED" => tickets[t] = 0 /\ \A c \in Pairs : ~Ticketing(c, t)
    /\ task[t].status = "ESCALATED" => Work!OutOfBounds(t, task[t])

TaskInv ==
  /\ TaskTypes
  /\ \A c \in Pairs : AttemptOK(c)
  /\ \A t \in Twins : task[t] = None => tickets[t] = 0 /\ retries[t] = 0
  /\ driver = "memory" => /\ \A c \in Pairs : attempt[c].pc # "write"
                          /\ \A t \in Twins : CountedOK(t) /\ BreakerOK(t)

\* No row and no outcome is None, and who is idle attempts nothing.
LEMMA NoTask == /\ None \notin TaskRows /\ None \notin Outcomes
                /\ Work!Idle \in Attempts /\ Work!Idle.pc = "idle"
  <1>1. None \notin TaskRows  BY TaskBounds DEF TaskRows, Work!TaskStatus
  <1> QED BY <1>1, TaskBounds DEF Work!Idle, Attempts, Outcomes

\* There are no tasks at the start.
LEMMA TaskInvInit == Work!TaskInit => TaskInv
  <1> SUFFICES ASSUME Work!TaskInit PROVE TaskInv  OBVIOUS
  <1>1. TaskTypes  BY NoTask DEF Work!TaskInit, TaskTypes
  <1>2. \A c \in Pairs : attempt[c].pc = "idle"  BY NoTask DEF Work!TaskInit
  <1>3. \A t \in Twins : task[t] = None /\ tickets[t] = 0 /\ retries[t] = 0  BY DEF Work!TaskInit
  <1> QED BY <1>1, <1>2, <1>3 DEF TaskInv, AttemptOK, CountedOK, BreakerOK

\* A task is created.
LEMMA CreateTaskStep ==
  ASSUME TaskInv, NEW t \in Twins, NEW max \in Nat, NEW budget \in Nat, NEW min \in Nat,
         Work!CreateTask(t, max, budget, min)
  PROVE /\ TaskInv' /\ task[t] = None /\ task'[t] # None /\ task'[t].status = "PENDING"
        /\ task' = [task EXCEPT ![t] = task'[t]]
        /\ UNCHANGED <<driver, late, attempt, tickets, retries, settled>>
  <1> DEFINE row == [status |-> "PENDING", iterationCount |-> 0, tokenUsed |-> 0, hasDeadline |-> TRUE,
                     maxIterations |-> max, tokenBudget |-> budget, minConfidence |-> min]
             new == Work!Remembered(row)
  <1>1. task[t] = None /\ task' = [task EXCEPT ![t] = new]
        /\ UNCHANGED <<driver, late, attempt, tickets, retries, settled>>
    BY DEF Work!CreateTask
  <1>2. row \in TaskRows /\ row.status = "PENDING" /\ row.iterationCount = 0
    BY DEF TaskRows, Work!TaskStatus
  <1> HIDE DEF row
  <1>3. new \in TaskRows /\ new.status = "PENDING" /\ new.iterationCount = 0
    <2> DEFINE a == [row EXCEPT !.iterationCount = 0]
               b == [a EXCEPT !.tokenUsed = 0]
               c == [b EXCEPT !.hasDeadline = FALSE]
               d == [c EXCEPT !.maxIterations = DefaultMaxIterations]
               e == [d EXCEPT !.tokenBudget = DefaultTokenBudget]
               f == [e EXCEPT !.minConfidence = DefaultMinConfidence]
    <2>1. CASE driver = "memory"  BY <1>2, <2>1 DEF Work!Remembered
    <2>2. CASE driver # "memory"
      <3>1. new = f  BY <2>2 DEF Work!Remembered
      <3>2. a \in TaskRows /\ a.status = "PENDING" /\ a.iterationCount = 0  BY <1>2 DEF TaskRows
      <3> HIDE DEF a
      <3>3. b \in TaskRows /\ b.status = "PENDING" /\ b.iterationCount = 0  BY <3>2 DEF TaskRows
      <3> HIDE DEF b
      <3>4. c \in TaskRows /\ c.status = "PENDING" /\ c.iterationCount = 0  BY <3>3 DEF TaskRows
      <3> HIDE DEF c
      <3>5. d \in TaskRows /\ d.status = "PENDING" /\ d.iterationCount = 0
        BY <3>4, TaskBounds DEF TaskRows
      <3> HIDE DEF d
      <3>6. e \in TaskRows /\ e.status = "PENDING" /\ e.iterationCount = 0
        BY <3>5, TaskBounds DEF TaskRows
      <3> HIDE DEF e
      <3>7. f \in TaskRows /\ f.status = "PENDING" /\ f.iterationCount = 0
        BY <3>6, TaskBounds DEF TaskRows
      <3> HIDE DEF f, new
      <3> QED BY <3>1, <3>7
    <2> QED BY <2>1, <2>2
  <1> HIDE DEF new
  <1>4. TaskTypes'  BY <1>1, <1>3 DEF TaskInv, TaskTypes
  <1>5. task'[t] = new /\ new # None /\ \A u \in Twins : u # t => task'[u] = task[u]
    BY <1>1, <1>3, NoTask DEF TaskInv, TaskTypes
  <1>6. \A c \in Pairs : attempt[c].pc # "idle" => attempt[c].task # t
    BY <1>1 DEF TaskInv, AttemptOK
  <1>7. \A c \in Pairs : AttemptOK(c)'  BY <1>1, <1>5, <1>6 DEF TaskInv, AttemptOK
  <1>8. \A u \in Twins : task'[u] = None => tickets'[u] = 0 /\ retries'[u] = 0
    BY <1>1, <1>5 DEF TaskInv
  <1>9. ASSUME driver = "memory", NEW u \in Twins PROVE CountedOK(u)' /\ BreakerOK(u)'
    <2>1. CASE u = t
      <3>1. tickets'[t] = 0 /\ retries'[t] = 0  BY <1>1 DEF TaskInv
      <3>2. \A c \in Pairs : ~Ticketing(c, t)'  BY <1>1, <1>6 DEF Ticketing
      <3>3. CountedOK(t)'  BY <1>3, <1>5, <3>1 DEF CountedOK
      <3> QED BY <1>3, <1>5, <2>1, <3>1, <3>2, <3>3 DEF BreakerOK
    <2>2. CASE u # t
      <3>1. CountedOK(u) /\ BreakerOK(u)  BY <1>9 DEF TaskInv
      <3> QED BY <1>1, <1>5, <2>2, <3>1 DEF CountedOK, BreakerOK, Ticketing, Work!OutOfBounds
    <2> QED BY <2>1, <2>2
  <1>10. driver' = "memory" => \A c \in Pairs : attempt'[c].pc # "write"
    BY <1>1 DEF TaskInv
  <1>11. TaskInv'  BY <1>1, <1>4, <1>7, <1>8, <1>9, <1>10 DEF TaskInv
  <1> QED BY <1>1, <1>3, <1>5, <1>11

\* What an attempt counts, field by field.
LEMMA CountedIs ==
  ASSUME TaskTypes, NEW t \in Twins, task[t] # None, NEW used \in Nat, NEW row, row = Work!Counted(t, used)
  PROVE /\ row \in TaskRows /\ row.status = task[t].status
        /\ row.iterationCount = task[t].iterationCount + 1 /\ row.tokenUsed = task[t].tokenUsed + used
        /\ row.hasDeadline = task[t].hasDeadline /\ row.maxIterations = task[t].maxIterations
        /\ row.tokenBudget = task[t].tokenBudget
        /\ Work!OutOfBounds(t, task[t]) => Work!OutOfBounds(t, row)
  <1> DEFINE a == [task[t] EXCEPT !.iterationCount = @ + 1]
             b == [a EXCEPT !.tokenUsed = @ + used]
  <1>1. task[t] \in TaskRows  BY DEF TaskTypes
  <1>2. row = b  BY DEF Work!Counted
  <1>3. /\ a \in TaskRows /\ a.status = task[t].status /\ a.iterationCount = task[t].iterationCount + 1
        /\ a.tokenUsed = task[t].tokenUsed
        /\ a.hasDeadline = task[t].hasDeadline /\ a.maxIterations = task[t].maxIterations
        /\ a.tokenBudget = task[t].tokenBudget
    BY <1>1 DEF TaskRows
  <1> HIDE DEF a
  <1>4. /\ b \in TaskRows /\ b.status = a.status /\ b.iterationCount = a.iterationCount
        /\ b.tokenUsed = a.tokenUsed + used
        /\ b.hasDeadline = a.hasDeadline /\ b.maxIterations = a.maxIterations
        /\ b.tokenBudget = a.tokenBudget
    BY <1>3 DEF TaskRows
  <1> HIDE DEF b
  <1>5. task[t].iterationCount \in Nat /\ task[t].maxIterations \in Nat /\ task[t].tokenUsed \in Nat
        /\ task[t].tokenBudget \in Nat
    BY <1>1 DEF TaskRows
  <1> QED BY <1>2, <1>3, <1>4, <1>5 DEF Work!OutOfBounds

\* An attempt is counted, and with it the breaker may trip.
LEMMA RecordAttemptStep ==
  ASSUME TaskInv, NEW c \in Pairs, NEW t \in Twins, task[t] # None, NEW conf \in Nat, NEW used \in Nat,
         Work!RecordAttempt(c, t, conf, used)
  PROVE /\ TaskInv' /\ attempt[c].pc = "idle" /\ attempt'[c].task = t
        /\ attempt'[c].outcome \in Outcomes
        /\ attempt'[c].trips <=> attempt'[c].outcome = "CIRCUIT_BROKEN" /\ task[t].status # "ESCALATED"
        /\ attempt'[c].pc = IF driver = "prisma" THEN "write"
                            ELSE IF attempt'[c].trips THEN "ticket" ELSE "idle"
        /\ attempt' = [attempt EXCEPT ![c] = attempt'[c]]
        /\ task' = [task EXCEPT ![t] = task'[t]] /\ task'[t] # None
        /\ UNCHANGED <<driver, late, tickets, settled>>
  <1>a. PICK row : row = Work!Counted(t, used)  OBVIOUS
  <1>b. PICK outcome : outcome = Work!Outcome(t, row, conf)  OBVIOUS
  <1>c. PICK trips : trips = (outcome = "CIRCUIT_BROKEN" /\ Work!Trips(row))  OBVIOUS
  <1>d. PICK pc : pc = IF driver = "prisma" THEN "write" ELSE IF trips THEN "ticket" ELSE "idle"
    OBVIOUS
  <1>e. PICK a : a = [pc |-> pc, task |-> t, outcome |-> outcome, trips |-> trips]  OBVIOUS
  <1>f. PICK new : new = [row EXCEPT !.status = Work!Status(outcome)]  OBVIOUS
  <1>g. TaskTypes  BY DEF TaskInv
  <1>1. /\ attempt[c].pc = "idle" /\ attempt' = [attempt EXCEPT ![c] = a]
        /\ task' = IF driver = "prisma" THEN task ELSE [task EXCEPT ![t] = new]
        /\ retries' = [retries EXCEPT ![t] = IF outcome = "RETRY" THEN @ + 1 ELSE @]
        /\ UNCHANGED <<driver, late, tickets, settled>>
    BY <1>a, <1>b, <1>c, <1>d, <1>e, <1>f DEF Work!RecordAttempt
  <1>2. /\ row \in TaskRows /\ row.status = task[t].status
        /\ row.iterationCount = task[t].iterationCount + 1
        /\ row.maxIterations = task[t].maxIterations
        /\ Work!OutOfBounds(t, task[t]) => Work!OutOfBounds(t, row)
    BY <1>a, <1>g, CountedIs
  <1>3. /\ outcome \in Outcomes
        /\ outcome = "CIRCUIT_BROKEN" <=> Work!OutOfBounds(t, row)
    BY <1>b DEF Work!Outcome, Outcomes
  <1>4. trips \in BOOLEAN /\ (trips <=> outcome = "CIRCUIT_BROKEN" /\ task[t].status # "ESCALATED")
    BY <1>2, <1>c DEF Work!Trips
  <1>5. pc \in {"idle", "write", "ticket"}  BY <1>d
  <1>6. a \in Attempts /\ a.pc = pc /\ a.task = t /\ a.outcome = outcome /\ a.trips = trips
    BY <1>3, <1>4, <1>5, <1>e DEF Attempts
  <1>7. Work!Status(outcome) \in Work!TaskStatus /\ (Work!Status(outcome) = "ESCALATED" <=> outcome = "CIRCUIT_BROKEN")
    BY <1>3 DEF Work!Status, Outcomes, Work!TaskStatus
  <1>8. /\ new \in TaskRows /\ new.status = Work!Status(outcome)
        /\ new.iterationCount = row.iterationCount /\ new.maxIterations = row.maxIterations
        /\ new.hasDeadline = row.hasDeadline /\ new.tokenUsed = row.tokenUsed
        /\ new.tokenBudget = row.tokenBudget
    BY <1>2, <1>7, <1>f DEF TaskRows
  <1>9. task' = [task EXCEPT ![t] = task'[t]] /\ task'[t] \in TaskRows
    BY <1>1, <1>8, <1>g DEF TaskTypes
  <1>10. task'[t] # None  BY <1>9, NoTask
  <1>11. attempt'[c] = a /\ \A d \in Pairs : d # c => attempt'[d] = attempt[d]
    BY <1>1, <1>g DEF TaskTypes
  <1>12. \A u \in Twins : u # t => task'[u] = task[u] /\ retries'[u] = retries[u]
    BY <1>1, <1>9, <1>g DEF TaskTypes
  <1>13. TaskTypes'
    <2>1. retries' \in [Twins -> Nat]  BY <1>1, <1>g DEF TaskTypes
    <2>2. attempt' \in [Pairs -> Attempts]  BY <1>1, <1>6, <1>g DEF TaskTypes
    <2>3. task' \in [Twins -> TaskRows \cup {None}]  BY <1>9, <1>g DEF TaskTypes
    <2> QED BY <1>1, <1>g, <2>1, <2>2, <2>3 DEF TaskTypes
  <1>14. ASSUME NEW d \in Pairs PROVE AttemptOK(d)'
    <2>1. CASE d = c  BY <1>6, <1>10, <1>11, <2>1 DEF AttemptOK
    <2>2. CASE d # c  BY <1>10, <1>11, <1>12, <2>2 DEF TaskInv, AttemptOK
    <2> QED BY <2>1, <2>2
  <1>15. \A u \in Twins : task'[u] = None => tickets'[u] = 0 /\ retries'[u] = 0
    BY <1>1, <1>10, <1>12 DEF TaskInv
  <1>16. ASSUME driver = "memory" PROVE \A d \in Pairs : attempt'[d].pc # "write"
    BY <1>6, <1>11, <1>16, <1>d DEF TaskInv
  <1>17. ASSUME driver = "memory" PROVE CountedOK(t)' /\ BreakerOK(t)'
    <2>1. CountedOK(t) /\ BreakerOK(t)  BY <1>17 DEF TaskInv
    <2>2. task'[t] = new  BY <1>1, <1>17, <1>g DEF TaskTypes
    <2>3. /\ retries[t] \in Nat /\ task[t].iterationCount \in Nat /\ task[t].maxIterations \in Nat
          /\ retries'[t] = IF outcome = "RETRY" THEN retries[t] + 1 ELSE retries[t]
      BY <1>1, <1>g DEF TaskTypes, TaskRows
    <2>4. outcome = "RETRY" => row.iterationCount < row.maxIterations
      <3>1. outcome = "RETRY" => ~(row.iterationCount >= row.maxIterations)
        BY <1>3 DEF Work!OutOfBounds
      <3> QED BY <1>2, <3>1 DEF TaskRows
    <2>5. CountedOK(t)'
      BY <1>2, <1>8, <1>10, <2>1, <2>2, <2>3, <2>4 DEF CountedOK
    <2>6. \A d \in Pairs : d # c => (Ticketing(d, t)' <=> Ticketing(d, t))
      BY <1>11 DEF Ticketing
    <2>7. Ticketing(c, t)' <=> trips  BY <1>6, <1>11, <1>17, <1>d DEF Ticketing
    <2>8. outcome = "CIRCUIT_BROKEN" => Work!OutOfBounds(t, new)'
      BY <1>1, <1>3, <1>8 DEF Work!OutOfBounds
    <2>9. ASSUME t \notin settled PROVE BreakerOK(t)'
      <3>1. tickets'[t] = tickets[t] /\ tickets[t] \in Nat  BY <1>1, <1>g DEF TaskTypes
      <3>2. CASE task[t].status = "ESCALATED"
        <4>1. outcome = "CIRCUIT_BROKEN" /\ ~trips
          BY <1>2, <1>3, <1>4, <2>1, <2>9, <3>2 DEF BreakerOK
        <4>2. \A d \in Pairs : Ticketing(d, t)' => Ticketing(d, t)  BY <2>6, <2>7, <4>1
        <4> QED BY <1>7, <1>8, <2>1, <2>2, <2>8, <2>9, <3>1, <4>1, <4>2 DEF BreakerOK
      <3>3. CASE task[t].status # "ESCALATED"
        <4>1. tickets[t] = 0 /\ \A d \in Pairs : ~Ticketing(d, t)
          BY <2>1, <2>9, <3>3 DEF BreakerOK
        <4>2. \A d \in Pairs : Ticketing(d, t)' => d = c /\ trips  BY <2>6, <2>7, <4>1
        <4> QED BY <1>4, <1>7, <1>8, <2>2, <2>8, <3>1, <4>1, <4>2 DEF BreakerOK
      <3> QED BY <3>2, <3>3
    <2> QED BY <1>1, <2>5, <2>9 DEF BreakerOK
  <1>18. ASSUME driver = "memory", NEW u \in Twins, u # t PROVE CountedOK(u)' /\ BreakerOK(u)'
    <2>1. CountedOK(u) /\ BreakerOK(u)  BY <1>18 DEF TaskInv
    <2>2. task'[u] = task[u] /\ retries'[u] = retries[u]  BY <1>12, <1>18
    <2>3. \A d \in Pairs : Ticketing(d, u)' => Ticketing(d, u)
      BY <1>6, <1>11, <1>18 DEF Ticketing
    <2>4. Work!OutOfBounds(u, task[u]) => Work!OutOfBounds(u, task[u])'
      BY <1>1, <2>2 DEF Work!OutOfBounds
    <2> QED BY <1>1, <2>1, <2>2, <2>3, <2>4 DEF CountedOK, BreakerOK
  <1>19. TaskInv'  BY <1>1, <1>13, <1>14, <1>15, <1>16, <1>17, <1>18 DEF TaskInv
  <1> QED BY <1>1, <1>3, <1>4, <1>6, <1>9, <1>10, <1>11, <1>19, <1>d

\* A write of a status, in PostgreSQL or by a settling: of the status alone.
LEMMA StatusIs ==
  ASSUME TaskTypes, NEW t \in Twins, task[t] # None, NEW st \in Work!TaskStatus,
         task' = [task EXCEPT ![t].status = st]
  PROVE /\ task' \in [Twins -> TaskRows \cup {None}] /\ task'[t] # None
        /\ \A u \in Twins : u # t => task'[u] = task[u]
        /\ task'[t].iterationCount = task[t].iterationCount
        /\ task'[t].maxIterations = task[t].maxIterations
  <1> DEFINE new == [task[t] EXCEPT !.status = st]
  <1>1. task[t] \in TaskRows  BY DEF TaskTypes
  <1>2. task' = [task EXCEPT ![t] = new]  OBVIOUS
  <1>3. new \in TaskRows /\ new.iterationCount = task[t].iterationCount
        /\ new.maxIterations = task[t].maxIterations
    BY <1>1 DEF TaskRows
  <1> HIDE DEF new
  <1> QED BY <1>2, <1>3, NoTask DEF TaskTypes

\* With PostgreSQL the row is written later, as it was computed.
LEMMA WriteAttemptStep ==
  ASSUME TaskInv, NEW c \in Pairs, Work!WriteAttempt(c), attempt[c].outcome \in Outcomes
  PROVE /\ TaskInv' /\ attempt[c].pc = "write"
        /\ attempt' = [attempt EXCEPT ![c] = attempt'[c]]
        /\ attempt'[c].task = attempt[c].task /\ attempt'[c].outcome = attempt[c].outcome
        /\ attempt'[c].trips = attempt[c].trips
        /\ attempt'[c].pc = IF attempt[c].trips THEN "ticket" ELSE "idle"
        /\ task' = [task EXCEPT ![attempt[c].task] = task'[attempt[c].task]]
        /\ UNCHANGED <<driver, late, tickets, retries, settled>>
        /\ driver # "memory"
  <1> SUFFICES ASSUME NEW t, t = attempt[c].task
               PROVE /\ TaskInv' /\ attempt[c].pc = "write"
                     /\ attempt' = [attempt EXCEPT ![c] = attempt'[c]]
                     /\ attempt'[c].task = t /\ attempt'[c].outcome = attempt[c].outcome
                     /\ attempt'[c].trips = attempt[c].trips
                     /\ attempt'[c].pc = IF attempt[c].trips THEN "ticket" ELSE "idle"
                     /\ task' = [task EXCEPT ![t] = task'[t]]
                     /\ UNCHANGED <<driver, late, tickets, retries, settled>>
                     /\ driver # "memory"
    OBVIOUS
  <1>a. PICK pc : pc = IF attempt[c].trips THEN "ticket" ELSE "idle"  OBVIOUS
  <1>b. PICK a : a = [attempt[c] EXCEPT !.pc = pc]  OBVIOUS
  <1>c. PICK st : st = Work!Status(attempt[c].outcome)  OBVIOUS
  <1>1. /\ attempt[c].pc = "write" /\ task' = [task EXCEPT ![t].status = st]
        /\ attempt' = [attempt EXCEPT ![c] = a]
        /\ UNCHANGED <<driver, late, tickets, retries, settled>>
    BY <1>a, <1>b, <1>c DEF Work!WriteAttempt
  <1>2. TaskTypes /\ attempt[c] \in Attempts  BY DEF TaskInv, TaskTypes
  <1>3. t \in Twins /\ task[t] # None  BY <1>1 DEF TaskInv, AttemptOK
  <1>4. st \in Work!TaskStatus  BY <1>c DEF Work!Status, Outcomes, Work!TaskStatus
  <1>5. /\ task' \in [Twins -> TaskRows \cup {None}] /\ task'[t] # None
        /\ \A u \in Twins : u # t => task'[u] = task[u]
    BY <1>1, <1>2, <1>3, <1>4, StatusIs
  <1>6. a \in Attempts /\ a.task = t /\ a.outcome = attempt[c].outcome /\ a.trips = attempt[c].trips
        /\ a.pc = pc
    BY <1>2, <1>a, <1>b DEF Attempts
  <1>7. attempt'[c] = a /\ \A d \in Pairs : d # c => attempt'[d] = attempt[d]
    BY <1>1, <1>2 DEF TaskTypes
  <1>8. driver # "memory"  BY <1>1 DEF TaskInv
  <1>9. TaskTypes'
    <2>1. attempt' \in [Pairs -> Attempts]  BY <1>1, <1>2, <1>6 DEF TaskTypes
    <2> QED BY <1>1, <1>2, <1>5, <2>1 DEF TaskTypes
  <1>10. \A d \in Pairs : AttemptOK(d)'
    BY <1>3, <1>5, <1>6, <1>7 DEF TaskInv, AttemptOK
  <1>11. \A u \in Twins : task'[u] = None => tickets'[u] = 0 /\ retries'[u] = 0
    BY <1>1, <1>5 DEF TaskInv
  <1>12. TaskInv'  BY <1>1, <1>8, <1>9, <1>10, <1>11 DEF TaskInv
  <1> QED BY <1>1, <1>2, <1>6, <1>7, <1>8, <1>12, <1>a DEF TaskTypes

\* The ticket of a breaker that tripped is created.
LEMMA CreateTicketStep ==
  ASSUME TaskInv, NEW c \in Pairs, Work!CreateTicket(c)
  PROVE /\ TaskInv' /\ attempt[c].pc = "ticket"
        /\ attempt' = [attempt EXCEPT ![c] = attempt'[c]]
        /\ attempt'[c].task = attempt[c].task /\ attempt'[c].outcome = attempt[c].outcome
        /\ attempt'[c].trips = attempt[c].trips /\ attempt'[c].pc = "idle"
        /\ task' = [task EXCEPT ![attempt[c].task] = task'[attempt[c].task]]
        /\ tickets' = [tickets EXCEPT ![attempt[c].task] = @ + 1]
        /\ UNCHANGED <<driver, late, retries, settled>>
  <1> SUFFICES ASSUME NEW t, t = attempt[c].task
               PROVE /\ TaskInv' /\ attempt[c].pc = "ticket"
                     /\ attempt' = [attempt EXCEPT ![c] = attempt'[c]]
                     /\ attempt'[c].task = t /\ attempt'[c].outcome = attempt[c].outcome
                     /\ attempt'[c].trips = attempt[c].trips /\ attempt'[c].pc = "idle"
                     /\ task' = [task EXCEPT ![t] = task'[t]]
                     /\ tickets' = [tickets EXCEPT ![t] = @ + 1]
                     /\ UNCHANGED <<driver, late, retries, settled>>
    OBVIOUS
  <1>b. PICK a : a = [attempt[c] EXCEPT !.pc = "idle"]  OBVIOUS
  <1>1. /\ attempt[c].pc = "ticket" /\ tickets' = [tickets EXCEPT ![t] = @ + 1]
        /\ task' = IF driver = "prisma" THEN [task EXCEPT ![t].status = "ESCALATED"] ELSE task
        /\ attempt' = [attempt EXCEPT ![c] = a]
        /\ UNCHANGED <<driver, late, retries, settled>>
    BY <1>b DEF Work!CreateTicket
  <1>2. TaskTypes /\ attempt[c] \in Attempts  BY DEF TaskInv, TaskTypes
  <1>3. t \in Twins /\ task[t] # None  BY <1>1 DEF TaskInv, AttemptOK
  <1>4. /\ task' \in [Twins -> TaskRows \cup {None}] /\ task'[t] # None
        /\ \A u \in Twins : u # t => task'[u] = task[u]
    <2>1. "ESCALATED" \in Work!TaskStatus  BY DEF Work!TaskStatus
    <2>2. CASE driver = "prisma"  BY <1>1, <1>2, <1>3, <2>1, <2>2, StatusIs
    <2>3. CASE driver # "prisma"  BY <1>1, <1>2, <1>3, <2>3 DEF TaskTypes
    <2> QED BY <2>2, <2>3
  <1>6. a \in Attempts /\ a.task = t /\ a.outcome = attempt[c].outcome /\ a.trips = attempt[c].trips
        /\ a.pc = "idle"
    BY <1>2, <1>b DEF Attempts
  <1>7. attempt'[c] = a /\ \A d \in Pairs : d # c => attempt'[d] = attempt[d]
    BY <1>1, <1>2 DEF TaskTypes
  <1>8. tickets'[t] = tickets[t] + 1 /\ \A u \in Twins : u # t => tickets'[u] = tickets[u]
    BY <1>1, <1>2, <1>3 DEF TaskTypes
  <1>9. TaskTypes'
    <2>1. attempt' \in [Pairs -> Attempts]  BY <1>1, <1>2, <1>6 DEF TaskTypes
    <2>2. tickets' \in [Twins -> Nat]  BY <1>1, <1>2, <1>3 DEF TaskTypes
    <2> QED BY <1>1, <1>2, <1>4, <2>1, <2>2 DEF TaskTypes
  <1>10. \A d \in Pairs : AttemptOK(d)'
    BY <1>3, <1>4, <1>6, <1>7 DEF TaskInv, AttemptOK
  <1>11. \A u \in Twins : task'[u] = None => tickets'[u] = 0 /\ retries'[u] = 0
    BY <1>1, <1>4, <1>8 DEF TaskInv
  <1>12. ASSUME driver = "memory", NEW u \in Twins PROVE CountedOK(u)' /\ BreakerOK(u)'
    <2>1. CountedOK(u) /\ BreakerOK(u)  BY <1>12 DEF TaskInv
    <2>2. task' = task /\ late' = late /\ retries' = retries /\ settled' = settled  BY <1>1, <1>12
    <2>3. \A d \in Pairs : Ticketing(d, u)' => Ticketing(d, u) /\ d # c
      BY <1>6, <1>7 DEF Ticketing
    <2>4. CASE u # t
      BY <1>8, <2>1, <2>2, <2>3, <2>4 DEF CountedOK, BreakerOK, Work!OutOfBounds
    <2>5. CASE u = t
      <3>1. Ticketing(c, t)  BY <1>1 DEF Ticketing
      <3>2. t \notin settled => tickets[t] = 0 /\ task[t].status = "ESCALATED"
        BY <1>3, <2>1, <2>5, <3>1 DEF BreakerOK
      <3>3. \A d \in Pairs : t \notin settled => ~Ticketing(d, t)'
        BY <1>3, <2>1, <2>3, <2>5, <3>1 DEF BreakerOK
      <3> QED
        BY <1>3, <1>8, <2>1, <2>2, <2>5, <3>2, <3>3 DEF CountedOK, BreakerOK, Work!OutOfBounds
    <2> QED BY <2>4, <2>5
  <1>13. driver = "memory" => \A d \in Pairs : attempt'[d].pc # "write"
    BY <1>6, <1>7 DEF TaskInv
  <1>14. TaskInv'  BY <1>1, <1>9, <1>10, <1>11, <1>12, <1>13 DEF TaskInv
  <1>15. task' = [task EXCEPT ![t] = task'[t]]  BY <1>2, <1>3, <1>4 DEF TaskTypes
  <1>16. attempt' = [attempt EXCEPT ![c] = attempt'[c]]  BY <1>1, <1>2 DEF TaskTypes
  <1> QED BY <1>1, <1>6, <1>7, <1>14, <1>15, <1>16

\* A task is completed or fails.
LEMMA SettleStep ==
  ASSUME TaskInv, NEW t \in Twins, NEW st \in Work!TaskStatus, Work!Settle(t, st)
  PROVE /\ TaskInv' /\ task' = [task EXCEPT ![t] = task'[t]] /\ task'[t] # None
        /\ UNCHANGED <<driver, late, attempt, tickets, retries>>
  <1>1. /\ task[t] # None /\ task' = [task EXCEPT ![t].status = st] /\ settled' = settled \cup {t}
        /\ UNCHANGED <<driver, late, attempt, tickets, retries>>
    BY DEF Work!Settle
  <1>2. TaskTypes  BY DEF TaskInv
  <1>3. /\ task' \in [Twins -> TaskRows \cup {None}] /\ task'[t] # None
        /\ \A u \in Twins : u # t => task'[u] = task[u]
        /\ task'[t].iterationCount = task[t].iterationCount
        /\ task'[t].maxIterations = task[t].maxIterations
    BY <1>1, <1>2, StatusIs
  <1>4. TaskTypes'  BY <1>1, <1>2, <1>3 DEF TaskTypes
  <1>5. \A c \in Pairs : AttemptOK(c)'  BY <1>1, <1>3 DEF TaskInv, AttemptOK
  <1>6. \A u \in Twins : task'[u] = None => tickets'[u] = 0 /\ retries'[u] = 0
    BY <1>1, <1>3 DEF TaskInv
  <1>7. ASSUME driver = "memory", NEW u \in Twins PROVE CountedOK(u)' /\ BreakerOK(u)'
    <2>1. CountedOK(u) /\ BreakerOK(u)  BY <1>7 DEF TaskInv
    <2>2. CASE u = t  BY <1>1, <1>3, <2>1, <2>2 DEF CountedOK, BreakerOK
    <2>3. CASE u # t
      BY <1>1, <1>3, <2>1, <2>3 DEF CountedOK, BreakerOK, Ticketing, Work!OutOfBounds
    <2> QED BY <2>2, <2>3
  <1>8. driver' = "memory" => \A c \in Pairs : attempt'[c].pc # "write"  BY <1>1 DEF TaskInv
  <1>9. TaskInv'  BY <1>1, <1>4, <1>5, <1>6, <1>7, <1>8 DEF TaskInv
  <1> QED BY <1>1, <1>2, <1>3, <1>9 DEF TaskTypes

\* A deadline passes.
LEMMA DeadlineStep == ASSUME TaskInv, NEW t \in Twins, Work!DeadlinePasses(t) PROVE TaskInv'
  <1>1. late' = late \cup {t} /\ UNCHANGED <<driver, task, attempt, tickets, retries, settled>>
    BY DEF Work!DeadlinePasses
  <1>2. TaskTypes'  BY <1>1 DEF TaskInv, TaskTypes
  <1>3. ASSUME NEW u \in Twins, driver = "memory" PROVE CountedOK(u)' /\ BreakerOK(u)'
    <2>1. CountedOK(u) /\ BreakerOK(u)  BY <1>3 DEF TaskInv
    <2>2. Work!OutOfBounds(u, task[u]) => Work!OutOfBounds(u, task[u])'
      BY <1>1 DEF Work!OutOfBounds
    <2>3. \A c \in Pairs : Ticketing(c, u)' <=> Ticketing(c, u)  BY <1>1 DEF Ticketing
    <2> QED BY <1>1, <2>1, <2>2, <2>3 DEF CountedOK, BreakerOK
  <1>4. \A c \in Pairs : AttemptOK(c)'  BY <1>1 DEF TaskInv, AttemptOK
  <1> QED BY <1>1, <1>2, <1>3, <1>4 DEF TaskInv

\* A state that does not change keeps the invariant.
LEMMA TaskInvStutters == TaskInv /\ UNCHANGED Work!taskVars => TaskInv'
  BY DEF Work!taskVars, TaskInv, TaskTypes, AttemptOK, CountedOK, BreakerOK, Ticketing, Work!OutOfBounds

\* Only what RecordAttempt answered is written.
OutcomesKnown == \A c \in Pairs : attempt[c].pc # "idle" => attempt[c].outcome \in Outcomes

\* Every step of the tasks keeps the invariant.
LEMMA TaskStepKeeps ==
  ASSUME TaskInv, OutcomesKnown, Work!TaskStep
  PROVE TaskInv' /\ OutcomesKnown'
  <1>0. TaskTypes  BY DEF TaskInv
  <1>1. ASSUME attempt' = attempt PROVE OutcomesKnown'  BY <1>1 DEF OutcomesKnown
  <1>2. ASSUME NEW c \in Pairs, attempt' = [attempt EXCEPT ![c] = attempt'[c]],
               attempt'[c].outcome \in Outcomes
        PROVE OutcomesKnown'
    <2>1. \A d \in Pairs : d # c => attempt'[d] = attempt[d]  BY <1>0, <1>2 DEF TaskTypes
    <2> QED BY <1>2, <2>1 DEF OutcomesKnown
  <1>3. ASSUME NEW t \in Twins, NEW max \in MaxIterations, NEW b \in TokenBudgets,
               NEW min \in TaskConfidences, Work!CreateTask(t, max, b, min)
        PROVE TaskInv' /\ OutcomesKnown'
    <2>1. max \in Nat /\ b \in Nat /\ min \in Nat  BY TaskBounds
    <2>2. TaskInv' /\ attempt' = attempt  BY <1>3, <2>1, CreateTaskStep
    <2> QED BY <1>1, <2>2
  <1>4. ASSUME NEW t \in Twins, Work!CompleteTask(t) \/ Work!FailTask(t)
        PROVE TaskInv' /\ OutcomesKnown'
    <2>1. PICK st \in Work!TaskStatus : Work!Settle(t, st)
      BY <1>4 DEF Work!CompleteTask, Work!FailTask, Work!TaskStatus
    <2>2. TaskInv' /\ attempt' = attempt  BY <2>1, SettleStep
    <2> QED BY <1>1, <2>2
  <1>5. ASSUME NEW t \in Twins, Work!DeadlinePasses(t) PROVE TaskInv' /\ OutcomesKnown'
    <2>1. attempt' = attempt  BY <1>5 DEF Work!DeadlinePasses
    <2> QED BY <1>1, <1>5, <2>1, DeadlineStep
  <1>6. ASSUME NEW c \in Pairs, NEW t \in Twins, NEW conf \in TaskConfidences, NEW used \in TokenUses,
               task[t] # None, Work!RecordAttempt(c, t, conf, used)
        PROVE TaskInv' /\ OutcomesKnown'
    <2>1. conf \in Nat /\ used \in Nat  BY TaskBounds
    <2>2. TaskInv' /\ attempt' = [attempt EXCEPT ![c] = attempt'[c]] /\ attempt'[c].outcome \in Outcomes
      BY <1>6, <2>1, RecordAttemptStep
    <2> QED BY <1>2, <2>2
  <1>7. ASSUME NEW c \in Pairs, Work!WriteAttempt(c) PROVE TaskInv' /\ OutcomesKnown'
    <2>1. attempt[c].outcome \in Outcomes  BY <1>7 DEF Work!WriteAttempt, OutcomesKnown
    <2>2. TaskInv' /\ attempt' = [attempt EXCEPT ![c] = attempt'[c]] /\ attempt'[c].outcome \in Outcomes
      BY <1>7, <2>1, WriteAttemptStep
    <2> QED BY <1>2, <2>2
  <1>8. ASSUME NEW c \in Pairs, Work!CreateTicket(c) PROVE TaskInv' /\ OutcomesKnown'
    <2>1. attempt[c].outcome \in Outcomes  BY <1>8 DEF Work!CreateTicket, OutcomesKnown
    <2>2. TaskInv' /\ attempt' = [attempt EXCEPT ![c] = attempt'[c]] /\ attempt'[c].outcome \in Outcomes
      BY <1>8, <2>1, CreateTicketStep
    <2> QED BY <1>2, <2>2
  <1> QED BY <1>3, <1>4, <1>5, <1>6, <1>7, <1>8 DEF Work!TaskStep

\* The invariant implies that tasks are not evaluated without bound ...
LEMMA TaskInvImplies == TaskInv => Work!BoundedReevaluation
  BY DEF TaskInv, CountedOK, BreakerOK, Work!BoundedReevaluation

\* ... and their types.
LEMMA TaskTypesImply == TaskInv => Work!TaskTypeOK
  <1>1. TaskInv => \A t \in Twins : task[t] # None => task[t].status \in Work!TaskStatus
    BY DEF TaskInv, TaskTypes, TaskRows
  <1> QED BY <1>1 DEF TaskInv, TaskTypes, Attempts, Outcomes, Work!TaskTypeOK

\* Nothing is attempted at the start.
LEMMA OutcomesKnownInit == Work!TaskInit => OutcomesKnown
  BY NoTask DEF Work!TaskInit, OutcomesKnown

\* Without the bounds of the scene too: a task is not retried after its bound
\* (workflow-task.service.ts:106-176).
THEOREM TasksAreBounded == Work!TaskSpec => []Work!BoundedReevaluation
  <1>1. TaskInv /\ OutcomesKnown /\ [Work!TaskStep]_(Work!taskVars) => TaskInv' /\ OutcomesKnown'
    <2>1. OutcomesKnown /\ UNCHANGED Work!taskVars => OutcomesKnown'
      BY DEF Work!taskVars, OutcomesKnown
    <2> QED BY <2>1, TaskStepKeeps, TaskInvStutters
  <1>2. Work!TaskSpec => [](TaskInv /\ OutcomesKnown)
    BY <1>1, TaskInvInit, OutcomesKnownInit, PTL DEF Work!TaskSpec
  <1> QED BY <1>2, TaskInvImplies, PTL

GoalPcs == {"idle", "reserve", "task", "attempt", "attempted", "call", "complete", "trust", "done"}

GoalRows == [pc : GoalPcs, tier : Work!Tiers \cup {None}, task : Twins \cup {None}, confidence : Nat,
             min : Nat, max : Nat, outcome : {None, "EXECUTE", "BUDGET_DENIED", "CIRCUIT_BROKEN"}]

GoalTypes == /\ goal \in [Pairs -> GoalRows]
             /\ recorded \in [Pairs -> Nat] /\ trusted \in [Pairs -> Nat]

\* The breaker of the goal's task has tripped, and the ticket is there.
Tripped(g) ==
  \/ goal[g].pc = "attempted" /\ attempt[g].pc = "idle" /\ attempt[g].trips
  \/ goal[g].pc = "done" /\ goal[g].outcome = "CIRCUIT_BROKEN"

Paid(g) ==
  /\ goal[g].pc \in {"idle", "reserve"} => recorded[g] = 0
  /\ goal[g].pc \notin {"idle", "reserve"} /\ goal[g].tier # "DETERMINISTIC" =>
       recorded[g] = IF goal[g].outcome = "BUDGET_DENIED" THEN 0 ELSE 1

AttemptedOK(g) ==
  /\ goal[g].pc # "attempted" => attempt[g].pc = "idle"
  /\ goal[g].pc = "attempted" =>
       /\ attempt[g].task = goal[g].task /\ attempt[g].outcome \in Outcomes
       /\ attempt[g].trips <=> attempt[g].outcome = "CIRCUIT_BROKEN"
       /\ attempt[g].pc = "ticket" => attempt[g].trips

GoalOK(g) ==
  /\ goal[g].pc \in {"idle", "reserve", "task"} => goal[g].task = None
  /\ goal[g].pc \in {"attempt", "attempted", "call", "complete"} => goal[g].task # None
  /\ goal[g].task # None => /\ task[goal[g].task] # None
                            /\ tickets[goal[g].task] = IF Tripped(g) THEN 1 ELSE 0
  /\ goal[g].pc = "attempt" => task[goal[g].task].status = "PENDING"
  /\ AttemptedOK(g) /\ Paid(g)
  /\ goal[g].pc # "done" => goal[g].outcome = None
  /\ goal[g].pc # "done" \/ goal[g].outcome = "CIRCUIT_BROKEN" => trusted[g] = 0

OwnTasks == \A g, h \in Pairs : goal[g].task # None /\ goal[g].task = goal[h].task => g = h

GoalInv ==
  /\ TaskInv /\ GoalTypes /\ OwnTasks
  /\ \A g \in Pairs : GoalOK(g)

\* No goal has been executed at the start.
LEMMA GoalInvInit == Work!TaskInit /\ Work!GoalInit => GoalInv
  <1> SUFFICES ASSUME Work!TaskInit, Work!GoalInit PROVE GoalInv  OBVIOUS
  <1>1. Work!NewGoal \in GoalRows /\ Work!NewGoal.pc = "idle" /\ Work!NewGoal.task = None /\ Work!NewGoal.outcome = None
    BY DEF Work!NewGoal, GoalRows, GoalPcs
  <1>2. GoalTypes  BY <1>1 DEF Work!GoalInit, GoalTypes
  <1>3. \A c \in Pairs : attempt[c].pc = "idle"  BY NoTask DEF Work!TaskInit
  <1>4. \A g \in Pairs : goal[g] = Work!NewGoal /\ recorded[g] = 0 /\ trusted[g] = 0
    BY DEF Work!GoalInit
  <1>5. OwnTasks  BY <1>1, <1>4 DEF OwnTasks
  <1>6. \A g \in Pairs : attempt[g].pc = "idle"  BY <1>3, TaskBounds
  <1>7. ASSUME NEW g \in Pairs PROVE GoalOK(g)
    BY <1>1, <1>4, <1>6 DEF GoalOK, AttemptedOK, Paid
  <1> QED BY <1>2, <1>3, <1>5, <1>7, TaskInvInit DEF GoalInv

\* What one goal does with its task is nothing to another.
GoalAlone(g, new) ==
  /\ new \in GoalRows /\ goal' = [goal EXCEPT ![g] = new]
  /\ recorded' \in [Pairs -> Nat] /\ trusted' \in [Pairs -> Nat]
  /\ \A h \in Pairs : h # g => recorded'[h] = recorded[h] /\ trusted'[h] = trusted[h]
  /\ \A c \in Pairs : c # g => attempt'[c] = attempt[c]
  /\ \A t \in Twins : t # new.task => task'[t] = task[t] /\ tickets'[t] = tickets[t]
  /\ new.task = goal[g].task \/ (new.task \in Twins /\ task[new.task] = None)

\* A goal that moves on, with its task, keeps the invariant of the others.
LEMMA GoalMoves ==
  ASSUME GoalInv, NEW g \in Pairs, TaskInv', NEW new, GoalAlone(g, new), GoalOK(g)'
  PROVE GoalInv'
  <1>0. /\ new \in GoalRows /\ goal' = [goal EXCEPT ![g] = new]
        /\ recorded' \in [Pairs -> Nat] /\ trusted' \in [Pairs -> Nat]
        /\ \A h \in Pairs : h # g => recorded'[h] = recorded[h] /\ trusted'[h] = trusted[h]
        /\ \A c \in Pairs : c # g => attempt'[c] = attempt[c]
        /\ \A t \in Twins : t # new.task => task'[t] = task[t] /\ tickets'[t] = tickets[t]
        /\ new.task = goal[g].task \/ (new.task \in Twins /\ task[new.task] = None)
    BY DEF GoalAlone
  <1>1. goal'[g] = new /\ \A h \in Pairs : h # g => goal'[h] = goal[h]
    BY <1>0 DEF GoalInv, GoalTypes
  <1>2. GoalTypes'  BY <1>0 DEF GoalInv, GoalTypes
  <1>3. ASSUME NEW h \in Pairs, h # g, goal[h].task # None PROVE goal[h].task # new.task
    BY <1>0, <1>3 DEF GoalInv, OwnTasks, GoalOK
  <1>4. OwnTasks'  BY <1>1, <1>3 DEF GoalInv, OwnTasks
  <1>6. ASSUME NEW h \in Pairs, h # g PROVE GoalOK(h)'
    <2>1. GoalOK(h) /\ goal'[h] = goal[h] /\ attempt'[h] = attempt[h]
      BY <1>0, <1>1, <1>6, TaskBounds DEF GoalInv
    <2>2. recorded'[h] = recorded[h] /\ trusted'[h] = trusted[h]  BY <1>0, <1>6
    <2>3. goal[h].task # None =>
            task'[goal[h].task] = task[goal[h].task] /\ tickets'[goal[h].task] = tickets[goal[h].task]
      BY <1>0, <1>3, <1>6 DEF GoalInv, GoalTypes, GoalRows
    <2> QED BY <2>1, <2>2, <2>3 DEF GoalOK, AttemptedOK, Paid, Tripped
  <1> QED BY <1>2, <1>4, <1>6 DEF GoalInv

\* A goal is executed: its route is chosen.
LEMMA GoalExecute ==
  ASSUME GoalInv, NEW g \in Pairs, NEW complexity, NEW risk, NEW affordable \in BOOLEAN,
         NEW confidence \in Nat, NEW min \in Nat, NEW max \in Nat,
         Work!ExecuteGoal(g, complexity, risk, affordable, confidence, min, max)
  PROVE GoalInv'
  <1>a. PICK tier : tier = Work!Route(complexity, risk, affordable)  OBVIOUS
  <1>b. PICK pc : pc = IF tier = "DETERMINISTIC" THEN "trust" ELSE "reserve"  OBVIOUS
  <1>c. PICK new : new = [Work!NewGoal EXCEPT !.pc = pc, !.tier = tier, !.confidence = confidence, !.min = min,
                                         !.max = max]
    OBVIOUS
  <1>1. /\ goal[g].pc = "idle" /\ goal' = [goal EXCEPT ![g] = new]
        /\ UNCHANGED Work!taskVars /\ UNCHANGED <<recorded, trusted>>
    BY <1>a, <1>b, <1>c DEF Work!ExecuteGoal, Work!At
  <1>2. tier \in Work!Tiers  BY <1>a DEF Work!Route, Work!Tiers
  <1>3. /\ new \in GoalRows /\ new.pc = pc /\ new.tier = tier /\ new.task = None /\ new.outcome = None
    <2>1. new = [pc |-> pc, tier |-> tier, task |-> None, confidence |-> confidence, min |-> min,
                 max |-> max, outcome |-> None]
      BY <1>c DEF Work!NewGoal
    <2>2. pc \in GoalPcs  BY <1>b DEF GoalPcs
    <2> QED BY <1>2, <2>1, <2>2 DEF GoalRows
  <1>4. TaskInv' /\ attempt' = attempt /\ task' = task /\ tickets' = tickets
    BY <1>1, TaskInvStutters DEF GoalInv, Work!taskVars
  <1>5. GoalTypes /\ GoalOK(g)  BY DEF GoalInv
  <1>6. goal'[g] = new  BY <1>1, <1>5 DEF GoalTypes
  <1>7. goal[g].task = None  BY <1>1, <1>5 DEF GoalOK
  <1>8. GoalOK(g)'
    BY <1>1, <1>3, <1>4, <1>5, <1>6, <1>b, TaskBounds DEF GoalOK, AttemptedOK, Paid
  <1>l. recorded' \in [Pairs -> Nat] /\ trusted' \in [Pairs -> Nat]
    BY <1>1, <1>3, <1>4, <1>5, <1>7 DEF GoalTypes
  <1>m. GoalAlone(g, new)  BY <1>1, <1>3, <1>4, <1>5, <1>7, <1>l DEF GoalAlone
  <1> QED BY <1>4, <1>8, <1>m, GoalMoves

\* Its budget is reserved, or denied.
LEMMA GoalReserve ==
  ASSUME GoalInv, NEW g \in Pairs, NEW allowed \in BOOLEAN, Work!ReserveAndRecordUsage(g, allowed)
  PROVE GoalInv'
  <1>a. PICK pc : pc = IF allowed THEN "task" ELSE "done"  OBVIOUS
  <1>b. PICK outcome : outcome = IF allowed THEN None ELSE "BUDGET_DENIED"  OBVIOUS
  <1>c. PICK half : half = [goal[g] EXCEPT !.pc = pc]  OBVIOUS
  <1>d. PICK new : new = [half EXCEPT !.outcome = outcome]  OBVIOUS
  <1>1. /\ goal[g].pc = "reserve" /\ goal' = [goal EXCEPT ![g] = new]
        /\ recorded' = [recorded EXCEPT ![g] = IF allowed THEN @ + 1 ELSE @]
        /\ UNCHANGED Work!taskVars /\ UNCHANGED trusted
    BY <1>a, <1>b, <1>c, <1>d DEF Work!ReserveAndRecordUsage, Work!At
  <1>2. GoalTypes /\ GoalOK(g) /\ goal[g] \in GoalRows  BY DEF GoalInv, GoalTypes
  <1>3. half \in GoalRows /\ half.pc = pc /\ half.tier = goal[g].tier /\ half.task = goal[g].task
    BY <1>2, <1>a, <1>c DEF GoalRows, GoalPcs
  <1>4. new \in GoalRows /\ new.pc = pc /\ new.tier = goal[g].tier /\ new.task = goal[g].task
        /\ new.outcome = outcome
    BY <1>3, <1>b, <1>d DEF GoalRows
  <1>5. goal'[g] = new  BY <1>1, <1>2 DEF GoalTypes
  <1>6. TaskInv' /\ attempt' = attempt /\ task' = task /\ tickets' = tickets
    BY <1>1, TaskInvStutters DEF GoalInv, Work!taskVars
  <1>7. /\ recorded' \in [Pairs -> Nat] /\ recorded'[g] = IF allowed THEN recorded[g] + 1 ELSE recorded[g]
        /\ \A h \in Pairs : h # g => recorded'[h] = recorded[h]
    BY <1>1, <1>2 DEF GoalTypes
  <1>8. goal[g].task = None /\ recorded[g] = 0 /\ trusted[g] = 0 /\ attempt[g].pc = "idle"
    BY <1>1, <1>2 DEF GoalOK, Paid, AttemptedOK
  <1>9. outcome = "BUDGET_DENIED" <=> ~allowed  BY <1>b, TaskBounds
  <1>10. GoalOK(g)'
    BY <1>1, <1>4, <1>5, <1>6, <1>7, <1>8, <1>9, <1>a, <1>b DEF GoalOK, AttemptedOK, Paid
  <1>l. recorded' \in [Pairs -> Nat] /\ trusted' \in [Pairs -> Nat]
    BY <1>1, <1>2, <1>4, <1>6, <1>7, <1>10 DEF GoalTypes
  <1>m. GoalAlone(g, new)  BY <1>1, <1>2, <1>4, <1>6, <1>7, <1>10, <1>l DEF GoalAlone
  <1> QED BY <1>1, <1>2, <1>4, <1>6, <1>7, <1>10, <1>m, GoalMoves

\* Its task is created.
LEMMA GoalCreate ==
  ASSUME GoalInv, NEW g \in Pairs, NEW t \in Twins, Work!CreateGoalTask(g, t) PROVE GoalInv'
  <1>c. PICK half : half = [goal[g] EXCEPT !.pc = "attempt"]  OBVIOUS
  <1>d. PICK new : new = [half EXCEPT !.task = t]  OBVIOUS
  <1>1. /\ goal[g].pc = "task" /\ Work!CreateTask(t, goal[g].max, goal[g].max + 1, goal[g].min)
        /\ goal' = [goal EXCEPT ![g] = new] /\ UNCHANGED <<recorded, trusted>>
    BY <1>c, <1>d DEF Work!CreateGoalTask, Work!At
  <1>2. GoalTypes /\ GoalOK(g) /\ goal[g] \in GoalRows /\ TaskInv  BY DEF GoalInv, GoalTypes
  <1>a. PICK max : max = goal[g].max  OBVIOUS
  <1>b. PICK min : min = goal[g].min  OBVIOUS
  <1>3. max \in Nat /\ min \in Nat /\ max + 1 \in Nat /\ Work!CreateTask(t, max, max + 1, min)
    BY <1>1, <1>2, <1>a, <1>b DEF GoalRows
  <1>4. /\ TaskInv' /\ task[t] = None /\ task'[t] # None /\ task'[t].status = "PENDING"
        /\ task' = [task EXCEPT ![t] = task'[t]]
        /\ UNCHANGED <<driver, late, attempt, tickets, retries, settled>>
    BY <1>2, <1>3, CreateTaskStep
  <1>5. half \in GoalRows /\ half.pc = "attempt" /\ half.tier = goal[g].tier
        /\ half.outcome = goal[g].outcome
    BY <1>2, <1>c DEF GoalRows, GoalPcs
  <1>6. new \in GoalRows /\ new.pc = "attempt" /\ new.tier = goal[g].tier /\ new.task = t
        /\ new.outcome = goal[g].outcome
    BY <1>5, <1>d DEF GoalRows
  <1>7. goal'[g] = new  BY <1>1, <1>2 DEF GoalTypes
  <1>8. tickets'[t] = 0  BY <1>2, <1>4 DEF TaskInv
  <1>9. \A u \in Twins : u # t => task'[u] = task[u]  BY <1>2, <1>4 DEF TaskInv, TaskTypes
  <1>e. attempt' = attempt /\ recorded' = recorded /\ trusted' = trusted  BY <1>1, <1>4
  <1>10. GoalOK(g)'
    <2>1. AttemptedOK(g)'  BY <1>1, <1>2, <1>6, <1>7, <1>e DEF GoalOK, AttemptedOK
    <2>2. Paid(g)'  BY <1>1, <1>2, <1>6, <1>7, <1>e DEF GoalOK, Paid
    <2>3. ~Tripped(g)'  BY <1>6, <1>7 DEF Tripped
    <2>4. goal[g].outcome = None /\ trusted[g] = 0  BY <1>1, <1>2 DEF GoalOK
    <2>5. t # None  BY TaskBounds
    <2> QED BY <1>4, <1>6, <1>7, <1>8, <1>e, <2>1, <2>2, <2>3, <2>4, <2>5 DEF GoalOK
  <1>l. recorded' \in [Pairs -> Nat] /\ trusted' \in [Pairs -> Nat]
    BY <1>1, <1>2, <1>4, <1>6, <1>9, <1>10 DEF GoalTypes
  <1>m. GoalAlone(g, new)  BY <1>1, <1>2, <1>4, <1>6, <1>9, <1>10, <1>l DEF GoalAlone
  <1> QED BY <1>1, <1>2, <1>4, <1>6, <1>9, <1>10, <1>m, GoalMoves

\* A goal that goes on is as it was, but for where it is.
LEMMA GoalGoesIs ==
  ASSUME GoalTypes, NEW g \in Pairs, NEW pc \in GoalPcs, Work!Goes(g, pc)
  PROVE /\ goal'[g] \in GoalRows /\ goal' = [goal EXCEPT ![g] = goal'[g]]
        /\ goal'[g].pc = pc /\ goal'[g].task = goal[g].task /\ goal'[g].tier = goal[g].tier
        /\ goal'[g].outcome = goal[g].outcome
  <1> DEFINE new == [goal[g] EXCEPT !.pc = pc]
  <1>1. goal[g] \in GoalRows  BY DEF GoalTypes
  <1>2. new \in GoalRows /\ new.pc = pc /\ new.task = goal[g].task /\ new.tier = goal[g].tier
        /\ new.outcome = goal[g].outcome
    BY <1>1 DEF GoalRows
  <1>3. goal' = [goal EXCEPT ![g] = new]  BY DEF Work!Goes
  <1> HIDE DEF new
  <1> QED BY <1>2, <1>3 DEF GoalTypes

\* Its attempt is recorded.
LEMMA GoalAttempt == ASSUME GoalInv, NEW g \in Pairs, Work!AttemptGoal(g) PROVE GoalInv'
  <1> SUFFICES ASSUME NEW t, t = goal[g].task PROVE GoalInv'  OBVIOUS
  <1>1. GoalTypes /\ GoalOK(g) /\ goal[g] \in GoalRows /\ TaskInv /\ TaskTypes /\ g \in Pairs
    BY TaskBounds DEF GoalInv, GoalTypes, TaskInv
  <1>2. recorded' = recorded /\ trusted' = trusted  BY DEF Work!AttemptGoal
  <1>3. CASE /\ goal[g].pc = "attempt" /\ Work!RecordAttempt(g, t, goal[g].confidence, 1)
             /\ Work!Goes(g, "attempted")
    <2>1. t # None /\ t \in Twins /\ task[t] # None /\ task[t].status = "PENDING" /\ tickets[t] = 0
      BY <1>1, <1>3 DEF GoalOK, GoalRows, Tripped
    <2>2. goal[g].confidence \in Nat  BY <1>1 DEF GoalRows
    <2>3. /\ TaskInv' /\ attempt'[g].task = t /\ attempt'[g].outcome \in Outcomes
          /\ attempt'[g].trips <=> attempt'[g].outcome = "CIRCUIT_BROKEN" /\ task[t].status # "ESCALATED"
          /\ attempt'[g].pc = IF driver = "prisma" THEN "write"
                              ELSE IF attempt'[g].trips THEN "ticket" ELSE "idle"
          /\ attempt' = [attempt EXCEPT ![g] = attempt'[g]]
          /\ task' = [task EXCEPT ![t] = task'[t]] /\ task'[t] # None
          /\ tickets' = tickets
      BY <1>1, <1>3, <2>1, <2>2, RecordAttemptStep
    <2>4. /\ goal'[g] \in GoalRows /\ goal' = [goal EXCEPT ![g] = goal'[g]]
          /\ goal'[g].pc = "attempted" /\ goal'[g].task = t /\ goal'[g].tier = goal[g].tier
          /\ goal'[g].outcome = goal[g].outcome
      BY <1>1, <1>3, GoalGoesIs DEF GoalPcs
    <2>5. \A u \in Twins : u # t => task'[u] = task[u]  BY <1>1, <2>3 DEF TaskTypes
    <2>6. \A c \in Pairs : c # g => attempt'[c] = attempt[c]  BY <1>1, <2>3 DEF TaskTypes
    <2>7. GoalOK(g)'
      BY <1>1, <1>2, <1>3, <2>1, <2>3, <2>4 DEF GoalOK, AttemptedOK, Paid, Tripped
    <2>l. recorded' \in [Pairs -> Nat] /\ trusted' \in [Pairs -> Nat]
      BY <1>1, <1>2, <2>3, <2>4, <2>5, <2>6, <2>7 DEF GoalTypes
    <2>m. GoalAlone(g, goal'[g])  BY <1>1, <1>2, <2>3, <2>4, <2>5, <2>6, <2>7, <2>l DEF GoalAlone
    <2> QED BY <1>1, <1>2, <2>3, <2>4, <2>5, <2>6, <2>7, <2>m, GoalMoves
  <1>4. CASE goal[g].pc = "attempted" /\ (Work!WriteAttempt(g) \/ Work!CreateTicket(g)) /\ UNCHANGED goal
    <2>1. /\ t # None /\ t \in Twins /\ attempt[g].task = t /\ attempt[g].outcome \in Outcomes
          /\ attempt[g].trips <=> attempt[g].outcome = "CIRCUIT_BROKEN"
          /\ attempt[g].pc = "ticket" => attempt[g].trips
          /\ attempt[g].trips \in BOOLEAN
      BY <1>1, <1>4 DEF GoalOK, AttemptedOK, GoalRows, TaskTypes, Attempts
    <2>2. goal' = [goal EXCEPT ![g] = goal[g]] /\ goal'[g] = goal[g]  BY <1>1, <1>4 DEF GoalTypes
    <2>3. ASSUME TaskInv', attempt[g].pc # "idle", attempt' = [attempt EXCEPT ![g] = attempt'[g]],
                 attempt'[g].task = t, attempt'[g].outcome = attempt[g].outcome,
                 attempt'[g].trips = attempt[g].trips, task' = [task EXCEPT ![t] = task'[t]],
                 \A u \in Twins : u # t => tickets'[u] = tickets[u],
                 attempt'[g].pc = "ticket" => attempt[g].trips,
                 tickets'[t] = IF attempt'[g].pc = "idle" /\ attempt[g].trips THEN 1 ELSE 0
          PROVE GoalInv'
      <3>1. \A u \in Twins : u # t => task'[u] = task[u]  BY <1>1, <2>3 DEF TaskTypes
      <3>2. \A c \in Pairs : c # g => attempt'[c] = attempt[c]  BY <1>1, <2>3 DEF TaskTypes
      <3>3. task'[t] # None
        <4>1. tickets'[t] = 0 \/ attempt'[g].pc = "idle"  BY <2>3
        <4>2. task[t] # None  BY <1>1, <2>1 DEF GoalOK
        <4> QED
          BY <1>4, <1>1, <2>1, <4>2, WriteAttemptStep, StatusIs
             DEF Work!WriteAttempt, Work!CreateTicket, Work!Status, Outcomes, Work!TaskStatus
      <3>4. GoalOK(g)'
        BY <1>1, <1>2, <1>4, <2>1, <2>2, <2>3, <3>3 DEF GoalOK, AttemptedOK, Paid, Tripped
      <3>l. recorded' \in [Pairs -> Nat] /\ trusted' \in [Pairs -> Nat]
        BY <1>1, <1>2, <2>2, <2>3, <3>1, <3>2, <3>4 DEF GoalTypes
      <3>m. GoalAlone(g, goal[g])  BY <1>1, <1>2, <2>2, <2>3, <3>1, <3>2, <3>4, <3>l DEF GoalAlone
      <3> QED BY <1>1, <1>2, <2>2, <2>3, <3>1, <3>2, <3>4, <3>m, GoalMoves
    <2>4. CASE Work!WriteAttempt(g)
      <3>1. /\ TaskInv' /\ attempt[g].pc = "write" /\ attempt' = [attempt EXCEPT ![g] = attempt'[g]]
            /\ attempt'[g].task = t /\ attempt'[g].outcome = attempt[g].outcome
            /\ attempt'[g].trips = attempt[g].trips
            /\ attempt'[g].pc = IF attempt[g].trips THEN "ticket" ELSE "idle"
            /\ task' = [task EXCEPT ![t] = task'[t]] /\ tickets' = tickets
        BY <1>1, <2>1, <2>4, WriteAttemptStep
      <3>2. tickets[t] = 0  BY <1>1, <1>4, <2>1, <3>1 DEF GoalOK, Tripped
      <3> QED BY <2>3, <3>1, <3>2
    <2>5. CASE Work!CreateTicket(g)
      <3>1. /\ TaskInv' /\ attempt[g].pc = "ticket" /\ attempt' = [attempt EXCEPT ![g] = attempt'[g]]
            /\ attempt'[g].task = t /\ attempt'[g].outcome = attempt[g].outcome
            /\ attempt'[g].trips = attempt[g].trips /\ attempt'[g].pc = "idle"
            /\ task' = [task EXCEPT ![t] = task'[t]] /\ tickets' = [tickets EXCEPT ![t] = @ + 1]
        BY <1>1, <2>1, <2>5, CreateTicketStep
      <3>2. tickets[t] = 0  BY <1>1, <1>4, <2>1, <3>1 DEF GoalOK, Tripped
      <3>3. tickets'[t] = 1 /\ \A u \in Twins : u # t => tickets'[u] = tickets[u]
        BY <1>1, <2>1, <3>1, <3>2 DEF TaskTypes
      <3> QED BY <2>1, <2>3, <3>1, <3>3
    <2> QED BY <1>4, <2>4, <2>5
  <1> QED BY <1>3, <1>4 DEF Work!AttemptGoal, Work!At

\* The attempt is answered.
LEMMA GoalAttempted == ASSUME GoalInv, NEW g \in Pairs, Work!Attempted(g) PROVE GoalInv'
  <1>1. GoalTypes /\ GoalOK(g) /\ goal[g] \in GoalRows  BY DEF GoalInv, GoalTypes
  <1>2. /\ goal[g].pc = "attempted" /\ attempt[g].pc = "idle"
        /\ UNCHANGED Work!taskVars /\ UNCHANGED <<recorded, trusted>>
    BY DEF Work!Attempted, Work!At
  <1>3. TaskInv' /\ attempt' = attempt /\ task' = task /\ tickets' = tickets
    BY <1>2, TaskInvStutters DEF GoalInv, Work!taskVars
  <1>4. CASE attempt[g].outcome = "CIRCUIT_BROKEN"
    <2>c. PICK half : half = [goal[g] EXCEPT !.pc = "done"]  OBVIOUS
    <2>d. PICK new : new = [half EXCEPT !.outcome = "CIRCUIT_BROKEN"]  OBVIOUS
    <2>1. goal' = [goal EXCEPT ![g] = new]  BY <1>4, <2>c, <2>d DEF Work!Attempted, Work!Stops
    <2>2. half \in GoalRows /\ half.pc = "done" /\ half.tier = goal[g].tier /\ half.task = goal[g].task
      BY <1>1, <2>c DEF GoalRows, GoalPcs
    <2>3. new \in GoalRows /\ new.pc = "done" /\ new.tier = goal[g].tier /\ new.task = goal[g].task
          /\ new.outcome = "CIRCUIT_BROKEN"
      BY <2>2, <2>d DEF GoalRows
    <2>4. goal'[g] = new  BY <1>1, <2>1 DEF GoalTypes
    <2>5. goal[g].outcome # "BUDGET_DENIED"  BY <1>1, <1>2, TaskBounds DEF GoalOK
    <2>6. GoalOK(g)'
      BY <1>1, <1>2, <1>3, <1>4, <2>3, <2>4, <2>5 DEF GoalOK, AttemptedOK, Paid, Tripped
    <2>l. recorded' \in [Pairs -> Nat] /\ trusted' \in [Pairs -> Nat]
      BY <1>1, <1>2, <1>3, <2>1, <2>3, <2>6 DEF GoalTypes
    <2>m. GoalAlone(g, new)  BY <1>1, <1>2, <1>3, <2>1, <2>3, <2>6, <2>l DEF GoalAlone
    <2> QED BY <1>1, <1>2, <1>3, <2>1, <2>3, <2>6, <2>m, GoalMoves
  <1>5. CASE attempt[g].outcome # "CIRCUIT_BROKEN"
    <2>1. Work!Goes(g, "call")  BY <1>5 DEF Work!Attempted, Work!Stops, Work!Goes
    <2>2. /\ goal'[g] \in GoalRows /\ goal' = [goal EXCEPT ![g] = goal'[g]]
          /\ goal'[g].pc = "call" /\ goal'[g].task = goal[g].task /\ goal'[g].tier = goal[g].tier
          /\ goal'[g].outcome = goal[g].outcome
      BY <1>1, <2>1, GoalGoesIs DEF GoalPcs
    <2>3. GoalOK(g)'
      BY <1>1, <1>2, <1>3, <1>5, <2>2 DEF GoalOK, AttemptedOK, Paid, Tripped
    <2>l. recorded' \in [Pairs -> Nat] /\ trusted' \in [Pairs -> Nat]
      BY <1>1, <1>2, <1>3, <2>2, <2>3 DEF GoalTypes
    <2>m. GoalAlone(g, goal'[g])  BY <1>1, <1>2, <1>3, <2>2, <2>3, <2>l DEF GoalAlone
    <2> QED BY <1>1, <1>2, <1>3, <2>2, <2>3, <2>m, GoalMoves
  <1> QED BY <1>4, <1>5

\* The model is called, and the task completed.
LEMMA GoalCalls == ASSUME GoalInv, NEW g \in Pairs, Work!CallAndComplete(g) PROVE GoalInv'
  <1> SUFFICES ASSUME NEW t, t = goal[g].task PROVE GoalInv'  OBVIOUS
  <1>1. GoalTypes /\ GoalOK(g) /\ goal[g] \in GoalRows /\ TaskInv /\ TaskTypes
    BY DEF GoalInv, GoalTypes, TaskInv
  <1>2. recorded' = recorded /\ trusted' = trusted  BY DEF Work!CallAndComplete
  <1>3. CASE goal[g].pc = "call" /\ Work!Goes(g, "complete") /\ UNCHANGED Work!taskVars
    <2>1. TaskInv' /\ attempt' = attempt /\ task' = task /\ tickets' = tickets
      BY <1>1, <1>3, TaskInvStutters DEF Work!taskVars
    <2>2. /\ goal'[g] \in GoalRows /\ goal' = [goal EXCEPT ![g] = goal'[g]]
          /\ goal'[g].pc = "complete" /\ goal'[g].task = goal[g].task /\ goal'[g].tier = goal[g].tier
          /\ goal'[g].outcome = goal[g].outcome
      BY <1>1, <1>3, GoalGoesIs DEF GoalPcs
    <2>3. GoalOK(g)'  BY <1>1, <1>2, <1>3, <2>1, <2>2 DEF GoalOK, AttemptedOK, Paid, Tripped
    <2>l. recorded' \in [Pairs -> Nat] /\ trusted' \in [Pairs -> Nat]
      BY <1>1, <1>2, <2>1, <2>2, <2>3 DEF GoalTypes
    <2>m. GoalAlone(g, goal'[g])  BY <1>1, <1>2, <2>1, <2>2, <2>3, <2>l DEF GoalAlone
    <2> QED BY <1>1, <1>2, <2>1, <2>2, <2>3, <2>m, GoalMoves
  <1>4. CASE goal[g].pc = "complete" /\ Work!CompleteTask(t) /\ Work!Goes(g, "trust")
    <2>1. t # None /\ t \in Twins  BY <1>1, <1>4 DEF GoalOK, GoalRows
    <2>2. /\ TaskInv' /\ task' = [task EXCEPT ![t] = task'[t]] /\ task'[t] # None
          /\ attempt' = attempt /\ tickets' = tickets
      BY <1>1, <1>4, <2>1, SettleStep DEF Work!CompleteTask, Work!TaskStatus
    <2>3. /\ goal'[g] \in GoalRows /\ goal' = [goal EXCEPT ![g] = goal'[g]]
          /\ goal'[g].pc = "trust" /\ goal'[g].task = goal[g].task /\ goal'[g].tier = goal[g].tier
          /\ goal'[g].outcome = goal[g].outcome
      BY <1>1, <1>4, GoalGoesIs DEF GoalPcs
    <2>4. \A u \in Twins : u # t => task'[u] = task[u]  BY <1>1, <2>2 DEF TaskTypes
    <2>5. GoalOK(g)'  BY <1>1, <1>2, <1>4, <2>1, <2>2, <2>3 DEF GoalOK, AttemptedOK, Paid, Tripped
    <2>l. recorded' \in [Pairs -> Nat] /\ trusted' \in [Pairs -> Nat]
      BY <1>1, <1>2, <2>2, <2>3, <2>4, <2>5 DEF GoalTypes
    <2>m. GoalAlone(g, goal'[g])  BY <1>1, <1>2, <2>2, <2>3, <2>4, <2>5, <2>l DEF GoalAlone
    <2> QED BY <1>1, <1>2, <2>2, <2>3, <2>4, <2>5, <2>m, GoalMoves
  <1> QED BY <1>3, <1>4 DEF Work!CallAndComplete, Work!At

\* The success of its agent is reported.
LEMMA GoalTrust ==
  ASSUME GoalInv, NEW g \in Pairs, Work!RecordTrustOutcome(g)
  PROVE GoalInv'
  <1>c. PICK half : half = [goal[g] EXCEPT !.pc = "done"]  OBVIOUS
  <1>d. PICK new : new = [half EXCEPT !.outcome = "EXECUTE"]  OBVIOUS
  <1>1. GoalTypes /\ GoalOK(g) /\ goal[g] \in GoalRows  BY DEF GoalInv, GoalTypes
  <1>2. /\ goal[g].pc = "trust" /\ trusted' = [trusted EXCEPT ![g] = @ + 1]
        /\ goal' = [goal EXCEPT ![g] = new] /\ UNCHANGED Work!taskVars /\ UNCHANGED recorded
    BY <1>c, <1>d DEF Work!RecordTrustOutcome, Work!At
  <1>3. TaskInv' /\ attempt' = attempt /\ task' = task /\ tickets' = tickets
    BY <1>2, TaskInvStutters DEF GoalInv, Work!taskVars
  <1>4. half \in GoalRows /\ half.pc = "done" /\ half.tier = goal[g].tier /\ half.task = goal[g].task
    BY <1>1, <1>c DEF GoalRows, GoalPcs
  <1>5. new \in GoalRows /\ new.pc = "done" /\ new.tier = goal[g].tier /\ new.task = goal[g].task
        /\ new.outcome = "EXECUTE"
    BY <1>4, <1>d DEF GoalRows
  <1>6. goal'[g] = new  BY <1>1, <1>2 DEF GoalTypes
  <1>7. trusted' \in [Pairs -> Nat] /\ \A h \in Pairs : h # g => trusted'[h] = trusted[h]
    BY <1>1, <1>2 DEF GoalTypes
  <1>8. goal[g].outcome # "BUDGET_DENIED"  BY <1>1, <1>2, TaskBounds DEF GoalOK
  <1>9. GoalOK(g)'
    BY <1>1, <1>2, <1>3, <1>5, <1>6, <1>8 DEF GoalOK, AttemptedOK, Paid, Tripped
  <1>l. recorded' \in [Pairs -> Nat] /\ trusted' \in [Pairs -> Nat]
    BY <1>1, <1>2, <1>3, <1>5, <1>7, <1>9 DEF GoalTypes
  <1>m. GoalAlone(g, new)  BY <1>1, <1>2, <1>3, <1>5, <1>7, <1>9, <1>l DEF GoalAlone
  <1> QED BY <1>1, <1>2, <1>3, <1>5, <1>7, <1>9, <1>m, GoalMoves

\* Every step of a goal keeps the invariant.
LEMMA GoalStepKeeps == ASSUME GoalInv, NEW g \in Pairs, Work!GoalStep(g) PROVE GoalInv'
  <1>1. ASSUME NEW complexity \in Complexities, NEW risk \in RiskLevels, NEW affordable \in BOOLEAN,
               NEW confidence \in TaskConfidences, NEW min \in TaskConfidences, NEW max \in MaxIterations,
               Work!ExecuteGoal(g, complexity, risk, affordable, confidence, min, max)
        PROVE GoalInv'
    <2>1. confidence \in Nat /\ min \in Nat /\ max \in Nat  BY TaskBounds
    <2> QED BY <1>1, <2>1, GoalExecute
  <1> QED BY <1>1, GoalReserve, GoalCreate, GoalAttempt, GoalAttempted, GoalCalls, GoalTrust
          DEF Work!GoalStep

\* A state that does not change keeps it.
LEMMA GoalInvStutters == GoalInv /\ UNCHANGED <<Work!taskVars, Work!goalVars>> => GoalInv'
  <1> SUFFICES ASSUME GoalInv, UNCHANGED <<Work!taskVars, Work!goalVars>> PROVE GoalInv'  OBVIOUS
  <1>1. TaskInv'  BY TaskInvStutters DEF GoalInv
  <1>2. UNCHANGED <<task, attempt, tickets, goal, recorded, trusted>>
    BY DEF Work!taskVars, Work!goalVars
  <1>3. \A g \in Pairs : GoalOK(g)'
    BY <1>2 DEF GoalInv, GoalOK, AttemptedOK, Paid, Tripped
  <1> QED BY <1>1, <1>2, <1>3 DEF GoalInv, GoalTypes, OwnTasks

\* The invariant implies that stopped goals stay stopped.
LEMMA GoalInvImplies == GoalInv => Work!StoppedGoals /\ Work!GoalTypeOK
  <1> SUFFICES ASSUME GoalInv PROVE Work!StoppedGoals /\ Work!GoalTypeOK  OBVIOUS
  <1>1. Work!GoalTypeOK  BY DEF GoalInv, GoalTypes, GoalRows, GoalPcs, Work!GoalTypeOK
  <1>2. ASSUME NEW g \in Pairs, goal[g].pc = "done"
        PROVE /\ goal[g].task # None =>
                   ((goal[g].outcome = "CIRCUIT_BROKEN") = (tickets[goal[g].task] = 1))
              /\ goal[g].outcome = "CIRCUIT_BROKEN" => trusted[g] = 0
              /\ goal[g].tier # "DETERMINISTIC" =>
                   (recorded[g] = 1 <=> goal[g].outcome # "BUDGET_DENIED")
    BY <1>2 DEF GoalInv, GoalOK, Paid, Tripped
  <1> QED BY <1>1, <1>2 DEF Work!StoppedGoals, Work!At

\* Without the bounds of the scene too: goals that stopped stay stopped
\* (orchestrator.service.ts:38-197).
THEOREM GoalsAreStopped == Work!GoalSpec => []Work!StoppedGoals
  <1>1. GoalInv /\ [\E g \in Pairs : Work!GoalStep(g)]_<<Work!taskVars, Work!goalVars>> => GoalInv'
    BY GoalStepKeeps, GoalInvStutters
  <1>2. Work!GoalSpec => []GoalInv  BY <1>1, GoalInvInit, PTL DEF Work!GoalSpec
  <1> QED BY <1>2, GoalInvImplies, PTL

HIDE DEF driver, task, late, attempt, tickets, retries, settled, goal, recorded, trusted

-----------------------------------------------------------------------------
(***************************************************************************)
(* The loop of the simulator, and the runs of its agents.                  *)
(***************************************************************************)
isRunning == s1
activeAbort == s2
isExecutingStep == s3
timer == s4
step == s5
stops == s6
run == s7
spent == s8
recordFailed == s10
USE DEF isRunning, activeAbort, isExecutingStep, timer, step, stops, run, spent, recorded, recordFailed

\* Cardinality is the same in the simulator's module as here.
LEMMA SameCardinality == \A S : Loop!Cardinality(S) = Cardinality(S)
  BY DEF Loop!Cardinality, Cardinality

\* The steps are finitely many, and the limits are numbers.
LEMMA LoopBounds ==
  /\ IsFiniteSet(Triples)
  /\ MaxTurns \in Nat /\ MaxCost \in Nat /\ MaxCalls \in Nat /\ MaxStops \in Nat
  /\ Costs \subseteq Nat
  BY LoopAssumption

\* The runs of the agents, and the steps that wait for them.
LoopTypes ==
  /\ isRunning \in BOOLEAN /\ activeAbort \in BOOLEAN /\ isExecutingStep \in BOOLEAN
  /\ timer \in {"null", "pending", "fired"}
  /\ step \in [Triples -> {"none", "seeding", "agent"}]
  /\ stops \in 0 .. MaxStops
  /\ run \in [Triples -> Loop!Run]
  /\ \A r \in Triples : step[r] = "agent" <=> run[r].pc \notin {"idle", "done"}
  /\ \A r \in Triples : run[r].pc = "tool" => run[r].calls > 0

\* What drives the loop, and who set the flag.
Driven ==
  /\ isRunning => ~activeAbort /\ (timer = "pending" \/ Loop!UnderWay # {})
  /\ isExecutingStep => isRunning /\ Loop!UnderWay # {}
  /\ timer = "pending" => isRunning /\ ~isExecutingStep

\* Every step under way but the one the flag stands for was stopped.
Overlapping == Cardinality(Loop!UnderWay) <= stops + (IF isExecutingStep THEN 1 ELSE 0)

SimInv == LoopTypes /\ Driven /\ Overlapping

\* A new run is a run, that has not begun.
LEMMA NewRunIsRun == Loop!NewRun \in Loop!Run /\ Loop!NewRun.pc = "idle"
  BY LoopBounds DEF Loop!NewRun, Loop!Run, Loop!StopReasons

\* The loop head asks the provider or is done; aborted, it is done.
LEMMA HeadOfLoop ==
  ASSUME NEW x \in Loop!Run, NEW ab \in BOOLEAN
  PROVE  /\ Loop!LoopHead(x, ab) \in Loop!Run /\ Loop!LoopHead(x, ab).pc \in {"done", "chat"}
         /\ ab => Loop!LoopHead(x, ab).pc = "done"
  <1>0. /\ x.iterations \in 0 .. MaxTurns /\ x.cost \in Nat /\ MaxCost \in Nat
        /\ MaxTurns \in Nat
    BY LoopBounds DEF Loop!Run
  <1>1. CASE x.iterations >= MaxTurns
    <2>1. Loop!LoopHead(x, ab) = [x EXCEPT !.pc = "done"]  BY <1>0, <1>1 DEF Loop!LoopHead
    <2> QED BY <2>1 DEF Loop!Run
  <1>2. CASE x.iterations < MaxTurns /\ ab
    <2>1. Loop!LoopHead(x, ab) = [x EXCEPT !.pc = "done", !.stopReason = "CANCELLED"]
      BY <1>0, <1>2 DEF Loop!LoopHead, Loop!Stopped
    <2> QED BY <2>1 DEF Loop!Run, Loop!StopReasons
  <1> DEFINE next == x.iterations + 1
  <1>3. CASE x.iterations < MaxTurns /\ ~ab
    <2>1. next \in 0 .. MaxTurns  BY <1>0, <1>3
    <2>2. CASE x.cost >= MaxCost
      <3>1. Loop!LoopHead(x, ab) =
              [x EXCEPT !.iterations = next, !.pc = "done", !.stopReason = "BUDGET_EXCEEDED"]
        BY <1>0, <1>3, <2>2 DEF Loop!LoopHead, Loop!Stopped, Loop!Run
      <3> HIDE DEF next
      <3> QED BY <1>3, <2>1, <3>1 DEF Loop!Run, Loop!StopReasons
    <2>3. CASE x.cost < MaxCost
      <3>1. Loop!LoopHead(x, ab) = [x EXCEPT !.iterations = next, !.pc = "chat"]
        BY <1>0, <1>3, <2>3 DEF Loop!LoopHead
      <3> HIDE DEF next
      <3> QED BY <1>3, <2>1, <3>1 DEF Loop!Run
    <2> QED BY <1>0, <2>2, <2>3
  <1> QED BY <1>0, <1>1, <1>2, <1>3

\* The tool loop starts a tool, goes on or is done; aborted, it is done.
LEMMA HeadOfTools ==
  ASSUME NEW x \in Loop!Run, NEW ab \in BOOLEAN
  PROVE  /\ Loop!NextTool(x, ab) \in Loop!Run /\ Loop!NextTool(x, ab).pc \in {"done", "chat", "tool"}
         /\ ab => Loop!NextTool(x, ab).pc = "done"
         /\ Loop!NextTool(x, ab).pc = "tool" => Loop!NextTool(x, ab).calls > 0
  <1>1. CASE x.calls > 0 /\ ~ab  BY <1>1, LoopBounds DEF Loop!NextTool, Loop!Run
  <1>2. CASE ~(x.calls > 0 /\ ~ab)
    <2> DEFINE rest == IF x.calls > 0 THEN [x EXCEPT !.stopReason = "CANCELLED"] ELSE x
               y == IF x.iterations >= MaxTurns
                      THEN [rest EXCEPT !.stopReason = "MAX_ITERATIONS"] ELSE rest
    <2>1. y \in Loop!Run  BY DEF Loop!Run, Loop!StopReasons
    <2>2. Loop!NextTool(x, ab) = Loop!LoopHead(y, ab)  BY <1>2 DEF Loop!NextTool, Loop!ToolsLeft
    <2> HIDE DEF y
    <2> QED BY <2>1, <2>2, HeadOfLoop
  <1> QED BY <1>1, <1>2

\* A run that is stopped is done.
LEMMA StoppedIs ==
  ASSUME NEW x \in Loop!Run, NEW why \in Loop!StopReasons
  PROVE  Loop!Stopped(x, why) \in Loop!Run /\ Loop!Stopped(x, why).pc = "done"
  BY DEF Loop!Stopped, Loop!Run

\* A run that is answered records it; aborted, it is done.
LEMMA RunAnsweredIs ==
  ASSUME NEW x \in Loop!Run, NEW ab \in BOOLEAN, NEW c \in Costs, NEW final \in BOOLEAN,
         NEW calls \in 0 .. MaxCalls
  PROVE  /\ Loop!Answered(x, ab, c, final, calls) \in Loop!Run
         /\ Loop!Answered(x, ab, c, final, calls).pc = IF ab THEN "done" ELSE "record"
  <1>1. CASE ab
    BY <1>1, StoppedIs DEF Loop!Answered, Loop!StopReasons
  <1>2. CASE ~ab
    <2> DEFINE cost == x.cost + c
    <2>1. cost \in Nat  BY LoopBounds DEF Loop!Run
    <2>2. Loop!Answered(x, ab, c, final, calls) =
            [x EXCEPT !.pc = "record", !.cost = cost, !.last = c, !.final = final, !.calls = calls]
      BY <1>2 DEF Loop!Answered
    <2> HIDE DEF cost
    <2> QED BY <1>2, <2>1, <2>2 DEF Loop!Run
  <1> QED BY <1>1, <1>2

\* A step of a run: where it gets to, and that it is alone.
LEMMA RunSteps ==
  ASSUME LoopTypes, NEW r \in Triples, Loop!Begin(r) \/ (run[r].pc \notin {"idle", "done"} /\ Loop!Step(r))
  PROVE  /\ run'[r] \in Loop!Run /\ run' = [run EXCEPT ![r] = run'[r]]
         /\ run'[r].pc = "tool" => run'[r].calls > 0
         /\ run'[r].pc # "idle"
         /\ Loop!Aborted => run'[r].pc = "done"
  <1>0. run \in [Triples -> Loop!Run] /\ run[r] \in Loop!Run /\ Loop!Aborted \in BOOLEAN
    BY DEF LoopTypes, Loop!Aborted
  <1>1. ASSUME NEW new \in Loop!Run, run' = [run EXCEPT ![r] = new], new.pc = "tool" => new.calls > 0,
               new.pc # "idle", Loop!Aborted => new.pc = "done"
        PROVE  /\ run'[r] \in Loop!Run /\ run' = [run EXCEPT ![r] = run'[r]]
               /\ run'[r].pc = "tool" => run'[r].calls > 0
               /\ run'[r].pc # "idle"
               /\ Loop!Aborted => run'[r].pc = "done"
    <2>1. run'[r] = new  BY <1>0, <1>1
    <2> QED BY <1>1, <2>1
  <1>2. CASE Loop!Begin(r)
    <2> DEFINE new == Loop!LoopHead(Loop!NewRun, Loop!Aborted)
    <2>1. run' = [run EXCEPT ![r] = new]  BY <1>2 DEF Loop!Begin
    <2>2. new \in Loop!Run /\ new.pc \in {"done", "chat"} /\ (Loop!Aborted => new.pc = "done")
      BY <1>0, NewRunIsRun, HeadOfLoop
    <2> HIDE DEF new
    <2> QED BY <1>1, <2>1, <2>2
  <1>3. CASE Loop!ChatFails(r)
    <2> DEFINE new == Loop!Stopped(run[r], "PROVIDER_ERROR")
    <2>1. run' = [run EXCEPT ![r] = new]  BY <1>0, <1>3 DEF Loop!ChatFails
    <2>2. new \in Loop!Run /\ new.pc = "done"  BY <1>0, StoppedIs DEF Loop!StopReasons
    <2> HIDE DEF new
    <2> QED BY <1>1, <2>1, <2>2
  <1>4. CASE Loop!ChatAnswers(r)
    <2>1. PICK c \in Costs, final \in BOOLEAN, calls \in 0 .. MaxCalls :
            run' = [run EXCEPT ![r] = Loop!Answered(run[r], Loop!Aborted, c, final, calls)]
      BY <1>0, <1>4 DEF Loop!ChatAnswers
    <2> DEFINE new == Loop!Answered(run[r], Loop!Aborted, c, final, calls)
    <2>2. new \in Loop!Run /\ new.pc \in {"done", "record"} /\ (Loop!Aborted => new.pc = "done")
      BY <1>0, RunAnsweredIs
    <2>3. run' = [run EXCEPT ![r] = new]  BY <2>1
    <2> HIDE DEF new
    <2> QED BY <1>1, <2>2, <2>3
  <1>5. CASE Loop!UsageRecorded(r)
    <2> DEFINE new == IF run[r].final THEN Loop!Stopped(run[r], "COMPLETED") ELSE Loop!NextTool(run[r], Loop!Aborted)
    <2>1. run' = [run EXCEPT ![r] = new]  BY <1>0, <1>5 DEF Loop!UsageRecorded
    <2>2. /\ new \in Loop!Run /\ (new.pc = "tool" => new.calls > 0) /\ new.pc \in {"done", "chat", "tool"}
          /\ Loop!Aborted => new.pc = "done"
      BY <1>0, StoppedIs, HeadOfTools DEF Loop!StopReasons
    <2> HIDE DEF new
    <2> QED BY <1>1, <2>1, <2>2
  <1>6. CASE Loop!ToolEnds(r) /\ run[r].calls > 0
    <2> DEFINE rest == run[r].calls - 1
    <2>1. rest \in 0 .. MaxCalls  BY <1>0, <1>6, LoopBounds DEF Loop!Run
    <2> HIDE DEF rest
    <2> DEFINE x == [run[r] EXCEPT !.calls = rest]
    <2>2. x \in Loop!Run  BY <1>0, <2>1 DEF Loop!Run
    <2> DEFINE new == Loop!NextTool(x, Loop!Aborted)
    <2>3. run' = [run EXCEPT ![r] = new]  BY <1>0, <1>6 DEF Loop!ToolEnds, rest
    <2> HIDE DEF x
    <2>4. /\ new \in Loop!Run /\ (new.pc = "tool" => new.calls > 0) /\ new.pc \in {"done", "chat", "tool"}
          /\ Loop!Aborted => new.pc = "done"
      BY <1>0, <2>2, HeadOfTools
    <2> HIDE DEF new
    <2> QED BY <1>1, <2>3, <2>4
  <1>7. Loop!ToolEnds(r) => run[r].calls > 0  BY DEF Loop!ToolEnds, LoopTypes
  <1> QED BY <1>2, <1>3, <1>4, <1>5, <1>6, <1>7 DEF Loop!Step

\* Steps are counted up when one starts, and down when one ends.
LEMMA CountsSteps ==
  /\ IsFiniteSet(Loop!UnderWay) /\ Cardinality(Loop!UnderWay) \in Nat
  /\ \A r \in Triples : r \notin Loop!UnderWay => Cardinality(Loop!UnderWay \cup {r}) = Cardinality(Loop!UnderWay) + 1
  /\ \A r \in Loop!UnderWay : Cardinality(Loop!UnderWay \ {r}) = Cardinality(Loop!UnderWay) - 1
  <1>1. IsFiniteSet(Loop!UnderWay)  BY LoopBounds, FS_Subset DEF Loop!UnderWay
  <1> QED BY <1>1, FS_CardinalityType, FS_AddElement, FS_RemoveElement

\* The simulator starts stopped.
LEMMA SimInvInit == Loop!LoopInit => SimInv
  <1> SUFFICES ASSUME Loop!LoopInit PROVE SimInv  OBVIOUS
  <1>1. /\ isRunning = FALSE /\ activeAbort = FALSE /\ isExecutingStep = FALSE /\ timer = "null"
        /\ step = [r \in Triples |-> "none"] /\ stops = 0 /\ run = [r \in Triples |-> Loop!NewRun]
    BY DEF Loop!LoopInit
  <1>2. LoopTypes
    <2>1. run \in [Triples -> Loop!Run] /\ \A r \in Triples : run[r].pc = "idle" /\ step[r] = "none"
      BY <1>1, NewRunIsRun
    <2>2. 0 \in 0 .. MaxStops  BY LoopBounds
    <2>3. step \in [Triples -> {"none", "seeding", "agent"}]  BY <1>1
    <2> QED BY <1>1, <2>1, <2>2, <2>3 DEF LoopTypes
  <1>3. Loop!UnderWay = {}  BY <1>1 DEF Loop!UnderWay
  <1>4. Cardinality(Loop!UnderWay) = 0  BY <1>3, FS_EmptySet
  <1> QED BY <1>1, <1>2, <1>4 DEF SimInv, Driven, Overlapping

\* An operator's call, or a tick that comes to nothing, leaves the steps and runs alone.
LEMMA OperatorKeeps ==
  ASSUME SimInv, Loop!Start \/ Loop!Stop \/ Loop!UpdateConfig \/ Loop!TickPaused \/ UNCHANGED Loop!loopVars
  PROVE  SimInv'
  <1>0. LoopTypes /\ Driven /\ Overlapping /\ Cardinality(Loop!UnderWay) \in Nat
    BY CountsSteps DEF SimInv
  <1>1. step' = step /\ run' = run
    BY DEF Loop!Start, Loop!Stop, Loop!UpdateConfig, Loop!TickPaused, Loop!loopVars, Loop!simVars, Loop!runVars
  <1>2. Loop!UnderWay' = Loop!UnderWay /\ Cardinality(Loop!UnderWay)' = Cardinality(Loop!UnderWay)
    BY <1>1 DEF Loop!UnderWay
  <1>3. CASE Loop!Start
    <2>1. /\ activeAbort' = FALSE /\ isRunning' = TRUE
          /\ timer' = IF isRunning /\ (isExecutingStep \/ timer # "null") THEN timer ELSE "pending"
          /\ UNCHANGED <<isExecutingStep, stops>>
      BY <1>3 DEF Loop!Start, Loop!Started
    <2>2. LoopTypes'  BY <1>0, <1>1, <2>1 DEF LoopTypes
    <2>3. Driven'  BY <1>0, <1>2, <2>1 DEF Driven, LoopTypes
    <2> QED BY <1>0, <1>2, <2>1, <2>2, <2>3 DEF SimInv, Overlapping
  <1>4. CASE Loop!Stop
    <2>1. /\ isRunning' = FALSE /\ activeAbort' = TRUE /\ timer' = "null" /\ isExecutingStep' = FALSE
          /\ stops < MaxStops /\ stops' = IF Loop!UnderWay = {} THEN stops ELSE stops + 1
      BY <1>4 DEF Loop!Stop
    <2>2. stops' \in 0 .. MaxStops  BY <1>0, <2>1, LoopBounds DEF LoopTypes
    <2>3. LoopTypes'  BY <1>0, <1>1, <2>1, <2>2 DEF LoopTypes
    <2>4. Driven'  BY <2>1 DEF Driven
    <2>5. Loop!UnderWay = {} => Cardinality(Loop!UnderWay) = 0  BY FS_EmptySet
    <2>6. stops \in Nat  BY <1>0, LoopBounds DEF LoopTypes
    <2>7. Overlapping'
      BY <1>0, <1>2, <2>1, <2>5, <2>6 DEF Overlapping
    <2> QED BY <2>3, <2>4, <2>7 DEF SimInv
  <1>5. CASE Loop!UpdateConfig \/ Loop!TickPaused
    <2>1. /\ UNCHANGED <<isRunning, activeAbort, isExecutingStep, stops>>
          /\ timer' = timer \/ (isRunning /\ ~isExecutingStep /\ ~Loop!Aborted /\ timer' = "pending")
      BY <1>0, <1>5
         DEF Loop!UpdateConfig, Loop!TickPaused, Loop!RestartedTimer, Loop!BetweenSteps,
             Loop!Aborted, Driven, LoopTypes
    <2>2. LoopTypes'  BY <1>0, <1>1, <2>1 DEF LoopTypes
    <2>3. Driven'  BY <1>0, <1>2, <2>1 DEF Driven
    <2> QED BY <1>0, <1>2, <2>1, <2>2, <2>3 DEF SimInv, Overlapping
  <1>6. CASE UNCHANGED Loop!loopVars
    <2>1. UNCHANGED <<isRunning, activeAbort, isExecutingStep, stops, timer>>
      BY <1>6 DEF Loop!loopVars, Loop!simVars
    <2> QED BY <1>0, <1>1, <1>2, <2>1 DEF SimInv, Overlapping, Driven, LoopTypes
  <1> QED BY <1>3, <1>4, <1>5, <1>6

\* A tick starts a step.
LEMMA TickKeeps == ASSUME SimInv, NEW r \in Triples, Loop!TickStarts(r) PROVE SimInv'
  <1>0. LoopTypes /\ Driven /\ Overlapping  BY DEF SimInv
  <1>1. /\ timer = "pending" /\ step[r] = "none" /\ timer' = "fired" /\ isExecutingStep' = TRUE
        /\ isRunning /\ ~isExecutingStep
        /\ step' = [step EXCEPT ![r] = "seeding"]
        /\ UNCHANGED <<isRunning, activeAbort, stops, run>>
    BY <1>0 DEF Loop!TickStarts, Loop!runVars, Driven
  <1>2. r \notin Loop!UnderWay /\ Loop!UnderWay' = Loop!UnderWay \cup {r}
    BY <1>0, <1>1 DEF Loop!UnderWay, LoopTypes
  <1>3. Cardinality(Loop!UnderWay)' = Cardinality(Loop!UnderWay) + 1  BY <1>2, CountsSteps
  <1>4. LoopTypes'  BY <1>0, <1>1 DEF LoopTypes
  <1>5. Driven'  BY <1>0, <1>1, <1>2 DEF Driven
  <1>6. stops \in Nat /\ Cardinality(Loop!UnderWay) \in Nat
    BY <1>0, LoopBounds, CountsSteps DEF LoopTypes
  <1>7. Overlapping'  BY <1>0, <1>1, <1>3, <1>6 DEF Overlapping
  <1> QED BY <1>4, <1>5, <1>7 DEF SimInv

\* Whatever a step of the loop ended with.
LEMMA EndedKeeps ==
  ASSUME SimInv, NEW r \in Triples, step[r] # "none", Loop!Ended(r),
         UNCHANGED <<isRunning, activeAbort, stops>>,
         run'[r] \in Loop!Run, run' = [run EXCEPT ![r] = run'[r]], run'[r].pc \in {"idle", "done"}
  PROVE  SimInv'
  <1>0. LoopTypes /\ Driven /\ Overlapping  BY DEF SimInv
  <1>1. /\ step' = [step EXCEPT ![r] = "none"] /\ isExecutingStep' = FALSE
        /\ timer' = IF Loop!Aborted THEN timer ELSE "pending"
    BY DEF Loop!Ended, Loop!RestartedTimer
  <1>2. r \in Loop!UnderWay /\ Loop!UnderWay' = Loop!UnderWay \ {r}
    BY <1>0, <1>1 DEF Loop!UnderWay, LoopTypes
  <1>3. Cardinality(Loop!UnderWay)' = Cardinality(Loop!UnderWay) - 1  BY <1>2, CountsSteps
  <1>4. LoopTypes'
    <2>1. timer' \in {"null", "pending", "fired"} /\ step' \in [Triples -> {"none", "seeding", "agent"}]
      BY <1>0, <1>1 DEF LoopTypes
    <2>2. run' \in [Triples -> Loop!Run]  BY <1>0 DEF LoopTypes
    <2>3. ASSUME NEW q \in Triples
          PROVE  /\ step'[q] = "agent" <=> run'[q].pc \notin {"idle", "done"}
                 /\ run'[q].pc = "tool" => run'[q].calls > 0
      <3>1. CASE q = r
        <4>1. step'[q] = "none"  BY <1>0, <1>1, <3>1 DEF LoopTypes
        <4> QED BY <3>1, <4>1
      <3>2. CASE q # r
        <4>1. step'[q] = step[q] /\ run'[q] = run[q]  BY <1>0, <1>1, <3>2 DEF LoopTypes
        <4> QED BY <1>0, <4>1 DEF LoopTypes
      <3> QED BY <3>1, <3>2
    <2> QED BY <1>0, <1>1, <2>1, <2>2, <2>3 DEF LoopTypes
  <1>5. Driven'  BY <1>0, <1>1 DEF Driven, Loop!Aborted
  <1>6. stops \in Nat /\ Cardinality(Loop!UnderWay) \in Nat
    BY <1>0, LoopBounds, CountsSteps DEF LoopTypes
  <1>7. Overlapping'  BY <1>0, <1>1, <1>3, <1>6 DEF Overlapping
  <1> QED BY <1>4, <1>5, <1>7 DEF SimInv

\* A step that waits for its agent goes on waiting.
LEMMA WaitsKeeps ==
  ASSUME SimInv, NEW r \in Triples, step[r] # "none",
         step' = [step EXCEPT ![r] = "agent"],
         UNCHANGED <<isRunning, activeAbort, stops, isExecutingStep, timer>>,
         run'[r] \in Loop!Run, run' = [run EXCEPT ![r] = run'[r]], run'[r].pc \notin {"idle", "done"},
         run'[r].pc = "tool" => run'[r].calls > 0
  PROVE  SimInv'
  <1>0. LoopTypes /\ Driven /\ Overlapping  BY DEF SimInv
  <1>1. Loop!UnderWay' = Loop!UnderWay /\ Cardinality(Loop!UnderWay)' = Cardinality(Loop!UnderWay)
    <2>1. Loop!UnderWay' = Loop!UnderWay  BY <1>0 DEF Loop!UnderWay, LoopTypes
    <2> QED BY <2>1
  <1>2. LoopTypes'
    <2>1. step' \in [Triples -> {"none", "seeding", "agent"}]  BY <1>0 DEF LoopTypes
    <2>2. run' \in [Triples -> Loop!Run]  BY <1>0 DEF LoopTypes
    <2>3. ASSUME NEW q \in Triples
          PROVE  /\ step'[q] = "agent" <=> run'[q].pc \notin {"idle", "done"}
                 /\ run'[q].pc = "tool" => run'[q].calls > 0
      <3>1. CASE q = r
        <4>1. step'[q] = "agent"  BY <1>0, <3>1 DEF LoopTypes
        <4> QED BY <3>1, <4>1
      <3>2. CASE q # r
        <4>1. step'[q] = step[q] /\ run'[q] = run[q]  BY <1>0, <3>2 DEF LoopTypes
        <4> QED BY <1>0, <4>1 DEF LoopTypes
      <3> QED BY <3>1, <3>2
    <2> QED BY <1>0, <2>1, <2>2, <2>3 DEF LoopTypes
  <1> QED BY <1>0, <1>1, <1>2 DEF SimInv, Driven, Overlapping

\* A step gets on, or ends.
LEMMA StepOfKeeps == ASSUME SimInv, NEW r \in Triples, Loop!StepOf(r) PROVE SimInv'
  <1>0. LoopTypes  BY DEF SimInv
  <1>1. CASE Loop!SeededInVain(r)
    <2>1. step[r] = "seeding" /\ Loop!Ended(r) /\ UNCHANGED <<isRunning, activeAbort, stops, run>>
      BY <1>1 DEF Loop!SeededInVain, Loop!runVars
    <2>2. run'[r] \in Loop!Run /\ run' = [run EXCEPT ![r] = run'[r]] /\ run'[r].pc \in {"idle", "done"}
      BY <1>0, <2>1 DEF LoopTypes
    <2> QED BY <2>1, <2>2, EndedKeeps
  <1>2. CASE Loop!SeededAndRuns(r)
    <2>1. /\ step[r] = "seeding" /\ Loop!Begin(r) /\ UNCHANGED <<isRunning, activeAbort, stops>>
          /\ \/ /\ run'[r].pc # "done" /\ step' = [step EXCEPT ![r] = "agent"]
                /\ UNCHANGED <<isExecutingStep, timer>>
             \/ run'[r].pc = "done" /\ Loop!Ended(r)
      BY <1>2 DEF Loop!SeededAndRuns
    <2> QED BY <1>0, <2>1, RunSteps, WaitsKeeps, EndedKeeps
  <1>3. CASE Loop!AgentSteps(r)
    <2>1. /\ step[r] = "agent" /\ Loop!Step(r) /\ UNCHANGED <<isRunning, activeAbort, stops>>
          /\ \/ run'[r].pc # "done" /\ UNCHANGED <<isExecutingStep, timer, step>>
             \/ run'[r].pc = "done" /\ Loop!Ended(r)
      BY <1>3 DEF Loop!AgentSteps
    <2>2. step' = step => step' = [step EXCEPT ![r] = "agent"]  BY <1>0, <2>1 DEF LoopTypes
    <2>3. run[r].pc \notin {"idle", "done"}  BY <1>0, <2>1 DEF LoopTypes
    <2> QED BY <1>0, <2>1, <2>2, <2>3, RunSteps, WaitsKeeps, EndedKeeps
  <1> QED BY <1>1, <1>2, <1>3 DEF Loop!StepOf

\* Every step of the loop keeps the invariant.
LEMMA SimInvNext == SimInv /\ [Loop!LoopNext]_(Loop!loopVars) => SimInv'
  BY OperatorKeeps, TickKeeps, StepOfKeeps DEF Loop!LoopNext

\* The invariant implies what is said of the loop.
LEMMA SimInvImplies ==
  SimInv => Loop!LoopTypeOK /\ Loop!OverlapOnlyByStops /\ Loop!LoopIsAlive /\ Loop!TickIsNeverLost
  <1> SUFFICES ASSUME SimInv
               PROVE  Loop!LoopTypeOK /\ Loop!OverlapOnlyByStops /\ Loop!LoopIsAlive /\ Loop!TickIsNeverLost
    OBVIOUS
  <1>1. stops \in Nat /\ Cardinality(Loop!UnderWay) \in Nat
    BY LoopBounds, CountsSteps DEF SimInv, LoopTypes
  <1>2. Loop!OverlapOnlyByStops
    BY <1>1, SameCardinality DEF SimInv, Overlapping, Loop!OverlapOnlyByStops
  <1> QED
    BY <1>2 DEF SimInv, LoopTypes, Driven, Loop!LoopTypeOK, Loop!LoopIsAlive, Loop!TickIsNeverLost

\* A stopped simulator has its agents stop at their next await.
LEMMA StopStartsNothing == SimInv /\ [Loop!LoopNext]_(Loop!loopVars) => Loop!StartsNothing
  <1> SUFFICES ASSUME SimInv, [Loop!LoopNext]_(Loop!loopVars), NEW q \in Triples, ~isRunning, run'[q] # run[q]
               PROVE  run'[q].pc = "done"
    BY DEF Loop!StartsNothing
  <1>0. LoopTypes  BY DEF SimInv
  <1>1. run' # run  OBVIOUS
  <1>2. PICK r \in Triples : Loop!StepOf(r)
    BY <1>1
       DEF Loop!LoopNext, Loop!Start, Loop!Stop, Loop!UpdateConfig, Loop!TickPaused,
           Loop!TickStarts, Loop!loopVars, Loop!runVars
  <1>3. CASE Loop!Begin(r) \/ (step[r] = "agent" /\ Loop!Step(r))
    <2>1. Loop!Begin(r) \/ (run[r].pc \notin {"idle", "done"} /\ Loop!Step(r))
      BY <1>0, <1>3 DEF LoopTypes
    <2>2. run' = [run EXCEPT ![r] = run'[r]] /\ run'[r].pc = "done"
      BY <1>0, <2>1, RunSteps DEF Loop!Aborted
    <2> QED BY <1>0, <2>2 DEF LoopTypes
  <1>4. CASE Loop!SeededInVain(r)
    BY <1>1, <1>4 DEF Loop!SeededInVain, Loop!runVars
  <1> QED BY <1>2, <1>3, <1>4 DEF Loop!StepOf, Loop!SeededAndRuns, Loop!AgentSteps

\* Without the bounds of the scene too: steps overlap only by stops, the loop stays
\* alive, and no tick is lost (simulator.service.ts:237-396).
THEOREM OneLoopAtATime ==
  Loop!LoopSpec => [](Loop!OverlapOnlyByStops /\ Loop!LoopIsAlive /\ Loop!TickIsNeverLost)
  <1> QED BY SimInvInit, SimInvNext, SimInvImplies, PTL DEF Loop!LoopSpec

\* After a stop the agents under way start nothing more (simulator.service.ts:590).
THEOREM StopsAreHeeded == Loop!LoopSpec => Loop!StoppedStartsNothing
  <1>1. SimInv /\ [Loop!LoopNext]_(Loop!loopVars) => [Loop!StartsNothing]_(Loop!loopVars)
    BY StopStartsNothing
  <1> QED BY <1>1, SimInvInit, SimInvNext, PTL DEF Loop!LoopSpec, Loop!StoppedStartsNothing

HIDE DEF isRunning, activeAbort, isExecutingStep, timer, step, stops, run, spent, recorded, recordFailed

-----------------------------------------------------------------------------
(***************************************************************************)
(* The platform: each component's invariant holds in its scenes, and with  *)
(* it what the platform's properties say of the component.                 *)
(***************************************************************************)

\* A scene is never left.
LEMMA SceneStays == [MCNext]_<<stepVars, scene, shared>> => scene' = scene
  BY DEF MCNext

\* Only the scene of the steps moves the simulator's steps ...
LEMMA StepsOfScenes == MCNext => [StepsNext]_stepVars
  BY DEF MCNext

\* ... and whoever is at it, they are shared and truthful.
THEOREM PlatformTurnsAreShared == MCSpec => []EveryoneHasATurn
  <1>1. MCInit => TurnsInv  BY TurnsInit DEF MCInit
  <1>2. TurnsInv /\ [MCNext]_<<stepVars, scene, shared>> => TurnsInv'
    BY TurnsStep, StepsOfScenes
  <1>3. TurnsInv => EveryoneHasATurn  BY TurnsShare
  <1> QED BY <1>1, <1>2, <1>3, PTL DEF MCSpec

\* What the simulator's steps say holds of the platform too.
THEOREM PlatformStepsAreTruthful == MCSpec => []StepsTellTheTruth
  <1>1. MCInit => TurnsInv /\ StepsInv  BY TurnsInit, StepsInitially DEF MCInit
  <1>2. TurnsInv /\ StepsInv /\ [MCNext]_<<stepVars, scene, shared>> => TurnsInv' /\ StepsInv'
    BY TurnsStep, StepsStep, StepsOfScenes
  <1>3. StepsInv => StepsTellTheTruth  BY StepsAreSo
  <1> QED BY <1>1, <1>2, <1>3, PTL DEF MCSpec

\* The trust of an agent is what its outcomes earned, however reports of the
\* outcomes, registrations and the stores they are written to interleave
\* (agent-registry.service.ts).
THEOREM TrustIsAlwaysEarned == MCSpec => []TrustIsEarned
  <1> DEFINE Inv == scene = "registry" => RegInv
  <1>1. MCInit => Inv  BY RegInvInit DEF MCInit, CloudScenes, WorkScenes, AuditScenes
  <1>2. Inv /\ [MCNext]_<<stepVars, scene, shared>> => Inv'
    <2> SUFFICES ASSUME RegInv, [MCNext]_<<stepVars, scene, shared>>, scene = "registry"
                 PROVE  RegInv'
      BY SceneStays
    <2>1. CASE UNCHANGED shared
      BY <2>1, RegInvNext DEF shared, Registry!registryVars
    <2>2. CASE MCNext /\ ~UNCHANGED shared
      <3>1. RegistryNext  BY <2>2 DEF MCNext
      <3> QED BY <3>1, RegInvNext DEF RegistryNext
    <2> QED BY <2>1, <2>2 DEF MCNext
  <1>3. Inv => TrustIsEarned  BY RegInvImplies DEF TrustIsEarned
  <1> QED BY <1>1, <1>2, <1>3, PTL DEF MCSpec

\* The capacity loop settles in one move, for every demand and whatever the pulses
\* that overlap (capacity-planner.ts, stepInfraTelemetryPulse).
THEOREM TheLoopSettles == MCSpec => []SettlesInOneMove
  <1> DEFINE Inv == scene = "capacity" => CapInv
  <1>1. MCInit => Inv  BY CapInvInit DEF MCInit, CloudScenes, WorkScenes, AuditScenes
  <1>2. Inv /\ [MCNext]_<<stepVars, scene, shared>> => Inv'
    <2> SUFFICES ASSUME CapInv, [MCNext]_<<stepVars, scene, shared>>, scene = "capacity"
                 PROVE  CapInv'
      BY SceneStays
    <2>1. CASE UNCHANGED shared
      BY <2>1, CapInvNext DEF shared, Capacity!loopVars, Capacity!infraVars
    <2>2. CASE MCNext /\ ~UNCHANGED shared
      <3>1. CapacityNext  BY <2>2 DEF MCNext
      <3> QED BY <3>1, CapInvNext DEF CapacityNext
    <2> QED BY <2>1, <2>2 DEF MCNext
  <1>3. Inv => SettlesInOneMove  BY CapInvImplies DEF SettlesInOneMove
  <1> QED BY <1>1, <1>2, <1>3, PTL DEF MCSpec

\* Where infrastructure is scaled by its own clients, and where by a saga too.
CloudSceneInv ==
  /\ scene = "scaling" => CloudInv
  /\ scene = "saga" => SagaInv

\* Both scenes keep their invariants.
LEMMA CloudScenesKeep == MCSpec => []CloudSceneInv
  <1>1. MCInit => CloudSceneInv
    BY CloudInvInit, SagaInvInit DEF MCInit, CloudSceneInv, CloudScenes, WorkScenes, AuditScenes
  <1>2. CloudSceneInv /\ [MCNext]_<<stepVars, scene, shared>> => CloudSceneInv'
    <2> SUFFICES ASSUME CloudSceneInv, [MCNext]_<<stepVars, scene, shared>> PROVE CloudSceneInv'
      OBVIOUS
    <2>0. scene' = scene  BY SceneStays
    <2>1. CASE UNCHANGED shared
      <3>1. UNCHANGED <<Cloud!infraVars, Cloud!sagaVars>>
        BY <2>1 DEF shared, Cloud!infraVars, Cloud!sagaVars
      <3> QED BY <2>0, <3>1, CloudInvNext, SagaInvStutters DEF CloudSceneInv
    <2>2. CASE scene = "scaling" /\ ~UNCHANGED shared
      <3>1. ScalingNext  BY <2>2 DEF MCNext
      <3> QED BY <2>0, <2>2, <3>1, CloudInvNext DEF ScalingNext, CloudSceneInv
    <2>3. CASE scene = "saga" /\ ~UNCHANGED shared
      <3>1. SagaNext  BY <2>3 DEF MCNext
      <3>2. Saga \in Sagas  BY DEF Sagas
      <3> QED
        BY <2>0, <2>3, <3>1, <3>2, SagaStepKeeps, SagaClientKeeps DEF SagaNext, CloudSceneInv
    <2> QED BY <2>0, <2>1, <2>2, <2>3 DEF CloudSceneInv
  <1> QED BY <1>1, <1>2, PTL DEF MCSpec

\* The replicas are what the scaling event last applied says, whoever scales, rolls
\* back and stores in between (infrastructure.service.ts).
THEOREM TheClusterFollows == MCSpec => []ClusterFollowsEvents
  <1>1. CloudSceneInv => ClusterFollowsEvents
    <2>1. SagaInv => CloudInv  BY DEF SagaInv
    <2> QED BY <2>1, CloudInvImplies DEF CloudSceneInv, ClusterFollowsEvents, CloudScenes
  <1> QED BY <1>1, CloudScenesKeep, PTL

\* A saga that failed has taken back what it scaled and reserved, unless the calls
\* that take it back threw (enterprise-saga.service.ts).
THEOREM FailedSagasAreUndone == MCSpec => []FailedSagaIsUndone
  <1>1. CloudSceneInv => FailedSagaIsUndone
    BY SagaInvImplies DEF CloudSceneInv, FailedSagaIsUndone
  <1> QED BY <1>1, CloudScenesKeep, PTL

\* Where tasks are attempted by anyone, and where by the goals that created them.
WorkSceneInv ==
  /\ scene = "tasks" => TaskInv /\ OutcomesKnown /\ Work!GoalInit
  /\ scene = "goals" => GoalInv

\* Tasks are not evaluated again without bound, and goals that stopped stay stopped
\* (workflow-task.service.ts, orchestrator.service.ts).
THEOREM TasksAlwaysStop == MCSpec => []TasksStop
  <1>1. MCInit => WorkSceneInv
    BY TaskInvInit, OutcomesKnownInit, GoalInvInit
       DEF MCInit, WorkSceneInv, CloudScenes, WorkScenes, AuditScenes
  <1>2. WorkSceneInv /\ [MCNext]_<<stepVars, scene, shared>> => WorkSceneInv'
    <2> SUFFICES ASSUME WorkSceneInv, [MCNext]_<<stepVars, scene, shared>> PROVE WorkSceneInv'
      OBVIOUS
    <2>0. scene' = scene  BY SceneStays
    <2>i. UNCHANGED <<s8, s9, s10>> /\ Work!GoalInit => Work!GoalInit'  BY DEF Work!GoalInit
    <2>1. CASE UNCHANGED shared
      <3>1. UNCHANGED <<Work!taskVars, Work!goalVars>> /\ UNCHANGED <<s8, s9, s10>>
        BY <2>1 DEF shared, Work!taskVars, Work!goalVars
      <3>2. OutcomesKnown => OutcomesKnown'  BY <2>1 DEF shared, OutcomesKnown, attempt
      <3> QED BY <2>0, <2>i, <3>1, <3>2, TaskInvStutters, GoalInvStutters DEF WorkSceneInv
    <2>2. CASE scene = "tasks" /\ ~UNCHANGED shared
      <3>1. TasksNext  BY <2>2 DEF MCNext
      <3> QED BY <2>0, <2>2, <2>i, <3>1, TaskStepKeeps DEF TasksNext, WorkSceneInv
    <2>3. CASE scene = "goals" /\ ~UNCHANGED shared
      <3>1. PICK g \in Pairs : Work!GoalStep(g)  BY <2>3 DEF MCNext
      <3> QED BY <2>0, <2>3, <3>1, GoalStepKeeps DEF WorkSceneInv
    <2> QED BY <2>0, <2>1, <2>2, <2>3 DEF WorkSceneInv
  <1>3. WorkSceneInv => TasksStop
    <2>1. Work!GoalInit => Work!GoalTypeOK /\ Work!StoppedGoals
      BY DEF Work!GoalInit, Work!GoalTypeOK, Work!StoppedGoals, Work!NewGoal, Work!At
    <2>2. GoalInv => TaskInv  BY DEF GoalInv
    <2> QED BY <2>1, <2>2, TaskInvImplies, TaskTypesImply, GoalInvImplies
            DEF WorkSceneInv, TasksStop, WorkScenes
  <1> QED BY <1>1, <1>2, <1>3, PTL DEF MCSpec

\* The invariant of the loop holds in its scene.
LoopSceneInv == scene = "loop" => SimInv

\* It holds at the start ...
LEMMA LoopSceneStarts == MCInit => LoopSceneInv
  BY SimInvInit DEF MCInit, LoopSceneInv, CloudScenes, WorkScenes, AuditScenes

\* A step of the scene is a step of the loop.
LEMMA LoopOfScenes ==
  [MCNext]_<<stepVars, scene, shared>> /\ scene = "loop" => [Loop!LoopNext]_(Loop!loopVars)
  <1>1. UNCHANGED shared => UNCHANGED Loop!loopVars
    BY DEF shared, Loop!loopVars, Loop!simVars, Loop!runVars
  <1> QED BY <1>1 DEF MCNext

\* ... and is kept.
LEMMA LoopSceneKeeps ==
  LoopSceneInv /\ [MCNext]_<<stepVars, scene, shared>> => LoopSceneInv'
  BY SceneStays, LoopOfScenes, SimInvNext DEF LoopSceneInv

\* Steps overlap only after stops, the loop stays alive while it runs, and no tick
\* comes to nothing, for any number of steps and stops (simulator.service.ts).
THEOREM TheLoopIsOne == MCSpec => []OneLoop
  <1>1. LoopSceneInv => OneLoop  BY SimInvImplies DEF LoopSceneInv, OneLoop
  <1> QED BY <1>1, LoopSceneStarts, LoopSceneKeeps, PTL DEF MCSpec

\* After a stop the agents under way start nothing more (isAborted of runAgent).
THEOREM StopsAreAlwaysHeeded == MCSpec => StopIsHeeded
  <1>1. LoopSceneInv /\ [MCNext]_<<stepVars, scene, shared>>
          => [scene = "loop" => Loop!StartsNothing]_<<scene, shared>>
    BY LoopOfScenes, StopStartsNothing DEF LoopSceneInv
  <1> QED BY <1>1, LoopSceneStarts, LoopSceneKeeps, PTL DEF MCSpec, StopIsHeeded

(***************************************************************************)
(* The audit trail.                                                        *)
(***************************************************************************)

\* A request and a record of the log.
AuditRow == [pc : {"none", "handler", "answered"}, id : Twins \cup {"none"}, at : Servers \cup {"none"},
             records : 0 .. 2, ownRecords : 0 .. 1, outcome : {"none", "SUCCESS", "FAILURE"}]
LogRecord == [request : Pairs, n : Nat, id : Twins, status : {"SUCCESS", "FAILURE"}]

\* How many records a request has, by how far it is.
Counted(q) ==
  /\ q \in AuditRow
  /\ q.pc = "none" => q = Audit!Absent
  /\ q.pc # "none" => q.id \in Twins /\ q.at \in Servers
  /\ q.pc = "handler" => q.outcome = "none" /\ q.records = q.ownRecords
  /\ q.pc = "answered" => q.outcome \in {"SUCCESS", "FAILURE"}
  /\ q.outcome = "SUCCESS" => q.records <= 1

AuditTables ==
  /\ s1 \in [Pairs -> AuditRow] /\ s2 \in [Servers -> SUBSET LogRecord]
  /\ \A r \in Pairs : Counted(s1[r])

\* A record is of a request, on the server that has it, and only the last may be a failure.
Written(x, s) ==
  LET q == s1[x.request]
  IN  /\ q.pc # "none" /\ q.at = s /\ q.id = x.id /\ x.n < q.records
      /\ x.status = "FAILURE" => q.outcome = "FAILURE" /\ x.n + 1 = q.records

OncePerNumber(s) == \A x, y \in s2[s] : x.request = y.request /\ x.n = y.n => x = y

\* What a request must have in the log, unless another has its id.
Present(r) ==
  LET q == s1[r]
  IN  /\ q.outcome = "FAILURE" => \E x \in s2[q.at] : x.request = r /\ x.status = "FAILURE"
      /\ q.outcome # "FAILURE" /\ q.records = 1 => \E x \in s2[q.at] : x.request = r
      /\ q.outcome = "SUCCESS" /\ q.records = 0 =>
           \E p \in Pairs \ {r} : s1[p].pc # "none" /\ s1[p].id = q.id

LogInv ==
  /\ AuditTables
  /\ \A s \in Servers : OncePerNumber(s) /\ \A x \in s2[s] : Written(x, s)
  /\ \A r \in Pairs : Present(r)

\* A request that has not arrived.
LEMMA AbsentRow ==
  /\ Audit!Absent \in AuditRow /\ Audit!Absent.pc = "none" /\ Audit!Absent.outcome = "none"
  /\ Audit!Absent.records = 0
  BY DEF Audit!Absent, AuditRow

\* A request that has records has arrived.
LEMMA RecordsHaveArrived ==
  ASSUME NEW q, Counted(q), q.pc = "none"
  PROVE  q.outcome = "none" /\ q.records = 0
  BY AbsentRow DEF Counted

\* Before the first request.
LEMMA LogStarts == Audit!AuditInit => LogInv
  <1> SUFFICES ASSUME Audit!AuditInit PROVE LogInv
    OBVIOUS
  <1>2. Counted(Audit!Absent)
    BY AbsentRow DEF Counted
  <1>3. s1 = [r \in Pairs |-> Audit!Absent] /\ s2 = [s \in Servers |-> {}]
    BY DEF Audit!AuditInit
  <1>4. \A r \in Pairs : s1[r] = Audit!Absent
    BY <1>3
  <1>5. AuditTables
    BY AbsentRow, <1>2, <1>3, <1>4 DEF AuditTables
  <1>6. \A s \in Servers : s2[s] = {}
    BY <1>3
  <1>7. \A r \in Pairs : Present(r)
    <2> TAKE r \in Pairs
    <2>1. s1[r].outcome = "none" /\ s1[r].records = 0
      BY <1>4, AbsentRow
    <2> QED
      BY <2>1 DEF Present
  <1> QED
    BY <1>5, <1>6, <1>7 DEF LogInv, OncePerNumber

\* A request that moves without a record keeps the log,
LEMMA RequestMoves ==
  ASSUME LogInv, NEW r \in Pairs, NEW q, s1' = [s1 EXCEPT ![r] = q], s2' = s2,
         Counted(q), q.pc # "none", q.outcome # "FAILURE", s1[r].outcome = "none",
         q.records = s1[r].records,
         s1[r].pc # "none" => q.id = s1[r].id /\ q.at = s1[r].at,
         q.outcome = "SUCCESS" /\ q.records = 0 =>
           \E p \in Pairs \ {r} : s1[p].pc # "none" /\ s1[p].id = q.id
  PROVE  LogInv'
  <1>1. s1'[r] = q /\ \A p \in Pairs \ {r} : s1'[p] = s1[p]
    BY DEF LogInv, AuditTables
  <1>2. AuditTables'
    BY <1>1 DEF LogInv, AuditTables, Counted
  <1>3. ASSUME NEW s \in Servers PROVE OncePerNumber(s)' /\ \A x \in s2[s] : Written(x, s)'
    <2>1. ASSUME NEW x \in s2[s] PROVE Written(x, s)'
      <3>1. Written(x, s)
        BY DEF LogInv
      <3>2. s2[s] \subseteq LogRecord
        BY DEF LogInv, AuditTables
      <3>3. x.request \in Pairs
        BY <3>2 DEF LogRecord
      <3> QED
        BY <1>1, <3>1, <3>3 DEF Written
    <2> QED
      BY <2>1 DEF LogInv, OncePerNumber
  <1>4. ASSUME NEW p \in Pairs PROVE Present(p)'
    <2>1. Present(p)
      BY DEF LogInv
    <2>2. CASE p # r
      BY <1>1, <2>1, <2>2 DEF Present
    <2>3. CASE p = r
      <3>1. Counted(s1[r])
        BY DEF LogInv, AuditTables
      <3>3. s1[r].pc = "none" => s1[r].records = 0
        BY <3>1, RecordsHaveArrived
      <3>2. q.records = 1 => s1[r].pc # "none"
        BY <3>3
      <3> QED
        BY <1>1, <2>1, <2>3, <3>2 DEF Present
    <2> QED
      BY <2>2, <2>3
  <1> QED
    BY <1>2, <1>3, <1>4 DEF LogInv

\* and so does one that moves with a record.
LEMMA RequestRecords ==
  ASSUME LogInv, NEW r \in Pairs, NEW q, NEW status \in {"SUCCESS", "FAILURE"}, s1[r].pc = "handler",
         s1' = [s1 EXCEPT ![r] = q], Audit!Recorded(r, status),
         Counted(q), q.pc # "none", q.id = s1[r].id, q.at = s1[r].at,
         q.records = s1[r].records + 1, q.outcome = "FAILURE" <=> status = "FAILURE"
  PROVE  LogInv'
  <1>a. PICK x : x = [request |-> r, n |-> s1[r].records, id |-> s1[r].id, status |-> status]
    OBVIOUS
  <1>b. PICK at : at = s1[r].at
    OBVIOUS
  <1>1. s1'[r] = q /\ \A p \in Pairs \ {r} : s1'[p] = s1[p]
    BY DEF LogInv, AuditTables
  <1>2. /\ Counted(s1[r]) /\ at \in Servers /\ s1[r].id \in Twins /\ s1[r].records \in 0 .. 1
        /\ s1[r].outcome = "none"
    BY <1>b DEF LogInv, AuditTables, Counted, AuditRow
  <1>3. /\ x \in LogRecord /\ x.request = r /\ x.n = s1[r].records /\ x.id = s1[r].id
        /\ x.status = status
    <2>1. PICK n \in Nat, id \in Twins : n = s1[r].records /\ id = s1[r].id
      BY <1>2
    <2>2. x = [request |-> r, n |-> n, id |-> id, status |-> status]
      BY <1>a, <2>1
    <2>3. x \in LogRecord /\ x.request = r /\ x.n = n /\ x.id = id /\ x.status = status
      BY <2>2 DEF LogRecord
    <2> QED
      BY <2>1, <2>3
  <1>4. s2' = [s2 EXCEPT ![at] = @ \cup {x}]
    BY <1>a, <1>b DEF Audit!Recorded
  <1>5. s2'[at] = s2[at] \cup {x} /\ \A s \in Servers \ {at} : s2'[s] = s2[s]
    BY <1>2, <1>4 DEF LogInv, AuditTables
  <1>6. AuditTables'
    <2>1. s2' \in [Servers -> SUBSET LogRecord]
      BY <1>2, <1>3, <1>4 DEF LogInv, AuditTables
    <2> QED
      BY <1>1, <2>1 DEF LogInv, AuditTables, Counted
  <1>7. ASSUME NEW s \in Servers, NEW y \in s2[s] PROVE Written(y, s)' /\ (y.request = r => y.n < x.n)
    <2>1. Written(y, s) /\ s2[s] \subseteq LogRecord
      BY DEF LogInv, AuditTables
    <2>4. y.request \in Pairs /\ y.n \in Nat
      BY <2>1 DEF LogRecord
    <2>2. CASE y.request # r
      BY <1>1, <2>1, <2>2, <2>4 DEF Written
    <2>3. CASE y.request = r
      <3>1. y.status # "FAILURE" /\ s1[r].pc # "none" /\ s1[r].at = s /\ s1[r].id = y.id
        BY <1>2, <2>1, <2>3 DEF Written
      <3>2. y.n < s1[r].records /\ y.n < q.records
        BY <1>2, <2>1, <2>3, <2>4 DEF Written
      <3> QED
        BY <1>1, <1>3, <2>3, <3>1, <3>2 DEF Written
    <2> QED
      BY <2>2, <2>3
  <1>8. Written(x, at)'
    BY <1>1, <1>2, <1>3, <1>b DEF Written
  <1>9. ASSUME NEW s \in Servers PROVE OncePerNumber(s)' /\ \A y \in s2'[s] : Written(y, s)'
    <2>1. ASSUME NEW y \in s2'[s] PROVE Written(y, s)'
      <3>1. y \in s2[s] \/ (s = at /\ y = x)
        BY <1>5
      <3> QED
        BY <1>7, <1>8, <3>1
    <2>2. ASSUME NEW y \in s2'[s], NEW z \in s2'[s], y.request = z.request, y.n = z.n PROVE y = z
      <3>1. CASE y \in s2[s] /\ z \in s2[s]
        BY <2>2, <3>1 DEF LogInv, OncePerNumber
      <3>2. CASE s = at /\ y = x /\ z \in s2[s]
        BY <1>2, <1>3, <1>7, <2>2, <3>2
      <3>3. CASE s = at /\ z = x /\ y \in s2[s]
        BY <1>2, <1>3, <1>7, <2>2, <3>3
      <3> QED
        BY <1>5, <3>1, <3>2, <3>3
    <2> QED
      BY <2>1, <2>2 DEF OncePerNumber
  <1>10. ASSUME NEW p \in Pairs PROVE Present(p)'
    <2>1. Present(p)
      BY DEF LogInv
    <2>2. CASE p # r
      <3>1. s1'[p] = s1[p]
        BY <1>1, <2>2
      <3>6. Counted(s1[p])
        BY DEF LogInv, AuditTables
      <3>2. s1[p].outcome # "none" => s1[p].at \in Servers
        BY <3>6, RecordsHaveArrived DEF Counted
      <3>3. s1[p].records = 1 => s1[p].at \in Servers
        BY <3>6, RecordsHaveArrived DEF Counted
      <3>4. \A s \in Servers : s2[s] \subseteq s2'[s]
        BY <1>5
      <3>5. s1[r].pc # "none" /\ s1'[r].pc # "none" /\ s1'[r].id = s1[r].id
        BY <1>1
      <3> QED
        BY <1>1, <2>1, <3>1, <3>2, <3>3, <3>4, <3>5 DEF Present
    <2>3. CASE p = r
      <3>1. x \in s2'[at] /\ x.request = r /\ x.status = status /\ q.at = at /\ q.records # 0
        BY <1>2, <1>3, <1>5, <1>b
      <3> QED
        BY <1>1, <2>3, <3>1 DEF Present
    <2> QED
      BY <2>2, <2>3
  <1> QED
    BY <1>6, <1>9, <1>10 DEF LogInv

\* A request arrives,
LEMMA ArriveKeeps ==
  ASSUME LogInv, NEW r \in Pairs, NEW s \in Servers, NEW id \in Twins, Audit!Arrive(r, s, id)
  PROVE  LogInv'
  <1>1. PICK q : q = [Audit!Absent EXCEPT !.pc = "handler", !.id = id, !.at = s]
    OBVIOUS
  <1>2. s1[r] = Audit!Absent /\ s1' = [s1 EXCEPT ![r] = q] /\ s2' = s2
    BY <1>1 DEF Audit!Arrive
  <1>3. q = [pc |-> "handler", id |-> id, at |-> s, records |-> 0, ownRecords |-> 0, outcome |-> "none"]
    BY <1>1 DEF Audit!Absent
  <1>4. q.pc = "handler" /\ q.id = id /\ q.at = s /\ q.records = 0 /\ q.ownRecords = 0 /\ q.outcome = "none"
    BY <1>3
  <1>5. q \in AuditRow
    BY <1>3 DEF AuditRow
  <1>6. Counted(q)
    BY <1>4, <1>5 DEF Counted
  <1> QED
    BY <1>2, <1>4, <1>6, AbsentRow, RequestMoves

\* its service records what it does,
LEMMA ServiceKeeps ==
  ASSUME LogInv, NEW r \in Pairs, Audit!ServiceRecords(r)
  PROVE  LogInv'
  <1>1. PICK q : q = [s1[r] EXCEPT !.records = s1[r].records + 1, !.ownRecords = 1]
    OBVIOUS
  <1>2. Counted(s1[r]) /\ s1[r] \in AuditRow
    BY DEF LogInv, AuditTables
  <1>3. /\ s1[r].pc = "handler" /\ s1[r].ownRecords = 0 /\ Audit!Recorded(r, "SUCCESS")
        /\ s1' = [s1 EXCEPT ![r] = q]
    <2>1. s1' = [s1 EXCEPT ![r].records = s1[r].records + 1, ![r].ownRecords = 1]
      BY DEF Audit!ServiceRecords, LogInv, AuditTables
    <2> QED
      BY <1>1, <2>1 DEF Audit!ServiceRecords, LogInv, AuditTables
  <1>4. s1[r].records = 0 /\ s1[r].outcome = "none" /\ s1[r].id \in Twins /\ s1[r].at \in Servers
    BY <1>2, <1>3 DEF Counted
  <1>5. /\ q.pc = "handler" /\ q.id = s1[r].id /\ q.at = s1[r].at /\ q.records = 1 /\ q.ownRecords = 1
        /\ q.outcome = "none" /\ q \in AuditRow
    <2>1. s1[r].records + 1 = 1
      BY <1>4
    <2>2. q = [pc |-> s1[r].pc, id |-> s1[r].id, at |-> s1[r].at, records |-> 1, ownRecords |-> 1,
               outcome |-> s1[r].outcome]
      BY <1>1, <1>2, <2>1 DEF AuditRow
    <2>3. q \in AuditRow
      BY <1>3, <1>4, <2>2 DEF AuditRow
    <2> QED
      BY <1>3, <1>4, <2>2, <2>3
  <1>6. Counted(q)
    BY <1>4, <1>5 DEF Counted
  <1>7. q.records = s1[r].records + 1 /\ (q.outcome = "FAILURE" <=> "SUCCESS" = "FAILURE") /\ q.pc # "none"
    BY <1>4, <1>5
  <1> QED
    BY <1>3, <1>5, <1>6, <1>7, RequestRecords

\* the interceptor stands down only for a record under the same id,
LEMMA AnsweredKeeps ==
  ASSUME LogInv, NEW r \in Pairs, Audit!Answered(r)
  PROVE  LogInv'
  <1>1. /\ Counted(s1[r]) /\ s1[r] \in AuditRow /\ Present(r)
        /\ \A x \in s2[s1[r].at] : Written(x, s1[r].at) \/ s1[r].at \notin Servers
    BY DEF LogInv, AuditTables
  <1>2. /\ s1[r].pc = "handler" /\ s1[r].outcome = "none" /\ s1[r].records = s1[r].ownRecords
        /\ s1[r].id \in Twins /\ s1[r].at \in Servers
    BY <1>1 DEF Audit!Answered, Counted
  <1>3. s1[r].records \in 0 .. 1
    BY <1>1, <1>2 DEF AuditRow
  <1>4. CASE Audit!StandsDown(r)
    <2>1. PICK q : q = [s1[r] EXCEPT !.pc = "answered", !.outcome = "SUCCESS"]
      OBVIOUS
    <2>2. s1' = [s1 EXCEPT ![r] = q] /\ s2' = s2
      <3>1. /\ s1' = [s1 EXCEPT ![r].pc = "answered", ![r].outcome = "SUCCESS", ![r].records = @]
            /\ s2' = s2
        BY <1>4 DEF Audit!Answered
      <3>2. PICK p : p = [s1[r] EXCEPT !.pc = "answered", !.outcome = "SUCCESS", !.records = @]
        OBVIOUS
      <3>3. s1' = [s1 EXCEPT ![r] = p]
        BY <3>1, <3>2 DEF LogInv, AuditTables
      <3>4. p = q
        BY <1>1, <2>1, <3>2 DEF AuditRow
      <3> QED
        BY <3>1, <3>3, <3>4
    <2>3. /\ q.pc = "answered" /\ q.id = s1[r].id /\ q.at = s1[r].at /\ q.records = s1[r].records
          /\ q.outcome = "SUCCESS" /\ q \in AuditRow
      BY <1>1, <1>2, <2>1 DEF AuditRow
    <2>4. Counted(q)
      BY <1>2, <1>3, <2>3 DEF Counted
    <2>5. q.records = 0 => \E p \in Pairs \ {r} : s1[p].pc # "none" /\ s1[p].id = q.id
      <3> SUFFICES ASSUME q.records = 0
                   PROVE  \E p \in Pairs \ {r} : s1[p].pc # "none" /\ s1[p].id = q.id
        OBVIOUS
      <3>1. PICK x \in s2[s1[r].at] : x.id = s1[r].id
        BY <1>4 DEF Audit!StandsDown, Audit!RecordedInCurrentRequest
      <3>2. Written(x, s1[r].at) /\ s2[s1[r].at] \subseteq LogRecord
        BY <1>2 DEF LogInv, AuditTables
      <3>3. x.request \in Pairs /\ x.n \in Nat
        BY <3>2 DEF LogRecord
      <3>4. s1[x.request].pc # "none" /\ s1[x.request].id = x.id /\ x.n < s1[x.request].records
        BY <3>2 DEF Written
      <3>5. x.request # r
        BY <2>3, <3>3, <3>4
      <3> QED
        BY <2>3, <3>1, <3>3, <3>4, <3>5
    <2> QED
      BY <1>2, <2>2, <2>3, <2>4, <2>5, RequestMoves
  <1>5. CASE ~Audit!StandsDown(r)
    <2>1. PICK q : q = [s1[r] EXCEPT !.pc = "answered", !.outcome = "SUCCESS", !.records = s1[r].records + 1]
      OBVIOUS
    <2>2. s1' = [s1 EXCEPT ![r] = q] /\ Audit!Recorded(r, "SUCCESS")
      BY <1>5, <2>1 DEF Audit!Answered, LogInv, AuditTables
    <2>3. s1[r].records = 0
      <3>1. \A x \in s2[s1[r].at] : x.id # s1[r].id
        BY <1>5 DEF Audit!StandsDown, Audit!RecordedInCurrentRequest
      <3>2. ~\E x \in s2[s1[r].at] : x.request = r
        BY <1>1, <1>2, <3>1 DEF Written
      <3> QED
        BY <1>1, <1>2, <1>3, <3>2 DEF Present
    <2>4. /\ q.pc = "answered" /\ q.id = s1[r].id /\ q.at = s1[r].at /\ q.records = 1
          /\ q.outcome = "SUCCESS" /\ q \in AuditRow
      <3>1. s1[r].records + 1 = 1
        BY <2>3
      <3>2. q = [pc |-> "answered", id |-> s1[r].id, at |-> s1[r].at, records |-> 1,
                 ownRecords |-> s1[r].ownRecords, outcome |-> "SUCCESS"]
        BY <1>1, <2>1, <3>1 DEF AuditRow
      <3>3. q \in AuditRow
        BY <1>1, <1>2, <3>2 DEF AuditRow
      <3> QED
        BY <3>2, <3>3
    <2>5. Counted(q)
      BY <1>2, <2>4 DEF Counted
    <2>6. q.records = s1[r].records + 1 /\ (q.outcome = "FAILURE" <=> "SUCCESS" = "FAILURE") /\ q.pc # "none"
      BY <2>3, <2>4
    <2> QED
      BY <1>2, <2>2, <2>4, <2>5, <2>6, RequestRecords
  <1> QED
    BY <1>4, <1>5

\* and records in any case what was thrown.
LEMMA ThrewKeeps ==
  ASSUME LogInv, NEW r \in Pairs, Audit!Threw(r)
  PROVE  LogInv'
  <1>1. PICK q : q = [s1[r] EXCEPT !.pc = "answered", !.outcome = "FAILURE", !.records = s1[r].records + 1]
    OBVIOUS
  <1>2. Counted(s1[r]) /\ s1[r] \in AuditRow
    BY DEF LogInv, AuditTables
  <1>3. s1[r].pc = "handler" /\ Audit!Recorded(r, "FAILURE") /\ s1' = [s1 EXCEPT ![r] = q]
    BY <1>1 DEF Audit!Threw, LogInv, AuditTables
  <1>4. /\ s1[r].records \in 0 .. 1 /\ s1[r].outcome = "none" /\ s1[r].id \in Twins /\ s1[r].at \in Servers
    BY <1>2, <1>3 DEF Counted, AuditRow
  <1>5. /\ q.pc = "answered" /\ q.id = s1[r].id /\ q.at = s1[r].at /\ q.records = s1[r].records + 1
        /\ q.outcome = "FAILURE" /\ q \in AuditRow
    <2>1. PICK n \in 0 .. 2 : n = s1[r].records + 1
      BY <1>4
    <2>2. q = [pc |-> "answered", id |-> s1[r].id, at |-> s1[r].at, records |-> n,
               ownRecords |-> s1[r].ownRecords, outcome |-> "FAILURE"]
      BY <1>1, <1>2, <2>1 DEF AuditRow
    <2>3. q \in AuditRow
      BY <1>2, <1>4, <2>2 DEF AuditRow
    <2> QED
      BY <2>1, <2>2, <2>3
  <1>6. Counted(q)
    BY <1>4, <1>5 DEF Counted
  <1> QED
    BY <1>3, <1>5, <1>6, RequestRecords

\* So every step of the trail keeps the log.
LEMMA LogKeeps == LogInv /\ [Audit!AuditNext]_(Audit!auditVars) => LogInv'
  <1> SUFFICES ASSUME LogInv, [Audit!AuditNext]_(Audit!auditVars) PROVE LogInv'
    OBVIOUS
  <1>1. CASE UNCHANGED <<s1, s2>>
    BY <1>1 DEF LogInv, AuditTables, OncePerNumber, Written, Present
  <1>2. ASSUME NEW r \in Pairs,
               (\E s \in Servers, id \in Twins : Audit!Arrive(r, s, id))
               \/ Audit!ServiceRecords(r) \/ Audit!Answered(r) \/ Audit!Threw(r)
        PROVE  LogInv'
    BY <1>2, ArriveKeeps, ServiceKeeps, AnsweredKeeps, ThrewKeeps
  <1>3. ASSUME NEW p \in s7, Audit!PublishEnds(p) PROVE UNCHANGED <<s1, s2>>
    BY <1>3 DEF Audit!PublishEnds
  <1>4. ASSUME NEW s \in Servers,
               (\E news \in s6[s] : Audit!OnMessage(s, news)) \/ Audit!RedisConnects(s)
               \/ (\E reported \in BOOLEAN : Audit!RedisFails(s, reported))
        PROVE  UNCHANGED <<s1, s2>>
    BY <1>4 DEF Audit!OnMessage, Audit!RedisConnects, Audit!RedisFails
  <1>5. CASE UNCHANGED Audit!auditVars
    BY <1>1, <1>5 DEF Audit!auditVars
  <1> QED
    BY <1>1, <1>2, <1>3, <1>4, <1>5 DEF Audit!AuditNext

\* What is logged of a request that was answered.
LEMMA LogShows == LogInv => Audit!AuditedOnce
  <1> SUFFICES ASSUME LogInv, NEW r \in Pairs, s1[r].pc = "answered"
               PROVE  /\ s1[r].outcome = "FAILURE" =>
                           Audit!Cardinality({x \in Audit!RecordsOf(r) : x.status = "FAILURE"}) = 1
                      /\ s1[r].outcome = "SUCCESS" =>
                           /\ Audit!Cardinality(Audit!RecordsOf(r)) <= 1
                           /\ ~Audit!SharesItsId(r) => Audit!Cardinality(Audit!RecordsOf(r)) = 1
    BY DEF Audit!AuditedOnce
  <1>1. Counted(s1[r]) /\ Present(r) /\ s1[r].at \in Servers
    BY DEF LogInv, AuditTables, Counted
  <1>2. PICK at \in Servers : at = s1[r].at
    BY <1>1
  <1>3. /\ OncePerNumber(at) /\ s2[at] \subseteq LogRecord /\ \A x \in s2[at] : Written(x, at)
        /\ s1[r].records \in 0 .. 2
    BY <1>1 DEF LogInv, AuditTables, Counted, AuditRow
  <1>4. \A x : Audit!Cardinality({x}) = 1
    BY FS_Singleton DEF Cardinality, Audit!Cardinality
  <1>5. Audit!Cardinality({}) = 0
    BY FS_EmptySet DEF Cardinality, Audit!Cardinality
  <1>6. Audit!RecordsOf(r) = {x \in s2[at] : x.request = r}
    BY <1>2 DEF Audit!RecordsOf
  <1>7. CASE s1[r].outcome = "FAILURE"
    <2>1. PICK x \in s2[at] : x.request = r /\ x.status = "FAILURE"
      BY <1>1, <1>2, <1>7 DEF Present
    <2>2. ASSUME NEW y \in s2[at], y.request = r, y.status = "FAILURE" PROVE y = x
      <3>1. y.n + 1 = s1[r].records /\ x.n + 1 = s1[r].records /\ y.n \in Nat /\ x.n \in Nat
        BY <1>3, <2>1, <2>2 DEF Written, LogRecord
      <3>2. y.n = x.n
        BY <3>1
      <3> QED
        BY <1>3, <2>1, <2>2, <3>2 DEF OncePerNumber
    <2>3. {y \in Audit!RecordsOf(r) : y.status = "FAILURE"} = {x}
      BY <1>6, <2>1, <2>2
    <2> QED
      BY <1>4, <1>7, <2>3
  <1>8. CASE s1[r].outcome = "SUCCESS"
    <2>1. s1[r].records \in 0 .. 1
      BY <1>1, <1>3, <1>8 DEF Counted
    <2>2. ASSUME NEW x \in s2[at], NEW y \in s2[at], x.request = r, y.request = r PROVE x = y
      <3>1. x.n \in Nat /\ y.n \in Nat /\ x.n < s1[r].records /\ y.n < s1[r].records
        BY <1>3, <2>2 DEF Written, LogRecord
      <3>2. x.n = y.n
        BY <2>1, <3>1
      <3> QED
        BY <1>3, <2>2, <3>2 DEF OncePerNumber
    <2>3. Audit!RecordsOf(r) = {} \/ \E x \in s2[at] : Audit!RecordsOf(r) = {x}
      BY <1>6, <2>2
    <2>4. Audit!Cardinality(Audit!RecordsOf(r)) <= 1
      <3>1. CASE Audit!RecordsOf(r) = {}
        BY <1>5, <3>1
      <3>2. ASSUME NEW x, Audit!RecordsOf(r) = {x} PROVE Audit!Cardinality(Audit!RecordsOf(r)) = 1
        BY <1>4, <3>2
      <3> QED
        BY <2>3, <3>1, <3>2
    <2>5. ASSUME ~Audit!SharesItsId(r) PROVE Audit!Cardinality(Audit!RecordsOf(r)) = 1
      <3>1. ~\E p \in Pairs \ {r} : s1[p].id = s1[r].id
        BY <2>5 DEF Audit!SharesItsId
      <3>2. s1[r].records # 0
        BY <1>1, <1>8, <3>1 DEF Present
      <3>3. s1[r].records = 1
        BY <2>1, <3>2
      <3>4. \E x \in s2[at] : x.request = r
        BY <1>1, <1>2, <1>8, <3>3 DEF Present
      <3>5. PICK x : Audit!RecordsOf(r) = {x}
        BY <1>6, <2>3, <3>4
      <3> QED
        BY <1>4, <3>5
    <2> QED
      BY <1>8, <2>4, <2>5
  <1> QED
    BY <1>7, <1>8

(***************************************************************************)
(* The event stream.                                                       *)
(***************************************************************************)

Event == Pairs \X Nat

StreamTables ==
  /\ s3 \in [Servers -> BOOLEAN] /\ s4 \in [Servers -> BOOLEAN] /\ s5 \in [Servers -> BOOLEAN]
  /\ s6 \in [Servers -> SUBSET Event]
  /\ s7 \subseteq [at : Servers, event : Event]
  /\ s9 \in [Listeners -> SUBSET Event]

\* What is on its way from a server will get back to it as long as nothing else is lost.
Returns == \A p \in s7 : s3[p.at] \/ ~s4[p.at] \/ ~s5[p.at]

StreamInv == StreamTables /\ Returns /\ Audit!OwnListenersHear

\* Before the first event,
LEMMA StreamStarts == Audit!AuditInit => StreamInv
  BY DEF Audit!AuditInit, StreamInv, StreamTables, Returns, Audit!OwnListenersHear, Audit!EventsOf

\* What listeners were sent they have been sent,
LEMMA HeardMore ==
  ASSUME StreamTables, NEW s \in Servers, NEW news \in Event
  PROVE  /\ Audit!Heard(s, news) \in [Listeners -> SUBSET Event]
         /\ \A l \in Listeners : s9[l] \subseteq Audit!Heard(s, news)[l]
         /\ \A l \in Audit!Audience(s, news) : news \in Audit!Heard(s, news)[l]
  BY DEF StreamTables, Audit!Heard, Audit!Audience

\* and a server sends every event to the same listeners.
LEMMA SameAudience ==
  ASSUME NEW s, NEW news, NEW other
  PROVE  Audit!Audience(s, news) = Audit!Audience(s, other) /\ Audit!Audience(s, news) \subseteq Listeners
  BY DEF Audit!Audience, Audit!Tenant

\* A record goes out as it is written.
LEMMA EmittedKeeps ==
  ASSUME LogInv, StreamInv, NEW r \in Pairs, NEW status \in {"SUCCESS", "FAILURE"}, s1[r].pc = "handler",
         Audit!Recorded(r, status), UNCHANGED <<s3, s4, s5, s6, s8>>
  PROVE  StreamInv'
  <1>1. PICK at \in Servers : at = s1[r].at
    BY DEF LogInv, AuditTables, Counted
  <1>2. PICK news \in Event : news = <<r, s1[r].records>>
    <2>1. s1[r] \in AuditRow
      BY DEF LogInv, AuditTables
    <2>2. s1[r].records \in Nat
      BY <2>1 DEF AuditRow
    <2> QED
      BY <2>2 DEF Event
  <1>3. PICK x : x = [request |-> r, n |-> s1[r].records, id |-> s1[r].id, status |-> status]
    OBVIOUS
  <1>4. <<x.request, x.n>> = news
    BY <1>2, <1>3
  <1>5. s2' = [s2 EXCEPT ![at] = @ \cup {x}] /\ Audit!Emit(at, news)
    BY <1>1, <1>2, <1>3 DEF Audit!Recorded
  <1>6. s2 \in [Servers -> SUBSET LogRecord]
    BY DEF LogInv, AuditTables
  <1>7. \A s \in Servers : Audit!EventsOf(s)' \subseteq Audit!EventsOf(s) \cup {e \in {news} : s = at}
    BY <1>4, <1>5, <1>6 DEF Audit!EventsOf
  <1>8. \A s, e : Audit!Audience(s, e)' = Audit!Audience(s, e)
    BY DEF Audit!Audience, Audit!Tenant
  <1>9. CASE s3[at]
    <2>1. s7' = s7 \cup {[at |-> at, event |-> news]} /\ s9' = s9
      BY <1>5, <1>9 DEF Audit!Emit
    <2>2. StreamTables'
      BY <2>1 DEF StreamInv, StreamTables
    <2>3. Returns'
      BY <1>9, <2>1 DEF StreamInv, Returns
    <2>4. ASSUME NEW s \in Servers, NEW e \in Audit!EventsOf(s)', NEW l \in Audit!Audience(s, e)
          PROVE  e \in s9'[l] \/ Audit!InFlight(s, e)' \/ ~s5'[s]
      <3>1. CASE e = news /\ s = at
        BY <2>1, <3>1 DEF Audit!InFlight
      <3>2. CASE e \in Audit!EventsOf(s)
        <4>1. e \in s9[l] \/ Audit!InFlight(s, e) \/ ~s5[s]
          BY <3>2 DEF StreamInv, Audit!OwnListenersHear
        <4> QED
          BY <2>1, <4>1 DEF Audit!InFlight
      <3> QED
        BY <1>7, <3>1, <3>2
    <2> QED
      BY <1>8, <2>2, <2>3, <2>4 DEF StreamInv, Audit!OwnListenersHear
  <1>10. CASE ~s3[at]
    <2>1. s9' = Audit!Heard(at, news) /\ s7' = s7
      BY <1>5, <1>10 DEF Audit!Emit
    <2>2. /\ s9' \in [Listeners -> SUBSET Event] /\ \A l \in Listeners : s9[l] \subseteq s9'[l]
          /\ \A l \in Audit!Audience(at, news) : news \in s9'[l]
      BY <2>1, HeardMore DEF StreamInv
    <2>3. StreamTables' /\ Returns'
      BY <2>1, <2>2 DEF StreamInv, StreamTables, Returns
    <2>4. ASSUME NEW s \in Servers, NEW e \in Audit!EventsOf(s)', NEW l \in Audit!Audience(s, e)
          PROVE  e \in s9'[l] \/ Audit!InFlight(s, e)' \/ ~s5'[s]
      <3>1. CASE e = news /\ s = at
        BY <2>2, <3>1
      <3>2. CASE e \in Audit!EventsOf(s)
        <4>1. e \in s9[l] \/ Audit!InFlight(s, e) \/ ~s5[s]
          BY <3>2 DEF StreamInv, Audit!OwnListenersHear
        <4> QED
          BY <2>1, <2>2, <4>1, SameAudience DEF Audit!InFlight
      <3> QED
        BY <1>7, <3>1, <3>2
    <2> QED
      BY <1>8, <2>3, <2>4 DEF StreamInv, Audit!OwnListenersHear
  <1> QED
    BY <1>9, <1>10

\* A publish call ends, and the event is in the channel or was heard,
LEMMA PublishedKeeps ==
  ASSUME StreamInv, NEW p \in s7, Audit!PublishEnds(p)
  PROVE  StreamInv'
  <1>1. PICK at \in Servers, news \in Event : p = [at |-> at, event |-> news]
    BY DEF StreamInv, StreamTables
  <1>2. p.at = at /\ p.event = news
    BY <1>1
  <1>3. s7' = s7 \ {p} /\ UNCHANGED <<s1, s2, s3, s4, s5, s8>>
    BY DEF Audit!PublishEnds, Audit!Stream
  <1>4. \A s, e : Audit!Audience(s, e)' = Audit!Audience(s, e) /\ Audit!EventsOf(s)' = Audit!EventsOf(s)
    BY <1>3 DEF Audit!Audience, Audit!Tenant, Audit!EventsOf
  <1>5. \A s, e : [at |-> s, event |-> e] = p => s = at /\ e = news
    BY <1>1
  <1>6. Returns'
    BY <1>3 DEF StreamInv, Returns
  <1>7. CASE /\ s4[p.at] /\ s9' = s9
             /\ s6' = [s \in Servers |-> IF s3[s] /\ s5[s] THEN s6[s] \cup {p.event} ELSE s6[s]]
    <2>1. StreamTables'
      BY <1>2, <1>3, <1>7 DEF StreamInv, StreamTables
    <2>2. s5[at] => news \in s6'[at]
      <3>1. s3[at] \/ ~s4[at] \/ ~s5[at]
        BY <1>2 DEF StreamInv, Returns
      <3> QED
        BY <1>2, <1>7, <3>1
    <2>3. \A s \in Servers : s6[s] \subseteq s6'[s]
      BY <1>7
    <2>4. ASSUME NEW s \in Servers, NEW e \in Audit!EventsOf(s), NEW l \in Audit!Audience(s, e)
          PROVE  e \in s9'[l] \/ Audit!InFlight(s, e)' \/ ~s5'[s]
      <3>1. e \in s9[l] \/ [at |-> s, event |-> e] \in s7 \/ e \in s6[s] \/ ~s5[s]
        BY DEF StreamInv, Audit!OwnListenersHear, Audit!InFlight
      <3> QED
        BY <1>3, <1>5, <1>7, <2>2, <2>3, <3>1 DEF Audit!InFlight
    <2> QED
      BY <1>4, <1>6, <2>1, <2>4 DEF StreamInv, Audit!OwnListenersHear
  <1>8. CASE s9' = Audit!Heard(p.at, p.event) /\ s6' = s6
    <2>1. /\ s9' \in [Listeners -> SUBSET Event] /\ \A l \in Listeners : s9[l] \subseteq s9'[l]
          /\ \A l \in Audit!Audience(at, news) : news \in s9'[l]
      BY <1>2, <1>8, HeardMore DEF StreamInv
    <2>2. StreamTables'
      BY <1>3, <1>8, <2>1 DEF StreamInv, StreamTables
    <2>3. ASSUME NEW s \in Servers, NEW e \in Audit!EventsOf(s), NEW l \in Audit!Audience(s, e)
          PROVE  e \in s9'[l] \/ Audit!InFlight(s, e)' \/ ~s5'[s]
      <3>1. e \in s9[l] \/ [at |-> s, event |-> e] \in s7 \/ e \in s6[s] \/ ~s5[s]
        BY DEF StreamInv, Audit!OwnListenersHear, Audit!InFlight
      <3> QED
        BY <1>3, <1>5, <1>8, <2>1, <3>1, SameAudience DEF Audit!InFlight
    <2> QED
      BY <1>4, <1>6, <2>2, <2>3 DEF StreamInv, Audit!OwnListenersHear
  <1> QED
    BY <1>7, <1>8 DEF Audit!PublishEnds

\* a message is taken from the channel and heard,
LEMMA MessageKeeps ==
  ASSUME StreamInv, NEW s \in Servers, NEW news \in s6[s], Audit!OnMessage(s, news)
  PROVE  StreamInv'
  <1>1. /\ s6' = [s6 EXCEPT ![s] = @ \ {news}] /\ s9' = Audit!Heard(s, news)
        /\ UNCHANGED <<s1, s2, s3, s4, s5, s7, s8>>
    BY DEF Audit!OnMessage, Audit!Stream
  <1>2. news \in Event
    BY DEF StreamInv, StreamTables
  <1>3. /\ s9' \in [Listeners -> SUBSET Event] /\ \A l \in Listeners : s9[l] \subseteq s9'[l]
        /\ \A l \in Audit!Audience(s, news) : news \in s9'[l]
    BY <1>1, <1>2, HeardMore DEF StreamInv
  <1>4. \A t, e : Audit!Audience(t, e)' = Audit!Audience(t, e) /\ Audit!EventsOf(t)' = Audit!EventsOf(t)
    BY <1>1 DEF Audit!Audience, Audit!Tenant, Audit!EventsOf
  <1>5. StreamTables' /\ Returns'
    BY <1>1, <1>3 DEF StreamInv, StreamTables, Returns
  <1>6. \A t \in Servers : \A e \in s6[t] : e \in s6'[t] \/ (t = s /\ e = news)
    BY <1>1 DEF StreamInv, StreamTables
  <1>7. ASSUME NEW t \in Servers, NEW e \in Audit!EventsOf(t), NEW l \in Audit!Audience(t, e)
        PROVE  e \in s9'[l] \/ Audit!InFlight(t, e)' \/ ~s5'[t]
    <2>1. e \in s9[l] \/ [at |-> t, event |-> e] \in s7 \/ e \in s6[t] \/ ~s5[t]
      BY DEF StreamInv, Audit!OwnListenersHear, Audit!InFlight
    <2> QED
      BY <1>1, <1>3, <1>6, <2>1, SameAudience DEF Audit!InFlight
  <1> QED
    BY <1>4, <1>5, <1>7 DEF StreamInv, Audit!OwnListenersHear

\* and connections come and go.
LEMMA ConnectionKeeps ==
  ASSUME StreamInv, NEW s \in Servers,
         Audit!RedisConnects(s) \/ \E reported \in BOOLEAN : Audit!RedisFails(s, reported)
  PROVE  StreamInv'
  <1>1. UNCHANGED <<s1, s2, s7, s8, s9>>
    BY DEF Audit!RedisConnects, Audit!RedisFails
  <1>2. \A t, e : Audit!Audience(t, e)' = Audit!Audience(t, e) /\ Audit!EventsOf(t)' = Audit!EventsOf(t)
    BY <1>1 DEF Audit!Audience, Audit!Tenant, Audit!EventsOf
  <1>3. CASE Audit!RedisConnects(s)
    <2>1. s3' = [s3 EXCEPT ![s] = TRUE] /\ UNCHANGED <<s4, s5, s6>>
      BY <1>3 DEF Audit!RedisConnects
    <2>2. StreamTables' /\ Returns'
      BY <1>1, <2>1 DEF StreamInv, StreamTables, Returns
    <2> QED
      BY <1>1, <1>2, <2>1, <2>2 DEF StreamInv, Audit!OwnListenersHear, Audit!InFlight
  <1>4. ASSUME NEW reported \in BOOLEAN, Audit!RedisFails(s, reported) PROVE StreamInv'
    <2>1. s3' \in [Servers -> BOOLEAN] /\ \A t \in Servers \ {s} : s3'[t] = s3[t]
      BY <1>4 DEF Audit!RedisFails, StreamInv, StreamTables
    <2>2. CASE s4' = [s4 EXCEPT ![s] = FALSE] /\ UNCHANGED <<s5, s6>>
      <3>1. StreamTables' /\ Returns'
        BY <1>1, <2>1, <2>2 DEF StreamInv, StreamTables, Returns
      <3> QED
        BY <1>1, <1>2, <2>2, <3>1 DEF StreamInv, Audit!OwnListenersHear, Audit!InFlight
    <2>3. CASE s5' = [s5 EXCEPT ![s] = FALSE] /\ s6' = [s6 EXCEPT ![s] = {}] /\ s4' = s4
      <3>1. StreamTables' /\ Returns'
        BY <1>1, <2>1, <2>3 DEF StreamInv, StreamTables, Returns
      <3>2. ~s5'[s] /\ \A t \in Servers \ {s} : s6'[t] = s6[t] /\ s5'[t] = s5[t]
        BY <2>3 DEF StreamInv, StreamTables
      <3> QED
        BY <1>1, <1>2, <3>1, <3>2 DEF StreamInv, Audit!OwnListenersHear, Audit!InFlight
    <2> QED
      BY <1>4, <2>2, <2>3 DEF Audit!RedisFails
  <1> QED
    BY <1>3, <1>4

\* Every step of the trail keeps what reaches the listeners.
LEMMA StreamKeeps == LogInv /\ StreamInv /\ [Audit!AuditNext]_(Audit!auditVars) => StreamInv'
  <1> SUFFICES ASSUME LogInv, StreamInv, [Audit!AuditNext]_(Audit!auditVars) PROVE StreamInv'
    OBVIOUS
  <1>1. ASSUME UNCHANGED <<s2, s3, s4, s5, s6, s7, s8, s9>> PROVE StreamInv'
    BY <1>1 DEF StreamInv, StreamTables, Returns, Audit!OwnListenersHear, Audit!InFlight, Audit!EventsOf,
                Audit!Audience, Audit!Tenant
  <1>2. ASSUME NEW r \in Pairs, NEW s \in Servers, NEW id \in Twins, Audit!Arrive(r, s, id) PROVE StreamInv'
    BY <1>1, <1>2 DEF Audit!Arrive, Audit!Stream
  <1>3. ASSUME NEW r \in Pairs, Audit!ServiceRecords(r) PROVE StreamInv'
    BY <1>3, EmittedKeeps DEF Audit!ServiceRecords, Audit!Stream
  <1>4. ASSUME NEW r \in Pairs, Audit!Answered(r) PROVE StreamInv'
    <2>1. CASE Audit!StandsDown(r)
      BY <1>1, <1>4, <2>1 DEF Audit!Answered, Audit!Stream
    <2>2. CASE ~Audit!StandsDown(r)
      BY <1>4, <2>2, EmittedKeeps DEF Audit!Answered, Audit!Stream
    <2> QED
      BY <2>1, <2>2
  <1>5. ASSUME NEW r \in Pairs, Audit!Threw(r) PROVE StreamInv'
    BY <1>5, EmittedKeeps DEF Audit!Threw, Audit!Stream
  <1>6. CASE UNCHANGED Audit!auditVars
    BY <1>1, <1>6 DEF Audit!auditVars
  <1> QED
    BY <1>2, <1>3, <1>4, <1>5, <1>6, PublishedKeeps, MessageKeeps, ConnectionKeeps DEF Audit!AuditNext

\* What the run checks of the audit trail.
LEMMA TrailShows ==
  LogInv /\ StreamInv => Audit!AuditTypeOK /\ Audit!AuditedOnce /\ Audit!OwnListenersHear
  <1> SUFFICES ASSUME LogInv, StreamInv PROVE Audit!AuditTypeOK /\ Audit!OwnListenersHear
    BY LogShows
  <1>1. \A r \in Pairs : s1[r].pc \in {"none", "handler", "answered"}
    BY DEF LogInv, AuditTables, AuditRow
  <1>2. \A s \in Servers : \A x \in s2[s] : x.request \in Pairs /\ x.status \in {"SUCCESS", "FAILURE"}
    BY DEF LogInv, AuditTables, LogRecord
  <1>3. \A p \in s7 : p.at \in Servers
    BY DEF StreamInv, StreamTables
  <1> QED
    BY <1>1, <1>2, <1>3 DEF Audit!AuditTypeOK, StreamInv

\* The audit trail on its own.
THEOREM AuditTrailHolds == Audit!AuditSpec => [](Audit!AuditTypeOK /\ Audit!AuditedOnce /\ Audit!OwnListenersHear)
  <1>1. Audit!AuditInit => LogInv /\ StreamInv
    BY LogStarts, StreamStarts
  <1>2. LogInv /\ StreamInv /\ [Audit!AuditNext]_(Audit!auditVars) => LogInv' /\ StreamInv'
    BY LogKeeps, StreamKeeps
  <1> QED
    BY <1>1, <1>2, TrailShows, PTL DEF Audit!AuditSpec

(***************************************************************************)
(* Experiments.                                                            *)
(***************************************************************************)

Modes == {"DETERMINISTIC", "PROPOSED"}

\* Where a call may be while it has no run, and while it has one that is under way.
BeforeRun == {"idle", "original", "source", "baseline", "sandbox", "scenario", "create",
              "both", "base", "candidate"}
DuringRun == {"complete", "update"}

CallState ==
  [kind : {"none", "run", "sandboxed", "compare"},
   pc : BeforeRun \cup DuringRun \cup {"done", "refused", "lost"},
   scenario : Scenarios \cup Triples \cup {None}, mode : Modes \cup {None},
   replayOf : Triples \cup {None}, tokens : Nat,
   base : Triples \cup {None}, cand : Triples \cup {None}, baseTokens : Nat,
   early : BOOLEAN, delta : Int \cup {None}]

\* What the local state of a call promises,
CallOK(x) ==
  /\ x \in CallState
  /\ x.pc = "idle" => x = Lab!Unused
  /\ x.pc = "original" => x.replayOf \in Triples
  /\ x.pc \in {"original", "source", "baseline"} => x.base = None
  /\ x.pc = "create" => x.scenario \in Scenarios \cup Triples
  /\ x.pc \in {"both", "base", "candidate"} => x.base \in Triples /\ x.cand \in Triples /\ x.delta \in Int
  /\ x.pc = "complete" => x.mode # "DETERMINISTIC"
  /\ x.mode = "DETERMINISTIC" => x.tokens = 0
  /\ x.pc \in BeforeRun => x.tokens = 0

\* the run of a call and its audit record,
RunOK(x, entry, audit) ==
  /\ entry = None => audit = 0
  /\ entry # None => /\ audit = (IF entry.status = "COMPLETED" THEN 1 ELSE 0)
                     /\ entry.mode = (IF x.mode = None THEN "DETERMINISTIC" ELSE x.mode)
                     /\ entry.tokens > 0 => x.mode # "DETERMINISTIC"
                     /\ x.pc = "done" => entry.status = "COMPLETED"
  /\ x.pc \in BeforeRun => entry = None
  /\ x.pc \in DuringRun => entry # None /\ entry.status = "RUNNING"

\* and the runs that it compares, unless one was read too early.
Finished(r, runs) == r \in Triples /\ runs[r] # None /\ runs[r].status = "COMPLETED"

CompareOK(x, runs) == ~x.early =>
  /\ x.pc \in {"sandbox", "scenario", "create"} \cup DuringRun /\ x.base # None =>
       Finished(x.base, runs) /\ runs[x.base].tokens = x.baseTokens
  /\ x.pc = "both" => x.delta = 0
  /\ x.pc = "candidate" => Finished(x.base, runs) /\ x.delta = 0 - runs[x.base].tokens
  /\ x.pc = "base" => Finished(x.cand, runs) /\ x.delta = runs[x.cand].tokens
  /\ x.pc = "done" /\ x.delta # None =>
       /\ Finished(x.base, runs) /\ Finished(x.cand, runs)
       /\ x.delta = runs[x.cand].tokens - runs[x.base].tokens

LabTables ==
  /\ s1 \in {"memory", "prisma"} /\ s2 \subseteq Scenarios \cup Triples
  /\ s3 \in [Triples -> Lab!Run \cup {None}] /\ s4 \in [Triples -> CallState]
  /\ s5 \in [Triples -> 0 .. 1] /\ s6 \in 0 .. MaxCrashes

LabInv ==
  /\ LabTables
  /\ \A c \in Triples : CallOK(s4[c]) /\ RunOK(s4[c], s3[c], s5[c]) /\ CompareOK(s4[c], s3)

\* A call that has not begun.
LEMMA UnusedCall ==
  LET x == Lab!Unused
  IN  /\ x.kind = "none" /\ x.pc = "idle" /\ x.scenario = None /\ x.mode = None /\ x.replayOf = None
      /\ x.tokens = 0 /\ x.base = None /\ x.cand = None /\ x.baseTokens = 0 /\ x.early = FALSE
      /\ x.delta = None /\ CallOK(x)
  <1>1. PICK x : x = Lab!Unused
    OBVIOUS
  <1>2. x = [kind |-> "none", pc |-> "idle", scenario |-> None, mode |-> None, replayOf |-> None,
             tokens |-> 0, base |-> None, cand |-> None, baseTokens |-> 0, early |-> FALSE, delta |-> None]
    BY <1>1 DEF Lab!Unused
  <1>3. /\ x.kind = "none" /\ x.pc = "idle" /\ x.scenario = None /\ x.mode = None /\ x.replayOf = None
        /\ x.tokens = 0 /\ x.base = None /\ x.cand = None /\ x.baseTokens = 0 /\ x.early = FALSE
        /\ x.delta = None
    BY <1>2
  <1>4. x \in CallState
    BY <1>2 DEF CallState, BeforeRun
  <1>5. CallOK(x)
    BY <1>1, <1>3, <1>4, LabAssumption DEF CallOK, Lab!ExperimentMode
  <1> QED
    BY <1>1, <1>3, <1>5

\* Before the first run.
LEMMA LabStarts == Lab!ExperimentInit => LabInv
  <1> SUFFICES ASSUME Lab!ExperimentInit PROVE LabInv
    OBVIOUS
  <1>1. \A c \in Triples : s4[c] = Lab!Unused /\ s3[c] = None /\ s5[c] = 0
    BY DEF Lab!ExperimentInit
  <1>2. LabTables
    BY UnusedCall, LabAssumption DEF Lab!ExperimentInit, LabTables, CallOK
  <1>3. ASSUME NEW c \in Triples PROVE RunOK(s4[c], s3[c], s5[c]) /\ CompareOK(s4[c], s3)
    <2>1. s4[c].pc = "idle" /\ s3[c] = None /\ s5[c] = 0
      BY <1>1, UnusedCall
    <2> QED
      BY <2>1 DEF RunOK, CompareOK, BeforeRun, DuringRun
  <1> QED
    BY <1>1, <1>2, <1>3, UnusedCall DEF LabInv

\* What a comparison says outlives what changes of runs that had not finished.
LEMMA ComparisonLasts ==
  ASSUME NEW x, NEW runs, NEW later, CompareOK(x, runs),
         \A r \in Triples : Finished(r, runs) => later[r] = runs[r]
  PROVE  CompareOK(x, later)
  <1>1. \A r : Finished(r, runs) => Finished(r, later) /\ later[r].tokens = runs[r].tokens
    BY DEF Finished
  <1> QED
    BY <1>1 DEF CompareOK

\* A call that goes on keeps the invariant as long as it keeps it of itself.
LEMMA CallGoesOn ==
  ASSUME LabInv, NEW c \in Triples, NEW x, NEW entry \in Lab!Run \cup {None}, NEW audit \in 0 .. 1,
         s4' = [s4 EXCEPT ![c] = x], s3' = [s3 EXCEPT ![c] = entry], s5' = [s5 EXCEPT ![c] = audit],
         s1' = s1, s6' = s6, s2' \subseteq Scenarios \cup Triples,
         entry = s3[c] \/ ~Finished(c, s3),
         CallOK(x), RunOK(x, entry, audit), CompareOK(x, s3')
  PROVE  LabInv'
  <1>1. /\ s4'[c] = x /\ s3'[c] = entry /\ s5'[c] = audit
        /\ \A d \in Triples \ {c} : s4'[d] = s4[d] /\ s3'[d] = s3[d] /\ s5'[d] = s5[d]
    BY DEF LabInv, LabTables
  <1>2. LabTables'
    BY DEF LabInv, LabTables, CallOK
  <1>3. \A r \in Triples : Finished(r, s3) => s3'[r] = s3[r]
    BY <1>1
  <1>4. ASSUME NEW d \in Triples \ {c}
        PROVE  CallOK(s4[d]) /\ RunOK(s4[d], s3[d], s5[d]) /\ CompareOK(s4[d], s3')
    <2>1. CallOK(s4[d]) /\ RunOK(s4[d], s3[d], s5[d]) /\ CompareOK(s4[d], s3)
      BY DEF LabInv
    <2>2. CompareOK(s4[d], s3')
      BY <1>3, <2>1, ComparisonLasts
    <2> QED
      BY <2>1, <2>2
  <1> QED
    BY <1>1, <1>2, <1>4 DEF LabInv

\* The same, for a step that leaves the runs alone.
LEMMA CallMoves ==
  ASSUME LabInv, NEW c \in Triples, NEW x, s4' = [s4 EXCEPT ![c] = x],
         UNCHANGED <<s1, s3, s5, s6>>, s2' \subseteq Scenarios \cup Triples,
         CallOK(x), RunOK(x, s3[c], s5[c]), CompareOK(x, s3)
  PROVE  LabInv'
  <1>1. PICK entry \in Lab!Run \cup {None}, audit \in 0 .. 1 : entry = s3[c] /\ audit = s5[c]
    BY DEF LabInv, LabTables
  <1>2. s3' = [s3 EXCEPT ![c] = entry] /\ s5' = [s5 EXCEPT ![c] = audit]
    BY <1>1 DEF LabInv, LabTables
  <1> QED
    BY <1>1, <1>2, CallGoesOn

\* A call that is refused says nothing.
LEMMA RefusedKeeps ==
  ASSUME LabInv, NEW c \in Triples, Lab!Refused(c), UNCHANGED Lab!stored
  PROVE  LabInv'
  <1>1. PICK x : x = [s4[c] EXCEPT !.pc = "refused"]
    OBVIOUS
  <1>2. s4' = [s4 EXCEPT ![c] = x] /\ UNCHANGED <<s1, s2, s3, s5, s6>>
    BY <1>1 DEF Lab!Refused, Lab!Goes, Lab!stored
  <1>3. CallOK(s4[c]) /\ s4[c] \in CallState /\ RunOK(s4[c], s3[c], s5[c])
    BY DEF LabInv, LabTables
  <1>4. x \in CallState /\ x.pc = "refused" /\ x.mode = s4[c].mode /\ x.tokens = s4[c].tokens
    BY <1>1, <1>3 DEF CallState
  <1>5. CallOK(x) /\ RunOK(x, s3[c], s5[c]) /\ CompareOK(x, s3)
    BY <1>3, <1>4 DEF CallOK, RunOK, CompareOK, BeforeRun, DuringRun
  <1>6. s2' \subseteq Scenarios \cup Triples
    BY <1>2 DEF LabInv, LabTables
  <1> QED
    BY <1>2, <1>5, <1>6, CallMoves

\* A crash ends the calls, and loses what was in memory.
LEMMA CrashKeeps == LabInv /\ Lab!Crash => LabInv'
  <1> SUFFICES ASSUME LabInv, Lab!Crash PROVE LabInv'
    OBVIOUS
  <1>1. /\ s6' = s6 + 1 /\ s6 < MaxCrashes /\ s1' = s1
        /\ s4' = [c \in Triples |-> IF s4[c] = Lab!Unused THEN Lab!Unused
                                    ELSE [s4[c] EXCEPT !.pc = "lost", !.delta = None]]
        /\ \/ s2' = {} /\ s3' = [c \in Triples |-> None] /\ s5' = [c \in Triples |-> 0]
           \/ s2' = s2 /\ s3' = s3 /\ s5' = s5
    BY DEF Lab!Crash
  <1>2. ASSUME NEW c \in Triples
        PROVE  CallOK(s4'[c]) /\ RunOK(s4'[c], s3'[c], s5'[c]) /\ CompareOK(s4'[c], s3')
    <2>1. CallOK(s4[c]) /\ s4[c] \in CallState /\ RunOK(s4[c], s3[c], s5[c])
      BY DEF LabInv, LabTables
    <2>2. (s3'[c] = None /\ s5'[c] = 0) \/ (s3'[c] = s3[c] /\ s5'[c] = s5[c])
      BY <1>1
    <2>3. CASE s4[c] = Lab!Unused
      <3>1. s4'[c] = s4[c] /\ s4[c].pc = "idle" /\ s3[c] = None /\ s5[c] = 0
        BY <1>1, <2>1, <2>3, UnusedCall DEF RunOK, BeforeRun
      <3> QED
        BY <2>1, <2>2, <3>1 DEF RunOK, CompareOK, BeforeRun, DuringRun
    <2>4. CASE s4[c] # Lab!Unused
      <3>1. PICK x : x = [s4[c] EXCEPT !.pc = "lost", !.delta = None]
        OBVIOUS
      <3>2. s4'[c] = x
        BY <1>1, <2>4, <3>1
      <3>3. /\ x \in CallState /\ x.pc = "lost" /\ x.mode = s4[c].mode /\ x.tokens = s4[c].tokens
        BY <2>1, <3>1 DEF CallState
      <3>4. CallOK(x)
        BY <2>1, <3>3 DEF CallOK, BeforeRun
      <3>5. RunOK(x, s3'[c], s5'[c])
        BY <2>1, <2>2, <3>3 DEF RunOK, BeforeRun, DuringRun
      <3>6. CompareOK(x, s3')
        BY <3>3 DEF CompareOK, DuringRun
      <3> QED
        BY <3>2, <3>4, <3>5, <3>6
    <2> QED
      BY <2>3, <2>4
  <1>3. LabTables'
    <2>1. s4' \in [Triples -> CallState]
      BY <1>1, <1>2 DEF CallOK
    <2>2. s6 \in 0 .. MaxCrashes /\ MaxCrashes \in Nat
      BY LabAssumption DEF LabInv, LabTables
    <2>6. s6' = s6 + 1 /\ s6 < MaxCrashes
      BY <1>1
    <2>3. s6' \in 0 .. MaxCrashes
      BY <2>2, <2>6
    <2>4. s1' \in {"memory", "prisma"} /\ s2' \subseteq Scenarios \cup Triples
      BY <1>1 DEF LabInv, LabTables
    <2>5. s3' \in [Triples -> Lab!Run \cup {None}] /\ s5' \in [Triples -> 0 .. 1]
      <3>1. CASE s3' = s3 /\ s5' = s5
        BY <3>1 DEF LabInv, LabTables
      <3>2. CASE s3' = [c \in Triples |-> None] /\ s5' = [c \in Triples |-> 0]
        BY <3>2
      <3> QED
        BY <1>1, <3>1, <3>2
    <2> QED
      BY <2>1, <2>3, <2>4, <2>5 DEF LabTables
  <1> QED
    BY <1>2, <1>3 DEF LabInv

\* Of finitely many numbers one is the largest,
LEMMA Highest ==
  ASSUME NEW S, IsFiniteSet(S), S # {}, NEW f, \A x \in S : f[x] \in Int
  PROVE  \E x \in S : \A y \in S : f[y] <= f[x]
  <1> DEFINE Above(x) == {y \in S : f[y] > f[x]}
             T == {Above(x) : x \in S}
  <1>1. T \subseteq FiniteSubsetsOf(S) /\ T # {}
    <2>1. \A x \in S : Above(x) \subseteq S
      OBVIOUS
    <2>2. \A x \in S : IsFiniteSet(Above(x))
      BY <2>1, FS_Subset
    <2> QED
      BY <2>1, <2>2 DEF FiniteSubsetsOf
  <1>2. PICK U \in T : \A V \in T : ~ (<<V, U>> \in StrictSubsetOrdering(S))
    BY <1>1, FS_StrictSubsetOrderingWellFounded, WFMin
  <1>3. PICK x \in S : U = Above(x)
    BY <1>2
  <1>4. ASSUME NEW y \in S, ~ (f[y] <= f[x]) PROVE FALSE
    <2>1. y \in Above(x) /\ y \notin Above(y)
      BY <1>4
    <2>2. Above(y) \subseteq Above(x)
      BY <1>4
    <2>3. <<Above(y), Above(x)>> \in StrictSubsetOrdering(S)
      BY <1>1, <2>1, <2>2 DEF StrictSubsetOrdering
    <2> QED
      BY <1>2, <1>3, <2>3
  <1> QED
    BY <1>4

\* and one the smallest.
LEMMA Lowest ==
  ASSUME NEW S, IsFiniteSet(S), S # {}, NEW f, \A x \in S : f[x] \in Int
  PROVE  \E x \in S : \A y \in S : f[y] >= f[x]
  <1>1. PICK g : g = [x \in S |-> 0 - f[x]]
    OBVIOUS
  <1>2. \A x \in S : g[x] = 0 - f[x] /\ g[x] \in Int
    BY <1>1
  <1>3. PICK x \in S : \A y \in S : g[y] <= g[x]
    BY <1>2, Highest
  <1> QED
    BY <1>2, <1>3

\* What a replay compares with is a run there is.
LEMMA BaselineIsRun ==
  ASSUME LabTables, NEW s
  PROVE  Lab!Baseline(s) = None \/ (Lab!Baseline(s) \in Triples /\ s3[Lab!Baseline(s)] # None)
  <1> DEFINE found == {r \in Lab!Of(s) : s3[r].mode = "DETERMINISTIC"}
  <1>1. found \subseteq Lab!Of(s) /\ Lab!Of(s) \subseteq Triples /\ \A r \in Lab!Of(s) : s3[r] # None
    BY DEF Lab!Of
  <1>2. ASSUME NEW S, S \subseteq Lab!Of(s), S # {} PROVE Lab!Newest(S) \in S /\ Lab!Oldest(S) \in S
    <2>1. IsFiniteSet(S)
      BY <1>1, <1>2, LoopAssumption, FS_Subset
    <2>2. \A r \in S : s3[r].at \in Int
      BY <1>1, <1>2 DEF LabTables, Lab!Run
    <2>3. PICK f : f = [r \in S |-> s3[r].at]
      OBVIOUS
    <2>4. \A r \in S : f[r] = s3[r].at /\ f[r] \in Int
      BY <2>2, <2>3
    <2>5. \E r \in S : \A q \in S : s3[q].at <= s3[r].at
      <3>1. PICK r \in S : \A q \in S : f[q] <= f[r]
        BY <1>2, <2>1, <2>4, Highest
      <3> QED
        BY <2>4, <3>1
    <2>6. \E r \in S : \A q \in S : s3[q].at >= s3[r].at
      <3>1. PICK r \in S : \A q \in S : f[q] >= f[r]
        BY <1>2, <2>1, <2>4, Lowest
      <3> QED
        BY <2>4, <3>1
    <2> QED
      BY <2>5, <2>6 DEF Lab!Newest, Lab!Oldest
  <1>6. Lab!Baseline(s) = IF found # {} THEN Lab!Newest(found)
                          ELSE IF Lab!Of(s) = {} THEN None
                          ELSE IF s1 = "memory" THEN Lab!Oldest(Lab!Of(s)) ELSE Lab!Newest(Lab!Of(s))
    BY DEF Lab!Baseline
  <1> HIDE DEF found
  <1>3. CASE found # {}
    <2>1. Lab!Newest(found) \in found
      BY <1>1, <1>2, <1>3
    <2>2. Lab!Baseline(s) = Lab!Newest(found)
      BY <1>3, <1>6
    <2> QED
      BY <1>1, <2>1, <2>2
  <1>4. CASE found = {} /\ Lab!Of(s) = {}
    BY <1>4, <1>6
  <1>5. CASE found = {} /\ Lab!Of(s) # {}
    <2>1. Lab!Newest(Lab!Of(s)) \in Lab!Of(s) /\ Lab!Oldest(Lab!Of(s)) \in Lab!Of(s)
      BY <1>2, <1>5
    <2>2. Lab!Baseline(s) = Lab!Newest(Lab!Of(s)) \/ Lab!Baseline(s) = Lab!Oldest(Lab!Of(s))
      BY <1>5, <1>6
    <2> QED
      BY <1>1, <2>1, <2>2
  <1> QED
    BY <1>3, <1>4, <1>5

\* A call begins with what its request says.
LEMMA BeginKeeps ==
  ASSUME LabInv, NEW c \in Triples, NEW x, Lab!Begin(c, x), CallOK(x), CompareOK(x, s3),
         x.pc \in BeforeRun
  PROVE  LabInv'
  <1>1. s4[c] = Lab!Unused /\ s4' = [s4 EXCEPT ![c] = x] /\ UNCHANGED <<s1, s2, s3, s5, s6>>
    BY DEF Lab!Begin, Lab!Goes, Lab!stored
  <1>2. RunOK(s4[c], s3[c], s5[c]) /\ s4[c].pc = "idle"
    BY <1>1, UnusedCall DEF LabInv
  <1>3. RunOK(x, s3[c], s5[c])
    BY <1>2 DEF RunOK, BeforeRun, DuringRun
  <1>4. s2' \subseteq Scenarios \cup Triples
    BY <1>1 DEF LabInv, LabTables
  <1> QED
    BY <1>1, <1>3, <1>4, CallMoves

\* Each of the four requests.
LEMMA RequestsKeep ==
  ASSUME LabInv, NEW c \in Triples,
         \/ \E s \in Scenarios, mode \in Lab!ExperimentMode \cup {None} : Lab!BeginRun(c, s, mode)
         \/ \E s \in Scenarios \cup {None}, mode \in Lab!ExperimentMode : Lab!BeginSandboxed(c, s, mode)
         \/ \E r \in Triples \ {c} : Lab!BeginReplayRun(c, r)
         \/ \E r \in Triples \ {c}, q \in Triples \ {c} : Lab!BeginCompare(c, r, q)
  PROVE  LabInv'
  <1>1. Lab!ExperimentMode = Modes
    BY DEF Lab!ExperimentMode, Modes
  <1>2. ASSUME NEW s \in Scenarios, NEW mode \in Modes \cup {None}, Lab!BeginRun(c, s, mode) PROVE LabInv'
    <2>1. PICK x : x = [Lab!Unused EXCEPT !.kind = "run", !.pc = "scenario", !.scenario = s, !.mode = mode]
      OBVIOUS
    <2>2. x = [kind |-> "run", pc |-> "scenario", scenario |-> s, mode |-> mode, replayOf |-> None,
               tokens |-> 0, base |-> None, cand |-> None, baseTokens |-> 0, early |-> FALSE, delta |-> None]
      BY <2>1 DEF Lab!Unused
    <2>3. x \in CallState
      BY <2>2 DEF CallState, BeforeRun
    <2>4. x.pc = "scenario" /\ x.tokens = 0 /\ x.base = None
      BY <2>2
    <2>5. CallOK(x) /\ CompareOK(x, s3) /\ x.pc \in BeforeRun
      BY <2>3, <2>4 DEF CallOK, CompareOK, BeforeRun, DuringRun
    <2> QED
      BY <1>2, <2>1, <2>5, BeginKeeps DEF Lab!BeginRun
  <1>3. ASSUME NEW s \in Scenarios \cup {None}, NEW mode \in Modes, Lab!BeginSandboxed(c, s, mode) PROVE LabInv'
    <2>1. PICK pc \in {"sandbox", "source"} : pc = IF s = None THEN "sandbox" ELSE "source"
      OBVIOUS
    <2>2. PICK x : x = [Lab!Unused EXCEPT !.kind = "sandboxed", !.scenario = s, !.mode = mode, !.pc = pc]
      OBVIOUS
    <2>3. x = [kind |-> "sandboxed", pc |-> pc, scenario |-> s, mode |-> mode, replayOf |-> None,
               tokens |-> 0, base |-> None, cand |-> None, baseTokens |-> 0, early |-> FALSE, delta |-> None]
      BY <2>2 DEF Lab!Unused
    <2>4. x \in CallState
      BY <2>3 DEF CallState, BeforeRun
    <2>5. x.pc \in {"sandbox", "source"} /\ x.tokens = 0 /\ x.base = None
      BY <2>3
    <2>6. CallOK(x) /\ CompareOK(x, s3) /\ x.pc \in BeforeRun
      BY <2>4, <2>5 DEF CallOK, CompareOK, BeforeRun, DuringRun
    <2>7. Lab!Begin(c, x)
      BY <1>3, <2>1, <2>2 DEF Lab!BeginSandboxed
    <2> QED
      BY <2>6, <2>7, BeginKeeps
  <1>4. ASSUME NEW r \in Triples \ {c}, Lab!BeginReplayRun(c, r) PROVE LabInv'
    <2>1. PICK x : x = [Lab!Unused EXCEPT !.kind = "run", !.pc = "original", !.replayOf = r]
      OBVIOUS
    <2>2. x = [kind |-> "run", pc |-> "original", scenario |-> None, mode |-> None, replayOf |-> r,
               tokens |-> 0, base |-> None, cand |-> None, baseTokens |-> 0, early |-> FALSE, delta |-> None]
      BY <2>1 DEF Lab!Unused
    <2>3. x \in CallState
      BY <2>2 DEF CallState, BeforeRun
    <2>4. x.pc = "original" /\ x.tokens = 0 /\ x.base = None /\ x.replayOf = r
      BY <2>2
    <2>5. CallOK(x) /\ CompareOK(x, s3) /\ x.pc \in BeforeRun
      BY <2>3, <2>4 DEF CallOK, CompareOK, BeforeRun, DuringRun
    <2> QED
      BY <1>4, <2>1, <2>5, BeginKeeps DEF Lab!BeginReplayRun
  <1>5. ASSUME NEW r \in Triples \ {c}, NEW q \in Triples \ {c}, Lab!BeginCompare(c, r, q) PROVE LabInv'
    <2>1. PICK x : x = [Lab!Unused EXCEPT !.kind = "compare", !.pc = "both", !.base = r, !.cand = q, !.delta = 0]
      OBVIOUS
    <2>2. x = [kind |-> "compare", pc |-> "both", scenario |-> None, mode |-> None, replayOf |-> None,
               tokens |-> 0, base |-> r, cand |-> q, baseTokens |-> 0, early |-> FALSE, delta |-> 0]
      BY <2>1 DEF Lab!Unused
    <2>3. x \in CallState
      BY <2>2 DEF CallState, BeforeRun
    <2>4. x.pc = "both" /\ x.tokens = 0 /\ x.base = r /\ x.cand = q /\ x.delta = 0
      BY <2>2
    <2>5. CallOK(x)
      BY <2>3, <2>4 DEF CallOK
    <2>6. CompareOK(x, s3) /\ x.pc \in BeforeRun
      BY <2>4 DEF CompareOK, BeforeRun, DuringRun
    <2> QED
      BY <1>5, <2>1, <2>5, <2>6, BeginKeeps DEF Lab!BeginCompare
  <1> QED
    BY <1>1, <1>2, <1>3, <1>4, <1>5

\* A replay takes the scenario and the mode of the run it repeats,
LEMMA ReplayKeeps ==
  ASSUME LabInv, NEW c \in Triples, Lab!ReplayRun(c)
  PROVE  LabInv'
  <1>1. /\ s4[c].pc = "original" /\ UNCHANGED Lab!stored
        /\ CallOK(s4[c]) /\ s4[c] \in CallState /\ RunOK(s4[c], s3[c], s5[c])
    BY DEF Lab!ReplayRun, LabInv, LabTables
  <1>2. s4[c].replayOf \in Triples /\ s4[c].base = None /\ s4[c].tokens = 0
    BY <1>1 DEF CallOK, BeforeRun
  <1>3. CASE s3[s4[c].replayOf] = None
    BY <1>1, <1>3, RefusedKeeps DEF Lab!ReplayRun
  <1>4. CASE s3[s4[c].replayOf] # None
    <2>1. PICK s \in Scenarios \cup Triples, mode \in Modes :
            s = s3[s4[c].replayOf].scenario /\ mode = s3[s4[c].replayOf].mode
      BY <1>2, <1>4 DEF LabInv, LabTables, Lab!Run, Lab!ExperimentMode, Modes
    <2>2. PICK x : x = [s4[c] EXCEPT !.pc = "scenario", !.scenario = s, !.mode = mode]
      OBVIOUS
    <2>3. s4' = [s4 EXCEPT ![c] = x] /\ UNCHANGED <<s1, s2, s3, s5, s6>>
      BY <1>1, <1>4, <2>1, <2>2 DEF Lab!ReplayRun, Lab!Goes, Lab!stored
    <2>4. x \in CallState /\ x.pc = "scenario" /\ x.tokens = 0 /\ x.base = None
      <3>1. x = [kind |-> s4[c].kind, pc |-> "scenario", scenario |-> s, mode |-> mode,
                 replayOf |-> s4[c].replayOf, tokens |-> s4[c].tokens, base |-> s4[c].base,
                 cand |-> s4[c].cand, baseTokens |-> s4[c].baseTokens, early |-> s4[c].early,
                 delta |-> s4[c].delta]
        BY <1>1, <2>2 DEF CallState
      <3>2. x \in CallState
        BY <1>1, <3>1 DEF CallState, BeforeRun
      <3> QED
        BY <1>2, <3>1, <3>2
    <2>5. CallOK(x) /\ CompareOK(x, s3)
      BY <2>4 DEF CallOK, CompareOK, BeforeRun, DuringRun
    <2>6. RunOK(x, s3[c], s5[c])
      BY <1>1, <2>4 DEF RunOK, BeforeRun, DuringRun
    <2>7. s2' \subseteq Scenarios \cup Triples
      BY <2>3 DEF LabInv, LabTables
    <2> QED
      BY <2>3, <2>5, <2>6, <2>7, CallMoves
  <1> QED
    BY <1>3, <1>4

\* a sandboxed one asks whether its source is there,
LEMMA SourceKeeps ==
  ASSUME LabInv, NEW c \in Triples, Lab!FindSource(c)
  PROVE  LabInv'
  <1>1. /\ s4[c].pc = "source" /\ UNCHANGED Lab!stored
        /\ CallOK(s4[c]) /\ s4[c] \in CallState /\ RunOK(s4[c], s3[c], s5[c])
    BY DEF Lab!FindSource, LabInv, LabTables
  <1>2. CASE s4[c].scenario \notin s2
    BY <1>1, <1>2, RefusedKeeps DEF Lab!FindSource
  <1>3. CASE s4[c].scenario \in s2
    <2>1. PICK x : x = [s4[c] EXCEPT !.pc = "baseline"]
      OBVIOUS
    <2>2. s4' = [s4 EXCEPT ![c] = x] /\ UNCHANGED <<s1, s2, s3, s5, s6>>
      BY <1>1, <1>3, <2>1 DEF Lab!FindSource, Lab!Goes, Lab!stored
    <2>3. s4[c].tokens = 0 /\ s4[c].base = None
      BY <1>1 DEF CallOK, BeforeRun
    <2>4. x \in CallState /\ x.pc = "baseline" /\ x.tokens = 0 /\ x.base = None
      BY <1>1, <2>1, <2>3 DEF CallState, BeforeRun
    <2>5. CallOK(x) /\ CompareOK(x, s3)
      BY <2>4 DEF CallOK, CompareOK, BeforeRun, DuringRun
    <2>6. RunOK(x, s3[c], s5[c])
      BY <1>1, <2>4 DEF RunOK, BeforeRun, DuringRun
    <2>7. s2' \subseteq Scenarios \cup Triples
      BY <2>2 DEF LabInv, LabTables
    <2> QED
      BY <2>2, <2>5, <2>6, <2>7, CallMoves
  <1> QED
    BY <1>2, <1>3

\* keeps a copy of the run it will be compared with,
LEMMA BaselineKeeps ==
  ASSUME LabInv, NEW c \in Triples, Lab!FindBaseline(c)
  PROVE  LabInv'
  <1>1. /\ s4[c].pc = "baseline" /\ UNCHANGED Lab!stored
        /\ CallOK(s4[c]) /\ s4[c] \in CallState /\ RunOK(s4[c], s3[c], s5[c])
    BY DEF Lab!FindBaseline, LabInv, LabTables
  <1>2. s4[c].tokens = 0 /\ s4[c].base = None
    BY <1>1 DEF CallOK, BeforeRun
  <1>3. PICK r : r = Lab!Baseline(s4[c].scenario) /\ (r = None \/ (r \in Triples /\ s3[r] # None))
    BY BaselineIsRun DEF LabInv
  <1>4. \E x : /\ s4' = [s4 EXCEPT ![c] = x] /\ x \in CallState /\ x.pc = "sandbox" /\ x.tokens = 0
               /\ x.base = r /\ x.mode = s4[c].mode
               /\ r # None /\ ~x.early => Finished(r, s3) /\ s3[r].tokens = x.baseTokens
    <2>1. CASE r = None
      <3>1. PICK x : x = [s4[c] EXCEPT !.pc = "sandbox"]
        OBVIOUS
      <3>2. s4' = [s4 EXCEPT ![c] = x]
        BY <1>3, <2>1, <3>1 DEF Lab!FindBaseline, Lab!Goes
      <3>3. x \in CallState /\ x.pc = "sandbox" /\ x.tokens = 0 /\ x.base = None /\ x.mode = s4[c].mode
        BY <1>1, <1>2, <3>1 DEF CallState, BeforeRun
      <3> QED
        BY <2>1, <3>2, <3>3
    <2>2. CASE r # None
      <3>1. PICK n \in Nat, early \in BOOLEAN :
              n = s3[r].tokens /\ early = (s3[r].status = "RUNNING") /\ s3[r].status \in {"RUNNING", "COMPLETED"}
        BY <1>3, <2>2 DEF LabInv, LabTables, Lab!Run
      <3>2. PICK y : y = [s4[c] EXCEPT !.base = r, !.baseTokens = n, !.early = early]
        OBVIOUS
      <3>3. PICK x : x = [y EXCEPT !.pc = "sandbox"]
        OBVIOUS
      <3>4. s4' = [s4 EXCEPT ![c] = x]
        BY <1>3, <2>2, <3>1, <3>2, <3>3 DEF Lab!FindBaseline, Lab!WithBase, Lab!Goes
      <3>5. y \in CallState /\ y.base = r /\ y.baseTokens = n /\ y.early = early /\ y.tokens = 0
            /\ y.mode = s4[c].mode
        <4>1. y = [kind |-> s4[c].kind, pc |-> s4[c].pc, scenario |-> s4[c].scenario,
                   mode |-> s4[c].mode, replayOf |-> s4[c].replayOf, tokens |-> s4[c].tokens,
                   base |-> r, cand |-> s4[c].cand, baseTokens |-> n, early |-> early,
                   delta |-> s4[c].delta]
          BY <1>1, <3>2 DEF CallState
        <4>2. y \in CallState
          BY <1>1, <1>3, <2>2, <4>1 DEF CallState
        <4> QED
          BY <1>2, <4>1, <4>2
      <3>6. x \in CallState /\ x.pc = "sandbox" /\ x.tokens = 0 /\ x.base = r /\ x.mode = s4[c].mode
            /\ x.baseTokens = n /\ x.early = early
        BY <3>3, <3>5 DEF CallState, BeforeRun
      <3>7. ~x.early => Finished(r, s3) /\ s3[r].tokens = x.baseTokens
        BY <1>3, <2>2, <3>1, <3>6 DEF Finished
      <3> QED
        BY <3>4, <3>6, <3>7
    <2> QED
      BY <2>1, <2>2
  <1>5. PICK x : /\ s4' = [s4 EXCEPT ![c] = x] /\ x \in CallState /\ x.pc = "sandbox" /\ x.tokens = 0
                 /\ x.base = r /\ x.mode = s4[c].mode
                 /\ r # None /\ ~x.early => Finished(r, s3) /\ s3[r].tokens = x.baseTokens
    BY <1>4
  <1>6. CallOK(x) /\ CompareOK(x, s3)
    BY <1>5 DEF CallOK, CompareOK, BeforeRun, DuringRun
  <1>7. RunOK(x, s3[c], s5[c])
    BY <1>1, <1>5 DEF RunOK, BeforeRun, DuringRun
  <1>8. UNCHANGED <<s1, s2, s3, s5, s6>> /\ s2' \subseteq Scenarios \cup Triples
    BY <1>1 DEF Lab!stored, LabInv, LabTables
  <1> QED
    BY <1>5, <1>6, <1>7, <1>8, CallMoves

\* makes a scenario of its own,
LEMMA SandboxKeeps ==
  ASSUME LabInv, NEW c \in Triples, Lab!CreateSandbox(c)
  PROVE  LabInv'
  <1>1. /\ s4[c].pc = "sandbox" /\ s2' = s2 \cup {c} /\ UNCHANGED <<s1, s3, s5, s6>>
        /\ CallOK(s4[c]) /\ s4[c] \in CallState /\ RunOK(s4[c], s3[c], s5[c]) /\ CompareOK(s4[c], s3)
    BY DEF Lab!CreateSandbox, LabInv, LabTables
  <1>2. PICK x : x = [s4[c] EXCEPT !.pc = "scenario", !.scenario = c]
    OBVIOUS
  <1>3. s4' = [s4 EXCEPT ![c] = x]
    BY <1>2 DEF Lab!CreateSandbox, Lab!Goes
  <1>4. /\ x \in CallState /\ x.pc = "scenario" /\ x.tokens = s4[c].tokens /\ x.base = s4[c].base
        /\ x.early = s4[c].early /\ x.baseTokens = s4[c].baseTokens /\ x.mode = s4[c].mode
    BY <1>1, <1>2 DEF CallState, BeforeRun
  <1>5. s4[c].tokens = 0
    BY <1>1 DEF CallOK, BeforeRun
  <1>6. CallOK(x)
    BY <1>4, <1>5 DEF CallOK, BeforeRun
  <1>7. CompareOK(x, s3)
    BY <1>1, <1>4 DEF CompareOK, DuringRun
  <1>8. RunOK(x, s3[c], s5[c])
    BY <1>1, <1>4 DEF RunOK, BeforeRun, DuringRun
  <1>9. s2' \subseteq Scenarios \cup Triples
    BY <1>1 DEF LabInv, LabTables
  <1> QED
    BY <1>1, <1>3, <1>6, <1>7, <1>8, <1>9, CallMoves

\* and runs the scenario it has if it is there.
LEMMA ScenarioKeeps ==
  ASSUME LabInv, NEW c \in Triples, Lab!GetScenario(c)
  PROVE  LabInv'
  <1>1. /\ s4[c].pc = "scenario" /\ UNCHANGED Lab!stored
        /\ CallOK(s4[c]) /\ s4[c] \in CallState /\ RunOK(s4[c], s3[c], s5[c]) /\ CompareOK(s4[c], s3)
    BY DEF Lab!GetScenario, LabInv, LabTables
  <1>2. CASE s4[c].scenario \notin s2
    BY <1>1, <1>2, RefusedKeeps DEF Lab!GetScenario
  <1>3. CASE s4[c].scenario \in s2
    <2>1. PICK x : x = [s4[c] EXCEPT !.pc = "create"]
      OBVIOUS
    <2>2. s4' = [s4 EXCEPT ![c] = x] /\ UNCHANGED <<s1, s2, s3, s5, s6>>
      BY <1>1, <1>3, <2>1 DEF Lab!GetScenario, Lab!Goes, Lab!stored
    <2>3. s4[c].tokens = 0 /\ s2 \subseteq Scenarios \cup Triples
      BY <1>1 DEF CallOK, BeforeRun, LabInv, LabTables
    <2>4. /\ x \in CallState /\ x.pc = "create" /\ x.tokens = 0 /\ x.base = s4[c].base
          /\ x.early = s4[c].early /\ x.baseTokens = s4[c].baseTokens /\ x.mode = s4[c].mode
          /\ x.scenario \in Scenarios \cup Triples
      BY <1>1, <1>3, <2>1, <2>3 DEF CallState, BeforeRun
    <2>5. CallOK(x)
      BY <2>4 DEF CallOK, BeforeRun
    <2>6. CompareOK(x, s3)
      BY <1>1, <2>4 DEF CompareOK, DuringRun
    <2>7. RunOK(x, s3[c], s5[c])
      BY <1>1, <2>4 DEF RunOK, BeforeRun, DuringRun
    <2> QED
      BY <2>2, <2>3, <2>5, <2>6, <2>7, CallMoves
  <1> QED
    BY <1>2, <1>3

\* A run is stored before the model is asked,
LEMMA RunCreated ==
  ASSUME LabInv, NEW c \in Triples, Lab!CreateRun(c)
  PROVE  LabInv'
  <1>1. /\ s4[c].pc = "create" /\ UNCHANGED <<s1, s2, s5, s6>>
        /\ CallOK(s4[c]) /\ s4[c] \in CallState /\ RunOK(s4[c], s3[c], s5[c]) /\ CompareOK(s4[c], s3)
    BY DEF Lab!CreateRun, LabInv, LabTables
  <1>2. PICK mode \in Modes, n \in Nat, of \in Triples \cup {None} :
          /\ mode = (IF s4[c].mode = None THEN "DETERMINISTIC" ELSE s4[c].mode)
          /\ n = Lab!Cardinality({r \in Triples : s3[r] # None})
          /\ of = (IF s1 = "memory" THEN s4[c].replayOf ELSE None)
    <2>1. Lab!Cardinality({r \in Triples : s3[r] # None}) \in Nat
      BY LoopAssumption, FS_Subset, FS_CardinalityType DEF Cardinality, Lab!Cardinality
    <2>2. (IF s4[c].mode = None THEN "DETERMINISTIC" ELSE s4[c].mode) \in Modes
      BY <1>1 DEF CallState, Modes
    <2>3. (IF s1 = "memory" THEN s4[c].replayOf ELSE None) \in Triples \cup {None}
      BY <1>1 DEF CallState
    <2> QED
      BY <2>1, <2>2, <2>3
  <1>3. PICK s \in Scenarios \cup Triples : s = s4[c].scenario
    BY <1>1 DEF CallOK
  <1>4. PICK entry : entry = [scenario |-> s, status |-> "RUNNING", tokens |-> 0, mode |-> mode, at |-> n,
                          replayOf |-> of]
    OBVIOUS
  <1>5. s3' = [s3 EXCEPT ![c] = entry]
    BY <1>2, <1>3, <1>4 DEF Lab!CreateRun
  <1>6. entry \in Lab!Run /\ entry.status = "RUNNING" /\ entry.tokens = 0 /\ entry.mode = mode /\ entry # None
    <2>1. entry \in Lab!Run /\ entry.status = "RUNNING" /\ entry.tokens = 0 /\ entry.mode = mode
      BY <1>4 DEF Lab!Run, Lab!ExperimentMode, Modes
    <2> QED
      BY <2>1, LabAssumption
  <1>7. PICK pc : pc = IF s4[c].mode # "DETERMINISTIC" THEN "complete" ELSE "update"
    OBVIOUS
  <1>a. pc \in DuringRun /\ (pc = "complete" => s4[c].mode # "DETERMINISTIC")
    BY <1>7 DEF DuringRun
  <1>8. PICK x : x = [s4[c] EXCEPT !.pc = pc]
    OBVIOUS
  <1>9. s4' = [s4 EXCEPT ![c] = x]
    <2>1. s4' = [s4 EXCEPT ![c] =
                  [s4[c] EXCEPT !.pc = IF s4[c].mode # "DETERMINISTIC" THEN "complete" ELSE "update"]]
      BY DEF Lab!CreateRun, Lab!Goes, Lab!AsksTheModel
    <2> QED
      BY <1>7, <1>8, <2>1
  <1>10. s4[c].tokens = 0 /\ s3[c] = None /\ s5[c] = 0
    BY <1>1 DEF CallOK, RunOK, BeforeRun
  <1>11. /\ x \in CallState /\ x.pc = pc /\ x.tokens = 0 /\ x.base = s4[c].base
         /\ x.early = s4[c].early /\ x.baseTokens = s4[c].baseTokens /\ x.mode = s4[c].mode
    BY <1>1, <1>8, <1>10, <1>a DEF CallState
  <1>12. CallOK(x)
    <2>1. x.pc \in DuringRun /\ (x.pc = "complete" => x.mode # "DETERMINISTIC")
      BY <1>11, <1>a
    <2> QED
      BY <1>11, <2>1 DEF CallOK, DuringRun, BeforeRun
  <1>13. RunOK(x, entry, 0)
    BY <1>2, <1>6, <1>a, <1>11 DEF RunOK, BeforeRun, DuringRun
  <1>14. CompareOK(x, s3')
    <2>1. CompareOK(x, s3)
      BY <1>1, <1>11, <1>a DEF CompareOK, DuringRun
    <2>2. \A r \in Triples : Finished(r, s3) => s3'[r] = s3[r]
      BY <1>5, <1>10 DEF Finished, LabInv, LabTables
    <2> QED
      BY <2>1, <2>2, ComparisonLasts
  <1>15. s5' = [s5 EXCEPT ![c] = 0] /\ s2' \subseteq Scenarios \cup Triples /\ ~Finished(c, s3)
    BY <1>1, <1>10 DEF LabInv, LabTables, Finished
  <1>16. PICK audit \in 0 .. 1 : audit = 0
    OBVIOUS
  <1>17. RunOK(x, entry, audit) /\ s5' = [s5 EXCEPT ![c] = audit]
    BY <1>13, <1>15, <1>16
  <1>18. entry \in Lab!Run \cup {None} /\ s1' = s1 /\ s6' = s6
    BY <1>1, <1>6
  <1> QED
    BY <1>5, <1>9, <1>12, <1>14, <1>15, <1>17, <1>18, CallGoesOn

\* which answers, or is made up for,
LEMMA CompletionKeeps ==
  ASSUME LabInv, NEW c \in Triples, Lab!Complete(c)
  PROVE  LabInv'
  <1>1. /\ s4[c].pc = "complete" /\ UNCHANGED <<s1, s2, s3, s5, s6>>
        /\ CallOK(s4[c]) /\ s4[c] \in CallState /\ RunOK(s4[c], s3[c], s5[c]) /\ CompareOK(s4[c], s3)
    BY DEF Lab!Complete, Lab!stored, LabInv, LabTables
  <1>2. PICK n \in Nat : s4' = [s4 EXCEPT ![c] = [s4[c] EXCEPT !.pc = "update", !.tokens = n]]
    BY LabAssumption DEF Lab!Complete, Lab!Goes
  <1>3. PICK x : x = [s4[c] EXCEPT !.pc = "update", !.tokens = n]
    OBVIOUS
  <1>4. s4[c].mode # "DETERMINISTIC"
    BY <1>1 DEF CallOK
  <1>5. /\ x \in CallState /\ x.pc = "update" /\ x.tokens = n /\ x.base = s4[c].base
        /\ x.early = s4[c].early /\ x.baseTokens = s4[c].baseTokens /\ x.mode = s4[c].mode
    BY <1>1, <1>3 DEF CallState, DuringRun
  <1>6. CallOK(x)
    BY <1>4, <1>5 DEF CallOK, BeforeRun
  <1>7. CompareOK(x, s3)
    BY <1>1, <1>5 DEF CompareOK, DuringRun
  <1>8. RunOK(x, s3[c], s5[c])
    BY <1>1, <1>5 DEF RunOK, BeforeRun, DuringRun
  <1>9. s2' \subseteq Scenarios \cup Triples
    BY <1>1 DEF LabInv, LabTables
  <1> QED
    BY <1>1, <1>2, <1>3, <1>6, <1>7, <1>8, <1>9, CallMoves

\* and the run is stored again, audited and compared.
LEMMA RunUpdated ==
  ASSUME LabInv, NEW c \in Triples, Lab!UpdateRun(c)
  PROVE  LabInv'
  <1>1. /\ s4[c].pc = "update" /\ UNCHANGED <<s1, s2, s6>>
        /\ CallOK(s4[c]) /\ s4[c] \in CallState /\ RunOK(s4[c], s3[c], s5[c]) /\ CompareOK(s4[c], s3)
    BY DEF Lab!UpdateRun, LabInv, LabTables
  <1>2. s3[c] \in Lab!Run /\ s3[c] # None /\ s3[c].status = "RUNNING" /\ s5[c] = 0
    BY <1>1 DEF RunOK, DuringRun, LabInv, LabTables
  <1>3. PICK n \in Nat : n = s4[c].tokens /\ (s4[c].mode = "DETERMINISTIC" => n = 0)
    BY <1>1 DEF CallOK, CallState
  <1>4. PICK entry : entry = [s3[c] EXCEPT !.status = "COMPLETED", !.tokens = n]
    OBVIOUS
  <1>5. s3' = [s3 EXCEPT ![c] = entry]
    <2>1. s3' = [s3 EXCEPT ![c].status = "COMPLETED", ![c].tokens = n]
      BY <1>3 DEF Lab!UpdateRun
    <2> QED
      BY <1>4, <2>1 DEF LabInv, LabTables
  <1>6. entry \in Lab!Run /\ entry.status = "COMPLETED" /\ entry.tokens = n /\ entry.mode = s3[c].mode /\ entry # None
    <2>1. entry \in Lab!Run /\ entry.status = "COMPLETED" /\ entry.tokens = n /\ entry.mode = s3[c].mode
      BY <1>2, <1>4 DEF Lab!Run
    <2> QED
      BY <2>1, LabAssumption
  <1>7. s5' = [s5 EXCEPT ![c] = 1]
    BY <1>2 DEF Lab!UpdateRun, LabInv, LabTables
  <1>8. PICK d : d = (IF s4[c].base = None THEN None ELSE n - s4[c].baseTokens)
    OBVIOUS
  <1>9. d \in Int \cup {None} /\ (d # None => s4[c].base # None /\ d = n - s4[c].baseTokens)
    BY <1>1, <1>8 DEF CallState
  <1>10. PICK x : x = [s4[c] EXCEPT !.pc = "done", !.cand = c, !.delta = d]
    OBVIOUS
  <1>11. s4' = [s4 EXCEPT ![c] = x]
    BY <1>3, <1>8, <1>10 DEF Lab!UpdateRun, Lab!Goes
  <1>12. /\ x \in CallState /\ x.pc = "done" /\ x.tokens = s4[c].tokens /\ x.base = s4[c].base
         /\ x.cand = c /\ x.delta = d
         /\ x.early = s4[c].early /\ x.baseTokens = s4[c].baseTokens /\ x.mode = s4[c].mode
    BY <1>1, <1>9, <1>10 DEF CallState
  <1>13. CallOK(x)
    BY <1>1, <1>12 DEF CallOK, BeforeRun
  <1>14. RunOK(x, entry, 1)
    BY <1>1, <1>2, <1>3, <1>6, <1>12 DEF RunOK, BeforeRun, DuringRun
  <1>15. s3'[c] = entry /\ \A r \in Triples : Finished(r, s3) => s3'[r] = s3[r] /\ r # c
    BY <1>2, <1>5 DEF Finished, LabInv, LabTables
  <1>16. CompareOK(x, s3')
    <2> SUFFICES ASSUME ~x.early, x.delta # None
                 PROVE  /\ Finished(x.base, s3') /\ Finished(x.cand, s3')
                        /\ x.delta = s3'[x.cand].tokens - s3'[x.base].tokens
      BY <1>12 DEF CompareOK, DuringRun
    <2>1. Finished(s4[c].base, s3) /\ s3[s4[c].base].tokens = s4[c].baseTokens
      BY <1>1, <1>9, <1>12 DEF CompareOK, DuringRun
    <2>2. Finished(x.base, s3') /\ s3'[x.base].tokens = s4[c].baseTokens
      BY <1>12, <1>15, <2>1 DEF Finished
    <2>3. Finished(x.cand, s3') /\ s3'[x.cand].tokens = n
      BY <1>6, <1>12, <1>15 DEF Finished
    <2> QED
      BY <1>9, <1>12, <2>2, <2>3
  <1>17. s2' \subseteq Scenarios \cup Triples /\ ~Finished(c, s3)
    BY <1>1, <1>2 DEF LabInv, LabTables, Finished
  <1>18. PICK audit \in 0 .. 1 : audit = 1
    OBVIOUS
  <1>19. RunOK(x, entry, audit) /\ s5' = [s5 EXCEPT ![c] = audit]
    BY <1>7, <1>14, <1>18
  <1>20. entry \in Lab!Run \cup {None} /\ s1' = s1 /\ s6' = s6
    BY <1>1, <1>6
  <1> QED
    BY <1>5, <1>11, <1>13, <1>16, <1>17, <1>19, <1>20, CallGoesOn

\* What a comparison reads is what it says, unless it is too early.
LEMMA ReadsKeep ==
  ASSUME LabInv, NEW c \in Triples, Lab!ReadBase(c) \/ Lab!ReadCandidate(c)
  PROVE  LabInv'
  <1>1. /\ UNCHANGED Lab!stored /\ CallOK(s4[c]) /\ s4[c] \in CallState
        /\ RunOK(s4[c], s3[c], s5[c]) /\ CompareOK(s4[c], s3)
        /\ s4[c].pc \in {"both", "base", "candidate"}
    BY DEF Lab!ReadBase, Lab!ReadCandidate, Lab!Read, LabInv, LabTables
  <1>2. /\ s4[c].base \in Triples /\ s4[c].cand \in Triples /\ s4[c].delta \in Int
        /\ s4[c].tokens = 0 /\ s3[c] = None /\ s5[c] = 0
    BY <1>1 DEF CallOK, RunOK, BeforeRun
  <1>3. UNCHANGED <<s1, s2, s3, s5, s6>> /\ s2' \subseteq Scenarios \cup Triples
    BY <1>1 DEF Lab!stored, LabInv, LabTables
  <1>4. \A r \in Triples : s3[r] # None => /\ s3[r].tokens \in Nat
                                           /\ s3[r].status # "RUNNING" => Finished(r, s3)
    BY DEF LabInv, LabTables, Lab!Run, Finished
  <1>5. ASSUME NEW pc \in {"base", "candidate", "done"}, NEW early \in BOOLEAN, NEW d \in Int, NEW x,
               x = [s4[c] EXCEPT !.pc = pc, !.early = early, !.delta = d],
               ~early => /\ pc = "candidate" => Finished(s4[c].base, s3) /\ d = 0 - s3[s4[c].base].tokens
                         /\ pc = "base" => Finished(s4[c].cand, s3) /\ d = s3[s4[c].cand].tokens
                         /\ pc = "done" => /\ Finished(s4[c].base, s3) /\ Finished(s4[c].cand, s3)
                                           /\ d = s3[s4[c].cand].tokens - s3[s4[c].base].tokens,
               s4' = [s4 EXCEPT ![c] = x]
        PROVE  LabInv'
    <2>1. x = [kind |-> s4[c].kind, pc |-> pc, scenario |-> s4[c].scenario, mode |-> s4[c].mode,
               replayOf |-> s4[c].replayOf, tokens |-> s4[c].tokens, base |-> s4[c].base,
               cand |-> s4[c].cand, baseTokens |-> s4[c].baseTokens, early |-> early, delta |-> d]
      BY <1>1, <1>5 DEF CallState
    <2>2. x \in CallState
      BY <1>1, <2>1 DEF CallState, BeforeRun, DuringRun
    <2>3. /\ x.pc = pc /\ x.base = s4[c].base /\ x.cand = s4[c].cand /\ x.early = early /\ x.delta = d
          /\ x.tokens = 0 /\ x.mode = s4[c].mode
      BY <1>2, <2>1
    <2>4. CallOK(x)
      BY <1>2, <1>5, <2>2, <2>3 DEF CallOK
    <2>5. CompareOK(x, s3)
      BY <1>5, <2>3 DEF CompareOK, DuringRun
    <2>6. RunOK(x, s3[c], s5[c])
      BY <1>2, <1>5, <2>3 DEF RunOK, BeforeRun, DuringRun
    <2> QED
      BY <1>3, <1>5, <2>4, <2>5, <2>6, CallMoves
  <1>6. CASE Lab!ReadBase(c)
    <2>1. s4[c].pc \in {"both", "base"}
      BY <1>6 DEF Lab!ReadBase, Lab!Read
    <2>2. CASE s3[s4[c].base] = None
      BY <1>1, <1>6, <2>2, RefusedKeeps DEF Lab!ReadBase, Lab!Read
    <2>3. CASE s3[s4[c].base] # None
      <3>1. PICK n \in Nat : n = s3[s4[c].base].tokens
        BY <1>2, <1>4, <2>3
      <3>2. PICK early \in BOOLEAN : early = (s4[c].early \/ s3[s4[c].base].status = "RUNNING")
        OBVIOUS
      <3>3. PICK pc \in {"base", "candidate", "done"} :
              pc = IF s4[c].pc = "both" THEN "candidate" ELSE "done"
        OBVIOUS
      <3>4. PICK d \in Int : d = s4[c].delta + (0 - 1) * n
        BY <1>2, <3>1
      <3>5. PICK x : x = [s4[c] EXCEPT !.pc = pc, !.early = early, !.delta = d]
        OBVIOUS
      <3>6. s4' = [s4 EXCEPT ![c] = x]
        <4>1. s4' = [s4 EXCEPT ![c] =
                      [s4[c] EXCEPT !.pc = IF s4[c].pc = "both" THEN "candidate" ELSE "done",
                                    !.early = s4[c].early \/ s3[s4[c].base].status = "RUNNING",
                                    !.delta = s4[c].delta + (-1) * s3[s4[c].base].tokens]]
          BY <1>1, <1>6, <2>3 DEF Lab!ReadBase, Lab!Read, Lab!Goes, CallState
        <4> QED
          BY <3>1, <3>2, <3>3, <3>4, <3>5, <4>1
      <3>7. ~early => /\ pc = "candidate" => Finished(s4[c].base, s3) /\ d = 0 - s3[s4[c].base].tokens
                      /\ pc = "base" => Finished(s4[c].cand, s3) /\ d = s3[s4[c].cand].tokens
                      /\ pc = "done" => /\ Finished(s4[c].base, s3) /\ Finished(s4[c].cand, s3)
                                        /\ d = s3[s4[c].cand].tokens - s3[s4[c].base].tokens
        <4> SUFFICES ASSUME ~early
                     PROVE  /\ pc = "candidate" => Finished(s4[c].base, s3) /\ d = 0 - n
                            /\ pc = "done" => /\ Finished(s4[c].base, s3) /\ Finished(s4[c].cand, s3)
                                              /\ d = s3[s4[c].cand].tokens - n
          BY <2>1, <3>1, <3>3
        <4>5. ~s4[c].early /\ s3[s4[c].base].status # "RUNNING"
          BY <3>2
        <4>6. Finished(s4[c].base, s3)
          BY <1>2, <1>4, <2>3, <4>5
        <4>7. d = s4[c].delta - n
          BY <1>2, <3>4
        <4>1. ~s4[c].early /\ Finished(s4[c].base, s3) /\ d = s4[c].delta - n
          BY <4>5, <4>6, <4>7
        <4>2. pc = "candidate" => s4[c].delta = 0
          BY <1>1, <2>1, <3>3, <4>1 DEF CompareOK
        <4>3. pc = "done" => Finished(s4[c].cand, s3) /\ s4[c].delta = s3[s4[c].cand].tokens
          BY <1>1, <2>1, <3>3, <4>1 DEF CompareOK
        <4> QED
          BY <4>1, <4>2, <4>3
      <3> QED
        BY <1>5, <3>5, <3>6, <3>7
    <2> QED
      BY <2>2, <2>3
  <1>7. CASE Lab!ReadCandidate(c)
    <2>1. s4[c].pc \in {"both", "candidate"}
      BY <1>7 DEF Lab!ReadCandidate, Lab!Read
    <2>2. CASE s3[s4[c].cand] = None
      BY <1>1, <1>7, <2>2, RefusedKeeps DEF Lab!ReadCandidate, Lab!Read
    <2>3. CASE s3[s4[c].cand] # None
      <3>1. PICK n \in Nat : n = s3[s4[c].cand].tokens
        BY <1>2, <1>4, <2>3
      <3>2. PICK early \in BOOLEAN : early = (s4[c].early \/ s3[s4[c].cand].status = "RUNNING")
        OBVIOUS
      <3>3. PICK pc \in {"base", "candidate", "done"} :
              pc = IF s4[c].pc = "both" THEN "base" ELSE "done"
        OBVIOUS
      <3>4. PICK d \in Int : d = s4[c].delta + 1 * n
        BY <1>2, <3>1
      <3>5. PICK x : x = [s4[c] EXCEPT !.pc = pc, !.early = early, !.delta = d]
        OBVIOUS
      <3>6. s4' = [s4 EXCEPT ![c] = x]
        <4>1. s4' = [s4 EXCEPT ![c] =
                      [s4[c] EXCEPT !.pc = IF s4[c].pc = "both" THEN "base" ELSE "done",
                                    !.early = s4[c].early \/ s3[s4[c].cand].status = "RUNNING",
                                    !.delta = s4[c].delta + 1 * s3[s4[c].cand].tokens]]
          BY <1>1, <1>7, <2>3 DEF Lab!ReadCandidate, Lab!Read, Lab!Goes, CallState
        <4> QED
          BY <3>1, <3>2, <3>3, <3>4, <3>5, <4>1
      <3>7. ~early => /\ pc = "candidate" => Finished(s4[c].base, s3) /\ d = 0 - s3[s4[c].base].tokens
                      /\ pc = "base" => Finished(s4[c].cand, s3) /\ d = s3[s4[c].cand].tokens
                      /\ pc = "done" => /\ Finished(s4[c].base, s3) /\ Finished(s4[c].cand, s3)
                                        /\ d = s3[s4[c].cand].tokens - s3[s4[c].base].tokens
        <4> SUFFICES ASSUME ~early
                     PROVE  /\ pc = "base" => Finished(s4[c].cand, s3) /\ d = n
                            /\ pc = "done" => /\ Finished(s4[c].base, s3) /\ Finished(s4[c].cand, s3)
                                              /\ d = n - s3[s4[c].base].tokens
          BY <2>1, <3>1, <3>3
        <4>5. ~s4[c].early /\ s3[s4[c].cand].status # "RUNNING"
          BY <3>2
        <4>6. Finished(s4[c].cand, s3)
          BY <1>2, <1>4, <2>3, <4>5
        <4>7. d = s4[c].delta + n
          BY <1>2, <3>4
        <4>1. ~s4[c].early /\ Finished(s4[c].cand, s3) /\ d = s4[c].delta + n
          BY <4>5, <4>6, <4>7
        <4>2. pc = "base" => s4[c].delta = 0
          BY <1>1, <2>1, <3>3, <4>1 DEF CompareOK
        <4>3. pc = "done" => Finished(s4[c].base, s3) /\ s4[c].delta = 0 - s3[s4[c].base].tokens
          BY <1>1, <2>1, <3>3, <4>1 DEF CompareOK
        <4>4. s3[s4[c].base] # None => s3[s4[c].base].tokens \in Nat
          BY <1>2, <1>4
        <4> QED
          BY <4>1, <4>2, <4>3, <4>4 DEF Finished
      <3> QED
        BY <1>5, <3>5, <3>6, <3>7
    <2> QED
      BY <2>2, <2>3
  <1> QED
    BY <1>6, <1>7

\* Every step of the experiments.
LEMMA LabKeeps == LabInv /\ [Lab!ExperimentNext]_(Lab!experimentVars) => LabInv'
  <1> SUFFICES ASSUME LabInv, [Lab!ExperimentNext]_(Lab!experimentVars) PROVE LabInv'
    OBVIOUS
  <1>1. CASE UNCHANGED Lab!experimentVars
    BY <1>1 DEF Lab!experimentVars, LabInv, LabTables
  <1>2. ASSUME NEW s \in Scenarios, Lab!CreateScenario(s) PROVE LabInv'
    <2>1. s2' = s2 \cup {s} /\ UNCHANGED <<s1, s3, s4, s5, s6>>
      BY <1>2 DEF Lab!CreateScenario
    <2> QED
      BY <2>1 DEF LabInv, LabTables
  <1>3. ASSUME NEW c \in Triples, Lab!WriteFails(c) PROVE LabInv'
    BY <1>3, RefusedKeeps DEF Lab!WriteFails
  <1>4. ASSUME NEW c \in Triples, Lab!ExperimentStep(c) PROVE LabInv'
    BY <1>3, <1>4, ReplayKeeps, SourceKeeps, BaselineKeeps, SandboxKeeps, ScenarioKeeps, RunCreated,
       CompletionKeeps, RunUpdated, ReadsKeep DEF Lab!ExperimentStep
  <1> QED
    BY <1>1, <1>2, <1>4, RequestsKeep, CrashKeeps DEF Lab!ExperimentNext

\* What the run checks of experiments.
LEMMA LabShows ==
  LabInv => Lab!ExperimentTypeOK /\ Lab!RunsFinishOrWereLeft /\ Lab!DeterministicIsFree /\ Lab!ComparisonsStand
  <1> SUFFICES ASSUME LabInv
               PROVE  /\ Lab!ExperimentTypeOK /\ Lab!RunsFinishOrWereLeft
                      /\ Lab!DeterministicIsFree /\ Lab!ComparisonsStand
    OBVIOUS
  <1>1. Lab!ExperimentTypeOK
    BY DEF LabInv, LabTables, Lab!ExperimentTypeOK
  <1>2. Lab!RunsFinishOrWereLeft
    BY DEF LabInv, RunOK, BeforeRun, Lab!RunsFinishOrWereLeft
  <1>3. Lab!DeterministicIsFree
    BY DEF LabInv, RunOK, Lab!DeterministicIsFree
  <1>4. Lab!ComparisonsStand
    BY DEF LabInv, CompareOK, Lab!ComparisonsStand
  <1> QED
    BY <1>1, <1>2, <1>3, <1>4

\* Experiments on their own.
THEOREM ExperimentsHold ==
  Lab!ExperimentSpec => [](Lab!ExperimentTypeOK /\ Lab!RunsFinishOrWereLeft
                           /\ Lab!DeterministicIsFree /\ Lab!ComparisonsStand)
  <1> QED
    BY LabStarts, LabKeeps, LabShows, PTL DEF Lab!ExperimentSpec

\* What is logged and sent, and what experiments say, in their scenes.
RecordSceneInv ==
  /\ scene \in AuditScenes => LogInv /\ StreamInv
  /\ scene = "experiments" => LabInv

\* What happened is in the audit log once and reaches the own listeners, runs cost what
\* their records say and comparisons stay true (audit.service.ts, event-stream.service.ts,
\* experiment.service.ts).
THEOREM RecordsAlwaysTruthful == MCSpec => []RecordsTellTheTruth
  <1>1. MCInit => RecordSceneInv
    BY LogStarts, StreamStarts, LabStarts DEF MCInit, RecordSceneInv, CloudScenes, WorkScenes, AuditScenes
  <1>2. RecordSceneInv /\ [MCNext]_<<stepVars, scene, shared>> => RecordSceneInv'
    <2> SUFFICES ASSUME RecordSceneInv, [MCNext]_<<stepVars, scene, shared>> PROVE RecordSceneInv'
      OBVIOUS
    <2>1. scene' = scene
      BY DEF MCNext
    <2>2. CASE UNCHANGED shared
      <3>1. UNCHANGED Audit!auditVars /\ UNCHANGED Lab!experimentVars
        BY <2>2 DEF shared, Audit!auditVars, Lab!experimentVars
      <3> QED
        BY <2>1, <3>1, LogKeeps, StreamKeeps, LabKeeps DEF RecordSceneInv
    <2>3. CASE scene \in AuditScenes /\ ~UNCHANGED shared
      <3>1. StreamNext \/ AuditNext
        BY <2>3 DEF MCNext, AuditScenes
      <3>2. Audit!AuditNext
        BY <3>1 DEF StreamNext, AuditNext
      <3> QED
        BY <2>1, <2>3, <3>2, LogKeeps, StreamKeeps DEF RecordSceneInv, AuditScenes
    <2>4. CASE scene = "experiments" /\ ~UNCHANGED shared
      <3>1. ExperimentsNext
        BY <2>4 DEF MCNext
      <3> QED
        BY <2>1, <2>4, <3>1, LabKeeps DEF RecordSceneInv, AuditScenes, ExperimentsNext
    <2> QED
      BY <2>1, <2>2, <2>3, <2>4 DEF RecordSceneInv
  <1>3. RecordSceneInv => RecordsTellTheTruth
    BY TrailShows, LabShows DEF RecordSceneInv, RecordsTellTheTruth
  <1> QED
    BY <1>1, <1>2, <1>3, PTL DEF MCSpec

(***************************************************************************)
(* The outbox.                                                             *)
(***************************************************************************)

MailRow == [id : Triples, status : {"PENDING", "PUBLISHED"}]
PublishCall == [pc : {"idle", "send", "mark"}, events : SUBSET Nat]

MailTables ==
  /\ s1 \in BOOLEAN /\ s2 \in Seq(MailRow) /\ s3 \in [Pairs -> PublishCall]
  /\ s4 \in Seq(Triples) /\ s5 \in Seq(Triples) /\ s6 \in 0 .. Len(s4) /\ s7 \in Seq(Triples)
  /\ ~s1 => s4 = <<>>
  /\ \A p \in Pairs : /\ s3[p].events \subseteq DOMAIN s2
                      /\ s3[p].pc = "idle" <=> s3[p].events = {}

\* The outbox is the end of what was ever appended, and nothing was appended twice.
AppendedOnce ==
  /\ \A m, n \in DOMAIN s7 : s7[m] = s7[n] => m = n
  /\ Len(s2) <= Len(s7)
  /\ \A i \in DOMAIN s2 : s2[i].id = s7[Len(s7) - Len(s2) + i]

\* A call that goes on with an event has left none behind that the topic lacks.
SentBefore ==
  /\ \A i \in DOMAIN s2 : s2[i].status = "PUBLISHED" => s2[i].id \in Mail!Range(s4)
  /\ \A i, j \in DOMAIN s2 : i < j /\ s2[j].id \in Mail!Range(s4) => s2[i].id \in Mail!Range(s4)
  /\ \A p \in Pairs : \A k \in s3[p].events, i \in DOMAIN s2 :
       i < k /\ i \notin s3[p].events => s2[i].id \in Mail!Range(s4)
  /\ \A p \in Pairs : s3[p].pc = "mark" => s2[Mail!Sending(p)].id \in Mail!Range(s4)

TopicInOrder ==
  /\ Mail!Range(s4) \subseteq Mail!Range(s7)
  /\ \A m, n \in DOMAIN s7 :
       m < n /\ s7[m] \in Mail!Range(s4) => Mail!Precedes(s4, s7[m], s7[n])

\* The handler was given all that its group committed.
HandlerInOrder ==
  /\ Mail!Range(s5) \subseteq Mail!Range(s4)
  /\ \A i \in 1 .. s6 : s4[i] \in Mail!Range(s5)
  /\ \A d, e \in Mail!Range(s4) :
       d # e /\ Mail!Precedes(s4, d, e) => Mail!Precedes(s5, d, e)

MailInv == MailTables /\ AppendedOnce /\ (s1 => SentBefore) /\ TopicInOrder /\ HandlerInOrder

\* What a sequence holds once an element was appended,
LEMMA RangeOfAppend ==
  ASSUME NEW S, NEW s \in Seq(S), NEW x \in S
  PROVE  Mail!Range(Append(s, x)) = Mail!Range(s) \cup {x}
  <1>1. PICK t : t = Append(s, x)
    OBVIOUS
  <1>2. /\ DOMAIN t = 1 .. Len(s) + 1 /\ DOMAIN s = 1 .. Len(s) /\ Len(s) \in Nat
        /\ \A i \in 1 .. Len(s) : t[i] = s[i]
        /\ t[Len(s) + 1] = x
    BY <1>1
  <1>3. 1 .. Len(s) + 1 = (1 .. Len(s)) \cup {Len(s) + 1}
    BY <1>2
  <1>4. Mail!Range(t) = Mail!Range(s) \cup {x}
    BY <1>2, <1>3 DEF Mail!Range
  <1> QED
    BY <1>1, <1>4

\* and what comes first in it.
LEMMA OrderOfAppend ==
  ASSUME NEW S, NEW s \in Seq(S), NEW x \in S, NEW d, NEW e
  PROVE  Mail!Precedes(Append(s, x), d, e) <=>
           Mail!Precedes(s, d, e) /\ (x = e => d \in Mail!Range(s))
  <1>1. PICK t : t = Append(s, x)
    OBVIOUS
  <1>2. /\ DOMAIN t = 1 .. Len(s) + 1 /\ DOMAIN s = 1 .. Len(s) /\ Len(s) \in Nat
        /\ \A i \in 1 .. Len(s) : t[i] = s[i]
        /\ t[Len(s) + 1] = x
    BY <1>1
  <1>3. ASSUME Mail!Precedes(t, d, e) PROVE Mail!Precedes(s, d, e)
    <2> SUFFICES ASSUME NEW j \in 1 .. Len(s), s[j] = e PROVE \E i \in 1 .. j - 1 : s[i] = d
      BY <1>2 DEF Mail!Precedes
    <2>1. j \in DOMAIN t /\ t[j] = e
      BY <1>2
    <2>2. PICK i \in 1 .. j - 1 : t[i] = d
      BY <1>3, <2>1 DEF Mail!Precedes
    <2>3. i \in 1 .. Len(s)
      BY <1>2
    <2> QED
      BY <1>2, <2>2, <2>3
  <1>4. ASSUME Mail!Precedes(t, d, e), x = e PROVE d \in Mail!Range(s)
    <2>1. Len(s) + 1 \in DOMAIN t /\ t[Len(s) + 1] = e
      BY <1>2, <1>4
    <2>2. PICK i \in 1 .. Len(s) + 1 - 1 : t[i] = d
      BY <1>4, <2>1 DEF Mail!Precedes
    <2>3. i \in 1 .. Len(s)
      BY <1>2
    <2> QED
      BY <1>2, <2>2, <2>3 DEF Mail!Range
  <1>5. ASSUME Mail!Precedes(s, d, e), x = e => d \in Mail!Range(s)
        PROVE  Mail!Precedes(t, d, e)
    <2> SUFFICES ASSUME NEW j \in 1 .. Len(s) + 1, t[j] = e PROVE \E i \in 1 .. j - 1 : t[i] = d
      BY <1>2 DEF Mail!Precedes
    <2>1. CASE j \in 1 .. Len(s)
      <3>1. PICK i \in 1 .. j - 1 : s[i] = d
        BY <1>2, <1>5, <2>1 DEF Mail!Precedes
      <3>2. i \in 1 .. Len(s)
        BY <1>2, <2>1
      <3> QED
        BY <1>2, <3>1, <3>2
    <2>2. CASE j = Len(s) + 1
      <3>1. d \in Mail!Range(s)
        BY <1>2, <1>5, <2>2
      <3>2. PICK i \in 1 .. Len(s) : s[i] = d
        BY <1>2, <3>1 DEF Mail!Range
      <3>3. i \in 1 .. j - 1
        BY <1>2, <2>2
      <3> QED
        BY <1>2, <3>2, <3>3
    <2> QED
      BY <1>2, <2>1, <2>2
  <1>6. Mail!Precedes(t, d, e) <=> Mail!Precedes(s, d, e) /\ (x = e => d \in Mail!Range(s))
    BY <1>3, <1>4, <1>5
  <1> QED
    BY <1>1, <1>6

\* What does not occur is preceded by anything.
LEMMA AbsentIsPreceded ==
  ASSUME NEW s, NEW d, NEW e, e \notin Mail!Range(s)
  PROVE  Mail!Precedes(s, d, e)
  BY DEF Mail!Precedes, Mail!Range

\* What precedes an occurrence occurs.
LEMMA PrecedingOccurs ==
  ASSUME NEW S, NEW s \in Seq(S), NEW d, NEW e \in Mail!Range(s), Mail!Precedes(s, d, e)
  PROVE  d \in Mail!Range(s)
  <1>1. PICK j \in 1 .. Len(s) : s[j] = e
    BY DEF Mail!Range
  <1>2. DOMAIN s = 1 .. Len(s) /\ Len(s) \in Nat
    OBVIOUS
  <1>3. PICK i \in 1 .. j - 1 : s[i] = d
    BY <1>1, <1>2 DEF Mail!Precedes
  <1>4. i \in 1 .. Len(s)
    BY <1>2
  <1> QED
    BY <1>2, <1>3, <1>4 DEF Mail!Range

\* A call sends the first of the events it has left.
LEMMA SendingFirst ==
  ASSUME MailTables, NEW p \in Pairs, s3[p].pc # "idle"
  PROVE  /\ Mail!Sending(p) \in s3[p].events
         /\ \A j \in s3[p].events : Mail!Sending(p) <= j
         /\ Mail!Sending(p) \in DOMAIN s2 /\ Mail!Sending(p) \in Nat
  <1>1. s3[p].events # {} /\ s3[p].events \subseteq Nat /\ s3[p].events \subseteq DOMAIN s2
    BY DEF MailTables, PublishCall
  <1>2. PICK x \in s3[p].events : \A y \in s3[p].events : ~ (<<y, x>> \in OpToRel(<, Nat))
    BY <1>1, NatLessThanWellFounded, WFMin
  <1>3. \A y \in s3[p].events : x <= y
    <2> SUFFICES ASSUME NEW y \in s3[p].events, ~ (x <= y) PROVE FALSE
      OBVIOUS
    <2>1. <<y, x>> \in Nat \X Nat /\ y < x
      BY <1>1
    <2>2. <<y, x>> \in OpToRel(<, Nat)
      BY <2>1 DEF OpToRel
    <2> QED
      BY <1>2, <2>2
  <1>4. Mail!Sending(p) \in s3[p].events /\ \A j \in s3[p].events : Mail!Sending(p) <= j
    BY <1>3 DEF Mail!Sending
  <1> QED
    BY <1>1, <1>4

\* Before the first event,
LEMMA MailStarts == Mail!OutboxInit => MailInv
  <1> SUFFICES ASSUME Mail!OutboxInit PROVE MailInv
    OBVIOUS
  <1>1. /\ s1 \in BOOLEAN /\ s2 = <<>> /\ s4 = <<>> /\ s5 = <<>> /\ s6 = 0 /\ s7 = <<>>
        /\ s3 = [p \in Pairs |-> [pc |-> "idle", events |-> {}]]
    BY DEF Mail!OutboxInit, Mail!NoCall
  <1>2. \A S : <<>> \in Seq(S)
    OBVIOUS
  <1>3. MailTables
    BY <1>1, <1>2 DEF MailTables, PublishCall
  <1>4. Mail!Range(s4) = {} /\ Mail!Range(s5) = {}
    BY <1>1 DEF Mail!Range
  <1>5. AppendedOnce /\ SentBefore
    BY <1>1 DEF AppendedOnce, SentBefore
  <1>6. TopicInOrder /\ HandlerInOrder
    BY <1>1, <1>4 DEF TopicInOrder, HandlerInOrder
  <1> QED
    BY <1>3, <1>5, <1>6 DEF MailInv

\* an event is appended as the last of all,
LEMMA EventAppended ==
  ASSUME MailInv, NEW e \in Triples, Mail!PublishEvent(e)
  PROVE  MailInv'
  <1>1. PICK x : x = [id |-> e, status |-> "PENDING"]
    OBVIOUS
  <1>2. /\ e \notin Mail!Range(s7) /\ s2' = Append(s2, x) /\ s7' = Append(s7, e)
        /\ s1' = s1 /\ s3' = s3 /\ s4' = s4 /\ s5' = s5 /\ s6' = s6
    BY <1>1 DEF Mail!PublishEvent
  <1>3. x \in MailRow /\ x.id = e /\ x.status = "PENDING"
    BY <1>1 DEF MailRow
  <1>4. /\ MailTables /\ AppendedOnce /\ TopicInOrder /\ HandlerInOrder
        /\ s2 \in Seq(MailRow) /\ s7 \in Seq(Triples)
    BY DEF MailInv, MailTables
  <1>5. PICK t2 : t2 = s2'
    OBVIOUS
  <1>6. /\ t2 \in Seq(MailRow) /\ Len(t2) = Len(s2) + 1 /\ DOMAIN t2 = 1 .. Len(s2) + 1
        /\ DOMAIN s2 = 1 .. Len(s2) /\ \A i \in DOMAIN s2 : t2[i] = s2[i]
        /\ t2[Len(s2) + 1] = x
    BY <1>2, <1>3, <1>4, <1>5
  <1>7. PICK t7 : t7 = s7' /\ t7 = Append(s7, e)
    BY <1>2
  <1>8. /\ t7 \in Seq(Triples) /\ Len(t7) = Len(s7) + 1 /\ DOMAIN t7 = 1 .. Len(s7) + 1
        /\ DOMAIN s7 = 1 .. Len(s7) /\ \A i \in DOMAIN s7 : t7[i] = s7[i]
        /\ t7[Len(s7) + 1] = e /\ Mail!Range(t7) = Mail!Range(s7) \cup {e}
    <2>1. s7 \in Seq(Triples) /\ e \in Triples /\ t7 = Append(s7, e)
      BY <1>4, <1>7
    <2>2. /\ t7 \in Seq(Triples) /\ Len(t7) = Len(s7) + 1 /\ DOMAIN t7 = 1 .. Len(s7) + 1
          /\ DOMAIN s7 = 1 .. Len(s7) /\ \A i \in DOMAIN s7 : t7[i] = s7[i]
          /\ t7[Len(s7) + 1] = e
      BY <2>1
    <2>3. Mail!Range(t7) = Mail!Range(s7) \cup {e}
      BY <2>1, RangeOfAppend
    <2> QED
      BY <2>2, <2>3
  <1>9. Len(s2) \in Nat /\ Len(s7) \in Nat /\ Len(s2) <= Len(s7)
    BY <1>4 DEF AppendedOnce
  <1>10. e \notin Mail!Range(s4)
    BY <1>2, <1>4 DEF TopicInOrder
  <1>11. MailTables'
    <2>1. DOMAIN s2 \subseteq DOMAIN t2
      BY <1>6, <1>9
    <2> QED
      BY <1>2, <1>4, <1>5, <1>6, <1>7, <1>8, <2>1 DEF MailTables
  <1>12. AppendedOnce'
    <2>1. \A m \in DOMAIN s7 : t7[m] # e
      BY <1>2, <1>8 DEF Mail!Range
    <2>2. ASSUME NEW m \in DOMAIN t7, NEW n \in DOMAIN t7, t7[m] = t7[n] PROVE m = n
      <3>1. (m \in DOMAIN s7 \/ m = Len(s7) + 1) /\ (n \in DOMAIN s7 \/ n = Len(s7) + 1)
        BY <1>8, <1>9
      <3>2. \A k, l \in DOMAIN s7 : s7[k] = s7[l] => k = l
        BY <1>4 DEF AppendedOnce
      <3> QED
        BY <1>8, <2>1, <2>2, <3>1, <3>2
    <2>3. ASSUME NEW i \in DOMAIN t2 PROVE t2[i].id = t7[Len(t7) - Len(t2) + i]
      <3>1. Len(t7) - Len(t2) = Len(s7) - Len(s2)
        BY <1>6, <1>8, <1>9
      <3>2. CASE i \in DOMAIN s2
        <4>1. s2[i].id = s7[Len(s7) - Len(s2) + i]
          BY <1>4, <3>2 DEF AppendedOnce
        <4>2. Len(s7) - Len(s2) + i \in DOMAIN s7
          BY <1>6, <1>8, <1>9, <3>2
        <4> QED
          BY <1>6, <1>8, <3>1, <3>2, <4>1, <4>2
      <3>3. CASE i = Len(s2) + 1
        <4>1. Len(s7) - Len(s2) + i = Len(s7) + 1
          BY <1>9, <3>3
        <4> QED
          BY <1>3, <1>6, <1>8, <3>1, <3>3, <4>1
      <3> QED
        BY <1>6, <1>9, <3>2, <3>3
    <2>4. Len(t2) <= Len(t7)
      BY <1>6, <1>8, <1>9
    <2> QED
      BY <1>5, <1>7, <2>2, <2>3, <2>4 DEF AppendedOnce
  <1>13. s1 => SentBefore'
    <2> SUFFICES ASSUME s1 PROVE SentBefore'
      OBVIOUS
    <2>1. SentBefore
      BY DEF MailInv
    <2>2. \A i \in DOMAIN t2 : i \in DOMAIN s2 \/ (i = Len(s2) + 1 /\ t2[i] = x)
      BY <1>6, <1>9
    <2>3. \A i \in DOMAIN t2 : t2[i].status = "PUBLISHED" => t2[i].id \in Mail!Range(s4)
      BY <1>3, <1>6, <2>1, <2>2 DEF SentBefore
    <2>4. \A i, j \in DOMAIN t2 : i < j /\ t2[j].id \in Mail!Range(s4) => t2[i].id \in Mail!Range(s4)
      <3> SUFFICES ASSUME NEW i \in DOMAIN t2, NEW j \in DOMAIN t2, i < j, t2[j].id \in Mail!Range(s4)
                   PROVE  t2[i].id \in Mail!Range(s4)
        OBVIOUS
      <3>1. j \in DOMAIN s2
        BY <1>3, <1>10, <2>2
      <3>2. i \in DOMAIN s2
        BY <1>6, <1>9, <3>1
      <3> QED
        BY <1>6, <2>1, <3>1, <3>2 DEF SentBefore
    <2>5. ASSUME NEW p \in Pairs, NEW k \in s3[p].events, NEW i \in DOMAIN t2,
                 i < k, i \notin s3[p].events
          PROVE  t2[i].id \in Mail!Range(s4)
      <3>1. k \in DOMAIN s2
        BY <1>4, <2>5 DEF MailTables
      <3>2. i \in DOMAIN s2
        BY <1>6, <1>9, <2>5, <3>1
      <3> QED
        BY <1>6, <2>1, <2>5, <3>2 DEF SentBefore
    <2>6. ASSUME NEW p \in Pairs, s3[p].pc = "mark"
          PROVE  t2[Mail!Sending(p)].id \in Mail!Range(s4)
      BY <1>4, <1>6, <2>1, <2>6, SendingFirst DEF SentBefore
    <2>7. \A p \in Pairs : Mail!Sending(p)' = Mail!Sending(p)
      BY <1>2 DEF Mail!Sending
    <2> QED
      BY <1>2, <1>5, <2>3, <2>4, <2>5, <2>6, <2>7 DEF SentBefore
  <1>14. TopicInOrder'
    <2>1. ASSUME NEW m \in DOMAIN t7, NEW n \in DOMAIN t7, m < n, t7[m] \in Mail!Range(s4)
          PROVE  Mail!Precedes(s4, t7[m], t7[n])
      <3>1. m \in DOMAIN s7
        BY <1>8, <1>9, <2>1
      <3>2. CASE n \in DOMAIN s7
        BY <1>4, <1>8, <2>1, <3>1, <3>2 DEF TopicInOrder
      <3>3. CASE n = Len(s7) + 1
        BY <1>8, <1>10, <3>3, AbsentIsPreceded
      <3> QED
        BY <1>8, <1>9, <3>2, <3>3
    <2>2. Mail!Range(s4) \subseteq Mail!Range(t7)
      BY <1>4, <1>8 DEF TopicInOrder
    <2>3. Mail!Range(s7)' = Mail!Range(t7) /\ Mail!Range(s4)' = Mail!Range(s4)
      BY <1>2, <1>7
    <2> QED
      BY <1>2, <1>7, <2>1, <2>2 DEF TopicInOrder
  <1>15. HandlerInOrder'
    BY <1>2, <1>4 DEF HandlerInOrder
  <1> QED
    BY <1>2, <1>11, <1>12, <1>13, <1>14, <1>15 DEF MailInv

\* a call starts with what is pending,
LEMMA CallStarted ==
  ASSUME MailInv, NEW p \in Pairs, Mail!PublishPending(p)
  PROVE  MailInv'
  <1>1. PICK found : found = {i \in DOMAIN s2 : s2[i].status = "PENDING"}
    OBVIOUS
  <1>2. PICK c : c = [pc |-> "send", events |-> found]
    OBVIOUS
  <1>3. /\ s3' = [s3 EXCEPT ![p] = c] /\ found # {}
        /\ s1' = s1 /\ s2' = s2 /\ s4' = s4 /\ s5' = s5 /\ s6' = s6 /\ s7' = s7
    BY <1>1, <1>2 DEF Mail!PublishPending, Mail!FindPending
  <1>4. MailTables /\ AppendedOnce /\ TopicInOrder /\ HandlerInOrder
    BY DEF MailInv
  <1>5. found \subseteq DOMAIN s2 /\ found \subseteq Nat
    BY <1>1, <1>4 DEF MailTables
  <1>6. c \in PublishCall /\ c.pc = "send" /\ c.events = found
    BY <1>2, <1>5 DEF PublishCall
  <1>7. s3'[p] = c /\ \A q \in Pairs \ {p} : s3'[q] = s3[q]
    BY <1>3, <1>4 DEF MailTables
  <1>8. MailTables'
    <2>1. s3' \in [Pairs -> PublishCall]
      BY <1>3, <1>4, <1>6 DEF MailTables
    <2>2. ASSUME NEW q \in Pairs
          PROVE  s3'[q].events \subseteq DOMAIN s2 /\ (s3'[q].pc = "idle" <=> s3'[q].events = {})
      BY <1>3, <1>4, <1>5, <1>6, <1>7 DEF MailTables
    <2> QED
      BY <1>3, <1>4, <2>1, <2>2 DEF MailTables
  <1>9. AppendedOnce' /\ TopicInOrder' /\ HandlerInOrder'
    BY <1>3, <1>4 DEF AppendedOnce, TopicInOrder, HandlerInOrder
  <1>10. s1 => SentBefore'
    <2> SUFFICES ASSUME s1 PROVE SentBefore'
      OBVIOUS
    <2>1. SentBefore
      BY DEF MailInv
    <2>2. ASSUME NEW q \in Pairs, NEW k \in s3'[q].events, NEW i \in DOMAIN s2,
                 i < k, i \notin s3'[q].events
          PROVE  s2[i].id \in Mail!Range(s4)
      <3>1. CASE q = p
        <4>1. s2[i].status # "PENDING" /\ s2[i] \in MailRow
          BY <1>1, <1>4, <1>6, <1>7, <2>2, <3>1 DEF MailTables
        <4>2. s2[i].status = "PUBLISHED"
          BY <4>1 DEF MailRow
        <4> QED
          BY <2>1, <4>2 DEF SentBefore
      <3>2. CASE q # p
        BY <1>7, <2>1, <2>2, <3>2 DEF SentBefore
      <3> QED
        BY <3>1, <3>2
    <2>3. ASSUME NEW q \in Pairs, s3'[q].pc = "mark"
          PROVE  s2[Mail!Sending(q)'].id \in Mail!Range(s4)
      <3>1. q # p
        BY <1>6, <1>7, <2>3
      <3>2. Mail!Sending(q)' = Mail!Sending(q)
        BY <1>7, <3>1 DEF Mail!Sending
      <3> QED
        BY <1>7, <2>1, <2>3, <3>1, <3>2 DEF SentBefore
    <2> QED
      BY <1>3, <2>1, <2>2, <2>3 DEF SentBefore
  <1> QED
    BY <1>3, <1>8, <1>9, <1>10 DEF MailInv

\* The rows of the outbox have ids of their own.
LEMMA RowsAreApart ==
  ASSUME MailTables, AppendedOnce, NEW i \in DOMAIN s2, NEW j \in DOMAIN s2, s2[i].id = s2[j].id
  PROVE  i = j
  <1>1. DOMAIN s2 = 1 .. Len(s2) /\ DOMAIN s7 = 1 .. Len(s7) /\ Len(s2) \in Nat /\ Len(s7) \in Nat
    BY DEF MailTables
  <1>2. Len(s7) - Len(s2) + i \in DOMAIN s7 /\ Len(s7) - Len(s2) + j \in DOMAIN s7
    BY <1>1 DEF AppendedOnce
  <1>3. s7[Len(s7) - Len(s2) + i] = s7[Len(s7) - Len(s2) + j]
    BY DEF AppendedOnce
  <1>4. Len(s7) - Len(s2) + i = Len(s7) - Len(s2) + j
    BY <1>2, <1>3 DEF AppendedOnce
  <1> QED
    BY <1>1, <1>4

\* Its call sends an event after all those that came before it,
LEMMA TopicGrows ==
  ASSUME MailInv, s1, NEW p \in Pairs, s3[p].pc = "send",
         s4' = Append(s4, s2[Mail!Sending(p)].id), UNCHANGED <<s1, s2, s5, s6, s7>>
  PROVE  /\ TopicInOrder' /\ HandlerInOrder'
         /\ s4' \in Seq(Triples) /\ s6 \in 0 .. Len(s4')
         /\ Mail!Range(s4)' = Mail!Range(s4) \cup {s2[Mail!Sending(p)].id}
         /\ \A i, j \in DOMAIN s2 :
              i < j /\ s2[j].id \in Mail!Range(s4)' => s2[i].id \in Mail!Range(s4)'
  <1>1. MailTables /\ AppendedOnce /\ SentBefore /\ TopicInOrder /\ HandlerInOrder
    BY DEF MailInv
  <1>2. PICK k : k = Mail!Sending(p)
    OBVIOUS
  <1>3. k \in s3[p].events /\ k \in DOMAIN s2 /\ \A j \in s3[p].events : k <= j
    BY <1>1, <1>2, SendingFirst
  <1>4. PICK x : x = s2[k].id
    OBVIOUS
  <1>5. x \in Triples /\ s4 \in Seq(Triples)
    <2>1. s2[k] \in MailRow
      BY <1>1, <1>3 DEF MailTables
    <2>2. s2[k].id \in Triples
      BY <2>1 DEF MailRow
    <2> QED
      BY <1>1, <1>4, <2>2 DEF MailTables
  <1>6. PICK t : t = s4' /\ t = Append(s4, x)
    BY <1>2, <1>4
  <1>7. /\ t \in Seq(Triples) /\ Len(t) = Len(s4) + 1 /\ Len(s4) \in Nat
        /\ \A i \in 1 .. Len(s4) : t[i] = s4[i]
    BY <1>5, <1>6
  <1>8. Mail!Range(t) = Mail!Range(s4) \cup {x}
    BY <1>5, <1>6, RangeOfAppend
  <1>9. Mail!Range(s4)' = Mail!Range(t)
    BY <1>6
  <1>10. \A d, e : Mail!Precedes(t, d, e) <=>
                     Mail!Precedes(s4, d, e) /\ (x = e => d \in Mail!Range(s4))
    <2> TAKE d, e
    <2> QED
      BY <1>5, <1>6, OrderOfAppend
  <1>11. DOMAIN s2 = 1 .. Len(s2) /\ DOMAIN s7 = 1 .. Len(s7) /\ Len(s2) \in Nat /\ Len(s7) \in Nat
    BY <1>1 DEF MailTables
  <1>12. \A i \in DOMAIN s2 : i < k => s2[i].id \in Mail!Range(s4)
    <2> SUFFICES ASSUME NEW i \in DOMAIN s2, i < k PROVE s2[i].id \in Mail!Range(s4)
      OBVIOUS
    <2>1. i \notin s3[p].events
      BY <1>3, <1>11
    <2> QED
      BY <1>1, <1>3, <2>1 DEF SentBefore
  <1>13. \A i, j \in DOMAIN s2 : i < j /\ s2[j].id \in Mail!Range(t) => s2[i].id \in Mail!Range(t)
    <2> SUFFICES ASSUME NEW i \in DOMAIN s2, NEW j \in DOMAIN s2, i < j, s2[j].id \in Mail!Range(t)
                 PROVE  s2[i].id \in Mail!Range(t)
      OBVIOUS
    <2>1. CASE s2[j].id \in Mail!Range(s4)
      BY <1>1, <1>8, <2>1 DEF SentBefore
    <2>2. CASE s2[j].id = x
      <3>1. j = k
        BY <1>1, <1>3, <1>4, <2>2, RowsAreApart
      <3> QED
        BY <1>8, <1>12, <3>1
    <2> QED
      BY <1>8, <2>1, <2>2
  <1>14. PICK q \in DOMAIN s7 : q = Len(s7) - Len(s2) + k /\ s7[q] = x
    BY <1>1, <1>3, <1>4, <1>11 DEF AppendedOnce
  <1>15. Mail!Range(t) \subseteq Mail!Range(s7)
    <2>1. x \in Mail!Range(s7)
      BY <1>14 DEF Mail!Range
    <2> QED
      BY <1>1, <1>8, <2>1 DEF TopicInOrder
  <1>16. ASSUME NEW m \in DOMAIN s7, NEW n \in DOMAIN s7, m < n, s7[m] \in Mail!Range(t)
         PROVE  Mail!Precedes(t, s7[m], s7[n])
    <2>1. CASE s7[m] \in Mail!Range(s4)
      <3>1. Mail!Precedes(s4, s7[m], s7[n])
        BY <1>1, <1>16, <2>1 DEF TopicInOrder
      <3> QED
        BY <1>10, <2>1, <3>1
    <2>2. CASE s7[m] \notin Mail!Range(s4)
      <3>1. s7[m] = x
        BY <1>8, <1>16, <2>2
      <3>2. m = q
        BY <1>1, <1>14, <3>1 DEF AppendedOnce
      <3>3. n - (Len(s7) - Len(s2)) \in DOMAIN s2 /\ n - (Len(s7) - Len(s2)) > k
        BY <1>1, <1>3, <1>11, <1>14, <1>16, <3>2 DEF AppendedOnce
      <3>4. PICK j \in DOMAIN s2 : j = n - (Len(s7) - Len(s2)) /\ j > k
        BY <3>3
      <3>5. Len(s7) - Len(s2) + j = n
        BY <1>11, <3>4
      <3>6. s2[j].id = s7[n]
        BY <1>1, <3>4, <3>5 DEF AppendedOnce
      <3>7. s7[n] \notin Mail!Range(s4)
        BY <1>1, <1>3, <1>4, <2>2, <3>1, <3>4, <3>6 DEF SentBefore
      <3>8. s7[n] # x
        BY <1>1, <1>14, <1>16, <3>2, <1>11 DEF AppendedOnce
      <3> QED
        BY <1>10, <3>7, <3>8, AbsentIsPreceded
    <2> QED
      BY <2>1, <2>2
  <1>17. TopicInOrder'
    BY <1>6, <1>9, <1>15, <1>16 DEF TopicInOrder
  <1>18. ASSUME NEW d \in Mail!Range(t), NEW e \in Mail!Range(t), d # e, Mail!Precedes(t, d, e)
         PROVE  Mail!Precedes(s5, d, e)
    <2>1. Mail!Precedes(s4, d, e)
      BY <1>10, <1>18
    <2>2. CASE e \in Mail!Range(s4)
      <3>1. d \in Mail!Range(s4)
        BY <1>5, <2>1, <2>2, PrecedingOccurs
      <3> QED
        BY <1>1, <1>18, <2>1, <2>2, <3>1 DEF HandlerInOrder
    <2>3. CASE e \notin Mail!Range(s4)
      <3>1. e \notin Mail!Range(s5)
        BY <1>1, <2>3 DEF HandlerInOrder
      <3> QED
        BY <3>1, AbsentIsPreceded
    <2> QED
      BY <2>2, <2>3
  <1>19. HandlerInOrder'
    <2>1. \A i \in 1 .. s6 : t[i] \in Mail!Range(s5)
      <3>1. \A i \in 1 .. s6 : i \in 1 .. Len(s4)
        BY <1>1, <1>7 DEF MailTables
      <3> QED
        BY <1>1, <1>7, <3>1 DEF HandlerInOrder
    <2>2. Mail!Range(s5) \subseteq Mail!Range(t)
      BY <1>1, <1>8 DEF HandlerInOrder
    <2> QED
      BY <1>6, <1>9, <1>18, <2>1, <2>2 DEF HandlerInOrder
  <1>20. s6 \in 0 .. Len(t)
    BY <1>1, <1>7 DEF MailTables
  <1> QED
    BY <1>2, <1>4, <1>6, <1>7, <1>8, <1>9, <1>13, <1>17, <1>19, <1>20

\* One call goes on, to mark what it sent, or ends: the others are where they were.
LEMMA CallMoved ==
  ASSUME MailTables, NEW p \in Pairs, s3[p].pc # "idle", UNCHANGED s2,
         \/ s3' = [s3 EXCEPT ![p].pc = "mark"]
         \/ s3' = [s3 EXCEPT ![p] = Mail!NoCall]
  PROVE  /\ s3' \in [Pairs -> PublishCall]
         /\ \A q \in Pairs : /\ s3'[q].events \subseteq DOMAIN s2
                             /\ s3'[q].pc = "idle" <=> s3'[q].events = {}
         /\ \A q \in Pairs : s3'[q].events # {} =>
              s3'[q].events = s3[q].events /\ Mail!Sending(q)' = Mail!Sending(q)
         /\ \A q \in Pairs \ {p} : s3'[q] = s3[q]
  <1>1. s3[p] \in PublishCall /\ s3 \in [Pairs -> PublishCall]
    BY DEF MailTables
  <1>2. PICK events \in SUBSET Nat : events = s3[p].events
    BY <1>1 DEF PublishCall
  <1>3. events # {} /\ events \subseteq DOMAIN s2
    BY <1>2 DEF MailTables
  <1>4. CASE s3' = [s3 EXCEPT ![p].pc = "mark"]
    <2>1. PICK c : c = [pc |-> "mark", events |-> events]
      OBVIOUS
    <2>2. c \in PublishCall /\ c.pc = "mark" /\ c.events = events
      BY <2>1 DEF PublishCall
    <2>3. [s3[p] EXCEPT !.pc = "mark"] = c
      BY <1>1, <1>2, <2>1 DEF PublishCall
    <2>4. s3' = [s3 EXCEPT ![p] = c]
      BY <1>4, <2>3
    <2>5. s3'[p] = c /\ s3' \in [Pairs -> PublishCall] /\ \A q \in Pairs \ {p} : s3'[q] = s3[q]
      BY <1>1, <2>2, <2>4
    <2>6. \A q \in Pairs : s3'[q].events = s3[q].events
      BY <1>2, <2>2, <2>5
    <2>7. \A q \in Pairs : Mail!Sending(q)' = Mail!Sending(q)
      BY <2>6 DEF Mail!Sending
    <2>8. \A q \in Pairs : /\ s3'[q].events \subseteq DOMAIN s2
                           /\ s3'[q].pc = "idle" <=> s3'[q].events = {}
      <3> TAKE q \in Pairs
      <3>1. CASE q = p
        BY <1>3, <2>2, <2>5, <3>1
      <3>2. CASE q # p
        BY <2>5, <3>2 DEF MailTables
      <3> QED
        BY <3>1, <3>2
    <2> QED
      BY <2>5, <2>6, <2>7, <2>8
  <1>5. CASE s3' = [s3 EXCEPT ![p] = Mail!NoCall]
    <2>1. PICK c : c = Mail!NoCall
      OBVIOUS
    <2>2. c \in PublishCall /\ c.pc = "idle" /\ c.events = {}
      BY <2>1 DEF PublishCall, Mail!NoCall
    <2>3. s3'[p] = c /\ s3' \in [Pairs -> PublishCall] /\ \A q \in Pairs \ {p} : s3'[q] = s3[q]
      BY <1>1, <1>5, <2>1, <2>2
    <2>4. \A q \in Pairs : /\ s3'[q].events \subseteq DOMAIN s2
                           /\ s3'[q].pc = "idle" <=> s3'[q].events = {}
      <3> TAKE q \in Pairs
      <3>1. CASE q = p
        BY <2>2, <2>3, <3>1
      <3>2. CASE q # p
        BY <2>3, <3>2 DEF MailTables
      <3> QED
        BY <3>1, <3>2
    <2>5. \A q \in Pairs : s3'[q].events # {} => s3'[q].events = s3[q].events
      BY <2>2, <2>3
    <2>6. \A q \in Pairs : s3'[q].events # {} => Mail!Sending(q)' = Mail!Sending(q)
      BY <2>5 DEF Mail!Sending
    <2> QED
      BY <2>3, <2>4, <2>5, <2>6
  <1> QED
    BY <1>4, <1>5

\* What a call sends, and whatever becomes of it, keeps the order;
LEMMA EventSent ==
  ASSUME MailInv, NEW p \in Pairs, Mail!SendEvent(p)
  PROVE  MailInv'
  <1>1. /\ s3[p].pc = "send" /\ UNCHANGED <<s1, s2, s5, s6, s7>>
        /\ \/ s1 /\ s4' = Append(s4, s2[Mail!Sending(p)].id)
           \/ s4' = s4 /\ (s1 => s3' = [s3 EXCEPT ![p] = Mail!NoCall])
        /\ \/ s3' = [s3 EXCEPT ![p].pc = "mark"]
           \/ s3' = [s3 EXCEPT ![p] = Mail!NoCall]
    BY DEF Mail!SendEvent, Mail!AfterSendFailed
  <1>2. MailTables /\ AppendedOnce /\ TopicInOrder /\ HandlerInOrder /\ (s1 => SentBefore)
    BY DEF MailInv
  <1>3. /\ s3' \in [Pairs -> PublishCall]
        /\ \A q \in Pairs : /\ s3'[q].events \subseteq DOMAIN s2
                            /\ s3'[q].pc = "idle" <=> s3'[q].events = {}
        /\ \A q \in Pairs : s3'[q].events # {} =>
             s3'[q].events = s3[q].events /\ Mail!Sending(q)' = Mail!Sending(q)
        /\ \A q \in Pairs \ {p} : s3'[q] = s3[q]
    BY <1>1, <1>2, CallMoved
  <1>4. AppendedOnce'
    BY <1>1, <1>2 DEF AppendedOnce
  <1>5. CASE s1 /\ s4' = Append(s4, s2[Mail!Sending(p)].id)
    <2>1. /\ TopicInOrder' /\ HandlerInOrder'
          /\ s4' \in Seq(Triples) /\ s6 \in 0 .. Len(s4')
          /\ Mail!Range(s4)' = Mail!Range(s4) \cup {s2[Mail!Sending(p)].id}
          /\ \A i, j \in DOMAIN s2 :
               i < j /\ s2[j].id \in Mail!Range(s4)' => s2[i].id \in Mail!Range(s4)'
      BY <1>1, <1>5, TopicGrows
    <2>2. MailTables'
      BY <1>1, <1>2, <1>3, <1>5, <2>1 DEF MailTables
    <2>3. ASSUME NEW q \in Pairs, NEW k \in s3'[q].events, NEW i \in DOMAIN s2,
                 i < k, i \notin s3'[q].events
          PROVE  s2[i].id \in Mail!Range(s4)'
      BY <1>2, <1>3, <1>5, <2>1, <2>3 DEF SentBefore
    <2>4. ASSUME NEW q \in Pairs, s3'[q].pc = "mark"
          PROVE  s2[Mail!Sending(q)'].id \in Mail!Range(s4)'
      <3>1. s3'[q].events # {}
        BY <1>3, <2>4
      <3>2. Mail!Sending(q)' = Mail!Sending(q)
        BY <1>3, <3>1
      <3>3. CASE q = p
        BY <2>1, <3>2, <3>3
      <3>4. CASE q # p
        BY <1>2, <1>3, <1>5, <2>1, <2>4, <3>2, <3>4 DEF SentBefore
      <3> QED
        BY <3>3, <3>4
    <2>5. \A i \in DOMAIN s2 : s2[i].status = "PUBLISHED" => s2[i].id \in Mail!Range(s4)'
      BY <1>2, <1>5, <2>1 DEF SentBefore
    <2>6. SentBefore'
      BY <1>1, <2>1, <2>3, <2>4, <2>5 DEF SentBefore
    <2> QED
      BY <1>4, <2>1, <2>2, <2>6 DEF MailInv
  <1>6. CASE s4' = s4 /\ (s1 => s3' = [s3 EXCEPT ![p] = Mail!NoCall])
    <2>1. MailTables'
      BY <1>1, <1>2, <1>3, <1>6 DEF MailTables
    <2>2. TopicInOrder' /\ HandlerInOrder'
      BY <1>1, <1>2, <1>6 DEF TopicInOrder, HandlerInOrder
    <2>3. s1 => SentBefore'
      <3> SUFFICES ASSUME s1 PROVE SentBefore'
        OBVIOUS
      <3>1. SentBefore /\ s3' = [s3 EXCEPT ![p] = Mail!NoCall]
        BY <1>2, <1>6
      <3>2. s3'[p].pc = "idle"
        BY <1>2, <3>1 DEF MailTables, Mail!NoCall
      <3>3. ASSUME NEW q \in Pairs, NEW k \in s3'[q].events, NEW i \in DOMAIN s2,
                   i < k, i \notin s3'[q].events
            PROVE  s2[i].id \in Mail!Range(s4)
        BY <1>3, <3>1, <3>3 DEF SentBefore
      <3>4. ASSUME NEW q \in Pairs, s3'[q].pc = "mark"
            PROVE  s2[Mail!Sending(q)'].id \in Mail!Range(s4)
        <4>1. q # p
          BY <3>2, <3>4
        <4>2. Mail!Sending(q)' = Mail!Sending(q)
          BY <1>3, <3>4
        <4> QED
          BY <1>3, <3>1, <3>4, <4>1, <4>2 DEF SentBefore
      <3> QED
        BY <1>1, <1>6, <3>1, <3>3, <3>4 DEF SentBefore
    <2> QED
      BY <1>1, <1>4, <2>1, <2>2, <2>3 DEF MailInv
  <1> QED
    BY <1>1, <1>5, <1>6

\* it marks what the topic has, and goes on with the rest;
LEMMA EventMarked ==
  ASSUME MailInv, NEW p \in Pairs, Mail!MarkSent(p)
  PROVE  MailInv'
  <1>1. PICK k : k = Mail!Sending(p)
    OBVIOUS
  <1>2. PICK x : x = s2[k].id
    OBVIOUS
  <1>3. PICK rest : rest = s3[p].events \ {k}
    OBVIOUS
  <1>4. PICK c : c = (IF rest = {} THEN Mail!NoCall ELSE [pc |-> "send", events |-> rest])
    OBVIOUS
  <1>5. PICK t2 : t2 = [i \in DOMAIN s2 |-> IF s2[i].id = x THEN [s2[i] EXCEPT !.status = "PUBLISHED"]
                                                           ELSE s2[i]]
    OBVIOUS
  <1>6. /\ s3[p].pc = "mark" /\ s2' = t2 /\ s3' = [s3 EXCEPT ![p] = c]
        /\ UNCHANGED <<s1, s4, s5, s6, s7>>
    BY <1>1, <1>2, <1>3, <1>4, <1>5 DEF Mail!MarkSent, Mail!MarkPublished, Mail!Rest
  <1>7. MailTables /\ AppendedOnce /\ TopicInOrder /\ HandlerInOrder /\ (s1 => SentBefore)
    BY DEF MailInv
  <1>8. k \in s3[p].events /\ \A j \in s3[p].events : k <= j
    BY <1>1, <1>6, <1>7, SendingFirst
  <1>9. rest \subseteq DOMAIN s2 /\ rest \subseteq Nat
    BY <1>3, <1>7 DEF MailTables, PublishCall
  <1>10. c \in PublishCall /\ c.events = rest /\ c.pc # "mark" /\ (c.pc = "idle" <=> c.events = {})
    <2>1. CASE rest = {}
      BY <1>4, <2>1 DEF PublishCall, Mail!NoCall
    <2>2. CASE rest # {}
      BY <1>4, <1>9, <2>2 DEF PublishCall
    <2> QED
      BY <2>1, <2>2
  <1>11. /\ t2 \in Seq(MailRow) /\ DOMAIN t2 = DOMAIN s2 /\ Len(t2) = Len(s2)
         /\ \A i \in DOMAIN s2 : t2[i].id = s2[i].id
         /\ \A i \in DOMAIN s2 : t2[i].status = s2[i].status \/ s2[i].id = x
    <2>1. DOMAIN s2 = 1 .. Len(s2) /\ Len(s2) \in Nat /\ \A i \in DOMAIN s2 : s2[i] \in MailRow
      BY <1>7 DEF MailTables
    <2>2. ASSUME NEW i \in DOMAIN s2
          PROVE  /\ t2[i] \in MailRow /\ t2[i].id = s2[i].id
                 /\ t2[i].status = s2[i].status \/ s2[i].id = x
      <3>1. CASE s2[i].id = x
        <4>1. t2[i] = [s2[i] EXCEPT !.status = "PUBLISHED"]
          BY <1>5, <3>1
        <4>2. s2[i] \in MailRow
          BY <2>1
        <4>3. t2[i] = [id |-> s2[i].id, status |-> "PUBLISHED"]
          BY <4>1, <4>2 DEF MailRow
        <4>4. s2[i].id \in Triples
          BY <4>2 DEF MailRow
        <4> QED
          BY <3>1, <4>3, <4>4 DEF MailRow
      <3>2. CASE s2[i].id # x
        BY <1>5, <2>1, <3>2
      <3> QED
        BY <3>1, <3>2
    <2>3. t2 \in [1 .. Len(s2) -> MailRow]
      BY <1>5, <2>1, <2>2
    <2>4. t2 \in Seq(MailRow) /\ Len(t2) = Len(s2)
      BY <2>1, <2>3
    <2> QED
      BY <2>1, <2>2, <2>3, <2>4
  <1>12. s3'[p] = c /\ s3' \in [Pairs -> PublishCall] /\ \A q \in Pairs \ {p} : s3'[q] = s3[q]
    BY <1>6, <1>7, <1>10 DEF MailTables
  <1>13. MailTables'
    <2>1. ASSUME NEW q \in Pairs
          PROVE  s3'[q].events \subseteq DOMAIN t2 /\ (s3'[q].pc = "idle" <=> s3'[q].events = {})
      BY <1>7, <1>9, <1>10, <1>11, <1>12 DEF MailTables
    <2> QED
      BY <1>6, <1>7, <1>11, <1>12, <2>1 DEF MailTables
  <1>14. AppendedOnce'
    BY <1>6, <1>7, <1>11 DEF AppendedOnce
  <1>15. TopicInOrder' /\ HandlerInOrder'
    BY <1>6, <1>7 DEF TopicInOrder, HandlerInOrder
  <1>16. s1 => SentBefore'
    <2> SUFFICES ASSUME s1 PROVE SentBefore'
      OBVIOUS
    <2>1. SentBefore /\ x \in Mail!Range(s4)
      BY <1>1, <1>2, <1>6, <1>7 DEF SentBefore
    <2>2. \A i \in DOMAIN t2 : t2[i].status = "PUBLISHED" => t2[i].id \in Mail!Range(s4)
      BY <1>11, <2>1 DEF SentBefore
    <2>3. \A i, j \in DOMAIN t2 : i < j /\ t2[j].id \in Mail!Range(s4) => t2[i].id \in Mail!Range(s4)
      BY <1>11, <2>1 DEF SentBefore
    <2>4. ASSUME NEW q \in Pairs, NEW l \in s3'[q].events, NEW i \in DOMAIN t2,
                 i < l, i \notin s3'[q].events
          PROVE  t2[i].id \in Mail!Range(s4)
      <3>1. CASE q = p
        <4>1. l \in s3[p].events /\ (i = k \/ i \notin s3[p].events)
          BY <1>3, <1>10, <1>12, <2>4, <3>1
        <4> QED
          BY <1>2, <1>11, <2>1, <2>4, <4>1 DEF SentBefore
      <3>2. CASE q # p
        BY <1>11, <1>12, <2>1, <2>4, <3>2 DEF SentBefore
      <3> QED
        BY <3>1, <3>2
    <2>5. ASSUME NEW q \in Pairs, s3'[q].pc = "mark"
          PROVE  t2[Mail!Sending(q)'].id \in Mail!Range(s4)
      <3>1. q # p
        BY <1>10, <1>12, <2>5
      <3>2. Mail!Sending(q)' = Mail!Sending(q) /\ s3[q].pc = "mark"
        BY <1>12, <2>5, <3>1 DEF Mail!Sending
      <3>3. Mail!Sending(q) \in DOMAIN s2
        BY <1>7, <3>2, SendingFirst
      <3> QED
        BY <1>11, <2>1, <3>2, <3>3 DEF SentBefore
    <2> QED
      BY <1>6, <2>2, <2>3, <2>4, <2>5 DEF SentBefore
  <1> QED
    BY <1>6, <1>13, <1>14, <1>15, <1>16 DEF MailInv

\* the handler is given the next of the topic, once more or for good;
LEMMA EventConsumed ==
  ASSUME MailInv, NEW commits \in BOOLEAN, Mail!Consume(commits)
  PROVE  MailInv'
  <1>1. MailTables /\ AppendedOnce /\ TopicInOrder /\ HandlerInOrder /\ (s1 => SentBefore)
    BY DEF MailInv
  <1>2. PICK x : x = s4[s6 + 1]
    OBVIOUS
  <1>3. /\ s1 /\ s6 < Len(s4) /\ s5' = Append(s5, x) /\ (s6' = s6 + 1 \/ s6' = s6)
        /\ UNCHANGED <<s1, s2, s3, s4, s7>>
    BY <1>2 DEF Mail!Consume
  <1>4. s4 \in Seq(Triples) /\ s5 \in Seq(Triples) /\ Len(s4) \in Nat /\ s6 \in 0 .. Len(s4)
    BY <1>1 DEF MailTables
  <1>5. s6 + 1 \in DOMAIN s4 /\ DOMAIN s4 = 1 .. Len(s4)
    BY <1>3, <1>4
  <1>6. x \in Triples /\ x \in Mail!Range(s4)
    BY <1>2, <1>4, <1>5 DEF Mail!Range
  <1>7. PICK t : t = s5' /\ t = Append(s5, x)
    BY <1>3
  <1>8. t \in Seq(Triples) /\ Mail!Range(t) = Mail!Range(s5) \cup {x} /\ Mail!Range(s5)' = Mail!Range(t)
    BY <1>4, <1>6, <1>7, RangeOfAppend
  <1>9. MailTables'
    <2>1. s6' \in 0 .. Len(s4)
      BY <1>3, <1>4
    <2> QED
      BY <1>1, <1>3, <1>7, <1>8, <2>1 DEF MailTables
  <1>10. AppendedOnce' /\ TopicInOrder'
    BY <1>1, <1>3 DEF AppendedOnce, TopicInOrder
  <1>11. SentBefore'
    <2>1. \A p \in Pairs : Mail!Sending(p)' = Mail!Sending(p)
      BY <1>3 DEF Mail!Sending
    <2> QED
      BY <1>1, <1>3, <2>1 DEF SentBefore
  <1>12. HandlerInOrder'
    <2>1. Mail!Range(t) \subseteq Mail!Range(s4)
      BY <1>1, <1>6, <1>8 DEF HandlerInOrder
    <2>2. ASSUME NEW i \in 1 .. s6' PROVE s4[i] \in Mail!Range(t)
      <3>1. i \in 1 .. s6 \/ i = s6 + 1
        BY <1>3, <1>4
      <3> QED
        BY <1>1, <1>2, <1>8, <3>1 DEF HandlerInOrder
    <2>3. ASSUME NEW d \in Mail!Range(s4), NEW e \in Mail!Range(s4), d # e, Mail!Precedes(s4, d, e)
          PROVE  Mail!Precedes(t, d, e)
      <3>1. Mail!Precedes(s5, d, e)
        BY <1>1, <2>3 DEF HandlerInOrder
      <3>2. ASSUME x = e PROVE d \in Mail!Range(s5)
        <4> PICK j \in DOMAIN s4 : j = s6 + 1
          BY <1>5
        <4> s4[j] = e
          BY <1>2, <3>2
        <4>1. PICK i \in 1 .. j - 1 : s4[i] = d
          BY <2>3 DEF Mail!Precedes
        <4>2. i \in 1 .. s6
          BY <1>4
        <4> QED
          BY <1>1, <4>1, <4>2 DEF HandlerInOrder
      <3> QED
        BY <1>4, <1>6, <1>7, <3>1, <3>2, OrderOfAppend
    <2> QED
      BY <1>3, <1>7, <1>8, <2>1, <2>2, <2>3 DEF HandlerInOrder
  <1> QED
    BY <1>3, <1>9, <1>10, <1>11, <1>12 DEF MailInv

\* and a restart forgets what was not sent, and every call.
LEMMA OutboxRestarted ==
  ASSUME MailInv, Mail!RestartProcess
  PROVE  MailInv'
  <1>1. MailTables /\ AppendedOnce /\ TopicInOrder /\ HandlerInOrder
    BY DEF MailInv
  <1>2. /\ s2' = <<>> /\ s3' = [p \in Pairs |-> [pc |-> "idle", events |-> {}]]
        /\ UNCHANGED <<s1, s4, s5, s6, s7>>
    BY DEF Mail!RestartProcess, Mail!NoCall
  <1>3. s3' \in [Pairs -> PublishCall]
    BY <1>2 DEF PublishCall
  <1>4. \A p \in Pairs : s3'[p].pc = "idle" /\ s3'[p].events = {}
    BY <1>2
  <1>5. PICK t : t = s2' /\ t = <<>>
    BY <1>2
  <1>6. t \in Seq(MailRow) /\ DOMAIN t = {} /\ Len(t) = 0
    BY <1>5
  <1>7. MailTables'
    BY <1>1, <1>2, <1>3, <1>4, <1>5, <1>6 DEF MailTables
  <1>8. AppendedOnce'
    <2>1. 0 <= Len(s7)
      BY <1>1 DEF MailTables
    <2> QED
      BY <1>1, <1>2, <1>5, <1>6, <2>1 DEF AppendedOnce
  <1>9. SentBefore'
    BY <1>4, <1>5, <1>6 DEF SentBefore
  <1>10. TopicInOrder' /\ HandlerInOrder'
    BY <1>1, <1>2 DEF TopicInOrder, HandlerInOrder
  <1> QED
    BY <1>7, <1>8, <1>9, <1>10 DEF MailInv

\* Every step of the outbox keeps what holds of it,
LEMMA MailKeeps ==
  ASSUME MailInv, Mail!OutboxNext \/ UNCHANGED Mail!outboxVars
  PROVE  MailInv'
  <1>1. CASE UNCHANGED Mail!outboxVars
    BY <1>1 DEF Mail!outboxVars, MailInv, MailTables, AppendedOnce, SentBefore, TopicInOrder,
                HandlerInOrder, Mail!Sending
  <1>2. CASE Mail!OutboxNext
    <2>1. CASE \E e \in Triples : Mail!PublishEvent(e)
      BY <2>1, EventAppended
    <2>2. CASE \E p \in Pairs : Mail!PublishPending(p)
      BY <2>2, CallStarted
    <2>3. CASE \E p \in Pairs : Mail!SendEvent(p)
      BY <2>3, EventSent
    <2>4. CASE \E p \in Pairs : Mail!MarkSent(p)
      BY <2>4, EventMarked
    <2>5. CASE \E commits \in BOOLEAN : Mail!Consume(commits)
      BY <2>5, EventConsumed
    <2>6. CASE Mail!RestartProcess
      BY <2>6, OutboxRestarted
    <2> QED
      BY <1>2, <2>1, <2>2, <2>3, <2>4, <2>5, <2>6 DEF Mail!OutboxNext
  <1> QED
    BY <1>1, <1>2

\* and it says what the run checks.
LEMMA MailShows == ASSUME MailInv PROVE Mail!OutboxTypeOK /\ Mail!SentInOrder
  <1>1. MailTables /\ AppendedOnce /\ TopicInOrder /\ HandlerInOrder /\ (s1 => SentBefore)
    BY DEF MailInv
  <1>2. Mail!OutboxTypeOK
    <2>1. \A i \in DOMAIN s2 : s2[i] \in MailRow
      BY <1>1 DEF MailTables
    <2>2. \A i \in DOMAIN s2 : s2[i].status \in {"PENDING", "PUBLISHED"}
      BY <2>1 DEF MailRow
    <2>3. \A p \in Pairs : s3[p].pc \in {"idle", "send", "mark"}
      BY <1>1 DEF MailTables, PublishCall
    <2> QED
      BY <1>1, <2>2, <2>3 DEF Mail!OutboxTypeOK, MailTables
  <1>3. Mail!SentInOrder
    BY <1>1 DEF Mail!SentInOrder, SentBefore, TopicInOrder, HandlerInOrder
  <1> QED
    BY <1>2, <1>3

\* Whatever publishers do at once, whatever fails and is sent again, and whatever a
\* restart loses, events reach the topic and the handler in the order they were
\* appended, and none is marked that was not sent (outbox.service.ts:17-49).
THEOREM AlwaysSentInOrder == MCSpec => []SentInOrder
  <1> DEFINE Kept == scene = "outbox" => MailInv
  <1>1. MCInit => Kept
    BY MailStarts DEF MCInit, AuditScenes, CloudScenes, WorkScenes
  <1>2. Kept /\ [MCNext]_<<stepVars, scene, shared>> => Kept'
    <2> SUFFICES ASSUME Kept, [MCNext]_<<stepVars, scene, shared>>, scene' = "outbox" PROVE MailInv'
      OBVIOUS
    <2>1. scene = "outbox" /\ MailInv
      BY DEF MCNext
    <2>2. Mail!OutboxNext \/ UNCHANGED Mail!outboxVars
      BY <2>1 DEF MCNext, shared, Mail!outboxVars, CloudScenes, WorkScenes, AuditScenes
    <2> QED
      BY <2>1, <2>2, MailKeeps
  <1>3. Kept => SentInOrder
    BY MailShows DEF SentInOrder
  <1> QED
    BY <1>1, <1>2, <1>3, PTL DEF MCSpec
=============================================================================
