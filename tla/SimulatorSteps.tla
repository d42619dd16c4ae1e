---------------------------- MODULE SimulatorSteps ----------------------------
(***************************************************************************)
(* What one step of SimulatorService does: its turn, the seeding of the    *)
(* tables it needs, and the scripted business operation or agent run, up   *)
(* to the event it emits.  Steps overlap as the module Simulator says: a   *)
(* stop leaves the step under way alone, and the next start begins another.*)
(***************************************************************************)
EXTENDS Naturals, Sequences, SequencesExt, Functions

CONSTANTS
  Slots,         \* the steps that may be under way at once
  RosterSize,    \* [Tables -> rows there are to seed]
  None

VARIABLES
  agentMode,     \* agents run, or scripted steps
  storage,       \* "memory" or "prisma"
  running,       \* isRunning /\ ~activeAbort
  actionCursor,
  rows,          \* [Tables -> [1 .. RosterSize -> how often that row was created]]
  cached,        \* the tables of which the simulator holds ids
  slot,          \* [Slots -> the local state of a step]
  abandoned,     \* slots that were under way at a stop
  turns,         \* history: [Scenarios -> steps begun since the last restart]
  overlapped,    \* history: two steps were under way at once
  claims         \* history: what events said and what was so

stepVars == <<agentMode, storage, running, actionCursor, rows, cached, slot, abandoned,
              turns, overlapped, claims>>

Agents == <<"sales-agent", "inventory-agent", "finance-agent", "hris-agent",
            "infra-agent", "orchestrator", "debugger-agent", "tester-agent">>
Scripted == <<"sales", "inventory", "finance", "hris", "infra", "goal">>

scenarios == IF agentMode THEN Agents ELSE Scripted

\* The tables each ensure...SeedData fills, in order.
Business == <<"customers", "warehouses", "products">>
SalesReps == <<"salesReps">>
Workforce == <<"departments", "employees">>
Tables == ToSet(Business) \cup ToSet(SalesReps) \cup ToSet(Workforce)

\* No roster is empty.
ASSUME RosterAssumption == RosterSize \in [Tables -> Nat \ {0}]

\* What each scenario seeds first.
Seeds(scenario) ==
  CASE scenario = "sales" -> <<Business, SalesReps>>
    [] scenario = "inventory" -> <<Business>>
    [] scenario = "hris" -> <<Workforce>>
    [] scenario \in {"finance", "infra", "goal"} -> <<>>
    [] OTHER -> <<Business, SalesReps, Workforce>>

NoStep == [pc |-> "idle", scenario |-> None, todo |-> <<>>, tables |-> <<>>, pos |-> 0,
           wrote |-> FALSE, persisted |-> FALSE]

UnderWay == {s \in Slots : slot[s] # NoStep}

StepsTypeOK ==
  /\ cached \subseteq Tables
  /\ abandoned \subseteq UnderWay
  /\ \A s \in Slots : slot[s].pc \in {"idle", "ensure", "list", "create", "act", "close", "narrate"}

NoRows == [t \in Tables |-> [n \in 1 .. RosterSize[t] |-> 0]]

StepsInit ==
  /\ agentMode \in BOOLEAN /\ storage \in {"memory", "prisma"}
  /\ running = FALSE /\ actionCursor = 0
  /\ rows = NoRows /\ cached = {}
  /\ slot = [s \in Slots |-> NoStep]
  /\ abandoned = {} /\ overlapped = FALSE
  /\ turns = [x \in ToSet(scenarios) |-> 0]
  /\ claims = {}

--------------------------------------------------------------------------------
(* The operator, and a restart of the process. *)

StartSimulator ==
  /\ ~running /\ running' = TRUE
  /\ UNCHANGED <<agentMode, storage, actionCursor, rows, cached, slot, abandoned, turns,
                 overlapped, claims>>

StopSimulator ==
  /\ running /\ running' = FALSE
  /\ abandoned' = UnderWay
  /\ UNCHANGED <<agentMode, storage, actionCursor, rows, cached, slot, turns, overlapped, claims>>

\* Sales representatives are kept in memory whatever the storage.
Restart ==
  /\ running' = FALSE /\ actionCursor' = 0 /\ cached' = {} /\ abandoned' = {}
  /\ slot' = [s \in Slots |-> NoStep]
  /\ rows' = [t \in Tables |-> IF storage = "memory" \/ t = "salesReps" THEN NoRows[t] ELSE rows[t]]
  /\ turns' = [x \in DOMAIN turns |-> 0]
  /\ UNCHANGED <<agentMode, storage, overlapped, claims>>

--------------------------------------------------------------------------------
(* executeSimulatedStep *)

\* *Fault*: a turn counts only if the step ends well.
NextTurnLater == actionCursor

NextTurn == (actionCursor + 1) % Len(scenarios)

\* The next scenario in turn.
BeginStep(s) ==
  LET scenario == scenarios[actionCursor + 1] IN
  /\ running /\ slot[s] = NoStep /\ UnderWay \subseteq abandoned
  /\ actionCursor' = NextTurn
  /\ turns' = [turns EXCEPT ![scenario] = @ + 1]
  /\ slot' = [slot EXCEPT ![s] = [NoStep EXCEPT !.pc = "ensure", !.scenario = scenario,
                                                !.todo = Seeds(scenario)]]
  /\ overlapped' = (overlapped \/ UnderWay # {})
  /\ UNCHANGED <<agentMode, storage, running, rows, cached, abandoned, claims>>

SlotBecomes(s, state) == slot' = [slot EXCEPT ![s] = state]

EndStep(s) ==
  /\ SlotBecomes(s, NoStep)
  /\ abandoned' = abandoned \ {s}

\* Sets of tables that are cached already are passed over.
Ensure(s) ==
  LET todo == slot[s].todo IN
  /\ slot[s].pc = "ensure"
  /\ SlotBecomes(s,
       IF todo = <<>> THEN [slot[s] EXCEPT !.pc = "act"]
       ELSE IF ToSet(Head(todo)) \subseteq cached THEN [slot[s] EXCEPT !.todo = Tail(todo)]
       ELSE [slot[s] EXCEPT !.pc = "list", !.tables = Head(todo), !.todo = Tail(todo)])
  /\ UNCHANGED <<agentMode, storage, running, actionCursor, rows, cached, abandoned, turns,
                 overlapped, claims>>

\* The slot with the current table done, or with all of the set given up.
TableDone(s) ==
  IF Len(slot[s].tables) = 1
  THEN [slot[s] EXCEPT !.pc = "ensure", !.tables = <<>>, !.pos = 0]
  ELSE [slot[s] EXCEPT !.pc = "list", !.tables = Tail(@), !.pos = 0]

GivenUp(s) == [slot[s] EXCEPT !.pc = "ensure", !.tables = <<>>, !.pos = 0]

Exist(t) == \E n \in DOMAIN rows[t] : rows[t][n] > 0

\* *Fault*: only what this process created is taken for seeded.
AdoptedNever(t) == FALSE

\* The rows that are there are adopted, whoever created them.
Adopted(t) == Exist(t)

\* The table is listed.
ListTable(s) ==
  LET t == Head(slot[s].tables) IN
  /\ slot[s].pc = "list"
  /\ \/ /\ Adopted(t)
        /\ cached' = cached \cup {t}
        /\ SlotBecomes(s, TableDone(s))
     \/ ~Adopted(t) /\ SlotBecomes(s, [slot[s] EXCEPT !.pc = "create", !.pos = 1]) /\ UNCHANGED cached
     \/ SlotBecomes(s, GivenUp(s)) /\ UNCHANGED cached
  /\ UNCHANGED <<agentMode, storage, running, actionCursor, rows, abandoned, turns, overlapped, claims>>

\* PostgreSQL has unique keys; in memory products are looked up by their SKU, which
\* two steps may do before either creates one.
Refused(t, n) ==
  /\ rows[t][n] > 0
  /\ \/ storage = "prisma" /\ t \in {"warehouses", "products", "departments", "employees"}
     \/ t = "products" /\ ~overlapped

\* One row after the other is created; the first that is refused or throws ends
\* the seeding of the set, with the rows before it cached.
CreateRow(s) ==
  LET t == Head(slot[s].tables)
      n == slot[s].pos
      last == n = RosterSize[t]
  IN /\ slot[s].pc = "create"
     /\ \/ /\ ~Refused(t, n)
           /\ rows' = [rows EXCEPT ![t][n] = @ + 1]
           /\ cached' = cached \cup {t}
           /\ SlotBecomes(s, IF last THEN TableDone(s) ELSE [slot[s] EXCEPT !.pos = n + 1])
        \/ SlotBecomes(s, GivenUp(s)) /\ UNCHANGED <<rows, cached>>
     /\ UNCHANGED <<agentMode, storage, running, actionCursor, abandoned, turns, overlapped, claims>>

--------------------------------------------------------------------------------
(* The operations, and the event at the end of each. *)

\* The event of a step that says whether anything was persisted.
Emit(s, persisted, wrote) ==
  /\ claims' = claims \cup {[scenario |-> slot[s].scenario, persisted |-> persisted, wrote |-> wrote]}
  /\ EndStep(s)
  /\ UNCHANGED <<agentMode, storage, running, actionCursor, rows, cached, turns, overlapped>>

Narrates(s, persisted, wrote) ==
  /\ SlotBecomes(s, [slot[s] EXCEPT !.pc = "narrate", !.persisted = persisted, !.wrote = wrote])
  /\ UNCHANGED <<agentMode, storage, running, actionCursor, rows, cached, abandoned, turns,
                 overlapped, claims>>

Acts(s, scenario) == slot[s].pc = "act" /\ slot[s].scenario = scenario

\* stepSalesInbound orders for a seeded customer, if there is one ...
SalesInbound(s) ==
  /\ Acts(s, "sales")
  /\ \/ /\ {"customers", "products"} \subseteq cached
        /\ \/ Narrates(s, TRUE, TRUE)                    \* from the marketplace
           \/ /\ SlotBecomes(s, [slot[s] EXCEPT !.pc = "close"]) \* a lead
              /\ UNCHANGED <<agentMode, storage, running, actionCursor, rows, cached,
                             abandoned, turns, overlapped, claims>>
     \/ Narrates(s, FALSE, FALSE)

\* ... and closes the lead at once, or fails to: the order stays.
CloseLead(s) == slot[s].pc = "close" /\ Narrates(s, TRUE, TRUE)

\* stepInventoryCheck reserves stock, or is refused.
InventoryCheck(s) ==
  /\ Acts(s, "inventory")
  /\ \E reserved \in BOOLEAN :
       /\ reserved => {"warehouses", "products"} \subseteq cached
       /\ Narrates(s, reserved, reserved)

\* stepFinanceBudgetApproval writes nothing and says it did, if it can audit.
FinanceAudit(s) ==
  /\ Acts(s, "finance")
  /\ Emit(s, FALSE, FALSE) \/ Narrates(s, TRUE, FALSE)

\* stepHrisCapacityCheck: an assessment that throws may have written before.
HrisCheck(s) ==
  /\ Acts(s, "hris")
  /\ \/ \E wrote \in BOOLEAN : (wrote => "departments" \in cached) /\ Emit(s, FALSE, wrote)
     \/ /\ "departments" \in cached
        /\ \E wrote \in BOOLEAN : Narrates(s, wrote, wrote)

\* stepInfraTelemetryPulse: a request that is refused is stored, and said to be
\* persisted; one the cluster refuses is stored as well, and throws.
InfraPulse(s) ==
  /\ Acts(s, "infra")
  /\ \/ Emit(s, FALSE, FALSE)
     \/ \E persisted, wrote \in BOOLEAN : (persisted => wrote) /\ Narrates(s, persisted, wrote)

\* stepAiReasoningGoal: a goal that throws may have its task stored.
ReasoningGoal(s) ==
  /\ Acts(s, "goal")
  /\ \/ \E wrote \in BOOLEAN : Emit(s, FALSE, wrote)
     \/ Narrates(s, TRUE, TRUE)

\* runAgent goes no further once the simulator is stopped; a tool that answers
\* with an error counts as a write that succeeded.
RunAgent(s) ==
  /\ slot[s].pc = "act" /\ agentMode
  /\ IF running
     THEN \E persisted, wrote \in BOOLEAN : (wrote => persisted) /\ Narrates(s, persisted, wrote)
     ELSE /\ EndStep(s)
          /\ UNCHANGED <<agentMode, storage, running, actionCursor, rows, cached, turns,
                         overlapped, claims>>

\* The narration, whether the provider answers or not; for an agent, the end of
\* its run, which is not reported once the simulator is stopped.
Narrated(s) ==
  /\ slot[s].pc = "narrate"
  /\ IF agentMode /\ ~running
     THEN /\ EndStep(s)
          /\ UNCHANGED <<agentMode, storage, running, actionCursor, rows, cached, turns,
                         overlapped, claims>>
     ELSE Emit(s, slot[s].persisted, slot[s].wrote)

StepsOf(s) ==
  \/ BeginStep(s) \/ Ensure(s) \/ ListTable(s) \/ CreateRow(s)
  \/ SalesInbound(s) \/ CloseLead(s) \/ InventoryCheck(s) \/ FinanceAudit(s)
  \/ HrisCheck(s) \/ InfraPulse(s) \/ ReasoningGoal(s) \/ RunAgent(s) \/ Narrated(s)

StepsNext ==
  \/ StartSimulator \/ StopSimulator \/ Restart
  \/ \E s \in Slots : StepsOf(s)

StepsSpec == StepsInit /\ [][StepsNext]_stepVars

--------------------------------------------------------------------------------
(* Properties. *)

\* However often seeding fails half way and the process restarts, no row of the
\* rosters is created twice unless two steps were under way at once.
SeededTwiceOnlyByOverlap ==
  \A t \in Tables : \A n \in DOMAIN rows[t] : rows[t][n] > 1 => overlapped

\* Agents and scenarios take turns: whatever fails, is paused or stopped, none
\* has had two turns more than another.
EveryoneHasATurn ==
  \A x, y \in DOMAIN turns : turns[x] <= turns[y] + 1

\* A scripted step that says it persisted something did; the audit of the budget,
\* which only reads, is the exception.
ClaimsAreTrue ==
  \A c \in claims : c.persisted /\ c.scenario \in ToSet(Scripted) \ {"finance"} => c.wrote

\* A row of the rosters is created twice only by steps that overlapped, and a scripted
\* step that says it persisted something did (simulator.service.ts:76-217, 551-966).
StepsTellTheTruth == StepsTypeOK /\ SeededTwiceOnlyByOverlap /\ ClaimsAreTrue
================================================================================
