----------------------------- MODULE Orchestrator -----------------------------
(***************************************************************************)
(* Goals: OrchestratorService.executeGoal over the workflow tasks, the     *)
(* agent registry and the AI budget, with ModelRoutingService.route.  A    *)
(* goal is one of the Callers of WorkflowTask.  The budget is modelled in  *)
(* AiBudget; here it grants or denies a reservation.                       *)
(***************************************************************************)
EXTENDS WorkflowTask

CONSTANTS
  Goals,       \* invocations of executeGoal, a subset of Callers
  Complexities, RiskLevels

VARIABLES
  goal,        \* [Goals -> the local state of the invocation]
  recorded,    \* [Goals -> usage records the goal made]
  trusted      \* [Goals -> successes the goal reported of its agent]

goalVars == <<goal, recorded, trusted>>

Tiers == {"DETERMINISTIC", "SMALL_MODEL", "REASONING_MODEL", "HIGH_RELIABILITY_MODEL"}

\* ModelRoutingService.route
Route(complexity, riskLevel, budgetLeft) ==
  CASE complexity = "SIMPLE_QUERY" -> "DETERMINISTIC"
    [] /\ ~budgetLeft
       /\ complexity \notin {"SIMPLE_QUERY", "COMPLEX_REASONING", "CRITICAL_DECISION"}
         -> "DETERMINISTIC"
    [] OTHER ->
         IF riskLevel = "CRITICAL" \/ complexity = "CRITICAL_DECISION"
           THEN "HIGH_RELIABILITY_MODEL"
         ELSE IF complexity = "SIMPLE_CLASSIFICATION" /\ riskLevel # "HIGH"
           THEN "SMALL_MODEL"
         ELSE "REASONING_MODEL"

NewGoal == [pc |-> "idle", tier |-> None, task |-> None, confidence |-> 0, min |-> 0,
            max |-> 0, outcome |-> None]

GoalTypeOK ==
  \A g \in Goals :
    /\ goal[g].pc \in {"idle", "reserve", "task", "attempt", "attempted", "call",
                       "complete", "trust", "done"}
    /\ goal[g].tier \in Tiers \cup {None}
    /\ goal[g].outcome \in {None, "EXECUTE", "BUDGET_DENIED", "CIRCUIT_BROKEN"}

GoalInit ==
  /\ goal = [g \in Goals |-> NewGoal]
  /\ recorded = [g \in Goals |-> 0]
  /\ trusted = [g \in Goals |-> 0]

At(g, pc) == goal[g].pc = pc

Goes(g, pc) == goal' = [goal EXCEPT ![g].pc = pc]

\* The agent and the budget are read and a tier chosen; a goal no model is
\* needed for has succeeded.
ExecuteGoal(g, complexity, riskLevel, budgetLeft, confidence, min, max) ==
  LET tier == Route(complexity, riskLevel, budgetLeft) IN
  /\ At(g, "idle")
  /\ goal' = [goal EXCEPT ![g] =
       [NewGoal EXCEPT !.pc = IF tier = "DETERMINISTIC" THEN "trust" ELSE "reserve",
                       !.tier = tier, !.confidence = confidence, !.min = min, !.max = max]]
  /\ UNCHANGED <<taskVars, recorded, trusted>>

\* The cost of the tier is reserved and recorded, or denied.
ReserveAndRecordUsage(g, allowed) ==
  /\ At(g, "reserve")
  /\ goal' = [goal EXCEPT ![g].pc = IF allowed THEN "task" ELSE "done",
                          ![g].outcome = IF allowed THEN None ELSE "BUDGET_DENIED"]
  /\ recorded' = [recorded EXCEPT ![g] = IF allowed THEN @ + 1 ELSE @]
  /\ UNCHANGED <<taskVars, trusted>>

\* A task is created, with tokens for one attempt more than its bound ...
CreateGoalTask(g, t) ==
  /\ At(g, "task")
  /\ CreateTask(t, goal[g].max, goal[g].max + 1, goal[g].min)
  /\ goal' = [goal EXCEPT ![g].pc = "attempt", ![g].task = t]
  /\ UNCHANGED <<recorded, trusted>>

\* ... of which one is recorded.
AttemptGoal(g) ==
  /\ \/ /\ At(g, "attempt")
        /\ RecordAttempt(g, goal[g].task, goal[g].confidence, 1)
        /\ Goes(g, "attempted")
     \/ /\ At(g, "attempted")
        /\ WriteAttempt(g) \/ CreateTicket(g)
        /\ UNCHANGED goal
  /\ UNCHANGED <<recorded, trusted>>

\* The outcomes that stop a goal: RETRY is not among them.
Stops(outcome) == outcome = "CIRCUIT_BROKEN"

Attempted(g) ==
  /\ At(g, "attempted") /\ attempt[g].pc = "idle"
  /\ goal' = IF Stops(attempt[g].outcome)
               THEN [goal EXCEPT ![g].pc = "done", ![g].outcome = "CIRCUIT_BROKEN"]
               ELSE [goal EXCEPT ![g].pc = "call"]
  /\ UNCHANGED <<taskVars, recorded, trusted>>

\* The model is called and a failure ignored; the task is completed; ...
CallAndComplete(g) ==
  /\ \/ At(g, "call") /\ Goes(g, "complete") /\ UNCHANGED taskVars
     \/ At(g, "complete") /\ CompleteTask(goal[g].task) /\ Goes(g, "trust")
  /\ UNCHANGED <<recorded, trusted>>

\* ... the agent is credited with a success.
RecordTrustOutcome(g) ==
  /\ At(g, "trust")
  /\ trusted' = [trusted EXCEPT ![g] = @ + 1]
  /\ goal' = [goal EXCEPT ![g].pc = "done", ![g].outcome = "EXECUTE"]
  /\ UNCHANGED <<taskVars, recorded>>

GoalStep(g) ==
  \/ \E complexity \in Complexities, risk \in RiskLevels, left \in BOOLEAN,
        confidence \in Confidences, min \in Confidences, max \in MaxIterations :
       ExecuteGoal(g, complexity, risk, left, confidence, min, max)
  \/ \E allowed \in BOOLEAN : ReserveAndRecordUsage(g, allowed)
  \/ \E t \in Tasks : CreateGoalTask(g, t)
  \/ AttemptGoal(g) \/ Attempted(g) \/ CallAndComplete(g) \/ RecordTrustOutcome(g)

GoalSpec == TaskInit /\ GoalInit /\ [][\E g \in Goals : GoalStep(g)]_<<taskVars, goalVars>>

-----------------------------------------------------------------------------
(* Properties. *)

\* A goal whose task tripped the breaker is stopped and credits no agent, and a
\* goal stopped by it has left exactly one ticket; stopped or not, a goal a model
\* was needed for is paid for once, unless its budget was denied.
StoppedGoals ==
  \A g \in Goals : At(g, "done") =>
    /\ goal[g].task # None =>
         (goal[g].outcome = "CIRCUIT_BROKEN") = (tickets[goal[g].task] = 1)
    /\ goal[g].outcome = "CIRCUIT_BROKEN" => trusted[g] = 0
    /\ goal[g].tier # "DETERMINISTIC" =>
         (recorded[g] = 1 <=> goal[g].outcome # "BUDGET_DENIED")

\* What apps/api/test/orchestrator.test.ts:70 says: a goal whose confidence never
\* meets the minimum ends in the circuit breaker.
UnconfidentIsStopped ==
  \A g \in Goals :
    goal[g].outcome = "EXECUTE" /\ goal[g].tier # "DETERMINISTIC"
      => goal[g].confidence >= goal[g].min
=============================================================================
