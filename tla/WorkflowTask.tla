----------------------------- MODULE WorkflowTask -----------------------------
(***************************************************************************)
(* Tasks with bounds on re-evaluation: WorkflowTaskService.  In memory all *)
(* callers share the one object of a task, so what recordAttempt does from *)
(* its read to its first write is one step; the PostgreSQL repository      *)
(* hands out copies, and keeps neither the counters nor the bounds.        *)
(***************************************************************************)
EXTENDS Naturals, FiniteSetsExt

CONSTANTS
  Callers,       \* callers of the service, each in at most one call
  Tasks,         \* the ids there are to give to tasks
  Confidences,   \* levels of confidence, and of confidence demanded
  TokenUses,     \* what an attempt may have used
  MaxIterations, TokenBudgets, \* bounds tasks are created with
  DefaultMaxIterations, DefaultTokenBudget, DefaultMinConfidence,
  None

VARIABLES
  driver,        \* the repository in use: "memory" or "prisma"
  task,          \* [Tasks -> a task or None]
  late,          \* tasks past their deadline
  attempt,       \* [Callers -> the local state of recordAttempt]
  tickets,       \* [Tasks -> the number of circuit breaker tickets created]
  retries,       \* history: [Tasks -> the attempts answered RETRY]
  settled        \* history: tasks that completeTask or failTask ended

taskVars == <<driver, task, late, attempt, tickets, retries, settled>>

TaskStatus == {"PENDING", "IN_PROGRESS", "COMPLETED", "FAILED", "ESCALATED"}

Idle == [pc |-> "idle", task |-> None, outcome |-> None, trips |-> FALSE]

TaskTypeOK ==
  /\ \A t \in Tasks : task[t] # None => task[t].status \in TaskStatus
  /\ late \subseteq Tasks /\ settled \subseteq Tasks
  /\ \A c \in Callers :
       /\ attempt[c].pc \in {"idle", "write", "ticket"}
       /\ attempt[c].outcome \in {None, "EXECUTE", "RETRY", "CIRCUIT_BROKEN"}

TaskInit ==
  /\ driver \in {"memory", "prisma"}
  /\ task = [t \in Tasks |-> None]
  /\ late = {} /\ settled = {}
  /\ attempt = [c \in Callers |-> Idle]
  /\ tickets = [t \in Tasks |-> 0]
  /\ retries = [t \in Tasks |-> 0]

\* What a task is read back as.
Remembered(t) ==
  IF driver = "memory" THEN t
  ELSE [t EXCEPT !.iterationCount = 0, !.tokenUsed = 0, !.hasDeadline = FALSE,
                 !.maxIterations = DefaultMaxIterations,
                 !.tokenBudget = DefaultTokenBudget,
                 !.minConfidence = DefaultMinConfidence]

NewTask(t) == t = CHOOSE x \in Tasks : task[x] = None

CreateTask(t, max, budget, min) ==
  /\ task[t] = None /\ NewTask(t)
  /\ task' = [task EXCEPT ![t] = Remembered(
       [status |-> "PENDING", iterationCount |-> 0, tokenUsed |-> 0, hasDeadline |-> TRUE,
        maxIterations |-> max, tokenBudget |-> budget, minConfidence |-> min])]
  /\ UNCHANGED <<driver, late, attempt, tickets, retries, settled>>

-----------------------------------------------------------------------------
(* recordAttempt *)

\* The task with the attempt counted.
Counted(t, used) == [task[t] EXCEPT !.iterationCount = @ + 1, !.tokenUsed = @ + used]

\* *Fault*: the attempt that reaches the bound still runs.
OutOfBoundsLater(t, row) ==
  \/ row.hasDeadline /\ t \in late
  \/ row.iterationCount > row.maxIterations
  \/ row.tokenUsed > row.tokenBudget

\* A bound is reached.
OutOfBounds(t, row) ==
  \/ row.hasDeadline /\ t \in late
  \/ row.iterationCount >= row.maxIterations
  \/ row.tokenUsed >= row.tokenBudget

\* The breaker trips once.
Trips(row) == row.status # "ESCALATED"

Outcome(t, row, confidence) ==
  IF OutOfBounds(t, row) THEN "CIRCUIT_BROKEN"
  ELSE IF confidence < row.minConfidence THEN "RETRY" ELSE "EXECUTE"

Status(outcome) ==
  CASE outcome = "CIRCUIT_BROKEN" -> "ESCALATED"
    [] outcome = "RETRY" -> "IN_PROGRESS"
    [] outcome = "EXECUTE" -> "COMPLETED"

\* The attempt is judged on the row read.  In memory that row is the task.
RecordAttempt(c, t, confidence, used) ==
  LET row == Counted(t, used)
      outcome == Outcome(t, row, confidence)
      trips == outcome = "CIRCUIT_BROKEN" /\ Trips(row)
  IN /\ attempt[c].pc = "idle"
     /\ attempt' = [attempt EXCEPT ![c] =
          [pc |-> IF driver = "prisma" THEN "write" ELSE IF trips THEN "ticket" ELSE "idle",
           task |-> t, outcome |-> outcome, trips |-> trips]]
     /\ task' = IF driver = "prisma" THEN task
                ELSE [task EXCEPT ![t] = [row EXCEPT !.status = Status(outcome)]]
     /\ retries' = [retries EXCEPT ![t] = IF outcome = "RETRY" THEN @ + 1 ELSE @]
     /\ UNCHANGED <<driver, late, tickets, settled>>

\* PostgreSQL: the copy is written an await later; of it only the status is kept.
WriteAttempt(c) ==
  /\ attempt[c].pc = "write"
  /\ task' = [task EXCEPT ![attempt[c].task].status = Status(attempt[c].outcome)]
  /\ attempt' = [attempt EXCEPT ![c].pc = IF attempt[c].trips THEN "ticket" ELSE "idle"]
  /\ UNCHANGED <<driver, late, tickets, retries, settled>>

\* Whoever trips the breaker creates a ticket and then writes its task once more.
CreateTicket(c) ==
  LET t == attempt[c].task IN
  /\ attempt[c].pc = "ticket"
  /\ tickets' = [tickets EXCEPT ![t] = @ + 1]
  /\ task' = IF driver = "prisma" THEN [task EXCEPT ![t].status = "ESCALATED"] ELSE task
  /\ attempt' = [attempt EXCEPT ![c].pc = "idle"]
  /\ UNCHANGED <<driver, late, retries, settled>>

-----------------------------------------------------------------------------
\* completeTask and failTask ask nothing of the status; their one write counts.
Settle(t, status) ==
  /\ task[t] # None
  /\ task' = [task EXCEPT ![t].status = status]
  /\ settled' = settled \cup {t}
  /\ UNCHANGED <<driver, late, attempt, tickets, retries>>

CompleteTask(t) == Settle(t, "COMPLETED")
FailTask(t) == Settle(t, "FAILED")

DeadlinePasses(t) ==
  /\ task[t] # None
  /\ late' = late \cup {t}
  /\ UNCHANGED <<driver, task, attempt, tickets, retries, settled>>

TaskStep ==
  \/ \E t \in Tasks : \/ \E max \in MaxIterations, b \in TokenBudgets, min \in Confidences :
                          CreateTask(t, max, b, min)
                     \/ CompleteTask(t) \/ FailTask(t) \/ DeadlinePasses(t)
  \/ \E c \in Callers :
       \/ \E t \in Tasks, conf \in Confidences, used \in TokenUses :
            task[t] # None /\ RecordAttempt(c, t, conf, used)
       \/ WriteAttempt(c) \/ CreateTicket(c)

TaskSpec == TaskInit /\ [][TaskStep]_taskVars

-----------------------------------------------------------------------------
(* Properties. *)

\* A task is re-evaluated less often than its bound says and within its tokens,
\* and its breaker creates one ticket however many attempts run into it, unless
\* the task was settled in between: in memory, whatever callers interleave.
BoundedReevaluation ==
  \A t \in Tasks : driver = "memory" /\ task[t] # None =>
    /\ retries[t] > 0 => retries[t] < task[t].maxIterations
    /\ t \notin settled => tickets[t] <= 1

\* What ROADMAP.md:72 says: every task persists its bounds and tracks usage
\* across attempts, so that the breaker trips.
BoundsPersist ==
  \A t \in Tasks : task[t] # None => retries[t] < DefaultMaxIterations
=============================================================================
