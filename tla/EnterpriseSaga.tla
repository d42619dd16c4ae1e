---------------------------- MODULE EnterpriseSaga ----------------------------
(***************************************************************************)
(* EnterpriseSagaService.process over Infrastructure: a chain of calls to  *)
(* eight domains and the compensation of a saga that fails.  A saga is one *)
(* of the Scalers of Infrastructure.  The other domains have modules of    *)
(* their own; here each call grants or throws.                             *)
(***************************************************************************)
EXTENDS Infrastructure

CONSTANTS
  Sagas,         \* invocations of the saga, a subset of Scalers
  UUIDs          \* the ids accounts are given

VARIABLES
  saga,          \* [Sagas -> the local state of the saga]
  accountIds,    \* ids of the accounts there are
  reserved,      \* sagas whose stock is reserved
  left,          \* [Sagas -> the rows made for it in other domains]
  escalations,   \* [Sagas -> tickets created]
  undone         \* history: sagas whose undo calls threw

sagaVars == <<saga, accountIds, reserved, left, escalations, undone>>

Ready == [pc |-> "idle", scale |-> None, scaling |-> None, reservation |-> FALSE,
          status |-> "PENDING", compensation |-> "SKIPPED"]

SagaTypeOK ==
  \A s \in Sagas : /\ saga[s].pc \in {"idle", "reserve", "purchase", "scale", "scaling", "finance",
                                      "allocate", "overtime", "journal", "rollback", "rollingBack",
                                      "cancel", "ticket", "done"}
                   /\ saga[s].status \in {"PENDING", "COMPLETED", "FAILED"}

SagaInit ==
  /\ saga = [s \in Sagas |-> Ready]
  /\ accountIds = {} /\ reserved = {} /\ undone = {}
  /\ left = [s \in Sagas |-> {}]
  /\ escalations = [s \in Sagas |-> 0]

Goes(s, pc) == saga' = [saga EXCEPT ![s].pc = pc]

\* What throws goes to the compensation, which says it is COMPLETED at once.
Throws(s) ==
  saga' = [saga EXCEPT ![s].pc = "rollback", ![s].status = "FAILED",
                       ![s].compensation = "COMPLETED"]

\* One call that grants, leaving "rows" behind, or throws.
Call(s, pc, next, rows) ==
  /\ saga[s].pc = pc
  /\ \/ Goes(s, next) /\ left' = [left EXCEPT ![s] = @ \cup rows]
     \/ Throws(s) /\ UNCHANGED left
  /\ UNCHANGED <<infraVars, accountIds, reserved, escalations, undone>>

-----------------------------------------------------------------------------
\* The saga reads its order; "scale" is the replicas asked for or None.
Process(s, scale, stock) ==
  /\ saga[s] = Ready
  /\ saga' = [saga EXCEPT ![s].scale = scale,
                          ![s].pc = IF stock THEN "reserve" ELSE "scale"]
  /\ UNCHANGED <<infraVars, accountIds, reserved, left, escalations, undone>>

ReserveStock(s) ==
  /\ saga[s].pc = "reserve"
  /\ \/ /\ reserved' = reserved \cup {s}
        /\ saga' = [saga EXCEPT ![s].pc = "purchase", ![s].reservation = TRUE]
     \/ Throws(s) /\ UNCHANGED reserved
  /\ UNCHANGED <<infraVars, accountIds, left, escalations, undone>>

CreatePurchaseRequest(s) == Call(s, "purchase", "scale", {"purchase request"})

\* Scaling that policy refuses does not stop the saga ...
SkipScaling(s) ==
  /\ saga[s].pc = "scale" /\ saga[s].scale = None
  /\ Goes(s, "finance")
  /\ UNCHANGED <<infraVars, accountIds, reserved, left, escalations, undone>>

BeginScaling(s, d) ==
  /\ saga[s].pc = "scale" /\ saga[s].scale # None
  /\ RequestScaling(s, d, saga[s].scale)
  /\ Goes(s, "scaling")
  /\ UNCHANGED <<accountIds, reserved, left, escalations, undone>>

\* ... scaling that the cluster refuses does; the saga then knows no event of it.
ContinueScaling(s) ==
  /\ saga[s].pc = "scaling"
  /\ \/ /\ \E e \in Events, available, confident \in BOOLEAN :
             /\ DecideScaling(s, e, available, confident)
             /\ saga' = IF scaler'[s] = Still
                          THEN [saga EXCEPT ![s].pc = "finance", ![s].scaling = e] ELSE saga
     \/ ScaleDeployment(s) /\ UNCHANGED saga
     \/ SaveEvent(s) /\ IF scaler[s].row.status = "EXECUTED"
                          THEN saga' = [saga EXCEPT ![s].pc = "finance", ![s].scaling = scaler[s].event]
                          ELSE Throws(s)
  /\ UNCHANGED <<accountIds, reserved, left, escalations, undone>>

CheckBudgetAvailability(s) == Call(s, "finance", "allocate", {})
CreateBudgetAllocation(s) == Call(s, "allocate", "overtime", {"allocation"})
RequestOvertime(s) ==
  \/ Call(s, "overtime", "journal", {"overtime"})
  \/ /\ saga[s].pc = "overtime" /\ Goes(s, "journal")  \* no employee was named
     /\ UNCHANGED <<infraVars, accountIds, reserved, left, escalations, undone>>

\* The journal names two accounts by id.
JournalAccounts == {"ar", "rev"}

CreateJournal(s) ==
  /\ saga[s].pc = "journal"
  /\ IF JournalAccounts \subseteq accountIds
       THEN saga' = [saga EXCEPT ![s].pc = "done", ![s].status = "COMPLETED"]
       ELSE Throws(s)
  /\ UNCHANGED <<infraVars, accountIds, reserved, left, escalations, undone>>

\* Accounting: every account gets a new UUID.
CreateChartOfAccount(id) ==
  /\ accountIds' = accountIds \cup {id}
  /\ UNCHANGED <<infraVars, saga, reserved, left, escalations, undone>>

-----------------------------------------------------------------------------
(* Compensation: either undo is tried, its error swallowed. *)

\* *Fault*: one try for both.
AfterRollbackAlone(s, ok) == IF ok THEN "cancel" ELSE "ticket"

AfterRollback(s, ok) == "cancel"

BeginRollback(s) ==
  LET e == saga[s].scaling IN
  /\ saga[s].pc = "rollback"
  /\ IF e = None THEN Goes(s, "cancel") /\ UNCHANGED <<infraVars, undone>>
     ELSE IF event[e].status = "EXECUTED"
       THEN RollbackScaling(s, e) /\ Goes(s, "rollingBack") /\ UNCHANGED undone
       ELSE Goes(s, AfterRollback(s, FALSE)) /\ UNCHANGED <<infraVars, undone>>
  /\ UNCHANGED <<accountIds, reserved, left, escalations>>

ContinueRollback(s) ==
  /\ saga[s].pc = "rollingBack"
  /\ \/ /\ ScaleBack(s)
        /\ IF scaler'[s] = Still
             THEN Goes(s, AfterRollback(s, FALSE)) /\ undone' = undone \cup {<<s, "scaling">>}
             ELSE UNCHANGED <<saga, undone>>
     \/ SaveEvent(s) /\ Goes(s, AfterRollback(s, TRUE)) /\ UNCHANGED undone
  /\ UNCHANGED <<accountIds, reserved, left, escalations>>

CancelReservation(s) ==
  /\ saga[s].pc = "cancel"
  /\ \/ reserved' = reserved \ {s} /\ UNCHANGED undone
     \/ /\ saga[s].reservation /\ UNCHANGED reserved
        /\ undone' = undone \cup {<<s, "reservation">>}
  /\ Goes(s, "ticket")
  /\ UNCHANGED <<infraVars, accountIds, left, escalations>>

CreateSystemTicket(s) ==
  /\ saga[s].pc = "ticket"
  /\ escalations' = [escalations EXCEPT ![s] = @ + 1]
  /\ Goes(s, "done")
  /\ UNCHANGED <<infraVars, accountIds, reserved, left, undone>>

-----------------------------------------------------------------------------
SagaStep(s) ==
  \/ \E scale \in Replicas \cup {None}, stock \in BOOLEAN : Process(s, scale, stock)
  \/ ReserveStock(s) \/ CreatePurchaseRequest(s) \/ SkipScaling(s)
  \/ \E d \in Deployments : BeginScaling(s, d)
  \/ ContinueScaling(s) \/ CheckBudgetAvailability(s) \/ CreateBudgetAllocation(s)
  \/ RequestOvertime(s) \/ CreateJournal(s)
  \/ BeginRollback(s) \/ ContinueRollback(s) \/ CancelReservation(s) \/ CreateSystemTicket(s)

\* Clients of Infrastructure and Accounting meanwhile.
SagaClient ==
  \/ \E id \in UUIDs : CreateChartOfAccount(id)
  \/ /\ \/ \E s \in Scalers \ Sagas : InfraStep(s)
        \/ \E d \in Deployments, n \in Replicas : OthersScale(d, n)
     /\ UNCHANGED sagaVars

SagaSpec == InfraInit /\ SagaInit /\ [][SagaClient \/ \E s \in Sagas : SagaStep(s)]_<<infraVars, sagaVars>>

-----------------------------------------------------------------------------
(* Properties. *)

\* A saga that failed holds no stock and has its scaling rolled back, except where
\* the undo call itself threw, and has told a human; one that completed has
\* compensated nothing.
FailedSagaIsUndone ==
  \A s \in Sagas : saga[s].pc = "done" =>
    IF saga[s].status = "COMPLETED" THEN escalations[s] = 0
    ELSE /\ escalations[s] = 1
         /\ s \notin reserved \/ <<s, "reservation">> \in undone
         /\ saga[s].scaling = None \/ <<s, "scaling">> \in undone
              \/ event[saga[s].scaling].status # "EXECUTED"

\* What apps/api/test/enterprise-saga.test.ts:38 says: a saga that everybody grants
\* its calls completes all eight domain steps.
CompletesAllSteps ==
  \A s \in Sagas : saga[s].pc = "done" /\ "allocation" \in left[s] /\ "overtime" \in left[s]
                     => saga[s].status = "COMPLETED"
=============================================================================
