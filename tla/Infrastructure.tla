---------------------------- MODULE Infrastructure ----------------------------
(***************************************************************************)
(* Scaling of deployments: InfrastructureService over either repository    *)
(* and KubernetesClientService.  The cluster is changed by others as well, *)
(* and any call to it may fail.                                            *)
(***************************************************************************)
EXTENDS Naturals, PolicyEngine

CONSTANTS
  Deployments,
  Events,        \* the ids there are to give to scaling events
  Scalers,       \* handlers under way
  Replicas,      \* replicas callers ask for, and others set
  MaxReplicas,   \* DEFAULT_MAX_REPLICAS, 10 in the code
  None

VARIABLES
  driver,        \* the repository in use: "memory" or "prisma"
  cluster,       \* [Deployments -> replicas]
  event,         \* [Events -> a scaling event or None]
  scaler,        \* [Scalers -> the local state of the handler]
  last,          \* history: [Deployments -> the event last applied to it, or None]
  disturbed      \* history: deployments others scaled or two handlers were at

infraVars == <<driver, cluster, event, scaler, last, disturbed>>

Still == [op |-> "none", pc |-> "idle", event |-> None, of |-> None, row |-> None]

EventStatus == {"REQUESTED", "POLICY_REJECTED", "EXECUTED", "FAILED", "ROLLED_BACK"}

InfraTypeOK ==
  /\ \A e \in Events : event[e] # None =>
       event[e].status \in EventStatus /\ event[e].of \in Deployments
  /\ \A s \in Scalers : scaler[s].pc \in {"idle", "policy", "scale", "rollback", "save", "thrown"}

InfraInit ==
  /\ driver \in {"memory", "prisma"}
  /\ cluster \in [Deployments -> {1}]
  /\ event = [e \in Events |-> None]
  /\ scaler = [s \in Scalers |-> Still]
  /\ last = [d \in Deployments |-> None]
  /\ disturbed = {}

\* PostgreSQL has no status POLICY_REJECTED.
StoredEvent(row) ==
  IF driver = "prisma" /\ row.status = "POLICY_REJECTED" THEN [row EXCEPT !.status = "FAILED"]
                                                         ELSE row

NewEvent(e) == event[e] = None /\ e = CHOOSE x \in Events : event[x] = None

Arrives(s, state) ==
  /\ scaler[s] = Still
  /\ scaler' = [scaler EXCEPT ![s] = state]
  /\ disturbed' = disturbed \cup {d \in {state.of} : \E t \in Scalers : scaler[t].of = d}

-----------------------------------------------------------------------------
(* requestScaling *)

\* More than the limit is refused before the cluster is asked.
RefuseScaling(e, d, to) ==
  /\ NewEvent(e) /\ to > MaxReplicas
  /\ event' = [event EXCEPT ![e] =
       StoredEvent([of |-> d, from |-> 0, to |-> to, status |-> "POLICY_REJECTED"])]
  /\ UNCHANGED <<driver, cluster, scaler, last, disturbed>>

\* The replicas there are are read ...
RequestScaling(s, d, to) ==
  /\ to <= MaxReplicas
  /\ Arrives(s, [op |-> "requestScaling", pc |-> "policy", event |-> None, of |-> d,
                 row |-> [of |-> d, from |-> cluster[d], to |-> to, status |-> "REQUESTED"]])
  /\ UNCHANGED <<driver, cluster, event, last>>

\* ... policy and budget decide, and the event is stored; ...
Verdict(row, budgetAvailable, confident) ==
  InfrastructureScalingPolicy(row.to, MaxReplicas, row.to >= row.from, budgetAvailable, confident)

DecideScaling(s, e, budgetAvailable, confident) ==
  LET row == scaler[s].row
      allowed == Verdict(row, budgetAvailable, confident) = "AUTO_APPROVE"
      stored == [row EXCEPT !.status = IF allowed THEN "REQUESTED" ELSE "POLICY_REJECTED"]
  IN /\ scaler[s].pc = "policy" /\ NewEvent(e)
     /\ row.to < row.from => budgetAvailable  \* only asked of a scale up
     /\ event' = [event EXCEPT ![e] = StoredEvent(stored)]
     /\ scaler' = [scaler EXCEPT ![s] =
          IF allowed THEN [@ EXCEPT !.pc = "scale", !.event = e] ELSE Still]
     /\ UNCHANGED <<driver, cluster, last, disturbed>>

\* ... the cluster does it or throws ...
ScaleDeployment(s) ==
  LET d == scaler[s].of
      row == scaler[s].row
  IN /\ scaler[s].pc = "scale"
     /\ \/ /\ cluster' = [cluster EXCEPT ![d] = row.to]
           /\ last' = [last EXCEPT ![d] = scaler[s].event]
           /\ scaler' = [scaler EXCEPT ![s].pc = "save", ![s].row.status = "EXECUTED"]
        \/ /\ scaler' = [scaler EXCEPT ![s].pc = "save", ![s].row.status = "FAILED"]
           /\ UNCHANGED <<cluster, last>>
     /\ UNCHANGED <<driver, event, disturbed>>

\* ... and the copy is written back; a handler the cluster refused throws.
SaveEvent(s) ==
  /\ scaler[s].pc = "save"
  /\ event' = [event EXCEPT ![scaler[s].event] = StoredEvent(scaler[s].row)]
  /\ scaler' = [scaler EXCEPT ![s] = Still]
  /\ UNCHANGED <<driver, cluster, last, disturbed>>

-----------------------------------------------------------------------------
(* rollbackScaling *)

\* *Fault*: the event is rolled back to where it went.
RolledBackForward(row) == row.to

RolledBack(row) == row.from

\* Only an executed event is rolled back: to the replicas it found ...
RollbackScaling(s, e) ==
  /\ event[e] # None /\ event[e].status = "EXECUTED"
  /\ Arrives(s, [op |-> "rollbackScaling", pc |-> "rollback", event |-> e,
                 of |-> event[e].of, row |-> event[e]])
  /\ UNCHANGED <<driver, cluster, event, last>>

\* ... unless the cluster throws.
ScaleBack(s) ==
  LET d == scaler[s].of
      row == scaler[s].row
  IN /\ scaler[s].pc = "rollback"
     /\ \/ /\ cluster' = [cluster EXCEPT ![d] = RolledBack(row)]
           /\ last' = [last EXCEPT ![d] = scaler[s].event]
           /\ scaler' = [scaler EXCEPT ![s].pc = "save", ![s].row.status = "ROLLED_BACK"]
        \/ scaler' = [scaler EXCEPT ![s] = Still] /\ UNCHANGED <<cluster, last>>
     /\ UNCHANGED <<driver, event, disturbed>>

\* Others scale as they like.
OthersScale(d, n) ==
  /\ cluster' = [cluster EXCEPT ![d] = n]
  /\ disturbed' = disturbed \cup {d}
  /\ UNCHANGED <<driver, event, scaler, last>>

-----------------------------------------------------------------------------
InfraStep(s) ==
  \/ \E d \in Deployments, to \in Replicas : RequestScaling(s, d, to)
  \/ \E e \in Events : \/ \E available, confident \in BOOLEAN : DecideScaling(s, e, available, confident)
                       \/ RollbackScaling(s, e)
  \/ ScaleDeployment(s) \/ SaveEvent(s) \/ ScaleBack(s)

InfraNext ==
  \/ \E s \in Scalers : InfraStep(s)
  \/ \E d \in Deployments, n \in Replicas : OthersScale(d, n) \/ \E e \in Events : RefuseScaling(e, d, n)

InfraSpec == InfraInit /\ [][InfraNext]_infraVars

-----------------------------------------------------------------------------
(* Properties. *)

\* A deployment only one handler at a time was at has the replicas the event last
\* applied to it says: those asked for, those before if it was rolled back --
\* never more than the limit -- and a refused or failed event left no trace.
ClusterFollowsEvents ==
  \A d \in Deployments \ disturbed :
    (\A s \in Scalers : scaler[s].of # d) =>
      IF last[d] = None THEN cluster[d] = 1
      ELSE LET e == event[last[d]] IN
           /\ e.status \in {"EXECUTED", "ROLLED_BACK"}
           /\ cluster[d] = IF e.status = "EXECUTED" THEN e.to ELSE e.from
           /\ cluster[d] <= MaxReplicas
=============================================================================
