----------------------------- MODULE CapacityLoop -----------------------------
(***************************************************************************)
(* The simulator's pulse: it reads the replicas of the deployment, then    *)
(* the orders, plans and asks InfrastructureService to scale.  Pulses      *)
(* overlap when the simulator is stopped and started under one of them.    *)
(* planCapacity says how many replicas the orders call for; a fifth of the *)
(* backlog counts as load, so loads are in fifths of orders per minute.    *)
(***************************************************************************)
EXTENDS Infrastructure

CONSTANTS
  Deployment,    \* the first deployment of the namespace
  Demands        \* orders per minute, backlog and mode there may be

VARIABLES
  demand,
  pulse,         \* [Scalers -> the local state of stepInfraTelemetryPulse]
  moves,         \* history: how often pulses changed the replicas ...
  unsettled      \* ... and whether one began before, since demand or replicas changed

loopVars == <<infraVars, demand, pulse, moves, unsettled>>

--------------------------------------------------------------------------------
(* The planner. *)

ORDERS_PER_MINUTE_PER_REPLICA == 12
DEFAULT_MIN_REPLICAS == 2
DEFAULT_MAX_REPLICAS == 10

\* effectiveLoad, in fifths.
EffectiveLoad(d) == 5 * d.rate + d.backlog

CeilDiv(n, d) == (n + d - 1) \div d

\* Replicas for the load; half as much again in a flash sale.
RawTarget(d) ==
  LET load == EffectiveLoad(d)
      perReplica == 5 * ORDERS_PER_MINUTE_PER_REPLICA
  IN IF d.mode = "FLASH_SALE" THEN CeilDiv(3 * load, 2 * perReplica)
                                   ELSE CeilDiv(load, perReplica)

Target(d) ==
  LET raw == RawTarget(d) IN
  CASE raw < DEFAULT_MIN_REPLICAS -> DEFAULT_MIN_REPLICAS
    [] raw > DEFAULT_MAX_REPLICAS -> DEFAULT_MAX_REPLICAS
    [] OTHER -> raw

\* Footprints of which 60% comes out just below the exact product, so that a
\* load of exactly 60% is still above it.
RoundedDown == {1, 2, 3, 4, 6, 8}

\* The load is above 60% of what the footprint absorbs.
AboveRelease(load, current) ==
  \/ load > 36 * current
  \/ load = 36 * current /\ current \in RoundedDown

\* *Fault*: the target is how many replicas to add or take.
PlanCapacityDelta(current, d) ==
  LET target == Target(d) IN
  CASE target > current -> [kind |-> "SCALE_UP", targetReplicas |-> target - current]
    [] target < current -> [kind |-> "SCALE_DOWN", targetReplicas |-> current - target]
    [] OTHER -> [kind |-> "HOLD", targetReplicas |-> current]

PlanCapacity(current, d) ==
  LET target == Target(d)
      held == AboveRelease(EffectiveLoad(d), current)
  IN CASE target > current -> [kind |-> "SCALE_UP", targetReplicas |-> target]
       [] target < current /\ ~held -> [kind |-> "SCALE_DOWN", targetReplicas |-> target]
       [] OTHER -> [kind |-> "HOLD", targetReplicas |-> current]

--------------------------------------------------------------------------------
(* The pulse. *)

Quiet == [pc |-> "idle", current |-> 0, target |-> 0]

LoopTypeOK ==
  /\ InfraTypeOK
  /\ demand \in Demands
  /\ \A p \in Scalers : pulse[p].pc \in {"idle", "orders", "request", "scaling"}

LoopInit ==
  /\ InfraInit
  /\ demand \in Demands
  /\ pulse = [p \in Scalers |-> Quiet]
  /\ moves = 0 /\ unsettled = FALSE

\* A pulse starts with the snapshot of the cluster ...
ReadSnapshot(p) ==
  /\ pulse[p] = Quiet
  /\ pulse' = [pulse EXCEPT ![p] = [Quiet EXCEPT !.pc = "orders", !.current = cluster[Deployment]]]
  /\ UNCHANGED <<infraVars, demand, moves, unsettled>>

\* ... reads the orders and plans ...
ReadOrders(p) ==
  LET decision == PlanCapacity(pulse[p].current, demand) IN
  /\ pulse[p].pc = "orders"
  /\ pulse' = [pulse EXCEPT ![p] =
       IF decision.kind = "HOLD" THEN Quiet
       ELSE [@ EXCEPT !.pc = "request", !.target = decision.targetReplicas]]
  /\ UNCHANGED <<infraVars, demand, moves, unsettled>>

\* ... and asks for the target; it names no budget and is sure of itself.
RequestTarget(p) ==
  /\ pulse[p].pc = "request"
  /\ RequestScaling(p, Deployment, pulse[p].target)
  /\ pulse' = [pulse EXCEPT ![p].pc = "scaling"]
  /\ UNCHANGED <<demand, moves, unsettled>>

Scaling(p) ==
  /\ pulse[p].pc = "scaling"
  /\ \/ \E e \in Events : DecideScaling(p, e, TRUE, TRUE)
     \/ ScaleDeployment(p) \/ SaveEvent(p)
  /\ moves' = IF cluster' = cluster THEN moves ELSE moves + 1
  /\ pulse' = [pulse EXCEPT ![p] = IF scaler'[p] = Still THEN Quiet ELSE @]
  /\ UNCHANGED <<demand, unsettled>>

\* Counting begins anew, in vain while a pulse is under way.
Disturbed ==
  /\ moves' = 0
  /\ unsettled' = \E p \in Scalers : pulse[p] # Quiet
  /\ UNCHANGED pulse

\* Customers order, orders are fulfilled, the mode is set.
DemandChanges(d) ==
  /\ demand' = d /\ d # demand
  /\ Disturbed
  /\ UNCHANGED infraVars

OperatorScales(n) ==
  /\ OthersScale(Deployment, n) /\ n # cluster[Deployment]
  /\ Disturbed
  /\ UNCHANGED demand

LoopNext ==
  \/ \E p \in Scalers : ReadSnapshot(p) \/ ReadOrders(p) \/ RequestTarget(p) \/ Scaling(p)
  \/ \E d \in Demands : DemandChanges(d)
  \/ \E n \in Replicas : OperatorScales(n)

LoopSpec == LoopInit /\ [][LoopNext]_loopVars

--------------------------------------------------------------------------------
(* Properties. *)

\* As long as neither the demand nor others change anything, pulses change the
\* replicas at most once, to what the demand calls for, even if they overlap.
SettlesInOneMove ==
  ~unsettled => /\ moves <= 1
                /\ moves = 1 => cluster[Deployment] = Target(demand)
================================================================================
