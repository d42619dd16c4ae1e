------------------------------ MODULE MCPlatform ------------------------------
(***************************************************************************)
(* The platform, one scene at a time: the steps of the simulator, its loop,*)
(* infrastructure, the enterprise saga and the capacity loop, tasks and    *)
(* goals, the registry of agents, the outbox, audit trail and event stream,*)
(* and experiments.  SimulatorSteps keeps its variables; the others take   *)
(* the slots s1, s2, ... in turn, as INSTANCE lists them, and share their  *)
(* handlers: fewer names to permute.                                       *)
(***************************************************************************)
EXTENDS SimulatorSteps, FiniteSets, TLC

CONSTANTS Scenes,
          Pairs,         \* two handlers
          Triples,       \* three handlers or rows
          Twins,         \* two rows
          Saga,
          Deployments, UUIDs, Demands,
          SagaReplicas, SagaMaxReplicas,      \* bounds of the scenes of Cloud,
          OthersReplicas, MaxReplicas,        \* and of the capacity loop
          TaskConfidences, TokenUses, MaxIterations, TokenBudgets, DefaultMaxIterations,
          DefaultTokenBudget, DefaultMinConfidence, Complexities, RiskLevels,
          AgentNames, Versions, Confidences,
          MaxSent, Servers, Listeners,
          Scenarios, LiveTokens, FallbackTokens, MaxCrashes,
          MaxTurns, MaxCost, Costs, MaxCalls, MaxStops  \* of the simulator's loop

VARIABLES scene, s1, s2, s3, s4, s5, s6, s7, s8, s9, s10, s11, s12

shared == <<s1, s2, s3, s4, s5, s6, s7, s8, s9, s10, s11, s12>>

Cloud == INSTANCE EnterpriseSaga WITH
  Events <- Twins, Scalers <- Pairs \cup {Saga}, Sagas <- {Saga},
  Replicas <- SagaReplicas, MaxReplicas <- SagaMaxReplicas,
  driver <- s1, cluster <- s2, event <- s3, scaler <- s4, last <- s5, disturbed <- s6,
  saga <- s7, accountIds <- s8, reserved <- s9, left <- s10, escalations <- s11, undone <- s12

Shop == CHOOSE d \in Deployments : TRUE

Capacity == INSTANCE CapacityLoop WITH
  Deployment <- Shop, Events <- Twins, Scalers <- Pairs, Replicas <- OthersReplicas,
  driver <- s1, cluster <- s2, event <- s3, scaler <- s4, last <- s5, disturbed <- s6,
  demand <- s7, pulse <- s8, moves <- s9, unsettled <- s10

Work == INSTANCE Orchestrator WITH
  Callers <- Pairs, Goals <- Pairs, Tasks <- Twins, Confidences <- TaskConfidences,
  driver <- s1, task <- s2, late <- s3, attempt <- s4, tickets <- s5, retries <- s6,
  settled <- s7, goal <- s8, recorded <- s9, trusted <- s10

Registry == INSTANCE AgentRegistry WITH
  Agents <- AgentNames, Reporters <- Pairs,
  agent <- s1, profile <- s2, report <- s3, outcomes <- s4, violations <- s5,
  registered <- s6, met <- s7, adjusted <- s8

Mail == INSTANCE Outbox WITH
  OutboxIds <- Triples, Publishers <- Pairs,
  enabled <- s1, outbox <- s2, pubs <- s3, topic <- s4, seen <- s5, offset <- s6, appended <- s7

Audit == INSTANCE AuditTrail WITH
  Requests <- Pairs, RequestIds <- Twins,
  request <- s1, logs <- s2, connected <- s3, publisherUp <- s4, subscriberUp <- s5,
  channel <- s6, publishing <- s7, listener <- s8, heard <- s9

Lab == INSTANCE Experiments WITH
  Calls <- Triples,
  storage <- s1, scenarios <- s2, runs <- s3, call <- s4, audits <- s5, crashes <- s6

Loop == INSTANCE Simulator WITH
  Runs <- Triples, MaxIterations <- MaxTurns,
  isRunning <- s1, activeAbort <- s2, isExecutingStep <- s3, timer <- s4, step <- s5,
  stops <- s6, run <- s7, spent <- s8, recorded <- s9, recordFailed <- s10

\* What the proofs ask of the bounds: None is no value of anything it stands for.
ASSUME RegistryAssumption ==
  /\ Confidences \subseteq 0 .. Registry!One
  /\ None \notin AgentNames \cup Versions \cup {Registry!Auto.version} \cup Registry!Outcomes
  /\ None \notin [version : Versions \cup {Registry!Auto.version}, available : BOOLEAN]
  /\ None \notin [accuracy : 0 .. Registry!One, consistency : 0 .. Registry!One,
                 calibration : 0 .. Registry!One, historicalSuccessRate : 0 .. Registry!One,
                 failureRate : 0 .. Registry!One, policyViolations : Nat,
                 overallTrust : 0 .. Registry!One, sampleCount : Nat]

ASSUME ScalingAssumption ==
  /\ Deployments # {}
  /\ SagaReplicas \subseteq Nat /\ SagaMaxReplicas \in Nat \ {0} /\ OthersReplicas \subseteq Nat
  /\ Demands \subseteq [rate : Nat, backlog : Nat, mode : {"STEADY_STATE", "FLASH_SALE"}]
  /\ None \notin Deployments \cup Twins
  /\ None \notin [of : Deployments, from : Nat, to : Nat, status : Cloud!EventStatus]

ASSUME TasksAssumption ==
  /\ TaskConfidences \subseteq Nat /\ TokenUses \subseteq Nat
  /\ MaxIterations \subseteq Nat /\ TokenBudgets \subseteq Nat
  /\ DefaultMaxIterations \in Nat /\ DefaultTokenBudget \in Nat /\ DefaultMinConfidence \in Nat
  /\ None \notin Twins \cup {"EXECUTE", "RETRY", "CIRCUIT_BROKEN", "BUDGET_DENIED"}
  /\ None \notin [status : Work!TaskStatus, iterationCount : Nat, tokenUsed : Nat,
                 hasDeadline : BOOLEAN, maxIterations : Nat, tokenBudget : Nat, minConfidence : Nat]

ASSUME LoopAssumption ==
  /\ IsFiniteSet(Triples) /\ MaxTurns \in Nat /\ MaxCost \in Nat /\ MaxCalls \in Nat
  /\ MaxStops \in Nat /\ Costs \subseteq Nat

ASSUME LabAssumption ==
  /\ LiveTokens \in Nat /\ FallbackTokens \in Nat /\ MaxCrashes \in Nat
  /\ None \notin Triples \cup Lab!ExperimentMode \cup Int /\ None \notin Lab!Run

Symmetric == Permutations(Pairs) \cup Permutations(Triples) \cup Permutations(Twins)
Sizes == [t \in Tables |-> IF t = "products" THEN 2 ELSE 1]

\* Orders that call for six replicas, but are no reason to leave nine, and a flash
\* sale that calls for more than there may be.
TwoDemands == {[rate |-> 66, backlog |-> 0, mode |-> "STEADY_STATE"],
               [rate |-> 90, backlog |-> 20, mode |-> "FLASH_SALE"]}

Count(S, Held(_)) == Cardinality({x \in S : Held(x)})

-----------------------------------------------------------------------------
(* Bounds of the scenes. *)

\* Steps taken, rows created twice, and claims worth telling apart.
Ticks == FoldFunction(LAMBDA a, b : a + b, 0, turns)
StepsBound ==
  /\ Ticks' <= (IF agentMode' THEN 2 ELSE 7)
  /\ (\E s \in Slots : BeginStep(s) /\ UnderWay # {}) => Ticks < 2 /\ ~agentMode
  /\ claims' = {c \in claims' : c.scenario = "inventory"}
  /\ \A t \in {"customers", "salesReps"} : \A n \in DOMAIN rows'[t] : rows'[t][n] <= 2

\* Once a deployment is disturbed, what is under way ends.
AtWork(scaler) == {s \in Pairs : scaler[s] # Cloud!Still}

ScalingNext ==
  /\ Cloud!InfraNext /\ s4'[Saga] = Cloud!Still
  /\ s6 # {} => AtWork(s4') \subseteq AtWork(s4)
  /\ UNCHANGED <<s7, s8, s9, s10, s11, s12>>

SagaNext ==
  /\ Cloud!SagaClient \/ Cloud!SagaStep(Saga)
  /\ Cardinality(AtWork(s4')) <= 1 /\ s6' = {}

Pulsing(pulse) == {p \in Pairs : pulse[p] # Capacity!Quiet}

CapacityNext ==
  /\ Capacity!LoopNext
  /\ s10 => Pulsing(s8') \subseteq Pulsing(s8)

TasksNext ==
  /\ Work!TaskStep /\ UNCHANGED <<s8, s9, s10>>
  /\ \A t \in Twins : /\ s2'[t] # None => s2'[t].iterationCount <= 4
                      /\ s6'[t] <= 3 /\ s5'[t] <= 2
  /\ Count(Twins, LAMBDA t : s2'[t] # None) <= 1

Reporting(report) == {r \in Pairs : report[r] # Registry!Unused}
RegistryNext ==
  /\ Registry!RegistryNext
  /\ \A a \in AgentNames : s4'[a] <= 2
  /\ s7 # {} \/ s8 # {} => Reporting(s3') \subseteq Reporting(s3)
  /\ s8 # {} => s7' = {}

StreamNext ==
  /\ Audit!AuditNext
  /\ \A r \in Pairs : s1'[r].records <= 1 /\ s1'[r].outcome # "FAILURE"
AuditNext == Audit!AuditNext /\ UNCHANGED <<s3, s4, s5, s7>>

\* At most two calls at once, none after a crash or after one was refused, and
\* comparisons of runs there are.
Active(call) == {c \in Triples : call[c].pc \notin {"idle", "done", "refused", "lost"}}
Begun == {c \in Triples : s4[c] = Lab!Unused /\ s4'[c] # Lab!Unused}
ExperimentsNext ==
  /\ Lab!ExperimentNext
  /\ Cardinality(Active(s4')) <= 2
  /\ Begun # {} => /\ s6 = 0 /\ \A c \in Triples : s4[c].pc # "refused"
                   /\ s2 # {} \/ \A c \in Triples : s4[c] = Lab!Unused
  /\ \A c \in Begun : s4'[c].kind = "compare" =>
       s3[s4'[c].base] # None /\ s3[s4'[c].cand] # None /\ s4'[c].base # s4'[c].cand

-----------------------------------------------------------------------------
\* Slots a scene leaves unused.
NoneTo6 == s1 = None /\ s2 = None /\ s3 = None /\ s4 = None /\ s5 = None /\ s6 = None
None7 == s7 = None
None8 == s8 = None
None9To10 == s9 = None /\ s10 = None
NoneFrom11 == s11 = None /\ s12 = None
from7 == <<s7, s8, s9, s10, s11, s12>>
from8 == <<s8, s9, s10, s11, s12>>
from9 == <<s9, s10, s11, s12>>
from10 == <<s10, s11, s12>>
from11 == <<s11, s12>>

CloudScenes == {"scaling", "saga"}
WorkScenes == {"tasks", "goals"}
AuditScenes == {"stream", "audit"}

MCInit ==
  /\ scene \in Scenes
  /\ StepsInit
  /\ scene # "steps" => agentMode = FALSE /\ storage = "memory"
  /\ \/ scene = "steps" /\ NoneTo6 /\ None7 /\ None8 /\ None9To10 /\ NoneFrom11
     \/ scene \in CloudScenes /\ Cloud!InfraInit /\ Cloud!SagaInit
     \/ scene = "capacity" /\ Capacity!LoopInit /\ NoneFrom11
     \/ scene \in WorkScenes /\ Work!TaskInit /\ Work!GoalInit /\ NoneFrom11
     \/ scene = "registry" /\ Registry!RegistryInit /\ None9To10 /\ NoneFrom11
     \/ scene = "outbox" /\ Mail!OutboxInit /\ None8 /\ None9To10 /\ NoneFrom11
     \/ /\ scene \in AuditScenes /\ Audit!AuditInit /\ s10 = None /\ NoneFrom11
        /\ \A l \in Listeners : s8[l] = [at |-> CHOOSE s \in Servers : TRUE, tenant |-> "enterprise"]
     \/ scene = "experiments" /\ Lab!ExperimentInit /\ None7 /\ None8 /\ None9To10 /\ NoneFrom11
     \/ scene = "loop" /\ Loop!LoopInit /\ NoneFrom11

MCNext ==
  /\ UNCHANGED scene
  /\ \/ scene = "steps" /\ StepsNext /\ StepsBound /\ UNCHANGED shared
     \/ /\ UNCHANGED stepVars
        /\ \/ scene = "scaling" /\ ScalingNext
           \/ scene = "saga" /\ SagaNext
           \/ scene = "capacity" /\ CapacityNext /\ UNCHANGED from11
           \/ scene = "tasks" /\ TasksNext /\ UNCHANGED from11
           \/ scene = "goals" /\ (\E g \in Pairs : Work!GoalStep(g)) /\ UNCHANGED from11
           \/ scene = "registry" /\ RegistryNext /\ UNCHANGED from9
           \/ scene = "outbox" /\ Mail!OutboxNext /\ UNCHANGED from8
           \/ scene = "stream" /\ StreamNext /\ UNCHANGED from10
           \/ scene = "audit" /\ AuditNext /\ UNCHANGED from10
           \/ scene = "experiments" /\ ExperimentsNext /\ UNCHANGED from7
           \/ scene = "loop" /\ Loop!LoopNext /\ UNCHANGED from11

MCSpec == MCInit /\ [][MCNext]_<<stepVars, scene, shared>>

-----------------------------------------------------------------------------
(* Properties: those of the components, each in the scenes it speaks of,   *)
(* with the types of their variables.                                      *)

\* The replicas are what the scaling event last applied says, and a rollback gives
\* back what was before (infrastructure.service.ts).
ClusterFollowsEvents ==
  scene \in CloudScenes => Cloud!InfraTypeOK /\ Cloud!ClusterFollowsEvents

\* A saga that failed has taken its scaling and its reservation back
\* (enterprise-saga.service.ts:61-194).
FailedSagaIsUndone == scene = "saga" => Cloud!SagaTypeOK /\ Cloud!FailedSagaIsUndone

\* apps/api/test/enterprise-saga.test.ts:38: "completes all eight domain steps".
CompletesAllSteps == scene = "saga" => Cloud!CompletesAllSteps

\* The capacity loop settles in one move (capacity-planner.ts:74-146,
\* simulator.service.ts:1081-1229).
SettlesInOneMove == scene = "capacity" => Capacity!LoopTypeOK /\ Capacity!SettlesInOneMove

\* Tasks are not evaluated again without bound, and goals that stopped stay stopped
\* (workflow-task.service.ts:106-176, orchestrator.service.ts:38-197).
TasksStop ==
  scene \in WorkScenes => /\ Work!TaskTypeOK /\ Work!BoundedReevaluation
                          /\ Work!GoalTypeOK /\ Work!StoppedGoals

\* The trust of an agent is what its outcomes earned (agent-registry.service.ts).
TrustIsEarned == scene = "registry" => Registry!RegistryTypeOK /\ Registry!TrustIsEarned

\* Events are sent in the order they were published (outbox.service.ts:17-49).
SentInOrder == scene = "outbox" => Mail!OutboxTypeOK /\ Mail!SentInOrder

\* What happened is in the audit log, once, and on the trace of the own listeners; runs
\* of experiments cost what their records say, and comparisons stay true
\* (audit.service.ts, event-stream.service.ts, experiment.service.ts).
RecordsTellTheTruth ==
  /\ scene \in AuditScenes => Audit!AuditTypeOK /\ Audit!AuditedOnce /\ Audit!OwnListenersHear
  /\ scene = "experiments" => /\ Lab!ExperimentTypeOK /\ Lab!RunsFinishOrWereLeft
                              /\ Lab!DeterministicIsFree /\ Lab!ComparisonsStand

\* The loop of the simulator: steps overlap only after stops, it stays alive while it
\* runs, and no tick comes to nothing (simulator.service.ts:237-396).
OneLoop == scene = "loop" => /\ Loop!LoopTypeOK /\ Loop!OverlapOnlyByStops
                            /\ Loop!LoopIsAlive /\ Loop!TickIsNeverLost

\* After a stop the agents under way start nothing more (simulator.service.ts:272-291,
\* 590).
StopIsHeeded == [][scene = "loop" => Loop!StartsNothing]_<<scene, shared>>
================================================================================
