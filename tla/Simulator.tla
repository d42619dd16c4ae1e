-------------------------------- MODULE Simulator --------------------------------
(***************************************************************************)
(* SimulatorService: a loop of timeouts, each of which starts one step and *)
(* is set again when the step ends, that an operator starts, stops and     *)
(* configures at any time.  In agent mode a step seeds the tables and then *)
(* runs one agent; the runtime is the module AgentRuntime, whose isAborted *)
(* is the simulator's "stopped".                                           *)
(*                                                                         *)
(* One process-wide flag says that a step is being executed, and stop      *)
(* clears it while the step still waits for its agent.                     *)
(***************************************************************************)
EXTENDS Naturals, FiniteSets

CONSTANTS
  Runs,          \* the steps that may be under way at once
  MaxIterations, MaxCost, Costs, MaxCalls,  \* of the runtime
  MaxStops       \* bound on the stops of a loop that has steps under way

VARIABLES
  isRunning,
  activeAbort,
  isExecutingStep,
  timer,  \* this.timer: null, a pending timeout, or one that has fired
  step,   \* the step of each slot: none, seeding the tables, running its agent
  stops,  \* history: how many stops came while a step was under way
  run, spent, recorded, recordFailed  \* of the runtime

simVars == <<isRunning, activeAbort, isExecutingStep, timer, step, stops>>
runVars == <<run, spent, recorded, recordFailed>>
loopVars == <<simVars, runVars>>

\* *Fault*: the runtime is not told.
NotAborted == FALSE

\* options.isAborted of every run.
Aborted == ~isRunning \/ activeAbort

INSTANCE AgentRuntime WITH aborted <- [r \in Runs |-> Aborted]

UnderWay == {r \in Runs : step[r] # "none"}

LoopTypeOK ==
  /\ isRunning \in BOOLEAN
  /\ activeAbort \in BOOLEAN
  /\ isExecutingStep \in BOOLEAN
  /\ timer \in {"null", "pending", "fired"}
  /\ step \in [Runs -> {"none", "seeding", "agent"}]
  /\ stops \in 0 .. MaxStops
  /\ \A r \in Runs : step[r] = "agent" <=> run[r].pc \notin {"idle", "done"}
  /\ isExecutingStep => UnderWay # {}

\* The runtime is asked for isAborted before anything has started, and a run
\* that has not begun does not care: it starts as the simulator does, stopped.
LoopInit ==
  /\ isRunning = FALSE
  /\ activeAbort = FALSE
  /\ isExecutingStep = FALSE
  /\ timer = "null"
  /\ step = [r \in Runs |-> "none"]
  /\ stops = 0
  /\ run = [r \in Runs |-> NewRun]
  /\ spent = [r \in Runs |-> 0]
  /\ recorded = [r \in Runs |-> 0]
  /\ recordFailed = [r \in Runs |-> FALSE]

--------------------------------------------------------------------------------
(* The operator. *)

\* *Fault*: start begins afresh, whatever is under way.
StartedAfresh ==
  /\ isRunning' = TRUE
  /\ isExecutingStep' = FALSE
  /\ timer' = "pending"

\* start: the loop is set going; a running one only if nothing drives it.
Started ==
  /\ isRunning' = TRUE
  /\ timer' = IF isRunning /\ (isExecutingStep \/ timer # "null")
                THEN timer ELSE "pending"
  /\ UNCHANGED isExecutingStep

Start ==
  /\ activeAbort' = FALSE
  /\ Started
  /\ UNCHANGED <<step, stops, runVars>>

\* stop: the pending timeout goes, and the flag, even if a step is under way.
Stop ==
  /\ isRunning' = FALSE
  /\ activeAbort' = TRUE
  /\ timer' = "null"
  /\ isExecutingStep' = FALSE
  /\ stops < MaxStops
  /\ stops' = IF UnderWay = {} THEN stops ELSE stops + 1
  /\ UNCHANGED <<step, runVars>>

\* this.timer after restartTimer.
RestartedTimer == IF Aborted THEN "null" ELSE "pending"

\* updateConfig sets the timeout again only between steps.
BetweenSteps == isRunning /\ ~isExecutingStep

UpdateConfig ==
  /\ timer' = IF BetweenSteps THEN RestartedTimer ELSE timer
  /\ UNCHANGED <<isRunning, activeAbort, isExecutingStep, step, stops, runVars>>

--------------------------------------------------------------------------------
(* The loop. *)

\* tick's finally, for the step of slot r.
Ended(r) ==
  /\ step' = [step EXCEPT ![r] = "none"]
  /\ isExecutingStep' = FALSE
  /\ timer' = IF Aborted THEN timer ELSE RestartedTimer

\* The rate-limit supervisor pauses the tick, which ends without a step.
TickPaused ==
  /\ timer = "pending"
  /\ ~isExecutingStep
  /\ timer' = RestartedTimer
  /\ isExecutingStep' = FALSE
  /\ UNCHANGED <<isRunning, activeAbort, step, stops, runVars>>

\* tick starts a step, which starts by seeding the tables; a tick that finds
\* the flag set leaves at once.  (That never comes about, see TickIsNeverLost,
\* nor does tick's guard against a stopped loop: stop clears the timeout.)
TickStarts(r) ==
  /\ timer = "pending"
  /\ step[r] = "none"
  /\ timer' = "fired"
  /\ isExecutingStep' = TRUE
  /\ step' = IF isExecutingStep THEN step ELSE [step EXCEPT ![r] = "seeding"]
  /\ UNCHANGED <<isRunning, activeAbort, stops, runVars>>

\* The tables are seeded and no agent runs: the simulator was stopped
\* meanwhile, or no runtime or no tools are there.
SeededInVain(r) ==
  /\ step[r] = "seeding"
  /\ Ended(r)
  /\ UNCHANGED <<isRunning, activeAbort, stops, runVars>>

\* The tables are seeded and the agent runs to its first await; it may have
\* stopped already.
SeededAndRuns(r) ==
  /\ step[r] = "seeding"
  /\ ~Aborted
  /\ Begin(r)
  /\ \/ /\ run'[r].pc # "done"
        /\ step' = [step EXCEPT ![r] = "agent"]
        /\ UNCHANGED <<isExecutingStep, timer>>
     \/ run'[r].pc = "done" /\ Ended(r)
  /\ UNCHANGED <<isRunning, activeAbort, stops>>

\* The agent gets on; the step ends with it.
AgentSteps(r) ==
  /\ step[r] = "agent"
  /\ Step(r)
  /\ \/ run'[r].pc # "done" /\ UNCHANGED <<isExecutingStep, timer, step>>
     \/ run'[r].pc = "done" /\ Ended(r)
  /\ UNCHANGED <<isRunning, activeAbort, stops>>

StepOf(r) == SeededInVain(r) \/ SeededAndRuns(r) \/ AgentSteps(r)

LoopNext ==
  \/ Start
  \/ Stop
  \/ UpdateConfig
  \/ TickPaused
  \/ \E r \in Runs : TickStarts(r)
  \/ \E r \in Runs : StepOf(r)

LoopSpec == LoopInit /\ [][LoopNext]_loopVars

--------------------------------------------------------------------------------
(* Properties. *)

\* Two steps are under way at once only if the simulator was stopped with one
\* under way, and never more than one for each such stop: a timeout that fires,
\* a new configuration or a second start does not let steps overlap.
OverlapOnlyByStops == Cardinality(UnderWay) <= 1 + stops

\* A running simulator always has something that will get it to its next tick:
\* a pending timeout, or a step that will set it.  Overlapping steps and
\* timeouts that find the flag set do not end the loop.
LoopIsAlive == isRunning => timer = "pending" \/ UnderWay # {}

\* A timeout that is pending will start a step: none is left after a stop,
\* however many steps end after it, and none fires into a step that is under
\* way, where it would be lost.
TickIsNeverLost == timer = "pending" => isRunning /\ ~isExecutingStep

\* After a stop the agents under way start nothing more, not even the tools an
\* answer has already named, until the simulator is started again; a start that
\* comes before their next await ends lets them go on as if nothing had been.
StartsNothing == \A r \in Runs : ~isRunning /\ run'[r] # run[r] => run'[r].pc = "done"

StoppedStartsNothing == [][StartsNothing]_loopVars
================================================================================
