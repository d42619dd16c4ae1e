----------------------------- MODULE OfficeStatus -----------------------------
(***************************************************************************)
(* The control bar of the virtual office page                              *)
(* (apps/web/src/routes/office/+page.svelte): its copy of the simulator's  *)
(* status, kept by polling, by the event stream, by a countdown of its own *)
(* and by the commands the operator gives, each of them an await on a      *)
(* request that may be answered late or not at all.                        *)
(*                                                                         *)
(* mode stands for the mode and the interval, which are handled alike.     *)
(* The marks the status puts on the agents are left out.                   *)
(***************************************************************************)
EXTENDS Integers, Sequences

CONSTANTS Asks, Modes, MaxSeconds, MaxCommands, MaxChanges, MaxLost, None

VARIABLES sim,      \* the simulator and the supervisor, at the API
          view,     \* the page: simulatorStatus, cooldownCountdown and its life
          ask,      \* [Asks -> a request under way, or None]
          commands, changes, lost

statusVars == <<sim, view, ask, commands, changes, lost>>

Reads == {"first", "registry", "status"}
Commands == {"start", "stop", "config", "pause", "resume"}

SimStates == [running : BOOLEAN, paused : BOOLEAN, mode : Modes]
Initially == CHOOSE m \in Modes : TRUE

StatusTypeOK ==
  /\ sim \in SimStates
  /\ view.shown \in SimStates /\ view.countdown \in 0..MaxSeconds
  /\ view.phase \in {"status", "registry", "live", "closed"}
  /\ {view.timer, view.stream, view.hasty} \subseteq BOOLEAN
  /\ \A a \in Asks : ask[a] # None =>
       ask[a].kind \in Reads \cup Commands /\ ask[a].answer \in {"sent", "failed", "ok"}

AskFor(kind, mode) == [kind |-> kind, mode |-> mode, answer |-> "sent", says |-> sim]

\* onMount asks for the status, then for the registry, before anything else.
StatusInit ==
  /\ sim = [running |-> FALSE, paused |-> FALSE, mode |-> Initially]
  /\ view = [phase |-> "status", timer |-> FALSE, stream |-> FALSE, hasty |-> FALSE,
             shown |-> sim, countdown |-> 0, inbox |-> <<>>]
  /\ \E a \in Asks : ask = [b \in Asks |-> IF b = a THEN AskFor("first", Initially) ELSE None]
  /\ commands = 0 /\ changes = 0 /\ lost = 0

Asking(kind, mode) ==
  /\ \E a \in Asks : ask[a] = None
  /\ ask' = [ask EXCEPT ![CHOOSE a \in Asks : ask[a] = None] = AskFor(kind, mode)]

(***************************************************************************)
(* The API.                                                                *)
(***************************************************************************)
\* A pause or a resume is announced on the stream, to a page that listens.
Announced(paused) == IF view.stream THEN [view EXCEPT !.inbox = Append(@, paused)] ELSE view

Obeyed(kind, mode) ==
  CASE kind = "start"  -> [sim EXCEPT !.running = TRUE, !.mode = mode]
    [] kind = "stop"   -> [sim EXCEPT !.running = FALSE]
    [] kind = "config" -> [sim EXCEPT !.mode = mode]
    [] kind = "pause"  -> [sim EXCEPT !.paused = TRUE]
    [] kind = "resume" -> [sim EXCEPT !.paused = FALSE]
    [] OTHER           -> sim

ViewAfter(kind) == IF kind \in {"pause", "resume"} THEN Announced(kind = "pause") ELSE view

Serve(a) ==
  /\ ask[a] # None /\ ask[a].answer = "sent"
  /\ sim' = Obeyed(ask[a].kind, ask[a].mode)
  /\ view' = ViewAfter(ask[a].kind)
  /\ \/ ask' = [ask EXCEPT ![a].answer = "ok", ![a].says = sim'] /\ lost' = lost
     \/ /\ lost < MaxLost /\ lost' = lost + 1
        /\ ask' = [ask EXCEPT ![a].answer = "failed"]
  /\ UNCHANGED <<commands, changes>>

\* The request never reaches the API.
Unreached(a) ==
  /\ ask[a] # None /\ ask[a].answer = "sent" /\ lost < MaxLost
  /\ lost' = lost + 1 /\ ask' = [ask EXCEPT ![a].answer = "failed"]
  /\ UNCHANGED <<sim, view, commands, changes>>

\* Another operator, or the supervisor itself.
SimulatorMoves(kind) ==
  /\ changes < MaxChanges /\ changes' = changes + 1
  /\ sim' = Obeyed(kind, sim.mode) /\ view' = ViewAfter(kind)
  /\ UNCHANGED <<ask, commands, lost>>

(***************************************************************************)
(* The page's life.                                                        *)
(***************************************************************************)
Live(w) == [w EXCEPT !.timer = TRUE, !.stream = TRUE,
                     !.phase = IF w.phase = "closed" THEN "closed" ELSE "live"]

\* onDestroy clears what onMount has set up by then.
Closed(w) == [w EXCEPT !.phase = "closed", !.timer = FALSE, !.stream = FALSE, !.inbox = <<>>,
                       !.hasty = (w.phase # "live")]

Leave ==
  /\ view.phase # "closed"
  /\ view' = Closed(view)
  /\ UNCHANGED <<sim, ask, commands, changes, lost>>

(***************************************************************************)
(* loadSimulatorStatus: a successful answer replaces the whole copy, also  *)
(* what the operator has selected since; the countdown is set when paused. *)
(***************************************************************************)
Countdowns(w, says) == IF says.paused THEN 0..MaxSeconds ELSE {w.countdown}

Loaded(w, says, seconds) == [w EXCEPT !.shown = says, !.countdown = seconds]

StatusArrives(a) ==
  /\ ask[a] # None /\ ask[a].kind \in {"first", "status"} /\ ask[a].answer # "sent"
  /\ \E seconds \in Countdowns(view, ask[a].says) :
       view' = [IF ask[a].answer = "ok" THEN Loaded(view, ask[a].says, seconds) ELSE view
                EXCEPT !.phase = IF ask[a].kind = "first" /\ @ = "status" THEN "registry" ELSE @]
  /\ ask' = [ask EXCEPT ![a] = IF ask[a].kind = "first" THEN AskFor("registry", Initially) ELSE None]
  /\ UNCHANGED <<sim, commands, changes, lost>>

\* loadAgentRegistry, after which onMount subscribes and sets the intervals.
RegistryArrives(a) ==
  /\ ask[a] # None /\ ask[a].kind = "registry" /\ ask[a].answer # "sent"
  /\ view' = Live(view)
  /\ ask' = [ask EXCEPT ![a] = None]
  /\ UNCHANGED <<sim, commands, changes, lost>>

Poll ==
  /\ view.timer /\ Asking("status", Initially)
  /\ UNCHANGED <<sim, view, commands, changes, lost>>

\* The page's own second: at zero it takes the pause to be over.
CountdownTick ==
  /\ view.timer /\ view.countdown > 0
  /\ view' = [view EXCEPT !.countdown = @ - 1,
                          !.shown.paused = @ /\ view.countdown > 1]
  /\ UNCHANGED <<sim, ask, commands, changes, lost>>

\* handleEvent, the part that follows the supervisor.
HandleEvent ==
  /\ view.stream /\ view.inbox # <<>>
  /\ \E seconds \in 1..MaxSeconds :
       view' = [view EXCEPT !.inbox = Tail(@), !.shown.paused = Head(view.inbox),
                            !.countdown = IF Head(view.inbox) THEN seconds ELSE 0]
  /\ UNCHANGED <<sim, ask, commands, changes, lost>>

(***************************************************************************)
(* Commands.  Each one asks, applies its effect to the copy when it was    *)
(* not refused, and loads the status again.                                *)
(***************************************************************************)
Command == view.phase # "closed" /\ commands < MaxCommands /\ commands' = commands + 1

ToggleSimulator ==
  /\ Command
  /\ Asking(IF view.shown.running THEN "stop" ELSE "start", view.shown.mode)
  /\ UNCHANGED <<sim, view, changes, lost>>

\* changeMode and changeInterval: the API is told only while it is running.
ChangeMode(mode) ==
  /\ Command
  /\ view' = [view EXCEPT !.shown.mode = mode]
  /\ IF view.shown.running THEN Asking("config", mode) ELSE ask' = ask
  /\ UNCHANGED <<sim, changes, lost>>

TriggerManualCooldown == Command /\ Asking("pause", Initially) /\ UNCHANGED <<sim, view, changes, lost>>
ResumeFromCooldown == Command /\ Asking("resume", Initially) /\ UNCHANGED <<sim, view, changes, lost>>

Applied(w, kind) ==
  CASE kind = "start"  -> [w EXCEPT !.shown.running = TRUE]
    [] kind = "stop"   -> [w EXCEPT !.shown.running = FALSE]
    [] kind = "pause"  -> [w EXCEPT !.shown.paused = TRUE, !.countdown = MaxSeconds]
    [] kind = "resume" -> [w EXCEPT !.shown.paused = FALSE, !.countdown = 0]
    [] OTHER           -> w

CommandAnswered(a) ==
  /\ ask[a] # None /\ ask[a].kind \in Commands /\ ask[a].answer # "sent"
  /\ view' = IF ask[a].answer = "ok" THEN Applied(view, ask[a].kind) ELSE view
  /\ ask' = [ask EXCEPT ![a] = AskFor("status", Initially)]
  /\ UNCHANGED <<sim, commands, changes, lost>>

StatusNext ==
  \/ \E a \in Asks : \/ Serve(a) \/ Unreached(a) \/ StatusArrives(a) \/ RegistryArrives(a)
                     \/ CommandAnswered(a)
  \/ \E kind \in Commands \ {"config"} : SimulatorMoves(kind)
  \/ \E mode \in Modes : ChangeMode(mode)
  \/ Leave \/ Poll \/ CountdownTick \/ HandleEvent
  \/ ToggleSimulator \/ TriggerManualCooldown \/ ResumeFromCooldown

\* The browser runs the intervals and delivers events; a request is answered or fails.
StatusSpec ==
  /\ StatusInit /\ [][StatusNext]_statusVars
  /\ WF_statusVars(Poll) /\ WF_statusVars(CountdownTick) /\ WF_statusVars(HandleEvent)
  /\ \A a \in Asks : WF_statusVars(Serve(a) \/ StatusArrives(a) \/ RegistryArrives(a)
                                   \/ CommandAnswered(a))

(***************************************************************************)
(* Properties.                                                             *)
(***************************************************************************)
\* The control bar tells the truth again and again, whatever answer was late
\* or lost and however often its own countdown ran out too early
\* (loadSimulatorStatus, the countdown interval, handleEvent).
InStep == view.phase = "live" => view.shown = sim
ShowsTheSimulator == []<>InStep

\* The page polls on after it was left only when it was left before the two
\* loads its onMount awaits had come back (onMount, onDestroy).
OfficeClosesDown == view.phase = "closed" /\ (view.timer \/ view.stream) => view.hasty
===============================================================================
