------------------------------- MODULE RateLimit -------------------------------
(***************************************************************************)
(* RateLimitSupervisorService and the calls OmniRouterClient makes under   *)
(* it.  The supervisor is one process-wide pause with a timeout that lifts *)
(* it; a 429 answer of the provider (re)starts the pause, an operator can  *)
(* start or lift it, and whoever asks for its status lifts it once it has  *)
(* elapsed.  Provider answers arrive long after the pause was looked at.   *)
(*                                                                         *)
(* Time is the time left, not a date: Tick takes one unit off the pause    *)
(* and off every pending timeout together (Date.now() and setTimeout       *)
(* advance alike).  A timeout may fire any time after it is due.           *)
(***************************************************************************)
EXTENDS Naturals, FiniteSets

CONSTANTS
  Agents,       \* callers through AgentRuntimeService.run
  Narrators,    \* callers through SimulatorService.narrateOutcome
  Reasoners,    \* callers through SimulatorService.callLlmReasoning
  Operator,     \* what a manual pause records as its model
  MinPause,     \* the least cooldown (5 s)
  DefaultPause, \* DEFAULT_COOLDOWN_SECONDS (30 s)
  RetryAfters,  \* the seconds asked for; 0 is "none given"
  MaxHits       \* bound on consecutiveHits, which is never reset

Callers == Agents \cup Narrators \cup Reasoners

ASSUME PauseAssumption ==
  /\ MinPause \in Nat \ {0}
  /\ DefaultPause \in Nat
  /\ RetryAfters \subseteq Nat
  /\ MaxHits \in Nat
  /\ Operator \notin Callers

VARIABLES
  isRateLimited,
  pausedFor,       \* the time until pausedUntilMs; 0 also when it is null
  triggeredBy,     \* who recorded the last rate limit; not cleared by a resolve
  consecutiveHits,
  timer,           \* the handle kept in this.timer; 0 is null
  timeouts,        \* the pending timeouts of the event loop
  call             \* what each caller is doing

supervisor == <<isRateLimited, pausedFor, triggeredBy, consecutiveHits, timer,
                timeouts>>
vars == <<isRateLimited, pausedFor, triggeredBy, consecutiveHits, timer,
          timeouts, call>>

Timeout == [handle : Nat, due : Nat]

TypeOK ==
  /\ isRateLimited \in BOOLEAN
  /\ pausedFor \in Nat
  /\ triggeredBy \in Callers \cup {Operator}
  /\ consecutiveHits \in Nat
  /\ timer \in Nat
  /\ timeouts \subseteq Timeout
  /\ call \in [Callers -> {"idle", "fetching", "refused", "failed"}]
  /\ ~isRateLimited => pausedFor = 0 /\ timer = 0

Init ==
  /\ isRateLimited = FALSE
  /\ pausedFor = 0
  /\ triggeredBy = Operator
  /\ consecutiveHits = 0
  /\ timer = 0
  /\ timeouts = {}
  /\ call = [c \in Callers |-> "idle"]

--------------------------------------------------------------------------------
(* The supervisor. *)

\* The pause a request of s seconds gets.
Cooldown(s) ==
  LET asked == IF s = 0 THEN DefaultPause ELSE s
  IN IF asked < MinPause THEN MinPause ELSE asked

\* *Fault*: clearTimeout is forgotten.
NotCleared(pending, h) == pending

\* The pending timeouts after clearTimeout(h).
Cleared(pending, h) == {t \in pending : t.handle # h}

\* *Fault*: a replaced pause gets no timeout.
ScheduledOnce(s) ==
  IF timer = 0
    THEN {[handle |-> consecutiveHits + 1, due |-> Cooldown(s)]}
    ELSE Cleared(timeouts, timer)

\* clearTimeout(this.timer), then setTimeout: the handles of successive calls
\* differ, and the hit number can stand for one.
Rescheduled(s) ==
  Cleared(timeouts, timer)
    \cup {[handle |-> consecutiveHits + 1, due |-> Cooldown(s)]}

RecordRateLimit(model, s) ==
  /\ consecutiveHits < MaxHits
  /\ isRateLimited' = TRUE
  /\ consecutiveHits' = consecutiveHits + 1
  /\ pausedFor' = Cooldown(s)
  /\ triggeredBy' = model
  /\ timer' = consecutiveHits + 1
  /\ timeouts' = Rescheduled(s)

\* resolveRateLimit, with the pending timeouts it finds.
Resolve(pending) ==
  \/ /\ ~isRateLimited
     /\ timeouts' = pending
     /\ UNCHANGED <<isRateLimited, pausedFor, timer>>
  \/ /\ isRateLimited
     /\ isRateLimited' = FALSE
     /\ pausedFor' = 0
     /\ timer' = 0
     /\ timeouts' = Cleared(pending, timer)

\* *Fault*: a pause is over one unit early.
PausedButOne == isRateLimited /\ pausedFor > 1

\* isRateLimited as getStatus answers it: an elapsed pause is over.
Paused == isRateLimited /\ pausedFor > 0

\* getStatus: lifts the pause it finds elapsed.
Look ==
  \/ ~Paused /\ Resolve(timeouts) /\ UNCHANGED <<triggeredBy, consecutiveHits>>
  \/ Paused /\ UNCHANGED supervisor

GetStatus == Look /\ UNCHANGED call

ManualPause(s) == RecordRateLimit(Operator, s) /\ UNCHANGED call

ManualResume == Resolve(timeouts) /\ UNCHANGED <<triggeredBy, consecutiveHits, call>>

\* A due timeout leaves the event loop and resolves the pause, whosever it is.
TimerFires(t) ==
  /\ t.due = 0
  /\ Resolve(timeouts \ {t})
  /\ UNCHANGED <<triggeredBy, consecutiveHits, call>>

Less(n) == IF n = 0 THEN 0 ELSE n - 1

Tick ==
  /\ pausedFor > 0 \/ \E t \in timeouts : t.due > 0
  /\ pausedFor' = Less(pausedFor)
  /\ timeouts' = {[t EXCEPT !.due = Less(@)] : t \in timeouts}
  /\ UNCHANGED <<isRateLimited, triggeredBy, consecutiveHits, timer, call>>

--------------------------------------------------------------------------------
(* OmniRouterClient.chat and .complete, and what their callers do with a    *)
(* failure.                                                                 *)

\* The pause is looked at, then the request is sent; a paused caller is
\* refused at once and is idle again.
StartCall(c) ==
  /\ call[c] = "idle"
  /\ Look
  /\ call' = IF Paused THEN call ELSE [call EXCEPT ![c] = "fetching"]

\* A usable answer, or a network error: neither touches the supervisor.
CallEnds(c) ==
  /\ call[c] = "fetching"
  /\ call' = [call EXCEPT ![c] = "idle"]
  /\ UNCHANGED supervisor

\* A 429: the client records it, and then reads the body of the answer.
CallRefused(c) ==
  /\ call[c] = "fetching"
  /\ \E s \in RetryAfters : RecordRateLimit(c, s)
  /\ call' = [call EXCEPT ![c] = "refused"]

\* Another failing status; its body, which the message quotes, is read too.
CallFails(c) ==
  /\ call[c] = "fetching"
  /\ call' = [call EXCEPT ![c] = "failed"]
  /\ UNCHANGED supervisor

\* The callers that search the message for "429" and record the limit again.
ReportsAgain == Agents \cup Reasoners

\* The message names the status, so that of a 429 always contains "429";
\* another may, by the body it quotes.
CallThrows(c) ==
  /\ call[c] \in {"refused", "failed"}
  /\ call' = [call EXCEPT ![c] = "idle"]
  /\ \/ c \in ReportsAgain /\ RecordRateLimit(c, DefaultPause)
     \/ /\ c \notin ReportsAgain \/ call[c] = "failed"
        /\ UNCHANGED supervisor

Next ==
  \/ GetStatus
  \/ \E s \in RetryAfters : ManualPause(s)
  \/ ManualResume
  \/ \E t \in timeouts : TimerFires(t)
  \/ Tick
  \/ \E c \in Callers : StartCall(c)
  \/ \E c \in Callers : CallEnds(c)
  \/ \E c \in Callers : CallRefused(c)
  \/ \E c \in Callers : CallFails(c)
  \/ \E c \in Callers : CallThrows(c)

Spec == Init /\ [][Next]_vars

\* Time passes, and a timeout that stays due fires.
FairSpec ==
  /\ Spec
  /\ WF_vars(Tick)
  /\ WF_vars(\E t \in timeouts : TimerFires(t))

--------------------------------------------------------------------------------
(* Properties. *)

\* However 429s, operators and elapsed timeouts interleave, a pause has
\* exactly one pending timeout, the one this.timer names, due when the pause
\* ends; and without a pause none is pending, so that no timeout of an earlier
\* pause can reach a later one.
PauseHasItsTimer ==
  timeouts = IF isRateLimited THEN {[handle |-> timer, due |-> pausedFor]} ELSE {}

\* A pause ends only when its time is over or an operator lifts it: a timeout
\* left by a replaced pause, or an answer that was on its way, never lifts it.
NotLiftedEarly ==
  [][isRateLimited /\ ~isRateLimited' => pausedFor = 0 \/ ManualResume]_vars

\* No request is sent in a pause that still runs, whichever of the two ends of
\* the pause, the timeout or the look at the clock, comes first.
NoCallInPause ==
  [][\A c \in Callers : call[c] = "idle" /\ call'[c] = "fetching"
       => pausedFor = 0 /\ timeouts' = {}]_vars

\* Once rate limits stop arriving (after MaxHits of them), a pause ends although
\* nobody asks for the status: the timeout is not lost when a pause is replaced.
EveryPauseEnds == isRateLimited ~> ~isRateLimited

\* simulator.service.ts:704: "A rate limit on narration is deliberately NOT
\* reported to the rate-limit supervisor."
NarrationDoesNotPause == isRateLimited => triggeredBy \notin Narrators
================================================================================
