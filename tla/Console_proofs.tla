---------------------------- MODULE Console_proofs ----------------------------
(***************************************************************************)
(* The rate-limit supervisor and the operators' pages.                     *)
(*                                                                         *)
(* The pause of RateLimitSupervisorService, for any number of callers, any *)
(* cooldowns and any interleaving: a pause always has exactly the timeout  *)
(* that ends it, and nothing but that timeout, the clock or an operator    *)
(* ends it.  PauseHasItsTimer is inductive once the types are known: a     *)
(* timeout that fires is then the timeout of the pause, so lifting it is   *)
(* not early.                                                              *)
(*                                                                         *)
(* The pages, scene by scene: StageInv, WebInv, FormInv, DeskInv and       *)
(* BarInv add to each scene's properties what its handlers know between    *)
(* two steps -- which answers are still awaited, which reload is the       *)
(* latest, which tickets are at stake.                                     *)
(***************************************************************************)
EXTENDS MCConsole, Sequences, FiniteSetTheorems, TLAPS

IInv == TypeOK /\ PauseHasItsTimer

CallOK == call \in [Callers -> {"idle", "fetching", "refused", "failed"}]

\* How long a pause lasts is a number of ticks.
LEMMA CooldownType ==
  ASSUME NEW s \in Nat
  PROVE  Cooldown(s) \in Nat
BY PauseAssumption DEF Cooldown

\* What RecordRateLimit leaves behind: one timeout, the new one's.
LEMMA RecordPreserves ==
  ASSUME IInv, NEW m \in Callers \cup {Operator}, NEW s \in Nat,
         RecordRateLimit(m, s), CallOK'
  PROVE  IInv'
<1>1. Cooldown(s) \in Nat
  BY CooldownType
<1>2. Cleared(timeouts, timer) = {}
  BY DEF IInv, PauseHasItsTimer, Cleared
<1>3. PauseHasItsTimer'
  BY <1>2 DEF RecordRateLimit, Rescheduled, PauseHasItsTimer
<1>4. TypeOK'
  BY <1>1, <1>2 DEF IInv, TypeOK, CallOK, RecordRateLimit, Rescheduled, Timeout
<1> QED
  BY <1>3, <1>4 DEF IInv

\* What a resolve leaves behind, whether the pause's own timeout is still
\* pending or has just fired.
LEMMA ResolvePreserves ==
  ASSUME IInv, CallOK',
         Resolve(timeouts) \/ (isRateLimited /\ Resolve({})),
         triggeredBy' = triggeredBy, consecutiveHits' = consecutiveHits
  PROVE  IInv'
<1>1. CASE ~isRateLimited
  BY <1>1 DEF IInv, TypeOK, CallOK, PauseHasItsTimer, Resolve
<1>2. CASE isRateLimited
  <2>1. Cleared(timeouts, timer) = {} /\ Cleared({}, timer) = {}
    BY <1>2 DEF IInv, PauseHasItsTimer, Cleared
  <2>2. /\ isRateLimited' = FALSE /\ pausedFor' = 0 /\ timer' = 0
        /\ timeouts' = {}
    BY <1>2, <2>1 DEF Resolve
  <2> QED
    BY <2>2 DEF IInv, TypeOK, CallOK, PauseHasItsTimer
<1> QED
  BY <1>1, <1>2

\* A call that looks at the pause keeps the invariant.
LEMMA LookPreserves ==
  ASSUME IInv, Look, CallOK'
  PROVE  IInv'
<1>1. CASE ~Paused /\ Resolve(timeouts) /\ UNCHANGED <<triggeredBy, consecutiveHits>>
  <2>1. Resolve(timeouts) /\ triggeredBy' = triggeredBy /\ consecutiveHits' = consecutiveHits
    BY <1>1
  <2> QED
    BY <2>1, ResolvePreserves, Zenon
<1>2. CASE UNCHANGED supervisor
  BY <1>2 DEF IInv, TypeOK, CallOK, PauseHasItsTimer, supervisor
<1> QED
  BY <1>1, <1>2 DEF Look

\* A timeout that fires is the one of the pause, and is due with it.
LEMMA FiringEndsThePause ==
  ASSUME IInv, NEW t \in timeouts, t.due = 0
  PROVE  isRateLimited /\ pausedFor = 0 /\ timeouts \ {t} = {}
BY DEF IInv, PauseHasItsTimer

\* Time runs alike for the pause and for its timeout.
LEMMA TickPreserves ==
  ASSUME IInv, Tick
  PROVE  IInv'
<1>1. Less(pausedFor) \in Nat /\ (pausedFor = 0 => Less(pausedFor) = 0)
  BY DEF IInv, TypeOK, Less
<1>2. PauseHasItsTimer'
  <2>1. CASE isRateLimited
    <3>1. timeouts = {[handle |-> timer, due |-> pausedFor]}
      BY <2>1 DEF IInv, PauseHasItsTimer
    <3>2. timeouts' = {[handle |-> timer, due |-> Less(pausedFor)]}
      BY <3>1 DEF Tick
    <3> QED
      BY <2>1, <3>2 DEF PauseHasItsTimer, Tick
  <2>2. CASE ~isRateLimited
    BY <2>2 DEF IInv, PauseHasItsTimer, Tick
  <2> QED
    BY <2>1, <2>2
<1>3. TypeOK'
  <2>1. timeouts' \subseteq Timeout
    BY <1>1, <1>2 DEF IInv, TypeOK, PauseHasItsTimer, Tick, Timeout
  <2> QED
    BY <1>1, <2>1 DEF IInv, TypeOK, Tick
<1> QED
  BY <1>2, <1>3 DEF IInv

\* Every step keeps it.
LEMMA StepPreserves == IInv /\ [Next]_vars => IInv'
<1> SUFFICES ASSUME IInv, [Next]_vars
             PROVE  IInv'
  OBVIOUS
<1>0. CallOK
  BY DEF IInv, TypeOK, CallOK
<1>1. CASE GetStatus
  BY <1>0, <1>1, LookPreserves DEF GetStatus, CallOK
<1>2. ASSUME NEW s \in RetryAfters, ManualPause(s)
      PROVE  IInv'
  BY <1>0, <1>2, RecordPreserves, PauseAssumption DEF ManualPause, CallOK
<1>3. CASE ManualResume
  <2>1. /\ Resolve(timeouts) /\ CallOK'
        /\ triggeredBy' = triggeredBy /\ consecutiveHits' = consecutiveHits
    BY <1>0, <1>3 DEF ManualResume, CallOK
  <2> QED
    BY <2>1, ResolvePreserves, Zenon
<1>4. ASSUME NEW t \in timeouts, TimerFires(t)
      PROVE  IInv'
  BY <1>0, <1>4, FiringEndsThePause, ResolvePreserves DEF TimerFires, CallOK
<1>5. CASE Tick
  BY <1>5, TickPreserves
<1>6. ASSUME NEW c \in Callers, StartCall(c)
      PROVE  IInv'
  <2>1. CallOK'
    BY <1>0, <1>6 DEF StartCall, CallOK
  <2> QED
    BY <1>6, <2>1, LookPreserves DEF StartCall
<1>7. ASSUME NEW c \in Callers, CallEnds(c) \/ CallFails(c)
      PROVE  IInv'
  BY <1>7 DEF CallEnds, CallFails, supervisor, IInv, TypeOK, PauseHasItsTimer
<1>8. ASSUME NEW c \in Callers, CallRefused(c)
      PROVE  IInv'
  <2>1. CallOK'
    BY <1>0, <1>8 DEF CallRefused, CallOK
  <2> QED
    BY <1>8, <2>1, RecordPreserves, PauseAssumption DEF CallRefused
<1>9. ASSUME NEW c \in Callers, CallThrows(c)
      PROVE  IInv'
  <2>1. CallOK'
    BY <1>0, <1>9 DEF CallThrows, CallOK
  <2>2. CASE RecordRateLimit(c, DefaultPause)
    BY <2>1, <2>2, RecordPreserves, PauseAssumption
  <2>3. CASE UNCHANGED supervisor
    BY <2>1, <2>3 DEF supervisor, IInv, TypeOK, CallOK, PauseHasItsTimer
  <2> QED
    BY <1>9, <2>2, <2>3 DEF CallThrows
<1>10. CASE UNCHANGED vars
  BY <1>10 DEF vars, IInv, TypeOK, PauseHasItsTimer
<1> QED
  BY <1>1, <1>2, <1>3, <1>4, <1>5, <1>6, <1>7, <1>8, <1>9, <1>10 DEF Next

\* It holds before the first call.
LEMMA InitEstablishes == Init => IInv
<1> SUFFICES ASSUME Init
             PROVE  IInv
  OBVIOUS
<1>1. TypeOK
  BY DEF Init, TypeOK
<1>2. PauseHasItsTimer
  BY DEF Init, PauseHasItsTimer
<1> QED
  BY <1>1, <1>2 DEF IInv

\* It holds of every reachable state.
LEMMA Inductive == Spec => []IInv
BY InitEstablishes, StepPreserves, PTL DEF Spec

\* Whatever the callers do and however answers, operators and timeouts
\* interleave (recordRateLimit, resolveRateLimit, getStatus): the pause and its
\* timeout are always one and the same.
THEOREM OneTimerPerPause == Spec => []PauseHasItsTimer
<1>1. IInv => PauseHasItsTimer
  BY DEF IInv
<1> QED
  BY <1>1, Inductive, PTL

\* A pause is lifted only by its own end or by an operator (resolveRateLimit
\* has three callers: its timeout, getStatus and manualResume).
THEOREM NeverLiftedEarly == Spec => NotLiftedEarly
<1> DEFINE Lifted == isRateLimited /\ ~isRateLimited' => pausedFor = 0 \/ ManualResume
<1>1. ASSUME IInv, [Next]_vars
      PROVE  [Lifted]_vars
  <2> SUFFICES ASSUME isRateLimited, ~isRateLimited', ~ManualResume
               PROVE  pausedFor = 0
    OBVIOUS
  <2>1. ASSUME Look
        PROVE  pausedFor = 0
    <3>1. CASE ~Paused
      BY <1>1, <3>1 DEF Paused, IInv, TypeOK
    <3>2. CASE UNCHANGED supervisor
      <4>1. isRateLimited' = isRateLimited
        BY <3>2 DEF supervisor
      <4> QED
        BY <4>1, Zenon
    <3> QED
      BY <2>1, <3>1, <3>2 DEF Look
  <2>2. ASSUME NEW t \in timeouts, TimerFires(t)
        PROVE  pausedFor = 0
    BY <1>1, <2>2, FiringEndsThePause DEF TimerFires
  <2> QED
    BY <1>1, <2>1, <2>2 DEF Next, vars, GetStatus, ManualPause, RecordRateLimit,
      Tick, StartCall, CallEnds, CallFails, CallRefused, CallThrows, supervisor
<1> QED
  BY <1>1, Inductive, PTL DEF Spec, NotLiftedEarly

\* Only StartCall lets a caller fetch, and it does so when the pause it looked
\* at is over and its timeout gone.
LEMMA FetchesOnlyByStartCall ==
  ASSUME TypeOK, [Next]_vars, NEW c \in Callers, call[c] = "idle", call'[c] = "fetching"
  PROVE  StartCall(c) /\ ~Paused
<1>1. ASSUME NEW d \in Callers, StartCall(d)
      PROVE  d = c /\ ~Paused
  BY <1>1 DEF TypeOK, StartCall
<1>2. ASSUME NEW d \in Callers, CallEnds(d) \/ CallRefused(d) \/ CallFails(d) \/ CallThrows(d)
      PROVE  FALSE
  BY <1>2 DEF TypeOK, CallEnds, CallRefused, CallFails, CallThrows
<1>3. ASSUME UNCHANGED call
      PROVE  FALSE
  BY <1>3
<1> QED
  BY <1>1, <1>2, <1>3 DEF Next, vars, GetStatus, ManualPause, ManualResume, TimerFires, Tick

\* No request leaves while a pause runs (getStatus before every chat and
\* complete), nor while a timeout that could lift a later pause is pending.
THEOREM SendsNothingInPause == Spec => NoCallInPause
<1> DEFINE Sends == \A c \in Callers : call[c] = "idle" /\ call'[c] = "fetching"
                      => pausedFor = 0 /\ timeouts' = {}
<1>1. ASSUME IInv, [Next]_vars
      PROVE  [Sends]_vars
  <2> SUFFICES ASSUME NEW c \in Callers, call[c] = "idle", call'[c] = "fetching"
               PROVE  pausedFor = 0 /\ timeouts' = {}
    OBVIOUS
  <2>1. StartCall(c) /\ ~Paused
    BY <1>1, FetchesOnlyByStartCall DEF IInv
  <2>2. Resolve(timeouts)
    BY <2>1 DEF StartCall, Look
  <2>3. CASE isRateLimited
    BY <1>1, <2>1, <2>2, <2>3 DEF Resolve, Cleared, IInv, TypeOK, PauseHasItsTimer, Paused
  <2>4. CASE ~isRateLimited
    BY <1>1, <2>2, <2>4 DEF Resolve, IInv, TypeOK, PauseHasItsTimer
  <2> QED
    BY <2>3, <2>4
<1> QED
  BY <1>1, Inductive, PTL DEF Spec, NoCallInPause

(***************************************************************************)
(* The stage of the virtual office.                                        *)
(***************************************************************************)

StageTables ==
  /\ s1 \in [Staff -> Office!Point] /\ s2 \in [Staff -> Office!Point] /\ s3 \in [Staff -> Office!Point]
  /\ s4 \in [Staff -> BOOLEAN] /\ s5 \in [Furniture -> Office!Point] /\ s6 \in [Staff -> Nat]
  /\ s7 \in BOOLEAN /\ s11 \in BOOLEAN /\ s12 \in BOOLEAN
  /\ s8 \in Office!Pieces \cup {None} /\ s9 \in Office!Pieces \cup {None}
  /\ \E stored \in SUBSET Office!Pieces : s10 \in [stored -> Office!Point]
  /\ s13 \in 0 .. MaxTrips /\ s14 \in 0 .. MaxEdits
  /\ \A a \in Staff : s6[a] <= s13

StageInv == StageTables /\ Office!LayoutSurvivesReload /\ Office!NobodyStaysAway

\* The first and the last point of the stage.
LEMMA CornersArePoints ==
  /\ [k \in Office!Axes |-> 0] \in Office!Point /\ [k \in Office!Axes |-> Side] \in Office!Point
  BY StageAssumption DEF Office!Point

\* What is loaded, shown and stored is a layout of all pieces.
LEMMA LoadedIsLayout ==
  ASSUME NEW stored \in SUBSET Office!Pieces, NEW l \in [stored -> Office!Point]
  PROVE  Office!Loaded(l) \in [Office!Pieces -> Office!Point]
  <1>1. \A p \in Office!Pieces : Office!Default[p] \in Office!Point
    BY CornersArePoints DEF Office!Default
  <1>2. \A p \in Office!Pieces : (IF p \in DOMAIN l THEN l[p] ELSE Office!Default[p]) \in Office!Point
    BY <1>1
  <1> QED
    BY <1>2 DEF Office!Loaded

\* What is shown is a layout of all pieces,
LEMMA ShownIsLayout ==
  ASSUME s1 \in [Staff -> Office!Point], s5 \in [Furniture -> Office!Point]
  PROVE  Office!Shown \in [Office!Pieces -> Office!Point]
  <1>1. \A p \in Office!Pieces : (IF p \in Staff THEN s1[p] ELSE s5[p]) \in Office!Point
    BY DEF Office!Pieces
  <1> QED
    BY <1>1 DEF Office!Shown

\* and a layout of all pieces is loaded as it is.
LEMMA LayoutLoads ==
  ASSUME NEW l \in [Office!Pieces -> Office!Point]
  PROVE  Office!Loaded(l) = l
  <1>1. DOMAIN l = Office!Pieces
    OBVIOUS
  <1>2. Office!Loaded(l) = [p \in Office!Pieces |-> l[p]]
    BY <1>1 DEF Office!Loaded
  <1> QED
    BY <1>2

\* The page opens with what is stored.
LEMMA StageOpens ==
  ASSUME NEW stored \in SUBSET Office!Pieces, NEW l \in [stored -> Office!Point],
         NEW home, NEW place,
         home = [a \in Staff |-> Office!Loaded(l)[a]],
         place = [f \in Furniture |-> Office!Loaded(l)[f]]
  PROVE  /\ home \in [Staff -> Office!Point] /\ place \in [Furniture -> Office!Point]
         /\ [p \in Office!Pieces |-> IF p \in Staff THEN home[p] ELSE place[p]] = Office!Loaded(l)
  <1>1. PICK shown : shown = Office!Loaded(l)
    OBVIOUS
  <1>2. shown \in [Office!Pieces -> Office!Point]
    BY <1>1, LoadedIsLayout
  <1>3. Staff \subseteq Office!Pieces /\ Furniture \subseteq Office!Pieces
    BY DEF Office!Pieces
  <1>4. /\ home = [a \in Staff |-> shown[a]] /\ place = [f \in Furniture |-> shown[f]]
    BY <1>1
  <1>5. home \in [Staff -> Office!Point] /\ place \in [Furniture -> Office!Point]
    BY <1>2, <1>3, <1>4
  <1>6. \A p \in Office!Pieces : (IF p \in Staff THEN home[p] ELSE place[p]) = shown[p]
    BY <1>4 DEF Office!Pieces
  <1>7. [p \in Office!Pieces |-> IF p \in Staff THEN home[p] ELSE place[p]] = shown
    BY <1>2, <1>6
  <1> QED
    BY <1>1, <1>5, <1>7

\* At first everybody is at home, in the default layout or an old one.
LEMMA StageStarts == Office!OfficeInit => StageInv
  <1> SUFFICES ASSUME Office!OfficeInit PROVE StageInv
    OBVIOUS
  <1>1. \E stored \in SUBSET Office!Pieces : s10 \in [stored -> Office!Point]
    <2>1. CASE s10 = Office!NothingStored
      <3>1. s10 \in [{} -> Office!Point]
        BY <2>1 DEF Office!NothingStored
      <3> QED
        BY <3>1
    <2>2. CASE s10 = Office!OldLayout
      <3>1. s10 \in [Furniture -> Office!Point]
        BY <2>2, CornersArePoints DEF Office!OldLayout
      <3>2. Furniture \in SUBSET Office!Pieces
        BY DEF Office!Pieces
      <3> QED
        BY <3>1, <3>2
    <2> QED
      BY <2>1, <2>2 DEF Office!OfficeInit
  <1>2. PICK stored \in SUBSET Office!Pieces : s10 \in [stored -> Office!Point]
    BY <1>1
  <1>3. /\ s1 = [a \in Staff |-> Office!Loaded(s10)[a]] /\ s2 = s1 /\ s3 = s1
        /\ s5 = [f \in Furniture |-> Office!Loaded(s10)[f]]
        /\ s4 = [a \in Staff |-> FALSE] /\ s6 = [a \in Staff |-> 0]
        /\ s7 = FALSE /\ s8 = None /\ s9 = None
        /\ s11 = FALSE /\ s12 = FALSE /\ s13 = 0 /\ s14 = 0
    BY DEF Office!OfficeInit
  <1>4. /\ s1 \in [Staff -> Office!Point] /\ s5 \in [Furniture -> Office!Point]
        /\ [p \in Office!Pieces |-> IF p \in Staff THEN s1[p] ELSE s5[p]] = Office!Loaded(s10)
    BY <1>2, <1>3, StageOpens
  <1>5. StageTables
    <2>1. s2 \in [Staff -> Office!Point] /\ s3 \in [Staff -> Office!Point]
      BY <1>3, <1>4
    <2>2. s4 \in [Staff -> BOOLEAN] /\ s6 \in [Staff -> Nat] /\ \A a \in Staff : s6[a] <= s13
      BY <1>3
    <2>3. s13 \in 0 .. MaxTrips /\ s14 \in 0 .. MaxEdits
      BY <1>3, StageAssumption
    <2>4. s7 \in BOOLEAN /\ s11 \in BOOLEAN /\ s12 \in BOOLEAN
      BY <1>3
    <2>5. s8 \in Office!Pieces \cup {None} /\ s9 \in Office!Pieces \cup {None}
      BY <1>3
    <2> QED
      BY <1>1, <1>4, <2>1, <2>2, <2>3, <2>4, <2>5 DEF StageTables
  <1>6. Office!LayoutSurvivesReload
    BY <1>4 DEF Office!LayoutSurvivesReload, Office!Shown
  <1>7. Office!NobodyStaysAway
    BY <1>3 DEF Office!NobodyStaysAway
  <1> QED
    BY <1>5, <1>6, <1>7 DEF StageInv

\* A reload shows what is stored,
LEMMA StageReloaded ==
  ASSUME StageInv, Office!Reload
  PROVE  StageInv'
  <1>1. PICK stored \in SUBSET Office!Pieces : s10 \in [stored -> Office!Point]
    BY DEF StageInv, StageTables
  <1>2. /\ s1' = [a \in Staff |-> Office!Loaded(s10)[a]] /\ s2' = s1' /\ s3' = s1'
        /\ s5' = [f \in Furniture |-> Office!Loaded(s10)[f]]
        /\ s4' = [a \in Staff |-> FALSE] /\ s6' = [a \in Staff |-> 0]
        /\ s7' = FALSE /\ s8' = None /\ s9' = None
        /\ s11' = FALSE /\ s12' = FALSE /\ s13' = s13 /\ s10' = s10
        /\ s14 < MaxEdits /\ s14' = s14 + 1
    BY DEF Office!Reload, Office!Opened
  <1>3. PICK home : home = s1'
    OBVIOUS
  <1>4. PICK place : place = s5'
    OBVIOUS
  <1>5. /\ home \in [Staff -> Office!Point] /\ place \in [Furniture -> Office!Point]
        /\ [p \in Office!Pieces |-> IF p \in Staff THEN home[p] ELSE place[p]] = Office!Loaded(s10)
    BY <1>1, <1>2, <1>3, <1>4, StageOpens
  <1>6. s13 \in Nat /\ s13 \in 0 .. MaxTrips /\ s14' \in 0 .. MaxEdits
    BY <1>2, StageAssumption DEF StageInv, StageTables
  <1>7. StageTables'
    <2>1. s1' \in [Staff -> Office!Point] /\ s2' \in [Staff -> Office!Point] /\ s3' \in [Staff -> Office!Point]
      BY <1>2, <1>3, <1>5
    <2>2. s4' \in [Staff -> BOOLEAN] /\ s6' \in [Staff -> Nat] /\ \A a \in Staff : s6'[a] <= s13'
      BY <1>2, <1>6
    <2>3. s13' \in 0 .. MaxTrips /\ s14' \in 0 .. MaxEdits
      BY <1>2, <1>6
    <2>4. s7' \in BOOLEAN /\ s11' \in BOOLEAN /\ s12' \in BOOLEAN
      BY <1>2
    <2>5. s8' \in Office!Pieces \cup {None} /\ s9' \in Office!Pieces \cup {None}
      BY <1>2
    <2>6. \E old \in SUBSET Office!Pieces : s10' \in [old -> Office!Point]
      BY <1>1, <1>2
    <2> QED
      BY <1>4, <1>5, <2>1, <2>2, <2>3, <2>4, <2>5, <2>6 DEF StageTables
  <1>8. Office!LayoutSurvivesReload'
    BY <1>2, <1>3, <1>4, <1>5 DEF Office!LayoutSurvivesReload, Office!Shown
  <1>9. Office!NobodyStaysAway'
    BY <1>2 DEF Office!NobodyStaysAway
  <1> QED
    BY <1>7, <1>8, <1>9 DEF StageInv

\* a trip sets a timer that ends it,
LEMMA TripTaken ==
  ASSUME StageInv, NEW a \in Staff, NEW destination \in Office!Point,
         Office!TriggerAgentMovement(a, destination)
  PROVE  StageInv'
  <1>1. /\ s13 < MaxTrips /\ s13' = s13 + 1
        /\ s3' = [s3 EXCEPT ![a] = destination] /\ s6' = [s6 EXCEPT ![a] = s6[a] + 1]
        /\ UNCHANGED <<s1, s2, s4, s5, s7, s8, s9, s10, s11, s12, s14>>
    BY DEF Office!TriggerAgentMovement, Office!TimersAfter, Office!stage
  <1>2. StageTables
    BY DEF StageInv
  <1>3. s13 \in Nat /\ s13' \in 0 .. MaxTrips
    BY <1>1, <1>2, StageAssumption DEF StageTables
  <1>4. s3' \in [Staff -> Office!Point] /\ s6' \in [Staff -> Nat]
    BY <1>1, <1>2 DEF StageTables
  <1>5. \A b \in Staff : s6'[b] <= s13'
    BY <1>1, <1>2, <1>3 DEF StageTables
  <1>6. StageTables'
    BY <1>1, <1>2, <1>3, <1>4, <1>5 DEF StageTables
  <1>7. Office!LayoutSurvivesReload'
    BY <1>1 DEF StageInv, Office!LayoutSurvivesReload, Office!Shown
  <1>8. Office!NobodyStaysAway'
    <2> SUFFICES ASSUME NEW b \in Staff, s3'[b] # s1[b] PROVE s6'[b] > 0
      BY <1>1 DEF Office!NobodyStaysAway
    <2>1. CASE b = a
      BY <1>1, <1>2, <2>1 DEF StageTables
    <2>2. CASE b # a
      BY <1>1, <1>2, <2>2 DEF StageInv, StageTables, Office!NobodyStaysAway
    <2> QED
      BY <2>1, <2>2
  <1> QED
    BY <1>6, <1>7, <1>8 DEF StageInv

\* and the timer turns the agent round.
LEMMA TimerReturned ==
  ASSUME StageInv, NEW a \in Staff, Office!ReturnTimer(a)
  PROVE  StageInv'
  <1>1. /\ s6[a] > 0
        /\ s3' = [s3 EXCEPT ![a] = s1[a]] /\ s6' = [s6 EXCEPT ![a] = s6[a] - 1]
        /\ UNCHANGED <<s1, s2, s4, s5, s7, s8, s9, s10, s11, s12, s13, s14>>
    BY DEF Office!ReturnTimer, Office!stage
  <1>2. StageTables
    BY DEF StageInv
  <1>3. s13 \in Nat
    BY <1>2, StageAssumption DEF StageTables
  <1>4. s3' \in [Staff -> Office!Point] /\ s6' \in [Staff -> Nat]
    BY <1>1, <1>2 DEF StageTables
  <1>5. \A b \in Staff : s6'[b] <= s13
    BY <1>1, <1>2, <1>3 DEF StageTables
  <1>6. StageTables'
    BY <1>1, <1>2, <1>4, <1>5 DEF StageTables
  <1>7. Office!LayoutSurvivesReload'
    BY <1>1 DEF StageInv, Office!LayoutSurvivesReload, Office!Shown
  <1>8. Office!NobodyStaysAway'
    <2> SUFFICES ASSUME NEW b \in Staff, s3'[b] # s1[b] PROVE s6'[b] > 0
      BY <1>1 DEF Office!NobodyStaysAway
    <2>1. b # a
      BY <1>1, <1>2 DEF StageTables
    <2> QED
      BY <1>1, <1>2, <2>1 DEF StageInv, StageTables, Office!NobodyStaysAway
  <1> QED
    BY <1>6, <1>7, <1>8 DEF StageInv

\* Every trip leads to a point of the stage.
LEMMA TripsKeep ==
  ASSUME StageInv, Office!TripNext
  PROVE  StageInv'
  <1>1. s1 \in [Staff -> Office!Point] /\ \A f \in Furniture : s5[f] \in Office!Point
    BY DEF StageInv, StageTables
  <1>2. PICK a \in Staff :
          \/ Office!CycleRandomAgentThought(a)
          \/ \E f \in Furniture : Office!DispatchAgentTo(a, f) \/ Office!HandleFurnitureClick(a, f)
          \/ \E b \in Staff : Office!HandleEventTrip(a, b)
          \/ Office!ReturnTimer(a)
    BY DEF Office!TripNext
  <1>3. CASE Office!CycleRandomAgentThought(a)
    BY <1>1, <1>3, TripTaken, StageAssumption
       DEF Office!CycleRandomAgentThought, Office!StandingSpot
  <1>4. CASE \E f \in Furniture : Office!DispatchAgentTo(a, f) \/ Office!HandleFurnitureClick(a, f)
    BY <1>1, <1>4, TripTaken
       DEF Office!DispatchAgentTo, Office!HandleFurnitureClick, Office!StandingSpot
  <1>5. CASE \E b \in Staff : Office!HandleEventTrip(a, b)
    <2>1. PICK b \in Staff : Office!HandleEventTrip(a, b)
      BY <1>5
    <2>2. PICK half : half = [k \in Office!Axes |-> (s1[a][k] + s1[b][k]) \div 2]
      OBVIOUS
    <2>3. s1[a] \in Office!Point /\ s1[b] \in Office!Point
      BY <1>1
    <2>4. \A k \in Office!Axes : s1[a][k] \in 0 .. Side /\ s1[b][k] \in 0 .. Side
      BY <2>3 DEF Office!Point
    <2>5. \A k \in Office!Axes : (s1[a][k] + s1[b][k]) \div 2 \in 0 .. Side
      BY <2>4, StageAssumption
    <2>6. half \in Office!Point
      BY <2>2, <2>5 DEF Office!Point
    <2> QED
      BY <2>1, <2>2, <2>6, TripTaken DEF Office!HandleEventTrip
  <1> QED
    BY <1>2, <1>3, <1>4, <1>5, TimerReturned

\* An agent takes a step towards where it heads.
LEMMA StepStaysOnStage ==
  ASSUME NEW from \in Office!Point, NEW to \in Office!Point
  PROVE  Office!Towards(from, to) \in Office!Point
  <1>1. \A k \in Office!Axes : from[k] \in 0 .. Side /\ to[k] \in 0 .. Side
    BY DEF Office!Point
  <1>2. \A k \in Office!Axes :
          from[k] + (IF from[k] < to[k] THEN 1 ELSE IF from[k] > to[k] THEN -1 ELSE 0) \in 0 .. Side
    BY <1>1, StageAssumption
  <1> QED
    BY <1>2 DEF Office!Towards, Office!Point

\* A frame moves agents, and neither homes nor targets.
LEMMA FrameKeeps ==
  ASSUME StageInv, Office!UpdateAgentMovement
  PROVE  StageInv'
  <1>1. /\ s2' = [a \in Staff |-> Office!Towards(s2[a], s3[a])]
        /\ s4' = [a \in Staff |-> s2[a] # s3[a]]
        /\ UNCHANGED <<s1, s3, s5, s6, s7, s8, s9, s10, s11, s12, s13, s14>>
    BY DEF Office!UpdateAgentMovement, Office!stage
  <1>2. \A a \in Staff : Office!Towards(s2[a], s3[a]) \in Office!Point
    BY StepStaysOnStage DEF StageInv, StageTables
  <1>3. s2' \in [Staff -> Office!Point] /\ s4' \in [Staff -> BOOLEAN]
    BY <1>1, <1>2
  <1>4. StageTables'
    BY <1>1, <1>3 DEF StageInv, StageTables
  <1>5. Office!LayoutSurvivesReload'
    BY <1>1 DEF StageInv, Office!LayoutSurvivesReload, Office!Shown
  <1>6. Office!NobodyStaysAway'
    BY <1>1 DEF StageInv, Office!NobodyStaysAway
  <1> QED
    BY <1>4, <1>5, <1>6 DEF StageInv

\* Entering edit mode, taking a piece and selecting one move nothing.
LEMMA PickingKeeps ==
  ASSUME StageInv,
         \/ Office!ToggleEditMode
         \/ \E p \in Office!Pieces : Office!StartDrag(p)
         \/ \E p \in Office!Pieces \cup {None} : Office!SelectEdit(p)
  PROVE  StageInv'
  <1>1. /\ s14 < MaxEdits /\ s14' = s14 + 1
        /\ UNCHANGED <<s1, s2, s3, s4, s5, s6, s10, s12, s13>>
    BY DEF Office!ToggleEditMode, Office!StartDrag, Office!SelectEdit, Office!Edit, Office!travel
  <1>2. StageTables
    BY DEF StageInv
  <1>3. s14' \in 0 .. MaxEdits
    BY <1>1, <1>2, StageAssumption DEF StageTables
  <1>4. /\ s7' \in BOOLEAN /\ s11' \in BOOLEAN
        /\ s8' \in Office!Pieces \cup {None} /\ s9' \in Office!Pieces \cup {None}
    <2>1. CASE Office!ToggleEditMode
      BY <1>2, <2>1 DEF Office!ToggleEditMode, StageTables
    <2>2. CASE \E p \in Office!Pieces : Office!StartDrag(p)
      BY <1>2, <2>2 DEF Office!StartDrag, StageTables
    <2>3. CASE \E p \in Office!Pieces \cup {None} : Office!SelectEdit(p)
      BY <1>2, <2>3 DEF Office!SelectEdit, StageTables
    <2> QED
      BY <2>1, <2>2, <2>3
  <1>5. StageTables'
    BY <1>1, <1>2, <1>3, <1>4 DEF StageTables
  <1>6. s8' = None /\ ~s11' => s8 = None /\ ~s11
    <2>1. CASE Office!ToggleEditMode
      BY <1>2, <2>1 DEF Office!ToggleEditMode, StageTables
    <2>2. CASE \E p \in Office!Pieces : Office!StartDrag(p)
      BY <2>2, StageAssumption DEF Office!StartDrag, Office!Pieces
    <2>3. CASE \E p \in Office!Pieces \cup {None} : Office!SelectEdit(p)
      BY <2>3 DEF Office!SelectEdit
    <2> QED
      BY <2>1, <2>2, <2>3
  <1>7. Office!LayoutSurvivesReload'
    BY <1>1, <1>6 DEF StageInv, Office!LayoutSurvivesReload, Office!Shown
  <1>8. Office!NobodyStaysAway'
    BY <1>1 DEF StageInv, Office!NobodyStaysAway
  <1> QED
    BY <1>5, <1>7, <1>8 DEF StageInv

\* What is stored is what is shown afterwards, or the refusal is known.
LEMMA StoredIsShown ==
  ASSUME NEW shown \in [Office!Pieces -> Office!Point], Office!PersistLayout(shown),
         shown = Office!Shown', StageTables
  PROVE  /\ s11' \in BOOLEAN /\ s12' \in BOOLEAN
         /\ \E stored \in SUBSET Office!Pieces : s10' \in [stored -> Office!Point]
         /\ Office!LayoutSurvivesReload'
  <1>1. PICK ok \in BOOLEAN : /\ s10' = IF ok THEN shown ELSE s10
                              /\ s12' = ~ok /\ s11' = (s11 /\ ~ok)
    BY DEF Office!PersistLayout
  <1>2. s11' \in BOOLEAN /\ s12' \in BOOLEAN
    BY <1>1 DEF StageTables
  <1>3. \E stored \in SUBSET Office!Pieces : s10' \in [stored -> Office!Point]
    BY <1>1 DEF StageTables
  <1>4. CASE ok
    <2>1. s10' = shown
      BY <1>1, <1>4
    <2>2. Office!Loaded(s10') = shown
      BY <2>1, LayoutLoads
    <2> QED
      BY <1>2, <1>3, <2>2 DEF Office!LayoutSurvivesReload
  <1>5. CASE ~ok
    BY <1>1, <1>2, <1>3, <1>5 DEF Office!LayoutSurvivesReload
  <1> QED
    BY <1>4, <1>5

\* The end of a drag and the save button store what is shown.
LEMMA SavingKeeps ==
  ASSUME StageInv, Office!EndDrag \/ Office!SaveClicked
  PROVE  StageInv'
  <1>1. /\ UNCHANGED <<s1, s2, s3, s4, s5, s6, s7, s9, s13>>
        /\ s8' \in {s8, None} /\ s14' \in {s14, s14 + 1} /\ (s14' = s14 + 1 => s14 < MaxEdits \/ s14' = s14)
        /\ Office!PersistLayout(Office!Shown)
    BY DEF Office!EndDrag, Office!SaveClicked, Office!Dropped, Office!Edit, Office!travel
  <1>2. StageTables
    BY DEF StageInv
  <1>3. PICK shown : shown = Office!Shown
    OBVIOUS
  <1>4. shown \in [Office!Pieces -> Office!Point] /\ shown = Office!Shown'
    BY <1>1, <1>2, <1>3, ShownIsLayout DEF StageTables, Office!Shown
  <1>5. /\ s11' \in BOOLEAN /\ s12' \in BOOLEAN
        /\ \E stored \in SUBSET Office!Pieces : s10' \in [stored -> Office!Point]
        /\ Office!LayoutSurvivesReload'
    BY <1>1, <1>2, <1>3, <1>4, StoredIsShown
  <1>6. s14' \in 0 .. MaxEdits
    BY <1>1, <1>2, StageAssumption DEF StageTables
  <1>7. StageTables'
    BY <1>1, <1>2, <1>5, <1>6 DEF StageTables
  <1>8. Office!NobodyStaysAway'
    BY <1>1 DEF StageInv, Office!NobodyStaysAway
  <1> QED
    BY <1>5, <1>7, <1>8 DEF StageInv

\* The stage after a reset is the one nothing stored stands for.
LEMMA ResetKeeps ==
  ASSUME StageInv, Office!ResetLayout
  PROVE  StageInv'
  <1>1. /\ s14 < MaxEdits /\ s14' = s14 + 1
        /\ s1' = [a \in Staff |-> Office!Default[a]] /\ s2' = s1' /\ s3' = s1'
        /\ s5' = [f \in Furniture |-> Office!Default[f]] /\ s9' = None
        /\ UNCHANGED <<s4, s6, s7, s8, s13>>
    BY DEF Office!ResetLayout, Office!Edit, Office!travel
  <1>2. PICK ok \in BOOLEAN : /\ s10' = IF ok THEN Office!NothingStored ELSE s10
                              /\ s12' = ~ok /\ s11' = (s11 /\ ~ok)
    BY DEF Office!ResetLayout
  <1>3. StageTables
    BY DEF StageInv
  <1>4. \A p \in Office!Pieces : Office!Default[p] \in Office!Point
    BY CornersArePoints DEF Office!Default
  <1>5. Staff \subseteq Office!Pieces /\ Furniture \subseteq Office!Pieces
    BY DEF Office!Pieces
  <1>6. /\ s1' \in [Staff -> Office!Point] /\ s2' \in [Staff -> Office!Point]
        /\ s3' \in [Staff -> Office!Point] /\ s5' \in [Furniture -> Office!Point]
    BY <1>1, <1>4, <1>5
  <1>7. s14' \in 0 .. MaxEdits
    BY <1>1, <1>3, StageAssumption DEF StageTables
  <1>8. Office!NothingStored \in [{} -> Office!Point]
    BY DEF Office!NothingStored
  <1>9. \E stored \in SUBSET Office!Pieces : s10' \in [stored -> Office!Point]
    BY <1>2, <1>3, <1>8 DEF StageTables
  <1>10. s11' \in BOOLEAN /\ s12' \in BOOLEAN
    BY <1>2, <1>3 DEF StageTables
  <1>11. StageTables'
    BY <1>1, <1>3, <1>6, <1>7, <1>9, <1>10 DEF StageTables
  <1>12. Office!NobodyStaysAway'
    BY <1>1 DEF Office!NobodyStaysAway
  <1>13. Office!LayoutSurvivesReload'
    <2>1. CASE ok
      <3>1. s10' = Office!NothingStored
        BY <1>2, <2>1
      <3>2. DOMAIN Office!NothingStored = {}
        BY DEF Office!NothingStored
      <3>3. Office!Loaded(s10') = [p \in Office!Pieces |-> Office!Default[p]]
        BY <3>1, <3>2 DEF Office!Loaded
      <3>4. \A p \in Office!Pieces : (IF p \in Staff THEN s1'[p] ELSE s5'[p]) = Office!Default[p]
        BY <1>1 DEF Office!Pieces
      <3>5. Office!Shown' = [p \in Office!Pieces |-> Office!Default[p]]
        BY <3>4 DEF Office!Shown
      <3> QED
        BY <3>3, <3>5 DEF Office!LayoutSurvivesReload
    <2>2. CASE ~ok
      BY <1>2, <2>2 DEF Office!LayoutSurvivesReload
    <2> QED
      BY <2>1, <2>2
  <1> QED
    BY <1>11, <1>12, <1>13 DEF StageInv

\* A dragged agent takes its target and where it stands with it.
LEMMA DragKeeps ==
  ASSUME StageInv, NEW point \in Office!Point, Office!OnDrag(point)
  PROVE  StageInv'
  <1>1. /\ s14 < MaxEdits /\ s14' = s14 + 1 /\ s8 # None
        /\ UNCHANGED <<s4, s6, s7, s8, s9, s10, s11, s12, s13>>
    BY DEF Office!OnDrag, Office!Edit, Office!travel
  <1>2. StageTables
    BY DEF StageInv
  <1>3. /\ s1' \in [Staff -> Office!Point] /\ s2' \in [Staff -> Office!Point]
        /\ s3' \in [Staff -> Office!Point] /\ s5' \in [Furniture -> Office!Point]
    <2>1. CASE s8 \in Staff
      BY <1>2, <2>1 DEF Office!OnDrag, StageTables
    <2>2. CASE s8 \notin Staff
      BY <1>2, <2>2 DEF Office!OnDrag, StageTables
    <2> QED
      BY <2>1, <2>2
  <1>4. s14' \in 0 .. MaxEdits
    BY <1>1, <1>2, StageAssumption DEF StageTables
  <1>5. StageTables'
    BY <1>1, <1>2, <1>3, <1>4 DEF StageTables
  <1>6. Office!LayoutSurvivesReload'
    BY <1>1 DEF Office!LayoutSurvivesReload
  <1>7. Office!NobodyStaysAway'
    <2> SUFFICES ASSUME NEW b \in Staff, s3'[b] # s1'[b] PROVE s6[b] > 0
      BY <1>1 DEF Office!NobodyStaysAway
    <2>1. s3[b] # s1[b]
      BY <1>2 DEF Office!OnDrag, StageTables
    <2> QED
      BY <2>1 DEF StageInv, Office!NobodyStaysAway
  <1> QED
    BY <1>5, <1>6, <1>7 DEF StageInv

\* A point with one coordinate set to one of the stage is a point.
LEMMA NudgedIsPoint ==
  ASSUME NEW S, NEW table \in [S -> Office!Point], NEW p \in S, NEW k \in Office!Axes,
         NEW n \in 0 .. Side
  PROVE  [table EXCEPT ![p][k] = n] \in [S -> Office!Point]
  <1>1. table[p] \in Office!Point
    OBVIOUS
  <1>2. [table[p] EXCEPT ![k] = n] \in Office!Point
    BY <1>1 DEF Office!Point
  <1> QED
    BY <1>2

\* A nudge moves the selected piece, an agent with all it has, and stores the layout.
LEMMA NudgeKeeps ==
  ASSUME StageInv, NEW k \in Office!Axes, NEW delta \in {-1, 1}, Office!AdjustSelected(k, delta)
  PROVE  StageInv'
  <1>1. StageTables
    BY DEF StageInv
  <1>2. PICK p \in Office!Pieces : p = s9
    BY <1>1 DEF Office!AdjustSelected, StageTables
  <1>3. PICK shown : shown = Office!Shown
    OBVIOUS
  <1>4. shown \in [Office!Pieces -> Office!Point]
    BY <1>1, <1>3, ShownIsLayout DEF StageTables
  <1>5. PICK n : n = Office!Clamped(shown[p][k] + delta)
    OBVIOUS
  <1>6. n \in 0 .. Side
    <2>1. shown[p] \in Office!Point
      BY <1>4
    <2>2. shown[p][k] \in 0 .. Side
      BY <2>1 DEF Office!Point
    <2> QED
      BY <1>5, <2>2, StageAssumption DEF Office!Clamped
  <1>7. /\ s14 < MaxEdits /\ s14' = s14 + 1
        /\ UNCHANGED <<s4, s6, s7, s8, s9, s13>>
        /\ s1' = (IF p \in Staff THEN [s1 EXCEPT ![p][k] = n] ELSE s1)
        /\ s2' = (IF p \in Staff THEN [s2 EXCEPT ![p][k] = n] ELSE s2)
        /\ s3' = (IF p \in Staff THEN [s3 EXCEPT ![p][k] = n] ELSE s3)
        /\ s5' = (IF p \in Furniture THEN [s5 EXCEPT ![p][k] = n] ELSE s5)
    BY <1>2, <1>3, <1>5 DEF Office!AdjustSelected, Office!Moved, Office!Edit, Office!travel
  <1>8. Office!PersistLayout([shown EXCEPT ![p][k] = Office!Clamped(@ + delta)])
    BY <1>2, <1>3 DEF Office!AdjustSelected
  <1>9. PICK nudged : nudged = [shown EXCEPT ![p][k] = n]
    OBVIOUS
  <1>10. nudged = [shown EXCEPT ![p][k] = Office!Clamped(@ + delta)]
    BY <1>4, <1>5, <1>9
  <1>11. nudged \in [Office!Pieces -> Office!Point]
    BY <1>4, <1>6, <1>9, NudgedIsPoint
  <1>12. /\ s1' \in [Staff -> Office!Point] /\ s2' \in [Staff -> Office!Point]
         /\ s3' \in [Staff -> Office!Point] /\ s5' \in [Furniture -> Office!Point]
    <2>1. p \in Staff => /\ [s1 EXCEPT ![p][k] = n] \in [Staff -> Office!Point]
                         /\ [s2 EXCEPT ![p][k] = n] \in [Staff -> Office!Point]
                         /\ [s3 EXCEPT ![p][k] = n] \in [Staff -> Office!Point]
      BY <1>1, <1>6, NudgedIsPoint DEF StageTables
    <2>2. p \in Furniture => [s5 EXCEPT ![p][k] = n] \in [Furniture -> Office!Point]
      BY <1>1, <1>6, NudgedIsPoint DEF StageTables
    <2> QED
      BY <1>1, <1>7, <2>1, <2>2 DEF StageTables
  <1>13. nudged = Office!Shown'
    <2>1. \A q \in Office!Pieces : nudged[q] = IF q \in Staff THEN s1'[q] ELSE s5'[q]
      <3> SUFFICES ASSUME NEW q \in Office!Pieces
                   PROVE  nudged[q] = IF q \in Staff THEN s1'[q] ELSE s5'[q]
        OBVIOUS
      <3>1. shown[q] = IF q \in Staff THEN s1[q] ELSE s5[q]
        BY <1>3 DEF Office!Shown
      <3>2. CASE q # p
        <4>1. nudged[q] = shown[q]
          BY <1>4, <1>9, <3>2
        <4>2. s1'[q] = s1[q] \/ q \notin Staff
          BY <1>1, <1>7, <3>2 DEF StageTables
        <4>3. s5'[q] = s5[q] \/ q \notin Furniture
          BY <1>1, <1>7, <3>2 DEF StageTables
        <4> QED
          BY <3>1, <4>1, <4>2, <4>3 DEF Office!Pieces
      <3>3. CASE q = p
        <4>1. nudged[p] = [shown[p] EXCEPT ![k] = n]
          BY <1>4, <1>9
        <4>2. p \in Staff => s1'[p] = [s1[p] EXCEPT ![k] = n]
          BY <1>1, <1>7 DEF StageTables
        <4>3. p \in Furniture => s5'[p] = [s5[p] EXCEPT ![k] = n]
          BY <1>1, <1>7 DEF StageTables
        <4> QED
          BY <3>1, <3>3, <4>1, <4>2, <4>3 DEF Office!Pieces
      <3> QED
        BY <3>2, <3>3
    <2> QED
      BY <1>11, <2>1 DEF Office!Shown
  <1>14. /\ s11' \in BOOLEAN /\ s12' \in BOOLEAN
         /\ \E stored \in SUBSET Office!Pieces : s10' \in [stored -> Office!Point]
         /\ Office!LayoutSurvivesReload'
    <2>1. Office!PersistLayout(nudged)
      BY <1>8, <1>10
    <2> QED
      BY <1>1, <1>11, <1>13, <2>1, StoredIsShown
  <1>15. s14' \in 0 .. MaxEdits
    BY <1>1, <1>7, StageAssumption DEF StageTables
  <1>16. StageTables'
    BY <1>1, <1>7, <1>12, <1>14, <1>15 DEF StageTables
  <1>17. Office!NobodyStaysAway'
    <2> SUFFICES ASSUME NEW b \in Staff, s3'[b] # s1'[b] PROVE s6[b] > 0
      BY <1>7 DEF Office!NobodyStaysAway
    <2>1. s3[b] # s1[b]
      <3>1. CASE b = p
        BY <1>1, <1>7, <3>1 DEF StageTables
      <3>2. CASE b # p
        BY <1>1, <1>7, <3>2 DEF StageTables
      <3> QED
        BY <3>1, <3>2
    <2> QED
      BY <2>1 DEF StageInv, Office!NobodyStaysAway
  <1> QED
    BY <1>14, <1>16, <1>17 DEF StageInv

\* The stage keeps its invariant,
LEMMA StageKeeps ==
  ASSUME StageInv, Office!OfficeNext
  PROVE  StageInv'
  BY TripsKeep, FrameKeeps, StageReloaded, PickingKeeps, SavingKeeps, ResetKeeps, DragKeeps, NudgeKeeps
     DEF Office!OfficeNext, Office!EditNext

\* which says what is claimed of it.
LEMMA StageShows ==
  ASSUME StageInv
  PROVE  Office!OfficeTypeOK /\ Office!LayoutSurvivesReload /\ Office!NobodyStaysAway
  <1>1. s6 \in [Staff -> 0 .. MaxTrips]
    <2>1. \A a \in Staff : s6[a] \in 0 .. MaxTrips
      BY StageAssumption DEF StageInv, StageTables
    <2> QED
      BY <2>1 DEF StageInv, StageTables
  <1>2. Office!OfficeTypeOK
    BY <1>1 DEF StageInv, StageTables, Office!OfficeTypeOK
  <1> QED
    BY <1>2 DEF StageInv

(***************************************************************************)
(* The pages that load, poll and listen.                                   *)
(***************************************************************************)

VisitRecord ==
  [page : Web!Pages \cup {None}, phase : {"new", "loading", "live", "closed"},
   timer : BOOLEAN, stream : BOOLEAN, auto : BOOLEAN, loading : BOOLEAN, hasty : BOOLEAN,
   inbox : Seq(Nat), feed : Seq(Nat), shown : [Parts -> Web!Empty .. MaxChanges]]

LoadRecord ==
  [visit : Visits, first : BOOLEAN,
   answer : [Parts -> {Web!Unread, Web!Failed} \cup 0 .. MaxChanges]]

WebTables ==
  /\ s1 \in [Parts -> 0 .. MaxChanges]
  /\ s2 \in [Visits -> VisitRecord] /\ s3 \in [Calls -> LoadRecord \cup {None}]
  /\ s4 \in 0 .. MaxFailures /\ s5 \in 0 .. MaxClicks

\* A page that is loading has set up nothing yet, and one that is closed keeps
\* nothing unless it was closed while it was loading.
VisitSound(w) ==
  /\ w.phase # "new" => w.page \in Web!Pages
  /\ w.phase = "new" => w = Web!NotOpen
  /\ w.phase = "loading" => ~w.timer /\ ~w.stream
  /\ w.phase = "closed" /\ (w.timer \/ w.stream) => w.hasty
  /\ Len(w.feed) <= FeedLimit

\* Whoever waits for a first load with the rest of onMount still loads, or left hastily.
LoadSound(r, w) ==
  /\ w.phase # "new"
  /\ r.first /\ Web!A(w.page, "await") => w.phase = "loading" \/ (w.phase = "closed" /\ w.hasty)

VisitsSound == \A v \in Visits : VisitSound(s2[v])
LoadsSound == \A c \in Calls : s3[c] # None => LoadSound(s3[c], s2[s3[c].visit])

\* There is one first load for a visit at most.
OneFirst ==
  \A c, d \in Calls :
    s3[c] # None /\ s3[d] # None /\ s3[c].first /\ s3[d].first /\ s3[c].visit = s3[d].visit => c = d

WebInv == WebTables /\ VisitsSound /\ LoadsSound /\ OneFirst

\* A load is no None.
LEMMA LoadsAreRows == None \notin LoadRecord
  BY PageAssumption DEF LoadRecord

\* A page that has not been opened is a visit, and a sound one.
LEMMA NotOpenIsSound == Web!NotOpen \in VisitRecord /\ VisitSound(Web!NotOpen)
  <1>1. [p \in Parts |-> Web!Empty] \in [Parts -> Web!Empty .. MaxChanges]
    BY PageAssumption DEF Web!Empty
  <1>2. << >> \in Seq(Nat) /\ Len(<< >>) = 0
    OBVIOUS
  <1>3. Web!NotOpen \in VisitRecord
    BY <1>1, <1>2 DEF Web!NotOpen, VisitRecord
  <1>4. /\ Web!NotOpen.phase = "new" /\ Web!NotOpen.feed = << >>
    BY DEF Web!NotOpen
  <1> QED
    BY <1>2, <1>3, <1>4, PageAssumption DEF VisitSound

\* What a script does or does not.
LEMMA ScriptsDecide == \A page, what : Web!A(page, what) \in BOOLEAN
  BY SMT DEF Web!A

\* A live page has what its script sets up.
LEMMA LiveIsVisit ==
  ASSUME NEW w \in VisitRecord, w.phase # "new", VisitSound(w)
  PROVE  /\ Web!Live(w) \in VisitRecord /\ VisitSound(Web!Live(w))
         /\ Web!Live(w).page = w.page /\ Web!Live(w).phase = "live"
  <1>1. PICK poll \in BOOLEAN : poll = Web!A(w.page, "poll")
    BY ScriptsDecide
  <1>2. PICK listen \in BOOLEAN : listen = Web!A(w.page, "stream")
    BY ScriptsDecide
  <1>3. Web!Live(w) = [w EXCEPT !.phase = "live", !.timer = poll, !.stream = listen]
    BY <1>1, <1>2 DEF Web!Live
  <1>4. PICK l : l = [w EXCEPT !.phase = "live", !.timer = poll, !.stream = listen]
    OBVIOUS
  <1>5. l \in VisitRecord /\ l.page = w.page /\ l.phase = "live" /\ l.feed = w.feed
    BY <1>4 DEF VisitRecord
  <1> QED
    BY <1>3, <1>4, <1>5 DEF VisitSound

\* A page that opens.
LEMMA OpenedIsVisit ==
  ASSUME NEW page \in Web!Pages
  PROVE  /\ Web!Opened(page) \in VisitRecord /\ VisitSound(Web!Opened(page))
         /\ Web!Opened(page).page = page /\ Web!Opened(page).phase # "new"
         /\ Web!A(page, "await") => Web!Opened(page).phase = "loading"
  <1>1. PICK new : new = Web!NotOpen
    OBVIOUS
  <1>2. /\ new \in VisitRecord /\ Len(new.feed) <= FeedLimit
        /\ new.timer = FALSE /\ new.stream = FALSE
    BY <1>1, NotOpenIsSound DEF VisitSound, Web!NotOpen
  <1>3. PICK w : w = [new EXCEPT !.page = page]
    OBVIOUS
  <1>4. w \in VisitRecord /\ w.page = page /\ w.feed = new.feed /\ ~w.timer /\ ~w.stream
    BY <1>2, <1>3 DEF VisitRecord
  <1>5. PICK l : l = [w EXCEPT !.phase = "loading"]
    OBVIOUS
  <1>6. /\ l \in VisitRecord /\ l.page = page /\ l.feed = new.feed /\ ~l.timer /\ ~l.stream
        /\ l.phase = "loading"
    BY <1>4, <1>5 DEF VisitRecord
  <1>7. VisitSound(l)
    BY <1>2, <1>6 DEF VisitSound
  <1>8. CASE Web!A(page, "await")
    <2>1. Web!Opened(page) = l
      BY <1>1, <1>3, <1>4, <1>5, <1>8 DEF Web!Opened
    <2> QED
      BY <1>6, <1>7, <2>1
  <1>9. CASE ~Web!A(page, "await")
    <2>1. Web!Opened(page) = Web!Live(w)
      BY <1>1, <1>3, <1>4, <1>9 DEF Web!Opened
    <2>2. Web!Live(w) = Web!Live(l)
      BY <1>4, <1>5, <1>6 DEF Web!Live, VisitRecord
    <2>3. /\ Web!Live(l) \in VisitRecord /\ VisitSound(Web!Live(l))
          /\ Web!Live(l).page = page /\ Web!Live(l).phase = "live"
      BY <1>6, <1>7, LiveIsVisit
    <2> QED
      BY <1>9, <2>1, <2>2, <2>3
  <1> QED
    BY <1>8, <1>9

\* A page that is left.
LEMMA ClosedIsVisit ==
  ASSUME NEW w \in VisitRecord, VisitSound(w), w.phase \in {"loading", "live"}
  PROVE  /\ Web!Closed(w) \in VisitRecord /\ VisitSound(Web!Closed(w))
         /\ Web!Closed(w).page = w.page /\ Web!Closed(w).phase = "closed"
         /\ w.phase = "loading" => Web!Closed(w).hasty
  <1>1. PICK hasty \in BOOLEAN : hasty = (w.phase = "loading")
    OBVIOUS
  <1>2. << >> \in Seq(Nat)
    OBVIOUS
  <1>3. PICK l : l = [w EXCEPT !.phase = "closed", !.timer = FALSE, !.stream = FALSE,
                               !.inbox = << >>, !.hasty = hasty]
    OBVIOUS
  <1>4. /\ l.page = w.page /\ l.phase = "closed" /\ l.hasty = hasty /\ l.feed = w.feed
        /\ ~l.timer /\ ~l.stream
    BY <1>3 DEF VisitRecord
  <1>5. l \in VisitRecord
    BY <1>2, <1>3 DEF VisitRecord
  <1>6. Web!Closed(w) = l
    BY <1>1, <1>3 DEF Web!Closed
  <1>7. VisitSound(l)
    BY <1>4 DEF VisitSound
  <1> QED
    BY <1>1, <1>4, <1>5, <1>6, <1>7

\* A page that goes on with onMount, also when it has been left.
LEMMA MountedIsVisit ==
  ASSUME NEW w \in VisitRecord, VisitSound(w), w.phase # "new", w.phase = "closed" => w.hasty
  PROVE  /\ Web!Mounted(w) \in VisitRecord /\ VisitSound(Web!Mounted(w))
         /\ Web!Mounted(w).page = w.page
         /\ Web!Mounted(w).phase # "new"
  <1>1. PICK l : l = Web!Live(w)
    OBVIOUS
  <1>2. l \in VisitRecord /\ VisitSound(l) /\ l.page = w.page /\ l.phase = "live" /\ l.hasty = w.hasty
    BY <1>1, LiveIsVisit DEF Web!Live, VisitRecord
  <1>3. CASE w.phase = "closed"
    <2>1. PICK m : m = [l EXCEPT !.phase = "closed"]
      OBVIOUS
    <2>2. m \in VisitRecord /\ m.page = w.page /\ m.phase = "closed" /\ m.hasty = w.hasty /\ m.feed = l.feed
      BY <1>2, <2>1 DEF VisitRecord
    <2>3. VisitSound(m)
      BY <1>2, <1>3, <2>2 DEF VisitSound
    <2>4. Web!Mounted(w) = m
      BY <1>1, <1>3, <2>1 DEF Web!Mounted
    <2> QED
      BY <2>2, <2>3, <2>4
  <1>4. CASE w.phase # "closed"
    BY <1>1, <1>2, <1>4 DEF Web!Mounted
  <1> QED
    BY <1>3, <1>4

\* The list of what was heard never outgrows the limit.
LEMMA PrependedIsShort ==
  ASSUME NEW feed \in Seq(Nat), NEW e \in Nat, Len(feed) <= FeedLimit
  PROVE  Web!Prepended(feed, e) \in Seq(Nat) /\ Len(Web!Prepended(feed, e)) <= FeedLimit
  <1>1. FeedLimit \in Nat
    BY PageAssumption
  <1>2. PICK long : long = <<e>> \o feed
    OBVIOUS
  <1>3. long \in Seq(Nat) /\ Len(long) = Len(feed) + 1
    BY <1>2
  <1>4. PICK n \in Nat : n = IF Len(feed) < FeedLimit THEN Len(feed) + 1 ELSE FeedLimit
    BY <1>1
  <1>5. n <= Len(long) /\ n <= FeedLimit
    BY <1>1, <1>3, <1>4
  <1>6. SubSeq(long, 1, n) \in Seq(Nat) /\ Len(SubSeq(long, 1, n)) = n
    BY <1>3, <1>5
  <1> QED
    BY <1>2, <1>4, <1>5, <1>6 DEF Web!Prepended

\* A page that listens takes the oldest event.
LEMMA HeardIsVisit ==
  ASSUME NEW w \in VisitRecord, VisitSound(w), w.inbox # << >>, w.phase # "new"
  PROVE  /\ Web!Heard(w) \in VisitRecord /\ VisitSound(Web!Heard(w))
         /\ Web!Heard(w).page = w.page /\ Web!Heard(w).phase = w.phase /\ Web!Heard(w).hasty = w.hasty
  <1>1. w.inbox \in Seq(Nat) /\ w.feed \in Seq(Nat) /\ Len(w.feed) <= FeedLimit
    BY DEF VisitRecord, VisitSound
  <1>2. PICK rest : rest = Tail(w.inbox)
    OBVIOUS
  <1>3. rest \in Seq(Nat) /\ Head(w.inbox) \in Nat
    BY <1>1, <1>2
  <1>4. PICK feed : feed = IF w.page = "trace" /\ ~w.auto THEN w.feed
                           ELSE Web!Prepended(w.feed, Head(w.inbox))
    OBVIOUS
  <1>5. feed \in Seq(Nat) /\ Len(feed) <= FeedLimit
    BY <1>1, <1>3, <1>4, PrependedIsShort
  <1>6. PICK h : h = [w EXCEPT !.inbox = rest, !.feed = feed]
    OBVIOUS
  <1>7. h \in VisitRecord
    BY <1>3, <1>5, <1>6 DEF VisitRecord
  <1>8. /\ h.page = w.page /\ h.phase = w.phase /\ h.hasty = w.hasty
        /\ h.timer = w.timer /\ h.stream = w.stream /\ h.feed = feed
    BY <1>6 DEF VisitRecord
  <1>9. VisitSound(h)
    BY <1>5, <1>8 DEF VisitSound
  <1>10. Web!Heard(w) = h
    BY <1>2, <1>4, <1>6 DEF Web!Heard, VisitRecord
  <1> QED
    BY <1>7, <1>8, <1>9, <1>10

\* A page that has sent a load.
LEMMA LoadingIsVisit ==
  ASSUME NEW w \in VisitRecord, VisitSound(w), w.phase # "new", NEW loading \in BOOLEAN
  PROVE  \E l \in VisitRecord :
           /\ l = [w EXCEPT !.loading = loading] /\ VisitSound(l)
           /\ l.page = w.page /\ l.phase = w.phase /\ l.hasty = w.hasty
           /\ l.timer = w.timer /\ l.stream = w.stream
  <1>1. PICK l : l = [w EXCEPT !.loading = loading]
    OBVIOUS
  <1>2. l \in VisitRecord
    BY <1>1 DEF VisitRecord
  <1>3. /\ l.page = w.page /\ l.phase = w.phase /\ l.hasty = w.hasty
        /\ l.timer = w.timer /\ l.stream = w.stream /\ l.feed = w.feed
    BY <1>1 DEF VisitRecord
  <1>4. VisitSound(l)
    BY <1>3 DEF VisitSound
  <1> QED
    BY <1>1, <1>2, <1>3, <1>4

\* No page is open at first.
LEMMA PagesStart == Web!WebInit => WebInv
  <1> SUFFICES ASSUME Web!WebInit PROVE WebInv
    OBVIOUS
  <1>1. /\ s1 = [p \in Parts |-> 0] /\ s2 = [v \in Visits |-> Web!NotOpen]
        /\ s3 = [c \in Calls |-> None] /\ s4 = 0 /\ s5 = 0
    BY DEF Web!WebInit
  <1>2. WebTables
    BY <1>1, NotOpenIsSound, PageAssumption DEF WebTables
  <1>3. VisitsSound
    BY <1>1, NotOpenIsSound DEF VisitsSound
  <1>4. LoadsSound /\ OneFirst
    BY <1>1 DEF LoadsSound, OneFirst
  <1> QED
    BY <1>2, <1>3, <1>4 DEF WebInv

\* A page changes within its phase; loads go on, come back, or are sent for it.
LEMMA LifeKept ==
  ASSUME WebInv, NEW v \in Visits, NEW w \in VisitRecord, VisitSound(w),
         s2' = [s2 EXCEPT ![v] = w], w.phase # "new",
         w.page = s2[v].page, w.phase = s2[v].phase, w.hasty = s2[v].hasty,
         s3' \in [Calls -> LoadRecord \cup {None}],
         \A c \in Calls : \/ s3'[c] = s3[c] \/ s3'[c] = None
                          \/ s3'[c].visit = v /\ ~s3'[c].first,
         s1' = s1, s4' = s4, s5' \in 0 .. MaxClicks
  PROVE  WebInv'
  <1>1. WebTables
    BY DEF WebInv, VisitsSound, LoadsSound, OneFirst
  <1>2. WebTables'
    BY <1>1 DEF WebTables
  <1>3. s2' \in [Visits -> VisitRecord] /\ s2'[v] = w /\ \A u \in Visits : u # v => s2'[u] = s2[u]
    BY <1>1 DEF WebTables
  <1>4. \A u \in Visits : VisitSound(s2[u])
    BY DEF WebInv, VisitsSound, LoadsSound, OneFirst
  <1>5. \A u \in Visits : VisitSound(s2'[u])
    BY <1>3, <1>4
  <1>6. ASSUME NEW c \in Calls, s3'[c] # None
        PROVE  LoadSound(s3'[c], s2'[s3'[c].visit])
    <2>1. CASE s3'[c] = s3[c]
      <3>1. s3[c] \in LoadRecord /\ LoadSound(s3[c], s2[s3[c].visit])
        BY <1>1, <1>6, <2>1 DEF WebInv, VisitsSound, LoadsSound, WebTables
      <3>2. s3[c].visit \in Visits
        BY <3>1 DEF LoadRecord
      <3> QED
        BY <1>3, <2>1, <3>1, <3>2 DEF LoadSound
    <2>2. CASE s3'[c].visit = v /\ ~s3'[c].first
      BY <1>3, <2>2 DEF LoadSound
    <2> QED
      BY <1>6, <2>1, <2>2
  <1>7. ASSUME NEW c \in Calls, NEW d \in Calls, s3'[c] # None, s3'[d] # None,
               s3'[c].first, s3'[d].first, s3'[c].visit = s3'[d].visit
        PROVE  c = d
    <2>1. s3'[c] = s3[c] /\ s3'[d] = s3[d]
      BY <1>7
    <2> QED
      BY <1>7, <2>1 DEF WebInv, VisitsSound, LoadsSound, OneFirst
  <1>8. VisitsSound'
    BY <1>5 DEF VisitsSound
  <1>9. LoadsSound'
    BY <1>6 DEF LoadsSound
  <1>10. OneFirst'
    BY <1>7 DEF OneFirst
  <1> QED
    BY <1>2, <1>8, <1>9, <1>10 DEF WebInv

\* A load that is sent.
LEMMA LoadIsSent ==
  ASSUME WebTables, NEW v \in Visits, NEW w \in VisitRecord, NEW first \in BOOLEAN,
         Web!Load(v, w, first)
  PROVE  \E c \in Calls, r \in LoadRecord :
           /\ s3[c] = None /\ s3' = [s3 EXCEPT ![c] = r]
           /\ r.visit = v /\ r.first = first
           /\ s3' \in [Calls -> LoadRecord \cup {None}]
           /\ s2' = [s2 EXCEPT ![v] = [w EXCEPT !.loading = TRUE]]
  <1>1. PICK c \in Calls : s3[c] = None /\ c = CHOOSE d \in Calls : s3[d] = None
    BY DEF Web!Load
  <1>2. PICK answer : answer = [p \in Parts |-> Web!Unread]
    OBVIOUS
  <1>3. answer \in [Parts -> {Web!Unread, Web!Failed} \cup 0 .. MaxChanges]
    BY <1>2
  <1>4. PICK r : r = [visit |-> v, first |-> first, answer |-> answer]
    OBVIOUS
  <1>5. r \in LoadRecord /\ r.visit = v /\ r.first = first
    BY <1>3, <1>4 DEF LoadRecord
  <1>6. s3' = [s3 EXCEPT ![c] = r] /\ s2' = [s2 EXCEPT ![v] = [w EXCEPT !.loading = TRUE]]
    BY <1>1, <1>2, <1>4 DEF Web!Load
  <1>7. s3' \in [Calls -> LoadRecord \cup {None}]
    BY <1>5, <1>6 DEF WebTables
  <1> QED
    BY <1>1, <1>5, <1>6, <1>7

\* A load that is not the first, for a page in the phase it is in.
LEMMA LoadKeeps ==
  ASSUME WebInv, NEW v \in Visits, NEW w \in VisitRecord, VisitSound(w), w.phase # "new",
         w.page = s2[v].page, w.phase = s2[v].phase, w.hasty = s2[v].hasty,
         Web!Load(v, w, FALSE), s1' = s1, s4' = s4, s5' \in 0 .. MaxClicks
  PROVE  WebInv'
  <1>1. WebTables
    BY DEF WebInv, VisitsSound, LoadsSound, OneFirst
  <1>2. PICK c \in Calls, r \in LoadRecord :
          /\ s3[c] = None /\ s3' = [s3 EXCEPT ![c] = r]
          /\ r.visit = v /\ r.first = FALSE
          /\ s3' \in [Calls -> LoadRecord \cup {None}]
          /\ s2' = [s2 EXCEPT ![v] = [w EXCEPT !.loading = TRUE]]
    BY <1>1, LoadIsSent
  <1>3. PICK l \in VisitRecord :
          /\ l = [w EXCEPT !.loading = TRUE] /\ VisitSound(l)
          /\ l.page = w.page /\ l.phase = w.phase /\ l.hasty = w.hasty
    BY LoadingIsVisit
  <1>4. s2' = [s2 EXCEPT ![v] = l]
    BY <1>2, <1>3
  <1>5. \A d \in Calls : \/ s3'[d] = s3[d] \/ s3'[d] = None
                         \/ s3'[d].visit = v /\ ~s3'[d].first
    BY <1>1, <1>2 DEF WebTables
  <1> QED
    BY <1>2, <1>3, <1>4, <1>5, LifeKept

\* A page opens once, with its first load if it has one.
LEMMA OpenKeeps ==
  ASSUME WebInv, NEW v \in Visits, NEW page \in Web!Pages, Web!Open(v, page)
  PROVE  WebInv'
  <1>1. WebTables /\ s2[v].phase = "new"
    BY DEF WebInv, Web!Open
  <1>2. PICK w \in VisitRecord :
          /\ w = Web!Opened(page) /\ VisitSound(w) /\ w.page = page /\ w.phase # "new"
          /\ Web!A(page, "await") => w.phase = "loading"
    BY OpenedIsVisit
  <1>3. PICK l \in VisitRecord :
          /\ l = [w EXCEPT !.loading = TRUE] /\ VisitSound(l)
          /\ l.page = w.page /\ l.phase = w.phase
    BY <1>2, LoadingIsVisit
  <1>4. \A c \in Calls : s3[c] # None => s3[c] \in LoadRecord /\ s3[c].visit \in Visits /\ s3[c].visit # v
    BY <1>1 DEF WebInv, VisitsSound, LoadsSound, WebTables, LoadRecord, LoadSound
  <1>5. s1' = s1 /\ s4' = s4 /\ s5' = s5
    BY DEF Web!Open
  <1>6. PICK o \in VisitRecord :
          /\ s2' = [s2 EXCEPT ![v] = o] /\ VisitSound(o) /\ o.phase # "new" /\ o.page = page
          /\ Web!A(page, "await") => o.phase = "loading"
          /\ s3' \in [Calls -> LoadRecord \cup {None}]
          /\ \/ s3' = s3
             \/ \E c \in Calls, r \in LoadRecord : s3' = [s3 EXCEPT ![c] = r] /\ r.visit = v
    <2>1. CASE Web!A(page, "load")
      <3>1. Web!Load(v, w, TRUE)
        BY <1>2, <2>1 DEF Web!Open
      <3>2. PICK c \in Calls, r \in LoadRecord :
              /\ s3[c] = None /\ s3' = [s3 EXCEPT ![c] = r]
              /\ r.visit = v /\ r.first = TRUE
              /\ s3' \in [Calls -> LoadRecord \cup {None}]
              /\ s2' = [s2 EXCEPT ![v] = [w EXCEPT !.loading = TRUE]]
        BY <1>1, <3>1, LoadIsSent
      <3>3. s2' = [s2 EXCEPT ![v] = l]
        BY <1>3, <3>2
      <3>4. /\ VisitSound(l) /\ l.phase # "new" /\ l.page = page
            /\ Web!A(page, "await") => l.phase = "loading"
        BY <1>2, <1>3
      <3> QED
        BY <3>2, <3>3, <3>4
    <2>2. CASE ~Web!A(page, "load")
      <3>1. s2' = [s2 EXCEPT ![v] = w] /\ s3' = s3
        BY <1>2, <2>2 DEF Web!Open
      <3> QED
        BY <1>1, <1>2, <3>1 DEF WebTables
    <2> QED
      BY <2>1, <2>2
  <1>7. s2' \in [Visits -> VisitRecord] /\ s2'[v] = o /\ \A u \in Visits : u # v => s2'[u] = s2[u]
    BY <1>1, <1>6 DEF WebTables
  <1>8. WebTables'
    BY <1>1, <1>5, <1>6, <1>7 DEF WebTables
  <1>9. \A u \in Visits : VisitSound(s2'[u])
    BY <1>6, <1>7 DEF WebInv, VisitsSound, LoadsSound, OneFirst
  <1>10. \A c \in Calls : s3'[c] # None => s3'[c] = s3[c] \/ s3'[c].visit = v
    BY <1>1, <1>6 DEF WebTables
  <1>11. \A c, d \in Calls :
           s3'[c] # None /\ s3'[d] # None /\ s3'[c].visit = v /\ s3'[d].visit = v => c = d
    <2>1. CASE s3' = s3
      BY <1>4, <2>1
    <2>2. ASSUME NEW b \in Calls, NEW r \in LoadRecord, s3' = [s3 EXCEPT ![b] = r], r.visit = v
          PROVE  \A c \in Calls : s3'[c] # None /\ s3'[c].visit = v => c = b
      BY <1>1, <1>4, <2>2 DEF WebTables
    <2> QED
      BY <1>6, <2>1, <2>2
  <1>12. ASSUME NEW c \in Calls, s3'[c] # None
         PROVE  LoadSound(s3'[c], s2'[s3'[c].visit])
    <2>1. CASE s3'[c].visit = v
      BY <1>6, <1>7, <2>1 DEF LoadSound
    <2>2. CASE s3'[c].visit # v
      <3>1. s3'[c] = s3[c] /\ s3[c] # None /\ s3[c].visit \in Visits /\ s3[c].visit # v
        BY <1>4, <1>10, <1>12, <2>2
      <3>2. s2'[s3'[c].visit] = s2[s3[c].visit]
        BY <1>7, <3>1
      <3> QED
        BY <3>1, <3>2 DEF WebInv, VisitsSound, LoadsSound, OneFirst
    <2> QED
      BY <2>1, <2>2
  <1>13. ASSUME NEW c \in Calls, NEW d \in Calls, s3'[c] # None, s3'[d] # None,
                s3'[c].first, s3'[d].first, s3'[c].visit = s3'[d].visit
         PROVE  c = d
    <2>1. CASE s3'[c].visit = v
      BY <1>11, <1>13, <2>1
    <2>2. CASE s3'[c].visit # v
      <3>1. s3'[c] = s3[c] /\ s3'[d] = s3[d]
        BY <1>10, <1>13, <2>2
      <3> QED
        BY <1>13, <3>1 DEF WebInv, VisitsSound, LoadsSound, OneFirst
    <2> QED
      BY <2>1, <2>2
  <1>14. VisitsSound'
    BY <1>9 DEF VisitsSound
  <1>15. LoadsSound'
    BY <1>12 DEF LoadsSound
  <1>16. OneFirst'
    BY <1>13 DEF OneFirst
  <1> QED
    BY <1>8, <1>14, <1>15, <1>16 DEF WebInv

\* A page is left while it loads, and then hastily, or later.
LEMMA CloseKeeps ==
  ASSUME WebInv, NEW v \in Visits, Web!Close(v)
  PROVE  WebInv'
  <1>1. WebTables /\ s2[v].phase \in {"loading", "live"} /\ s2[v] \in VisitRecord /\ VisitSound(s2[v])
    BY DEF WebInv, VisitsSound, LoadsSound, WebTables, Web!Close
  <1>2. PICK w \in VisitRecord :
          /\ w = Web!Closed(s2[v]) /\ VisitSound(w) /\ w.page = s2[v].page /\ w.phase = "closed"
          /\ s2[v].phase = "loading" => w.hasty
    BY <1>1, ClosedIsVisit
  <1>3. s2' = [s2 EXCEPT ![v] = w] /\ UNCHANGED <<s1, s3, s4, s5>>
    BY <1>2 DEF Web!Close
  <1>4. s2' \in [Visits -> VisitRecord] /\ s2'[v] = w /\ \A u \in Visits : u # v => s2'[u] = s2[u]
    BY <1>1, <1>3 DEF WebTables
  <1>5. WebTables'
    BY <1>1, <1>3, <1>4 DEF WebTables
  <1>6. \A u \in Visits : VisitSound(s2'[u])
    BY <1>2, <1>4 DEF WebInv, VisitsSound, LoadsSound, OneFirst
  <1>7. ASSUME NEW c \in Calls, s3[c] # None
        PROVE  LoadSound(s3[c], s2'[s3[c].visit])
    <2>1. s3[c] \in LoadRecord /\ LoadSound(s3[c], s2[s3[c].visit])
      BY <1>1, <1>7 DEF WebInv, VisitsSound, LoadsSound, WebTables
    <2>2. s3[c].visit \in Visits
      BY <2>1 DEF LoadRecord
    <2>3. CASE s3[c].visit = v
      BY <1>1, <1>2, <1>4, <2>1, <2>3 DEF LoadSound
    <2>4. CASE s3[c].visit # v
      BY <1>4, <2>1, <2>2, <2>4
    <2> QED
      BY <2>3, <2>4
  <1>8. VisitsSound'
    BY <1>6 DEF VisitsSound
  <1>9. LoadsSound'
    BY <1>3, <1>7 DEF LoadsSound
  <1>10. OneFirst'
    BY <1>3 DEF WebInv, OneFirst
  <1> QED
    BY <1>5, <1>8, <1>9, <1>10 DEF WebInv

\* Answers come in one by one.
LEMMA AnswerKeeps ==
  ASSUME WebInv, NEW c \in Calls, NEW p \in Parts, Web!Answer(c, p)
  PROVE  WebInv'
  <1>1. WebTables /\ s3[c] # None /\ s3[c] \in LoadRecord
    BY DEF WebInv, VisitsSound, LoadsSound, WebTables, Web!Answer
  <1>2. PICK a \in {Web!Failed} \cup 0 .. MaxChanges : s3' = [s3 EXCEPT ![c].answer[p] = a]
    BY <1>1 DEF WebTables, Web!Answer
  <1>3. s4' \in 0 .. MaxFailures /\ UNCHANGED <<s1, s2, s5>>
    BY <1>1, PageAssumption DEF WebTables, Web!Answer
  <1>4. PICK answer : answer = [s3[c].answer EXCEPT ![p] = a]
    OBVIOUS
  <1>5. answer \in [Parts -> {Web!Unread, Web!Failed} \cup 0 .. MaxChanges]
    BY <1>1, <1>2, <1>4 DEF LoadRecord
  <1>6. PICK r : r = [s3[c] EXCEPT !.answer = answer]
    OBVIOUS
  <1>7. r \in LoadRecord /\ r.visit = s3[c].visit /\ r.first = s3[c].first
    BY <1>1, <1>5, <1>6 DEF LoadRecord
  <1>8. s3' = [s3 EXCEPT ![c] = r]
    BY <1>2, <1>4, <1>6
  <1>9. \A d \in Calls : s3'[d] # None => /\ s3[d] # None
                                          /\ s3'[d].visit = s3[d].visit /\ s3'[d].first = s3[d].first
    BY <1>1, <1>7, <1>8 DEF WebTables
  <1>10. WebTables'
    BY <1>1, <1>3, <1>7, <1>8 DEF WebTables
  <1>11. VisitsSound'
    BY <1>3 DEF WebInv, VisitsSound
  <1>12. LoadsSound'
    BY <1>3, <1>9 DEF WebInv, LoadsSound, LoadSound
  <1>13. OneFirst'
    BY <1>9 DEF WebInv, OneFirst
  <1> QED
    BY <1>10, <1>11, <1>12, <1>13 DEF WebInv

\* A load is over: what it brought is shown, and onMount goes on after the first.
LEMMA ArriveKeeps ==
  ASSUME WebInv, NEW c \in Calls, Web!Arrive(c)
  PROVE  WebInv'
  <1>1. WebTables /\ s3[c] # None /\ s3[c] \in LoadRecord
    BY DEF WebInv, VisitsSound, LoadsSound, WebTables, Web!Arrive
  <1>2. PICK v \in Visits : v = s3[c].visit
    BY <1>1 DEF LoadRecord
  <1>3. s2[v] \in VisitRecord /\ VisitSound(s2[v]) /\ LoadSound(s3[c], s2[v])
    BY <1>1, <1>2 DEF WebInv, VisitsSound, LoadsSound, WebTables
  <1>4. PICK shown : shown = Web!ShownAfter(s2[v], s3[c].answer)
    OBVIOUS
  <1>5. shown \in [Parts -> Web!Empty .. MaxChanges]
    <2>1. \A p \in Parts : /\ s3[c].answer[p] \in {Web!Unread, Web!Failed} \cup 0 .. MaxChanges
                           /\ s3[c].answer[p] # Web!Unread
                           /\ s2[v].shown[p] \in Web!Empty .. MaxChanges
      BY <1>1, <1>3 DEF LoadRecord, VisitRecord, Web!Arrive
    <2>2. \A p \in Parts : (IF s3[c].answer[p] # Web!Failed THEN s3[c].answer[p]
                            ELSE IF Web!A(s2[v].page, "keep") THEN s2[v].shown[p] ELSE Web!Empty)
                           \in Web!Empty .. MaxChanges
      BY <2>1, PageAssumption DEF Web!Empty
    <2> QED
      BY <1>4, <2>2 DEF Web!ShownAfter
  <1>6. PICK w : w = [s2[v] EXCEPT !.shown = shown, !.loading = FALSE]
    OBVIOUS
  <1>7. w \in VisitRecord
    BY <1>3, <1>5, <1>6 DEF VisitRecord
  <1>8. /\ w.page = s2[v].page /\ w.phase = s2[v].phase /\ w.hasty = s2[v].hasty
        /\ w.timer = s2[v].timer /\ w.stream = s2[v].stream /\ w.feed = s2[v].feed
    BY <1>3, <1>6 DEF VisitRecord
  <1>9. w.phase # "new" /\ VisitSound(w)
    BY <1>3, <1>8 DEF VisitSound, LoadSound
  <1>10. PICK after : after = IF s3[c].first /\ Web!A(w.page, "await") THEN Web!Mounted(w) ELSE w
    OBVIOUS
  <1>11. /\ s2' = [s2 EXCEPT ![v] = after] /\ s3' = [s3 EXCEPT ![c] = None]
         /\ UNCHANGED <<s1, s4, s5>>
    BY <1>2, <1>4, <1>6, <1>10 DEF Web!Arrive
  <1>12. s3' \in [Calls -> LoadRecord \cup {None}]
    BY <1>1, <1>11 DEF WebTables
  <1>13. CASE s3[c].first /\ Web!A(w.page, "await")
    <2>1. w.phase = "closed" => w.hasty
      BY <1>3, <1>8, <1>13 DEF LoadSound
    <2>2. /\ after \in VisitRecord /\ VisitSound(after) /\ after.page = w.page /\ after.phase # "new"
      BY <1>7, <1>9, <1>10, <1>13, <2>1, MountedIsVisit
    <2>3. s2' \in [Visits -> VisitRecord] /\ s2'[v] = after /\ \A u \in Visits : u # v => s2'[u] = s2[u]
      BY <1>1, <1>11, <2>2 DEF WebTables
    <2>4. WebTables'
      BY <1>1, <1>11, <1>12, <2>3 DEF WebTables
    <2>5. \A u \in Visits : VisitSound(s2'[u])
      BY <2>2, <2>3 DEF WebInv, VisitsSound, LoadsSound, OneFirst
    <2>6. \A d \in Calls : s3'[d] # None => /\ d # c /\ s3'[d] = s3[d] /\ s3[d].visit \in Visits
      BY <1>1, <1>11 DEF WebTables, LoadRecord
    <2>7. ASSUME NEW d \in Calls, s3'[d] # None
          PROVE  LoadSound(s3'[d], s2'[s3'[d].visit])
      <3>1. d # c /\ s3'[d] = s3[d] /\ s3[d] # None /\ s3[d].visit \in Visits
        BY <2>6, <2>7
      <3>2. CASE s3[d].visit = v
        <4>1. ~s3[d].first
          BY <1>1, <1>2, <1>13, <3>1, <3>2 DEF WebInv, VisitsSound, LoadsSound, OneFirst
        <4> QED
          BY <2>2, <2>3, <3>1, <3>2, <4>1 DEF LoadSound
      <3>3. CASE s3[d].visit # v
        <4>1. s2'[s3'[d].visit] = s2[s3[d].visit]
          BY <2>3, <3>1, <3>3
        <4> QED
          BY <3>1, <4>1 DEF WebInv, VisitsSound, LoadsSound, OneFirst
      <3> QED
        BY <3>2, <3>3
    <2>8. VisitsSound'
      BY <2>5 DEF VisitsSound
    <2>9. LoadsSound'
      BY <2>7 DEF LoadsSound
    <2>10. OneFirst'
      BY <2>6 DEF WebInv, OneFirst
    <2> QED
      BY <2>4, <2>8, <2>9, <2>10 DEF WebInv
  <1>14. CASE ~(s3[c].first /\ Web!A(w.page, "await"))
    <2>1. s2' = [s2 EXCEPT ![v] = w]
      BY <1>10, <1>11, <1>14
    <2>2. \A d \in Calls : s3'[d] = s3[d] \/ s3'[d] = None
      BY <1>1, <1>11 DEF WebTables
    <2>3. s5' \in 0 .. MaxClicks
      BY <1>1, <1>11 DEF WebTables
    <2> QED
      BY <1>7, <1>8, <1>9, <1>11, <1>12, <2>1, <2>2, <2>3, LifeKept
  <1> QED
    BY <1>13, <1>14

\* The timer and the refresh button load again.
LEMMA ReloadsKeep ==
  ASSUME WebInv, NEW v \in Visits, Web!Poll(v) \/ Web!Refresh(v)
  PROVE  WebInv'
  <1>1. WebTables /\ s2[v] \in VisitRecord /\ VisitSound(s2[v])
    BY DEF WebInv, VisitsSound, WebTables
  <1>2. s2[v].phase # "new"
    <2>1. CASE Web!Poll(v)
      <3>1. s2[v].timer
        BY <2>1 DEF Web!Poll, Web!PollsWhen
      <3>2. Web!NotOpen.timer = FALSE
        BY DEF Web!NotOpen
      <3> QED
        BY <1>1, <3>1, <3>2 DEF VisitSound
    <2>2. CASE Web!Refresh(v)
      BY <2>2 DEF Web!Refresh
    <2> QED
      BY <2>1, <2>2
  <1>3. Web!Load(v, s2[v], FALSE) /\ s1' = s1 /\ s4' = s4
    BY DEF Web!Poll, Web!Refresh
  <1>4. s5' \in 0 .. MaxClicks
    <2>1. s5 \in 0 .. MaxClicks /\ MaxClicks \in Nat
      BY <1>1, PageAssumption DEF WebTables
    <2>2. s5' = s5 \/ (s5 < MaxClicks /\ s5' = s5 + 1)
      BY DEF Web!Poll, Web!Refresh
    <2> QED
      BY <2>1, <2>2
  <1> QED
    BY <1>1, <1>2, <1>3, <1>4, LoadKeeps

\* The switch and the clear button change one thing of a live page.
LEMMA ClicksKeep ==
  ASSUME WebInv, NEW v \in Visits, Web!Toggle(v) \/ Web!ClearFeed(v)
  PROVE  WebInv'
  <1>1. /\ WebTables /\ s2[v] \in VisitRecord /\ VisitSound(s2[v]) /\ s2[v].phase = "live"
    BY DEF WebInv, VisitsSound, WebTables, Web!Toggle, Web!ClearFeed
  <1>2. /\ UNCHANGED <<s1, s3, s4>>
    BY DEF Web!Toggle, Web!ClearFeed
  <1>3. s5' \in 0 .. MaxClicks
    BY <1>1, PageAssumption DEF Web!Toggle, Web!ClearFeed, WebTables
  <1>4. PICK w \in VisitRecord :
          /\ s2' = [s2 EXCEPT ![v] = w] /\ VisitSound(w)
          /\ w.page = s2[v].page /\ w.phase = s2[v].phase /\ w.hasty = s2[v].hasty
    <2>1. CASE Web!Toggle(v)
      <3>1. PICK auto \in BOOLEAN : auto = ~s2[v].auto
        OBVIOUS
      <3>2. PICK w : w = [s2[v] EXCEPT !.auto = auto]
        OBVIOUS
      <3>3. s2' = [s2 EXCEPT ![v] = w]
        BY <1>1, <2>1, <3>1, <3>2 DEF Web!Toggle, WebTables
      <3>4. w \in VisitRecord
        BY <1>1, <3>2 DEF VisitRecord
      <3>5. /\ w.page = s2[v].page /\ w.phase = s2[v].phase /\ w.hasty = s2[v].hasty
            /\ w.feed = s2[v].feed
        BY <1>1, <3>2 DEF VisitRecord
      <3>6. VisitSound(w)
        BY <1>1, <3>5 DEF VisitSound
      <3> QED
        BY <3>3, <3>4, <3>5, <3>6
    <2>2. CASE Web!ClearFeed(v)
      <3> DEFINE feed == << >>
      <3>1. feed \in Seq(Nat) /\ Len(feed) = 0
        OBVIOUS
      <3>2. PICK w : w = [s2[v] EXCEPT !.feed = feed]
        OBVIOUS
      <3>3. s2' = [s2 EXCEPT ![v] = w]
        BY <1>1, <2>2, <3>1, <3>2 DEF Web!ClearFeed, WebTables
      <3>4. w \in VisitRecord
        BY <1>1, <3>1, <3>2 DEF VisitRecord
      <3>5. /\ w.page = s2[v].page /\ w.phase = s2[v].phase /\ w.hasty = s2[v].hasty
            /\ w.feed = feed
        BY <1>1, <3>2 DEF VisitRecord
      <3>6. VisitSound(w)
        BY <1>1, <3>1, <3>5, PageAssumption DEF VisitSound
      <3> QED
        BY <3>3, <3>4, <3>5, <3>6
    <2> QED
      BY <2>1, <2>2
  <1>5. \A c \in Calls : s3'[c] = s3[c]
    BY <1>2
  <1>6. s3' \in [Calls -> LoadRecord \cup {None}]
    BY <1>1, <1>2 DEF WebTables
  <1> QED
    BY <1>1, <1>2, <1>3, <1>4, <1>5, <1>6, LifeKept

\* An event is listed, and reloads the pages that load again on events.
LEMMA HearKeeps ==
  ASSUME WebInv, NEW v \in Visits, Web!Hear(v)
  PROVE  WebInv'
  <1>1. /\ WebTables /\ s2[v] \in VisitRecord /\ VisitSound(s2[v])
        /\ s2[v].stream /\ s2[v].inbox # << >>
    BY DEF WebInv, VisitsSound, WebTables, Web!Hear
  <1>2. s2[v].phase # "new"
    <2>1. Web!NotOpen.stream = FALSE
      BY DEF Web!NotOpen
    <2> QED
      BY <1>1, <2>1 DEF VisitSound
  <1>3. PICK w \in VisitRecord :
          /\ w = Web!Heard(s2[v]) /\ VisitSound(w)
          /\ w.page = s2[v].page /\ w.phase = s2[v].phase /\ w.hasty = s2[v].hasty
    BY <1>1, <1>2, HeardIsVisit
  <1>4. UNCHANGED <<s1, s4, s5>>
    BY DEF Web!Hear
  <1>5. s5' \in 0 .. MaxClicks
    BY <1>1, <1>4 DEF WebTables
  <1>6. CASE Web!A(s2[v].page, "reload")
    <2>1. Web!Load(v, w, FALSE)
      BY <1>3, <1>6 DEF Web!Hear
    <2> QED
      BY <1>2, <1>3, <1>4, <1>5, <2>1, LoadKeeps
  <1>7. CASE ~Web!A(s2[v].page, "reload")
    <2>1. s2' = [s2 EXCEPT ![v] = w] /\ s3' = s3
      BY <1>1, <1>3, <1>7 DEF Web!Hear, WebTables
    <2>2. s3' \in [Calls -> LoadRecord \cup {None}] /\ \A c \in Calls : s3'[c] = s3[c]
      BY <1>1, <2>1 DEF WebTables
    <2> QED
      BY <1>2, <1>3, <1>4, <1>5, <2>1, <2>2, LifeKept
  <1> QED
    BY <1>6, <1>7

\* The platform tells those who listen.
LEMMA ChangeKeeps ==
  ASSUME WebInv, NEW p \in Parts, Web!Change(p)
  PROVE  WebInv'
  <1>1. WebTables
    BY DEF WebInv
  <1>2. s1' \in [Parts -> 0 .. MaxChanges] /\ s1'[p] \in Nat /\ UNCHANGED <<s3, s4, s5>>
    BY <1>1, PageAssumption DEF WebTables, Web!Change
  <1>3. PICK heard \in SUBSET Visits :
          /\ heard \subseteq {v \in Visits : s2[v].stream}
          /\ s2' = [v \in Visits |-> IF v \in heard
                                     THEN [s2[v] EXCEPT !.inbox = Append(@, s1'[p])] ELSE s2[v]]
    BY DEF Web!Change
  <1>4. ASSUME NEW v \in Visits
        PROVE  /\ s2'[v] \in VisitRecord /\ VisitSound(s2'[v]) /\ s2'[v].page = s2[v].page
               /\ s2'[v].phase = s2[v].phase /\ s2'[v].hasty = s2[v].hasty
    <2>1. s2[v] \in VisitRecord /\ VisitSound(s2[v])
      BY <1>1 DEF WebInv, VisitsSound, WebTables
    <2>2. CASE v \in heard
      <3>1. PICK inbox : inbox = Append(s2[v].inbox, s1'[p])
        OBVIOUS
      <3>2. inbox \in Seq(Nat)
        BY <1>2, <2>1, <3>1 DEF VisitRecord
      <3>3. PICK w : w = [s2[v] EXCEPT !.inbox = inbox]
        OBVIOUS
      <3>4. w \in VisitRecord
        BY <2>1, <3>2, <3>3 DEF VisitRecord
      <3>5. /\ w.page = s2[v].page /\ w.phase = s2[v].phase /\ w.hasty = s2[v].hasty
            /\ w.timer = s2[v].timer /\ w.stream = s2[v].stream /\ w.feed = s2[v].feed
        BY <2>1, <3>3 DEF VisitRecord
      <3>6. s2'[v] = w
        BY <1>3, <2>2, <3>1, <3>3
      <3>7. s2[v].phase # "new"
        <4>1. s2[v].stream /\ Web!NotOpen.stream = FALSE
          BY <1>3, <2>2 DEF Web!NotOpen
        <4> QED
          BY <2>1, <4>1 DEF VisitSound
      <3>8. VisitSound(w)
        BY <2>1, <3>5, <3>7 DEF VisitSound
      <3> QED
        BY <3>4, <3>5, <3>6, <3>8
    <2>3. CASE v \notin heard
      BY <1>3, <2>1, <2>3
    <2> QED
      BY <2>2, <2>3
  <1>5. s2' \in [Visits -> VisitRecord]
    BY <1>3, <1>4
  <1>6. WebTables'
    BY <1>1, <1>2, <1>5 DEF WebTables
  <1>7. VisitsSound'
    BY <1>4 DEF VisitsSound
  <1>8. LoadsSound'
    <2> SUFFICES ASSUME NEW c \in Calls, s3[c] # None PROVE LoadSound(s3[c], s2'[s3[c].visit])
      BY <1>2 DEF LoadsSound
    <2>1. s3[c] \in LoadRecord /\ LoadSound(s3[c], s2[s3[c].visit])
      BY <1>1 DEF WebInv, LoadsSound, WebTables
    <2>2. s3[c].visit \in Visits
      BY <2>1 DEF LoadRecord
    <2> QED
      BY <1>4, <2>1, <2>2 DEF LoadSound
  <1>9. OneFirst'
    BY <1>2 DEF WebInv, OneFirst
  <1> QED
    BY <1>6, <1>7, <1>8, <1>9 DEF WebInv

\* The pages keep their invariant,
LEMMA PagesKeep ==
  ASSUME WebInv, Web!WebNext
  PROVE  WebInv'
  BY OpenKeeps, CloseKeeps, ReloadsKeep, ClicksKeep, HearKeeps, ArriveKeeps, AnswerKeeps, ChangeKeeps
     DEF Web!WebNext

\* which says what is claimed of them.
LEMMA PagesShow ==
  ASSUME WebInv
  PROVE  Web!WebTypeOK /\ Web!NothingOutlivesAPage
  <1>1. WebTables
    BY DEF WebInv
  <1>2. ASSUME NEW v \in Visits
        PROVE  /\ s2[v].page \in Web!Pages \cup {None}
               /\ s2[v].phase \in {"new", "loading", "live", "closed"}
               /\ {s2[v].timer, s2[v].stream, s2[v].auto, s2[v].loading, s2[v].hasty} \subseteq BOOLEAN
               /\ Len(s2[v].feed) <= FeedLimit
               /\ \A p \in Parts : s2[v].shown[p] \in Web!Empty .. MaxChanges
               /\ s2[v].phase = "closed" /\ (s2[v].timer \/ s2[v].stream) => s2[v].hasty
    <2>1. s2[v] \in VisitRecord /\ VisitSound(s2[v])
      BY <1>1 DEF WebInv, VisitsSound, WebTables
    <2>2. \A p \in Parts : s2[v].shown[p] \in Web!Empty .. MaxChanges
      BY <2>1 DEF VisitRecord
    <2>3. Len(s2[v].feed) <= FeedLimit /\ (s2[v].phase = "closed" /\ (s2[v].timer \/ s2[v].stream) => s2[v].hasty)
      BY <2>1 DEF VisitSound
    <2> QED
      BY <2>1, <2>2, <2>3 DEF VisitRecord
  <1>3. \A c \in Calls : s3[c] # None =>
          \A p \in Parts : s3[c].answer[p] \in {Web!Unread, Web!Failed} \cup 0 .. MaxChanges
    BY <1>1 DEF WebTables, LoadRecord
  <1>4. Web!WebTypeOK
    BY <1>1, <1>2, <1>3 DEF WebTables, Web!WebTypeOK
  <1> QED
    BY <1>2, <1>4 DEF Web!NothingOutlivesAPage

(***************************************************************************)
(* The forms of the console.                                               *)
(***************************************************************************)

ReloadRecord == [n : Nat, before : SUBSET Forms!Lists]

FormTables ==
  /\ s1 \in SUBSET Forms!Lists /\ s2 \in SUBSET Forms!Lists
  /\ s6 \in SUBSET Forms!Lists /\ s8 \in SUBSET Forms!Lists
  /\ s3 \in BOOLEAN /\ s10 \in BOOLEAN
  /\ s4 \in [Reloads -> ReloadRecord \cup {None}]
  /\ s5 \in Forms!Forms \cup {None} /\ s7 \in {None, "sent", "accepted", "rejected"}
  /\ s9 \in 0 .. s11 /\ s11 \in 1 .. MaxReloads + 1 /\ s12 \in 0 .. MaxFailures

\* What a reload has found before it asks is stored, and reloads are numbered.
ReloadsNumbered ==
  \A r \in Reloads : s4[r] # None => s4[r].before \subseteq s1 /\ s4[r].n \in 1 .. s11

\* A request has a form, and what it was told is stored is; a form leaves room for its reload.
RequestHasForm ==
  /\ s7 # None => s5 # None
  /\ s7 = "accepted" => s5.writes \in s1
  /\ s5 # None => s11 <= MaxReloads

\* The latest reload, under way or settled, has found all that was accepted.
LatestFindsAll ==
  /\ s8 \subseteq s1
  /\ \A r \in Reloads : s4[r] # None /\ s4[r].n = s11 => s8 \subseteq s4[r].before
  /\ s9 # s11 => \E r \in Reloads : s4[r] # None /\ s4[r].n = s11
  /\ s9 = s11 /\ ~s10 => s8 \subseteq s2

FormInv == FormTables /\ ReloadsNumbered /\ RequestHasForm /\ LatestFindsAll

\* A reload is no None, and a form writes a list.
LEMMA FormRows ==
  /\ None \notin ReloadRecord
  /\ \A f \in Forms!Forms : f.writes \in Forms!Lists /\ f.offers \subseteq Forms!Lists
  <1>1. None \notin ReloadRecord
    BY FormAssumption DEF ReloadRecord
  <1>2. \A f \in Forms!Forms : f.writes \in Forms!Lists /\ f.offers \subseteq Forms!Lists
    BY DEF Forms!Lists
  <1> QED
    BY <1>1, <1>2

\* The page opens, loading its lists.
LEMMA FormsStart == Forms!ConsoleInit => FormInv
  <1> SUFFICES ASSUME Forms!ConsoleInit PROVE FormInv
    OBVIOUS
  <1>1. /\ s1 \in SUBSET Forms!Lists /\ s2 = {} /\ s3 = TRUE /\ s5 = None /\ s6 = {} /\ s7 = None
        /\ s8 = {} /\ s9 = 0 /\ s10 = FALSE /\ s11 = 1 /\ s12 = 0
    BY DEF Forms!ConsoleInit
  <1>2. PICK r \in Reloads :
          s4 = [s \in Reloads |-> IF s = r THEN [n |-> 1, before |-> s1] ELSE None]
    BY DEF Forms!ConsoleInit
  <1>3. PICK first : first = [n |-> 1, before |-> s1]
    OBVIOUS
  <1>4. first \in ReloadRecord /\ first.n = 1 /\ first.before = s1 /\ first # None
    BY <1>1, <1>3, FormRows DEF ReloadRecord
  <1>5. s4 = [s \in Reloads |-> IF s = r THEN first ELSE None]
    BY <1>2, <1>3
  <1>6. FormTables
    <2>1. s4 \in [Reloads -> ReloadRecord \cup {None}]
      BY <1>4, <1>5
    <2>2. s9 \in 0 .. s11 /\ s11 \in 1 .. MaxReloads + 1
      BY <1>1, FormAssumption
    <2>3. s12 \in 0 .. MaxFailures
      BY <1>1, PageAssumption
    <2>4. /\ s3 \in BOOLEAN /\ s10 \in BOOLEAN
          /\ s5 \in Forms!Forms \cup {None} /\ s7 \in {None, "sent", "accepted", "rejected"}
      BY <1>1
    <2>5. s2 \in SUBSET Forms!Lists /\ s6 \in SUBSET Forms!Lists /\ s8 \in SUBSET Forms!Lists
      BY <1>1
    <2> QED
      BY <1>1, <2>1, <2>2, <2>3, <2>4, <2>5 DEF FormTables
  <1>7. ReloadsNumbered
    BY <1>1, <1>4, <1>5 DEF ReloadsNumbered
  <1>8. RequestHasForm
    BY <1>1, FormAssumption DEF RequestHasForm
  <1>9. LatestFindsAll
    BY <1>1, <1>4, <1>5 DEF LatestFindsAll
  <1> QED
    BY <1>6, <1>7, <1>8, <1>9 DEF FormInv

\* A reload that is begun finds all that is stored by then.
LEMMA ReloadBegun ==
  ASSUME FormInv, Forms!RefreshAll, s11 <= MaxReloads, s1' = s1, s2' = s2, s9' = s9, s10' = s10, s12' = s12,
         s8' \in SUBSET s1, s6' \in SUBSET Forms!Lists,
         \/ s5' = None /\ s7' = None
         \/ s5' = s5 /\ s7' = s7 /\ s11 < MaxReloads
  PROVE  FormInv'
  <1>1. FormTables
    BY DEF FormInv
  <1>2. PICK r \in Reloads : s4[r] = None /\ r = CHOOSE s \in Reloads : s4[s] = None
    BY DEF Forms!RefreshAll
  <1>3. PICK last : last = [n |-> s11 + 1, before |-> s1]
    OBVIOUS
  <1>4. s11' = s11 + 1 /\ s4' = [s4 EXCEPT ![r] = last] /\ s3' = TRUE
    BY <1>2, <1>3 DEF Forms!RefreshAll
  <1>5. s11 \in Nat /\ s9 \in Nat /\ s9 <= s11 /\ MaxReloads \in Nat
    BY <1>1, FormAssumption DEF FormTables
  <1>6. last \in ReloadRecord /\ last.n = s11 + 1 /\ last.before = s1 /\ last # None
    BY <1>1, <1>3, <1>5, FormRows DEF ReloadRecord, FormTables
  <1>7. FormTables'
    <2>1. s4' \in [Reloads -> ReloadRecord \cup {None}]
      BY <1>1, <1>4, <1>6 DEF FormTables
    <2>2. s9' \in 0 .. s11' /\ s11' \in 1 .. MaxReloads + 1
      BY <1>4, <1>5
    <2>3. s8' \in SUBSET Forms!Lists
      BY <1>1 DEF FormTables
    <2> QED
      BY <1>1, <1>4, <2>1, <2>2, <2>3 DEF FormTables
  <1>8. ReloadsNumbered'
    BY <1>1, <1>4, <1>5, <1>6 DEF FormInv, FormTables, ReloadsNumbered
  <1>9. RequestHasForm'
    BY <1>4, <1>5, FormAssumption DEF FormInv, RequestHasForm
  <1>10. LatestFindsAll'
    <2>1. s8' \subseteq s1'
      OBVIOUS
    <2>2. ASSUME NEW s \in Reloads, s4'[s] # None, s4'[s].n = s11' PROVE s8' \subseteq s4'[s].before
      <3>1. CASE s = r
        BY <1>1, <1>4, <1>6, <3>1 DEF FormTables
      <3>2. CASE s # r
        <4>1. s4'[s] = s4[s]
          BY <1>1, <1>4, <3>2 DEF FormTables
        <4>2. s4[s].n \in 1 .. s11
          BY <2>2, <4>1 DEF FormInv, ReloadsNumbered
        <4> QED
          BY <1>4, <1>5, <2>2, <4>1, <4>2
      <3> QED
        BY <3>1, <3>2
    <2>3. s4'[r] # None /\ s4'[r].n = s11'
      BY <1>1, <1>4, <1>6 DEF FormTables
    <2>4. s9' # s11'
      BY <1>4, <1>5
    <2> QED
      BY <2>1, <2>2, <2>3, <2>4 DEF LatestFindsAll
  <1> QED
    BY <1>7, <1>8, <1>9, <1>10 DEF FormInv

\* The refresh button and a form that was accepted begin a reload.
LEMMA RefreshKeeps ==
  ASSUME FormInv, Forms!RefreshClicked \/ Forms!Accepted
  PROVE  FormInv'
  <1>1. FormTables /\ RequestHasForm /\ LatestFindsAll
    BY DEF FormInv
  <1>2. CASE Forms!RefreshClicked
    <2>1. /\ Forms!RefreshAll /\ s11 < MaxReloads
          /\ UNCHANGED <<s1, s2, s5, s6, s7, s8, s9, s10, s12>>
      BY <1>2 DEF Forms!RefreshClicked, Forms!fill, Forms!history
    <2>2. s8' \in SUBSET s1 /\ s6' \in SUBSET Forms!Lists
      BY <1>1, <2>1 DEF FormTables, LatestFindsAll
    <2>3. s11 <= MaxReloads
      BY <1>1, <2>1, FormAssumption DEF FormTables
    <2> QED
      BY <2>1, <2>2, <2>3, ReloadBegun
  <1>3. CASE Forms!Accepted
    <2>1. /\ Forms!RefreshAll /\ s7 = "accepted" /\ s8' = s8 \cup {s5.writes}
          /\ s7' = None /\ s5' = None /\ s6' = {}
          /\ UNCHANGED <<s1, s2, s9, s10, s12>>
      BY <1>3 DEF Forms!Accepted, Forms!OnSuccess
    <2>2. s8' \in SUBSET s1 /\ s11 <= MaxReloads
      BY <1>1, <2>1, FormAssumption DEF RequestHasForm, LatestFindsAll
    <2>3. s6' \in SUBSET Forms!Lists
      BY <2>1
    <2> QED
      BY <2>1, <2>2, <2>3, ReloadBegun
  <1> QED
    BY <1>2, <1>3

\* A form is filled in, sent, and answered.
LEMMA FillKeeps ==
  ASSUME FormInv,
         \/ Forms!OptionsArrive \/ Forms!HandleSubmit \/ Forms!Rejected
         \/ \E f \in Forms!Forms : Forms!OpenForm(f)
  PROVE  FormInv'
  <1>1. FormTables
    BY DEF FormInv
  <1>2. UNCHANGED <<s1, s2, s3, s4, s8, s9, s10, s11, s12>>
    BY DEF Forms!OptionsArrive, Forms!HandleSubmit, Forms!Rejected, Forms!OpenForm, Forms!history
  <1>3. /\ s5' \in Forms!Forms \cup {None} /\ s6' \in SUBSET Forms!Lists
        /\ s7' \in {None, "sent", "accepted", "rejected"}
    <2>1. CASE Forms!OptionsArrive
      BY <1>1, <2>1 DEF Forms!OptionsArrive, FormTables
    <2>2. CASE Forms!HandleSubmit
      BY <1>1, <2>2 DEF Forms!HandleSubmit, FormTables
    <2>3. CASE Forms!Rejected
      BY <1>1, <2>3 DEF Forms!Rejected, FormTables
    <2>4. CASE \E f \in Forms!Forms : Forms!OpenForm(f)
      BY <1>1, <2>4 DEF Forms!OpenForm, FormTables
    <2> QED
      BY <2>1, <2>2, <2>3, <2>4
  <1>4. FormTables'
    BY <1>1, <1>2, <1>3 DEF FormTables
  <1>5. RequestHasForm'
    <2>1. CASE Forms!OptionsArrive
      BY <1>2, <2>1 DEF FormInv, RequestHasForm, Forms!OptionsArrive
    <2>2. CASE Forms!HandleSubmit
      BY <1>2, <2>2 DEF FormInv, RequestHasForm, Forms!HandleSubmit
    <2>3. CASE Forms!Rejected
      BY <1>2, <2>3, FormAssumption DEF FormInv, RequestHasForm, Forms!Rejected
    <2>4. CASE \E f \in Forms!Forms : Forms!OpenForm(f)
      <3>1. PICK f \in Forms!Forms : Forms!OpenForm(f)
        BY <2>4
      <3>2. s11 \in Nat /\ MaxReloads \in Nat /\ s11 < MaxReloads
        BY <1>1, <3>1, FormAssumption DEF FormTables, Forms!OpenForm
      <3>3. s7' = None /\ s5' # None /\ s11' = s11
        BY <3>1, FormAssumption DEF Forms!OpenForm
      <3> QED
        BY <3>2, <3>3, FormAssumption DEF RequestHasForm
    <2> QED
      BY <2>1, <2>2, <2>3, <2>4
  <1>6. ReloadsNumbered'
    BY <1>2 DEF FormInv, ReloadsNumbered
  <1>7. LatestFindsAll'
    BY <1>2 DEF FormInv, LatestFindsAll
  <1> QED
    BY <1>4, <1>5, <1>6, <1>7 DEF FormInv

\* The API stores what it accepts.
LEMMA PostKeeps ==
  ASSUME FormInv, NEW added \in BOOLEAN, Forms!Post(added)
  PROVE  FormInv'
  <1>1. FormTables
    BY DEF FormInv
  <1>2. /\ s7 = "sent" /\ s7' \in {"accepted", "rejected"} /\ (s7' = "accepted" => added)
        /\ s1' = (IF added THEN s1 \cup {s5.writes} ELSE s1)
        /\ UNCHANGED <<s2, s3, s4, s5, s6, s8, s9, s10, s11, s12>>
    BY DEF Forms!Post, Forms!history
  <1>3. s5 \in Forms!Forms
    BY <1>1, <1>2, FormAssumption DEF FormInv, FormTables, RequestHasForm
  <1>4. s1' \in SUBSET Forms!Lists /\ s1 \subseteq s1'
    BY <1>1, <1>2, <1>3, FormRows DEF FormTables
  <1>5. FormTables'
    BY <1>1, <1>2, <1>4 DEF FormTables
  <1>6. RequestHasForm'
    BY <1>2, <1>3, FormAssumption DEF FormInv, RequestHasForm
  <1>7. ReloadsNumbered'
    BY <1>2, <1>4 DEF FormInv, ReloadsNumbered
  <1>8. LatestFindsAll'
    BY <1>2, <1>4 DEF FormInv, LatestFindsAll
  <1> QED
    BY <1>5, <1>6, <1>7, <1>8 DEF FormInv

\* A reload that settles shows what it found, unless it could not read it.
LEMMA SettledKeeps ==
  ASSUME FormInv, NEW r \in Reloads, Forms!RefreshSettles(r)
  PROVE  FormInv'
  <1>1. FormTables /\ s4[r] # None /\ s4[r] \in ReloadRecord
    BY DEF FormInv, FormTables, Forms!RefreshSettles
  <1>2. PICK late \in SUBSET (s1 \ s4[r].before) :
        \E unread \in {{}} \cup {{l} : l \in IF s12 < MaxFailures THEN Forms!Lists ELSE {}} :
          /\ s2' = (s4[r].before \cup late) \ unread
          /\ s12' = s12 + Forms!Cardinality(unread)
          /\ s10' = (unread # {} \/ s4[r].n < s9)
    BY DEF Forms!RefreshSettles, Forms!Cardinality
  <1>3. PICK unread \in {{}} \cup {{l} : l \in IF s12 < MaxFailures THEN Forms!Lists ELSE {}} :
          /\ s2' = (s4[r].before \cup late) \ unread
          /\ s12' = s12 + Forms!Cardinality(unread)
          /\ s10' = (unread # {} \/ s4[r].n < s9)
    BY <1>2
  <1>4. /\ s9' = (IF s4[r].n > s9 THEN s4[r].n ELSE s9) /\ s4' = [s4 EXCEPT ![r] = None] /\ s3' = FALSE
        /\ UNCHANGED <<s1, s5, s6, s7, s8, s11>>
    BY DEF Forms!RefreshSettles, Forms!fill
  <1>5. s4[r].n \in 1 .. s11 /\ s4[r].before \subseteq s1 /\ s9 \in 0 .. s11 /\ s11 \in Nat
    BY <1>1 DEF FormInv, FormTables, ReloadsNumbered
  <1>6. s12' \in 0 .. MaxFailures
    <2>1. s12 \in 0 .. MaxFailures /\ MaxFailures \in Nat
      BY <1>1, PageAssumption DEF FormTables
    <2>2. CASE unread = {}
      <3>1. Forms!Cardinality(unread) = 0
        BY <2>2, FS_EmptySet DEF Forms!Cardinality, Cardinality
      <3> QED
        BY <1>3, <2>1, <3>1
    <2>3. CASE unread # {}
      <3>1. PICK l \in Forms!Lists : unread = {l} /\ s12 < MaxFailures
        BY <1>3, <2>3
      <3>2. Forms!Cardinality(unread) = 1
        BY <3>1, FS_Singleton DEF Forms!Cardinality, Cardinality
      <3> QED
        BY <1>3, <2>1, <3>1, <3>2
    <2> QED
      BY <2>2, <2>3
  <1>7. s9' \in 0 .. s11 /\ s10' \in BOOLEAN /\ s2' \in SUBSET Forms!Lists
    BY <1>1, <1>3, <1>4, <1>5 DEF FormTables
  <1>8. FormTables'
    BY <1>1, <1>4, <1>6, <1>7 DEF FormTables
  <1>9. ReloadsNumbered'
    BY <1>1, <1>4 DEF FormInv, FormTables, ReloadsNumbered
  <1>10. RequestHasForm'
    BY <1>4 DEF FormInv, RequestHasForm
  <1>11. \A s \in Reloads : s4'[s] # None => s # r /\ s4'[s] = s4[s]
    BY <1>1, <1>4 DEF FormTables
  <1>12. s9' = s11' /\ ~s10' => s8' \subseteq s2'
    <2> SUFFICES ASSUME s9' = s11', ~s10' PROVE s8 \subseteq s2'
      BY <1>4
    <2>1. unread = {} /\ ~(s4[r].n < s9)
      BY <1>3
    <2>2. s4[r].n = s11
      <3>1. PICK n \in 1 .. s11 : n = s4[r].n
        BY <1>5
      <3>2. ~(n < s9) /\ s11 = (IF n > s9 THEN n ELSE s9)
        BY <1>4, <2>1, <3>1
      <3> QED
        BY <1>5, <3>1, <3>2
    <2> QED
      BY <1>1, <1>3, <2>1, <2>2 DEF FormInv, LatestFindsAll
  <1>13. s9' # s11' => \E s \in Reloads : s4'[s] # None /\ s4'[s].n = s11'
    <2> SUFFICES ASSUME s9' # s11 PROVE \E s \in Reloads : s4'[s] # None /\ s4'[s].n = s11
      BY <1>4
    <2>1. s9 # s11 /\ s4[r].n # s11
      BY <1>4, <1>5
    <2>2. PICK s \in Reloads : s4[s] # None /\ s4[s].n = s11
      BY <2>1 DEF FormInv, LatestFindsAll
    <2>3. s # r
      BY <2>1, <2>2
    <2> QED
      BY <1>1, <1>4, <2>2, <2>3 DEF FormTables
  <1>14. LatestFindsAll'
    <2>1. s8' \subseteq s1'
      BY <1>4 DEF FormInv, LatestFindsAll
    <2>2. \A s \in Reloads : s4'[s] # None /\ s4'[s].n = s11' => s8' \subseteq s4'[s].before
      BY <1>4, <1>11 DEF FormInv, LatestFindsAll
    <2> QED
      BY <1>12, <1>13, <2>1, <2>2 DEF LatestFindsAll
  <1> QED
    BY <1>8, <1>9, <1>10, <1>14 DEF FormInv

\* The forms keep their invariant,
LEMMA FormsKeep ==
  ASSUME FormInv, Forms!ConsoleNext
  PROVE  FormInv'
  BY RefreshKeeps, FillKeeps, PostKeeps, SettledKeeps DEF Forms!ConsoleNext

\* which says what is claimed of them.
LEMMA FormsShow ==
  ASSUME FormInv
  PROVE  Forms!ConsoleTypeOK /\ Forms!AcceptedIsListed
  <1>1. Forms!ConsoleTypeOK
    BY DEF FormInv, FormTables, ReloadsNumbered, Forms!ConsoleTypeOK
  <1>2. Forms!AcceptedIsListed
    BY DEF FormInv, LatestFindsAll, Forms!AcceptedIsListed
  <1> QED
    BY <1>1, <1>2

(***************************************************************************)
(* The handlers of the operators' pages.                                   *)
(***************************************************************************)

DeskKinds == Desk!Kinds \cup {"details", "comment", "assign", "list"}

HandlerRecord ==
  [kind : DeskKinds, ticket : Tickets \cup {None}, answer : {"sent", "ok", "failed"},
   comments : Nat, rows : SUBSET Tickets]

DeskTables ==
  /\ s1 \in [Tickets -> Nat] /\ s2 \in [Desk!Kinds -> Nat] /\ s9 \in [Desk!Kinds -> Nat]
  /\ s3 \in Tickets /\ s4 \in [ticket : Tickets, comments : Nat]
  /\ s5 \in [Desk!Kinds -> [real : Nat, madeUp : Nat]]
  /\ s6 \subseteq Desk!Guarded
  /\ s7 \in [Requests -> HandlerRecord \cup {None}]
  /\ s8 \in 0 .. MaxRequests /\ s10 \in BOOLEAN
  /\ s11 \subseteq Tickets /\ s12 \subseteq Tickets /\ s13 \subseteq Tickets

\* What concerns a ticket names it.
TicketsNamed ==
  \A q \in Requests :
    s7[q] # None /\ s7[q].kind \in {"details", "comment", "assign"} => s7[q].ticket \in Tickets

\* The requests the API has not served, and those it has answered in one way.
Waiting == {q \in Requests : s7[q] # None /\ s7[q].answer = "sent"}
With(k, answer) == {q \in Requests : s7[q] # None /\ s7[q].kind = k /\ s7[q].answer = answer}

\* What the API holds was asked for,
ServedWasBegun ==
  /\ \A t \in Tickets : s1[t] + Cardinality(Waiting) <= s8
  /\ \A k \in Desk!Kinds : /\ s2[k] + Cardinality(Waiting) <= s8
                           /\ s9[k] + Cardinality(Waiting) <= s8

\* and what the pages show, or are about to, was answered.
ShownWasAnswered ==
  \A k \in Desk!Kinds : /\ s5[k].real + Cardinality(With(k, "ok")) <= s2[k]
                        /\ s5[k].madeUp + Cardinality(With(k, "failed")) <= s9[k]

\* What is marked ASSIGNED, or is about to be, was selected when it could be.
StakesHold ==
  /\ s11 \subseteq s13 /\ s12 \subseteq s13
  /\ \A q \in Requests :
       s7[q] # None => /\ s7[q].kind = "assign" => s3 \in s13 /\ s7[q].ticket \in s13
                       /\ s7[q].rows \subseteq s13

DeskInv ==
  DeskTables /\ TicketsNamed /\ ServedWasBegun /\ ShownWasAnswered /\ Desk!DetailsBelong /\ StakesHold

\* A request is no None.
LEMMA HandlersAreRows == None \notin HandlerRecord
  BY DeskAssumption DEF HandlerRecord, DeskKinds

\* There are finitely many requests.
LEMMA SomeRequests ==
  ASSUME NEW S \in SUBSET Requests
  PROVE  IsFiniteSet(S) /\ Cardinality(S) \in Nat
  <1>1. IsFiniteSet(S)
    BY DeskAssumption, FS_Subset DEF Desk!IsFiniteSet, IsFiniteSet
  <1> QED
    BY <1>1, FS_CardinalityType

\* Nothing is asked at first.
LEMMA DeskStarts == Desk!PagesInit => DeskInv
  <1> SUFFICES ASSUME Desk!PagesInit PROVE DeskInv
    OBVIOUS
  <1>1. /\ s1 = [t \in Tickets |-> 0] /\ s2 = [k \in Desk!Kinds |-> 0]
        /\ s3 \in Tickets /\ s4 = [ticket |-> s3, comments |-> 0]
        /\ s5 = [k \in Desk!Kinds |-> Desk!Nothing] /\ s6 = {}
        /\ s7 = [q \in Requests |-> None]
        /\ s8 = 0 /\ s9 = [k \in Desk!Kinds |-> 0] /\ s10 = FALSE
        /\ s11 = {} /\ s12 = {} /\ s13 = {}
    BY DEF Desk!PagesInit
  <1>2. PICK nothing \in [real : Nat, madeUp : Nat] :
          nothing = Desk!Nothing /\ nothing.real = 0 /\ nothing.madeUp = 0
    <2>1. PICK none : none = [real |-> 0, madeUp |-> 0]
      OBVIOUS
    <2>2. none \in [real : Nat, madeUp : Nat] /\ none.real = 0 /\ none.madeUp = 0
      BY <2>1
    <2> QED
      BY <2>1, <2>2 DEF Desk!Nothing
  <1>3. s5 = [k \in Desk!Kinds |-> nothing]
    BY <1>1, <1>2
  <1>4. DeskTables
    <2>1. s5 \in [Desk!Kinds -> [real : Nat, madeUp : Nat]]
      BY <1>3
    <2>2. s4 \in [ticket : Tickets, comments : Nat]
      BY <1>1
    <2>3. s8 \in 0 .. MaxRequests
      BY <1>1, DeskAssumption
    <2>4. s7 \in [Requests -> HandlerRecord \cup {None}]
      BY <1>1
    <2> QED
      BY <1>1, <2>1, <2>2, <2>3, <2>4 DEF DeskTables
  <1>5. Waiting = {} /\ \A k, answer : With(k, answer) = {}
    BY <1>1 DEF Waiting, With
  <1>6. Cardinality({}) = 0
    BY FS_EmptySet
  <1>7. ServedWasBegun
    BY <1>1, <1>5, <1>6 DEF ServedWasBegun
  <1>8. ShownWasAnswered
    <2>1. \A k \in Desk!Kinds : s5[k].real = 0 /\ s5[k].madeUp = 0 /\ s2[k] = 0 /\ s9[k] = 0
      BY <1>1, <1>2, <1>3
    <2>2. \A k : Cardinality(With(k, "ok")) = 0 /\ Cardinality(With(k, "failed")) = 0
      BY <1>5, <1>6
    <2> QED
      BY <2>1, <2>2 DEF ShownWasAnswered
  <1>9. TicketsNamed /\ StakesHold
    BY <1>1 DEF TicketsNamed, StakesHold
  <1>10. Desk!DetailsBelong
    BY <1>1 DEF Desk!DetailsBelong
  <1> QED
    BY <1>4, <1>7, <1>8, <1>9, <1>10 DEF DeskInv

\* What a handler asks for is a request.
LEMMA AskedIsRow ==
  ASSUME NEW k \in DeskKinds, NEW t \in Tickets \cup {None}
  PROVE  \E r \in HandlerRecord : /\ r = Desk!Asking(k, t) /\ r.kind = k /\ r.ticket = t
                                  /\ r.answer = "sent" /\ r.rows = {}
  <1>1. PICK r : r = [kind |-> k, ticket |-> t, answer |-> "sent", comments |-> 0, rows |-> {}]
    OBVIOUS
  <1>2. r \in HandlerRecord
    BY <1>1 DEF HandlerRecord
  <1> QED
    BY <1>1, <1>2 DEF Desk!Asking

\* A request that is begun takes a free place and one of the bounded number.
LEMMA RequestBegun ==
  ASSUME DeskInv, NEW r \in HandlerRecord, r.answer = "sent", Desk!Begin(r)
  PROVE  \E q \in Requests :
           /\ s7[q] = None /\ s7' = [s7 EXCEPT ![q] = r]
           /\ s7' \in [Requests -> HandlerRecord \cup {None}]
           /\ s8' = s8 + 1 /\ s8' \in 0 .. MaxRequests
           /\ s7'[q] = r /\ \A p \in Requests : p # q => s7'[p] = s7[p]
           /\ Cardinality(Waiting') = Cardinality(Waiting) + 1
           /\ \A k : With(k, "ok")' = With(k, "ok") /\ With(k, "failed")' = With(k, "failed")
  <1>1. DeskTables
    BY DEF DeskInv
  <1>2. PICK q \in Requests : s7[q] = None /\ q = CHOOSE p \in Requests : s7[p] = None
    BY DEF Desk!Begin
  <1>3. s7' = [s7 EXCEPT ![q] = r] /\ s8' = s8 + 1 /\ s8 < MaxRequests
    BY <1>2 DEF Desk!Begin
  <1>4. s7' \in [Requests -> HandlerRecord \cup {None}]
    BY <1>1, <1>3 DEF DeskTables
  <1>5. s8' \in 0 .. MaxRequests
    BY <1>1, <1>3, DeskAssumption DEF DeskTables
  <1>6. s7'[q] = r /\ r # None /\ \A p \in Requests : p # q => s7'[p] = s7[p]
    BY <1>1, <1>3, HandlersAreRows DEF DeskTables
  <1>7. Waiting' = Waiting \cup {q} /\ q \notin Waiting
    <2>1. \A p \in Requests : (s7'[p] # None /\ s7'[p].answer = "sent")
                              <=> (p = q \/ (s7[p] # None /\ s7[p].answer = "sent"))
      BY <1>2, <1>6
    <2> QED
      BY <1>2, <2>1 DEF Waiting
  <1>8. IsFiniteSet(Waiting) /\ Cardinality(Waiting) \in Nat
    <2>1. Waiting \in SUBSET Requests
      BY DEF Waiting
    <2> QED
      BY <2>1, SomeRequests
  <1>9. Cardinality(Waiting') = Cardinality(Waiting) + 1
    BY <1>7, <1>8, FS_AddElement
  <1>10. ASSUME NEW k, NEW answer \in {"ok", "failed"}
         PROVE  With(k, answer)' = With(k, answer)
    BY <1>2, <1>6, <1>10 DEF With
  <1> QED
    BY <1>2, <1>3, <1>4, <1>5, <1>6, <1>9, <1>10

\* While requests are begun, what was served and answered stays counted.
LEMMA BegunIsCounted ==
  ASSUME DeskInv, NEW r \in HandlerRecord, r.answer = "sent", Desk!Begin(r),
         s1' = s1, s2' = s2, s9' = s9,
         s5' \in [Desk!Kinds -> [real : Nat, madeUp : Nat]],
         \A k \in Desk!Kinds : s5'[k].real <= s5[k].real /\ s5'[k].madeUp <= s5[k].madeUp
  PROVE  ServedWasBegun' /\ ShownWasAnswered'
  <1>1. DeskTables
    BY DEF DeskInv
  <1>2. /\ s8' = s8 + 1 /\ Cardinality(Waiting') = Cardinality(Waiting) + 1
        /\ \A k : With(k, "ok")' = With(k, "ok") /\ With(k, "failed")' = With(k, "failed")
    BY RequestBegun
  <1>3. PICK n \in Nat : n = Cardinality(Waiting)
    <2>1. Waiting \in SUBSET Requests
      BY DEF Waiting
    <2> QED
      BY <2>1, SomeRequests
  <1>4. PICK m : m = Cardinality(Waiting')
    OBVIOUS
  <1>5. m = n + 1 /\ s8 \in Nat
    BY <1>1, <1>2, <1>3, <1>4, DeskAssumption DEF DeskTables
  <1>6. ServedWasBegun'
    <2>1. /\ \A t \in Tickets : s1[t] + n <= s8
          /\ \A k \in Desk!Kinds : s2[k] + n <= s8 /\ s9[k] + n <= s8
      BY <1>3 DEF DeskInv, ServedWasBegun
    <2>2. /\ \A t \in Tickets : s1[t] \in Nat
          /\ \A k \in Desk!Kinds : s2[k] \in Nat /\ s9[k] \in Nat
      BY <1>1 DEF DeskTables
    <2>3. /\ \A t \in Tickets : s1'[t] + m <= s8'
          /\ \A k \in Desk!Kinds : s2'[k] + m <= s8' /\ s9'[k] + m <= s8'
      BY <1>2, <1>5, <2>1, <2>2
    <2> QED
      BY <1>4, <2>3 DEF ServedWasBegun
  <1>7. ShownWasAnswered'
    <2> SUFFICES ASSUME NEW k \in Desk!Kinds
                 PROVE  /\ s5'[k].real + Cardinality(With(k, "ok")') <= s2'[k]
                        /\ s5'[k].madeUp + Cardinality(With(k, "failed")') <= s9'[k]
      BY DEF ShownWasAnswered
    <2>1. PICK o \in Nat : o = Cardinality(With(k, "ok"))
      <3>1. With(k, "ok") \in SUBSET Requests
        BY DEF With
      <3> QED
        BY <3>1, SomeRequests
    <2>2. PICK f \in Nat : f = Cardinality(With(k, "failed"))
      <3>1. With(k, "failed") \in SUBSET Requests
        BY DEF With
      <3> QED
        BY <3>1, SomeRequests
    <2>3. Cardinality(With(k, "ok")') = o /\ Cardinality(With(k, "failed")') = f
      BY <1>2, <2>1, <2>2
    <2>4. s5[k].real + o <= s2[k] /\ s5[k].madeUp + f <= s9[k]
      BY <2>1, <2>2 DEF DeskInv, ShownWasAnswered
    <2>5. /\ s5[k] \in [real : Nat, madeUp : Nat] /\ s5'[k] \in [real : Nat, madeUp : Nat]
          /\ s2[k] \in Nat /\ s9[k] \in Nat
      BY <1>1 DEF DeskTables
    <2>6. s5'[k].real + o <= s2'[k] /\ s5'[k].madeUp + f <= s9'[k]
      BY <2>4, <2>5
    <2> QED
      BY <2>3, <2>6
  <1> QED
    BY <1>6, <1>7

\* A ticket is selected, and its details are asked for.
LEMMA SelectKeeps ==
  ASSUME DeskInv, NEW t \in Tickets, Desk!SelectTicket(t)
  PROVE  DeskInv'
  <1>1. DeskTables
    BY DEF DeskInv
  <1>2. PICK r \in HandlerRecord : /\ r = Desk!Asking("details", t) /\ r.kind = "details" /\ r.ticket = t
                                   /\ r.answer = "sent" /\ r.rows = {}
    <2>1. "details" \in DeskKinds
      BY DEF DeskKinds
    <2> QED
      BY <2>1, AskedIsRow
  <1>3. /\ Desk!Begin(r) /\ s3' = t
        /\ s13' = (IF Desk!OnItsWay("assign") THEN s13 \cup {t} ELSE s13)
        /\ UNCHANGED <<s1, s2, s4, s5, s6, s9, s10, s11, s12>>
    BY <1>2 DEF Desk!SelectTicket
  <1>4. PICK q \in Requests :
           /\ s7[q] = None
           /\ s7' \in [Requests -> HandlerRecord \cup {None}] /\ s8' \in 0 .. MaxRequests
           /\ s7'[q] = r /\ \A p \in Requests : p # q => s7'[p] = s7[p]
    BY <1>2, <1>3, RequestBegun
  <1>5. DeskTables'
    BY <1>1, <1>3, <1>4 DEF DeskTables
  <1>6. TicketsNamed'
    BY <1>2, <1>4 DEF DeskInv, TicketsNamed
  <1>7. ServedWasBegun' /\ ShownWasAnswered'
    <2>1. \A k \in Desk!Kinds : s5'[k].real <= s5[k].real /\ s5'[k].madeUp <= s5[k].madeUp
      BY <1>1, <1>3 DEF DeskTables
    <2>2. s5' \in [Desk!Kinds -> [real : Nat, madeUp : Nat]]
      BY <1>1, <1>3 DEF DeskTables
    <2> QED
      BY <1>2, <1>3, <2>1, <2>2, BegunIsCounted
  <1>8. Desk!DetailsBelong'
    BY <1>2, <1>4, HandlersAreRows DEF Desk!DetailsBelong
  <1>9. StakesHold'
    BY <1>2, <1>3, <1>4 DEF DeskInv, StakesHold, Desk!OnItsWay
  <1> QED
    BY <1>5, <1>6, <1>7, <1>8, <1>9 DEF DeskInv

\* The other clicks ask for something of no ticket or of the selected one.
LEMMA ClickKeeps ==
  ASSUME DeskInv, NEW r \in HandlerRecord, r.answer = "sent", r.rows = {}, r.kind # "details",
         r.kind \in {"comment", "assign"} => r.ticket = s3,
         Desk!Begin(r), UNCHANGED <<s1, s2, s3, s4, s9, s10, s11, s12>>,
         s5' \in [Desk!Kinds -> [real : Nat, madeUp : Nat]],
         \A k \in Desk!Kinds : s5'[k].real <= s5[k].real /\ s5'[k].madeUp <= s5[k].madeUp,
         s6' \subseteq Desk!Guarded, s13 \subseteq s13', s13' \subseteq Tickets,
         r.kind = "assign" => s3 \in s13'
  PROVE  DeskInv'
  <1>1. DeskTables
    BY DEF DeskInv
  <1>2. PICK q \in Requests :
           /\ s7[q] = None
           /\ s7' \in [Requests -> HandlerRecord \cup {None}] /\ s8' \in 0 .. MaxRequests
           /\ s7'[q] = r /\ \A p \in Requests : p # q => s7'[p] = s7[p]
    BY RequestBegun
  <1>3. DeskTables'
    BY <1>1, <1>2 DEF DeskTables
  <1>4. TicketsNamed'
    BY <1>1, <1>2 DEF DeskInv, DeskTables, TicketsNamed
  <1>5. ServedWasBegun' /\ ShownWasAnswered'
    BY BegunIsCounted
  <1>6. Desk!DetailsBelong'
    BY <1>2 DEF DeskInv, Desk!DetailsBelong
  <1>7. StakesHold'
    BY <1>2 DEF DeskInv, StakesHold
  <1> QED
    BY <1>3, <1>4, <1>5, <1>6, <1>7 DEF DeskInv

\* Comments, assignments, lists and triggers are asked for.
LEMMA ClicksAskKeep ==
  ASSUME DeskInv,
         \/ Desk!HandleAddComment \/ Desk!HandleAssignTicket \/ Desk!LoadTickets
         \/ \E k \in Desk!Kinds : Desk!Trigger(k)
  PROVE  DeskInv'
  <1>1. DeskTables
    BY DEF DeskInv
  <1>2. \A k \in Desk!Kinds : s5[k] \in [real : Nat, madeUp : Nat]
    BY <1>1 DEF DeskTables
  <1>3. \A k \in Desk!Kinds : s5[k].real <= s5[k].real /\ s5[k].madeUp <= s5[k].madeUp
    BY <1>2
  <1>4. s5 \in [Desk!Kinds -> [real : Nat, madeUp : Nat]] /\ s6 \subseteq Desk!Guarded
        /\ s13 \subseteq Tickets /\ s3 \in Tickets
    BY <1>1 DEF DeskTables
  <1>5. CASE Desk!HandleAddComment
    <2>1. PICK r \in HandlerRecord : /\ r = Desk!Asking("comment", s3) /\ r.kind = "comment" /\ r.ticket = s3
                                     /\ r.answer = "sent" /\ r.rows = {}
      <3>1. "comment" \in DeskKinds
        BY DEF DeskKinds
      <3> QED
        BY <1>4, <3>1, AskedIsRow
    <2>2. Desk!Begin(r) /\ UNCHANGED <<s1, s2, s3, s4, s5, s6, s9, s10, s11, s12, s13>>
      BY <1>5, <2>1 DEF Desk!HandleAddComment, Desk!ticketVars
    <2>3. /\ s13 \subseteq s13' /\ s13' \subseteq Tickets /\ s6' \subseteq Desk!Guarded
          /\ s5' \in [Desk!Kinds -> [real : Nat, madeUp : Nat]]
          /\ \A k \in Desk!Kinds : s5'[k].real <= s5[k].real /\ s5'[k].madeUp <= s5[k].madeUp
      BY <1>3, <1>4, <2>2
    <2> QED
      BY <2>1, <2>2, <2>3, ClickKeeps
  <1>6. CASE Desk!HandleAssignTicket
    <2>1. PICK r \in HandlerRecord : /\ r = Desk!Asking("assign", s3) /\ r.kind = "assign" /\ r.ticket = s3
                                     /\ r.answer = "sent" /\ r.rows = {}
      <3>1. "assign" \in DeskKinds
        BY DEF DeskKinds
      <3> QED
        BY <1>4, <3>1, AskedIsRow
    <2>2. /\ Desk!Begin(r) /\ UNCHANGED <<s1, s2, s3, s4, s5, s6, s9, s10, s11, s12>>
          /\ s13' = s13 \cup {s3}
      BY <1>6, <2>1 DEF Desk!HandleAssignTicket
    <2>3. /\ s13 \subseteq s13' /\ s13' \subseteq Tickets /\ s6' \subseteq Desk!Guarded /\ s3 \in s13'
          /\ s5' \in [Desk!Kinds -> [real : Nat, madeUp : Nat]]
          /\ \A k \in Desk!Kinds : s5'[k].real <= s5[k].real /\ s5'[k].madeUp <= s5[k].madeUp
      BY <1>3, <1>4, <2>2
    <2> QED
      BY <2>1, <2>2, <2>3, ClickKeeps
  <1>7. CASE Desk!LoadTickets
    <2>1. PICK r \in HandlerRecord : /\ r = Desk!Asking("list", None) /\ r.kind = "list"
                                     /\ r.answer = "sent" /\ r.rows = {}
      <3>1. "list" \in DeskKinds
        BY DEF DeskKinds
      <3> QED
        BY <3>1, AskedIsRow
    <2>2. Desk!Begin(r) /\ UNCHANGED <<s1, s2, s3, s4, s5, s6, s9, s10, s11, s12, s13>>
      BY <1>7, <2>1 DEF Desk!LoadTickets, Desk!ticketVars
    <2>3. /\ s13 \subseteq s13' /\ s13' \subseteq Tickets /\ s6' \subseteq Desk!Guarded
          /\ s5' \in [Desk!Kinds -> [real : Nat, madeUp : Nat]]
          /\ \A k \in Desk!Kinds : s5'[k].real <= s5[k].real /\ s5'[k].madeUp <= s5[k].madeUp
      BY <1>3, <1>4, <2>2
    <2> QED
      BY <2>1, <2>2, <2>3, ClickKeeps
  <1>8. CASE \E k \in Desk!Kinds : Desk!Trigger(k)
    <2>1. PICK kind \in Desk!Kinds : Desk!Trigger(kind)
      BY <1>8
    <2>2. PICK r \in HandlerRecord : /\ r = Desk!Asking(kind, None) /\ r.kind = kind
                                     /\ r.answer = "sent" /\ r.rows = {}
      <3>1. kind \in DeskKinds
        BY DEF DeskKinds
      <3> QED
        BY <3>1, AskedIsRow
    <2>3. kind \notin {"details", "comment", "assign"}
      BY DEF Desk!Kinds
    <2>4. /\ Desk!Begin(r) /\ s6' = s6 \cup ({kind} \cap Desk!Guarded)
          /\ s5' = (IF kind \in Desk!Single THEN [s5 EXCEPT ![kind] = Desk!Nothing] ELSE s5)
          /\ UNCHANGED <<s1, s2, s3, s4, s9, s10, s11, s12, s13>>
      BY <2>1, <2>2 DEF Desk!Trigger, Desk!ticketVars
    <2>5. PICK nothing : nothing = [real |-> 0, madeUp |-> 0]
      OBVIOUS
    <2>6. nothing \in [real : Nat, madeUp : Nat] /\ nothing.real = 0 /\ nothing.madeUp = 0
          /\ nothing = Desk!Nothing
      BY <2>5 DEF Desk!Nothing
    <2>7. s5' \in [Desk!Kinds -> [real : Nat, madeUp : Nat]]
      BY <1>4, <2>4, <2>6
    <2>8. \A k \in Desk!Kinds : s5'[k] = s5[k] \/ s5'[k] = nothing
      BY <1>4, <2>4, <2>6
    <2>9. \A k \in Desk!Kinds : s5'[k].real <= s5[k].real /\ s5'[k].madeUp <= s5[k].madeUp
      BY <1>2, <2>6, <2>8
    <2>10. s6' \subseteq Desk!Guarded /\ s13 \subseteq s13' /\ s13' \subseteq Tickets
      BY <1>4, <2>4
    <2> QED
      BY <2>2, <2>3, <2>4, <2>7, <2>9, <2>10, ClickKeeps
  <1> QED
    BY <1>5, <1>6, <1>7, <1>8

\* The API serves a request, or refuses it, or its answer is lost.
LEMMA ServeKeeps ==
  ASSUME DeskInv, NEW q \in Requests, Desk!Serve(q)
  PROVE  DeskInv'
  <1>1. DeskTables
    BY DEF DeskInv
  <1>2. PICK r \in HandlerRecord : r = s7[q] /\ s7[q] # None /\ r.answer = "sent"
    BY <1>1 DEF DeskTables, Desk!Serve
  <1>3. PICK done \in BOOLEAN, heard \in BOOLEAN :
       /\ s1' = (IF done /\ r.kind = "comment" THEN [s1 EXCEPT ![r.ticket] = @ + 1] ELSE s1)
       /\ s2' = (IF done /\ r.kind \in Desk!Kinds THEN [s2 EXCEPT ![r.kind] = @ + 1] ELSE s2)
       /\ s11' = (IF done /\ r.kind = "assign" THEN s11 \cup {r.ticket} ELSE s11)
       /\ s7' = [s7 EXCEPT ![q] =
            [r EXCEPT !.rows = IF r.kind = "list" THEN s11 ELSE {},
                      !.answer = IF done /\ heard THEN "ok" ELSE "failed",
                      !.comments = IF r.kind = "details" THEN s1[r.ticket] ELSE 0]]
       /\ s9' = (IF (done /\ heard) \/ r.kind \notin Desk!Kinds THEN s9
                   ELSE [s9 EXCEPT ![r.kind] = @ + 1])
    BY <1>2 DEF Desk!Serve
  <1>4. UNCHANGED <<s3, s4, s5, s6, s8, s10, s12, s13>>
    BY DEF Desk!Serve
  <1>5. PICK rows : rows = IF r.kind = "list" THEN s11 ELSE {}
    OBVIOUS
  <1>6. PICK answer \in {"ok", "failed"} : answer = IF done /\ heard THEN "ok" ELSE "failed"
    OBVIOUS
  <1>7. PICK comments : comments = IF r.kind = "details" THEN s1[r.ticket] ELSE 0
    OBVIOUS
  <1>8. PICK a : a = [r EXCEPT !.rows = rows, !.answer = answer, !.comments = comments]
    OBVIOUS
  <1>9. comments \in Nat /\ rows \subseteq Tickets
    <2>1. r.kind = "details" => r.ticket \in Tickets
      BY <1>2 DEF DeskInv, TicketsNamed
    <2> QED
      BY <1>1, <1>5, <1>7, <2>1 DEF DeskTables
  <1>10. a \in HandlerRecord
    BY <1>2, <1>8, <1>9 DEF HandlerRecord
  <1>11. a.kind = r.kind /\ a.ticket = r.ticket /\ a.answer = answer /\ a.rows = rows
    BY <1>2, <1>8 DEF HandlerRecord
  <1>12. s7' = [s7 EXCEPT ![q] = a]
    BY <1>3, <1>5, <1>6, <1>7, <1>8
  <1>13. s7'[q] = a /\ a # None /\ \A p \in Requests : p # q => s7'[p] = s7[p]
    BY <1>1, <1>10, <1>12, HandlersAreRows DEF DeskTables
  <1>14. s1' \in [Tickets -> Nat] /\ \A t \in Tickets : s1'[t] <= s1[t] + 1
    <2>1. s1 \in [Tickets -> Nat]
      BY <1>1 DEF DeskTables
    <2>2. CASE done /\ r.kind = "comment"
      <3>1. PICK t \in Tickets : t = r.ticket
        BY <1>2, <2>2 DEF DeskInv, TicketsNamed
      <3>2. s1' = [s1 EXCEPT ![t] = s1[t] + 1]
        BY <1>3, <2>2, <3>1
      <3> QED
        BY <2>1, <3>2
    <2>3. CASE ~(done /\ r.kind = "comment")
      <3>1. s1' = s1
        BY <1>3, <2>3
      <3> QED
        BY <2>1, <3>1
    <2> QED
      BY <2>2, <2>3
  <1>15. /\ s2' \in [Desk!Kinds -> Nat]
         /\ \A k \in Desk!Kinds : s2[k] <= s2'[k] /\ s2'[k] <= s2[k] + 1
         /\ r.kind \in Desk!Kinds /\ answer = "ok" => s2'[r.kind] = s2[r.kind] + 1
    BY <1>1, <1>3, <1>6 DEF DeskTables
  <1>16. /\ s9' \in [Desk!Kinds -> Nat]
         /\ \A k \in Desk!Kinds : s9[k] <= s9'[k] /\ s9'[k] <= s9[k] + 1
         /\ r.kind \in Desk!Kinds /\ answer = "failed" => s9'[r.kind] = s9[r.kind] + 1
    BY <1>1, <1>3, <1>6 DEF DeskTables
  <1>17. r.kind = "assign" => r.ticket \in Tickets /\ r.ticket \in s13
    BY <1>2 DEF DeskInv, TicketsNamed, StakesHold
  <1>18. s11' \subseteq Tickets /\ s11' \subseteq s13
    BY <1>1, <1>3, <1>17 DEF DeskInv, StakesHold, DeskTables
  <1>19. DeskTables'
    <2>1. s7' \in [Requests -> HandlerRecord \cup {None}]
      BY <1>1, <1>10, <1>12 DEF DeskTables
    <2> QED
      BY <1>1, <1>4, <1>14, <1>15, <1>16, <1>18, <2>1 DEF DeskTables
  <1>20. TicketsNamed'
    BY <1>2, <1>11, <1>13 DEF DeskInv, TicketsNamed
  <1>21. ServedWasBegun'
    <2>1. Waiting' = Waiting \ {q} /\ q \in Waiting
      <3>1. \A p \in Requests : (s7'[p] # None /\ s7'[p].answer = "sent")
                                <=> (p # q /\ s7[p] # None /\ s7[p].answer = "sent")
        BY <1>6, <1>11, <1>13
      <3> QED
        BY <1>2, <3>1 DEF Waiting
    <2>2. Waiting \in SUBSET Requests
      BY DEF Waiting
    <2>3. PICK n \in Nat : n = Cardinality(Waiting) /\ IsFiniteSet(Waiting)
      BY <2>2, SomeRequests
    <2>4. Cardinality(Waiting') = n - 1
      BY <2>1, <2>3, FS_RemoveElement
    <2>5. /\ \A t \in Tickets : s1[t] + n <= s8
          /\ \A k \in Desk!Kinds : s2[k] + n <= s8 /\ s9[k] + n <= s8
      BY <2>3 DEF DeskInv, ServedWasBegun
    <2>6. s8 \in Nat
      BY <1>1, DeskAssumption DEF DeskTables
    <2>7. \A t \in Tickets : s1'[t] + (n - 1) <= s8'
      BY <1>1, <1>4, <1>14, <2>5, <2>6 DEF DeskTables
    <2>8. \A k \in Desk!Kinds : s2'[k] + (n - 1) <= s8' /\ s9'[k] + (n - 1) <= s8'
      BY <1>1, <1>4, <1>15, <1>16, <2>5, <2>6 DEF DeskTables
    <2> QED
      BY <2>4, <2>7, <2>8 DEF ServedWasBegun
  <1>22. ShownWasAnswered'
    <2> SUFFICES ASSUME NEW k \in Desk!Kinds
                 PROVE  /\ s5'[k].real + Cardinality(With(k, "ok")') <= s2'[k]
                        /\ s5'[k].madeUp + Cardinality(With(k, "failed")') <= s9'[k]
      BY DEF ShownWasAnswered
    <2>1. \A w \in {"ok", "failed"} : \A p \in Requests :
            (s7'[p] # None /\ s7'[p].kind = k /\ s7'[p].answer = w)
            <=> \/ p = q /\ r.kind = k /\ answer = w
                \/ s7[p] # None /\ s7[p].kind = k /\ s7[p].answer = w
      BY <1>2, <1>11, <1>13
    <2>2. \A w \in {"ok", "failed"} :
            /\ ~(r.kind = k /\ answer = w) => With(k, w)' = With(k, w)
            /\ r.kind = k /\ answer = w => With(k, w)' = With(k, w) \cup {q} /\ q \notin With(k, w)
      <3> SUFFICES ASSUME NEW w \in {"ok", "failed"}
                   PROVE  /\ ~(r.kind = k /\ answer = w) => With(k, w)' = With(k, w)
                          /\ r.kind = k /\ answer = w =>
                               With(k, w)' = With(k, w) \cup {q} /\ q \notin With(k, w)
        OBVIOUS
      <3>1. CASE r.kind = k /\ answer = w
        BY <1>2, <2>1, <3>1 DEF With
      <3>2. CASE ~(r.kind = k /\ answer = w)
        BY <2>1, <3>2 DEF With
      <3> QED
        BY <3>1, <3>2
    <2>3. PICK o \in Nat : o = Cardinality(With(k, "ok")) /\ IsFiniteSet(With(k, "ok"))
      <3>1. With(k, "ok") \in SUBSET Requests
        BY DEF With
      <3> QED
        BY <3>1, SomeRequests
    <2>4. PICK f \in Nat : f = Cardinality(With(k, "failed")) /\ IsFiniteSet(With(k, "failed"))
      <3>1. With(k, "failed") \in SUBSET Requests
        BY DEF With
      <3> QED
        BY <3>1, SomeRequests
    <2>5. s5[k].real + o <= s2[k] /\ s5[k].madeUp + f <= s9[k]
      BY <2>3, <2>4 DEF DeskInv, ShownWasAnswered
    <2>6. s5[k] \in [real : Nat, madeUp : Nat] /\ s2[k] \in Nat /\ s9[k] \in Nat /\ s5' = s5
          /\ s2'[k] \in Nat /\ s9'[k] \in Nat
      BY <1>1, <1>4, <1>15, <1>16 DEF DeskTables
    <2>7. s5'[k].real + Cardinality(With(k, "ok")') <= s2'[k]
      <3>1. CASE r.kind = k /\ answer = "ok"
        <4>1. Cardinality(With(k, "ok")') = o + 1
          BY <2>2, <2>3, <3>1, FS_AddElement
        <4> QED
          BY <1>15, <2>5, <2>6, <3>1, <4>1
      <3>2. CASE ~(r.kind = k /\ answer = "ok")
        <4>1. Cardinality(With(k, "ok")') = o
          BY <2>2, <2>3, <3>2
        <4> QED
          BY <1>15, <2>5, <2>6, <4>1
      <3> QED
        BY <3>1, <3>2
    <2>8. s5'[k].madeUp + Cardinality(With(k, "failed")') <= s9'[k]
      <3>1. CASE r.kind = k /\ answer = "failed"
        <4>1. Cardinality(With(k, "failed")') = f + 1
          BY <2>2, <2>4, <3>1, FS_AddElement
        <4> QED
          BY <1>16, <2>5, <2>6, <3>1, <4>1
      <3>2. CASE ~(r.kind = k /\ answer = "failed")
        <4>1. Cardinality(With(k, "failed")') = f
          BY <2>2, <2>4, <3>2
        <4> QED
          BY <1>16, <2>5, <2>6, <4>1
      <3> QED
        BY <3>1, <3>2
    <2> QED
      BY <2>7, <2>8
  <1>23. Desk!DetailsBelong'
    BY <1>2, <1>4, <1>11, <1>13 DEF DeskInv, Desk!DetailsBelong
  <1>24. StakesHold'
    <2>1. s11 \subseteq s13 /\ s12 \subseteq s13
      BY DEF DeskInv, StakesHold
    <2>2. rows \subseteq s13
      BY <1>5, <2>1
    <2>3. r.kind = "assign" => s3 \in s13
      BY <1>2 DEF DeskInv, StakesHold
    <2> QED
      BY <1>4, <1>11, <1>13, <1>17, <1>18, <2>1, <2>2, <2>3 DEF DeskInv, StakesHold
  <1> QED
    BY <1>19, <1>20, <1>21, <1>22, <1>23, <1>24 DEF DeskInv

\* An answer is taken once, and frees its place.
LEMMA AnswerTaken ==
  ASSUME DeskInv, NEW q \in Requests, NEW r \in HandlerRecord, s7[q] = r, r.answer \in {"ok", "failed"},
         s7' = [s7 EXCEPT ![q] = None]
  PROVE  /\ s7' \in [Requests -> HandlerRecord \cup {None}]
         /\ \A p \in Requests : s7'[p] # None => p # q /\ s7'[p] = s7[p]
         /\ \A p \in Requests : p # q => s7'[p] = s7[p]
         /\ TicketsNamed'
         /\ Waiting' = Waiting
         /\ \A k, w : With(k, w)' \subseteq With(k, w)
         /\ With(r.kind, r.answer)' = With(r.kind, r.answer) \ {q}
         /\ q \in With(r.kind, r.answer)
  <1>1. s7 \in [Requests -> HandlerRecord \cup {None}] /\ r # None
    BY HandlersAreRows DEF DeskInv, DeskTables
  <1>2. s7' \in [Requests -> HandlerRecord \cup {None}]
    BY <1>1
  <1>3. s7'[q] = None /\ \A p \in Requests : p # q => s7'[p] = s7[p]
    BY <1>1
  <1>4. TicketsNamed'
    BY <1>3 DEF DeskInv, TicketsNamed
  <1>5. Waiting' = Waiting
    <2>1. \A p \in Requests : (s7'[p] # None /\ s7'[p].answer = "sent")
                              <=> (s7[p] # None /\ s7[p].answer = "sent")
      BY <1>3
    <2> QED
      BY <2>1 DEF Waiting
  <1>6. \A k, w : With(k, w)' \subseteq With(k, w)
    BY <1>3 DEF With
  <1>7. With(r.kind, r.answer)' = With(r.kind, r.answer) \ {q} /\ q \in With(r.kind, r.answer)
    <2>1. \A p \in Requests :
            (s7'[p] # None /\ s7'[p].kind = r.kind /\ s7'[p].answer = r.answer)
            <=> (p # q /\ s7[p] # None /\ s7[p].kind = r.kind /\ s7[p].answer = r.answer)
      BY <1>3
    <2> QED
      BY <1>1, <2>1 DEF With
  <1> QED
    BY <1>2, <1>3, <1>4, <1>5, <1>6, <1>7

\* Fewer answers are under way when one is taken.
LEMMA FewerAnswers ==
  ASSUME NEW S \in SUBSET Requests, NEW T \in SUBSET S
  PROVE  Cardinality(T) <= Cardinality(S) /\ Cardinality(T) \in Nat /\ Cardinality(S) \in Nat
  <1>1. T \in SUBSET Requests
    OBVIOUS
  <1> QED
    BY <1>1, SomeRequests, FS_Subset

\* An answer about tickets or details changes what the page shows of them.
LEMMA TicketAnswerKeeps ==
  ASSUME DeskInv, NEW q \in Requests, NEW r \in HandlerRecord, s7[q] = r, r.answer \in {"ok", "failed"},
         s7' = [s7 EXCEPT ![q] = None],
         UNCHANGED <<s1, s2, s3, s5, s6, s8, s9, s11, s13>>,
         s4' \in [ticket : Tickets, comments : Nat], s10' \in BOOLEAN, s12' \subseteq s13,
         Desk!DetailsBelong'
  PROVE  DeskInv'
  <1>1. DeskTables
    BY DEF DeskInv
  <1>2. /\ s7' \in [Requests -> HandlerRecord \cup {None}]
        /\ \A p \in Requests : s7'[p] # None => p # q /\ s7'[p] = s7[p]
        /\ TicketsNamed' /\ Waiting' = Waiting
        /\ \A k, w : With(k, w)' \subseteq With(k, w)
    BY AnswerTaken
  <1>3. DeskTables'
    BY <1>1, <1>2 DEF DeskTables
  <1>4. ServedWasBegun'
    BY <1>2 DEF DeskInv, ServedWasBegun
  <1>5. ShownWasAnswered'
    <2> SUFFICES ASSUME NEW k \in Desk!Kinds
                 PROVE  /\ s5[k].real + Cardinality(With(k, "ok")') <= s2[k]
                        /\ s5[k].madeUp + Cardinality(With(k, "failed")') <= s9[k]
      BY DEF ShownWasAnswered
    <2>1. With(k, "ok") \in SUBSET Requests /\ With(k, "failed") \in SUBSET Requests
      BY DEF With
    <2>2. /\ Cardinality(With(k, "ok")') <= Cardinality(With(k, "ok"))
          /\ Cardinality(With(k, "ok")') \in Nat /\ Cardinality(With(k, "ok")) \in Nat
      BY <1>2, <2>1, FewerAnswers
    <2>3. /\ Cardinality(With(k, "failed")') <= Cardinality(With(k, "failed"))
          /\ Cardinality(With(k, "failed")') \in Nat /\ Cardinality(With(k, "failed")) \in Nat
      BY <1>2, <2>1, FewerAnswers
    <2>4. /\ s5[k].real + Cardinality(With(k, "ok")) <= s2[k]
          /\ s5[k].madeUp + Cardinality(With(k, "failed")) <= s9[k]
      BY DEF DeskInv, ShownWasAnswered
    <2>5. s5[k] \in [real : Nat, madeUp : Nat] /\ s2[k] \in Nat /\ s9[k] \in Nat
      BY <1>1 DEF DeskTables
    <2> QED
      BY <2>2, <2>3, <2>4, <2>5
  <1>6. StakesHold'
    BY <1>2 DEF DeskInv, StakesHold
  <1> QED
    BY <1>2, <1>3, <1>4, <1>5, <1>6 DEF DeskInv

\* Details, comments, assignments and lists arrive,
LEMMA TicketArrivalsKeep ==
  ASSUME DeskInv, NEW q \in Requests,
         \/ Desk!DetailsArrive(q) \/ Desk!CommentArrives(q)
         \/ Desk!AssignmentArrives(q) \/ Desk!ListArrives(q)
  PROVE  DeskInv'
  <1>1. DeskTables
    BY DEF DeskInv
  <1>2. s7[q] # None /\ s7[q].answer # "sent" /\ s7' = [s7 EXCEPT ![q] = None]
    BY DEF Desk!DetailsArrive, Desk!CommentArrives, Desk!AssignmentArrives, Desk!ListArrives, Desk!Answered
  <1>3. PICK r \in HandlerRecord : s7[q] = r /\ r.answer \in {"ok", "failed"}
    BY <1>1, <1>2 DEF DeskTables, HandlerRecord
  <1>4. \A p \in Requests : p # q => s7'[p] = s7[p]
    BY <1>1, <1>2 DEF DeskTables
  <1>5. s4 \in [ticket : Tickets, comments : Nat] /\ s10 \in BOOLEAN /\ s12 \subseteq s13 /\ s3 \in Tickets
    BY <1>1 DEF DeskTables, DeskInv, StakesHold
  <1>6. CASE Desk!DetailsArrive(q)
    <2>1. /\ r.kind = "details" /\ s4' = Desk!DetailsAfter(r) /\ s10' = (r.ticket # s3)
          /\ UNCHANGED <<s1, s2, s3, s5, s6, s8, s9, s11, s12, s13>>
      BY <1>3, <1>6 DEF Desk!DetailsArrive, Desk!Answered, Desk!ticketVars
    <2>2. r.ticket \in Tickets
      BY <1>2, <1>3, <2>1 DEF DeskInv, TicketsNamed
    <2>3. PICK n \in Nat : n = IF r.answer = "ok" THEN r.comments ELSE Desk!Kept(r.ticket)
      BY <1>5 DEF HandlerRecord, Desk!Kept
    <2>4. PICK d : d = [ticket |-> r.ticket, comments |-> n]
      OBVIOUS
    <2>5. d \in [ticket : Tickets, comments : Nat] /\ d.ticket = r.ticket /\ s4' = d
      BY <2>1, <2>2, <2>3, <2>4 DEF Desk!DetailsAfter
    <2>6. Desk!DetailsBelong'
      BY <2>1, <2>5 DEF Desk!DetailsBelong
    <2>7. s10' \in BOOLEAN /\ s12' \subseteq s13
      BY <1>5, <2>1
    <2> QED
      BY <1>2, <1>3, <2>1, <2>5, <2>6, <2>7, TicketAnswerKeeps
  <1>7. ASSUME r.kind # "details", s4' \in [ticket : Tickets, comments : Nat], s4'.ticket = s4.ticket,
               UNCHANGED <<s3, s10>>
        PROVE  Desk!DetailsBelong'
    BY <1>3, <1>4, <1>7 DEF DeskInv, Desk!DetailsBelong
  <1>8. PICK d : d = [s4 EXCEPT !.comments = @ + 1]
    OBVIOUS
  <1>9. d \in [ticket : Tickets, comments : Nat] /\ d.ticket = s4.ticket
    BY <1>5, <1>8
  <1>10. CASE Desk!CommentArrives(q)
    <2>1. /\ r.kind = "comment" /\ s4' = d
          /\ UNCHANGED <<s1, s2, s3, s5, s6, s8, s9, s10, s11, s12, s13>>
      BY <1>3, <1>8, <1>10 DEF Desk!CommentArrives, Desk!Answered, Desk!ticketVars
    <2>2. Desk!DetailsBelong'
      BY <1>7, <1>9, <2>1
    <2>3. s10' \in BOOLEAN /\ s12' \subseteq s13 /\ s4' \in [ticket : Tickets, comments : Nat]
      BY <1>5, <1>9, <2>1
    <2> QED
      BY <1>2, <1>3, <2>1, <2>2, <2>3, TicketAnswerKeeps
  <1>11. CASE Desk!AssignmentArrives(q)
    <2>1. /\ r.kind = "assign" /\ s4' = d /\ s12' = s12 \cup {s3}
          /\ UNCHANGED <<s1, s2, s3, s5, s6, s8, s9, s10, s11, s13>>
      BY <1>3, <1>8, <1>11 DEF Desk!AssignmentArrives, Desk!Answered
    <2>2. Desk!DetailsBelong'
      BY <1>7, <1>9, <2>1
    <2>3. s3 \in s13
      BY <1>2, <1>3, <2>1 DEF DeskInv, StakesHold
    <2>4. s10' \in BOOLEAN /\ s12' \subseteq s13 /\ s4' \in [ticket : Tickets, comments : Nat]
      BY <1>5, <1>9, <2>1, <2>3
    <2> QED
      BY <1>2, <1>3, <2>1, <2>2, <2>4, TicketAnswerKeeps
  <1>12. CASE Desk!ListArrives(q)
    <2>1. /\ r.kind = "list" /\ s4' = s4 /\ s12' = (IF r.answer = "ok" THEN r.rows ELSE s12)
          /\ UNCHANGED <<s1, s2, s3, s5, s6, s8, s9, s10, s11, s13>>
      BY <1>3, <1>12 DEF Desk!ListArrives, Desk!Answered
    <2>2. s4' \in [ticket : Tickets, comments : Nat] /\ s4'.ticket = s4.ticket /\ s10' \in BOOLEAN
      BY <1>5, <2>1
    <2>3. Desk!DetailsBelong'
      BY <1>7, <2>1, <2>2
    <2>4. r.rows \subseteq s13
      BY <1>2, <1>3 DEF DeskInv, StakesHold
    <2>5. s12' \subseteq s13
      BY <1>5, <2>1, <2>4
    <2> QED
      BY <1>2, <1>3, <2>1, <2>2, <2>3, <2>5, TicketAnswerKeeps
  <1> QED
    BY <1>6, <1>10, <1>11, <1>12

\* and the results of what was triggered.
LEMMA ResultKeeps ==
  ASSUME DeskInv, NEW q \in Requests, Desk!ResultArrives(q)
  PROVE  DeskInv'
  <1>1. DeskTables
    BY DEF DeskInv
  <1>2. /\ s7[q] # None /\ s7[q].answer # "sent" /\ s7[q].kind \in Desk!Kinds
        /\ s7' = [s7 EXCEPT ![q] = None]
        /\ UNCHANGED <<s1, s2, s3, s4, s8, s9, s10, s11, s12, s13>>
    BY DEF Desk!ResultArrives, Desk!Answered, Desk!ticketVars
  <1>3. PICK r \in HandlerRecord : s7[q] = r /\ r.answer \in {"ok", "failed"} /\ r.kind \in Desk!Kinds
    BY <1>1, <1>2 DEF DeskTables, HandlerRecord
  <1>4. /\ s7' \in [Requests -> HandlerRecord \cup {None}]
        /\ \A p \in Requests : s7'[p] # None => p # q /\ s7'[p] = s7[p]
        /\ \A p \in Requests : p # q => s7'[p] = s7[p]
        /\ TicketsNamed' /\ Waiting' = Waiting
        /\ \A k, w : With(k, w)' \subseteq With(k, w)
        /\ With(r.kind, r.answer)' = With(r.kind, r.answer) \ {q}
        /\ q \in With(r.kind, r.answer)
    BY <1>2, <1>3, AnswerTaken
  <1>5. PICK k \in Desk!Kinds : k = r.kind
    BY <1>3
  <1>6. PICK before : before = s5[k]
    OBVIOUS
  <1>7. before \in [real : Nat, madeUp : Nat]
    BY <1>1, <1>6 DEF DeskTables
  <1>8. PICK kept : kept = IF k \in Desk!Single THEN Desk!Nothing ELSE before
    OBVIOUS
  <1>9. kept \in [real : Nat, madeUp : Nat] /\ kept.real <= before.real /\ kept.madeUp <= before.madeUp
    <2>1. PICK nothing : nothing = [real |-> 0, madeUp |-> 0]
      OBVIOUS
    <2>2. nothing \in [real : Nat, madeUp : Nat] /\ nothing.real = 0 /\ nothing.madeUp = 0
      BY <2>1
    <2>3. kept \in {nothing, before}
      BY <1>8, <2>1 DEF Desk!Nothing
    <2> QED
      BY <1>7, <2>2, <2>3
  <1>10. PICK after : after = IF r.answer = "ok" THEN [kept EXCEPT !.real = @ + 1]
                              ELSE [kept EXCEPT !.madeUp = @ + 1]
    OBVIOUS
  <1>11. /\ after \in [real : Nat, madeUp : Nat]
         /\ after.real = (IF r.answer = "ok" THEN kept.real + 1 ELSE kept.real)
         /\ after.madeUp = (IF r.answer = "ok" THEN kept.madeUp ELSE kept.madeUp + 1)
    <2>1. CASE r.answer = "ok"
      BY <1>9, <1>10, <2>1
    <2>2. CASE r.answer # "ok"
      BY <1>9, <1>10, <2>2
    <2> QED
      BY <2>1, <2>2
  <1>12. s5' = [s5 EXCEPT ![k] = after] /\ s6' = s6 \ {k}
    BY <1>3, <1>5, <1>6, <1>8, <1>10 DEF Desk!ResultArrives, Desk!ShownAfter
  <1>13. s5' \in [Desk!Kinds -> [real : Nat, madeUp : Nat]] /\ s5'[k] = after
         /\ \A j \in Desk!Kinds : j # k => s5'[j] = s5[j]
    BY <1>1, <1>11, <1>12 DEF DeskTables
  <1>14. DeskTables'
    <2>1. s6' \subseteq Desk!Guarded
      BY <1>1, <1>12 DEF DeskTables
    <2> QED
      BY <1>1, <1>2, <1>4, <1>13, <2>1 DEF DeskTables
  <1>15. ServedWasBegun'
    BY <1>2, <1>4 DEF DeskInv, ServedWasBegun
  <1>16. ShownWasAnswered'
    <2> SUFFICES ASSUME NEW j \in Desk!Kinds
                 PROVE  /\ s5'[j].real + Cardinality(With(j, "ok")') <= s2[j]
                        /\ s5'[j].madeUp + Cardinality(With(j, "failed")') <= s9[j]
      BY <1>2 DEF ShownWasAnswered
    <2>1. With(j, "ok") \in SUBSET Requests /\ With(j, "failed") \in SUBSET Requests
      BY DEF With
    <2>2. PICK o \in Nat, oo \in Nat : o = Cardinality(With(j, "ok")) /\ oo = Cardinality(With(j, "ok")')
                                      /\ oo <= o
      BY <1>4, <2>1, FewerAnswers
    <2>3. PICK f \in Nat, ff \in Nat : f = Cardinality(With(j, "failed"))
                                      /\ ff = Cardinality(With(j, "failed")') /\ ff <= f
      BY <1>4, <2>1, FewerAnswers
    <2>4. s5[j].real + o <= s2[j] /\ s5[j].madeUp + f <= s9[j]
      BY <2>2, <2>3 DEF DeskInv, ShownWasAnswered
    <2>5. s5[j] \in [real : Nat, madeUp : Nat] /\ s2[j] \in Nat /\ s9[j] \in Nat
      BY <1>1 DEF DeskTables
    <2>6. j = k /\ r.answer = "ok" => oo = o - 1
      BY <1>4, <1>5, <2>1, <2>2, SomeRequests, FS_RemoveElement
    <2>7. j = k /\ r.answer = "failed" => ff = f - 1
      BY <1>4, <1>5, <2>1, <2>3, SomeRequests, FS_RemoveElement
    <2>8. s5'[j].real + oo <= s2[j] /\ s5'[j].madeUp + ff <= s9[j]
      <3>1. CASE j = k
        <4>1. s5'[j] = after /\ s5[j] = before
          BY <1>6, <1>13, <3>1
        <4>2. CASE r.answer = "ok"
          BY <1>7, <1>9, <1>11, <2>2, <2>3, <2>4, <2>5, <2>6, <3>1, <4>1, <4>2
        <4>3. CASE r.answer = "failed"
          BY <1>7, <1>9, <1>11, <2>2, <2>3, <2>4, <2>5, <2>7, <3>1, <4>1, <4>3
        <4> QED
          BY <1>3, <4>2, <4>3
      <3>2. CASE j # k
        BY <1>13, <2>2, <2>3, <2>4, <2>5, <3>2
      <3> QED
        BY <3>1, <3>2
    <2> QED
      BY <2>2, <2>3, <2>8
  <1>17. Desk!DetailsBelong'
    <2>1. r.kind # "details"
      BY <1>3 DEF Desk!Kinds
    <2> QED
      BY <1>2, <1>3, <1>4, <2>1 DEF DeskInv, Desk!DetailsBelong
  <1>18. StakesHold'
    BY <1>2, <1>4 DEF DeskInv, StakesHold
  <1> QED
    BY <1>4, <1>14, <1>15, <1>16, <1>17, <1>18 DEF DeskInv

\* The handlers keep their invariant,
LEMMA HandlersKeep ==
  ASSUME DeskInv, Desk!PagesNext
  PROVE  DeskInv'
  BY SelectKeeps, ClicksAskKeep, ServeKeeps, TicketArrivalsKeep, ResultKeeps DEF Desk!PagesNext

\* which says what is claimed of them.
LEMMA HandlersShow ==
  ASSUME DeskInv
  PROVE  /\ Desk!PagesTypeOK /\ Desk!MadeUpOnlyUnmet
         /\ Desk!DetailsBelong /\ Desk!AssignedWasSelected
  <1>1. DeskTables
    BY DEF DeskInv
  <1>2. PICK n \in Nat : n = Cardinality(Waiting)
    <2>1. Waiting \in SUBSET Requests
      BY DEF Waiting
    <2> QED
      BY <2>1, SomeRequests
  <1>3. s8 \in 0 .. MaxRequests /\ MaxRequests \in Nat
    BY <1>1, DeskAssumption DEF DeskTables
  <1>4. /\ \A t \in Tickets : s1[t] + n <= s8
        /\ \A k \in Desk!Kinds : s2[k] + n <= s8 /\ s9[k] + n <= s8
    BY <1>2 DEF DeskInv, ServedWasBegun
  <1>5. s1 \in [Tickets -> 0 .. MaxRequests]
    <2>1. \A t \in Tickets : s1[t] \in 0 .. MaxRequests
      BY <1>1, <1>3, <1>4 DEF DeskTables
    <2> QED
      BY <1>1, <2>1 DEF DeskTables
  <1>6. s2 \in [Desk!Kinds -> 0 .. MaxRequests]
    <2>1. \A k \in Desk!Kinds : s2[k] \in 0 .. MaxRequests
      BY <1>1, <1>3, <1>4 DEF DeskTables
    <2> QED
      BY <1>1, <2>1 DEF DeskTables
  <1>7. ASSUME NEW k \in Desk!Kinds
        PROVE  /\ s5[k].madeUp <= s9[k] /\ s5[k].real <= s2[k]
               /\ s5[k].real \in 0 .. MaxRequests /\ s5[k].madeUp \in 0 .. MaxRequests
    <2>1. PICK o \in Nat : o = Cardinality(With(k, "ok"))
      <3>1. With(k, "ok") \in SUBSET Requests
        BY DEF With
      <3> QED
        BY <3>1, SomeRequests
    <2>2. PICK f \in Nat : f = Cardinality(With(k, "failed"))
      <3>1. With(k, "failed") \in SUBSET Requests
        BY DEF With
      <3> QED
        BY <3>1, SomeRequests
    <2>3. s5[k].real + o <= s2[k] /\ s5[k].madeUp + f <= s9[k]
      BY <2>1, <2>2 DEF DeskInv, ShownWasAnswered
    <2>4. s5[k] \in [real : Nat, madeUp : Nat] /\ s2[k] \in Nat /\ s9[k] \in Nat
      BY <1>1 DEF DeskTables
    <2> QED
      BY <1>3, <1>4, <2>3, <2>4
  <1>8. Desk!PagesTypeOK
    BY <1>1, <1>5, <1>6, <1>7 DEF DeskTables, Desk!PagesTypeOK
  <1>9. Desk!MadeUpOnlyUnmet
    BY <1>7 DEF Desk!MadeUpOnlyUnmet
  <1> QED
    BY <1>8, <1>9 DEF DeskInv, StakesHold, Desk!AssignedWasSelected

(***************************************************************************)
(* The control bar of the virtual office.                                  *)
(***************************************************************************)

ViewRecord ==
  [phase : {"status", "registry", "live", "closed"}, timer : BOOLEAN, stream : BOOLEAN,
   hasty : BOOLEAN, shown : Status!SimStates, countdown : 0 .. MaxSeconds, inbox : Seq(BOOLEAN)]

AskRecord ==
  [kind : Status!Reads \cup Status!Commands, mode : Modes, answer : {"sent", "failed", "ok"},
   says : Status!SimStates]

BarTables ==
  /\ s1 \in Status!SimStates /\ s2 \in ViewRecord
  /\ s3 \in [Asks -> AskRecord \cup {None}]

\* What onMount awaits.
Awaited(r) == r # None /\ r.kind \in {"first", "registry"}

\* onMount has set up nothing while it waits, and waits for one answer at a time.
BarWaits ==
  /\ s2.phase \in {"status", "registry"} => ~s2.timer /\ ~s2.stream
  /\ s2.phase = "closed" /\ (s2.timer \/ s2.stream) => s2.hasty
  /\ \A a \in Asks : Awaited(s3[a]) =>
       \/ s2.phase = "closed" /\ s2.hasty
       \/ s2.phase = IF s3[a].kind = "first" THEN "status" ELSE "registry"
  /\ \A a, b \in Asks : Awaited(s3[a]) /\ Awaited(s3[b]) => a = b

BarInv == BarTables /\ BarWaits

\* A request is no None, and there is a mode to begin with.
LEMMA AskRows == None \notin AskRecord /\ Status!Initially \in Modes
  BY ControlAssumption DEF AskRecord, Status!Initially

\* What is asked for is a request.
LEMMA AskIsRow ==
  ASSUME BarTables, NEW k \in Status!Reads \cup Status!Commands, NEW m \in Modes
  PROVE  \E r \in AskRecord : r = Status!AskFor(k, m) /\ r.kind = k /\ r.answer = "sent"
  <1>1. PICK r : r = [kind |-> k, mode |-> m, answer |-> "sent", says |-> s1]
    OBVIOUS
  <1>2. r \in AskRecord
    BY <1>1 DEF AskRecord, BarTables
  <1> QED
    BY <1>1, <1>2 DEF Status!AskFor

\* The page opens and asks for the status.
LEMMA BarStarts == Status!StatusInit => BarInv
  <1> SUFFICES ASSUME Status!StatusInit PROVE BarInv
    OBVIOUS
  <1>1. s1 \in Status!SimStates
    BY AskRows DEF Status!StatusInit, Status!SimStates
  <1>2. << >> \in Seq(BOOLEAN) /\ 0 \in 0 .. MaxSeconds
    BY ControlAssumption
  <1>3. /\ s2.phase = "status" /\ ~s2.timer /\ ~s2.stream
    BY DEF Status!StatusInit
  <1>4. s2 \in ViewRecord
    BY <1>1, <1>2 DEF Status!StatusInit, ViewRecord
  <1>5. PICK first : first = Status!AskFor("first", Status!Initially)
    OBVIOUS
  <1>6. first \in AskRecord /\ first.kind = "first"
    <2>1. PICK r : r = [kind |-> "first", mode |-> Status!Initially, answer |-> "sent", says |-> s1]
      OBVIOUS
    <2>2. r \in AskRecord
      BY <1>1, <2>1, AskRows DEF AskRecord, Status!Reads
    <2> QED
      BY <1>5, <2>1, <2>2 DEF Status!AskFor
  <1>7. PICK a \in Asks : s3 = [b \in Asks |-> IF b = a THEN first ELSE None]
    BY <1>5 DEF Status!StatusInit
  <1>8. BarTables
    BY <1>1, <1>4, <1>6, <1>7 DEF BarTables
  <1>9. BarWaits
    BY <1>3, <1>6, <1>7 DEF BarWaits, Awaited
  <1> QED
    BY <1>8, <1>9 DEF BarInv

\* The page changes what it shows, and asks for nothing onMount awaits.
LEMMA BarKept ==
  ASSUME BarInv, s1' \in Status!SimStates, s2' \in ViewRecord,
         s2'.phase = s2.phase, s2'.timer = s2.timer, s2'.stream = s2.stream, s2'.hasty = s2.hasty,
         s3' \in [Asks -> AskRecord \cup {None}],
         \A a \in Asks : Awaited(s3'[a]) => Awaited(s3[a]) /\ s3'[a].kind = s3[a].kind
  PROVE  BarInv'
  <1>1. BarTables'
    BY DEF BarTables
  <1>2. BarWaits'
    <2>1. /\ s2'.phase \in {"status", "registry"} => ~s2'.timer /\ ~s2'.stream
          /\ s2'.phase = "closed" /\ (s2'.timer \/ s2'.stream) => s2'.hasty
      BY DEF BarInv, BarWaits
    <2>2. \A a \in Asks : Awaited(s3'[a]) =>
            \/ s2'.phase = "closed" /\ s2'.hasty
            \/ s2'.phase = IF s3'[a].kind = "first" THEN "status" ELSE "registry"
      BY DEF BarInv, BarWaits
    <2>3. \A a, b \in Asks : Awaited(s3'[a]) /\ Awaited(s3'[b]) => a = b
      BY DEF BarInv, BarWaits
    <2> QED
      BY <2>1, <2>2, <2>3 DEF BarWaits, Awaited
  <1> QED
    BY <1>1, <1>2 DEF BarInv

\* A request that is sent and is not awaited by onMount.
LEMMA AskingKept ==
  ASSUME BarTables, NEW k \in Status!Reads \cup Status!Commands, NEW m \in Modes,
         k \notin {"first", "registry"}, Status!Asking(k, m)
  PROVE  /\ s3' \in [Asks -> AskRecord \cup {None}]
         /\ \A a \in Asks : Awaited(s3'[a]) => Awaited(s3[a]) /\ s3'[a].kind = s3[a].kind
  <1>1. PICK a \in Asks : s3[a] = None /\ a = CHOOSE b \in Asks : s3[b] = None
    BY DEF Status!Asking
  <1>2. PICK r \in AskRecord : r = Status!AskFor(k, m) /\ r.kind = k
    BY AskIsRow
  <1>3. s3' = [s3 EXCEPT ![a] = r]
    BY <1>1, <1>2 DEF Status!Asking
  <1>4. s3' \in [Asks -> AskRecord \cup {None}]
    BY <1>3 DEF BarTables
  <1>5. \A b \in Asks : s3'[b] = s3[b] \/ s3'[b] = r
    BY <1>3 DEF BarTables
  <1> QED
    BY <1>2, <1>4, <1>5 DEF Awaited

\* What a command makes of the simulator.
LEMMA ObeyedIsState ==
  ASSUME s1 \in Status!SimStates, NEW k, NEW m \in Modes
  PROVE  Status!Obeyed(k, m) \in Status!SimStates
  <1>1. PICK paused \in BOOLEAN, running \in BOOLEAN, mode \in Modes :
          s1 = [running |-> running, paused |-> paused, mode |-> mode]
    BY DEF Status!SimStates
  <1>2. \A p \in BOOLEAN, r \in BOOLEAN, o \in Modes :
          [running |-> r, paused |-> p, mode |-> o] \in Status!SimStates
    BY DEF Status!SimStates
  <1>3. CASE k = "start"
    <2>1. Status!Obeyed(k, m) = [running |-> TRUE, paused |-> paused, mode |-> m]
      BY <1>1, <1>3 DEF Status!Obeyed
    <2> QED
      BY <1>2, <2>1
  <1>4. CASE k = "stop"
    <2>1. Status!Obeyed(k, m) = [running |-> FALSE, paused |-> paused, mode |-> mode]
      BY <1>1, <1>4 DEF Status!Obeyed
    <2> QED
      BY <1>2, <2>1
  <1>5. CASE k = "config"
    <2>1. Status!Obeyed(k, m) = [running |-> running, paused |-> paused, mode |-> m]
      BY <1>1, <1>5 DEF Status!Obeyed
    <2> QED
      BY <1>2, <2>1
  <1>6. CASE k = "pause"
    <2>1. Status!Obeyed(k, m) = [running |-> running, paused |-> TRUE, mode |-> mode]
      BY <1>1, <1>6 DEF Status!Obeyed
    <2> QED
      BY <1>2, <2>1
  <1>7. CASE k = "resume"
    <2>1. Status!Obeyed(k, m) = [running |-> running, paused |-> FALSE, mode |-> mode]
      BY <1>1, <1>7 DEF Status!Obeyed
    <2> QED
      BY <1>2, <2>1
  <1>8. CASE k \notin {"start", "stop", "config", "pause", "resume"}
    <2>1. Status!Obeyed(k, m) = s1
      BY <1>8 DEF Status!Obeyed
    <2> QED
      BY <2>1
  <1> QED
    BY <1>3, <1>4, <1>5, <1>6, <1>7, <1>8

\* A list that is not empty has a first element and a rest.
LEMMA FirstAndRest ==
  ASSUME NEW S, NEW s \in Seq(S), s # << >>
  PROVE  Head(s) \in S /\ Tail(s) \in Seq(S)
  OBVIOUS

\* An announcement is put in the page's inbox.
LEMMA AnnouncedIsView ==
  ASSUME s2 \in ViewRecord, NEW kind
  PROVE  /\ Status!ViewAfter(kind) \in ViewRecord
         /\ Status!ViewAfter(kind).phase = s2.phase /\ Status!ViewAfter(kind).timer = s2.timer
         /\ Status!ViewAfter(kind).stream = s2.stream /\ Status!ViewAfter(kind).hasty = s2.hasty
  <1>1. PICK paused \in BOOLEAN : paused = (kind = "pause")
    OBVIOUS
  <1>2. PICK inbox : inbox = Append(s2.inbox, paused)
    OBVIOUS
  <1>3. inbox \in Seq(BOOLEAN)
    BY <1>2 DEF ViewRecord
  <1>4. PICK w : w = [s2 EXCEPT !.inbox = inbox]
    OBVIOUS
  <1>5. w \in ViewRecord
    BY <1>3, <1>4 DEF ViewRecord
  <1>6. w.phase = s2.phase /\ w.timer = s2.timer /\ w.stream = s2.stream /\ w.hasty = s2.hasty
    BY <1>4 DEF ViewRecord
  <1>7. Status!ViewAfter(kind) \in {w, s2}
    BY <1>1, <1>2, <1>4 DEF Status!ViewAfter, Status!Announced
  <1> QED
    BY <1>5, <1>6, <1>7

\* The API serves a request, another operator steers, or a request is lost.
LEMMA ServingKeeps ==
  ASSUME BarInv,
         \/ \E a \in Asks : Status!Serve(a) \/ Status!Unreached(a)
         \/ \E kind \in Status!Commands \ {"config"} : Status!SimulatorMoves(kind)
  PROVE  BarInv'
  <1>1. BarTables /\ s1 \in Status!SimStates /\ s2 \in ViewRecord
    BY DEF BarInv, BarTables
  <1>2. CASE \E kind \in Status!Commands \ {"config"} : Status!SimulatorMoves(kind)
    <2>1. PICK kind : Status!SimulatorMoves(kind)
      BY <1>2
    <2>2. s1.mode \in Modes
      BY <1>1 DEF Status!SimStates
    <2>3. s1' = Status!Obeyed(kind, s1.mode) /\ s2' = Status!ViewAfter(kind) /\ s3' = s3
      BY <2>1 DEF Status!SimulatorMoves
    <2>4. s1' \in Status!SimStates
      BY <1>1, <2>2, <2>3, ObeyedIsState
    <2>5. /\ s2' \in ViewRecord /\ s2'.phase = s2.phase /\ s2'.timer = s2.timer
          /\ s2'.stream = s2.stream /\ s2'.hasty = s2.hasty
      BY <1>1, <2>3, AnnouncedIsView
    <2>6. s3' \in [Asks -> AskRecord \cup {None}]
      BY <1>1, <2>3 DEF BarTables
    <2> QED
      BY <2>3, <2>4, <2>5, <2>6, BarKept
  <1>3. CASE \E a \in Asks : Status!Serve(a) \/ Status!Unreached(a)
    <2>1. PICK a \in Asks : Status!Serve(a) \/ Status!Unreached(a)
      BY <1>3
    <2>2. PICK r \in AskRecord : s3[a] = r /\ s3[a] # None
      BY <1>1, <2>1 DEF Status!Serve, Status!Unreached, BarTables
    <2>3. r.mode \in Modes /\ r.kind \in Status!Reads \cup Status!Commands
      BY DEF AskRecord
    <2>4. s1' \in Status!SimStates
      <3>1. s1' = Status!Obeyed(r.kind, r.mode) \/ s1' = s1
        BY <2>1, <2>2 DEF Status!Serve, Status!Unreached
      <3> QED
        BY <1>1, <2>3, <3>1, ObeyedIsState
    <2>5. /\ s2' \in ViewRecord /\ s2'.phase = s2.phase /\ s2'.timer = s2.timer
          /\ s2'.stream = s2.stream /\ s2'.hasty = s2.hasty
      <3>1. s2' = Status!ViewAfter(r.kind) \/ s2' = s2
        BY <2>1, <2>2 DEF Status!Serve, Status!Unreached
      <3> QED
        BY <1>1, <3>1, AnnouncedIsView
    <2>6. PICK answer \in {"ok", "failed"}, says \in Status!SimStates :
            s3' = [s3 EXCEPT ![a].answer = answer, ![a].says = says]
      <3>1. PICK state : state = s1'
        OBVIOUS
      <3>2. PICK ok : ok = [r EXCEPT !.answer = "ok", !.says = state]
        OBVIOUS
      <3>3. PICK failed : failed = [r EXCEPT !.answer = "failed", !.says = r.says]
        OBVIOUS
      <3>4. s3' = [s3 EXCEPT ![a] = ok] \/ s3' = [s3 EXCEPT ![a] = failed]
        <4>1. CASE Status!Serve(a)
          <5>1. \/ s3' = [s3 EXCEPT ![a].answer = "ok", ![a].says = state]
                \/ s3' = [s3 EXCEPT ![a].answer = "failed"]
            BY <3>1, <4>1 DEF Status!Serve
          <5>2. [r EXCEPT !.answer = "failed"] = failed
            BY <3>3 DEF AskRecord
          <5>3. [s3 EXCEPT ![a].answer = "ok", ![a].says = state] = [s3 EXCEPT ![a] = ok]
            BY <1>1, <2>2, <3>2 DEF BarTables
          <5>4. [s3 EXCEPT ![a].answer = "failed"] = [s3 EXCEPT ![a] = failed]
            BY <1>1, <2>2, <5>2 DEF BarTables
          <5> QED
            BY <5>1, <5>3, <5>4
        <4>2. CASE Status!Unreached(a)
          <5>1. s3' = [s3 EXCEPT ![a].answer = "failed"]
            BY <4>2 DEF Status!Unreached
          <5>2. [r EXCEPT !.answer = "failed"] = failed
            BY <3>3 DEF AskRecord
          <5>3. [s3 EXCEPT ![a].answer = "failed"] = [s3 EXCEPT ![a] = failed]
            BY <1>1, <2>2, <5>2 DEF BarTables
          <5> QED
            BY <5>1, <5>3
        <4> QED
          BY <2>1, <4>1, <4>2
      <3>5. state \in Status!SimStates /\ r.says \in Status!SimStates
        BY <2>4, <3>1 DEF AskRecord
      <3>6. [s3 EXCEPT ![a] = ok] = [s3 EXCEPT ![a].answer = "ok", ![a].says = state]
        BY <1>1, <2>2, <3>2 DEF BarTables
      <3>7. [s3 EXCEPT ![a] = failed] = [s3 EXCEPT ![a].answer = "failed", ![a].says = r.says]
        BY <1>1, <2>2, <3>3 DEF BarTables
      <3> QED
        BY <3>4, <3>5, <3>6, <3>7
    <2>7. PICK b : b = [r EXCEPT !.answer = answer, !.says = says]
      OBVIOUS
    <2>8. b \in AskRecord /\ b.kind = r.kind
      BY <2>7 DEF AskRecord
    <2>9. s3' = [s3 EXCEPT ![a] = b]
      BY <1>1, <2>2, <2>6, <2>7 DEF BarTables
    <2>10. s3' \in [Asks -> AskRecord \cup {None}]
      BY <1>1, <2>8, <2>9 DEF BarTables
    <2>11. \A c \in Asks : Awaited(s3'[c]) => Awaited(s3[c]) /\ s3'[c].kind = s3[c].kind
      BY <1>1, <2>2, <2>8, <2>9 DEF BarTables, Awaited
    <2> QED
      BY <2>4, <2>5, <2>10, <2>11, BarKept
  <1> QED
    BY <1>2, <1>3

\* The page asks on a click or on its timer.
LEMMA AskingKeeps ==
  ASSUME BarInv,
         \/ Status!Poll \/ Status!ToggleSimulator \/ Status!TriggerManualCooldown
         \/ Status!ResumeFromCooldown \/ \E mode \in Modes : Status!ChangeMode(mode)
  PROVE  BarInv'
  <1>1. BarTables /\ s1 \in Status!SimStates /\ s2 \in ViewRecord /\ s2.shown \in Status!SimStates
    BY DEF BarInv, BarTables, ViewRecord
  <1>2. s2.shown.mode \in Modes /\ s1' = s1
    BY <1>1 DEF Status!SimStates, Status!Poll, Status!ToggleSimulator, Status!TriggerManualCooldown,
                Status!ResumeFromCooldown, Status!ChangeMode
  <1>3. /\ s3' \in [Asks -> AskRecord \cup {None}]
        /\ \A a \in Asks : Awaited(s3'[a]) => Awaited(s3[a]) /\ s3'[a].kind = s3[a].kind
    <2>1. \/ \E k \in {"status", "start", "stop", "config", "pause", "resume"}, m \in Modes : Status!Asking(k, m)
          \/ s3' = s3
      BY <1>2, AskRows DEF Status!Poll, Status!ToggleSimulator, Status!TriggerManualCooldown,
                Status!ResumeFromCooldown, Status!ChangeMode
    <2>2. CASE s3' = s3
      BY <1>1, <2>2 DEF BarTables
    <2>3. ASSUME NEW k \in {"status", "start", "stop", "config", "pause", "resume"}, NEW m \in Modes,
                 Status!Asking(k, m)
          PROVE  /\ s3' \in [Asks -> AskRecord \cup {None}]
                 /\ \A a \in Asks : Awaited(s3'[a]) => Awaited(s3[a]) /\ s3'[a].kind = s3[a].kind
      <3>1. k \in Status!Reads \cup Status!Commands /\ k \notin {"first", "registry"}
        BY DEF Status!Reads, Status!Commands
      <3> QED
        BY <1>1, <2>3, <3>1, AskingKept
    <2> QED
      BY <2>1, <2>2, <2>3
  <1>4. /\ s2' \in ViewRecord /\ s2'.phase = s2.phase /\ s2'.timer = s2.timer
        /\ s2'.stream = s2.stream /\ s2'.hasty = s2.hasty
    <2>1. CASE \E mode \in Modes : Status!ChangeMode(mode)
      <3>1. PICK mode \in Modes : s2' = [s2 EXCEPT !.shown.mode = mode]
        BY <2>1 DEF Status!ChangeMode
      <3>2. PICK shown : shown = [s2.shown EXCEPT !.mode = mode]
        OBVIOUS
      <3>3. shown \in Status!SimStates
        BY <1>1, <3>2 DEF Status!SimStates
      <3>4. s2' = [s2 EXCEPT !.shown = shown]
        BY <1>1, <3>1, <3>2 DEF ViewRecord
      <3>5. PICK w : w = [s2 EXCEPT !.shown = shown]
        OBVIOUS
      <3>6. /\ w \in ViewRecord /\ w.phase = s2.phase /\ w.timer = s2.timer
            /\ w.stream = s2.stream /\ w.hasty = s2.hasty
        BY <1>1, <3>3, <3>5 DEF ViewRecord
      <3> QED
        BY <3>4, <3>5, <3>6
    <2>2. CASE ~(\E mode \in Modes : Status!ChangeMode(mode))
      <3>1. s2' = s2
        BY <2>2 DEF Status!Poll, Status!ToggleSimulator, Status!TriggerManualCooldown,
                    Status!ResumeFromCooldown
      <3> QED
        BY <1>1, <3>1
    <2> QED
      BY <2>1, <2>2
  <1> QED
    BY <1>1, <1>2, <1>3, <1>4, BarKept

\* The countdown and the stream change the copy.
LEMMA CopyKeeps ==
  ASSUME BarInv, Status!CountdownTick \/ Status!HandleEvent
  PROVE  BarInv'
  <1>1. /\ BarTables /\ s1 \in Status!SimStates /\ s2 \in ViewRecord /\ s2.shown \in Status!SimStates
        /\ s2.countdown \in 0 .. MaxSeconds /\ s2.inbox \in Seq(BOOLEAN)
    BY DEF BarInv, BarTables, ViewRecord
  <1>2. s1' = s1 /\ s3' = s3 /\ MaxSeconds \in Nat
    BY ControlAssumption DEF Status!CountdownTick, Status!HandleEvent
  <1>3. PICK seconds \in 0 .. MaxSeconds, paused \in BOOLEAN, inbox \in Seq(BOOLEAN) :
          s2' = [s2 EXCEPT !.inbox = inbox, !.shown.paused = paused, !.countdown = seconds]
    <2>1. CASE Status!CountdownTick
      <3>1. PICK n \in 0 .. MaxSeconds : n = s2.countdown - 1
        BY <1>1, <1>2, <2>1 DEF Status!CountdownTick
      <3>2. PICK paused \in BOOLEAN : paused = (s2.shown.paused /\ s2.countdown > 1)
        OBVIOUS
      <3>3. s2' = [s2 EXCEPT !.countdown = n, !.shown.paused = paused]
        BY <2>1, <3>1, <3>2 DEF Status!CountdownTick
      <3>4. [s2 EXCEPT !.countdown = n, !.shown.paused = paused]
            = [s2 EXCEPT !.inbox = s2.inbox, !.shown.paused = paused, !.countdown = n]
        BY <1>1 DEF ViewRecord
      <3> QED
        BY <1>1, <3>3, <3>4
    <2>2. CASE Status!HandleEvent
      <3>1. PICK rest : rest = Tail(s2.inbox)
        OBVIOUS
      <3>2. PICK head : head = Head(s2.inbox)
        OBVIOUS
      <3>3. s2.inbox # << >>
        BY <2>2 DEF Status!HandleEvent
      <3>4. rest \in Seq(BOOLEAN) /\ head \in BOOLEAN
        BY <1>1, <3>1, <3>2, <3>3, FirstAndRest
      <3>5. PICK after \in 1 .. MaxSeconds :
              s2' = [s2 EXCEPT !.inbox = rest, !.shown.paused = head,
                               !.countdown = IF head THEN after ELSE 0]
        BY <2>2, <3>1, <3>2 DEF Status!HandleEvent
      <3>6. PICK n \in 0 .. MaxSeconds : n = IF head THEN after ELSE 0
        BY <1>2
      <3> QED
        BY <3>4, <3>5, <3>6
    <2> QED
      BY <2>1, <2>2
  <1>4. PICK shown : shown = [s2.shown EXCEPT !.paused = paused]
    OBVIOUS
  <1>5. shown \in Status!SimStates
    BY <1>1, <1>4 DEF Status!SimStates
  <1>6. PICK w : w = [s2 EXCEPT !.shown = shown, !.countdown = seconds, !.inbox = inbox]
    OBVIOUS
  <1>7. w \in ViewRecord
    BY <1>1, <1>5, <1>6 DEF ViewRecord
  <1>8. w.phase = s2.phase /\ w.timer = s2.timer /\ w.stream = s2.stream /\ w.hasty = s2.hasty
    BY <1>1, <1>6 DEF ViewRecord
  <1>9. s2' = w
    BY <1>1, <1>3, <1>4, <1>6 DEF ViewRecord
  <1> QED
    BY <1>1, <1>2, <1>7, <1>8, <1>9, BarKept DEF BarTables

\* The page is left.
LEMMA LeaveKeeps ==
  ASSUME BarInv, Status!Leave
  PROVE  BarInv'
  <1>1. BarTables /\ BarWaits /\ s2 \in ViewRecord /\ s2.phase # "closed"
    BY DEF BarInv, BarTables, Status!Leave
  <1>2. PICK hasty \in BOOLEAN : hasty = (s2.phase # "live")
    OBVIOUS
  <1>3. << >> \in Seq(BOOLEAN)
    OBVIOUS
  <1>4. PICK w : w = [s2 EXCEPT !.phase = "closed", !.timer = FALSE, !.stream = FALSE, !.inbox = << >>,
                                !.hasty = hasty]
    OBVIOUS
  <1>5. w.phase = "closed" /\ ~w.timer /\ ~w.stream /\ w.hasty = hasty
    BY <1>1, <1>4 DEF ViewRecord
  <1>6. w \in ViewRecord
    BY <1>1, <1>3, <1>4 DEF ViewRecord
  <1>7. s2' = w /\ s1' = s1 /\ s3' = s3
    BY <1>2, <1>4 DEF Status!Leave, Status!Closed
  <1>8. BarTables'
    BY <1>1, <1>6, <1>7 DEF BarTables
  <1>9. \A a \in Asks : Awaited(s3[a]) => hasty
    BY <1>1, <1>2 DEF BarWaits
  <1>10. BarWaits'
    BY <1>1, <1>5, <1>7, <1>9 DEF BarWaits, Awaited
  <1> QED
    BY <1>8, <1>10 DEF BarInv

\* The registry is there: the page goes live, also when it has been left.
LEMMA RegistryKeeps ==
  ASSUME BarInv, NEW a \in Asks, Status!RegistryArrives(a)
  PROVE  BarInv'
  <1>1. BarTables /\ BarWaits /\ s2 \in ViewRecord /\ Awaited(s3[a]) /\ s3[a].kind = "registry"
    BY DEF BarInv, BarTables, Status!RegistryArrives, Awaited
  <1>2. (s2.phase = "closed" /\ s2.hasty) \/ s2.phase = "registry"
    BY <1>1 DEF BarWaits
  <1>3. PICK phase \in {"closed", "live"} : phase = IF s2.phase = "closed" THEN "closed" ELSE "live"
    OBVIOUS
  <1>4. PICK w : w = [s2 EXCEPT !.timer = TRUE, !.stream = TRUE, !.phase = phase]
    OBVIOUS
  <1>5. w.phase = phase /\ w.hasty = s2.hasty
    BY <1>1, <1>4 DEF ViewRecord
  <1>6. w \in ViewRecord
    BY <1>1, <1>4 DEF ViewRecord
  <1>7. s2' = w /\ s1' = s1 /\ s3' = [s3 EXCEPT ![a] = None]
    BY <1>3, <1>4 DEF Status!RegistryArrives, Status!Live
  <1>8. BarTables'
    BY <1>1, <1>6, <1>7 DEF BarTables
  <1>9. \A b \in Asks : ~Awaited(s3'[b])
    <2> SUFFICES ASSUME NEW b \in Asks PROVE ~Awaited(s3'[b])
      OBVIOUS
    <2>1. CASE b = a
      BY <1>1, <1>7, <2>1 DEF BarTables, Awaited
    <2>2. CASE b # a
      <3>1. s3'[b] = s3[b] /\ ~Awaited(s3[b])
        BY <1>1, <1>7, <2>2 DEF BarTables, BarWaits
      <3> QED
        BY <3>1
    <2> QED
      BY <2>1, <2>2
  <1>10. BarWaits'
    <2>1. /\ s2'.phase \in {"status", "registry"} => ~s2'.timer /\ ~s2'.stream
          /\ s2'.phase = "closed" /\ (s2'.timer \/ s2'.stream) => s2'.hasty
      BY <1>2, <1>3, <1>5, <1>7
    <2> QED
      BY <1>9, <2>1 DEF BarWaits, Awaited
  <1> QED
    BY <1>8, <1>10 DEF BarInv

\* A status arrives; after the first one the registry is asked for.
LEMMA StatusKeeps ==
  ASSUME BarInv, NEW a \in Asks, Status!StatusArrives(a)
  PROVE  BarInv'
  <1>1. /\ BarTables /\ BarWaits /\ s1 \in Status!SimStates /\ s2 \in ViewRecord
        /\ s2.shown \in Status!SimStates /\ s2.countdown \in 0 .. MaxSeconds /\ s2.inbox \in Seq(BOOLEAN)
    BY DEF BarInv, BarTables, ViewRecord
  <1>2. PICK r \in AskRecord : s3[a] = r /\ r # None /\ r.kind \in {"first", "status"}
    BY <1>1, AskRows DEF BarTables, Status!StatusArrives
  <1>3. PICK seconds \in Status!Countdowns(s2, r.says) :
          s2' = [IF r.answer = "ok" THEN Status!Loaded(s2, r.says, seconds) ELSE s2
                 EXCEPT !.phase = IF r.kind = "first" /\ @ = "status" THEN "registry" ELSE @]
    BY <1>2 DEF Status!StatusArrives
  <1>4. s1' = s1
        /\ s3' = [s3 EXCEPT ![a] = IF r.kind = "first" THEN Status!AskFor("registry", Status!Initially) ELSE None]
    BY <1>2 DEF Status!StatusArrives
  <1>5. seconds \in 0 .. MaxSeconds /\ r.says \in Status!SimStates
    BY <1>1, <1>3 DEF Status!Countdowns, AskRecord
  <1>6. PICK loaded \in ViewRecord :
          /\ loaded = IF r.answer = "ok" THEN Status!Loaded(s2, r.says, seconds) ELSE s2
          /\ loaded.phase = s2.phase /\ loaded.timer = s2.timer
          /\ loaded.stream = s2.stream /\ loaded.hasty = s2.hasty
    <2>1. PICK w : w = [s2 EXCEPT !.shown = r.says, !.countdown = seconds]
      OBVIOUS
    <2>2. w \in ViewRecord
      BY <1>1, <1>5, <2>1 DEF ViewRecord
    <2>3. w.phase = s2.phase /\ w.timer = s2.timer /\ w.stream = s2.stream /\ w.hasty = s2.hasty
      BY <1>1, <2>1 DEF ViewRecord
    <2>4. Status!Loaded(s2, r.says, seconds) = w
      BY <2>1 DEF Status!Loaded
    <2> QED
      BY <1>1, <2>2, <2>3, <2>4
  <1>7. PICK phase \in {"status", "registry", "live", "closed"} :
          phase = IF r.kind = "first" /\ s2.phase = "status" THEN "registry" ELSE s2.phase
    BY <1>1 DEF ViewRecord
  <1>8. PICK v : v = [loaded EXCEPT !.phase = phase]
    OBVIOUS
  <1>9. /\ v.phase = phase /\ v.timer = s2.timer /\ v.stream = s2.stream /\ v.hasty = s2.hasty
    BY <1>6, <1>8 DEF ViewRecord
  <1>10. v \in ViewRecord
    BY <1>6, <1>8 DEF ViewRecord
  <1>11. s2' = v
    BY <1>3, <1>6, <1>7, <1>8
  <1>12. CASE r.kind = "status"
    <2>1. v.phase = s2.phase
      BY <1>7, <1>9, <1>12
    <2>2. s3' = [s3 EXCEPT ![a] = None]
      BY <1>4, <1>12
    <2>3. s3' \in [Asks -> AskRecord \cup {None}]
      BY <1>1, <2>2 DEF BarTables
    <2>4. \A b \in Asks : Awaited(s3'[b]) => Awaited(s3[b]) /\ s3'[b].kind = s3[b].kind
      BY <1>1, <2>2 DEF BarTables, Awaited
    <2> QED
      BY <1>1, <1>4, <1>9, <1>10, <1>11, <2>1, <2>3, <2>4, BarKept
  <1>13. CASE r.kind = "first"
    <2>1. PICK n \in AskRecord : n = Status!AskFor("registry", Status!Initially) /\ n.kind = "registry"
      <3>1. "registry" \in Status!Reads \cup Status!Commands /\ Status!Initially \in Modes
        BY AskRows DEF Status!Reads
      <3> QED
        BY <1>1, <3>1, AskIsRow
    <2>2. s3' = [s3 EXCEPT ![a] = n] /\ n # None
      BY <1>4, <1>13, <2>1, AskRows
    <2>3. Awaited(s3[a]) /\ s3[a].kind = "first"
      BY <1>2, <1>13 DEF Awaited
    <2>4. (s2.phase = "closed" /\ s2.hasty) \/ s2.phase = "status"
      BY <1>1, <2>3 DEF BarWaits
    <2>5. (v.phase = "closed" /\ v.hasty) \/ v.phase = "registry"
      BY <1>7, <1>9, <1>13, <2>4
    <2>6. BarTables'
      BY <1>1, <1>4, <1>10, <1>11, <2>2 DEF BarTables
    <2>7. \A b \in Asks : Awaited(s3'[b]) => b = a
      <3> SUFFICES ASSUME NEW b \in Asks, Awaited(s3'[b]), b # a PROVE FALSE
        OBVIOUS
      <3>1. s3'[b] = s3[b]
        BY <1>1, <2>2 DEF BarTables
      <3> QED
        BY <1>1, <2>3, <3>1 DEF BarWaits
    <2>8. s3'[a] = n
      BY <1>1, <2>2 DEF BarTables
    <2>9. /\ v.phase \in {"status", "registry"} => ~v.timer /\ ~v.stream
          /\ v.phase = "closed" /\ (v.timer \/ v.stream) => v.hasty
      BY <1>1, <1>7, <1>9, <1>13, <2>4, <2>5 DEF BarWaits
    <2>10. BarWaits'
      BY <1>11, <2>1, <2>5, <2>7, <2>8, <2>9 DEF BarWaits, Awaited
    <2> QED
      BY <2>6, <2>10 DEF BarInv
  <1> QED
    BY <1>2, <1>12, <1>13

\* A command is answered: the copy follows it and the status is asked for.
LEMMA CommandKeeps ==
  ASSUME BarInv, NEW a \in Asks, Status!CommandAnswered(a)
  PROVE  BarInv'
  <1>1. /\ BarTables /\ s1 \in Status!SimStates /\ s2 \in ViewRecord
        /\ s2.shown \in Status!SimStates /\ s2.countdown \in 0 .. MaxSeconds /\ s2.inbox \in Seq(BOOLEAN)
    BY DEF BarInv, BarTables, ViewRecord
  <1>2. s1' = s1 /\ s3' = [s3 EXCEPT ![a] = Status!AskFor("status", Status!Initially)]
    BY DEF Status!CommandAnswered
  <1>3. PICK kind : s2' = Status!Applied(s2, kind) \/ s2' = s2
    BY DEF Status!CommandAnswered
  <1>4. PICK shown \in Status!SimStates, seconds \in 0 .. MaxSeconds :
          s2' = [s2 EXCEPT !.shown = shown, !.countdown = seconds]
    <2>1. CASE s2' = s2
      <3>1. s2 = [s2 EXCEPT !.shown = s2.shown, !.countdown = s2.countdown]
        BY <1>1 DEF ViewRecord
      <3> QED
        BY <1>1, <2>1, <3>1
    <2>2. CASE s2' = Status!Applied(s2, kind)
      <3>1. PICK begun : begun = [s2.shown EXCEPT !.running = TRUE]
        OBVIOUS
      <3>2. PICK stopped : stopped = [s2.shown EXCEPT !.running = FALSE]
        OBVIOUS
      <3>3. PICK held : held = [s2.shown EXCEPT !.paused = TRUE]
        OBVIOUS
      <3>4. PICK freed : freed = [s2.shown EXCEPT !.paused = FALSE]
        OBVIOUS
      <3>5. begun \in Status!SimStates /\ stopped \in Status!SimStates
        BY <1>1, <3>1, <3>2 DEF Status!SimStates
      <3>6. held \in Status!SimStates /\ freed \in Status!SimStates
        BY <1>1, <3>3, <3>4 DEF Status!SimStates
      <3>7. CASE kind = "start"
        <4>1. s2' = [s2 EXCEPT !.shown = begun]
          BY <1>1, <2>2, <3>1, <3>7 DEF Status!Applied, ViewRecord
        <4>2. [s2 EXCEPT !.shown = begun] = [s2 EXCEPT !.shown = begun, !.countdown = s2.countdown]
          BY <1>1 DEF ViewRecord
        <4> QED
          BY <1>1, <3>5, <4>1, <4>2
      <3>8. CASE kind = "stop"
        <4>1. s2' = [s2 EXCEPT !.shown = stopped]
          BY <1>1, <2>2, <3>2, <3>8 DEF Status!Applied, ViewRecord
        <4>2. [s2 EXCEPT !.shown = stopped] = [s2 EXCEPT !.shown = stopped, !.countdown = s2.countdown]
          BY <1>1 DEF ViewRecord
        <4> QED
          BY <1>1, <3>5, <4>1, <4>2
      <3>9. CASE kind = "pause"
        <4>1. s2' = [s2 EXCEPT !.shown = held, !.countdown = MaxSeconds]
          BY <1>1, <2>2, <3>3, <3>9 DEF Status!Applied, ViewRecord
        <4>2. MaxSeconds \in 0 .. MaxSeconds
          BY ControlAssumption
        <4> QED
          BY <3>6, <4>1, <4>2
      <3>10. CASE kind = "resume"
        <4>1. s2' = [s2 EXCEPT !.shown = freed, !.countdown = 0]
          BY <1>1, <2>2, <3>4, <3>10 DEF Status!Applied, ViewRecord
        <4>2. 0 \in 0 .. MaxSeconds
          BY ControlAssumption
        <4> QED
          BY <3>6, <4>1, <4>2
      <3>11. CASE kind \notin {"start", "stop", "pause", "resume"}
        <4>1. s2' = s2
          BY <2>2, <3>11 DEF Status!Applied
        <4>2. s2 = [s2 EXCEPT !.shown = s2.shown, !.countdown = s2.countdown]
          BY <1>1 DEF ViewRecord
        <4> QED
          BY <1>1, <4>1, <4>2
      <3> QED
        BY <3>7, <3>8, <3>9, <3>10, <3>11
    <2> QED
      BY <1>3, <2>1, <2>2
  <1>5. s2' \in ViewRecord
        /\ s2'.phase = s2.phase /\ s2'.timer = s2.timer /\ s2'.stream = s2.stream /\ s2'.hasty = s2.hasty
    <2>1. PICK w : w = [s2 EXCEPT !.shown = shown, !.countdown = seconds]
      OBVIOUS
    <2>2. w \in ViewRecord
      BY <1>1, <2>1 DEF ViewRecord
    <2>3. w.phase = s2.phase /\ w.timer = s2.timer /\ w.stream = s2.stream /\ w.hasty = s2.hasty
      BY <1>1, <2>1 DEF ViewRecord
    <2> QED
      BY <1>4, <2>1, <2>2, <2>3
  <1>7. PICK n \in AskRecord : n = Status!AskFor("status", Status!Initially) /\ n.kind = "status"
    <2>1. "status" \in Status!Reads \cup Status!Commands /\ Status!Initially \in Modes
      BY AskRows DEF Status!Reads
    <2> QED
      BY <1>1, <2>1, AskIsRow
  <1>8. s3' = [s3 EXCEPT ![a] = n]
    BY <1>2, <1>7
  <1>9. s3' \in [Asks -> AskRecord \cup {None}]
    BY <1>1, <1>8 DEF BarTables
  <1>10. \A b \in Asks : Awaited(s3'[b]) => Awaited(s3[b]) /\ s3'[b].kind = s3[b].kind
    BY <1>1, <1>7, <1>8 DEF BarTables, Awaited
  <1> QED
    BY <1>1, <1>2, <1>5, <1>9, <1>10, BarKept

\* The control bar keeps its invariant,
LEMMA BarKeeps ==
  ASSUME BarInv, Status!StatusNext
  PROVE  BarInv'
  BY ServingKeeps, AskingKeeps, CopyKeeps, LeaveKeeps, RegistryKeeps, StatusKeeps, CommandKeeps
     DEF Status!StatusNext

\* which says what is claimed of it.
LEMMA BarShows ==
  ASSUME BarInv
  PROVE  Status!StatusTypeOK /\ Status!OfficeClosesDown
  <1>1. s1 \in Status!SimStates /\ s2 \in ViewRecord /\ s3 \in [Asks -> AskRecord \cup {None}]
    BY DEF BarInv, BarTables
  <1>2. /\ s2.shown \in Status!SimStates /\ s2.countdown \in 0 .. MaxSeconds
        /\ s2.phase \in {"status", "registry", "live", "closed"}
        /\ {s2.timer, s2.stream, s2.hasty} \subseteq BOOLEAN
    BY <1>1 DEF ViewRecord
  <1>3. \A a \in Asks : s3[a] # None =>
          s3[a].kind \in Status!Reads \cup Status!Commands /\ s3[a].answer \in {"sent", "failed", "ok"}
    BY <1>1 DEF AskRecord
  <1> QED
    BY <1>1, <1>2, <1>3 DEF Status!StatusTypeOK, Status!OfficeClosesDown, BarInv, BarWaits

(***************************************************************************)
(* The scenes of the console.                                              *)
(***************************************************************************)

\* What a page stops doing when it is left it does not go on doing elsewhere: no
\* timer and no stream outlives a page that was left after its first loads, in
\* whatever order answers, events and clicks come (office, operations, sales,
\* modules and finops pages, onMount and onDestroy).
THEOREM PagesAlwaysCloseDown == MCSpec => []PagesCloseDown
  <1> DEFINE Kept == (scene = "pages" => WebInv) /\ (scene = "control bar" => BarInv)
  <1>1. MCInit => Kept
    BY PagesStart, BarStarts DEF MCInit
  <1>2. Kept /\ [MCNext]_all => Kept'
    <2> SUFFICES ASSUME Kept, [MCNext]_all PROVE Kept'
      OBVIOUS
    <2>1. scene' = scene
      BY DEF MCNext, all
    <2>2. ASSUME scene = "pages" PROVE WebInv'
      <3>1. WebInv
        BY <2>2
      <3>2. CASE UNCHANGED slots
        BY <3>1, <3>2 DEF slots, WebInv, WebTables, VisitsSound, LoadsSound, OneFirst
      <3>3. CASE ~(UNCHANGED slots)
        <4>1. Web!WebNext
          BY <2>2, <3>3 DEF MCNext, all
        <4> QED
          BY <3>1, <4>1, PagesKeep
      <3> QED
        BY <3>2, <3>3
    <2>3. ASSUME scene = "control bar" PROVE BarInv'
      <3>1. BarInv
        BY <2>3
      <3>2. CASE UNCHANGED slots
        BY <3>1, <3>2 DEF slots, BarInv, BarTables, BarWaits, Awaited
      <3>3. CASE ~(UNCHANGED slots)
        <4>1. Status!StatusNext
          BY <2>3, <3>3 DEF MCNext, all
        <4> QED
          BY <3>1, <4>1, BarKeeps
      <3> QED
        BY <3>2, <3>3
    <2> QED
      BY <2>1, <2>2, <2>3
  <1>3. Kept => PagesCloseDown
    BY PagesShow, BarShows DEF PagesCloseDown
  <1> QED
    BY <1>1, <1>2, <1>3, PTL DEF MCSpec

\* What an operator sees is what is there, where the pages can tell: the edited
\* office is the one a reload shows and every agent on it has a way home, accepted
\* records are listed, and what is made up stands for an answer that never came,
\* for any number of tabs' reloads, requests and edits in any order (office page,
\* module forms, and the handlers of the other pages).
THEOREM PagesAlwaysTruthful == MCSpec => []PagesTellTheTruth
  <1> DEFINE Kept == /\ scene = "stage" => StageInv
                     /\ scene = "forms" => FormInv
                     /\ scene = "handlers" => DeskInv
  <1>1. MCInit => Kept
    BY StageStarts, FormsStart, DeskStarts DEF MCInit
  <1>2. Kept /\ [MCNext]_all => Kept'
    <2> SUFFICES ASSUME Kept, [MCNext]_all PROVE Kept'
      OBVIOUS
    <2>1. scene' = scene
      BY DEF MCNext, all
    <2>2. ASSUME scene = "stage" PROVE StageInv'
      <3>1. StageInv
        BY <2>2
      <3>2. CASE UNCHANGED slots
        BY <3>1, <3>2 DEF slots, StageInv, StageTables, Office!LayoutSurvivesReload, Office!Shown,
                          Office!NobodyStaysAway
      <3>3. CASE ~(UNCHANGED slots)
        <4>1. Office!OfficeNext
          BY <2>2, <3>3 DEF MCNext, all
        <4> QED
          BY <3>1, <4>1, StageKeeps
      <3> QED
        BY <3>2, <3>3
    <2>3. ASSUME scene = "forms" PROVE FormInv'
      <3>1. FormInv
        BY <2>3
      <3>2. CASE UNCHANGED slots
        BY <3>1, <3>2 DEF slots, FormInv, FormTables, ReloadsNumbered, RequestHasForm, LatestFindsAll
      <3>3. CASE ~(UNCHANGED slots)
        <4>1. Forms!ConsoleNext
          BY <2>3, <3>3 DEF MCNext, all
        <4> QED
          BY <3>1, <4>1, FormsKeep
      <3> QED
        BY <3>2, <3>3
    <2>4. ASSUME scene = "handlers" PROVE DeskInv'
      <3>1. DeskInv
        BY <2>4
      <3>2. CASE UNCHANGED slots
        BY <3>1, <3>2 DEF slots, DeskInv, DeskTables, TicketsNamed, ServedWasBegun, ShownWasAnswered,
                          Desk!DetailsBelong, StakesHold, Waiting, With
      <3>3. CASE ~(UNCHANGED slots)
        <4>1. Desk!PagesNext
          BY <2>4, <3>3 DEF MCNext, all
        <4> QED
          BY <3>1, <4>1, HandlersKeep
      <3> QED
        BY <3>2, <3>3
    <2> QED
      BY <2>1, <2>2, <2>3, <2>4
  <1>3. Kept => PagesTellTheTruth
    BY StageShows, FormsShow, HandlersShow DEF PagesTellTheTruth
  <1> QED
    BY <1>1, <1>2, <1>3, PTL DEF MCSpec
=============================================================================
