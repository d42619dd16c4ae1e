----------------------------- MODULE AgentRegistry -----------------------------
(***************************************************************************)
(* The registry of agents and the trust they earn: AgentRegistryService    *)
(* over either repository, which agree.  Trust is in ten thousandths, the  *)
(* precision the service rounds to.  A registration and its trust profile  *)
(* are separate rows, read together.                                       *)
(***************************************************************************)
EXTENDS Integers

CONSTANTS
  Agents,        \* names of agents
  Reporters,     \* handlers under way
  Versions,      \* versions agents register with
  Confidences,   \* confidence of reported outcomes, in ten thousandths
  None

VARIABLES
  agent,         \* [Agents -> a registration or None]
  profile,       \* [Agents -> the trust profile or None]
  report,        \* [Reporters -> the local state of the handler]
  outcomes,      \* history: [Agents -> outcomes recorded]
  violations,    \* history: [Agents -> policy violations recorded]
  registered,    \* history: [Agents -> the version last registered, or None]
  met,           \* history: agents two handlers were at simultaneously
  adjusted       \* history: agents whose profile was set by hand

registryVars == <<agent, profile, report, outcomes, violations, registered, met, adjusted>>

One == 10000

InitialTrust ==
  [accuracy |-> 5000, consistency |-> 5000, calibration |-> 5000,
   historicalSuccessRate |-> 5000, failureRate |-> 0, policyViolations |-> 0,
   overallTrust |-> 5000, sampleCount |-> 0]

Auto == [version |-> "0.0.0", available |-> TRUE]

Unused == [pc |-> "idle", agent |-> None, row |-> None]

RegistryTypeOK ==
  /\ \A a \in Agents : agent[a] # None <=> profile[a] # None
  /\ \A a \in Agents : profile[a] # None => \A f \in DOMAIN profile[a] : profile[a][f] \in Nat
  /\ \A r \in Reporters : report[r].pc \in {"idle", "register", "availability", "auto", "profile"}

RegistryInit ==
  /\ agent = [a \in Agents |-> None]
  /\ profile = [a \in Agents |-> None]
  /\ report = [r \in Reporters |-> Unused]
  /\ outcomes = [a \in Agents |-> 0] /\ violations = [a \in Agents |-> 0]
  /\ registered = [a \in Agents |-> None]
  /\ met = {} /\ adjusted = {}

Enter(r, pc, a, row) ==
  /\ report[r] = Unused
  /\ report' = [report EXCEPT ![r] = [pc |-> pc, agent |-> a, row |-> row]]
  /\ met' = met \cup {x \in {a} : \E q \in Reporters : report[q].agent = x}

Exit(r) == report' = [report EXCEPT ![r] = Unused] /\ UNCHANGED met

-----------------------------------------------------------------------------
(* Registrations. *)

\* *Fault*: who registers again starts from no trust.
UpsertedAfresh(a, row) == agent' = [agent EXCEPT ![a] = row] /\ profile' = [profile EXCEPT ![a] = InitialTrust]

\* upsertAgent replaces a registration and leaves the profile that is there alone.
Upserted(a, row) ==
  /\ agent' = [agent EXCEPT ![a] = row]
  /\ profile' = [profile EXCEPT ![a] = IF @ = None THEN InitialTrust ELSE @]

\* registerAgent and updateAvailability change a copy of a registration; the first
\* makes one if there is none.
RegisterAgent(r, a, version) ==
  /\ Enter(r, "register", a,
           IF agent[a] = None THEN [version |-> version, available |-> TRUE]
                              ELSE [agent[a] EXCEPT !.version = version])
  /\ UNCHANGED <<agent, profile, outcomes, violations, registered, adjusted>>

UpdateAvailability(r, a, available) ==
  /\ agent[a] # None
  /\ Enter(r, "availability", a, [agent[a] EXCEPT !.available = available])
  /\ UNCHANGED <<agent, profile, outcomes, violations, registered, adjusted>>

SaveAgent(r) ==
  LET a == report[r].agent
      row == report[r].row
  IN /\ report[r].pc \in {"register", "availability"}
     /\ Upserted(a, row)
     /\ registered' = IF report[r].pc = "register" THEN [registered EXCEPT ![a] = row.version]
                                                   ELSE registered
     /\ Exit(r)
     /\ UNCHANGED <<outcomes, violations, adjusted>>

-----------------------------------------------------------------------------
(* Trust. *)

\* An exponential average that moves a fifth of the way, in hundred thousandths ...
Moved(x, target) == 8 * x + 2 * target

\* ... and rounded.
Rounded(x) == (x + 5) \div 10

Score(outcome) == IF outcome.success THEN One ELSE 0

CalibrationScore(outcome) ==
  IF outcome.success THEN outcome.confidence ELSE One - outcome.confidence

ConsistencyScore(outcome) ==
  IF outcome.success THEN IF outcome.confidence >= 5000 THEN One ELSE 7000
                     ELSE IF outcome.confidence <= 5000 THEN 7000 ELSE 2000

Clamped(x) == IF x < 0 THEN 0 ELSE IF x > One THEN One ELSE x

\* The profile after one more outcome.
Learnt(p, outcome) ==
  LET accuracy == Moved(p.accuracy, Score(outcome))
      historical == Moved(p.historicalSuccessRate, Score(outcome))
      calibration == Moved(p.calibration, CalibrationScore(outcome))
      consistency == Moved(p.consistency, ConsistencyScore(outcome))
      broken == p.policyViolations + (IF outcome.violation THEN 1 ELSE 0)
      weighted == 3 * accuracy + 2 * consistency + 2 * calibration + 3 * historical
  IN [accuracy |-> Rounded(accuracy), consistency |-> Rounded(consistency),
      calibration |-> Rounded(calibration), historicalSuccessRate |-> Rounded(historical),
      failureRate |-> Rounded(Moved(p.failureRate, One - Score(outcome))),
      policyViolations |-> broken,
      overallTrust |-> Clamped((weighted - 50000 * broken + 50) \div 100),
      sampleCount |-> p.sampleCount + 1]

\* recordTrustOutcome of an agent nobody knows registers it first, over a
\* registration made meanwhile ...
RecordUnknown(r, a, outcome) ==
  /\ agent[a] = None
  /\ Enter(r, "auto", a, outcome)
  /\ UNCHANGED <<agent, profile, outcomes, violations, registered, adjusted>>

AutoRegister(r) ==
  LET a == report[r].agent IN
  /\ report[r].pc = "auto"
  /\ Upserted(a, Auto)
  /\ report' = [report EXCEPT ![r].pc = "profile",
                              ![r].row = [profile |-> Learnt(profile'[a], @), of |-> @]]
  /\ UNCHANGED <<outcomes, violations, registered, met, adjusted>>

\* ... of any other it reads the profile ...
RecordTrustOutcome(r, a, outcome) ==
  /\ agent[a] # None
  /\ Enter(r, "profile", a, [profile |-> Learnt(profile[a], outcome), of |-> outcome])
  /\ UNCHANGED <<agent, profile, outcomes, violations, registered, adjusted>>

\* ... and writes it back.
SaveProfile(r) ==
  LET a == report[r].agent
      done == report[r].row
  IN /\ report[r].pc = "profile"
     /\ profile' = [profile EXCEPT ![a] = done.profile]
     /\ IF done.of = None
          THEN adjusted' = adjusted \cup {a} /\ UNCHANGED <<outcomes, violations>>
          ELSE /\ outcomes' = [outcomes EXCEPT ![a] = @ + 1]
               /\ violations' = [violations EXCEPT ![a] =
                                   @ + (IF done.of.violation THEN 1 ELSE 0)]
               /\ UNCHANGED adjusted
     /\ Exit(r)
     /\ UNCHANGED <<agent, registered>>

\* updateTrustProfile sets fields and, if it is not given the trust, computes it.
WeightedTrust(p) ==
  Clamped((3 * p.accuracy + 2 * p.consistency + 2 * p.calibration
             + 3 * p.historicalSuccessRate - 5000 * p.policyViolations + 5) \div 10)

UpdateTrustProfile(r, a, accuracy) ==
  LET set == [profile[a] EXCEPT !.accuracy = accuracy]
  IN /\ agent[a] # None
     /\ Enter(r, "profile", a,
              [profile |-> [set EXCEPT !.overallTrust = WeightedTrust(set)], of |-> None])
     /\ UNCHANGED <<agent, profile, outcomes, violations, registered, adjusted>>

-----------------------------------------------------------------------------
Outcomes == [success : BOOLEAN, confidence : Confidences, violation : BOOLEAN]

RegistryNext ==
  \E r \in Reporters :
    \/ \E a \in Agents :
         \/ \E v \in Versions : RegisterAgent(r, a, v)
         \/ \E available \in BOOLEAN : UpdateAvailability(r, a, available)
         \/ \E outcome \in Outcomes : RecordUnknown(r, a, outcome) \/ RecordTrustOutcome(r, a, outcome)
         \/ \E accuracy \in Confidences : UpdateTrustProfile(r, a, accuracy)
    \/ SaveAgent(r) \/ AutoRegister(r) \/ SaveProfile(r)

RegistrySpec == RegistryInit /\ [][RegistryNext]_registryVars

-----------------------------------------------------------------------------
(* Properties. *)

\* The trust of an agent no two handlers were at simultaneously and nobody set by
\* hand is that of all its outcomes, through every registration: each counts, each
\* violation costs a twentieth for good, the rates of success and failure
\* stay complementary; and an agent keeps the version it registered with.
TrustIsEarned ==
  \A a \in Agents : a \notin met /\ agent[a] # None =>
    /\ agent[a].version = IF registered[a] = None THEN Auto.version ELSE registered[a]
    /\ a \notin adjusted =>
         LET p == profile[a] IN
         /\ p.sampleCount = outcomes[a] /\ p.policyViolations = violations[a]
         /\ p.overallTrust <= Clamped(One - 500 * violations[a])
         /\ p.accuracy = p.historicalSuccessRate
         /\ p.historicalSuccessRate + p.failureRate \in 5000 .. One + 1
=============================================================================
