------------------------------ MODULE Experiments ------------------------------
(***************************************************************************)
(* Experiment runs and their comparisons                                   *)
(* (modules/experiment: ExperimentService, SandboxedReplayService, the     *)
(* replay route of ExperimentController and both repositories).            *)
(*                                                                         *)
(* A run is named after the call that makes it and counts tokens only; its *)
(* duration, its cost and its counters of conflicts are compared the same  *)
(* way.  A sandboxed replay makes a scenario of its own, named like it.    *)
(***************************************************************************)
EXTENDS Integers, FiniteSets

CONSTANTS Calls, Scenarios, LiveTokens, FallbackTokens, MaxCrashes, None

VARIABLES storage,    \* "memory" or "prisma"
          scenarios,  \* the scenarios stored
          runs,       \* [Calls -> the run of the call as stored, or None]
          call,       \* [Calls -> the local state of the call]
          audits,     \* EXPERIMENT_RUN_COMPLETED records of each call's run
          crashes

experimentVars == <<storage, scenarios, runs, call, audits, crashes>>
stored == <<storage, scenarios, runs, audits, crashes>>

ExperimentMode == {"DETERMINISTIC", "PROPOSED"}
Run == [scenario : Scenarios \cup Calls, mode : ExperimentMode,
        status : {"RUNNING", "COMPLETED"}, tokens : Nat, at : Nat, replayOf : Calls \cup {None}]

\* base and cand are the runs compared; early, that one was still RUNNING when read.
Unused == [kind |-> "none", pc |-> "idle", scenario |-> None, mode |-> None, replayOf |-> None,
           tokens |-> 0, base |-> None, cand |-> None, baseTokens |-> 0, early |-> FALSE,
           delta |-> None]

ExperimentInit ==
  /\ storage \in {"memory", "prisma"}
  /\ scenarios = {} /\ runs = [c \in Calls |-> None] /\ call = [c \in Calls |-> Unused]
  /\ audits = [c \in Calls |-> 0] /\ crashes = 0

CreateScenario(s) ==
  /\ s \notin scenarios /\ scenarios' = scenarios \cup {s}
  /\ UNCHANGED <<storage, runs, call, audits, crashes>>

Goes(c, change) == call' = [call EXCEPT ![c] = change]
Begin(c, start) == call[c] = Unused /\ Goes(c, start) /\ UNCHANGED stored

(***************************************************************************)
(* The requests.  A run's mode may be left out; a replay's may not.        *)
(***************************************************************************)
BeginRun(c, s, mode) ==
  Begin(c, [Unused EXCEPT !.kind = "run", !.pc = "scenario", !.scenario = s, !.mode = mode])

BeginReplayRun(c, r) ==
  Begin(c, [Unused EXCEPT !.kind = "run", !.pc = "original", !.replayOf = r])

\* Without a source the definition comes with the request.
BeginSandboxed(c, source, mode) ==
  Begin(c, [Unused EXCEPT !.kind = "sandboxed", !.scenario = source, !.mode = mode,
                          !.pc = IF source = None THEN "sandbox" ELSE "source"])

BeginCompare(c, base, cand) ==
  Begin(c, [Unused EXCEPT !.kind = "compare", !.pc = "both", !.base = base, !.cand = cand,
                          !.delta = 0])

\* Not found.
Refused(c) == Goes(c, [call[c] EXCEPT !.pc = "refused"])

ReplayRun(c) ==
  LET original == runs[call[c].replayOf] IN
  /\ call[c].pc = "original"
  /\ IF original = None THEN Refused(c)
     ELSE Goes(c, [call[c] EXCEPT !.pc = "scenario", !.scenario = original.scenario,
                                  !.mode = original.mode])
  /\ UNCHANGED stored

(***************************************************************************)
(* The replay: its source, the run to compare with as it is now, and the   *)
(* scenario it will run.                                                   *)
(***************************************************************************)
FindSource(c) ==
  /\ call[c].pc = "source"
  /\ IF call[c].scenario \in scenarios THEN Goes(c, [call[c] EXCEPT !.pc = "baseline"])
                                       ELSE Refused(c)
  /\ UNCHANGED stored

Of(s) == {r \in Calls : runs[r] # None /\ runs[r].scenario = s}
Newest(S) == CHOOSE r \in S : \A q \in S : runs[q].at <= runs[r].at
Oldest(S) == CHOOSE r \in S : \A q \in S : runs[q].at >= runs[r].at

\* The newest deterministic run, else the first the repository lists.
Baseline(s) ==
  LET deterministic == {r \in Of(s) : runs[r].mode = "DETERMINISTIC"}
  IN  IF deterministic # {} THEN Newest(deterministic)
      ELSE IF Of(s) = {} THEN None
      ELSE IF storage = "memory" THEN Oldest(Of(s)) ELSE Newest(Of(s))

\* A copy of the run compared with, finished or not.
WithBase(q, r) == [q EXCEPT !.base = r, !.baseTokens = runs[r].tokens,
                            !.early = runs[r].status = "RUNNING"]

FindBaseline(c) ==
  LET r == Baseline(call[c].scenario)
      q == IF r = None THEN call[c] ELSE WithBase(call[c], r)
  IN /\ call[c].pc = "baseline"
     /\ Goes(c, [q EXCEPT !.pc = "sandbox"])
     /\ UNCHANGED stored

CreateSandbox(c) ==
  /\ call[c].pc = "sandbox"
  /\ scenarios' = scenarios \cup {c}
  /\ Goes(c, [call[c] EXCEPT !.pc = "scenario", !.scenario = c])
  /\ UNCHANGED <<storage, runs, audits, crashes>>

(***************************************************************************)
(* runScenario.                                                            *)
(***************************************************************************)
GetScenario(c) ==
  /\ call[c].pc = "scenario"
  /\ IF call[c].scenario \in scenarios THEN Goes(c, [call[c] EXCEPT !.pc = "create"])
                                       ELSE Refused(c)
  /\ UNCHANGED stored

\* *Fault*: whatever its mode, a run asks the model.
AsksAlways(mode) == TRUE

\* The mode as requested decides, and not the mode the run is stored with.
AsksTheModel(mode) == mode # "DETERMINISTIC"

\* PostgreSQL has no column for the run replayed.
CreateRun(c) ==
  /\ call[c].pc = "create"
  /\ runs' = [runs EXCEPT ![c] =
       [scenario |-> call[c].scenario, status |-> "RUNNING", tokens |-> 0,
        mode |-> IF call[c].mode = None THEN "DETERMINISTIC" ELSE call[c].mode,
        at |-> Cardinality({r \in Calls : runs[r] # None}),
        replayOf |-> IF storage = "memory" THEN call[c].replayOf ELSE None]]
  /\ Goes(c, [call[c] EXCEPT !.pc = IF AsksTheModel(call[c].mode) THEN "complete" ELSE "update"])
  /\ UNCHANGED <<storage, scenarios, audits, crashes>>

\* A model that does not answer is made up for: no run ever fails.
Complete(c) ==
  /\ call[c].pc = "complete"
  /\ \E n \in {LiveTokens, FallbackTokens} :
       Goes(c, [call[c] EXCEPT !.pc = "update", !.tokens = n])
  /\ UNCHANGED stored

\* A sandboxed replay then compares the run with the copy it kept.
UpdateRun(c) ==
  /\ call[c].pc = "update"
  /\ runs' = [runs EXCEPT ![c].status = "COMPLETED", ![c].tokens = call[c].tokens]
  /\ audits' = [audits EXCEPT ![c] = @ + 1]
  /\ Goes(c, [call[c] EXCEPT !.pc = "done", !.cand = c,
                !.delta = IF call[c].base = None THEN None
                          ELSE call[c].tokens - call[c].baseTokens])
  /\ UNCHANGED <<storage, scenarios, crashes>>

\* The database refuses a write: the call ends, and the run stays as it is.
WriteFails(c) ==
  /\ storage = "prisma" /\ call[c].pc \in {"sandbox", "create", "update"}
  /\ Refused(c) /\ UNCHANGED stored

(***************************************************************************)
(* compareRuns reads both runs at once: either may be read first.          *)
(***************************************************************************)
Read(c, which, other, r, sign) ==
  /\ call[c].pc \in {"both", which}
  /\ IF runs[r] = None THEN Refused(c)
     ELSE Goes(c, [call[c] EXCEPT !.pc = IF @ = "both" THEN other ELSE "done",
                                  !.early = @ \/ runs[r].status = "RUNNING",
                                  !.delta = @ + sign * runs[r].tokens])
  /\ UNCHANGED stored

ReadBase(c) == Read(c, "base", "candidate", call[c].base, -1)
ReadCandidate(c) == Read(c, "candidate", "base", call[c].cand, 1)

\* Calls end where they are; what was only in memory is gone, with what was told of it.
Crash ==
  /\ crashes < MaxCrashes /\ crashes' = crashes + 1
  /\ call' = [c \in Calls |-> IF call[c] = Unused THEN Unused
                              ELSE [call[c] EXCEPT !.pc = "lost", !.delta = None]]
  /\ IF storage = "memory"
     THEN scenarios' = {} /\ runs' = [c \in Calls |-> None] /\ audits' = [c \in Calls |-> 0]
     ELSE UNCHANGED <<scenarios, runs, audits>>
  /\ UNCHANGED storage

ExperimentStep(c) ==
  \/ ReplayRun(c) \/ FindSource(c) \/ FindBaseline(c) \/ CreateSandbox(c) \/ GetScenario(c)
  \/ CreateRun(c) \/ Complete(c) \/ UpdateRun(c) \/ WriteFails(c)
  \/ ReadBase(c) \/ ReadCandidate(c)

ExperimentNext ==
  \/ \E s \in Scenarios : CreateScenario(s)
  \/ \E c \in Calls :
       \/ ExperimentStep(c)
       \/ \E s \in Scenarios, mode \in ExperimentMode \cup {None} : BeginRun(c, s, mode)
       \/ \E s \in Scenarios \cup {None}, mode \in ExperimentMode : BeginSandboxed(c, s, mode)
       \/ \E r \in Calls \ {c} : BeginReplayRun(c, r)
       \/ \E r \in Calls \ {c}, q \in Calls \ {c} : BeginCompare(c, r, q)
  \/ Crash

ExperimentSpec == ExperimentInit /\ [][ExperimentNext]_experimentVars

(***************************************************************************)
(* Properties.                                                             *)
(***************************************************************************)
ExperimentTypeOK ==
  /\ storage \in {"memory", "prisma"} /\ scenarios \subseteq Scenarios \cup Calls
  /\ runs \in [Calls -> Run \cup {None}] /\ DOMAIN call = Calls
  /\ audits \in [Calls -> 0..1] /\ crashes \in 0..MaxCrashes

\* A run still RUNNING whose call has ended was left by a crash or by a write that
\* failed: nothing will ever finish it, and it may be the baseline of every later
\* replay.  Runs that finished, and no others, are in the audit log (runScenario).
RunsFinishOrWereLeft ==
  \A c \in Calls : runs[c] # None =>
    /\ audits[c] = (IF runs[c].status = "COMPLETED" THEN 1 ELSE 0)
    /\ runs[c].status = "RUNNING" => call[c].pc \notin {"idle", "done"}

\* A run stored as DETERMINISTIC cost no tokens, unless its request named no mode:
\* then it asked the model all the same (runScenario).
DeterministicIsFree ==
  \A c \in Calls : runs[c] # None =>
    (runs[c].mode = "DETERMINISTIC" /\ runs[c].tokens > 0 => call[c].mode = None)

\* What a comparison said stays true of the runs it compared, unless it read one of
\* them before it had finished (compareRuns, executeSandboxedReplay).
ComparisonsStand ==
  \A c \in Calls :
    call[c].pc = "done" /\ call[c].delta # None /\ ~call[c].early =>
      call[c].delta = runs[call[c].cand].tokens - runs[call[c].base].tokens
===============================================================================
