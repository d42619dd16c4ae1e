------------------------------ MODULE MCConsole ------------------------------
(***************************************************************************)
(* The rate-limit supervisor, and the pages on which operators follow and  *)
(* steer the platform, one scene at a time.  RateLimit keeps its variables;*)
(* the pages take the slots s1, s2, ... in turn, as INSTANCE lists them.   *)
(***************************************************************************)
EXTENDS RateLimit

CONSTANTS Scenes, None,
          Visits, Calls, Parts,
          Changing,                       \* the endpoint whose answer changes
          MaxChanges, MaxFailures, MaxClicks, FeedLimit,
          Staff, Furniture, Coffee, Side, MaxTrips, MaxEdits,
          Asks, Modes, MaxSeconds, MaxCommands, MaxLost,
          Tabs, Reloads, MaxReloads,
          Tickets, Requests, MaxRequests

VARIABLES scene, s1, s2, s3, s4, s5, s6, s7, s8, s9, s10, s11, s12, s13, s14

slots == <<s1, s2, s3, s4, s5, s6, s7, s8, s9, s10, s11, s12, s13, s14>>
all == <<vars, scene, slots>>

Web == INSTANCE WebPages WITH
  version <- s1, visit <- s2, call <- s3, failures <- s4, clicks <- s5

Office == INSTANCE VirtualOffice WITH
  home <- s1, current <- s2, target <- s3, walking <- s4, place <- s5, returning <- s6,
  editing <- s7, dragging <- s8, selected <- s9, layout <- s10, cut <- s11, refused <- s12,
  trips <- s13, edits <- s14

Status == INSTANCE OfficeStatus WITH
  sim <- s1, view <- s2, ask <- s3, commands <- s4, changes <- s5, lost <- s6

Forms == INSTANCE ConsoleForms WITH
  store <- s1, shown <- s2, loading <- s3, reload <- s4, form <- s5, picked <- s6,
  posted <- s7, accepted <- s8, newest <- s9, spoiled <- s10, reloads <- s11, failures <- s12

Desk == INSTANCE OperatorPages WITH
  stored <- s1, results <- s2, selected <- s3, details <- s4, board <- s5, busy <- s6,
  request <- s7, begun <- s8, unmet <- s9, astray <- s10,
  assigned <- s11, listed <- s12, atStake <- s13

\* What the proofs ask of the bounds: None is no value of anything it stands for.
ASSUME PageAssumption ==
  /\ MaxChanges \in Nat /\ MaxFailures \in Nat /\ MaxClicks \in Nat /\ FeedLimit \in Nat
  /\ None \notin [visit : Visits, first : BOOLEAN,
                 answer : [Parts -> {Web!Unread, Web!Failed} \cup 0 .. MaxChanges]]

ASSUME StageAssumption ==
  /\ Side \in Nat /\ MaxTrips \in Nat /\ MaxEdits \in Nat
  /\ Coffee \in Furniture /\ None \notin Staff \cup Furniture

ASSUME ControlAssumption ==
  /\ Modes # {} /\ MaxSeconds \in Nat \ {0}
  /\ None \notin [kind : Status!Reads \cup Status!Commands, mode : Modes,
                 answer : {"sent", "failed", "ok"}, says : Status!SimStates]

ASSUME FormAssumption ==
  /\ MaxReloads \in Nat \ {0} /\ None \notin {"sent", "accepted", "rejected"}
  /\ None \notin Forms!Forms
  /\ None \notin [n : Nat, before : SUBSET Forms!Lists]

ASSUME DeskAssumption ==
  /\ IsFiniteSet(Requests) /\ MaxRequests \in Nat
  /\ None \notin [kind : Desk!Kinds \cup {"details", "comment", "assign", "list"},
                 ticket : Tickets \cup {None}, answer : {"sent", "ok", "failed"},
                 comments : Nat, rows : SUBSET Tickets]

\* None given, shorter than the default, and longer than it.
MCRetryAfters == {0, 1, 3}

-----------------------------------------------------------------------------
\* Slots a scene leaves unused.
NoneTo5 == s1 = None /\ s2 = None /\ s3 = None /\ s4 = None /\ s5 = None
None6 == s6 = None
None7To10 == s7 = None /\ s8 = None /\ s9 = None /\ s10 = None
None11To12 == s11 = None /\ s12 = None
NoneFrom13 == s13 = None /\ s14 = None
from13 == <<s13, s14>>
from11 == <<s11, s12, from13>>
from7 == <<s7, s8, s9, s10, from11>>
from6 == <<s6, from7>>

MCInit ==
  /\ scene \in Scenes
  /\ Init
  /\ \/ scene = "supervisor" /\ NoneTo5 /\ None6 /\ None7To10 /\ None11To12 /\ NoneFrom13
     \/ scene = "pages" /\ Web!WebInit /\ None6 /\ None7To10 /\ None11To12 /\ NoneFrom13
     \/ scene = "stage" /\ Office!OfficeInit
     \/ scene = "control bar" /\ Status!StatusInit /\ None7To10 /\ None11To12 /\ NoneFrom13
     \/ scene = "forms" /\ Forms!ConsoleInit /\ NoneFrom13
     \/ scene = "handlers" /\ Desk!PagesInit /\ s14 = None

\* On the pages one endpoint changes; which one makes no difference.
MCNext ==
  /\ UNCHANGED scene
  /\ \/ scene = "supervisor" /\ Next /\ UNCHANGED slots
     \/ /\ UNCHANGED vars
        /\ \/ scene = "pages" /\ Web!WebNext /\ (\A p \in Parts \ {Changing} : s1'[p] = 0) /\ UNCHANGED from6
           \/ scene = "stage" /\ Office!OfficeNext
           \/ scene = "control bar" /\ Status!StatusNext /\ UNCHANGED from7
           \/ scene = "forms" /\ Forms!ConsoleNext /\ UNCHANGED from13
           \/ scene = "handlers" /\ Desk!PagesNext /\ UNCHANGED s14

MCSpec == MCInit /\ [][MCNext]_all

-----------------------------------------------------------------------------
(* The fairness of FairSpec, WebSpec, OfficeSpec and StatusSpec, each in its scene. *)

Supervised(Step) == scene = "supervisor" /\ Step /\ UNCHANGED <<scene, slots>>
Browsed(Step) == scene = "pages" /\ Step /\ UNCHANGED <<vars, scene, from6>>
Staged(Step) == scene = "stage" /\ Step /\ UNCHANGED <<vars, scene>>
Steered(Step) == scene = "control bar" /\ Step /\ UNCHANGED <<vars, scene, from7>>

MCFairSpec ==
  /\ MCSpec
  /\ WF_all(Supervised(Tick))
  /\ WF_all(Supervised(\E t \in timeouts : TimerFires(t)))
  /\ \A v \in Visits : WF_all(Browsed(Web!Poll(v)))
  /\ \A c \in Calls : /\ WF_all(Browsed(Web!Arrive(c)))
                      /\ \A p \in Parts : WF_all(Browsed(Web!Answer(c, p)))
  /\ WF_all(Staged(Office!UpdateAgentMovement))
  /\ \A a \in Staff : WF_all(Staged(Office!ReturnTimer(a)))
  /\ WF_all(Steered(Status!Poll)) /\ WF_all(Steered(Status!CountdownTick))
  /\ WF_all(Steered(Status!HandleEvent))
  /\ \A a \in Asks : WF_all(Steered(\/ Status!Serve(a) \/ Status!StatusArrives(a)
                                    \/ Status!RegistryArrives(a) \/ Status!CommandAnswered(a)))

-----------------------------------------------------------------------------
(* Properties of the pages, each in the scene it speaks of. *)

\* A page that is left stops polling and listening, unless it was left before the
\* loads its onMount awaits were back (onDestroy of office, operations, sales,
\* modules and finops).
PagesCloseDown ==
  /\ scene = "pages" => Web!WebTypeOK /\ Web!NothingOutlivesAPage
  /\ scene = "control bar" => Status!StatusTypeOK /\ Status!OfficeClosesDown

\* Pages come to show what the platform is: polling pages for good, the office's
\* control bar again and again; and its agents come home.
PagesCatchUp ==
  /\ <>[](scene = "pages" => Web!CaughtUp)
  /\ <>[](scene = "stage" => Office!AllHome)
  /\ []<>(scene = "control bar" => Status!InStep)

\* The office as edited is the office a reload shows, and no agent is stranded on it
\* (office page); what the pages list is stored, what they make up stands for an
\* answer that never came, and details are those of the selected ticket -- where
\* their handlers can tell (console, tickets, agents, workflows and experiments pages).
PagesTellTheTruth ==
  /\ scene = "stage" => /\ Office!OfficeTypeOK /\ Office!LayoutSurvivesReload
                        /\ Office!NobodyStaysAway
  /\ scene = "forms" => Forms!ConsoleTypeOK /\ Forms!AcceptedIsListed
  /\ scene = "handlers" => /\ Desk!PagesTypeOK /\ Desk!MadeUpOnlyUnmet
                           /\ Desk!DetailsBelong /\ Desk!AssignedWasSelected
=============================================================================
