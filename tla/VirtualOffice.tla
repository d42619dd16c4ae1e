---------------------------- MODULE VirtualOffice ----------------------------
(***************************************************************************)
(* The stage of the virtual office page                                    *)
(* (apps/web/src/routes/office/+page.svelte): where every agent is at home,*)
(* stands and heads for, the timers that send a travelling agent back, and *)
(* the layout editor, which moves agents and furniture by dragging, nudging*)
(* or resetting and keeps the layout in the browser's storage.             *)
(*                                                                         *)
(* The percent coordinates are the points of a square of side Side; a      *)
(* piece's width and height are edited and stored like its place and are   *)
(* left out.  Trips and Edits bound how often each kind of thing happens.  *)
(***************************************************************************)
EXTENDS Integers, FiniteSets

CONSTANTS Staff, Furniture, Coffee, Side, MaxTrips, MaxEdits, None

VARIABLES home, current, target,  \* agents[id].homeX/Y, currentX/Y, targetX/Y
          walking,                \* agents[id].isWalking, as the last frame left it
          place,                  \* FURNITURE_LIST
          returning,              \* the pending return timers of each agent
          editing, dragging, selected,
          layout,                 \* localStorage: the stored pieces, if any
          cut,                    \* a drag was cut off by leaving edit mode, unsaved since
          refused,                \* the last write to the storage failed
          trips, edits

officeVars == <<home, current, target, walking, place, returning, editing, dragging,
                selected, layout, cut, refused, trips, edits>>

Axes == {"x", "y"}
Point == [Axes -> 0..Side]
Pieces == Staff \cup Furniture

\* DEFAULT_FURNITURE and DEFAULT_AGENT_POSITIONS: agents in one corner, furniture in the other.
Default == [p \in Pieces |-> [k \in Axes |-> IF p \in Staff THEN 0 ELSE Side]]

\* What the page shows of a stored layout: what is stored, else the default (an
\* old layout holds the furniture only, an unreadable one nothing).
Loaded(stored) == [p \in Pieces |-> IF p \in DOMAIN stored THEN stored[p] ELSE Default[p]]

\* The layout the page shows and would store.
Shown == [p \in Pieces |-> IF p \in Staff THEN home[p] ELSE place[p]]

NothingStored == [p \in {} |-> Default[p]]
Clamped(n) == IF n < 0 THEN 0 ELSE IF n > Side THEN Side ELSE n

OfficeTypeOK ==
  /\ {home, current, target} \subseteq [Staff -> Point]
  /\ place \in [Furniture -> Point]
  /\ walking \in [Staff -> BOOLEAN] /\ returning \in [Staff -> 0..MaxTrips]
  /\ {editing, cut, refused} \subseteq BOOLEAN
  /\ {dragging, selected} \subseteq Pieces \cup {None}
  /\ \E stored \in SUBSET Pieces : layout \in [stored -> Point]
  /\ trips \in 0..MaxTrips /\ edits \in 0..MaxEdits

(***************************************************************************)
(* onMount: loadSavedLayout, before anything moves.                        *)
(***************************************************************************)
Opened(stored) ==
  /\ home' = [a \in Staff |-> Loaded(stored)[a]] /\ current' = home' /\ target' = home'
  /\ place' = [f \in Furniture |-> Loaded(stored)[f]]
  /\ walking' = [a \in Staff |-> FALSE] /\ returning' = [a \in Staff |-> 0]
  /\ editing' = FALSE /\ dragging' = None /\ selected' = None
  /\ cut' = FALSE /\ refused' = FALSE

OldLayout == [f \in Furniture |-> [k \in Axes |-> 0]]

OfficeInit ==
  /\ layout \in {NothingStored, OldLayout}
  /\ home = [a \in Staff |-> Loaded(layout)[a]] /\ current = home /\ target = home
  /\ place = [f \in Furniture |-> Loaded(layout)[f]]
  /\ walking = [a \in Staff |-> FALSE] /\ returning = [a \in Staff |-> 0]
  /\ editing = FALSE /\ dragging = None /\ selected = None
  /\ cut = FALSE /\ refused = FALSE /\ trips = 0 /\ edits = 0

\* The page is loaded again from what the browser keeps.
Reload ==
  /\ edits < MaxEdits /\ edits' = edits + 1
  /\ Opened(layout)
  /\ UNCHANGED <<layout, trips>>

stage == <<place, editing, dragging, selected, layout, cut, refused, edits>>

(***************************************************************************)
(* Trips.  Each one sets a return timer of its own; the timers of earlier  *)
(* trips keep running, and when one fires the agent turns round, wherever  *)
(* the latest trip was going.                                              *)
(***************************************************************************)
TimersAfter(a) == [returning EXCEPT ![a] = @ + 1]

TriggerAgentMovement(a, destination) ==
  /\ trips < MaxTrips /\ trips' = trips + 1
  /\ target' = [target EXCEPT ![a] = destination]
  /\ returning' = TimersAfter(a)
  /\ UNCHANGED <<home, current, walking, stage>>

\* getStandingSpot: in front of the piece, up to a jitter.
StandingSpot(f) == place[f]

\* cycleRandomAgentThought's coffee trip, of an agent the last frame did not see walking.
CycleRandomAgentThought(a) == ~walking[a] /\ TriggerAgentMovement(a, StandingSpot(Coffee))

DispatchAgentTo(a, f) == TriggerAgentMovement(a, StandingSpot(f))

\* In edit mode the click selects the piece.
HandleFurnitureClick(a, f) == ~editing /\ TriggerAgentMovement(a, StandingSpot(f))

\* handleEvent: an event with a target sends its actor half-way.
HandleEventTrip(a, b) ==
  /\ a # b
  /\ TriggerAgentMovement(a, [k \in Axes |-> (home[a][k] + home[b][k]) \div 2])

ReturnTimer(a) ==
  /\ returning[a] > 0
  /\ returning' = [returning EXCEPT ![a] = @ - 1]
  /\ target' = [target EXCEPT ![a] = home[a]]
  /\ UNCHANGED <<home, current, walking, trips, stage>>

\* updateAgentMovement: one animation frame moves every agent towards its target.
Towards(from, to) ==
  [k \in Axes |-> from[k] + (IF from[k] < to[k] THEN 1 ELSE IF from[k] > to[k] THEN -1 ELSE 0)]

UpdateAgentMovement ==
  /\ current' = [a \in Staff |-> Towards(current[a], target[a])]
  /\ walking' = [a \in Staff |-> current[a] # target[a]]
  /\ UNCHANGED <<home, target, returning, trips, stage>>

(***************************************************************************)
(* The layout editor.                                                      *)
(***************************************************************************)
travel == <<walking, returning, trips>>

\* persistLayout(): every piece as shown, or, when the storage refuses, nothing.
PersistLayout(shown) ==
  \E ok \in BOOLEAN :
    /\ layout' = IF ok THEN shown ELSE layout
    /\ refused' = ~ok
    /\ cut' = (cut /\ ~ok)

\* A piece moves: an agent with its target and where it stands, at once.
Moved(p, k, n) ==
  /\ home' = IF p \in Staff THEN [home EXCEPT ![p][k] = n] ELSE home
  /\ current' = IF p \in Staff THEN [current EXCEPT ![p][k] = n] ELSE current
  /\ target' = IF p \in Staff THEN [target EXCEPT ![p][k] = n] ELSE target
  /\ place' = IF p \in Furniture THEN [place EXCEPT ![p][k] = n] ELSE place

Edit == edits < MaxEdits /\ edits' = edits + 1

\* Leaving edit mode drops a drag that is under way without storing it.
ToggleEditMode ==
  /\ Edit
  /\ editing' = ~editing
  /\ selected' = (IF editing THEN None ELSE selected)
  /\ dragging' = (IF editing THEN None ELSE dragging)
  /\ cut' = (cut \/ (editing /\ dragging # None))
  /\ UNCHANGED <<home, current, target, place, layout, refused, travel>>

StartDrag(p) ==
  /\ Edit /\ editing
  /\ selected' = p /\ dragging' = p
  /\ UNCHANGED <<home, current, target, place, editing, layout, cut, refused, travel>>

\* onDrag: both coordinates follow the pointer.
OnDrag(point) ==
  /\ Edit /\ dragging # None
  /\ IF dragging \in Staff
     THEN /\ home' = [home EXCEPT ![dragging] = point]
          /\ current' = [current EXCEPT ![dragging] = point]
          /\ target' = [target EXCEPT ![dragging] = point]
          /\ place' = place
     ELSE /\ place' = [place EXCEPT ![dragging] = point]
          /\ UNCHANGED <<home, current, target>>
  /\ UNCHANGED <<editing, dragging, selected, layout, cut, refused, travel>>

Dropped == PersistLayout(Shown)

EndDrag ==
  /\ dragging # None
  /\ dragging' = None
  /\ Dropped
  /\ UNCHANGED <<home, current, target, place, editing, selected, edits, travel>>

\* adjustSelected and adjustAgentPos, from the buttons or the arrow keys.
AdjustSelected(k, delta) ==
  /\ Edit /\ editing /\ selected # None
  /\ Moved(selected, k, Clamped(Shown[selected][k] + delta))
  /\ PersistLayout([Shown EXCEPT ![selected][k] = Clamped(@ + delta)])
  /\ UNCHANGED <<editing, dragging, selected, travel>>

\* selectEditAgent, a click on furniture, or Escape.
SelectEdit(p) ==
  /\ Edit /\ editing /\ selected # p
  /\ selected' = p
  /\ UNCHANGED <<home, current, target, place, editing, dragging, layout, cut, refused, travel>>

SaveClicked ==
  /\ Edit /\ editing
  /\ PersistLayout(Shown)
  /\ UNCHANGED <<home, current, target, place, editing, dragging, selected, travel>>

\* resetLayout forgets the stored layout; a refusal of the storage is swallowed.
ResetLayout ==
  /\ Edit /\ editing
  /\ home' = [a \in Staff |-> Default[a]] /\ current' = home' /\ target' = home'
  /\ place' = [f \in Furniture |-> Default[f]]
  /\ \E ok \in BOOLEAN :
       /\ layout' = IF ok THEN NothingStored ELSE layout
       /\ refused' = ~ok /\ cut' = (cut /\ ~ok)
  /\ selected' = None
  /\ UNCHANGED <<editing, dragging, travel>>

TripNext ==
  \E a \in Staff :
    \/ CycleRandomAgentThought(a)
    \/ \E f \in Furniture : DispatchAgentTo(a, f) \/ HandleFurnitureClick(a, f)
    \/ \E b \in Staff : HandleEventTrip(a, b)
    \/ ReturnTimer(a)

EditNext ==
  \/ Reload \/ ToggleEditMode \/ EndDrag \/ SaveClicked \/ ResetLayout
  \/ \E p \in Pieces : StartDrag(p)
  \/ \E p \in Pieces \cup {None} : SelectEdit(p)
  \/ \E point \in Point : OnDrag(point)
  \/ \E k \in Axes, delta \in {-1, 1} : AdjustSelected(k, delta)

OfficeNext == TripNext \/ EditNext \/ UpdateAgentMovement

\* The browser runs a timer that is due and draws the next frame.
OfficeSpec ==
  /\ OfficeInit /\ [][OfficeNext]_officeVars
  /\ WF_officeVars(UpdateAgentMovement)
  /\ \A a \in Staff : WF_officeVars(ReturnTimer(a))

(***************************************************************************)
(* Properties.                                                             *)
(***************************************************************************)
\* An agent that heads anywhere but home has a timer that will turn it round:
\* no drag, nudge, reset or second trip leaves one stranded
\* (triggerAgentMovement, onDrag, adjustAgentPos, resetLayout).
NobodyStaysAway == \A a \in Staff : target[a] # home[a] => returning[a] > 0

\* Once the trips and edits are over, every agent comes to stand at home.
AllHome == \A a \in Staff : current[a] = home[a]
EverybodyComesHome == <>[]AllHome

\* What the page shows is what a reload would show, unless a drag is under
\* way, a drag was dropped by leaving edit mode, or the storage refused the
\* last write (persistLayout, loadSavedLayout, resetLayout, toggleEditMode).
LayoutSurvivesReload ==
  dragging = None /\ ~cut /\ ~refused => Loaded(layout) = Shown
==============================================================================
