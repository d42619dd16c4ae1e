---------------------------- MODULE OperatorPages ----------------------------
(***************************************************************************)
(* The pages outside the console that write                                *)
(* (apps/web/src/routes: tickets, agents, workflows, experiments).  Each   *)
(* handler awaits one request and then changes what the page shows, also   *)
(* when the API refused or never answered: it then makes the result up.    *)
(* Handlers overlap, so an answer can find another ticket selected than    *)
(* the one it was asked for.                                               *)
(***************************************************************************)
EXTENDS Integers, FiniteSets

CONSTANTS Tickets, Requests, MaxRequests, None

VARIABLES stored,    \* comments at the API, per ticket
          results,   \* records the API has made for the other pages, per kind
          selected,  \* selectedTicketId
          details,   \* selectedTicketDetails: its ticket and the entries shown
          board,     \* what the other pages show, per kind: [real, madeUp]
          busy,      \* the handlers that disable their button, under way
          request,   \* [Requests -> a request under way, or None]
          begun, unmet, astray,
          assigned,  \* tickets the API has ASSIGNED since the page opened
          listed,    \* those of them the list shows, or makes up
          atStake    \* history: tickets selected while an assignment was on its way

ticketVars == <<assigned, listed, atStake>>
pageVars == <<stored, results, selected, details, board, busy, request, begun, unmet, astray,
              ticketVars>>

\* handleRegisterAgent, handleTriggerSaga, handleTriggerOrder, handleTriggerOvertime,
\* handleRunExperiment, handleReplay, handleCreateScenario.
Kinds == {"register", "saga", "order", "overtime", "run", "replay", "scenario"}

\* Buttons disabled while their handler runs; the others can be pressed again.
Guarded == {"saga", "order", "overtime", "run"}

\* Results that replace the one shown before; the others are put in front of a list.
Single == {"saga", "order", "overtime"}

Nothing == [real |-> 0, madeUp |-> 0]

PagesTypeOK ==
  /\ stored \in [Tickets -> 0..MaxRequests] /\ results \in [Kinds -> 0..MaxRequests]
  /\ selected \in Tickets /\ details.ticket \in Tickets
  /\ \A k \in Kinds : board[k].real \in 0..MaxRequests /\ board[k].madeUp \in 0..MaxRequests
  /\ busy \subseteq Guarded /\ begun \in 0..MaxRequests
  /\ assigned \subseteq Tickets /\ listed \subseteq Tickets /\ atStake \subseteq Tickets

\* The page opens with a ticket and its details at hand.
PagesInit ==
  /\ stored = [t \in Tickets |-> 0] /\ results = [k \in Kinds |-> 0]
  /\ selected \in Tickets /\ details = [ticket |-> selected, comments |-> 0]
  /\ board = [k \in Kinds |-> Nothing] /\ busy = {}
  /\ request = [q \in Requests |-> None]
  /\ begun = 0 /\ unmet = [k \in Kinds |-> 0] /\ astray = FALSE
  /\ assigned = {} /\ listed = {} /\ atStake = {}

Begin(what) ==
  /\ begun < MaxRequests /\ begun' = begun + 1
  /\ \E q \in Requests : request[q] = None
  /\ request' = [request EXCEPT ![CHOOSE q \in Requests : request[q] = None] = what]

Asking(kind, t) == [kind |-> kind, ticket |-> t, answer |-> "sent", comments |-> 0,
                    rows |-> {}]

OnItsWay(kind) == \E q \in Requests : request[q] # None /\ request[q].kind = kind

(***************************************************************************)
(* Clicks.                                                                 *)
(***************************************************************************)
SelectTicket(t) ==
  /\ Begin(Asking("details", t))
  /\ selected' = t
  /\ atStake' = IF OnItsWay("assign") THEN atStake \cup {t} ELSE atStake
  /\ UNCHANGED <<stored, results, details, board, busy, unmet, astray, assigned, listed>>

HandleAddComment ==
  /\ Begin(Asking("comment", selected))
  /\ UNCHANGED <<stored, results, selected, details, board, busy, unmet, astray, ticketVars>>

HandleAssignTicket ==
  /\ Begin(Asking("assign", selected))
  /\ atStake' = atStake \cup {selected}
  /\ UNCHANGED <<stored, results, selected, details, board, busy, unmet, astray,
                 assigned, listed>>

\* Also by the filter, which is not disabled while a load is under way.
LoadTickets ==
  /\ Begin(Asking("list", None))
  /\ UNCHANGED <<stored, results, selected, details, board, busy, unmet, astray, ticketVars>>

Trigger(kind) ==
  /\ kind \notin busy
  /\ Begin(Asking(kind, None))
  /\ busy' = busy \cup ({kind} \cap Guarded)
  /\ board' = IF kind \in Single THEN [board EXCEPT ![kind] = Nothing] ELSE board
  /\ UNCHANGED <<stored, results, selected, details, unmet, astray, ticketVars>>

(***************************************************************************)
(* The API: it does what it is asked, or refuses; or its answer is lost.   *)
(***************************************************************************)
Serve(q) ==
  /\ request[q] # None /\ request[q].answer = "sent"
  /\ \E done \in BOOLEAN, heard \in BOOLEAN :
       LET r == request[q] IN
       /\ stored' = IF done /\ r.kind = "comment" THEN [stored EXCEPT ![r.ticket] = @ + 1] ELSE stored
       /\ results' = IF done /\ r.kind \in Kinds THEN [results EXCEPT ![r.kind] = @ + 1] ELSE results
       /\ assigned' = IF done /\ r.kind = "assign" THEN assigned \cup {r.ticket} ELSE assigned
       /\ request' = [request EXCEPT ![q] =
            [r EXCEPT !.rows = IF r.kind = "list" THEN assigned ELSE {},
                      !.answer = IF done /\ heard THEN "ok" ELSE "failed",
                      !.comments = IF r.kind = "details" THEN stored[r.ticket] ELSE 0]]
       /\ unmet' = IF (done /\ heard) \/ r.kind \notin Kinds THEN unmet
                   ELSE [unmet EXCEPT ![r.kind] = @ + 1]
  /\ UNCHANGED <<selected, details, board, busy, begun, astray, listed, atStake>>

Answered(q, kinds) == request[q] # None /\ request[q].kind \in kinds /\ request[q].answer # "sent"

(***************************************************************************)
(* What each handler makes of its answer.                                  *)
(***************************************************************************)
\* Without an answer the page keeps the comments it has, if they are this ticket's.
Kept(t) == IF details.ticket = t THEN details.comments ELSE 0

\* The details shown become the answered ticket's, whichever is selected by now.
DetailsAfter(r) ==
  [ticket |-> r.ticket, comments |-> IF r.answer = "ok" THEN r.comments ELSE Kept(r.ticket)]

DetailsArrive(q) ==
  /\ Answered(q, {"details"})
  /\ details' = DetailsAfter(request[q])
  /\ astray' = (request[q].ticket # selected)
  /\ request' = [request EXCEPT ![q] = None]
  /\ UNCHANGED <<stored, results, selected, board, busy, begun, unmet, ticketVars>>

\* The comment is shown whether or not the API has it, with whatever ticket is shown.
CommentArrives(q) ==
  /\ Answered(q, {"comment"})
  /\ details' = [details EXCEPT !.comments = @ + 1]
  /\ request' = [request EXCEPT ![q] = None]
  /\ UNCHANGED <<stored, results, selected, board, busy, begun, unmet, astray, ticketVars>>

\* The list marks the ticket selected by now, and the details shown gain an entry,
\* whatever was assigned and whether or not the API did it.
AssignmentArrives(q) ==
  /\ Answered(q, {"assign"})
  /\ listed' = listed \cup {selected}
  /\ details' = [details EXCEPT !.comments = @ + 1]
  /\ request' = [request EXCEPT ![q] = None]
  /\ UNCHANGED <<stored, results, selected, board, busy, begun, unmet, astray,
                 assigned, atStake>>

\* The list is replaced by what the API said when it was asked; without an answer it
\* stays.
ListArrives(q) ==
  /\ Answered(q, {"list"})
  /\ listed' = IF request[q].answer = "ok" THEN request[q].rows ELSE listed
  /\ request' = [request EXCEPT ![q] = None]
  /\ UNCHANGED <<stored, results, selected, details, board, busy, begun, unmet, astray,
                 assigned, atStake>>

\* A refused or unanswered replay repeats the run replayed, so is made up too.
ShownAfter(kind, before, ok) ==
  LET kept == IF kind \in Single THEN Nothing ELSE before
  IN  IF ok THEN [kept EXCEPT !.real = @ + 1] ELSE [kept EXCEPT !.madeUp = @ + 1]

ResultArrives(q) ==
  /\ Answered(q, Kinds)
  /\ LET r == request[q] IN
     /\ board' = [board EXCEPT ![r.kind] = ShownAfter(r.kind, @, r.answer = "ok")]
     /\ busy' = busy \ {r.kind}
  /\ request' = [request EXCEPT ![q] = None]
  /\ UNCHANGED <<stored, results, selected, details, begun, unmet, astray, ticketVars>>

PagesNext ==
  \/ \E t \in Tickets : SelectTicket(t)
  \/ HandleAddComment
  \/ HandleAssignTicket
  \/ LoadTickets
  \/ \E k \in Kinds : Trigger(k)
  \/ \E q \in Requests : Serve(q) \/ DetailsArrive(q) \/ CommentArrives(q) \/ ResultArrives(q)
                          \/ AssignmentArrives(q) \/ ListArrives(q)

PagesSpec == PagesInit /\ [][PagesNext]_pageVars

(***************************************************************************)
(* Properties.                                                             *)
(***************************************************************************)
\* A made-up result stands for a request the API refused or did not answer, and
\* a real one for something it did: but nothing on the page tells them apart
\* (the fallbacks of handleTriggerOrder, handleRegisterAgent, handleReplay, ...).
MadeUpOnlyUnmet ==
  \A k \in Kinds : board[k].madeUp <= unmet[k] /\ board[k].real <= results[k]

\* When no details are on their way, the details shown are the selected
\* ticket's, unless the last to come was of a ticket selected before it: then
\* the comments and buttons next to one ticket are another's (selectTicket).
DetailsBelong ==
  (\A q \in Requests : request[q] # None => request[q].kind # "details")
     /\ ~astray => details.ticket = selected

\* The list shows a ticket ASSIGNED only if it was selected when somebody asked to
\* assign a ticket or before the answer was back: an operator who selects nothing
\* while an assignment is on its way never sees another ticket marked
\* (handleAssignTicket, loadTickets).
AssignedWasSelected == listed \subseteq atStake
==============================================================================
