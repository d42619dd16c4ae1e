------------------------------ MODULE WebPages ------------------------------
(***************************************************************************)
(* The pages of the web console that follow the platform live              *)
(* (apps/web/src/routes): how each one loads when it opens, polls, listens *)
(* to the event stream and shuts down when it is left, over a network on   *)
(* which answers overtake each other, fail, and arrive after the page has  *)
(* gone.                                                                   *)
(*                                                                         *)
(* A load asks several endpoints at once (Parts stands for them) and shows *)
(* what they said when the last has answered.  What an endpoint would say  *)
(* is its version.  The virtual office is in OfficeStatus.                 *)
(***************************************************************************)
EXTENDS Integers, FiniteSets, Sequences

CONSTANTS Visits, Calls, Parts, MaxChanges, MaxFailures, MaxClicks, FeedLimit, None

\* What the script of each page does with its data: load it when it opens
\* (await: before it does anything else), poll it, listen to the stream (reload
\* when a write concerns it), let the operator switch the following off, and
\* keep what it showed of an endpoint that does not answer.
OperationsPage == {"load", "await", "poll", "stream", "reload", "switch"}
SalesPage      == {"load", "await", "poll", "stream", "reload", "switch"}
ModulesPage    == {"load", "poll", "stream", "switch"}
FinopsPage     == {"load", "poll", "stream", "keep"}
OverviewPage   == {"load", "keep"}
EventsPage     == {"stream"}
TraceStream    == {"stream", "switch"}

Does == [operations |-> OperationsPage, sales |-> SalesPage, modules |-> ModulesPage,
         finops |-> FinopsPage, overview |-> OverviewPage, events |-> EventsPage,
         trace |-> TraceStream]

Pages == DOMAIN Does
A(page, what) == what \in Does[page]

VARIABLES version,  \* what each endpoint would answer
          visit,    \* [Visits -> the state of a page while and after it is open]
          call,     \* [Calls -> a load under way, or None]
          failures, clicks

webVars == <<version, visit, call, failures, clicks>>

Empty  == -1
Unread == -2
Failed == -3

NotOpen == [page |-> None, phase |-> "new", timer |-> FALSE, stream |-> FALSE, auto |-> TRUE,
            loading |-> FALSE, hasty |-> FALSE, inbox |-> <<>>, feed |-> <<>>,
            shown |-> [p \in Parts |-> Empty]]

WebTypeOK ==
  /\ version \in [Parts -> 0..MaxChanges]
  /\ \A v \in Visits :
       /\ visit[v].page \in Pages \cup {None}
       /\ visit[v].phase \in {"new", "loading", "live", "closed"}
       /\ {visit[v].timer, visit[v].stream, visit[v].auto, visit[v].loading,
           visit[v].hasty} \subseteq BOOLEAN
       /\ Len(visit[v].feed) <= FeedLimit
       /\ \A p \in Parts : visit[v].shown[p] \in Empty..MaxChanges
  /\ \A c \in Calls : call[c] # None =>
       \A p \in Parts : call[c].answer[p] \in {Unread, Failed} \cup 0..MaxChanges
  /\ failures \in 0..MaxFailures /\ clicks \in 0..MaxClicks

WebInit ==
  /\ version = [p \in Parts |-> 0]
  /\ visit = [v \in Visits |-> NotOpen]
  /\ call = [c \in Calls |-> None]
  /\ failures = 0 /\ clicks = 0

\* loadAll (or loadBudget, loadSnapshot) sends its requests; w is the rest of
\* what happens to the page.
Load(v, w, first) ==
  /\ \E c \in Calls : call[c] = None
  /\ call' = [call EXCEPT ![CHOOSE c \in Calls : call[c] = None] =
                 [visit |-> v, first |-> first, answer |-> [p \in Parts |-> Unread]]]
  /\ visit' = [visit EXCEPT ![v] = [w EXCEPT !.loading = TRUE]]

(***************************************************************************)
(* A page opens (onMount) and is left (onDestroy).                         *)
(***************************************************************************)
Live(w) == [w EXCEPT !.phase = "live", !.timer = A(w.page, "poll"),
                     !.stream = A(w.page, "stream")]

Opened(page) ==
  LET w == [NotOpen EXCEPT !.page = page]
  IN  IF A(page, "await") THEN [w EXCEPT !.phase = "loading"] ELSE Live(w)

Open(v, page) ==
  /\ visit[v].phase = "new"
  /\ IF A(page, "load") THEN Load(v, Opened(page), TRUE)
     ELSE visit' = [visit EXCEPT ![v] = Opened(page)] /\ call' = call
  /\ UNCHANGED <<version, failures, clicks>>

\* *Fault*: onDestroy closes the stream and forgets the timer.
ClosedPolling(w) == [w EXCEPT !.phase = "closed", !.stream = FALSE, !.inbox = <<>>,
                              !.hasty = (w.phase = "loading")]

\* onDestroy clears the timer and the stream that exist by then.
Closed(w) == [w EXCEPT !.phase = "closed", !.timer = FALSE, !.stream = FALSE, !.inbox = <<>>,
                       !.hasty = (w.phase = "loading")]

Close(v) ==
  /\ visit[v].phase \in {"loading", "live"}
  /\ visit' = [visit EXCEPT ![v] = Closed(visit[v])]
  /\ UNCHANGED <<version, call, failures, clicks>>

(***************************************************************************)
(* A load: every endpoint answers in its own time; the page shows the      *)
(* answers together.  The rest of an awaiting onMount follows its first    *)
(* load, also when the page has been left meanwhile.                       *)
(***************************************************************************)
Answer(c, p) ==
  /\ call[c] # None /\ call[c].answer[p] = Unread
  /\ \/ call' = [call EXCEPT ![c].answer[p] = version[p]] /\ failures' = failures
     \/ /\ failures < MaxFailures /\ failures' = failures + 1
        /\ call' = [call EXCEPT ![c].answer[p] = Failed]
  /\ UNCHANGED <<version, visit, clicks>>

ShownAfter(w, answer) ==
  [p \in Parts |-> IF answer[p] # Failed THEN answer[p]
                   ELSE IF A(w.page, "keep") THEN w.shown[p] ELSE Empty]

Mounted(w) ==
  LET live == Live(w) IN IF w.phase = "closed" THEN [live EXCEPT !.phase = "closed"] ELSE live

Arrive(c) ==
  /\ call[c] # None /\ \A p \in Parts : call[c].answer[p] # Unread
  /\ LET v == call[c].visit
         w == [visit[v] EXCEPT !.shown = ShownAfter(visit[v], call[c].answer),
                            !.loading = FALSE]
     IN  visit' = [visit EXCEPT ![v] =
                     IF call[c].first /\ A(w.page, "await") THEN Mounted(w) ELSE w]
  /\ call' = [call EXCEPT ![c] = None]
  /\ UNCHANGED <<version, failures, clicks>>

\* *Fault*: the poll gives up once an answer was missing.
PollsWhenWhole(w) ==
  /\ w.timer /\ (A(w.page, "switch") => w.auto)
  /\ \A p \in Parts : w.shown[p] # Empty

\* The interval, whether or not the page it belongs to is still there.
PollsWhen(w) == w.timer /\ (A(w.page, "switch") => w.auto)

Poll(v) ==
  /\ PollsWhen(visit[v]) /\ Load(v, visit[v], FALSE)
  /\ UNCHANGED <<version, failures, clicks>>

\* The auto-refresh switch; the trace's pause button.
Toggle(v) ==
  /\ visit[v].phase = "live" /\ A(visit[v].page, "switch")
  /\ clicks < MaxClicks /\ clicks' = clicks + 1
  /\ visit' = [visit EXCEPT ![v].auto = ~@]
  /\ UNCHANGED <<version, call, failures>>

\* The refresh buttons are disabled while `loading`, which the first of two
\* overlapping loads to arrive resets.
Refresh(v) ==
  /\ visit[v].phase = "live" /\ A(visit[v].page, "load") /\ ~visit[v].loading
  /\ clicks < MaxClicks /\ clicks' = clicks + 1
  /\ Load(v, visit[v], FALSE)
  /\ UNCHANGED <<version, failures>>

(***************************************************************************)
(* The platform moves on and tells the streams, which may miss it.         *)
(***************************************************************************)
Change(p) ==
  /\ version[p] < MaxChanges
  /\ version' = [version EXCEPT ![p] = @ + 1]
  /\ \E heard \in SUBSET {v \in Visits : visit[v].stream} :
       visit' = [v \in Visits |-> IF v \in heard
                                  THEN [visit[v] EXCEPT !.inbox = Append(@, version'[p])]
                                  ELSE visit[v]]
  /\ UNCHANGED <<call, failures, clicks>>

\* The newest first, up to the limit of the page's list.
Prepended(feed, e) == SubSeq(<<e>> \o feed, 1, IF Len(feed) < FeedLimit THEN Len(feed) + 1
                                               ELSE FeedLimit)

Heard(w) ==
  [w EXCEPT !.inbox = Tail(@),
            !.feed = IF w.page = "trace" /\ ~w.auto THEN @ ELSE Prepended(@, Head(w.inbox))]

Hear(v) ==
  /\ visit[v].stream /\ visit[v].inbox # <<>>
  /\ IF A(visit[v].page, "reload") THEN Load(v, Heard(visit[v]), FALSE)
     ELSE visit' = [visit EXCEPT ![v] = Heard(@)] /\ call' = call
  /\ UNCHANGED <<version, failures, clicks>>

ClearFeed(v) ==
  /\ visit[v].phase = "live" /\ visit[v].page = "trace" /\ visit[v].feed # <<>>
  /\ visit' = [visit EXCEPT ![v].feed = <<>>]
  /\ UNCHANGED <<version, call, failures, clicks>>

WebNext ==
  \/ \E v \in Visits : \/ \E page \in Pages : Open(v, page)
                       \/ Close(v) \/ Poll(v) \/ Toggle(v) \/ Refresh(v) \/ Hear(v) \/ ClearFeed(v)
  \/ \E c \in Calls : Arrive(c) \/ \E p \in Parts : Answer(c, p)
  \/ \E p \in Parts : Change(p)

\* The browser runs the intervals and every request is answered or fails.
WebSpec ==
  /\ WebInit /\ [][WebNext]_webVars
  /\ \A v \in Visits : WF_webVars(Poll(v))
  /\ \A c \in Calls : WF_webVars(Arrive(c)) /\ \A p \in Parts : WF_webVars(Answer(c, p))

(***************************************************************************)
(* Properties.                                                             *)
(***************************************************************************)
\* A page that has been left polls and listens no more, unless it was left
\* before its awaited first load came back: then onMount goes on after
\* onDestroy, and nobody ever clears what it sets up (operations, sales).
NothingOutlivesAPage ==
  \A v \in Visits :
    visit[v].phase = "closed" /\ (visit[v].timer \/ visit[v].stream) => visit[v].hasty

\* Once the platform rests, a polling page comes to show it and keeps showing
\* it, whatever answers were lost or came late, and whatever the stream missed.
CaughtUp ==
  \A v \in Visits :
    /\ visit[v].phase = "live" /\ visit[v].timer
    /\ A(visit[v].page, "switch") => visit[v].auto
    => visit[v].shown = version

CatchesUp == <>[]CaughtUp
==============================================================================
