-------------------------------- MODULE Outbox --------------------------------
(***************************************************************************)
(* The outbox: OutboxService over InMemoryOutboxPersistence, KafkaPublisher *)
(* and KafkaConsumer.  Workflows append events; publishPending, whoever    *)
(* calls it and however many at once, sends what is pending and marks it.  *)
(* The persistence lives in the process: a restart empties it.             *)
(***************************************************************************)
EXTENDS Naturals, SequencesExt

CONSTANTS
  OutboxIds,     \* ids events may get
  Publishers,    \* calls of publishPending under way
  MaxSent        \* bound on what is sent to the topic

VARIABLES
  enabled,       \* config.enabled: KAFKA_ENABLED
  outbox,        \* InMemoryOutboxPersistence.events
  pubs,          \* [Publishers -> the local state of the call]
  topic,         \* external: what the broker holds, in its order
  seen,          \* the consumer's handler: what it was given, in order
  offset,        \* external: the consumer's place in the topic
  appended       \* history: the ids ever appended, in order

outboxVars == <<enabled, outbox, pubs, topic, seen, offset, appended>>

NoCall == [pc |-> "idle", events |-> {}]

OutboxTypeOK ==
  /\ \A i \in DOMAIN outbox : outbox[i].status \in {"PENDING", "PUBLISHED"}
  /\ \A p \in Publishers : pubs[p].pc \in {"idle", "send", "mark"}
  /\ offset \in 0 .. Len(topic)

OutboxInit ==
  /\ enabled \in BOOLEAN
  /\ outbox = <<>>
  /\ pubs = [p \in Publishers |-> NoCall]
  /\ topic = <<>>
  /\ seen = <<>>
  /\ offset = 0
  /\ appended = <<>>

-------------------------------------------------------------------------------
\* publish: the event is built PENDING and appended in the same breath.
PublishEvent(e) ==
  /\ e \notin Range(appended)
  /\ outbox' = Append(outbox, [id |-> e, status |-> "PENDING"])
  /\ appended' = Append(appended, e)
  /\ UNCHANGED <<enabled, pubs, topic, seen, offset>>

\* findPending: copies, by their places, in the order they were appended.
FindPending == {i \in DOMAIN outbox : outbox[i].status = "PENDING"}

\* publishPending starts with the pending events there are, ...
PublishPending(p) ==
  /\ pubs[p] = NoCall
  /\ FindPending # {}
  /\ pubs' = [pubs EXCEPT ![p] = [pc |-> "send", events |-> FindPending]]
  /\ UNCHANGED <<enabled, outbox, topic, seen, offset, appended>>

\* ... takes the first of them, ...
Sending(p) == CHOOSE i \in pubs[p].events : \A j \in pubs[p].events : i <= j
Rest(p) == pubs[p].events \ {Sending(p)}

\* *Fault*: an event that could not be sent is passed over.
AfterSendFailedOn(p) ==
  pubs' = [pubs EXCEPT ![p] = IF Rest(p) = {} THEN NoCall ELSE [@ EXCEPT !.events = Rest(p)]]

\* What is left of a call whose send threw: nothing, it threw as well.
AfterSendFailed(p) == pubs' = [pubs EXCEPT ![p] = NoCall]

\* ... sends it, to a broker that may take it and may refuse it
\* (and, having taken it, may still appear to refuse it); disabled, it sends
\* nothing and goes on, ...
SendEvent(p) ==
  /\ pubs[p].pc = "send"
  /\ \/ enabled /\ topic' = Append(topic, outbox[Sending(p)].id)
        /\ (pubs' = [pubs EXCEPT ![p].pc = "mark"] \/ AfterSendFailed(p))
     \/ enabled /\ AfterSendFailed(p) /\ UNCHANGED topic
     \/ ~enabled /\ pubs' = [pubs EXCEPT ![p].pc = "mark"] /\ UNCHANGED topic
  /\ Len(topic') <= MaxSent
  /\ UNCHANGED <<enabled, outbox, seen, offset, appended>>

\* markPublished, by id; an event that is gone is no error.
MarkPublished(e) ==
  [i \in DOMAIN outbox |-> IF outbox[i].id = e THEN [outbox[i] EXCEPT !.status = "PUBLISHED"]
                                               ELSE outbox[i]]

\* ... marks it, and goes on with the rest.
MarkSent(p) ==
  /\ pubs[p].pc = "mark"
  /\ outbox' = MarkPublished(outbox[Sending(p)].id)
  /\ pubs' = [pubs EXCEPT ![p] = IF Rest(p) = {} THEN NoCall ELSE [pc |-> "send", events |-> Rest(p)]]
  /\ UNCHANGED <<enabled, topic, seen, offset, appended>>

\* eachMessage: the consumer's handler is given the next message; until its
\* offset is committed it may be given it again.
Consume(commits) ==
  /\ enabled /\ offset < Len(topic)
  /\ seen' = Append(seen, topic[offset + 1])
  /\ offset' = IF commits THEN offset + 1 ELSE offset
  /\ Len(seen') <= MaxSent + 1
  /\ UNCHANGED <<enabled, outbox, pubs, topic, appended>>

\* The process ends and starts again; a group that comes back resumes at its
\* committed offset.
RestartProcess ==
  /\ outbox' = <<>>
  /\ pubs' = [p \in Publishers |-> NoCall]
  /\ outbox # <<>>
  /\ UNCHANGED <<enabled, topic, seen, offset, appended>>

OutboxNext ==
  \/ \E e \in OutboxIds : PublishEvent(e)
  \/ \E p \in Publishers : PublishPending(p) \/ SendEvent(p) \/ MarkSent(p)
  \/ \E commits \in BOOLEAN : Consume(commits)
  \/ RestartProcess

OutboxSpec == OutboxInit /\ [][OutboxNext]_outboxVars

-------------------------------------------------------------------------------
(* Properties. *)

\* d comes first in s: nowhere is there an e that some d does not precede.
Precedes(s, d, e) == \A j \in DOMAIN s : s[j] = e => \E i \in 1 .. j - 1 : s[i] = d

\* Whatever is sent twice, by two calls at once or by one that did not learn it
\* had succeeded, and whatever a restart loses: leaving repetitions out, the
\* topic sees events in the order they were appended, with none overtaking an
\* earlier one that is still waiting; the handler sees what the topic holds, in
\* its order and with none left out; and an event is marked published only if
\* the broker has it.
SentInOrder ==
  /\ \A i \in DOMAIN outbox : enabled /\ outbox[i].status = "PUBLISHED" => outbox[i].id \in Range(topic)
  /\ \A i, j \in DOMAIN outbox :
       enabled /\ i < j /\ outbox[j].id \in Range(topic) => outbox[i].id \in Range(topic)
  /\ Range(seen) \subseteq Range(topic) /\ Range(topic) \subseteq Range(appended)
  /\ \A m, n \in DOMAIN appended :
       m < n /\ appended[m] \in Range(topic) => Precedes(topic, appended[m], appended[n])
  /\ \A d, e \in Range(topic) : d # e /\ Precedes(topic, d, e) => Precedes(seen, d, e)
===============================================================================
