------------------------------ MODULE AuditTrail ------------------------------
(***************************************************************************)
(* A request's way through the interceptor, the audit log and the event    *)
(* stream: TenantContextMiddleware, AuditInterceptor, AuditService and     *)
(* EventStreamService, in two API processes that share a Redis channel.    *)
(* Guards refuse a request before the interceptor is reached, so a refused *)
(* request is no part of this.                                             *)
(***************************************************************************)
EXTENDS Naturals, FiniteSets

CONSTANTS
  Servers,       \* API processes
  Requests,
  RequestIds,    \* ids requests may bring (x-request-id), or be given
  Listeners      \* connections of /events/stream

VARIABLES
  request,       \* [Requests -> the request]
  logs,          \* [Servers -> AuditService.auditLogs], a set: each record is one
  connected,     \* [Servers -> isRedisConnected]
  publisherUp,   \* [Servers -> is the publisher's connection there]
  subscriberUp,  \* [Servers -> is the subscriber's connection there]
  channel,       \* external: messages Redis has yet to hand to [Servers]
  publishing,    \* publish calls under way: [at, event]
  listener,      \* [Listeners -> [at, tenant]]
  heard          \* history: [Listeners -> the events it was sent]

auditVars == <<request, logs, connected, publisherUp, subscriberUp, channel, publishing, listener, heard>>

Absent == [pc |-> "none", id |-> "none", at |-> "none", records |-> 0, ownRecords |-> 0, outcome |-> "none"]

AuditTypeOK ==
  /\ \A r \in Requests : request[r].pc \in {"none", "handler", "answered"}
  /\ \A s \in Servers : \A x \in logs[s] : x.request \in Requests /\ x.status \in {"SUCCESS", "FAILURE"}
  /\ \A p \in publishing : p.at \in Servers

\* The stream is initialised: onModuleInit has not connected yet.
AuditInit ==
  /\ request = [r \in Requests |-> Absent]
  /\ logs = [s \in Servers |-> {}]
  /\ connected = [s \in Servers |-> FALSE]
  /\ publisherUp = [s \in Servers |-> TRUE]
  /\ subscriberUp = [s \in Servers |-> TRUE]
  /\ channel = [s \in Servers |-> {}]
  /\ publishing = {}
  /\ listener \in [Listeners -> [at : Servers, tenant : {"enterprise", "system"}]]
  /\ heard = [l \in Listeners |-> {}]

Stream == <<connected, publisherUp, subscriberUp, listener>>

-------------------------------------------------------------------------------
(* EventStreamService. *)

Tenant(event) == "enterprise"  \* of every audit event

\* streamForTenant: the listeners of a server that are sent an event.
Audience(s, event) ==
  {l \in Listeners : listener[l].at = s /\ listener[l].tenant \in {Tenant(event), ""}}

\* events$.next
Heard(s, event) ==
  [l \in Listeners |-> IF l \in Audience(s, event) THEN heard[l] \cup {event} ELSE heard[l]]

\* emit: to Redis if it is there, otherwise to this process's own listeners.
Emit(s, event) ==
  IF connected[s]
  THEN publishing' = publishing \cup {[at |-> s, event |-> event]} /\ UNCHANGED heard
  ELSE heard' = Heard(s, event) /\ UNCHANGED publishing

\* Redis takes a message for every server that subscribes, or the call fails
\* and the event goes to this process's listeners (twice, should Redis have
\* taken it: how often is not counted).
PublishEnds(p) ==
  /\ p \in publishing
  /\ publishing' = publishing \ {p}
  /\ \/ /\ publisherUp[p.at]
        /\ channel' = [s \in Servers |-> IF connected[s] /\ subscriberUp[s]
                                           THEN channel[s] \cup {p.event} ELSE channel[s]]
        /\ UNCHANGED heard
     \/ heard' = Heard(p.at, p.event) /\ UNCHANGED channel
  /\ UNCHANGED <<request, logs, Stream>>

\* The subscriber's message handler.
OnMessage(s, event) ==
  /\ event \in channel[s] /\ subscriberUp[s]
  /\ channel' = [channel EXCEPT ![s] = @ \ {event}]
  /\ heard' = Heard(s, event)
  /\ UNCHANGED <<request, logs, publishing, Stream>>

\* Both clients have connected and the channel is subscribed to; the publisher
\* may be gone again by then.
RedisConnects(s) ==
  /\ ~connected[s] /\ subscriberUp[s]
  /\ connected' = [connected EXCEPT ![s] = TRUE]
  /\ UNCHANGED <<request, logs, publisherUp, subscriberUp, channel, publishing, listener, heard>>

\* A connection is lost, for good (the retry strategy returns null); a client
\* that reports an error turns the stream to its own listeners.
RedisFails(s, reported) ==
  /\ \/ publisherUp[s] /\ publisherUp' = [publisherUp EXCEPT ![s] = FALSE] /\ UNCHANGED <<subscriberUp, channel>>
     \/ /\ subscriberUp[s]
        /\ subscriberUp' = [subscriberUp EXCEPT ![s] = FALSE]
        /\ channel' = [channel EXCEPT ![s] = {}]
        /\ UNCHANGED publisherUp
  /\ connected' = IF reported THEN [connected EXCEPT ![s] = FALSE] ELSE connected
  /\ UNCHANGED <<request, logs, publishing, listener, heard>>

-------------------------------------------------------------------------------
(* AuditService and AuditInterceptor. *)

\* recordedInCurrentRequest: the log knows the action under this request id.
\* All requests here perform the same action.
RecordedInCurrentRequest(s, id) == \E x \in logs[s] : x.id = id

\* record: one more record, and one more event, both named by the request and
\* the count of its records.
Recorded(r, status) ==
  LET q == request[r]
      record == [request |-> r, n |-> q.records, id |-> q.id, status |-> status]
  IN /\ logs' = [logs EXCEPT ![q.at] = @ \cup {record}]
     /\ Emit(q.at, <<r, q.records>>)

\* The middleware gives a request its id -- its own, if it brings one.
Arrive(r, s, id) ==
  /\ request[r] = Absent
  /\ request' = [request EXCEPT ![r] = [Absent EXCEPT !.pc = "handler", !.id = id, !.at = s]]
  /\ UNCHANGED <<logs, channel, publishing, heard, Stream>>

\* The handler audits the action itself, as some services do.
ServiceRecords(r) ==
  /\ request[r].pc = "handler" /\ request[r].ownRecords = 0
  /\ Recorded(r, "SUCCESS")
  /\ request' = [request EXCEPT ![r].records = @ + 1, ![r].ownRecords = 1]
  /\ UNCHANGED <<channel, Stream>>

\* *Fault*: the interceptor records whatever the service has.
StandsDownNever(r) == FALSE

\* skipIfAlreadyRecorded
StandsDown(r) == RecordedInCurrentRequest(request[r].at, request[r].id)

\* tap: the handler has answered, and the interceptor records unless the
\* service has.
Answered(r) ==
  /\ request[r].pc = "handler"
  /\ IF StandsDown(r) THEN UNCHANGED <<logs, publishing, heard>> ELSE Recorded(r, "SUCCESS")
  /\ request' = [request EXCEPT ![r].pc = "answered", ![r].outcome = "SUCCESS",
                                ![r].records = IF StandsDown(r) THEN @ ELSE @ + 1]
  /\ UNCHANGED <<channel, Stream>>

\* catchError: the handler threw, and the interceptor records it in any case.
Threw(r) ==
  /\ request[r].pc = "handler"
  /\ Recorded(r, "FAILURE")
  /\ request' = [request EXCEPT ![r].pc = "answered", ![r].outcome = "FAILURE", ![r].records = @ + 1]
  /\ UNCHANGED <<channel, Stream>>

AuditNext ==
  \/ \E r \in Requests :
       \/ \E s \in Servers, id \in RequestIds : Arrive(r, s, id)
       \/ ServiceRecords(r) \/ Answered(r) \/ Threw(r)
  \/ \E p \in publishing : PublishEnds(p)
  \/ \E s \in Servers :
       \/ \E event \in channel[s] : OnMessage(s, event)
       \/ RedisConnects(s)
       \/ \E reported \in BOOLEAN : RedisFails(s, reported)

AuditSpec == AuditInit /\ [][AuditNext]_auditVars

-------------------------------------------------------------------------------
(* Properties. *)

RecordsOf(r) == {x \in logs[request[r].at] : x.request = r}
SharesItsId(r) == \E q \in Requests \ {r} : request[q].id = request[r].id

\* An action that succeeded is in the log exactly once, whether the service or
\* the interceptor wrote it, and one that failed has its failure there; only a
\* request that brings the id of another can be missing, never one that threw.
AuditedOnce ==
  \A r \in Requests : request[r].pc = "answered" =>
    /\ request[r].outcome = "FAILURE" =>
         Cardinality({x \in RecordsOf(r) : x.status = "FAILURE"}) = 1
    /\ request[r].outcome = "SUCCESS" =>
         /\ Cardinality(RecordsOf(r)) <= 1
         /\ ~SharesItsId(r) => Cardinality(RecordsOf(r)) = 1

EventsOf(s) == {<<x.request, x.n>> : x \in logs[s]}
InFlight(s, event) == [at |-> s, event |-> event] \in publishing \/ event \in channel[s]

\* What a server has logged reaches the listeners it has, through Redis or
\* without it, whichever connection fails and when, unless the subscriber's goes
\* while the publisher's lives on: then, and only then, the trace falls silent.
OwnListenersHear ==
  \A s \in Servers : \A event \in EventsOf(s) : \A l \in Audience(s, event) :
    event \in heard[l] \/ InFlight(s, event) \/ ~subscriberUp[s]
===============================================================================
