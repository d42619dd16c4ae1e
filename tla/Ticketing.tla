------------------------------- MODULE Ticketing -------------------------------
(***************************************************************************)
(* Tickets, their assignments and their service levels: TicketingService   *)
(* over either repository.  A handler reads a copy, judges it and writes   *)
(* it back whole an await later.                                           *)
(***************************************************************************)
EXTENDS Naturals, FiniteSets, Sequences

CONSTANTS
  Tickets,       \* the ids there are to give to tickets
  Desks,         \* handlers under way
  None

VARIABLES
  driver,        \* the repository in use: "memory" or "prisma"
  ticket,        \* [Tickets -> a status or None]
  sla,           \* [Tickets -> the service level attached, or None]
  assignments,   \* [Tickets -> the number of assignment rows]
  overdue,       \* [Tickets -> the clocks of the service level that ran out]
  desk,          \* [Desks -> the local state of the handler]
  contended,     \* history: tickets two handlers held at the same time
  escalated,     \* history: tickets that were ESCALATED ...
  reviewed,      \* ... and those that then were in HUMAN_REVIEW
  inTime         \* history: <<ticket, clock>> last recorded in time

ticketVars == <<driver, ticket, sla, assignments, overdue, desk, contended,
                escalated, reviewed, inTime>>

Clocks == {"response", "resolution"}

VALID_TRANSITIONS ==
  [OPEN |-> {"TRIAGED", "ASSIGNED", "ESCALATED", "CLOSED"},
   TRIAGED |-> {"ASSIGNED", "ESCALATED", "CLOSED"},
   ASSIGNED |-> {"IN_PROGRESS", "ESCALATED", "CLOSED"},
   IN_PROGRESS |-> {"RESOLVED", "ESCALATED", "CLOSED"},
   ESCALATED |-> {"HUMAN_REVIEW", "CLOSED"},
   HUMAN_REVIEW |-> {"RESOLVED", "CLOSED"},
   RESOLVED |-> {"CLOSED"}, CLOSED |-> {}]

TicketStatus == DOMAIN VALID_TRANSITIONS

\* A service level: the clocks that were stopped and those marked as breached.
TicketSla == [stopped : SUBSET Clocks, breached : SUBSET Clocks]

\* A handler, with what it read of the ticket and of the service level; a check of
\* breaches goes through several, those in "todo".
Free == [op |-> "none", pc |-> "idle", ticket |-> None, row |-> None, todo |-> <<>>]

TicketTypeOK ==
  /\ ticket \in [Tickets -> TicketStatus \cup {None}]
  /\ sla \in [Tickets -> TicketSla \cup {None}]
  /\ \A d \in Desks : desk[d].pc \in {"idle", "assign", "writeTicket", "createSla",
                                      "findSla", "writeSla", "checkSlas"}

TicketInit ==
  /\ driver \in {"memory", "prisma"}
  /\ ticket = [t \in Tickets |-> None]
  /\ sla = [t \in Tickets |-> None]
  /\ assignments = [t \in Tickets |-> 0]
  /\ overdue = [t \in Tickets |-> {}]
  /\ desk = [d \in Desks |-> Free]
  /\ contended = {} /\ escalated = {} /\ reviewed = {} /\ inTime = {}

Holds(d) == {desk[d].ticket} \cup {desk[d].todo[n][1] : n \in DOMAIN desk[d].todo}

\* Handler d goes on with state "s"; the tickets it holds and another holds already
\* are contended.
Take(d, s) ==
  /\ desk' = [desk EXCEPT ![d] = s]
  /\ contended' = contended \cup
       {t \in Tickets : t \in Holds(d)' /\ \E e \in Desks \ {d} : t \in Holds(e)}

Leave(d) == desk' = [desk EXCEPT ![d] = Free] /\ UNCHANGED contended

-----------------------------------------------------------------------------
(* Tickets. *)

\* createTicketDirect, also for createTicket and createSystemTicket.
CreateTicketDirect(t) ==
  /\ ticket[t] = None /\ t = CHOOSE x \in Tickets : ticket[x] = None
  /\ ticket' = [ticket EXCEPT ![t] = "OPEN"]
  /\ UNCHANGED <<driver, sla, assignments, overdue, desk, contended, escalated,
                 reviewed, inTime>>

\* updateStatus refuses what the copy's status does not allow.
UpdateStatus(d, t, status) ==
  /\ desk[d] = Free /\ ticket[t] # None
  /\ status \in VALID_TRANSITIONS[ticket[t]]
  /\ Take(d, [Free EXCEPT !.op = "updateStatus", !.pc = "writeTicket",
                          !.ticket = t, !.row = status])
  /\ UNCHANGED <<driver, ticket, sla, assignments, overdue, escalated, reviewed, inTime>>

\* What assigning a ticket makes of its status.
AssignedStatus(status) == IF status \in {"OPEN", "TRIAGED"} THEN "ASSIGNED" ELSE status

\* assignTicket reads the ticket, adds an assignment ...
AssignTicket(d, t) ==
  /\ desk[d] = Free /\ ticket[t] # None
  /\ Take(d, [Free EXCEPT !.op = "assignTicket", !.pc = "assign", !.ticket = t,
                          !.row = AssignedStatus(ticket[t])])
  /\ UNCHANGED <<driver, ticket, sla, assignments, overdue, escalated, reviewed, inTime>>

CreateAssignment(d) ==
  /\ desk[d].pc = "assign"
  /\ assignments' = [assignments EXCEPT ![desk[d].ticket] = @ + 1]
  /\ desk' = [desk EXCEPT ![d].pc = "writeTicket"]
  /\ UNCHANGED <<driver, ticket, sla, overdue, contended, escalated, reviewed, inTime>>

\* ... and writes the copy back, as updateStatus does.
UpdateTicket(d) ==
  LET t == desk[d].ticket
      status == desk[d].row
  IN /\ desk[d].pc = "writeTicket"
     /\ ticket' = [ticket EXCEPT ![t] = status]
     /\ escalated' = escalated \cup {x \in {t} : status = "ESCALATED"}
     /\ reviewed' = reviewed \cup {x \in {t} : status = "HUMAN_REVIEW"}
     /\ Leave(d)
     /\ UNCHANGED <<driver, sla, assignments, overdue, inTime>>

-----------------------------------------------------------------------------
(* Service levels, of which PostgreSQL's repository can do nothing. *)

\* attachSla finds no service level ...
AttachSla(d, t) ==
  /\ desk[d] = Free /\ ticket[t] # None /\ sla[t] = None /\ driver = "memory"
  /\ Take(d, [Free EXCEPT !.op = "attachSla", !.pc = "createSla", !.ticket = t])
  /\ UNCHANGED <<driver, ticket, sla, assignments, overdue, escalated, reviewed, inTime>>

\* ... and stores one under the ticket, over one that was stored meanwhile.
CreateSla(d) ==
  LET t == desk[d].ticket IN
  /\ desk[d].pc = "createSla"
  /\ sla' = [sla EXCEPT ![t] = [stopped |-> {}, breached |-> {}]]
  /\ overdue' = [overdue EXCEPT ![t] = {}]
  /\ inTime' = {x \in inTime : x[1] # t}
  /\ Leave(d)
  /\ UNCHANGED <<driver, ticket, assignments, escalated, reviewed>>

\* recordResponse and recordResolution stop a clock of the copy, again if they are
\* called again, ...
Stopped(t, clock) ==
  [stopped |-> sla[t].stopped \cup {clock},
   breached |-> (sla[t].breached \ {clock}) \cup ({clock} \cap overdue[t])]

RecordClock(d, t, clock) ==
  /\ desk[d] = Free /\ sla[t] # None
  /\ Take(d, [Free EXCEPT !.op = clock, !.pc = "writeSla", !.ticket = t,
                          !.row = Stopped(t, clock)])
  /\ UNCHANGED <<driver, ticket, sla, assignments, overdue, escalated, reviewed, inTime>>

\* ... and write it back.
UpdateSla(d) ==
  LET t == desk[d].ticket
      clock == desk[d].op
  IN /\ desk[d].pc = "writeSla"
     /\ sla' = [sla EXCEPT ![t] = desk[d].row]
     /\ inTime' = IF clock \in desk[d].row.breached THEN inTime \ {<<t, clock>>}
                                                    ELSE inTime \cup {<<t, clock>>}
     /\ Leave(d)
     /\ UNCHANGED <<driver, ticket, assignments, overdue, escalated, reviewed>>

\* *Fault*: a clock that was stopped is looked at too.
BreachedAnyClock(t) == [sla[t] EXCEPT !.breached = @ \cup overdue[t]]

\* A service level with the running clocks that are out marked as breached.
Breached(t) == [sla[t] EXCEPT !.breached = @ \cup (overdue[t] \ sla[t].stopped)]

\* checkSlaBreaches reads all unresolved service levels at once ...
CheckSlaBreaches(d) ==
  LET pending == {t \in Tickets : sla[t] # None /\ "resolution" \notin sla[t].stopped}
      changed == {t \in pending : overdue[t] \ sla[t].stopped # {}}
  IN /\ desk[d] = Free /\ changed # {}
     /\ \E order \in {s \in [1 .. Cardinality(changed) -> changed] :
                        \A m, n \in DOMAIN s : m # n => s[m] # s[n]} :
          Take(d, [Free EXCEPT !.op = "checkSlaBreaches", !.pc = "checkSlas",
                    !.todo = [n \in DOMAIN order |-> <<order[n], Breached(order[n])>>]])
     /\ UNCHANGED <<driver, ticket, sla, assignments, overdue, escalated, reviewed, inTime>>

\* ... and writes those it changed one after the other.
UpdateNextSla(d) ==
  LET next == Head(desk[d].todo) IN
  /\ desk[d].pc = "checkSlas"
  /\ sla' = [sla EXCEPT ![next[1]] = next[2]]
  /\ IF Len(desk[d].todo) = 1
       THEN Leave(d)
       ELSE desk' = [desk EXCEPT ![d].todo = Tail(@)] /\ UNCHANGED contended
  /\ UNCHANGED <<driver, ticket, assignments, overdue, escalated, reviewed, inTime>>

\* A clock runs out; that of the response is the shorter one.
ClockRunsOut(t, clock) ==
  /\ sla[t] # None /\ clock \notin overdue[t]
  /\ clock = "resolution" => "response" \in overdue[t]
  /\ overdue' = [overdue EXCEPT ![t] = @ \cup {clock}]
  /\ UNCHANGED <<driver, ticket, sla, assignments, desk, contended, escalated,
                 reviewed, inTime>>

-----------------------------------------------------------------------------
TicketNext ==
  \/ \E t \in Tickets : CreateTicketDirect(t)
                       \/ \E clock \in Clocks : ClockRunsOut(t, clock)
  \/ \E d \in Desks :
       \/ \E t \in Tickets : \/ \E s \in TicketStatus : UpdateStatus(d, t, s)
                             \/ AssignTicket(d, t) \/ AttachSla(d, t)
                             \/ \E clock \in Clocks : RecordClock(d, t, clock)
       \/ CreateAssignment(d) \/ UpdateTicket(d) \/ CreateSla(d) \/ UpdateSla(d)
       \/ CheckSlaBreaches(d) \/ UpdateNextSla(d)

TicketSpec == TicketInit /\ [][TicketNext]_ticketVars

-----------------------------------------------------------------------------
(* Properties. *)

Uncontended(t) == t \notin contended /\ \A d \in Desks : t \notin Holds(d)

\* A ticket that was ever escalated is resolved only after a human reviewed it,
\* whoever is assigned meanwhile, unless two handlers held it at once.
EscalatedIsReviewed ==
  \A t \in Tickets : Uncontended(t) /\ t \in escalated /\ ticket[t] = "RESOLVED"
                       => t \in reviewed

\* What a service level says of a stopped clock is what was true when it was last
\* stopped, however late a check of breaches runs, unless two handlers held it at
\* once.
SlaTellsTheTruth ==
  \A t \in Tickets : Uncontended(t) /\ sla[t] # None =>
    \A clock \in sla[t].stopped : clock \in sla[t].breached <=> <<t, clock>> \notin inTime
=============================================================================
