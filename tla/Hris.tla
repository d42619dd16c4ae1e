--------------------------------- MODULE Hris ---------------------------------
(***************************************************************************)
(* Employees, leave, overtime, attendance and the staffing assessment that *)
(* hands orders to couriers: HrisService over either repository and the    *)
(* in-memory deliveries.  One department; nothing ever ends a delivery.    *)
(***************************************************************************)
EXTENDS Integers, SequencesExt

CONSTANTS
  Employees,     \* the ids there are to give to employees
  Requests,      \* ... and to requests for leave or overtime
  Orders,        \* orders ready to ship
  Assessors,     \* handlers under way that assess staffing or update employees
  Hours,         \* hours of overtime clients ask for
  Rates,         \* hourly rates
  Loads,         \* numbers of pending orders
  WarehousePerHead, CourierPerHead, \* what one head handles: 4 and 5 in the code
  DefaultRate,   \* the rate of whom none is known: 25 in the code
  None

VARIABLES
  driver,        \* the repository in use: "memory" or "prisma"
  employee,      \* [Employees -> an employee or None]
  request,       \* [Requests -> a request or None]
  clock,         \* [Employees -> today's attendance: "none", "in" or "out"]
  delivery,      \* [Orders -> [Employees -> deliveries of the order by the courier]]
  assessor,      \* [Assessors -> the local state of the handler]
  staffTickets,  \* tickets of critical shortages
  overlapped,    \* history: whether two assessments overlapped
  restaffed      \* history: whether staff changed after a delivery was assigned

hrisVars == <<driver, employee, request, clock, delivery, assessor, staffTickets,
              overlapped, restaffed>>

Role == {"WAREHOUSE", "COURIER", "OTHER"}

Employee == [role : Role, rate : Nat \cup {None}]
Request == [kind : {"leave", "overtime"}, of : Employees, hours : Int, reason : BOOLEAN,
            cost : Int, status : {"PENDING", "REQUESTED", "APPROVED", "REJECTED"}]

Resting == [pc |-> "idle", of |-> None, row |-> None, pending |-> 0, orders |-> <<>>,
            warehouse |-> {}, courier |-> {}, loads |-> <<>>, peak |-> 0, group |-> {}]

HrisTypeOK ==
  /\ employee \in [Employees -> Employee \cup {None}]
  /\ request \in [Requests -> Request \cup {None}]
  /\ \A r \in Requests : request[r] # None => employee[request[r].of] # None
  /\ \A o \in Orders, e \in Employees : delivery[o][e] \in Nat
  /\ \A a \in Assessors : assessor[a].pc \in {"idle", "employee", "loads", "orders", "create"}

HrisInit ==
  /\ driver \in {"memory", "prisma"}
  /\ employee = [e \in Employees |-> None]
  /\ request = [r \in Requests |-> None]
  /\ clock = [e \in Employees |-> "none"]
  /\ delivery = [o \in Orders |-> [e \in Employees |-> 0]]
  /\ assessor = [a \in Assessors |-> Resting]
  /\ staffTickets = 0
  /\ overlapped = FALSE /\ restaffed = FALSE

Staff(role) == {e \in Employees : employee[e] # None /\ employee[e].role = role}

Assigned == \E o \in Orders, e \in Employees : delivery[o][e] > 0

-----------------------------------------------------------------------------
(* Employees. *)

\* PostgreSQL keeps no hourly rate.
StoredEmployee(row) == IF driver = "memory" THEN row ELSE [row EXCEPT !.rate = None]

SaveEmployee(e, row) ==
  /\ employee' = [employee EXCEPT ![e] = StoredEmployee(row)]
  /\ restaffed' = (restaffed \/ Assigned \/ \E a \in Assessors : assessor[a].pc \notin {"idle", "employee"})

CreateEmployee(e, role, rate) ==
  /\ employee[e] = None /\ e = CHOOSE x \in Employees : employee[x] = None
  /\ SaveEmployee(e, [role |-> role, rate |-> rate])
  /\ UNCHANGED <<driver, request, clock, delivery, assessor, staffTickets, overlapped>>

\* updateEmployee changes a copy ...
UpdateEmployee(a, e, role, rate) ==
  /\ assessor[a] = Resting /\ employee[e] # None
  /\ assessor' = [assessor EXCEPT ![a] = [Resting EXCEPT !.pc = "employee", !.of = e,
                                            !.row = [role |-> role, rate |-> rate]]]
  /\ \/ role = employee[e].role \* one field at a time
     \/ rate = employee[e].rate
  /\ UNCHANGED <<driver, employee, request, clock, delivery, staffTickets, overlapped, restaffed>>

\* ... and writes it back.
WriteEmployee(a) ==
  /\ assessor[a].pc = "employee"
  /\ SaveEmployee(assessor[a].of, assessor[a].row)
  /\ assessor' = [assessor EXCEPT ![a] = Resting]
  /\ UNCHANGED <<driver, request, clock, delivery, staffTickets, overlapped>>

\* recordAttendance and clockOut; who has clocked out can do it again.
RecordAttendance(e) ==
  /\ employee[e] # None /\ clock[e] = "none"
  /\ clock' = [clock EXCEPT ![e] = "in"]
  /\ UNCHANGED <<driver, employee, request, delivery, assessor, staffTickets, overlapped, restaffed>>

ClockOut(e) ==
  /\ clock[e] # "none"
  /\ clock' = [clock EXCEPT ![e] = "out"]
  /\ UNCHANGED <<driver, employee, request, delivery, assessor, staffTickets, overlapped, restaffed>>

-----------------------------------------------------------------------------
(* Leave and overtime. *)

NewRequest(r) == request[r] = None /\ r = CHOOSE x \in Requests : request[x] = None

RequestLeave(r, e) ==
  /\ NewRequest(r) /\ employee[e] # None
  /\ request' = [request EXCEPT ![r] = [kind |-> "leave", of |-> e, hours |-> 0,
                   reason |-> FALSE, cost |-> 0, status |-> "PENDING"]]
  /\ UNCHANGED <<driver, employee, clock, delivery, assessor, staffTickets, overlapped, restaffed>>

\* The cost of overtime is estimated once, at one and a half times the rate.
EstimatedCost(e, hours) ==
  LET rate == IF employee[e].rate = None THEN DefaultRate ELSE employee[e].rate
  IN (hours * rate * 3) \div 2

Overtime(e, hours, reason) ==
  [kind |-> "overtime", of |-> e, hours |-> hours, reason |-> reason,
   cost |-> EstimatedCost(e, hours), status |-> "REQUESTED"]

RequestOvertime(r, e, hours, reason) ==
  /\ NewRequest(r) /\ employee[e] # None
  /\ request' = [request EXCEPT ![r] = Overtime(e, hours, reason)]
  /\ UNCHANGED <<driver, employee, clock, delivery, assessor, staffTickets, overlapped, restaffed>>

\* approveLeave, rejectLeave, approveOvertime and rejectOvertime ask nothing of the
\* status; the status is all they change.
Settle(r, status) ==
  /\ request[r] # None
  /\ request' = [request EXCEPT ![r].status = status]
  /\ UNCHANGED <<driver, employee, clock, delivery, assessor, staffTickets, overlapped, restaffed>>

-----------------------------------------------------------------------------
(* assessStaffing *)

\* In percent, rounded; nobody at all is not used at all.
Utilization(load, capacity) ==
  IF capacity = 0 THEN 0 ELSE (200 * load + capacity) \div (2 * capacity)

Severity(utilization) ==
  CASE utilization >= 200 -> "CRITICAL"
    [] utilization > 100 /\ utilization < 200 -> "OVERLOADED"
    [] utilization \in 75 .. 100 -> "BUSY"
    [] utilization < 75 -> "NORMAL"

\* The assessment takes down its staff ...
AssessStaffing(a, pending, orders) ==
  /\ assessor[a] = Resting
  /\ assessor' = [assessor EXCEPT ![a] =
       [Resting EXCEPT !.pc = "loads", !.orders = orders, !.pending = pending,
                       !.warehouse = Staff("WAREHOUSE"), !.courier = Staff("COURIER")]]
  /\ overlapped' = (overlapped \/ \E b \in Assessors : assessor[b].pc \notin {"idle", "employee"})
  /\ UNCHANGED <<driver, employee, request, clock, delivery, staffTickets, restaffed>>

\* ... asks for the deliveries of one courier after the other ...
Carried(e) == MapThenSumSet(LAMBDA o : delivery[o][e], Orders)

ReadLoad(a, e) ==
  LET loads == assessor[a].loads IN
  /\ assessor[a].pc = "loads" /\ e \in assessor[a].courier \ DOMAIN loads
  /\ assessor' = [assessor EXCEPT ![a].loads =
       [x \in DOMAIN loads \cup {e} |-> IF x = e THEN Carried(e) ELSE loads[x]]]
  /\ UNCHANGED <<driver, employee, request, clock, delivery, staffTickets, overlapped, restaffed>>

\* ... and finds how well used both groups are; the better used one will be asked for
\* overtime if that is too well.
Judge(a) ==
  LET loads == assessor[a].loads
      warehouse == Utilization(assessor[a].pending,
                               WarehousePerHead * Cardinality(assessor[a].warehouse))
      courier == Utilization(MapThenSumSet(LAMBDA e : loads[e], DOMAIN loads),
                             CourierPerHead * Cardinality(assessor[a].courier))
      peak == Max({warehouse, courier})
  IN /\ assessor[a].pc = "loads" /\ DOMAIN loads = assessor[a].courier
     /\ assessor' = [assessor EXCEPT ![a].pc = "orders", ![a].peak = peak,
          ![a].group = IF Severity(peak) \notin {"OVERLOADED", "CRITICAL"} THEN {}
                       ELSE IF warehouse >= courier THEN assessor[a].warehouse
                       ELSE assessor[a].courier]
     /\ UNCHANGED <<driver, employee, request, clock, delivery, staffTickets, overlapped, restaffed>>

\* *Fault*: the load of the courier is not counted up.
LoadsUnchanged(a, e) == assessor[a].loads

LoadsAfter(a, e) == [assessor[a].loads EXCEPT ![e] = @ + 1]

LeastLoaded(a) ==
  LET loads == assessor[a].loads
  IN {e \in DOMAIN loads : \A x \in DOMAIN loads : loads[e] <= loads[x]}

Undelivered(o) == \A e \in Employees : delivery[o][e] = 0

\* An order that has a delivery is skipped; for another the least loaded courier is
\* chosen, and without couriers no order is looked at any more.
ConsiderOrder(a) ==
  LET orders == assessor[a].orders IN
  /\ assessor[a].pc = "orders" /\ orders # <<>>
  /\ IF ~Undelivered(Head(orders))
       THEN assessor' = [assessor EXCEPT ![a].orders = Tail(@)]
       ELSE IF assessor[a].courier = {}
         THEN assessor' = [assessor EXCEPT ![a].orders = <<>>]
         ELSE \E e \in LeastLoaded(a) :
                assessor' = [assessor EXCEPT ![a].pc = "create", ![a].of = e]
  /\ UNCHANGED <<driver, employee, request, clock, delivery, staffTickets, overlapped, restaffed>>

CreateDelivery(a) ==
  LET e == assessor[a].of IN
  /\ assessor[a].pc = "create"
  /\ delivery' = [delivery EXCEPT ![Head(assessor[a].orders)][e] = @ + 1]
  /\ assessor' = [assessor EXCEPT ![a].pc = "orders", ![a].orders = Tail(@),
                                  ![a].loads = LoadsAfter(a, e)]
  /\ UNCHANGED <<driver, employee, request, clock, staffTickets, overlapped, restaffed>>

\* Everybody in the group is asked for one to four hours of overtime.
SurgeHours(peak) == Min({4, Max({1, (4 * (peak - 100) + 99) \div 100})})

RequestSurge(a, e, r) ==
  /\ assessor[a].pc = "orders" /\ assessor[a].orders = <<>>
  /\ e \in assessor[a].group /\ NewRequest(r)
  /\ request' = [request EXCEPT ![r] = Overtime(e, SurgeHours(assessor[a].peak), TRUE)]
  /\ assessor' = [assessor EXCEPT ![a].group = @ \ {e}]
  /\ UNCHANGED <<driver, employee, clock, delivery, staffTickets, overlapped, restaffed>>

\* A critical shortage becomes a ticket, if one can be created.
Conclude(a) ==
  /\ assessor[a].pc = "orders" /\ assessor[a].orders = <<>> /\ assessor[a].group = {}
  /\ \/ Severity(assessor[a].peak) = "CRITICAL" /\ staffTickets' = staffTickets + 1
     \/ UNCHANGED staffTickets
  /\ assessor' = [assessor EXCEPT ![a] = Resting]
  /\ UNCHANGED <<driver, employee, request, clock, delivery, overlapped, restaffed>>

-----------------------------------------------------------------------------
StaffStep ==
  \/ \E e \in Employees :
       \/ \E role \in Role, rate \in Rates :
            \/ CreateEmployee(e, role, rate)
            \/ \E a \in Assessors : UpdateEmployee(a, e, role, rate)
       \/ RecordAttendance(e) \/ ClockOut(e)
  \/ \E a \in Assessors : WriteEmployee(a)

RequestStep ==
  \E r \in Requests :
    \/ \E e \in Employees : \/ RequestLeave(r, e)
                            \/ \E h \in Hours, why \in BOOLEAN : RequestOvertime(r, e, h, why)
    \/ \E status \in {"APPROVED", "REJECTED"} : Settle(r, status)

AssessStep ==
  \E a \in Assessors :
    \/ \E pending \in Loads, orders \in {SetToSeq(s) : s \in SUBSET Orders} :
         AssessStaffing(a, pending, orders)
    \/ \E e \in Employees : ReadLoad(a, e) \/ \E r \in Requests : RequestSurge(a, e, r)
    \/ Judge(a) \/ ConsiderOrder(a) \/ CreateDelivery(a) \/ Conclude(a)

HrisNext == StaffStep \/ RequestStep \/ AssessStep

HrisSpec == HrisInit /\ [][HrisNext]_hrisVars

-----------------------------------------------------------------------------
(* Properties. *)

\* While assessments do not overlap and the staff stays as it is, no order is
\* delivered twice and no courier has two deliveries more than another, over any
\* number of assessments.
CouriersShareDeliveries ==
  ~overlapped /\ ~restaffed =>
    /\ \A o \in Orders : MapThenSumSet(LAMBDA e : delivery[o][e], Employees) <= 1
    /\ \A e, f \in Staff("COURIER") : Carried(e) <= Carried(f) + 1
=============================================================================
