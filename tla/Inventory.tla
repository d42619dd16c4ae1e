------------------------------ MODULE Inventory ------------------------------
(***************************************************************************)
(* The reservation ledger of InventoryService.                             *)
(*                                                                         *)
(* Every handler is an async function over a repository that hands out     *)
(* COPIES of its rows: it reads a row, awaits, changes its copy, writes    *)
(* the whole copy back, awaits, and saves the reservation.  Other requests *)
(* run at each await, so one action below is one repository operation      *)
(* together with the straight-line code up to the next await.              *)
(*                                                                         *)
(* A call is one invocation of the service.  It runs once, and the         *)
(* reservation it creates (whose id is fresh) is named after it.           *)
(***************************************************************************)
EXTENDS Integers, FiniteSets, FiniteSetsExt

CONSTANTS
  Calls,            \* invocations of the service
  Items,            \* (warehouse, product) pairs that have a stock row
  Keys,             \* idempotency keys clients send
  NoKey,            \* a call without an idempotency key
  None,             \* "null": no reservation, no row read yet
  Quantities,       \* quantities a client may ask for
  InitialQuantity   \* physical quantity of every item at the start

ASSUME QuantityAssumption ==
  Quantities \subseteq Nat \ {0} /\ InitialQuantity \in Nat
ASSUME KeyAssumption == NoKey \notin Keys

VARIABLES
  stock,            \* [Items -> Row]: the stock table
  reservations,     \* [Calls -> Reservation or None]: the reservation table
  movements,        \* the stock movements written so far
  call,             \* [Calls -> the local state of the invocation]
  returned,         \* history: reservations whose quantity was given back
  raced             \* history: items written from a row that was out of date

vars == <<stock, reservations, movements, call, returned, raced>>
history == <<returned, raced>>

Row == [quantity : Nat, reserved : Nat]

Reservation == [item : Items, quantity : Quantities,
                key : Keys \cup {NoKey}, status : {"PENDING", "CANCELLED"}]

ASSUME NoneAssumption ==
  /\ None \notin Calls /\ None \notin Reservation
  /\ None \notin [item : Items, quantity : Quantities]

MovementType == {"IN", "OUT", "RESERVATION"}

Movement == [call : Calls, item : Items, type : MovementType, quantity : Nat]

Idle == [op |-> "none", pc |-> "idle", item |-> None, quantity |-> 0,
         key |-> NoKey, target |-> None, found |-> None, seen |-> None]

Available(row) == row.quantity - row.reserved

(***************************************************************************)
(* The calls.  Begin* records the arguments of a request; the first        *)
(* repository operation follows as a step of its own.                      *)
(***************************************************************************)
Goto(c, pc) == call' = [call EXCEPT ![c].pc = pc]

Begin(c, arguments) ==
  /\ call[c] = Idle
  /\ call' = [call EXCEPT ![c] = arguments]
  /\ UNCHANGED <<stock, reservations, movements, history>>

\* Without a key the lookup is skipped.
BeginReserve(c, i, n, k) ==
  Begin(c, [Idle EXCEPT !.op = "reserve", !.item = i, !.quantity = n,
                        !.key = k,
                        !.pc = IF k = NoKey THEN "read" ELSE "lookup"])

BeginCancel(c, r) ==
  Begin(c, [Idle EXCEPT !.op = "cancel", !.target = r, !.pc = "find"])

BeginSetStock(c, i, n) ==
  Begin(c, [Idle EXCEPT !.op = "setStock", !.item = i, !.quantity = n,
                        !.pc = "read"])

(***************************************************************************)
(* findReservationByIdempotencyKey: any reservation with the key, whatever *)
(* its status, is returned to the client as the result of this call.       *)
(***************************************************************************)
WithKey(k) == {r \in Calls : reservations[r] # None /\ reservations[r].key = k}

LookUp(c) ==
  /\ call[c].pc = "lookup"
  /\ \/ /\ WithKey(call[c].key) = {}
        /\ Goto(c, "read")
     \/ \E r \in WithKey(call[c].key) :
          call' = [call EXCEPT ![c].pc = "done", ![c].target = r]
  /\ UNCHANGED <<stock, reservations, movements, history>>

\* Fault: cancelling twice is not noticed.
AlwaysCancellable(r) == TRUE

Cancellable(r) == reservations[r].status # "CANCELLED"

\* cancelReservation of an unknown id throws; of a cancelled one, succeeds.
FindReservation(c) ==
  LET r == call[c].target IN
  /\ call[c].pc = "find"
  /\ \/ /\ reservations[r] = None
        /\ Goto(c, "failed")
     \/ /\ reservations[r] # None /\ ~Cancellable(r)
        /\ Goto(c, "done")
     \/ /\ reservations[r] # None /\ Cancellable(r)
        /\ call' = [call EXCEPT ![c].pc = "read",
                                ![c].found = reservations[r].status,
                                ![c].item = reservations[r].item,
                                ![c].quantity = reservations[r].quantity]
  /\ UNCHANGED <<stock, reservations, movements, history>>

(***************************************************************************)
(* findStock, and the check each operation makes on the copy it got.       *)
(***************************************************************************)
\* Fault: a count is taken as it comes.
AcceptsAnyCount(q, row) ==
  q.op = "reserve" => Available(row) >= q.quantity

Accepts(q, row) ==
  CASE q.op = "reserve"  -> Available(row) >= q.quantity
    [] q.op = "setStock" -> q.quantity >= row.reserved
    [] OTHER             -> TRUE

ReadStock(c) ==
  LET row == stock[call[c].item] IN
  /\ call[c].pc = "read"
  /\ call' = [call EXCEPT ![c].seen = row,
                          ![c].pc = IF Accepts(call[c], row) THEN "write"
                                                             ELSE "failed"]
  /\ UNCHANGED <<stock, reservations, movements, history>>

\* The row a call writes back, computed from the copy it read.
Updated(q) ==
  LET row == q.seen
      n   == q.quantity
  IN CASE q.op = "reserve"  -> [row EXCEPT !.reserved = @ + n]
       [] q.op = "cancel"   ->
            [row EXCEPT !.reserved = IF @ >= n THEN @ - n ELSE 0]
       [] q.op = "setStock" -> [row EXCEPT !.quantity = n]

\* A copy was overtaken: the row has changed since it was read, or the
\* reservation, found pending, has been given back by another call.
Overtaken(c) ==
  \/ stock[call[c].item] # call[c].seen
  \/ call[c].found = "PENDING" /\ call[c].target \in returned

WriteStock(c) ==
  LET i == call[c].item IN
  /\ call[c].pc = "write"
  /\ stock' = [stock EXCEPT ![i] = Updated(call[c])]
  /\ Goto(c, IF call[c].op = "setStock" THEN "log" ELSE "save")
  /\ returned' = IF call[c].op = "cancel" THEN returned \cup {call[c].target}
                                          ELSE returned
  /\ raced' = IF Overtaken(c) THEN raced \cup {i} ELSE raced
  /\ UNCHANGED <<reservations, movements>>

SaveReservation(c) ==
  /\ call[c].pc = "save"
  /\ \/ /\ call[c].op = "reserve"
        /\ reservations' = [reservations EXCEPT ![c] =
             [item |-> call[c].item, quantity |-> call[c].quantity,
              key |-> call[c].key, status |-> "PENDING"]]
        /\ call' = [call EXCEPT ![c].pc = "log", ![c].target = c]
     \/ /\ call[c].op = "cancel"
        /\ reservations' =
             [reservations EXCEPT ![call[c].target].status = "CANCELLED"]
        /\ Goto(c, "done")
  /\ UNCHANGED <<stock, movements, history>>

(***************************************************************************)
(* createMovement.  Counting the same quantity again records no movement.  *)
(***************************************************************************)
Delta(c) == call[c].quantity - call[c].seen.quantity

MovementOf(c) ==
  IF call[c].op = "reserve"
  THEN {[call |-> c, item |-> call[c].item, type |-> "RESERVATION",
         quantity |-> call[c].quantity]}
  ELSE {[call |-> c, item |-> call[c].item, type |-> t, quantity |-> n] :
         t \in {u \in {"IN", "OUT"} : u = "IN" <=> Delta(c) > 0},
         n \in {m \in {Delta(c), -Delta(c)} : m > 0}}

LogMovement(c) ==
  /\ call[c].pc = "log"
  /\ movements' = movements \cup MovementOf(c)
  /\ Goto(c, "done")
  /\ UNCHANGED <<stock, reservations, history>>

-----------------------------------------------------------------------------
Init ==
  /\ stock = [i \in Items |-> [quantity |-> InitialQuantity, reserved |-> 0]]
  /\ reservations = [c \in Calls |-> None]
  /\ movements = {}
  /\ call = [c \in Calls |-> Idle]
  /\ returned = {}
  /\ raced = {}

\* One repository operation of a call that has begun.
Step(c) ==
  \/ LookUp(c)
  \/ FindReservation(c)
  \/ ReadStock(c)
  \/ WriteStock(c)
  \/ SaveReservation(c)
  \/ LogMovement(c)

Begins(c) ==
  \/ \E i \in Items, n \in Quantities, k \in Keys \cup {NoKey} :
       BeginReserve(c, i, n, k)
  \/ \E r \in Calls : BeginCancel(c, r)
  \/ \E i \in Items, n \in Quantities \cup {0} : BeginSetStock(c, i, n)

Next == \E c \in Calls : Begins(c) \/ Step(c)

Spec == Init /\ [][Next]_vars

-----------------------------------------------------------------------------
CallState ==
  [op : {"none", "reserve", "cancel", "setStock"},
   pc : {"idle", "lookup", "find", "read", "write", "save", "log", "done",
         "failed"},
   item : Items \cup {None}, quantity : Nat, key : Keys \cup {NoKey},
   target : Calls \cup {None}, found : {"PENDING", "CANCELLED", None},
   seen : Row \cup {None}]

TypeOK ==
  /\ stock \in [Items -> Row]
  /\ reservations \in [Calls -> Reservation \cup {None}]
  /\ movements \subseteq Movement
  /\ call \in [Calls -> CallState]
  /\ returned \subseteq Calls
  /\ raced \subseteq Items

(***************************************************************************)
(* However requests interleave, no stock row ever promises more than is    *)
(* there: the handlers check a copy that may be out of date, but what they *)
(* write was consistent when they checked it.                              *)
(***************************************************************************)
RowsConsistent == \A i \in Items : stock[i].reserved <= stock[i].quantity

Total(f(_), S) == MapThenSumSet(f, S)

Pending(i) ==
  {r \in Calls : /\ reservations[r] # None
                 /\ reservations[r].item = i
                 /\ reservations[r].status = "PENDING"}

\* A reservation whose stock row is written but not yet its own record.
InFlight(i) ==
  {c \in Calls : call[c].item = i /\ call[c].pc \in {"save", "log"}}

(***************************************************************************)
(* An item whose row was never written from an out-of-date copy keeps an   *)
(* exact ledger, whatever happens to other items: once no call is between  *)
(* its two writes, the reserved quantity is the sum of the pending         *)
(* reservations.                                                           *)
(***************************************************************************)
LedgerExact ==
  \A i \in Items \ raced :
    InFlight(i) = {} =>
      stock[i].reserved =
        Total(LAMBDA r : reservations[r].quantity, Pending(i))

(***************************************************************************)
(* The movements of such an item explain its physical quantity: reserving  *)
(* and cancelling write back the whole row, yet never undo a count.        *)
(***************************************************************************)
Counts(i, t) == {m \in movements : m.item = i /\ m.type = t}

QuantityAudited ==
  \A i \in Items \ raced :
    InFlight(i) = {} =>
      stock[i].quantity = InitialQuantity
                          + Total(LAMBDA m : m.quantity, Counts(i, "IN"))
                          - Total(LAMBDA m : m.quantity, Counts(i, "OUT"))

(***************************************************************************)
(* The atomic ledger these handlers implement.  A call holds its quantity  *)
(* from the moment its stock row is written until a cancellation gives it  *)
(* back.                                                                   *)
(***************************************************************************)
Holds(c) ==
  /\ call[c].op = "reserve"
  /\ \/ call[c].pc \in {"save", "log"}
     \/ call[c].pc = "done" /\ call[c].target = c
  /\ c \notin returned

Ledger == INSTANCE ReservationLedger WITH
  quantity <- [i \in Items |-> stock[i].quantity],
  held <- [c \in Calls |->
             IF Holds(c)
             THEN [item |-> call[c].item, quantity |-> call[c].quantity]
             ELSE None]

\* Handlers that do not race on a row behave as if they were atomic.
ImplementsLedger == Ledger!Spec

\* An item nobody raced on is never promised beyond its physical quantity,
\* counting the reservations still being saved.
NeverOverpromised == Ledger!NeverOverpromised

(***************************************************************************)
(* "should perform atomic reservation and enforce idempotency key"         *)
(* (apps/api/test/inventory.test.ts): pending reservations never exceed the *)
(* physical quantity.  False when two calls interleave.                    *)
(***************************************************************************)
NeverOversold ==
  \A i \in Items :
    Total(LAMBDA r : reservations[r].quantity, Pending(i)) <= stock[i].quantity
=============================================================================
