--------------------------- MODULE Inventory_proofs ---------------------------
(***************************************************************************)
(* The reservation ledger, for any number of calls, items, keys and        *)
(* quantities: its types, RowsConsistent, the books of the warehouse and   *)
(* the atomic ledger the handlers implement.                               *)
(*                                                                         *)
(* RowsConsistent is not inductive: a row is replaced by one computed from *)
(* an older copy.  What makes it hold is that every copy satisfied the     *)
(* check of its handler when it was read, so that the row a call will      *)
(* write is consistent whatever has become of the table since.             *)
(*                                                                         *)
(* The books agree only between the two writes of every call, and are      *)
(* stated for such moments.  At every moment a row's reserved quantity is  *)
(* what the calls HOLD, from the write of the row to the write that gives  *)
(* it back, and its quantity is what the movements written add up to,      *)
(* those included that a count is about to log.                            *)
(***************************************************************************)
EXTENDS MCInventory, SumTheorems, TLAPS

Consistent(row) == row.reserved <= row.quantity

\* What a call in progress has established, by how far it got.
CallSound(c) ==
  LET q == call[c] IN
  /\ q.op = "none" => q.pc = "idle"
  /\ q.op = "reserve" => q.item \in Items /\ q.quantity \in Quantities
  /\ q.op = "setStock" => q.item \in Items
  /\ q.op = "cancel" => q.target \in Calls
  /\ q.pc = "lookup" => q.op = "reserve"
  /\ q.pc = "find" => q.op = "cancel"
  /\ q.pc \in {"read", "write", "save", "log"} => q.item \in Items
  /\ q.pc \in {"write", "save", "log"} => q.seen \in Row
  /\ q.pc = "save" => q.op \in {"reserve", "cancel"}
  /\ q.pc = "log" => q.op \in {"reserve", "setStock"}
  /\ q.op = "cancel" /\ q.pc \in {"read", "write", "save"} =>
       reservations[q.target] # None
  /\ q.pc = "write" => Consistent(Updated(q)) /\ Updated(q) \in Row

CallsSound == \A c \in Calls : CallSound(c)

IInv == TypeOK /\ RowsConsistent /\ CallsSound

\* Initially nothing is reserved and no call is in progress.
LEMMA InitEstablishes == Init => IInv
<1> SUFFICES ASSUME Init PROVE IInv
    OBVIOUS
<1>1. TypeOK
  BY QuantityAssumption DEF Init, TypeOK, Row, CallState, Idle
<1>2. RowsConsistent
  BY QuantityAssumption DEF Init, RowsConsistent
<1>3. CallsSound
  BY DEF Init, CallsSound, CallSound, Idle
<1> QED  BY <1>1, <1>2, <1>3 DEF IInv

\* A step that changes only the local state of one call keeps the tables, so
\* the invariant is kept if that call's new state is typed and sound.
LEMMA LocalStep ==
  ASSUME IInv, NEW c \in Calls, NEW q \in CallState,
         call' = [call EXCEPT ![c] = q], CallSound(c)',
         UNCHANGED <<stock, reservations, movements, history>>
  PROVE  IInv'
<1>1. TypeOK'
  BY DEF IInv, TypeOK, history
<1>2. RowsConsistent'
  BY DEF IInv, RowsConsistent, history
<1>3. CallsSound'
  <2> SUFFICES ASSUME NEW d \in Calls, d # c  PROVE CallSound(d)'
      BY DEF CallsSound
  <2>1. call'[d] = call[d]
    BY DEF IInv, TypeOK
  <2> QED  BY <2>1 DEF IInv, CallsSound, CallSound, Updated, history
<1> QED  BY <1>1, <1>2, <1>3 DEF IInv

\* The row written by each operation, case by case.
LEMMA UpdatedByCase ==
  ASSUME NEW q
  PROVE
  /\ q.op = "reserve" =>
       Updated(q) = [q.seen EXCEPT !.reserved = @ + q.quantity]
  /\ q.op = "cancel" =>
       Updated(q) = [q.seen EXCEPT !.reserved =
                       IF @ >= q.quantity THEN @ - q.quantity
                                                ELSE 0]
  /\ q.op = "setStock" =>
       Updated(q) = [q.seen EXCEPT !.quantity = q.quantity]
BY Zenon DEF Updated

\* The check of each operation, case by case.
LEMMA AcceptsByCase ==
  ASSUME NEW q, NEW row, Accepts(q, row)
  PROVE
  /\ q.op = "reserve" => row.quantity - row.reserved >= q.quantity
  /\ q.op = "setStock" => q.quantity >= row.reserved
BY Zenon DEF Accepts, Available

\* What a handler writes after its check is a consistent row.  The copy is
\* a row of the table, and those are consistent.
LEMMA AcceptedIsConsistent ==
  ASSUME NEW q, q.seen \in Row, Consistent(q.seen),
         q.quantity \in Nat,
         q.op \in {"reserve", "cancel", "setStock"},
         Accepts(q, q.seen)
  PROVE  Updated(q) \in Row /\ Consistent(Updated(q))
<1> DEFINE row == q.seen
           n   == q.quantity
<1>0. row \in Row /\ n \in Nat /\ row.reserved <= row.quantity
  BY DEF Consistent
<1>1. CASE q.op = "reserve"
  <2>1. Updated(q) = [row EXCEPT !.reserved = @ + n]
    BY <1>1, UpdatedByCase, Zenon
  <2>2. row.quantity - row.reserved >= n
    BY <1>1, AcceptsByCase
  <2> HIDE DEF row, n
  <2> QED  BY <1>0, <2>1, <2>2 DEF Row, Consistent
<1>2. CASE q.op = "cancel"
  <2>1. Updated(q) = [row EXCEPT !.reserved = IF @ >= n THEN @ - n ELSE 0]
    BY <1>2, UpdatedByCase, Zenon
  <2> HIDE DEF row, n
  <2> QED  BY <1>0, <2>1 DEF Row, Consistent
<1>3. CASE q.op = "setStock"
  <2>1. Updated(q) = [row EXCEPT !.quantity = n]
    BY <1>3, UpdatedByCase, Zenon
  <2>2. n >= row.reserved
    BY <1>3, AcceptsByCase
  <2> HIDE DEF row, n
  <2> QED  BY <1>0, <2>1, <2>2 DEF Row, Consistent
<1> QED  BY <1>1, <1>2, <1>3

(***************************************************************************)
(* One lemma per kind of step.                                             *)
(***************************************************************************)
LEMMA BeginPreserves ==
  ASSUME IInv, NEW c \in Calls, Begins(c)  PROVE IInv'
<1>1. ASSUME NEW i \in Items, NEW n \in Quantities, NEW k \in Keys \cup {NoKey},
             BeginReserve(c, i, n, k)
      PROVE  IInv'
  <2> DEFINE q == [Idle EXCEPT !.op = "reserve", !.item = i, !.quantity = n,
                               !.key = k,
                               !.pc = IF k = NoKey THEN "read" ELSE "lookup"]
  <2>1. call' = [call EXCEPT ![c] = q]
        /\ UNCHANGED <<stock, reservations, movements, history>>
    BY <1>1 DEF BeginReserve, Begin
  <2>2. q \in CallState
    BY QuantityAssumption DEF Idle, CallState
  <2>3. CallSound(c)'
    BY <2>1, call'[c] = q DEF IInv, TypeOK, CallSound, Idle
  <2> QED  BY <2>1, <2>2, <2>3, LocalStep
<1>2. ASSUME NEW r \in Calls, BeginCancel(c, r)  PROVE IInv'
  <2> DEFINE q == [Idle EXCEPT !.op = "cancel", !.target = r, !.pc = "find"]
  <2>1. call' = [call EXCEPT ![c] = q]
        /\ UNCHANGED <<stock, reservations, movements, history>>
    BY <1>2 DEF BeginCancel, Begin
  <2>2. q \in CallState
    BY DEF Idle, CallState
  <2>3. CallSound(c)'
    BY <2>1, call'[c] = q DEF IInv, TypeOK, CallSound, Idle
  <2> QED  BY <2>1, <2>2, <2>3, LocalStep
<1>3. ASSUME NEW i \in Items, NEW n \in Quantities \cup {0},
             BeginSetStock(c, i, n)
      PROVE  IInv'
  <2> DEFINE q == [Idle EXCEPT !.op = "setStock", !.item = i, !.quantity = n,
                               !.pc = "read"]
  <2>1. call' = [call EXCEPT ![c] = q]
        /\ UNCHANGED <<stock, reservations, movements, history>>
    BY <1>3 DEF BeginSetStock, Begin
  <2>. n \in Nat
    BY QuantityAssumption
  <2>2. q \in CallState
    BY DEF Idle, CallState
  <2>3. CallSound(c)'
    BY <2>1, call'[c] = q DEF IInv, TypeOK, CallSound, Idle
  <2> QED  BY <2>1, <2>2, <2>3, LocalStep
<1> QED  BY <1>1, <1>2, <1>3 DEF Begins

\* The lookup by key keeps the invariant,
LEMMA LookUpPreserves ==
  ASSUME IInv, NEW c \in Calls, LookUp(c)  PROVE IInv'
<1>0. call[c] \in CallState /\ CallSound(c) /\ call[c].pc = "lookup"
  BY DEF IInv, TypeOK, CallsSound, LookUp
<1>1. CASE Goto(c, "read")
  <2> DEFINE q == [call[c] EXCEPT !.pc = "read"]
  <2>1. call' = [call EXCEPT ![c] = q]
        /\ UNCHANGED <<stock, reservations, movements, history>>
    BY <1>1 DEF LookUp, Goto
  <2>2. q \in CallState
    BY <1>0 DEF CallState
  <2>3. call'[c] = q
    BY <2>1 DEF IInv, TypeOK
  <2>4. CallSound(c)'
    BY <1>0, <2>3 DEF CallSound, CallState
  <2> QED  BY <2>1, <2>2, <2>4, LocalStep
<1>2. ASSUME NEW r \in Calls,
             call' = [call EXCEPT ![c].pc = "done", ![c].target = r]
      PROVE  IInv'
  <2> DEFINE q == [call[c] EXCEPT !.pc = "done", !.target = r]
  <2>1. call' = [call EXCEPT ![c] = q]
        /\ UNCHANGED <<stock, reservations, movements, history>>
    BY <1>2 DEF LookUp
  <2>2. q \in CallState
    BY <1>0 DEF CallState
  <2>3. call'[c] = q
    BY <2>1 DEF IInv, TypeOK
  <2>4. CallSound(c)'
    BY <1>0, <2>3 DEF CallSound, CallState
  <2> QED  BY <2>1, <2>2, <2>4, LocalStep
<1> QED  BY <1>1, <1>2 DEF LookUp, WithKey

\* as do the lookup of a reservation to cancel,
LEMMA FindPreserves ==
  ASSUME IInv, NEW c \in Calls, FindReservation(c)  PROVE IInv'
<1> DEFINE r == call[c].target
<1>0. /\ call[c] \in CallState /\ CallSound(c) /\ call[c].pc = "find"
      /\ r \in Calls
  BY DEF IInv, TypeOK, CallsSound, CallSound, FindReservation
<1>1. ASSUME NEW pc \in {"failed", "done"}, Goto(c, pc)  PROVE IInv'
  <2> DEFINE q == [call[c] EXCEPT !.pc = pc]
  <2>1. call' = [call EXCEPT ![c] = q]
        /\ UNCHANGED <<stock, reservations, movements, history>>
    BY <1>1 DEF FindReservation, Goto
  <2>2. q \in CallState
    BY <1>0 DEF CallState
  <2>3. call'[c] = q
    BY <2>1 DEF IInv, TypeOK
  <2>4. CallSound(c)'
    BY <1>0, <2>3 DEF CallSound, CallState
  <2> QED  BY <2>1, <2>2, <2>4, LocalStep
<1>2. ASSUME reservations[r] # None,
             call' = [call EXCEPT ![c].pc = "read",
                                  ![c].found = reservations[r].status,
                                  ![c].item = reservations[r].item,
                                  ![c].quantity = reservations[r].quantity]
      PROVE  IInv'
  <2> DEFINE q == [call[c] EXCEPT !.pc = "read",
                                  !.found = reservations[r].status,
                                  !.item = reservations[r].item,
                                  !.quantity = reservations[r].quantity]
  <2>1. call' = [call EXCEPT ![c] = q]
        /\ UNCHANGED <<stock, reservations, movements, history>>
    BY <1>2 DEF FindReservation
  <2>2. reservations[r] \in Reservation
    BY <1>0, <1>2 DEF IInv, TypeOK
  <2>3. q \in CallState /\ q.item \in Items /\ q.op = "cancel"
    BY <1>0, <2>2, QuantityAssumption DEF CallState, Reservation, CallSound
  <2>4. call'[c] = q
    BY <2>1 DEF IInv, TypeOK
  <2>5. CallSound(c)'
    BY <1>0, <1>2, <2>1, <2>3, <2>4 DEF CallSound, CallState, history
  <2> QED  BY <2>1, <2>3, <2>5, LocalStep
<1> QED  BY <1>1, <1>2 DEF FindReservation

\* the read of a stock row, with its check,
LEMMA ReadPreserves ==
  ASSUME IInv, NEW c \in Calls, ReadStock(c)  PROVE IInv'
<1> DEFINE row == stock[call[c].item]
           pc  == IF Accepts(call[c], row) THEN "write" ELSE "failed"
           q   == [call[c] EXCEPT !.seen = row, !.pc = pc]
<1>1. /\ call[c] \in CallState /\ CallSound(c) /\ call[c].pc = "read"
      /\ call[c].item \in Items
  BY DEF IInv, TypeOK, CallsSound, CallSound, ReadStock
<1>2. row \in Row /\ Consistent(row)
  BY <1>1 DEF IInv, TypeOK, RowsConsistent, Consistent
<1>3. call' = [call EXCEPT ![c] = q]
      /\ UNCHANGED <<stock, reservations, movements, history>>
  BY DEF ReadStock
<1>4. q \in CallState
  BY <1>1, <1>2 DEF CallState
<1>5. call'[c] = q
  BY <1>3 DEF IInv, TypeOK
<1>6. /\ q.seen = row /\ q.pc = pc /\ q.op = call[c].op
      /\ q.item = call[c].item /\ q.quantity = call[c].quantity
      /\ q.target = call[c].target
  BY <1>1 DEF CallState
<1>7. ASSUME q.pc = "write"
      PROVE  Updated(q) \in Row /\ Consistent(Updated(q))
  <2>1. Accepts(call[c], row)
    BY <1>6, <1>7
  <2>2. Accepts(q, row)
    BY <1>6, <2>1, Zenon DEF Accepts
  <2>3. q.op \in {"reserve", "cancel", "setStock"} /\ q.quantity \in Nat
    BY <1>1, <1>6 DEF CallState, CallSound
  <2> QED  BY <1>2, <1>6, <2>2, <2>3, AcceptedIsConsistent
<1>8. CallSound(c)'
  <2>0. reservations' = reservations
    BY <1>3
  <2> HIDE DEF q, row
  <2>1. pc \in {"write", "failed"}
    OBVIOUS
  <2> HIDE DEF pc
  <2> QED  BY <1>1, <1>2, <1>5, <1>6, <1>7, <2>0, <2>1 DEF CallSound
<1> QED  BY <1>3, <1>4, <1>8, LocalStep

\* the write of a row computed from the copy,
LEMMA WritePreserves ==
  ASSUME IInv, NEW c \in Calls, WriteStock(c)  PROVE IInv'
<1> DEFINE i  == call[c].item
           pc == IF call[c].op = "setStock" THEN "log" ELSE "save"
<1>1. /\ call[c] \in CallState /\ CallSound(c) /\ call[c].pc = "write"
      /\ i \in Items /\ call[c].seen \in Row
      /\ Updated(call[c]) \in Row /\ Consistent(Updated(call[c]))
  BY DEF IInv, TypeOK, CallsSound, CallSound, WriteStock
<1>2. /\ stock' = [stock EXCEPT ![i] = Updated(call[c])]
      /\ call' = [call EXCEPT ![c].pc = pc]
      /\ UNCHANGED <<reservations, movements>>
  BY DEF WriteStock, Goto
<1>3. TypeOK'
  <2>1. stock' \in [Items -> Row]
    BY <1>1, <1>2 DEF IInv, TypeOK
  <2>2. call' \in [Calls -> CallState]
    BY <1>1, <1>2 DEF IInv, TypeOK, CallState
  <2>3. returned' \subseteq Calls
    BY <1>1 DEF IInv, TypeOK, WriteStock, CallSound
  <2>4. raced' \subseteq Items
    BY <1>1 DEF IInv, TypeOK, WriteStock
  <2> QED  BY <1>2, <2>1, <2>2, <2>3, <2>4 DEF IInv, TypeOK
<1>4. RowsConsistent'
  BY <1>1, <1>2 DEF IInv, TypeOK, RowsConsistent, Consistent
<1>5. CallsSound'
  <2>1. ASSUME NEW d \in Calls, d # c  PROVE CallSound(d)'
    <3>1. call'[d] = call[d]
      BY <1>2, <2>1 DEF IInv, TypeOK
    <3> QED  BY <1>2, <3>1 DEF IInv, CallsSound, CallSound
  <2>2. CallSound(c)'
    <3>1. call'[c] = [call[c] EXCEPT !.pc = pc]
      BY <1>2 DEF IInv, TypeOK
    <3> QED  BY <1>1, <1>2, <3>1 DEF CallSound, CallState
  <2> QED  BY <2>1, <2>2 DEF CallsSound
<1> QED  BY <1>3, <1>4, <1>5 DEF IInv

\* the write of a reservation,
LEMMA SavePreserves ==
  ASSUME IInv, NEW c \in Calls, SaveReservation(c)  PROVE IInv'
<1>1. /\ call[c] \in CallState /\ CallSound(c) /\ call[c].pc = "save"
      /\ call[c].item \in Items /\ call[c].seen \in Row
      /\ UNCHANGED <<stock, movements, returned, raced>>
  BY DEF IInv, TypeOK, CallsSound, CallSound, SaveReservation, history
<1>2. PICK r \in Calls, saved \in Reservation, t \in Calls \cup {None},
           pc \in {"log", "done"} :
        /\ reservations' = [reservations EXCEPT ![r] = saved]
        /\ call' = [call EXCEPT ![c].pc = pc, ![c].target = t]
        /\ pc = "log" => call[c].op = "reserve"
        /\ pc = "done" => t = call[c].target
  <2>1. CASE call[c].op = "reserve"
    <3> DEFINE saved == [item |-> call[c].item, quantity |-> call[c].quantity,
                         key |-> call[c].key, status |-> "PENDING"]
    <3>1. saved \in Reservation
      BY <1>1, <2>1 DEF CallState, CallSound, Reservation
    <3>2. /\ reservations' = [reservations EXCEPT ![c] = saved]
          /\ call' = [call EXCEPT ![c].pc = "log", ![c].target = c]
      BY <2>1 DEF SaveReservation
    <3> QED  BY <2>1, <3>1, <3>2
  <2>2. CASE call[c].op = "cancel"
    <3> DEFINE r     == call[c].target
               saved == [reservations[r] EXCEPT !.status = "CANCELLED"]
    <3>1. r \in Calls /\ reservations[r] \in Reservation
      BY <1>1, <2>2 DEF CallSound, IInv, TypeOK
    <3>2. saved \in Reservation
      BY <3>1 DEF Reservation
    <3>3. /\ reservations' = [reservations EXCEPT ![r] = saved]
          /\ call' = [call EXCEPT ![c].pc = "done"]
      BY <2>2 DEF SaveReservation, Goto
    <3>4. call' = [call EXCEPT ![c].pc = "done", ![c].target = r]
      BY <1>1, <3>3 DEF IInv, TypeOK, CallState
    <3> QED  BY <3>1, <3>2, <3>3, <3>4
  <2> QED  BY <2>1, <2>2 DEF SaveReservation
<1>3. \A s \in Calls : reservations[s] # None => reservations'[s] # None
  BY <1>2, NoneAssumption DEF IInv, TypeOK
<1>4. TypeOK'
  <2>1. call' \in [Calls -> CallState]
    BY <1>1, <1>2 DEF IInv, TypeOK, CallState
  <2> QED  BY <1>1, <1>2, <2>1 DEF IInv, TypeOK
<1>5. RowsConsistent'
  BY <1>1 DEF IInv, RowsConsistent
<1>6. CallsSound'
  <2>1. ASSUME NEW d \in Calls, d # c  PROVE CallSound(d)'
    <3>1. call'[d] = call[d]
      BY <1>2, <2>1 DEF IInv, TypeOK
    <3> QED  BY <1>3, <3>1 DEF IInv, CallsSound, CallSound
  <2>2. CallSound(c)'
    <3>1. call'[c] = [call[c] EXCEPT !.pc = pc, !.target = t]
      BY <1>2 DEF IInv, TypeOK
    <3>2. /\ call'[c].pc = pc /\ call'[c].target = t
          /\ call'[c].op = call[c].op /\ call'[c].item = call[c].item
          /\ call'[c].quantity = call[c].quantity
          /\ call'[c].seen = call[c].seen
      BY <1>1, <3>1 DEF CallState
    <3>3. pc = "log" => call[c].op = "reserve"
      BY <1>2
    <3>4. pc = "done" => t = call[c].target
      BY <1>2
    <3> QED  BY <1>1, <3>2, <3>3, <3>4 DEF CallSound
  <2> QED  BY <2>1, <2>2 DEF CallsSound
<1> QED  BY <1>4, <1>5, <1>6 DEF IInv

\* and the movement.
LEMMA LogPreserves ==
  ASSUME IInv, NEW c \in Calls, LogMovement(c)  PROVE IInv'
<1>1. /\ call[c] \in CallState /\ CallSound(c) /\ call[c].pc = "log"
      /\ call[c].item \in Items /\ call[c].seen \in Row
  BY DEF IInv, TypeOK, CallsSound, CallSound, LogMovement
<1>2. /\ call' = [call EXCEPT ![c].pc = "done"]
      /\ movements' = movements \cup MovementOf(c)
      /\ UNCHANGED <<stock, reservations, returned, raced>>
  BY DEF LogMovement, Goto, history
<1>3. MovementOf(c) \subseteq Movement
  <2>1. call[c].quantity \in Nat /\ Delta(c) \in Int
    BY <1>1 DEF Delta, CallState, Row
  <2> QED  BY <1>1, <2>1 DEF MovementOf, Movement, MovementType
<1>4. TypeOK'
  <2>1. call' \in [Calls -> CallState]
    BY <1>1, <1>2 DEF IInv, TypeOK, CallState
  <2> QED  BY <1>2, <1>3, <2>1 DEF IInv, TypeOK
<1>5. RowsConsistent'
  BY <1>2 DEF IInv, RowsConsistent
<1>6. CallsSound'
  <2>1. ASSUME NEW d \in Calls, d # c  PROVE CallSound(d)'
    <3>1. call'[d] = call[d]
      BY <1>2, <2>1 DEF IInv, TypeOK
    <3> QED  BY <1>2, <3>1 DEF IInv, CallsSound, CallSound
  <2>2. CallSound(c)'
    <3>1. call'[c] = [call[c] EXCEPT !.pc = "done"]
      BY <1>2 DEF IInv, TypeOK
    <3> QED  BY <1>1, <3>1 DEF CallSound, CallState
  <2> QED  BY <2>1, <2>2 DEF CallsSound
<1> QED  BY <1>4, <1>5, <1>6 DEF IInv

(***************************************************************************)
(* Every step preserves the inductive invariant.                           *)
(***************************************************************************)
LEMMA StepPreserves == IInv /\ [Next]_vars => IInv'
<1> SUFFICES ASSUME IInv, [Next]_vars  PROVE IInv'
    OBVIOUS
<1>1. ASSUME NEW c \in Calls, Begins(c) \/ Step(c)  PROVE IInv'
  BY <1>1, BeginPreserves, LookUpPreserves, FindPreserves, ReadPreserves,
     WritePreserves, SavePreserves, LogPreserves DEF Step
<1>2. CASE UNCHANGED vars
  BY <1>2 DEF vars, IInv, TypeOK, RowsConsistent, CallsSound, CallSound
<1> QED  BY <1>1, <1>2 DEF Next

\* What the rows and the calls in progress have established holds of every reachable state.
THEOREM InductiveInvariant == Spec => []IInv
BY InitEstablishes, StepPreserves, PTL DEF Spec

\* InventoryService keeps its tables and the local state of its handlers in
\* their types: in particular no reserved quantity ever becomes negative.
THEOREM TypeCorrect == Spec => []TypeOK
<1>1. IInv => TypeOK
  BY DEF IInv
<1> QED  BY <1>1, InductiveInvariant, PTL

\* However reserveStock, cancelReservation and setStock interleave at their
\* awaits, no stock row ever has more reserved than it has.
THEOREM RowsAlwaysConsistent == Spec => []RowsConsistent
<1>1. IInv => RowsConsistent
  BY DEF IInv
<1> QED  BY <1>1, InductiveInvariant, PTL

-----------------------------------------------------------------------------
(***************************************************************************)
(* The books.                                                              *)
(***************************************************************************)
\* A reserving call whose reservation is in the table.
Saved(c) ==
  /\ call[c].op = "reserve"
  /\ call[c].pc = "log" \/ (call[c].pc = "done" /\ call[c].target = c)

\* The reservation of a call, and what a cancelling call knows of the one it
\* gives back.
RecordSound(c) ==
  LET q == call[c] IN
  /\ reservations[c] # None <=> Saved(c)
  /\ q.op = "reserve" /\ q.pc = "log" => q.target = c
  /\ reservations[c] # None =>
       reservations[c].item = q.item /\ reservations[c].quantity = q.quantity
  /\ reservations[c] # None /\ c \notin returned =>
       reservations[c].status = "PENDING"
  /\ reservations[c] # None /\ c \in returned /\ reservations[c].status = "PENDING" =>
       \E d \in Calls : call[d].op = "cancel" /\ call[d].pc = "save" /\ call[d].target = c
  /\ c \in returned => reservations[c] # None
  /\ q.op = "cancel" /\ q.pc \in {"read", "write", "save"} =>
       /\ q.found = "PENDING"
       /\ q.item = reservations[q.target].item
       /\ q.quantity = reservations[q.target].quantity
  /\ q.op = "cancel" /\ q.pc = "save" => q.target \in returned

RecordsSound == \A c \in Calls : RecordSound(c)

\* The calls that hold some of an item, and how much they hold of it.
HeldOf(i) == {c \in Calls : Holds(c) /\ call[c].item = i}
HeldTotal(i) == TotalOf([c \in Calls |-> call[c].quantity], HeldOf(i))

\* The movements written, and those of a count about to be.
Unlogged ==
  {m \in Movement : \E c \in Calls : call[c].op = "setStock" /\ call[c].pc = "log" /\ m \in MovementOf(c)}
Written == movements \cup Unlogged
Moved(i, t) == {m \in Written : m.item = i /\ m.type = t}
MovedTotal(i, t) == TotalOf([m \in Movement |-> m.quantity], Moved(i, t))

MovementsKnown == \A m \in Written : call[m.call].pc \in {"log", "done"}

\* What a row says is what its calls hold and its movements add up to.
RowExplained(i) ==
  /\ stock[i].reserved = HeldTotal(i)
  /\ stock[i].quantity + MovedTotal(i, "OUT") = InitialQuantity + MovedTotal(i, "IN")

RowsExplained == \A i \in Items \ raced : RowExplained(i)

Begun == {c \in Calls : call[c] # Idle}

BooksInv ==
  /\ RecordsSound
  /\ MovementsKnown
  /\ RowsExplained
  /\ IsFiniteSet(Begun)
  /\ IsFiniteSet(Written)

\* A step of c touches the local state of no other call.
OnlyMoves(c) ==
  /\ call' \in [Calls -> CallState]
  /\ \A d \in Calls : d # c => call'[d] = call[d]

\* Only calls that have begun hold or move anything, and those are finitely many.
LEMMA FinitelyMany ==
  ASSUME BooksInv, TypeOK, NEW i \in Items
  PROVE  /\ IsFiniteSet(HeldOf(i))
         /\ \A c \in HeldOf(i) : call[c].quantity \in Nat
         /\ \A t : IsFiniteSet(Moved(i, t)) /\ \A m \in Moved(i, t) : m \in Movement /\ m.quantity \in Nat
         /\ HeldTotal(i) \in Nat
         /\ \A t : MovedTotal(i, t) \in Nat
<1>1. HeldOf(i) \subseteq Begun
  BY DEF HeldOf, Begun, Holds, Idle
<1>2. IsFiniteSet(HeldOf(i))
  BY <1>1, FS_Subset DEF BooksInv
<1>3. \A c \in Calls : call[c].quantity \in Nat
  BY DEF TypeOK, CallState
<1>4. HeldOf(i) \subseteq Calls
  BY DEF HeldOf
<1>5. \A t : Moved(i, t) \subseteq Written
  BY DEF Moved
<1>6. Written \subseteq Movement /\ \A m \in Movement : m.quantity \in Nat
  BY DEF Written, Unlogged, TypeOK, Movement
<1>7. \A t : IsFiniteSet(Moved(i, t))
  BY <1>5, FS_Subset DEF BooksInv
<1>8. HeldTotal(i) \in Nat
  <2>1. \A c \in HeldOf(i) : [d \in Calls |-> call[d].quantity][c] \in Nat
    BY <1>3, <1>4
  <2> QED  BY <1>2, <2>1, TotalType DEF HeldTotal
<1>9. ASSUME NEW t  PROVE MovedTotal(i, t) \in Nat
  <2>1. \A m \in Moved(i, t) : [n \in Movement |-> n.quantity][m] \in Nat
    BY <1>5, <1>6
  <2> QED  BY <1>7, <2>1, TotalType DEF MovedTotal
<1> QED  BY <1>2, <1>3, <1>4, <1>5, <1>6, <1>7, <1>8, <1>9

\* What a count moves, by the sign of the difference it made.
LEMMA MovementByCase ==
  ASSUME NEW c \in Calls, Delta(c) \in Int
  PROVE
  /\ call[c].op = "reserve" =>
       MovementOf(c) = {[call |-> c, item |-> call[c].item, type |-> "RESERVATION",
                         quantity |-> call[c].quantity]}
  /\ call[c].op # "reserve" /\ Delta(c) > 0 =>
       MovementOf(c) = {[call |-> c, item |-> call[c].item, type |-> "IN", quantity |-> Delta(c)]}
  /\ call[c].op # "reserve" /\ Delta(c) < 0 =>
       MovementOf(c) = {[call |-> c, item |-> call[c].item, type |-> "OUT", quantity |-> -Delta(c)]}
  /\ call[c].op # "reserve" /\ Delta(c) = 0 => MovementOf(c) = {}
<1> DEFINE D == Delta(c)
           T == {u \in {"IN", "OUT"} : u = "IN" <=> D > 0}
           N == {m \in {D, -D} : m > 0}
<1>1. call[c].op # "reserve" =>
        MovementOf(c) = {[call |-> c, item |-> call[c].item, type |-> t, quantity |-> n] : t \in T, n \in N}
  BY DEF MovementOf
<1>2. D > 0 => T = {"IN"} /\ N = {D}
  OBVIOUS
<1>3. D < 0 => T = {"OUT"} /\ N = {-D}
  OBVIOUS
<1>4. D = 0 => N = {}
  OBVIOUS
<1>5. call[c].op = "reserve" =>
       MovementOf(c) = {[call |-> c, item |-> call[c].item, type |-> "RESERVATION",
                         quantity |-> call[c].quantity]}
  BY DEF MovementOf
<1> HIDE DEF T, N
<1> QED  BY <1>1, <1>2, <1>3, <1>4, <1>5

\* A call moves finitely much, of its own item.
LEMMA MovementFinite ==
  ASSUME NEW c \in Calls, Delta(c) \in Int
  PROVE  IsFiniteSet(MovementOf(c)) /\ \A m \in MovementOf(c) : m.call = c /\ m.item = call[c].item
<1> DEFINE Of(t, n) == [call |-> c, item |-> call[c].item, type |-> t, quantity |-> n]
<1>1. \A t, n : Of(t, n).call = c /\ Of(t, n).item = call[c].item
  OBVIOUS
<1>2. MovementOf(c) = {} \/ \E t, n : MovementOf(c) = {Of(t, n)}
  <2>1. CASE call[c].op = "reserve"
    BY <2>1, MovementByCase
  <2>2. CASE call[c].op # "reserve" /\ Delta(c) > 0
    BY <2>2, MovementByCase
  <2>3. CASE call[c].op # "reserve" /\ Delta(c) < 0
    BY <2>3, MovementByCase
  <2>4. CASE call[c].op # "reserve" /\ Delta(c) = 0
    BY <2>4, MovementByCase
  <2> QED  BY <2>1, <2>2, <2>3, <2>4
<1> HIDE DEF Of
<1>3. CASE MovementOf(c) = {}
  BY <1>3, FS_EmptySet
<1>4. ASSUME NEW t, NEW n, MovementOf(c) = {Of(t, n)}
      PROVE  IsFiniteSet(MovementOf(c)) /\ \A m \in MovementOf(c) : m.call = c /\ m.item = call[c].item
  <2>1. IsFiniteSet(MovementOf(c))
    BY <1>4, FS_Singleton
  <2>2. ASSUME NEW m \in MovementOf(c)  PROVE m.call = c /\ m.item = call[c].item
    <3>1. m = Of(t, n)
      BY <1>4, <2>2
    <3> QED  BY <1>1, <3>1
  <2> QED  BY <2>1, <2>2
<1> QED  BY <1>2, <1>3, <1>4

\* A step of c that leaves what every call holds alone leaves what is held
\* of an item alone.
HoldsTheSame ==
  \A d \in Calls :
    /\ Holds(d)' <=> Holds(d)
    /\ Holds(d) => call'[d].item = call[d].item /\ call'[d].quantity = call[d].quantity

\* A step that leaves the rows alone too.
LedgerKept == HoldsTheSame /\ stock' = stock /\ raced' = raced

\* Then the totals of the items are the same,
LEMMA SameHeld ==
  ASSUME HoldsTheSame, NEW i
  PROVE  HeldOf(i)' = HeldOf(i) /\ HeldTotal(i)' = HeldTotal(i)
<1>1. HeldOf(i)' = HeldOf(i)
  BY DEF HeldOf, HoldsTheSame
<1> DEFINE f == [c \in Calls |-> call[c].quantity]
           g == [c \in Calls |-> call'[c].quantity]
<1>2. \A c \in HeldOf(i) : f[c] = g[c]
  BY DEF HeldOf, HoldsTheSame
<1>3. HeldTotal(i) = TotalOf(f, HeldOf(i)) /\ HeldTotal(i)' = TotalOf(g, HeldOf(i)')
  BY DEF HeldTotal
<1> HIDE DEF f, g
<1>4. TotalOf(f, HeldOf(i)) = TotalOf(g, HeldOf(i))
  BY <1>2, TotalSame
<1> QED  BY <1>1, <1>3, <1>4

\* as they are when no movement is added.
LEMMA SameMoved ==
  ASSUME Written' = Written, NEW i, NEW t
  PROVE  Moved(i, t)' = Moved(i, t) /\ MovedTotal(i, t)' = MovedTotal(i, t)
BY DEF Moved, MovedTotal

\* A call moves what it moved as long as it keeps its arguments and its copy.
LEMMA SameDelta ==
  ASSUME NEW c \in Calls, call'[c].op = call[c].op, call'[c].item = call[c].item,
         call'[c].quantity = call[c].quantity, call'[c].seen = call[c].seen
  PROVE  Delta(c)' = Delta(c) /\ MovementOf(c)' = MovementOf(c)
<1>1. Delta(c)' = Delta(c)
  BY DEF Delta
<1> QED  BY <1>1 DEF MovementOf

\* One more call at most has begun after a step.
LEMMA BegunFinite ==
  ASSUME BooksInv, NEW c \in Calls, OnlyMoves(c)
  PROVE  IsFiniteSet(Begun')
<1>1. Begun' \subseteq Begun \cup {c}
  BY DEF Begun, OnlyMoves
<1>2. IsFiniteSet(Begun \cup {c})
  BY FS_AddElement DEF BooksInv
<1> QED  BY <1>1, <1>2, FS_Subset

\* Before a call writes anything it holds nothing and has moved nothing.
LEMMA EarlyStep ==
  ASSUME IInv, BooksInv, NEW c \in Calls, OnlyMoves(c),
         UNCHANGED <<stock, reservations, movements, history>>,
         call[c].pc \in {"idle", "lookup", "find", "read"},
         call'[c].pc \in {"lookup", "find", "read", "write", "done", "failed"},
         call'[c].op = "reserve" /\ call'[c].pc = "done" => call'[c].target # c,
         call'[c].op = "cancel" /\ call'[c].pc \in {"read", "write"} =>
           /\ call'[c].found = "PENDING"
           /\ call'[c].item = reservations[call'[c].target].item
           /\ call'[c].quantity = reservations[call'[c].target].quantity
  PROVE  BooksInv' /\ LedgerKept
<1>0. \A d \in Calls : d # c => call'[d] = call[d]
  BY DEF OnlyMoves
<1>1. reservations' = reservations /\ returned' = returned /\ raced' = raced /\ stock' = stock
      /\ movements' = movements
  BY DEF history
<1>2. HoldsTheSame
  BY <1>0, <1>1 DEF HoldsTheSame, Holds
<1>3. Written' = Written
  <2>1. \A d \in Calls : call'[d].op = "setStock" /\ call'[d].pc = "log" =>
          d # c /\ MovementOf(d)' = MovementOf(d)
    BY <1>0, SameDelta
  <2>2. \A d \in Calls : call[d].op = "setStock" /\ call[d].pc = "log" =>
          d # c /\ MovementOf(d)' = MovementOf(d)
    BY <1>0, SameDelta
  <2>3. Unlogged' = Unlogged
    BY <1>0, <2>1, <2>2 DEF Unlogged
  <2> QED  BY <1>1, <2>3 DEF Written
<1>4. RecordsSound'
  <2> SUFFICES ASSUME NEW d \in Calls  PROVE RecordSound(d)'
      BY DEF RecordsSound
  <2>1. RecordSound(d)
    BY DEF BooksInv, RecordsSound
  <2>2. CASE d # c
    BY <1>0, <1>1, <2>1, <2>2 DEF RecordSound, Saved
  <2>3. CASE d = c
    BY <1>1, <2>1, <2>3 DEF RecordSound, Saved
  <2> QED  BY <2>2, <2>3
<1>5. MovementsKnown'
  <2> SUFFICES ASSUME NEW m \in Written  PROVE call'[m.call].pc \in {"log", "done"}
      BY <1>3 DEF MovementsKnown
  <2>1. m.call \in Calls /\ call[m.call].pc \in {"log", "done"}
    BY DEF BooksInv, MovementsKnown, Written, Unlogged, Movement, IInv, TypeOK
  <2> QED  BY <1>0, <2>1
<1>6. RowsExplained'
  BY <1>1, <1>2, <1>3, SameHeld, SameMoved DEF BooksInv, RowsExplained, RowExplained
<1>7. IsFiniteSet(Begun') /\ IsFiniteSet(Written')
  BY <1>3, BegunFinite DEF BooksInv
<1> QED  BY <1>1, <1>2, <1>4, <1>5, <1>6, <1>7 DEF BooksInv, LedgerKept

\* A request that arrives keeps the books,
LEMMA BeginBooks ==
  ASSUME IInv, IInv', BooksInv, NEW c \in Calls, Begins(c)  PROVE BooksInv' /\ LedgerKept
<1>1. PICK q :
        /\ call[c] = Idle /\ call' = [call EXCEPT ![c] = q]
        /\ UNCHANGED <<stock, reservations, movements, history>>
        /\ q.pc \in {"lookup", "find", "read"} /\ (q.op = "cancel" => q.pc = "find")
  <2>1. ASSUME NEW i \in Items, NEW n \in Quantities, NEW k \in Keys \cup {NoKey},
               BeginReserve(c, i, n, k)
        PROVE  \E q : /\ call[c] = Idle /\ call' = [call EXCEPT ![c] = q]
                      /\ UNCHANGED <<stock, reservations, movements, history>>
                      /\ q.pc \in {"lookup", "find", "read"} /\ (q.op = "cancel" => q.pc = "find")
    <3> DEFINE q == [Idle EXCEPT !.op = "reserve", !.item = i, !.quantity = n, !.key = k,
                                 !.pc = IF k = NoKey THEN "read" ELSE "lookup"]
    <3>1. q.op = "reserve" /\ q.pc \in {"lookup", "read"}
      BY DEF Idle
    <3>2. call[c] = Idle /\ call' = [call EXCEPT ![c] = q]
          /\ UNCHANGED <<stock, reservations, movements, history>>
      BY <2>1 DEF BeginReserve, Begin
    <3> HIDE DEF q
    <3> QED  BY <3>1, <3>2
  <2>2. ASSUME NEW r \in Calls, BeginCancel(c, r)
        PROVE  \E q : /\ call[c] = Idle /\ call' = [call EXCEPT ![c] = q]
                      /\ UNCHANGED <<stock, reservations, movements, history>>
                      /\ q.pc \in {"lookup", "find", "read"} /\ (q.op = "cancel" => q.pc = "find")
    <3> DEFINE q == [Idle EXCEPT !.op = "cancel", !.target = r, !.pc = "find"]
    <3>1. q.op = "cancel" /\ q.pc = "find"
      BY DEF Idle
    <3>2. call[c] = Idle /\ call' = [call EXCEPT ![c] = q]
          /\ UNCHANGED <<stock, reservations, movements, history>>
      BY <2>2 DEF BeginCancel, Begin
    <3> HIDE DEF q
    <3> QED  BY <3>1, <3>2
  <2>3. ASSUME NEW i \in Items, NEW n \in Quantities \cup {0}, BeginSetStock(c, i, n)
        PROVE  \E q : /\ call[c] = Idle /\ call' = [call EXCEPT ![c] = q]
                      /\ UNCHANGED <<stock, reservations, movements, history>>
                      /\ q.pc \in {"lookup", "find", "read"} /\ (q.op = "cancel" => q.pc = "find")
    <3> DEFINE q == [Idle EXCEPT !.op = "setStock", !.item = i, !.quantity = n, !.pc = "read"]
    <3>1. q.op = "setStock" /\ q.pc = "read"
      BY DEF Idle
    <3>2. call[c] = Idle /\ call' = [call EXCEPT ![c] = q]
          /\ UNCHANGED <<stock, reservations, movements, history>>
      BY <2>3 DEF BeginSetStock, Begin
    <3> HIDE DEF q
    <3> QED  BY <3>1, <3>2
  <2> QED  BY <2>1, <2>2, <2>3 DEF Begins
<1>2. OnlyMoves(c) /\ call'[c] = q
  BY <1>1 DEF OnlyMoves, IInv, TypeOK
<1>3. call[c].pc = "idle"
  BY <1>1 DEF Idle
<1> QED  BY <1>1, <1>2, <1>3, EarlyStep

\* A call that changes its state changes no other call's.
LEMMA MovesOne ==
  ASSUME IInv, IInv', NEW c \in Calls, Step(c)
  PROVE  OnlyMoves(c)
<1>1. call \in [Calls -> CallState] /\ call' \in [Calls -> CallState]
  BY DEF IInv, TypeOK
<1>2. \A d \in Calls : d # c => call'[d] = call[d]
  BY <1>1 DEF Step, LookUp, FindReservation, ReadStock, WriteStock, SaveReservation, LogMovement, Goto
<1> QED  BY <1>1, <1>2 DEF OnlyMoves

\* and so does the lookup by key: what it finds is another call's reservation,
LEMMA LookUpBooks ==
  ASSUME IInv, IInv', BooksInv, NEW c \in Calls, LookUp(c)  PROVE BooksInv' /\ LedgerKept
<1>0. OnlyMoves(c)
  BY MovesOne DEF Step
<1>1. call[c] \in CallState /\ CallSound(c) /\ call[c].pc = "lookup" /\ RecordSound(c)
  BY DEF IInv, TypeOK, CallsSound, BooksInv, RecordsSound, LookUp
<1>2. call[c].op = "reserve" /\ reservations[c] = None
  BY <1>1 DEF CallSound, RecordSound, Saved
<1>3. UNCHANGED <<stock, reservations, movements, history>>
  BY DEF LookUp
<1>4. /\ call'[c].op = "reserve"
      /\ call'[c].pc \in {"read", "done"}
      /\ call'[c].pc = "done" => call'[c].target # c
  <2>1. CASE Goto(c, "read")
    BY <1>1, <1>2, <2>1 DEF Goto, IInv, TypeOK, CallState
  <2>2. ASSUME NEW r \in WithKey(call[c].key),
               call' = [call EXCEPT ![c].pc = "done", ![c].target = r]
        PROVE  call'[c].op = "reserve" /\ call'[c].pc = "done" /\ call'[c].target = r
    BY <1>1, <1>2, <2>2 DEF IInv, TypeOK, CallState
  <2>3. \A r \in WithKey(call[c].key) : r # c
    BY <1>2 DEF WithKey
  <2> QED  BY <2>1, <2>2, <2>3, <1>1, <1>2 DEF LookUp, Goto, IInv, TypeOK, CallState
<1> QED  BY <1>0, <1>1, <1>3, <1>4, EarlyStep

\* the lookup of a reservation to cancel, which is pending when it goes on,
LEMMA FindBooks ==
  ASSUME IInv, IInv', BooksInv, NEW c \in Calls, FindReservation(c)  PROVE BooksInv' /\ LedgerKept
<1> DEFINE r == call[c].target
<1>0. OnlyMoves(c)
  BY MovesOne DEF Step
<1>1. call[c] \in CallState /\ CallSound(c) /\ call[c].pc = "find"
  BY DEF IInv, TypeOK, CallsSound, FindReservation
<1>2. call[c].op = "cancel" /\ r \in Calls
  BY <1>1 DEF CallSound
<1>3. UNCHANGED <<stock, reservations, movements, history>>
  BY DEF FindReservation
<1>4. /\ call'[c].op = "cancel"
      /\ call'[c].pc \in {"read", "done", "failed"}
      /\ call'[c].pc = "read" =>
           /\ call'[c].target = r
           /\ call'[c].found = "PENDING"
           /\ call'[c].item = reservations[r].item
           /\ call'[c].quantity = reservations[r].quantity
  <2>1. ASSUME NEW pc \in {"failed", "done"}, Goto(c, pc)
        PROVE  call'[c].op = "cancel" /\ call'[c].pc = pc
    BY <1>1, <1>2, <2>1 DEF Goto, IInv, TypeOK, CallState
  <2>2. ASSUME reservations[r] # None, Cancellable(r),
               call' = [call EXCEPT ![c].pc = "read", ![c].found = reservations[r].status,
                                    ![c].item = reservations[r].item,
                                    ![c].quantity = reservations[r].quantity]
        PROVE  /\ call'[c].op = "cancel" /\ call'[c].pc = "read" /\ call'[c].target = r
               /\ call'[c].found = "PENDING"
               /\ call'[c].item = reservations[r].item
               /\ call'[c].quantity = reservations[r].quantity
    <3>1. reservations[r].status = "PENDING"
      BY <1>2, <2>2 DEF Cancellable, IInv, TypeOK, Reservation
    <3>2. call'[c] = [call[c] EXCEPT !.pc = "read", !.found = reservations[r].status,
                        !.item = reservations[r].item, !.quantity = reservations[r].quantity]
      BY <2>2 DEF IInv, TypeOK
    <3> QED  BY <1>1, <1>2, <3>1, <3>2 DEF CallState
  <2>3. \/ Goto(c, "failed") \/ Goto(c, "done")
        \/ /\ reservations[r] # None /\ Cancellable(r)
           /\ call' = [call EXCEPT ![c].pc = "read", ![c].found = reservations[r].status,
                                   ![c].item = reservations[r].item,
                                   ![c].quantity = reservations[r].quantity]
    BY DEF FindReservation
  <2>4. CASE Goto(c, "failed")
    BY <2>1, <2>4
  <2>5. CASE Goto(c, "done")
    BY <2>1, <2>5
  <2> QED  BY <2>2, <2>3, <2>4, <2>5
<1>5. reservations[call'[c].target].item = call'[c].item \/ call'[c].pc # "read"
  BY <1>4
<1> QED  BY <1>0, <1>1, <1>3, <1>4, EarlyStep

\* and the read of a row.
LEMMA ReadBooks ==
  ASSUME IInv, IInv', BooksInv, NEW c \in Calls, ReadStock(c)  PROVE BooksInv' /\ LedgerKept
<1>0. OnlyMoves(c)
  BY MovesOne DEF Step
<1>1. call[c] \in CallState /\ CallSound(c) /\ call[c].pc = "read" /\ RecordSound(c)
  BY DEF IInv, TypeOK, CallsSound, BooksInv, RecordsSound, ReadStock
<1>3. UNCHANGED <<stock, reservations, movements, history>>
  BY DEF ReadStock
<1>4. /\ call'[c].op = call[c].op /\ call'[c].item = call[c].item
      /\ call'[c].quantity = call[c].quantity /\ call'[c].target = call[c].target
      /\ call'[c].found = call[c].found
      /\ call'[c].pc \in {"write", "failed"}
  <2> DEFINE row == stock[call[c].item]
             pc  == IF Accepts(call[c], row) THEN "write" ELSE "failed"
  <2>1. call'[c] = [call[c] EXCEPT !.seen = row, !.pc = pc]
    BY DEF ReadStock, IInv, TypeOK
  <2>2. pc \in {"write", "failed"}
    OBVIOUS
  <2> HIDE DEF row, pc
  <2> QED  BY <1>1, <2>1, <2>2 DEF CallState
<1> QED  BY <1>0, <1>1, <1>3, <1>4, EarlyStep DEF RecordSound

\* What a write finds: an up-to-date copy, or it spoils the item.
LEMMA WriteFacts ==
  ASSUME IInv, IInv', BooksInv, NEW c \in Calls, WriteStock(c)
  PROVE
  /\ OnlyMoves(c)
  /\ call[c] \in CallState /\ CallSound(c) /\ RecordSound(c)
  /\ call[c].item \in Items /\ call[c].seen \in Row /\ call[c].op \in {"reserve", "cancel", "setStock"}
  /\ call[c].pc = "write"
  /\ call'[c].pc = IF call[c].op = "setStock" THEN "log" ELSE "save"
  /\ call'[c].op = call[c].op /\ call'[c].item = call[c].item
  /\ call'[c].quantity = call[c].quantity /\ call'[c].target = call[c].target
  /\ call'[c].found = call[c].found /\ call'[c].seen = call[c].seen
  /\ stock'[call[c].item] = Updated(call[c])
  /\ \A i \in Items : i # call[c].item => stock'[i] = stock[i]
  /\ reservations' = reservations /\ movements' = movements
  /\ returned' = IF call[c].op = "cancel" THEN returned \cup {call[c].target} ELSE returned
  /\ raced \subseteq raced'
  /\ call[c].item \notin raced' => ~Overtaken(c) /\ call[c].item \notin raced
<1>1. OnlyMoves(c)
  BY MovesOne DEF Step
<1>2. call[c] \in CallState /\ CallSound(c) /\ RecordSound(c) /\ call[c].pc = "write"
  BY DEF IInv, TypeOK, CallsSound, BooksInv, RecordsSound, WriteStock
<1>3. call[c].item \in Items /\ call[c].seen \in Row /\ call[c].op \in {"reserve", "cancel", "setStock"}
  BY <1>2 DEF CallSound, CallState
<1>4. call'[c] = [call[c] EXCEPT !.pc = IF call[c].op = "setStock" THEN "log" ELSE "save"]
  BY DEF WriteStock, Goto, IInv, TypeOK
<1>5. /\ call'[c].pc = IF call[c].op = "setStock" THEN "log" ELSE "save"
      /\ call'[c].op = call[c].op /\ call'[c].item = call[c].item
      /\ call'[c].quantity = call[c].quantity /\ call'[c].target = call[c].target
      /\ call'[c].found = call[c].found /\ call'[c].seen = call[c].seen
  BY <1>2, <1>4 DEF CallState
<1>6. stock' = [stock EXCEPT ![call[c].item] = Updated(call[c])]
  BY DEF WriteStock
<1>7. stock'[call[c].item] = Updated(call[c]) /\ \A i \in Items : i # call[c].item => stock'[i] = stock[i]
  BY <1>3, <1>6 DEF IInv, TypeOK
<1>8. /\ reservations' = reservations /\ movements' = movements
      /\ returned' = IF call[c].op = "cancel" THEN returned \cup {call[c].target} ELSE returned
      /\ raced' = IF Overtaken(c) THEN raced \cup {call[c].item} ELSE raced
  BY DEF WriteStock
<1> QED  BY <1>1, <1>2, <1>3, <1>5, <1>7, <1>8

\* A write leaves every reservation as sound as it was.
LEMMA WriteRecords ==
  ASSUME IInv, IInv', BooksInv, NEW c \in Calls, WriteStock(c)
  PROVE  RecordsSound'
<1> DEFINE r == call[c].target
<1> SUFFICES ASSUME NEW d \in Calls  PROVE RecordSound(d)'
    BY DEF RecordsSound
<1>1. RecordSound(d) /\ RecordSound(c) /\ CallSound(c)
  BY WriteFacts DEF BooksInv, RecordsSound
<1>2. \A e \in Calls : e # c => call'[e] = call[e]
  BY WriteFacts DEF OnlyMoves
<1>3. reservations[c] = None /\ c \notin returned
  BY <1>1, WriteFacts DEF RecordSound, Saved
<1>4. CASE call[c].op = "cancel"
  <2>1. r \in Calls /\ reservations[r] # None /\ r # c
    BY <1>1, <1>3, <1>4, WriteFacts DEF CallSound
  <2>2. returned' = returned \cup {r} /\ call'[c].pc = "save" /\ call'[c].target = r /\ call'[c].op = "cancel"
    BY <1>4, WriteFacts
  <2>3. CASE d = c
    BY <1>1, <1>3, <1>4, <2>1, <2>2, <2>3, WriteFacts DEF RecordSound, Saved
  <2>4. CASE d # c
    BY <1>1, <1>2, <1>4, <2>1, <2>2, <2>4, WriteFacts DEF RecordSound, Saved
  <2> QED  BY <2>3, <2>4
<1>5. CASE call[c].op # "cancel"
  <2>1. returned' = returned /\ call'[c].op # "cancel" /\ reservations' = reservations
    BY <1>5, WriteFacts
  <2>2. CASE d = c
    BY <1>3, <1>5, <2>1, <2>2, WriteFacts DEF RecordSound, Saved
  <2>3. CASE d # c
    BY <1>1, <1>2, <1>5, <2>1, <2>3 DEF RecordSound, Saved
  <2> QED  BY <2>2, <2>3
<1> QED  BY <1>4, <1>5

\* Only a count moves anything, and it logs what it moved.
LEMMA WriteMoves ==
  ASSUME IInv, IInv', BooksInv, NEW c \in Calls, WriteStock(c)
  PROVE  Written' = IF call[c].op = "setStock" THEN Written \cup MovementOf(c) ELSE Written
<1>1. \A e \in Calls : e # c => call'[e] = call[e] /\ MovementOf(e)' = MovementOf(e)
  BY WriteFacts, SameDelta DEF OnlyMoves
<1>2. MovementOf(c)' = MovementOf(c)
  BY WriteFacts, SameDelta
<1>3. call[c].op = "setStock" => MovementOf(c) \subseteq Movement
  <2>1. call[c].quantity \in Nat /\ Delta(c) \in Int
    BY WriteFacts DEF Delta, CallState, Row
  <2> QED  BY WriteFacts, <2>1 DEF MovementOf, Movement, MovementType
<1>4. Unlogged' = IF call[c].op = "setStock" THEN Unlogged \cup MovementOf(c) ELSE Unlogged
  BY <1>1, <1>2, <1>3, WriteFacts DEF Unlogged
<1> QED  BY <1>4, WriteFacts DEF Written

\* What a call in its last steps has written is nobody else's.
LEMMA WriteKnown ==
  ASSUME IInv, IInv', BooksInv, NEW c \in Calls, WriteStock(c)
  PROVE  /\ MovementsKnown' /\ IsFiniteSet(Written')
         /\ \A m \in MovementOf(c) : m \notin Written
<1>0. Delta(c) \in Int
  BY WriteFacts DEF Delta, CallState, Row
<1>1. \A m \in Written : m.call \in Calls /\ m.call # c /\ call[m.call].pc \in {"log", "done"}
  BY WriteFacts DEF BooksInv, MovementsKnown, Written, Unlogged, Movement, IInv, TypeOK
<1>2. \A m \in MovementOf(c) : m.call = c
  BY <1>0, MovementFinite
<1>3. IsFiniteSet(Written')
  <2>1. IsFiniteSet(Written) /\ IsFiniteSet(MovementOf(c))
    BY <1>0, MovementFinite DEF BooksInv
  <2>2. IsFiniteSet(Written \cup MovementOf(c))
    BY <2>1, FS_Union
  <2> QED  BY <2>1, <2>2, WriteMoves
<1>4. MovementsKnown'
  <2> SUFFICES ASSUME NEW m \in Written'  PROVE call'[m.call].pc \in {"log", "done"}
      BY DEF MovementsKnown
  <2>1. CASE m \in Written
    BY <1>1, <2>1, WriteFacts DEF OnlyMoves
  <2>2. CASE m \notin Written
    <3>1. call[c].op = "setStock" /\ m \in MovementOf(c)
      BY <2>2, WriteMoves
    <3> QED  BY <1>2, <3>1, WriteFacts
  <2> QED  BY <2>1, <2>2
<1> QED  BY <1>1, <1>2, <1>3, <1>4

\* A write changes only what is held of its own item.
LEMMA WriteHolds ==
  ASSUME IInv, IInv', BooksInv, NEW c \in Calls, WriteStock(c), NEW i \in Items
  PROVE
  /\ call[c].op = "setStock" => HoldsTheSame
  /\ call[c].item # i => HeldOf(i)' = HeldOf(i) /\ HeldTotal(i)' = HeldTotal(i)
  /\ call[c].op = "reserve" /\ call[c].item = i =>
       c \notin HeldOf(i) /\ HeldTotal(i)' = HeldTotal(i) + call[c].quantity
  /\ call[c].op = "cancel" /\ call[c].item = i /\ call[c].target \notin returned =>
       HeldTotal(i)' = HeldTotal(i) - call[c].quantity /\ call[c].quantity <= HeldTotal(i)
<1> DEFINE r == call[c].target
           f == [d \in Calls |-> call[d].quantity]
           g == [d \in Calls |-> call'[d].quantity]
<1>1. \A e \in Calls : e # c => call'[e] = call[e]
  BY WriteFacts DEF OnlyMoves
<1>2. reservations[c] = None /\ c \notin returned
  BY WriteFacts DEF RecordSound, Saved
<1>3. f = g
  BY <1>1, WriteFacts
<1>4. HeldTotal(i) = TotalOf(f, HeldOf(i)) /\ HeldTotal(i)' = TotalOf(f, HeldOf(i)')
  BY <1>3 DEF HeldTotal
<1>5. IsFiniteSet(HeldOf(i)) /\ HeldOf(i) \subseteq Calls /\ HeldTotal(i) \in Nat
  BY FinitelyMany DEF IInv, HeldOf
<1>6. \A d \in Calls : f[d] \in Nat /\ f[d] = call[d].quantity
  BY DEF IInv, TypeOK, CallState
<1>7. ~Holds(c)
  BY WriteFacts DEF Holds
<1> HIDE DEF f, g
<1>8. CASE call[c].op = "setStock"
  <2>1. HoldsTheSame
    BY <1>1, <1>8, WriteFacts DEF HoldsTheSame, Holds
  <2> QED  BY <1>8, <2>1, SameHeld
<1>9. CASE call[c].op = "reserve"
  <2>1. Holds(c)' /\ \A d \in Calls : d # c => (Holds(d)' <=> Holds(d))
    BY <1>1, <1>2, <1>9, WriteFacts DEF Holds
  <2>2. HeldOf(i)' = IF call[c].item = i THEN HeldOf(i) \cup {c} ELSE HeldOf(i)
    BY <1>1, <1>7, <2>1, WriteFacts DEF HeldOf
  <2>3. c \notin HeldOf(i)
    BY <1>7 DEF HeldOf
  <2>4. TotalOf(f, HeldOf(i) \cup {c}) = f[c] + TotalOf(f, HeldOf(i))
    BY <1>5, <1>6, <2>3, TotalWith
  <2> QED  BY <1>4, <1>5, <1>6, <1>9, <2>2, <2>3, <2>4
<1>10. CASE call[c].op = "cancel"
  <2>1. r \in Calls /\ reservations[r] # None /\ call[c].item = reservations[r].item
        /\ call[c].quantity = reservations[r].quantity
    BY <1>10, WriteFacts DEF CallSound, RecordSound
  <2>2. RecordSound(r) /\ r # c
    BY <1>2, <2>1 DEF BooksInv, RecordsSound
  <2>3. call[r].op = "reserve" /\ Saved(r) /\ call[r].item = call[c].item /\ call[r].quantity = call[c].quantity
    BY <2>1, <2>2 DEF RecordSound, Saved
  <2>4. ~Holds(c)' /\ \A d \in Calls : d # c => (Holds(d)' <=> Holds(d) /\ d # r)
    BY <1>1, <1>10, WriteFacts DEF Holds
  <2>5. HeldOf(i)' = HeldOf(i) \ {r}
    BY <1>1, <1>7, <2>2, <2>4, WriteFacts DEF HeldOf
  <2>6. CASE call[c].item # i
    <3>1. HeldOf(i)' = HeldOf(i)
      BY <2>3, <2>5, <2>6 DEF HeldOf
    <3> QED  BY <1>4, <1>10, <2>6, <3>1
  <2>7. CASE call[c].item = i /\ r \notin returned
    <3>1. r \in HeldOf(i)
      BY <2>1, <2>3, <2>7 DEF HeldOf, Holds, Saved
    <3>2. f[r] <= TotalOf(f, HeldOf(i)) /\ TotalOf(f, HeldOf(i) \ {r}) = TotalOf(f, HeldOf(i)) - f[r]
      BY <1>5, <1>6, <3>1, TotalCovers
    <3> QED  BY <1>4, <1>6, <1>10, <2>1, <2>3, <2>5, <2>7, <3>2
  <2> QED  BY <1>10, <2>6, <2>7
<1> QED  BY <1>8, <1>9, <1>10, WriteFacts

\* What a write does to the movements of an item: a count adds what it moved.
LEMMA WriteMoved ==
  ASSUME IInv, IInv', BooksInv, NEW c \in Calls, WriteStock(c), NEW i \in Items
  PROVE
  /\ call[c].item # i \/ call[c].op # "setStock" =>
       \A t : MovedTotal(i, t)' = MovedTotal(i, t)
  /\ call[c].op = "setStock" /\ call[c].item = i =>
       /\ MovedTotal(i, "IN")' = MovedTotal(i, "IN") + (IF Delta(c) > 0 THEN Delta(c) ELSE 0)
       /\ MovedTotal(i, "OUT")' = MovedTotal(i, "OUT") + (IF Delta(c) < 0 THEN -Delta(c) ELSE 0)
<1> DEFINE f == [m \in Movement |-> m.quantity]
           New(t) == {m \in MovementOf(c) : m.type = t}
<1>0. Delta(c) \in Int /\ call[c].quantity \in Nat
  BY WriteFacts DEF Delta, CallState, Row
<1>1. \A m \in MovementOf(c) : m.call = c /\ m.item = call[c].item
  BY <1>0, MovementFinite
<1>2. CASE call[c].op # "setStock"
  BY <1>2, WriteMoves, SameMoved
<1>3. CASE call[c].op = "setStock" /\ call[c].item # i
  <2>1. \A t : Moved(i, t)' = Moved(i, t)
    BY <1>1, <1>3, WriteMoves DEF Moved
  <2> QED  BY <1>3, <2>1 DEF MovedTotal
<1>4. CASE call[c].op = "setStock" /\ call[c].item = i
  <2> DEFINE In  == [call |-> c, item |-> i, type |-> "IN", quantity |-> Delta(c)]
             Out == [call |-> c, item |-> i, type |-> "OUT", quantity |-> -Delta(c)]
  <2>1. \A t : Moved(i, t)' = Moved(i, t) \cup New(t)
    BY <1>1, <1>4, WriteMoves DEF Moved
  <2>2. \A t : MovedTotal(i, t) = TotalOf(f, Moved(i, t)) /\ MovedTotal(i, t)' = TotalOf(f, Moved(i, t)')
    BY DEF MovedTotal
  <2>3. \A t : /\ IsFiniteSet(Moved(i, t)) /\ MovedTotal(i, t) \in Nat
               /\ \A m \in Moved(i, t) : f[m] \in Nat
    BY FinitelyMany DEF IInv
  <2>4. \A m \in MovementOf(c) : \A t : m \notin Moved(i, t)
    BY WriteKnown DEF Moved
  <2>5. CASE Delta(c) > 0
    <3>1. MovementOf(c) = {In}
      BY <1>0, <1>4, <2>5, MovementByCase
    <3>2. In \in Movement /\ In.type = "IN" /\ In.quantity = Delta(c)
      BY <1>0, <2>5 DEF Movement, MovementType
    <3>3. f[In] = Delta(c) /\ f[In] \in Nat
      BY <1>0, <2>5, <3>2
    <3>4. New("IN") = {In} /\ New("OUT") = {}
      BY <3>1, <3>2
    <3>5. In \notin Moved(i, "IN")
      BY <2>4, <3>1
    <3> HIDE DEF f, New, In
    <3>6. TotalOf(f, Moved(i, "IN") \cup {In}) = f[In] + TotalOf(f, Moved(i, "IN"))
      BY <2>3, <3>3, <3>5, TotalWith
    <3>7. MovedTotal(i, "OUT")' = MovedTotal(i, "OUT") /\ MovedTotal(i, "IN")' = Delta(c) + MovedTotal(i, "IN")
      BY <2>1, <2>2, <3>3, <3>4, <3>6
    <3> QED  BY <1>0, <1>4, <2>3, <2>5, <3>7
  <2>6. CASE Delta(c) < 0
    <3>1. MovementOf(c) = {Out}
      BY <1>0, <1>4, <2>6, MovementByCase
    <3>2. Out \in Movement /\ Out.type = "OUT" /\ Out.quantity = -Delta(c)
      BY <1>0, <2>6 DEF Movement, MovementType
    <3>3. f[Out] = -Delta(c) /\ f[Out] \in Nat
      BY <1>0, <2>6, <3>2
    <3>4. New("OUT") = {Out} /\ New("IN") = {}
      BY <3>1, <3>2
    <3>5. Out \notin Moved(i, "OUT")
      BY <2>4, <3>1
    <3> HIDE DEF f, New, Out
    <3>6. TotalOf(f, Moved(i, "OUT") \cup {Out}) = f[Out] + TotalOf(f, Moved(i, "OUT"))
      BY <2>3, <3>3, <3>5, TotalWith
    <3>7. MovedTotal(i, "IN")' = MovedTotal(i, "IN") /\ MovedTotal(i, "OUT")' = -Delta(c) + MovedTotal(i, "OUT")
      BY <2>1, <2>2, <3>3, <3>4, <3>6
    <3> QED  BY <1>0, <1>4, <2>3, <2>6, <3>7
  <2>7. CASE Delta(c) = 0
    <3>1. MovementOf(c) = {}
      BY <1>0, <1>4, <2>7, MovementByCase
    <3>2. \A t : MovedTotal(i, t)' = MovedTotal(i, t)
      BY <2>1, <3>1 DEF MovedTotal
    <3> QED  BY <1>0, <1>4, <2>3, <2>7, <3>2
  <2> QED  BY <1>0, <2>5, <2>6, <2>7
<1> QED  BY <1>2, <1>3, <1>4

\* The row a fresh copy is written to stays explained.
LEMMA WriteExplains ==
  ASSUME IInv, IInv', BooksInv, NEW c \in Calls, WriteStock(c)
  PROVE  RowsExplained'
<1> SUFFICES ASSUME NEW i \in Items, i \notin raced'  PROVE RowExplained(i)'
    BY DEF RowsExplained
<1>1. i \notin raced /\ RowExplained(i)
  BY WriteFacts DEF BooksInv, RowsExplained
<1>2. stock[i] \in Row /\ HeldTotal(i) \in Nat /\ MovedTotal(i, "IN") \in Nat /\ MovedTotal(i, "OUT") \in Nat
      /\ InitialQuantity \in Nat
  BY FinitelyMany, QuantityAssumption DEF IInv, TypeOK
<1>3. CASE call[c].item # i
  BY <1>1, <1>3, WriteFacts, WriteHolds, WriteMoved DEF RowExplained
<1>4. CASE call[c].item = i
  <2>1. ~Overtaken(c)
    BY <1>4, WriteFacts
  <2>2. stock[i] = call[c].seen /\ stock'[i] = Updated(call[c])
    BY <1>4, <2>1, WriteFacts DEF Overtaken
  <2> DEFINE row == stock[i]
             n   == call[c].quantity
  <2>3. n \in Nat
    BY WriteFacts DEF CallState
  <2>4. CASE call[c].op = "reserve"
    <3>1. stock'[i] = [row EXCEPT !.reserved = @ + n]
      BY <2>2, <2>4, UpdatedByCase, Zenon
    <3>2. stock'[i].reserved = row.reserved + n /\ stock'[i].quantity = row.quantity
      BY <1>2, <3>1 DEF Row
    <3> QED  BY <1>1, <1>4, <2>4, <3>2, WriteHolds, WriteMoved DEF RowExplained
  <2>5. CASE call[c].op = "cancel"
    <3>0. call[c].target \notin returned
      BY <2>1, <2>5, WriteFacts DEF Overtaken, RecordSound
    <3>1. stock'[i] = [row EXCEPT !.reserved = IF @ >= n THEN @ - n ELSE 0]
      BY <2>2, <2>5, UpdatedByCase, Zenon
    <3>2. stock'[i].reserved = (IF row.reserved >= n THEN row.reserved - n ELSE 0)
          /\ stock'[i].quantity = row.quantity
      BY <1>2, <3>1 DEF Row
    <3>3. HeldTotal(i)' = HeldTotal(i) - n /\ n <= HeldTotal(i)
      BY <1>4, <2>5, <3>0, WriteHolds
    <3>4. stock'[i].reserved = HeldTotal(i)'
      BY <1>1, <1>2, <2>3, <3>2, <3>3 DEF RowExplained
    <3> QED  BY <1>1, <1>4, <2>5, <3>2, <3>4, WriteMoved DEF RowExplained
  <2>6. CASE call[c].op = "setStock"
    <3>1. stock'[i] = [row EXCEPT !.quantity = n]
      BY <2>2, <2>6, UpdatedByCase, Zenon
    <3>2. stock'[i].reserved = row.reserved /\ stock'[i].quantity = n
      BY <1>2, <3>1 DEF Row
    <3>3. Delta(c) = n - row.quantity /\ row.quantity \in Nat
      BY <1>2, <2>2 DEF Delta, Row
    <3>4. /\ MovedTotal(i, "IN")' = MovedTotal(i, "IN") + (IF Delta(c) > 0 THEN Delta(c) ELSE 0)
          /\ MovedTotal(i, "OUT")' = MovedTotal(i, "OUT") + (IF Delta(c) < 0 THEN -Delta(c) ELSE 0)
      BY <1>4, <2>6, WriteMoved
    <3>5. row.quantity + MovedTotal(i, "OUT") = InitialQuantity + MovedTotal(i, "IN")
      BY <1>1 DEF RowExplained
    <3>6. HeldTotal(i)' = HeldTotal(i)
      BY <2>6, WriteHolds, SameHeld
    <3>7. n + MovedTotal(i, "OUT")' = InitialQuantity + MovedTotal(i, "IN")'
      <4> HIDE DEF n, row
      <4>1. PICK a, b, a1, b1, m, I, D : /\ a = MovedTotal(i, "IN") /\ b = MovedTotal(i, "OUT")
                                     /\ a1 = MovedTotal(i, "IN")' /\ b1 = MovedTotal(i, "OUT")'
                                     /\ m = row.quantity /\ I = InitialQuantity /\ D = Delta(c)
        OBVIOUS
      <4>2. /\ a1 = a + (IF D > 0 THEN D ELSE 0) /\ b1 = b + (IF D < 0 THEN -D ELSE 0)
            /\ m + b = I + a /\ D = n - m /\ m \in Nat /\ n \in Nat /\ a \in Nat /\ b \in Nat /\ I \in Nat
        BY <1>2, <2>3, <3>3, <3>4, <3>5, <4>1
      <4>3. n + b1 = I + a1
        BY <4>2
      <4> QED  BY <4>1, <4>3
    <3> QED  BY <1>1, <3>2, <3>6, <3>7 DEF RowExplained
  <2> QED  BY <2>4, <2>5, <2>6, WriteFacts
<1> QED  BY <1>3, <1>4

\* So a write keeps the books,
LEMMA WriteBooks ==
  ASSUME IInv, IInv', BooksInv, NEW c \in Calls, WriteStock(c)
  PROVE  BooksInv'
BY WriteFacts, WriteRecords, WriteKnown, WriteExplains, BegunFinite DEF BooksInv

\* as does the record of a reservation, or of its cancellation,
LEMMA SaveBooks ==
  ASSUME IInv, IInv', BooksInv, NEW c \in Calls, SaveReservation(c)
  PROVE  BooksInv' /\ LedgerKept
<1>0. OnlyMoves(c)
  BY MovesOne DEF Step
<1>1. \A d \in Calls : d # c => call'[d] = call[d]
  BY <1>0 DEF OnlyMoves
<1>2. /\ call[c] \in CallState /\ CallSound(c) /\ RecordSound(c) /\ call[c].pc = "save"
      /\ UNCHANGED <<stock, movements, history>>
  BY DEF IInv, TypeOK, CallsSound, BooksInv, RecordsSound, SaveReservation
<1>3. /\ call'[c].op = call[c].op /\ call'[c].item = call[c].item
      /\ call'[c].quantity = call[c].quantity
      /\ call[c].op = "reserve" => call'[c].pc = "log" /\ call'[c].target = c
      /\ call[c].op = "cancel" => call'[c].pc = "done" /\ call'[c].target = call[c].target
  <2>1. CASE call[c].op = "reserve"
    <3>1. call'[c] = [call[c] EXCEPT !.pc = "log", !.target = c]
      BY <2>1 DEF SaveReservation, IInv, TypeOK
    <3> QED  BY <1>2, <2>1, <3>1 DEF CallState
  <2>2. CASE call[c].op = "cancel"
    <3>1. call'[c] = [call[c] EXCEPT !.pc = "done"]
      BY <2>2 DEF SaveReservation, Goto, IInv, TypeOK
    <3> QED  BY <1>2, <2>2, <3>1 DEF CallState
  <2> QED  BY <1>2, <2>1, <2>2 DEF CallSound
<1>4. HoldsTheSame
  BY <1>1, <1>2, <1>3 DEF HoldsTheSame, Holds, history, CallSound
<1>5. Written' = Written
  <2>1. \A d \in Calls : call'[d].op = "setStock" /\ call'[d].pc = "log" =>
          d # c /\ MovementOf(d)' = MovementOf(d)
    BY <1>1, <1>2, <1>3, SameDelta DEF CallSound
  <2>2. \A d \in Calls : call[d].op = "setStock" /\ call[d].pc = "log" =>
          d # c /\ MovementOf(d)' = MovementOf(d)
    BY <1>1, <1>2, SameDelta
  <2>3. Unlogged' = Unlogged
    BY <1>1, <2>1, <2>2 DEF Unlogged
  <2> QED  BY <1>2, <2>3 DEF Written
<1>6. MovementsKnown'
  <2> SUFFICES ASSUME NEW m \in Written  PROVE call'[m.call].pc \in {"log", "done"}
      BY <1>5 DEF MovementsKnown
  <2>1. m.call \in Calls /\ call[m.call].pc \in {"log", "done"}
    BY DEF BooksInv, MovementsKnown, Written, Unlogged, Movement, IInv, TypeOK
  <2> QED  BY <1>1, <1>2, <2>1
<1>7. RowsExplained'
  BY <1>2, <1>4, <1>5, SameHeld, SameMoved DEF BooksInv, RowsExplained, RowExplained, history
<1>8. RecordsSound'
  <2> SUFFICES ASSUME NEW d \in Calls  PROVE RecordSound(d)'
      BY DEF RecordsSound
  <2>1. RecordSound(d) /\ CallSound(d)
    BY DEF BooksInv, RecordsSound, IInv, CallsSound
  <2>2. returned' = returned
    BY <1>2 DEF history
  <2>3. CASE call[c].op = "reserve"
    <3> DEFINE saved == [item |-> call[c].item, quantity |-> call[c].quantity,
                         key |-> call[c].key, status |-> "PENDING"]
    <3>1. reservations' = [reservations EXCEPT ![c] = saved]
      BY <2>3 DEF SaveReservation
    <3>2. /\ reservations'[c] = saved
          /\ \A e \in Calls : e # c => reservations'[e] = reservations[e]
      BY <3>1 DEF IInv, TypeOK
    <3>3. saved \in Reservation /\ saved # None
      BY <1>2, <2>3, NoneAssumption DEF CallState, CallSound, Reservation
    <3>4. /\ saved.item = call[c].item /\ saved.quantity = call[c].quantity /\ saved.status = "PENDING"
      OBVIOUS
    <3>5. reservations[c] = None /\ c \notin returned
      BY <1>2 DEF RecordSound, Saved
    <3> HIDE DEF saved
    <3>6. CASE d = c
      BY <1>2, <1>3, <2>2, <2>3, <3>2, <3>3, <3>4, <3>5, <3>6 DEF RecordSound, Saved
    <3>7. CASE d # c
      <4>1. call[d].op = "cancel" /\ call[d].pc \in {"read", "write", "save"} => call[d].target # c
        BY <2>1, <3>5 DEF CallSound
      <4>2. call[d].op = "cancel" => call[d].target \in Calls
        BY <2>1 DEF CallSound
      <4> QED  BY <1>1, <1>2, <1>3, <2>1, <2>2, <2>3, <3>2, <3>5, <3>7, <4>1, <4>2 DEF RecordSound, Saved
    <3> QED  BY <3>6, <3>7
  <2>4. CASE call[c].op = "cancel"
    <3> DEFINE r == call[c].target
    <3>1. r \in Calls /\ reservations[r] # None /\ r \in returned
      BY <1>2, <2>4 DEF CallSound, RecordSound
    <3>2. reservations[r] \in Reservation /\ r # c
      BY <1>2, <2>4, <3>1 DEF IInv, TypeOK, RecordSound, Saved
    <3>3. reservations' = [reservations EXCEPT ![r].status = "CANCELLED"]
      BY <2>4 DEF SaveReservation
    <3>4. \A e \in Calls : e # r => reservations'[e] = reservations[e]
      BY <3>3 DEF IInv, TypeOK
    <3>5. reservations'[r] = [reservations[r] EXCEPT !.status = "CANCELLED"]
      BY <3>1, <3>3 DEF IInv, TypeOK
    <3>6. /\ reservations'[r].item = reservations[r].item
          /\ reservations'[r].quantity = reservations[r].quantity
          /\ reservations'[r].status = "CANCELLED"
      BY <3>2, <3>5 DEF Reservation
    <3>7. reservations'[r] \in Reservation /\ reservations'[r] # None
      BY <3>2, <3>5, NoneAssumption DEF Reservation
    <3>8. \A e \in Calls : /\ reservations'[e] # None <=> reservations[e] # None
                           /\ reservations'[e].item = reservations[e].item
                           /\ reservations'[e].quantity = reservations[e].quantity
      BY <3>1, <3>4, <3>6, <3>7
    <3> HIDE DEF r
    <3>9. call[c].target = r
      BY DEF r
    <3>10. CASE d = c
      BY <1>2, <1>3, <2>2, <2>4, <3>1, <3>2, <3>4, <3>8, <3>10 DEF RecordSound, Saved
    <3>11. CASE d # c
      <4>1. call'[d] = call[d]
        BY <1>1, <3>11
      <4>2. call[d].op = "cancel" => call[d].target \in Calls
        BY <2>1 DEF CallSound
      <4>3. CASE d = r
        BY <1>1, <1>2, <2>1, <2>2, <3>1, <3>6, <3>8, <4>1, <4>2, <4>3 DEF RecordSound, Saved
      <4>4. CASE d # r
        BY <1>1, <1>2, <2>1, <2>2, <3>1, <3>4, <3>8, <3>9, <4>1, <4>2, <4>4 DEF RecordSound, Saved
      <4> QED  BY <4>3, <4>4
    <3> QED  BY <3>10, <3>11
  <2> QED  BY <1>2, <2>3, <2>4 DEF CallSound
<1> QED  BY <1>0, <1>2, <1>4, <1>5, <1>6, <1>7, <1>8, BegunFinite DEF BooksInv, LedgerKept, history

\* and that of the movement.
LEMMA LogBooks ==
  ASSUME IInv, IInv', BooksInv, NEW c \in Calls, LogMovement(c)
  PROVE  BooksInv' /\ LedgerKept
<1>0. OnlyMoves(c)
  BY MovesOne DEF Step
<1>1. \A d \in Calls : d # c => call'[d] = call[d]
  BY <1>0 DEF OnlyMoves
<1>2. /\ call[c] \in CallState /\ CallSound(c) /\ RecordSound(c) /\ call[c].pc = "log"
      /\ UNCHANGED <<stock, reservations, history>>
      /\ movements' = movements \cup MovementOf(c)
  BY DEF IInv, TypeOK, CallsSound, BooksInv, RecordsSound, LogMovement
<1>3. /\ call'[c].op = call[c].op /\ call'[c].item = call[c].item
      /\ call'[c].quantity = call[c].quantity /\ call'[c].target = call[c].target
      /\ call'[c].seen = call[c].seen /\ call'[c].pc = "done"
      /\ call[c].op \in {"reserve", "setStock"}
  <2>1. call'[c] = [call[c] EXCEPT !.pc = "done"]
    BY DEF LogMovement, Goto, IInv, TypeOK
  <2> QED  BY <1>2, <2>1 DEF CallState, CallSound
<1>4. HoldsTheSame
  BY <1>1, <1>2, <1>3 DEF HoldsTheSame, Holds, history, RecordSound
<1>5. Delta(c) \in Int
  BY <1>2 DEF Delta, CallState, CallSound, Row
<1>6. Written' = IF call[c].op = "reserve" THEN Written \cup MovementOf(c) ELSE Written
  <2>1. \A d \in Calls : d # c => MovementOf(d)' = MovementOf(d)
    BY <1>1, SameDelta
  <2>2. Unlogged' = {m \in Movement : \E d \in Calls \ {c} :
                       call[d].op = "setStock" /\ call[d].pc = "log" /\ m \in MovementOf(d)}
    BY <1>1, <1>3, <2>1 DEF Unlogged
  <2>3. movements' \subseteq Movement
    BY DEF IInv, TypeOK
  <2>4. call[c].op = "setStock" => movements' \cup Unlogged' = movements \cup Unlogged
    BY <1>2, <2>2, <2>3 DEF Unlogged
  <2>5. call[c].op = "reserve" => Unlogged' = Unlogged
    BY <2>2 DEF Unlogged
  <2> QED  BY <1>2, <1>3, <2>4, <2>5 DEF Written
<1>7. MovementsKnown' /\ IsFiniteSet(Written')
  <2>1. \A m \in MovementOf(c) : m.call = c
    BY <1>5, MovementFinite
  <2>2. \A m \in Written : m.call \in Calls /\ call[m.call].pc \in {"log", "done"}
    BY DEF BooksInv, MovementsKnown, Written, Unlogged, Movement, IInv, TypeOK
  <2>3. IsFiniteSet(Written \cup MovementOf(c))
    BY <1>5, MovementFinite, FS_Union DEF BooksInv
  <2>4. MovementsKnown'
    BY <1>1, <1>3, <1>6, <2>1, <2>2 DEF MovementsKnown
  <2> QED  BY <1>6, <2>3, <2>4 DEF BooksInv
<1>8. \A i \in Items, t \in {"IN", "OUT"} : MovedTotal(i, t)' = MovedTotal(i, t)
  <2>1. CASE call[c].op = "setStock"
    BY <1>6, <2>1, SameMoved
  <2>2. CASE call[c].op = "reserve"
    <3>1. \A m \in MovementOf(c) : m.type = "RESERVATION"
      BY <1>5, <2>2, MovementByCase
    <3>2. \A i \in Items, t \in {"IN", "OUT"} : Moved(i, t)' = Moved(i, t)
      BY <1>6, <2>2, <3>1 DEF Moved
    <3> QED  BY <3>2 DEF MovedTotal
  <2> QED  BY <1>3, <2>1, <2>2
<1>9. RowsExplained'
  BY <1>2, <1>4, <1>8, SameHeld DEF BooksInv, RowsExplained, RowExplained, history
<1>10. RecordsSound'
  <2> SUFFICES ASSUME NEW d \in Calls  PROVE RecordSound(d)'
      BY DEF RecordsSound
  <2>1. RecordSound(d) /\ returned' = returned /\ reservations' = reservations
    BY <1>2 DEF BooksInv, RecordsSound, history
  <2>2. CASE d = c
    BY <1>1, <1>2, <1>3, <2>1, <2>2 DEF RecordSound, Saved
  <2>3. CASE d # c
    BY <1>1, <1>2, <1>3, <2>1, <2>3 DEF RecordSound, Saved
  <2> QED  BY <2>2, <2>3
<1> QED  BY <1>0, <1>2, <1>4, <1>7, <1>9, <1>10, BegunFinite DEF BooksInv, LedgerKept, history

\* Nothing is held and nothing has moved at the start,
LEMMA InitBooks == Init => BooksInv
<1> SUFFICES ASSUME Init  PROVE BooksInv
    OBVIOUS
<1>1. RecordsSound
  BY DEF Init, RecordsSound, RecordSound, Saved, Idle
<1>2. Written = {} /\ Begun = {}
  BY DEF Init, Written, Unlogged, Begun, Idle
<1>3. \A i \in Items : HeldOf(i) = {} /\ \A t : Moved(i, t) = {}
  BY <1>2 DEF Init, HeldOf, Holds, Idle, Moved
<1>4. \A i \in Items : HeldTotal(i) = 0 /\ \A t : MovedTotal(i, t) = 0
  BY <1>3, TotalOfNone DEF HeldTotal, MovedTotal
<1>5. RowsExplained
  BY <1>4, QuantityAssumption DEF Init, RowsExplained, RowExplained
<1> QED  BY <1>1, <1>2, <1>5, FS_EmptySet DEF BooksInv, MovementsKnown

\* and every step keeps the books.
LEMMA StepKeepsBooks == IInv /\ IInv' /\ BooksInv /\ [Next]_vars => BooksInv'
<1> SUFFICES ASSUME IInv, IInv', BooksInv, [Next]_vars  PROVE BooksInv'
    OBVIOUS
<1>1. ASSUME NEW c \in Calls, Begins(c) \/ Step(c)  PROVE BooksInv'
  BY <1>1, BeginBooks, LookUpBooks, FindBooks, ReadBooks, WriteBooks, SaveBooks, LogBooks DEF Step
<1>2. CASE UNCHANGED vars
  <2>1. HoldsTheSame
    BY <1>2 DEF vars, HoldsTheSame, Holds
  <2>2. Written' = Written /\ Begun' = Begun
    BY <1>2 DEF vars, Written, Unlogged, MovementOf, Delta, Begun
  <2>3. RecordsSound'
    BY <1>2 DEF vars, BooksInv, RecordsSound, RecordSound, Saved
  <2>4. MovementsKnown'
    BY <1>2, <2>2 DEF vars, BooksInv, MovementsKnown
  <2>5. RowsExplained'
    BY <1>2, <2>1, <2>2, SameHeld, SameMoved DEF vars, BooksInv, RowsExplained, RowExplained
  <2> QED  BY <2>2, <2>3, <2>4, <2>5 DEF BooksInv
<1> QED  BY <1>1, <1>2 DEF Next

\* What reservations, rows and movements say of each other holds of every reachable state of
\* the inventory service.
THEOREM BooksInvariant == Spec => [](IInv /\ BooksInv)
<1>1. IInv /\ BooksInv /\ [Next]_vars => (IInv /\ BooksInv)'
  BY StepPreserves, StepKeepsBooks
<1>2. Init => IInv /\ BooksInv
  BY InitEstablishes, InitBooks
<1> QED  BY <1>1, <1>2, PTL DEF Spec

\* The sums of the properties are totals.
LEMMA PendingSum ==
  ASSUME NEW S, IsFiniteSet(S), S \subseteq Calls, \A r \in S : reservations[r].quantity \in Nat
  PROVE  Total(LAMBDA r : reservations[r].quantity, S) = TotalOf([r \in S |-> reservations[r].quantity], S)
<1> DEFINE f == [r \in S |-> reservations[r].quantity]
           P(it) == it = [s \in SUBSET S |->
                            IF s = {} THEN 0
                            ELSE LET x == CHOOSE y \in s : TRUE IN reservations[x].quantity + it[s \ {x}]]
<1>1. Total(LAMBDA r : reservations[r].quantity, S) = (CHOOSE it : P(it))[S]
  BY DEF Total, MapThenSumSet, MapThenFoldSet
<1>2. \A it : Adds(it, f, S) <=> P(it)
  BY DEF Adds, Chosen
<1>3. \A r \in S : f[r] \in Nat
  OBVIOUS
<1>4. P([s \in SUBSET S |-> TotalOf(f, s)])
  BY <1>2, <1>3, TotalsAdd
<1> HIDE DEF P, f
<1>5. P(CHOOSE it : P(it))
  BY <1>4
<1> QED  BY <1>1, <1>2, <1>3, <1>5, AddsUniquely DEF f

\* Likewise for the movements.
LEMMA MovementSum ==
  ASSUME NEW S, IsFiniteSet(S), S \subseteq Movement
  PROVE  Total(LAMBDA m : m.quantity, S) = TotalOf([m \in Movement |-> m.quantity], S)
<1> DEFINE f == [m \in Movement |-> m.quantity]
           P(it) == it = [s \in SUBSET S |->
                            IF s = {} THEN 0
                            ELSE LET x == CHOOSE y \in s : TRUE IN x.quantity + it[s \ {x}]]
<1>1. Total(LAMBDA m : m.quantity, S) = (CHOOSE it : P(it))[S]
  BY DEF Total, MapThenSumSet, MapThenFoldSet
<1>2. \A it : Adds(it, f, S) <=> P(it)
  <2>1. \A s \in SUBSET S : s # {} => f[Chosen(s)] = (CHOOSE y \in s : TRUE).quantity
    BY DEF Chosen
  <2> QED  BY <2>1 DEF Adds, Chosen
<1>3. \A m \in S : f[m] \in Nat
  BY DEF Movement
<1>4. P([s \in SUBSET S |-> TotalOf(f, s)])
  BY <1>2, <1>3, TotalsAdd
<1> HIDE DEF P, f
<1>5. P(CHOOSE it : P(it))
  BY <1>4
<1> QED  BY <1>1, <1>2, <1>3, <1>5, AddsUniquely DEF f

\* The ledger of a row no copy of which was out of date.
LEMMA LedgerFollows == IInv /\ BooksInv => LedgerExact
<1> SUFFICES ASSUME IInv, BooksInv, NEW i \in Items \ raced, InFlight(i) = {}
             PROVE  stock[i].reserved = Total(LAMBDA r : reservations[r].quantity, Pending(i))
    BY DEF LedgerExact
<1>1. stock[i].reserved = HeldTotal(i)
  BY DEF BooksInv, RowsExplained, RowExplained
<1>2. \A c \in Calls : RecordSound(c) /\ CallSound(c) /\ (reservations[c] # None => reservations[c] \in Reservation)
  BY DEF BooksInv, RecordsSound, IInv, CallsSound, TypeOK
<1>3. \A c \in Calls : call[c].item = i => call[c].pc \notin {"save", "log"}
  BY DEF InFlight
<1>4. HeldOf(i) = Pending(i)
  <2>1. ASSUME NEW c \in HeldOf(i)  PROVE c \in Pending(i)
    BY <1>2, <1>3 DEF HeldOf, Pending, Holds, RecordSound, Saved
  <2>2. ASSUME NEW c \in Pending(i)  PROVE c \in HeldOf(i)
    <3>1. c \in Calls /\ reservations[c] # None /\ reservations[c].status = "PENDING" /\ call[c].item = i
          /\ Saved(c)
      BY <1>2 DEF Pending, RecordSound
    <3>2. c \notin returned
      <4>1. SUFFICES ASSUME c \in returned  PROVE FALSE
        OBVIOUS
      <4>2. PICK d \in Calls : call[d].op = "cancel" /\ call[d].pc = "save" /\ call[d].target = c
        BY <1>2, <3>1, <4>1 DEF RecordSound
      <4>3. call[d].item = i
        BY <1>2, <3>1, <4>2 DEF RecordSound
      <4> QED  BY <1>3, <4>2, <4>3
    <3> QED  BY <3>1, <3>2 DEF HeldOf, Holds, Saved
  <2> QED  BY <2>1, <2>2
<1>5. IsFiniteSet(Pending(i)) /\ Pending(i) \subseteq Calls
      /\ \A r \in Pending(i) : reservations[r].quantity \in Nat /\ reservations[r].quantity = call[r].quantity
  <2>1. IsFiniteSet(HeldOf(i)) /\ \A c \in HeldOf(i) : call[c].quantity \in Nat
    BY FinitelyMany DEF IInv
  <2>2. \A r \in Pending(i) : r \in Calls /\ reservations[r].quantity = call[r].quantity
    BY <1>2 DEF Pending, RecordSound
  <2> QED  BY <1>4, <2>1, <2>2
<1>6. Total(LAMBDA r : reservations[r].quantity, Pending(i))
        = TotalOf([r \in Pending(i) |-> reservations[r].quantity], Pending(i))
  BY <1>5, PendingSum
<1> DEFINE f == [r \in Pending(i) |-> reservations[r].quantity]
           g == [c \in Calls |-> call[c].quantity]
<1>7. TotalOf(f, Pending(i)) = TotalOf(g, Pending(i))
  <2>1. \A r \in Pending(i) : f[r] = g[r]
    BY <1>5
  <2> HIDE DEF f, g
  <2> QED  BY <2>1, TotalSame
<1> QED  BY <1>1, <1>4, <1>6, <1>7 DEF HeldTotal

\* The audit of its quantity likewise.
LEMMA AuditFollows == IInv /\ BooksInv => QuantityAudited
<1> SUFFICES ASSUME IInv, BooksInv, NEW i \in Items \ raced, InFlight(i) = {}
             PROVE  stock[i].quantity = InitialQuantity
                          + Total(LAMBDA m : m.quantity, Counts(i, "IN"))
                          - Total(LAMBDA m : m.quantity, Counts(i, "OUT"))
    BY DEF QuantityAudited
<1>1. stock[i].quantity + MovedTotal(i, "OUT") = InitialQuantity + MovedTotal(i, "IN")
  BY DEF BooksInv, RowsExplained, RowExplained
<1>2. \A t : Moved(i, t) = Counts(i, t)
  <2>1. \A c \in Calls : CallSound(c) /\ call[c] \in CallState
    BY DEF IInv, CallsSound, TypeOK
  <2>2. ASSUME NEW m \in Unlogged, m.item = i  PROVE FALSE
    <3>1. PICK c \in Calls : call[c].op = "setStock" /\ call[c].pc = "log" /\ m \in MovementOf(c)
      BY <2>2 DEF Unlogged
    <3>2. Delta(c) \in Int
      BY <2>1, <3>1 DEF Delta, CallSound, CallState, Row
    <3>3. call[c].item = i
      BY <2>2, <3>1, <3>2, MovementFinite
    <3> QED  BY <3>1, <3>3 DEF InFlight
  <2> QED  BY <2>2 DEF Moved, Counts, Written
<1>3. \A t : Total(LAMBDA m : m.quantity, Counts(i, t)) = MovedTotal(i, t)
  <2> SUFFICES ASSUME NEW t  PROVE Total(LAMBDA m : m.quantity, Counts(i, t)) = MovedTotal(i, t)
      OBVIOUS
  <2>1. IsFiniteSet(Counts(i, t)) /\ Counts(i, t) \subseteq Movement
    BY <1>2, FinitelyMany DEF IInv
  <2> QED  BY <1>2, <2>1, MovementSum DEF MovedTotal
<1>4. stock[i].quantity \in Nat /\ MovedTotal(i, "OUT") \in Nat /\ MovedTotal(i, "IN") \in Nat
      /\ InitialQuantity \in Nat
  BY FinitelyMany, QuantityAssumption DEF IInv, TypeOK, Row
<1>5. PICK a, b, m, I : a = MovedTotal(i, "IN") /\ b = MovedTotal(i, "OUT")
                        /\ m = stock[i].quantity /\ I = InitialQuantity
  OBVIOUS
<1>6. m = I + a - b
  BY <1>1, <1>4, <1>5
<1> QED  BY <1>3, <1>5, <1>6

\* What the abstract ledger sees a call hold.
HeldBy(c) == IF Holds(c) THEN [item |-> call[c].item, quantity |-> call[c].quantity] ELSE None

\* Only a call that holds something is seen to.
LEMMA HeldRecords ==
  ASSUME IInv, NEW c \in Calls
  PROVE  /\ HeldBy(c) # None <=> Holds(c)
         /\ Holds(c) => HeldBy(c) \in [item : Items, quantity : Quantities] /\ HeldBy(c).item = call[c].item
                        /\ HeldBy(c).quantity = call[c].quantity
<1>1. Holds(c) => call[c].item \in Items /\ call[c].quantity \in Quantities
  BY DEF IInv, CallsSound, CallSound, Holds
<1>2. Holds(c) => [item |-> call[c].item, quantity |-> call[c].quantity] \in [item : Items, quantity : Quantities]
  BY <1>1
<1> QED  BY <1>2, NoneAssumption DEF HeldBy

\* What the abstract ledger promises of an item is what the calls hold.
LEMMA PromisedSum ==
  ASSUME IInv, BooksInv, NEW i \in Items
  PROVE  Ledger!Promised(i) = HeldTotal(i)
<1> DEFINE S == HeldOf(i)
           held == [c \in Calls |->
                      IF Holds(c) THEN [item |-> call[c].item, quantity |-> call[c].quantity]
                                  ELSE None]
           f == [c \in Calls |-> call[c].quantity]
           P(it) == it = [s \in SUBSET S |->
                            IF s = {} THEN 0
                            ELSE LET x == CHOOSE y \in s : TRUE IN held[x].quantity + it[s \ {x}]]
<1>0. Ledger!Holding(i) = S
  <2>1. Ledger!Holding(i) = {c \in Calls : HeldBy(c) # None /\ HeldBy(c).item = i}
    BY DEF Ledger!Holding, HeldBy
  <2> QED  BY <2>1, HeldRecords DEF HeldOf
<1>1. Ledger!Promised(i) = (CHOOSE it : P(it))[S]
  BY <1>0 DEF Ledger!Promised, Ledger!MapThenSumSet, Ledger!MapThenFoldSet
<1>2. \A it : Adds(it, f, S) <=> P(it)
  <2>1. \A s \in SUBSET S : s # {} => f[Chosen(s)] = held[CHOOSE y \in s : TRUE].quantity
    <3> SUFFICES ASSUME NEW s \in SUBSET S, s # {}  PROVE f[Chosen(s)] = held[Chosen(s)].quantity
        BY DEF Chosen
    <3>1. Chosen(s) \in Calls /\ Holds(Chosen(s))
      BY DEF Chosen, HeldOf
    <3>2. held[Chosen(s)] = HeldBy(Chosen(s))
      BY <3>1 DEF HeldBy
    <3> QED  BY <3>1, <3>2, HeldRecords
  <2> HIDE DEF f, held
  <2> QED  BY <2>1 DEF Adds, Chosen
<1>3. IsFiniteSet(S) /\ \A m \in S : f[m] \in Nat
  BY FinitelyMany DEF IInv, HeldOf
<1>4. P([s \in SUBSET S |-> TotalOf(f, s)])
  BY <1>2, <1>3, TotalsAdd
<1>6. HeldTotal(i) = TotalOf(f, S)
  BY DEF HeldTotal
<1> HIDE DEF P, f, S
<1>5. P(CHOOSE it : P(it))
  BY <1>4
<1> QED  BY <1>1, <1>2, <1>3, <1>5, <1>6, AddsUniquely

\* It is never more than there is.
LEMMA NothingOverpromised == IInv /\ BooksInv => NeverOverpromised
<1> SUFFICES ASSUME IInv, BooksInv, NEW i \in Items \ raced
             PROVE  Ledger!Promised(i) <= [j \in Items |-> stock[j].quantity][i]
    BY DEF NeverOverpromised, Ledger!NeverOverpromised
<1>1. stock[i].reserved = HeldTotal(i) /\ stock[i].reserved <= stock[i].quantity
  BY DEF BooksInv, RowsExplained, RowExplained, IInv, RowsConsistent
<1> QED  BY <1>1, PromisedSum

\* A step that leaves the rows and what is held alone is no step of the
\* abstract ledger.
LEMMA LedgerStutters ==
  ASSUME LedgerKept
  PROVE  UNCHANGED Ledger!vars
<1>1. \A c \in Calls : HeldBy(c)' = HeldBy(c)
  BY DEF LedgerKept, HoldsTheSame, HeldBy
<1>2. [c \in Calls |-> HeldBy(c)]' = [c \in Calls |-> HeldBy(c)]
  BY <1>1
<1>3. [c \in Calls |-> IF Holds(c) THEN [item |-> call[c].item, quantity |-> call[c].quantity] ELSE None]'
        = [c \in Calls |-> IF Holds(c) THEN [item |-> call[c].item, quantity |-> call[c].quantity] ELSE None]
  BY <1>2 DEF HeldBy
<1>4. [i \in Items |-> stock[i].quantity]' = [i \in Items |-> stock[i].quantity] /\ raced' = raced
  BY DEF LedgerKept
<1> QED  BY <1>3, <1>4 DEF Ledger!vars

\* What the ledger's actions say, of the operators above.
LEMMA HeldFunction ==
  /\ [c \in Calls |-> IF Holds(c) THEN [item |-> call[c].item, quantity |-> call[c].quantity] ELSE None]
       = [c \in Calls |-> HeldBy(c)]
  /\ [c \in Calls |-> IF Holds(c) THEN [item |-> call[c].item, quantity |-> call[c].quantity] ELSE None]'
       = [c \in Calls |-> HeldBy(c)']
BY DEF HeldBy

\* A function changed at one place.
LEMMA ChangedAt ==
  ASSUME NEW A, NEW B, NEW S, A = [d \in S |-> A[d]], B = [d \in S |-> B[d]],
         NEW c \in S, \A d \in S : d # c => B[d] = A[d]
  PROVE  B = [A EXCEPT ![c] = B[c]]
OBVIOUS

\* A write from a fresh copy reserves, releases or recounts its item at once.
LEMMA WriteIsAtomic ==
  ASSUME IInv, IInv', BooksInv, NEW c \in Calls, WriteStock(c), raced' = raced,
         call[c].item \notin raced'
  PROVE  Ledger!Next
<1> SUFFICES ASSUME NEW i, i = call[c].item, NEW r, r = call[c].target
             PROVE  Ledger!Next
    OBVIOUS
<1> DEFINE Quantity == [j \in Items |-> stock[j].quantity]
           Held == [d \in Calls |-> IF Holds(d) THEN [item |-> call[d].item, quantity |-> call[d].quantity] ELSE None]
<1>0. i \in Items /\ i \notin raced /\ ~Overtaken(c) /\ stock[i] = call[c].seen /\ call[c].seen \in Row
  BY WriteFacts DEF Overtaken
<1>1. \A e \in Calls : e # c => call'[e] = call[e]
  BY WriteFacts DEF OnlyMoves
<1>2. Held = [d \in Calls |-> HeldBy(d)] /\ Held' = [d \in Calls |-> HeldBy(d)']
  BY HeldFunction
<1>3. Ledger!Promised(i) = stock[i].reserved /\ stock[i].reserved \in Nat /\ stock[i].quantity \in Nat
      /\ stock[i] \in Row
  BY <1>0, PromisedSum, FinitelyMany DEF BooksInv, RowsExplained, RowExplained, IInv, TypeOK, Row
<1>4. stock'[i] = Updated(call[c]) /\ (\A j \in Items : j # i => stock'[j] = stock[j])
  BY WriteFacts
<1>5. reservations[c] = None /\ c \notin returned /\ ~Holds(c)
  BY WriteFacts DEF RecordSound, Saved, Holds
<1> DEFINE n == call[c].quantity
<1>6. n \in Nat
  BY WriteFacts DEF CallState
<1>7. CASE call[c].op = "reserve"
  <2>1. Holds(c)' /\ \A d \in Calls : d # c => (Holds(d)' <=> Holds(d))
    BY <1>1, <1>5, <1>7, WriteFacts DEF Holds
  <2>2. HeldBy(c) = None /\ HeldBy(c)' # None /\ HeldBy(c)' = [item |-> i, quantity |-> n]
    <3>1. HeldBy(c) = None
      BY <1>5 DEF HeldBy
    <3>2. HeldBy(c)' = [item |-> call'[c].item, quantity |-> call'[c].quantity]
      BY <2>1 DEF HeldBy
    <3>3. i \in Items /\ n \in Quantities
      BY <1>7, WriteFacts DEF CallSound
    <3> QED  BY <3>1, <3>2, <3>3, WriteFacts, NoneAssumption
  <2>3. \A d \in Calls : d # c => HeldBy(d)' = HeldBy(d)
    BY <1>1, <2>1 DEF HeldBy
  <2>4. stock'[i] = [stock[i] EXCEPT !.reserved = @ + n]
    BY <1>0, <1>4, <1>7, UpdatedByCase, Zenon
  <2>5. stock'[i].quantity = stock[i].quantity /\ stock'[i].reserved = stock[i].reserved + n
    BY <1>3, <2>4 DEF Row
  <2>6. stock'[i].reserved <= stock'[i].quantity
    BY <1>0 DEF IInv, RowsConsistent
  <2>7. Quantity' = Quantity
    BY <1>4, <2>5
  <2>8. Ledger!Promised(i) + n <= stock[i].quantity
    BY <1>3, <1>6, <2>5, <2>6
  <2>14. /\ Held = [d \in Calls |-> Held[d]] /\ Held' = [d \in Calls |-> Held'[d]]
         /\ \A d \in Calls : d # c => Held'[d] = Held[d]
    BY <1>2, <2>3
  <2> HIDE DEF n
  <2>9. Held[c] = None /\ Held'[c] # None /\ Held'[c].item = i /\ Held'[c].quantity = n
    BY <1>2, <2>2
  <2>10. Held' = [Held EXCEPT ![c] = Held'[c]]
    <3> HIDE DEF Held
    <3> QED  BY <2>14, ChangedAt
  <2>11. Quantity[i] = stock[i].quantity
    BY <1>0
  <2> HIDE DEF Held, Quantity
  <2>12. Ledger!Promised(Held'[c].item) + Held'[c].quantity <= Quantity[Held'[c].item]
    BY <2>8, <2>9, <2>11
  <2>13. Ledger!Reserve(c)
    <3> USE DEF Held, Quantity
    <3> QED  BY <2>7, <2>9, <2>10, <2>12, Zenon DEF Ledger!Reserve
  <2> QED  BY <2>13 DEF Ledger!Next
<1>8. CASE call[c].op = "cancel"
  <2>0. r \in Calls /\ r \notin returned /\ reservations[r] # None /\ call[c].item = reservations[r].item
        /\ RecordSound(r) /\ r # c
    BY <1>0, <1>5, <1>8, WriteFacts DEF CallSound, RecordSound, Overtaken, BooksInv, RecordsSound
  <2>1. ~Holds(c)' /\ \A d \in Calls : d # c => (Holds(d)' <=> Holds(d) /\ d # r)
    BY <1>1, <1>8, WriteFacts DEF Holds
  <2>2. Holds(r) /\ ~Holds(r)'
    <3>1. Holds(r)
      BY <2>0 DEF Holds, RecordSound, Saved
    <3> QED  BY <2>0, <2>1, <3>1
  <2>3. HeldBy(r) # None /\ HeldBy(r)' = None
    BY <2>2, <2>0, HeldRecords DEF HeldBy
  <2>4. \A d \in Calls : d # r => HeldBy(d)' = HeldBy(d)
    BY <1>1, <1>5, <2>1 DEF HeldBy
  <2>5. stock'[i] = [stock[i] EXCEPT !.reserved = IF @ >= n THEN @ - n ELSE 0]
    <3>1. Updated(call[c]) = [call[c].seen EXCEPT !.reserved = IF @ >= n THEN @ - n ELSE 0]
      BY <1>8, UpdatedByCase, Zenon
    <3> HIDE DEF n
    <3> QED  BY <1>0, <1>4, <3>1
  <2>6. stock'[i].quantity = stock[i].quantity
    BY <1>3, <2>5 DEF Row
  <2>7. Quantity' = Quantity
    BY <1>4, <2>6
  <2>8. Held[r] # None /\ Held' = [Held EXCEPT ![r] = None]
    <3>1. /\ Held = [d \in Calls |-> Held[d]] /\ Held' = [d \in Calls |-> Held'[d]]
          /\ \A d \in Calls : d # r => Held'[d] = Held[d]
      BY <1>2, <2>4
    <3>2. Held[r] # None /\ Held'[r] = None
      BY <1>2, <2>0, <2>3
    <3> HIDE DEF Held
    <3>3. Held' = [Held EXCEPT ![r] = Held'[r]]
      BY <2>0, <3>1, ChangedAt
    <3> QED  BY <3>2, <3>3
  <2>9. Ledger!Release(r)
    BY <2>7, <2>8, Zenon DEF Ledger!Release
  <2> QED  BY <2>0, <2>9 DEF Ledger!Next
<1>9. CASE call[c].op = "setStock"
  <2>1. HoldsTheSame
    BY <1>0, <1>9, WriteHolds
  <2>2. Held' = Held
    <3>1. \A d \in Calls : HeldBy(d)' = HeldBy(d)
      BY <2>1 DEF HoldsTheSame, HeldBy
    <3> QED  BY <1>2, <3>1
  <2>3. stock'[i] = [stock[i] EXCEPT !.quantity = n]
    BY <1>0, <1>4, <1>9, UpdatedByCase, Zenon
  <2>4. stock'[i].quantity = n /\ stock'[i].reserved = stock[i].reserved
    BY <1>3, <2>3 DEF Row
  <2>5. stock'[i].reserved <= stock'[i].quantity
    BY <1>0 DEF IInv, RowsConsistent
  <2>6. Quantity'[i] = stock'[i].quantity /\ Quantity' = [Quantity EXCEPT ![i] = Quantity'[i]]
    BY <1>0, <1>4
  <2>7. Quantity'[i] >= Ledger!Promised(i)
    BY <1>3, <2>4, <2>5, <2>6
  <2>8. Ledger!Recount(i)
    BY <2>2, <2>6, <2>7, Zenon DEF Ledger!Recount
  <2> QED  BY <1>0, <2>8 DEF Ledger!Next
<1> QED  BY <1>7, <1>8, <1>9, WriteFacts

\* Any other write races on its item, and on no other.
LEMMA WriteRaces ==
  ASSUME IInv, IInv', BooksInv, NEW c \in Calls, WriteStock(c), call[c].item \in raced'
  PROVE  Ledger!Next
<1> SUFFICES ASSUME NEW i, i = call[c].item, NEW r, r = call[c].target
             PROVE  Ledger!Next
    OBVIOUS
<1> DEFINE Quantity == [j \in Items |-> stock[j].quantity]
           Held == [d \in Calls |-> IF Holds(d) THEN [item |-> call[d].item, quantity |-> call[d].quantity] ELSE None]
<1>0. i \in Items /\ raced' = raced \cup {i}
  BY WriteFacts DEF WriteStock
<1>1. \A e \in Calls : e # c => call'[e] = call[e]
  BY WriteFacts DEF OnlyMoves
<1>2. Held = [d \in Calls |-> HeldBy(d)] /\ Held' = [d \in Calls |-> HeldBy(d)']
  BY HeldFunction
<1>3. \A j \in Items \ {i} : Quantity'[j] = Quantity[j]
  BY WriteFacts
<1>4. ASSUME NEW d \in Calls, HeldBy(d)' # HeldBy(d)
      PROVE  /\ HeldBy(d) # None => HeldBy(d).item = i
             /\ HeldBy(d)' # None => HeldBy(d)'.item = i
  <2>1. call[d].item = i /\ call'[d].item = call[d].item
    <3>1. CASE d = c
      BY <3>1, WriteFacts
    <3>2. CASE d # c
      <4>1. call'[d] = call[d] /\ ~(Holds(d) <=> Holds(d)')
        BY <1>1, <1>4, <3>2 DEF HeldBy
      <4>2. call[c].op = "cancel" /\ d = r /\ Holds(d)
        BY <4>1, WriteFacts DEF Holds
      <4>3. reservations[d] # None /\ call[d].item = reservations[d].item
        BY <4>2, WriteFacts DEF BooksInv, RecordsSound, RecordSound, CallSound
      <4>4. i = reservations[d].item
        BY <4>2, WriteFacts DEF RecordSound
      <4> QED  BY <4>1, <4>3, <4>4
    <3> QED  BY <3>1, <3>2
  <2> QED  BY <2>1 DEF HeldBy
<1>5. \A d \in Calls : Held'[d] # Held[d] =>
        \A hold \in {Held[d], Held'[d]} \ {None} : hold.item = i
  <2>1. \A d \in Calls : Held[d] = HeldBy(d) /\ Held'[d] = HeldBy(d)'
    BY <1>2
  <2> HIDE DEF Held
  <2> QED  BY <1>4, <2>1
<1>6. Ledger!Race(i)
  BY <1>0, <1>3, <1>5, Zenon DEF Ledger!Race
<1> QED  BY <1>0, <1>6 DEF Ledger!Next

\* Every step is one of the abstract ledger, or none.
LEMMA LedgerStep ==
  ASSUME IInv, IInv', BooksInv, [Next]_vars
  PROVE  [Ledger!Next]_(Ledger!vars)
<1>1. ASSUME NEW c \in Calls, Begins(c) \/ Step(c)  PROVE [Ledger!Next]_(Ledger!vars)
  <2>1. CASE WriteStock(c)
    <3>1. CASE call[c].item \in raced'
      BY <2>1, <3>1, WriteRaces
    <3>2. CASE call[c].item \notin raced'
      <4>1. raced' = raced
        BY <2>1, <3>2 DEF WriteStock
      <4> QED  BY <2>1, <3>2, <4>1, WriteIsAtomic
    <3> QED  BY <3>1, <3>2
  <2>2. CASE ~WriteStock(c)
    <3>1. LedgerKept
      BY <1>1, <2>2, BeginBooks, LookUpBooks, FindBooks, ReadBooks, SaveBooks, LogBooks DEF Step
    <3> QED  BY <3>1, LedgerStutters
  <2> QED  BY <2>1, <2>2
<1>2. CASE UNCHANGED vars
  <2>1. LedgerKept
    BY <1>2 DEF vars, LedgerKept, HoldsTheSame, Holds
  <2> QED  BY <2>1, LedgerStutters
<1> QED  BY <1>1, <1>2 DEF Next

\* Both start with nothing held.
LEMMA LedgerStarts == Init => Ledger!Init
<1> SUFFICES ASSUME Init  PROVE Ledger!Init
    OBVIOUS
<1>1. [i \in Items |-> stock[i].quantity] = [i \in Items |-> InitialQuantity]
  BY DEF Init
<1>2. \A c \in Calls : ~Holds(c)
  BY DEF Init, Holds, Idle
<1>3. [c \in Calls |-> IF Holds(c) THEN [item |-> call[c].item, quantity |-> call[c].quantity] ELSE None]
        = [c \in Calls |-> None]
  BY <1>2
<1> QED  BY <1>1, <1>3 DEF Ledger!Init, Init

\* InventoryService behaves as a ledger whose reservations, releases and
\* recounts are atomic, except for the items two of its handlers raced on:
\* every step of a handler is one operation of that ledger, a race, or nothing.
THEOREM LedgerImplemented == Spec => ImplementsLedger
<1>1. Init => Ledger!Init
  BY LedgerStarts
<1>2. (IInv /\ BooksInv) /\ (IInv /\ BooksInv)' /\ [Next]_vars => [Ledger!Next]_(Ledger!vars)
  BY LedgerStep
<1> QED  BY <1>1, <1>2, BooksInvariant, PTL DEF Spec, ImplementsLedger, Ledger!Spec

\* The books of the inventory service agree: an item no two handlers raced on
\* has reserved exactly what its pending reservations hold, its quantity is
\* what its movements add up to, and it is never promised beyond its stock.
THEOREM BooksAlwaysAgree == Spec => []BooksAgree
<1>1. IInv /\ BooksInv => BooksAgree
  BY LedgerFollows, AuditFollows, NothingOverpromised DEF IInv, BooksAgree
<1> QED  BY <1>1, BooksInvariant, PTL
=============================================================================
