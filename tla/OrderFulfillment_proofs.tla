----------------------- MODULE OrderFulfillment_proofs -----------------------
(***************************************************************************)
(* What the order fulfillment workflow promises, for any number of         *)
(* workflows, orders, lines, items and keys: AnswersTellHoldings,          *)
(* FulfilledOnce and NoSilentShortage.                                     *)
(*                                                                         *)
(* None of them is inductive.  OrderInv adds what every call of a workflow *)
(* has established by how far it got (CallsOK), how the calls go with      *)
(* where the workflow is (PhaseOK), and which status change a workflow's   *)
(* conclusion rests on (StatusInv); it takes over the invariant of the     *)
(* inventory service, proved in Inventory_proofs, and its preservation.    *)
(* StockInv counts the units held of an item, and those held by workflows  *)
(* that have looked at its minimum.                                        *)
(***************************************************************************)
EXTENDS MCOrderFulfillment, FiniteSetTheorems, TLAPS

InvP == INSTANCE Inventory_proofs WITH
  Calls <- LineCalls, Keys <- LineKeys, Quantities <- {1}

-----------------------------------------------------------------------------
(* What the calls of a workflow have established, by how far they got.     *)

Own(w, l) == <<w, l, "reserve">>
Reserve(w, l) == call[Own(w, l)]
Cancel(w, l) == call[<<w, l, "cancel">>]

\* The workflows that may have made the reservation w was given.
Family(w) == {w} \cup Siblings(w)

\* The rows of the calls of a line, and what they were given.
ReserveOK(w, l) ==
  LET q == Reserve(w, l)
      r == Own(w, l)
  IN /\ q # Inv!Idle => /\ q.op = "reserve" /\ q.item = Lines[l] /\ q.quantity = 1
                        /\ q.key = LineKey(w, l) /\ q.found = None
                        /\ q.pc \in {"lookup", "read", "write", "save", "log", "done", "failed"}
     /\ q.pc = "lookup" => q.key # NoKey
     /\ q.pc = "log" => q.target = r
     /\ reservations[r] # None <=> q.pc \in {"log", "done"} /\ q.target = r
     /\ reservations[r] # None => reservations[r].item = Lines[l] /\ reservations[r].quantity = 1
                                  /\ reservations[r].key = LineKey(w, l)
     /\ q.pc = "done" => \E v \in Family(w) : q.target = Own(v, l) /\ reservations[Own(v, l)] # None

CancelOK(w, l) ==
  LET q == Cancel(w, l)
      r == <<w, l, "cancel">>
  IN /\ q # Inv!Idle => /\ q.op = "cancel" /\ Reserve(w, l).pc = "done"
                        /\ q.target = Reserve(w, l).target
                        /\ q.pc \in {"find", "read", "write", "save", "done"}
     /\ q.pc \in {"read", "write", "save"} => q.item = Lines[l] /\ q.quantity = 1 /\ q.found = "PENDING"
     /\ q.pc = "save" => q.target \in returned
     /\ q.pc = "done" => reservations[q.target].status = "CANCELLED"
     /\ reservations[r] = None

\* A reservation is given back before its record says so, by a cancellation.
GivenBack ==
  /\ \A r \in returned : reservations[r] # None
  /\ \A r \in LineCalls : reservations[r] # None /\ reservations[r].status = "CANCELLED" =>
       /\ r \in returned
       /\ \E w \in Workflows, l \in LineNumbers : Cancel(w, l) # Inv!Idle /\ Cancel(w, l).target = r

CallsOK == GivenBack /\ \A w \in Workflows, l \in LineNumbers : ReserveOK(w, l) /\ CancelOK(w, l)

Uncancelled(w) == \A l \in LineNumbers : Cancel(w, l) = Inv!Idle
AllReserved(w) == \A l \in LineNumbers : Reserve(w, l).pc = "done"

\* Lines before n are reserved, lines after it untouched.
ReservedUpTo(w, n) ==
  /\ \A l \in LineNumbers : l < n => Reserve(w, l).pc = "done"
  /\ \A l \in LineNumbers : l > n => Reserve(w, l) = Inv!Idle

Compensating(w) ==
  \E n \in LineNumbers :
    /\ ReservedUpTo(w, n) /\ Reserve(w, n).pc = "failed" /\ wf[w].line <= n
    /\ \A l \in LineNumbers : l < wf[w].line => Cancel(w, l).pc = "done"
    /\ \A l \in LineNumbers : l > wf[w].line => Cancel(w, l) = Inv!Idle

\* Where a workflow is, and what its calls have come to.
PhaseOK(w) ==
  LET x == wf[w] IN
  /\ x.pc = "idle" => x = Idle
  /\ x.pc # "idle" => x.order \in Orders
  /\ x.pc \in {"check", "reserve", "compensate"} => x.line \in LineNumbers
  /\ x.pc \in {"idle", "check", "replenishAll", "replayed"} =>
       Uncancelled(w) /\ \A l \in LineNumbers : Reserve(w, l) = Inv!Idle
  /\ x.pc = "reserve" => Uncancelled(w) /\ ReservedUpTo(w, x.line)
  /\ x.pc \in {"approve", "fulfil", "replenish", "completed"} => Uncancelled(w) /\ AllReserved(w)
  /\ x.pc = "compensate" => Compensating(w)
  /\ x.pc = "failed" =>
       \A l \in LineNumbers : \/ Reserve(w, l).pc \in {"idle", "failed"}
                              \/ Reserve(w, l).pc = "done" /\ Cancel(w, l).pc = "done"

WorkflowInv == TypeOK /\ InvP!IInv /\ CallsOK /\ \A w \in Workflows : PhaseOK(w)

-----------------------------------------------------------------------------
(* Status changes: which of them fulfilled an order.                       *)

UpdateOK(u) ==
  LET q == update[u] IN
  /\ q # Sales!Idle => /\ q.op = "updateOrderStatus" /\ q.order \in Orders
                       /\ q.pc \in {"read", "write", "done", "refused"}
  /\ q.pc = "write" => q.seen \in Sales!Order /\ q.argument \in Sales!validTransitions[q.seen.status]

FulfilledBy(u) == update[u].pc = "done" /\ update[u].argument = "FULFILLED"

Updates == StatusCalls \cup ClientUpdates

\* The status changes of a workflow, and what it concludes from the last one.
AskedByWorkflows ==
  /\ \A w \in Workflows, s \in {"APPROVED", "FULFILLED"} :
       update[<<w, s>>] # Sales!Idle =>
         update[<<w, s>>].order = wf[w].order /\ update[<<w, s>>].argument = s /\ wf[w] # Idle
  /\ \A w \in Workflows : wf[w].pc \in {"replenish", "completed"} => FulfilledBy(<<w, "FULFILLED">>)

\* An order no two changes raced on is fulfilled by one change at most, and stays so.
DecidedOnce ==
  \A u \in Updates :
    FulfilledBy(u) /\ update[u].order \notin overtaken =>
      /\ order[update[u].order].status = "FULFILLED"
      /\ \A v \in Updates : FulfilledBy(v) /\ update[v].order = update[u].order => u = v

StatusInv ==
  /\ order \in [Orders -> Sales!Order]
  /\ \A u \in Updates : UpdateOK(u)
  /\ AskedByWorkflows
  /\ DecidedOnce

-----------------------------------------------------------------------------
(* What a row promises, and what a workflow that answered has seen of it.  *)

\* The calls that hold a unit of i.
Holding(i) == {c \in LineCalls : Inv!Holds(c) /\ call[c].item = i}

Checked(w, i) == wf[w].pc = "completed" \/ (wf[w].pc = "replenish" /\ i \notin wf[w].left)

\* The units of i held by workflows that have looked at its minimum.
CheckedHolding(i) == {c \in Holding(i) : Checked(c[1], i)}

\* No quantity is ever changed, neither in a row nor in a copy about to be written.
FullStock ==
  /\ \A i \in Items : stock[i].quantity = InitialQuantity
  /\ \A c \in LineCalls : call[c].pc = "write" => call[c].seen.quantity = InitialQuantity

Counted ==
  \A i \in Items \ raced :
    IsFiniteSet(Holding(i)) /\ stock[i].reserved = Cardinality(Holding(i))

\* An item a workflow looked at and nobody re-ordered was enough for all who looked at it.
Watched ==
  \A l \in LineNumbers :
    LET i == Lines[l] IN
    i \notin raced /\ (\E w \in Workflows : Checked(w, i))
      /\ (\A w \in Workflows : <<w, i>> \notin replenished) =>
      InitialQuantity - Cardinality(CheckedHolding(i)) >= MinQuantity

StockInv == FullStock /\ Counted /\ Watched

\* What Inventory asks of its constants holds of a workflow's calls.
LEMMA InventoryAssumptions ==
  InvP!QuantityAssumption /\ InvP!KeyAssumption /\ InvP!NoneAssumption
BY NoneAssumption, StockAssumption
  DEF InvP!QuantityAssumption, InvP!KeyAssumption, InvP!NoneAssumption, InvP!Reservation, Inv!Reservation

\* The calls a workflow makes are calls Inventory_proofs speaks of ...
LEMMA SameBegins ==
  ASSUME NEW c \in LineCalls
  PROVE  /\ \A i \in Items, k \in LineKeys \cup {NoKey} : Inv!BeginReserve(c, i, 1, k) => InvP!Begins(c)
         /\ \A r \in LineCalls : Inv!BeginCancel(c, r) => InvP!Begins(c)
BY DEF InvP!Begins, Inv!BeginReserve, InvP!BeginReserve, Inv!BeginCancel, InvP!BeginCancel, Inv!Begin,
  InvP!Begin, Inv!Idle, InvP!Idle, Inv!history, InvP!history

\* ... their steps are steps it speaks of ...
LEMMA SameStep ==
  ASSUME NEW c \in LineCalls, Inv!Step(c)
  PROVE  InvP!Step(c)
<1>1. Inv!LookUp(c) => InvP!LookUp(c)
  BY DEF Inv!LookUp, InvP!LookUp, Inv!WithKey, InvP!WithKey, Inv!Goto, InvP!Goto, Inv!history, InvP!history
<1>2. Inv!FindReservation(c) => InvP!FindReservation(c)
  BY DEF Inv!FindReservation, InvP!FindReservation, Inv!Cancellable, InvP!Cancellable, Inv!Goto, InvP!Goto,
    Inv!history, InvP!history
<1>3. Inv!ReadStock(c) => InvP!ReadStock(c)
  BY DEF Inv!ReadStock, InvP!ReadStock, Inv!Accepts, InvP!Accepts, Inv!Available, InvP!Available,
    Inv!history, InvP!history
<1>4. Inv!WriteStock(c) => InvP!WriteStock(c)
  BY DEF Inv!WriteStock, InvP!WriteStock, Inv!Updated, InvP!Updated, Inv!Overtaken, InvP!Overtaken,
    Inv!Goto, InvP!Goto
<1>5. Inv!SaveReservation(c) => InvP!SaveReservation(c)
  BY DEF Inv!SaveReservation, InvP!SaveReservation, Inv!Goto, InvP!Goto, Inv!history, InvP!history
<1>6. Inv!LogMovement(c) => InvP!LogMovement(c)
  BY DEF Inv!LogMovement, InvP!LogMovement, Inv!MovementOf, InvP!MovementOf, Inv!Delta, InvP!Delta,
    Inv!Goto, InvP!Goto, Inv!history, InvP!history
<1> QED
  BY <1>1, <1>2, <1>3, <1>4, <1>5, <1>6 DEF Inv!Step, InvP!Step

\* ... they start as it has them start ...
LEMMA SameInit == Inv!Init => InvP!Init
BY DEF Inv!Init, InvP!Init, Inv!Idle, InvP!Idle

\* ... and are typed as it types them.
LEMMA SameType == InvP!TypeOK <=> Inv!TypeOK
BY DEF InvP!TypeOK, Inv!TypeOK, InvP!Row, Inv!Row, InvP!Reservation, Inv!Reservation, InvP!Movement,
  Inv!Movement, InvP!MovementType, Inv!MovementType, InvP!CallState, Inv!CallState

\* A call belongs to one line of one workflow and is a reservation or a cancellation.
LEMMA LineCallShape ==
  /\ \A w \in Workflows, l \in LineNumbers : Own(w, l) \in LineCalls /\ <<w, l, "cancel">> \in LineCalls
  /\ \A c \in LineCalls : \E w \in Workflows, l \in LineNumbers : c = Own(w, l) \/ c = <<w, l, "cancel">>
  /\ \A w, v \in Workflows, l, m \in LineNumbers :
       /\ Own(w, l) = Own(v, m) => w = v /\ l = m
       /\ <<w, l, "cancel">> = <<v, m, "cancel">> => w = v /\ l = m
       /\ Own(w, l) # <<v, m, "cancel">>
BY DEF LineCalls, Own

\* An order has lines, and each names an item.
LEMMA LinesAreItems ==
  /\ LineNumbers = 1 .. Len(Lines) /\ Len(Lines) \in Nat \ {0}
  /\ \A l \in LineNumbers : Lines[l] \in Items
BY LinesAssumption DEF LineNumbers

\* The key of a line is a key of the ledger.
LEMMA LineKeyType ==
  ASSUME TypeOK, NEW w \in Workflows, NEW l \in LineNumbers, wf[w].order \in Orders
  PROVE  LineKey(w, l) \in LineKeys \cup {NoKey}
BY DEF TypeOK, LineKey, LineKeys

\* A call that begins, whatever it begins with.
LEMMA CallBegins ==
  ASSUME WorkflowInv, NEW c \in LineCalls, NEW q, Inv!Begin(c, q)
  PROVE  /\ call' = [call EXCEPT ![c] = q] /\ call'[c] = q /\ call[c] = Inv!Idle
         /\ \A d \in LineCalls : d # c => call'[d] = call[d]
         /\ UNCHANGED <<stock, reservations, movements, returned, raced>>
<1>1. call \in [LineCalls -> Inv!CallState]
  BY DEF WorkflowInv, TypeOK, Inv!TypeOK
<1> QED
  BY <1>1 DEF Inv!Begin, Inv!history

\* What the next operation of a reservation under way makes of its call.
LEMMA ReserveSteps ==
  ASSUME WorkflowInv, NEW w \in Workflows, NEW l \in LineNumbers, Inv!Step(Own(w, l))
  PROVE  LET c == Own(w, l)
             q == call[c]
             n == call'[c]
         IN
         /\ \A d \in LineCalls : d # c => call'[d] = call[d]
         /\ n.op = q.op /\ n.item = q.item /\ n.quantity = q.quantity /\ n.key = q.key
         /\ n.found = q.found
         /\ \/ /\ q.pc = "lookup" /\ n.pc = "read" /\ n.target = q.target
               /\ UNCHANGED <<stock, reservations, returned, raced>>
            \/ /\ q.pc = "lookup" /\ n.pc = "done" /\ n.target \in Inv!WithKey(q.key)
               /\ UNCHANGED <<stock, reservations, returned, raced>>
            \/ /\ q.pc = "read" /\ n.pc \in {"write", "failed"} /\ n.target = q.target
               /\ n.seen = stock[q.item]
               /\ UNCHANGED <<stock, reservations, returned, raced>>
            \/ /\ q.pc = "write" /\ n.pc = "save" /\ n.target = q.target
               /\ stock' = [stock EXCEPT ![q.item] = [q.seen EXCEPT !.reserved = @ + 1]]
               /\ raced' = IF stock[q.item] # q.seen THEN raced \cup {q.item} ELSE raced
               /\ UNCHANGED <<reservations, returned>>
            \/ /\ q.pc = "save" /\ n.pc = "log" /\ n.target = c
               /\ reservations' = [reservations EXCEPT ![c] =
                    [item |-> Lines[l], quantity |-> 1, key |-> q.key, status |-> "PENDING"]]
               /\ UNCHANGED <<stock, returned, raced>>
            \/ /\ q.pc = "log" /\ n.pc = "done" /\ n.target = q.target
               /\ UNCHANGED <<stock, reservations, returned, raced>>
<1> DEFINE c == Own(w, l)
           q == call[c]
<1>1. /\ call \in [LineCalls -> Inv!CallState] /\ c \in LineCalls /\ q \in Inv!CallState
  BY LineCallShape DEF WorkflowInv, TypeOK, Inv!TypeOK
<1>2. q # Inv!Idle => /\ q.op = "reserve" /\ q.item = Lines[l] /\ q.quantity = 1
                      /\ q.found = None /\ q.pc # "find"
  BY DEF WorkflowInv, CallsOK, ReserveOK, Reserve
<1>3. q.pc # "idle" => /\ q.op = "reserve" /\ q.item = Lines[l] /\ q.quantity = 1
                       /\ q.found # "PENDING" /\ q.pc # "find"
  BY <1>2, NoneAssumption DEF Inv!Idle
<1>5. CASE Inv!LookUp(c)
  BY <1>1, <1>5 DEF Inv!LookUp, Inv!Goto, Inv!CallState, Inv!history
<1>6. CASE Inv!FindReservation(c)
  BY <1>1, <1>3, <1>6 DEF Inv!FindReservation, Inv!Goto, Inv!CallState, Inv!history
<1>7. CASE Inv!ReadStock(c)
  BY <1>1, <1>7 DEF Inv!ReadStock, Inv!CallState, Inv!history
<1>8. CASE Inv!WriteStock(c)
  BY <1>1, <1>3, <1>8 DEF Inv!WriteStock, Inv!Goto, Inv!Updated, Inv!Overtaken, Inv!CallState
<1>9. CASE Inv!SaveReservation(c)
  BY <1>1, <1>3, <1>9 DEF Inv!SaveReservation, Inv!Goto, Inv!CallState, Inv!history
<1>10. CASE Inv!LogMovement(c)
  BY <1>1, <1>10 DEF Inv!LogMovement, Inv!Goto, Inv!CallState, Inv!history
<1> QED
  BY <1>5, <1>6, <1>7, <1>8, <1>9, <1>10 DEF Inv!Step

\* The reservation a cancellation gives back was made for the same line.
LEMMA CancelTarget ==
  ASSUME WorkflowInv, NEW w \in Workflows, NEW l \in LineNumbers, Reserve(w, l).pc = "done"
  PROVE  LET r == Reserve(w, l).target IN
         /\ \E v \in Family(w) : v \in Workflows /\ r = Own(v, l)
         /\ r \in LineCalls /\ reservations[r] # None
         /\ reservations[r] \in Inv!Reservation
         /\ reservations[r].item = Lines[l] /\ reservations[r].quantity = 1
<1>1. PICK v \in Family(w) : Reserve(w, l).target = Own(v, l) /\ reservations[Own(v, l)] # None
  BY DEF WorkflowInv, CallsOK, ReserveOK
<1>2. v \in Workflows
  BY DEF Family, Siblings
<1>3. reservations[Own(v, l)].item = Lines[l] /\ reservations[Own(v, l)].quantity = 1
  BY <1>1, <1>2 DEF WorkflowInv, CallsOK, ReserveOK
<1>4. Own(v, l) \in LineCalls /\ reservations[Own(v, l)] \in Inv!Reservation
  BY <1>1, <1>2, LineCallShape DEF WorkflowInv, TypeOK, Inv!TypeOK
<1> QED
  BY <1>1, <1>2, <1>3, <1>4

\* What the next operation of a cancellation under way makes of its call.
LEMMA CancelSteps ==
  ASSUME WorkflowInv, NEW w \in Workflows, NEW l \in LineNumbers, Inv!Step(<<w, l, "cancel">>)
  PROVE  LET c == <<w, l, "cancel">>
             q == call[c]
             n == call'[c]
         IN
         /\ \A d \in LineCalls : d # c => call'[d] = call[d]
         /\ n.op = "cancel" /\ n.target = q.target /\ q # Inv!Idle
         /\ \/ /\ q.pc = "find" /\ n.pc = "done" /\ reservations[q.target].status = "CANCELLED"
               /\ UNCHANGED <<stock, reservations, returned, raced>>
            \/ /\ q.pc = "find" /\ n.pc = "read"
               /\ n.item = Lines[l] /\ n.quantity = 1 /\ n.found = "PENDING"
               /\ UNCHANGED <<stock, reservations, returned, raced>>
            \/ /\ q.pc = "read" /\ n.pc = "write" /\ n.seen = stock[Lines[l]]
               /\ n.item = Lines[l] /\ n.quantity = 1 /\ n.found = "PENDING"
               /\ UNCHANGED <<stock, reservations, returned, raced>>
            \/ /\ q.pc = "write" /\ n.pc = "save"
               /\ n.item = Lines[l] /\ n.quantity = 1 /\ n.found = "PENDING"
               /\ stock' = [stock EXCEPT ![Lines[l]] =
                    [q.seen EXCEPT !.reserved = IF @ >= 1 THEN @ - 1 ELSE 0]]
               /\ returned' = returned \cup {q.target}
               /\ raced' = IF stock[Lines[l]] # q.seen \/ q.target \in returned
                             THEN raced \cup {Lines[l]} ELSE raced
               /\ UNCHANGED reservations
            \/ /\ q.pc = "save" /\ n.pc = "done"
               /\ reservations' = [reservations EXCEPT ![q.target].status = "CANCELLED"]
               /\ UNCHANGED <<stock, returned, raced>>
<1> DEFINE c == <<w, l, "cancel">>
           q == call[c]
           r == q.target
<1>1. /\ call \in [LineCalls -> Inv!CallState] /\ c \in LineCalls /\ q \in Inv!CallState
  BY LineCallShape DEF WorkflowInv, TypeOK, Inv!TypeOK
<1>2. q # Inv!Idle
  BY DEF Inv!Step, Inv!LookUp, Inv!FindReservation, Inv!ReadStock, Inv!WriteStock, Inv!SaveReservation,
    Inv!LogMovement, Inv!Idle
<1>3. /\ q.op = "cancel" /\ Reserve(w, l).pc = "done" /\ r = Reserve(w, l).target
      /\ q.pc \in {"find", "read", "write", "save", "done"}
      /\ q.pc \in {"read", "write", "save"} =>
           q.item = Lines[l] /\ q.quantity = 1 /\ q.found = "PENDING"
  BY <1>2 DEF WorkflowInv, CallsOK, CancelOK, Cancel
<1>4. /\ reservations[r] # None /\ reservations[r].item = Lines[l] /\ reservations[r].quantity = 1
      /\ reservations[r].status \in {"PENDING", "CANCELLED"}
  BY <1>3, CancelTarget DEF Inv!Reservation
<1>5. CASE Inv!LookUp(c)
  BY <1>3, <1>5 DEF Inv!LookUp
<1>6. CASE Inv!FindReservation(c)
  <2>1. q.pc = "find" /\ UNCHANGED <<stock, reservations, returned, raced>>
    BY <1>6 DEF Inv!FindReservation, Inv!history
  <2>2. CASE ~Inv!Cancellable(r)
    <3>1. call' = [call EXCEPT ![c].pc = "done"] /\ reservations[r].status = "CANCELLED"
      BY <1>4, <1>6, <2>2 DEF Inv!FindReservation, Inv!Goto, Inv!Cancellable
    <3> QED
      BY <1>1, <1>2, <1>3, <2>1, <3>1 DEF Inv!CallState
  <2>3. CASE Inv!Cancellable(r)
    <3>1. /\ call' = [call EXCEPT ![c].pc = "read", ![c].found = reservations[r].status,
                                 ![c].item = reservations[r].item,
                                 ![c].quantity = reservations[r].quantity]
          /\ reservations[r].status = "PENDING"
      BY <1>4, <1>6, <2>3 DEF Inv!FindReservation, Inv!Cancellable
    <3> QED
      BY <1>1, <1>2, <1>3, <1>4, <2>1, <3>1 DEF Inv!CallState
  <2> QED
    BY <2>2, <2>3
<1>7. CASE Inv!ReadStock(c)
  <2>1. Inv!Accepts(q, stock[q.item])
    BY <1>3 DEF Inv!Accepts
  <2> QED
    BY <1>1, <1>2, <1>3, <1>7, <2>1 DEF Inv!ReadStock, Inv!CallState, Inv!history
<1>8. CASE Inv!WriteStock(c)
  BY <1>1, <1>2, <1>3, <1>8 DEF Inv!WriteStock, Inv!Goto, Inv!Updated, Inv!Overtaken, Inv!CallState
<1>9. CASE Inv!SaveReservation(c)
  BY <1>1, <1>2, <1>3, <1>9 DEF Inv!SaveReservation, Inv!Goto, Inv!CallState, Inv!history
<1>10. CASE Inv!LogMovement(c)
  BY <1>3, <1>10 DEF Inv!LogMovement
<1> QED
  BY <1>5, <1>6, <1>7, <1>8, <1>9, <1>10 DEF Inv!Step

\* What the invariant says of one line, in one place.
LEMMA LineFacts ==
  ASSUME WorkflowInv, NEW w \in Workflows, NEW l \in LineNumbers
  PROVE  /\ ReserveOK(w, l) /\ CancelOK(w, l)
         /\ call \in [LineCalls -> Inv!CallState]
         /\ reservations \in [LineCalls -> Inv!Reservation \cup {None}]
         /\ Reserve(w, l) # Inv!Idle => wf[w].order \in Orders
         /\ LineKey(w, l) \in LineKeys \cup {NoKey} \/ Reserve(w, l) = Inv!Idle
<1>1. Reserve(w, l) # Inv!Idle => wf[w].order \in Orders
  BY DEF WorkflowInv, PhaseOK
<1> QED
  BY <1>1, LineKeyType DEF WorkflowInv, CallsOK, TypeOK, Inv!TypeOK

\* No reservation is ever deleted, and no call that ended begins again.
LEMMA NothingIsForgotten ==
  ASSUME WorkflowInv, NEW c \in LineCalls, Inv!Step(c)
  PROVE  /\ \A r \in LineCalls : reservations[r] # None => reservations'[r] # None
         /\ returned \subseteq returned'
         /\ \A d \in LineCalls : call[d].pc \in {"idle", "done", "failed"} => call'[d] = call[d]
<1>1. CASE \E w \in Workflows, l \in LineNumbers : c = Own(w, l)
  <2>1. PICK w \in Workflows, l \in LineNumbers : c = Own(w, l)
    BY <1>1
  <2>2. call[c].pc \notin {"idle", "done", "failed"} /\ \A d \in LineCalls : d # c => call'[d] = call[d]
    BY <2>1, ReserveSteps
  <2>3. CASE UNCHANGED reservations
    BY <2>1, <2>2, <2>3, ReserveSteps
  <2>4. CASE reservations' # reservations
    <3> DEFINE new == [item |-> Lines[l], quantity |-> 1, key |-> call[c].key, status |-> "PENDING"]
    <3>1. call[c].pc = "save" /\ reservations' = [reservations EXCEPT ![c] = new] /\ UNCHANGED returned
      BY <2>1, <2>4, ReserveSteps
    <3>2. call[c].key \in LineKeys \cup {NoKey} /\ Lines[l] \in Items
      BY <2>1, LineFacts, LineCallShape, LinesAreItems DEF Inv!CallState
    <3>3. new \in Inv!Reservation
      BY <3>2 DEF Inv!Reservation
    <3> HIDE DEF new
    <3>4. new # None
      BY <3>3, NoneAssumption
    <3>5. reservations \in [LineCalls -> Inv!Reservation \cup {None}]
      BY <2>1, LineFacts
    <3> QED
      BY <2>1, <2>2, <3>1, <3>4, <3>5, LineCallShape
  <2> QED
    BY <2>3, <2>4
<1>2. CASE \E w \in Workflows, l \in LineNumbers : c = <<w, l, "cancel">>
  <2>1. PICK w \in Workflows, l \in LineNumbers : c = <<w, l, "cancel">>
    BY <1>2
  <2>2. call[c].pc \notin {"idle", "done", "failed"} /\ \A d \in LineCalls : d # c => call'[d] = call[d]
    BY <2>1, CancelSteps
  <2>3. CASE UNCHANGED reservations
    BY <2>1, <2>2, <2>3, CancelSteps
  <2>4. CASE reservations' # reservations
    <3> DEFINE r == call[c].target
               new == [reservations[r] EXCEPT !.status = "CANCELLED"]
    <3>1. call[c].pc = "save" /\ reservations' = [reservations EXCEPT ![r] = new] /\ UNCHANGED returned
      BY <2>1, <2>4, CancelSteps
    <3>2. r \in LineCalls /\ reservations[r] \in Inv!Reservation
      BY <2>1, <3>1, LineFacts, CancelTarget DEF CancelOK, Cancel, Inv!Idle
    <3>3. new \in Inv!Reservation
      BY <3>2 DEF Inv!Reservation
    <3> HIDE DEF new
    <3>4. new # None
      BY <3>3, NoneAssumption
    <3>5. reservations \in [LineCalls -> Inv!Reservation \cup {None}]
      BY <2>1, LineFacts
    <3> QED
      BY <2>1, <2>2, <3>1, <3>2, <3>4, <3>5
  <2> QED
    BY <2>3, <2>4
<1> QED
  BY <1>1, <1>2, LineCallShape

\* An operation of the inventory leaves the workflows where they are.
LEMMA InventoryKeepsPhases ==
  ASSUME WorkflowInv, NEW c \in LineCalls, Inv!Step(c), wf' = wf, NEW w \in Workflows
  PROVE  PhaseOK(w)'
<1>1. \A l \in LineNumbers :
        /\ Reserve(w, l).pc \in {"idle", "done", "failed"} => Reserve(w, l)' = Reserve(w, l)
        /\ Cancel(w, l).pc \in {"idle", "done", "failed"} => Cancel(w, l)' = Cancel(w, l)
  BY NothingIsForgotten, LineCallShape DEF Reserve, Cancel, Own
<1>2. Inv!Idle.pc = "idle"
  BY DEF Inv!Idle
<1>3. \A l \in LineNumbers :
        /\ Reserve(w, l) = Inv!Idle => Reserve(w, l)' = Inv!Idle
        /\ Cancel(w, l) = Inv!Idle => Cancel(w, l)' = Inv!Idle
        /\ Reserve(w, l).pc = "done" => Reserve(w, l)'.pc = "done"
        /\ Cancel(w, l).pc = "done" => Cancel(w, l)'.pc = "done"
        /\ Reserve(w, l).pc = "failed" => Reserve(w, l)'.pc = "failed"
        /\ Reserve(w, l).pc = "idle" => Reserve(w, l)'.pc = "idle"
  BY <1>1, <1>2
<1>4. PhaseOK(w)
  BY DEF WorkflowInv
<1> HIDE DEF Inv!Idle
<1>5. (Uncancelled(w) => Uncancelled(w)') /\ (AllReserved(w) => AllReserved(w)')
  BY <1>3 DEF Uncancelled, AllReserved
<1>6. \A n \in LineNumbers : ReservedUpTo(w, n) => ReservedUpTo(w, n)'
  BY <1>3 DEF ReservedUpTo
<1>7. Compensating(w) => Compensating(w)'
  BY <1>3, <1>6 DEF Compensating
<1> QED
  BY <1>3, <1>4, <1>5, <1>6, <1>7 DEF PhaseOK

\* A step of reserveStock keeps what the calls have established.
LEMMA ReserveStepKeepsCalls ==
  ASSUME WorkflowInv, NEW w \in Workflows, NEW l \in LineNumbers, Inv!Step(Own(w, l)), wf' = wf
  PROVE  CallsOK'
<1> DEFINE c == Own(w, l)
<1>1. c \in LineCalls
  BY LineCallShape
<1>2. /\ \A d \in LineCalls : d # c => call'[d] = call[d]
      /\ \A r \in LineCalls : r # c => reservations'[r] = reservations[r]
      /\ UNCHANGED returned /\ Reserve(w, l) # Inv!Idle
      /\ Reserve(w, l)' = call'[c]
  <2>1. reservations \in [LineCalls -> Inv!Reservation \cup {None}]
    BY LineFacts
  <2>2. call[c].pc # "idle" /\ UNCHANGED returned
    BY ReserveSteps
  <2>3. \A d \in LineCalls : d # c => call'[d] = call[d]
    BY ReserveSteps
  <2>4. \A r \in LineCalls : r # c => reservations'[r] = reservations[r]
    BY <1>1, <2>1, ReserveSteps
  <2>5. Reserve(w, l) # Inv!Idle /\ Reserve(w, l)' = call'[c]
    BY <2>2 DEF Reserve, Inv!Idle, Own
  <2> QED
    BY <2>2, <2>3, <2>4, <2>5
<1>3. \A v \in Workflows, m \in LineNumbers : LineKey(v, m)' = LineKey(v, m) /\ Family(v)' = Family(v)
  BY DEF LineKey, Family, Siblings
<1>4. \A r \in LineCalls : reservations[r] # None => reservations'[r] # None
  BY <1>1, NothingIsForgotten
<1>9. reservations' = reservations \/ (reservations[c] = None /\ reservations'[c].status = "PENDING")
  <2>1. /\ reservations \in [LineCalls -> Inv!Reservation \cup {None}]
        /\ call[c].pc = "save" => reservations[c] = None
    BY LineFacts DEF ReserveOK, Reserve
  <2> DEFINE new == [item |-> Lines[l], quantity |-> 1, key |-> call[c].key, status |-> "PENDING"]
  <2>2. reservations' = reservations \/ (call[c].pc = "save" /\ reservations' = [reservations EXCEPT ![c] = new])
    BY ReserveSteps
  <2>3. new.status = "PENDING"
    OBVIOUS
  <2> HIDE DEF new
  <2> QED
    BY <1>1, <2>1, <2>2, <2>3
<1>5. ASSUME NEW v \in Workflows, NEW m \in LineNumbers, v # w \/ m # l
      PROVE  ReserveOK(v, m)'
  <2>1. /\ Reserve(v, m)' = Reserve(v, m) /\ reservations'[Own(v, m)] = reservations[Own(v, m)]
    BY <1>2, <1>5, LineCallShape DEF Reserve, Own
  <2>2. \A x \in Family(v) : x \in Workflows /\ Own(x, m) \in LineCalls
    BY LineCallShape DEF Family, Siblings
  <2>3. ReserveOK(v, m)
    BY LineFacts
  <2> QED
    BY <1>3, <1>4, <2>1, <2>2, <2>3 DEF ReserveOK, Own
<1>6. ReserveOK(w, l)'
  <2> DEFINE q == call[c]
             n == call'[c]
  <2>1. /\ ReserveOK(w, l) /\ q = Reserve(w, l) /\ n = Reserve(w, l)'
        /\ q.op = "reserve" /\ q.item = Lines[l] /\ q.quantity = 1 /\ q.key = LineKey(w, l)
        /\ n.op = "reserve" /\ n.item = Lines[l] /\ n.quantity = 1 /\ n.key = LineKey(w, l)'
        /\ q.found = None /\ n.found = None
    <3>1. ReserveOK(w, l) /\ q = Reserve(w, l) /\ n = Reserve(w, l)'
      BY <1>2, LineFacts DEF Reserve
    <3>2. /\ n.op = q.op /\ n.item = q.item /\ n.quantity = q.quantity /\ n.key = q.key
          /\ n.found = q.found
      BY ReserveSteps
    <3> HIDE DEF q, n
    <3>3. /\ q.op = "reserve" /\ q.item = Lines[l] /\ q.quantity = 1 /\ q.key = LineKey(w, l)
          /\ q.found = None
      BY <1>2, <3>1 DEF ReserveOK
    <3> QED
      BY <1>3, <3>1, <3>2, <3>3
  <2>2. CASE q.pc = "lookup" /\ n.pc = "done"
    <3> DEFINE r == n.target
    <3>1. r \in LineCalls /\ reservations[r] # None /\ reservations[r].key = LineKey(w, l)
          /\ reservations' = reservations /\ LineKey(w, l) # NoKey
      BY <2>1, <2>2, ReserveSteps DEF Inv!WithKey, ReserveOK
    <3>2. PICK v \in Workflows, m \in LineNumbers : r = Own(v, m)
      BY <3>1, LineCallShape, LineFacts DEF CancelOK
    <3>3. LineKey(v, m) = LineKey(w, l)
      BY <3>1, <3>2, LineFacts DEF ReserveOK
    <3>4. m = l /\ v \in Family(w)
      BY <3>1, <3>3 DEF LineKey, Family, Siblings
    <3> QED
      BY <1>3, <2>1, <2>2, <3>1, <3>2, <3>4 DEF ReserveOK
  <2>3. CASE q.pc = "save"
    <3>1. n.pc = "log" /\ n.target = c
      BY <2>3, ReserveSteps
    <3> DEFINE new == [item |-> Lines[l], quantity |-> 1, key |-> q.key, status |-> "PENDING"]
    <3>2. reservations' = [reservations EXCEPT ![c] = new]
      BY <2>3, ReserveSteps
    <3>3. new.item = Lines[l] /\ new.quantity = 1 /\ new.key = LineKey(w, l)'
      BY <1>3, <2>1
    <3> HIDE DEF new
    <3>4. reservations'[c] = new
      BY <1>1, <3>2, LineFacts
    <3>5. new # None
      <4>1. q.key \in LineKeys \cup {NoKey} /\ Lines[l] \in Items
        BY <1>1, LineFacts, LinesAreItems DEF Inv!CallState
      <4>2. new \in Inv!Reservation
        BY <4>1 DEF new, Inv!Reservation
      <4> QED
        BY <4>2, NoneAssumption
    <3> QED
      BY <2>1, <3>1, <3>3, <3>4, <3>5 DEF ReserveOK
  <2>4. CASE q.pc = "log"
    <3>1. n.pc = "done" /\ n.target = q.target /\ reservations' = reservations
      BY <2>4, ReserveSteps
    <3>2. q.target = c /\ reservations[c] # None
      BY <2>1, <2>4 DEF ReserveOK
    <3>3. w \in Family(w)'
      BY DEF Family
    <3> QED
      BY <1>3, <2>1, <2>4, <3>1, <3>2, <3>3 DEF ReserveOK
  <2>5. CASE q.pc \in {"lookup", "read", "write"} /\ n.pc # "done"
    <3>1. n.pc \in {"read", "write", "failed", "save"} /\ reservations' = reservations
      BY <2>5, ReserveSteps
    <3>2. reservations'[c] = None
      BY <2>1, <2>5, <3>1 DEF ReserveOK
    <3> HIDE DEF n, q
    <3> QED
      BY <2>1, <3>1, <3>2 DEF ReserveOK
  <2> QED
    BY <2>2, <2>3, <2>4, <2>5, ReserveSteps
<1>7. ASSUME NEW v \in Workflows, NEW m \in LineNumbers
      PROVE  CancelOK(v, m)'
  <2>1. /\ Cancel(v, m)' = Cancel(v, m)
        /\ reservations'[<<v, m, "cancel">>] = reservations[<<v, m, "cancel">>]
        /\ Reserve(v, m).pc = "done" => Reserve(v, m)' = Reserve(v, m)
    BY <1>1, <1>2, NothingIsForgotten, LineCallShape DEF Cancel, Reserve, Own
  <2>2. CancelOK(v, m)
    BY LineFacts
  <2>3. Cancel(v, m).pc = "done" => reservations'[Cancel(v, m).target].status = "CANCELLED"
    <3>1. SUFFICES ASSUME Cancel(v, m).pc = "done"
                   PROVE  reservations'[Cancel(v, m).target] = reservations[Cancel(v, m).target]
      BY <2>2 DEF CancelOK
    <3>2. Reserve(v, m).pc = "done" /\ Cancel(v, m).target = Reserve(v, m).target
      BY <2>2, <3>1 DEF CancelOK, Inv!Idle
    <3>3. Cancel(v, m).target \in LineCalls /\ reservations[Cancel(v, m).target] # None
      BY <3>2, CancelTarget
    <3> QED
      BY <1>2, <1>9, <3>3
  <2> QED
    BY <1>2, <2>1, <2>2, <2>3 DEF CancelOK
<1>8. GivenBack'
  <2>1. GivenBack /\ returned \subseteq LineCalls
    BY DEF WorkflowInv, CallsOK, TypeOK, Inv!TypeOK
  <2>2. \A v \in Workflows, m \in LineNumbers : Cancel(v, m)' = Cancel(v, m)
    BY <1>2, LineCallShape DEF Cancel, Own
  <2>3. \A r \in LineCalls : reservations'[r] # None /\ reservations'[r].status = "CANCELLED" =>
          reservations[r] = reservations'[r]
    BY <1>2, <1>9
  <2> QED
    BY <1>2, <1>4, <2>1, <2>2, <2>3 DEF GivenBack
<1> QED
  BY <1>5, <1>6, <1>7, <1>8 DEF CallsOK

\* A step of cancelReservation does too, whoever made the reservation.
LEMMA CancelStepKeepsCalls ==
  ASSUME WorkflowInv, NEW w \in Workflows, NEW l \in LineNumbers, Inv!Step(<<w, l, "cancel">>),
         wf' = wf
  PROVE  CallsOK'
<1> DEFINE c == <<w, l, "cancel">>
           q == call[c]
           n == call'[c]
           r == q.target
<1>1. /\ c \in LineCalls /\ q # Inv!Idle /\ q = Cancel(w, l) /\ n = Cancel(w, l)'
      /\ \A d \in LineCalls : d # c => call'[d] = call[d]
      /\ n.op = "cancel" /\ n.target = r
  BY LineCallShape, CancelSteps DEF Cancel
<1>2. /\ CancelOK(w, l) /\ Reserve(w, l).pc = "done" /\ r = Reserve(w, l).target
      /\ reservations \in [LineCalls -> Inv!Reservation \cup {None}]
  BY <1>1, LineFacts DEF CancelOK
<1>3. r \in LineCalls /\ reservations[r] # None /\ reservations[r] \in Inv!Reservation
  BY <1>2, CancelTarget
<1>4. \A x \in LineCalls : reservations[x] # None => reservations'[x] # None
  BY <1>1, NothingIsForgotten
<1> DEFINE new == [reservations[r] EXCEPT !.status = "CANCELLED"]
<1>5. /\ reservations' = reservations \/ (q.pc = "save" /\ reservations' = [reservations EXCEPT ![r] = new])
      /\ returned' = returned \/ returned' = returned \cup {r}
  <2>1. \/ UNCHANGED reservations
        \/ q.pc = "save" /\ reservations' = [reservations EXCEPT ![r].status = "CANCELLED"]
    BY CancelSteps
  <2> QED
    BY <2>1, CancelSteps
<1>6. /\ new.item = reservations[r].item /\ new.quantity = reservations[r].quantity
      /\ new.key = reservations[r].key /\ new.status = "CANCELLED"
  BY <1>3 DEF Inv!Reservation
<1> HIDE DEF new
<1>7. /\ \A x \in LineCalls : x # r => reservations'[x] = reservations[x]
      /\ reservations'[r] \in {reservations[r], new}
      /\ q.pc = "save" \/ reservations' = reservations
  BY <1>2, <1>3, <1>5
<1>8. /\ \A v \in Workflows, m \in LineNumbers :
           LineKey(v, m)' = LineKey(v, m) /\ Family(v)' = Family(v) /\ Reserve(v, m)' = Reserve(v, m)
      /\ \A v \in Workflows, m \in LineNumbers :
           v # w \/ m # l => Cancel(v, m)' = Cancel(v, m)
  <2>1. \A v \in Workflows, m \in LineNumbers : LineKey(v, m)' = LineKey(v, m) /\ Family(v)' = Family(v)
    BY DEF LineKey, Family, Siblings
  <2> QED
    BY <1>1, <2>1, LineCallShape DEF Reserve, Cancel, Own
<1>9. ASSUME NEW v \in Workflows, NEW m \in LineNumbers
      PROVE  ReserveOK(v, m)'
  <2>1. ReserveOK(v, m) /\ Own(v, m) \in LineCalls
    BY LineFacts, LineCallShape
  <2>2. /\ reservations'[Own(v, m)] # None <=> reservations[Own(v, m)] # None
        /\ reservations[Own(v, m)] # None =>
             /\ reservations'[Own(v, m)].item = reservations[Own(v, m)].item
             /\ reservations'[Own(v, m)].quantity = reservations[Own(v, m)].quantity
             /\ reservations'[Own(v, m)].key = reservations[Own(v, m)].key
    BY <1>3, <1>4, <1>6, <1>7, <2>1
  <2>3. \A x \in Family(v) : x \in Workflows /\ Own(x, m) \in LineCalls
    BY LineCallShape DEF Family, Siblings
  <2> QED
    BY <1>4, <1>8, <2>1, <2>2, <2>3 DEF ReserveOK, Own
<1>10. \A x \in LineCalls : reservations[x] # None /\ reservations[x].status = "CANCELLED" =>
         reservations'[x].status = "CANCELLED"
  BY <1>6, <1>7
<1>11. ASSUME NEW v \in Workflows, NEW m \in LineNumbers, v # w \/ m # l
       PROVE  CancelOK(v, m)'
  <2>1. CancelOK(v, m) /\ Cancel(v, m)' = Cancel(v, m) /\ <<v, m, "cancel">> \in LineCalls
    BY <1>8, <1>11, LineFacts, LineCallShape
  <2>2. reservations'[<<v, m, "cancel">>] = None
    BY <1>3, <1>7, <2>1 DEF CancelOK
  <2>3. Cancel(v, m).pc = "done" => reservations'[Cancel(v, m).target].status = "CANCELLED"
    <3>1. SUFFICES ASSUME Cancel(v, m).pc = "done"
                   PROVE  reservations'[Cancel(v, m).target].status = "CANCELLED"
      OBVIOUS
    <3>2. Reserve(v, m).pc = "done" /\ Cancel(v, m).target = Reserve(v, m).target
      BY <2>1, <3>1 DEF CancelOK, Inv!Idle
    <3> QED
      BY <1>10, <2>1, <3>1, <3>2, CancelTarget DEF CancelOK
  <2>4. returned \subseteq returned'
    BY <1>5
  <2> QED
    BY <1>8, <2>1, <2>2, <2>3, <2>4 DEF CancelOK
<1>12. CancelOK(w, l)'
  <2>1. reservations'[c] = None
    BY <1>1, <1>2, <1>3, <1>7 DEF CancelOK
  <2>2. q.pc = "save" => reservations'[r].status = "CANCELLED"
    <3>1. q.pc = "save" => reservations' = [reservations EXCEPT ![r].status = "CANCELLED"]
      BY CancelSteps
    <3> QED
      BY <1>2, <1>3, <3>1 DEF new, Inv!Reservation
  <2>3. /\ n.pc \in {"read", "write", "save", "done"}
        /\ n.pc \in {"read", "write", "save"} => n.item = Lines[l] /\ n.quantity = 1 /\ n.found = "PENDING"
        /\ n.pc = "save" => r \in returned'
    BY CancelSteps
  <2>4. n.pc = "done" => reservations'[r].status = "CANCELLED"
    <3>1. n.pc = "done" => q.pc = "save" \/ (reservations[r].status = "CANCELLED" /\ UNCHANGED reservations)
      BY CancelSteps
    <3> QED
      BY <2>2, <3>1
  <2> HIDE DEF q, n, r
  <2> QED
    BY <1>1, <1>2, <1>8, <2>1, <2>3, <2>4 DEF CancelOK
<1>13. GivenBack'
  <2>1. /\ GivenBack /\ returned \subseteq LineCalls
        /\ q.pc = "save" => r \in returned
    BY <1>1, <1>2 DEF WorkflowInv, CallsOK, TypeOK, Inv!TypeOK, CancelOK
  <2>2. \A x \in returned' : reservations'[x] # None
    BY <1>3, <1>4, <1>5, <2>1 DEF GivenBack
  <2>3. ASSUME NEW x \in LineCalls, reservations'[x] # None, reservations'[x].status = "CANCELLED"
        PROVE  /\ x \in returned'
               /\ \E v \in Workflows, m \in LineNumbers :
                    Cancel(v, m)' # Inv!Idle /\ Cancel(v, m)'.target = x
    <3>1. CASE x = r /\ q.pc = "save"
      <4>1. n # Inv!Idle
        BY <1>1 DEF Inv!Idle
      <4> QED
        BY <1>1, <1>5, <2>1, <3>1, <4>1
    <3>2. CASE x # r \/ q.pc # "save"
      <4>1. reservations'[x] = reservations[x]
        BY <1>7, <3>2
      <4>2. PICK v \in Workflows, m \in LineNumbers : Cancel(v, m) # Inv!Idle /\ Cancel(v, m).target = x
        BY <2>1, <2>3, <4>1 DEF GivenBack
      <4>3. Cancel(v, m)' # Inv!Idle /\ Cancel(v, m)'.target = x
        <5>1. n # Inv!Idle
          BY <1>1 DEF Inv!Idle
        <5> QED
          BY <1>1, <1>8, <4>2, <5>1
      <4>4. x \in returned'
        BY <1>5, <2>1, <2>3, <4>1 DEF GivenBack
      <4> QED
        BY <4>3, <4>4
    <3> QED
      BY <3>1, <3>2
  <2> QED
    BY <2>2, <2>3 DEF GivenBack
<1> QED
  BY <1>9, <1>11, <1>12, <1>13 DEF CallsOK

\* No step of the inventory service disturbs the calls or the workflows' places.
LEMMA InventoryStepKeeps ==
  ASSUME WorkflowInv, NEW c \in LineCalls, Inv!Step(c), wf' = wf
  PROVE  CallsOK' /\ \A w \in Workflows : PhaseOK(w)'
<1>1. PICK w \in Workflows, l \in LineNumbers : c = Own(w, l) \/ c = <<w, l, "cancel">>
  BY LineCallShape
<1>2. CallsOK'
  BY <1>1, ReserveStepKeepsCalls, CancelStepKeepsCalls
<1> QED
  BY <1>2, InventoryKeepsPhases

\* What a workflow knows is left alone by steps that touch neither its calls nor itself.
LEMMA PhaseFrame ==
  ASSUME WorkflowInv, NEW w \in Workflows, wf'[w] = wf[w],
         \A l \in LineNumbers : Reserve(w, l)' = Reserve(w, l) /\ Cancel(w, l)' = Cancel(w, l)
  PROVE  PhaseOK(w)'
<1>1. PhaseOK(w)
  BY DEF WorkflowInv
<1> QED
  BY <1>1 DEF PhaseOK, Uncancelled, AllReserved, ReservedUpTo, Compensating

\* A step of a workflow that calls nothing.
LEMMA OnlyWorkflow ==
  ASSUME WorkflowInv, UNCHANGED inventoryVars, NEW w \in Workflows,
         \A v \in Workflows : v # w => wf'[v] = wf[v],
         wf'[w].key = wf[w].key, wf'[w].order = wf[w].order, PhaseOK(w)'
  PROVE  CallsOK' /\ \A v \in Workflows : PhaseOK(v)'
<1>1. UNCHANGED <<call, reservations, returned>>
  BY DEF inventoryVars
<1>2. \A v \in Workflows : wf'[v].key = wf[v].key /\ wf'[v].order = wf[v].order
  OBVIOUS
<1>3. \A v \in Workflows, m \in LineNumbers :
        /\ LineKey(v, m)' = LineKey(v, m) /\ Family(v)' = Family(v)
        /\ Reserve(v, m)' = Reserve(v, m) /\ Cancel(v, m)' = Cancel(v, m)
  BY <1>1, <1>2 DEF LineKey, Family, Siblings, Reserve, Cancel, Own
<1>4. \A v \in Workflows : PhaseOK(v)'
  BY <1>3, PhaseFrame
<1>5. \A v \in Workflows, m \in LineNumbers : ReserveOK(v, m)' /\ CancelOK(v, m)'
  <2> TAKE v \in Workflows, m \in LineNumbers
  <2>1. ReserveOK(v, m) /\ CancelOK(v, m)
    BY LineFacts
  <2>2. ReserveOK(v, m)'
    BY <1>1, <1>3, <2>1 DEF ReserveOK, Own
  <2>3. CancelOK(v, m)'
    BY <1>1, <1>3, <2>1 DEF CancelOK
  <2> QED
    BY <2>2, <2>3
<1>6. GivenBack'
  BY <1>1, <1>3 DEF WorkflowInv, CallsOK, GivenBack
<1> QED
  BY <1>4, <1>5, <1>6 DEF CallsOK

\* A call of one workflow begins; all others are what they were.
LEMMA BeginsKeeps ==
  ASSUME WorkflowInv, wf' = wf, NEW c \in LineCalls, NEW q, Inv!Begin(c, q),
         NEW w \in Workflows, NEW l \in LineNumbers, c = Own(w, l) \/ c = <<w, l, "cancel">>,
         ReserveOK(w, l)', CancelOK(w, l)', q # Inv!Idle, PhaseOK(w)'
  PROVE  CallsOK' /\ \A v \in Workflows : PhaseOK(v)'
<1>1. /\ call'[c] = q /\ call[c] = Inv!Idle /\ \A d \in LineCalls : d # c => call'[d] = call[d]
      /\ UNCHANGED <<reservations, returned>>
  BY CallBegins
<1>2. \A v \in Workflows, m \in LineNumbers :
        /\ LineKey(v, m)' = LineKey(v, m) /\ Family(v)' = Family(v)
        /\ v # w \/ m # l => Reserve(v, m)' = Reserve(v, m) /\ Cancel(v, m)' = Cancel(v, m)
        /\ Cancel(v, m) # Inv!Idle => Cancel(v, m)' = Cancel(v, m)
  <2>1. \A v \in Workflows, m \in LineNumbers : LineKey(v, m)' = LineKey(v, m) /\ Family(v)' = Family(v)
    BY DEF LineKey, Family, Siblings
  <2>2. \A v \in Workflows, m \in LineNumbers :
          /\ v # w \/ m # l => Own(v, m) # c /\ <<v, m, "cancel">> # c
          /\ Own(v, m) \in LineCalls /\ <<v, m, "cancel">> \in LineCalls
    BY DEF LineCalls, Own
  <2>3. \A v \in Workflows, m \in LineNumbers :
          v # w \/ m # l => Reserve(v, m)' = Reserve(v, m) /\ Cancel(v, m)' = Cancel(v, m)
    BY <1>1, <2>2 DEF Reserve, Cancel, Own
  <2>4. \A v \in Workflows, m \in LineNumbers : Cancel(v, m) # Inv!Idle => Cancel(v, m)' = Cancel(v, m)
    BY <1>1, <2>2 DEF Cancel
  <2> QED
    BY <2>1, <2>3, <2>4
<1>3. \A v \in Workflows : v # w => PhaseOK(v)'
  BY <1>2, PhaseFrame
<1>4. ASSUME NEW v \in Workflows, NEW m \in LineNumbers, v # w \/ m # l
      PROVE  ReserveOK(v, m)' /\ CancelOK(v, m)'
  <2>1. ReserveOK(v, m) /\ CancelOK(v, m) /\ Reserve(v, m)' = Reserve(v, m) /\ Cancel(v, m)' = Cancel(v, m)
    BY <1>2, <1>4, LineFacts
  <2>2. ReserveOK(v, m)'
    BY <1>1, <1>2, <2>1 DEF ReserveOK, Own
  <2>3. CancelOK(v, m)'
    BY <1>1, <2>1 DEF CancelOK
  <2> QED
    BY <2>2, <2>3
<1>5. GivenBack'
  <2>1. GivenBack
    BY DEF WorkflowInv, CallsOK
  <2>2. ASSUME NEW v \in Workflows, NEW m \in LineNumbers, Cancel(v, m) # Inv!Idle
        PROVE  Cancel(v, m)' # Inv!Idle /\ Cancel(v, m)'.target = Cancel(v, m).target
    BY <1>2, <2>2
  <2> QED
    BY <1>1, <2>1, <2>2 DEF GivenBack
<1> QED
  BY <1>3, <1>4, <1>5 DEF CallsOK

\* A workflow that asks for its next line.
LEMMA ReserveLineKeeps ==
  ASSUME WorkflowInv, NEW w \in Workflows, ReserveLine(w)
  PROVE  CallsOK' /\ \A v \in Workflows : PhaseOK(v)'
<1> SUFFICES ASSUME NEW l \in LineNumbers, wf[w].line = l
             PROVE  CallsOK' /\ \A v \in Workflows : PhaseOK(v)'
  BY DEF WorkflowInv, PhaseOK, ReserveLine
<1> DEFINE c == Own(w, l)
           q == [Inv!Idle EXCEPT !.op = "reserve", !.item = Lines[l], !.quantity = 1, !.key = LineKey(w, l),
                                 !.pc = IF LineKey(w, l) = NoKey THEN "read" ELSE "lookup"]
<1>1. /\ Uncancelled(w) /\ ReservedUpTo(w, l) /\ wf[w].pc = "reserve" /\ PhaseOK(w)
  BY DEF WorkflowInv, PhaseOK, ReserveLine
<1>2. Inv!Begin(c, q) /\ wf' = wf
  BY DEF ReserveLine, Inv!BeginReserve, Own
<1>3. /\ q.op = "reserve" /\ q.item = Lines[l] /\ q.quantity = 1 /\ q.key = LineKey(w, l) /\ q.found = None
      /\ q.pc = IF LineKey(w, l) = NoKey THEN "read" ELSE "lookup"
  BY DEF Inv!Idle
<1> HIDE DEF q
<1>4. /\ c \in LineCalls /\ call'[c] = q /\ call[c] = Inv!Idle
      /\ \A d \in LineCalls : d # c => call'[d] = call[d]
      /\ UNCHANGED <<reservations, returned>>
  BY <1>1, <1>2, CallBegins, LineCallShape
<1>5. q # Inv!Idle /\ Inv!Idle.pc = "idle"
  BY <1>3 DEF Inv!Idle
<1>6. /\ Reserve(w, l)' = q
      /\ \A m \in LineNumbers : m # l => Reserve(w, m)' = Reserve(w, m)
      /\ \A m \in LineNumbers : Cancel(w, m)' = Cancel(w, m) /\ Cancel(w, m) = Inv!Idle
  <2>1. \A m \in LineNumbers : /\ m # l => Own(w, m) # c
                               /\ Own(w, m) \in LineCalls /\ <<w, m, "cancel">> \in LineCalls
                               /\ <<w, m, "cancel">> # c
    BY <1>1, LineCallShape
  <2> QED
    BY <1>1, <1>4, <2>1 DEF Reserve, Cancel, Own, Uncancelled
<1>7. ReserveOK(w, l)'
  <2>1. ReserveOK(w, l) /\ Reserve(w, l) = Inv!Idle
    BY <1>1, <1>4, LineFacts DEF Reserve
  <2>2. reservations'[c] = None
    BY <1>4, <1>5, <2>1 DEF ReserveOK
  <2>3. LineKey(w, l)' = LineKey(w, l)
    BY <1>2 DEF LineKey
  <2> QED
    BY <1>3, <1>6, <2>2, <2>3 DEF ReserveOK
<1>8. CancelOK(w, l)'
  <2>1. CancelOK(w, l)
    BY <1>1, LineFacts
  <2> QED
    BY <1>1, <1>4, <1>5, <1>6, <2>1 DEF CancelOK
<1>9. PhaseOK(w)'
  <2>1. Uncancelled(w)'
    BY <1>6 DEF Uncancelled
  <2>2. ReservedUpTo(w, l)'
    BY <1>1, <1>6, LinesAreItems DEF ReservedUpTo
  <2>3. wf'[w] = wf[w]
    BY <1>2
  <2> QED
    BY <1>1, <2>1, <2>2, <2>3 DEF PhaseOK
<1> QED
  BY <1>1, <1>2, <1>4, <1>5, <1>7, <1>8, <1>9, BeginsKeeps

\* A workflow that gives a line back.
LEMMA CancelLineKeeps ==
  ASSUME WorkflowInv, NEW w \in Workflows, CancelLine(w)
  PROVE  CallsOK' /\ \A v \in Workflows : PhaseOK(v)'
<1> SUFFICES ASSUME NEW l \in LineNumbers, wf[w].line = l
             PROVE  CallsOK' /\ \A v \in Workflows : PhaseOK(v)'
  BY DEF WorkflowInv, PhaseOK, CancelLine
<1> DEFINE c == <<w, l, "cancel">>
           q == [Inv!Idle EXCEPT !.op = "cancel", !.target = Reserve(w, l).target, !.pc = "find"]
<1>1. /\ Compensating(w) /\ wf[w].pc = "compensate" /\ PhaseOK(w)
      /\ Reserve(w, l).pc = "done"
  BY DEF WorkflowInv, PhaseOK, CancelLine, Collected, Reserve, Own
<1>2. Inv!Begin(c, q) /\ wf' = wf
  BY DEF CancelLine, Inv!BeginCancel, Own, Reserve
<1>3. /\ q.op = "cancel" /\ q.target = Reserve(w, l).target /\ q.pc = "find"
  BY DEF Inv!Idle
<1> HIDE DEF q
<1>4. /\ c \in LineCalls /\ call'[c] = q /\ call[c] = Inv!Idle
      /\ \A d \in LineCalls : d # c => call'[d] = call[d]
      /\ UNCHANGED <<reservations, returned>>
  BY <1>1, <1>2, CallBegins, LineCallShape
<1>5. q # Inv!Idle /\ Inv!Idle.pc = "idle"
  BY <1>3 DEF Inv!Idle
<1>6. /\ Cancel(w, l)' = q
      /\ \A m \in LineNumbers : m # l => Cancel(w, m)' = Cancel(w, m)
      /\ \A m \in LineNumbers : Reserve(w, m)' = Reserve(w, m)
  <2>1. \A m \in LineNumbers : /\ m # l => <<w, m, "cancel">> # c
                               /\ Own(w, m) \in LineCalls /\ <<w, m, "cancel">> \in LineCalls
                               /\ Own(w, m) # c
    BY <1>1, LineCallShape
  <2> QED
    BY <1>1, <1>4, <2>1 DEF Reserve, Cancel, Own
<1>7. ReserveOK(w, l)'
  <2>1. ReserveOK(w, l)
    BY <1>1, LineFacts
  <2>3. LineKey(w, l)' = LineKey(w, l) /\ Family(w)' = Family(w)
    BY <1>2 DEF LineKey, Family, Siblings
  <2> QED
    BY <1>1, <1>4, <1>6, <2>1, <2>3 DEF ReserveOK, Own
<1>8. CancelOK(w, l)'
  <2>1. reservations'[c] = None
    BY <1>1, <1>4, LineFacts DEF CancelOK
  <2> QED
    BY <1>1, <1>3, <1>6, <2>1 DEF CancelOK
<1>9. PhaseOK(w)'
  <2>1. PICK n \in LineNumbers :
          /\ ReservedUpTo(w, n) /\ Reserve(w, n).pc = "failed" /\ l <= n
          /\ \A m \in LineNumbers : m < l => Cancel(w, m).pc = "done"
          /\ \A m \in LineNumbers : m > l => Cancel(w, m) = Inv!Idle
    BY <1>1 DEF Compensating
  <2>2. ReservedUpTo(w, n)' /\ Reserve(w, n)'.pc = "failed"
    BY <1>6, <2>1 DEF ReservedUpTo
  <2>3. wf'[w] = wf[w]
    BY <1>2
  <2>4. \A m \in LineNumbers : m < l \/ m > l => Cancel(w, m)' = Cancel(w, m)
    BY <1>1, <1>6, LinesAreItems
  <2>5. Compensating(w)'
    BY <2>1, <2>2, <2>3, <2>4 DEF Compensating
  <2> QED
    BY <1>1, <2>3, <2>5 DEF PhaseOK
<1> QED
  BY <1>1, <1>2, <1>4, <1>5, <1>7, <1>8, <1>9, BeginsKeeps

\* The local state of a workflow, and what assigning it changes.
LEMMA WorkflowTypes ==
  ASSUME WorkflowInv, NEW w \in Workflows
  PROVE  /\ wf \in [Workflows ->
              [pc : {"idle", "check", "reserve", "compensate", "approve", "fulfil",
                     "replenish", "replenishAll"} \cup Finished,
               order : Orders \cup {None}, key : Keys \cup {NoKey},
               status : Sales!Status \cup {None}, line : 1..Len(Lines) + 1,
               left : SUBSET Items]]
         /\ wf[w].line \in Nat /\ PhaseOK(w)
         /\ \A x : wf' = [wf EXCEPT ![w] = x] => wf'[w] = x /\ \A v \in Workflows : v # w => wf'[v] = wf[v]
BY LinesAreItems DEF WorkflowInv, TypeOK

\* What a workflow has once it entered a phase.
LEMMA Entered ==
  ASSUME WorkflowInv, NEW w \in Workflows, NEW pc, Enter(w, pc)
  PROVE  /\ wf'[w].pc = pc /\ wf'[w].line = 1 /\ \A v \in Workflows : v # w => wf'[v] = wf[v]
         /\ wf'[w].key = wf[w].key /\ wf'[w].order = wf[w].order
         /\ wf'[w].status = wf[w].status /\ wf'[w].left = wf[w].left
BY WorkflowTypes DEF Enter

\* A workflow that is started, or answered from the idempotency store.
LEMMA BeginKeeps ==
  ASSUME WorkflowInv, NEW w \in Workflows, NEW o \in Orders, NEW k \in Keys \cup {NoKey}, Begin(w, o, k)
  PROVE  CallsOK' /\ \A v \in Workflows : PhaseOK(v)'
<1>1. /\ UNCHANGED <<call, reservations, returned>> /\ wf[w] = Idle
      /\ wf'[w].order = o /\ wf'[w].pc \in {"replayed", "error", "check"} /\ wf'[w].line = 1
      /\ \A v \in Workflows : v # w => wf'[v] = wf[v]
  BY WorkflowTypes DEF Begin, inventoryVars, Idle
<1>2. /\ Uncancelled(w) /\ \A l \in LineNumbers : Reserve(w, l) = Inv!Idle
  BY <1>1, WorkflowTypes DEF PhaseOK, Idle
<1>3. \A v \in Workflows, m \in LineNumbers :
        /\ Reserve(v, m)' = Reserve(v, m) /\ Cancel(v, m)' = Cancel(v, m)
        /\ v # w => LineKey(v, m)' = LineKey(v, m)
  BY <1>1 DEF Reserve, Cancel, Own, LineKey
<1>4. \A m \in LineNumbers : reservations[Own(w, m)] = None
  BY <1>2, LineFacts DEF ReserveOK, Inv!Idle
<1>5. \A v \in Workflows : v # w => Family(v) \ {w} \subseteq Family(v)'
  BY <1>1 DEF Family, Siblings
<1>6. ASSUME NEW v \in Workflows, NEW m \in LineNumbers
      PROVE  ReserveOK(v, m)' /\ CancelOK(v, m)'
  <2>1. ReserveOK(v, m) /\ CancelOK(v, m)
    BY LineFacts
  <2>2. CancelOK(v, m)'
    BY <1>1, <1>3, <2>1 DEF CancelOK
  <2>3. CASE v = w
    BY <1>1, <1>2, <1>3, <1>4, <2>1, <2>2, <2>3 DEF ReserveOK, Own, Inv!Idle
  <2>4. CASE v # w
    <3>1. Reserve(v, m).pc = "done" =>
            \E x \in Family(v)' : Reserve(v, m).target = Own(x, m) /\ reservations[Own(x, m)] # None
      BY <1>4, <1>5, <2>1, <2>4 DEF ReserveOK
    <3> QED
      BY <1>1, <1>3, <2>1, <2>2, <2>4, <3>1 DEF ReserveOK, Own
  <2> QED
    BY <2>3, <2>4
<1>7. GivenBack'
  BY <1>1, <1>3 DEF WorkflowInv, CallsOK, GivenBack
<1>8. ASSUME NEW v \in Workflows
      PROVE  PhaseOK(v)'
  <2>1. CASE v # w
    BY <1>1, <1>3, <2>1, PhaseFrame
  <2>2. CASE v = w
    <3>1. Uncancelled(w)' /\ \A l \in LineNumbers : Reserve(w, l)' = Inv!Idle
      BY <1>2, <1>3 DEF Uncancelled
    <3> QED
      BY <1>1, <2>2, <3>1, LinesAreItems DEF PhaseOK
  <2> QED
    BY <2>1, <2>2
<1> QED
  BY <1>6, <1>7, <1>8 DEF CallsOK

\* Steps of a workflow that neither begin nor carry on a call.
LEMMA LocalStepKeeps ==
  ASSUME WorkflowInv, NEW w \in Workflows,
         \/ CheckLine(w) \/ LineReserved(w) \/ LineCancelled(w) \/ Compensated(w)
         \/ StatusUpdated(w) \/ Replenish(w) \/ Answer(w)
  PROVE  CallsOK' /\ \A v \in Workflows : PhaseOK(v)'
<1> DEFINE n == wf'[w]
<1>0. PICK l : l = wf[w].line
  OBVIOUS
<1>1. PhaseOK(w) /\ l \in Nat
  BY <1>0, WorkflowTypes
<1>2. /\ UNCHANGED inventoryVars
      /\ \A v \in Workflows : v # w => wf'[v] = wf[v]
      /\ n.key = wf[w].key /\ n.order = wf[w].order
  BY WorkflowTypes DEF CheckLine, LineReserved, LineCancelled, Compensated, StatusUpdated, Replenish,
    Answer, Enter
<1>3. \A m \in LineNumbers : Reserve(w, m)' = Reserve(w, m) /\ Cancel(w, m)' = Cancel(w, m)
  BY <1>2 DEF Reserve, Cancel, Own, inventoryVars
<1>4. /\ Uncancelled(w)' <=> Uncancelled(w)
      /\ AllReserved(w)' <=> AllReserved(w)
      /\ \A m \in LineNumbers : ReservedUpTo(w, m)' <=> ReservedUpTo(w, m)
  BY <1>3 DEF Uncancelled, AllReserved, ReservedUpTo
<1>5. SUFFICES PhaseOK(w)'
  BY <1>2, OnlyWorkflow
<1>6. CASE CheckLine(w)
  <2>1. /\ wf[w].pc = "check" /\ Uncancelled(w) /\ \A m \in LineNumbers : Reserve(w, m) = Inv!Idle
        /\ wf[w].order \in Orders /\ l \in LineNumbers
    BY <1>0, <1>1, <1>6 DEF CheckLine, PhaseOK
  <2>2. \/ n.pc = "check" /\ n.line = l + 1 /\ l < Len(Lines)
        \/ n.pc = "reserve" /\ n.line = 1
        \/ n.pc = "replenishAll"
    BY <1>0, <1>6, <2>1, WorkflowTypes, Entered DEF CheckLine
  <2>3. ReservedUpTo(w, 1)'
    BY <1>3, <2>1, LinesAreItems DEF ReservedUpTo
  <2> QED
    BY <1>0, <1>2, <1>3, <1>4, <2>1, <2>2, <2>3, LinesAreItems DEF PhaseOK
<1>7. CASE LineReserved(w)
  <2>1. /\ wf[w].pc = "reserve" /\ Uncancelled(w) /\ ReservedUpTo(w, l)
        /\ wf[w].order \in Orders /\ l \in LineNumbers
    BY <1>0, <1>1, <1>7 DEF LineReserved, PhaseOK
  <2>2. CASE Reserve(w, l).pc = "done" /\ l < Len(Lines)
    <3>1. n.pc = "reserve" /\ n.line = l + 1
      BY <1>0, <1>7, <2>1, <2>2, WorkflowTypes DEF LineReserved, Reserve, Own
    <3>2. ReservedUpTo(w, l + 1)'
      BY <1>3, <2>1, <2>2, LinesAreItems DEF ReservedUpTo
    <3> QED
      BY <1>0, <1>2, <1>4, <2>1, <2>2, <3>1, <3>2, LinesAreItems DEF PhaseOK
  <2>3. CASE Reserve(w, l).pc = "done" /\ l = Len(Lines)
    <3>1. n.pc \in {"fulfil", "approve"}
      BY <1>0, <1>7, <2>1, <2>3, Entered DEF LineReserved, Reserve, Own
    <3>2. AllReserved(w)
      BY <2>1, <2>3, LinesAreItems DEF AllReserved, ReservedUpTo
    <3> QED
      BY <1>0, <1>2, <1>4, <2>1, <3>1, <3>2 DEF PhaseOK
  <2>4. CASE Reserve(w, l).pc = "failed"
    <3>1. n.pc = "compensate" /\ n.line = 1
      BY <1>0, <1>7, <2>1, <2>4, Entered DEF LineReserved, Reserve, Own
    <3>2. Compensating(w)'
      <4>1. ReservedUpTo(w, l)' /\ Reserve(w, l)'.pc = "failed" /\ n.line <= l
        BY <1>3, <1>4, <2>1, <2>4, <3>1, LinesAreItems
      <4>2. \A m \in LineNumbers : ~(m < 1) /\ Cancel(w, m)' = Inv!Idle
        BY <1>3, <2>1, LinesAreItems DEF Uncancelled
      <4> QED
        BY <2>1, <3>1, <4>1, <4>2 DEF Compensating
    <3> QED
      BY <1>0, <1>2, <2>1, <3>1, <3>2, LinesAreItems DEF PhaseOK
  <2> QED
    BY <1>0, <1>7, <2>2, <2>3, <2>4 DEF LineReserved, Reserve, Own
<1>8. CASE LineCancelled(w)
  <2>1. /\ wf[w].pc = "compensate" /\ Compensating(w) /\ Reserve(w, l).pc = "done"
        /\ wf[w].order \in Orders /\ l \in LineNumbers /\ Cancel(w, l).pc \in {"done", "failed"}
    BY <1>0, <1>1, <1>8 DEF LineCancelled, PhaseOK, Collected, Reserve, Own, Cancel
  <2>2. Cancel(w, l).pc = "done"
    <3>1. CancelOK(w, l)
      BY <2>1, LineFacts
    <3> QED
      BY <2>1, <3>1 DEF CancelOK, Inv!Idle
  <2>3. PICK f \in LineNumbers :
          /\ ReservedUpTo(w, f) /\ Reserve(w, f).pc = "failed" /\ l <= f
          /\ \A m \in LineNumbers : m < l => Cancel(w, m).pc = "done"
          /\ \A m \in LineNumbers : m > l => Cancel(w, m) = Inv!Idle
    BY <1>0, <2>1 DEF Compensating
  <2>4. n.pc = "compensate" /\ n.line = l + 1
    BY <1>0, <1>8, <2>1, WorkflowTypes DEF LineCancelled
  <2>5. l < f
    BY <2>1, <2>3, LinesAreItems
  <2>6. /\ \A m \in LineNumbers : m < l + 1 => Cancel(w, m)'.pc = "done"
        /\ \A m \in LineNumbers : m > l + 1 => Cancel(w, m)' = Inv!Idle
    BY <1>3, <2>1, <2>2, <2>3, LinesAreItems
  <2>7. ReservedUpTo(w, f)' /\ Reserve(w, f)'.pc = "failed" /\ n.line <= f
    BY <1>3, <1>4, <2>1, <2>3, <2>4, <2>5, LinesAreItems
  <2>8. Compensating(w)'
    BY <2>4, <2>6, <2>7 DEF Compensating
  <2> QED
    BY <1>0, <1>2, <2>1, <2>4, <2>5, <2>8, LinesAreItems DEF PhaseOK
<1>9. CASE Compensated(w)
  <2>1. wf[w].pc = "compensate" /\ Compensating(w) /\ Reserve(w, l).pc # "done" /\ wf[w].order \in Orders
    BY <1>0, <1>1, <1>9 DEF Compensated, PhaseOK, Collected, Reserve, Own
  <2>2. PICK f \in LineNumbers :
          /\ ReservedUpTo(w, f) /\ Reserve(w, f).pc = "failed" /\ l <= f
          /\ \A m \in LineNumbers : m < l => Cancel(w, m).pc = "done"
    BY <1>0, <2>1 DEF Compensating
  <2>3. l \in LineNumbers
    BY <1>0, <1>1, <2>1 DEF PhaseOK
  <2>4. l = f
    BY <2>1, <2>2, <2>3, LinesAreItems DEF ReservedUpTo
  <2>5. n.pc = "failed"
    BY <1>9, Entered DEF Compensated
  <2>6. \A m \in LineNumbers : \/ Reserve(w, m)'.pc \in {"idle", "failed"}
                               \/ Reserve(w, m)'.pc = "done" /\ Cancel(w, m)'.pc = "done"
    <3> TAKE m \in LineNumbers
    <3>1. m < f \/ m = f \/ m > f
      BY LinesAreItems
    <3> QED
      BY <1>3, <2>2, <2>4, <3>1 DEF ReservedUpTo, Inv!Idle
  <2> QED
    BY <1>0, <1>2, <2>1, <2>5, <2>6 DEF PhaseOK
<1>10. CASE StatusUpdated(w)
  <2>1. wf[w].pc \in {"approve", "fulfil"} /\ Uncancelled(w) /\ AllReserved(w) /\ wf[w].order \in Orders
    BY <1>0, <1>1, <1>10 DEF StatusUpdated, PhaseOK
  <2>2. n.pc \in {"error", "fulfil", "replenish"}
    BY <1>10, Entered, WorkflowTypes DEF StatusUpdated
  <2> QED
    BY <1>0, <1>2, <1>4, <2>1, <2>2 DEF PhaseOK
<1>11. CASE Replenish(w)
  <2>1. n.pc = wf[w].pc /\ n.line = wf[w].line /\ n.pc \in {"replenish", "replenishAll"}
    BY <1>11, WorkflowTypes DEF Replenish
  <2> QED
    BY <1>1, <1>2, <1>3, <1>4, <2>1 DEF PhaseOK
<1>12. CASE Answer(w)
  <2>1. \/ wf[w].pc = "replenish" /\ n.pc = "completed"
        \/ wf[w].pc = "replenishAll" /\ n.pc = "failed"
    BY <1>12, Entered DEF Answer
  <2>2. CASE wf[w].pc = "replenish" /\ n.pc = "completed"
    BY <1>1, <1>2, <1>4, <2>2 DEF PhaseOK
  <2>3. CASE wf[w].pc = "replenishAll" /\ n.pc = "failed"
    <3>1. \A m \in LineNumbers : Reserve(w, m)'.pc = "idle"
      BY <1>1, <1>3, <2>3 DEF PhaseOK, Inv!Idle
    <3> QED
      BY <1>1, <1>2, <2>3, <3>1 DEF PhaseOK
  <2> QED
    BY <2>1, <2>2, <2>3
<1> QED
  BY <1>6, <1>7, <1>8, <1>9, <1>10, <1>11, <1>12

-----------------------------------------------------------------------------
(* Status changes.                                                         *)

\* What the invariant says of orders and of the calls that change them.
LEMMA UpdateTypes ==
  ASSUME WorkflowInv, StatusInv
  PROVE  /\ update \in [Updates -> Sales!UpdateState] /\ overtaken \subseteq Orders
         /\ order \in [Orders -> Sales!Order]
         /\ \A u \in Updates : UpdateOK(u)
         /\ \A w \in Workflows, s \in {"APPROVED", "FULFILLED"} : <<w, s>> \in Updates
BY DEF WorkflowInv, TypeOK, Sales!TypeOK, StatusInv, Updates, StatusCalls

\* From FULFILLED there is nowhere to go, and to FULFILLED only from APPROVED.
LEMMA TransitionsAre ==
  ASSUME NEW s \in Sales!Status
  PROVE  /\ Sales!validTransitions[s] \subseteq Sales!Status
         /\ Sales!validTransitions["FULFILLED"] = {}
         /\ "FULFILLED" \in Sales!validTransitions[s] => s = "APPROVED"
BY DEF Sales!validTransitions, Sales!Status

\* A step of updateOrderStatus reads the order or writes back a changed copy.
LEMMA StatusSteps ==
  ASSUME WorkflowInv, StatusInv, NEW u \in Updates, Sales!Step(u)
  PROVE  LET q == update[u]
             n == update'[u]
             o == q.order
         IN
         /\ \A v \in Updates : v # u => update'[v] = update[v]
         /\ update' = [update EXCEPT ![u] = n] /\ n \in Sales!UpdateState
         /\ q # Sales!Idle /\ n # Sales!Idle /\ o \in Orders
         /\ n.op = q.op /\ n.order = q.order /\ n.argument = q.argument /\ q.op = "updateOrderStatus"
         /\ \/ /\ q.pc = "read" /\ n.pc \in {"write", "refused"} /\ n.seen = order[o]
               /\ n.pc = "write" => q.argument \in Sales!validTransitions[order[o].status]
               /\ UNCHANGED <<order, overtaken>>
            \/ /\ q.pc = "write" /\ n.pc = "done"
               /\ order' = [order EXCEPT ![o] = [q.seen EXCEPT !.status = q.argument]]
               /\ overtaken' = IF order[o] = q.seen THEN overtaken ELSE overtaken \cup {o}
<1> DEFINE q == update[u]
           o == q.order
<1>1. update \in [Updates -> Sales!UpdateState] /\ q \in Sales!UpdateState /\ UpdateOK(u)
      /\ order \in [Orders -> Sales!Order]
  BY UpdateTypes
<1>2. q.pc # "idle"
  BY DEF Sales!Step, Sales!ReadOrder, Sales!WriteOrder, Sales!RefuseRep, Sales!FindKey,
    Sales!CheckCustomer, Sales!PickRep, Sales!CreateOrder
<1>3. /\ q # Sales!Idle /\ q.op = "updateOrderStatus" /\ o \in Orders
      /\ q.pc \in {"read", "write", "done", "refused"}
  BY <1>1, <1>2 DEF UpdateOK, Sales!Idle
<1>4. \/ Sales!ReadOrder(u) \/ Sales!WriteOrder(u)
  BY <1>3 DEF Sales!Step, Sales!RefuseRep, Sales!FindKey, Sales!CheckCustomer, Sales!PickRep,
    Sales!CreateOrder
<1>5. CASE Sales!ReadOrder(u)
  <2> DEFINE pc == IF Sales!Accepts(u, order[o]) THEN "write" ELSE "refused"
             n == [q EXCEPT !.seen = order[o], !.pc = pc]
  <2>1. q.pc = "read" /\ update' = [update EXCEPT ![u] = n] /\ UNCHANGED <<order, overtaken>>
    BY <1>1, <1>5 DEF Sales!ReadOrder
  <2>2. pc \in {"write", "refused"}
    OBVIOUS
  <2>3. pc = "write" => q.argument \in Sales!validTransitions[order[o].status]
    BY <1>3 DEF Sales!Accepts
  <2>4. order[o] \in Sales!Order
    BY <1>1, <1>3
  <2> HIDE DEF pc
  <2>5. /\ n \in Sales!UpdateState /\ n.pc = pc /\ n.seen = order[o] /\ n.op = q.op /\ n.order = q.order
        /\ n.argument = q.argument
    BY <1>1, <2>2, <2>4 DEF Sales!UpdateState
  <2>6. n # Sales!Idle
    BY <2>2, <2>5 DEF Sales!Idle
  <2> HIDE DEF n
  <2>7. update'[u] = n /\ \A v \in Updates : v # u => update'[v] = update[v]
    BY <1>1, <2>1
  <2> QED
    BY <1>3, <2>1, <2>2, <2>3, <2>5, <2>6, <2>7
<1>6. CASE Sales!WriteOrder(u)
  <2> DEFINE n == [q EXCEPT !.pc = "done"]
  <2>1. /\ q.pc = "write" /\ update' = [update EXCEPT ![u] = n]
        /\ order' = [order EXCEPT ![o] = Sales!Changed(u)]
        /\ overtaken' = IF order[o] = q.seen THEN overtaken ELSE overtaken \cup {o}
    BY <1>1, <1>6 DEF Sales!WriteOrder
  <2>2. Sales!Changed(u) = [q.seen EXCEPT !.status = q.argument]
    BY <1>3 DEF Sales!Changed
  <2>3. /\ n \in Sales!UpdateState /\ n.pc = "done" /\ n.op = q.op /\ n.order = q.order
        /\ n.argument = q.argument
    BY <1>1 DEF Sales!UpdateState
  <2>4. n # Sales!Idle
    BY <2>3 DEF Sales!Idle
  <2> HIDE DEF n
  <2>5. update'[u] = n /\ \A v \in Updates : v # u => update'[v] = update[v]
    BY <1>1, <2>1
  <2> QED
    BY <1>3, <2>1, <2>2, <2>3, <2>4, <2>5
<1> QED
  BY <1>4, <1>5, <1>6

\* The part of StatusInv that says who fulfilled what.
LEMMA StatusStepKeeps ==
  ASSUME WorkflowInv, StatusInv, NEW u \in Updates, Sales!Step(u), wf' = wf
  PROVE  StatusInv'
<1> DEFINE q == update[u]
           n == update'[u]
           o == q.order
<1>1. /\ \A v \in Updates : v # u => update'[v] = update[v]
      /\ q # Sales!Idle /\ n # Sales!Idle /\ o \in Orders /\ n \in Sales!UpdateState
      /\ n.op = q.op /\ n.order = o /\ n.argument = q.argument /\ q.op = "updateOrderStatus"
  BY StatusSteps
<1>2. /\ order \in [Orders -> Sales!Order] /\ overtaken \subseteq Orders
      /\ \A v \in Updates : UpdateOK(v) /\ update[v] \in Sales!UpdateState
      /\ UpdateOK(u)
  BY UpdateTypes
<1>3. CASE q.pc = "read"
  <2>1. /\ n.pc \in {"write", "refused"} /\ n.seen = order[o] /\ UNCHANGED <<order, overtaken>>
        /\ n.pc = "write" => q.argument \in Sales!validTransitions[order[o].status]
    BY <1>3, StatusSteps
  <2>2. \A v \in Updates : UpdateOK(v)'
    <3> TAKE v \in Updates
    <3>1. CASE v = u
      BY <1>1, <1>2, <2>1, <3>1 DEF UpdateOK
    <3>2. CASE v # u
      BY <1>1, <1>2, <3>2 DEF UpdateOK
    <3> QED
      BY <3>1, <3>2
  <2>3. \A v \in Updates : /\ FulfilledBy(v)' <=> FulfilledBy(v)
                           /\ update'[v].order = update[v].order /\ update'[v].argument = update[v].argument
                           /\ update'[v] # Sales!Idle <=> update[v] # Sales!Idle
    BY <1>1, <1>3, <2>1 DEF FulfilledBy
  <2>4. AskedByWorkflows'
    BY <2>3, UpdateTypes DEF StatusInv, AskedByWorkflows
  <2>5. DecidedOnce'
    BY <2>1, <2>3 DEF StatusInv, DecidedOnce
  <2> QED
    BY <1>2, <2>1, <2>2, <2>4, <2>5 DEF StatusInv
<1>4. CASE q.pc = "write"
  <2> DEFINE row == [q.seen EXCEPT !.status = q.argument]
  <2>1. /\ n.pc = "done" /\ order' = [order EXCEPT ![o] = row]
        /\ overtaken' = IF order[o] = q.seen THEN overtaken ELSE overtaken \cup {o}
    BY <1>4, StatusSteps
  <2>2. q.seen \in Sales!Order /\ q.argument \in Sales!validTransitions[q.seen.status]
    BY <1>2, <1>4 DEF UpdateOK
  <2>3. /\ q.seen.status \in Sales!Status /\ q.argument \in Sales!Status
        /\ row \in Sales!Order /\ row.status = q.argument
    <3>1. q.seen.status \in Sales!Status
      BY <2>2 DEF Sales!Order
    <3>2. q.argument \in Sales!Status
      BY <2>2, <3>1, TransitionsAre
    <3> QED
      BY <2>2, <3>1, <3>2 DEF Sales!Order
  <2> HIDE DEF row
  <2>4. order' \in [Orders -> Sales!Order]
    BY <1>2, <2>1, <2>3
  <2>5. /\ order'[o] = row /\ \A p \in Orders : p # o => order'[p] = order[p]
        /\ overtaken \subseteq overtaken'
    BY <1>1, <1>2, <2>1
  <2>6. \A v \in Updates : UpdateOK(v)'
    <3> TAKE v \in Updates
    <3>1. CASE v = u
      BY <1>1, <2>1, <3>1 DEF UpdateOK
    <3>2. CASE v # u
      BY <1>1, <1>2, <3>2 DEF UpdateOK
    <3> QED
      BY <3>1, <3>2
  <2>7. \A v \in Updates :
          /\ FulfilledBy(v) => FulfilledBy(v)'
          /\ v # u => (FulfilledBy(v)' <=> FulfilledBy(v))
          /\ update'[v].order = update[v].order /\ update'[v].argument = update[v].argument
          /\ update'[v] # Sales!Idle <=> update[v] # Sales!Idle
    BY <1>1, <1>4 DEF FulfilledBy
  <2>8. ~FulfilledBy(u)
    BY <1>4 DEF FulfilledBy
  <2>9. o \notin overtaken' => order[o] = q.seen /\ o \notin overtaken
    BY <2>1
  <2>10. ASSUME NEW v \in Updates, v # u, FulfilledBy(v), update[v].order = o
         PROVE  o \in overtaken'
    <3>1. SUFFICES ASSUME o \notin overtaken'
                   PROVE  FALSE
      OBVIOUS
    <3>2. order[o].status = "FULFILLED"
      BY <2>9, <2>10, <3>1 DEF StatusInv, DecidedOnce
    <3> QED
      BY <2>2, <2>3, <2>9, <3>1, <3>2, TransitionsAre
  <2>11. ASSUME NEW v \in Updates, FulfilledBy(v)', update'[v].order \notin overtaken'
         PROVE  /\ order'[update'[v].order].status = "FULFILLED"
                /\ \A x \in Updates :
                     FulfilledBy(x)' /\ update'[x].order = update'[v].order => v = x
    <3>1. CASE v = u
      BY <1>1, <2>3, <2>5, <2>7, <2>10, <2>11, <3>1 DEF FulfilledBy
    <3>2. CASE v # u
      <4>1. /\ FulfilledBy(v) /\ update'[v].order = update[v].order
            /\ update[v].order \notin overtaken /\ update[v].order # o
            /\ update[v].order \in Orders
        BY <1>2, <2>5, <2>7, <2>10, <2>11, <3>2, UpdateTypes DEF FulfilledBy, UpdateOK, Sales!Idle
      <4>2. order[update[v].order].status = "FULFILLED"
        BY <4>1 DEF StatusInv, DecidedOnce
      <4>3. \A x \in Updates : FulfilledBy(x) /\ update[x].order = update[v].order => v = x
        BY <4>1 DEF StatusInv, DecidedOnce
      <4>4. \A x \in Updates :
              FulfilledBy(x)' /\ update'[x].order = update'[v].order => v = x
        BY <1>1, <2>7, <4>1, <4>3
      <4> QED
        BY <2>5, <4>1, <4>2, <4>4
    <3> QED
      BY <3>1, <3>2
  <2>12. AskedByWorkflows'
    BY <2>7, UpdateTypes DEF StatusInv, AskedByWorkflows
  <2>13. DecidedOnce'
    BY <2>11 DEF DecidedOnce
  <2> QED
    BY <2>4, <2>6, <2>12, <2>13 DEF StatusInv
<1> QED
  BY <1>3, <1>4, StatusSteps

\* A status change that is asked for.
LEMMA UpdateBegins ==
  ASSUME WorkflowInv, StatusInv, NEW u \in Updates, NEW o \in Orders, NEW s \in Sales!Status,
         Sales!BeginUpdateOrderStatus(u, o, s)
  PROVE  /\ UNCHANGED <<order, overtaken>> /\ update[u] = Sales!Idle
         /\ update'[u].order = o /\ update'[u].argument = s /\ update'[u].pc = "read"
         /\ update' \in [Updates -> Sales!UpdateState] /\ UpdateOK(u)' /\ update'[u] # Sales!Idle
         /\ \A v \in Updates : v # u => update'[v] = update[v]
<1> DEFINE kind == "updateOrderStatus"
           start == "read"
           n == [Sales!Idle EXCEPT !.op = kind, !.pc = start, !.order = o, !.argument = s]
<1>1. update' = [update EXCEPT ![u] = n] /\ UNCHANGED <<order, overtaken>> /\ update[u] = Sales!Idle
  BY DEF Sales!BeginUpdateOrderStatus, Sales!Begin
<1>2. /\ kind \in {"none", "createSalesOrder", "updateOrderStatus", "assignLead", "closeLead"}
      /\ start \in {"idle", "key", "customer", "reps", "create", "read", "write", "done", "refused"}
      /\ start # "idle" /\ start \in {"read", "write", "done", "refused"} /\ start # "write"
      /\ start = "read" /\ kind = "updateOrderStatus"
  OBVIOUS
<1> HIDE DEF kind, start
<1>3. /\ n.op = kind /\ n.pc = start /\ n.order = o /\ n.argument = s
      /\ n \in Sales!UpdateState
  BY <1>2 DEF Sales!Idle, Sales!UpdateState
<1> HIDE DEF n
<1>4. update'[u] = n /\ \A v \in Updates : v # u => update'[v] = update[v]
  BY <1>1, UpdateTypes
<1>5. update' \in [Updates -> Sales!UpdateState]
  BY <1>1, <1>3, UpdateTypes
<1>6. n # Sales!Idle
  BY <1>2, <1>3 DEF Sales!Idle
<1> QED
  BY <1>1, <1>2, <1>3, <1>4, <1>5, <1>6 DEF UpdateOK

\* It disturbs nothing if it is what its workflow wants.
LEMMA UpdateBeginsKeeps ==
  ASSUME WorkflowInv, StatusInv, NEW u \in Updates, NEW o \in Orders, NEW s \in Sales!Status,
         Sales!BeginUpdateOrderStatus(u, o, s), wf' = wf,
         \A w \in Workflows, t \in {"APPROVED", "FULFILLED"} :
           u = <<w, t>> => o = wf[w].order /\ s = t /\ wf[w] # Idle
  PROVE  StatusInv'
<1>1. /\ UNCHANGED <<order, overtaken>> /\ update[u] = Sales!Idle
      /\ update'[u].order = o /\ update'[u].argument = s /\ update'[u].pc = "read"
      /\ UpdateOK(u)' /\ update'[u] # Sales!Idle
      /\ \A v \in Updates : v # u => update'[v] = update[v]
  BY UpdateBegins
<1>2. \A v \in Updates : UpdateOK(v)'
  <2> TAKE v \in Updates
  <2>1. CASE v # u
    BY <1>1, <2>1, UpdateTypes DEF UpdateOK
  <2> QED
    BY <1>1, <2>1
<1>3. ~FulfilledBy(u) /\ ~FulfilledBy(u)'
  BY <1>1 DEF FulfilledBy, Sales!Idle
<1>4. \A v \in Updates : FulfilledBy(v)' => FulfilledBy(v) /\ v # u
  BY <1>1, <1>3 DEF FulfilledBy
<1>5. \A v \in Updates : FulfilledBy(v) => FulfilledBy(v)'
  BY <1>1, <1>3 DEF FulfilledBy
<1>6. AskedByWorkflows'
  <2>1. ASSUME NEW w \in Workflows, NEW t \in {"APPROVED", "FULFILLED"},
               update'[<<w, t>>] # Sales!Idle
        PROVE  update'[<<w, t>>].order = wf[w].order /\ update'[<<w, t>>].argument = t /\ wf[w] # Idle
    <3>1. CASE u = <<w, t>>
      BY <1>1, <3>1
    <3>2. CASE u # <<w, t>>
      <4>1. update'[<<w, t>>] = update[<<w, t>>]
        BY <1>1, <3>2, UpdateTypes
      <4> QED
        BY <2>1, <4>1 DEF StatusInv, AskedByWorkflows
    <3> QED
      BY <3>1, <3>2
  <2>2. \A w \in Workflows :
          wf[w].pc \in {"replenish", "completed"} => FulfilledBy(<<w, "FULFILLED">>)'
    BY <1>5, UpdateTypes DEF StatusInv, AskedByWorkflows
  <2> QED
    BY <2>1, <2>2 DEF AskedByWorkflows
<1>7. DecidedOnce'
  BY <1>1, <1>4 DEF StatusInv, DecidedOnce
<1> QED
  BY <1>1, <1>2, <1>6, <1>7 DEF StatusInv

\* Where workflows get without changing an order.
LEMMA StatusFrame ==
  ASSUME WorkflowInv, StatusInv, UNCHANGED salesVars,
         \A w \in Workflows :
           /\ wf[w] # Idle => wf'[w].order = wf[w].order /\ wf'[w] # Idle
           /\ wf'[w].pc \in {"replenish", "completed"} =>
                wf[w].pc \in {"replenish", "completed"} \/ FulfilledBy(<<w, "FULFILLED">>)
  PROVE  StatusInv'
<1>1. UNCHANGED <<order, update, overtaken>>
  BY DEF salesVars
<1>2. \A u \in Updates : UpdateOK(u)' /\ (FulfilledBy(u)' <=> FulfilledBy(u))
  BY <1>1 DEF StatusInv, UpdateOK, FulfilledBy
<1>3. AskedByWorkflows'
  BY <1>1, <1>2, UpdateTypes DEF StatusInv, AskedByWorkflows
<1>4. DecidedOnce'
  BY <1>1, <1>2 DEF StatusInv, DecidedOnce
<1> QED
  BY <1>1, <1>2, <1>3, <1>4 DEF StatusInv

-----------------------------------------------------------------------------
(* Every step.                                                             *)

WfPcs == {"idle", "check", "reserve", "compensate", "approve", "fulfil", "replenish",
          "replenishAll"} \cup Finished

WfState == [pc : WfPcs, order : Orders \cup {None}, key : Keys \cup {NoKey},
            status : Sales!Status \cup {None}, line : 1 .. Len(Lines) + 1, left : SUBSET Items]

\* TypeOK, by its parts.
LEMMA TypeOKIs ==
  TypeOK <=> /\ Inv!TypeOK /\ Sales!TypeOK /\ wf \in [Workflows -> WfState]
             /\ idempotencyStore \in [Keys -> {"completed", "failed", None}]
             /\ replenished \subseteq Workflows \X Items
BY DEF TypeOK, WfState, WfPcs

\* An answer is all the idempotency store is given.
LEMMA RememberTypes ==
  ASSUME TypeOK, NEW w \in Workflows, NEW outcome \in {"completed", "failed"}, Remember(w, outcome)
  PROVE  idempotencyStore' \in [Keys -> {"completed", "failed", None}]
BY TypeOKIs DEF Remember, WfState

\* A workflow that enters a phase keeps its order.
LEMMA EnterTypes ==
  ASSUME NEW w \in Workflows, wf \in [Workflows -> WfState], NEW pc \in WfPcs, Enter(w, pc)
  PROVE  /\ wf' \in [Workflows -> WfState] /\ wf'[w].pc = pc /\ wf'[w].order = wf[w].order
         /\ \A v \in Workflows : v # w => wf'[v] = wf[v]
<1> DEFINE n == [wf[w] EXCEPT !.pc = pc, !.line = 1]
<1>1. 1 \in 1 .. Len(Lines) + 1
  BY LinesAreItems
<1>2. n \in WfState /\ n.pc = pc /\ n.order = wf[w].order
  BY <1>1 DEF WfState
<1>3. wf' = [wf EXCEPT ![w] = n]
  BY DEF Enter
<1> HIDE DEF n
<1> QED
  BY <1>2, <1>3

\* A workflow that goes on to the next line keeps its order and phase.
LEMMA NextLineTypes ==
  ASSUME NEW w \in Workflows, wf \in [Workflows -> WfState], wf[w].line \in LineNumbers,
         wf' = [wf EXCEPT ![w].line = wf[w].line + 1]
  PROVE  /\ wf' \in [Workflows -> WfState]
         /\ wf'[w].pc = wf[w].pc /\ wf'[w].order = wf[w].order
         /\ \A v \in Workflows : v # w => wf'[v] = wf[v]
<1> DEFINE k == wf[w].line + 1
           n == [wf[w] EXCEPT !.line = k]
<1>1. k \in 1 .. Len(Lines) + 1
  BY LinesAreItems
<1> HIDE DEF k
<1>2. n \in WfState /\ n.pc = wf[w].pc /\ n.order = wf[w].order
  BY <1>1 DEF WfState
<1>3. wf' = [wf EXCEPT ![w] = n]
  BY DEF k
<1> HIDE DEF n
<1> QED
  BY <1>2, <1>3

\* Where a workflow is after a step of its own, by the kind of the step.
LEMMA LocalStepTypes ==
  ASSUME WorkflowInv, StatusInv, NEW w \in Workflows,
         \/ CheckLine(w) \/ LineReserved(w) \/ LineCancelled(w) \/ Compensated(w)
         \/ StatusUpdated(w) \/ Replenish(w) \/ Answer(w)
  PROVE  /\ UNCHANGED <<inventoryVars, salesVars>>
         /\ \A v \in Workflows : v # w => wf'[v] = wf[v]
         /\ wf' \in [Workflows -> WfState] /\ wf'[w].order = wf[w].order /\ wf'[w] # Idle
         /\ idempotencyStore' \in [Keys -> {"completed", "failed", None}]
         /\ replenished' \subseteq Workflows \X Items
         /\ wf'[w].pc \in {"replenish", "completed"} =>
              wf[w].pc = "replenish" \/ FulfilledBy(<<w, "FULFILLED">>)
<1> DEFINE n == wf'[w]
<1>0. /\ TypeOK /\ wf \in [Workflows -> WfState] /\ wf[w] \in WfState /\ wf[w].line \in 1 .. Len(Lines) + 1
      /\ idempotencyStore \in [Keys -> {"completed", "failed", None}]
      /\ replenished \subseteq Workflows \X Items
  BY TypeOKIs DEF WorkflowInv, WfState
<1>1. \A pc \in WfPcs : Enter(w, pc) =>
        wf' \in [Workflows -> WfState] /\ n.pc = pc /\ n.order = wf[w].order
  BY <1>0, EnterTypes
<1>2. \A v \in Workflows : v # w => wf'[v] = wf[v]
  BY <1>0 DEF CheckLine, LineReserved, LineCancelled, Compensated, StatusUpdated, Replenish, Answer, Enter
<1>3. UNCHANGED <<inventoryVars, salesVars>>
  BY DEF CheckLine, LineReserved, LineCancelled, Compensated, StatusUpdated, Replenish, Answer
<1>4. wf[w].pc \in {"check", "reserve", "compensate"} => wf[w].line \in LineNumbers
  BY DEF WorkflowInv, PhaseOK
<1>5. CASE CheckLine(w)
  <2>1. CASE Enter(w, "reserve")
    BY <1>0, <1>1, <1>2, <1>3, <1>5, <2>1 DEF CheckLine, Idle, WfPcs
  <2>2. CASE wf' = [wf EXCEPT ![w].line = wf[w].line + 1]
    <3>1. wf' \in [Workflows -> WfState] /\ n.pc = "check" /\ n.order = wf[w].order
      BY <1>0, <1>4, <1>5, <2>2, NextLineTypes DEF CheckLine
    <3> QED
      BY <1>0, <1>2, <1>3, <1>5, <3>1 DEF CheckLine, Idle
  <2>3. CASE wf' = [wf EXCEPT ![w].pc = "replenishAll", ![w].left = Items]
    BY <1>0, <1>2, <1>3, <1>5, <2>3 DEF CheckLine, Idle, WfState, WfPcs
  <2> QED
    BY <1>5, <2>1, <2>2, <2>3 DEF CheckLine
<1>6. CASE LineReserved(w)
  <2>1. CASE \E pc \in {"fulfil", "approve", "compensate"} : Enter(w, pc)
    BY <1>0, <1>1, <1>2, <1>3, <1>6, <2>1 DEF LineReserved, Idle, WfPcs
  <2>2. CASE wf' = [wf EXCEPT ![w].line = wf[w].line + 1]
    <3>1. wf' \in [Workflows -> WfState] /\ n.pc = "reserve" /\ n.order = wf[w].order
      BY <1>0, <1>4, <1>6, <2>2, NextLineTypes DEF LineReserved
    <3> QED
      BY <1>0, <1>2, <1>3, <1>6, <3>1 DEF LineReserved, Idle
  <2> QED
    BY <1>6, <2>1, <2>2 DEF LineReserved
<1>7. CASE LineCancelled(w)
  <2>1. wf' \in [Workflows -> WfState] /\ n.pc = "compensate" /\ n.order = wf[w].order
    BY <1>0, <1>4, <1>7, NextLineTypes DEF LineCancelled
  <2> QED
    BY <1>0, <1>2, <1>3, <1>7, <2>1 DEF LineCancelled, Idle
<1>8. CASE Compensated(w)
  BY <1>0, <1>1, <1>2, <1>3, <1>8, RememberTypes DEF Compensated, Idle, WfPcs, Finished
<1>9. CASE StatusUpdated(w)
  <2>1. CASE \E pc \in {"error", "fulfil"} : Enter(w, pc)
    BY <1>0, <1>1, <1>2, <1>3, <1>9, <2>1 DEF StatusUpdated, Idle, WfPcs, Finished
  <2>2. CASE /\ wf' = [wf EXCEPT ![w].pc = "replenish", ![w].left = {Lines[l] : l \in LineNumbers}]
             /\ wf[w].pc = "fulfil" /\ update[<<w, StatusWanted(w)>>].pc = "done"
    <3>1. FulfilledBy(<<w, "FULFILLED">>)
      <4>1. StatusWanted(w) = "FULFILLED" /\ update[<<w, "FULFILLED">>].pc = "done"
        BY <2>2 DEF StatusWanted
      <4>2. update[<<w, "FULFILLED">>] # Sales!Idle
        BY <4>1 DEF Sales!Idle
      <4> QED
        BY <4>1, <4>2 DEF FulfilledBy, StatusInv, AskedByWorkflows
    <3>2. {Lines[l] : l \in LineNumbers} \subseteq Items
      BY LinesAreItems
    <3>3. n.pc = "replenish" /\ n.order = wf[w].order /\ wf' \in [Workflows -> WfState]
      BY <1>0, <2>2, <3>2 DEF WfState, WfPcs
    <3> QED
      BY <1>0, <1>2, <1>3, <1>9, <3>1, <3>3 DEF StatusUpdated, Idle
  <2> QED
    BY <1>9, <2>1, <2>2 DEF StatusUpdated
<1>10. CASE Replenish(w)
  <2>1. PICK i \in wf[w].left :
          /\ wf' = [wf EXCEPT ![w].left = @ \ {i}]
          /\ replenished' = IF Short(i) THEN replenished \cup {<<w, i>>} ELSE replenished
    BY <1>10 DEF Replenish
  <2>2. i \in Items
    BY <1>0 DEF WfState
  <2> QED
    BY <1>0, <1>2, <1>3, <1>10, <2>1, <2>2 DEF Replenish, Idle, WfState
<1>11. CASE Answer(w)
  <2> DEFINE outcome == IF wf[w].pc = "replenish" THEN "completed" ELSE "failed"
  <2>1. outcome \in {"completed", "failed"} /\ outcome \in WfPcs /\ outcome # "idle"
        /\ (outcome = "completed" => wf[w].pc = "replenish")
    BY DEF WfPcs, Finished
  <2>2. Enter(w, outcome) /\ Remember(w, outcome) /\ UNCHANGED replenished
    BY <1>11 DEF Answer
  <2> HIDE DEF outcome
  <2> QED
    BY <1>0, <1>1, <1>2, <1>3, <2>1, <2>2, RememberTypes DEF Idle
<1> QED
  BY <1>5, <1>6, <1>7, <1>8, <1>9, <1>10, <1>11

\* The invariant of the inventory service carries over.
LEMMA InventoryInvKeeps ==
  ASSUME WorkflowInv,
         UNCHANGED inventoryVars \/ \E c \in LineCalls : InvP!Begins(c) \/ InvP!Step(c)
  PROVE  InvP!IInv'
<1>1. InvP!IInv /\ [InvP!Next]_(InvP!vars)
  BY DEF WorkflowInv, InvP!Next, InvP!vars, inventoryVars
<1> QED
  BY <1>1, InvP!StepPreserves, InventoryAssumptions

\* TypeOK after a step, from its parts.
LEMMA TypesFollow ==
  ASSUME InvP!IInv', Sales!TypeOK', (wf \in [Workflows -> WfState])',
         (idempotencyStore \in [Keys -> {"completed", "failed", None}])',
         (replenished \subseteq Workflows \X Items)'
  PROVE  TypeOK'
<1>1. Inv!TypeOK'
  BY DEF InvP!IInv, InvP!TypeOK, Inv!TypeOK, InvP!Row, Inv!Row, InvP!Reservation, Inv!Reservation,
    InvP!Movement, Inv!Movement, InvP!MovementType, Inv!MovementType, InvP!CallState, Inv!CallState
<1> QED
  BY <1>1 DEF TypeOK, WfState, WfPcs

OrderInv == WorkflowInv /\ StatusInv

\* The invariant after a step, from its parts.
LEMMA FromParts ==
  ASSUME CallsOK' /\ (\A w \in Workflows : PhaseOK(w)'), InvP!IInv', TypeOK', StatusInv'
  PROVE  OrderInv'
BY DEF OrderInv, WorkflowInv

\* At the start nothing has been called.
LEMMA InitialFacts ==
  ASSUME Init
  PROVE  /\ \A c \in LineCalls : call[c] = Inv!Idle /\ reservations[c] = None
         /\ \A w \in Workflows : wf[w] = Idle
         /\ \A u \in Updates : update[u] = Sales!Idle
         /\ returned = {} /\ raced = {} /\ order \in [Orders -> Sales!Order]
BY DEF Init, Inv!Init, Sales!Init, Sales!Unkeyed, Sales!Created, Updates

\* The invariant holds at the start.
LEMMA InitiallyOrderInv == Init => OrderInv
<1> SUFFICES ASSUME Init
             PROVE  OrderInv
  OBVIOUS
<1>1. InvP!IInv
  BY SameInit, InvP!InitEstablishes, InventoryAssumptions DEF Init
<1>2. Sales!TypeOK
  <2>1. Sales!Idle \in Sales!UpdateState
    BY DEF Sales!Idle, Sales!UpdateState
  <2>2. order \in [Orders -> Sales!Order \cup {None}]
    BY InitialFacts
  <2> QED
    BY <2>1, <2>2 DEF Init, Sales!Init, Sales!TypeOK
<1>3. TypeOK
  <2>1. Inv!TypeOK
    BY <1>1, SameType DEF InvP!IInv
  <2>2. Idle \in WfState
    BY LinesAreItems DEF Idle, WfState, WfPcs
  <2> QED
    BY <1>2, <2>1, <2>2, TypeOKIs DEF Init
<1>4. \A w \in Workflows, l \in LineNumbers :
        /\ Reserve(w, l) = Inv!Idle /\ Cancel(w, l) = Inv!Idle
        /\ reservations[Own(w, l)] = None /\ reservations[<<w, l, "cancel">>] = None
  BY InitialFacts, LineCallShape DEF Reserve, Cancel
<1>5. CallsOK
  <2>1. GivenBack
    BY InitialFacts DEF GivenBack
  <2>0. Inv!Idle.pc = "idle"
    BY DEF Inv!Idle
  <2>2. \A w \in Workflows, l \in LineNumbers : ReserveOK(w, l)
    BY <1>4, <2>0 DEF ReserveOK
  <2>3. \A w \in Workflows, l \in LineNumbers : CancelOK(w, l)
    BY <1>4, <2>0 DEF CancelOK
  <2> QED
    BY <2>1, <2>2, <2>3 DEF CallsOK
<1>6. \A w \in Workflows : PhaseOK(w)
  <2>1. Idle.pc = "idle"
    BY DEF Idle
  <2> QED
    BY <1>4, <2>1, InitialFacts DEF PhaseOK, Uncancelled
<1>7. StatusInv
  <2>1. \A u \in Updates : update[u] = Sales!Idle /\ UpdateOK(u) /\ ~FulfilledBy(u)
    BY InitialFacts DEF UpdateOK, FulfilledBy, Sales!Idle
  <2>2. AskedByWorkflows
    BY <2>1, InitialFacts DEF AskedByWorkflows, Updates, StatusCalls, Idle
  <2>3. DecidedOnce
    BY <2>1 DEF DecidedOnce
  <2> QED
    BY <2>1, <2>2, <2>3, InitialFacts DEF StatusInv
<1> QED
  BY <1>1, <1>3, <1>5, <1>6, <1>7 DEF OrderInv, WorkflowInv

\* The types survive a step that leaves the orders, or the workflows, alone.
LEMMA RestTypes ==
  ASSUME OrderInv
  PROVE  /\ TypeOK /\ Sales!TypeOK /\ wf \in [Workflows -> WfState]
         /\ idempotencyStore \in [Keys -> {"completed", "failed", None}]
         /\ replenished \subseteq Workflows \X Items
BY TypeOKIs DEF OrderInv, WorkflowInv

\* Where a workflow is once it has begun.
LEMMA BeginTypes ==
  ASSUME OrderInv, NEW w \in Workflows, NEW o \in Orders, NEW k \in Keys \cup {NoKey}, Begin(w, o, k)
  PROVE  /\ wf' \in [Workflows -> WfState] /\ wf[w] = Idle
         /\ wf'[w].pc \in {"replayed", "error", "check"}
         /\ \A v \in Workflows : v # w => wf'[v] = wf[v]
<1> DEFINE pc == IF k # NoKey /\ idempotencyStore[k] # None THEN "replayed"
                 ELSE IF order[o].status \notin Fulfillable THEN "error" ELSE "check"
           seen == order[o].status
           n == [Idle EXCEPT !.order = o, !.key = k, !.status = seen, !.pc = pc]
<1>1. seen \in Sales!Status
  BY UpdateTypes DEF OrderInv, Sales!Order
<1>2. pc \in {"replayed", "error", "check"} /\ pc \in WfPcs
  BY DEF WfPcs, Finished
<1>3. wf' = [wf EXCEPT ![w] = n] /\ wf[w] = Idle /\ wf \in [Workflows -> WfState]
  BY RestTypes DEF Begin
<1> HIDE DEF pc, seen
<1>4. n \in WfState /\ n.pc = pc
  <2>1. Idle \in WfState
    BY LinesAreItems DEF Idle, WfState, WfPcs
  <2> QED
    BY <1>1, <1>2, <2>1 DEF WfState
<1> HIDE DEF n
<1> QED
  BY <1>2, <1>3, <1>4

\* An order's status changes only in steps of SalesOrders, to a status.
LEMMA SalesKeepsTypes ==
  ASSUME OrderInv, NEW u \in Updates, Sales!Step(u)
  PROVE  Sales!TypeOK'
<1> DEFINE q == update[u]
           o == q.order
           n == update'[u]
<1>1. /\ update \in [Updates -> Sales!UpdateState] /\ overtaken \subseteq Orders
      /\ order \in [Orders -> Sales!Order] /\ UpdateOK(u)
  BY UpdateTypes DEF OrderInv
<1>2. /\ update' = [update EXCEPT ![u] = n] /\ n \in Sales!UpdateState /\ o \in Orders
      /\ \/ UNCHANGED <<order, overtaken>>
         \/ /\ q.pc = "write" /\ order' = [order EXCEPT ![o] = [q.seen EXCEPT !.status = q.argument]]
            /\ overtaken' = IF order[o] = q.seen THEN overtaken ELSE overtaken \cup {o}
  BY StatusSteps DEF OrderInv
<1> HIDE DEF n
<1>3. update' \in [Updates -> Sales!UpdateState] /\ overtaken' \subseteq Orders
  BY <1>1, <1>2
<1>4. CASE UNCHANGED <<order, overtaken>>
  BY <1>1, <1>3, <1>4 DEF Sales!TypeOK, Updates
<1>5. CASE q.pc = "write" /\ order' = [order EXCEPT ![o] = [q.seen EXCEPT !.status = q.argument]]
  <2> DEFINE row == [q.seen EXCEPT !.status = q.argument]
  <2>1. q.seen \in Sales!Order /\ q.argument \in Sales!Status
    <3>1. q.seen \in Sales!Order /\ q.argument \in Sales!validTransitions[q.seen.status]
      BY <1>1, <1>5 DEF UpdateOK
    <3>2. q.seen.status \in Sales!Status
      BY <3>1 DEF Sales!Order
    <3> QED
      BY <3>1, <3>2, TransitionsAre
  <2>2. row \in Sales!Order
    BY <2>1 DEF Sales!Order
  <2>3. order' = [order EXCEPT ![o] = row]
    BY <1>5
  <2> HIDE DEF row
  <2>4. order' \in [Orders -> Sales!Order \cup {None}]
    BY <1>1, <2>2, <2>3
  <2> QED
    BY <1>3, <2>4 DEF Sales!TypeOK, Updates
<1> QED
  BY <1>2, <1>4, <1>5

\* Steps outside the warehouse and the workflows.
LEMMA NothingMoves ==
  ASSUME WorkflowInv, UNCHANGED <<inventoryVars, wf>>
  PROVE  CallsOK' /\ \A w \in Workflows : PhaseOK(w)'
<1>0. UNCHANGED <<call, reservations, returned, wf>>
  BY DEF inventoryVars
<1>1. CallsOK'
  <2>1. GivenBack'
    BY <1>0 DEF WorkflowInv, CallsOK, GivenBack, Cancel
  <2>2. ASSUME NEW w \in Workflows, NEW l \in LineNumbers
        PROVE  ReserveOK(w, l)' /\ CancelOK(w, l)'
    <3>1. ReserveOK(w, l) /\ CancelOK(w, l)
      BY DEF WorkflowInv, CallsOK
    <3>2. /\ Reserve(w, l)' = Reserve(w, l) /\ Cancel(w, l)' = Cancel(w, l)
          /\ LineKey(w, l)' = LineKey(w, l) /\ Family(w)' = Family(w)
      BY <1>0 DEF Reserve, Cancel, Own, LineKey, Family, Siblings
    <3>3. ReserveOK(w, l)'
      BY <1>0, <3>1, <3>2 DEF ReserveOK
    <3>4. CancelOK(w, l)'
      BY <1>0, <3>1, <3>2 DEF CancelOK
    <3> QED
      BY <3>3, <3>4
  <2> QED
    BY <2>1, <2>2 DEF CallsOK
<1>2. \A w \in Workflows : PhaseOK(w)'
  BY <1>0, PhaseFrame DEF Reserve, Cancel, Own
<1> QED
  BY <1>1, <1>2

\* Steps of the warehouse.
LEMMA InventoryMoves ==
  ASSUME OrderInv, \E c \in LineCalls : InvP!Begins(c) \/ InvP!Step(c), wf' = wf,
         UNCHANGED <<salesVars, idempotencyStore, replenished>>,
         CallsOK' /\ \A w \in Workflows : PhaseOK(w)'
  PROVE  OrderInv'
<1>1. InvP!IInv'
  BY InventoryInvKeeps DEF OrderInv
<1>2. TypeOK'
  BY <1>1, RestTypes, TypesFollow DEF salesVars, Sales!TypeOK
<1>3. StatusInv'
  BY StatusFrame DEF OrderInv, StatusInv, AskedByWorkflows
<1> QED
  BY <1>1, <1>2, <1>3, FromParts

\* Steps a workflow takes on its own.
LEMMA WorkflowMoves ==
  ASSUME OrderInv, NEW w \in Workflows,
         \/ CheckLine(w) \/ LineReserved(w) \/ LineCancelled(w) \/ Compensated(w)
         \/ StatusUpdated(w) \/ Replenish(w) \/ Answer(w)
  PROVE  OrderInv'
<1>0. WorkflowInv /\ StatusInv
  BY DEF OrderInv
<1>1. /\ UNCHANGED <<inventoryVars, salesVars>>
      /\ \A v \in Workflows : v # w => wf'[v] = wf[v]
      /\ wf' \in [Workflows -> WfState] /\ wf'[w].order = wf[w].order /\ wf'[w] # Idle
      /\ idempotencyStore' \in [Keys -> {"completed", "failed", None}]
      /\ replenished' \subseteq Workflows \X Items
      /\ wf'[w].pc \in {"replenish", "completed"} =>
           wf[w].pc = "replenish" \/ FulfilledBy(<<w, "FULFILLED">>)
  BY <1>0, LocalStepTypes
<1>2. CallsOK' /\ \A v \in Workflows : PhaseOK(v)'
  BY <1>0, LocalStepKeeps
<1>3. InvP!IInv'
  BY <1>0, <1>1, InventoryInvKeeps
<1>4. Sales!TypeOK'
  BY <1>1, RestTypes DEF salesVars, Sales!TypeOK
<1>5. TypeOK'
  BY <1>1, <1>3, <1>4, TypesFollow
<1>6. StatusInv'
  BY <1>0, <1>1, StatusFrame
<1> QED
  BY <1>2, <1>3, <1>5, <1>6, FromParts

\* The first step of a workflow.
LEMMA BeginMoves ==
  ASSUME OrderInv, NEW w \in Workflows, NEW o \in Orders, NEW k \in Keys \cup {NoKey}, Begin(w, o, k)
  PROVE  OrderInv'
<1>0. WorkflowInv /\ StatusInv
  BY DEF OrderInv
<1>1. UNCHANGED <<inventoryVars, salesVars, idempotencyStore, replenished>>
  BY DEF Begin
<1>2. /\ wf' \in [Workflows -> WfState] /\ wf[w] = Idle
      /\ wf'[w].pc \in {"replayed", "error", "check"}
      /\ \A v \in Workflows : v # w => wf'[v] = wf[v]
  BY BeginTypes
<1>3. CallsOK' /\ \A v \in Workflows : PhaseOK(v)'
  BY <1>0, BeginKeeps
<1>4. InvP!IInv'
  BY <1>0, <1>1, InventoryInvKeeps
<1>5. Sales!TypeOK'
  BY <1>1, RestTypes DEF salesVars, Sales!TypeOK
<1>6. TypeOK'
  BY <1>1, <1>2, <1>4, <1>5, RestTypes, TypesFollow
<1>7. StatusInv'
  BY <1>0, <1>1, <1>2, StatusFrame
<1> QED
  BY <1>3, <1>4, <1>6, <1>7, FromParts

\* A change of an order's status, asked for or made.
LEMMA OrdersMove ==
  ASSUME OrderInv, UNCHANGED <<inventoryVars, wf, idempotencyStore, replenished>>, Sales!TypeOK', StatusInv'
  PROVE  OrderInv'
<1>1. WorkflowInv
  BY DEF OrderInv
<1>2. CallsOK' /\ \A v \in Workflows : PhaseOK(v)'
  BY <1>1, NothingMoves
<1>3. InvP!IInv'
  BY <1>1, InventoryInvKeeps
<1>4. TypeOK'
  BY <1>3, RestTypes, TypesFollow
<1> QED
  BY <1>2, <1>3, <1>4, FromParts

\* A status change asked for by a workflow or a client.
LEMMA UpdateAsked ==
  ASSUME OrderInv, UNCHANGED <<inventoryVars, wf, idempotencyStore, replenished>>,
         NEW u \in Updates, NEW o \in Orders, NEW s \in Sales!Status,
         Sales!BeginUpdateOrderStatus(u, o, s),
         \A w \in Workflows, t \in {"APPROVED", "FULFILLED"} :
           u = <<w, t>> => o = wf[w].order /\ s = t /\ wf[w] # Idle
  PROVE  OrderInv'
<1>0. WorkflowInv /\ StatusInv
  BY DEF OrderInv
<1>1. UNCHANGED <<order, overtaken>> /\ update' \in [Updates -> Sales!UpdateState]
  BY <1>0, UpdateBegins
<1>2. Sales!TypeOK'
  BY <1>1, RestTypes DEF Sales!TypeOK, Updates
<1>3. StatusInv'
  BY <1>0, UpdateBeginsKeeps
<1> QED
  BY <1>2, <1>3, OrdersMove

\* Every step of the system keeps the invariant.
LEMMA OrderInvStep == OrderInv /\ [Next]_vars => OrderInv'
<1> SUFFICES ASSUME OrderInv, [Next]_vars
             PROVE  OrderInv'
  OBVIOUS
<1>0. WorkflowInv /\ StatusInv
  BY DEF OrderInv
<1>1. ASSUME NEW w \in Workflows, NEW o \in Orders, NEW k \in Keys \cup {NoKey}, Begin(w, o, k)
      PROVE  OrderInv'
  BY <1>1, BeginMoves
<1>2. ASSUME NEW w \in Workflows, ReserveLine(w)
      PROVE  OrderInv'
  <2>1. wf[w].line \in LineNumbers /\ wf[w].order \in Orders
    BY <1>0, <1>2 DEF WorkflowInv, PhaseOK, ReserveLine
  <2>2. LineKey(w, wf[w].line) \in LineKeys \cup {NoKey}
    BY <1>0, <2>1, LineKeyType DEF WorkflowInv
  <2>3. \E c \in LineCalls : InvP!Begins(c)
    BY <1>2, <2>1, <2>2, SameBegins, LineCallShape, LinesAreItems DEF ReserveLine, Own
  <2>4. CallsOK' /\ \A v \in Workflows : PhaseOK(v)'
    BY <1>0, <1>2, ReserveLineKeeps
  <2> QED
    BY <1>2, <2>3, <2>4, InventoryMoves DEF ReserveLine
<1>3. ASSUME NEW w \in Workflows, CancelLine(w)
      PROVE  OrderInv'
  <2>1. wf[w].line \in LineNumbers /\ Reserve(w, wf[w].line).pc = "done"
    BY <1>0, <1>3 DEF WorkflowInv, PhaseOK, CancelLine, Collected, Reserve, Own
  <2>2. Reserve(w, wf[w].line).target \in LineCalls
    BY <1>0, <2>1, CancelTarget
  <2>3. \E c \in LineCalls : InvP!Begins(c)
    BY <1>3, <2>1, <2>2, SameBegins, LineCallShape DEF CancelLine, Reserve, Own
  <2>4. CallsOK' /\ \A v \in Workflows : PhaseOK(v)'
    BY <1>0, <1>3, CancelLineKeeps
  <2> QED
    BY <1>3, <2>3, <2>4, InventoryMoves DEF CancelLine
<1>4. ASSUME NEW w \in Workflows, UpdateStatus(w)
      PROVE  OrderInv'
  <2> DEFINE s == StatusWanted(w)
             u == <<w, s>>
  <2>1. /\ Sales!BeginUpdateOrderStatus(u, wf[w].order, s) /\ wf[w].pc # "idle"
        /\ UNCHANGED <<inventoryVars, wf, idempotencyStore, replenished>>
    BY <1>4 DEF UpdateStatus
  <2>2. s \in {"APPROVED", "FULFILLED"} /\ s \in Sales!Status
    BY DEF StatusWanted, Sales!Status
  <2>3. u \in Updates
    BY <2>2 DEF Updates, StatusCalls
  <2>4. wf[w].order \in Orders /\ wf[w] # Idle
    BY <1>0, <2>1 DEF WorkflowInv, PhaseOK, Idle
  <2>5. \A v \in Workflows, t \in {"APPROVED", "FULFILLED"} :
          u = <<v, t>> => wf[w].order = wf[v].order /\ s = t /\ wf[v] # Idle
    BY <2>4
  <2> HIDE DEF u, s
  <2> QED
    BY <2>1, <2>2, <2>3, <2>4, <2>5, UpdateAsked
<1>5. ASSUME NEW u \in ClientUpdates, ClientUpdate(u)
      PROVE  OrderInv'
  <2>1. PICK o \in Orders, s \in Sales!Status : Sales!BeginUpdateOrderStatus(u, o, s)
    BY <1>5 DEF ClientUpdate
  <2>2. u \in Updates /\ \A w \in Workflows, t \in {"APPROVED", "FULFILLED"} : u # <<w, t>>
    BY CallsAssumption DEF Updates, StatusCalls
  <2> QED
    BY <1>5, <2>1, <2>2, UpdateAsked DEF ClientUpdate
<1>6. CASE InventoryStep
  <2>1. PICK c \in LineCalls : Inv!Step(c)
    BY <1>6 DEF InventoryStep
  <2>2. InvP!Step(c)
    BY <2>1, SameStep
  <2>3. CallsOK' /\ \A w \in Workflows : PhaseOK(w)'
    BY <1>0, <1>6, <2>1, InventoryStepKeeps DEF InventoryStep
  <2> QED
    BY <1>6, <2>2, <2>3, InventoryMoves DEF InventoryStep
<1>7. CASE SalesStep
  <2>1. PICK u \in Updates : Sales!Step(u)
    BY <1>7 DEF SalesStep, Updates
  <2>2. StatusInv'
    BY <1>0, <1>7, <2>1, StatusStepKeeps DEF SalesStep
  <2> QED
    BY <1>7, <2>1, <2>2, SalesKeepsTypes, OrdersMove DEF SalesStep
<1>8. CASE UNCHANGED vars
  <2>1. StatusInv'
    BY <1>0, <1>8, StatusFrame DEF vars, StatusInv, AskedByWorkflows
  <2> QED
    BY <1>8, <2>1, RestTypes, OrdersMove DEF vars, salesVars, Sales!TypeOK
<1> QED
  BY <1>1, <1>2, <1>3, <1>4, <1>5, <1>6, <1>7, <1>8, WorkflowMoves DEF Next, WorkflowStep

\* What calls, workflows and orders have established of one another (OrderInv)
\* holds of every behaviour of the order fulfillment workflow.
THEOREM OrderInvariant == Spec => []OrderInv
BY InitiallyOrderInv, OrderInvStep, PTL DEF Spec

\* The invariant implies that answers tell holdings.
LEMMA HoldingsAnswered == OrderInv => AnswersTellHoldings
<1> SUFFICES ASSUME OrderInv
             PROVE  AnswersTellHoldings
  OBVIOUS
<1>0. WorkflowInv /\ TypeOK /\ \A w \in Workflows : PhaseOK(w)
  BY DEF OrderInv, WorkflowInv
<1>1. ASSUME NEW w \in Workflows, wf[w].pc = "failed", NEW l \in LineNumbers
      PROVE  l \notin ReservedBy(w)
  <2>1. \/ Reserve(w, l).pc \in {"idle", "failed"}
        \/ Reserve(w, l).pc = "done" /\ Cancel(w, l).pc = "done"
    BY <1>0, <1>1 DEF PhaseOK
  <2>2. ReserveOK(w, l) /\ CancelOK(w, l)
    BY <1>0, LineFacts
  <2>3. CASE Reserve(w, l).pc \in {"idle", "failed"}
    BY <2>2, <2>3 DEF ReserveOK, ReservedBy, Own
  <2>4. CASE Reserve(w, l).pc = "done" /\ Cancel(w, l).pc = "done"
    <3>1. Cancel(w, l) # Inv!Idle
      BY <2>4 DEF Inv!Idle
    <3>2. reservations[Reserve(w, l).target].status = "CANCELLED"
      BY <2>2, <2>4, <3>1 DEF CancelOK
    <3>3. reservations[Own(w, l)] # None => Reserve(w, l).target = Own(w, l)
      BY <2>2 DEF ReserveOK
    <3> QED
      BY <3>2, <3>3 DEF ReservedBy, Own
  <2> QED
    BY <2>1, <2>3, <2>4
<1>2. ASSUME NEW w \in Workflows, wf[w].pc = "completed", Siblings(w) = {}, NEW l \in LineNumbers
      PROVE  l \in ReservedBy(w)
  <2>1. Reserve(w, l).pc = "done" /\ \A m \in LineNumbers : Cancel(w, m) = Inv!Idle
    BY <1>0, <1>2 DEF PhaseOK, AllReserved, Uncancelled
  <2>2. Reserve(w, l).target = Own(w, l) /\ reservations[Own(w, l)] # None
    BY <1>0, <1>2, <2>1, LineFacts DEF ReserveOK, Family
  <2>3. Own(w, l) \in LineCalls /\ reservations[Own(w, l)] \in Inv!Reservation
    BY <1>0, <2>1, <2>2, CancelTarget
  <2>4. SUFFICES ASSUME reservations[Own(w, l)].status = "CANCELLED"
                 PROVE  FALSE
    BY <2>2, <2>3 DEF Inv!Reservation, ReservedBy, Own
  <2>5. PICK v \in Workflows, m \in LineNumbers : Cancel(v, m) # Inv!Idle /\ Cancel(v, m).target = Own(w, l)
    BY <1>0, <2>2, <2>3, <2>4 DEF WorkflowInv, CallsOK, GivenBack
  <2>6. Reserve(v, m).pc = "done" /\ Reserve(v, m).target = Own(w, l)
    BY <1>0, <2>5, LineFacts DEF CancelOK
  <2>7. PICK x \in Family(v) : x \in Workflows /\ Own(w, l) = Own(x, m)
    BY <1>0, <2>6, CancelTarget
  <2>8. x = w /\ m = l
    BY <2>7, LineCallShape
  <2>9. v = w
    BY <1>2, <2>7, <2>8 DEF Family, Siblings
  <2> QED
    BY <2>1, <2>5, <2>9
<1>3. FailedHoldsNothing
  BY <1>1 DEF FailedHoldsNothing, ReservedBy
<1>4. CompletedHoldsAll
  BY <1>2 DEF CompletedHoldsAll, ReservedBy
<1> QED
  BY <1>0, <1>3, <1>4 DEF AnswersTellHoldings

\* A set whose elements are all equal has at most one.
LEMMA AtMostOne ==
  ASSUME NEW S, \A x, y \in S : x = y
  PROVE  Cardinality(S) <= 1
<1>1. CASE S = {}
  BY <1>1, FS_EmptySet
<1>2. CASE S # {}
  <2>1. PICK x : S = {x}
    BY <1>2
  <2> QED
    BY <2>1, FS_Singleton
<1> QED
  BY <1>1, <1>2

\* The invariant implies that an order nobody raced on is fulfilled once.
LEMMA DecidedByStatus == OrderInv => FulfilledOnce
<1> SUFFICES ASSUME OrderInv, NEW o \in Orders \ overtaken
             PROVE  Cardinality({w \in Workflows : wf[w].pc = "completed" /\ wf[w].order = o}) <= 1
  BY DEF FulfilledOnce
<1> DEFINE S == {w \in Workflows : wf[w].pc = "completed" /\ wf[w].order = o}
<1>1. ASSUME NEW w \in S
      PROVE  /\ FulfilledBy(<<w, "FULFILLED">>) /\ <<w, "FULFILLED">> \in Updates
             /\ update[<<w, "FULFILLED">>].order = o
  <2>1. FulfilledBy(<<w, "FULFILLED">>) /\ <<w, "FULFILLED">> \in Updates
    BY DEF OrderInv, StatusInv, AskedByWorkflows, Updates, StatusCalls
  <2>2. update[<<w, "FULFILLED">>] # Sales!Idle
    BY <2>1 DEF FulfilledBy, Sales!Idle
  <2> QED
    BY <2>1, <2>2 DEF OrderInv, StatusInv, AskedByWorkflows
<1>2. \A w, v \in S : w = v
  <2> TAKE w, v \in S
  <2>1. <<w, "FULFILLED">> = <<v, "FULFILLED">>
    BY <1>1 DEF OrderInv, StatusInv, DecidedOnce
  <2> QED
    BY <2>1
<1> QED
  BY <1>2, AtMostOne

\* What a workflow answers is what the warehouse holds for it, for any number of workflows,
\* orders and lines: one that failed holds nothing, one that completed holds every line
\* unless another was given its key.
THEOREM AnswersAreHoldings == Spec => []AnswersTellHoldings
BY OrderInvariant, HoldingsAnswered, PTL

\* The move to FULFILLED decides between workflows for the same order.
THEOREM OrdersFulfilledOnce == Spec => []FulfilledOnce
BY OrderInvariant, DecidedByStatus, PTL

-----------------------------------------------------------------------------
(* What is held of an item, and what is left of it.                        *)



\* When a line's reservation counts as held; a cancellation never does.
LEMMA HoldsIs ==
  ASSUME WorkflowInv, NEW w \in Workflows, NEW l \in LineNumbers
  PROVE  /\ Inv!Holds(Own(w, l)) <=>
              /\ \/ Reserve(w, l).pc \in {"save", "log"}
                 \/ Reserve(w, l).pc = "done" /\ Reserve(w, l).target = Own(w, l)
              /\ Own(w, l) \notin returned
         /\ Inv!Holds(Own(w, l)) => call[Own(w, l)].item = Lines[l]
         /\ ~Inv!Holds(<<w, l, "cancel">>)
<1>1. ReserveOK(w, l) /\ CancelOK(w, l)
  BY LineFacts
<1>2. Inv!Idle.pc = "idle" /\ Inv!Idle.op = "none"
  BY DEF Inv!Idle
<1> QED
  BY <1>1, <1>2 DEF Inv!Holds, ReserveOK, CancelOK, Reserve, Cancel, Own

\* A call in progress belongs to a workflow that has not looked at any minimum.
LEMMA NotCheckedYet ==
  ASSUME WorkflowInv, NEW w \in Workflows, NEW l \in LineNumbers, Reserve(w, l).pc # "done"
  PROVE  \A i : ~Checked(w, i)
BY DEF WorkflowInv, PhaseOK, AllReserved, Checked

\* Who holds an item depends on the calls alone.
LEMMA HoldingFrame ==
  ASSUME NEW i,
         \A c \in LineCalls : /\ Inv!Holds(c)' <=> Inv!Holds(c)
                              /\ Inv!Holds(c) => call'[c].item = call[c].item
  PROVE  Holding(i)' = Holding(i)
BY DEF Holding

\* The rows and who holds what stay as they are.
LEMMA StockFrame ==
  ASSUME StockInv, UNCHANGED <<stock, raced, wf, replenished>>,
         \A c \in LineCalls :
           /\ Inv!Holds(c)' <=> Inv!Holds(c)
           /\ Inv!Holds(c) => call'[c].item = call[c].item
           /\ call'[c].pc = "write" => call'[c].seen.quantity = InitialQuantity
  PROVE  StockInv'
<1>1. \A i : Holding(i)' = Holding(i)
  BY HoldingFrame
<1>2. \A i : CheckedHolding(i)' = CheckedHolding(i)
  BY <1>1 DEF CheckedHolding, Checked
<1>3. FullStock'
  BY DEF StockInv, FullStock
<1>4. Counted'
  BY <1>1 DEF StockInv, Counted
<1>5. Watched'
  BY <1>2 DEF StockInv, Watched, Checked
<1> QED
  BY <1>3, <1>4, <1>5 DEF StockInv

\* Only reservations are held, and a call of a line has the line's item.
LEMMA ReserveStepKeepsStock ==
  ASSUME WorkflowInv, StockInv, NEW w \in Workflows, NEW l \in LineNumbers, Inv!Step(Own(w, l)),
         UNCHANGED <<wf, replenished>>, WorkflowInv'
  PROVE  StockInv'
<1> DEFINE c == Own(w, l)
           q == call[c]
           n == call'[c]
           i == Lines[l]
<1>1. /\ c \in LineCalls /\ i \in Items /\ ReserveOK(w, l)
      /\ call \in [LineCalls -> Inv!CallState] /\ GivenBack
  BY LineFacts, LineCallShape, LinesAreItems DEF WorkflowInv, CallsOK
<1>2. /\ \A d \in LineCalls : d # c => call'[d] = call[d]
      /\ n.item = q.item
  BY ReserveSteps
<1>3. returned' = returned
  BY ReserveSteps
<1>4. \A d \in LineCalls : d # c => (Inv!Holds(d)' <=> Inv!Holds(d)) /\ call'[d].item = call[d].item
  BY <1>2, <1>3 DEF Inv!Holds
<1>5. /\ Inv!Holds(c) <=> /\ q.pc \in {"save", "log"} \/ (q.pc = "done" /\ q.target = c)
                          /\ c \notin returned
      /\ (Inv!Holds(c) => q.item = i)
  BY HoldsIs DEF Reserve
<1>6. /\ Inv!Holds(c)' <=> /\ n.pc \in {"save", "log"} \/ (n.pc = "done" /\ n.target = c)
                           /\ c \notin returned
  <2>1. ReserveOK(w, l)' /\ n.op = q.op
    BY LineFacts, ReserveSteps DEF WorkflowInv, CallsOK
  <2>2. q.pc # "idle" => q.op = "reserve"
    BY <1>1 DEF ReserveOK, Reserve, Inv!Idle
  <2>3. q.pc # "idle"
    BY ReserveSteps DEF Reserve
  <2> QED
    BY <1>3, <2>1, <2>2, <2>3 DEF Inv!Holds
<1>7. CASE q.pc # "write"
  <2>1. UNCHANGED <<stock, raced>>
    BY <1>7, ReserveSteps
  <2>2. Inv!Holds(c)' <=> Inv!Holds(c)
    <3>1. q.pc \in {"lookup", "read"} => reservations[c] = None
      BY <1>1 DEF ReserveOK, Reserve
    <3>2. n.target = c /\ q.pc = "lookup" => n.pc # "done"
      BY <1>1, <3>1, ReserveSteps DEF Inv!WithKey
    <3>3. q.pc = "log" => q.target = c
      BY <1>1 DEF ReserveOK, Reserve
    <3> QED
      BY <1>5, <1>6, <1>7, <3>2, <3>3, ReserveSteps
  <2>3. n.pc = "write" => n.seen.quantity = InitialQuantity
    <3>1. n.pc = "write" => n.seen = stock[q.item] /\ q.pc = "read"
      BY <1>7, ReserveSteps
    <3>2. q.pc = "read" => q.item = i
      BY <1>1 DEF ReserveOK, Reserve, Inv!Idle
    <3> QED
      BY <1>1, <3>1, <3>2 DEF StockInv, FullStock
  <2>4. \A d \in LineCalls :
          /\ Inv!Holds(d)' <=> Inv!Holds(d)
          /\ Inv!Holds(d) => call'[d].item = call[d].item
          /\ call'[d].pc = "write" => call'[d].seen.quantity = InitialQuantity
    BY <1>2, <1>4, <2>2, <2>3 DEF StockInv, FullStock
  <2> QED
    BY <2>1, <2>4, StockFrame
<1>8. CASE q.pc = "write"
  <2>1. /\ n.pc = "save" /\ q.item = i
        /\ stock' = [stock EXCEPT ![i] = [q.seen EXCEPT !.reserved = @ + 1]]
        /\ raced' = IF stock[i] # q.seen THEN raced \cup {i} ELSE raced
    BY <1>1, <1>8, ReserveSteps DEF ReserveOK, Reserve, Inv!Idle
  <2>2. reservations[c] = None /\ c \notin returned
    BY <1>1, <1>8 DEF ReserveOK, Reserve, GivenBack
  <2>3. ~Inv!Holds(c) /\ Inv!Holds(c)'
    BY <1>5, <1>6, <1>8, <2>1, <2>2
  <2>4. stock \in [Items -> Inv!Row] /\ q.seen \in Inv!Row /\ q.seen.quantity = InitialQuantity
    <3>1. InvP!CallSound(c)
      BY <1>1 DEF WorkflowInv, InvP!IInv, InvP!CallsSound
    <3>2. q.seen \in Inv!Row
      BY <1>8, <3>1 DEF InvP!CallSound, InvP!Row, Inv!Row
    <3> QED
      BY <1>1, <1>8, <3>2 DEF WorkflowInv, TypeOK, Inv!TypeOK, StockInv, FullStock
  <2>5. /\ stock'[i].quantity = InitialQuantity /\ stock'[i].reserved = q.seen.reserved + 1
        /\ \A j \in Items : j # i => stock'[j] = stock[j]
    BY <1>1, <2>1, <2>4 DEF Inv!Row
  <2>6. FullStock'
    BY <1>1, <1>2, <2>1, <2>5 DEF StockInv, FullStock
  <2>7. Holding(i)' = Holding(i) \cup {c} /\ c \notin Holding(i)
    BY <1>1, <1>2, <1>4, <2>1, <2>3 DEF Holding
  <2>8. \A j : j # i => Holding(j)' = Holding(j)
    BY <1>1, <1>2, <1>4, <2>1, <2>3 DEF Holding
  <2>9. Counted'
    <3> SUFFICES ASSUME NEW j \in Items, j \notin raced'
                 PROVE  IsFiniteSet(Holding(j)') /\ stock'[j].reserved = Cardinality(Holding(j)')
      BY DEF Counted
    <3>1. j \notin raced
      BY <2>1
    <3>2. IsFiniteSet(Holding(j)) /\ stock[j].reserved = Cardinality(Holding(j))
      BY <3>1 DEF StockInv, Counted
    <3>3. CASE j = i
      BY <2>1, <2>5, <2>7, <3>2, <3>3, FS_AddElement
    <3>4. CASE j # i
      BY <2>5, <2>8, <3>2, <3>4
    <3> QED
      BY <3>3, <3>4
  <2>10. \A j : CheckedHolding(j)' = CheckedHolding(j)
    <3>1. \A j : ~Checked(w, j)
      BY <1>8, NotCheckedYet DEF Reserve
    <3>2. c[1] = w
      BY DEF Own
    <3>3. \A d, j : Checked(d, j)' <=> Checked(d, j)
      BY DEF Checked
    <3> QED
      BY <2>7, <2>8, <3>1, <3>2, <3>3 DEF CheckedHolding
  <2>11. Watched'
    <3>1. raced \subseteq raced'
      BY <2>1
    <3> QED
      BY <2>10, <3>1 DEF StockInv, Watched, Checked
  <2> QED
    BY <2>6, <2>9, <2>11 DEF StockInv
<1> QED
  BY <1>7, <1>8

\* What a cancellation that wrote the row gave back, it took from those who hold the item.
LEMMA CancelStepKeepsStock ==
  ASSUME WorkflowInv, StockInv, NEW w \in Workflows, NEW l \in LineNumbers,
         Inv!Step(<<w, l, "cancel">>), UNCHANGED <<wf, replenished>>, WorkflowInv'
  PROVE  StockInv'
<1> DEFINE c == <<w, l, "cancel">>
           q == call[c]
           n == call'[c]
           i == Lines[l]
           r == q.target
<1>1. /\ c \in LineCalls /\ i \in Items /\ CancelOK(w, l)
      /\ call \in [LineCalls -> Inv!CallState] /\ GivenBack
  BY LineFacts, LineCallShape, LinesAreItems DEF WorkflowInv, CallsOK
<1>2. \A d \in LineCalls : d # c => call'[d] = call[d]
  BY CancelSteps
<1>3. ~Inv!Holds(c) /\ ~Inv!Holds(c)'
  <2>1. CancelOK(w, l)' /\ n.op = "cancel"
    BY LineFacts, CancelSteps DEF WorkflowInv, CallsOK
  <2> QED
    BY <2>1, HoldsIs DEF Inv!Holds
<1>4. CASE q.pc # "write"
  <2>1. UNCHANGED <<stock, raced, returned>>
    BY <1>4, CancelSteps
  <2>2. n.pc = "write" => n.seen.quantity = InitialQuantity
    <3>1. n.pc = "write" => n.seen = stock[i]
      BY <1>4, CancelSteps
    <3> QED
      BY <1>1, <3>1 DEF StockInv, FullStock
  <2>3. \A d \in LineCalls :
          /\ Inv!Holds(d)' <=> Inv!Holds(d)
          /\ Inv!Holds(d) => call'[d].item = call[d].item
          /\ call'[d].pc = "write" => call'[d].seen.quantity = InitialQuantity
    BY <1>2, <1>3, <2>1, <2>2 DEF StockInv, FullStock, Inv!Holds
  <2> QED
    BY <2>1, <2>3, StockFrame
<1>5. CASE q.pc = "write"
  <2> DEFINE row == [q.seen EXCEPT !.reserved = IF @ >= 1 THEN @ - 1 ELSE 0]
  <2>1. /\ n.pc = "save" /\ stock' = [stock EXCEPT ![i] = row]
        /\ returned' = returned \cup {r}
        /\ raced' = IF stock[i] # q.seen \/ r \in returned THEN raced \cup {i} ELSE raced
    BY <1>5, CancelSteps
  <2>2. stock \in [Items -> Inv!Row] /\ q.seen \in Inv!Row /\ q.seen.quantity = InitialQuantity
    <3>1. InvP!CallSound(c)
      BY <1>1 DEF WorkflowInv, InvP!IInv, InvP!CallsSound
    <3>2. q.seen \in Inv!Row
      BY <1>5, <3>1 DEF InvP!CallSound, InvP!Row, Inv!Row
    <3> QED
      BY <1>1, <1>5, <3>2 DEF WorkflowInv, TypeOK, Inv!TypeOK, StockInv, FullStock
  <2>3. /\ row.quantity = InitialQuantity /\ row \in Inv!Row
        /\ row.reserved = IF q.seen.reserved >= 1 THEN q.seen.reserved - 1 ELSE 0
    BY <2>2 DEF Inv!Row
  <2> HIDE DEF row
  <2>4. stock'[i] = row /\ \A j \in Items : j # i => stock'[j] = stock[j]
    BY <1>1, <2>1, <2>2
  <2>5. FullStock'
    BY <1>1, <1>2, <2>1, <2>3, <2>4 DEF StockInv, FullStock
  <2>6. /\ Reserve(w, l).pc = "done" /\ r = Reserve(w, l).target
    BY <1>1, <1>5 DEF CancelOK, Cancel, Inv!Idle
  <2>7. PICK v \in Workflows : r = Own(v, l) /\ r \in LineCalls /\ reservations[r] # None
    BY <2>6, CancelTarget
  <2>8. /\ call[r].item = i /\ r # c
        /\ call[r].pc \in {"log", "done"} /\ call[r].target = r
    <3>1. ReserveOK(v, l) /\ call[r] = Reserve(v, l)
      BY <2>7, LineFacts DEF Reserve
    <3>2. call[r].pc \in {"log", "done"} /\ call[r].target = r
      BY <2>7, <3>1 DEF ReserveOK
    <3> QED
      BY <2>7, <3>1, <3>2, LineCallShape DEF ReserveOK, Inv!Idle
  <2>9. r \notin returned => Inv!Holds(r)
    <3>1. call[Own(v, l)] = Reserve(v, l)
      BY DEF Reserve
    <3>2. Reserve(v, l).pc \in {"save", "log"} \/ (Reserve(v, l).pc = "done" /\ Reserve(v, l).target = Own(v, l))
      BY <2>7, <2>8, <3>1
    <3>3. r \notin returned => Inv!Holds(Own(v, l))
      BY <2>7, <3>2, HoldsIs
    <3> QED
      BY <2>7, <3>3
  <2>10. \A d \in LineCalls : Inv!Holds(d)' <=> Inv!Holds(d) /\ d # r
    BY <1>2, <1>3, <2>1 DEF Inv!Holds
  <2>11. \A d \in LineCalls : Inv!Holds(d) => call'[d] = call[d]
    BY <1>2, <1>3
  <2>12. \A j : Holding(j)' = Holding(j) \ {r}
    BY <2>10, <2>11 DEF Holding
  <2>13. \A j : j # i => Holding(j)' = Holding(j)
    BY <2>8, <2>12 DEF Holding
  <2>14. /\ raced \subseteq raced'
         /\ i \notin raced' => stock[i] = q.seen /\ r \notin returned
    BY <2>1
  <2>15. Counted'
    <3> SUFFICES ASSUME NEW j \in Items, j \notin raced'
                 PROVE  IsFiniteSet(Holding(j)') /\ stock'[j].reserved = Cardinality(Holding(j)')
      BY DEF Counted
    <3>1. IsFiniteSet(Holding(j)) /\ stock[j].reserved = Cardinality(Holding(j))
      BY <2>14 DEF StockInv, Counted
    <3>2. CASE j = i
      <4>1. r \in Holding(i) /\ q.seen.reserved = Cardinality(Holding(i))
        BY <2>7, <2>8, <2>9, <2>14, <3>1, <3>2 DEF Holding
      <4>2. /\ IsFiniteSet(Holding(i) \ {r})
            /\ Cardinality(Holding(i) \ {r}) = Cardinality(Holding(i)) - 1
            /\ Cardinality(Holding(i) \ {r}) \in Nat
        BY <3>1, <3>2, <4>1, FS_RemoveElement, FS_CardinalityType
      <4>3. q.seen.reserved \in Nat
        BY <2>2 DEF Inv!Row
      <4>4. row.reserved = Cardinality(Holding(i)) - 1
        BY <2>3, <4>1, <4>2, <4>3
      <4>5. Holding(i)' = Holding(i) \ {r}
        BY <2>12
      <4> QED
        BY <2>4, <3>2, <4>2, <4>4, <4>5
    <3>3. CASE j # i
      BY <2>4, <2>13, <3>1, <3>3
    <3> QED
      BY <3>2, <3>3
  <2>16. Watched'
    <3> SUFFICES ASSUME NEW m \in LineNumbers, Lines[m] \notin raced',
                        \E x \in Workflows : Checked(x, Lines[m]),
                        \A x \in Workflows : <<x, Lines[m]>> \notin replenished
                 PROVE  InitialQuantity - Cardinality(CheckedHolding(Lines[m])') >= MinQuantity
      BY DEF Watched, Checked
    <3> DEFINE j == Lines[m]
    <3>1. j \notin raced /\ j \in Items
      BY <2>14, LinesAreItems
    <3>2. InitialQuantity - Cardinality(CheckedHolding(j)) >= MinQuantity
      BY <3>1 DEF StockInv, Watched
    <3>3. CheckedHolding(j)' \subseteq CheckedHolding(j)
      BY <2>12 DEF CheckedHolding, Checked
    <3>4. IsFiniteSet(CheckedHolding(j))
      BY <3>1, FS_Subset DEF StockInv, Counted, CheckedHolding
    <3>5. /\ Cardinality(CheckedHolding(j)') <= Cardinality(CheckedHolding(j))
          /\ Cardinality(CheckedHolding(j)') \in Nat /\ Cardinality(CheckedHolding(j)) \in Nat
      BY <3>3, <3>4, FS_Subset, FS_CardinalityType
    <3> QED
      BY <3>2, <3>5, StockAssumption, MinAssumption
  <2> QED
    BY <2>5, <2>15, <2>16 DEF StockInv
<1> QED
  BY <1>4, <1>5

\* A call that begins holds nothing yet.
LEMMA BeginsKeepsStock ==
  ASSUME WorkflowInv, StockInv, NEW c \in LineCalls, NEW q, Inv!Begin(c, q),
         q.pc \in {"lookup", "read", "find"}, UNCHANGED <<wf, replenished>>
  PROVE  StockInv'
<1>1. /\ call'[c] = q /\ call[c] = Inv!Idle /\ \A d \in LineCalls : d # c => call'[d] = call[d]
      /\ UNCHANGED <<stock, raced, returned>>
  BY CallBegins
<1>2. Inv!Idle.pc = "idle"
  BY DEF Inv!Idle
<1>3. ~Inv!Holds(c) /\ ~Inv!Holds(c)'
  BY <1>1, <1>2 DEF Inv!Holds
<1>4. \A d \in LineCalls :
        /\ Inv!Holds(d)' <=> Inv!Holds(d)
        /\ Inv!Holds(d) => call'[d].item = call[d].item
        /\ call'[d].pc = "write" => call'[d].seen.quantity = InitialQuantity
  BY <1>1, <1>3 DEF StockInv, FullStock, Inv!Holds
<1> QED
  BY <1>1, <1>4, StockFrame

\* Workflows that move on: those who looked at an item stay, and one that looks at
\* it now sees what is left of it.
LEMMA WorkflowStepKeepsStock ==
  ASSUME WorkflowInv, StockInv, UNCHANGED inventoryVars, NEW w \in Workflows,
         \A v \in Workflows : v # w => wf'[v] = wf[v],
         replenished \subseteq replenished',
         NEW i \in Items,
         \A m \in LineNumbers : Lines[m] # i => (Checked(w, Lines[m])' => Checked(w, Lines[m])),
         Checked(w, i)' => Checked(w, i) \/ <<w, i>> \in replenished' \/ ~Short(i)
  PROVE  StockInv'
<1>1. UNCHANGED <<call, stock, returned, raced>>
  BY DEF inventoryVars
<1>2. \A j : Holding(j)' = Holding(j)
  BY <1>1 DEF Holding, Inv!Holds
<1>3. FullStock' /\ Counted'
  BY <1>1, <1>2 DEF StockInv, FullStock, Counted
<1>4. Watched'
  <2> SUFFICES ASSUME NEW m \in LineNumbers, Lines[m] \notin raced,
                      \E x \in Workflows : Checked(x, Lines[m])',
                      \A x \in Workflows : <<x, Lines[m]>> \notin replenished'
               PROVE  InitialQuantity - Cardinality(CheckedHolding(Lines[m])') >= MinQuantity
    BY <1>1 DEF Watched, Checked
  <2> DEFINE j == Lines[m]
  <2>1. j \in Items
    BY LinesAreItems
  <2>2. IsFiniteSet(Holding(j)) /\ stock[j].reserved = Cardinality(Holding(j))
        /\ stock[j].quantity = InitialQuantity
    BY <2>1 DEF StockInv, Counted, FullStock
  <2>3. \A v \in Workflows : v # w => (Checked(v, j)' <=> Checked(v, j))
    BY DEF Checked
  <2>4. \A c \in LineCalls : c[1] \in Workflows
    BY DEF LineCalls
  <2>5. IsFiniteSet(CheckedHolding(j)) /\ CheckedHolding(j) \subseteq Holding(j)
        /\ CheckedHolding(j)' \subseteq Holding(j)
    BY <1>2, <2>2, FS_Subset DEF CheckedHolding
  <2>6. CASE Checked(w, j)' => Checked(w, j)
    <3>1. \E x \in Workflows : Checked(x, j)
      BY <2>3, <2>6
    <3>2. InitialQuantity - Cardinality(CheckedHolding(j)) >= MinQuantity
      BY <3>1 DEF StockInv, Watched
    <3>3. \A x \in Workflows : Checked(x, j)' => Checked(x, j)
      BY <2>3, <2>6
    <3>4. CheckedHolding(j)' \subseteq CheckedHolding(j)
      BY <1>2, <2>4, <3>3 DEF CheckedHolding, Holding
    <3>5. /\ Cardinality(CheckedHolding(j)') <= Cardinality(CheckedHolding(j))
          /\ Cardinality(CheckedHolding(j)') \in Nat /\ Cardinality(CheckedHolding(j)) \in Nat
      BY <2>5, <3>4, FS_Subset, FS_CardinalityType
    <3> QED
      BY <3>2, <3>5, StockAssumption, MinAssumption
  <2>7. CASE ~Short(j)
    <3>1. InitialQuantity - Cardinality(Holding(j)) >= MinQuantity
      BY <2>2, <2>7, StockAssumption, MinAssumption, FS_CardinalityType DEF Short, Inv!Available
    <3>2. /\ Cardinality(CheckedHolding(j)') <= Cardinality(Holding(j))
          /\ Cardinality(CheckedHolding(j)') \in Nat /\ Cardinality(Holding(j)) \in Nat
      BY <2>2, <2>5, FS_Subset, FS_CardinalityType
    <3> QED
      BY <3>1, <3>2, StockAssumption, MinAssumption
  <2> QED
    BY <2>6, <2>7
<1> QED
  BY <1>3, <1>4 DEF StockInv

\* Steps a workflow takes on its own keep the count of what is held.
LEMMA LocalStepKeepsStock ==
  ASSUME OrderInv, StockInv, NEW w \in Workflows,
         \/ CheckLine(w) \/ LineReserved(w) \/ LineCancelled(w) \/ Compensated(w)
         \/ StatusUpdated(w) \/ Replenish(w) \/ Answer(w)
  PROVE  StockInv'
<1>0. WorkflowInv /\ StatusInv /\ TypeOK /\ wf \in [Workflows -> WfState]
  BY RestTypes DEF OrderInv
<1>1. UNCHANGED inventoryVars /\ \A v \in Workflows : v # w => wf'[v] = wf[v]
  BY <1>0, LocalStepTypes
<1>2. \A pc : Enter(w, pc) => wf'[w].pc = pc /\ wf'[w].left = wf[w].left
  BY <1>0, Entered
<1>4. ASSUME UNCHANGED replenished,
             \A m \in LineNumbers : Checked(w, Lines[m])' => Checked(w, Lines[m])
      PROVE  StockInv'
  <2>1. PICK m \in LineNumbers : TRUE
    BY LinesAreItems
  <2> QED
    BY <1>0, <1>1, <1>4, <2>1, LinesAreItems, WorkflowStepKeepsStock
<1>5. CASE \/ CheckLine(w) \/ LineReserved(w) \/ LineCancelled(w) \/ Compensated(w)
  <2>1. UNCHANGED replenished
    BY <1>5 DEF CheckLine, LineReserved, LineCancelled, Compensated
  <2>2. wf'[w].pc \notin {"completed", "replenish"}
    BY <1>0, <1>2, <1>5 DEF CheckLine, LineReserved, LineCancelled, Compensated, WfState
  <2> QED
    BY <1>4, <2>1, <2>2 DEF Checked
<1>6. CASE StatusUpdated(w)
  <2>1. UNCHANGED replenished
    BY <1>6 DEF StatusUpdated
  <2>2. \/ wf'[w].pc \in {"error", "fulfil"}
        \/ wf'[w].pc = "replenish" /\ wf'[w].left = {Lines[l] : l \in LineNumbers}
    BY <1>0, <1>2, <1>6 DEF StatusUpdated, WfState
  <2> QED
    BY <1>4, <2>1, <2>2 DEF Checked
<1>7. CASE Replenish(w)
  <2>1. PICK i \in wf[w].left :
          /\ wf' = [wf EXCEPT ![w].left = @ \ {i}]
          /\ replenished' = IF Short(i) THEN replenished \cup {<<w, i>>} ELSE replenished
    BY <1>7 DEF Replenish
  <2>2. i \in Items /\ wf'[w].left = wf[w].left \ {i} /\ wf'[w].pc = wf[w].pc
    BY <1>0, <2>1 DEF WfState
  <2>3. \A m \in LineNumbers : Lines[m] # i => (Checked(w, Lines[m])' => Checked(w, Lines[m]))
    BY <2>2 DEF Checked
  <2>4. <<w, i>> \in replenished' \/ ~Short(i)
    BY <2>1
  <2> QED
    BY <1>0, <1>1, <2>1, <2>2, <2>3, <2>4, WorkflowStepKeepsStock
<1>8. CASE Answer(w)
  <2>1. UNCHANGED replenished /\ wf[w].left = {}
    BY <1>8 DEF Answer
  <2>2. wf'[w].pc = IF wf[w].pc = "replenish" THEN "completed" ELSE "failed"
    BY <1>2, <1>8 DEF Answer
  <2> QED
    BY <1>4, <2>1, <2>2 DEF Checked
<1> QED
  BY <1>5, <1>6, <1>7, <1>8

\* At the start nothing is held.
LEMMA InitiallyStockInv == Init => StockInv
<1> SUFFICES ASSUME Init
             PROVE  StockInv
  OBVIOUS
<1>1. \A c \in LineCalls : call[c] = Inv!Idle /\ ~Inv!Holds(c)
  BY InitialFacts DEF Inv!Holds, Inv!Idle
<1>2. \A i \in Items : stock[i].quantity = InitialQuantity /\ stock[i].reserved = 0
  BY DEF Init, Inv!Init
<1>3. \A i : Holding(i) = {}
  BY <1>1 DEF Holding
<1>4. FullStock
  BY <1>1, <1>2 DEF FullStock, Inv!Idle
<1>5. Counted
  BY <1>2, <1>3, FS_EmptySet DEF Counted
<1>6. \A w \in Workflows, i \in Items : ~Checked(w, i)
  BY InitialFacts DEF Checked, Idle
<1>7. Watched
  BY <1>6, LinesAreItems DEF Watched
<1> QED
  BY <1>4, <1>5, <1>7 DEF StockInv

\* Every step of the system keeps the count.
LEMMA StockInvStep == OrderInv /\ OrderInv' /\ StockInv /\ [Next]_vars => StockInv'
<1> SUFFICES ASSUME OrderInv, OrderInv', StockInv, [Next]_vars
             PROVE  StockInv'
  OBVIOUS
<1>0. WorkflowInv /\ WorkflowInv' /\ TypeOK /\ wf \in [Workflows -> WfState]
  BY RestTypes DEF OrderInv
<1>1. ASSUME NEW w \in Workflows, NEW o \in Orders, NEW k \in Keys \cup {NoKey}, Begin(w, o, k)
      PROVE  StockInv'
  <2>1. wf'[w].pc \in {"replayed", "error", "check"} /\ \A v \in Workflows : v # w => wf'[v] = wf[v]
    BY <1>1, BeginTypes
  <2>2. UNCHANGED <<inventoryVars, replenished>>
    BY <1>1 DEF Begin
  <2>3. \A i : ~Checked(w, i)'
    BY <2>1 DEF Checked
  <2>4. PICK m \in LineNumbers : TRUE
    BY LinesAreItems
  <2> QED
    BY <1>0, <2>1, <2>2, <2>3, <2>4, LinesAreItems, WorkflowStepKeepsStock
<1>2. ASSUME NEW w \in Workflows, ReserveLine(w)
      PROVE  StockInv'
  <2> DEFINE l == wf[w].line
             q == [Inv!Idle EXCEPT !.op = "reserve", !.item = Lines[l], !.quantity = 1, !.key = LineKey(w, l),
                                   !.pc = IF LineKey(w, l) = NoKey THEN "read" ELSE "lookup"]
  <2>1. l \in LineNumbers
    BY <1>0, <1>2 DEF WorkflowInv, PhaseOK, ReserveLine
  <2>2. Inv!Begin(Own(w, l), q) /\ UNCHANGED <<wf, replenished>>
    BY <1>2 DEF ReserveLine, Inv!BeginReserve, Own
  <2>3. q.pc \in {"lookup", "read", "find"}
    BY DEF Inv!Idle
  <2> HIDE DEF q
  <2> QED
    BY <1>0, <2>1, <2>2, <2>3, BeginsKeepsStock, LineCallShape
<1>3. ASSUME NEW w \in Workflows, CancelLine(w)
      PROVE  StockInv'
  <2> DEFINE l == wf[w].line
             q == [Inv!Idle EXCEPT !.op = "cancel", !.target = call[<<w, l, "reserve">>].target, !.pc = "find"]
  <2>1. l \in LineNumbers
    BY <1>0, <1>3 DEF WorkflowInv, PhaseOK, CancelLine
  <2>2. Inv!Begin(<<w, l, "cancel">>, q) /\ UNCHANGED <<wf, replenished>>
    BY <1>3 DEF CancelLine, Inv!BeginCancel
  <2>3. q.pc \in {"lookup", "read", "find"}
    BY DEF Inv!Idle
  <2> HIDE DEF q
  <2> QED
    BY <1>0, <2>1, <2>2, <2>3, BeginsKeepsStock, LineCallShape
<1>4. CASE InventoryStep
  <2>1. PICK c \in LineCalls : Inv!Step(c)
    BY <1>4 DEF InventoryStep
  <2>2. PICK w \in Workflows, l \in LineNumbers : c = Own(w, l) \/ c = <<w, l, "cancel">>
    BY LineCallShape
  <2> QED
    BY <1>0, <1>4, <2>1, <2>2, ReserveStepKeepsStock, CancelStepKeepsStock DEF InventoryStep
<1>5. CASE UNCHANGED <<inventoryVars, wf, replenished>>
  <2>1. \A c \in LineCalls :
          /\ Inv!Holds(c)' <=> Inv!Holds(c)
          /\ Inv!Holds(c) => call'[c].item = call[c].item
          /\ call'[c].pc = "write" => call'[c].seen.quantity = InitialQuantity
    BY <1>5 DEF inventoryVars, Inv!Holds, StockInv, FullStock
  <2> QED
    BY <1>5, <2>1, StockFrame DEF inventoryVars
<1>6. ASSUME NEW w \in Workflows, UpdateStatus(w)
      PROVE  StockInv'
  BY <1>5, <1>6 DEF UpdateStatus
<1>7. ASSUME NEW u \in ClientUpdates, ClientUpdate(u)
      PROVE  StockInv'
  BY <1>5, <1>7 DEF ClientUpdate
<1>8. CASE SalesStep
  BY <1>5, <1>8 DEF SalesStep
<1>9. CASE UNCHANGED vars
  BY <1>5, <1>9 DEF vars
<1> QED
  BY <1>1, <1>2, <1>3, <1>4, <1>6, <1>7, <1>8, <1>9, LocalStepKeepsStock DEF Next, WorkflowStep

\* Whoever still holds a unit when all have answered has looked at its minimum.
LEMMA AnsweredHoldersChecked ==
  ASSUME OrderInv, NEW c \in LineCalls, Inv!Holds(c), NEW i,
         \A v \in Workflows : wf[v].pc \in {"idle", "completed", "failed", "replayed"}
  PROVE  Checked(c[1], i)
<1>0. WorkflowInv /\ GivenBack
  BY DEF OrderInv, WorkflowInv, CallsOK
<1>1. PICK w \in Workflows, l \in LineNumbers : c = Own(w, l) \/ c = <<w, l, "cancel">>
  BY LineCallShape
<1>2. c = Own(w, l)
  BY <1>0, <1>1, HoldsIs
<1>3. /\ Reserve(w, l).pc \in {"save", "log"} \/ (Reserve(w, l).pc = "done" /\ Reserve(w, l).target = c)
      /\ c \notin returned
  BY <1>0, <1>2, HoldsIs
<1>4. ReserveOK(w, l) /\ CancelOK(w, l) /\ PhaseOK(w) /\ Inv!Idle.pc = "idle"
  BY <1>0, LineFacts DEF WorkflowInv, Inv!Idle
<1>5. wf[w].pc # "failed"
  <2> SUFFICES ASSUME wf[w].pc = "failed"
               PROVE  FALSE
    OBVIOUS
  <2>1. Reserve(w, l).pc = "done" /\ Reserve(w, l).target = c /\ Cancel(w, l).pc = "done"
    BY <1>3, <1>4 DEF PhaseOK
  <2>2. /\ Cancel(w, l).target = c /\ reservations[Cancel(w, l).target].status = "CANCELLED"
    BY <1>4, <2>1 DEF CancelOK
  <2>3. reservations[c] # None
    BY <1>2, <1>4, <2>1 DEF ReserveOK
  <2> QED
    BY <1>0, <1>3, <2>2, <2>3 DEF GivenBack
<1>6. wf[w].pc \notin {"idle", "replayed"}
  BY <1>3, <1>4 DEF PhaseOK
<1>7. c[1] = w
  BY <1>2 DEF Own
<1> QED
  BY <1>5, <1>6, <1>7 DEF Checked

\* The count implies that no shortage goes unnoticed.
LEMMA ShortageIsOrdered == OrderInv /\ StockInv => NoSilentShortage
<1> SUFFICES ASSUME OrderInv, StockInv,
                    \A v \in Workflows : wf[v].pc \in Finished \cup {"idle"},
                    NEW w \in Workflows, NEW l \in LineNumbers,
                    wf[w].pc = "completed", Lines[l] \notin raced,
                    \A v \in Workflows : wf[v].pc # "error",
                    Inv!Available(stock[Lines[l]]) < MinQuantity,
                    \A v \in Workflows : <<v, Lines[l]>> \notin replenished
             PROVE  FALSE
  BY DEF NoSilentShortage
<1> DEFINE i == Lines[l]
<1>1. i \in Items
  BY LinesAreItems
<1>2. \A v \in Workflows : wf[v].pc \in {"idle", "completed", "failed", "replayed"}
  BY DEF Finished
<1>3. CheckedHolding(i) = Holding(i)
  BY <1>2, AnsweredHoldersChecked DEF CheckedHolding, Holding
<1>4. InitialQuantity - Cardinality(Holding(i)) >= MinQuantity
  BY <1>3 DEF StockInv, Watched, Checked
<1>5. /\ IsFiniteSet(Holding(i)) /\ stock[i].reserved = Cardinality(Holding(i))
      /\ stock[i].quantity = InitialQuantity
  BY <1>1 DEF StockInv, Counted, FullStock
<1>6. Inv!Available(stock[i]) = InitialQuantity - Cardinality(Holding(i))
  BY <1>5 DEF Inv!Available
<1> QED
  BY <1>4, <1>5, <1>6, StockAssumption, MinAssumption, FS_CardinalityType

\* An item of a fulfilled order that is left below its minimum has been re-ordered once every
\* workflow has answered, whatever they interleaved, unless its row was written from an
\* out-of-date copy.
THEOREM ShortagesAreOrdered == Spec => []NoSilentShortage
<1>1. Spec => []StockInv
  BY OrderInvariant, InitiallyStockInv, StockInvStep, PTL DEF Spec
<1> QED
  BY <1>1, OrderInvariant, ShortageIsOrdered, PTL
=============================================================================
