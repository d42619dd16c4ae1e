-------------------------- MODULE ReservationLedger --------------------------
(***************************************************************************)
(* What the inventory service promises its clients: reserving, releasing   *)
(* and recounting an item are atomic, and no item is promised beyond its   *)
(* physical quantity.  The promise is withdrawn, for one item at a time,   *)
(* once two handlers have raced on its row.                                *)
(***************************************************************************)
EXTENDS Integers, FiniteSetsExt

CONSTANTS Calls, Items, None, InitialQuantity

VARIABLES
  quantity,   \* [Items -> Nat]: the physical quantity
  held,       \* [Calls -> [item, quantity] or None]: what each call holds
  raced       \* the items about which nothing is promised any more

vars == <<quantity, held, raced>>

Holding(i) == {c \in Calls : held[c] # None /\ held[c].item = i}

Promised(i) == MapThenSumSet(LAMBDA c : held[c].quantity, Holding(i))

Init ==
  /\ quantity = [i \in Items |-> InitialQuantity]
  /\ held = [c \in Calls |-> None]
  /\ raced = {}

Reserve(c) ==
  /\ held[c] = None /\ held'[c] # None
  /\ held' = [held EXCEPT ![c] = held'[c]]
  /\ Promised(held'[c].item) + held'[c].quantity <= quantity[held'[c].item]
  /\ UNCHANGED <<quantity, raced>>

Release(c) ==
  /\ held[c] # None
  /\ held' = [held EXCEPT ![c] = None]
  /\ UNCHANGED <<quantity, raced>>

Recount(i) ==
  /\ quantity'[i] >= Promised(i)
  /\ quantity' = [quantity EXCEPT ![i] = quantity'[i]]
  /\ UNCHANGED <<held, raced>>

\* After a race on i its quantity may be anything, and so may what calls
\* hold of it; every other item is untouched.
Race(i) ==
  /\ raced' = raced \cup {i}
  /\ \A j \in Items \ {i} : quantity'[j] = quantity[j]
  /\ \A c \in Calls : held'[c] # held[c] =>
       \A hold \in {held[c], held'[c]} \ {None} : hold.item = i

Next ==
  \/ \E c \in Calls : Reserve(c) \/ Release(c)
  \/ \E i \in Items : Recount(i) \/ Race(i)

Spec == Init /\ [][Next]_vars

\* No item that was never raced on is promised beyond its quantity.
NeverOverpromised == \A i \in Items \ raced : Promised(i) <= quantity[i]
=============================================================================
