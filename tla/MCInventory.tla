----------------------------- MODULE MCInventory -----------------------------
(***************************************************************************)
(* Instances of Inventory: two items, so that a race on one is seen not to *)
(* disturb the other, and interchangeable calls.                           *)
(***************************************************************************)
EXTENDS Inventory, TLC

Symmetry == Permutations(Calls) \cup Permutations(Items)

\* The books of the warehouse agree, races on an item aside: a row's reserved quantity
\* is what its open reservations hold, its quantity what its movements add up to, and
\* no item is promised beyond its stock (inventory.service.ts:138-310).
BooksAgree == TypeOK /\ LedgerExact /\ QuantityAudited /\ NeverOverpromised
=============================================================================
