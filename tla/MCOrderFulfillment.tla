-------------------------- MODULE MCOrderFulfillment --------------------------
(***************************************************************************)
(* Two workflows for the same two-line order.  Nothing in the workflow is  *)
(* specific to an order, so one order is where they interact most.         *)
(***************************************************************************)
EXTENDS OrderFulfillment, TLC

CONSTANTS i1, i2

MCItems == {i1, i2}
MCLines == <<i1, i2>>
Symmetry == Permutations(Workflows)

\* What a workflow answers is what the warehouse holds for it: one that failed holds
\* nothing, one that completed holds every line (order-fulfillment.service.ts:42-292).
AnswersTellHoldings == TypeOK /\ FailedHoldsNothing /\ CompletedHoldsAll
=============================================================================
