------------------------------ MODULE MCAiBudget ------------------------------
(* Instances of AiBudget with interchangeable requests.                      *)
EXTENDS AiBudget, TLC

\* One unit a day, two a month.
DefaultBudget ==
  [f \in Fields |-> IF f \in {"daily", "agent"} THEN 1 ELSE 2]

Symmetry == Permutations(Requests)

\* Reservations made one after the other stay within the limits they were checked
\* against (ai-budget.service.ts:107-293), and every variable in its type.
BudgetHolds == TypeOK /\ ReservedWithinBudget
=============================================================================
