------------------------------ MODULE PolicyEngine ------------------------------
(***************************************************************************)
(* The three evaluations of PolicyEngineService and the settlement of      *)
(* ConflictResolutionService: functions of what the workflow that asks     *)
(* found out.                                                              *)
(***************************************************************************)
EXTENDS Integers

Decisions == {"AUTO_APPROVE", "REQUIRE_HUMAN_APPROVAL", "REJECT"}

FinancialPostingPolicy(amount, isBalanced, threshold) ==
  IF ~isBalanced THEN "REJECT"
  ELSE IF amount > threshold THEN "REQUIRE_HUMAN_APPROVAL"
  ELSE "AUTO_APPROVE"

ProcurementPolicy(amount, budgetAvailable, supplierVerified, threshold) ==
  IF ~supplierVerified \/ ~budgetAvailable THEN "REJECT"
  ELSE IF amount > threshold THEN "REQUIRE_HUMAN_APPROVAL"
  ELSE "AUTO_APPROVE"

InfrastructureScalingPolicy(replicas, maxReplicas, isScaleUp, budgetAvailable, isConfident) ==
  IF replicas > maxReplicas \/ (isScaleUp /\ ~budgetAvailable) THEN "REJECT"
  ELSE IF ~isConfident THEN "REQUIRE_HUMAN_APPROVAL"
  ELSE "AUTO_APPROVE"

-----------------------------------------------------------------------------
(* ConflictResolutionService.detectAndResolve, with trust in percent.       *)

TRUST_RESOLUTION_MARGIN == 15

MIN_TRUST_TO_AUTO_RESOLVE == 60

\* One party is trusted clearly more, and enough.
ClearlyTrusted(trust, other) ==
  trust - other >= TRUST_RESOLUTION_MARGIN /\ trust >= MIN_TRUST_TO_AUTO_RESOLVE

\* Two parties' decisions are settled if they agree or one party is trusted clearly
\* more; otherwise a ticket asks a human.
DetectAndResolve(decisionA, trustA, decisionB, trustB) ==
  IF decisionA = decisionB \/ ClearlyTrusted(trustA, trustB) THEN decisionA
  ELSE IF ClearlyTrusted(trustB, trustA) THEN decisionB
  ELSE "ESCALATED"
=============================================================================
