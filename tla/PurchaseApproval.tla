--------------------------- MODULE PurchaseApproval ---------------------------
(***************************************************************************)
(* The purchase approval workflow over Procurement and Finance:            *)
(* PurchaseApprovalService.processPurchaseApproval.  A workflow is one of  *)
(* the Calls; the handler it runs in Procurement and the allocation it     *)
(* makes in Finance are under its own name, beside those of the clients.   *)
(***************************************************************************)
EXTENDS Finance, PolicyEngine

CONSTANTS
  Workflows,  \* invocations of the workflow, a subset of Calls
  Suppliers, Requests, Orders, Receipts, Names, Keys, Ordered,
  Amount,     \* the total of every order
  Thresholds  \* the automatic approval thresholds callers ask for

VARIABLES
  driver, supplier, request, order, receipt, proc, converted, raced, rewritten,
  wf,         \* [Workflows -> the local state of the workflow]
  responses,  \* [Keys -> the workflow whose answer is remembered, or None]
  published,  \* the outbox: <<workflow, event type>>
  byHand      \* history: orders a client approved without the workflow

P == INSTANCE Procurement

\* A workflow calls the handlers like any client, and allocates an amount of theirs.
ASSUME WorkflowAssumption == Workflows \subseteq Calls /\ Amount \in Amounts

\* Orders are of positive quantities (procurement.service.ts:235).
ASSUME OrderedAssumption == Ordered \in Nat \ {0}

\* No row and no id is the absence of one.
ASSUME RowAssumption ==
  /\ None \notin Requests
  /\ None \notin P!Supplier \cup P!PurchaseRequest \cup P!PurchaseOrder \cup P!GoodsReceipt

workflowVars == <<wf, responses, published, byHand>>
procurementVars == <<driver, supplier, request, order, receipt, proc, converted, raced, rewritten>>
purchaseVars == <<vars, procurementVars, workflowVars>>

NotStarted == [pc |-> "idle", order |-> None, budget |-> None, key |-> None,
               threshold |-> 0, decision |-> None]

WorkflowTypeOK ==
  /\ \A w \in Workflows :
       /\ wf[w].pc \in {"idle", "check", "approve", "approving", "allocating",
                        "revert", "reverting", "answer", "done", "failed"}
       /\ wf[w].order \in Orders \cup {None} /\ wf[w].budget \in Budgets \cup {None}
       /\ wf[w].decision \in Decisions \cup {None}
  /\ responses \in [Keys -> Workflows \cup {None}]
  /\ published \subseteq Workflows \X {"PurchaseOrderApproved", "PurchaseApprovalEscalated"}

PurchaseInit ==
  /\ Init
  /\ P!Init
  /\ wf = [w \in Workflows |-> NotStarted]
  /\ responses = [k \in Keys |-> None]
  /\ published = {}
  /\ byHand = {}

At(w, pc) == wf[w].pc = pc

Moved(w, pc) == wf' = [wf EXCEPT ![w].pc = pc]

-----------------------------------------------------------------------------
\* A remembered answer is given again; otherwise the order is read.
ProcessPurchaseApproval(w, o, b, key, threshold) ==
  /\ At(w, "idle") /\ o \in P!Rows(order)
  /\ wf' = [wf EXCEPT ![w] =
       [pc |-> IF key # None /\ responses[key] # None THEN "done" ELSE "check",
        order |-> o, budget |-> b, key |-> key, threshold |-> threshold, decision |-> None]]
  /\ UNCHANGED <<vars, procurementVars, responses, published, byHand>>

\* The budget is looked at and the policy asked; the supplier counts as verified.
CheckBudgetAndPolicy(w) ==
  LET decision == ProcurementPolicy(Amount, Available(budget[wf[w].budget], Amount),
                                    TRUE, wf[w].threshold)
  IN /\ At(w, "check")
     /\ wf' = [wf EXCEPT ![w].decision = decision,
                         ![w].pc = IF decision = "AUTO_APPROVE" THEN "approve" ELSE "answer"]
     /\ UNCHANGED <<vars, procurementVars, responses, published, byHand>>

\* The order is approved, whatever its status ...
ApproveOrder(w) ==
  /\ At(w, "approve")
  /\ P!ApprovePurchaseOrder(w, wf[w].order)
  /\ Moved(w, "approving")
  /\ UNCHANGED <<vars, responses, published, byHand>>

\* ... which throws out of the workflow with a repository that cannot do it ...
OrderApproved(w) ==
  /\ At(w, "approving")
  /\ P!WriteOrderStatus(w)
  /\ Moved(w, IF P!Has("updatePurchaseOrder") THEN "allocating" ELSE "failed")
  /\ UNCHANGED <<vars, responses, published, byHand>>

\* ... and its total allocated.
Allocate(w) ==
  /\ At(w, "allocating")
  /\ \/ BeginAllocate(w, wf[w].budget, Amount)
     \/ ReadBudget(w) \/ InsertAllocation(w) \/ WriteBudget(w)
  /\ UNCHANGED <<procurementVars, workflowVars>>

\* *Fault*: a refused allocation leaves the order approved.
AfterRefusalGivenUp == "failed"

\* What follows a refused allocation.
AfterRefusal == "revert"

Allocated(w) ==
  /\ At(w, "allocating") /\ fin[w].pc \in {"done", "refused"}
  /\ Moved(w, IF fin[w].pc = "done" THEN "answer" ELSE AfterRefusal)
  /\ UNCHANGED <<vars, procurementVars, responses, published, byHand>>

\* The compensation: back to DRAFT, and the workflow throws.
RevertOrder(w) ==
  /\ \/ /\ At(w, "revert")
        /\ P!RevertPurchaseOrderToDraft(w, wf[w].order)
        /\ Moved(w, "reverting")
     \/ /\ At(w, "reverting")
        /\ P!WriteOrderStatus(w)
        /\ Moved(w, "failed")
  /\ UNCHANGED <<vars, responses, published, byHand>>

\* The event an answer puts into the outbox.
Events(w) ==
  CASE wf[w].decision = "AUTO_APPROVE" -> {<<w, "PurchaseOrderApproved">>}
    [] wf[w].decision = "REQUIRE_HUMAN_APPROVAL" -> {<<w, "PurchaseApprovalEscalated">>}
    [] wf[w].decision = "REJECT" -> {}

\* The answer, a rejection too, is remembered under the key.
Answer(w) ==
  /\ At(w, "answer")
  /\ published' = published \cup Events(w)
  /\ responses' = IF wf[w].key = None THEN responses
                                      ELSE [responses EXCEPT ![wf[w].key] = w]
  /\ Moved(w, "done")
  /\ UNCHANGED <<vars, procurementVars, byHand>>

-----------------------------------------------------------------------------
WorkflowStep(w) ==
  \/ \E o \in Orders, b \in Budgets, key \in Keys \cup {None}, t \in Thresholds :
       ProcessPurchaseApproval(w, o, b, key, t)
  \/ CheckBudgetAndPolicy(w) \/ ApproveOrder(w) \/ OrderApproved(w)
  \/ Allocate(w) \/ Allocated(w) \/ RevertOrder(w) \/ Answer(w)

Clients == Calls \ Workflows

\* What clients ask of Finance and of Procurement meanwhile.
FinanceStep ==
  /\ \/ \E c \in Clients : Begins(c) \/ Step(c)
     \/ \E e \in Expenses : CreateExpense(e)
  /\ UNCHANGED <<procurementVars, workflowVars>>

ProcurementStep(ClientStep) ==
  /\ ClientStep
  /\ byHand' = byHand \cup
       {proc'[c].id : c \in {d \in Clients : proc'[d].op = "approvePurchaseOrder"}}
  /\ UNCHANGED <<vars, wf, responses, published>>

PurchaseNext ==
  \/ \E w \in Workflows : WorkflowStep(w)
  \/ FinanceStep
  \/ \E c \in Clients : ProcurementStep(\/ P!SupplierStep(c) \/ P!RequestStep(c)
                                        \/ P!OrderStep(c) \/ P!ReceiptStep(c))

PurchaseSpec == PurchaseInit /\ [][PurchaseNext]_purchaseVars

-----------------------------------------------------------------------------
(* Properties. *)

\* The workflows between the approval of order o and the end of its
\* allocation or of its compensation.
Approving(o) ==
  {w \in Workflows : /\ wf[w].order = o
                     /\ wf[w].pc \in {"approving", "allocating", "revert", "reverting"}}

\* The allocations made for order o.
AllocationsFor(o) == {a \in allocations : a.by \in Workflows /\ wf[a.by].order = o}

\* An order no client approved is APPROVED, once no workflow is at it, only if
\* budget was allocated for it: whatever workflows race for the order or for
\* the budget, each that fails writes DRAFT after it wrote APPROVED.
ApprovedIsFunded ==
  \A o \in P!Rows(order) \ byHand :
    order[o].status = "APPROVED" /\ Approving(o) = {} => AllocationsFor(o) # {}

\* What apps/api/test/purchase-approval-workflow.test.ts:159 says: one key
\* allocates budget once.
AllocatedOncePerKey ==
  \A k \in Keys :
    Cardinality({a \in allocations : a.by \in Workflows /\ wf[a.by].key = k}) <= 1
=============================================================================
