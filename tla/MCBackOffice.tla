----------------------------- MODULE MCBackOffice -----------------------------
(***************************************************************************)
(* The back office, one scene at a time: purchasing (with Finance),        *)
(* accounting, ticketing, staffing and sales orders share no tables and    *)
(* each scene starts from tables its handlers can find.  PurchaseApproval  *)
(* keeps its variables; the other components take the slots s1, s2, ... in *)
(* turn, as INSTANCE lists them, and borrow its names for their handlers:  *)
(* fewer names to permute.                                                 *)
(***************************************************************************)
EXTENDS PurchaseApproval, TLC

CONSTANTS Scenes,
          Codes, Accounts, Journals, Invoices, References, Total, PostingThresholds,
          Tickets, People, Questions, Parcels, Hours, Rates, Loads,
          WarehousePerHead, CourierPerHead, DefaultRate, JustificationThreshold, OverloadHours,
          Sold

\* The scenes have something to begin with.
ASSUME SceneAssumption == Suppliers # {} /\ Names # {} /\ Orders # {}

VARIABLES scene, s1, s2, s3, s4, s5, s6, s7, s8, s9, s10, s11, s12

slots == <<s1, s2, s3, s4, s5, s6, s7, s8, s9, s10, s11, s12>>

Books == INSTANCE FinancialPosting WITH
  Thresholds <- PostingThresholds,
  driver <- s1, account <- s2, journal <- s3, invoice <- s4, received <- s5, call <- s6,
  reread <- s7, unrecorded <- s8, posting <- s9, responses <- s10, outbox <- s11, byHand <- s12

Desk == INSTANCE Ticketing WITH
  Desks <- Workflows,
  driver <- s1, ticket <- s2, sla <- s3, assignments <- s4, overdue <- s5, desk <- s6,
  contended <- s7, escalated <- s8, reviewed <- s9, inTime <- s10

HR == INSTANCE OvertimeApproval WITH
  Employees <- People, Requests <- Questions, Orders <- Parcels,
  Assessors <- Expenses, Approvals <- Workflows,
  driver <- s1, employee <- s2, request <- s3, clock <- s4, delivery <- s5, assessor <- s6,
  staffTickets <- s7, overlapped <- s8, restaffed <- s9, approval <- s10,
  approvalTickets <- s11, byHand <- s12

Sales == INSTANCE SalesOrders WITH
  Orders <- Sold, Updates <- Calls \ Workflows,
  order <- s1, update <- s2, overtaken <- s3

\* Invoices are of something, and accounts have codes of their own.
ASSUME LedgerAssumption ==
  /\ Total \in Nat \ {0} /\ Amounts # {}
  /\ None \notin Codes \cup Journals \cup Invoices \cup Books!Journal \cup Books!Invoice
  /\ \E f \in [Accounts -> Codes] : \A x, y \in Accounts : x # y => f[x] # f[y]

\* Tickets are finitely many, and no ticket or status is the absence of one.
ASSUME TicketAssumption == IsFiniteSet(Tickets) /\ None \notin Tickets \cup Desk!TicketStatus

\* There are employees to hire, and hours, rates and loads are numbers.
ASSUME StaffAssumption ==
  /\ People # {} /\ IsFiniteSet(People) /\ IsFiniteSet(Parcels)
  /\ Hours \cup Rates \cup Loads \cup {WarehousePerHead, CourierPerHead, DefaultRate} \subseteq Nat
  /\ None \notin Nat \cup HR!Request \cup HR!Employee

\* No order, key or outcome is the absence of one.
ASSUME SaleAssumption == None \notin Keys \cup Sales!Order \cup Sales!Outcome

MCTotals == {2}
MCAmounts == {1, 2}
MCThresholds == {0, 1}
Clerks == Calls \ Workflows
Symmetric == Permutations(Clerks) \cup Permutations(Workflows) \cup Permutations(Expenses)

Unused(s) == s = None
NoRows(S) == [x \in S |-> None]
Count(S, Held(_)) == Cardinality({x \in S : Held(x)})

-----------------------------------------------------------------------------
(* Purchasing and Finance. *)

Known == [s \in Suppliers |-> [name |-> CHOOSE n \in Names : TRUE, isVerified |-> TRUE]]
\* An order made earlier.
Open == [supplier |-> CHOOSE s \in Suppliers : TRUE, request |-> None, key |-> None,
         status |-> "DRAFT"]
OneOpen == [o \in Orders |-> IF o = CHOOSE x \in Orders : TRUE THEN Open ELSE None]

Purchasing == {"sourcing", "receiving", "approval", "finance"}

PurchasingInit ==
  /\ Init
  /\ converted = [r \in Requests |-> 0]
  /\ wf = [w \in Workflows |-> NotStarted]
  /\ proc = [c \in Calls |-> P!Idle]
  /\ responses = NoRows(Keys) /\ published = {}
  /\ receipt = NoRows(Receipts) /\ request = NoRows(Requests)
  /\ raced = {} /\ rewritten = {} /\ byHand = {}
  /\ IF scene = "sourcing"
       THEN driver \in {"memory", "prisma"} /\ supplier = NoRows(Suppliers) /\ order = NoRows(Orders)
       ELSE driver = "memory" /\ supplier = Known /\ order = OneOpen

Sourcing == \E c \in Clients : ProcurementStep(
  \/ P!SupplierStep(c) \/ P!RequestStep(c)
  \/ P!OrderStep(c) /\ \A d \in Calls :
       proc'[d].op \notin {"approvePurchaseOrder", "revertPurchaseOrderToDraft"})

Receiving == \E c \in Clients : ProcurementStep(
  \/ P!ReceiptStep(c) \/ P!WriteOrderStatus(c)
  \/ \E o \in Orders : P!ApprovePurchaseOrder(c, o) \/ P!RevertPurchaseOrderToDraft(c, o))

Approval ==
  \/ \E w \in Workflows : WorkflowStep(w)
  \/ /\ FinanceStep
     /\ Count(Clients, LAMBDA c : fin'[c].pc # "idle") <= 1
     /\ expense' = expense
  \/ \E c \in Clients : ProcurementStep(
       P!WriteOrderStatus(c) \/ \E o \in Orders : P!ApprovePurchaseOrder(c, o))

\* Bound: procurement calls clients have begun.
Begun == CASE scene = "approval" -> 1 [] scene = "sourcing" -> 2 [] OTHER -> 3

PurchasingNext ==
  /\ \/ scene = "sourcing" /\ Sourcing
     \/ scene = "receiving" /\ Receiving
     \/ scene = "approval" /\ Approval
     \/ scene = "finance" /\ FinanceStep
  /\ Count(Clients, LAMBDA c : proc'[c].pc # "idle") <= Begun
  /\ UNCHANGED slots

-----------------------------------------------------------------------------
(* Accounting.  Journals and invoices refer to accounts made before. *)

Bookkeeping == {"accounts", "journals", "invoices", "posting"}
Chart == CHOOSE f \in [Accounts -> Codes] : \A x, y \in Accounts : x # y => f[x] # f[y]

BookkeepingInit ==
  /\ s1 \in {"memory", "prisma"}
  /\ s2 = IF scene = "accounts" THEN NoRows(Accounts) ELSE Chart
  /\ s3 = NoRows(Journals) /\ s4 = NoRows(Invoices) /\ s5 = [i \in Invoices |-> 0]
  /\ s6 = [c \in Calls |-> Books!Idle]
  /\ s7 = {} /\ s8 = {}
  /\ Books!PostingInit

BookkeepingNext ==
  \/ /\ UNCHANGED <<s9, s10, s11, s12>>
     /\ \/ scene = "accounts" /\ \E c \in Clerks : Books!AccountStep(c)
        \/ scene = "journals" /\ \/ \E c \in Clerks : Books!JournalStep(c)
                                 \/ \E j \in Journals, r \in References :
                                      Books!CreateJournal(j, r, CHOOSE n \in Amounts : TRUE)
        \/ /\ scene = "invoices" 
           /\ \/ \E c \in Clerks : Books!InvoiceStep(c)
              \/ \E i \in Invoices : Books!CreateInvoice(i)
           /\ \A i \in Invoices : s5'[i] <= 2 * Total
  \/ scene = "posting" /\ \E w \in Workflows : Books!PostingStep(w)
  \/ /\ scene = "posting" /\ Books!ClientStep
     /\ Count(Journals, LAMBDA j : s3'[j] # None) <= 2 /\ s4' = s4
     /\ Count(Clerks, LAMBDA c : s6'[c] # Books!Idle) <= 1

-----------------------------------------------------------------------------
(* Ticketing: the life of one ticket, or service levels of open tickets. *)

TicketsNext ==
  /\ Desk!TicketNext
  /\ \A t \in Tickets : s4'[t] <= 1
  /\ \/ /\ scene = "tickets" /\ s3' = s3
        /\ Count(Tickets, LAMBDA t : s2'[t] # None) <= 1
        /\ \A d \in Workflows : s6'[d].op # "attachSla"
     \/ /\ scene = "service levels" /\ s7' = {}
        /\ \A t \in Tickets : s2'[t] \in {None, "OPEN"}
        /\ \A d \in Workflows : s6'[d].op \notin {"assignTicket", "updateStatus"}

-----------------------------------------------------------------------------
(* Staff hired and clocked in; orders shipped by a staff of one in the     *)
(* warehouse and two couriers; overtime they ask for and are asked for.    *)

Staffing == {"hiring", "shipping", "overtime"}
Hired == CHOOSE f \in [People -> {"WAREHOUSE", "COURIER"}] :
           Count(People, LAMBDA e : f[e] = "WAREHOUSE") = 1

StaffingInit ==
  /\ IF scene = "hiring"
       THEN HR!HrisInit
       ELSE /\ s1 = "memory" /\ s2 = [e \in People |-> [role |-> Hired[e], rate |-> 30]]
            /\ s3 = NoRows(Questions) /\ s4 = [e \in People |-> "none"]
            /\ s5 = [o \in Parcels |-> [e \in People |-> 0]]
            /\ s6 = [a \in Expenses |-> HR!Resting]
            /\ s7 = 0 /\ s8 = FALSE /\ s9 = FALSE
  /\ HR!ApprovalInit

Assessing(assessor) == {a \in Expenses : assessor[a] # HR!Resting}

StaffingNext ==
  \/ /\ scene = "hiring" /\ HR!StaffStep /\ UNCHANGED <<s10, s11, s12>>
     /\ Count(People, LAMBDA e : s2'[e] # None) <= 2
  \/ /\ scene = "shipping" /\ HR!AssessStep /\ UNCHANGED <<s10, s11, s12>>
     /\ s7' <= 1 /\ \A o \in Parcels, e \in People : s5'[o][e] <= 2
     /\ s8 => Assessing(s6') \subseteq Assessing(s6)
  \/ /\ scene = "overtime" /\ (HR!ApprovalStep \/ (HR!RequestStep /\ HR!ByHand))
     /\ Cardinality(s12') <= 1
     /\ Count(Questions, LAMBDA r : s3'[r] # None) <= 1

-----------------------------------------------------------------------------
(* Sales orders: the handlers race on one order, or orders are made, with  *)
(* and without a key, beside them.                                         *)

Selling == {"sales", "ordering"}
First == CHOOSE o \in Sold : TRUE

SellingInit ==
  /\ \E row \in Sales!Unkeyed :
       s1 = [o \in Sold |-> IF scene = "sales" /\ o = First THEN row ELSE None]
  /\ s2 = [u \in Clerks |-> Sales!Idle] /\ s3 = {}

\* Calls of one kind or the other.
Changes(u) == u.op \notin {"none", "createSalesOrder"}

\* Bound: no order is made in the first scene, one call changes orders in the second.
SellingNext ==
  /\ Sales!Next
  /\ scene = "sales" => \A u \in Clerks : s2'[u].op # "createSalesOrder"
  /\ scene = "ordering" => Count(Clerks, LAMBDA u : Changes(s2'[u])) <= 1

-----------------------------------------------------------------------------
\* Slots a scene leaves unused.
NoneTo3 == s1 = None /\ s2 = None /\ s3 = None
None4To10 == /\ s4 = None /\ s5 = None /\ s6 = None /\ s7 = None /\ s8 = None
             /\ s9 = None /\ s10 = None
NoneFrom11 == s11 = None /\ s12 = None
from4 == <<s4, s5, s6, s7, s8, s9, s10>>
from11 == <<s11, s12>>

MCInit ==
  /\ scene \in Scenes
  /\ PurchasingInit
  /\ \/ scene \in Purchasing /\ NoneTo3 /\ None4To10 /\ NoneFrom11
     \/ scene \in Bookkeeping /\ BookkeepingInit
     \/ scene \in {"tickets", "service levels"} /\ Desk!TicketInit /\ NoneFrom11
     \/ scene \in Staffing /\ StaffingInit
     \/ scene \in Selling /\ SellingInit /\ None4To10 /\ NoneFrom11

MCNext ==
  /\ UNCHANGED scene
  /\ \/ scene \in Purchasing /\ PurchasingNext
     \/ /\ UNCHANGED purchaseVars
        /\ \/ scene \in Bookkeeping /\ BookkeepingNext
           \/ scene \in {"tickets", "service levels"} /\ TicketsNext /\ UNCHANGED from11
           \/ scene \in Staffing /\ StaffingNext
           \/ scene \in Selling /\ SellingNext /\ UNCHANGED <<from4, from11>>

MCSpec == MCInit /\ [][MCNext]_<<purchaseVars, scene, slots>>

-----------------------------------------------------------------------------
(* Properties: those of the components, each in the scenes it speaks of,   *)
(* with the types of their variables.                                      *)

\* However clerks interleave over the tables of purchasing, no request is ordered
\* twice unless two of its conversions raced, and an order whose goods came is closed
\* (procurement.service.ts:186-353).
OrdersMatchApprovals == P!TypeOK /\ P!OneOrderPerApproval /\ P!ClosedWhenReceived

\* What a budget row says of its money is what its allocations and its approved
\* expenses add up to, lost updates aside (finance.service.ts).
FundsAddUp == TypeOK /\ AllocationsAddUp /\ SpentOnApproved

\* The ledger is settled: a reversed journal has its reversal, once, an invoice is
\* PAID exactly if its payments make it up (accounting.service.ts:183-380), and the
\* posting workflow announces a journal once and posts none unannounced
\* (financial-posting.service.ts:49-205).
LedgerIsSettled ==
  /\ scene \in Bookkeeping => Books!TypeOK /\ Books!ReversedOnce /\ Books!PaidInFull
  /\ scene = "posting" => Books!PostingTypeOK /\ Books!AnnouncedOnce

\* An escalated ticket is resolved only after its review, and a service level says of
\* its clocks what was so (ticketing.service.ts).
TicketsTellTheTruth ==
  scene \in {"tickets", "service levels"} =>
    Desk!TicketTypeOK /\ Desk!EscalatedIsReviewed /\ Desk!SlaTellsTheTruth

\* The couriers share the deliveries, none of them made twice (hris.service.ts:81-258),
\* and overtime the staffing assessment asks for is approved or left to a human
\* (overtime-approval.service.ts:49-191).
StaffIsTreatedFairly ==
  scene \in Staffing => /\ HR!HrisTypeOK /\ HR!CouriersShareDeliveries
                        /\ HR!ApprovalTypeOK /\ HR!SurgeIsNeverRejected

\* The outcome of a lead decides the status of its order, and an order sent again
\* under its key after an answer is not made again (sales.service.ts:77-347).
SalesOrdersHold ==
  scene \in Selling => Sales!TypeOK /\ Sales!LeadDecidesStatus /\ Sales!OneOrderPerKey

\* What was decided stands, races aside: expenses (finance.service.ts:281-341), orders
\* that are settled until their lead is closed, and leads (sales.service.ts:222-347).
DecisionsStand ==
  [][/\ KeepsDecided
     /\ scene \in Selling => Sales!KeepsTerminal /\ Sales!KeepsDecision]_<<purchaseVars, scene, slots>>
=============================================================================
