------------------------------ MODULE Procurement ------------------------------
(***************************************************************************)
(* Suppliers, purchase requests, purchase orders and goods receipts:       *)
(* ProcurementService over either of its repositories.  Up to |Calls|      *)
(* handlers are under way at a time; each reads copies of rows and writes  *)
(* whole rows back after an await.  A handler that returns or throws goes  *)
(* back to Idle.                                                           *)
(***************************************************************************)
EXTENDS Naturals, FiniteSetsExt

CONSTANTS
  Calls,       \* handlers under way
  Suppliers, Requests, Orders, Receipts, \* the ids there are to give to rows
  Names, Keys, \* names of suppliers, idempotency keys
  Ordered,     \* the quantity of an order, its items added up
  None

VARIABLES
  driver,      \* the repository the deployment uses: "memory" or "prisma"
  supplier, request, order, receipt, \* the tables: row or None by id
  proc,        \* [Calls -> the local state of the handler]
  converted,   \* history: orders made of each request since it was last approved
  raced,       \* history: keys, names and requests two handlers used at once
  rewritten    \* history: orders whose status was written beside a receipt

pvars == <<driver, supplier, request, order, receipt, proc, converted, raced, rewritten>>

Supplier == [name : Names, isVerified : BOOLEAN]

PurchaseRequest == [status : {"PENDING", "APPROVED", "REJECTED", "CONVERTED"}]

PurchaseOrder ==
  [supplier : Suppliers, request : Requests \cup {None}, key : Keys \cup {None},
   status : {"DRAFT", "APPROVED", "RECEIVED"}]

GoodsReceipt == [order : Orders, quantity : 1 .. Ordered]

Idle == [op |-> "none", pc |-> "idle", id |-> None, seen |-> None, use |-> None]

TypeOK ==
  /\ driver \in {"memory", "prisma"}
  /\ supplier \in [Suppliers -> Supplier \cup {None}]
  /\ request \in [Requests -> PurchaseRequest \cup {None}]
  /\ order \in [Orders -> PurchaseOrder \cup {None}]
  /\ receipt \in [Receipts -> GoodsReceipt \cup {None}]
  /\ \A c \in Calls :
       proc[c].pc \in {"idle", "insert", "write", "supplier", "request", "convert", "sum"}

\* A deployment starts with no rows.
Init ==
  /\ driver \in {"memory", "prisma"}
  /\ supplier = [s \in Suppliers |-> None]
  /\ request = [r \in Requests |-> None]
  /\ order = [o \in Orders |-> None]
  /\ receipt = [g \in Receipts |-> None]
  /\ proc = [c \in Calls |-> Idle]
  /\ converted = [r \in Requests |-> 0]
  /\ raced = {}
  /\ rewritten = {}

Rows(table) == {id \in DOMAIN table : table[id] # None}

\* The ids are drawn at random; which one a row gets does not matter.
Fresh(table, id) == table[id] = None /\ id = CHOOSE x \in DOMAIN table : table[x] = None

Goto(c, pc) == proc' = [proc EXCEPT ![c].pc = pc]

Return(c) == proc' = [proc EXCEPT ![c] = Idle]

\* The methods the Prisma repository does not have: a call of one throws.
MissingInPrisma ==
  {"findSupplierByName", "updateSupplier", "updatePurchaseRequest",
   "updatePurchaseOrder", "findGoodsReceiptsByPurchaseOrderId"}

Has(method) == driver = "memory" \/ method \notin MissingInPrisma

\* Handlers, other than c, that looked for what c looks for and have not
\* yet written.
Rivals(c, use) == {d \in Calls \ {c} : proc[d].use = use}

-----------------------------------------------------------------------------
(* Suppliers. *)

\* createSupplier looks for the name ...
CreateSupplier(c, name) ==
  /\ proc[c] = Idle /\ Has("findSupplierByName")
  /\ \A s \in Rows(supplier) : supplier[s].name # name
  /\ proc' = [proc EXCEPT ![c] = [Idle EXCEPT !.op = "createSupplier",
                                    !.pc = "insert", !.use = name]]
  /\ raced' = raced \cup {n \in {name} : Rivals(c, n) # {}}
  /\ UNCHANGED <<driver, supplier, request, order, receipt, converted, rewritten>>

\* ... and an await later inserts it.
InsertSupplier(c, s) ==
  /\ proc[c].op = "createSupplier" /\ Fresh(supplier, s)
  /\ supplier' = [supplier EXCEPT ![s] = [name |-> proc[c].use, isVerified |-> FALSE]]
  /\ Return(c)
  /\ UNCHANGED <<driver, request, order, receipt, converted, raced, rewritten>>

-----------------------------------------------------------------------------
(* Handlers that read a row by its id, change a field and write it back;   *)
(* none looks at the status the row has.                                   *)

BeginChange(c, op, table, id) ==
  /\ proc[c] = Idle /\ id \in Rows(table)
  /\ proc' = [proc EXCEPT ![c] = [Idle EXCEPT !.op = op, !.pc = "write",
                                    !.id = id, !.seen = table[id]]]
  /\ UNCHANGED <<driver, supplier, request, order, receipt, converted, raced, rewritten>>

VerifySupplier(c, s) == BeginChange(c, "verifySupplier", supplier, s)
ApprovePurchaseRequest(c, r) == BeginChange(c, "approvePurchaseRequest", request, r)
RejectPurchaseRequest(c, r) == BeginChange(c, "rejectPurchaseRequest", request, r)
ApprovePurchaseOrder(c, o) == BeginChange(c, "approvePurchaseOrder", order, o)
RevertPurchaseOrderToDraft(c, o) == BeginChange(c, "revertPurchaseOrderToDraft", order, o)

WriteSupplier(c) ==
  /\ proc[c].op = "verifySupplier"
  /\ supplier' = IF Has("updateSupplier")
       THEN [supplier EXCEPT ![proc[c].id] = [proc[c].seen EXCEPT !.isVerified = TRUE]]
       ELSE supplier
  /\ Return(c)
  /\ UNCHANGED <<driver, request, order, receipt, converted, raced, rewritten>>

WriteRequest(c) ==
  LET approves == proc[c].op = "approvePurchaseRequest" IN
  /\ proc[c].op \in {"approvePurchaseRequest", "rejectPurchaseRequest"}
  /\ IF Has("updatePurchaseRequest")
       THEN /\ request' = [request EXCEPT ![proc[c].id] =
                 [proc[c].seen EXCEPT !.status = IF approves THEN "APPROVED" ELSE "REJECTED"]]
            /\ converted' = [converted EXCEPT ![proc[c].id] = IF approves THEN 0 ELSE @]
       ELSE UNCHANGED <<request, converted>>
  /\ Return(c)
  /\ UNCHANGED <<driver, supplier, order, receipt, raced, rewritten>>

WriteOrderStatus(c) ==
  /\ proc[c].op \in {"approvePurchaseOrder", "revertPurchaseOrderToDraft"}
  /\ IF Has("updatePurchaseOrder")
       THEN /\ order' = [order EXCEPT ![proc[c].id] = [proc[c].seen EXCEPT !.status =
                 IF proc[c].op = "approvePurchaseOrder" THEN "APPROVED" ELSE "DRAFT"]]
            /\ rewritten' = rewritten \cup
                 {o \in {proc[c].id} : \E g \in Rows(receipt) : receipt[g].order = o}
       ELSE UNCHANGED <<order, rewritten>>
  /\ Return(c)
  /\ UNCHANGED <<driver, supplier, request, receipt, converted, raced>>

-----------------------------------------------------------------------------
(* Requests become orders. *)

CreatePurchaseRequest(c, r) ==
  /\ proc[c] = Idle /\ Fresh(request, r)
  /\ request' = [request EXCEPT ![r] = [status |-> "PENDING"]]
  /\ UNCHANGED <<driver, supplier, order, receipt, proc, converted, raced, rewritten>>

\* createPurchaseOrder answers with the order that has its key, if there is
\* one ...
CreatePurchaseOrder(c, key, s, r) ==
  /\ proc[c] = Idle
  /\ key # None => \A o \in Rows(order) : order[o].key # key
  /\ proc' = [proc EXCEPT ![c] = [op |-> "createPurchaseOrder", pc |-> "supplier",
                                  id |-> s, seen |-> [request |-> r], use |-> key]]
  /\ raced' = raced \cup {k \in {key} \ {None} : Rivals(c, k) # {}}
  /\ UNCHANGED <<driver, supplier, request, order, receipt, converted, rewritten>>

\* The supplier of an order is there and verified.
Verified(s) == supplier[s] # None /\ supplier[s].isVerified

\* ... asks for a verified supplier ...
CheckSupplier(c) ==
  /\ proc[c].pc = "supplier"
  /\ IF Verified(proc[c].id)
       THEN Goto(c, IF proc[c].seen.request = None THEN "insert" ELSE "request")
       ELSE Return(c)
  /\ UNCHANGED <<driver, supplier, request, order, receipt, converted, raced, rewritten>>

\* *Fault*: a request may be turned into an order again.
MayConvertAgain(r) == request[r] # None /\ request[r].status \in {"APPROVED", "CONVERTED"}

\* Only an approved request becomes an order.
MayConvert(r) == request[r] # None /\ request[r].status = "APPROVED"

\* The handlers that hold a copy of request r to convert.
Converting(r) ==
  {c \in Calls : /\ proc[c].op = "createPurchaseOrder" /\ proc[c].seen.request = r
                 /\ proc[c].pc \in {"insert", "convert"}}

\* ... and for an approved request ...
CheckRequest(c) ==
  LET r == proc[c].seen.request IN
  /\ proc[c].pc = "request"
  /\ IF MayConvert(r)
       THEN /\ Goto(c, "insert")
            /\ raced' = raced \cup {x \in {r} : Converting(x) # {}}
       ELSE /\ Return(c)
            /\ UNCHANGED raced
  /\ UNCHANGED <<driver, supplier, request, order, receipt, converted, rewritten>>

\* ... inserts the order ...
InsertOrder(c, o) ==
  LET r == proc[c].seen.request IN
  /\ proc[c].op = "createPurchaseOrder" /\ proc[c].pc = "insert" /\ Fresh(order, o)
  /\ order' = [order EXCEPT ![o] = [supplier |-> proc[c].id, request |-> r,
                                    key |-> proc[c].use, status |-> "DRAFT"]]
  /\ IF r = None
       THEN /\ Return(c)
            /\ UNCHANGED converted
       ELSE /\ Goto(c, "convert")
            /\ converted' = [converted EXCEPT ![r] = @ + 1]
  /\ UNCHANGED <<driver, supplier, request, receipt, raced, rewritten>>

\* ... and marks the request, whatever has become of it since.
ConvertRequest(c) ==
  LET r == proc[c].seen.request IN
  /\ proc[c].pc = "convert"
  /\ request' = [request EXCEPT ![r].status = "CONVERTED"]
  /\ raced' = raced \cup {x \in {r} : request[x].status # "APPROVED"}
  /\ Return(c)
  /\ UNCHANGED <<driver, supplier, order, receipt, converted, rewritten>>

-----------------------------------------------------------------------------
(* Goods receipts. *)

\* receiveGoods reads the order, whatever its status ...
ReceiveGoods(c, o, quantity) ==
  /\ proc[c] = Idle /\ o \in Rows(order)
  /\ proc' = [proc EXCEPT ![c] = [op |-> "receiveGoods", pc |-> "insert", id |-> o,
                                  seen |-> order[o], use |-> quantity]]
  /\ UNCHANGED <<driver, supplier, request, order, receipt, converted, raced, rewritten>>

\* ... inserts the receipt ...
InsertReceipt(c, g) ==
  /\ proc[c].op = "receiveGoods" /\ proc[c].pc = "insert" /\ Fresh(receipt, g)
  /\ receipt' = [receipt EXCEPT ![g] = [order |-> proc[c].id, quantity |-> proc[c].use]]
  /\ Goto(c, "sum")
  /\ UNCHANGED <<driver, supplier, request, order, converted, raced, rewritten>>

Received(o) ==
  MapThenSumSet(LAMBDA g : receipt[g].quantity,
                {g \in Rows(receipt) : receipt[g].order = o})

\* The receipts so far make up the quantity ordered.
Completes(c) == Received(proc[c].id) >= Ordered

\* ... adds all receipts up ...
SumReceipts(c) ==
  /\ proc[c].pc = "sum"
  /\ IF Has("findGoodsReceiptsByPurchaseOrderId") /\ Completes(c)
       THEN Goto(c, "write") ELSE Return(c)
  /\ UNCHANGED <<driver, supplier, request, order, receipt, converted, raced, rewritten>>

\* ... and closes the order it read, if that is enough.
CloseOrder(c) ==
  /\ proc[c].op = "receiveGoods" /\ proc[c].pc = "write"
  /\ order' = [order EXCEPT ![proc[c].id] = [proc[c].seen EXCEPT !.status = "RECEIVED"]]
  /\ Return(c)
  /\ UNCHANGED <<driver, supplier, request, receipt, converted, raced, rewritten>>

-----------------------------------------------------------------------------
SupplierStep(c) ==
  \/ \E name \in Names : CreateSupplier(c, name)
  \/ \E s \in Suppliers : InsertSupplier(c, s) \/ VerifySupplier(c, s)
  \/ WriteSupplier(c)

RequestStep(c) ==
  \/ \E r \in Requests : \/ CreatePurchaseRequest(c, r)
                         \/ ApprovePurchaseRequest(c, r)
                         \/ RejectPurchaseRequest(c, r)
  \/ WriteRequest(c)

OrderStep(c) ==
  \/ \E k \in Keys \cup {None}, s \in Suppliers, r \in Requests \cup {None} :
       CreatePurchaseOrder(c, k, s, r)
  \/ CheckSupplier(c) \/ CheckRequest(c) \/ ConvertRequest(c)
  \/ \E o \in Orders : \/ InsertOrder(c, o)
                       \/ ApprovePurchaseOrder(c, o)
                       \/ RevertPurchaseOrderToDraft(c, o)
  \/ WriteOrderStatus(c)

ReceiptStep(c) ==
  \/ \E o \in Orders, q \in 1 .. Ordered : ReceiveGoods(c, o, q)
  \/ \E g \in Receipts : InsertReceipt(c, g)
  \/ SumReceipts(c) \/ CloseOrder(c)

Next == \E c \in Calls : SupplierStep(c) \/ RequestStep(c) \/ OrderStep(c) \/ ReceiptStep(c)

Spec == Init /\ [][Next]_pvars

-----------------------------------------------------------------------------
(* Properties. *)

\* Every order made from a request uses an approval of it up: one approval gives
\* one order, unless handlers held the request at the same time.  (A converted
\* request can be approved again, and then ordered again.)
OneOrderPerApproval == \A r \in Requests \ raced : converted[r] <= 1

\* An order is RECEIVED exactly if its receipts make the quantity up, once the
\* handlers that record receipts are through: of two concurrent receipts the
\* one that adds up last sees both.  Except for orders approved or reverted
\* after a receipt, whose status says nothing of what arrived.
ClosedWhenReceived ==
  \A o \in Rows(order) \ rewritten :
    (\A c \in Calls : proc[c].id # o \/ proc[c].op # "receiveGoods")
      => (order[o].status = "RECEIVED" <=> Received(o) >= Ordered)
=============================================================================
