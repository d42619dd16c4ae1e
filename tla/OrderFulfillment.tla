--------------------------- MODULE OrderFulfillment ---------------------------
(***************************************************************************)
(* OrderFulfillmentService composed with the inventory and sales services  *)
(* it calls and the replenishment it triggers.  A workflow checks every    *)
(* line of the order, reserves line by line, cancels what it reserved if a *)
(* line is refused, and otherwise moves the order to FULFILLED.  Whatever  *)
(* it calls takes the steps of Inventory and SalesOrders, interleaved with *)
(* those of other workflows and of clients changing the order.             *)
(***************************************************************************)
EXTENDS Integers, Sequences, FiniteSets

CONSTANTS
  Workflows,        \* invocations of processOrderFulfillment, each runs once
  Orders,           \* sales orders
  Items,            \* products, all in one warehouse
  Lines,            \* the items of an order, in order; one unit each
  ClientUpdates,    \* status changes clients ask for
  Keys,             \* idempotency keys of workflow requests
  NoKey,
  None,
  InitialQuantity,
  MinQuantity       \* the reorder rule of every item

ASSUME LinesAssumption == Lines \in Seq(Items) /\ Lines # <<>>
ASSUME MinAssumption == MinQuantity \in Nat

VARIABLES
  stock, reservations, movements, call, returned, raced,  \* Inventory
  order, update, overtaken,                               \* SalesOrders
  wf,               \* [Workflows -> the local state of the workflow]
  idempotencyStore, \* [Keys -> the cached outcome, or None]
  replenished       \* <<workflow, item>>: purchase requests created

inventoryVars == <<stock, reservations, movements, call, returned, raced>>
salesVars == <<order, update, overtaken>>
vars == <<inventoryVars, salesVars, wf, idempotencyStore, replenished>>

LineNumbers == DOMAIN Lines

\* The calls a workflow makes: one reservation and one cancellation a line.
LineCalls == Workflows \X LineNumbers \X {"reserve", "cancel"}

LineKeys == Keys \X Orders \X LineNumbers

StatusCalls == Workflows \X {"APPROVED", "FULFILLED"}

Inv == INSTANCE Inventory WITH
  Calls <- LineCalls, Keys <- LineKeys, Quantities <- {1}

Sales == INSTANCE SalesOrders WITH Updates <- StatusCalls \cup ClientUpdates

\* No invocation is made twice, and None and NoKey stand for nothing else.
ASSUME CallsAssumption == ClientUpdates \cap StatusCalls = {}
ASSUME NoneAssumption ==
  /\ None \notin LineCalls \cup Inv!Reservation \cup Orders \cup Sales!Order \cup {"PENDING"}
  /\ None \notin [item : Items, quantity : {1}]
  /\ NoKey \notin Keys \cup LineKeys
ASSUME StockAssumption == InitialQuantity \in Nat

Idle == [pc |-> "idle", order |-> None, key |-> NoKey, status |-> None,
         line |-> 1, left |-> {}]

Finished == {"completed", "failed", "replayed", "error"}

-----------------------------------------------------------------------------
Enter(w, pc) == wf' = [wf EXCEPT ![w].pc = pc, ![w].line = 1]

\* A response is remembered only under a key, and only at the very end.
Remember(w, outcome) ==
  idempotencyStore' =
    IF wf[w].key = NoKey THEN idempotencyStore
    ELSE [idempotencyStore EXCEPT ![wf[w].key] = outcome]

Fulfillable == {"DRAFT", "PENDING_APPROVAL", "APPROVED"}

(***************************************************************************)
(* The idempotency check and, in the same tick, the read of the order.  An *)
(* order that cannot be fulfilled makes the call throw.                    *)
(***************************************************************************)
Begin(w, o, k) ==
  /\ wf[w] = Idle
  /\ wf' = [wf EXCEPT ![w] =
       [Idle EXCEPT !.order = o, !.key = k, !.status = order[o].status,
          !.pc = IF k # NoKey /\ idempotencyStore[k] # None THEN "replayed"
                 ELSE IF order[o].status \notin Fulfillable THEN "error"
                 ELSE "check"]]
  /\ UNCHANGED <<inventoryVars, salesVars, idempotencyStore, replenished>>

\* checkAvailability of one line; the first line that is short stops it.
CheckLine(w) ==
  LET l == wf[w].line IN
  /\ wf[w].pc = "check"
  /\ \/ /\ Inv!Available(stock[Lines[l]]) >= 1
        /\ IF l < Len(Lines) THEN wf' = [wf EXCEPT ![w].line = l + 1]
                             ELSE Enter(w, "reserve")
     \/ /\ Inv!Available(stock[Lines[l]]) < 1
        /\ wf' = [wf EXCEPT ![w].pc = "replenishAll", ![w].left = Items]
  /\ UNCHANGED <<inventoryVars, salesVars, idempotencyStore, replenished>>

\* Each line is reserved under a key of its own: `${idempotencyKey}:${item.id}`.
LineKey(w, l) ==
  IF wf[w].key = NoKey THEN NoKey ELSE <<wf[w].key, wf[w].order, l>>

ReserveLine(w) ==
  LET l == wf[w].line IN
  /\ wf[w].pc = "reserve"
  /\ Inv!BeginReserve(<<w, l, "reserve">>, Lines[l], 1, LineKey(w, l))
  /\ UNCHANGED <<salesVars, wf, idempotencyStore, replenished>>

\* A reservation that throws sends the workflow to compensation.
LineReserved(w) ==
  LET l == wf[w].line
      c == call[<<w, l, "reserve">>]
  IN
  /\ wf[w].pc = "reserve"
  /\ \/ /\ c.pc = "done" /\ l < Len(Lines)
        /\ wf' = [wf EXCEPT ![w].line = l + 1]
     \/ /\ c.pc = "done" /\ l = Len(Lines)
        /\ Enter(w, IF wf[w].status = "APPROVED" THEN "fulfil" ELSE "approve")
     \/ /\ c.pc = "failed"
        /\ Enter(w, "compensate")
  /\ UNCHANGED <<inventoryVars, salesVars, idempotencyStore, replenished>>

(***************************************************************************)
(* Compensation: the reservations collected so far are cancelled one after *)
(* the other, errors ignored, and the failure is the workflow's answer.    *)
(***************************************************************************)
\* Fault: what was reserved is not noted down.
CollectedNothing(w, l) == FALSE

Collected(w, l) == call[<<w, l, "reserve">>].pc = "done"

CancelLine(w) ==
  LET l == wf[w].line IN
  /\ wf[w].pc = "compensate" /\ Collected(w, l)
  /\ Inv!BeginCancel(<<w, l, "cancel">>, call[<<w, l, "reserve">>].target)
  /\ UNCHANGED <<salesVars, wf, idempotencyStore, replenished>>

LineCancelled(w) ==
  LET l == wf[w].line IN
  /\ wf[w].pc = "compensate" /\ Collected(w, l)
  /\ call[<<w, l, "cancel">>].pc \in {"done", "failed"}
  /\ wf' = [wf EXCEPT ![w].line = l + 1]
  /\ UNCHANGED <<inventoryVars, salesVars, idempotencyStore, replenished>>

Compensated(w) ==
  /\ wf[w].pc = "compensate" /\ ~Collected(w, wf[w].line)
  /\ Enter(w, "failed")
  /\ Remember(w, "failed")
  /\ UNCHANGED <<inventoryVars, salesVars, replenished>>

(***************************************************************************)
(* The order's status: APPROVED first unless the copy read at the start    *)
(* was, then FULFILLED.  A refused transition throws out of the workflow,  *)
(* which then neither compensates nor remembers an answer.                 *)
(***************************************************************************)
StatusWanted(w) == IF wf[w].pc = "approve" THEN "APPROVED" ELSE "FULFILLED"

UpdateStatus(w) ==
  /\ wf[w].pc \in {"approve", "fulfil"}
  /\ Sales!BeginUpdateOrderStatus(<<w, StatusWanted(w)>>, wf[w].order,
                                  StatusWanted(w))
  /\ UNCHANGED <<inventoryVars, wf, idempotencyStore, replenished>>

StatusUpdated(w) ==
  /\ wf[w].pc \in {"approve", "fulfil"}
  /\ \/ /\ update[<<w, StatusWanted(w)>>].pc = "refused"
        /\ Enter(w, "error")
     \/ /\ update[<<w, StatusWanted(w)>>].pc = "done"
        /\ IF wf[w].pc = "approve" THEN Enter(w, "fulfil")
           ELSE wf' = [wf EXCEPT ![w].pc = "replenish",
                                 ![w].left = {Lines[l] : l \in LineNumbers}]
  /\ UNCHANGED <<inventoryVars, salesVars, idempotencyStore, replenished>>

(***************************************************************************)
(* Replenishment reads what is available of an item and creates a purchase *)
(* request if that is below the minimum, whether or not one is open.  It   *)
(* runs over the order's lines after a fulfilment, over every reorder rule *)
(* of the warehouse when a line was short.                                 *)
(***************************************************************************)
\* Fault: goods that are promised still count as stock.
OutOfStock(i) == stock[i].quantity < MinQuantity

Short(i) == Inv!Available(stock[i]) < MinQuantity

Replenish(w) ==
  /\ wf[w].pc \in {"replenish", "replenishAll"}
  /\ \E i \in wf[w].left :
       /\ wf' = [wf EXCEPT ![w].left = @ \ {i}]
       /\ replenished' = IF Short(i) THEN replenished \cup {<<w, i>>}
                                     ELSE replenished
  /\ UNCHANGED <<inventoryVars, salesVars, idempotencyStore>>

Answer(w) ==
  LET outcome == IF wf[w].pc = "replenish" THEN "completed" ELSE "failed" IN
  /\ wf[w].pc \in {"replenish", "replenishAll"} /\ wf[w].left = {}
  /\ Enter(w, outcome)
  /\ Remember(w, outcome)
  /\ UNCHANGED <<inventoryVars, salesVars, replenished>>

-----------------------------------------------------------------------------
InventoryStep ==
  /\ \E c \in LineCalls : Inv!Step(c)
  /\ UNCHANGED <<salesVars, wf, idempotencyStore, replenished>>

SalesStep ==
  /\ \E u \in StatusCalls \cup ClientUpdates : Sales!Step(u)
  /\ UNCHANGED <<inventoryVars, wf, idempotencyStore, replenished>>

ClientUpdate(u) ==
  /\ \E o \in Orders, s \in Sales!Status : Sales!BeginUpdateOrderStatus(u, o, s)
  /\ UNCHANGED <<inventoryVars, wf, idempotencyStore, replenished>>

Init ==
  /\ Inv!Init
  /\ Sales!Init
  /\ wf = [w \in Workflows |-> Idle]
  /\ idempotencyStore = [k \in Keys |-> None]
  /\ replenished = {}

WorkflowStep(w) ==
  \/ CheckLine(w)
  \/ ReserveLine(w)
  \/ LineReserved(w)
  \/ CancelLine(w)
  \/ LineCancelled(w)
  \/ Compensated(w)
  \/ UpdateStatus(w)
  \/ StatusUpdated(w)
  \/ Replenish(w)
  \/ Answer(w)

Next ==
  \/ \E w \in Workflows :
       \/ \E o \in Orders, k \in Keys \cup {NoKey} : Begin(w, o, k)
       \/ WorkflowStep(w)
  \/ \E u \in ClientUpdates : ClientUpdate(u)
  \/ InventoryStep
  \/ SalesStep

Spec == Init /\ [][Next]_vars

-----------------------------------------------------------------------------
TypeOK ==
  /\ Inv!TypeOK
  /\ Sales!TypeOK
  /\ wf \in [Workflows ->
       [pc : {"idle", "check", "reserve", "compensate", "approve", "fulfil",
              "replenish", "replenishAll"} \cup Finished,
        order : Orders \cup {None}, key : Keys \cup {NoKey},
        status : Sales!Status \cup {None}, line : 1..Len(Lines) + 1,
        left : SUBSET Items]]
  /\ idempotencyStore \in [Keys -> {"completed", "failed", None}]
  /\ replenished \subseteq Workflows \X Items

ReservedBy(w) ==
  {l \in LineNumbers : /\ reservations[<<w, l, "reserve">>] # None
                       /\ reservations[<<w, l, "reserve">>].status = "PENDING"}

\* Workflows that were given the same idempotency key as w.
Siblings(w) ==
  {v \in Workflows \ {w} : wf[w].key # NoKey /\ wf[v].key = wf[w].key}

(***************************************************************************)
(* A workflow that answered FAILED holds no stock, wherever it failed and  *)
(* whatever other workflows did in the meantime.                           *)
(***************************************************************************)
FailedHoldsNothing ==
  \A w \in Workflows : wf[w].pc = "failed" => ReservedBy(w) = {}

(***************************************************************************)
(* A workflow that answered COMPLETED holds every line of its order, unless*)
(* another one was given the same idempotency key.                         *)
(***************************************************************************)
CompletedHoldsAll ==
  \A w \in Workflows :
    wf[w].pc = "completed" /\ Siblings(w) = {} => ReservedBy(w) = LineNumbers

(***************************************************************************)
(* Unless two status changes raced on its row, an order is fulfilled by at *)
(* most one workflow: the transition to FULFILLED is what decides between  *)
(* workflows that all passed the check at the start.                       *)
(***************************************************************************)
FulfilledOnce ==
  \A o \in Orders \ overtaken :
    Cardinality({w \in Workflows : wf[w].pc = "completed"
                                   /\ wf[w].order = o}) <= 1

(***************************************************************************)
(* When every workflow has answered, an item of a fulfilled order that is  *)
(* below its minimum has been re-ordered, unless its row was written from  *)
(* an out-of-date copy: two cancellations that race on the row give one    *)
(* unit back, and a workflow that failed does not look at the minimum.     *)
(***************************************************************************)
NoSilentShortage ==
  (\A w \in Workflows : wf[w].pc \in Finished \cup {"idle"}) =>
     \A w \in Workflows, l \in LineNumbers :
       /\ wf[w].pc = "completed" /\ Lines[l] \notin raced
       /\ \A v \in Workflows : wf[v].pc # "error"
       /\ Inv!Available(stock[Lines[l]]) < MinQuantity
       => \E v \in Workflows : <<v, Lines[l]>> \in replenished

(***************************************************************************)
(* "should respect idempotency key across multiple invocations"            *)
(* (apps/api/test/order-fulfillment-workflow.test.ts): whoever else was    *)
(* given the key, a workflow that answered COMPLETED still holds its       *)
(* lines.  False: a sibling is handed this workflow's reservation by the   *)
(* line's key and cancels it when it fails on a later line.                *)
(***************************************************************************)
SiblingsDoNotInterfere ==
  \A w \in Workflows : wf[w].pc = "completed" =>
    \A l \in LineNumbers :
      reservations[call[<<w, l, "reserve">>].target].status = "PENDING"
=============================================================================
