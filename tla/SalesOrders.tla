----------------------------- MODULE SalesOrders -----------------------------
(***************************************************************************)
(* The sales order table of SalesService and the handlers that write it.   *)
(* createSalesOrder looks its idempotency key up and creates the order     *)
(* awaits later; updateOrderStatus, assignLead and closeLead each read a   *)
(* copy of the order, check it, and write the whole copy back after an     *)
(* await.                                                                  *)
(***************************************************************************)
EXTENDS Naturals

CONSTANTS
  Orders,     \* sales orders
  Updates,    \* invocations of the four handlers, each runs once
  Keys,       \* idempotency keys clients send with an order
  None

VARIABLES
  order,      \* [Orders -> Order, or None]: the sales order table
  update,     \* [Updates -> the local state of the invocation]
  overtaken   \* history: orders written from an out-of-date copy

vars == <<order, update, overtaken>>

Status == {"DRAFT", "PENDING_APPROVAL", "APPROVED", "REJECTED", "CANCELLED",
           "FULFILLED"}

Outcome == {"PENDING", "WON", "LOST"}

Order == [status : Status, channel : {"DIRECT_SALES", "MARKETPLACE"},
          assigned : BOOLEAN, outcome : Outcome \cup {None},
          key : Keys \cup {None}]

\* The row of a new order: a marketplace order is approved at once and has
\* no lead; a direct one is a draft, assigned if there is an active rep.
Created ==
  {o \in Order :
     \/ /\ o.channel = "MARKETPLACE" /\ o.status = "APPROVED"
        /\ o.outcome = None /\ ~o.assigned
     \/ /\ o.channel = "DIRECT_SALES" /\ o.status = "DRAFT"
        /\ o.outcome = "PENDING"}

\* Orders of before carry no key here.
Unkeyed == {o \in Created : o.key = None}

\* Fault: asking for the status an order already has is accepted.
validTransitionsReflexive ==
  [s \in Status |->
     CASE s = "DRAFT"            -> {"PENDING_APPROVAL", "APPROVED", "CANCELLED"}
       [] s = "PENDING_APPROVAL" -> {"APPROVED", "REJECTED", "CANCELLED"}
       [] OTHER                  -> {s, "FULFILLED", "CANCELLED"}]

validTransitions ==
  [s \in Status |->
     CASE s = "DRAFT"            -> {"PENDING_APPROVAL", "APPROVED", "CANCELLED"}
       [] s = "PENDING_APPROVAL" -> {"APPROVED", "REJECTED", "CANCELLED"}
       [] s = "APPROVED"         -> {"FULFILLED", "CANCELLED"}
       [] OTHER                  -> {}]

Idle == [op |-> "none", pc |-> "idle", order |-> None, argument |-> None,
         seen |-> None, after |-> {}]

Existing == {o \in Orders : order[o] # None}

LeadOpen(o) == o.outcome \in {None, "PENDING"}

\* The checks a handler makes on the copy it read.
Accepts(u, o) ==
  CASE update[u].op = "updateOrderStatus" ->
         update[u].argument \in validTransitions[o.status]
    [] update[u].op = "assignLead" ->
         o.channel # "MARKETPLACE" /\ LeadOpen(o)
    [] update[u].op = "closeLead" ->
         o.channel # "MARKETPLACE" /\ o.assigned /\ LeadOpen(o)

\* Fault: a lost lead leaves its order alone.
ChangedWonOnly(u) ==
  LET o == update[u].seen IN
  CASE update[u].op = "updateOrderStatus" ->
         [o EXCEPT !.status = update[u].argument]
    [] update[u].op = "assignLead" ->
         [o EXCEPT !.assigned = TRUE, !.outcome = "PENDING"]
    [] update[u].op = "closeLead" ->
         [o EXCEPT !.outcome = update[u].argument,
                   !.status = IF update[u].argument = "WON" THEN "APPROVED"
                                                            ELSE o.status]

\* The row a handler writes back.  closeLead sets the status without
\* looking at validTransitions.
Changed(u) ==
  LET o == update[u].seen IN
  CASE update[u].op = "updateOrderStatus" ->
         [o EXCEPT !.status = update[u].argument]
    [] update[u].op = "assignLead" ->
         [o EXCEPT !.assigned = TRUE, !.outcome = "PENDING"]
    [] update[u].op = "closeLead" ->
         [o EXCEPT !.outcome = update[u].argument,
                   !.status = IF update[u].argument = "WON" THEN "APPROVED"
                                                            ELSE "CANCELLED"]

Begin(u, op, o, argument) ==
  /\ update[u] = Idle /\ o \in Existing
  /\ update' = [update EXCEPT ![u] = [Idle EXCEPT !.op = op, !.pc = "read",
                                        !.order = o, !.argument = argument]]
  /\ UNCHANGED <<order, overtaken>>

BeginUpdateOrderStatus(u, o, s) == Begin(u, "updateOrderStatus", o, s)
BeginAssignLead(u, o) == Begin(u, "assignLead", o, None)
BeginCloseLead(u, o, outcome) == Begin(u, "closeLead", o, outcome)

ReadOrder(u) ==
  LET o == order[update[u].order] IN
  /\ update[u].pc = "read"
  /\ update' = [update EXCEPT ![u].seen = o,
                   ![u].pc = IF Accepts(u, o) THEN "write" ELSE "refused"]
  /\ UNCHANGED <<order, overtaken>>

WriteOrder(u) ==
  LET o == update[u].order IN
  /\ update[u].pc = "write"
  /\ order' = [order EXCEPT ![o] = Changed(u)]
  /\ update' = [update EXCEPT ![u].pc = "done"]
  /\ overtaken' = IF order[o] = update[u].seen THEN overtaken
                                               ELSE overtaken \cup {o}

\* assignLead looks the rep up between its read and its write, and throws
\* if there is no such rep or the rep is not active.
RefuseRep(u) ==
  /\ update[u].pc = "write" /\ update[u].op = "assignLead"
  /\ update' = [update EXCEPT ![u].pc = "refused"]
  /\ UNCHANGED <<order, overtaken>>

(***************************************************************************)
(* createSalesOrder.  "seen" is the row the request asks for; "after" the  *)
(* calls that had been answered when this one was made.                    *)
(***************************************************************************)
BeginCreateSalesOrder(u, row) ==
  /\ update[u] = Idle
  /\ update' = [update EXCEPT ![u] =
       [Idle EXCEPT !.op = "createSalesOrder", !.seen = row,
          !.pc = IF row.key = None THEN "customer" ELSE "key",
          !.after = {v \in Updates : update[v].pc = "done"}]]
  /\ UNCHANGED <<order, overtaken>>

\* findByIdempotencyKey: an order made under the key is the answer.
FindKey(u) ==
  LET made == {o \in Existing : order[o].key = update[u].seen.key} IN
  /\ update[u].pc = "key"
  /\ \/ \E o \in made : update' = [update EXCEPT ![u].order = o, ![u].pc = "done"]
     \/ made = {} /\ update' = [update EXCEPT ![u].pc = "customer"]
  /\ UNCHANGED <<order, overtaken>>

\* The customer is unknown or an item or a discount is refused, or a direct
\* order that names no rep goes on to look for one.
CheckCustomer(u) ==
  /\ update[u].pc = "customer"
  /\ \/ update' = [update EXCEPT ![u].pc = "refused"]
     \/ update' = [update EXCEPT ![u].pc =
          IF update[u].seen.channel = "DIRECT_SALES" /\ ~update[u].seen.assigned
            THEN "reps" ELSE "create"]
  /\ UNCHANGED <<order, overtaken>>

\* Any active rep, if there is one.
PickRep(u) ==
  /\ update[u].pc = "reps"
  /\ \E found \in BOOLEAN : update' = [update EXCEPT ![u].pc = "create",
                                                     ![u].seen.assigned = found]
  /\ UNCHANGED <<order, overtaken>>

CreateOrder(u) ==
  /\ update[u].pc = "create"
  /\ \E o \in Orders \ Existing :
       /\ order' = [order EXCEPT ![o] = update[u].seen]
       /\ update' = [update EXCEPT ![u].order = o, ![u].pc = "done"]
  /\ UNCHANGED overtaken

-----------------------------------------------------------------------------
Init ==
  /\ order \in [Orders -> Unkeyed]
  /\ update = [u \in Updates |-> Idle]
  /\ overtaken = {}

Step(u) == \/ ReadOrder(u) \/ WriteOrder(u) \/ RefuseRep(u)
           \/ FindKey(u) \/ CheckCustomer(u) \/ PickRep(u) \/ CreateOrder(u)

Begins(u) ==
  \/ \E row \in Created : BeginCreateSalesOrder(u, row)
  \/ \E o \in Orders :
    \/ \E s \in Status : BeginUpdateOrderStatus(u, o, s)
    \/ BeginAssignLead(u, o)
    \/ \E outcome \in {"WON", "LOST"} : BeginCloseLead(u, o, outcome)

Next == \E u \in Updates : Begins(u) \/ Step(u)

Spec == Init /\ [][Next]_vars

-----------------------------------------------------------------------------
UpdateState ==
  [op : {"none", "createSalesOrder", "updateOrderStatus", "assignLead", "closeLead"},
   pc : {"idle", "key", "customer", "reps", "create", "read", "write", "done",
         "refused"},
   order : Orders \cup {None},
   argument : Status \cup {"WON", "LOST", None},
   seen : Order \cup {None},
   after : SUBSET Updates]

TypeOK ==
  /\ order \in [Orders -> Order \cup {None}]
  /\ update \in [Updates -> UpdateState]
  /\ overtaken \subseteq Orders

(***************************************************************************)
(* The lead and the status of an order agree: a lost lead's order stays    *)
(* cancelled and a won lead's order is never again waiting for approval.   *)
(* Two handlers racing on the same order can break it.                     *)
(***************************************************************************)
LeadDecidesStatus ==
  \A o \in Existing \ overtaken :
    /\ order[o].outcome = "LOST" => order[o].status = "CANCELLED"
    /\ order[o].outcome = "WON" =>
         order[o].status \in {"APPROVED", "FULFILLED", "CANCELLED"}

(***************************************************************************)
(* A client that sends its order again under the same key, once any call   *)
(* with that key was answered, is given an order that exists, although the *)
(* key is looked up awaits before the order is created and no table column *)
(* is unique.  Only calls that overlap can make two orders under one key.  *)
(***************************************************************************)
Creates(u, k) ==
  update[u].op = "createSalesOrder" /\ update[u].pc = "done" /\ update[u].seen.key = k

OneOrderPerKey ==
  \A k \in Keys : \A u \in {x \in Updates : Creates(x, k)} :
    (\E v \in update[u].after : Creates(v, k)) =>
      \E w \in Updates \ {u} : Creates(w, k) /\ update[w].order = update[u].order

(***************************************************************************)
(* An order leaves a terminal status only when its lead is closed, or when *)
(* a handler writes back a copy read before the order got there.           *)
(***************************************************************************)
Reopened(o) ==
  /\ order[o].status \in {"REJECTED", "CANCELLED", "FULFILLED"}
  /\ order'[o].status # order[o].status

KeepsTerminal ==
  \A o \in Existing \ overtaken' :
    Reopened(o) => /\ order[o].outcome = "PENDING"
                   /\ order'[o].outcome \in {"WON", "LOST"}

TerminalIsFinal == [][KeepsTerminal]_vars

\* A decided lead is never decided differently, races aside.
KeepsDecision ==
  \A o \in Existing \ overtaken' :
    order[o].outcome \in {"WON", "LOST"} => order'[o].outcome = order[o].outcome

LeadDecidedOnce == [][KeepsDecision]_vars
=============================================================================
