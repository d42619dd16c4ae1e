----------------------------- MODULE ConsoleForms -----------------------------
(***************************************************************************)
(* The operator console (apps/web/src/routes/console/+page.svelte): its    *)
(* forms (lib/ModuleForm.svelte), each of which writes through one         *)
(* endpoint, and the reference lists the forms offer and the tables        *)
(* (lib/DataTable.svelte) read back, reloaded all together after a write.  *)
(*                                                                         *)
(* Every list holds at most the one record its form adds: a list is a name *)
(* and is in store, or in shown, when the API, or the page, has that       *)
(* record.  Tabs are the tabs the operator uses.                           *)
(***************************************************************************)
EXTENDS Integers, FiniteSets

CONSTANTS Tabs, Reloads, MaxReloads, MaxFailures, None

VARIABLES store,     \* the lists whose record the API holds
          shown,     \* the lists whose record the page has
          loading,   \* the page's flag
          reload,    \* [Reloads -> a refreshAll under way, or None]
          form,      \* the form filled in, or None
          picked,    \* the lists its selects have a value of
          posted,    \* its request: None, "sent", "accepted" or "rejected"
          accepted,  \* the lists whose record the page was told is stored
          newest,    \* the latest begun of the reloads that have settled
          spoiled,   \* the last to settle was overtaken, or missed a list
          reloads, failures

fill == <<form, picked, posted>>
history == <<accepted, newest, spoiled>>
consoleVars == <<store, shown, loading, reload, fill, history, reloads, failures>>

\* A form: the lists that must not be empty (disabled), the lists its required
\* selects offer, and the list its endpoint writes.
Form(needs, offers, writes) == [needs |-> needs, offers |-> offers, writes |-> writes]

SalesForms ==
  [createCustomer |-> Form({}, {}, "customers"),
   placeSalesOrder |-> Form({"customers", "products"}, {"customers", "products"}, "orders")]

InventoryForms ==
  LET both == {"warehouses", "products"}
  IN  [createProduct |-> Form({}, {}, "products"),
       createWarehouse |-> Form({}, {}, "warehouses"),
       setStock |-> Form(both, both, "stock"),
       reserveStock |-> Form(both, both, "reservations")]

HrisForms ==
  [createDepartment |-> Form({}, {}, "departments"),
   hireEmployee |-> Form({"departments"}, {"departments"}, "employees"),
   assessStaffing |-> Form({"departments"}, {"departments"}, "overtime"),
   requestOvertime |-> Form({"employees"}, {"employees"}, "overtime")]

\* The cost centre and the budget of an expense may be left at "none".
FinanceForms ==
  [createCostCenter |-> Form({}, {}, "costCenters"),
   createBudget |-> Form({}, {}, "budgets"),
   submitExpense |-> Form({}, {}, "expenses")]

AccountingForms ==
  [createAccount |-> Form({}, {}, "accounts"),
   createJournal |-> Form({"accounts"}, {"accounts"}, "journals"),
   createInvoice |-> Form({}, {}, "invoices"),
   recordPayment |-> Form({"invoices"}, {"invoices"}, "payments")]

ProcurementForms ==
  [registerSupplier |-> Form({}, {}, "suppliers"),
   verifySupplier |-> Form({"suppliers"}, {"suppliers"}, "suppliers"),
   raiseRequest |-> Form({"products"}, {"products"}, "purchaseRequests"),
   createOrder |-> Form({"suppliers", "products"}, {"suppliers", "products"}, "purchaseOrders")]

TicketForms ==
  [openTicket |-> Form({}, {}, "tickets"),
   updateTicketStatus |-> Form({"tickets"}, {"tickets"}, "tickets")]

KnowledgeForms == [addDocument |-> Form({}, {}, "documents")]

\* The scaling form is never disabled: its select is merely empty without a cluster.
InfrastructureForms == [requestScaling |-> Form({}, {"cluster"}, "scalingEvents")]

OrchestratorForms == [executeGoal |-> Form({}, {}, "agents")]

FormsOf(tab) ==
  CASE tab = "sales" -> SalesForms [] tab = "inventory" -> InventoryForms
    [] tab = "hris" -> HrisForms [] tab = "finance" -> FinanceForms
    [] tab = "accounting" -> AccountingForms [] tab = "procurement" -> ProcurementForms
    [] tab = "ticketing" -> TicketForms [] tab = "knowledge" -> KnowledgeForms
    [] tab = "infrastructure" -> InfrastructureForms [] tab = "orchestrator" -> OrchestratorForms

Forms == UNION {{FormsOf(tab)[f] : f \in DOMAIN FormsOf(tab)} : tab \in Tabs}
Lists == UNION {{f.writes} \cup f.needs \cup f.offers : f \in Forms}

ConsoleTypeOK ==
  /\ {store, shown, picked, accepted} \subseteq SUBSET Lists
  /\ {loading, spoiled} \subseteq BOOLEAN
  /\ form \in Forms \cup {None} /\ posted \in {None, "sent", "accepted", "rejected"}
  /\ \A r \in Reloads : reload[r] # None => reload[r].before \subseteq store /\ reload[r].n \in 1..reloads
  /\ newest \in 0..reloads /\ reloads \in 1..MaxReloads + 1 /\ failures \in 0..MaxFailures

\* The cluster is there or not; the page opens with its lists empty, loading them.
ConsoleInit ==
  /\ store \in {{}, {"cluster"} \cap Lists} /\ shown = {} /\ loading = TRUE
  /\ \E r \in Reloads :
       reload = [s \in Reloads |-> IF s = r THEN [n |-> 1, before |-> store] ELSE None]
  /\ form = None /\ picked = {} /\ posted = None
  /\ accepted = {} /\ newest = 0 /\ spoiled = FALSE
  /\ reloads = 1 /\ failures = 0

(***************************************************************************)
(* refreshAll asks for every list and waits for all of them to settle.  A  *)
(* list is read at some time on the way: since then it may have grown, and *)
(* a list that could not be read is shown empty.                           *)
(***************************************************************************)
RefreshAll ==
  /\ \E r \in Reloads : reload[r] = None
  /\ reloads' = reloads + 1
  /\ reload' = [reload EXCEPT ![CHOOSE r \in Reloads : reload[r] = None] =
                   [n |-> reloads + 1, before |-> store]]
  /\ loading' = TRUE

RefreshClicked ==
  /\ ~loading /\ reloads < MaxReloads
  /\ RefreshAll
  /\ UNCHANGED <<store, shown, fill, history, failures>>

RefreshSettles(r) ==
  /\ reload[r] # None
  /\ \E late \in SUBSET (store \ reload[r].before) :
     \E unread \in {{}} \cup {{l} : l \in IF failures < MaxFailures THEN Lists ELSE {}} :
       /\ shown' = (reload[r].before \cup late) \ unread
       /\ failures' = failures + Cardinality(unread)
       /\ spoiled' = (unread # {} \/ reload[r].n < newest)
  /\ newest' = IF reload[r].n > newest THEN reload[r].n ELSE newest
  /\ reload' = [reload EXCEPT ![r] = None]
  /\ loading' = FALSE
  /\ UNCHANGED <<store, fill, accepted, reloads>>

(***************************************************************************)
(* A form.  A select takes the first option when the options arrive; a     *)
(* value once taken stays, whatever the list shows later.                  *)
(***************************************************************************)
OpenForm(f) ==
  /\ posted = None /\ form # f /\ reloads < MaxReloads
  /\ form' = f /\ picked' = f.offers \cap shown
  /\ UNCHANGED <<store, shown, loading, reload, posted, history, reloads, failures>>

OptionsArrive ==
  /\ form # None /\ ~((form.offers \cap shown) \subseteq picked)
  /\ picked' = picked \cup (form.offers \cap shown)
  /\ UNCHANGED <<store, shown, loading, reload, form, posted, history, reloads, failures>>

Submittable == form.needs \subseteq shown /\ form.offers \subseteq picked

HandleSubmit ==
  /\ form # None /\ posted = None /\ Submittable
  /\ posted' = "sent"
  /\ UNCHANGED <<store, shown, loading, reload, form, picked, history, reloads, failures>>

\* The API adds the record, or refuses; the answer may be lost on the way.
Post(added) ==
  /\ posted = "sent"
  /\ store' = IF added THEN store \cup {form.writes} ELSE store
  /\ posted' \in {"accepted", "rejected"} /\ (posted' = "accepted" => added)
  /\ UNCHANGED <<shown, loading, reload, form, picked, history, reloads, failures>>

\* *Fault*: a write leaves it to the reload that is under way.
OnSuccessUnlessLoading == IF loading THEN UNCHANGED <<reload, loading, reloads>> ELSE RefreshAll

\* onSuccess is refreshAll, whether or not a reload is under way.
OnSuccess == RefreshAll

Accepted ==
  /\ posted = "accepted"
  /\ accepted' = accepted \cup {form.writes}
  /\ posted' = None /\ form' = None /\ picked' = {}
  /\ OnSuccess
  /\ UNCHANGED <<store, shown, newest, spoiled, failures>>

Rejected ==
  /\ posted = "rejected"
  /\ posted' = None
  /\ UNCHANGED <<store, shown, loading, reload, form, picked, history, reloads, failures>>

ConsoleNext ==
  \/ RefreshClicked \/ OptionsArrive \/ HandleSubmit \/ Accepted \/ Rejected
  \/ \E added \in BOOLEAN : Post(added)
  \/ \E r \in Reloads : RefreshSettles(r)
  \/ \E f \in Forms : OpenForm(f)

ConsoleSpec == ConsoleInit /\ [][ConsoleNext]_consoleVars

(***************************************************************************)
(* Properties.                                                             *)
(***************************************************************************)
\* With no reload under way, the tables list every record the page was told is
\* stored, unless the last reload to come back had been overtaken by a later
\* one or could not read a list.  In both those cases the console does not
\* notice, and the record stays missing until the operator reloads by hand
\* (refreshAll, ModuleForm's onSuccess, DataTable).
AcceptedIsListed ==
  (\A r \in Reloads : reload[r] = None) /\ ~spoiled => accepted \subseteq shown
===============================================================================
