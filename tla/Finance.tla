-------------------------------- MODULE Finance --------------------------------
(***************************************************************************)
(* The budgets, allocations and expenses of FinanceService, and the        *)
(* handlers that change them: allocateBudget, createExpense,               *)
(* approveExpense and rejectExpense.  A handler reads copies of rows,      *)
(* checks them, and writes whole rows back after an await; what another    *)
(* handler wrote to the row in between is lost.                            *)
(***************************************************************************)
EXTENDS Naturals, FiniteSetsExt

CONSTANTS
  Budgets,
  Expenses,
  Calls,     \* invocations of the handlers, each runs once
  Totals,    \* the totalAmounts a budget may have
  Amounts,   \* the amounts asked for
  None

ASSUME AmountAssumption == Totals \subseteq Nat /\ Amounts \subseteq Nat \ {0}

VARIABLES
  budget,      \* [Budgets -> Budget]: the budget table
  allocations, \* the allocation table, one row per call that made it
  expense,     \* [Expenses -> Expense \cup {None}]: the expense table
  fin,         \* [Calls -> the local state of the invocation]
  overwritten, \* history: budgets written from an out-of-date copy
  contested    \* history: expenses two calls were deciding at the same time

vars == <<budget, allocations, expense, fin, overwritten, contested>>

Budget == [total : Totals, allocated : Nat, spent : Nat]

Allocation == [by : Calls, budget : Budgets, amount : Amounts]

ExpenseStatus == {"PENDING", "APPROVED", "REJECTED"}

Expense == [budget : Budgets \cup {None}, amount : Amounts, status : ExpenseStatus]

ASSUME NoneAssumption == None \notin Budgets \cup Expenses \cup Expense

Idle == [op |-> "none", pc |-> "idle", budget |-> None, amount |-> 0,
         expense |-> None, seen |-> None]

TypeOK ==
  /\ budget \in [Budgets -> Budget]
  /\ allocations \subseteq Allocation
  /\ expense \in [Expenses -> Expense \cup {None}]
  /\ \A c \in Calls :
       /\ fin[c].op \in {"none", "allocateBudget", "approveExpense", "rejectExpense"}
       /\ fin[c].pc \in {"idle", "read", "insert", "check", "reread", "write",
                         "decide", "done", "refused"}
       /\ fin[c].budget \in Budgets \cup {None}
       /\ fin[c].seen \in Budget \cup {None}

Init ==
  /\ budget \in [Budgets -> [total : Totals, allocated : {0}, spent : {0}]]
  /\ allocations = {}
  /\ expense = [e \in Expenses |-> None]
  /\ fin = [c \in Calls |-> Idle]
  /\ overwritten = {}
  /\ contested = {}

Goto(c, pc) == fin' = [fin EXCEPT ![c].pc = pc]

-----------------------------------------------------------------------------
(* What the handlers check, and the rows they write back. *)

\* *Fault*: one unit more than is left may be allocated.
FitsOneMore(b, amount) == b.allocated + amount <= b.total + 1

\* amount <= totalAmount - allocatedAmount.
Fits(b, amount) == b.allocated + amount <= b.total

\* checkBudgetAvailability: neither allocated nor spent is that of the other.
Available(b, amount) ==
  /\ b.allocated + amount <= b.total
  /\ b.spent + amount <= b.total

\* *Fault*: the allocation is set instead of added.
ChargedOnly(c) ==
  IF fin[c].op = "allocateBudget"
    THEN [fin[c].seen EXCEPT !.allocated = fin[c].amount]
    ELSE [fin[c].seen EXCEPT !.spent = @ + fin[c].amount]

\* The budget row as the handler read it, with its amount added.
Charged(c) ==
  IF fin[c].op = "allocateBudget"
    THEN [fin[c].seen EXCEPT !.allocated = @ + fin[c].amount]
    ELSE [fin[c].seen EXCEPT !.spent = @ + fin[c].amount]

\* *Fault*: a decided expense can be decided again.
AlwaysDecidable(e) == expense[e] # None

\* Only a pending expense is approved or rejected.
Decidable(e) == expense[e] # None /\ expense[e].status = "PENDING"

-----------------------------------------------------------------------------
(* The handlers. *)

BeginAllocate(c, b, amount) ==
  /\ fin[c] = Idle
  /\ fin' = [fin EXCEPT ![c] = [Idle EXCEPT !.op = "allocateBudget", !.pc = "read",
                                  !.budget = b, !.amount = amount]]
  /\ UNCHANGED <<budget, allocations, expense, overwritten, contested>>

\* createExpense, whole: it reads only that the budget exists.
CreateExpense(e) ==
  /\ expense[e] = None
  /\ \E b \in Budgets \cup {None}, amount \in Amounts :
       expense' = [expense EXCEPT ![e] =
                     [budget |-> b, amount |-> amount, status |-> "PENDING"]]
  /\ UNCHANGED <<budget, allocations, fin, overwritten, contested>>

\* The calls that have read expense e pending and not yet written it.
Deciding(e) ==
  {c \in Calls : fin[c].expense = e /\ fin[c].pc \in {"check", "reread", "write", "decide"}}

\* approveExpense and rejectExpense start with the expense; one that belongs to
\* no budget is approved without another look.
BeginDecide(c, op, e) ==
  /\ fin[c] = Idle
  /\ expense[e] # None
  /\ LET b == expense[e].budget
         next == IF ~Decidable(e) THEN "refused"
                 ELSE IF op = "approveExpense" /\ b # None THEN "check" ELSE "decide"
     IN fin' = [fin EXCEPT ![c] =
                  [Idle EXCEPT !.op = op, !.pc = next, !.budget = b,
                               !.amount = expense[e].amount, !.expense = e]]
  /\ contested' = IF Decidable(e) /\ Deciding(e) # {} THEN contested \cup {e}
                                                      ELSE contested
  /\ UNCHANGED <<budget, allocations, expense, overwritten>>

\* allocateBudget reads the budget and refuses what does not fit.
ReadBudget(c) ==
  LET b == budget[fin[c].budget] IN
  /\ fin[c].pc = "read"
  /\ fin' = [fin EXCEPT ![c].seen = b,
               ![c].pc = IF Fits(b, fin[c].amount) THEN "insert" ELSE "refused"]
  /\ UNCHANGED <<budget, allocations, expense, overwritten, contested>>

InsertAllocation(c) ==
  /\ fin[c].pc = "insert"
  /\ allocations' = allocations \cup
       {[by |-> c, budget |-> fin[c].budget, amount |-> fin[c].amount]}
  /\ Goto(c, "write")
  /\ UNCHANGED <<budget, expense, overwritten, contested>>

\* approveExpense checks the budget ...
CheckBudget(c) ==
  /\ fin[c].pc = "check"
  /\ Goto(c, IF Available(budget[fin[c].budget], fin[c].amount) THEN "reread"
                                                               ELSE "refused")
  /\ UNCHANGED <<budget, allocations, expense, overwritten, contested>>

\* ... and reads it anew to write to it, without another check.
RereadBudget(c) ==
  /\ fin[c].pc = "reread"
  /\ fin' = [fin EXCEPT ![c].seen = budget[fin[c].budget], ![c].pc = "write"]
  /\ UNCHANGED <<budget, allocations, expense, overwritten, contested>>

WriteBudget(c) ==
  LET b == fin[c].budget IN
  /\ fin[c].pc = "write"
  /\ budget' = [budget EXCEPT ![b] = Charged(c)]
  /\ overwritten' = IF budget[b] = fin[c].seen THEN overwritten
                                               ELSE overwritten \cup {b}
  /\ Goto(c, IF fin[c].op = "allocateBudget" THEN "done" ELSE "decide")
  /\ UNCHANGED <<allocations, expense, contested>>

\* The expense is written back as it was read, decided.
WriteExpense(c) ==
  LET e == fin[c].expense IN
  /\ fin[c].pc = "decide"
  /\ expense' = [expense EXCEPT ![e].status =
       IF fin[c].op = "approveExpense" THEN "APPROVED" ELSE "REJECTED"]
  /\ Goto(c, "done")
  /\ UNCHANGED <<budget, allocations, overwritten, contested>>

Step(c) ==
  \/ ReadBudget(c) \/ InsertAllocation(c)
  \/ CheckBudget(c) \/ RereadBudget(c) \/ WriteBudget(c)
  \/ WriteExpense(c)

Begins(c) ==
  \/ \E b \in Budgets, amount \in Amounts : BeginAllocate(c, b, amount)
  \/ \E op \in {"approveExpense", "rejectExpense"}, e \in Expenses :
       BeginDecide(c, op, e)

Next ==
  \/ \E c \in Calls : Begins(c)
  \/ \E c \in Calls : Step(c)
  \/ \E e \in Expenses : CreateExpense(e)

Spec == Init /\ [][Next]_vars

-----------------------------------------------------------------------------
(* Properties. *)

\* However allocations race with one another and with expenses, a budget never
\* shows more allocated than its total: every row written back is one that was
\* read, with an amount the row read had room for.  (What the allocation table
\* adds up to is another matter.)
AllocatedWithinTotal == \A b \in Budgets : budget[b].allocated <= budget[b].total

Sum(S, Amount(_)) == MapThenSumSet(Amount, S)

AmountOf(a) == a.amount
ExpenseAmount(e) == expense[e].amount

\* The row and the allocation table agree, but for the rows whose budget has
\* yet to be written, unless a race lost an update.
AllocationsAddUp ==
  \A b \in Budgets \ overwritten :
    budget[b].allocated =
      Sum({a \in allocations : a.budget = b /\ fin[a.by].pc = "done"}, AmountOf)

\* What a budget has spent is what its approved expenses add up to, and those
\* charged and about to be approved: each approved expense is paid once and no
\* rejected one is, unless calls raced for an expense or an update was lost.
SpentOnApproved ==
  \A b \in Budgets \ overwritten :
    LET mine == {e \in Expenses : expense[e] # None /\ expense[e].budget = b}
        paid == {e \in mine : \/ expense[e].status = "APPROVED"
                             \/ \E c \in Deciding(e) : /\ fin[c].op = "approveExpense"
                                                      /\ fin[c].pc = "decide"}
    IN contested \cap mine = {} => budget[b].spent = Sum(paid, ExpenseAmount)

\* A decided expense is never decided differently, races aside.
KeepsDecided ==
  \A e \in Expenses \ contested' :
    expense[e] # None /\ expense[e].status # "PENDING" => expense'[e] = expense[e]

DecidedOnce == [][KeepsDecided]_vars
=============================================================================
