---------------------------- MODULE BackOffice_proofs ----------------------------
(***************************************************************************)
(* What finance, procurement, the purchase workflow, sales, accounting,    *)
(* tickets and staff keep true, for any callers, rows and amounts, in      *)
(* every scene of the back office.  An inductive invariant for each:       *)
(*                                                                         *)
(*   FundInv         the copies that finance calls hold were within their  *)
(*                   totals, an expense nobody raced for is decided by     *)
(*                   one call, and rows add up to what was allocated and   *)
(*                   paid;                                                 *)
(*   FundedInv       a workflow approves an order after its allocation;    *)
(*   ProcurementInv  an approved request that nobody raced for is          *)
(*                   converted once, and the receipts of an order are      *)
(*                   counted by whoever closes it;                         *)
(*   SellingInv      a lead and its order agree, and the calls that carry  *)
(*                   a key share the order made under it;                  *)
(*   LedgerInv       a reversal is linked to its journal by reference, a   *)
(*                   journal held by one handler is what the handler read, *)
(*                   and an invoice counts what its handler has yet to     *)
(*                   receive;                                              *)
(*   PostedInv       a journal is announced by whoever posted it;          *)
(*   DeskInv         a ticket nobody raced for has one holder, stays       *)
(*                   escalated or closed until it is reviewed, and what    *)
(*                   its service level says of a clock is true;            *)
(*   StaffInv        assessments that do not overlap split every parcel    *)
(*                   evenly, and hold the loads that are stored;           *)
(*   AdviceInv       whoever advises on a surge holds the row of it, and   *)
(*                   no surge that only advisers decided was refused.      *)
(***************************************************************************)
EXTENDS MCBackOffice, Sequences, SumTheorems, TLAPS

Within(b) == b.allocated <= b.total

\* What the copy of an invocation promises, by where the invocation is.
CopyOK(c) ==
  fin[c].pc \in {"insert", "write"} =>
    /\ fin[c].budget \in Budgets
    /\ fin[c].seen \in Budget
    /\ Within(fin[c].seen)
    /\ fin[c].op = "allocateBudget" => fin[c].seen.allocated + fin[c].amount <= fin[c].seen.total

\* The fields of an invocation that the proof looks at.
Call == [op : {"none", "allocateBudget", "approveExpense", "rejectExpense"},
         pc : {"idle", "read", "insert", "check", "reread", "write", "decide",
               "done", "refused"},
         budget : Budgets \cup {None}, amount : Nat,
         expense : Expenses \cup {None}, seen : Budget \cup {None}]

Types ==
  /\ budget \in [Budgets -> Budget]
  /\ expense \in [Expenses -> Expense \cup {None}]
  /\ fin \in [Calls -> Call]
  /\ \A c \in Calls : /\ fin[c].pc \in {"read", "check", "reread"} => fin[c].budget \in Budgets
                      /\ fin[c].pc \in {"check", "reread"} => fin[c].op # "allocateBudget"
                      /\ fin[c].expense \in Expenses => expense[fin[c].expense] # None

IInv ==
  /\ Types
  /\ \A b \in Budgets : Within(budget[b])
  /\ \A c \in Calls : CopyOK(c)

\* The invariant holds before the first request.
LEMMA InitEstablishes == Init => IInv
<1> SUFFICES ASSUME Init
             PROVE  IInv
  OBVIOUS
<1>1. ASSUME NEW b \in Budgets
      PROVE  budget[b] \in Budget /\ Within(budget[b])
  <2>1. budget[b] \in [total : Totals, allocated : {0}, spent : {0}]
    BY DEF Init
  <2>2. PICK t \in Totals : budget[b] = [total |-> t, allocated |-> 0, spent |-> 0]
    BY <2>1
  <2>3. t \in Nat
    BY AmountAssumption
  <2> QED
    BY <2>2, <2>3 DEF Budget, Within
<1>2. Idle \in Call
  BY DEF Idle, Call
<1>3. Types
  BY <1>1, <1>2, NoneAssumption DEF Init, Types, Idle
<1>4. ASSUME NEW c \in Calls
      PROVE  CopyOK(c)
  BY DEF Init, CopyOK, Idle
<1> QED
  BY <1>1, <1>3, <1>4 DEF IInv

\* A handler that only moves on, or takes a copy, leaves the tables alone; its
\* own copy is then all there is to look at.
LEMMA MovesOn ==
  ASSUME IInv, NEW c \in Calls, NEW x \in Call, fin' = [fin EXCEPT ![c] = x],
         budget' = budget, expense' \in [Expenses -> Expense \cup {None}],
         x.pc \in {"read", "check", "reread"} => x.budget \in Budgets,
         x.pc \in {"check", "reread"} => x.op # "allocateBudget",
         x.expense \in Expenses => expense'[x.expense] # None,
         \A e \in Expenses : expense[e] # None => expense'[e] # None,
         x.pc \in {"insert", "write"} =>
           /\ x.budget \in Budgets /\ x.seen \in Budget /\ Within(x.seen)
           /\ x.op = "allocateBudget" => x.seen.allocated + x.amount <= x.seen.total
  PROVE  IInv'
<1>1. fin'[c] = x /\ \A d \in Calls \ {c} : fin'[d] = fin[d]
  BY DEF IInv, Types
<1>2. Types'
  BY <1>1 DEF IInv, Types
<1>3. \A d \in Calls : CopyOK(d)'
  BY <1>1 DEF IInv, CopyOK
<1>4. \A b \in Budgets : Within(budget'[b])
  BY DEF IInv
<1> QED
  BY <1>2, <1>3, <1>4 DEF IInv

\* The row written back is within its total.
LEMMA ChargedWithin ==
  ASSUME IInv, NEW c \in Calls, fin[c].pc = "write",
         fin[c].op \in {"allocateBudget", "approveExpense", "rejectExpense", "none"}
  PROVE  Charged(c) \in Budget /\ Within(Charged(c))
<1> DEFINE s == fin[c].seen
           n == fin[c].amount
           more == s.allocated + n
           paid == s.spent + n
<1>a. fin[c] \in Call /\ CopyOK(c)
  BY DEF IInv, Types
<1>b. s \in Budget /\ Within(s) /\ n \in Nat
  BY <1>a DEF CopyOK, Call
<1>c. s.total \in Nat /\ s.allocated \in Nat /\ s.spent \in Nat
  BY <1>b, AmountAssumption DEF Budget
<1>1. s \in Budget /\ n \in Nat /\ Within(s) /\ s.total \in Nat
      /\ more \in Nat /\ paid \in Nat
  BY <1>b, <1>c
<1>2. CASE fin[c].op = "allocateBudget"
  <2>1. Charged(c) = [s EXCEPT !.allocated = more] /\ more <= s.total
    BY <1>2 DEF IInv, CopyOK, Charged
  <2> HIDE DEF s, more
  <2> QED
    BY <1>1, <2>1 DEF Budget, Within
<1>3. CASE fin[c].op # "allocateBudget"
  <2>1. Charged(c) = [s EXCEPT !.spent = paid]
    BY <1>3 DEF Charged
  <2> HIDE DEF s, paid
  <2> QED
    BY <1>1, <2>1 DEF Budget, Within
<1> QED
  BY <1>2, <1>3

\* Every step keeps it.
LEMMA StepPreserves == IInv /\ [Next]_vars => IInv'
<1> SUFFICES ASSUME IInv, [Next]_vars
             PROVE  IInv'
  OBVIOUS
<1>0. /\ expense \in [Expenses -> Expense \cup {None}]
      /\ \A c \in Calls :
           fin[c] \in Call /\ (fin[c].expense \in Expenses => expense[fin[c].expense] # None)
      /\ \A b \in Budgets : budget[b] \in Budget /\ Within(budget[b])
  BY DEF IInv, Types
<1>1. ASSUME NEW c \in Calls, NEW b \in Budgets, NEW amount \in Amounts,
             BeginAllocate(c, b, amount)
      PROVE  IInv'
  <2> DEFINE x == [Idle EXCEPT !.op = "allocateBudget", !.pc = "read",
                               !.budget = b, !.amount = amount]
  <2>1. x \in Call /\ x.pc = "read" /\ x.budget = b /\ x.expense \notin Expenses
    BY AmountAssumption, NoneAssumption DEF Idle, Call
  <2>2. fin' = [fin EXCEPT ![c] = x] /\ budget' = budget /\ expense' = expense
    BY <1>1 DEF BeginAllocate
  <2> HIDE DEF x
  <2> QED
    BY <1>0, <2>1, <2>2, MovesOn
<1>2. ASSUME NEW c \in Calls, NEW op \in {"approveExpense", "rejectExpense"},
             NEW e \in Expenses, BeginDecide(c, op, e)
      PROVE  IInv'
  <2> DEFINE next == IF ~Decidable(e) THEN "refused"
                     ELSE IF op = "approveExpense" /\ expense[e].budget # None
                       THEN "check" ELSE "decide"
             x == [Idle EXCEPT !.op = op, !.pc = next, !.budget = expense[e].budget,
                               !.amount = expense[e].amount, !.expense = e]
  <2>1. /\ expense[e].budget \in Budgets \cup {None} /\ expense[e].amount \in Nat
        /\ next \in {"refused", "check", "decide"}
        /\ next = "check" => expense[e].budget \in Budgets
    BY <1>0, <1>2, AmountAssumption DEF BeginDecide, Expense
  <2>2. /\ fin' = [fin EXCEPT ![c] = x] /\ budget' = budget /\ expense' = expense
        /\ expense[e] # None
    BY <1>2 DEF BeginDecide
  <2> HIDE DEF next
  <2>3. x \in Call /\ x.pc = next /\ x.budget = expense[e].budget /\ x.op = op
        /\ x.expense = e
    BY <2>1 DEF Idle, Call
  <2> HIDE DEF x
  <2> QED
    BY <1>0, <2>1, <2>2, <2>3, MovesOn
<1>3. ASSUME NEW c \in Calls, ReadBudget(c)
      PROVE  IInv'
  <2> DEFINE b == budget[fin[c].budget]
             next == IF Fits(b, fin[c].amount) THEN "insert" ELSE "refused"
             x == [fin[c] EXCEPT !.seen = b, !.pc = next]
  <2>1. fin[c].budget \in Budgets
    BY <1>3 DEF ReadBudget, IInv, Types
  <2>2. /\ next \in {"insert", "refused"} /\ b \in Budget /\ Within(b)
        /\ next = "insert" => b.allocated + fin[c].amount <= b.total
    BY <1>0, <2>1 DEF Fits
  <2>3. fin' = [fin EXCEPT ![c] = x] /\ budget' = budget /\ expense' = expense
    BY <1>3 DEF ReadBudget
  <2> HIDE DEF b, next
  <2>4. /\ x \in Call /\ x.pc = next /\ x.seen = b
        /\ x.budget = fin[c].budget /\ x.amount = fin[c].amount
        /\ x.expense = fin[c].expense
    BY <1>0, <2>2 DEF Call
  <2> HIDE DEF x
  <2> QED
    BY <1>0, <2>1, <2>2, <2>3, <2>4, MovesOn
<1>4. ASSUME NEW c \in Calls, InsertAllocation(c)
      PROVE  IInv'
  <2> DEFINE x == [fin[c] EXCEPT !.pc = "write"]
  <2>1. fin' = [fin EXCEPT ![c] = x] /\ budget' = budget /\ expense' = expense
    BY <1>4 DEF InsertAllocation, Goto
  <2>2. /\ x \in Call /\ x.pc = "write" /\ x.seen = fin[c].seen /\ x.op = fin[c].op
        /\ x.budget = fin[c].budget /\ x.amount = fin[c].amount
        /\ x.expense = fin[c].expense
    BY <1>0 DEF Call
  <2>3. CopyOK(c) /\ fin[c].pc = "insert"
    BY <1>4 DEF InsertAllocation, IInv
  <2> HIDE DEF x
  <2> QED
    BY <1>0, <2>1, <2>2, <2>3, MovesOn DEF CopyOK
<1>5. ASSUME NEW c \in Calls, CheckBudget(c)
      PROVE  IInv'
  <2> DEFINE next == IF Available(budget[fin[c].budget], fin[c].amount) THEN "reread"
                                                                        ELSE "refused"
             x == [fin[c] EXCEPT !.pc = next]
  <2>1. fin' = [fin EXCEPT ![c] = x] /\ budget' = budget /\ expense' = expense
    BY <1>5 DEF CheckBudget, Goto
  <2>2. next \in {"reread", "refused"} /\ fin[c].budget \in Budgets
        /\ fin[c].op # "allocateBudget"
    BY <1>5 DEF CheckBudget, IInv, Types
  <2> HIDE DEF next
  <2>3. x \in Call /\ x.pc = next /\ x.budget = fin[c].budget /\ x.op = fin[c].op
        /\ x.expense = fin[c].expense
    BY <1>0, <2>2 DEF Call
  <2> HIDE DEF x
  <2> QED
    BY <1>0, <2>1, <2>2, <2>3, MovesOn
<1>6. ASSUME NEW c \in Calls, RereadBudget(c)
      PROVE  IInv'
  <2> DEFINE b == budget[fin[c].budget]
             x == [fin[c] EXCEPT !.seen = b, !.pc = "write"]
  <2>1. fin' = [fin EXCEPT ![c] = x] /\ budget' = budget /\ expense' = expense
    BY <1>6 DEF RereadBudget
  <2>2. fin[c].budget \in Budgets /\ b \in Budget /\ Within(b)
    BY <1>0, <1>6 DEF RereadBudget, IInv, Types
  <2>3. fin[c].op # "allocateBudget"
    BY <1>6 DEF RereadBudget, IInv, Types
  <2> HIDE DEF b
  <2>4. x \in Call /\ x.pc = "write" /\ x.seen = b /\ x.budget = fin[c].budget
        /\ x.op = fin[c].op /\ x.expense = fin[c].expense
    BY <1>0, <2>2 DEF Call
  <2> HIDE DEF x
  <2> QED
    BY <1>0, <2>1, <2>2, <2>3, <2>4, MovesOn
<1>7. ASSUME NEW c \in Calls, WriteBudget(c)
      PROVE  IInv'
  <2> DEFINE b == fin[c].budget
             next == IF fin[c].op = "allocateBudget" THEN "done" ELSE "decide"
             x == [fin[c] EXCEPT !.pc = next]
  <2>1. fin' = [fin EXCEPT ![c] = x] /\ budget' = [budget EXCEPT ![b] = Charged(c)]
        /\ expense' = expense
    BY <1>7 DEF WriteBudget, Goto
  <2>2. Charged(c) \in Budget /\ Within(Charged(c)) /\ b \in Budgets
    BY <1>0, <1>7, ChargedWithin DEF WriteBudget, IInv, CopyOK, Call
  <2>3. next \in {"done", "decide"}
    OBVIOUS
  <2> HIDE DEF next
  <2>4. x \in Call /\ x.pc = next /\ x.expense = fin[c].expense
    BY <1>0, <2>3 DEF Call
  <2> HIDE DEF x
  <2>5. fin'[c] = x /\ \A d \in Calls \ {c} : fin'[d] = fin[d]
    BY <2>1 DEF IInv, Types
  <2>6. budget' \in [Budgets -> Budget] /\ \A a \in Budgets : Within(budget'[a])
    BY <1>0, <2>1, <2>2 DEF IInv, Types
  <2>7. \A d \in Calls : CopyOK(d)'
    BY <2>3, <2>4, <2>5 DEF IInv, CopyOK
  <2>8. Types'
    BY <1>0, <2>1, <2>3, <2>4, <2>5, <2>6 DEF IInv, Types
  <2> QED
    BY <2>6, <2>7, <2>8 DEF IInv
<1>8. ASSUME NEW c \in Calls, WriteExpense(c)
      PROVE  IInv'
  <2> DEFINE x == [fin[c] EXCEPT !.pc = "done"]
  <2>1. fin' = [fin EXCEPT ![c] = x] /\ budget' = budget
    BY <1>8 DEF WriteExpense, Goto
  <2>2. x \in Call /\ x.pc = "done" /\ x.expense = fin[c].expense
    BY <1>0 DEF Call
  <2>3. /\ expense' \in [Expenses -> Expense \cup {None}]
        /\ \A e \in Expenses : expense[e] # None => expense'[e] # None
    <3> DEFINE e == fin[c].expense
               status == IF fin[c].op = "approveExpense" THEN "APPROVED" ELSE "REJECTED"
               row == [expense[e] EXCEPT !.status = status]
    <3>1. expense' = [expense EXCEPT ![e] = row]
      BY <1>8 DEF WriteExpense
    <3>2. e \in Expenses => row \in Expense /\ row # None
      <4>1. e \in Expenses => expense[e] \in Expense
        BY <1>0
      <4>2. status \in ExpenseStatus
        BY DEF ExpenseStatus
      <4> HIDE DEF status
      <4> QED
        BY <4>1, <4>2, NoneAssumption DEF Expense
    <3> HIDE DEF e, row
    <3> QED
      BY <1>0, <3>1, <3>2
  <2> HIDE DEF x
  <2> QED
    BY <1>0, <2>1, <2>2, <2>3, MovesOn
<1>9. ASSUME NEW e \in Expenses, CreateExpense(e)
      PROVE  IInv'
  <2>1. /\ expense' \in [Expenses -> Expense \cup {None}]
        /\ \A d \in Expenses : expense[d] # None => expense'[d] # None
    BY <1>0, <1>9, NoneAssumption DEF CreateExpense, Expense, ExpenseStatus
  <2>2. UNCHANGED <<budget, fin>>
    BY <1>9 DEF CreateExpense
  <2> QED
    BY <2>1, <2>2 DEF IInv, Types, CopyOK
<1>10. CASE UNCHANGED vars
  BY <1>10 DEF vars, IInv, Types, CopyOK
<1> QED
  BY <1>1, <1>2, <1>3, <1>4, <1>5, <1>6, <1>7, <1>8, <1>9, <1>10
  DEF Next, Begins, Step

\* allocateBudget, approveExpense and the rest may be interleaved at will: no
\* budget row ever shows more allocated than its total.
THEOREM NeverOverAllocated == Spec => []AllocatedWithinTotal
<1>1. IInv => AllocatedWithinTotal
  BY DEF IInv, Within, AllocatedWithinTotal
<1> QED
  BY <1>1, InitEstablishes, StepPreserves, PTL DEF Spec

\* The row an allocation call inserts.
RowOf(c) == [by |-> c, budget |-> fin[c].budget, amount |-> fin[c].amount]

\* How far a call of each handler can be, and what it knows of its expense.
Linked(c) ==
  /\ fin[c].op = "none" => fin[c] = Idle
  /\ fin[c].op = "allocateBudget" =>
       /\ fin[c].pc \in {"read", "insert", "write", "done", "refused"}
       /\ fin[c].budget \in Budgets /\ fin[c].amount \in Amounts /\ fin[c].expense = None
  /\ fin[c].op = "approveExpense" =>
       fin[c].pc \in {"check", "reread", "write", "decide", "done", "refused"}
  /\ fin[c].op = "rejectExpense" => fin[c].pc \in {"decide", "done", "refused"}
  /\ fin[c].op \in {"approveExpense", "rejectExpense"} =>
       /\ fin[c].expense \in Expenses /\ expense[fin[c].expense] # None
       /\ fin[c].budget = expense[fin[c].expense].budget
       /\ fin[c].amount = expense[fin[c].expense].amount

\* An expense nobody raced for is decided by one call, and pending until then.
Alone(e) ==
  /\ \A c, d \in Deciding(e) : c = d
  /\ Deciding(e) # {} => expense[e] # None /\ expense[e].status = "PENDING"

FundLinks ==
  /\ IInv
  /\ \A c \in Calls : Linked(c)
  /\ \A e \in Expenses \ contested : Alone(e)

\* What any step of a handler changes beside the tables.
LEMMA OneMoves ==
  ASSUME IInv, IInv', NEW c \in Calls, Begins(c) \/ Step(c)
  PROVE  /\ \A d \in Calls \ {c} : fin'[d] = fin[d]
         /\ fin'[c] \in Call /\ fin[c] \in Call
  <1>1. fin' = [fin EXCEPT ![c] = fin'[c]]
    <2>1. \A x : fin' = [fin EXCEPT ![c] = x] => fin' = [fin EXCEPT ![c] = fin'[c]]
      BY DEF IInv, Types
    <2> QED
      BY <2>1 DEF IInv, Types, Begins, Step, BeginAllocate, BeginDecide, ReadBudget, InsertAllocation,
                  CheckBudget, RereadBudget, WriteBudget, WriteExpense, Goto
  <1>2. fin \in [Calls -> Call] /\ fin' \in [Calls -> Call]
    BY DEF IInv, Types
  <1> HIDE DEF IInv
  <1> QED
    BY <1>1, <1>2

\* The row of an expense changes only in its status.
LEMMA ExpensesStay ==
  ASSUME IInv, NEW c \in Calls, Begins(c) \/ Step(c), NEW e \in Expenses
  PROVE  /\ expense'[e] = None <=> expense[e] = None
         /\ expense[e] # None => /\ expense'[e].budget = expense[e].budget
                                 /\ expense'[e].amount = expense[e].amount
  <1>1. CASE UNCHANGED expense
    BY <1>1
  <1>2. CASE WriteExpense(c)
    <2> DEFINE status == IF fin[c].op = "approveExpense" THEN "APPROVED" ELSE "REJECTED"
    <2>1. expense' = [expense EXCEPT ![fin[c].expense] = [expense[fin[c].expense] EXCEPT !.status = status]]
      BY <1>2 DEF WriteExpense
    <2>2. status \in ExpenseStatus
      BY DEF ExpenseStatus
    <2> HIDE DEF status
    <2>3. expense \in [Expenses -> Expense \cup {None}] /\ (fin[c].expense \in Expenses => expense[fin[c].expense] # None)
      BY DEF IInv, Types
    <2>4. CASE e # fin[c].expense
      BY <2>1, <2>3, <2>4
    <2>5. CASE e = fin[c].expense
      <3>1. expense[e] \in Expense /\ expense'[e] = [expense[e] EXCEPT !.status = status]
        BY <2>1, <2>3, <2>5
      <3>2. expense'[e] \in Expense
        BY <3>1, <2>2 DEF Expense
      <3> QED
        BY <3>1, <3>2, NoneAssumption DEF Expense
    <2> QED
      BY <2>4, <2>5
  <1> QED
    BY <1>1, <1>2 DEF Begins, Step, BeginAllocate, BeginDecide, ReadBudget, InsertAllocation, CheckBudget,
                      RereadBudget, WriteBudget

\* The calls under way know what they did of their expense.
LEMMA LinksStay ==
  ASSUME IInv, IInv', \A d \in Calls : Linked(d), NEW c \in Calls, Begins(c) \/ Step(c)
  PROVE  \A d \in Calls : Linked(d)'
  <1>0. /\ \A d \in Calls \ {c} : fin'[d] = fin[d]
        /\ fin'[c] \in Call /\ fin[c] \in Call /\ Linked(c)
        /\ \A e \in Expenses : /\ expense'[e] = None <=> expense[e] = None
                               /\ expense[e] # None => /\ expense'[e].budget = expense[e].budget
                                                       /\ expense'[e].amount = expense[e].amount
    BY OneMoves, ExpensesStay
  <1>1. ASSUME NEW d \in Calls, d # c PROVE Linked(d)'
    BY <1>0, <1>1 DEF Linked
  <1>2. ASSUME NEW b \in Budgets, NEW amount \in Amounts, BeginAllocate(c, b, amount) PROVE Linked(c)'
    BY <1>0, <1>2 DEF BeginAllocate, Linked, Idle, IInv, Types
  <1>3. ASSUME NEW op \in {"approveExpense", "rejectExpense"}, NEW e \in Expenses, BeginDecide(c, op, e)
        PROVE Linked(c)'
    <2>1. /\ fin'[c].op = op /\ fin'[c].expense = e /\ fin'[c].budget = expense[e].budget
          /\ fin'[c].amount = expense[e].amount /\ expense[e] # None
          /\ fin'[c].pc \in {"refused", "check", "decide"}
          /\ op = "rejectExpense" => fin'[c].pc \in {"refused", "decide"}
      BY <1>0, <1>3 DEF BeginDecide, Idle, IInv, Types
    <2> QED
      BY <1>0, <2>1 DEF Linked
  <1>4. ASSUME ReadBudget(c) \/ InsertAllocation(c) \/ CheckBudget(c) \/ RereadBudget(c) \/ WriteBudget(c) \/ WriteExpense(c)
        PROVE Linked(c)'
    <2>1. /\ fin'[c].op = fin[c].op /\ fin'[c].expense = fin[c].expense /\ fin'[c].budget = fin[c].budget
          /\ fin'[c].amount = fin[c].amount
      BY <1>0, <1>4 DEF ReadBudget, InsertAllocation, CheckBudget, RereadBudget, WriteBudget, WriteExpense, Goto, IInv, Types, Call
    <2>2. /\ fin[c].pc = "read" => fin'[c].pc \in {"insert", "refused"}
          /\ fin[c].pc = "insert" => fin'[c].pc = "write"
          /\ fin[c].pc = "check" => fin'[c].pc \in {"reread", "refused"}
          /\ fin[c].pc = "reread" => fin'[c].pc = "write"
          /\ fin[c].pc = "write" => fin'[c].pc = (IF fin[c].op = "allocateBudget" THEN "done" ELSE "decide")
          /\ fin[c].pc = "decide" => fin'[c].pc = "done"
          /\ fin[c].pc \in {"read", "insert", "check", "reread", "write", "decide"}
      BY <1>0, <1>4 DEF ReadBudget, InsertAllocation, CheckBudget, RereadBudget, WriteBudget, WriteExpense, Goto, IInv, Types, Call
    <2>3. fin[c].op # "none"
      BY <1>0, <2>2 DEF Linked, Idle
    <2> QED
      BY <1>0, <2>1, <2>2, <2>3 DEF Linked, Call
  <1> QED
    BY <1>1, <1>2, <1>3, <1>4 DEF Begins, Step

\* Whoever decides an expense alone found it pending.
LEMMA AloneStays ==
  ASSUME FundLinks, IInv', \A d \in Calls : Linked(d)', NEW c \in Calls, Begins(c) \/ Step(c), NEW e \in Expenses \ contested'
  PROVE  Alone(e)'
  <1>0. /\ \A d \in Calls \ {c} : fin'[d] = fin[d]
        /\ fin'[c] \in Call /\ fin[c] \in Call /\ Linked(c) /\ contested \subseteq contested'
        /\ Alone(e)
    <2>1. contested \subseteq contested'
      BY DEF Begins, Step, BeginAllocate, BeginDecide, ReadBudget, InsertAllocation, CheckBudget, RereadBudget, WriteBudget, WriteExpense
    <2> QED
      BY <2>1, OneMoves DEF FundLinks
  <1>1. Deciding(e)' \subseteq Deciding(e) \cup {c} /\ Deciding(e) \subseteq Deciding(e)' \cup {c}
    BY <1>0 DEF Deciding
  <1>2. CASE \E b \in Budgets, amount \in Amounts : BeginAllocate(c, b, amount)
    <2>1. c \notin Deciding(e)' /\ UNCHANGED expense
      BY <1>2, <1>0 DEF BeginAllocate, Deciding, Idle, IInv, Types
    <2> QED
      BY <1>0, <1>1, <2>1 DEF Alone
  <1>3. ASSUME NEW op \in {"approveExpense", "rejectExpense"}, NEW d \in Expenses, BeginDecide(c, op, d)
        PROVE Alone(e)'
    <2>1. /\ fin'[c].expense = d /\ expense' = expense /\ fin[c] = Idle
          /\ ~Decidable(d) => fin'[c].pc = "refused"
      BY <1>0, <1>3 DEF BeginDecide, Idle, IInv, Types
    <2>2. c \notin Deciding(e)
      BY <2>1 DEF Idle, Deciding
    <2>3. CASE c \in Deciding(e)'
      <3>1. d = e /\ Decidable(e)
        BY <2>1, <2>3 DEF Deciding
      <3>2. Deciding(e) = {}
        BY <3>1, <1>3 DEF BeginDecide
      <3> QED
        BY <1>1, <2>1, <3>1, <3>2 DEF Alone, Decidable
    <2>4. CASE c \notin Deciding(e)'
      BY <1>0, <1>1, <2>1, <2>2, <2>4 DEF Alone
    <2> QED
      BY <2>3, <2>4
  <1>4. CASE WriteExpense(c)
    <2>1. fin'[c].pc = "done" /\ \A d \in Expenses \ {fin[c].expense} : expense'[d] = expense[d]
      BY <1>4, <1>0 DEF WriteExpense, Goto, IInv, Types
    <2>2. c \notin Deciding(e)'
      BY <2>1 DEF Deciding
    <2>3. CASE fin[c].expense = e
      <3>1. c \in Deciding(e)
        BY <1>4, <2>3 DEF WriteExpense, Deciding
      <3>2. Deciding(e)' = {}
        BY <1>0, <1>1, <2>2, <3>1 DEF Alone
      <3> QED
        BY <3>2 DEF Alone
    <2>4. CASE fin[c].expense # e
      BY <1>0, <1>1, <2>1, <2>2, <2>4 DEF Alone
    <2> QED
      BY <2>3, <2>4
  <1>5. CASE ReadBudget(c) \/ InsertAllocation(c) \/ CheckBudget(c) \/ RereadBudget(c) \/ WriteBudget(c)
    <2>1. /\ fin'[c].expense = fin[c].expense /\ expense' = expense
          /\ fin[c].pc \in {"read", "insert"} => fin[c].expense = None
          /\ fin[c].pc \in {"check", "reread", "write"} \cup {"read", "insert"}
      BY <1>5, <1>0 DEF ReadBudget, InsertAllocation, CheckBudget, RereadBudget, WriteBudget, Goto, IInv, Types, Call, Linked, Idle
    <2>2. Deciding(e)' \subseteq Deciding(e)
      BY <1>1, <2>1, NoneAssumption DEF Deciding
    <2> QED
      BY <1>0, <2>1, <2>2 DEF Alone
  <1> QED
    BY <1>2, <1>3, <1>4, <1>5 DEF Begins, Step

\* Every step of a finance call keeps the links,
LEMMA LinksKept == FundLinks /\ [Next]_vars => FundLinks'
  <1> SUFFICES ASSUME FundLinks, [Next]_vars PROVE FundLinks'
    OBVIOUS
  <1>1. IInv'
    BY StepPreserves DEF FundLinks
  <1>2. ASSUME NEW c \in Calls, Begins(c) \/ Step(c) PROVE FundLinks'
    BY <1>1, <1>2, LinksStay, AloneStays DEF FundLinks
  <1>3. ASSUME NEW e \in Expenses, CreateExpense(e) PROVE FundLinks'
    <2>1. /\ expense[e] = None /\ UNCHANGED <<fin, contested>>
          /\ \A d \in Expenses \ {e} : expense'[d] = expense[d]
      BY <1>3 DEF CreateExpense, FundLinks, IInv, Types
    <2>2. ASSUME NEW c \in Calls PROVE Linked(c)'
      BY <2>1 DEF FundLinks, Linked
    <2>3. Deciding(e) = {}
      <3>1. \A c \in Calls : fin[c].pc \in {"check", "reread", "write", "decide"} => fin[c].expense # e
        BY <2>1, NoneAssumption DEF FundLinks, Linked, IInv, Types, Idle, Call
      <3> QED
        BY <3>1 DEF Deciding
    <2>4. ASSUME NEW d \in Expenses \ contested' PROVE Alone(d)'
      <3>1. Deciding(d)' = Deciding(d) /\ Alone(d)
        BY <2>1 DEF Deciding, FundLinks
      <3> QED
        BY <2>1, <2>3, <3>1 DEF Alone
    <2> QED
      BY <1>1, <2>2, <2>4 DEF FundLinks
  <1>4. CASE UNCHANGED vars
    BY <1>1, <1>4 DEF vars, FundLinks, Linked, Alone, Deciding
  <1> QED
    BY <1>2, <1>3, <1>4 DEF Next

\* which hold before the first call.
LEMMA LinksStart == Init => FundLinks
  <1> SUFFICES ASSUME Init PROVE FundLinks
    OBVIOUS
  <1>1. IInv
    BY InitEstablishes
  <1>2. \A c \in Calls : Linked(c)
    BY DEF Init, Linked, Idle
  <1>3. \A e \in Expenses : Deciding(e) = {}
    BY DEF Init, Deciding, Idle
  <1> QED
    BY <1>1, <1>2, <1>3 DEF FundLinks, Alone

\* No expense that was decided is decided differently unless two calls were deciding
\* it at the same time.
LEMMA DecisionsKept == FundLinks /\ [Next]_vars => KeepsDecided
  <1> SUFFICES ASSUME FundLinks, [Next]_vars, NEW e \in Expenses \ contested',
                      expense[e] # None, expense[e].status # "PENDING"
               PROVE  expense'[e] = expense[e]
    BY DEF KeepsDecided
  <1>1. ASSUME NEW c \in Calls, WriteExpense(c) PROVE expense'[e] = expense[e]
    <2>1. /\ \A d \in Expenses \ {fin[c].expense} : expense'[d] = expense[d]
          /\ e \notin contested /\ fin[c].pc = "decide"
      BY <1>1 DEF WriteExpense, FundLinks, IInv, Types
    <2>2. c \notin Deciding(e)
      BY <2>1 DEF FundLinks, Alone
    <2> QED
      BY <2>1, <2>2 DEF Deciding
  <1>2. ASSUME NEW d \in Expenses, CreateExpense(d) PROVE expense'[e] = expense[e]
    BY <1>2 DEF CreateExpense, FundLinks, IInv, Types
  <1> QED
    BY <1>1, <1>2 DEF Next, vars, Begins, Step, BeginAllocate, BeginDecide, ReadBudget, InsertAllocation,
                      CheckBudget, RereadBudget, WriteBudget

\* The allocation table holds one row for each allocation inserted, as the call that
\* inserted it has it.
AllocationsKnown ==
  /\ IsFiniteSet(allocations) /\ allocations \subseteq Allocation
  /\ \A a \in allocations : /\ fin[a.by].op = "allocateBudget" /\ fin[a.by].pc \in {"write", "done"}
                            /\ a = RowOf(a.by)
  /\ \A c \in Calls : fin[c].op = "allocateBudget" /\ fin[c].pc \in {"write", "done"}
                        => RowOf(c) \in allocations

\* The allocations that are written to budget b, ...
MadeOf(b) == {a \in allocations : a.budget = b /\ fin[a.by].pc = "done"}
amounts == [a \in Allocation |-> a.amount]

\* ... the expenses charged to it, and what each of them is.
Mine(b) == {e \in Expenses : expense[e] # None /\ expense[e].budget = b}
Charging(e) == \E c \in Deciding(e) : fin[c].op = "approveExpense" /\ fin[c].pc = "decide"
PaidOf(b) == {e \in Mine(b) : expense[e].status = "APPROVED" \/ Charging(e)}
costs == [e \in Expenses |-> IF expense[e] = None THEN 0 ELSE expense[e].amount]

RowAddsUp(b) ==
  /\ budget[b].allocated = TotalOf(amounts, MadeOf(b))
  /\ contested \cap Mine(b) = {} => budget[b].spent = TotalOf(costs, PaidOf(b))

FundInv ==
  /\ FundLinks
  /\ AllocationsKnown
  /\ IsFiniteSet({e \in Expenses : expense[e] # None})
  /\ \A b \in Budgets \ overwritten : RowAddsUp(b)

\* Where a handler's steps take it,
LEMMA StepShape ==
  ASSUME IInv, IInv', NEW c \in Calls, Step(c)
  PROVE  /\ fin'[c].op = fin[c].op /\ fin'[c].expense = fin[c].expense /\ fin'[c].budget = fin[c].budget
         /\ fin'[c].amount = fin[c].amount
         /\ ReadBudget(c) => fin[c].pc = "read" /\ fin'[c].pc \in {"insert", "refused"}
         /\ InsertAllocation(c) => fin[c].pc = "insert" /\ fin'[c].pc = "write"
         /\ CheckBudget(c) => fin[c].pc = "check" /\ fin'[c].pc \in {"reread", "refused"}
         /\ RereadBudget(c) => fin[c].pc = "reread" /\ fin'[c].pc = "write"
         /\ WriteBudget(c) => /\ fin[c].pc = "write"
                              /\ fin'[c].pc = (IF fin[c].op = "allocateBudget" THEN "done" ELSE "decide")
         /\ WriteExpense(c) => fin[c].pc = "decide" /\ fin'[c].pc = "done"
         /\ ~WriteExpense(c) => expense' = expense
         /\ ~InsertAllocation(c) => allocations' = allocations
         /\ ~WriteBudget(c) => budget' = budget /\ overwritten' = overwritten
         /\ contested' = contested
  <1>0. fin \in [Calls -> Call]
    BY DEF IInv, Types
  <1>1. CASE ReadBudget(c)
    BY <1>0, <1>1 DEF ReadBudget, InsertAllocation, CheckBudget, RereadBudget, WriteBudget, WriteExpense, Call
  <1>2. CASE InsertAllocation(c)
    BY <1>0, <1>2 DEF ReadBudget, InsertAllocation, CheckBudget, RereadBudget, WriteBudget, WriteExpense, Goto, Call
  <1>3. CASE CheckBudget(c)
    BY <1>0, <1>3 DEF ReadBudget, InsertAllocation, CheckBudget, RereadBudget, WriteBudget, WriteExpense, Goto, Call
  <1>4. CASE RereadBudget(c)
    BY <1>0, <1>4 DEF ReadBudget, InsertAllocation, CheckBudget, RereadBudget, WriteBudget, WriteExpense, Call
  <1>5. CASE WriteBudget(c)
    BY <1>0, <1>5 DEF ReadBudget, InsertAllocation, CheckBudget, RereadBudget, WriteBudget, WriteExpense, Goto, Call
  <1>6. CASE WriteExpense(c)
    BY <1>0, <1>6 DEF ReadBudget, InsertAllocation, CheckBudget, RereadBudget, WriteBudget, WriteExpense, Goto, Call
  <1> QED
    BY <1>1, <1>2, <1>3, <1>4, <1>5, <1>6 DEF Step

\* and where it begins.
LEMMA BeginShape ==
  ASSUME IInv, IInv', NEW c \in Calls, Begins(c)
  PROVE  /\ fin[c] = Idle /\ UNCHANGED <<budget, allocations, expense, overwritten>>
         /\ contested \subseteq contested'
         /\ \/ /\ fin'[c].op = "allocateBudget" /\ fin'[c].pc = "read" /\ fin'[c].expense = None
               /\ fin'[c].budget \in Budgets /\ fin'[c].amount \in Amounts
            \/ /\ fin'[c].op \in {"approveExpense", "rejectExpense"} /\ fin'[c].pc \in {"refused", "check", "decide"}
               /\ fin'[c].expense \in Expenses /\ expense[fin'[c].expense] # None
               /\ fin'[c].budget = expense[fin'[c].expense].budget
               /\ fin'[c].amount = expense[fin'[c].expense].amount
               /\ fin'[c].op = "approveExpense" /\ fin'[c].pc = "decide" => fin'[c].budget = None
  <1>0. fin \in [Calls -> Call]
    BY DEF IInv, Types
  <1>1. ASSUME NEW b \in Budgets, NEW amount \in Amounts, BeginAllocate(c, b, amount)
        PROVE  /\ fin[c] = Idle /\ UNCHANGED <<budget, allocations, expense, overwritten>>
               /\ contested \subseteq contested'
               /\ fin'[c].op = "allocateBudget" /\ fin'[c].pc = "read" /\ fin'[c].expense = None
               /\ fin'[c].budget \in Budgets /\ fin'[c].amount \in Amounts
    BY <1>0, <1>1 DEF BeginAllocate, Idle
  <1>2. ASSUME NEW op \in {"approveExpense", "rejectExpense"}, NEW e \in Expenses, BeginDecide(c, op, e)
        PROVE  /\ fin[c] = Idle /\ UNCHANGED <<budget, allocations, expense, overwritten>>
               /\ contested \subseteq contested'
               /\ fin'[c].op \in {"approveExpense", "rejectExpense"} /\ fin'[c].pc \in {"refused", "check", "decide"}
               /\ fin'[c].expense \in Expenses /\ expense[fin'[c].expense] # None
               /\ fin'[c].budget = expense[fin'[c].expense].budget
               /\ fin'[c].amount = expense[fin'[c].expense].amount
               /\ fin'[c].op = "approveExpense" /\ fin'[c].pc = "decide" => fin'[c].budget = None
    BY <1>0, <1>2 DEF BeginDecide, Idle
  <1> QED
    BY <1>1, <1>2 DEF Begins

\* An allocation call that goes on leaves the allocations of the others.
LEMMA AllocationsStay ==
  ASSUME FundLinks, FundLinks', AllocationsKnown, NEW c \in Calls, Begins(c) \/ Step(c)
  PROVE  AllocationsKnown'
  <1>0. /\ \A d \in Calls \ {c} : fin'[d] = fin[d]
        /\ fin'[c] \in Call /\ fin[c] \in Call /\ Linked(c) /\ Linked(c)'
    BY OneMoves DEF FundLinks
  <1>1. CASE InsertAllocation(c)
    <2>1. /\ fin'[c].op = fin[c].op /\ fin'[c].budget = fin[c].budget /\ fin'[c].amount = fin[c].amount
          /\ fin[c].pc = "insert" /\ fin'[c].pc = "write"
          /\ allocations' = allocations \cup {RowOf(c)}
      BY <1>0, <1>1 DEF InsertAllocation, Goto, FundLinks, IInv, Types, Call, RowOf
    <2>2. fin[c].op = "allocateBudget" /\ RowOf(c)' = RowOf(c)
      BY <1>0, <2>1 DEF Linked, RowOf, Idle, Call
    <2>3. RowOf(c) \in Allocation /\ RowOf(c).by = c
      BY <1>0, <2>2 DEF RowOf, Allocation, Linked
    <2>4. IsFiniteSet(allocations') /\ allocations' \subseteq Allocation
      BY <2>1, <2>3, FS_AddElement DEF AllocationsKnown
    <2>5. ASSUME NEW a \in allocations'
          PROVE  fin'[a.by].op = "allocateBudget" /\ fin'[a.by].pc \in {"write", "done"} /\ a = RowOf(a.by)'
      <3>1. CASE a = RowOf(c)
        BY <2>1, <2>2, <2>3, <3>1
      <3>2. CASE a # RowOf(c)
        <4>1. a \in allocations
          BY <2>1, <3>2
        <4>2. a.by # c
          BY <2>1, <4>1 DEF AllocationsKnown
        <4>3. a.by \in Calls
          BY <4>1 DEF AllocationsKnown, Allocation
        <4> QED
          BY <1>0, <4>1, <4>2, <4>3 DEF AllocationsKnown, RowOf
      <3> QED
        BY <3>1, <3>2
    <2>6. ASSUME NEW d \in Calls, fin'[d].op = "allocateBudget", fin'[d].pc \in {"write", "done"}
          PROVE  RowOf(d)' \in allocations'
      BY <1>0, <2>1, <2>2, <2>6 DEF AllocationsKnown, RowOf
    <2> QED
      BY <2>4, <2>5, <2>6 DEF AllocationsKnown
  <1>2. CASE ~InsertAllocation(c)
    <2>1. allocations' = allocations
      BY <1>2 DEF Begins, Step, BeginAllocate, BeginDecide, ReadBudget, CheckBudget, RereadBudget, WriteBudget, WriteExpense
    <2>a. CASE Begins(c)
      <3>1. fin[c].op = "none" /\ (fin'[c].op = "allocateBudget" => fin'[c].pc = "read")
        BY <2>a, BeginShape DEF Idle, FundLinks
      <3> QED
        BY <1>0, <2>1, <3>1 DEF AllocationsKnown, RowOf, Allocation
    <2>b. CASE Step(c)
      <3>2. /\ fin'[c].op = fin[c].op /\ fin'[c].budget = fin[c].budget /\ fin'[c].amount = fin[c].amount
            /\ fin[c].op = "allocateBudget" /\ fin[c].pc \in {"write", "done"} => fin'[c].pc \in {"write", "done"}
            /\ fin[c].op = "allocateBudget" /\ fin'[c].pc \in {"write", "done"} => fin[c].pc \in {"write", "done"}
        BY <1>0, <1>2, <2>b, StepShape DEF Step, FundLinks, Linked
      <3>4. ASSUME NEW a \in allocations'
            PROVE  fin'[a.by].op = "allocateBudget" /\ fin'[a.by].pc \in {"write", "done"} /\ a = RowOf(a.by)'
        <4>1. a.by \in Calls /\ a \in allocations
          BY <2>1 DEF AllocationsKnown, Allocation
        <4> QED
          BY <1>0, <3>2, <4>1 DEF AllocationsKnown, RowOf
      <3>5. ASSUME NEW d \in Calls, fin'[d].op = "allocateBudget", fin'[d].pc \in {"write", "done"}
            PROVE  RowOf(d)' \in allocations'
        BY <1>0, <2>1, <3>2, <3>5 DEF AllocationsKnown, RowOf
      <3> QED
        BY <2>1, <3>4, <3>5 DEF AllocationsKnown
    <2> QED
      BY <2>a, <2>b
  <1> QED
    BY <1>1, <1>2

\* Only the write of a budget changes what its allocations add up to,
LEMMA MadeStays ==
  ASSUME FundLinks, FundLinks', AllocationsKnown, NEW c \in Calls, Begins(c) \/ Step(c), NEW b
  PROVE  /\ ~WriteBudget(c) \/ fin[c].op # "allocateBudget" \/ fin[c].budget # b => MadeOf(b)' = MadeOf(b)
         /\ WriteBudget(c) /\ fin[c].op = "allocateBudget" /\ fin[c].budget = b
              => /\ MadeOf(b)' = MadeOf(b) \cup {RowOf(c)}
                 /\ RowOf(c) \notin MadeOf(b) /\ RowOf(c) \in allocations
  <1>0. /\ \A d \in Calls \ {c} : fin'[d] = fin[d]
        /\ fin'[c] \in Call /\ fin[c] \in Call /\ Linked(c) /\ Linked(c)'
    BY OneMoves DEF FundLinks
  <1>1. \A a \in allocations : a.by \in Calls /\ (a.by = c => a = RowOf(c) /\ fin[c].op = "allocateBudget" /\ fin[c].pc \in {"write", "done"})
    BY DEF AllocationsKnown, Allocation
  <1>2. RowOf(c).by = c /\ RowOf(c).budget = fin[c].budget
    BY DEF RowOf
  <1>3. CASE WriteBudget(c) /\ fin[c].op = "allocateBudget"
    <2>1. allocations' = allocations /\ fin[c].pc = "write" /\ fin'[c].pc = "done"
      BY <1>0, <1>3 DEF WriteBudget, Goto, FundLinks, IInv, Types
    <2>2. RowOf(c) \in allocations
      BY <1>3, <2>1 DEF AllocationsKnown
    <2>3. RowOf(c) \notin MadeOf(b)
      BY <1>2, <2>1 DEF MadeOf
    <2>4. ASSUME NEW a \in allocations, a # RowOf(c) PROVE fin'[a.by] = fin[a.by]
      BY <1>0, <1>1, <2>4
    <2>5. fin[c].budget = b => MadeOf(b)' = MadeOf(b) \cup {RowOf(c)}
      BY <1>2, <2>1, <2>2, <2>4 DEF MadeOf
    <2>6. fin[c].budget # b => MadeOf(b)' = MadeOf(b)
      BY <1>2, <2>1, <2>4 DEF MadeOf
    <2> QED
      BY <1>3, <2>2, <2>3, <2>5, <2>6
  <1>4. CASE InsertAllocation(c)
    <2>1. allocations' = allocations \cup {RowOf(c)} /\ fin[c].pc = "insert" /\ fin'[c].pc = "write"
      BY <1>0, <1>4 DEF InsertAllocation, RowOf, Goto, FundLinks, IInv, Types
    <2>2. \A a \in allocations : fin'[a.by] = fin[a.by]
      BY <1>0, <1>1, <2>1
    <2>3. MadeOf(b)' = MadeOf(b)
      BY <1>2, <2>1, <2>2 DEF MadeOf
    <2>4. ~WriteBudget(c)
      BY <2>1 DEF WriteBudget
    <2> QED
      BY <2>3, <2>4
  <1>5. CASE ~InsertAllocation(c) /\ (~WriteBudget(c) \/ fin[c].op # "allocateBudget")
    <2>1. allocations' = allocations
      BY <1>5 DEF Begins, Step, BeginAllocate, BeginDecide, ReadBudget, CheckBudget, RereadBudget, WriteBudget, WriteExpense
    <2>2. RowOf(c) \notin allocations
      <3>1. CASE Begins(c)
        <4>1. fin[c].pc = "idle"
          BY <3>1, BeginShape DEF Idle, FundLinks
        <4> QED
          BY <1>1, <1>2, <4>1
      <3>2. CASE Step(c)
        BY <1>0, <1>1, <1>2, <1>5, <3>2, StepShape DEF Step, FundLinks
      <3> QED
        BY <3>1, <3>2
    <2>3. \A a \in allocations : fin'[a.by] = fin[a.by]
      BY <1>0, <1>1, <2>2
    <2>4. MadeOf(b)' = MadeOf(b)
      BY <2>1, <2>3 DEF MadeOf
    <2> QED
      BY <1>5, <2>4
  <1> QED
    BY <1>3, <1>4, <1>5

\* A decision is written as the handler decides.
LEMMA ExpenseDecided ==
  ASSUME FundLinks, NEW c \in Calls, WriteExpense(c), fin[c].op \in {"approveExpense", "rejectExpense"}
  PROVE  expense'[fin[c].expense].status = IF fin[c].op = "approveExpense" THEN "APPROVED" ELSE "REJECTED"
  <1>1. PICK e \in Expenses : e = fin[c].expense /\ expense[e] # None
    BY DEF FundLinks, Linked
  <1>2. expense \in [Expenses -> Expense \cup {None}] /\ expense[e] \in Expense
    BY <1>1 DEF FundLinks, IInv, Types
  <1>3. expense' = [expense EXCEPT ![e] = [expense[e] EXCEPT !.status = IF fin[c].op = "approveExpense" THEN "APPROVED" ELSE "REJECTED"]]
    BY <1>1 DEF WriteExpense
  <1> QED
    BY <1>1, <1>2, <1>3 DEF Expense

\* and only that of an approved expense what its expenses do.
LEMMA PaidStays ==
  ASSUME FundInv, FundLinks', NEW c \in Calls, Begins(c) \/ Step(c), NEW b \in Budgets,
         contested' \cap Mine(b)' = {}
  PROVE  /\ Mine(b)' = Mine(b) /\ contested \cap Mine(b) = {} /\ costs' = costs
         /\ ~WriteBudget(c) \/ fin[c].op # "approveExpense" \/ fin[c].budget # b => PaidOf(b)' = PaidOf(b)
         /\ WriteBudget(c) /\ fin[c].op = "approveExpense" /\ fin[c].budget = b
              => /\ PaidOf(b)' = PaidOf(b) \cup {fin[c].expense}
                 /\ fin[c].expense \notin PaidOf(b) /\ costs[fin[c].expense] = fin[c].amount
  <1>0. /\ \A d \in Calls \ {c} : fin'[d] = fin[d]
        /\ fin'[c] \in Call /\ fin[c] \in Call /\ Linked(c) /\ Linked(c)'
    BY OneMoves DEF FundLinks, FundInv
  <1>1. \A e \in Expenses : /\ expense'[e] = None <=> expense[e] = None
                            /\ expense[e] # None => /\ expense'[e].budget = expense[e].budget
                                                    /\ expense'[e].amount = expense[e].amount
    BY ExpensesStay DEF FundLinks, FundInv
  <1>2. Mine(b)' = Mine(b) /\ costs' = costs
    BY <1>1 DEF Mine, costs
  <1>3. contested \subseteq contested'
    BY DEF Begins, Step, BeginAllocate, BeginDecide, ReadBudget, InsertAllocation, CheckBudget, RereadBudget, WriteBudget, WriteExpense
  <1>4. contested \cap Mine(b) = {}
    BY <1>2, <1>3
  <1>5. \A e \in Mine(b) : Alone(e) /\ Alone(e)' /\ e \in Expenses
    BY <1>2, <1>4 DEF FundInv, FundLinks, Mine
  <1>6. b # None
    BY NoneAssumption
  <1>7. ASSUME NEW e \in Mine(b), e # fin[c].expense \/ fin[c].op = "allocateBudget", e # fin'[c].expense \/ fin'[c].op = "allocateBudget"
        PROVE  Charging(e)' <=> Charging(e)
    <2>1. c \notin Deciding(e) /\ c \notin Deciding(e)'
      BY <1>0, <1>7, <1>5, NoneAssumption DEF Linked, Deciding
    <2>2. Deciding(e)' = Deciding(e)
      BY <1>0, <2>1 DEF Deciding
    <2>3. \A d \in Deciding(e) : fin'[d] = fin[d]
      BY <1>0, <2>1 DEF Deciding
    <2> QED
      BY <2>2, <2>3 DEF Charging
  <1>8. CASE UNCHANGED expense /\ ~(WriteBudget(c) /\ fin[c].op = "approveExpense")
    <2>1. ASSUME NEW e \in Mine(b) PROVE Charging(e)' <=> Charging(e)
      <3>1. ASSUME e = fin'[c].expense, fin'[c].op # "allocateBudget"
            PROVE  Charging(e)' <=> Charging(e)
        <4>1. CASE Begins(c)
          <5>1. fin[c].op = "none" /\ ~(fin'[c].op = "approveExpense" /\ fin'[c].pc = "decide")
            BY <1>5, <1>6, <3>1, <4>1, BeginShape DEF Idle, FundInv, FundLinks, Mine
          <5> QED
            BY <1>0, <5>1 DEF Charging, Deciding
        <4>2. CASE Step(c)
          <5>1. ~(fin'[c].op = "approveExpense" /\ fin'[c].pc = "decide")
            BY <1>8, <4>2, StepShape DEF Step, FundInv, FundLinks
          <5>2. ~(fin[c].op = "approveExpense" /\ fin[c].pc = "decide") \/ WriteExpense(c)
            BY <1>8, <4>2, StepShape DEF Step, FundInv, FundLinks
          <5>3. CASE WriteExpense(c)
            <6>1. c \in Deciding(e) /\ fin[c].op = fin'[c].op
              BY <3>1, <4>2, <5>3, StepShape DEF Deciding, FundInv, FundLinks
            <6>2. expense[e].status = "PENDING" /\ fin[c].pc = "decide" /\ fin[c].op \in {"approveExpense", "rejectExpense"}
              BY <1>0, <1>5, <3>1, <4>2, <5>3, <6>1, StepShape DEF Alone, Linked, Call, FundInv, FundLinks, Idle
            <6>3. expense'[e].status # "PENDING"
              BY <1>5, <3>1, <4>2, <5>3, <6>2, StepShape, ExpenseDecided DEF FundInv, FundLinks
            <6> QED
              BY <1>8, <6>2, <6>3
          <5> QED
            BY <1>0, <5>1, <5>2, <5>3 DEF Charging, Deciding
        <4> QED
          BY <4>1, <4>2
      <3>2. ASSUME e = fin[c].expense, fin[c].op # "allocateBudget"
            PROVE  e = fin'[c].expense /\ fin'[c].op # "allocateBudget"
        <4>1. CASE Begins(c)
          BY <1>5, <3>2, <4>1, BeginShape, NoneAssumption DEF Idle, FundInv, FundLinks
        <4>2. CASE Step(c)
          BY <3>2, <4>2, StepShape DEF FundInv, FundLinks
        <4> QED
          BY <4>1, <4>2
      <3> QED
        BY <1>7, <3>1, <3>2
    <2>2. PaidOf(b)' = PaidOf(b)
      BY <1>2, <1>8, <2>1 DEF PaidOf
    <2> QED
      BY <1>2, <1>4, <1>8, <2>2
  <1>9. CASE WriteBudget(c) /\ fin[c].op = "approveExpense"
    <2>0. PICK e : e = fin[c].expense
      OBVIOUS
    <2>1. /\ fin'[c].expense = e /\ fin'[c].op = "approveExpense" /\ fin'[c].pc = "decide" /\ fin[c].pc = "write"
          /\ expense' = expense /\ e \in Expenses /\ fin[c].budget = expense[e].budget
          /\ fin[c].amount = expense[e].amount /\ expense[e] # None
      BY <1>0, <1>9, <2>0 DEF WriteBudget, Goto, FundInv, FundLinks, IInv, Types, Call, Linked
    <2>2. \A d \in Mine(b) \ {e} : Charging(d)' <=> Charging(d)
      BY <1>7, <2>0, <2>1
    <2>3. CASE fin[c].budget # b
      <3>1. e \notin Mine(b)
        BY <2>1, <2>3 DEF Mine
      <3>2. PaidOf(b)' = PaidOf(b)
        BY <1>2, <2>1, <2>2, <3>1 DEF PaidOf
      <3> QED
        BY <1>2, <1>4, <2>3, <3>2
    <2>4. CASE fin[c].budget = b
      <3>1. e \in Mine(b) /\ c \in Deciding(e) /\ c \in Deciding(e)'
        BY <2>0, <2>1, <2>4 DEF Mine, Deciding
      <3>2. Charging(e)'
        BY <2>1, <3>1 DEF Charging
      <3>3. expense[e].status = "PENDING" /\ Deciding(e) = {c}
        BY <1>5, <3>1 DEF Alone
      <3>4. ~Charging(e)
        BY <2>1, <3>3 DEF Charging
      <3>5. e \notin PaidOf(b)
        BY <3>3, <3>4 DEF PaidOf
      <3>6. PaidOf(b)' = PaidOf(b) \cup {e}
        <4>1. \A d : d \in PaidOf(b)' <=> d \in Mine(b) /\ (expense[d].status = "APPROVED" \/ Charging(d)')
          BY <1>2, <2>1 DEF PaidOf
        <4>2. \A d : d \in PaidOf(b) <=> d \in Mine(b) /\ (expense[d].status = "APPROVED" \/ Charging(d))
          BY DEF PaidOf
        <4> QED
          BY <2>2, <3>1, <3>2, <4>1, <4>2
      <3>7. costs[e] = fin[c].amount
        BY <2>1 DEF costs
      <3> QED
        BY <1>2, <1>4, <1>9, <2>0, <2>4, <3>5, <3>6, <3>7
    <2> QED
      BY <2>3, <2>4
  <1>10. CASE WriteExpense(c)
    <2>0. PICK e : e = fin[c].expense
      OBVIOUS
    <2>1. /\ fin'[c].expense = e /\ fin'[c].op = fin[c].op /\ fin'[c].pc = "done" /\ fin[c].pc = "decide"
          /\ \A d \in Expenses \ {e} : expense'[d] = expense[d]
          /\ fin[c].op \in {"approveExpense", "rejectExpense"} /\ e \in Expenses
      BY <1>0, <1>10, <2>0 DEF WriteExpense, Goto, FundInv, FundLinks, IInv, Types, Call, Linked, Idle
    <2>2. expense'[e].status = IF fin[c].op = "approveExpense" THEN "APPROVED" ELSE "REJECTED"
      BY <1>10, <2>0, <2>1, ExpenseDecided DEF FundInv
    <2>3. \A d \in Mine(b) \ {e} : Charging(d)' <=> Charging(d)
      BY <1>7, <2>0, <2>1
    <2>4. ASSUME e \in Mine(b)
          PROVE  (expense'[e].status = "APPROVED" \/ Charging(e)') <=> (expense[e].status = "APPROVED" \/ Charging(e))
      <3>1. c \in Deciding(e)
        BY <2>0, <2>1 DEF Deciding
      <3>2. expense[e].status = "PENDING" /\ Deciding(e) = {c}
        BY <1>5, <2>4, <3>1 DEF Alone
      <3>3. Deciding(e)' = {}
        <4>1. c \notin Deciding(e)' /\ \A d \in Calls \ {c} : d \in Deciding(e)' <=> d \in Deciding(e)
          BY <1>0, <2>1 DEF Deciding
        <4>2. Deciding(e)' \subseteq Calls
          BY DEF Deciding
        <4> QED
          BY <3>2, <4>1, <4>2
      <3>4. Charging(e) <=> fin[c].op = "approveExpense"
        BY <2>1, <3>2 DEF Charging
      <3>5. ~Charging(e)'
        BY <3>3 DEF Charging
      <3> QED
        BY <2>1, <2>2, <3>2, <3>4, <3>5
    <2>5. PaidOf(b)' = PaidOf(b)
      <3>1. \A d \in Mine(b) \ {e} : expense'[d] = expense[d]
        BY <2>1 DEF Mine
      <3>2. \A d : d \in PaidOf(b)' <=> d \in Mine(b) /\ (expense'[d].status = "APPROVED" \/ Charging(d)')
        BY <1>2 DEF PaidOf
      <3>3. \A d : d \in PaidOf(b) <=> d \in Mine(b) /\ (expense[d].status = "APPROVED" \/ Charging(d))
        BY DEF PaidOf
      <3> QED
        BY <2>3, <2>4, <3>1, <3>2, <3>3
    <2>6. ~WriteBudget(c)
      BY <2>1 DEF WriteBudget
    <2> QED
      BY <1>2, <1>4, <2>5, <2>6
  <1> QED
    BY <1>8, <1>9, <1>10 DEF Begins, Step, BeginAllocate, BeginDecide, ReadBudget, InsertAllocation, CheckBudget,
                             RereadBudget, WriteBudget

\* What is added up is finite, and in natural numbers.
LEMMA FundsFinite ==
  ASSUME FundLinks, AllocationsKnown, IsFiniteSet({e \in Expenses : expense[e] # None}), NEW b
  PROVE  /\ IsFiniteSet(MadeOf(b)) /\ MadeOf(b) \subseteq Allocation
         /\ \A a \in Allocation : amounts[a] \in Nat
         /\ IsFiniteSet(PaidOf(b)) /\ PaidOf(b) \subseteq Expenses
         /\ \A e \in Expenses : costs[e] \in Nat
  <1>1. IsFiniteSet(MadeOf(b)) /\ MadeOf(b) \subseteq Allocation
    BY FS_Subset DEF MadeOf, AllocationsKnown
  <1>2. \A a \in Allocation : amounts[a] \in Nat
    BY AmountAssumption DEF amounts, Allocation
  <1>3. IsFiniteSet(PaidOf(b)) /\ PaidOf(b) \subseteq Expenses
    <2>1. PaidOf(b) \subseteq {e \in Expenses : expense[e] # None}
      BY DEF PaidOf, Mine
    <2> QED
      BY <2>1, FS_Subset
  <1>4. \A e \in Expenses : costs[e] \in Nat
    BY AmountAssumption DEF costs, FundLinks, IInv, Types, Expense
  <1> QED
    BY <1>1, <1>2, <1>3, <1>4

\* What a handler writes to a budget row is the row with its amount.
LEMMA RowWritten ==
  ASSUME FundLinks, NEW c \in Calls, WriteBudget(c), NEW b \in Budgets \ overwritten'
  PROVE  /\ b \notin overwritten
         /\ b # fin[c].budget => budget'[b] = budget[b]
         /\ b = fin[c].budget /\ fin[c].op = "allocateBudget" =>
              /\ budget'[b].allocated = budget[b].allocated + fin[c].amount
              /\ budget'[b].spent = budget[b].spent
         /\ b = fin[c].budget /\ fin[c].op # "allocateBudget" =>
              /\ budget'[b].allocated = budget[b].allocated
              /\ budget'[b].spent = budget[b].spent + fin[c].amount
  <1>0. /\ fin[c].budget \in Budgets /\ fin[c].pc = "write"
        /\ budget \in [Budgets -> Budget] /\ fin[c].seen \in Budget
    BY DEF FundLinks, IInv, Types, CopyOK, WriteBudget
  <1>1. budget' = [budget EXCEPT ![fin[c].budget] = Charged(c)]
    BY DEF WriteBudget
  <1>2. b \notin overwritten /\ (b = fin[c].budget => budget[b] = fin[c].seen)
    BY DEF WriteBudget
  <1>3. b = fin[c].budget => budget'[b] = Charged(c)
    BY <1>0, <1>1
  <1>4. fin[c].op = "allocateBudget" =>
          /\ Charged(c).allocated = fin[c].seen.allocated + fin[c].amount
          /\ Charged(c).spent = fin[c].seen.spent
    BY <1>0 DEF Charged, Budget
  <1>5. fin[c].op # "allocateBudget" =>
          /\ Charged(c).allocated = fin[c].seen.allocated
          /\ Charged(c).spent = fin[c].seen.spent + fin[c].amount
    BY <1>0 DEF Charged, Budget
  <1>6. b # fin[c].budget => budget'[b] = budget[b]
    BY <1>0, <1>1
  <1> QED
    BY <1>2, <1>3, <1>4, <1>5, <1>6

\* So what a budget says is allocated is the sum of its allocations,
LEMMA AllocatedAddsUp ==
  ASSUME FundInv, FundLinks', NEW c \in Calls, Begins(c) \/ Step(c), NEW b \in Budgets \ overwritten'
  PROVE  budget'[b].allocated = TotalOf(amounts, MadeOf(b)')
  <1>0. /\ IsFiniteSet(MadeOf(b)) /\ MadeOf(b) \subseteq Allocation
        /\ \A a \in Allocation : amounts[a] \in Nat
    BY FundsFinite DEF FundInv
  <1>1. overwritten \subseteq overwritten' /\ RowAddsUp(b)
    <2>1. overwritten \subseteq overwritten'
      <3>1. CASE WriteBudget(c)
        BY <3>1 DEF WriteBudget
      <3>2. CASE ~WriteBudget(c)
        BY <3>2, BeginShape, StepShape DEF FundInv, FundLinks
      <3> QED
        BY <3>1, <3>2
    <2> QED
      BY <2>1 DEF FundInv
  <1>2. CASE WriteBudget(c) /\ fin[c].op = "allocateBudget" /\ fin[c].budget = b
    <2>1. /\ MadeOf(b)' = MadeOf(b) \cup {RowOf(c)} /\ RowOf(c) \notin MadeOf(b) /\ RowOf(c) \in Allocation
      BY <1>2, MadeStays DEF FundInv, AllocationsKnown
    <2>2. amounts[RowOf(c)] = fin[c].amount
      BY <2>1 DEF amounts, RowOf
    <2>3. TotalOf(amounts, MadeOf(b)') = amounts[RowOf(c)] + TotalOf(amounts, MadeOf(b))
      BY <1>0, <2>1, TotalWith
    <2>4. budget'[b].allocated = budget[b].allocated + fin[c].amount
      BY <1>2, RowWritten DEF FundInv
    <2>5. budget[b].allocated = TotalOf(amounts, MadeOf(b))
      BY <1>1 DEF RowAddsUp
    <2>6. fin[c].amount \in Nat /\ TotalOf(amounts, MadeOf(b)) \in Nat
      BY <1>0, <2>1, <2>2, TotalType
    <2> QED
      BY <2>2, <2>3, <2>4, <2>5, <2>6
  <1>3. CASE ~(WriteBudget(c) /\ fin[c].op = "allocateBudget" /\ fin[c].budget = b)
    <2>1. MadeOf(b)' = MadeOf(b)
      BY <1>3, MadeStays DEF FundInv
    <2>2. budget'[b].allocated = budget[b].allocated
      <3>1. CASE WriteBudget(c)
        BY <1>3, <3>1, RowWritten DEF FundInv
      <3>2. CASE ~WriteBudget(c)
        BY <3>2, BeginShape, StepShape DEF FundInv, FundLinks
      <3> QED
        BY <3>1, <3>2
    <2> QED
      BY <1>1, <2>1, <2>2 DEF RowAddsUp
  <1> QED
    BY <1>2, <1>3

\* and what it says is spent is the sum of its paid expenses.
LEMMA SpentAddsUp ==
  ASSUME FundInv, FundLinks', NEW c \in Calls, Begins(c) \/ Step(c), NEW b \in Budgets \ overwritten',
         contested' \cap Mine(b)' = {}
  PROVE  budget'[b].spent = TotalOf(costs', PaidOf(b)')
  <1>0. /\ IsFiniteSet(PaidOf(b)) /\ PaidOf(b) \subseteq Expenses
        /\ \A e \in Expenses : costs[e] \in Nat
    BY FundsFinite DEF FundInv
  <1>1. overwritten \subseteq overwritten' /\ RowAddsUp(b)
    <2>1. overwritten \subseteq overwritten'
      <3>1. CASE WriteBudget(c)
        BY <3>1 DEF WriteBudget
      <3>2. CASE ~WriteBudget(c)
        BY <3>2, BeginShape, StepShape DEF FundInv, FundLinks
      <3> QED
        BY <3>1, <3>2
    <2> QED
      BY <2>1 DEF FundInv
  <1>2. costs' = costs /\ budget[b].spent = TotalOf(costs, PaidOf(b))
    BY <1>1, PaidStays DEF RowAddsUp
  <1>3. CASE WriteBudget(c) /\ fin[c].op = "approveExpense" /\ fin[c].budget = b
    <2>1. PICK e : e = fin[c].expense
      OBVIOUS
    <2>2. /\ PaidOf(b)' = PaidOf(b) \cup {e} /\ e \notin PaidOf(b) /\ costs[e] = fin[c].amount
          /\ e \in Expenses
      BY <1>3, <2>1, PaidStays DEF FundInv, FundLinks, Linked
    <2>3. TotalOf(costs, PaidOf(b)') = costs[e] + TotalOf(costs, PaidOf(b))
      BY <1>0, <2>2, TotalWith
    <2>4. budget'[b].spent = budget[b].spent + fin[c].amount
      BY <1>3, RowWritten DEF FundInv
    <2>5. costs[e] \in Nat /\ TotalOf(costs, PaidOf(b)) \in Nat
      BY <1>0, <2>2, TotalType
    <2> QED
      BY <1>2, <2>2, <2>3, <2>4, <2>5
  <1>4. CASE ~(WriteBudget(c) /\ fin[c].op = "approveExpense" /\ fin[c].budget = b)
    <2>1. PaidOf(b)' = PaidOf(b)
      BY <1>4, PaidStays
    <2>2. budget'[b].spent = budget[b].spent
      <3>1. CASE WriteBudget(c)
        <4>1. fin[c].op \in {"allocateBudget", "approveExpense"}
          BY <3>1 DEF WriteBudget, FundInv, FundLinks, Linked, IInv, Types, Call, Idle
        <4> QED
          BY <1>4, <3>1, <4>1, RowWritten DEF FundInv
      <3>2. CASE ~WriteBudget(c)
        BY <3>2, BeginShape, StepShape DEF FundInv, FundLinks
      <3> QED
        BY <3>1, <3>2
    <2> QED
      BY <1>2, <2>1, <2>2
  <1> QED
    BY <1>3, <1>4

\* Nothing is allocated or spent at the start,
LEMMA FundsStart == Init => FundInv
  <1> SUFFICES ASSUME Init PROVE FundInv
    OBVIOUS
  <1>1. FundLinks
    BY LinksStart
  <1>2. AllocationsKnown
    BY FS_EmptySet DEF Init, AllocationsKnown, Idle
  <1>3. {e \in Expenses : expense[e] # None} = {}
    BY DEF Init
  <1>4. ASSUME NEW b \in Budgets PROVE RowAddsUp(b)
    <2>1. MadeOf(b) = {} /\ PaidOf(b) = {}
      BY <1>3 DEF Init, MadeOf, PaidOf, Mine
    <2>2. budget[b].allocated = 0 /\ budget[b].spent = 0
      BY DEF Init
    <2> QED
      BY <2>1, <2>2, TotalOfNone DEF RowAddsUp
  <1> QED
    BY <1>1, <1>2, <1>3, <1>4, FS_EmptySet DEF FundInv

\* and every step keeps the sums.
LEMMA FundsKept == FundInv /\ [Next]_vars => FundInv'
  <1> SUFFICES ASSUME FundInv, [Next]_vars PROVE FundInv'
    OBVIOUS
  <1>1. FundLinks'
    BY LinksKept DEF FundInv
  <1>2. ASSUME NEW c \in Calls, Begins(c) \/ Step(c) PROVE FundInv'
    <2>1. AllocationsKnown'
      BY <1>1, <1>2, AllocationsStay DEF FundInv
    <2>2. {e \in Expenses : expense'[e] # None} = {e \in Expenses : expense[e] # None}
      BY <1>2, ExpensesStay DEF FundInv, FundLinks
    <2>3. ASSUME NEW b \in Budgets \ overwritten' PROVE RowAddsUp(b)'
      <3>1. amounts' = amounts
        BY DEF amounts
      <3> QED
        BY <1>1, <1>2, <3>1, AllocatedAddsUp, SpentAddsUp DEF RowAddsUp
    <2> QED
      BY <1>1, <2>1, <2>2, <2>3 DEF FundInv
  <1>3. ASSUME NEW e \in Expenses, CreateExpense(e) PROVE FundInv'
    <2>1. /\ UNCHANGED <<budget, allocations, fin, overwritten, contested>> /\ expense[e] = None
          /\ \A d \in Expenses \ {e} : expense'[d] = expense[d]
          /\ expense'[e].status = "PENDING"
      BY <1>3 DEF CreateExpense, FundInv, FundLinks, IInv, Types
    <2>2. AllocationsKnown'
      BY <2>1 DEF AllocationsKnown, RowOf, FundInv
    <2>3. IsFiniteSet({d \in Expenses : expense'[d] # None})
      <3>1. {d \in Expenses : expense'[d] # None} \subseteq {d \in Expenses : expense[d] # None} \cup {e}
        BY <2>1
      <3> QED
        BY <3>1, FS_Subset, FS_AddElement DEF FundInv
    <2>4. ~\E c \in Calls : fin[c].pc = "decide" /\ fin[c].op = "approveExpense" /\ fin[c].expense = e
      BY <2>1 DEF FundInv, FundLinks, Linked
    <2>5. ASSUME NEW b \in Budgets \ overwritten' PROVE RowAddsUp(b)'
      <3>1. MadeOf(b)' = MadeOf(b) /\ amounts' = amounts /\ RowAddsUp(b)
        BY <2>1 DEF MadeOf, amounts, FundInv
      <3>2. Mine(b) \subseteq Mine(b)' /\ Mine(b)' \subseteq Mine(b) \cup {e} /\ e \notin Mine(b)
        BY <2>1 DEF Mine
      <3>3. PaidOf(b)' = PaidOf(b)
        <4>1. \A d \in Expenses : Charging(d)' <=> Charging(d)
          BY <2>1 DEF Charging, Deciding
        <4>2. ~Charging(e)
          BY <2>4 DEF Charging, Deciding
        <4>3. \A d : d \in PaidOf(b)' <=> d \in Mine(b)' /\ (expense'[d].status = "APPROVED" \/ Charging(d)')
          BY DEF PaidOf
        <4>4. \A d : d \in PaidOf(b) <=> d \in Mine(b) /\ (expense[d].status = "APPROVED" \/ Charging(d))
          BY DEF PaidOf
        <4>5. \A d \in Mine(b) : d \in Expenses \ {e}
          BY <3>2 DEF Mine
        <4> QED
          BY <2>1, <3>2, <4>1, <4>2, <4>3, <4>4, <4>5
      <3>4. \A d \in PaidOf(b) : costs'[d] = costs[d]
        BY <2>1, <3>2 DEF PaidOf, Mine, costs
      <3>5. TotalOf(costs', PaidOf(b)) = TotalOf(costs, PaidOf(b))
        BY <3>4, TotalSame
      <3> QED
        BY <2>1, <3>1, <3>2, <3>3, <3>5 DEF RowAddsUp
    <2> QED
      BY <1>1, <2>2, <2>3, <2>5 DEF FundInv
  <1>4. CASE UNCHANGED vars
    <2>1. AllocationsKnown'
      BY <1>4 DEF vars, FundInv, AllocationsKnown, RowOf
    <2>2. ASSUME NEW b \in Budgets \ overwritten' PROVE RowAddsUp(b)'
      <3>1. MadeOf(b)' = MadeOf(b) /\ amounts' = amounts /\ costs' = costs /\ Mine(b)' = Mine(b)
        BY <1>4 DEF vars, MadeOf, amounts, costs, Mine
      <3>2. PaidOf(b)' = PaidOf(b)
        BY <1>4, <3>1 DEF vars, PaidOf, Charging, Deciding
      <3> QED
        BY <1>4, <3>1, <3>2 DEF vars, RowAddsUp, FundInv
    <2> QED
      BY <1>1, <1>4, <2>1, <2>2 DEF vars, FundInv
  <1> QED
    BY <1>2, <1>3, <1>4 DEF Next

\* The sums are totals.
LEMMA AllocationSum ==
  ASSUME NEW S, IsFiniteSet(S), S \subseteq Allocation
  PROVE  Sum(S, AmountOf) = TotalOf(amounts, S)
<1> DEFINE Folds(it) == it = [s \in SUBSET S |->
                            IF s = {} THEN 0
                            ELSE LET x == CHOOSE y \in s : TRUE IN x.amount + it[s \ {x}]]
<1>1. Sum(S, AmountOf) = (CHOOSE it : Folds(it))[S]
  BY DEF Sum, AmountOf, MapThenSumSet, MapThenFoldSet
<1>2. \A it : Adds(it, amounts, S) <=> Folds(it)
  <2>1. \A s \in SUBSET S : s # {} => amounts[Chosen(s)] = (CHOOSE y \in s : TRUE).amount
    BY DEF Chosen, amounts
  <2> QED  BY <2>1 DEF Adds, Chosen
<1>3. \A m \in S : amounts[m] \in Nat
  BY AmountAssumption DEF Allocation, amounts
<1>4. Folds([s \in SUBSET S |-> TotalOf(amounts, s)])
  BY <1>2, <1>3, TotalsAdd
<1> HIDE DEF Folds
<1>5. Folds(CHOOSE it : Folds(it))
  BY <1>4
<1> QED  BY <1>1, <1>2, <1>3, <1>5, AddsUniquely

\* The sum by expense records is the sum by their costs.
LEMMA ExpenseSum ==
  ASSUME NEW S, IsFiniteSet(S), S \subseteq Expenses, \A e \in S : expense[e] # None /\ expense[e].amount \in Nat
  PROVE  Sum(S, ExpenseAmount) = TotalOf(costs, S)
<1> DEFINE Folds(it) == it = [s \in SUBSET S |->
                            IF s = {} THEN 0
                            ELSE LET x == CHOOSE y \in s : TRUE IN expense[x].amount + it[s \ {x}]]
<1>1. Sum(S, ExpenseAmount) = (CHOOSE it : Folds(it))[S]
  BY DEF Sum, ExpenseAmount, MapThenSumSet, MapThenFoldSet
<1>2. \A it : Adds(it, costs, S) <=> Folds(it)
  <2>1. \A s \in SUBSET S : s # {} => costs[Chosen(s)] = expense[CHOOSE y \in s : TRUE].amount
    BY DEF Chosen, costs
  <2> QED  BY <2>1 DEF Adds, Chosen
<1>3. \A m \in S : costs[m] \in Nat
  BY DEF costs
<1>4. Folds([s \in SUBSET S |-> TotalOf(costs, s)])
  BY <1>2, <1>3, TotalsAdd
<1> HIDE DEF Folds
<1>5. Folds(CHOOSE it : Folds(it))
  BY <1>4
<1> QED  BY <1>1, <1>2, <1>3, <1>5, AddsUniquely

\* The inductive invariant gives what the run checks of budgets.
LEMMA FundsAgree == FundInv => TypeOK /\ AllocationsAddUp /\ SpentOnApproved
  <1> SUFFICES ASSUME FundInv PROVE TypeOK /\ AllocationsAddUp /\ SpentOnApproved
    OBVIOUS
  <1>1. TypeOK
    BY DEF FundInv, FundLinks, AllocationsKnown, IInv, Types, TypeOK, Call
  <1>2. ASSUME NEW b \in Budgets \ overwritten
        PROVE  budget[b].allocated = Sum({a \in allocations : a.budget = b /\ fin[a.by].pc = "done"}, AmountOf)
    <2>1. IsFiniteSet(MadeOf(b)) /\ MadeOf(b) \subseteq Allocation
      BY FundsFinite DEF FundInv
    <2>2. Sum(MadeOf(b), AmountOf) = TotalOf(amounts, MadeOf(b))
      BY <2>1, AllocationSum
    <2> QED
      BY <2>2 DEF FundInv, RowAddsUp, MadeOf
  <1>3. ASSUME NEW b \in Budgets \ overwritten, contested \cap Mine(b) = {}
        PROVE  budget[b].spent = Sum(PaidOf(b), ExpenseAmount)
    <2>1. IsFiniteSet(PaidOf(b)) /\ PaidOf(b) \subseteq Expenses
      BY FundsFinite DEF FundInv
    <2>2. \A e \in PaidOf(b) : expense[e] # None /\ expense[e].amount \in Nat
      BY AmountAssumption DEF PaidOf, Mine, FundInv, FundLinks, IInv, Types, Expense
    <2>3. Sum(PaidOf(b), ExpenseAmount) = TotalOf(costs, PaidOf(b))
      BY <2>1, <2>2, ExpenseSum
    <2> QED
      BY <1>3, <2>3 DEF FundInv, RowAddsUp
  <1>4. SpentOnApproved
    BY <1>3 DEF SpentOnApproved, Mine, PaidOf, Charging
  <1> QED
    BY <1>1, <1>2, <1>4 DEF AllocationsAddUp

\* Finance by itself: what a budget row says of its money is what its allocations and
\* approved expenses add up to, and what was decided stands (finance.service.ts:72-341).
THEOREM FinanceInvariant == Spec => [](FundInv /\ AllocatedWithinTotal) /\ DecidedOnce
  <1>1. FundInv /\ [Next]_vars => KeepsDecided
    BY DecisionsKept DEF FundInv
  <1>2. FundInv => AllocatedWithinTotal
    BY DEF FundInv, FundLinks, IInv, Within, AllocatedWithinTotal
  <1>3. Spec => []FundInv
    BY FundsStart, FundsKept, PTL DEF Spec
  <1>4. Spec => DecidedOnce
    BY <1>1, <1>3, PTL DEF Spec, DecidedOnce
  <1> QED
    BY <1>2, <1>3, <1>4, PTL

(***************************************************************************)
(* Procurement, and the workflow over it.                                  *)
(***************************************************************************)

\* The fields of a handler that the proofs look at.
Handler ==
  [op : {"none", "createSupplier", "verifySupplier", "approvePurchaseRequest", "rejectPurchaseRequest",
         "approvePurchaseOrder", "revertPurchaseOrderToDraft", "createPurchaseOrder", "receiveGoods"},
   pc : {"idle", "insert", "write", "supplier", "request", "convert", "sum"},
   id : Suppliers \cup Requests \cup Orders \cup {None},
   seen : P!Supplier \cup P!PurchaseRequest \cup P!PurchaseOrder \cup [request : Requests \cup {None}] \cup {None},
   use : Names \cup Keys \cup (1 .. Ordered) \cup {None}]

\* What a handler holds, by which handler it is.
Holds(x) ==
  /\ x.op = "none" => x = P!Idle
  /\ x.op = "createSupplier" => x.pc = "insert" /\ x.use \in Names
  /\ x.op = "verifySupplier" => x.pc = "write" /\ x.id \in Suppliers /\ x.seen \in P!Supplier
  /\ x.op \in {"approvePurchaseRequest", "rejectPurchaseRequest"} =>
       x.pc = "write" /\ x.id \in Requests /\ x.seen \in P!PurchaseRequest
  /\ x.op \in {"approvePurchaseOrder", "revertPurchaseOrderToDraft"} =>
       x.pc = "write" /\ x.id \in Orders /\ x.seen \in P!PurchaseOrder
  /\ x.op = "createPurchaseOrder" =>
       /\ x.pc \in {"supplier", "request", "insert", "convert"} /\ x.id \in Suppliers
       /\ x.use \in Keys \cup {None} /\ x.seen \in [request : Requests \cup {None}]
       /\ x.pc \in {"request", "convert"} => x.seen.request \in Requests /\ x.seen.request # None
  /\ x.op = "receiveGoods" =>
       /\ x.pc \in {"insert", "sum", "write"} /\ x.id \in Orders /\ x.seen \in P!PurchaseOrder
       /\ x.use \in 1 .. Ordered

\* The request an order is made of is there.
Finds(x, rows) ==
  x.op = "createPurchaseOrder" /\ x.pc \in {"insert", "convert"} /\ x.seen.request # None
    => rows[x.seen.request] # None

Tables ==
  /\ driver \in {"memory", "prisma"}
  /\ supplier \in [Suppliers -> P!Supplier \cup {None}]
  /\ request \in [Requests -> P!PurchaseRequest \cup {None}]
  /\ order \in [Orders -> P!PurchaseOrder \cup {None}]
  /\ receipt \in [Receipts -> P!GoodsReceipt \cup {None}]
  /\ proc \in [Calls -> Handler]
  /\ converted \in [Requests -> Nat]
  /\ \A c \in Calls : Holds(proc[c]) /\ Finds(proc[c], request)

\* Any step of Procurement's handlers.
Handles(c) == P!SupplierStep(c) \/ P!RequestStep(c) \/ P!OrderStep(c) \/ P!ReceiptStep(c)

\* A procurement handler that does not run holds nothing.
LEMMA IdleHandler ==
  /\ P!Idle \in Handler /\ P!Idle.op = "none" /\ P!Idle.pc = "idle" /\ Holds(P!Idle)
  /\ Finds(P!Idle, request')
  BY DEF P!Idle, Handler, Holds, Finds

\* Moving on changes nothing but where the handler is.
LEMMA HandlerFields ==
  ASSUME NEW x \in Handler, NEW pc \in {"idle", "insert", "write", "supplier", "request", "convert", "sum"}
  PROVE  /\ [x EXCEPT !.pc = pc] \in Handler
         /\ [x EXCEPT !.pc = pc].op = x.op /\ [x EXCEPT !.pc = pc].pc = pc
         /\ [x EXCEPT !.pc = pc].id = x.id /\ [x EXCEPT !.pc = pc].seen = x.seen /\ [x EXCEPT !.pc = pc].use = x.use
  BY DEF Handler

\* What every step keeps, once it is known what becomes of its handler and tables.
LEMMA TablesMove ==
  ASSUME Tables, NEW c \in Calls, NEW x \in Handler, Holds(x), proc' = [proc EXCEPT ![c] = x],
         driver' = driver,
         supplier' \in [Suppliers -> P!Supplier \cup {None}],
         request' \in [Requests -> P!PurchaseRequest \cup {None}],
         order' \in [Orders -> P!PurchaseOrder \cup {None}],
         receipt' \in [Receipts -> P!GoodsReceipt \cup {None}],
         converted' \in [Requests -> Nat],
         \A r \in Requests : request[r] # None => request'[r] # None, Finds(x, request')
  PROVE  Tables'
  <1>1. proc' \in [Calls -> Handler] /\ \A d \in Calls : Holds(proc'[d])
    BY DEF Tables
  <1>2. ASSUME NEW d \in Calls PROVE Finds(proc'[d], request')
    <2>1. CASE d = c
      BY <2>1 DEF Tables
    <2>2. CASE d # c
      <3>1. proc'[d] = proc[d] /\ Holds(proc[d]) /\ Finds(proc[d], request)
        BY <2>2 DEF Tables
      <3> QED
        BY <3>1 DEF Finds, Holds
    <2> QED
      BY <2>1, <2>2
  <1> QED
    BY <1>1, <1>2 DEF Tables, Holds, Finds

\* The handlers of suppliers keep the tables well formed,
LEMMA SupplierTypes == ASSUME Tables, NEW c \in Calls, P!SupplierStep(c) PROVE Tables'
  <1>0. /\ proc[c] \in Handler /\ Holds(proc[c]) /\ Finds(proc[c], request)
        /\ supplier \in [Suppliers -> P!Supplier \cup {None}]
        /\ request \in [Requests -> P!PurchaseRequest \cup {None}]
        /\ order \in [Orders -> P!PurchaseOrder \cup {None}]
        /\ receipt \in [Receipts -> P!GoodsReceipt \cup {None}]
        /\ converted \in [Requests -> Nat]
    BY DEF Tables
  <1>1. ASSUME NEW name \in Names, P!CreateSupplier(c, name) PROVE Tables'
    <2> DEFINE x == [P!Idle EXCEPT !.op = "createSupplier", !.pc = "insert", !.use = name]
    <2>1. x \in Handler /\ Holds(x) /\ Finds(x, request')
      BY DEF P!Idle, Handler, Holds, Finds
    <2>2. proc' = [proc EXCEPT ![c] = x]
      BY <1>1 DEF P!CreateSupplier
    <2>3. UNCHANGED <<driver, supplier, request, order, receipt, converted>>
      BY <1>1 DEF P!CreateSupplier
    <2> HIDE DEF x
    <2> QED
      BY <1>0, <2>1, <2>2, <2>3, TablesMove
  <1>2. ASSUME NEW s \in Suppliers, P!InsertSupplier(c, s) PROVE Tables'
    <2>1. UNCHANGED <<driver, request, order, receipt, converted>> /\ proc' = [proc EXCEPT ![c] = P!Idle]
      BY <1>2 DEF P!InsertSupplier, P!Return
    <2>2. supplier' = [supplier EXCEPT ![s] = [name |-> proc[c].use, isVerified |-> FALSE]] /\ proc[c].use \in Names
      BY <1>0, <1>2 DEF P!InsertSupplier, Holds
    <2>3. [name |-> proc[c].use, isVerified |-> FALSE] \in P!Supplier
      BY <2>2 DEF P!Supplier
    <2>4. supplier' \in [Suppliers -> P!Supplier \cup {None}]
      BY <1>0, <2>2, <2>3
    <2> QED
      BY <1>0, <2>1, <2>4, TablesMove, IdleHandler
  <1>3. ASSUME NEW s \in Suppliers, P!VerifySupplier(c, s) PROVE Tables'
    <2> DEFINE x == [P!Idle EXCEPT !.op = "verifySupplier", !.pc = "write", !.id = s, !.seen = supplier[s]]
    <2>1. supplier[s] \in P!Supplier
      BY <1>0, <1>3 DEF P!VerifySupplier, P!BeginChange, P!Rows
    <2>2. x \in Handler /\ Holds(x) /\ Finds(x, request')
      BY <2>1 DEF P!Idle, Handler, Holds, Finds
    <2>3. proc' = [proc EXCEPT ![c] = x]
      BY <1>3 DEF P!VerifySupplier, P!BeginChange
    <2>4. UNCHANGED <<driver, supplier, request, order, receipt, converted>>
      BY <1>3 DEF P!VerifySupplier, P!BeginChange
    <2> HIDE DEF x
    <2> QED
      BY <1>0, <2>2, <2>3, <2>4, TablesMove
  <1>4. ASSUME P!WriteSupplier(c) PROVE Tables'
    <2>1. UNCHANGED <<driver, request, order, receipt, converted>> /\ proc' = [proc EXCEPT ![c] = P!Idle]
      BY <1>4 DEF P!WriteSupplier, P!Return
    <2>2. proc[c].id \in Suppliers /\ proc[c].seen \in P!Supplier
      BY <1>0, <1>4 DEF P!WriteSupplier, Holds
    <2>3. [proc[c].seen EXCEPT !.isVerified = TRUE] \in P!Supplier
      BY <2>2 DEF P!Supplier
    <2>4. supplier' = supplier \/ supplier' = [supplier EXCEPT ![proc[c].id] = [proc[c].seen EXCEPT !.isVerified = TRUE]]
      BY <1>4 DEF P!WriteSupplier
    <2>5. supplier' \in [Suppliers -> P!Supplier \cup {None}]
      BY <1>0, <2>2, <2>3, <2>4
    <2> QED
      BY <1>0, <2>1, <2>5, TablesMove, IdleHandler
  <1> QED
    BY <1>1, <1>2, <1>3, <1>4 DEF P!SupplierStep

\* the read of a row to change does,
LEMMA ChangeTypes ==
  ASSUME Tables, NEW c \in Calls, NEW op, NEW table, NEW id, P!BeginChange(c, op, table, id),
         \/ op \in {"approvePurchaseRequest", "rejectPurchaseRequest"} /\ table = request /\ id \in Requests
         \/ op \in {"approvePurchaseOrder", "revertPurchaseOrderToDraft"} /\ table = order /\ id \in Orders
  PROVE  Tables' /\ proc'[c].op = op /\ proc'[c].id = id /\ \A d \in Calls \ {c} : proc'[d] = proc[d]
  <1> DEFINE x == [P!Idle EXCEPT !.op = op, !.pc = "write", !.id = id, !.seen = table[id]]
  <1>0. Tables
    OBVIOUS
  <1>1. table[id] # None /\ proc' = [proc EXCEPT ![c] = x]
        /\ UNCHANGED <<driver, supplier, request, order, receipt, converted>>
    BY DEF P!BeginChange, P!Rows
  <1>2. /\ op \in {"approvePurchaseRequest", "rejectPurchaseRequest"} => table[id] \in P!PurchaseRequest
        /\ op \in {"approvePurchaseOrder", "revertPurchaseOrderToDraft"} => table[id] \in P!PurchaseOrder
    BY <1>1 DEF Tables
  <1>3. x \in Handler /\ Holds(x) /\ Finds(x, request') /\ x.op = op /\ x.id = id
    BY <1>2 DEF P!Idle, Handler, Holds, Finds
  <1> HIDE DEF x
  <1>4. Tables'
    BY <1>1, <1>3, TablesMove DEF Tables
  <1> QED
    BY <1>1, <1>3, <1>4 DEF Tables

\* as do the handlers of requests,
LEMMA RequestTypes == ASSUME Tables, NEW c \in Calls, P!RequestStep(c) PROVE Tables'
  <1>0. /\ proc[c] \in Handler /\ Holds(proc[c]) /\ Finds(proc[c], request)
        /\ supplier \in [Suppliers -> P!Supplier \cup {None}]
        /\ request \in [Requests -> P!PurchaseRequest \cup {None}]
        /\ order \in [Orders -> P!PurchaseOrder \cup {None}]
        /\ receipt \in [Receipts -> P!GoodsReceipt \cup {None}]
        /\ converted \in [Requests -> Nat]
    BY DEF Tables
  <1>1. ASSUME NEW r \in Requests, P!CreatePurchaseRequest(c, r) PROVE Tables'
    <2>1. /\ UNCHANGED <<driver, supplier, order, receipt, proc, converted>>
          /\ request' = [request EXCEPT ![r] = [status |-> "PENDING"]]
      BY <1>1 DEF P!CreatePurchaseRequest
    <2>2. [status |-> "PENDING"] \in P!PurchaseRequest
      BY DEF P!PurchaseRequest
    <2>3. request' \in [Requests -> P!PurchaseRequest \cup {None}]
      BY <1>0, <2>1, <2>2
    <2> QED
      <3>1. [status |-> "PENDING"] # None
        BY <2>2, RowAssumption
      <3>2. \A d \in Calls : Finds(proc[d], request)'
        BY <1>0, <2>1, <3>1 DEF Tables, Finds, Holds
      <3> QED
        BY <1>0, <2>1, <2>3, <3>2 DEF Tables, Holds, Finds
  <1>2. ASSUME NEW r \in Requests, P!ApprovePurchaseRequest(c, r) \/ P!RejectPurchaseRequest(c, r) PROVE Tables'
    BY <1>2, ChangeTypes DEF P!ApprovePurchaseRequest, P!RejectPurchaseRequest
  <1>3. ASSUME P!WriteRequest(c) PROVE Tables'
    <2>1. UNCHANGED <<driver, supplier, order, receipt>> /\ proc' = [proc EXCEPT ![c] = P!Idle]
      BY <1>3 DEF P!WriteRequest, P!Return
    <2>2. proc[c].id \in Requests /\ proc[c].seen \in P!PurchaseRequest
      BY <1>0, <1>3 DEF P!WriteRequest, Holds
    <2>3. ASSUME NEW status \in {"APPROVED", "REJECTED"} PROVE [proc[c].seen EXCEPT !.status = status] \in P!PurchaseRequest
      BY <2>2, <2>3 DEF P!PurchaseRequest
    <2>4. \/ request' = request /\ converted' = converted
          \/ \E status \in {"APPROVED", "REJECTED"} :
               /\ request' = [request EXCEPT ![proc[c].id] = [proc[c].seen EXCEPT !.status = status]]
               /\ converted' = [converted EXCEPT ![proc[c].id] = IF status = "APPROVED" THEN 0 ELSE @]
      <3>1. CASE proc[c].op = "approvePurchaseRequest"
        BY <1>3, <3>1 DEF P!WriteRequest
      <3>2. CASE proc[c].op # "approvePurchaseRequest"
        BY <1>3, <3>2 DEF P!WriteRequest
      <3> QED
        BY <3>1, <3>2
    <2>5. /\ request' \in [Requests -> P!PurchaseRequest \cup {None}] /\ converted' \in [Requests -> Nat]
          /\ \A r \in Requests : request[r] # None => request'[r] # None
      BY <1>0, <2>2, <2>3, <2>4, RowAssumption
    <2> QED
      BY <1>0, <2>1, <2>5, TablesMove, IdleHandler
  <1> QED
    BY <1>1, <1>2, <1>3 DEF P!RequestStep

\* A handler that only moves on.
LEMMA GoesOn ==
  ASSUME Tables, NEW c \in Calls,
         NEW pc \in {"idle", "insert", "write", "supplier", "request", "convert", "sum"}, P!Goto(c, pc),
         proc[c].op = "createPurchaseOrder" =>
           /\ pc \in {"supplier", "request", "insert", "convert"}
           /\ pc \in {"request", "convert"} => proc[c].seen.request \in Requests /\ proc[c].seen.request # None,
         proc[c].op = "receiveGoods" => pc \in {"insert", "sum", "write"},
         proc[c].op \in {"createPurchaseOrder", "receiveGoods"},
         proc[c].op = "createPurchaseOrder" /\ pc \in {"insert", "convert"} /\ proc[c].seen.request # None
           => request[proc[c].seen.request] # None,
         request' = request
  PROVE  \E x \in Handler : /\ Holds(x) /\ Finds(x, request') /\ proc' = [proc EXCEPT ![c] = x] /\ x.pc = pc /\ x.op = proc[c].op
                            /\ x.id = proc[c].id /\ x.seen = proc[c].seen /\ x.use = proc[c].use
  <1>1. proc[c] \in Handler /\ Holds(proc[c])
    BY DEF Tables
  <1>2. PICK x : x = [proc[c] EXCEPT !.pc = pc]
    OBVIOUS
  <1>3. /\ x \in Handler /\ x.pc = pc /\ x.op = proc[c].op
        /\ x.id = proc[c].id /\ x.seen = proc[c].seen /\ x.use = proc[c].use
    BY <1>1, <1>2, HandlerFields
  <1>4. proc' = [proc EXCEPT ![c] = x]
    BY <1>2 DEF P!Goto
  <1>5. Holds(x) /\ Finds(x, request')
    BY <1>1, <1>3 DEF Holds, Finds
  <1> QED
    BY <1>3, <1>4, <1>5

\* of orders,
LEMMA OrderTypes == ASSUME Tables, NEW c \in Calls, P!OrderStep(c) PROVE Tables'
  <1>0. /\ proc[c] \in Handler /\ Holds(proc[c]) /\ Finds(proc[c], request)
        /\ supplier \in [Suppliers -> P!Supplier \cup {None}]
        /\ request \in [Requests -> P!PurchaseRequest \cup {None}]
        /\ order \in [Orders -> P!PurchaseOrder \cup {None}]
        /\ receipt \in [Receipts -> P!GoodsReceipt \cup {None}]
        /\ converted \in [Requests -> Nat]
    BY DEF Tables
  <1>a. proc[c].pc \in {"supplier", "request", "convert"} => proc[c].op = "createPurchaseOrder"
    BY <1>0 DEF Holds, P!Idle, Handler
  <1>1. ASSUME NEW k \in Keys \cup {None}, NEW s \in Suppliers, NEW r \in Requests \cup {None},
               P!CreatePurchaseOrder(c, k, s, r) PROVE Tables'
    <2> DEFINE y == [request |-> r]
               x == [op |-> "createPurchaseOrder", pc |-> "supplier", id |-> s, seen |-> y, use |-> k]
    <2>1. y \in [request : Requests \cup {None}]
      OBVIOUS
    <2>2. proc' = [proc EXCEPT ![c] = x] /\ UNCHANGED <<driver, supplier, request, order, receipt, converted>>
      BY <1>1 DEF P!CreatePurchaseOrder
    <2> HIDE DEF y
    <2>3. x \in Handler /\ Holds(x) /\ Finds(x, request')
      BY <2>1 DEF Handler, Holds, Finds
    <2> HIDE DEF x
    <2> QED
      BY <1>0, <2>2, <2>3, TablesMove
  <1>2. ASSUME P!CheckSupplier(c) PROVE Tables'
    <2>1. UNCHANGED <<driver, supplier, request, order, receipt, converted>> /\ proc[c].op = "createPurchaseOrder"
          /\ proc[c].seen \in [request : Requests \cup {None}]
      BY <1>0, <1>a, <1>2 DEF P!CheckSupplier, Holds
    <2>2. CASE proc' = [proc EXCEPT ![c] = P!Idle]
      BY <1>0, <2>1, <2>2, TablesMove, IdleHandler
    <2>3. CASE P!Goto(c, "insert") /\ proc[c].seen.request = None
      BY <1>0, <2>1, <2>3, GoesOn, TablesMove
    <2>4. CASE P!Goto(c, "request") /\ proc[c].seen.request # None
      <3>1. proc[c].seen.request \in Requests
        BY <2>1, <2>4
      <3> QED
        BY <1>0, <2>1, <2>4, <3>1, GoesOn, TablesMove
    <2> QED
      BY <1>2, <2>2, <2>3, <2>4 DEF P!CheckSupplier, P!Return
  <1>3. ASSUME P!CheckRequest(c) PROVE Tables'
    <2>1. UNCHANGED <<driver, supplier, request, order, receipt, converted>> /\ proc[c].op = "createPurchaseOrder"
      BY <1>0, <1>a, <1>3 DEF P!CheckRequest
    <2>2. CASE proc' = [proc EXCEPT ![c] = P!Idle]
      BY <1>0, <2>1, <2>2, TablesMove, IdleHandler
    <2>3. CASE P!Goto(c, "insert") /\ request[proc[c].seen.request] # None
      BY <1>0, <2>1, <2>3, GoesOn, TablesMove
    <2> QED
      BY <1>3, <2>2, <2>3 DEF P!CheckRequest, P!MayConvert, P!Return
  <1>4. ASSUME NEW o \in Orders, P!InsertOrder(c, o) PROVE Tables'
    <2> DEFINE r == proc[c].seen.request
               row == [supplier |-> proc[c].id, request |-> r, key |-> proc[c].use, status |-> "DRAFT"]
    <2>1. /\ UNCHANGED <<driver, supplier, request, receipt>> /\ proc[c].op = "createPurchaseOrder"
          /\ order' = [order EXCEPT ![o] = row]
      BY <1>4 DEF P!InsertOrder
    <2>2. r \in Requests \cup {None} /\ proc[c].id \in Suppliers /\ proc[c].use \in Keys \cup {None}
      BY <1>0, <2>1 DEF Holds
    <2> HIDE DEF r
    <2>3. row \in P!PurchaseOrder
      BY <2>2 DEF P!PurchaseOrder
    <2> HIDE DEF row
    <2>4. order' \in [Orders -> P!PurchaseOrder \cup {None}]
      BY <1>0, <2>1, <2>3
    <2>5. CASE proc' = [proc EXCEPT ![c] = P!Idle] /\ converted' = converted
      BY <1>0, <2>1, <2>4, <2>5, TablesMove, IdleHandler
    <2>6. CASE P!Goto(c, "convert") /\ converted' = [converted EXCEPT ![r] = @ + 1] /\ r # None
      <3>1. r \in Requests /\ converted' \in [Requests -> Nat]
        BY <1>0, <2>2, <2>6
      <3>2. request[r] # None
        BY <1>0, <1>4, <2>1, <2>6 DEF P!InsertOrder, Finds, r
      <3> QED
        BY <1>0, <2>1, <2>4, <2>6, <3>1, <3>2, GoesOn, TablesMove DEF r
    <2> QED
      BY <1>4, <2>5, <2>6 DEF P!InsertOrder, P!Return, r
  <1>5. ASSUME NEW o \in Orders, P!ApprovePurchaseOrder(c, o) \/ P!RevertPurchaseOrderToDraft(c, o) PROVE Tables'
    BY <1>5, ChangeTypes DEF P!ApprovePurchaseOrder, P!RevertPurchaseOrderToDraft
  <1>6. ASSUME P!WriteOrderStatus(c) PROVE Tables'
    <2>1. UNCHANGED <<driver, supplier, request, receipt, converted>> /\ proc' = [proc EXCEPT ![c] = P!Idle]
      BY <1>6 DEF P!WriteOrderStatus, P!Return
    <2>2. proc[c].id \in Orders /\ proc[c].seen \in P!PurchaseOrder
      BY <1>0, <1>6 DEF P!WriteOrderStatus, Holds
    <2>3. ASSUME NEW status \in {"APPROVED", "DRAFT"} PROVE [proc[c].seen EXCEPT !.status = status] \in P!PurchaseOrder
      BY <2>2, <2>3 DEF P!PurchaseOrder
    <2>4. \/ order' = order
          \/ \E status \in {"APPROVED", "DRAFT"} : order' = [order EXCEPT ![proc[c].id] = [proc[c].seen EXCEPT !.status = status]]
      BY <1>6 DEF P!WriteOrderStatus
    <2>5. order' \in [Orders -> P!PurchaseOrder \cup {None}]
      BY <1>0, <2>2, <2>3, <2>4
    <2> QED
      BY <1>0, <2>1, <2>5, TablesMove, IdleHandler
  <1>7. ASSUME P!ConvertRequest(c) PROVE Tables'
    <2>1. UNCHANGED <<driver, supplier, order, receipt, converted>> /\ proc' = [proc EXCEPT ![c] = P!Idle]
          /\ request' = [request EXCEPT ![proc[c].seen.request].status = "CONVERTED"]
      BY <1>7 DEF P!ConvertRequest, P!Return
    <2>0. PICK r : r = proc[c].seen.request
      OBVIOUS
    <2>3. r \in Requests /\ request[r] # None
      BY <1>0, <1>a, <1>7, <2>0 DEF Holds, Finds, P!ConvertRequest
    <2>4. [request[r] EXCEPT !.status = "CONVERTED"] \in P!PurchaseRequest
      BY <1>0, <2>3 DEF P!PurchaseRequest
    <2>2. /\ request' \in [Requests -> P!PurchaseRequest \cup {None}]
          /\ \A q \in Requests : request[q] # None => request'[q] # None
      BY <1>0, <2>0, <2>1, <2>3, <2>4, RowAssumption
    <2> QED
      BY <1>0, <2>1, <2>2, TablesMove, IdleHandler
  <1> QED
    BY <1>1, <1>2, <1>3, <1>4, <1>5, <1>6, <1>7 DEF P!OrderStep

\* and of receipts.
LEMMA ReceiptTypes == ASSUME Tables, NEW c \in Calls, P!ReceiptStep(c) PROVE Tables'
  <1>0. /\ proc[c] \in Handler /\ Holds(proc[c]) /\ Finds(proc[c], request)
        /\ supplier \in [Suppliers -> P!Supplier \cup {None}]
        /\ request \in [Requests -> P!PurchaseRequest \cup {None}]
        /\ order \in [Orders -> P!PurchaseOrder \cup {None}]
        /\ receipt \in [Receipts -> P!GoodsReceipt \cup {None}]
        /\ converted \in [Requests -> Nat]
    BY DEF Tables
  <1>1. ASSUME NEW o \in Orders, NEW q \in 1 .. Ordered, P!ReceiveGoods(c, o, q) PROVE Tables'
    <2> DEFINE x == [op |-> "receiveGoods", pc |-> "insert", id |-> o, seen |-> order[o], use |-> q]
    <2>1. order[o] \in P!PurchaseOrder
      BY <1>0, <1>1 DEF P!ReceiveGoods, P!Rows
    <2>2. proc' = [proc EXCEPT ![c] = x] /\ UNCHANGED <<driver, supplier, request, order, receipt, converted>>
      BY <1>1 DEF P!ReceiveGoods
    <2>3. x \in Handler /\ Holds(x) /\ Finds(x, request')
      BY <2>1 DEF Handler, Holds, Finds
    <2> HIDE DEF x
    <2> QED
      BY <1>0, <2>2, <2>3, TablesMove
  <1>2. ASSUME NEW g \in Receipts, P!InsertReceipt(c, g) PROVE Tables'
    <2> DEFINE row == [order |-> proc[c].id, quantity |-> proc[c].use]
    <2>1. /\ UNCHANGED <<driver, supplier, request, order, converted>> /\ proc[c].op = "receiveGoods"
          /\ receipt' = [receipt EXCEPT ![g] = row] /\ P!Goto(c, "sum")
      BY <1>2 DEF P!InsertReceipt
    <2>2. row \in P!GoodsReceipt
      BY <1>0, <2>1 DEF Holds, P!GoodsReceipt
    <2> HIDE DEF row
    <2>3. receipt' \in [Receipts -> P!GoodsReceipt \cup {None}]
      BY <1>0, <2>1, <2>2
    <2> QED
      BY <1>0, <2>1, <2>3, GoesOn, TablesMove
  <1>3. ASSUME P!SumReceipts(c) PROVE Tables'
    <2>1. UNCHANGED <<driver, supplier, request, order, receipt, converted>> /\ proc[c].op = "receiveGoods"
      BY <1>0, <1>3 DEF P!SumReceipts, Holds, P!Idle, Handler
    <2>2. CASE proc' = [proc EXCEPT ![c] = P!Idle]
      BY <1>0, <2>1, <2>2, TablesMove, IdleHandler
    <2>3. CASE P!Goto(c, "write")
      BY <1>0, <2>1, <2>3, GoesOn, TablesMove
    <2> QED
      BY <1>3, <2>2, <2>3 DEF P!SumReceipts, P!Return
  <1>4. ASSUME P!CloseOrder(c) PROVE Tables'
    <2>1. UNCHANGED <<driver, supplier, request, receipt, converted>> /\ proc' = [proc EXCEPT ![c] = P!Idle]
          /\ order' = [order EXCEPT ![proc[c].id] = [proc[c].seen EXCEPT !.status = "RECEIVED"]]
      BY <1>4 DEF P!CloseOrder, P!Return
    <2>2. proc[c].id \in Orders /\ proc[c].seen \in P!PurchaseOrder
      BY <1>0, <1>4 DEF P!CloseOrder, Holds
    <2>3. [proc[c].seen EXCEPT !.status = "RECEIVED"] \in P!PurchaseOrder
      BY <2>2 DEF P!PurchaseOrder
    <2>4. order' \in [Orders -> P!PurchaseOrder \cup {None}]
      BY <1>0, <2>1, <2>2, <2>3
    <2> QED
      BY <1>0, <2>1, <2>4, TablesMove, IdleHandler
  <1> QED
    BY <1>1, <1>2, <1>3, <1>4 DEF P!ReceiptStep

\* Whatever handler takes a step, the tables keep their types.
LEMMA TablesKept == ASSUME Tables, NEW c \in Calls, Handles(c) PROVE Tables'
  BY SupplierTypes, RequestTypes, OrderTypes, ReceiptTypes DEF Handles

\* A handler's step is its own.
LEMMA HandlerMoves ==
  ASSUME Tables, Tables', NEW c \in Calls, Handles(c), NEW d \in Calls, d # c
  PROVE  proc'[d] = proc[d]
  <1>1. \A x : proc' = [proc EXCEPT ![c] = x] => proc'[d] = proc[d]
    BY DEF Tables
  <1> HIDE DEF Tables
  <1>2. proc' = proc \/ \E x : proc' = [proc EXCEPT ![c] = x]
    <2>1. CASE P!SupplierStep(c)
      BY <2>1 DEF P!SupplierStep, P!CreateSupplier, P!InsertSupplier, P!VerifySupplier, P!WriteSupplier, P!BeginChange, P!Return
    <2>2. CASE P!RequestStep(c)
      BY <2>2 DEF P!RequestStep, P!CreatePurchaseRequest, P!ApprovePurchaseRequest, P!RejectPurchaseRequest, P!WriteRequest,
                  P!BeginChange, P!Return
    <2>3. CASE P!OrderStep(c)
      BY <2>3 DEF P!OrderStep, P!CreatePurchaseOrder, P!CheckSupplier, P!CheckRequest, P!ConvertRequest, P!InsertOrder,
                  P!ApprovePurchaseOrder, P!RevertPurchaseOrderToDraft, P!WriteOrderStatus, P!BeginChange, P!Return, P!Goto
    <2>4. CASE P!ReceiptStep(c)
      BY <2>4 DEF P!ReceiptStep, P!ReceiveGoods, P!InsertReceipt, P!SumReceipts, P!CloseOrder, P!Return, P!Goto
    <2> QED
      BY <2>1, <2>2, <2>3, <2>4 DEF Handles
  <1> QED
    BY <1>1, <1>2

\* What a handler's step does to an order it does not make.
LEMMA OrderWritten ==
  ASSUME Tables, Tables', NEW c \in Calls, Handles(c), NEW o \in Orders
  PROVE  /\ order'[o] # order[o] => \/ order[o] = None /\ order'[o].status = "DRAFT"
                                    \/ /\ proc[c].op \in {"approvePurchaseOrder", "revertPurchaseOrderToDraft"} /\ proc[c].id = o
                                       /\ driver = "memory"
                                       /\ order'[o].status = IF proc[c].op = "approvePurchaseOrder" THEN "APPROVED" ELSE "DRAFT"
                                    \/ /\ proc[c].op = "receiveGoods" /\ proc[c].id = o /\ proc[c].pc = "write"
                                       /\ order'[o].status = "RECEIVED"
         /\ driver' = driver
  <1>0. order \in [Orders -> P!PurchaseOrder \cup {None}] /\ Holds(proc[c]) /\ order' \in [Orders -> P!PurchaseOrder \cup {None}]
    BY DEF Tables
  <1>1. CASE UNCHANGED <<driver, order>>
    BY <1>1
  <1>2. ASSUME NEW p \in Orders, P!InsertOrder(c, p)
        PROVE  order'[o] # order[o] => order[o] = None /\ order'[o].status = "DRAFT"
    BY <1>0, <1>2 DEF P!InsertOrder, P!Fresh
  <1>3. ASSUME P!WriteOrderStatus(c)
        PROVE  order'[o] # order[o] =>
                 /\ proc[c].op \in {"approvePurchaseOrder", "revertPurchaseOrderToDraft"} /\ proc[c].id = o
                 /\ driver = "memory"
                 /\ order'[o].status = IF proc[c].op = "approvePurchaseOrder" THEN "APPROVED" ELSE "DRAFT"
    <2>1. proc[c].id \in Orders /\ proc[c].seen \in P!PurchaseOrder
      BY <1>0, <1>3 DEF P!WriteOrderStatus, Holds
    <2>2. CASE order' = order
      BY <2>2
    <2>3. CASE order' = [order EXCEPT ![proc[c].id] = [proc[c].seen EXCEPT !.status =
                 IF proc[c].op = "approvePurchaseOrder" THEN "APPROVED" ELSE "DRAFT"]] /\ P!Has("updatePurchaseOrder")
      <3>1. driver = "memory"
        BY <2>3 DEF P!Has, P!MissingInPrisma
      <3>2. PICK s \in {"APPROVED", "DRAFT"} : s = IF proc[c].op = "approvePurchaseOrder" THEN "APPROVED" ELSE "DRAFT"
        OBVIOUS
      <3>3. order' = [order EXCEPT ![proc[c].id] = [proc[c].seen EXCEPT !.status = s]]
        BY <2>3, <3>2
      <3>4. [proc[c].seen EXCEPT !.status = s].status = s
        BY <2>1 DEF P!PurchaseOrder
      <3>5. order'[o] # order[o] => proc[c].id = o /\ order'[o].status = s
        BY <1>0, <2>1, <3>3, <3>4
      <3> QED
        BY <1>3, <3>1, <3>2, <3>5 DEF P!WriteOrderStatus
    <2> QED
      BY <1>3, <2>2, <2>3 DEF P!WriteOrderStatus
  <1>4. ASSUME P!CloseOrder(c)
        PROVE  order'[o] # order[o] => /\ proc[c].op = "receiveGoods" /\ proc[c].id = o /\ proc[c].pc = "write"
                                       /\ order'[o].status = "RECEIVED"
    <2>1. proc[c].id \in Orders /\ proc[c].seen \in P!PurchaseOrder
      BY <1>0, <1>4 DEF P!CloseOrder, Holds
    <2>2. [proc[c].seen EXCEPT !.status = "RECEIVED"].status = "RECEIVED"
      BY <2>1 DEF P!PurchaseOrder
    <2> QED
      BY <1>0, <1>4, <2>1, <2>2 DEF P!CloseOrder
  <1>5. driver' = driver
    <2>1. CASE P!SupplierStep(c)
      BY <2>1 DEF P!SupplierStep, P!CreateSupplier, P!InsertSupplier, P!VerifySupplier, P!WriteSupplier, P!BeginChange
    <2>2. CASE P!RequestStep(c)
      BY <2>2 DEF P!RequestStep, P!CreatePurchaseRequest, P!ApprovePurchaseRequest, P!RejectPurchaseRequest, P!WriteRequest,
                  P!BeginChange
    <2>3. CASE P!OrderStep(c)
      BY <2>3 DEF P!OrderStep, P!CreatePurchaseOrder, P!CheckSupplier, P!CheckRequest, P!ConvertRequest, P!InsertOrder,
                  P!ApprovePurchaseOrder, P!RevertPurchaseOrderToDraft, P!WriteOrderStatus, P!BeginChange
    <2>4. CASE P!ReceiptStep(c)
      BY <2>4 DEF P!ReceiptStep, P!ReceiveGoods, P!InsertReceipt, P!SumReceipts, P!CloseOrder
    <2> QED
      BY <2>1, <2>2, <2>3, <2>4 DEF Handles
  <1>6. \/ order' = order \/ P!WriteOrderStatus(c) \/ P!CloseOrder(c) \/ \E p \in Orders : P!InsertOrder(c, p)
    <2>1. CASE P!SupplierStep(c)
      BY <2>1 DEF P!SupplierStep, P!CreateSupplier, P!InsertSupplier, P!VerifySupplier, P!WriteSupplier, P!BeginChange
    <2>2. CASE P!RequestStep(c)
      BY <2>2 DEF P!RequestStep, P!CreatePurchaseRequest, P!ApprovePurchaseRequest, P!RejectPurchaseRequest, P!WriteRequest,
                  P!BeginChange
    <2>3. CASE P!OrderStep(c)
      BY <2>3 DEF P!OrderStep, P!CreatePurchaseOrder, P!CheckSupplier, P!CheckRequest, P!ConvertRequest,
                  P!ApprovePurchaseOrder, P!RevertPurchaseOrderToDraft, P!BeginChange
    <2>4. CASE P!ReceiptStep(c)
      BY <2>4 DEF P!ReceiptStep, P!ReceiveGoods, P!InsertReceipt, P!SumReceipts
    <2> QED
      BY <2>1, <2>2, <2>3, <2>4 DEF Handles
  <1> QED
    BY <1>2, <1>3, <1>4, <1>5, <1>6

\* What a workflow is doing in Procurement and Finance, by where it is.
WorkflowPcs == {"idle", "check", "approve", "approving", "allocating", "revert", "reverting", "answer", "done", "failed"}

Run ==
  [pc : WorkflowPcs, order : Orders \cup {None}, budget : Budgets \cup {None}, key : Keys \cup {None},
   threshold : Thresholds \cup {0}, decision : Decisions \cup {None}]

Busy(w) ==
  /\ wf[w].pc = "approving" => proc[w].op = "approvePurchaseOrder" /\ proc[w].id = wf[w].order
  /\ wf[w].pc = "reverting" => proc[w].op = "revertPurchaseOrderToDraft" /\ proc[w].id = wf[w].order
  /\ wf[w].pc \notin {"approving", "reverting"} => proc[w] = P!Idle
  /\ wf[w].pc \in {"idle", "check", "approve", "approving"} => fin[w] = Idle
  /\ fin[w].op \in {"none", "allocateBudget"}
  /\ wf[w].pc # "idle" => wf[w].order \in Orders /\ wf[w].budget \in Budgets

WorkflowInv ==
  /\ FundInv
  /\ Tables
  /\ wf \in [Workflows -> Run]
  /\ \A w \in Workflows : Busy(w)

\* Who answers for an order that shows APPROVED.
Backed(o) ==
  \E w \in Workflows :
    /\ wf[w].order = o
    /\ \/ wf[w].pc \in {"approving", "allocating", "revert", "reverting"}
       \/ wf[w].pc # "idle" /\ \E a \in allocations : a.by = w

FundedInv ==
  /\ WorkflowInv
  /\ \A c \in Clients : proc[c].op = "approvePurchaseOrder" => proc[c].id \in byHand
  /\ driver = "prisma" => \A o \in Orders : order[o] # None => order[o].status # "APPROVED"
  /\ \A o \in Orders \ byHand : order[o] # None /\ order[o].status = "APPROVED" => Backed(o)

\* What a client has a handler do.
ClientHandles(c) ==
  /\ Handles(c)
  /\ byHand' = byHand \cup {proc'[d].id : d \in {e \in Clients : proc'[e].op = "approvePurchaseOrder"}}
  /\ UNCHANGED <<vars, wf, responses, published>>

PurchaseMove ==
  \/ \E w \in Workflows : WorkflowStep(w)
  \/ FinanceStep
  \/ \E c \in Clients : ClientHandles(c)
  \/ UNCHANGED purchaseVars

\* Clients and workflows are different callers.
LEMMA Apart == Clients \subseteq Calls /\ Clients \cap Workflows = {} /\ Workflows \subseteq Calls
  BY WorkflowAssumption DEF Clients

\* Whatever happens in purchasing, the budgets see a step of finance or none.
LEMMA FinanceMoves ==
  ASSUME WorkflowInv, PurchaseMove
  PROVE  [Next]_vars
  <1>1. ASSUME NEW w \in Workflows, WorkflowStep(w) PROVE [Next]_vars
    <2>1. CASE Allocate(w)
      <3>1. CASE BeginAllocate(w, wf[w].budget, Amount)
        <4>1. PICK b \in Budgets : b = wf[w].budget
          BY <2>1 DEF WorkflowInv, Busy, Allocate, At
        <4>2. BeginAllocate(w, b, Amount)
          BY <3>1, <4>1 DEF BeginAllocate
        <4> QED
          BY <4>2, WorkflowAssumption DEF Next, Begins
      <3>2. CASE ReadBudget(w) \/ InsertAllocation(w) \/ WriteBudget(w)
        BY <3>2, WorkflowAssumption DEF Next, Step
      <3> QED
        BY <2>1, <3>1, <3>2 DEF Allocate
    <2>2. CASE ~Allocate(w)
      <3>1. UNCHANGED vars
        BY <1>1, <2>2 DEF WorkflowStep, ProcessPurchaseApproval, CheckBudgetAndPolicy, ApproveOrder, OrderApproved, Allocated,
                          RevertOrder, Answer
      <3> QED
        BY <3>1
    <2> QED
      BY <2>1, <2>2
  <1>2. CASE FinanceStep
    BY <1>2, Apart DEF FinanceStep, Next
  <1>3. CASE (\E c \in Clients : ClientHandles(c)) \/ UNCHANGED purchaseVars
    BY <1>3 DEF ClientHandles, purchaseVars
  <1> QED
    BY <1>1, <1>2, <1>3 DEF PurchaseMove

\* A workflow has one order approved, or reverted, at a time.
LEMMA WorkflowHandles ==
  ASSUME WorkflowInv, NEW w \in Workflows, WorkflowStep(w)
  PROVE  /\ Tables'
         /\ \A d \in Calls \ {w} : proc'[d] = proc[d]
         /\ ~(ApproveOrder(w) \/ OrderApproved(w) \/ RevertOrder(w)) => UNCHANGED <<procurementVars>>
         /\ UNCHANGED byHand
  <1>0. w \in Calls /\ Tables
    BY WorkflowAssumption DEF WorkflowInv
  <1>1. CASE ApproveOrder(w)
    <2>1. PICK o : o = wf[w].order
      OBVIOUS
    <2>2. o \in Orders
      BY <1>1, <2>1 DEF WorkflowInv, Busy, ApproveOrder, At
    <2>3. P!BeginChange(w, "approvePurchaseOrder", order, o)
      BY <1>1, <2>1 DEF ApproveOrder, P!ApprovePurchaseOrder, P!BeginChange
    <2> QED
      BY <1>0, <1>1, <2>2, <2>3, ChangeTypes DEF ApproveOrder
  <1>2. CASE OrderApproved(w)
    <2>1. Handles(w)
      BY <1>2 DEF OrderApproved, Handles, P!OrderStep
    <2> QED
      BY <1>0, <1>2, <2>1, TablesKept, HandlerMoves DEF OrderApproved
  <1>3. CASE RevertOrder(w)
    <2>1. CASE P!WriteOrderStatus(w)
      <3>1. Handles(w)
        BY <2>1 DEF Handles, P!OrderStep
      <3> QED
        BY <1>0, <1>3, <3>1, TablesKept, HandlerMoves DEF RevertOrder
    <2>2. CASE At(w, "revert") /\ P!RevertPurchaseOrderToDraft(w, wf[w].order)
      <3>1. PICK o : o = wf[w].order
        OBVIOUS
      <3>2. o \in Orders
        BY <2>2, <3>1 DEF WorkflowInv, Busy, At
      <3>3. P!BeginChange(w, "revertPurchaseOrderToDraft", order, o)
        BY <2>2, <3>1 DEF P!RevertPurchaseOrderToDraft, P!BeginChange
      <3> QED
        BY <1>0, <1>3, <3>2, <3>3, ChangeTypes DEF RevertOrder
    <2> QED
      BY <1>3, <2>1, <2>2 DEF RevertOrder
  <1>4. CASE ~(ApproveOrder(w) \/ OrderApproved(w) \/ RevertOrder(w))
    <2>1. UNCHANGED <<procurementVars>> /\ UNCHANGED byHand
      BY <1>4 DEF WorkflowStep, ProcessPurchaseApproval, CheckBudgetAndPolicy, Allocate, Allocated, Answer, workflowVars
    <2> QED
      BY <1>0, <1>4, <2>1 DEF procurementVars, Tables, Holds, Finds
  <1> QED
    BY <1>1, <1>2, <1>3, <1>4

\* What else a workflow's step leaves alone.
LEMMA WorkflowsMove ==
  ASSUME WorkflowInv, FundInv', NEW w \in Workflows, WorkflowStep(w)
  PROVE  /\ \A v \in Workflows \ {w} : wf'[v] = wf[v]
         /\ \A d \in Calls \ {w} : fin'[d] = fin[d]
         /\ ~Allocate(w) => UNCHANGED vars
         /\ Allocate(w) => wf' = wf
  <1>0. wf \in [Workflows -> Run] /\ w \in Calls
    BY Apart DEF WorkflowInv
  <1>1. \A v \in Workflows \ {w} : wf'[v] = wf[v]
    BY <1>0 DEF WorkflowStep, ProcessPurchaseApproval, CheckBudgetAndPolicy, ApproveOrder, OrderApproved, Allocated,
                RevertOrder, Answer, Allocate, workflowVars, Moved
  <1>2. ~Allocate(w) => UNCHANGED vars
    BY DEF WorkflowStep, ProcessPurchaseApproval, CheckBudgetAndPolicy, ApproveOrder, OrderApproved, Allocated,
           RevertOrder, Answer
  <1>3. ASSUME Allocate(w) PROVE \A d \in Calls \ {w} : fin'[d] = fin[d]
    <2>1. CASE BeginAllocate(w, wf[w].budget, Amount)
      BY <1>0, <2>1 DEF BeginAllocate, WorkflowInv, FundInv, FundLinks, IInv, Types
    <2>2. CASE ReadBudget(w) \/ InsertAllocation(w) \/ WriteBudget(w)
      BY <1>0, <2>2, OneMoves DEF Step, WorkflowInv, FundInv, FundLinks
    <2> QED
      BY <1>3, <2>1, <2>2 DEF Allocate
  <1> QED
    BY <1>1, <1>2, <1>3 DEF Allocate, workflowVars, vars

\* The local state of a workflow as an action leaves it.
LEMMA WorkflowGoes ==
  ASSUME WorkflowInv, NEW w \in Workflows, NEW pc \in WorkflowPcs, Moved(w, pc)
  PROVE  /\ wf' \in [Workflows -> Run] /\ wf'[w].pc = pc /\ wf'[w].order = wf[w].order
         /\ wf'[w].budget = wf[w].budget
  BY DEF WorkflowInv, Run, Moved

\* A step of a workflow leaves its run well formed,
LEMMA RunsKept ==
  ASSUME WorkflowInv, FundInv', NEW w \in Workflows, WorkflowStep(w)
  PROVE  wf' \in [Workflows -> Run] /\ Busy(w)'
  <1>0. /\ wf \in [Workflows -> Run] /\ w \in Calls /\ Busy(w) /\ Linked(w) /\ Linked(w)' /\ wf[w] \in Run
        /\ proc \in [Calls -> Handler] /\ fin \in [Calls -> Call] /\ Tables' /\ Tables
    BY Apart, WorkflowHandles DEF WorkflowInv, FundInv, FundLinks, Tables, IInv, Types
  <1>1. ASSUME NEW o \in Orders, NEW b \in Budgets, NEW key \in Keys \cup {None}, NEW t \in Thresholds,
               ProcessPurchaseApproval(w, o, b, key, t)
        PROVE  wf' \in [Workflows -> Run] /\ Busy(w)'
    <2> DEFINE pc == IF key # None /\ responses[key] # None THEN "done" ELSE "check"
               x == [pc |-> pc, order |-> o, budget |-> b, key |-> key, threshold |-> t, decision |-> None]
    <2>1. wf' = [wf EXCEPT ![w] = x] /\ UNCHANGED <<vars, procurementVars>> /\ wf[w].pc = "idle"
      BY <1>1 DEF ProcessPurchaseApproval, At
    <2>2. pc \in {"done", "check"}
      OBVIOUS
    <2> HIDE DEF pc
    <2>3. x \in Run /\ x.pc = pc /\ x.order = o /\ x.budget = b
      BY <2>2 DEF Run, WorkflowPcs
    <2> HIDE DEF x
    <2>4. wf' \in [Workflows -> Run] /\ wf'[w] = x
      BY <1>0, <2>1, <2>3
    <2>5. fin'[w] = fin[w] /\ proc'[w] = proc[w]
      BY <2>1 DEF vars, procurementVars
    <2> QED
      BY <1>0, <2>1, <2>2, <2>3, <2>4, <2>5 DEF Busy
  <1>2. CASE CheckBudgetAndPolicy(w)
    <2> DEFINE d == ProcurementPolicy(Amount, Available(budget[wf[w].budget], Amount), TRUE, wf[w].threshold)
               pc == IF d = "AUTO_APPROVE" THEN "approve" ELSE "answer"
    <2>1. /\ wf' = [wf EXCEPT ![w].decision = d, ![w].pc = pc]
          /\ UNCHANGED <<vars, procurementVars>> /\ wf[w].pc = "check"
      BY <1>2 DEF CheckBudgetAndPolicy, At
    <2>2. pc \in {"approve", "answer"} /\ d \in Decisions
      BY DEF ProcurementPolicy, Decisions
    <2> HIDE DEF d, pc
    <2>3. wf'[w] = [wf[w] EXCEPT !.decision = d, !.pc = pc]
      BY <1>0, <2>1
    <2>4. /\ wf' \in [Workflows -> Run] /\ wf'[w].pc = pc /\ wf'[w].order = wf[w].order
          /\ wf'[w].budget = wf[w].budget
      <3>1. PICK x : x = [wf[w] EXCEPT !.decision = d, !.pc = pc]
        OBVIOUS
      <3>2. x \in Run /\ x.pc = pc /\ x.order = wf[w].order /\ x.budget = wf[w].budget
        BY <1>0, <2>2, <3>1 DEF Run, WorkflowPcs
      <3>3. wf' = [wf EXCEPT ![w] = x]
        BY <1>0, <2>1, <2>3, <3>1
      <3> QED
        BY <1>0, <3>2, <3>3
    <2>5. fin'[w] = fin[w] /\ proc'[w] = proc[w]
      BY <2>1 DEF vars, procurementVars
    <2> QED
      BY <1>0, <2>1, <2>2, <2>4, <2>5 DEF Busy
  <1>3. CASE ApproveOrder(w)
    <2>1. Moved(w, "approving") /\ wf[w].pc = "approve" /\ fin' = fin
      BY <1>3 DEF ApproveOrder, At, vars
    <2>2. /\ wf' \in [Workflows -> Run] /\ wf'[w].pc = "approving" /\ wf'[w].order = wf[w].order
          /\ wf'[w].budget = wf[w].budget
      BY <2>1, WorkflowGoes DEF WorkflowPcs
    <2>3. proc'[w].op = "approvePurchaseOrder" /\ proc'[w].id = wf[w].order
      BY <1>0, <1>3 DEF ApproveOrder, P!ApprovePurchaseOrder, P!BeginChange, P!Idle
    <2> QED
      BY <1>0, <2>1, <2>2, <2>3 DEF Busy
  <1>4. CASE OrderApproved(w)
    <2>1. PICK pc \in {"allocating", "failed"} : Moved(w, pc)
      BY <1>4 DEF OrderApproved
    <2>2. /\ wf' \in [Workflows -> Run] /\ wf'[w].pc = pc /\ wf'[w].order = wf[w].order
          /\ wf'[w].budget = wf[w].budget
      BY <2>1, WorkflowGoes DEF WorkflowPcs
    <2>3. proc'[w] = P!Idle /\ fin' = fin /\ wf[w].pc = "approving"
      BY <1>0, <1>4 DEF OrderApproved, P!WriteOrderStatus, P!Return, At, vars
    <2> QED
      BY <1>0, <2>1, <2>2, <2>3 DEF Busy
  <1>5. CASE Allocate(w)
    <2>1. wf' = wf /\ proc' = proc /\ wf[w].pc = "allocating"
      BY <1>5 DEF Allocate, workflowVars, procurementVars, At
    <2>2. fin'[w].op \in {"none", "allocateBudget"}
      <3>1. CASE BeginAllocate(w, wf[w].budget, Amount)
        BY <1>0, <3>1 DEF BeginAllocate, Idle
      <3>2. CASE ReadBudget(w) \/ InsertAllocation(w) \/ WriteBudget(w)
        BY <1>0, <3>2, StepShape DEF Step, WorkflowInv, FundInv, FundLinks, Busy
      <3> QED
        BY <1>5, <3>1, <3>2 DEF Allocate
    <2> QED
      BY <1>0, <2>1, <2>2 DEF Busy
  <1>6. CASE Allocated(w)
    <2>1. PICK pc \in {"answer", "revert"} : Moved(w, pc)
      BY <1>6 DEF Allocated, AfterRefusal
    <2>2. /\ wf' \in [Workflows -> Run] /\ wf'[w].pc = pc /\ wf'[w].order = wf[w].order
          /\ wf'[w].budget = wf[w].budget
      BY <2>1, WorkflowGoes DEF WorkflowPcs
    <2>3. proc' = proc /\ fin' = fin /\ wf[w].pc = "allocating"
      BY <1>6 DEF Allocated, At, vars, procurementVars
    <2> QED
      BY <1>0, <2>1, <2>2, <2>3 DEF Busy
  <1>7. CASE RevertOrder(w)
    <2>1. CASE At(w, "revert") /\ P!RevertPurchaseOrderToDraft(w, wf[w].order) /\ Moved(w, "reverting")
      <3>1. /\ wf' \in [Workflows -> Run] /\ wf'[w].pc = "reverting" /\ wf'[w].order = wf[w].order
            /\ wf'[w].budget = wf[w].budget
        BY <2>1, WorkflowGoes DEF WorkflowPcs
      <3>2. proc'[w].op = "revertPurchaseOrderToDraft" /\ proc'[w].id = wf[w].order
        BY <1>0, <2>1 DEF P!RevertPurchaseOrderToDraft, P!BeginChange, P!Idle
      <3>3. fin' = fin /\ wf[w].pc = "revert"
        BY <1>7, <2>1 DEF RevertOrder, vars, At
      <3> QED
        BY <1>0, <3>1, <3>2, <3>3 DEF Busy
    <2>2. CASE At(w, "reverting") /\ P!WriteOrderStatus(w) /\ Moved(w, "failed")
      <3>1. /\ wf' \in [Workflows -> Run] /\ wf'[w].pc = "failed" /\ wf'[w].order = wf[w].order
            /\ wf'[w].budget = wf[w].budget
        BY <2>2, WorkflowGoes DEF WorkflowPcs
      <3>2. proc'[w] = P!Idle /\ fin' = fin /\ wf[w].pc = "reverting"
        BY <1>0, <1>7, <2>2 DEF RevertOrder, P!WriteOrderStatus, P!Return, At, vars
      <3> QED
        BY <1>0, <3>1, <3>2 DEF Busy
    <2> QED
      BY <1>7, <2>1, <2>2 DEF RevertOrder
  <1>8. CASE Answer(w)
    <2>1. Moved(w, "done") /\ wf[w].pc = "answer" /\ UNCHANGED <<vars, procurementVars>>
      BY <1>8 DEF Answer, At
    <2>2. /\ wf' \in [Workflows -> Run] /\ wf'[w].pc = "done" /\ wf'[w].order = wf[w].order
          /\ wf'[w].budget = wf[w].budget
      BY <2>1, WorkflowGoes DEF WorkflowPcs
    <2> QED
      BY <1>0, <2>1, <2>2 DEF Busy, vars, procurementVars
  <1> QED
    BY <1>1, <1>2, <1>3, <1>4, <1>5, <1>6, <1>7, <1>8 DEF WorkflowStep

\* every step keeps the workflows',
LEMMA WorkflowsKept == WorkflowInv /\ PurchaseMove => WorkflowInv'
  <1> SUFFICES ASSUME WorkflowInv, PurchaseMove PROVE WorkflowInv'
    OBVIOUS
  <1>0. FundInv'
    BY FinanceMoves, FundsKept DEF WorkflowInv
  <1>1. ASSUME NEW w \in Workflows, WorkflowStep(w) PROVE WorkflowInv'
    <2>1. Tables' /\ wf' \in [Workflows -> Run] /\ Busy(w)'
      BY <1>0, <1>1, WorkflowHandles, RunsKept
    <2>2. ASSUME NEW v \in Workflows, v # w PROVE Busy(v)'
      <3>1. wf'[v] = wf[v] /\ fin'[v] = fin[v] /\ proc'[v] = proc[v]
        BY <1>0, <1>1, <2>2, WorkflowsMove, WorkflowHandles, Apart
      <3> QED
        BY <3>1 DEF WorkflowInv, Busy
    <2> QED
      BY <1>0, <2>1, <2>2 DEF WorkflowInv
  <1>2. CASE FinanceStep
    <2>1. UNCHANGED <<procurementVars, workflowVars>>
      BY <1>2 DEF FinanceStep
    <2>2. Tables'
      BY <2>1 DEF procurementVars, Tables, Holds, Finds, WorkflowInv
    <2>3. ASSUME NEW v \in Workflows PROVE fin'[v] = fin[v]
      <3>1. ASSUME NEW c \in Clients, Begins(c) \/ Step(c) PROVE fin'[v] = fin[v]
        BY <1>0, <3>1, Apart, OneMoves DEF WorkflowInv, FundInv, FundLinks
      <3>2. ASSUME NEW e \in Expenses, CreateExpense(e) PROVE fin'[v] = fin[v]
        BY <3>2 DEF CreateExpense
      <3> QED
        BY <1>2, <3>1, <3>2 DEF FinanceStep
    <2> QED
      BY <1>0, <2>1, <2>2, <2>3 DEF WorkflowInv, Busy, procurementVars, workflowVars
  <1>3. ASSUME NEW c \in Clients, ClientHandles(c) PROVE WorkflowInv'
    <2>1. Tables' /\ \A v \in Workflows : proc'[v] = proc[v]
      BY <1>3, Apart, TablesKept, HandlerMoves DEF ClientHandles, WorkflowInv
    <2> QED
      BY <1>0, <1>3, <2>1 DEF ClientHandles, WorkflowInv, Busy, vars
  <1>4. CASE UNCHANGED purchaseVars
    <2>1. UNCHANGED <<vars, procurementVars, wf>>
      BY <1>4 DEF purchaseVars, workflowVars
    <2>2. Tables'
      BY <2>1 DEF procurementVars, Tables, Holds, Finds, WorkflowInv
    <2> QED
      BY <1>0, <2>1, <2>2 DEF WorkflowInv, Busy, procurementVars, vars
  <1> QED
    BY <1>1, <1>2, <1>3, <1>4 DEF PurchaseMove

\* Allocations are never taken back.
LEMMA AllocationsGrow ==
  ASSUME FundInv, FundInv', [Next]_vars
  PROVE  allocations \subseteq allocations'
  <1>1. ASSUME NEW c \in Calls, Begins(c) \/ Step(c) PROVE allocations \subseteq allocations'
    <2>1. CASE InsertAllocation(c)
      BY <2>1 DEF InsertAllocation
    <2>2. CASE ~InsertAllocation(c)
      BY <1>1, <2>2, BeginShape, StepShape DEF FundInv, FundLinks
    <2> QED
      BY <2>1, <2>2
  <1> QED
    BY <1>1 DEF Next, CreateExpense, vars

\* A status that is written is there.
LEMMA StatusWritten ==
  ASSUME Tables, NEW c \in Calls, P!WriteOrderStatus(c), driver = "memory"
  PROVE  order'[proc[c].id].status = IF proc[c].op = "approvePurchaseOrder" THEN "APPROVED" ELSE "DRAFT"
  <1>1. proc[c].id \in Orders /\ proc[c].seen \in P!PurchaseOrder /\ order \in [Orders -> P!PurchaseOrder \cup {None}]
    BY DEF P!WriteOrderStatus, Tables, Holds
  <1>2. PICK s : s = IF proc[c].op = "approvePurchaseOrder" THEN "APPROVED" ELSE "DRAFT"
    OBVIOUS
  <1>3. order' = [order EXCEPT ![proc[c].id] = [proc[c].seen EXCEPT !.status = s]]
    BY <1>2 DEF P!WriteOrderStatus, P!Has
  <1> QED
    BY <1>1, <1>2, <1>3 DEF P!PurchaseOrder

\* and the link between approved orders and allocations.
LEMMA FundedKept == FundedInv /\ PurchaseMove => FundedInv'
  <1> SUFFICES ASSUME FundedInv, PurchaseMove PROVE FundedInv'
    OBVIOUS
  <1>0. WorkflowInv' /\ allocations \subseteq allocations' /\ WorkflowInv
    BY WorkflowsKept, FinanceMoves, AllocationsGrow DEF FundedInv, WorkflowInv
  <1>1. ASSUME NEW w \in Workflows, WorkflowStep(w) PROVE FundedInv'
    <2>1. /\ \A d \in Calls \ {w} : proc'[d] = proc[d]
          /\ \A v \in Workflows \ {w} : wf'[v] = wf[v]
          /\ byHand' = byHand
      BY <1>0, <1>1, WorkflowHandles, WorkflowsMove DEF WorkflowInv
    <2>2. \A c \in Clients : proc'[c].op = "approvePurchaseOrder" => proc'[c].id \in byHand'
      BY <2>1, Apart DEF FundedInv
    <2>3. /\ driver' = driver
          /\ \A o \in Orders : order'[o] # order[o] =>
               (order'[o].status = "APPROVED" => OrderApproved(w) /\ wf[w].order = o /\ driver = "memory")
      <3>1. CASE OrderApproved(w) \/ (RevertOrder(w) /\ P!WriteOrderStatus(w))
        <4>1. Handles(w) /\ w \in Calls
          BY <3>1, Apart DEF OrderApproved, Handles, P!OrderStep
        <4>2. /\ OrderApproved(w) => proc[w].op = "approvePurchaseOrder" /\ proc[w].id = wf[w].order
              /\ ~OrderApproved(w) => proc[w].op # "approvePurchaseOrder"
          <5>1. OrderApproved(w) => wf[w].pc = "approving"
            BY DEF OrderApproved, At
          <5>2. ~OrderApproved(w) => wf[w].pc # "approving"
            BY <3>1 DEF RevertOrder, At
          <5>3. ~OrderApproved(w) /\ wf[w].pc # "reverting" => proc[w] = P!Idle
            BY <1>0, <5>2 DEF WorkflowInv, Busy
          <5> QED
            BY <1>0, <5>1, <5>2, <5>3 DEF WorkflowInv, Busy, P!Idle
        <4>3. Tables /\ Tables'
          BY <1>0 DEF WorkflowInv
        <4>4. ASSUME NEW o \in Orders, order'[o] # order[o], order'[o].status = "APPROVED"
              PROVE  OrderApproved(w) /\ wf[w].order = o /\ driver = "memory"
          <5>1. /\ proc[w].op \in {"approvePurchaseOrder", "revertPurchaseOrderToDraft"} /\ proc[w].id = o
                /\ driver = "memory" /\ proc[w].op = "approvePurchaseOrder"
            BY <4>1, <4>3, <4>4, OrderWritten
          <5> QED
            BY <4>2, <5>1
        <4>5. driver' = driver
          BY <3>1 DEF OrderApproved, RevertOrder, P!WriteOrderStatus
        <4> QED
          BY <4>4, <4>5
      <3>2. CASE ~(OrderApproved(w) \/ (RevertOrder(w) /\ P!WriteOrderStatus(w)))
        <4>1. UNCHANGED <<driver, order>>
          BY <1>1, <3>2, <1>0, WorkflowHandles DEF procurementVars, ApproveOrder, RevertOrder, P!ApprovePurchaseOrder,
             P!RevertPurchaseOrderToDraft, P!BeginChange
        <4> QED
          BY <4>1
      <3> QED
        BY <3>1, <3>2
    <2>4. ASSUME NEW o \in Orders \ byHand', order'[o] # None, order'[o].status = "APPROVED"
          PROVE  Backed(o)'
      <3>1. CASE order'[o] # order[o]
        <4>1. OrderApproved(w) /\ wf[w].order = o /\ driver = "memory"
          BY <2>3, <2>4, <3>1
        <4>2. wf'[w].pc = "allocating" /\ wf'[w].order = o
          BY <1>0, <4>1, WorkflowGoes DEF OrderApproved, P!Has, WorkflowPcs
        <4> QED
          BY <4>2 DEF Backed
      <3>2. CASE order'[o] = order[o]
        <4>1. Backed(o) /\ driver = "memory"
          BY <1>0, <2>1, <2>4, <3>2 DEF FundedInv, WorkflowInv, Tables
        <4>2. PICK v \in Workflows :
                 /\ wf[v].order = o
                 /\ \/ wf[v].pc \in {"approving", "allocating", "revert", "reverting"}
                    \/ wf[v].pc # "idle" /\ \E a \in allocations : a.by = v
          BY <4>1 DEF Backed
        <4>3. CASE v # w
          BY <1>0, <2>1, <4>2, <4>3 DEF Backed
        <4>4. CASE v = w
          <5>1. wf[w].order = o /\ wf[w].pc # "idle"
            BY <4>2, <4>4
          <5>2. ~(At(w, "reverting") /\ RevertOrder(w))
            <6>1. SUFFICES ASSUME At(w, "reverting"), RevertOrder(w) PROVE FALSE
              OBVIOUS
            <6>2. P!WriteOrderStatus(w) /\ proc[w].op = "revertPurchaseOrderToDraft" /\ proc[w].id = o
              BY <1>0, <5>1, <6>1 DEF RevertOrder, At, WorkflowInv, Busy
            <6>3. order'[o].status = "DRAFT"
              BY <1>0, <4>1, <6>2, Apart, StatusWritten DEF WorkflowInv
            <6> QED
              BY <2>4, <6>3
          <5>3. CASE Allocate(w)
            <6>1. wf' = wf
              BY <1>0, <1>1, <5>3, WorkflowsMove DEF WorkflowInv
            <6> QED
              BY <1>0, <4>2, <4>4, <6>1 DEF Backed
          <5>4. CASE OrderApproved(w)
            <6>1. wf'[w].pc = "allocating" /\ wf'[w].order = o
              BY <1>0, <4>1, <5>1, <5>4, WorkflowGoes DEF OrderApproved, P!Has, WorkflowPcs
            <6> QED
              BY <6>1 DEF Backed
          <5>5. CASE Allocated(w)
            <6>1. CASE fin[w].pc = "done"
              <7>1. wf'[w].pc = "answer" /\ wf'[w].order = o /\ allocations' = allocations
                BY <1>0, <5>1, <5>5, <6>1, WorkflowGoes DEF Allocated, WorkflowPcs, vars
              <7>2. RowOf(w) \in allocations
                BY <1>0, <6>1, Apart DEF WorkflowInv, Busy, FundInv, FundLinks, Linked, AllocationsKnown, Idle
              <7>3. RowOf(w).by = w
                BY DEF RowOf
              <7> QED
                BY <7>1, <7>2, <7>3 DEF Backed
            <6>2. CASE fin[w].pc # "done"
              <7>1. wf'[w].pc = "revert" /\ wf'[w].order = o
                BY <1>0, <5>1, <5>5, <6>2, WorkflowGoes DEF Allocated, WorkflowPcs, AfterRefusal
              <7> QED
                BY <7>1 DEF Backed
            <6> QED
              BY <6>1, <6>2
          <5>6. CASE RevertOrder(w)
            <6>1. Moved(w, "reverting")
              BY <5>2, <5>6 DEF RevertOrder
            <6>2. wf'[w].pc = "reverting" /\ wf'[w].order = o
              BY <1>0, <5>1, <6>1, WorkflowGoes DEF WorkflowPcs
            <6> QED
              BY <6>2 DEF Backed
          <5>7. CASE ApproveOrder(w) \/ Answer(w)
            <6>1. (Moved(w, "approving") /\ ApproveOrder(w)) \/ (Moved(w, "done") /\ Answer(w))
              BY <5>7 DEF ApproveOrder, Answer
            <6>2. wf'[w].pc \in {"approving", "done"} /\ wf'[w].order = o
              BY <1>0, <5>1, <6>1, WorkflowGoes DEF WorkflowPcs
            <6>3. wf[w].pc \in {"approve", "answer"}
              BY <5>7 DEF ApproveOrder, Answer, At
            <6> QED
              BY <1>0, <4>2, <4>4, <6>2, <6>3 DEF Backed
          <5>8. CASE CheckBudgetAndPolicy(w)
            <6>1. wf[w] \in Run /\ wf[w].pc = "check"
              BY <5>8 DEF CheckBudgetAndPolicy, At, WorkflowInv, FundedInv
            <6>2. wf'[w].pc \in {"approve", "answer"} /\ wf'[w].order = o
              BY <5>1, <5>8, <6>1 DEF CheckBudgetAndPolicy, Run, WorkflowInv, FundedInv
            <6> QED
              BY <1>0, <4>2, <4>4, <6>1, <6>2 DEF Backed
          <5>9. CASE \E p \in Orders, b \in Budgets, key \in Keys \cup {None}, t \in Thresholds :
                       ProcessPurchaseApproval(w, p, b, key, t)
            BY <5>1, <5>9 DEF ProcessPurchaseApproval, At
          <5> QED
            BY <1>1, <5>3, <5>4, <5>5, <5>6, <5>7, <5>8, <5>9 DEF WorkflowStep
        <4> QED
          BY <4>3, <4>4
      <3> QED
        BY <3>1, <3>2
    <2>5. driver' = "prisma" => \A o \in Orders : order'[o] # None => order'[o].status # "APPROVED"
      BY <2>3 DEF FundedInv
    <2> QED
      BY <1>0, <2>2, <2>4, <2>5 DEF FundedInv
  <1>2. ASSUME FinanceStep \/ UNCHANGED purchaseVars PROVE FundedInv'
    <2>1. UNCHANGED <<driver, order, proc, wf, byHand>>
      BY <1>2 DEF FinanceStep, purchaseVars, procurementVars, workflowVars
    <2>2. ASSUME NEW o, Backed(o) PROVE Backed(o)'
      BY <1>0, <2>1, <2>2 DEF Backed
    <2> QED
      BY <1>0, <2>1, <2>2 DEF FundedInv
  <1>3. ASSUME NEW c \in Clients, ClientHandles(c) PROVE FundedInv'
    <2>1. /\ Tables /\ Tables' /\ c \in Calls /\ Handles(c)
          /\ UNCHANGED <<allocations, wf>> /\ byHand \subseteq byHand'
      BY <1>0, <1>3, Apart DEF ClientHandles, WorkflowInv, vars
    <2>2. \A d \in Clients : proc'[d].op = "approvePurchaseOrder" => proc'[d].id \in byHand'
      BY <1>3 DEF ClientHandles
    <2>3. proc[c].op = "approvePurchaseOrder" => proc[c].id \in byHand
      BY DEF FundedInv
    <2>4. ASSUME NEW o \in Orders \ byHand', order'[o] # None, order'[o].status = "APPROVED" PROVE Backed(o)'
      <3>1. order'[o] = order[o]
        BY <2>1, <2>3, <2>4, OrderWritten
      <3>2. Backed(o)
        BY <2>1, <2>4, <3>1 DEF FundedInv
      <3> QED
        BY <2>1, <3>2 DEF Backed
    <2>5. driver' = "prisma" => \A o \in Orders : order'[o] # None => order'[o].status # "APPROVED"
      BY <2>1, OrderWritten DEF FundedInv
    <2> QED
      BY <1>0, <2>2, <2>4, <2>5 DEF FundedInv
  <1> QED
    BY <1>1, <1>2, <1>3 DEF PurchaseMove

\* What is funded shows it: once no workflow is at an order, only its allocation can answer
\* for its approval.
LEMMA FundedShows == FundedInv => ApprovedIsFunded
  <1> SUFFICES ASSUME FundedInv, NEW o \in P!Rows(order) \ byHand, order[o].status = "APPROVED", Approving(o) = {}
               PROVE  AllocationsFor(o) # {}
    BY DEF ApprovedIsFunded
  <1>1. o \in Orders /\ order[o] # None
    BY DEF FundedInv, WorkflowInv, Tables, P!Rows
  <1>2. Backed(o)
    BY <1>1 DEF FundedInv
  <1> QED
    BY <1>2 DEF Backed, Approving, AllocationsFor

\* What a handler's step makes of the handler.
LEMMA Returned ==
  ASSUME Tables, NEW c \in Calls, P!Return(c)
  PROVE  proc'[c] = P!Idle /\ proc'[c].op = "none" /\ proc'[c].pc = "idle"
  BY DEF Tables, P!Return, P!Idle

\* What a handler that goes on keeps,
LEMMA WentOn ==
  ASSUME Tables, NEW c \in Calls,
         NEW pc \in {"idle", "insert", "write", "supplier", "request", "convert", "sum"}, P!Goto(c, pc)
  PROVE  /\ proc'[c].op = proc[c].op /\ proc'[c].pc = pc /\ proc'[c].id = proc[c].id
         /\ proc'[c].seen = proc[c].seen /\ proc'[c].use = proc[c].use
  <1>1. proc[c] \in Handler /\ proc \in [Calls -> Handler]
    BY DEF Tables
  <1>2. PICK x : x = [proc[c] EXCEPT !.pc = pc]
    OBVIOUS
  <1>3. proc'[c] = x
    BY <1>1, <1>2 DEF P!Goto
  <1> QED
    BY <1>1, <1>2, <1>3, HandlerFields

\* and what one that begins holds.
LEMMA Began ==
  ASSUME Tables, NEW c \in Calls, NEW op, NEW table, NEW id, P!BeginChange(c, op, table, id)
  PROVE  proc[c].op = "none" /\ proc'[c].op = op /\ proc'[c].pc = "write" /\ proc'[c].id = id
  <1>1. PICK x : x = [P!Idle EXCEPT !.op = op, !.pc = "write", !.id = id, !.seen = table[id]]
    OBVIOUS
  <1>2. x.op = op /\ x.pc = "write" /\ x.id = id
    BY <1>1 DEF P!Idle
  <1>3. proc'[c] = x
    BY <1>1 DEF P!BeginChange, Tables
  <1> QED
    BY <1>2, <1>3 DEF P!BeginChange, P!Idle

\* What handlers of each kind are about, and what they leave alone.
LEMMA SupplierOps ==
  ASSUME Tables, NEW c \in Calls, P!SupplierStep(c)
  PROVE  /\ {proc[c].op, proc'[c].op} \subseteq {"none", "createSupplier", "verifySupplier"}
         /\ UNCHANGED <<request, order, receipt, converted, rewritten>> /\ raced \subseteq raced'
  <1>1. ASSUME NEW name \in Names, P!CreateSupplier(c, name)
        PROVE  proc[c].op = "none" /\ proc'[c].op = "createSupplier"
    <2>1. PICK x : x = [P!Idle EXCEPT !.op = "createSupplier", !.pc = "insert", !.use = name]
      OBVIOUS
    <2>2. x.op = "createSupplier"
      BY <2>1 DEF P!Idle
    <2>3. proc \in [Calls -> Handler]
      BY DEF Tables
    <2> QED
      BY <1>1, <2>1, <2>2, <2>3 DEF P!CreateSupplier, P!Idle
  <1>2. ASSUME NEW s \in Suppliers, P!InsertSupplier(c, s) PROVE proc[c].op = "createSupplier" /\ proc'[c].op = "none"
    BY <1>2, Returned DEF P!InsertSupplier
  <1>3. ASSUME NEW s \in Suppliers, P!VerifySupplier(c, s) PROVE proc[c].op = "none" /\ proc'[c].op = "verifySupplier"
    BY <1>3, Began DEF P!VerifySupplier
  <1>4. ASSUME P!WriteSupplier(c) PROVE proc[c].op = "verifySupplier" /\ proc'[c].op = "none"
    BY <1>4, Returned DEF P!WriteSupplier
  <1>5. {proc[c].op, proc'[c].op} \subseteq {"none", "createSupplier", "verifySupplier"}
    BY <1>1, <1>2, <1>3, <1>4 DEF P!SupplierStep
  <1>6. UNCHANGED <<request, order, receipt, converted, rewritten>> /\ raced \subseteq raced'
    BY DEF P!SupplierStep, P!CreateSupplier, P!InsertSupplier, P!VerifySupplier, P!WriteSupplier, P!BeginChange
  <1> QED
    BY <1>5, <1>6

\* Which rows the handlers of requests leave alone,
LEMMA RequestOps ==
  ASSUME Tables, NEW c \in Calls, P!RequestStep(c)
  PROVE  /\ {proc[c].op, proc'[c].op} \subseteq {"none", "approvePurchaseRequest", "rejectPurchaseRequest"}
         /\ UNCHANGED <<order, receipt, raced, rewritten>>
  <1>1. ASSUME NEW r \in Requests, P!CreatePurchaseRequest(c, r) PROVE proc[c].op = "none" /\ proc'[c].op = "none"
    BY <1>1 DEF P!CreatePurchaseRequest, P!Idle
  <1>2. ASSUME NEW r \in Requests, P!ApprovePurchaseRequest(c, r)
        PROVE  proc[c].op = "none" /\ proc'[c].op = "approvePurchaseRequest"
    BY <1>2, Began DEF P!ApprovePurchaseRequest
  <1>3. ASSUME NEW r \in Requests, P!RejectPurchaseRequest(c, r)
        PROVE  proc[c].op = "none" /\ proc'[c].op = "rejectPurchaseRequest"
    BY <1>3, Began DEF P!RejectPurchaseRequest
  <1>4. ASSUME P!WriteRequest(c)
        PROVE  proc[c].op \in {"approvePurchaseRequest", "rejectPurchaseRequest"} /\ proc'[c].op = "none"
    BY <1>4, Returned DEF P!WriteRequest
  <1>5. {proc[c].op, proc'[c].op} \subseteq {"none", "approvePurchaseRequest", "rejectPurchaseRequest"}
    BY <1>1, <1>2, <1>3, <1>4 DEF P!RequestStep
  <1>6. UNCHANGED <<order, receipt, raced, rewritten>>
    BY DEF P!RequestStep, P!CreatePurchaseRequest, P!ApprovePurchaseRequest, P!RejectPurchaseRequest, P!WriteRequest,
           P!BeginChange
  <1> QED
    BY <1>5, <1>6

\* those of receipts,
LEMMA ReceiptOps ==
  ASSUME Tables, NEW c \in Calls, P!ReceiptStep(c)
  PROVE  /\ {proc[c].op, proc'[c].op} \subseteq {"none", "receiveGoods"}
         /\ UNCHANGED <<request, converted, raced, rewritten>>
  <1>0. proc[c] \in Handler /\ Holds(proc[c]) /\ proc \in [Calls -> Handler]
    BY DEF Tables
  <1>1. ASSUME NEW o \in Orders, NEW q \in 1 .. Ordered, P!ReceiveGoods(c, o, q)
        PROVE  proc[c].op = "none" /\ proc'[c].op = "receiveGoods"
    <2>1. PICK x : x = [op |-> "receiveGoods", pc |-> "insert", id |-> o, seen |-> order[o], use |-> q]
      OBVIOUS
    <2> QED
      BY <1>0, <1>1, <2>1 DEF P!ReceiveGoods, P!Idle
  <1>2. ASSUME NEW g \in Receipts, P!InsertReceipt(c, g) PROVE proc[c].op = "receiveGoods" /\ proc'[c].op = "receiveGoods"
    BY <1>2, WentOn DEF P!InsertReceipt
  <1>3. ASSUME P!SumReceipts(c) PROVE proc[c].op = "receiveGoods" /\ proc'[c].op \in {"none", "receiveGoods"}
    <2>1. proc[c].op = "receiveGoods"
      BY <1>0, <1>3 DEF P!SumReceipts, Holds, P!Idle, Handler
    <2> QED
      BY <1>3, <2>1, WentOn, Returned DEF P!SumReceipts
  <1>4. ASSUME P!CloseOrder(c) PROVE proc[c].op = "receiveGoods" /\ proc'[c].op = "none"
    BY <1>4, Returned DEF P!CloseOrder
  <1>5. {proc[c].op, proc'[c].op} \subseteq {"none", "receiveGoods"}
    BY <1>1, <1>2, <1>3, <1>4 DEF P!ReceiptStep
  <1>6. UNCHANGED <<request, converted, raced, rewritten>>
    BY DEF P!ReceiptStep, P!ReceiveGoods, P!InsertReceipt, P!SumReceipts, P!CloseOrder
  <1> QED
    BY <1>5, <1>6

\* Handlers that write the status of an order.
StatusStep(c) ==
  \/ P!WriteOrderStatus(c)
  \/ \E o \in Orders : P!ApprovePurchaseOrder(c, o) \/ P!RevertPurchaseOrderToDraft(c, o)

\* those that change the status of an order,
LEMMA StatusOps ==
  ASSUME Tables, NEW c \in Calls, StatusStep(c)
  PROVE  /\ {proc[c].op, proc'[c].op} \subseteq {"none", "approvePurchaseOrder", "revertPurchaseOrderToDraft"}
         /\ UNCHANGED <<request, receipt, converted, raced>> /\ rewritten \subseteq rewritten'
  <1>1. CASE P!WriteOrderStatus(c)
    BY <1>1, Returned DEF P!WriteOrderStatus
  <1>2. CASE \E o \in Orders : P!ApprovePurchaseOrder(c, o) \/ P!RevertPurchaseOrderToDraft(c, o)
    <2>1. PICK o \in Orders, op \in {"approvePurchaseOrder", "revertPurchaseOrderToDraft"} : P!BeginChange(c, op, order, o)
      BY <1>2 DEF P!ApprovePurchaseOrder, P!RevertPurchaseOrderToDraft
    <2> QED
      BY <2>1, Began DEF P!BeginChange
  <1> QED
    BY <1>1, <1>2 DEF StatusStep

\* Handlers that make an order.
MakingStep(c) ==
  \/ \E k \in Keys \cup {None}, s \in Suppliers, r \in Requests \cup {None} : P!CreatePurchaseOrder(c, k, s, r)
  \/ P!CheckSupplier(c) \/ P!CheckRequest(c) \/ P!ConvertRequest(c)
  \/ \E o \in Orders : P!InsertOrder(c, o)

\* and the one that makes it.
LEMMA MakingOps ==
  ASSUME Tables, NEW c \in Calls, MakingStep(c)
  PROVE  /\ {proc[c].op, proc'[c].op} \subseteq {"none", "createPurchaseOrder"}
         /\ UNCHANGED <<receipt, rewritten>>
  <1>0. proc \in [Calls -> Handler] /\ proc[c] \in Handler /\ Holds(proc[c])
    BY DEF Tables
  <1>1. ASSUME NEW k \in Keys \cup {None}, NEW s \in Suppliers, NEW r \in Requests \cup {None},
               P!CreatePurchaseOrder(c, k, s, r)
        PROVE  proc[c].op = "none" /\ proc'[c].op = "createPurchaseOrder"
    <2>1. PICK x : x = [op |-> "createPurchaseOrder", pc |-> "supplier", id |-> s, seen |-> [request |-> r], use |-> k]
      OBVIOUS
    <2> QED
      BY <1>0, <1>1, <2>1 DEF P!CreatePurchaseOrder, P!Idle
  <1>2. ASSUME P!CheckSupplier(c) \/ P!CheckRequest(c) \/ P!ConvertRequest(c) \/ \E o \in Orders : P!InsertOrder(c, o)
        PROVE  proc[c].op = "createPurchaseOrder" /\ proc'[c].op \in {"none", "createPurchaseOrder"}
    <2>1. proc[c].op = "createPurchaseOrder"
      BY <1>0, <1>2 DEF P!CheckSupplier, P!CheckRequest, P!ConvertRequest, P!InsertOrder, Holds, P!Idle, Handler
    <2>2. P!Return(c) \/ \E pc \in {"insert", "request", "convert"} : P!Goto(c, pc)
      BY <1>2 DEF P!CheckSupplier, P!CheckRequest, P!ConvertRequest, P!InsertOrder
    <2> QED
      BY <2>1, <2>2, WentOn, Returned
  <1>3. UNCHANGED <<receipt, rewritten>>
    BY DEF MakingStep, P!CreatePurchaseOrder, P!CheckSupplier, P!CheckRequest, P!ConvertRequest, P!InsertOrder
  <1> QED
    BY <1>1, <1>2, <1>3 DEF MakingStep

\* Orders have no other handlers.
LEMMA OrderKinds == ASSUME NEW c \in Calls, P!OrderStep(c) PROVE StatusStep(c) \/ MakingStep(c)
  BY DEF P!OrderStep, StatusStep, MakingStep

\* Nobody but the handler that converts a request makes an order of it.
Once(r) ==
  /\ \A c, d \in P!Converting(r) : c = d
  /\ converted[r] <= 1
  /\ \A c \in P!Converting(r) : proc[c].pc = "insert" => converted[r] = 0
  /\ request[r] # None /\ request[r].status = "APPROVED" /\ converted[r] # 0
       => \E c \in P!Converting(r) : proc[c].pc = "convert"

OnceInv == \A r \in Requests \ raced : Once(r)

\* Whether a handler converts a request.
Converts(x, r) == x.op = "createPurchaseOrder" /\ x.seen.request = r /\ x.pc \in {"insert", "convert"}

\* A step that touches neither the request nor who converts it.
LEMMA OnceStays ==
  ASSUME NEW c \in Calls, \A d \in Calls \ {c} : proc'[d] = proc[d], NEW r \in Requests, Once(r),
         ~Converts(proc[c], r), ~Converts(proc'[c], r),
         \/ request'[r] = request[r] /\ converted'[r] = converted[r]
         \/ converted'[r] = 0
         \/ request'[r].status # "APPROVED" /\ converted'[r] = converted[r]
  PROVE  Once(r)'
  <1>1. P!Converting(r)' = P!Converting(r) /\ \A d \in P!Converting(r) : proc'[d] = proc[d]
    BY DEF P!Converting, Converts
  <1> QED
    BY <1>1 DEF Once

\* Handlers of other tables.
LEMMA OnceElsewhere ==
  ASSUME Tables, Tables', OnceInv, NEW c \in Calls, Handles(c),
         P!SupplierStep(c) \/ P!ReceiptStep(c) \/ StatusStep(c)
  PROVE  OnceInv'
  <1>1. \A d \in Calls \ {c} : proc'[d] = proc[d]
    BY HandlerMoves
  <1>2. UNCHANGED <<request, converted>> /\ raced \subseteq raced' /\ proc[c].op # "createPurchaseOrder"
        /\ proc'[c].op # "createPurchaseOrder"
    BY SupplierOps, ReceiptOps, StatusOps
  <1> QED
    BY <1>1, <1>2, OnceStays DEF OnceInv, Converts

\* The handlers of requests convert none twice,
LEMMA OnceRequests ==
  ASSUME Tables, Tables', OnceInv, NEW c \in Calls, Handles(c), P!RequestStep(c)
  PROVE  OnceInv'
  <1>0. /\ \A d \in Calls \ {c} : proc'[d] = proc[d]
        /\ proc \in [Calls -> Handler] /\ proc[c] \in Handler /\ Holds(proc[c]) /\ proc'[c] \in Handler
        /\ request \in [Requests -> P!PurchaseRequest \cup {None}] /\ converted \in [Requests -> Nat]
    BY HandlerMoves DEF Tables
  <1>1. ASSUME NEW r \in Requests, P!CreatePurchaseRequest(c, r) PROVE OnceInv'
    <2>1. /\ UNCHANGED <<proc, converted, raced>> /\ \A q \in Requests \ {r} : request'[q] = request[q]
          /\ request'[r].status = "PENDING"
      BY <1>0, <1>1 DEF P!CreatePurchaseRequest
    <2>2. converted[r] \in Nat
      BY <1>0
    <2>3. ASSUME NEW q \in Requests \ raced' PROVE Once(q)'
      <3>1. P!Converting(q)' = P!Converting(q)
        BY <2>1 DEF P!Converting
      <3> QED
        BY <2>1, <3>1 DEF OnceInv, Once
    <2> QED
      BY <2>3 DEF OnceInv
  <1>2. ASSUME NEW r \in Requests, P!ApprovePurchaseRequest(c, r) \/ P!RejectPurchaseRequest(c, r) PROVE OnceInv'
    <2>0. PICK op \in {"approvePurchaseRequest", "rejectPurchaseRequest"} : P!BeginChange(c, op, request, r)
      BY <1>2 DEF P!ApprovePurchaseRequest, P!RejectPurchaseRequest
    <2>1. /\ UNCHANGED <<request, converted, raced>> /\ proc[c].op # "createPurchaseOrder"
          /\ proc'[c].op # "createPurchaseOrder"
      BY <2>0, Began DEF P!BeginChange
    <2> QED
      BY <1>0, <2>1, OnceStays DEF OnceInv, Converts
  <1>3. ASSUME P!WriteRequest(c) PROVE OnceInv'
    <2>1. /\ raced' = raced /\ proc[c].op # "createPurchaseOrder" /\ proc'[c].op # "createPurchaseOrder"
          /\ proc[c].id \in Requests /\ proc[c].seen \in P!PurchaseRequest
      <3>1. P!Return(c) /\ raced' = raced /\ proc[c].op \in {"approvePurchaseRequest", "rejectPurchaseRequest"}
        BY <1>3 DEF P!WriteRequest
      <3> QED
        BY <1>0, <3>1, Returned DEF Holds
    <2>2. \A r \in Requests : \/ request'[r] = request[r] /\ converted'[r] = converted[r]
                              \/ converted'[r] = 0
                              \/ request'[r].status # "APPROVED" /\ converted'[r] = converted[r]
      <3>1. CASE ~P!Has("updatePurchaseRequest")
        BY <1>3, <3>1 DEF P!WriteRequest
      <3>2. CASE P!Has("updatePurchaseRequest") /\ proc[c].op = "approvePurchaseRequest"
        <4>1. converted' = [converted EXCEPT ![proc[c].id] = 0]
              /\ \E row : request' = [request EXCEPT ![proc[c].id] = row]
          BY <1>3, <3>2 DEF P!WriteRequest
        <4> QED
          BY <1>0, <2>1, <4>1
      <3>3. CASE P!Has("updatePurchaseRequest") /\ proc[c].op # "approvePurchaseRequest"
        <4>1. /\ converted' = [converted EXCEPT ![proc[c].id] = @]
              /\ request' = [request EXCEPT ![proc[c].id] = [proc[c].seen EXCEPT !.status = "REJECTED"]]
          BY <1>3, <3>3 DEF P!WriteRequest
        <4>2. [proc[c].seen EXCEPT !.status = "REJECTED"].status = "REJECTED"
          BY <2>1 DEF P!PurchaseRequest
        <4> QED
          BY <1>0, <2>1, <4>1, <4>2
      <3> QED
        BY <3>1, <3>2, <3>3
    <2> QED
      BY <1>0, <2>1, <2>2, OnceStays DEF OnceInv, Converts
  <1> QED
    BY <1>1, <1>2, <1>3 DEF P!RequestStep

\* those of orders do not either,
LEMMA OnceOrders ==
  ASSUME Tables, Tables', OnceInv, NEW c \in Calls, Handles(c), P!OrderStep(c)
  PROVE  OnceInv'
  <1>0. /\ \A d \in Calls \ {c} : proc'[d] = proc[d]
        /\ proc \in [Calls -> Handler] /\ proc[c] \in Handler /\ Holds(proc[c]) /\ proc'[c] \in Handler /\ Finds(proc[c], request)
        /\ request \in [Requests -> P!PurchaseRequest \cup {None}] /\ converted \in [Requests -> Nat]
    BY HandlerMoves DEF Tables
  <1>a. proc[c].pc \in {"supplier", "request", "convert"} => proc[c].op = "createPurchaseOrder"
    BY <1>0 DEF Holds, P!Idle, Handler
  <1>b. PICK r : r = proc[c].seen.request
    OBVIOUS
  <1>c. \A q \in Requests : q # r => ~Converts(proc[c], q)
    BY <1>b DEF Converts
  <1>1. ASSUME NEW k \in Keys \cup {None}, NEW s \in Suppliers, NEW q \in Requests \cup {None}, P!CreatePurchaseOrder(c, k, s, q)
        PROVE  OnceInv'
    <2>0. PICK x : x = [op |-> "createPurchaseOrder", pc |-> "supplier", id |-> s, seen |-> [request |-> q], use |-> k]
      OBVIOUS
    <2>1. /\ UNCHANGED <<request, converted>> /\ raced \subseteq raced' /\ proc[c] = P!Idle
          /\ proc'[c].pc = "supplier"
      BY <1>0, <1>1, <2>0 DEF P!CreatePurchaseOrder
    <2> QED
      BY <1>0, <2>1, OnceStays DEF OnceInv, Converts, P!Idle
  <1>2. ASSUME P!CheckSupplier(c) PROVE OnceInv'
    <2>1. UNCHANGED <<request, converted, raced>> /\ proc[c].pc = "supplier"
      BY <1>2 DEF P!CheckSupplier
    <2>2. proc'[c].op = "none" \/ proc'[c].pc = "request" \/ proc'[c].seen.request = None
      <3>1. CASE P!Return(c)
        BY <3>1, Returned
      <3>2. CASE P!Goto(c, "request")
        BY <3>2, WentOn
      <3>3. CASE P!Goto(c, "insert") /\ proc[c].seen.request = None
        BY <3>3, WentOn
      <3> QED
        BY <1>2, <3>1, <3>2, <3>3 DEF P!CheckSupplier
    <2> QED
      BY <1>0, <2>1, <2>2, OnceStays, RowAssumption DEF OnceInv, Converts
  <1>3. ASSUME P!CheckRequest(c) PROVE OnceInv'
    <2>1. UNCHANGED <<request, converted>> /\ raced \subseteq raced' /\ proc[c].pc = "request"
      BY <1>3 DEF P!CheckRequest
    <2>2. CASE proc' = [proc EXCEPT ![c] = P!Idle]
      BY <1>0, <2>1, <2>2, OnceStays DEF OnceInv, Converts, P!Idle
    <2>3. CASE P!MayConvert(r) /\ P!Goto(c, "insert") /\ raced' = raced \cup {x \in {r} : P!Converting(x) # {}}
      <3>1. proc'[c].op = "createPurchaseOrder" /\ proc'[c].seen.request = r /\ proc'[c].pc = "insert"
        BY <1>a, <1>b, <2>1, <2>3, WentOn
      <3>2. ASSUME NEW q \in Requests \ raced', q # r PROVE Once(q)'
        BY <1>0, <1>c, <2>1, <3>1, <3>2, OnceStays DEF OnceInv, Converts
      <3>3. ASSUME r \in Requests \ raced' PROVE Once(r)'
        <4>1. P!Converting(r) = {} /\ Once(r)
          BY <2>1, <2>3, <3>3 DEF OnceInv
        <4>2. P!Converting(r)' = {c}
          BY <1>0, <3>1, <4>1 DEF P!Converting
        <4>3. converted[r] = 0
          BY <2>3, <4>1 DEF Once, P!MayConvert
        <4> QED
          BY <1>0, <2>1, <3>3, <4>2, <4>3 DEF Once
      <3> QED
        BY <3>2, <3>3 DEF OnceInv
    <2> QED
      BY <1>3, <1>b, <2>2, <2>3 DEF P!CheckRequest, P!Return
  <1>4. ASSUME NEW o \in Orders, P!InsertOrder(c, o) PROVE OnceInv'
    <2>1. /\ UNCHANGED <<request, raced>> /\ proc[c].pc = "insert" /\ proc[c].op = "createPurchaseOrder"
      BY <1>4 DEF P!InsertOrder
    <2>2. CASE r = None
      <3>1. proc'[c].op = "none" /\ converted' = converted
        BY <1>4, <1>b, <2>2, Returned DEF P!InsertOrder
      <3> QED
        BY <1>0, <1>c, <2>1, <2>2, <3>1, OnceStays, RowAssumption DEF OnceInv, Converts
    <2>3. CASE r # None
      <3>1. /\ proc'[c].op = "createPurchaseOrder" /\ proc'[c].seen.request = r /\ proc'[c].pc = "convert"
            /\ converted' = [converted EXCEPT ![r] = @ + 1]
        BY <1>4, <1>b, <2>1, <2>3, WentOn DEF P!InsertOrder
      <3>2. ASSUME NEW q \in Requests \ raced', q # r PROVE Once(q)'
        BY <1>0, <1>c, <2>1, <3>1, <3>2, OnceStays DEF OnceInv, Converts
      <3>3. ASSUME r \in Requests \ raced' PROVE Once(r)'
        <4>1. c \in P!Converting(r) /\ Once(r)
          BY <1>b, <2>1, <3>3 DEF OnceInv, P!Converting
        <4>2. P!Converting(r) = {c} /\ converted[r] = 0
          BY <2>1, <4>1 DEF Once
        <4>3. P!Converting(r)' = {c}
          BY <1>0, <3>1, <4>2 DEF P!Converting
        <4>4. converted'[r] = 1
          BY <1>0, <3>1, <3>3, <4>2
        <4> QED
          BY <3>1, <4>3, <4>4 DEF Once
      <3> QED
        BY <3>2, <3>3 DEF OnceInv
    <2> QED
      BY <2>2, <2>3
  <1>5. ASSUME P!ConvertRequest(c) PROVE OnceInv'
    <2>1. /\ converted' = converted /\ raced \subseteq raced' /\ proc'[c].op = "none" /\ proc[c].pc = "convert"
          /\ request' = [request EXCEPT ![r].status = "CONVERTED"]
      BY <1>5, <1>b, Returned DEF P!ConvertRequest
    <2>2. r \in Requests /\ request[r] # None /\ proc[c].op = "createPurchaseOrder"
      BY <1>0, <1>a, <1>b, <2>1 DEF Holds, Finds
    <2>3. request[r] \in P!PurchaseRequest
      BY <1>0, <2>2
    <2>4. request'[r].status = "CONVERTED" /\ \A q \in Requests \ {r} : request'[q] = request[q]
      BY <1>0, <2>1, <2>2, <2>3 DEF P!PurchaseRequest
    <2>5. ASSUME NEW q \in Requests \ raced', q # r PROVE Once(q)'
      BY <1>0, <1>c, <2>1, <2>4, <2>5, OnceStays DEF OnceInv, Converts
    <2>6. ASSUME r \in Requests \ raced' PROVE Once(r)'
      <3>1. c \in P!Converting(r) /\ Once(r)
        BY <1>b, <2>1, <2>2, <2>6 DEF OnceInv, P!Converting
      <3>2. P!Converting(r) = {c}
        BY <3>1 DEF Once
      <3>3. P!Converting(r)' = {}
        BY <1>0, <2>1, <3>2 DEF P!Converting
      <3> QED
        BY <2>1, <2>4, <3>1, <3>3 DEF Once
    <2> QED
      BY <2>5, <2>6 DEF OnceInv
  <1>6. ASSUME StatusStep(c) PROVE OnceInv'
    BY <1>6, OnceElsewhere
  <1> QED
    BY <1>1, <1>2, <1>3, <1>4, <1>5, <1>6, OrderKinds DEF MakingStep

\* and so no step does.
LEMMA OnceKept == ASSUME Tables, Tables', OnceInv, NEW c \in Calls, Handles(c) PROVE OnceInv'
  BY OnceElsewhere, OnceRequests, OnceOrders DEF Handles

\* The quantities received, by receipt and added up by order.
quantities == [g \in Receipts |-> IF receipt[g] = None THEN 0 ELSE receipt[g].quantity]

ReceiptsOf(o) == {g \in P!Rows(receipt) : receipt[g].order = o}

Got(o) == TotalOf(quantities, ReceiptsOf(o))

\* A handler that has yet to compare the receipts of an order with its quantity.
StillSums(c, o) == proc[c].op = "receiveGoods" /\ proc[c].id = o /\ proc[c].pc \in {"sum", "write"}

Arrived(o) ==
  /\ order[o].status = "RECEIVED" => Got(o) >= Ordered
  /\ order[o].status # "RECEIVED" /\ Got(o) >= Ordered => \E c \in Calls : StillSums(c, o)

ArrivedInv ==
  /\ IsFiniteSet(P!Rows(receipt))
  /\ \A g \in P!Rows(receipt) : order[receipt[g].order] # None
  /\ \A c \in Calls : proc[c].op = "receiveGoods" =>
       order[proc[c].id] # None /\ (proc[c].pc = "write" => Got(proc[c].id) >= Ordered)
  /\ \A o \in Orders \ rewritten : order[o] # None => Arrived(o)

\* Receipts are finitely many, of natural quantities.
LEMMA ReceiptsFinite ==
  ASSUME Tables, IsFiniteSet(P!Rows(receipt)), NEW o
  PROVE  /\ IsFiniteSet(ReceiptsOf(o)) /\ ReceiptsOf(o) \subseteq Receipts
         /\ \A g \in Receipts : quantities[g] \in Nat
         /\ Got(o) \in Nat
  <1>1. IsFiniteSet(ReceiptsOf(o)) /\ ReceiptsOf(o) \subseteq Receipts
    BY FS_Subset DEF ReceiptsOf, P!Rows, Tables
  <1>2. \A g \in Receipts : quantities[g] \in Nat
    BY OrderedAssumption DEF quantities, Tables, P!GoodsReceipt
  <1> QED
    BY <1>1, <1>2, TotalType DEF Got

\* What the handlers compute is that total.
LEMMA ReceivedIsTotal ==
  ASSUME Tables, IsFiniteSet(P!Rows(receipt)), NEW o
  PROVE  P!Received(o) = Got(o)
  <1> DEFINE f == quantities
             S == ReceiptsOf(o)
             Sums(it) == it = [s \in SUBSET S |-> IF s = {} THEN 0
                              ELSE receipt[CHOOSE e \in s : TRUE].quantity + it[s \ {CHOOSE e \in s : TRUE}]]
  <1>1. P!Received(o) = (CHOOSE it : Sums(it))[S]
    BY DEF P!Received, P!MapThenSumSet, P!MapThenFoldSet, ReceiptsOf
  <1>2. IsFiniteSet(S) /\ S \subseteq Receipts /\ \A x \in S : f[x] \in Nat /\ f[x] = receipt[x].quantity
    BY ReceiptsFinite DEF ReceiptsOf, P!Rows, quantities, Tables
  <1>3. ASSUME NEW it PROVE Adds(it, f, S) <=> Sums(it)
    <2>1. ASSUME NEW s \in SUBSET S, s # {} PROVE f[Chosen(s)] = receipt[CHOOSE e \in s : TRUE].quantity
      BY <1>2, <2>1 DEF Chosen
    <2> HIDE DEF f, S
    <2>2. [s \in SUBSET S |-> IF s = {} THEN 0 ELSE f[Chosen(s)] + it[s \ {Chosen(s)}]]
            = [s \in SUBSET S |-> IF s = {} THEN 0
                              ELSE receipt[CHOOSE e \in s : TRUE].quantity + it[s \ {CHOOSE e \in s : TRUE}]]
      BY <2>1 DEF Chosen
    <2> QED
      BY <2>2 DEF Adds
  <1>4. \E it : Sums(it)
    BY <1>2, <1>3, TotalsAdd
  <1> HIDE DEF Sums, S, f
  <1>5. Sums(CHOOSE it : Sums(it))
    BY <1>4
  <1>6. (CHOOSE it : Sums(it))[S] = TotalOf(f, S)
    BY <1>2, <1>3, <1>5, AddsUniquely
  <1> QED
    BY <1>1, <1>6 DEF Got, f, S

\* Rows of orders stay.
LEMMA OrdersStay ==
  ASSUME Tables, Tables', NEW c \in Calls, Handles(c), NEW o \in Orders, order[o] # None
  PROVE  order'[o] # None
  <1>1. CASE order'[o] = order[o]
    BY <1>1
  <1>2. CASE order'[o] # order[o]
    <2>0. /\ order \in [Orders -> P!PurchaseOrder \cup {None}] /\ Holds(proc[c]) /\ proc[c] \in Handler
          /\ \A x \in P!PurchaseOrder : x # None
      BY RowAssumption DEF Tables
    <2>1. P!WriteOrderStatus(c) \/ P!CloseOrder(c)
      <3>1. ~(P!SupplierStep(c) \/ P!RequestStep(c))
        BY <1>2, SupplierOps, RequestOps
      <3>2. ASSUME MakingStep(c) PROVE FALSE
        BY <1>2, <2>0, <3>2 DEF MakingStep, P!CreatePurchaseOrder, P!CheckSupplier, P!CheckRequest, P!ConvertRequest,
                                P!InsertOrder, P!Fresh
      <3>3. StatusStep(c) => P!WriteOrderStatus(c)
        BY <1>2 DEF StatusStep, P!ApprovePurchaseOrder, P!RevertPurchaseOrderToDraft, P!BeginChange
      <3>4. P!ReceiptStep(c) => P!CloseOrder(c)
        BY <1>2 DEF P!ReceiptStep, P!ReceiveGoods, P!InsertReceipt, P!SumReceipts
      <3> QED
        BY <3>1, <3>2, <3>3, <3>4, OrderKinds DEF Handles
    <2>2. proc[c].id \in Orders /\ proc[c].seen \in P!PurchaseOrder
      BY <2>0, <2>1 DEF P!WriteOrderStatus, P!CloseOrder, Holds
    <2>3. PICK s \in {"APPROVED", "DRAFT", "RECEIVED"} :
            order' = order \/ order' = [order EXCEPT ![proc[c].id] = [proc[c].seen EXCEPT !.status = s]]
      <3>1. CASE P!CloseOrder(c)
        BY <3>1 DEF P!CloseOrder
      <3>2. CASE P!WriteOrderStatus(c)
        BY <3>2 DEF P!WriteOrderStatus
      <3> QED
        BY <2>1, <3>1, <3>2
    <2>4. [proc[c].seen EXCEPT !.status = s] \in P!PurchaseOrder
      BY <2>2, <2>3 DEF P!PurchaseOrder
    <2> QED
      BY <2>0, <2>2, <2>3, <2>4
  <1> QED
    BY <1>1, <1>2

\* Steps that receive nothing.
LEMMA NothingArrives ==
  ASSUME Tables, Tables', ArrivedInv, NEW c \in Calls, Handles(c),
         P!SupplierStep(c) \/ P!RequestStep(c) \/ P!OrderStep(c)
  PROVE  ArrivedInv'
  <1>1. /\ receipt' = receipt /\ rewritten \subseteq rewritten'
        /\ proc[c].op # "receiveGoods" /\ proc'[c].op # "receiveGoods"
        /\ \A d \in Calls \ {c} : proc'[d] = proc[d]
    BY SupplierOps, RequestOps, OrderKinds, StatusOps, MakingOps, HandlerMoves
  <1>2. \A o : Got(o)' = Got(o) /\ ReceiptsOf(o)' = ReceiptsOf(o) /\ P!Rows(receipt)' = P!Rows(receipt)
    BY <1>1 DEF Got, quantities, ReceiptsOf, P!Rows
  <1>3. \A g \in P!Rows(receipt) : receipt[g].order \in Orders /\ order[receipt[g].order] # None
    BY DEF ArrivedInv, Tables, P!Rows, P!GoodsReceipt
  <1>4. \A d \in Calls : proc[d].op = "receiveGoods" => proc[d].id \in Orders /\ order[proc[d].id] # None
    BY DEF ArrivedInv, Tables, Holds
  <1>5. \A o \in Orders : order[o] # None => order'[o] # None
    BY OrdersStay
  <1>6. ASSUME NEW o \in Orders \ rewritten', order'[o] # None PROVE Arrived(o)'
    <2>1. CASE order'[o] = order[o]
      <3>1. Arrived(o)
        BY <1>1, <1>6, <2>1 DEF ArrivedInv
      <3>2. \A d \in Calls : StillSums(d, o) => StillSums(d, o)'
        BY <1>1 DEF StillSums
      <3> QED
        BY <1>2, <2>1, <3>1, <3>2 DEF Arrived
    <2>2. CASE order'[o] # order[o]
      <3>1. ReceiptsOf(o) = {} /\ order'[o].status # "RECEIVED"
        <4>1. CASE order[o] = None
          <5>1. order'[o].status # "RECEIVED"
            BY <1>1, <2>2, OrderWritten
          <5> QED
            BY <1>3, <4>1, <5>1 DEF ReceiptsOf
        <4>2. CASE order[o] # None
          <5>1. StatusStep(c) /\ proc[c].id = o /\ P!Has("updatePurchaseOrder") /\ P!WriteOrderStatus(c)
            <6>1. ~(P!SupplierStep(c) \/ P!RequestStep(c))
              BY <2>2, SupplierOps, RequestOps
            <6>2. ASSUME MakingStep(c) PROVE FALSE
              BY <2>2, <4>2, <6>2 DEF MakingStep, P!CreatePurchaseOrder, P!CheckSupplier, P!CheckRequest, P!ConvertRequest,
                                      P!InsertOrder, P!Fresh, Tables
            <6>3. StatusStep(c) /\ P!WriteOrderStatus(c)
              BY <2>2, <6>1, <6>2, OrderKinds DEF StatusStep, P!ApprovePurchaseOrder, P!RevertPurchaseOrderToDraft, P!BeginChange
            <6>4. P!Has("updatePurchaseOrder") /\ order' = [order EXCEPT ![proc[c].id] = [proc[c].seen EXCEPT !.status =
                    IF proc[c].op = "approvePurchaseOrder" THEN "APPROVED" ELSE "DRAFT"]]
              BY <2>2, <6>3 DEF P!WriteOrderStatus
            <6>5. order \in [Orders -> P!PurchaseOrder \cup {None}]
              BY DEF Tables
            <6> QED
              BY <2>2, <6>3, <6>4, <6>5
          <5>2. rewritten' = rewritten \cup {x \in {o} : \E g \in P!Rows(receipt) : receipt[g].order = x}
            BY <5>1 DEF P!WriteOrderStatus
          <5>3. driver = "memory"
            BY <5>1 DEF P!Has, P!MissingInPrisma, Tables
          <5>4. order'[o].status # "RECEIVED"
            BY <5>1, <5>3, StatusWritten
          <5> QED
            BY <1>6, <5>2, <5>4 DEF ReceiptsOf
        <4> QED
          BY <4>1, <4>2
      <3>2. Got(o) = 0
        BY <3>1, TotalOfNone DEF Got
      <3> QED
        BY <1>2, <3>1, <3>2, OrderedAssumption DEF Arrived
    <2> QED
      BY <2>1, <2>2
  <1>7. \A d \in Calls : proc'[d].op = "receiveGoods" => proc'[d] = proc[d]
    BY <1>1
  <1>8. IsFiniteSet(P!Rows(receipt)')
    BY <1>2 DEF ArrivedInv
  <1>9. \A g \in P!Rows(receipt)' : order'[receipt'[g].order] # None
    BY <1>1, <1>2, <1>3, <1>5
  <1>10. \A d \in Calls : proc'[d].op = "receiveGoods" =>
           order'[proc'[d].id] # None /\ (proc'[d].pc = "write" => Got(proc[d].id)' >= Ordered)
    <2> SUFFICES ASSUME NEW d \in Calls, proc'[d].op = "receiveGoods"
                 PROVE  order'[proc'[d].id] # None /\ (proc'[d].pc = "write" => Got(proc[d].id)' >= Ordered)
      OBVIOUS
    <2>1. PICK x : x = proc[d]
      OBVIOUS
    <2>2. x.op = "receiveGoods" /\ proc'[d] = x
      BY <1>7, <2>1
    <2>3. x.id \in Orders /\ order[x.id] # None /\ (x.pc = "write" => Got(x.id) >= Ordered)
      BY <1>4, <2>1, <2>2 DEF ArrivedInv
    <2>4. Got(x.id)' = Got(x.id)
      BY <1>1 DEF Got, quantities, ReceiptsOf, P!Rows
    <2> QED
      BY <1>5, <2>2, <2>3, <2>4
  <1> QED
    BY <1>6, <1>8, <1>9, <1>10 DEF ArrivedInv

\* Steps of receiveGoods that make no receipt and write no order.
LEMMA ReceivingGoesOn ==
  ASSUME Tables, Tables', ArrivedInv, NEW c \in Calls, Handles(c), UNCHANGED <<receipt, order, rewritten>>,
         proc'[c].op = "receiveGoods" =>
           order[proc'[c].id] # None /\ (proc'[c].pc = "write" => Got(proc'[c].id) >= Ordered),
         \A o \in Orders \ rewritten :
           StillSums(c, o) /\ order[o].status # "RECEIVED" /\ Got(o) >= Ordered => StillSums(c, o)'
  PROVE  ArrivedInv'
  <1>1. \A d \in Calls \ {c} : proc'[d] = proc[d]
    BY HandlerMoves
  <1>2. \A o : Got(o)' = Got(o) /\ P!Rows(receipt)' = P!Rows(receipt)
    BY DEF Got, quantities, ReceiptsOf, P!Rows
  <1>3. ASSUME NEW o \in Orders \ rewritten', order'[o] # None PROVE Arrived(o)'
    <2>1. Arrived(o)
      BY <1>3 DEF ArrivedInv
    <2>2. ASSUME NEW d \in Calls, StillSums(d, o), order[o].status # "RECEIVED", Got(o) >= Ordered PROVE StillSums(d, o)'
      BY <1>1, <1>3, <2>2 DEF StillSums
    <2> QED
      BY <1>2, <2>1, <2>2 DEF Arrived
  <1>4. ASSUME NEW d \in Calls, proc'[d].op = "receiveGoods"
        PROVE  order'[proc'[d].id] # None /\ (proc'[d].pc = "write" => Got(proc[d].id)' >= Ordered)
    <2>1. CASE d # c
      <3>1. proc'[d] = proc[d]
        BY <1>1, <2>1
      <3>2. Got(proc[d].id)' = Got(proc[d].id)
        <4>1. PICK x : x = proc[d].id
          OBVIOUS
        <4>2. proc'[d].id = x
          BY <3>1, <4>1
        <4> QED
          BY <1>2, <4>1, <4>2
      <3> QED
        BY <1>4, <3>1, <3>2 DEF ArrivedInv
    <2>2. CASE d = c
      <3>1. PICK x : x = proc'[c].id
        OBVIOUS
      <3>2. Got(x)' = Got(x)
        BY <1>2
      <3> QED
        BY <1>4, <2>2, <3>1, <3>2
    <2> QED
      BY <2>1, <2>2
  <1> QED
    BY <1>2, <1>3, <1>4 DEF ArrivedInv

\* Goods arrive,
LEMMA Comes ==
  ASSUME Tables, Tables', ArrivedInv, NEW c \in Calls, Handles(c), NEW o \in Orders, NEW q \in 1 .. Ordered,
         P!ReceiveGoods(c, o, q)
  PROVE  ArrivedInv'
  <1>1. PICK x : x = [op |-> "receiveGoods", pc |-> "insert", id |-> o, seen |-> order[o], use |-> q]
    OBVIOUS
  <1>2. proc'[c] = x /\ proc[c].op = "none" /\ order[o] # None
    BY <1>1 DEF P!ReceiveGoods, P!Idle, P!Rows, Tables
  <1>3. UNCHANGED <<receipt, order, rewritten>>
    BY DEF P!ReceiveGoods
  <1> QED
    BY <1>1, <1>2, <1>3, ReceivingGoesOn DEF StillSums

\* their receipts are summed,
LEMMA IsSummed ==
  ASSUME Tables, Tables', ArrivedInv, NEW c \in Calls, Handles(c), P!SumReceipts(c), driver = "memory"
  PROVE  ArrivedInv'
  <1>1. proc[c].op = "receiveGoods" /\ proc[c].pc = "sum" /\ proc[c].id \in Orders
    BY DEF P!SumReceipts, Tables, Holds, P!Idle, Handler
  <1>2. PICK o : o = proc[c].id
    OBVIOUS
  <1>3. P!Completes(c) <=> Got(o) >= Ordered
    BY <1>2, ReceivedIsTotal DEF P!Completes, ArrivedInv
  <1>4. UNCHANGED <<receipt, order, rewritten>>
    BY DEF P!SumReceipts
  <1>5. CASE Got(o) >= Ordered
    <2>1. P!Goto(c, "write")
      BY <1>3, <1>5 DEF P!SumReceipts, P!Has
    <2>2. proc'[c].op = "receiveGoods" /\ proc'[c].pc = "write" /\ proc'[c].id = o
      BY <1>1, <1>2, <2>1, WentOn
    <2>3. order[o] # None
      BY <1>1, <1>2 DEF ArrivedInv
    <2>4. \A p \in Orders \ rewritten : StillSums(c, p) => StillSums(c, p)'
      BY <1>2, <2>2 DEF StillSums
    <2> QED
      BY <1>4, <1>5, <2>2, <2>3, <2>4, ReceivingGoesOn
  <1>6. CASE ~(Got(o) >= Ordered)
    <2>1. P!Return(c)
      BY <1>3, <1>6 DEF P!SumReceipts
    <2>2. proc'[c].op = "none"
      BY <2>1, Returned
    <2>3. \A p \in Orders \ rewritten : StillSums(c, p) => p = o
      BY <1>2 DEF StillSums
    <2> QED
      BY <1>4, <1>6, <2>2, <2>3, ReceivingGoesOn
  <1> QED
    BY <1>5, <1>6

\* the order is closed,
LEMMA IsClosed ==
  ASSUME Tables, Tables', ArrivedInv, NEW c \in Calls, Handles(c), P!CloseOrder(c)
  PROVE  ArrivedInv'
  <1>1. /\ UNCHANGED <<receipt, rewritten>> /\ proc[c].op = "receiveGoods" /\ proc[c].pc = "write"
        /\ proc'[c].op = "none" /\ proc[c].id \in Orders /\ proc[c].seen \in P!PurchaseOrder
        /\ order' = [order EXCEPT ![proc[c].id] = [proc[c].seen EXCEPT !.status = "RECEIVED"]]
    BY Returned DEF P!CloseOrder, Tables, Holds
  <1>2. PICK p \in Orders : p = proc[c].id
    BY <1>1
  <1>3. [proc[c].seen EXCEPT !.status = "RECEIVED"].status = "RECEIVED"
    BY <1>1 DEF P!PurchaseOrder
  <1>4. order'[p].status = "RECEIVED" /\ \A o \in Orders \ {p} : order'[o] = order[o]
    BY <1>1, <1>2, <1>3 DEF Tables
  <1>5. \A d \in Calls \ {c} : proc'[d] = proc[d]
    BY HandlerMoves
  <1>6. \A o : Got(o)' = Got(o) /\ P!Rows(receipt)' = P!Rows(receipt)
    BY <1>1 DEF Got, quantities, ReceiptsOf, P!Rows
  <1>7. Got(p) >= Ordered
    BY <1>1, <1>2 DEF ArrivedInv
  <1>8. ASSUME NEW o \in Orders \ rewritten', order'[o] # None PROVE Arrived(o)'
    <2>1. CASE o = p
      BY <1>4, <1>6, <1>7, <2>1 DEF Arrived
    <2>2. CASE o # p
      <3>1. Arrived(o) /\ order'[o] = order[o]
        BY <1>1, <1>4, <1>8, <2>2 DEF ArrivedInv
      <3>2. \A d \in Calls : StillSums(d, o) => StillSums(d, o)'
        BY <1>2, <1>5, <2>2 DEF StillSums
      <3> QED
        BY <1>6, <3>1, <3>2 DEF Arrived
    <2> QED
      BY <2>1, <2>2
  <1>9. \A o \in Orders : order[o] # None => order'[o] # None
    BY OrdersStay
  <1>10. ASSUME NEW d \in Calls, proc'[d].op = "receiveGoods"
         PROVE  order'[proc'[d].id] # None /\ (proc'[d].pc = "write" => Got(proc[d].id)' >= Ordered)
    <2>1. proc'[d] = proc[d]
      BY <1>1, <1>5, <1>10
    <2>2. PICK x : x = proc[d].id
      OBVIOUS
    <2>3. proc'[d].id = x /\ Got(x)' = Got(x)
      BY <1>6, <2>1, <2>2
    <2>4. x \in Orders /\ order[x] # None /\ (proc[d].pc = "write" => Got(x) >= Ordered)
      BY <1>10, <2>1, <2>2 DEF ArrivedInv, Tables, Holds
    <2> QED
      BY <1>9, <2>1, <2>2, <2>3, <2>4
  <1>11. \A g \in P!Rows(receipt) : receipt[g].order \in Orders /\ order[receipt[g].order] # None
    BY DEF ArrivedInv, Tables, P!Rows, P!GoodsReceipt
  <1>12. \A g \in P!Rows(receipt)' : order'[receipt'[g].order] # None
    BY <1>1, <1>6, <1>9, <1>11
  <1> QED
    BY <1>6, <1>8, <1>10, <1>12 DEF ArrivedInv

\* and the receipt was written: none of these loses a quantity.
LEMMA IsRecorded ==
  ASSUME Tables, Tables', ArrivedInv, NEW c \in Calls, Handles(c), NEW g \in Receipts, P!InsertReceipt(c, g)
  PROVE  ArrivedInv'
  <1> DEFINE row == [order |-> proc[c].id, quantity |-> proc[c].use]
  <1>0. PICK r : r = row
    OBVIOUS
  <1>1. /\ UNCHANGED <<order, rewritten>> /\ proc[c].op = "receiveGoods" /\ P!Goto(c, "sum")
        /\ receipt' = [receipt EXCEPT ![g] = r] /\ receipt[g] = None
        /\ proc[c].id \in Orders /\ proc[c].use \in 1 .. Ordered
        /\ receipt \in [Receipts -> P!GoodsReceipt \cup {None}]
    BY <1>0 DEF P!InsertReceipt, P!Fresh, Tables, Holds
  <1>2. PICK p \in Orders : p = proc[c].id
    BY <1>1
  <1>3. r.order = p /\ r.quantity \in 1 .. Ordered /\ r # None
    <2>1. row.order = proc[c].id /\ row.quantity = proc[c].use
      OBVIOUS
    <2>2. r.order = proc[c].id /\ r.quantity = proc[c].use
      BY <1>0, <2>1
    <2>3. r \in P!GoodsReceipt
      BY <1>0, <1>1 DEF P!GoodsReceipt
    <2>4. r # None
      BY <2>3, RowAssumption
    <2> QED
      BY <1>1, <1>2, <2>2, <2>4
  <1> HIDE DEF row
  <1>4. /\ receipt'[g] = r /\ \A h \in Receipts \ {g} : receipt'[h] = receipt[h]
        /\ P!Rows(receipt)' = P!Rows(receipt) \cup {g} /\ g \notin P!Rows(receipt)
    BY <1>1, <1>3 DEF P!Rows
  <1>5. /\ proc'[c].op = "receiveGoods" /\ proc'[c].pc = "sum" /\ proc'[c].id = p
    BY <1>1, <1>2, WentOn
  <1>6. \A d \in Calls \ {c} : proc'[d] = proc[d]
    BY HandlerMoves
  <1>7. IsFiniteSet(P!Rows(receipt)')
    BY <1>4, FS_AddElement DEF ArrivedInv
  <1>8. quantities'[g] = r.quantity /\ \A h \in Receipts \ {g} : quantities'[h] = quantities[h]
    BY <1>3, <1>4 DEF quantities
  <1>9. ASSUME NEW o PROVE Got(o) \in Nat /\ Got(o)' \in Nat /\ Got(o)' >= Got(o) /\ (o # p => Got(o)' = Got(o))
    <2>1. /\ IsFiniteSet(ReceiptsOf(o)) /\ ReceiptsOf(o) \subseteq Receipts
          /\ \A h \in Receipts : quantities[h] \in Nat
          /\ Got(o) \in Nat
      BY ReceiptsFinite DEF ArrivedInv
    <2>2. g \notin ReceiptsOf(o) /\ \A h \in ReceiptsOf(o) : quantities'[h] = quantities[h] /\ quantities'[h] \in Nat
      BY <1>4, <1>8, <2>1 DEF ReceiptsOf
    <2>3. TotalOf(quantities', ReceiptsOf(o)) = Got(o)
      BY <2>2, TotalSame DEF Got
    <2>4. CASE o = p
      <3>1. ReceiptsOf(o)' = ReceiptsOf(o) \cup {g}
        <4>1. ASSUME NEW h, h # g PROVE h \in ReceiptsOf(o)' <=> h \in ReceiptsOf(o)
          BY <1>1, <1>4, <4>1 DEF ReceiptsOf, P!Rows
        <4>2. g \in ReceiptsOf(o)'
          BY <1>3, <1>4, <2>4 DEF ReceiptsOf
        <4> QED
          BY <4>1, <4>2
      <3>2. quantities'[g] \in Nat
        BY <1>3, <1>8, OrderedAssumption
      <3>3. TotalOf(quantities', ReceiptsOf(o) \cup {g}) = quantities'[g] + TotalOf(quantities', ReceiptsOf(o))
        BY <2>1, <2>2, <3>2, TotalWith
      <3> QED
        BY <2>1, <2>3, <2>4, <3>1, <3>2, <3>3 DEF Got
    <2>5. CASE o # p
      <3>1. ReceiptsOf(o)' = ReceiptsOf(o)
        <4>1. ASSUME NEW h, h # g PROVE h \in ReceiptsOf(o)' <=> h \in ReceiptsOf(o)
          BY <1>1, <1>4, <4>1 DEF ReceiptsOf, P!Rows
        <4>2. g \notin ReceiptsOf(o)' /\ g \notin ReceiptsOf(o)
          BY <1>3, <1>4, <2>5 DEF ReceiptsOf
        <4> QED
          BY <4>1, <4>2
      <3> QED
        BY <2>1, <2>3, <3>1 DEF Got
    <2> QED
      BY <2>4, <2>5
  <1>10. ASSUME NEW o \in Orders \ rewritten', order'[o] # None PROVE Arrived(o)'
    <2>1. Arrived(o)
      BY <1>1, <1>10 DEF ArrivedInv
    <2>2. Got(o) \in Nat /\ Got(o)' >= Got(o) /\ (o # p => Got(o)' = Got(o)) /\ Got(o)' \in Nat
      BY <1>9
    <2>3. \A d \in Calls : StillSums(d, o) => StillSums(d, o)'
      BY <1>2, <1>5, <1>6 DEF StillSums
    <2>4. o = p => StillSums(c, o)'
      BY <1>5 DEF StillSums
    <2>5. PICK n, m \in Nat : n = Got(o) /\ m = Got(o)'
      BY <2>2
    <2>6. m >= n /\ (o # p => m = n)
      BY <2>2, <2>5
    <2>7. order'[o] = order[o]
      BY <1>1
    <2>8. order'[o].status = "RECEIVED" => m >= Ordered
      BY <2>1, <2>5, <2>6, <2>7, OrderedAssumption DEF Arrived
    <2>9. order'[o].status # "RECEIVED" /\ m >= Ordered => \E d \in Calls : StillSums(d, o)'
      BY <2>1, <2>3, <2>4, <2>5, <2>6, <2>7 DEF Arrived
    <2> QED
      BY <2>5, <2>8, <2>9 DEF Arrived
  <1>11. ASSUME NEW d \in Calls, proc'[d].op = "receiveGoods"
         PROVE  order'[proc'[d].id] # None /\ (proc'[d].pc = "write" => Got(proc[d].id)' >= Ordered)
    <2>1. CASE d = c
      BY <1>1, <1>2, <1>5, <2>1 DEF ArrivedInv
    <2>2. CASE d # c
      <3>1. proc'[d] = proc[d]
        BY <1>6, <2>2
      <3>2. PICK x : x = proc[d].id
        OBVIOUS
      <3>3. proc'[d].id = x
        BY <3>1, <3>2
      <3>4. x \in Orders /\ order[x] # None /\ (proc[d].pc = "write" => Got(x) >= Ordered)
        BY <1>11, <3>1, <3>2 DEF ArrivedInv, Tables, Holds
      <3>5. PICK n, m \in Nat : n = Got(x) /\ m = Got(x)'
        BY <1>9
      <3>6. m >= n
        BY <1>9, <3>5
      <3>7. proc'[d].pc = "write" => m >= Ordered
        BY <3>1, <3>4, <3>5, <3>6, OrderedAssumption
      <3> QED
        BY <1>1, <3>3, <3>4, <3>5, <3>7
    <2> QED
      BY <2>1, <2>2
  <1>12. \A h \in P!Rows(receipt)' : order'[receipt'[h].order] # None
    <2>1. order[p] # None
      BY <1>1, <1>2 DEF ArrivedInv
    <2>2. ASSUME NEW h \in P!Rows(receipt), h # g PROVE order[receipt'[h].order] # None
      BY <1>4, <2>2 DEF ArrivedInv, P!Rows, Tables
    <2> QED
      BY <1>1, <1>3, <1>4, <2>1, <2>2
  <1> QED
    BY <1>7, <1>10, <1>11, <1>12 DEF ArrivedInv

\* Every step of procurement keeps what is known of arrivals,
LEMMA ArrivedKept ==
  ASSUME Tables, Tables', ArrivedInv, NEW c \in Calls, Handles(c),
         \/ P!SupplierStep(c) \/ P!RequestStep(c) \/ P!OrderStep(c)
         \/ P!ReceiptStep(c) /\ driver = "memory"
  PROVE  ArrivedInv'
  <1>1. CASE P!SupplierStep(c) \/ P!RequestStep(c) \/ P!OrderStep(c)
    BY <1>1, NothingArrives
  <1>2. CASE P!ReceiptStep(c) /\ driver = "memory"
    BY <1>2, Comes, IsRecorded, IsSummed, IsClosed DEF P!ReceiptStep
  <1> QED
    BY <1>1, <1>2

\* What the invariants say once the handlers are through.
LEMMA OrdersShow == Tables /\ OnceInv /\ ArrivedInv => OrdersMatchApprovals
  <1> SUFFICES ASSUME Tables, OnceInv, ArrivedInv PROVE OrdersMatchApprovals
    OBVIOUS
  <1>1. P!TypeOK
    BY DEF Tables, P!TypeOK, Handler
  <1>2. P!OneOrderPerApproval
    BY DEF P!OneOrderPerApproval, OnceInv, Once
  <1>3. ASSUME NEW o \in P!Rows(order) \ rewritten, \A c \in Calls : proc[c].id # o \/ proc[c].op # "receiveGoods"
        PROVE  order[o].status = "RECEIVED" <=> P!Received(o) >= Ordered
    <2>1. o \in Orders /\ order[o] # None
      BY <1>3 DEF P!Rows, Tables
    <2>2. Arrived(o)
      BY <1>3, <2>1 DEF ArrivedInv
    <2>3. ~\E c \in Calls : StillSums(c, o)
      BY <1>3 DEF StillSums
    <2> QED
      BY <2>2, <2>3, ReceivedIsTotal DEF ArrivedInv, Arrived
  <1> QED
    BY <1>1, <1>2, <1>3 DEF OrdersMatchApprovals, P!ClosedWhenReceived

\* A workflow has one handler of Procurement take a step, or none.
LEMMA WorkflowOrders ==
  ASSUME WorkflowInv, NEW w \in Workflows, WorkflowStep(w)
  PROVE  UNCHANGED <<procurementVars>> \/ P!OrderStep(w)
  <1>1. CASE ApproveOrder(w)
    <2>1. PICK o : o = wf[w].order
      OBVIOUS
    <2>2. o \in Orders
      BY <1>1, <2>1 DEF WorkflowInv, Busy, ApproveOrder, At
    <2>3. P!ApprovePurchaseOrder(w, o)
      BY <1>1, <2>1 DEF ApproveOrder, P!ApprovePurchaseOrder, P!BeginChange
    <2> QED
      BY <2>2, <2>3 DEF P!OrderStep
  <1>2. CASE OrderApproved(w)
    BY <1>2 DEF OrderApproved, P!OrderStep
  <1>3. CASE RevertOrder(w)
    <2>1. CASE P!WriteOrderStatus(w)
      BY <2>1 DEF P!OrderStep
    <2>2. CASE At(w, "revert") /\ P!RevertPurchaseOrderToDraft(w, wf[w].order)
      <3>1. PICK o : o = wf[w].order
        OBVIOUS
      <3>2. o \in Orders
        BY <2>2, <3>1 DEF WorkflowInv, Busy, At
      <3>3. P!RevertPurchaseOrderToDraft(w, o)
        BY <2>2, <3>1 DEF P!RevertPurchaseOrderToDraft, P!BeginChange
      <3> QED
        BY <3>2, <3>3 DEF P!OrderStep
    <2> QED
      BY <1>3, <2>1, <2>2 DEF RevertOrder
  <1> QED
    BY <1>1, <1>2, <1>3, WorkflowHandles

\* Procurement on its own, as far as the repository it runs on has the receipts of an order.
ProcurementInv == Tables /\ OnceInv /\ ArrivedInv

\* as does a step of somebody else.
LEMMA ProcurementStays == ProcurementInv /\ UNCHANGED procurementVars => ProcurementInv'
  BY DEF ProcurementInv, procurementVars, Tables, Holds, Finds, OnceInv, Once, P!Converting, ArrivedInv, Arrived,
         StillSums, Got, quantities, ReceiptsOf, P!Rows

\* So procurement keeps its invariant.
LEMMA ProcurementKept ==
  ASSUME ProcurementInv, NEW c \in Calls,
         \/ P!SupplierStep(c) \/ P!RequestStep(c) \/ P!OrderStep(c)
         \/ P!ReceiptStep(c) /\ driver = "memory"
  PROVE  ProcurementInv'
  <1>1. Handles(c)
    BY DEF Handles
  <1>2. Tables'
    BY <1>1, TablesKept DEF ProcurementInv
  <1> QED
    BY <1>1, <1>2, OnceKept, ArrivedKept DEF ProcurementInv

\* Handlers at rest, and no rows but orders that are drafts.
Opening ==
  /\ Init
  /\ driver \in {"memory", "prisma"}
  /\ supplier \in [Suppliers -> P!Supplier \cup {None}]
  /\ request = [r \in Requests |-> None]
  /\ order \in [Orders -> {x \in P!PurchaseOrder : x.status = "DRAFT"} \cup {None}]
  /\ receipt = [g \in Receipts |-> None]
  /\ proc = [c \in Calls |-> P!Idle]
  /\ converted = [r \in Requests |-> 0]
  /\ wf = [w \in Workflows |-> NotStarted]
  /\ raced = {} /\ rewritten = {} /\ byHand = {}

\* An opening state satisfies both invariants.
LEMMA OpensWell == Opening => FundedInv /\ ProcurementInv
  <1> SUFFICES ASSUME Opening PROVE FundedInv /\ ProcurementInv
    OBVIOUS
  <1>1. FundInv
    BY FundsStart DEF Opening
  <1>2. Tables
    <2>1. \A c \in Calls : proc[c] = P!Idle
      BY DEF Opening
    <2>2. proc \in [Calls -> Handler]
      BY IdleHandler DEF Opening
    <2>3. \A c \in Calls : Holds(proc[c]) /\ Finds(proc[c], request)
      BY <2>1, IdleHandler DEF Finds, P!Idle
    <2> QED
      BY <2>2, <2>3 DEF Opening, Tables
  <1>3. WorkflowInv
    <2>1. NotStarted \in Run
      BY DEF NotStarted, Run, WorkflowPcs
    <2>2. \A w \in Workflows : proc[w] = P!Idle /\ fin[w] = Idle /\ wf[w].pc = "idle"
      BY Apart DEF Opening, Init, NotStarted
    <2> QED
      BY <1>1, <1>2, <2>1, <2>2 DEF WorkflowInv, Busy, Idle, Opening
  <1>4. FundedInv
    BY <1>3, Apart DEF FundedInv, Opening, P!Idle
  <1>5. OnceInv
    BY DEF OnceInv, Once, P!Converting, Opening, P!Idle
  <1>6. ArrivedInv
    <2>1. P!Rows(receipt) = {}
      BY DEF P!Rows, Opening
    <2>2. \A o : Got(o) = 0
      BY <2>1, TotalOfNone DEF Got, ReceiptsOf
    <2>3. \A o \in Orders : order[o] # None => Arrived(o)
      BY <2>2, OrderedAssumption DEF Opening, Arrived
    <2>4. IsFiniteSet(P!Rows(receipt))
      BY <2>1, FS_EmptySet
    <2> QED
      BY <2>1, <2>3, <2>4 DEF ArrivedInv, Opening, P!Idle
  <1> QED
    BY <1>2, <1>4, <1>5, <1>6 DEF ProcurementInv

\* The repository a deployment runs on does not change.
LEMMA DriverStays == ASSUME Tables, NEW c \in Calls, Handles(c) PROVE driver' = driver
  <1>1. CASE P!SupplierStep(c)
    BY <1>1 DEF P!SupplierStep, P!CreateSupplier, P!InsertSupplier, P!VerifySupplier, P!WriteSupplier, P!BeginChange
  <1>2. CASE P!RequestStep(c)
    BY <1>2 DEF P!RequestStep, P!CreatePurchaseRequest, P!ApprovePurchaseRequest, P!RejectPurchaseRequest, P!WriteRequest,
                P!BeginChange
  <1>3. CASE P!OrderStep(c)
    BY <1>3 DEF P!OrderStep, P!CreatePurchaseOrder, P!CheckSupplier, P!CheckRequest, P!ConvertRequest, P!InsertOrder,
                P!ApprovePurchaseOrder, P!RevertPurchaseOrderToDraft, P!WriteOrderStatus, P!BeginChange
  <1>4. CASE P!ReceiptStep(c)
    BY <1>4 DEF P!ReceiptStep, P!ReceiveGoods, P!InsertReceipt, P!SumReceipts, P!CloseOrder
  <1> QED
    BY <1>1, <1>2, <1>3, <1>4 DEF Handles

\* Procurement by itself: one approval gives one order, races over the request aside, and
\* with the repository that knows the receipts of an order, the order is RECEIVED exactly if
\* they make its quantity up (procurement.service.ts:186-353).
THEOREM ProcurementInvariant ==
  P!Spec => [](P!OneOrderPerApproval /\ (driver = "memory" => P!ClosedWhenReceived))
  <1> DEFINE Inv == Tables /\ OnceInv /\ (driver = "memory" => ArrivedInv)
  <1>1. P!Init => Inv
    <2> SUFFICES ASSUME P!Init PROVE Inv
      OBVIOUS
    <2>1. Tables
      <3>1. \A c \in Calls : proc[c] = P!Idle
        BY DEF P!Init
      <3>2. proc \in [Calls -> Handler]
        BY IdleHandler DEF P!Init
      <3>3. \A c \in Calls : Holds(proc[c]) /\ Finds(proc[c], request)
        BY <3>1, IdleHandler DEF Finds, P!Idle
      <3> QED
        BY <3>2, <3>3 DEF P!Init, Tables
    <2>2. OnceInv
      BY DEF OnceInv, Once, P!Converting, P!Init, P!Idle
    <2>3. P!Rows(receipt) = {} /\ \A o \in Orders : order[o] = None
      BY DEF P!Rows, P!Init
    <2>4. ArrivedInv
      BY <2>3, FS_EmptySet DEF ArrivedInv, P!Init, P!Idle
    <2> QED
      BY <2>1, <2>2, <2>4
  <1>2. Inv /\ [P!Next]_(P!pvars) => Inv'
    <2>1. ASSUME Inv, NEW c \in Calls, Handles(c) PROVE Inv'
      <3>1. Tables' /\ OnceInv' /\ driver' = driver
        BY <2>1, TablesKept, OnceKept, DriverStays
      <3> QED
        BY <2>1, <3>1, ArrivedKept DEF Handles
    <2>2. ASSUME Inv, UNCHANGED P!pvars PROVE Inv'
      BY <2>2 DEF P!pvars, Tables, Holds, Finds, OnceInv, Once, P!Converting, ArrivedInv, Arrived,
                  StillSums, Got, quantities, ReceiptsOf, P!Rows
    <2> QED
      BY <2>1, <2>2 DEF P!Next, Handles
  <1>3. Inv => P!OneOrderPerApproval
    BY DEF P!OneOrderPerApproval, OnceInv, Once
  <1>4. Inv => (driver = "memory" => P!ClosedWhenReceived)
    BY OrdersShow DEF OrdersMatchApprovals
  <1> QED
    BY <1>1, <1>2, <1>3, <1>4, PTL DEF P!Spec

\* Whatever workflows race for an order or for its budget, an order no client approved is
\* APPROVED only if budget was allocated for it (purchase-approval.service.ts:52-257).
THEOREM ApprovalsAreFunded == PurchaseSpec => []ApprovedIsFunded
  <1>1. PurchaseInit => FundedInv
    <2>1. PurchaseInit => Opening
      BY DEF PurchaseInit, P!Init, Opening
    <2> QED
      BY <2>1, OpensWell
  <1>2. [PurchaseNext]_purchaseVars => PurchaseMove
    <2>1. ASSUME NEW c \in Clients,
                 ProcurementStep(P!SupplierStep(c) \/ P!RequestStep(c) \/ P!OrderStep(c) \/ P!ReceiptStep(c))
          PROVE  ClientHandles(c)
      BY <2>1 DEF ProcurementStep, ClientHandles, Handles
    <2> QED
      BY <2>1 DEF PurchaseNext, PurchaseMove
  <1> QED
    BY <1>1, <1>2, FundedKept, FundedShows, PTL DEF PurchaseSpec

PurchasingInv ==
  /\ FundedInv
  /\ ProcurementInv
  /\ scene = "receiving" => driver = "memory"

\* The scenes of purchasing start well,
LEMMA PurchasingStarts == MCInit => PurchasingInv
  <1> SUFFICES ASSUME MCInit PROVE PurchasingInv
    OBVIOUS
  <1>1. PurchasingInit
    BY DEF MCInit
  <1>2. CASE scene = "sourcing"
    <2>1. Opening
      BY <1>1, <1>2 DEF PurchasingInit, Opening, NoRows
    <2> QED
      BY <1>2, <2>1, OpensWell DEF PurchasingInv
  <1>3. CASE scene # "sourcing"
    <2>1. driver = "memory" /\ supplier = Known /\ order = OneOpen
      BY <1>1, <1>3 DEF PurchasingInit
    <2>2. Known \in [Suppliers -> P!Supplier \cup {None}]
      BY SceneAssumption DEF Known, P!Supplier
    <2>3. Open \in {x \in P!PurchaseOrder : x.status = "DRAFT"}
      BY SceneAssumption DEF Open, P!PurchaseOrder
    <2>4. OneOpen \in [Orders -> {x \in P!PurchaseOrder : x.status = "DRAFT"} \cup {None}]
      BY <2>3 DEF OneOpen
    <2>5. Opening
      BY <1>1, <2>1, <2>2, <2>4 DEF PurchasingInit, Opening, NoRows
    <2> QED
      BY <2>1, <2>5, OpensWell DEF PurchasingInv
  <1> QED
    BY <1>2, <1>3

\* Every step of a scene is one of purchasing, or leaves it alone.
LEMMA SceneMoves ==
  ASSUME [MCNext]_<<purchaseVars, scene, slots>>
  PROVE  /\ scene' = scene
         /\ \/ UNCHANGED purchaseVars
            \/ \E w \in Workflows : WorkflowStep(w)
            \/ FinanceStep
            \/ \E c \in Clients : /\ ClientHandles(c)
                                  /\ \/ P!SupplierStep(c) \/ P!RequestStep(c) \/ P!OrderStep(c)
                                     \/ P!ReceiptStep(c) /\ scene = "receiving"
  <1> DEFINE Handled == \E c \in Clients : /\ ClientHandles(c)
                                           /\ \/ P!SupplierStep(c) \/ P!RequestStep(c) \/ P!OrderStep(c)
                                              \/ P!ReceiptStep(c) /\ scene = "receiving"
  <1>1. CASE UNCHANGED <<purchaseVars, scene, slots>>
    BY <1>1
  <1>2. CASE MCNext /\ ~PurchasingNext
    BY <1>2 DEF MCNext
  <1>3. CASE MCNext /\ PurchasingNext
    <2>1. ASSUME Sourcing PROVE Handled
      BY <2>1 DEF Sourcing, ProcurementStep, ClientHandles, Handles
    <2>2. ASSUME Receiving, scene = "receiving" PROVE Handled
      <3>1. PICK c \in Clients : ProcurementStep(
               \/ P!ReceiptStep(c) \/ P!WriteOrderStatus(c)
               \/ \E o \in Orders : P!ApprovePurchaseOrder(c, o) \/ P!RevertPurchaseOrderToDraft(c, o))
        BY <2>2 DEF Receiving
      <3>2. P!ReceiptStep(c) \/ P!OrderStep(c)
        BY <3>1 DEF ProcurementStep, P!OrderStep
      <3>3. ClientHandles(c)
        BY <3>1, <3>2 DEF ProcurementStep, ClientHandles, Handles
      <3> QED
        BY <2>2, <3>2, <3>3
    <2>3. ASSUME NEW c \in Clients,
                 ProcurementStep(P!WriteOrderStatus(c) \/ \E o \in Orders : P!ApprovePurchaseOrder(c, o))
          PROVE  Handled
      <3>1. P!OrderStep(c)
        BY <2>3 DEF ProcurementStep, P!OrderStep
      <3>2. ClientHandles(c)
        BY <2>3, <3>1 DEF ProcurementStep, ClientHandles, Handles
      <3> QED
        BY <3>1, <3>2
    <2>4. scene' = scene
      BY <1>3 DEF MCNext
    <2> HIDE DEF Handled
    <2>5. ASSUME Approval PROVE Handled \/ FinanceStep \/ \E w \in Workflows : WorkflowStep(w)
      BY <2>3, <2>5 DEF Approval
    <2>6. Handled \/ FinanceStep \/ \E w \in Workflows : WorkflowStep(w)
      BY <1>3, <2>1, <2>2, <2>5 DEF PurchasingNext
    <2> QED
      BY <2>4, <2>6 DEF Handled
  <1> QED
    BY <1>1, <1>2, <1>3

\* and every step of any scene keeps them so.
LEMMA PurchasingKept == PurchasingInv /\ [MCNext]_<<purchaseVars, scene, slots>> => PurchasingInv'
  <1> SUFFICES ASSUME PurchasingInv, [MCNext]_<<purchaseVars, scene, slots>> PROVE PurchasingInv'
    OBVIOUS
  <1>1. PurchaseMove /\ scene' = scene
    BY SceneMoves DEF PurchaseMove
  <1>2. FundedInv'
    BY <1>1, FundedKept DEF PurchasingInv
  <1>3. UNCHANGED procurementVars \/ \E c \in Calls :
          /\ driver' = driver
          /\ \/ P!SupplierStep(c) \/ P!RequestStep(c) \/ P!OrderStep(c)
             \/ P!ReceiptStep(c) /\ driver = "memory"
    <2>1. ASSUME NEW w \in Workflows, WorkflowStep(w)
          PROVE  UNCHANGED procurementVars \/ \E c \in Calls : driver' = driver /\ P!OrderStep(c)
      <3>1. UNCHANGED procurementVars \/ P!OrderStep(w)
        BY <2>1, WorkflowOrders DEF PurchasingInv, FundedInv
      <3>2. w \in Calls
        BY Apart
      <3>3. P!OrderStep(w) => driver' = driver
        BY <3>2, DriverStays DEF Handles, PurchasingInv, ProcurementInv
      <3> QED
        BY <3>1, <3>2, <3>3
    <2>2. ASSUME NEW c \in Clients, ClientHandles(c) PROVE driver' = driver /\ c \in Calls
      BY <2>2, Apart, DriverStays DEF ClientHandles, PurchasingInv, ProcurementInv
    <2>3. UNCHANGED purchaseVars \/ FinanceStep => UNCHANGED procurementVars
      BY DEF purchaseVars, FinanceStep
    <2> QED
      BY <2>1, <2>2, <2>3, SceneMoves DEF PurchasingInv
  <1>4. ProcurementInv' /\ driver' = driver
    <2>1. CASE UNCHANGED procurementVars
      BY <2>1, ProcurementStays DEF PurchasingInv, procurementVars
    <2>2. ASSUME NEW c \in Calls, driver' = driver,
                 \/ P!SupplierStep(c) \/ P!RequestStep(c) \/ P!OrderStep(c)
                 \/ P!ReceiptStep(c) /\ driver = "memory"
          PROVE ProcurementInv' /\ driver' = driver
      BY <2>2, ProcurementKept DEF PurchasingInv
    <2> QED
      BY <1>3, <2>1, <2>2
  <1> QED
    BY <1>1, <1>2, <1>4 DEF PurchasingInv

\* In every scene,
LEMMA PurchasesHold == MCSpec => []PurchasingInv
  BY PurchasingStarts, PurchasingKept, PTL DEF MCSpec

\* an approved request gives one order, races over the request aside, and an order is
\* RECEIVED exactly if its receipts make its quantity up (procurement.service.ts:186-353),
THEOREM OrdersAlwaysMatch == MCSpec => []OrdersMatchApprovals
  <1>1. PurchasingInv => OrdersMatchApprovals
    BY OrdersShow DEF PurchasingInv, ProcurementInv
  <1> QED
    BY <1>1, PurchasesHold, PTL

\* an order that no client approved is APPROVED only if budget was allocated for it
\* (purchase-approval.service.ts:52-257),
THEOREM ApprovedIsAlwaysFunded == MCSpec => []ApprovedIsFunded
  <1>1. PurchasingInv => ApprovedIsFunded
    BY FundedShows DEF PurchasingInv
  <1> QED
    BY <1>1, PurchasesHold, PTL

\* no budget is over-allocated (finance.service.ts:133-227), and
THEOREM AllocatedAlwaysWithin == MCSpec => []AllocatedWithinTotal
  <1>1. PurchasingInv => AllocatedWithinTotal
    BY DEF PurchasingInv, FundedInv, WorkflowInv, FundInv, FundLinks, IInv, Within, AllocatedWithinTotal
  <1> QED
    BY <1>1, PurchasesHold, PTL

\* a budget that no two calls wrote over each other has allocated the sum of its
\* allocations, and spent that of its approved expenses (finance.service.ts:133-341).
THEOREM FundsAlwaysAddUp == MCSpec => []FundsAddUp
  <1>1. PurchasingInv => FundsAddUp
    BY FundsAgree DEF PurchasingInv, FundedInv, WorkflowInv, FundsAddUp
  <1> QED
    BY <1>1, PurchasesHold, PTL

(***************************************************************************)
(* Sales orders.  s1 is their table, s2 the handlers, s3 the orders        *)
(* written from a copy that was out of date.                               *)
(***************************************************************************)

Changing == {"updateOrderStatus", "assignLead", "closeLead"}

\* An order without a lead is a marketplace order.
Sale == {x \in Sales!Order : x.outcome = None => x.channel = "MARKETPLACE"}

\* What a handler holds, by which handler it is; one about to write has checked its copy.
Sells(x) ==
  /\ x.op = "none" => x = Sales!Idle
  /\ x.op = "createSalesOrder" =>
       /\ x.pc \in {"key", "customer", "reps", "create", "done", "refused"}
       /\ x.seen \in Sale /\ x.seen.outcome \in {None, "PENDING"}
       /\ x.pc = "key" => x.seen.key # None
  /\ x.op \in Changing =>
       /\ x.pc \in {"read", "write", "done", "refused"} /\ x.order \in Sold
       /\ x.op = "updateOrderStatus" => x.argument \in Sales!Status
       /\ x.op = "closeLead" => x.argument \in {"WON", "LOST"}
       /\ x.pc = "write" =>
            /\ x.seen \in Sale
            /\ x.op = "updateOrderStatus" => x.argument \in Sales!validTransitions[x.seen.status]
            /\ x.op # "updateOrderStatus" => x.seen.channel # "MARKETPLACE" /\ Sales!LeadOpen(x.seen)

\* The row a handler works on is there, under the key of its copy.
Works(x) ==
  x.op \in Changing => s1[x.order] # None /\ (x.pc = "write" => x.seen.key = s1[x.order].key)

\* The lead decides the status of an order nobody overtook.
Agrees(x) ==
  /\ x.outcome = "LOST" => x.status = "CANCELLED"
  /\ x.outcome = "WON" => x.status \in {"APPROVED", "FULFILLED", "CANCELLED"}

\* Whoever made the order that a call answers with, it was another call.
Shared(u) ==
  \E w \in Clerks \ {u} : Sales!Creates(w, s2[u].seen.key) /\ s2[w].order = s2[u].order

\* Every order under a key was made by a call with it, and a call made after such a call was
\* answered finds its order.
Keyed ==
  /\ \A o \in Sold : s1[o] # None /\ s1[o].key # None =>
       \E w \in Clerks : Sales!Creates(w, s1[o].key) /\ s2[w].order = o
  /\ \A u \in Clerks : s2[u].op = "createSalesOrder" /\ s2[u].pc = "done" =>
       s2[u].order \in Sold /\ s1[s2[u].order] # None /\ s1[s2[u].order].key = s2[u].seen.key
  /\ \A u \in Clerks : \A v \in s2[u].after : v \in Clerks /\ s2[v].pc = "done"
  /\ \A u \in Clerks : \A v \in s2[u].after :
       /\ s2[u].op = "createSalesOrder" /\ s2[u].seen.key # None
       /\ Sales!Creates(v, s2[u].seen.key)
       => s2[u].pc = "key" \/ (s2[u].pc = "done" /\ Shared(u))

SaleTables ==
  /\ s1 \in [Sold -> Sale \cup {None}]
  /\ s2 \in [Clerks -> Sales!UpdateState]
  /\ s3 \subseteq Sold
  /\ \A u \in Clerks : Sells(s2[u]) /\ Works(s2[u])
  /\ \A o \in Sold \ s3 : s1[o] # None => Agrees(s1[o])

SalesInv == SaleTables /\ Keyed

\* A step that makes no order and ends no createSalesOrder.
LEMMA KeyedStays ==
  ASSUME SaleTables, Keyed, NEW u \in Clerks, NEW x, s2' = [s2 EXCEPT ![u] = x], s2[u].pc # "done",
         \A o \in Sold : s1[o] # None => s1'[o] # None /\ s1'[o].key = s1[o].key,
         \A o \in Sold : s1[o] = None => s1'[o] = None,
         x.op = "createSalesOrder" => x.pc # "done",
         \A v \in x.after : v \in Clerks /\ s2[v].pc = "done",
         \A v \in x.after : x.op = "createSalesOrder" /\ x.seen.key # None /\ Sales!Creates(v, x.seen.key) => x.pc = "key"
  PROVE  Keyed'
  <1>1. s2'[u] = x /\ \A v \in Clerks \ {u} : s2'[v] = s2[v]
    BY DEF SaleTables
  <1>2. \A v \in Clerks : s2[v].pc = "done" => v # u /\ s2'[v] = s2[v]
    BY <1>1
  <1>3. \A v \in Clerks : s2'[v].pc = "done" /\ s2'[v].op = "createSalesOrder" => v # u /\ s2'[v] = s2[v]
    BY <1>1
  <1>4. \A v \in Clerks : \A k : (Sales!Creates(v, k))' <=> Sales!Creates(v, k)
    BY <1>1, <1>2, <1>3 DEF Sales!Creates
  <1>5. ASSUME NEW o \in Sold, s1'[o] # None, s1'[o].key # None
        PROVE  \E w \in Clerks : (Sales!Creates(w, s1[o].key))' /\ s2'[w].order = o
    <2>1. s1[o] # None /\ s1'[o].key = s1[o].key
      BY <1>5
    <2>2. PICK k : k = s1[o].key
      OBVIOUS
    <2>3. PICK w \in Clerks : Sales!Creates(w, k) /\ s2[w].order = o
      BY <1>5, <2>1, <2>2 DEF Keyed
    <2>4. s2'[w] = s2[w] /\ s2[w].op = "createSalesOrder" /\ s2[w].pc = "done" /\ s2[w].seen.key = k
      BY <1>2, <2>3 DEF Sales!Creates
    <2> QED
      BY <2>1, <2>2, <2>3, <2>4 DEF Sales!Creates
  <1>6. ASSUME NEW v \in Clerks, s2'[v].op = "createSalesOrder", s2'[v].pc = "done"
        PROVE  s2'[v].order \in Sold /\ s1'[s2'[v].order] # None /\ s1'[s2'[v].order].key = s2'[v].seen.key
    BY <1>3, <1>6 DEF Keyed
  <1>7. ASSUME NEW v \in Clerks, NEW w \in s2'[v].after PROVE w \in Clerks /\ s2'[w].pc = "done"
    BY <1>1, <1>2, <1>7 DEF Keyed
  <1>8. ASSUME NEW v \in Clerks, NEW w \in s2'[v].after, s2'[v].op = "createSalesOrder", s2'[v].seen.key # None,
               (Sales!Creates(w, s2[v].seen.key))'
        PROVE  s2'[v].pc = "key" \/ (s2'[v].pc = "done" /\ Shared(v)')
    <2>1. s2'[w] = s2[w] /\ s2[w].pc = "done" /\ w \in Clerks
      BY <1>1, <1>2, <1>3, <1>7, <1>8 DEF Sales!Creates
    <2>2. Sales!Creates(w, s2'[v].seen.key)
      BY <1>8, <2>1 DEF Sales!Creates
    <2>3. CASE v = u
      BY <1>1, <1>8, <2>2, <2>3
    <2>4. CASE v # u
      <3>1. s2'[v] = s2[v]
        BY <1>1, <2>4
      <3>2. s2[v].pc = "key" \/ (s2[v].pc = "done" /\ Shared(v))
        BY <1>8, <2>2, <3>1 DEF Keyed
      <3>3. ASSUME Shared(v) PROVE Shared(v)'
        <4>1. PICK z \in Clerks \ {v} : Sales!Creates(z, s2[v].seen.key) /\ s2[z].order = s2[v].order
          BY <3>3 DEF Shared
        <4>2. s2'[z] = s2[z]
          BY <1>2, <4>1 DEF Sales!Creates
        <4> QED
          BY <3>1, <4>1, <4>2 DEF Shared, Sales!Creates
      <3> QED
        BY <3>1, <3>2, <3>3
    <2> QED
      BY <2>3, <2>4
  <1> QED
    BY <1>5, <1>6, <1>7, <1>8 DEF Keyed

\* What a step keeps of the tables, once it is known what becomes of its handler and row.
LEMMA SaleTablesMove ==
  ASSUME SaleTables, NEW u \in Clerks, NEW x \in Sales!UpdateState, Sells(x), s2' = [s2 EXCEPT ![u] = x],
         s1' \in [Sold -> Sale \cup {None}],
         \A o \in Sold : s1[o] # None => s1'[o] # None /\ s1'[o].key = s1[o].key,
         x.op \in Changing => s1'[x.order] # None /\ (x.pc = "write" => x.seen.key = s1'[x.order].key),
         s3' \subseteq Sold, s3 \subseteq s3',
         \A o \in Sold \ s3' : s1'[o] # s1[o] => Agrees(s1'[o])
  PROVE  SaleTables'
  <1>1. s2' \in [Clerks -> Sales!UpdateState] /\ \A v \in Clerks : Sells(s2'[v])
    BY DEF SaleTables
  <1>2. ASSUME NEW v \in Clerks PROVE Works(s2[v])'
    <2>1. CASE v = u
      <3>1. s2'[v] = x
        BY <2>1 DEF SaleTables
      <3> QED
        BY <3>1 DEF Works
    <2>2. CASE v # u
      <3>1. s2'[v] = s2[v] /\ Sells(s2[v]) /\ Works(s2[v])
        BY <2>2 DEF SaleTables
      <3> QED
        BY <3>1 DEF Works, Sells
    <2> QED
      BY <2>1, <2>2
  <1>3. ASSUME NEW o \in Sold \ s3', s1'[o] # None PROVE Agrees(s1'[o])
    BY <1>3 DEF SaleTables
  <1> QED
    BY <1>1, <1>2, <1>3 DEF SaleTables, Sells

\* A step that changes no order and answers no createSalesOrder.
LEMMA OnlyHandler ==
  ASSUME SalesInv, NEW u \in Clerks, NEW x \in Sales!UpdateState, Sells(x), s2' = [s2 EXCEPT ![u] = x],
         s1' = s1, s3' = s3, s2[u].pc # "done",
         x.op \in Changing => s1[x.order] # None /\ (x.pc = "write" => x.seen.key = s1[x.order].key),
         x.op = "createSalesOrder" => x.pc # "done",
         \A v \in x.after : v \in Clerks /\ s2[v].pc = "done",
         \A v \in x.after : x.op = "createSalesOrder" /\ x.seen.key # None /\ Sales!Creates(v, x.seen.key) => x.pc = "key"
  PROVE  SalesInv'
  <1>1. SaleTables'
    BY SaleTablesMove DEF SalesInv, SaleTables
  <1>2. Keyed'
    BY KeyedStays DEF SalesInv
  <1> QED
    BY <1>1, <1>2 DEF SalesInv

\* A request that arrives keeps the invariant of sales,
LEMMA SaleBegins ==
  ASSUME SalesInv, NEW u \in Clerks, NEW op \in Changing, NEW o \in Sold, NEW a \in Sales!Status \cup {"WON", "LOST", None},
         op = "updateOrderStatus" => a \in Sales!Status, op = "closeLead" => a \in {"WON", "LOST"},
         Sales!Begin(u, op, o, a)
  PROVE  SalesInv'
  <1>1. PICK x : x = [Sales!Idle EXCEPT !.op = op, !.pc = "read", !.order = o, !.argument = a]
    OBVIOUS
  <1>2. /\ x.op = op /\ x.pc = "read" /\ x.order = o /\ x.argument = a /\ x.after = {}
        /\ x \in Sales!UpdateState
    BY <1>1 DEF Sales!Idle, Sales!UpdateState, Changing
  <1>3. Sells(x)
    BY <1>2 DEF Sells, Changing
  <1>4. s2' = [s2 EXCEPT ![u] = x] /\ s1' = s1 /\ s3' = s3 /\ s2[u].pc # "done" /\ s1[o] # None
    BY <1>1 DEF Sales!Begin, Sales!Idle, Sales!Existing
  <1> QED
    BY <1>2, <1>3, <1>4, OnlyHandler DEF Changing

\* the read of the order it is about does,
LEMMA SaleRead ==
  ASSUME SalesInv, NEW u \in Clerks, Sales!ReadOrder(u)
  PROVE  SalesInv'
  <1>0. /\ s2[u] \in Sales!UpdateState /\ Sells(s2[u]) /\ Works(s2[u]) /\ s2[u].pc = "read"
        /\ s2[u].op \in Changing /\ s2[u].order \in Sold /\ s1[s2[u].order] \in Sale
        /\ s1[s2[u].order] # None
    <2>1. s2[u] \in Sales!UpdateState /\ Sells(s2[u]) /\ Works(s2[u]) /\ s2[u].pc = "read"
      BY DEF SalesInv, SaleTables, Sales!ReadOrder
    <2>2. s2[u].op \in Changing
      BY <2>1 DEF Sells, Sales!UpdateState, Sales!Idle, Changing
    <2> QED
      BY <2>1, <2>2 DEF Sells, Works, SalesInv, SaleTables
  <1>1. PICK row : row = s1[s2[u].order]
    OBVIOUS
  <1>2. PICK pc \in {"write", "refused"} : pc = IF Sales!Accepts(u, row) THEN "write" ELSE "refused"
    OBVIOUS
  <1>3. PICK x : x = [s2[u] EXCEPT !.seen = row, !.pc = pc]
    OBVIOUS
  <1>4. /\ x \in Sales!UpdateState /\ x.op = s2[u].op /\ x.pc = pc /\ x.order = s2[u].order /\ x.seen = row
        /\ x.argument = s2[u].argument /\ x.after = s2[u].after
    BY <1>0, <1>1, <1>3 DEF Sales!UpdateState, Sale
  <1>5. s2' = [s2 EXCEPT ![u] = x] /\ s1' = s1 /\ s3' = s3
    <2>1. s2' = [s2 EXCEPT ![u].seen = row, ![u].pc = pc] /\ s1' = s1 /\ s3' = s3
      BY <1>1, <1>2 DEF Sales!ReadOrder
    <2>2. s2 \in [Clerks -> Sales!UpdateState]
      BY DEF SalesInv, SaleTables
    <2> QED
      BY <1>3, <2>1, <2>2
  <1>6. Sells(x)
    <2>1. pc = "write" => Sales!Accepts(u, row)
      BY <1>2
    <2>2. /\ s2[u].op = "updateOrderStatus" /\ Sales!Accepts(u, row) => s2[u].argument \in Sales!validTransitions[row.status]
      BY DEF Sales!Accepts
    <2>3. s2[u].op = "assignLead" /\ Sales!Accepts(u, row) => row.channel # "MARKETPLACE" /\ Sales!LeadOpen(row)
      BY DEF Sales!Accepts
    <2>4. s2[u].op = "closeLead" /\ Sales!Accepts(u, row) => row.channel # "MARKETPLACE" /\ Sales!LeadOpen(row)
      BY DEF Sales!Accepts
    <2> QED
      BY <1>0, <1>1, <1>4, <2>1, <2>2, <2>3, <2>4 DEF Sells, Changing
  <1>7. \A v \in x.after : v \in Clerks /\ s2[v].pc = "done"
    BY <1>4 DEF SalesInv, Keyed
  <1> QED
    BY <1>0, <1>1, <1>4, <1>5, <1>6, <1>7, OnlyHandler DEF Changing

\* and its refusal.
LEMMA SaleRefused ==
  ASSUME SalesInv, NEW u \in Clerks, Sales!RefuseRep(u)
  PROVE  SalesInv'
  <1>0. /\ s2[u] \in Sales!UpdateState /\ Sells(s2[u]) /\ Works(s2[u]) /\ s2[u].pc = "write"
        /\ s2[u].op = "assignLead"
    BY DEF SalesInv, SaleTables, Sales!RefuseRep
  <1>1. PICK x : x = [s2[u] EXCEPT !.pc = "refused"]
    OBVIOUS
  <1>2. /\ x \in Sales!UpdateState /\ x.op = s2[u].op /\ x.pc = "refused" /\ x.order = s2[u].order /\ x.seen = s2[u].seen
        /\ x.argument = s2[u].argument /\ x.after = s2[u].after
    BY <1>0, <1>1 DEF Sales!UpdateState
  <1>3. s2' = [s2 EXCEPT ![u] = x] /\ s1' = s1 /\ s3' = s3
    BY <1>1 DEF Sales!RefuseRep
  <1>4. Sells(x)
    BY <1>0, <1>2 DEF Sells, Changing
  <1>5. \A v \in x.after : v \in Clerks /\ s2[v].pc = "done"
    BY <1>2 DEF SalesInv, Keyed
  <1> QED
    BY <1>0, <1>2, <1>3, <1>4, <1>5, OnlyHandler DEF Works, Changing

\* The row a handler writes back.
LEMMA RowChanged ==
  ASSUME SaleTables, NEW u \in Clerks, s2[u].op \in Changing, s2[u].pc = "write"
  PROVE  /\ Sales!Changed(u) \in Sale /\ Sales!Changed(u).key = s2[u].seen.key
         /\ Agrees(s2[u].seen) => Agrees(Sales!Changed(u))
         /\ s2[u].seen.outcome \in {"WON", "LOST"} => Sales!Changed(u).outcome = s2[u].seen.outcome
         /\ s2[u].seen.status \in {"REJECTED", "CANCELLED", "FULFILLED"} /\ Sales!Changed(u).status # s2[u].seen.status
              => s2[u].seen.outcome = "PENDING" /\ Sales!Changed(u).outcome \in {"WON", "LOST"}
  <1>0. /\ Sells(s2[u]) /\ s2[u].seen \in Sale
    BY DEF SaleTables, Sells
  <1>1. PICK r, a : r \in Sale /\ r = s2[u].seen /\ a = s2[u].argument
    BY <1>0
  <1>2. r \in Sales!Order /\ (r.outcome = None => r.channel = "MARKETPLACE") /\ r.status \in Sales!Status
    BY <1>1 DEF Sale, Sales!Order
  <1>3. CASE s2[u].op = "updateOrderStatus"
    <2>1. a \in Sales!Status /\ a \in Sales!validTransitions[r.status]
      BY <1>0, <1>1, <1>3 DEF Sells, Changing
    <2>2. PICK y : y = [r EXCEPT !.status = a]
      OBVIOUS
    <2>3. y \in Sales!Order /\ y.status = a /\ y.outcome = r.outcome /\ y.key = r.key /\ y.channel = r.channel
      BY <1>2, <2>1, <2>2 DEF Sales!Order
    <2>4. Sales!Changed(u) = y
      BY <1>1, <1>3, <2>2 DEF Sales!Changed
    <2>5. /\ r.status \notin {"REJECTED", "CANCELLED", "FULFILLED"}
          /\ r.status = "APPROVED" => a \in {"FULFILLED", "CANCELLED"}
      BY <1>2, <2>1 DEF Sales!validTransitions
    <2> QED
      BY <1>1, <1>2, <2>3, <2>4, <2>5 DEF Sale, Agrees
  <1>4. CASE s2[u].op = "assignLead"
    <2>1. r.channel # "MARKETPLACE" /\ Sales!LeadOpen(r)
      BY <1>0, <1>1, <1>4 DEF Sells, Changing
    <2>2. PICK y : y = [r EXCEPT !.assigned = TRUE, !.outcome = "PENDING"]
      OBVIOUS
    <2>3. y \in Sales!Order /\ y.status = r.status /\ y.outcome = "PENDING" /\ y.key = r.key /\ y.channel = r.channel
      BY <1>2, <2>2 DEF Sales!Order, Sales!Outcome
    <2>4. Sales!Changed(u) = y
      BY <1>1, <1>4, <2>2 DEF Sales!Changed
    <2> QED
      BY <1>1, <1>2, <2>1, <2>3, <2>4, SaleAssumption DEF Sale, Agrees, Sales!LeadOpen
  <1>5. CASE s2[u].op = "closeLead"
    <2>1. r.channel # "MARKETPLACE" /\ Sales!LeadOpen(r) /\ a \in {"WON", "LOST"}
      BY <1>0, <1>1, <1>5 DEF Sells, Changing
    <2>2. PICK s \in {"APPROVED", "CANCELLED"} : s = IF a = "WON" THEN "APPROVED" ELSE "CANCELLED"
      OBVIOUS
    <2>3. PICK y : y = [r EXCEPT !.outcome = a, !.status = s]
      OBVIOUS
    <2>4. y \in Sales!Order /\ y.status = s /\ y.outcome = a /\ y.key = r.key /\ y.channel = r.channel
      BY <1>2, <2>1, <2>3 DEF Sales!Order, Sales!Outcome, Sales!Status
    <2>5. Sales!Changed(u) = y
      BY <1>1, <1>5, <2>2, <2>3 DEF Sales!Changed
    <2> QED
      BY <1>1, <1>2, <2>1, <2>2, <2>4, <2>5, SaleAssumption DEF Sale, Agrees, Sales!LeadOpen, Sales!Outcome
  <1> QED
    BY <1>3, <1>4, <1>5 DEF Changing

\* A write changes one order, from the row the call read unless it raced.
LEMMA SaleWritten ==
  ASSUME SalesInv, NEW u \in Clerks, Sales!WriteOrder(u)
  PROVE  /\ SalesInv'
         /\ \A o \in Sold : s1'[o] # s1[o] =>
              o = s2[u].order /\ s1'[o] = Sales!Changed(u) /\ (o \notin s3' => s1[o] = s2[u].seen)
         /\ s2[u].op \in Changing /\ s2[u].pc = "write"
  <1>0. /\ s2[u] \in Sales!UpdateState /\ Sells(s2[u]) /\ Works(s2[u]) /\ s2[u].pc = "write" /\ SaleTables
        /\ s2[u].op \in Changing /\ s2[u].order \in Sold
    BY DEF SalesInv, SaleTables, Sales!WriteOrder, Sells, Sales!UpdateState, Sales!Idle, Changing
  <1>1. PICK x : x = [s2[u] EXCEPT !.pc = "done"]
    OBVIOUS
  <1>2. /\ x \in Sales!UpdateState /\ x.op = s2[u].op /\ x.pc = "done" /\ x.order = s2[u].order /\ x.seen = s2[u].seen
        /\ x.argument = s2[u].argument /\ x.after = s2[u].after
    BY <1>0, <1>1 DEF Sales!UpdateState
  <1>3. PICK o \in Sold, row \in Sale : o = s2[u].order /\ row = Sales!Changed(u)
    BY <1>0, RowChanged
  <1>4. /\ s2' = [s2 EXCEPT ![u] = x] /\ s1' = [s1 EXCEPT ![o] = row]
        /\ s3' = IF s1[o] = s2[u].seen THEN s3 ELSE s3 \cup {o}
    BY <1>1, <1>3 DEF Sales!WriteOrder
  <1>5. s1 \in [Sold -> Sale \cup {None}] /\ s1[o] # None /\ row.key = s1[o].key /\ row # None
    BY <1>0, <1>3, RowChanged, SaleAssumption DEF SaleTables, Works, Sale
  <1>6. /\ s1' \in [Sold -> Sale \cup {None}]
        /\ \A p \in Sold : s1[p] # None => s1'[p] # None /\ s1'[p].key = s1[p].key
        /\ \A p \in Sold : s1[p] = None => s1'[p] = None
        /\ \A p \in Sold : s1'[p] # s1[p] => p = o /\ s1'[p] = row
    BY <1>3, <1>4, <1>5
  <1>7. Sells(x)
    BY <1>0, <1>2 DEF Sells, Changing
  <1>8. \A p \in Sold \ s3' : s1'[p] # s1[p] => Agrees(s1'[p])
    <2> SUFFICES ASSUME NEW p \in Sold \ s3', s1'[p] # s1[p] PROVE Agrees(s1'[p])
      OBVIOUS
    <2>1. p = o /\ s1'[p] = row /\ s1[o] = s2[u].seen /\ o \notin s3
      BY <1>4, <1>6
    <2>2. Agrees(s2[u].seen)
      BY <1>0, <1>5, <2>1 DEF SaleTables
    <2> QED
      BY <1>0, <1>3, <2>1, <2>2, RowChanged
  <1>9. s3' \subseteq Sold /\ s3 \subseteq s3'
    BY <1>0, <1>4 DEF SaleTables
  <1>10. SaleTables'
    BY <1>0, <1>2, <1>4, <1>6, <1>7, <1>8, <1>9, SaleTablesMove DEF Works
  <1>11. Keyed'
    <2>1. \A v \in x.after : v \in Clerks /\ s2[v].pc = "done"
      BY <1>2 DEF SalesInv, Keyed
    <2>2. s2[u].pc # "done" /\ x.op # "createSalesOrder"
      BY <1>0, <1>2 DEF Changing
    <2> QED
      BY <1>0, <1>4, <1>6, <2>1, <2>2, KeyedStays DEF SalesInv
  <1> QED
    BY <1>0, <1>3, <1>4, <1>6, <1>10, <1>11 DEF SalesInv

\* createSalesOrder up to its answer.
LEMMA SaleAsked ==
  ASSUME SalesInv, NEW u \in Clerks, NEW row \in Sales!Created, Sales!BeginCreateSalesOrder(u, row)
  PROVE  SalesInv'
  <1>1. PICK pc \in {"key", "customer"} : pc = IF row.key = None THEN "customer" ELSE "key"
    OBVIOUS
  <1>2. PICK after \in SUBSET Clerks : after = {v \in Clerks : s2[v].pc = "done"}
    OBVIOUS
  <1>3. PICK x : x = [Sales!Idle EXCEPT !.op = "createSalesOrder", !.seen = row, !.pc = pc, !.after = after]
    OBVIOUS
  <1>4. row \in Sale /\ row.outcome \in {None, "PENDING"}
    BY SaleAssumption DEF Sales!Created, Sale, Sales!Outcome
  <1>5. /\ x \in Sales!UpdateState /\ x.op = "createSalesOrder" /\ x.pc = pc /\ x.seen = row /\ x.after = after
    BY <1>3, <1>4 DEF Sales!Idle, Sales!UpdateState, Sale, Clerks
  <1>6. s2' = [s2 EXCEPT ![u] = x] /\ s1' = s1 /\ s3' = s3 /\ s2[u].pc # "done"
    BY <1>1, <1>2, <1>3 DEF Sales!BeginCreateSalesOrder, Sales!Idle, Clerks
  <1>7. Sells(x)
    BY <1>1, <1>4, <1>5 DEF Sells, Changing
  <1> QED
    BY <1>1, <1>2, <1>5, <1>6, <1>7, OnlyHandler DEF Changing

\* The checks of a new order leave it unmade,
LEMMA SaleChecked ==
  ASSUME SalesInv, NEW u \in Clerks,
         NEW pc \in {"customer", "refused", "reps", "create"},
         NEW row \in Sale, row.key = s2[u].seen.key, row.outcome = s2[u].seen.outcome,
         s2[u].op = "createSalesOrder", s2[u].pc \in {"key", "customer", "reps"},
         s2[u].pc = "key" => \A v \in s2[u].after : ~Sales!Creates(v, s2[u].seen.key),
         s2' = [s2 EXCEPT ![u] = [s2[u] EXCEPT !.pc = pc, !.seen = row]], s1' = s1, s3' = s3
  PROVE  SalesInv'
  <1>0. s2[u] \in Sales!UpdateState /\ Sells(s2[u]) /\ SaleTables /\ Keyed
    BY DEF SalesInv, SaleTables
  <1>1. PICK x : x = [s2[u] EXCEPT !.pc = pc, !.seen = row]
    OBVIOUS
  <1>2. /\ x \in Sales!UpdateState /\ x.op = "createSalesOrder" /\ x.pc = pc /\ x.seen = row /\ x.after = s2[u].after
    BY <1>0, <1>1 DEF Sales!UpdateState, Sale
  <1>3. Sells(x)
    BY <1>0, <1>2 DEF Sells, Changing
  <1>4. \A v \in x.after : v \in Clerks /\ s2[v].pc = "done"
    BY <1>0, <1>2 DEF Keyed
  <1>5. \A v \in x.after : ~(x.seen.key # None /\ Sales!Creates(v, x.seen.key))
    BY <1>0, <1>2 DEF Keyed
  <1> QED
    BY <1>1, <1>2, <1>3, <1>4, <1>5, OnlyHandler DEF Changing

\* createSalesOrder as it answers.
LEMMA KeyedAnswers ==
  ASSUME SalesInv, NEW u \in Clerks, NEW x, NEW o \in Sold, s2' = [s2 EXCEPT ![u] = x],
         s2[u].op = "createSalesOrder", s2[u].pc # "done",
         x.op = "createSalesOrder", x.pc = "done", x.order = o, x.seen = s2[u].seen, x.after = s2[u].after,
         \A p \in Sold : s1[p] # None => s1'[p] # None /\ s1'[p].key = s1[p].key,
         \A p \in Sold \ {o} : s1[p] = None => s1'[p] = None,
         s1'[o] # None, s1'[o].key = x.seen.key,
         s1[o] # None \/ s2[u].pc # "key"
  PROVE  Keyed'
  <1>0. Keyed
    BY DEF SalesInv
  <1>1. s2'[u] = x /\ \A v \in Clerks \ {u} : s2'[v] = s2[v]
    BY DEF SalesInv, SaleTables
  <1>2. \A v \in Clerks : s2[v].pc = "done" => v # u /\ s2'[v] = s2[v]
    BY <1>1
  <1>3. ASSUME NEW p \in Sold, s1[p] # None, s1[p].key # None
        PROVE  \E w \in Clerks \ {u} : (Sales!Creates(w, s1[p].key))' /\ s2'[w].order = p
    <2>1. s1'[p].key = s1[p].key
      BY <1>3
    <2>2. PICK k : k = s1[p].key
      OBVIOUS
    <2>3. PICK w \in Clerks : Sales!Creates(w, k) /\ s2[w].order = p
      BY <1>0, <1>3, <2>2 DEF Keyed
    <2>4. s2'[w] = s2[w] /\ w # u
      BY <1>2, <2>3 DEF Sales!Creates
    <2> QED
      BY <2>1, <2>2, <2>3, <2>4 DEF Sales!Creates
  <1>5. ASSUME NEW p \in Sold, s1'[p] # None, s1'[p].key # None
        PROVE  \E w \in Clerks : (Sales!Creates(w, s1[p].key))' /\ s2'[w].order = p
    <2>1. CASE s1[p] # None
      BY <1>3, <1>5, <2>1
    <2>2. CASE s1[p] = None
      <3>1. p = o
        BY <1>5, <2>2
      <3> QED
        BY <1>1, <3>1 DEF Sales!Creates
    <2> QED
      BY <2>1, <2>2
  <1>6. ASSUME NEW v \in Clerks, s2'[v].op = "createSalesOrder", s2'[v].pc = "done"
        PROVE  s2'[v].order \in Sold /\ s1'[s2'[v].order] # None /\ s1'[s2'[v].order].key = s2'[v].seen.key
    <2>1. CASE v = u
      BY <1>1, <2>1
    <2>2. CASE v # u
      <3>1. s2'[v] = s2[v]
        BY <1>1, <2>2
      <3>2. PICK p : p = s2[v].order
        OBVIOUS
      <3>3. p \in Sold /\ s1[p] # None /\ s1[p].key = s2[v].seen.key
        BY <1>0, <1>6, <3>1, <3>2 DEF Keyed
      <3> QED
        BY <3>1, <3>2, <3>3
    <2> QED
      BY <2>1, <2>2
  <1>7. ASSUME NEW v \in Clerks, NEW w \in s2'[v].after PROVE w \in Clerks /\ s2'[w].pc = "done"
    <2>1. w \in s2[v].after
      BY <1>1, <1>7
    <2> QED
      BY <1>0, <1>2, <2>1 DEF Keyed
  <1>8. ASSUME NEW v \in Clerks, NEW w \in s2'[v].after, s2'[v].op = "createSalesOrder", s2'[v].seen.key # None,
               (Sales!Creates(w, s2[v].seen.key))'
        PROVE  s2'[v].pc = "key" \/ (s2'[v].pc = "done" /\ Shared(v)')
    <2>1. w \in s2[v].after /\ w \in Clerks /\ s2[w].pc = "done"
      <3>1. w \in s2[v].after
        BY <1>1, <1>8
      <3> QED
        BY <1>0, <3>1 DEF Keyed
    <2>2. s2'[w] = s2[w]
      BY <1>2, <2>1
    <2>3. s2'[v].seen = s2[v].seen /\ s2'[v].op = s2[v].op
      BY <1>1
    <2>4. Sales!Creates(w, s2[v].seen.key)
      BY <1>8, <2>2, <2>3 DEF Sales!Creates
    <2>5. s2[v].pc = "key" \/ (s2[v].pc = "done" /\ Shared(v))
      BY <1>0, <1>8, <2>1, <2>3, <2>4 DEF Keyed
    <2>6. CASE v # u
      <3>1. s2'[v] = s2[v]
        BY <1>1, <2>6
      <3>2. ASSUME Shared(v) PROVE Shared(v)'
        <4>1. PICK z \in Clerks \ {v} : Sales!Creates(z, s2[v].seen.key) /\ s2[z].order = s2[v].order
          BY <3>2 DEF Shared
        <4>2. s2'[z] = s2[z]
          BY <1>2, <4>1 DEF Sales!Creates
        <4> QED
          BY <3>1, <4>1, <4>2 DEF Shared, Sales!Creates
      <3> QED
        BY <2>5, <3>1, <3>2
    <2>7. CASE v = u
      <3>1. s2[u].pc = "key" /\ s1[o] # None
        BY <2>5, <2>7
      <3>2. s1'[o].key = s1[o].key /\ s1[o].key # None
        BY <1>8, <2>3, <2>7, <3>1
      <3>3. PICK z \in Clerks \ {u} : (Sales!Creates(z, s1[o].key))' /\ s2'[z].order = o
        BY <1>3, <3>1, <3>2
      <3>4. s2'[u].order = o /\ s2'[u].seen.key = s1'[o].key /\ s2'[u].pc = "done"
        BY <1>1
      <3> QED
        BY <2>7, <3>3, <3>4 DEF Shared, Sales!Creates
    <2> QED
      BY <2>6, <2>7
  <1> QED
    BY <1>5, <1>6, <1>7, <1>8 DEF Keyed

\* The answer as a row of the handlers.
LEMMA SaleAnswer ==
  ASSUME SalesInv, NEW u \in Clerks, NEW o \in Sold, s2[u].op = "createSalesOrder"
  PROVE  \E x \in Sales!UpdateState :
           /\ x = [s2[u] EXCEPT !.order = o, !.pc = "done"] /\ Sells(x)
           /\ x.op = "createSalesOrder" /\ x.pc = "done" /\ x.order = o /\ x.seen = s2[u].seen /\ x.after = s2[u].after
  <1>0. s2[u] \in Sales!UpdateState /\ Sells(s2[u])
    BY DEF SalesInv, SaleTables
  <1>1. PICK x : x = [s2[u] EXCEPT !.order = o, !.pc = "done"]
    OBVIOUS
  <1>2. /\ x \in Sales!UpdateState /\ x.op = "createSalesOrder" /\ x.pc = "done" /\ x.order = o /\ x.seen = s2[u].seen
        /\ x.after = s2[u].after
    BY <1>0, <1>1 DEF Sales!UpdateState
  <1> QED
    BY <1>0, <1>1, <1>2 DEF Sells, Changing

\* the lookup by key answers with the order that exists,
LEMMA SaleFound ==
  ASSUME SalesInv, NEW u \in Clerks, Sales!FindKey(u)
  PROVE  SalesInv'
  <1>0. /\ s2[u] \in Sales!UpdateState /\ Sells(s2[u]) /\ s2[u].pc = "key" /\ SaleTables /\ Keyed
        /\ s2[u].op = "createSalesOrder" /\ s2 \in [Clerks -> Sales!UpdateState] /\ s1' = s1 /\ s3' = s3
    BY DEF SalesInv, SaleTables, Sales!FindKey, Sells, Sales!UpdateState, Sales!Idle, Changing
  <1>1. ASSUME NEW o \in Sold, s1[o] # None, s1[o].key = s2[u].seen.key, s2' = [s2 EXCEPT ![u].order = o, ![u].pc = "done"]
        PROVE  SalesInv'
    <2>1. PICK x \in Sales!UpdateState :
             /\ x = [s2[u] EXCEPT !.order = o, !.pc = "done"] /\ Sells(x)
             /\ x.op = "createSalesOrder" /\ x.pc = "done" /\ x.order = o /\ x.seen = s2[u].seen /\ x.after = s2[u].after
      BY <1>0, SaleAnswer
    <2>2. s2' = [s2 EXCEPT ![u] = x]
      BY <1>0, <1>1, <2>1
    <2>3. SaleTables'
      BY <1>0, <2>1, <2>2, SaleTablesMove DEF SaleTables, Changing
    <2>4. Keyed'
      <3>1. /\ \A p \in Sold : s1[p] # None => s1'[p] # None /\ s1'[p].key = s1[p].key
            /\ \A p \in Sold \ {o} : s1[p] = None => s1'[p] = None
            /\ s1'[o] # None /\ s1'[o].key = x.seen.key /\ s2[u].pc # "done" /\ s2[u].op = "createSalesOrder"
            /\ s1[o] # None \/ s2[u].pc # "key"
        BY <1>0, <1>1, <2>1
      <3>2. /\ s2' = [s2 EXCEPT ![u] = x] /\ x.op = "createSalesOrder" /\ x.pc = "done" /\ x.order = o
            /\ x.seen = s2[u].seen /\ x.after = s2[u].after
        BY <2>1, <2>2
      <3> QED
        BY <3>1, <3>2, KeyedAnswers
    <2> QED
      BY <2>3, <2>4 DEF SalesInv
  <1>2. ASSUME \A o \in Sold : ~(s1[o] # None /\ s1[o].key = s2[u].seen.key), s2' = [s2 EXCEPT ![u].pc = "customer"]
        PROVE  SalesInv'
    <2>1. PICK row \in Sale : row = s2[u].seen
      BY <1>0 DEF Sells
    <2>2. [s2[u] EXCEPT !.pc = "customer", !.seen = row] = [s2[u] EXCEPT !.pc = "customer"]
      BY <1>0, <2>1 DEF Sales!UpdateState
    <2>3. s2' = [s2 EXCEPT ![u] = [s2[u] EXCEPT !.pc = "customer", !.seen = row]]
      BY <1>0, <1>2, <2>2
    <2>4. ASSUME NEW v \in s2[u].after, Sales!Creates(v, s2[u].seen.key) PROVE FALSE
      <3>1. v \in Clerks
        BY <1>0, <2>4 DEF Keyed
      <3>2. s2[v].order \in Sold /\ s1[s2[v].order] # None /\ s1[s2[v].order].key = s2[u].seen.key
        BY <1>0, <2>4, <3>1 DEF Keyed, Sales!Creates
      <3> QED
        BY <1>2, <3>2
    <2> QED
      BY <1>0, <2>1, <2>3, <2>4, SaleChecked
  <1>3. \/ \E o \in Sold : /\ s1[o] # None /\ s1[o].key = s2[u].seen.key
                           /\ s2' = [s2 EXCEPT ![u].order = o, ![u].pc = "done"]
        \/ /\ \A o \in Sold : ~(s1[o] # None /\ s1[o].key = s2[u].seen.key)
           /\ s2' = [s2 EXCEPT ![u].pc = "customer"]
    BY DEF Sales!FindKey, Sales!Existing
  <1> QED
    BY <1>1, <1>2, <1>3

\* the customer and a representative are looked for,
LEMMA SaleGoesOn ==
  ASSUME SalesInv, NEW u \in Clerks, Sales!CheckCustomer(u) \/ Sales!PickRep(u)
  PROVE  SalesInv'
  <1>0. /\ s2[u] \in Sales!UpdateState /\ Sells(s2[u]) /\ s2[u].pc \in {"customer", "reps"}
        /\ s2[u].op = "createSalesOrder" /\ s2 \in [Clerks -> Sales!UpdateState] /\ s1' = s1 /\ s3' = s3
    BY DEF SalesInv, SaleTables, Sales!CheckCustomer, Sales!PickRep, Sells, Sales!UpdateState, Sales!Idle, Changing
  <1>1. PICK row \in Sale : row = s2[u].seen
    BY <1>0 DEF Sells
  <1>2. CASE Sales!CheckCustomer(u)
    <2>1. PICK pc \in {"refused", "reps", "create"} : s2' = [s2 EXCEPT ![u].pc = pc]
      BY <1>2 DEF Sales!CheckCustomer
    <2>2. [s2[u] EXCEPT !.pc = pc, !.seen = row] = [s2[u] EXCEPT !.pc = pc]
      BY <1>0, <1>1 DEF Sales!UpdateState
    <2>3. s2' = [s2 EXCEPT ![u] = [s2[u] EXCEPT !.pc = pc, !.seen = row]]
      BY <1>0, <2>1, <2>2
    <2> QED
      BY <1>0, <1>1, <2>3, SaleChecked
  <1>3. CASE Sales!PickRep(u)
    <2>1. PICK found \in BOOLEAN : s2' = [s2 EXCEPT ![u].pc = "create", ![u].seen.assigned = found]
      BY <1>3 DEF Sales!PickRep
    <2>2. PICK r : r = [row EXCEPT !.assigned = found]
      OBVIOUS
    <2>3. r \in Sale /\ r.key = row.key /\ r.outcome = row.outcome
      BY <2>2 DEF Sale, Sales!Order
    <2>4. s2' = [s2 EXCEPT ![u] = [s2[u] EXCEPT !.pc = "create", !.seen = r]]
      <3>1. s2' = [s2 EXCEPT ![u] = [s2[u] EXCEPT !.pc = "create", !.seen = [@ EXCEPT !.assigned = found]]]
        BY <1>0, <2>1
      <3> QED
        BY <1>0, <1>1, <2>2, <3>1 DEF Sales!UpdateState
    <2> QED
      BY <1>0, <1>1, <2>3, <2>4, SaleChecked
  <1> QED
    BY <1>2, <1>3

\* and the order is made, where none was.
LEMMA SaleMade ==
  ASSUME SalesInv, NEW u \in Clerks, Sales!CreateOrder(u)
  PROVE  SalesInv' /\ \A o \in Sold : s1[o] # None => s1'[o] = s1[o]
  <1>0. /\ s2[u] \in Sales!UpdateState /\ Sells(s2[u]) /\ s2[u].pc = "create" /\ SaleTables
        /\ s2[u].op = "createSalesOrder" /\ s2 \in [Clerks -> Sales!UpdateState] /\ s3' = s3
        /\ s2[u].seen \in Sale /\ s1 \in [Sold -> Sale \cup {None}]
    BY DEF SalesInv, SaleTables, Sales!CreateOrder, Sells, Sales!UpdateState, Sales!Idle, Changing
  <1>1. PICK o \in Sold : /\ s1[o] = None /\ s1' = [s1 EXCEPT ![o] = s2[u].seen]
                          /\ s2' = [s2 EXCEPT ![u].order = o, ![u].pc = "done"]
    BY DEF Sales!CreateOrder, Sales!Existing
  <1>2. PICK x \in Sales!UpdateState :
           /\ x = [s2[u] EXCEPT !.order = o, !.pc = "done"] /\ Sells(x)
           /\ x.op = "createSalesOrder" /\ x.pc = "done" /\ x.order = o /\ x.seen = s2[u].seen /\ x.after = s2[u].after
    BY <1>0, SaleAnswer
  <1>3. s2' = [s2 EXCEPT ![u] = x]
    BY <1>0, <1>1, <1>2
  <1>4. /\ s1' \in [Sold -> Sale \cup {None}] /\ s1'[o] = s2[u].seen /\ s1'[o] # None
        /\ \A p \in Sold \ {o} : s1'[p] = s1[p]
    BY <1>0, <1>1, SaleAssumption DEF Sale
  <1>5. Agrees(s1'[o])
    BY <1>0, <1>4, SaleAssumption DEF Agrees, Sells, Sales!Outcome
  <1>6. \A p \in Sold : s1[p] # None => s1'[p] # None /\ s1'[p].key = s1[p].key
    BY <1>1, <1>4
  <1>7. SaleTables'
    BY <1>0, <1>2, <1>3, <1>4, <1>5, <1>6, SaleTablesMove DEF SaleTables, Changing
  <1>8. Keyed'
    BY <1>0, <1>1, <1>2, <1>3, <1>4, <1>6, KeyedAnswers
  <1> QED
    BY <1>1, <1>4, <1>7, <1>8 DEF SalesInv

\* The handlers of the sales scenes keep the tables, and what was decided.
LEMMA SalesKept ==
  ASSUME SalesInv, Sales!Next
  PROVE  SalesInv' /\ Sales!KeepsTerminal /\ Sales!KeepsDecision
  <1>1. PICK u \in Clerks : Sales!Begins(u) \/ Sales!Step(u)
    BY DEF Sales!Next, Clerks
  <1>2. ASSUME UNCHANGED s1 PROVE Sales!KeepsTerminal /\ Sales!KeepsDecision
    BY <1>2 DEF Sales!KeepsTerminal, Sales!KeepsDecision, Sales!Reopened
  <1>3. CASE Sales!Begins(u)
    <2>1. s1' = s1
      BY <1>3 DEF Sales!Begins, Sales!BeginCreateSalesOrder, Sales!BeginUpdateOrderStatus, Sales!BeginAssignLead,
                  Sales!BeginCloseLead, Sales!Begin
    <2>2. SalesInv'
      <3>1. ASSUME NEW row \in Sales!Created, Sales!BeginCreateSalesOrder(u, row) PROVE SalesInv'
        BY <3>1, SaleAsked
      <3>2. ASSUME NEW o \in Sold, NEW s \in Sales!Status, Sales!BeginUpdateOrderStatus(u, o, s) PROVE SalesInv'
        BY <3>2, SaleBegins DEF Sales!BeginUpdateOrderStatus, Changing
      <3>3. ASSUME NEW o \in Sold, Sales!BeginAssignLead(u, o) PROVE SalesInv'
        BY <3>3, SaleBegins DEF Sales!BeginAssignLead, Changing
      <3>4. ASSUME NEW o \in Sold, NEW outcome \in {"WON", "LOST"}, Sales!BeginCloseLead(u, o, outcome) PROVE SalesInv'
        BY <3>4, SaleBegins DEF Sales!BeginCloseLead, Changing
      <3> QED
        BY <1>3, <3>1, <3>2, <3>3, <3>4 DEF Sales!Begins
    <2> QED
      BY <1>2, <2>1, <2>2
  <1>4. CASE Sales!Step(u) /\ ~Sales!WriteOrder(u) /\ ~Sales!CreateOrder(u)
    <2>1. s1' = s1
      BY <1>4 DEF Sales!Step, Sales!ReadOrder, Sales!RefuseRep, Sales!FindKey, Sales!CheckCustomer, Sales!PickRep
    <2> QED
      BY <1>2, <1>4, <2>1, SaleRead, SaleRefused, SaleFound, SaleGoesOn DEF Sales!Step
  <1>5. CASE Sales!CreateOrder(u)
    <2>1. SalesInv' /\ \A o \in Sold : s1[o] # None => s1'[o] = s1[o]
      BY <1>5, SaleMade
    <2> QED
      BY <2>1 DEF Sales!KeepsTerminal, Sales!KeepsDecision, Sales!Reopened, Sales!Existing
  <1>6. CASE Sales!WriteOrder(u)
    <2>1. /\ SalesInv'
          /\ \A o \in Sold : s1'[o] # s1[o] =>
               o = s2[u].order /\ s1'[o] = Sales!Changed(u) /\ (o \notin s3' => s1[o] = s2[u].seen)
          /\ s2[u].op \in Changing /\ s2[u].pc = "write"
      BY <1>6, SaleWritten
    <2>2. /\ s2[u].seen.outcome \in {"WON", "LOST"} => Sales!Changed(u).outcome = s2[u].seen.outcome
          /\ s2[u].seen.status \in {"REJECTED", "CANCELLED", "FULFILLED"} /\ Sales!Changed(u).status # s2[u].seen.status
              => s2[u].seen.outcome = "PENDING" /\ Sales!Changed(u).outcome \in {"WON", "LOST"}
      BY <2>1, RowChanged DEF SalesInv
    <2> QED
      BY <2>1, <2>2 DEF Sales!KeepsTerminal, Sales!KeepsDecision, Sales!Reopened, Sales!Existing
  <1> QED
    BY <1>1, <1>3, <1>4, <1>5, <1>6

SellingInv == scene \in Selling => SalesInv

\* The scenes of selling start well,
LEMMA SellingStarts == MCInit => SellingInv
  <1> SUFFICES ASSUME MCInit, scene \in Selling PROVE SalesInv
    BY DEF SellingInv
  <1>1. SellingInit
    BY DEF MCInit, Selling, Purchasing, Bookkeeping, Staffing
  <1>2. PICK row \in Sales!Unkeyed : s1 = [o \in Sold |-> IF scene = "sales" /\ o = First THEN row ELSE None]
    BY <1>1 DEF SellingInit
  <1>3. row \in Sale /\ Agrees(row) /\ row.key = None
    BY SaleAssumption DEF Sales!Unkeyed, Sales!Created, Sale, Agrees, Sales!Outcome
  <1>4. s1 \in [Sold -> Sale \cup {None}] /\ \A o \in Sold : s1[o] # None => s1[o] = row
    BY <1>2, <1>3
  <1>5. Sales!Idle \in Sales!UpdateState /\ Sells(Sales!Idle) /\ Works(Sales!Idle) /\ Sales!Idle.after = {}
        /\ Sales!Idle.op = "none"
    BY DEF Sales!Idle, Sales!UpdateState, Sells, Works, Changing
  <1>6. s2 \in [Clerks -> Sales!UpdateState] /\ \A u \in Clerks : s2[u] = Sales!Idle
    BY <1>1, <1>5 DEF SellingInit
  <1>7. s3 = {}
    BY <1>1 DEF SellingInit
  <1>8. SaleTables
    BY <1>3, <1>4, <1>5, <1>6, <1>7 DEF SaleTables
  <1>9. Keyed
    BY <1>3, <1>4, <1>5, <1>6 DEF Keyed
  <1> QED
    BY <1>8, <1>9 DEF SalesInv

\* A step of a sales scene is one of its handlers.
LEMMA SellingMoves ==
  ASSUME [MCNext]_<<purchaseVars, scene, slots>>, scene \in Selling
  PROVE  Sales!Next \/ UNCHANGED <<s1, s2, s3>>
  <1>1. scene \notin Purchasing /\ scene \notin Bookkeeping /\ scene \notin {"tickets", "service levels"} /\ scene \notin Staffing
    BY DEF Selling, Purchasing, Bookkeeping, Staffing
  <1>2. CASE MCNext
    BY <1>1, <1>2 DEF MCNext, SellingNext
  <1> QED
    BY <1>2 DEF slots

\* and their steps keep the invariant, the settled orders and the decided leads.
LEMMA SellingKept ==
  ASSUME SellingInv, [MCNext]_<<purchaseVars, scene, slots>>
  PROVE  SellingInv' /\ (scene \in Selling => Sales!KeepsTerminal /\ Sales!KeepsDecision)
  <1>1. scene' = scene
    BY SceneMoves
  <1>2. CASE scene \notin Selling
    BY <1>1, <1>2 DEF SellingInv
  <1>3. CASE scene \in Selling /\ Sales!Next
    BY <1>1, <1>3, SalesKept DEF SellingInv
  <1>4. CASE scene \in Selling /\ UNCHANGED <<s1, s2, s3>>
    <2>1. SalesInv
      BY <1>4 DEF SellingInv
    <2>2. SalesInv'
      BY <1>4, <2>1 DEF SalesInv, SaleTables, Keyed, Shared, Works, Sales!Creates
    <2>3. Sales!KeepsTerminal /\ Sales!KeepsDecision
      BY <1>4 DEF Sales!KeepsTerminal, Sales!KeepsDecision, Sales!Reopened
    <2> QED
      BY <1>1, <2>2, <2>3 DEF SellingInv
  <1> QED
    BY <1>2, <1>3, <1>4, SellingMoves

\* The invariant gives what the run checks of sales.
LEMMA SalesShow == SellingInv => SalesOrdersHold
  <1> SUFFICES ASSUME SellingInv, scene \in Selling
               PROVE  Sales!TypeOK /\ Sales!LeadDecidesStatus /\ Sales!OneOrderPerKey
    BY DEF SalesOrdersHold
  <1>1. SaleTables /\ Keyed
    BY DEF SellingInv, SalesInv
  <1>2. Sales!TypeOK
    BY <1>1 DEF SaleTables, Sale, Sales!TypeOK, Clerks
  <1>3. Sales!LeadDecidesStatus
    BY <1>1 DEF SaleTables, Sales!LeadDecidesStatus, Sales!Existing, Agrees
  <1>4. ASSUME NEW k \in Keys, NEW u \in Clerks, Sales!Creates(u, k), NEW v \in s2[u].after, Sales!Creates(v, k)
        PROVE  \E w \in Clerks \ {u} : Sales!Creates(w, k) /\ s2[w].order = s2[u].order
    <2>1. k # None
      BY <1>4, SaleAssumption
    <2>2. s2[u].op = "createSalesOrder" /\ s2[u].pc = "done" /\ s2[u].seen.key = k
      BY <1>4 DEF Sales!Creates
    <2>3. Shared(u)
      BY <1>1, <1>4, <2>1, <2>2 DEF Keyed
    <2> QED
      BY <2>2, <2>3 DEF Shared
  <1>5. Sales!OneOrderPerKey
    BY <1>4 DEF Sales!OneOrderPerKey, Clerks
  <1> QED
    BY <1>2, <1>3, <1>5

\* The outcome of a lead decides the status of its order, and an order sent again under its
\* key after an answer is not made again (sales.service.ts:77-347).
THEOREM SalesHold == MCSpec => []SalesOrdersHold
  <1>1. MCInit => SellingInv
    BY SellingStarts
  <1>2. SellingInv /\ [MCNext]_<<purchaseVars, scene, slots>> => SellingInv'
    BY SellingKept
  <1> QED
    BY <1>1, <1>2, SalesShow, PTL DEF MCSpec

\* What was decided stands, races aside: expenses (finance.service.ts:281-341), orders
\* that are settled until their lead is closed, and leads (sales.service.ts:222-347).
THEOREM DecisionsAlwaysStand == MCSpec => DecisionsStand
  <1>1. /\ MCInit => PurchasingInv /\ SellingInv
        /\ PurchasingInv /\ SellingInv /\ [MCNext]_<<purchaseVars, scene, slots>> => (PurchasingInv /\ SellingInv)'
    BY PurchasingStarts, PurchasingKept, SellingStarts, SellingKept
  <1>2. PurchasingInv /\ SellingInv /\ [MCNext]_<<purchaseVars, scene, slots>> =>
          KeepsDecided /\ (scene \in Selling => Sales!KeepsTerminal /\ Sales!KeepsDecision)
    <2> SUFFICES ASSUME PurchasingInv, SellingInv, [MCNext]_<<purchaseVars, scene, slots>>
                 PROVE  KeepsDecided /\ (scene \in Selling => Sales!KeepsTerminal /\ Sales!KeepsDecision)
      OBVIOUS
    <2>1. PurchaseMove
      BY SceneMoves DEF PurchaseMove
    <2>2. [Next]_vars /\ FundLinks
      BY <2>1, FinanceMoves DEF PurchasingInv, FundedInv, WorkflowInv, FundInv
    <2> QED
      BY <2>2, DecisionsKept, SellingKept
  <1> QED
    BY <1>1, <1>2, PTL DEF MCSpec, DecisionsStand

\* What a handler of accounting may be at, and what it holds there.
Work ==
  [op : {"none", "createChartOfAccount", "postJournal", "reverseJournal", "issueInvoice", "recordPayment"},
   pc : {"idle", "insert", "write"}, id : Codes \cup Journals \cup Invoices \cup {None},
   row : Books!Journal \cup Books!Invoice \cup {None}, amount : Amounts \cup {0}]

OnJournal(x) == x.op \in {"postJournal", "reverseJournal"}
OnInvoice(x) == x.op \in {"issueInvoice", "recordPayment"}

Working(x) ==
  /\ x \in Work
  /\ x.op = "none" <=> x = Books!Idle
  /\ x.op = "createChartOfAccount" => x.id \in Codes /\ x.pc = "insert"
  /\ OnJournal(x) => x.id \in Journals /\ x.row \in Books!Journal
  /\ x.op = "postJournal" => x.pc = "write" /\ x.row.status = "DRAFT"
  /\ x.op = "reverseJournal" => x.pc \in {"write", "insert"} /\ x.row.status = "POSTED"
  /\ OnInvoice(x) => x.id \in Invoices /\ x.row \in Books!Invoice
  /\ x.op = "issueInvoice" => x.pc = "write" /\ x.row.status = "ISSUED" /\ x.row.paidAmount < Total
  /\ x.op = "recordPayment" => /\ x.pc \in {"write", "insert"} /\ x.amount \in Amounts
                               /\ x.row.status = "PAID" <=> x.row.paidAmount = Total
                               /\ x.row.status \in {"PAID", "PARTIALLY_PAID"}

\* The tables and the handlers of accounting.
LedgerTables ==
  /\ s1 \in {"memory", "prisma"}
  /\ s2 \in [Accounts -> Codes \cup {None}]
  /\ s3 \in [Journals -> Books!Journal \cup {None}]
  /\ s4 \in [Invoices -> Books!Invoice \cup {None}]
  /\ s5 \in [Invoices -> Nat]
  /\ s6 \in [Calls -> Work]
  /\ \A c \in Calls : Working(s6[c])
  /\ \A i \in Invoices : s4[i] # None => /\ s4[i].status # "PAID" => s4[i].paidAmount < Total
                                         /\ s1 = "prisma" => s4[i].paidAmount = 0
                                         /\ s1 = "memory" /\ s4[i].status = "PAID" => s4[i].paidAmount = Total
  /\ \A c \in Calls : s1 = "prisma" /\ s6[c].op = "issueInvoice" => s6[c].row.paidAmount = 0

\* One step of a handler, or of a client that makes a row.
Bookkeeps(c) == Books!AccountStep(c) \/ Books!JournalStep(c) \/ Books!InvoiceStep(c)

\* A handler that does not run holds nothing.
LEMMA IdleWork == Working(Books!Idle) /\ Books!Idle.op = "none" /\ Books!Idle.id = None /\ Books!Idle.pc = "idle"
  BY LedgerAssumption DEF Working, Work, Books!Idle, OnJournal, OnInvoice

\* What taking a row does.
LEMMA Held ==
  ASSUME LedgerTables, NEW c \in Calls, NEW op, NEW pc, NEW id, NEW row, NEW amount,
         Books!Hold(c, op, pc, id, row, amount)
  PROVE  /\ s6[c] = Books!Idle
         /\ s6'[c] = [op |-> op, pc |-> pc, id |-> id, row |-> row, amount |-> amount]
         /\ \A d \in Calls \ {c} : s6'[d] = s6[d]
         /\ s6' = [s6 EXCEPT ![c] = s6'[c]]
         /\ s7 \subseteq s7'
         /\ id \notin s7' => \A d \in Calls : s6[d].id # id
  BY DEF Books!Hold, Books!Holders, LedgerTables

\* What finishing does,
LEMMA Finished ==
  ASSUME LedgerTables, NEW c \in Calls, Books!Finish(c)
  PROVE  /\ s6'[c] = Books!Idle /\ \A d \in Calls \ {c} : s6'[d] = s6[d]
         /\ s6' = [s6 EXCEPT ![c] = s6'[c]]
  BY DEF Books!Finish, LedgerTables

\* and going on.
LEMMA Went ==
  ASSUME LedgerTables, NEW c \in Calls, s6' = [s6 EXCEPT ![c].pc = "insert"]
  PROVE  /\ s6'[c].op = s6[c].op /\ s6'[c].pc = "insert" /\ s6'[c].id = s6[c].id
         /\ s6'[c].row = s6[c].row /\ s6'[c].amount = s6[c].amount
         /\ s6'[c] \in Work
         /\ \A d \in Calls \ {c} : s6'[d] = s6[d]
         /\ s6' = [s6 EXCEPT ![c] = s6'[c]]
  <1>1. s6[c] \in Work
    BY DEF LedgerTables
  <1>2. [s6[c] EXCEPT !.pc = "insert"] \in Work
    BY <1>1 DEF Work
  <1>3. s6'[c] = [s6[c] EXCEPT !.pc = "insert"]
    BY DEF LedgerTables
  <1> QED
    BY <1>1, <1>2, <1>3 DEF LedgerTables, Work

\* The tables stay well formed if the row written and the new state of the handler are.
LEMMA TablesStay ==
  ASSUME LedgerTables, NEW c \in Calls, s1' = s1, s6' = [s6 EXCEPT ![c] = s6'[c]], Working(s6'[c]),
         s2' \in [Accounts -> Codes \cup {None}], s3' \in [Journals -> Books!Journal \cup {None}],
         s4' = s4, s5' = s5, s1 = "prisma" /\ s6'[c].op = "issueInvoice" => s6'[c].row.paidAmount = 0
  PROVE  LedgerTables'
  <1>1. s6'[c] \in Work
    BY DEF Working
  <1>2. \A d \in Calls \ {c} : s6'[d] = s6[d]
    BY DEF LedgerTables
  <1> QED
    BY <1>1, <1>2 DEF LedgerTables

\* The handlers of accounts,
LEMMA AccountTables == ASSUME LedgerTables, NEW c \in Calls, Books!AccountStep(c) PROVE LedgerTables'
  <1>1. ASSUME NEW code \in Codes, Books!CreateChartOfAccount(c, code) PROVE LedgerTables'
    <2>1. s6'[c] = [op |-> "createChartOfAccount", pc |-> "insert", id |-> code, row |-> None, amount |-> 0]
          /\ s6' = [s6 EXCEPT ![c] = s6'[c]]
      BY <1>1, Held DEF Books!CreateChartOfAccount
    <2>2. PICK x : x = [op |-> "createChartOfAccount", pc |-> "insert", id |-> code, row |-> None, amount |-> 0]
      OBVIOUS
    <2>3. Working(x) /\ x.op = "createChartOfAccount"
      BY <2>2 DEF Working, Work, OnJournal, OnInvoice, Books!Idle
    <2>4. UNCHANGED <<s1, s2, s3, s4, s5>> /\ s6'[c] = x
      BY <1>1, <2>1, <2>2 DEF Books!CreateChartOfAccount
    <2> QED
      BY <2>1, <2>3, <2>4, TablesStay DEF LedgerTables
  <1>2. ASSUME NEW a \in Accounts, Books!InsertAccount(c, a) PROVE LedgerTables'
    <2>1. s6'[c] = Books!Idle /\ s6' = [s6 EXCEPT ![c] = s6'[c]]
      BY <1>2, Finished DEF Books!InsertAccount
    <2>2. s6[c].id \in Codes
      BY <1>2 DEF Books!InsertAccount, LedgerTables, Working
    <2>3. s2' \in [Accounts -> Codes \cup {None}]
      BY <1>2, <2>2 DEF Books!InsertAccount, LedgerTables
    <2>4. UNCHANGED <<s1, s3, s4, s5>>
      BY <1>2 DEF Books!InsertAccount
    <2> QED
      BY <2>1, <2>3, <2>4, IdleWork, TablesStay DEF LedgerTables
  <1> QED
    BY <1>1, <1>2 DEF Books!AccountStep

\* What the handlers of journals do to the tables and to themselves.
JournalMoves(c) ==
  /\ UNCHANGED <<s1, s2, s4, s5, s8>>
  /\ s6' = [s6 EXCEPT ![c] = s6'[c]]
  /\ s7 \subseteq s7'

\* Taking a journal to post or to reverse it,
LEMMA JournalTaken ==
  ASSUME LedgerTables, NEW c \in Calls, NEW j \in Journals, Books!PostJournal(c, j) \/ Books!ReverseJournal(c, j)
  PROVE  /\ JournalMoves(c) /\ s3' = s3 /\ s3[j] \in Books!Journal
         /\ s6[c] = Books!Idle
         /\ s6'[c].id = j /\ s6'[c].pc = "write" /\ s6'[c].row = s3[j]
         /\ \/ Books!PostJournal(c, j) /\ s6'[c].op = "postJournal" /\ s3[j].status = "DRAFT"
            \/ Books!ReverseJournal(c, j) /\ s6'[c].op = "reverseJournal" /\ s3[j].status = "POSTED"
         /\ Working(s6'[c])
         /\ j \notin s7' => \A d \in Calls : s6[d].id # j
  <1>1. s3[j] \in Books!Journal
    BY DEF Books!PostJournal, Books!ReverseJournal, Books!Postable, Books!Reversible, LedgerTables
  <1>2. CASE Books!PostJournal(c, j)
    <2>1. PICK x : x = [op |-> "postJournal", pc |-> "write", id |-> j, row |-> s3[j], amount |-> 0]
      OBVIOUS
    <2>2. s6'[c] = x /\ s6[c] = Books!Idle /\ JournalMoves(c) /\ (j \notin s7' => \A d \in Calls : s6[d].id # j)
      BY <1>2, <2>1, Held DEF Books!PostJournal, JournalMoves
    <2>3. s3[j].status = "DRAFT"
      BY <1>1, <1>2 DEF Books!PostJournal, Books!Postable, Books!Journal, Books!JournalStatus
    <2>4. Working(x)
      BY <1>1, <2>1, <2>3 DEF Working, Work, OnJournal, OnInvoice, Books!Idle
    <2>5. s3' = s3 /\ x.op = "postJournal" /\ x.pc = "write" /\ x.id = j /\ x.row = s3[j]
      BY <1>2, <2>1 DEF Books!PostJournal
    <2> QED
      BY <1>1, <1>2, <2>2, <2>3, <2>4, <2>5
  <1>3. CASE Books!ReverseJournal(c, j)
    <2>1. PICK x : x = [op |-> "reverseJournal", pc |-> "write", id |-> j, row |-> s3[j], amount |-> 0]
      OBVIOUS
    <2>2. s6'[c] = x /\ s6[c] = Books!Idle /\ JournalMoves(c) /\ (j \notin s7' => \A d \in Calls : s6[d].id # j)
      BY <1>3, <2>1, Held DEF Books!ReverseJournal, JournalMoves
    <2>3. s3[j].status = "POSTED"
      BY <1>3 DEF Books!ReverseJournal, Books!Reversible
    <2>4. Working(x)
      BY <1>1, <2>1, <2>3 DEF Working, Work, OnJournal, OnInvoice, Books!Idle
    <2>5. s3' = s3 /\ x.op = "reverseJournal" /\ x.pc = "write" /\ x.id = j /\ x.row = s3[j]
      BY <1>3, <2>1 DEF Books!ReverseJournal
    <2> QED
      BY <1>1, <1>3, <2>2, <2>3, <2>4, <2>5
  <1> QED
    BY <1>2, <1>3

\* The row a handler writes: the copy with its new status.
Rewritten(c) == [s6[c].row EXCEPT !.status = IF s6[c].op = "reverseJournal" THEN "REVERSED" ELSE "POSTED"]

\* writing it back,
LEMMA JournalWritten ==
  ASSUME LedgerTables, NEW c \in Calls, Books!WriteJournal(c)
  PROVE  /\ JournalMoves(c) /\ s7' = s7
         /\ OnJournal(s6[c]) /\ s6[c].pc = "write" /\ s6[c].id \in Journals
         /\ s3' = [s3 EXCEPT ![s6[c].id] = Rewritten(c)]
         /\ Rewritten(c) \in Books!Journal
         /\ Rewritten(c).status = IF s6[c].op = "reverseJournal" THEN "REVERSED" ELSE "POSTED"
         /\ Rewritten(c).reference = s6[c].row.reference /\ Rewritten(c).prefixes = s6[c].row.prefixes
         /\ Rewritten(c).of = s6[c].row.of
         /\ s6[c].op = "postJournal" => s6'[c] = Books!Idle
         /\ s6[c].op = "reverseJournal" =>
              s6'[c].op = "reverseJournal" /\ s6'[c].pc = "insert" /\ s6'[c].id = s6[c].id /\ s6'[c].row = s6[c].row
         /\ Working(s6'[c])
  <1>1. /\ OnJournal(s6[c]) /\ s6[c].pc = "write" /\ UNCHANGED <<s1, s2, s4, s5, s7, s8>>
        /\ s3' = [s3 EXCEPT ![s6[c].id] = Rewritten(c)]
    BY DEF Books!WriteJournal, OnJournal, Rewritten
  <1>2. Working(s6[c]) /\ s6[c].row \in Books!Journal /\ s6[c].id \in Journals
    BY <1>1 DEF LedgerTables, Working
  <1>3. PICK r, st : r = s6[c].row /\ st = IF s6[c].op = "reverseJournal" THEN "REVERSED" ELSE "POSTED"
    OBVIOUS
  <1>4. /\ [r EXCEPT !.status = st] \in Books!Journal /\ [r EXCEPT !.status = st].status = st
        /\ [r EXCEPT !.status = st].reference = r.reference /\ [r EXCEPT !.status = st].prefixes = r.prefixes
        /\ [r EXCEPT !.status = st].of = r.of
    BY <1>2, <1>3 DEF Books!Journal, Books!JournalStatus
  <1>5. Rewritten(c) = [r EXCEPT !.status = st]
    BY <1>3 DEF Rewritten
  <1>6. CASE s6[c].op = "reverseJournal"
    <2>1. s6' = [s6 EXCEPT ![c].pc = "insert"]
      BY <1>6 DEF Books!WriteJournal
    <2>2. s6'[c].op = "reverseJournal" /\ s6'[c].pc = "insert" /\ s6'[c].id = s6[c].id /\ s6'[c].row = s6[c].row
          /\ s6'[c] \in Work /\ s6' = [s6 EXCEPT ![c] = s6'[c]]
      BY <1>6, <2>1, Went
    <2>3. Working(s6'[c])
      BY <1>2, <1>6, <2>2 DEF Working, OnJournal, OnInvoice, Books!Idle
    <2> QED
      BY <1>1, <1>2, <1>3, <1>4, <1>5, <1>6, <2>2, <2>3 DEF JournalMoves
  <1>7. CASE s6[c].op = "postJournal"
    <2>1. Books!Finish(c)
      BY <1>7 DEF Books!WriteJournal
    <2> QED
      BY <1>1, <1>2, <1>3, <1>4, <1>5, <1>7, <2>1, Finished, IdleWork DEF JournalMoves
  <1> QED
    BY <1>1, <1>6, <1>7 DEF OnJournal

\* The reversal of the journal a handler holds.
ReversalOf(c) ==
  [s6[c].row EXCEPT !.prefixes = s6[c].row.prefixes + 1, !.of = s6[c].id, !.status = "POSTED"]

\* and making the reversal.
LEMMA ReversalMade ==
  ASSUME LedgerTables, NEW c \in Calls, NEW j \in Journals, Books!InsertReversal(c, j)
  PROVE  /\ JournalMoves(c) /\ s7' = s7
         /\ s6[c].op = "reverseJournal" /\ s6[c].pc = "insert" /\ s6[c].id \in Journals
         /\ s6'[c] = Books!Idle /\ s3[j] = None
         /\ ReversalOf(c) \in Books!Journal
         /\ ReversalOf(c).of = s6[c].id /\ ReversalOf(c).status = "POSTED"
         /\ ReversalOf(c).reference = s6[c].row.reference /\ ReversalOf(c).prefixes = s6[c].row.prefixes + 1
         /\ IF Books!Insertable(s6[c].row.reference, s6[c].row.prefixes + 1)
              THEN s3' = [s3 EXCEPT ![j] = ReversalOf(c)] ELSE s3' = s3
  <1>1. /\ s6[c].op = "reverseJournal" /\ s6[c].pc = "insert" /\ UNCHANGED <<s1, s2, s4, s5, s7, s8>>
        /\ Books!Finish(c) /\ s3[j] = None
    BY DEF Books!InsertReversal, Books!New
  <1>2. s6[c].id \in Journals /\ s6[c].row \in Books!Journal
    BY <1>1 DEF LedgerTables, Working, OnJournal
  <1>3. s6'[c] = Books!Idle /\ JournalMoves(c)
    BY <1>1, Finished DEF JournalMoves
  <1>4. PICK r, k, n : r = s6[c].row /\ k = s6[c].id /\ n = r.prefixes + 1
    OBVIOUS
  <1>5. PICK x : x = [r EXCEPT !.prefixes = n, !.of = k, !.status = "POSTED"]
    OBVIOUS
  <1>6. /\ x \in Books!Journal /\ x.of = k /\ x.status = "POSTED" /\ x.reference = r.reference
        /\ x.prefixes = n /\ ReversalOf(c) = x
    <2>1. r.prefixes \in Nat /\ n \in Nat
      BY <1>2, <1>4 DEF Books!Journal
    <2>2. x \in Books!Journal
      BY <1>2, <1>4, <1>5, <2>1 DEF Books!Journal, Books!JournalStatus
    <2>3. x.of = k /\ x.status = "POSTED" /\ x.reference = r.reference /\ x.prefixes = n
      BY <1>2, <1>4, <1>5 DEF Books!Journal
    <2>4. ReversalOf(c) = x
      BY <1>4, <1>5 DEF ReversalOf
    <2> QED
      BY <2>2, <2>3, <2>4
  <1>7. IF Books!Insertable(s6[c].row.reference, s6[c].row.prefixes + 1)
              THEN s3' = [s3 EXCEPT ![j] = ReversalOf(c)] ELSE s3' = s3
    BY DEF Books!InsertReversal, ReversalOf
  <1> QED
    BY <1>1, <1>2, <1>3, <1>4, <1>6, <1>7

\* of journals
LEMMA JournalTables == ASSUME LedgerTables, NEW c \in Calls, Books!JournalStep(c) PROVE LedgerTables'
  <1>1. ASSUME NEW j \in Journals, Books!PostJournal(c, j) \/ Books!ReverseJournal(c, j) PROVE LedgerTables'
    BY <1>1, JournalTaken, TablesStay DEF JournalMoves, LedgerTables
  <1>2. ASSUME NEW j \in Journals, Books!InsertReversal(c, j) PROVE LedgerTables'
    <2>1. s3' \in [Journals -> Books!Journal \cup {None}] /\ s6'[c] = Books!Idle /\ JournalMoves(c)
      BY <1>2, ReversalMade DEF LedgerTables
    <2> QED
      BY <2>1, IdleWork, TablesStay DEF JournalMoves, LedgerTables
  <1>3. CASE Books!WriteJournal(c)
    <2>1. s3' \in [Journals -> Books!Journal \cup {None}] /\ Working(s6'[c]) /\ JournalMoves(c)
      BY <1>3, JournalWritten DEF LedgerTables
    <2>2. s6'[c].op # "issueInvoice"
      BY <1>3, JournalWritten, IdleWork DEF OnJournal
    <2> QED
      BY <2>1, <2>2, TablesStay DEF JournalMoves, LedgerTables
  <1> QED
    BY <1>1, <1>2, <1>3 DEF Books!JournalStep

\* Likewise for invoices: a handler takes one,
LEMMA InvoiceIssued ==
  ASSUME LedgerTables, NEW c \in Calls, NEW i \in Invoices, Books!IssueInvoice(c, i)
  PROVE  /\ s6[c] = Books!Idle /\ s6' = [s6 EXCEPT ![c] = s6'[c]] /\ Working(s6'[c])
         /\ s6'[c].op = "issueInvoice" /\ s6'[c].id = i /\ s6'[c].pc = "write"
         /\ s4[i] # None /\ s4[i].status = "DRAFT"
         /\ s6'[c].row.paidAmount = s4[i].paidAmount
         /\ UNCHANGED <<s1, s2, s3, s4, s5, s8>> /\ s7 \subseteq s7'
         /\ i \notin s7' => \A d \in Calls : s6[d].id # i
  <1>1. s4[i] \in Books!Invoice /\ s4[i] # None /\ s4[i].status = "DRAFT" /\ s4[i].paidAmount < Total
    BY DEF Books!IssueInvoice, Books!Present, LedgerTables
  <1>2. PICK r : r = [s4[i] EXCEPT !.status = "ISSUED"]
    OBVIOUS
  <1>3. r \in Books!Invoice /\ r.status = "ISSUED" /\ r.paidAmount = s4[i].paidAmount
    BY <1>1, <1>2 DEF Books!Invoice, Books!InvoiceStatus
  <1>4. PICK x : x = [op |-> "issueInvoice", pc |-> "write", id |-> i, row |-> r, amount |-> 0]
    OBVIOUS
  <1>5. Working(x) /\ x.op = "issueInvoice" /\ x.id = i /\ x.row = r /\ x.pc = "write"
    BY <1>1, <1>3, <1>4 DEF Working, Work, OnJournal, OnInvoice, Books!Idle
  <1>6. /\ s6[c] = Books!Idle /\ s6'[c] = x /\ s6' = [s6 EXCEPT ![c] = s6'[c]] /\ s7 \subseteq s7'
        /\ i \notin s7' => \A d \in Calls : s6[d].id # i
    BY <1>2, <1>4, Held DEF Books!IssueInvoice
  <1> QED
    BY <1>1, <1>3, <1>5, <1>6 DEF Books!IssueInvoice

\* a payment is checked against the balance,
LEMMA PaymentTaken ==
  ASSUME LedgerTables, NEW c \in Calls, NEW i \in Invoices, NEW n \in Amounts, Books!RecordPayment(c, i, n)
  PROVE  /\ s6[c] = Books!Idle /\ s6' = [s6 EXCEPT ![c] = s6'[c]] /\ Working(s6'[c])
         /\ s6'[c].op = "recordPayment" /\ s6'[c].id = i /\ s6'[c].pc = "write" /\ s6'[c].amount = n
         /\ s4[i] # None /\ s4[i].status # "PAID"
         /\ s6'[c].row.paidAmount = s4[i].paidAmount + n
         /\ UNCHANGED <<s1, s2, s3, s4, s5, s8>> /\ s7 \subseteq s7'
         /\ i \notin s7' => \A d \in Calls : s6[d].id # i
  <1>1. s4[i] \in Books!Invoice /\ s4[i] # None /\ s4[i].status # "PAID" /\ n <= Total - s4[i].paidAmount /\ n \in Nat
        /\ s4[i].paidAmount \in 0 .. Total
    BY AmountAssumption DEF Books!RecordPayment, Books!RemainingBalance, Books!Present, LedgerTables, Books!Invoice
  <1>2. PICK p : p = s4[i].paidAmount + n
    OBVIOUS
  <1>3. PICK r : r = [paidAmount |-> p, status |-> IF p = Total THEN "PAID" ELSE "PARTIALLY_PAID"]
    OBVIOUS
  <1>4. p \in 0 .. Total
    BY <1>1, <1>2, LedgerAssumption
  <1>5. r \in Books!Invoice /\ (r.status = "PAID" <=> r.paidAmount = Total) /\ r.status \in {"PAID", "PARTIALLY_PAID"}
        /\ r.paidAmount = p /\ r = Books!Paid(s4[i], n)
    BY <1>2, <1>3, <1>4 DEF Books!Invoice, Books!InvoiceStatus, Books!Paid
  <1>6. PICK x : x = [op |-> "recordPayment", pc |-> "write", id |-> i, row |-> r, amount |-> n]
    OBVIOUS
  <1>7. Working(x) /\ x.op = "recordPayment" /\ x.id = i /\ x.row = r /\ x.pc = "write" /\ x.amount = n
    BY <1>5, <1>6 DEF Working, Work, OnJournal, OnInvoice, Books!Idle
  <1>8. /\ s6[c] = Books!Idle /\ s6'[c] = x /\ s6' = [s6 EXCEPT ![c] = s6'[c]] /\ s7 \subseteq s7'
        /\ i \notin s7' => \A d \in Calls : s6[d].id # i
    BY <1>5, <1>6, Held DEF Books!RecordPayment
  <1> QED
    BY <1>1, <1>2, <1>5, <1>7, <1>8 DEF Books!RecordPayment

\* writes it,
LEMMA InvoiceWritten ==
  ASSUME LedgerTables, NEW c \in Calls, Books!WriteInvoice(c)
  PROVE  /\ OnInvoice(s6[c]) /\ s6[c].pc = "write" /\ s6[c].id \in Invoices
         /\ s6' = [s6 EXCEPT ![c] = s6'[c]] /\ Working(s6'[c])
         /\ UNCHANGED <<s1, s2, s3, s5, s7, s8>>
         /\ \/ s4' = s4 /\ s6[c].op = "recordPayment" /\ s6'[c] = Books!Idle
            \/ /\ s4' = [s4 EXCEPT ![s6[c].id] = Books!Stored(s6[c].row)]
               /\ Books!Stored(s6[c].row) \in Books!Invoice /\ Books!Storable(s6[c].row)
               /\ s6[c].op = "issueInvoice" => s6'[c] = Books!Idle
               /\ s6[c].op = "recordPayment" =>
                    s6'[c].op = "recordPayment" /\ s6'[c].pc = "insert" /\ s6'[c].id = s6[c].id
                    /\ s6'[c].row = s6[c].row /\ s6'[c].amount = s6[c].amount
  <1>1. OnInvoice(s6[c]) /\ s6[c].pc = "write" /\ UNCHANGED <<s1, s2, s3, s5, s7, s8>>
    BY DEF Books!WriteInvoice, OnInvoice
  <1>2. Working(s6[c]) /\ s6[c].id \in Invoices /\ s6[c].row \in Books!Invoice
    BY <1>1 DEF LedgerTables, Working
  <1>3. Books!Stored(s6[c].row) \in Books!Invoice
    BY <1>2, LedgerAssumption DEF Books!Stored, Books!Invoice, Books!InvoiceStatus
  <1>4. CASE Books!Storable(s6[c].row) /\ s6[c].op = "recordPayment"
    <2>1. s6' = [s6 EXCEPT ![c].pc = "insert"] /\ s4' = [s4 EXCEPT ![s6[c].id] = Books!Stored(s6[c].row)]
      BY <1>4 DEF Books!WriteInvoice
    <2>2. s6'[c].op = "recordPayment" /\ s6'[c].pc = "insert" /\ s6'[c].id = s6[c].id /\ s6'[c].row = s6[c].row
          /\ s6'[c].amount = s6[c].amount /\ s6'[c] \in Work /\ s6' = [s6 EXCEPT ![c] = s6'[c]]
      BY <1>4, <2>1, Went
    <2>3. Working(s6'[c])
      BY <1>2, <1>4, <2>2 DEF Working, OnJournal, OnInvoice, Books!Idle
    <2> QED
      BY <1>1, <1>2, <1>3, <1>4, <2>1, <2>2, <2>3
  <1>5. CASE ~(Books!Storable(s6[c].row) /\ s6[c].op = "recordPayment")
    <2>1. Books!Finish(c)
      BY <1>5 DEF Books!WriteInvoice
    <2>2. s6'[c] = Books!Idle /\ s6' = [s6 EXCEPT ![c] = s6'[c]] /\ Working(s6'[c])
      BY <2>1, Finished, IdleWork
    <2>3. s4' = IF Books!Storable(s6[c].row) THEN [s4 EXCEPT ![s6[c].id] = Books!Stored(s6[c].row)] ELSE s4
      BY DEF Books!WriteInvoice
    <2>4. s6[c].op = "issueInvoice" => Books!Storable(s6[c].row)
      BY <1>2 DEF Working, Books!Storable
    <2> QED
      BY <1>1, <1>2, <1>3, <1>5, <2>2, <2>3, <2>4 DEF OnInvoice
  <1> QED
    BY <1>4, <1>5

\* and records the payment.
LEMMA PaymentInserted ==
  ASSUME LedgerTables, NEW c \in Calls, Books!InsertPayment(c)
  PROVE  /\ s6[c].op = "recordPayment" /\ s6[c].pc = "insert" /\ s6[c].id \in Invoices
         /\ s6' = [s6 EXCEPT ![c] = s6'[c]] /\ s6'[c] = Books!Idle
         /\ UNCHANGED <<s1, s2, s3, s4, s7>>
         /\ \/ s8' = s8 /\ s5' = [s5 EXCEPT ![s6[c].id] = s5[s6[c].id] + s6[c].amount]
            \/ s5' = s5 /\ s8' = s8 \cup {s6[c].id}
  <1>1. s6[c].op = "recordPayment" /\ s6[c].pc = "insert" /\ Books!Finish(c) /\ UNCHANGED <<s1, s2, s3, s4, s7>>
    BY DEF Books!InsertPayment
  <1>2. s6[c].id \in Invoices
    BY <1>1 DEF LedgerTables, Working, OnInvoice
  <1>3. s6'[c] = Books!Idle /\ s6' = [s6 EXCEPT ![c] = s6'[c]]
    BY <1>1, Finished
  <1> QED
    BY <1>1, <1>2, <1>3 DEF Books!InsertPayment

\* of invoices,
LEMMA InvoiceTables == ASSUME LedgerTables, NEW c \in Calls, Books!InvoiceStep(c) PROVE LedgerTables'
  <1>1. ASSUME NEW i \in Invoices, Books!IssueInvoice(c, i) PROVE LedgerTables'
    <2>1. s1 = "prisma" /\ s6'[c].op = "issueInvoice" => s6'[c].row.paidAmount = 0
      BY <1>1, InvoiceIssued DEF LedgerTables
    <2> QED
      BY <1>1, <2>1, InvoiceIssued, TablesStay DEF LedgerTables
  <1>2. ASSUME NEW i \in Invoices, NEW n \in Amounts, Books!RecordPayment(c, i, n) PROVE LedgerTables'
    BY <1>2, PaymentTaken, TablesStay DEF LedgerTables
  <1>3. CASE Books!WriteInvoice(c)
    <2>1. Working(s6'[c]) /\ s6' = [s6 EXCEPT ![c] = s6'[c]] /\ UNCHANGED <<s1, s2, s3, s5>> /\ s6'[c].op # "issueInvoice"
      BY <1>3, InvoiceWritten, IdleWork DEF OnInvoice
    <2>2. CASE s4' = s4
      BY <2>1, <2>2, TablesStay DEF LedgerTables
    <2>3. CASE s4' = [s4 EXCEPT ![s6[c].id] = Books!Stored(s6[c].row)]
      <3>1. PICK r, i : r = s6[c].row /\ i = s6[c].id
        OBVIOUS
      <3>2. Working(s6[c]) /\ r \in Books!Invoice /\ i \in Invoices /\ (s1 = "prisma" /\ s6[c].op = "issueInvoice" => r.paidAmount = 0)
        BY <1>3, <3>1, InvoiceWritten DEF LedgerTables, Working
      <3>3. Books!Stored(r) \in Books!Invoice /\ (s4' # s4 => Books!Storable(r))
        <4>1. Books!Stored(r) \in Books!Invoice
          BY <3>2, LedgerAssumption DEF Books!Stored, Books!Invoice, Books!InvoiceStatus
        <4>2. s4' # s4 => Books!Storable(r)
          BY <1>3, <3>1, InvoiceWritten
        <4> QED
          BY <4>1, <4>2
      <3>4. CASE s4' # s4
        <4>1. PICK q : q = Books!Stored(r)
          OBVIOUS
        <4>2. /\ q.status # "PAID" => q.paidAmount < Total
              /\ s1 = "prisma" => q.paidAmount = 0
              /\ s1 = "memory" /\ q.status = "PAID" => q.paidAmount = Total
          <5>1. r.paidAmount \in 0 .. Total /\ Total > 0
            BY <3>2, LedgerAssumption DEF Books!Invoice
          <5>2. \/ r.status = "ISSUED" /\ r.paidAmount < Total
                \/ (r.status = "PAID" <=> r.paidAmount = Total) /\ r.status \in {"PAID", "PARTIALLY_PAID"}
            BY <1>3, <3>1, <3>2, InvoiceWritten DEF Working, OnInvoice
          <5>3. CASE s1 = "memory"
            <6>1. q = r
              BY <4>1, <5>3 DEF Books!Stored
            <6>2. r.paidAmount <= Total /\ r.paidAmount \in Nat /\ Total \in Nat
              BY <5>1, LedgerAssumption
            <6>3. r.status # "PAID" => r.paidAmount # Total
              BY <5>2, <6>2
            <6>4. r.status = "PAID" => r.paidAmount = Total
              BY <5>2
            <6>5. r.status # "PAID" => r.paidAmount < Total
              BY <6>2, <6>3
            <6> QED
              BY <5>3, <6>1, <6>4, <6>5
          <5>4. CASE s1 = "prisma"
            <6>1. q.paidAmount = 0
              BY <4>1, <5>4 DEF Books!Stored
            <6> QED
              BY <5>1, <5>4, <6>1
          <5> QED
            BY <5>3, <5>4 DEF LedgerTables
        <4>3. s4' = [s4 EXCEPT ![i] = q] /\ q \in Books!Invoice
          BY <2>3, <3>1, <3>3, <4>1
        <4>4. s6' \in [Calls -> Work] /\ \A d \in Calls : Working(s6'[d]) /\ (s1 = "prisma" /\ s6'[d].op = "issueInvoice" => s6'[d].row.paidAmount = 0)
          BY <2>1 DEF LedgerTables, Working
        <4> QED
          BY <2>1, <3>2, <4>2, <4>3, <4>4 DEF LedgerTables
      <3> QED
        BY <3>4, <2>2
    <2> QED
      BY <1>3, <2>2, <2>3, InvoiceWritten
  <1>4. CASE Books!InsertPayment(c)
    <2>1. s6'[c] = Books!Idle /\ s6' = [s6 EXCEPT ![c] = s6'[c]] /\ UNCHANGED <<s1, s2, s3, s4>>
      BY <1>4, PaymentInserted
    <2>2. s6[c].amount \in Nat /\ s6[c].id \in Invoices
      BY <1>4, PaymentInserted, AmountAssumption DEF LedgerTables, Working
    <2>3. s5' \in [Invoices -> Nat]
      BY <1>4, <2>2, PaymentInserted DEF LedgerTables
    <2>4. s6' \in [Calls -> Work] /\ \A d \in Calls : Working(s6'[d]) /\ (s1 = "prisma" /\ s6'[d].op = "issueInvoice" => s6'[d].row.paidAmount = 0)
      BY <2>1, IdleWork DEF LedgerTables, Working
    <2> QED
      BY <2>1, <2>3, <2>4 DEF LedgerTables
  <1> QED
    BY <1>1, <1>2, <1>3, <1>4 DEF Books!InvoiceStep

\* A client makes a row.
LEMMA MadeTables == ASSUME LedgerTables, Books!Create PROVE LedgerTables'
  <1>1. ASSUME NEW j \in Journals, NEW ref \in References, NEW n \in Amounts, Books!CreateJournal(j, ref, n)
        PROVE  LedgerTables'
    <2>1. PICK r : r = [reference |-> ref, prefixes |-> 0, of |-> None, amount |-> n, status |-> "DRAFT"]
      OBVIOUS
    <2>2. r \in Books!Journal /\ s3' = [s3 EXCEPT ![j] = r]
      BY <1>1, <2>1 DEF Books!Journal, Books!JournalStatus, Books!CreateJournal
    <2> QED
      BY <1>1, <2>2 DEF LedgerTables, Books!CreateJournal
  <1>2. ASSUME NEW i \in Invoices, Books!CreateInvoice(i) PROVE LedgerTables'
    <2>1. PICK r : r = Books!Stored([paidAmount |-> 0, status |-> "DRAFT"])
      OBVIOUS
    <2>2. r = [paidAmount |-> 0, status |-> "DRAFT"]
      BY <2>1 DEF Books!Stored
    <2>3. r \in Books!Invoice /\ r.paidAmount = 0 /\ r.status = "DRAFT" /\ s4' = [s4 EXCEPT ![i] = r]
      BY <1>2, <2>1, <2>2, LedgerAssumption DEF Books!Invoice, Books!InvoiceStatus, Books!CreateInvoice
    <2>4. UNCHANGED <<s1, s2, s3, s5, s6>>
      BY <1>2 DEF Books!CreateInvoice
    <2> QED
      BY <2>3, <2>4, LedgerAssumption DEF LedgerTables
  <1> QED
    BY <1>1, <1>2 DEF Books!Create

\* What a row says was paid: all of it, or what it has counted.
Says(row) == IF row.status = "PAID" THEN Total ELSE row.paidAmount

\* Handler x has written the row of invoice i and is to record the payment.
Paying(x, i) == x.op = "recordPayment" /\ x.pc = "insert" /\ x.id = i

\* The copy a handler of invoice i is to write counts what was received, and what the
\* handler adds to it.
Counts(x, i) ==
  /\ x.op = "issueInvoice" => x.row.paidAmount = s5[i]
  /\ x.op = "recordPayment" /\ x.pc = "write" => x.row.paidAmount = s5[i] + x.amount
  /\ Paying(x, i) => Says(s4[i]) = s5[i] + x.amount

\* An invoice that one handler at a time held says what was received for it.
Receipted(i) ==
  /\ \A c, d \in Calls : OnInvoice(s6[c]) /\ OnInvoice(s6[d]) /\ s6[c].id = i /\ s6[d].id = i => c = d
  /\ \A c \in Calls : OnInvoice(s6[c]) /\ s6[c].id = i => Counts(s6[c], i)
  /\ (\A c \in Calls : ~Paying(s6[c], i)) => Says(s4[i]) = s5[i]

PaymentInv ==
  /\ \A c \in Calls : OnInvoice(s6[c]) => s4[s6[c].id] # None
  /\ \A i \in Invoices : s4[i] = None => s5[i] = 0
  /\ \A i \in Invoices \ (s7 \cup s8) : s4[i] # None => Receipted(i)

\* Handlers of other things leave the invoices and their handlers alone.
LEMMA PaymentsElsewhere ==
  ASSUME LedgerTables, PaymentInv, NEW c \in Calls, s6' = [s6 EXCEPT ![c] = s6'[c]],
         ~OnInvoice(s6[c]), ~OnInvoice(s6'[c]), UNCHANGED <<s4, s5, s8>>, s7 \subseteq s7'
  PROVE  PaymentInv'
  <1>1. \A d \in Calls : OnInvoice(s6'[d]) => OnInvoice(s6[d]) /\ s6'[d] = s6[d]
    BY DEF LedgerTables
  <1>2. \A d \in Calls : OnInvoice(s6[d]) => OnInvoice(s6'[d]) /\ s6'[d] = s6[d]
    BY DEF LedgerTables
  <1>3. ASSUME NEW i \in Invoices \ (s7' \cup s8'), s4'[i] # None PROVE Receipted(i)'
    <2>1. Receipted(i)
      BY <1>3 DEF PaymentInv
    <2>2. (\A d \in Calls : ~Paying(s6'[d], i)) => \A d \in Calls : ~Paying(s6[d], i)
      BY <1>2 DEF Paying, OnInvoice
    <2> QED
      BY <1>1, <2>1, <2>2 DEF Receipted, Counts, Paying
  <1> QED
    BY <1>1, <1>3 DEF PaymentInv

\* An invoice nobody else writes keeps what is known of it.
LEMMA OthersReceipted ==
  ASSUME LedgerTables, NEW c \in Calls, s6' = [s6 EXCEPT ![c] = s6'[c]], NEW i \in Invoices, Receipted(i),
         OnInvoice(s6[c]) => s6[c].id # i, OnInvoice(s6'[c]) => s6'[c].id # i, s4'[i] = s4[i], s5'[i] = s5[i]
  PROVE  Receipted(i)'
  <1>1. \A d \in Calls : OnInvoice(s6'[d]) /\ s6'[d].id = i => OnInvoice(s6[d]) /\ s6'[d] = s6[d]
    BY DEF LedgerTables
  <1>2. \A d \in Calls : OnInvoice(s6[d]) /\ s6[d].id = i => OnInvoice(s6'[d]) /\ s6'[d] = s6[d]
    BY DEF LedgerTables
  <1>3. (\A d \in Calls : ~Paying(s6'[d], i)) => \A d \in Calls : ~Paying(s6[d], i)
    BY <1>2 DEF Paying, OnInvoice
  <1> QED
    BY <1>1, <1>3 DEF Receipted, Counts, Paying

\* A handler that takes an invoice copies what it says.
LEMMA TakenReceipted ==
  ASSUME LedgerTables, PaymentInv, NEW c \in Calls, NEW i \in Invoices,
         s6[c] = Books!Idle, s6' = [s6 EXCEPT ![c] = s6'[c]], OnInvoice(s6'[c]), s6'[c].id = i,
         s4[i] # None, s6'[c].pc = "write", UNCHANGED <<s4, s5, s8>>, s7 \subseteq s7',
         i \notin s7' => \A d \in Calls : s6[d].id # i,
         Says(s4[i]) = s5[i] => Counts(s6'[c], i)
  PROVE  PaymentInv'
  <1>1. \A d \in Calls \ {c} : s6'[d] = s6[d]
    BY DEF LedgerTables
  <1>2. ~OnInvoice(s6[c]) /\ s6[c].pc = "idle"
    BY IdleWork DEF OnInvoice
  <1>3. ASSUME NEW k \in Invoices \ (s7' \cup s8'), s4'[k] # None PROVE Receipted(k)'
    <2>1. Receipted(k)
      BY <1>3 DEF PaymentInv
    <2>2. CASE k # i
      BY <1>2, <2>1, <2>2, OthersReceipted
    <2>3. CASE k = i
      <3>1. \A d \in Calls : s6[d].id # i
        BY <1>3, <2>3
      <3>2. Says(s4[i]) = s5[i]
        BY <2>1, <2>3, <3>1 DEF Receipted, Paying
      <3>3. \A d \in Calls : s6'[d].id = i => d = c
        BY <1>1, <3>1
      <3>4. PICK x : x = s6'[c]
        OBVIOUS
      <3>5. Counts(x, i)' /\ ~Paying(x, i)
        BY <3>2, <3>4 DEF Counts, Paying
      <3>6. Says(s4'[i]) = s5'[i]
        BY <3>2
      <3> QED
        BY <2>3, <3>3, <3>4, <3>5, <3>6 DEF Receipted
    <2> QED
      BY <2>2, <2>3
  <1> QED
    BY <1>1, <1>3 DEF PaymentInv

\* What is written says what was received, or will have been.
LEMMA WrittenReceipted == ASSUME LedgerTables, PaymentInv, NEW c \in Calls, Books!WriteInvoice(c) PROVE PaymentInv'
  <1>1. PICK i \in Invoices : i = s6[c].id
    BY InvoiceWritten
  <1>2. /\ OnInvoice(s6[c]) /\ s6[c].pc = "write" /\ s6' = [s6 EXCEPT ![c] = s6'[c]]
        /\ UNCHANGED <<s1, s5, s7, s8>> /\ Working(s6[c]) /\ s4[i] # None
    BY <1>1, InvoiceWritten DEF LedgerTables, PaymentInv
  <1>3. \A d \in Calls \ {c} : s6'[d] = s6[d]
    BY <1>2 DEF LedgerTables
  <1>4. s4'[i] # None /\ \A k \in Invoices \ {i} : s4'[k] = s4[k]
    BY <1>1, <1>2, InvoiceWritten, LedgerAssumption DEF LedgerTables
  <1>5. OnInvoice(s6'[c]) => s6'[c].id = i
    BY <1>1, <1>2, InvoiceWritten, IdleWork DEF OnInvoice
  <1>6. ASSUME NEW k \in Invoices \ (s7' \cup s8'), s4'[k] # None PROVE Receipted(k)'
    <2>1. Receipted(k)
      BY <1>2, <1>4, <1>6 DEF PaymentInv
    <2>2. CASE k # i
      BY <1>1, <1>2, <1>4, <1>5, <2>1, <2>2, OthersReceipted
    <2>3. CASE k = i
      <3>1. \A d \in Calls : OnInvoice(s6[d]) /\ s6[d].id = i => d = c
        BY <1>1, <1>2, <2>1, <2>3 DEF Receipted
      <3>2. \A d \in Calls : OnInvoice(s6'[d]) /\ s6'[d].id = i => d = c
        BY <1>3, <3>1
      <3>3. \A d \in Calls : ~Paying(s6[d], i)
        BY <1>2, <3>1 DEF Paying, OnInvoice
      <3>4. Says(s4[i]) = s5[i] /\ Counts(s6[c], i)
        BY <1>1, <1>2, <2>1, <2>3, <3>3 DEF Receipted
      <3>5. CASE s4' = s4 /\ s6'[c] = Books!Idle
        <4>1. ~OnInvoice(s6'[c])
          BY <3>5, IdleWork DEF OnInvoice
        <4> QED
          BY <1>2, <2>3, <3>2, <3>4, <3>5, <4>1 DEF Receipted
      <3>6. CASE /\ s4' = [s4 EXCEPT ![i] = Books!Stored(s6[c].row)] /\ Books!Storable(s6[c].row)
        <4>1. PICK r, q : r = s6[c].row /\ q = Books!Stored(r)
          OBVIOUS
        <4>2. r \in Books!Invoice /\ s4'[i] = q
          BY <1>2, <3>6, <4>1 DEF Working, LedgerTables
        <4>3. Says(q) = r.paidAmount
          <5>0. /\ s1 \in {"memory", "prisma"}
                /\ s1 = "prisma" /\ s6[c].op = "issueInvoice" => r.paidAmount = 0
            BY <4>1 DEF LedgerTables
          <5>1. CASE s6[c].op = "issueInvoice"
            <6>1. r.status = "ISSUED"
              BY <1>2, <4>1, <5>1 DEF Working
            <6>2. q = r \/ (q = [paidAmount |-> 0, status |-> "DRAFT"] /\ r.paidAmount = 0)
              BY <4>1, <5>0, <5>1, <6>1 DEF Books!Stored
            <6> QED
              BY <6>1, <6>2 DEF Says
          <5>2. CASE s6[c].op = "recordPayment"
            <6>1. (r.status = "PAID" <=> r.paidAmount = Total) /\ r.status \in {"PAID", "PARTIALLY_PAID"}
              BY <1>2, <4>1, <5>2 DEF Working
            <6>2. q = r \/ (q = [paidAmount |-> 0, status |-> "PAID"] /\ r.status = "PAID")
              BY <3>6, <4>1, <5>0, <6>1 DEF Books!Stored, Books!Storable
            <6> QED
              BY <6>1, <6>2 DEF Says
          <5> QED
            BY <1>2, <5>1, <5>2 DEF OnInvoice
        <4>4. CASE s6[c].op = "issueInvoice"
          <5>1. s6'[c] = Books!Idle
            BY <1>1, <1>2, <3>6, <4>4, InvoiceWritten
          <5>2. ~OnInvoice(s6'[c])
            BY <5>1, IdleWork DEF OnInvoice
          <5>3. Says(s4'[i]) = s5[i]
            BY <3>4, <4>1, <4>2, <4>3, <4>4 DEF Counts
          <5> QED
            BY <1>2, <2>3, <3>2, <5>2, <5>3 DEF Receipted
        <4>5. CASE s6[c].op = "recordPayment" /\ s6'[c] = Books!Idle
          <5>1. s4' = s4
            BY <4>5, InvoiceWritten, IdleWork
          <5> QED
            BY <3>5, <4>5, <5>1
        <4>6. CASE s6[c].op = "recordPayment" /\ s6'[c] # Books!Idle
          <5>1. Paying(s6'[c], i) /\ s6'[c].amount = s6[c].amount
            BY <1>1, <4>6, InvoiceWritten DEF Paying
          <5>2. Says(s4'[i]) = s5[i] + s6'[c].amount
            BY <1>2, <3>4, <4>1, <4>2, <4>3, <4>6, <5>1 DEF Counts
          <5>3. PICK x : x = s6'[c]
            OBVIOUS
          <5>4. Counts(x, i)'
            BY <1>2, <5>1, <5>2, <5>3 DEF Counts, Paying
          <5> QED
            BY <1>2, <2>3, <3>2, <5>1, <5>3, <5>4 DEF Receipted, Paying
        <4> QED
          BY <1>2, <4>4, <4>5, <4>6 DEF OnInvoice
      <3> QED
        BY <1>1, <3>5, <3>6, InvoiceWritten
    <2> QED
      BY <2>2, <2>3
  <1>7. \A d \in Calls : OnInvoice(s6'[d]) => s4'[s6'[d].id] # None
    BY <1>3, <1>4, <1>5, LedgerAssumption DEF PaymentInv, LedgerTables, Working
  <1>8. \A k \in Invoices : s4'[k] = None => s5'[k] = 0
    BY <1>2, <1>4 DEF PaymentInv
  <1> QED
    BY <1>6, <1>7, <1>8 DEF PaymentInv

\* The payment is received, unless PostgreSQL refuses it.
LEMMA InsertedReceipted == ASSUME LedgerTables, PaymentInv, NEW c \in Calls, Books!InsertPayment(c) PROVE PaymentInv'
  <1>1. PICK i \in Invoices : i = s6[c].id
    BY PaymentInserted
  <1>2. /\ s6[c].op = "recordPayment" /\ s6[c].pc = "insert" /\ s6' = [s6 EXCEPT ![c] = s6'[c]] /\ s6'[c] = Books!Idle
        /\ UNCHANGED <<s1, s4, s7>> /\ s8 \subseteq s8' /\ OnInvoice(s6[c]) /\ s4[i] # None /\ ~OnInvoice(s6'[c])
    BY <1>1, PaymentInserted, IdleWork DEF OnInvoice, PaymentInv
  <1>3. \A d \in Calls \ {c} : s6'[d] = s6[d]
    BY <1>2 DEF LedgerTables
  <1>4. \A k \in Invoices \ {i} : s5'[k] = s5[k]
    BY <1>1, PaymentInserted DEF LedgerTables
  <1>5. ASSUME NEW k \in Invoices \ (s7' \cup s8'), s4'[k] # None PROVE Receipted(k)'
    <2>1. Receipted(k)
      BY <1>2, <1>5 DEF PaymentInv
    <2>2. CASE k # i
      BY <1>1, <1>2, <1>4, <2>1, <2>2, OthersReceipted
    <2>3. CASE k = i
      <3>1. s5'[i] = s5[i] + s6[c].amount
        BY <1>1, <1>5, <2>3, PaymentInserted DEF LedgerTables
      <3>2. \A d \in Calls : OnInvoice(s6[d]) /\ s6[d].id = i => d = c
        BY <1>1, <1>2, <2>1, <2>3 DEF Receipted
      <3>3. \A d \in Calls : ~(OnInvoice(s6'[d]) /\ s6'[d].id = i)
        BY <1>2, <1>3, <3>2
      <3>4. Says(s4[i]) = s5[i] + s6[c].amount
        BY <1>1, <1>2, <2>1, <2>3 DEF Receipted, Counts, Paying
      <3> QED
        BY <1>2, <2>3, <3>1, <3>3, <3>4 DEF Receipted, Paying, OnInvoice
    <2> QED
      BY <2>2, <2>3
  <1>6. \A k \in Invoices : s4'[k] = None => s5'[k] = 0
    BY <1>2, <1>4 DEF PaymentInv
  <1> QED
    BY <1>2, <1>3, <1>5, <1>6 DEF PaymentInv

\* A new invoice was not paid.
LEMMA NewReceipted == ASSUME LedgerTables, PaymentInv, NEW i \in Invoices, Books!CreateInvoice(i) PROVE PaymentInv'
  <1>1. PICK r : r = Books!Stored([paidAmount |-> 0, status |-> "DRAFT"])
    OBVIOUS
  <1>2. r.paidAmount = 0 /\ r.status = "DRAFT" /\ s4[i] = None /\ s4' = [s4 EXCEPT ![i] = r] /\ UNCHANGED <<s5, s6, s7, s8>>
    BY <1>1 DEF Books!Stored, Books!CreateInvoice, Books!New
  <1>3. r # None
    BY <1>1, LedgerAssumption DEF Books!Stored, Books!Invoice, Books!InvoiceStatus
  <1>4. \A d \in Calls : ~(OnInvoice(s6[d]) /\ s6[d].id = i)
    BY <1>2 DEF PaymentInv
  <1>5. s4'[i] = r /\ \A k \in Invoices \ {i} : s4'[k] = s4[k]
    BY <1>2 DEF LedgerTables
  <1>6. ASSUME NEW k \in Invoices \ (s7' \cup s8'), s4'[k] # None PROVE Receipted(k)'
    <2>1. CASE k # i
      <3>1. Receipted(k) /\ s4'[k] = s4[k]
        BY <1>2, <1>5, <1>6, <2>1 DEF PaymentInv
      <3> QED
        BY <1>2, <3>1 DEF Receipted, Counts, Paying
    <2>2. CASE k = i
      <3>1. s5[i] = 0
        BY <1>2 DEF PaymentInv
      <3> QED
        BY <1>2, <1>4, <1>5, <2>2, <3>1 DEF Receipted, Says, Paying, OnInvoice
    <2> QED
      BY <2>1, <2>2
  <1> QED
    BY <1>2, <1>3, <1>5, <1>6 DEF PaymentInv, LedgerTables

\* Every step keeps what is known of payments.
LEMMA InvoicesReceipted == ASSUME LedgerTables, PaymentInv, NEW c \in Calls, Books!InvoiceStep(c) PROVE PaymentInv'
  <1>1. ASSUME NEW i \in Invoices, Books!IssueInvoice(c, i) PROVE PaymentInv'
    <2>1. OnInvoice(s6'[c]) /\ (Says(s4[i]) = s5[i] => Counts(s6'[c], i))
      BY <1>1, InvoiceIssued DEF OnInvoice, Counts, Paying, Says
    <2> QED
      BY <1>1, <2>1, InvoiceIssued, TakenReceipted
  <1>2. ASSUME NEW i \in Invoices, NEW n \in Amounts, Books!RecordPayment(c, i, n) PROVE PaymentInv'
    <2>1. OnInvoice(s6'[c]) /\ (Says(s4[i]) = s5[i] => Counts(s6'[c], i))
      BY <1>2, PaymentTaken DEF OnInvoice, Counts, Paying, Says
    <2> QED
      BY <1>2, <2>1, PaymentTaken, TakenReceipted
  <1> QED
    BY <1>1, <1>2, WrittenReceipted, InsertedReceipted DEF Books!InvoiceStep

\* The handlers of journals receive no payment,
LEMMA JournalsReceipted == ASSUME LedgerTables, PaymentInv, NEW c \in Calls, Books!JournalStep(c) PROVE PaymentInv'
  <1>1. JournalMoves(c) /\ ~OnInvoice(s6[c]) /\ ~OnInvoice(s6'[c])
    <2>1. ASSUME NEW j \in Journals, Books!PostJournal(c, j) \/ Books!ReverseJournal(c, j)
          PROVE  JournalMoves(c) /\ ~OnInvoice(s6[c]) /\ ~OnInvoice(s6'[c])
      BY <2>1, JournalTaken, IdleWork DEF OnInvoice
    <2>2. ASSUME NEW j \in Journals, Books!InsertReversal(c, j)
          PROVE  JournalMoves(c) /\ ~OnInvoice(s6[c]) /\ ~OnInvoice(s6'[c])
      BY <2>2, ReversalMade, IdleWork DEF OnInvoice
    <2>3. ASSUME Books!WriteJournal(c)
          PROVE  JournalMoves(c) /\ ~OnInvoice(s6[c]) /\ ~OnInvoice(s6'[c])
      BY <2>3, JournalWritten, IdleWork DEF OnInvoice, OnJournal
    <2> QED
      BY <2>1, <2>2, <2>3 DEF Books!JournalStep
  <1> QED
    BY <1>1, PaymentsElsewhere DEF JournalMoves

\* What the handlers of accounts do:
LEMMA AccountMoves ==
  ASSUME LedgerTables, NEW c \in Calls, Books!AccountStep(c)
  PROVE  /\ UNCHANGED <<s1, s3, s4, s5, s8>> /\ s7 \subseteq s7' /\ s6' = [s6 EXCEPT ![c] = s6'[c]]
         /\ {s6[c].op, s6'[c].op} \subseteq {"none", "createChartOfAccount"}
  <1>1. Books!Idle.op = "none"
    BY IdleWork
  <1>2. ASSUME NEW code \in Codes, Books!CreateChartOfAccount(c, code)
        PROVE  /\ UNCHANGED <<s1, s3, s4, s5, s8>> /\ s7 \subseteq s7' /\ s6' = [s6 EXCEPT ![c] = s6'[c]]
               /\ {s6[c].op, s6'[c].op} \subseteq {"none", "createChartOfAccount"}
    <2>1. PICK x : x = [op |-> "createChartOfAccount", pc |-> "insert", id |-> code, row |-> None, amount |-> 0]
      OBVIOUS
    <2>2. Books!Hold(c, "createChartOfAccount", "insert", code, None, 0) /\ UNCHANGED <<s1, s3, s4, s5, s8>>
      BY <1>2 DEF Books!CreateChartOfAccount
    <2>3. s6[c] = Books!Idle /\ s6'[c] = x /\ s7 \subseteq s7' /\ s6' = [s6 EXCEPT ![c] = s6'[c]]
      BY <2>1, <2>2, Held
    <2>4. x.op = "createChartOfAccount"
      BY <2>1
    <2> QED
      BY <1>1, <2>2, <2>3, <2>4
  <1>3. ASSUME NEW a \in Accounts, Books!InsertAccount(c, a)
        PROVE  /\ UNCHANGED <<s1, s3, s4, s5, s8>> /\ s7 \subseteq s7' /\ s6' = [s6 EXCEPT ![c] = s6'[c]]
               /\ {s6[c].op, s6'[c].op} \subseteq {"none", "createChartOfAccount"}
    BY <1>3, Finished, IdleWork DEF Books!InsertAccount
  <1> QED
    BY <1>2, <1>3 DEF Books!AccountStep

\* they receive no payment either,
LEMMA AccountsReceipted == ASSUME LedgerTables, PaymentInv, NEW c \in Calls, Books!AccountStep(c) PROVE PaymentInv'
  BY AccountMoves, PaymentsElsewhere DEF OnInvoice

\* and a new invoice has none.
LEMMA MadeReceipted == ASSUME LedgerTables, PaymentInv, Books!Create PROVE PaymentInv'
  <1>1. ASSUME NEW j \in Journals, NEW ref \in References, NEW n \in Amounts, Books!CreateJournal(j, ref, n)
        PROVE  PaymentInv'
    BY <1>1 DEF Books!CreateJournal, PaymentInv, Receipted, Counts, Paying
  <1> QED
    BY <1>1, NewReceipted DEF Books!Create

\* Only its status changes of a journal.
SameJournal(r, q) == r.reference = q.reference /\ r.prefixes = q.prefixes /\ r.of = q.of

Turning(x, j) == x.op = "reverseJournal" /\ x.pc = "insert" /\ x.id = j

ReversalOn(r) == {k \in Journals : s3[k] # None /\ s3[k].of = r}

\* What the rows of journals and the copies of them have in common.
JournalsLinked ==
  /\ \A c \in Calls : OnJournal(s6[c]) => s3[s6[c].id] # None /\ SameJournal(s6[c].row, s3[s6[c].id])
  /\ \A k \in Journals : s3[k] # None =>
       /\ s3[k].of = None <=> s3[k].prefixes = 0
       /\ s3[k].of # None => /\ s3[k].of \in Journals /\ s3[s3[k].of] # None
                             /\ s3[k].reference = s3[s3[k].of].reference
                             /\ s3[k].prefixes = s3[s3[k].of].prefixes + 1
       /\ s3[k].status = "DRAFT" => s3[k].of = None
  /\ s1 = "prisma" => \A k, l \in Journals : s3[k] # None /\ s3[l] # None /\ s3[k].reference = s3[l].reference
                                             /\ s3[k].prefixes = s3[l].prefixes => k = l

\* A reversed journal has its reversal, or gets it.
Reversed(j) == s3[j].status = "REVERSED" => ReversalOn(j) # {} \/ \E c \in Calls : Turning(s6[c], j)

\* A journal that one handler at a time held is reversed once: the copy is the row,
\* and once there is a reversal nobody holds it.
Single(j) ==
  /\ \A c, d \in Calls : OnJournal(s6[c]) /\ OnJournal(s6[d]) /\ s6[c].id = j /\ s6[d].id = j => c = d
  /\ \A c \in Calls : OnJournal(s6[c]) /\ s6[c].id = j =>
       /\ ReversalOn(j) = {}
       /\ s6[c].pc = "write" => s3[j] = s6[c].row
       /\ s6[c].pc = "insert" => s3[j].status = "REVERSED"
  /\ ReversalOn(j) # {} => s3[j].status = "REVERSED"
  /\ \A k, l \in ReversalOn(j) : k = l

JournalInv ==
  /\ JournalsLinked
  /\ \A j \in Journals : s3[j] # None => Reversed(j)
  /\ \A j \in Journals \ s7 : s3[j] # None => Single(j)

\* Handlers of other things leave the journals and their handlers alone.
LEMMA JournalsElsewhere ==
  ASSUME LedgerTables, JournalInv, NEW c \in Calls, s6' = [s6 EXCEPT ![c] = s6'[c]],
         ~OnJournal(s6[c]), ~OnJournal(s6'[c]), UNCHANGED <<s1, s3>>, s7 \subseteq s7'
  PROVE  JournalInv'
  <1>1. \A d \in Calls : OnJournal(s6'[d]) => OnJournal(s6[d]) /\ s6'[d] = s6[d]
    BY DEF LedgerTables
  <1>2. \A d \in Calls : OnJournal(s6[d]) => OnJournal(s6'[d]) /\ s6'[d] = s6[d]
    BY DEF LedgerTables
  <1>3. \A j : ReversalOn(j)' = ReversalOn(j)
    BY DEF ReversalOn
  <1>4. JournalsLinked'
    BY <1>1 DEF JournalInv, JournalsLinked
  <1>5. ASSUME NEW j \in Journals, s3'[j] # None PROVE Reversed(j)'
    <2>1. Reversed(j)
      BY <1>5 DEF JournalInv
    <2> QED
      BY <1>2, <1>3, <2>1 DEF Reversed, Turning, OnJournal
  <1>6. ASSUME NEW j \in Journals \ s7', s3'[j] # None PROVE Single(j)'
    <2>1. Single(j)
      BY <1>6 DEF JournalInv
    <2> QED
      BY <1>1, <1>3, <2>1 DEF Single
  <1> QED
    BY <1>4, <1>5, <1>6 DEF JournalInv

\* A handler takes a journal.
LEMMA JournalHeld ==
  ASSUME LedgerTables, JournalInv, NEW c \in Calls, NEW j \in Journals,
         Books!PostJournal(c, j) \/ Books!ReverseJournal(c, j)
  PROVE  JournalInv'
  <1>1. /\ s3[j] # None /\ s3' = s3 /\ s1' = s1 /\ s7 \subseteq s7' /\ s6' = [s6 EXCEPT ![c] = s6'[c]]
        /\ s6'[c].id = j /\ s6'[c].pc = "write" /\ s6'[c].row = s3[j] /\ OnJournal(s6'[c]) /\ ~OnJournal(s6[c])
        /\ s3[j].status # "REVERSED"
        /\ j \notin s7' => \A d \in Calls : s6[d].id # j
    BY JournalTaken, IdleWork, LedgerAssumption DEF JournalMoves, OnJournal
  <1>2. \A d \in Calls \ {c} : s6'[d] = s6[d]
    BY <1>1 DEF LedgerTables
  <1>3. \A k : ReversalOn(k)' = ReversalOn(k)
    BY <1>1 DEF ReversalOn
  <1>4. JournalsLinked'
    BY <1>1, <1>2 DEF JournalInv, JournalsLinked, SameJournal
  <1>5. ASSUME NEW k \in Journals, s3'[k] # None PROVE Reversed(k)'
    <2>1. Reversed(k)
      BY <1>1, <1>5 DEF JournalInv
    <2>2. \A d \in Calls : Turning(s6[d], k) => Turning(s6'[d], k)
      BY <1>1, <1>2 DEF Turning, OnJournal
    <2> QED
      BY <1>1, <1>3, <2>1, <2>2 DEF Reversed
  <1>6. ASSUME NEW k \in Journals \ s7', s3'[k] # None PROVE Single(k)'
    <2>1. Single(k)
      BY <1>1, <1>6 DEF JournalInv
    <2>2. CASE k # j
      <3>1. \A d \in Calls : OnJournal(s6'[d]) /\ s6'[d].id = k => s6'[d] = s6[d]
        BY <1>1, <1>2, <2>2
      <3> QED
        BY <1>1, <1>3, <2>1, <3>1 DEF Single
    <2>3. CASE k = j
      <3>1. \A d \in Calls : s6'[d].id = j => d = c
        BY <1>1, <1>2, <1>6, <2>3
      <3>2. ReversalOn(j) = {}
        BY <1>1, <2>1, <2>3 DEF Single
      <3> QED
        BY <1>1, <1>3, <2>3, <3>1, <3>2 DEF Single
    <2> QED
      BY <2>2, <2>3
  <1> QED
    BY <1>4, <1>5, <1>6 DEF JournalInv

\* The new status is written; the rest of the row was the same.
LEMMA JournalStatusWritten == ASSUME LedgerTables, JournalInv, NEW c \in Calls, Books!WriteJournal(c) PROVE JournalInv'
  <1>1. PICK j \in Journals : j = s6[c].id
    BY JournalWritten
  <1>2. PICK x : x = Rewritten(c)
    OBVIOUS
  <1>3. /\ OnJournal(s6[c]) /\ s6[c].pc = "write" /\ UNCHANGED <<s1, s7>> /\ s6' = [s6 EXCEPT ![c] = s6'[c]]
        /\ s3' = [s3 EXCEPT ![j] = x] /\ x \in Books!Journal
        /\ s6[c].op = "postJournal" => x.status = "POSTED"
        /\ s6[c].op = "reverseJournal" => x.status = "REVERSED"
        /\ s6[c].op = "postJournal" => s6'[c] = Books!Idle
        /\ s6[c].op = "reverseJournal" =>
             s6'[c].op = "reverseJournal" /\ s6'[c].pc = "insert" /\ s6'[c].id = j /\ s6'[c].row = s6[c].row
    BY <1>1, <1>2, JournalWritten DEF JournalMoves, OnJournal
  <1>4. s3[j] # None /\ SameJournal(x, s3[j]) /\ SameJournal(x, s6[c].row)
    BY <1>1, <1>2, <1>3, JournalWritten DEF JournalInv, JournalsLinked, SameJournal
  <1>5. /\ s3'[j] = x /\ x # None /\ \A k \in Journals \ {j} : s3'[k] = s3[k]
        /\ \A k \in Journals : s3'[k] # None <=> s3[k] # None
        /\ \A k \in Journals : s3[k] # None => SameJournal(s3'[k], s3[k])
    BY <1>3, <1>4, LedgerAssumption DEF LedgerTables, SameJournal
  <1>6. \A d \in Calls \ {c} : s6'[d] = s6[d]
    BY <1>3 DEF LedgerTables
  <1>7. \A k : ReversalOn(k)' = ReversalOn(k)
    BY <1>5 DEF ReversalOn, SameJournal
  <1>8. \A d \in Calls : OnJournal(s6'[d]) => OnJournal(s6[d]) /\ s6'[d].id = s6[d].id /\ s6'[d].row = s6[d].row
    BY <1>1, <1>3, <1>6, IdleWork DEF OnJournal
  <1>9. JournalsLinked'
    <2>1. \A d \in Calls : OnJournal(s6'[d]) => s3'[s6'[d].id] # None /\ SameJournal(s6'[d].row, s3'[s6'[d].id])
      BY <1>5, <1>8 DEF JournalInv, JournalsLinked, SameJournal, LedgerTables, Working
    <2>2. ASSUME NEW k \in Journals, s3'[k] # None
          PROVE  /\ s3'[k].of = None <=> s3'[k].prefixes = 0
                 /\ s3'[k].of # None => /\ s3'[k].of \in Journals /\ s3'[s3'[k].of] # None
                                        /\ s3'[k].reference = s3'[s3'[k].of].reference
                                        /\ s3'[k].prefixes = s3'[s3'[k].of].prefixes + 1
                 /\ s3'[k].status = "DRAFT" => s3'[k].of = None
      <3>1. s3[k] # None /\ SameJournal(s3'[k], s3[k])
        BY <1>5, <2>2
      <3>2. s3[k].of # None => s3[k].of \in Journals /\ s3'[s3[k].of] # None /\ SameJournal(s3'[s3[k].of], s3[s3[k].of])
        BY <1>5, <3>1 DEF JournalInv, JournalsLinked
      <3>3. s3'[k].status = "DRAFT" => s3'[k] = s3[k]
        BY <1>3, <1>5 DEF OnJournal
      <3> QED
        BY <3>1, <3>2, <3>3 DEF JournalInv, JournalsLinked, SameJournal
    <2>3. s1' = "prisma" => \A k, l \in Journals : s3'[k] # None /\ s3'[l] # None /\ s3'[k].reference = s3'[l].reference
                                                   /\ s3'[k].prefixes = s3'[l].prefixes => k = l
      BY <1>3, <1>5 DEF JournalInv, JournalsLinked, SameJournal
    <2> QED
      BY <2>1, <2>2, <2>3 DEF JournalsLinked
  <1>10. ASSUME NEW k \in Journals, s3'[k] # None PROVE Reversed(k)'
    <2>1. Reversed(k)
      BY <1>5, <1>10 DEF JournalInv
    <2>2. CASE k # j
      <3>1. \A d \in Calls : Turning(s6[d], k) => Turning(s6'[d], k)
        BY <1>3, <1>6 DEF Turning
      <3> QED
        BY <1>5, <1>7, <2>1, <2>2, <3>1 DEF Reversed
    <2>3. CASE k = j /\ s6[c].op = "reverseJournal"
      BY <1>3, <2>3 DEF Reversed, Turning
    <2>4. CASE k = j /\ s6[c].op = "postJournal"
      BY <1>3, <1>5, <2>4 DEF Reversed
    <2> QED
      BY <1>3, <2>2, <2>3, <2>4 DEF OnJournal
  <1>11. ASSUME NEW k \in Journals \ s7', s3'[k] # None PROVE Single(k)'
    <2>1. Single(k)
      BY <1>3, <1>5, <1>11 DEF JournalInv
    <2>2. CASE k # j
      <3>1. \A d \in Calls : OnJournal(s6'[d]) /\ s6'[d].id = k => s6'[d] = s6[d]
        BY <1>1, <1>6, <1>8, <2>2
      <3>2. s3'[k] = s3[k]
        BY <1>5, <2>2
      <3> QED
        BY <1>7, <2>1, <3>1, <3>2 DEF Single
    <2>3. CASE k = j
      <3>1. \A d \in Calls : OnJournal(s6[d]) /\ s6[d].id = j => d = c
        BY <1>1, <1>3, <2>1, <2>3 DEF Single
      <3>2. ReversalOn(j) = {}
        BY <1>1, <1>3, <2>1, <2>3 DEF Single
      <3>3. \A d \in Calls : OnJournal(s6'[d]) /\ s6'[d].id = j => d = c /\ s6[c].op = "reverseJournal"
        <4>1. s6[c].op = "postJournal" => ~OnJournal(s6'[c])
          BY <1>3, IdleWork DEF OnJournal
        <4> QED
          BY <1>3, <1>6, <3>1, <4>1 DEF OnJournal
      <3>4. s6[c].op = "reverseJournal" => s6'[c].pc = "insert" /\ s3'[j].status = "REVERSED"
        BY <1>3, <1>5
      <3> QED
        BY <1>7, <2>3, <3>2, <3>3, <3>4 DEF Single
    <2> QED
      BY <2>2, <2>3
  <1> QED
    BY <1>9, <1>10, <1>11 DEF JournalInv

\* The reversal is made, or PostgreSQL has it already.
LEMMA ReversalInserted ==
  ASSUME LedgerTables, JournalInv, NEW c \in Calls, NEW n \in Journals, Books!InsertReversal(c, n)
  PROVE  JournalInv'
  <1>1. PICK j \in Journals : j = s6[c].id
    BY ReversalMade
  <1>2. PICK x : x = ReversalOf(c)
    OBVIOUS
  <1>3. PICK r : r = s6[c].row
    OBVIOUS
  <1>4. /\ s6[c].op = "reverseJournal" /\ s6[c].pc = "insert" /\ UNCHANGED <<s1, s7>> /\ s6' = [s6 EXCEPT ![c] = s6'[c]]
        /\ s6'[c] = Books!Idle /\ ~OnJournal(s6'[c]) /\ OnJournal(s6[c]) /\ s3[n] = None
        /\ x \in Books!Journal /\ x.of = j /\ x.status = "POSTED" /\ x.reference = r.reference /\ x.prefixes = r.prefixes + 1
        /\ IF Books!Insertable(r.reference, r.prefixes + 1) THEN s3' = [s3 EXCEPT ![n] = x] ELSE s3' = s3
    BY <1>1, <1>2, <1>3, ReversalMade, IdleWork DEF JournalMoves, OnJournal
  <1>5. s3[j] # None /\ SameJournal(r, s3[j]) /\ r.prefixes \in Nat
    BY <1>1, <1>3, <1>4 DEF JournalInv, JournalsLinked, LedgerTables, Working, Books!Journal
  <1>6. \A d \in Calls \ {c} : s6'[d] = s6[d]
    BY <1>4 DEF LedgerTables
  <1>7. \A d \in Calls : OnJournal(s6'[d]) => d # c /\ OnJournal(s6[d]) /\ s6'[d] = s6[d]
    BY <1>4, <1>6
  <1>8. CASE s3' = s3 /\ ~Books!Insertable(r.reference, r.prefixes + 1)
    <2>1. s1 = "prisma" /\ \E k \in Journals : s3[k] # None /\ s3[k].reference = r.reference /\ s3[k].prefixes = r.prefixes + 1
      BY <1>8 DEF Books!Insertable, Books!SameReference, Books!Present, LedgerTables
    <2>2. PICK k \in Journals : s3[k] # None /\ s3[k].reference = r.reference /\ s3[k].prefixes = r.prefixes + 1
      BY <2>1
    <2>3. s3[k].of = j
      <3>1. s3[k].of # None
        BY <1>5, <2>2 DEF JournalInv, JournalsLinked
      <3>2. PICK o \in Journals : o = s3[k].of /\ s3[o] # None /\ s3[k].reference = s3[o].reference /\ s3[k].prefixes = s3[o].prefixes + 1
        BY <2>2, <3>1 DEF JournalInv, JournalsLinked
      <3>3. s3[o].prefixes \in Nat
        BY <3>2 DEF LedgerTables, Books!Journal
      <3>4. s3[o].prefixes = s3[j].prefixes /\ s3[o].reference = s3[j].reference
        BY <1>5, <2>2, <3>2, <3>3 DEF SameJournal
      <3> QED
        BY <1>5, <2>1, <3>2, <3>4 DEF JournalInv, JournalsLinked
    <2>4. ReversalOn(j) # {}
      BY <2>2, <2>3 DEF ReversalOn
    <2>5. \A l : ReversalOn(l)' = ReversalOn(l)
      BY <1>8 DEF ReversalOn
    <2>6. JournalsLinked'
      BY <1>4, <1>7, <1>8 DEF JournalInv, JournalsLinked
    <2>7. ASSUME NEW l \in Journals, s3'[l] # None PROVE Reversed(l)'
      <3>1. Reversed(l)
        BY <1>8, <2>7 DEF JournalInv
      <3>2. l # j => \A d \in Calls : Turning(s6[d], l) => Turning(s6'[d], l)
        BY <1>1, <1>6 DEF Turning
      <3> QED
        BY <1>8, <2>4, <2>5, <3>1, <3>2 DEF Reversed
    <2>8. ASSUME NEW l \in Journals \ s7', s3'[l] # None PROVE Single(l)'
      <3>1. Single(l)
        BY <1>4, <1>8, <2>8 DEF JournalInv
      <3> QED
        BY <1>7, <1>8, <2>5, <3>1 DEF Single
    <2> QED
      BY <2>6, <2>7, <2>8 DEF JournalInv
  <1>9. CASE s3' = [s3 EXCEPT ![n] = x] /\ Books!Insertable(r.reference, r.prefixes + 1)
    <2>1. s3'[n] = x /\ x # None /\ n # j /\ \A k \in Journals \ {n} : s3'[k] = s3[k]
      BY <1>4, <1>5, <1>9, LedgerAssumption DEF LedgerTables
    <2>2. \A k \in Journals : s3[k] # None => k # n /\ s3'[k] = s3[k]
      BY <1>4, <2>1
    <2>3. \A l : (l # j => ReversalOn(l)' = ReversalOn(l)) /\ ReversalOn(j)' = ReversalOn(j) \cup {n}
      BY <1>4, <2>1, <2>2 DEF ReversalOn
    <2>4. JournalsLinked'
      <3>1. \A d \in Calls : OnJournal(s6'[d]) => s3'[s6'[d].id] # None /\ SameJournal(s6'[d].row, s3'[s6'[d].id])
        BY <1>7, <2>2 DEF JournalInv, JournalsLinked, LedgerTables, Working
      <3>2. ASSUME NEW k \in Journals, s3'[k] # None
            PROVE  /\ s3'[k].of = None <=> s3'[k].prefixes = 0
                   /\ s3'[k].of # None => /\ s3'[k].of \in Journals /\ s3'[s3'[k].of] # None
                                          /\ s3'[k].reference = s3'[s3'[k].of].reference
                                          /\ s3'[k].prefixes = s3'[s3'[k].of].prefixes + 1
                   /\ s3'[k].status = "DRAFT" => s3'[k].of = None
        <4>1. CASE k = n
          <5>1. x.of = j /\ j # None /\ x.prefixes # 0 /\ s3'[j] = s3[j]
            BY <1>4, <1>5, <2>2, LedgerAssumption
          <5> QED
            BY <1>4, <1>5, <2>1, <4>1, <5>1 DEF SameJournal
        <4>2. CASE k # n
          <5>1. s3[k] # None /\ s3'[k] = s3[k]
            BY <2>1, <3>2, <4>2
          <5> QED
            BY <2>2, <5>1 DEF JournalInv, JournalsLinked
        <4> QED
          BY <4>1, <4>2
      <3>3. s1' = "prisma" => \A k, l \in Journals : s3'[k] # None /\ s3'[l] # None /\ s3'[k].reference = s3'[l].reference
                                                     /\ s3'[k].prefixes = s3'[l].prefixes => k = l
        <4>1. s1 = "prisma" => \A k \in Journals : s3[k] # None => ~(s3[k].reference = x.reference /\ s3[k].prefixes = x.prefixes)
          BY <1>4, <1>9 DEF Books!Insertable, Books!SameReference, Books!Present, LedgerTables
        <4>2. \A k \in Journals : s3'[k] # None => (k = n /\ s3'[k] = x) \/ (s3[k] # None /\ s3'[k] = s3[k])
          BY <2>1
        <4> QED
          BY <1>4, <4>1, <4>2 DEF JournalInv, JournalsLinked
      <3> QED
        BY <3>1, <3>2, <3>3 DEF JournalsLinked
    <2>5. ASSUME NEW l \in Journals, s3'[l] # None PROVE Reversed(l)'
      <3>1. CASE l = n
        BY <1>4, <2>1, <3>1 DEF Reversed
      <3>2. CASE l = j
        BY <2>3, <3>2 DEF Reversed
      <3>3. CASE l # n /\ l # j
        <4>1. Reversed(l) /\ s3'[l] = s3[l]
          BY <2>1, <2>5, <3>3 DEF JournalInv
        <4>2. \A d \in Calls : Turning(s6[d], l) => Turning(s6'[d], l)
          BY <1>1, <1>6, <3>3 DEF Turning
        <4> QED
          BY <2>3, <3>3, <4>1, <4>2 DEF Reversed
      <3> QED
        BY <3>1, <3>2, <3>3
    <2>6. ASSUME NEW l \in Journals \ s7', s3'[l] # None PROVE Single(l)'
      <3>1. CASE l = n
        <4>1. \A d \in Calls : OnJournal(s6'[d]) => s6'[d].id # n
          BY <1>4, <1>7 DEF JournalInv, JournalsLinked
        <4>2. ReversalOn(n) = {}
          BY <1>4, LedgerAssumption DEF ReversalOn, JournalInv, JournalsLinked
        <4>3. ReversalOn(n)' = {}
          BY <2>1, <2>3, <4>2
        <4> QED
          BY <3>1, <4>1, <4>3 DEF Single
      <3>2. CASE l # n
        <4>1. Single(l) /\ s3'[l] = s3[l]
          BY <1>4, <2>1, <2>6, <3>2 DEF JournalInv
        <4>2. CASE l # j
          BY <1>7, <2>3, <4>1, <4>2 DEF Single
        <4>3. CASE l = j
          <5>1. ReversalOn(j) = {} /\ s3[j].status = "REVERSED" /\ \A d \in Calls : OnJournal(s6[d]) /\ s6[d].id = j => d = c
            BY <1>1, <1>4, <4>1, <4>3 DEF Single
          <5>2. ReversalOn(j)' = {n}
            BY <2>3, <5>1
          <5>3. \A d \in Calls : ~(OnJournal(s6'[d]) /\ s6'[d].id = j)
            BY <1>7, <5>1
          <5> QED
            BY <4>1, <4>3, <5>1, <5>2, <5>3 DEF Single
        <4> QED
          BY <4>2, <4>3
      <3> QED
        BY <3>1, <3>2
    <2> QED
      BY <2>4, <2>5, <2>6 DEF JournalInv
  <1> QED
    BY <1>4, <1>8, <1>9

\* A journal that is made is a draft, and no reversal.
LEMMA JournalMade ==
  ASSUME LedgerTables, JournalInv, NEW n \in Journals, NEW ref \in References, NEW a \in Amounts,
         Books!CreateJournal(n, ref, a)
  PROVE  JournalInv'
  <1>1. PICK x : x = [reference |-> ref, prefixes |-> 0, of |-> None, amount |-> a, status |-> "DRAFT"]
    OBVIOUS
  <1>2. /\ s3[n] = None /\ s3' = [s3 EXCEPT ![n] = x] /\ UNCHANGED <<s1, s6, s7>> /\ Books!Insertable(ref, 0)
        /\ x \in Books!Journal /\ x.of = None /\ x.prefixes = 0 /\ x.reference = ref /\ x.status = "DRAFT"
    BY <1>1 DEF Books!CreateJournal, Books!New, Books!Journal, Books!JournalStatus
  <1>3. s3'[n] = x /\ x # None /\ \A k \in Journals \ {n} : s3'[k] = s3[k]
    BY <1>2, LedgerAssumption DEF LedgerTables
  <1>4. \A k \in Journals : s3[k] # None => k # n /\ s3'[k] = s3[k]
    BY <1>2, <1>3
  <1>5. \A l \in Journals : ReversalOn(l)' = ReversalOn(l)
    BY <1>2, <1>3, <1>4, LedgerAssumption DEF ReversalOn
  <1>6. JournalsLinked'
    <2>1. \A d \in Calls : OnJournal(s6'[d]) => s3'[s6'[d].id] # None /\ SameJournal(s6'[d].row, s3'[s6'[d].id])
      BY <1>2, <1>4 DEF JournalInv, JournalsLinked, LedgerTables, Working
    <2>2. ASSUME NEW k \in Journals, s3'[k] # None
          PROVE  /\ s3'[k].of = None <=> s3'[k].prefixes = 0
                 /\ s3'[k].of # None => /\ s3'[k].of \in Journals /\ s3'[s3'[k].of] # None
                                        /\ s3'[k].reference = s3'[s3'[k].of].reference
                                        /\ s3'[k].prefixes = s3'[s3'[k].of].prefixes + 1
                 /\ s3'[k].status = "DRAFT" => s3'[k].of = None
      <3>1. CASE k = n
        BY <1>2, <1>3, <3>1
      <3>2. CASE k # n
        <4>1. s3[k] # None /\ s3'[k] = s3[k]
          BY <1>3, <2>2, <3>2
        <4> QED
          BY <1>4, <4>1 DEF JournalInv, JournalsLinked
      <3> QED
        BY <3>1, <3>2
    <2>3. s1' = "prisma" => \A k, l \in Journals : s3'[k] # None /\ s3'[l] # None /\ s3'[k].reference = s3'[l].reference
                                                   /\ s3'[k].prefixes = s3'[l].prefixes => k = l
      <3>1. s1 = "prisma" => \A k \in Journals : s3[k] # None => ~(s3[k].reference = x.reference /\ s3[k].prefixes = x.prefixes)
        BY <1>2 DEF Books!Insertable, Books!SameReference, Books!Present, LedgerTables
      <3>2. \A k \in Journals : s3'[k] # None => (k = n /\ s3'[k] = x) \/ (s3[k] # None /\ s3'[k] = s3[k])
        BY <1>3
      <3> QED
        BY <1>2, <3>1, <3>2 DEF JournalInv, JournalsLinked
    <2> QED
      BY <2>1, <2>2, <2>3 DEF JournalsLinked
  <1>7. ASSUME NEW k \in Journals, s3'[k] # None PROVE Reversed(k)'
    <2>1. CASE k = n
      BY <1>2, <1>3, <2>1 DEF Reversed
    <2>2. CASE k # n
      BY <1>2, <1>3, <1>5, <1>7, <2>2 DEF Reversed, JournalInv, Turning
    <2> QED
      BY <2>1, <2>2
  <1>8. ASSUME NEW k \in Journals \ s7', s3'[k] # None PROVE Single(k)'
    <2>1. CASE k = n
      <3>1. \A d \in Calls : OnJournal(s6[d]) => s6[d].id # n
        BY <1>2 DEF JournalInv, JournalsLinked
      <3>2. ReversalOn(n) = {}
        BY <1>2, LedgerAssumption DEF ReversalOn, JournalInv, JournalsLinked
      <3> QED
        BY <1>2, <1>5, <2>1, <3>1, <3>2 DEF Single
    <2>2. CASE k # n
      BY <1>2, <1>3, <1>5, <1>8, <2>2 DEF Single, JournalInv
    <2> QED
      BY <2>1, <2>2
  <1> QED
    BY <1>6, <1>7, <1>8 DEF JournalInv

\* What is known of the ledger; every step of a handler and of a client keeps it.
LedgerInv == LedgerTables /\ PaymentInv /\ JournalInv

\* What the handlers of invoices leave alone.
LEMMA InvoiceMoves ==
  ASSUME LedgerTables, NEW c \in Calls, Books!InvoiceStep(c)
  PROVE  /\ UNCHANGED <<s1, s3>> /\ s7 \subseteq s7' /\ s6' = [s6 EXCEPT ![c] = s6'[c]]
         /\ {s6[c].op, s6'[c].op} \subseteq {"none", "issueInvoice", "recordPayment"}
  <1> DEFINE Shape == /\ UNCHANGED <<s1, s3>> /\ s7 \subseteq s7' /\ s6' = [s6 EXCEPT ![c] = s6'[c]]
                      /\ {s6[c].op, s6'[c].op} \subseteq {"none", "issueInvoice", "recordPayment"}
  <1>1. ASSUME NEW i \in Invoices, Books!IssueInvoice(c, i) PROVE Shape
    BY <1>1, InvoiceIssued, IdleWork
  <1>2. ASSUME NEW i \in Invoices, NEW n \in Amounts, Books!RecordPayment(c, i, n) PROVE Shape
    BY <1>2, PaymentTaken, IdleWork
  <1>3. CASE Books!WriteInvoice(c)
    BY <1>3, InvoiceWritten, IdleWork DEF OnInvoice
  <1>4. CASE Books!InsertPayment(c)
    BY <1>4, PaymentInserted, IdleWork
  <1> QED
    BY <1>1, <1>2, <1>3, <1>4 DEF Books!InvoiceStep

\* So every step keeps the invariant of the ledger.
LEMMA LedgerKept ==
  ASSUME LedgerInv,
         Books!Create \/ \E c \in Calls : Books!AccountStep(c) \/ Books!JournalStep(c) \/ Books!InvoiceStep(c)
  PROVE  LedgerInv'
  <1> USE DEF LedgerInv
  <1>1. ASSUME NEW c \in Calls, Books!AccountStep(c) PROVE LedgerInv'
    <2>1. JournalInv'
      BY <1>1, AccountMoves, JournalsElsewhere DEF OnJournal
    <2> QED
      BY <1>1, <2>1, AccountTables, AccountsReceipted
  <1>2. ASSUME NEW c \in Calls, Books!JournalStep(c) PROVE LedgerInv'
    <2>1. JournalInv'
      BY <1>2, JournalHeld, JournalStatusWritten, ReversalInserted DEF Books!JournalStep
    <2> QED
      BY <1>2, <2>1, JournalTables, JournalsReceipted
  <1>3. ASSUME NEW c \in Calls, Books!InvoiceStep(c) PROVE LedgerInv'
    <2>1. JournalInv'
      BY <1>3, InvoiceMoves, JournalsElsewhere DEF OnJournal
    <2> QED
      BY <1>3, <2>1, InvoiceTables, InvoicesReceipted
  <1>4. ASSUME Books!Create PROVE LedgerInv'
    <2>1. ASSUME NEW i \in Invoices, Books!CreateInvoice(i) PROVE JournalInv'
      BY <2>1 DEF Books!CreateInvoice, JournalInv, JournalsLinked, Reversed, Single, Turning, ReversalOn
    <2>2. JournalInv'
      BY <1>4, <2>1, JournalMade DEF Books!Create
    <2> QED
      BY <1>4, <2>2, MadeTables, MadeReceipted
  <1> QED
    BY <1>1, <1>2, <1>3, <1>4

\* Books counts with the Cardinality of FiniteSets.
LEMMA SameCardinality == \A S : Books!Cardinality(S) = Cardinality(S)
  BY DEF Books!Cardinality, Cardinality, Books!IsFiniteSet, IsFiniteSet

\* and it gives what the run checks.
LEMMA LedgerShows == LedgerInv => Books!TypeOK /\ Books!ReversedOnce /\ Books!PaidInFull
  <1> SUFFICES ASSUME LedgerInv PROVE Books!TypeOK /\ Books!ReversedOnce /\ Books!PaidInFull
    OBVIOUS
  <1>0. LedgerTables /\ PaymentInv /\ JournalInv
    BY DEF LedgerInv
  <1>1. Books!TypeOK
    <2>1. \A c \in Calls : s6[c].pc \in {"idle", "insert", "write"}
      BY <1>0 DEF LedgerTables, Work
    <2> QED
      BY <1>0, <2>1 DEF LedgerTables, Books!TypeOK
  <1>2. Books!ReversedOnce
    <2>0. Books!Present(s3) = {j \in Journals : s3[j] # None}
      BY <1>0 DEF Books!Present, LedgerTables
    <2> SUFFICES ASSUME NEW j \in Journals, s3[j] # None
                 PROVE  /\ Books!Quiet(j) /\ s3[j].status = "REVERSED" => Books!Reversals(j) # {}
                        /\ s1 = "prisma" \/ j \notin s7 => Cardinality(Books!Reversals(j)) <= 1
      BY <2>0, SameCardinality DEF Books!ReversedOnce
    <2>1. Books!Reversals(j) = ReversalOn(j)
      BY <1>0 DEF Books!Reversals, Books!Present, ReversalOn, LedgerTables
    <2>2. Books!Quiet(j) /\ s3[j].status = "REVERSED" => ReversalOn(j) # {}
      BY <1>0 DEF JournalInv, Reversed, Turning, Books!Quiet, Books!Holders
    <2>3. ASSUME s1 = "prisma" \/ j \notin s7 PROVE \A k, l \in ReversalOn(j) : k = l
      <3>1. CASE s1 = "prisma"
        BY <1>0, <3>1, LedgerAssumption DEF ReversalOn, JournalInv, JournalsLinked
      <3>2. CASE j \notin s7
        BY <1>0, <3>2 DEF JournalInv, Single
      <3> QED
        BY <2>3, <3>1, <3>2
    <2>4. ASSUME s1 = "prisma" \/ j \notin s7 PROVE Cardinality(ReversalOn(j)) <= 1
      <3>1. CASE ReversalOn(j) = {}
        BY <3>1, FS_EmptySet
      <3>2. CASE ReversalOn(j) # {}
        <4>1. PICK k \in ReversalOn(j) : TRUE
          BY <3>2
        <4>2. ReversalOn(j) = {k}
          BY <2>3, <2>4, <4>1
        <4>3. Cardinality({k}) = 1
          BY FS_Singleton
        <4> QED
          BY <4>2, <4>3
      <3> QED
        BY <3>1, <3>2
    <2> QED
      BY <2>1, <2>2, <2>4
  <1>3. Books!PaidInFull
    <2> SUFFICES ASSUME NEW i \in Invoices \ (s7 \cup s8), s4[i] # None, Books!Quiet(i)
                 PROVE  s5[i] <= Total /\ (s4[i].status = "PAID" <=> s5[i] = Total)
      BY <1>0 DEF Books!PaidInFull, Books!Present, LedgerTables
    <2>1. \A c \in Calls : s6[c].id # i
      BY DEF Books!Quiet, Books!Holders
    <2>2. Says(s4[i]) = s5[i]
      BY <1>0, <2>1 DEF PaymentInv, Receipted, Paying
    <2>3. s4[i].status # "PAID" => s4[i].paidAmount < Total
      BY <1>0 DEF LedgerTables
    <2>4. s5[i] \in Nat /\ Total \in Nat
      BY <1>0, LedgerAssumption DEF LedgerTables
    <2> QED
      BY <2>2, <2>3, <2>4 DEF Says
  <1> QED
    BY <1>1, <1>2, <1>3

\* Empty tables satisfy the invariant.
LEMMA LedgerOpens ==
  ASSUME s1 \in {"memory", "prisma"}, s2 \in [Accounts -> Codes \cup {None}],
         s3 = [j \in Journals |-> None], s4 = [i \in Invoices |-> None], s5 = [i \in Invoices |-> 0],
         s6 = [c \in Calls |-> Books!Idle], s7 = {}, s8 = {}
  PROVE  LedgerInv
  <1>1. \A c \in Calls : ~OnJournal(s6[c]) /\ ~OnInvoice(s6[c]) /\ Working(s6[c]) /\ s6[c].op = "none"
    BY IdleWork DEF OnJournal, OnInvoice
  <1>2. LedgerTables
    BY <1>1, LedgerAssumption DEF LedgerTables, Working
  <1>3. PaymentInv
    BY <1>1 DEF PaymentInv
  <1>4. JournalInv
    BY <1>1 DEF JournalInv, JournalsLinked
  <1> QED
    BY <1>2, <1>3, <1>4 DEF LedgerInv

\* Accounting by itself, over either repository: a journal is reversed once, and an invoice is
\* PAID exactly if its payments make its amount up (accounting.service.ts:183-380).
THEOREM LedgerSettles == Books!Spec => [](Books!ReversedOnce /\ Books!PaidInFull)
  <1>1. Books!Init => LedgerInv
    <2> SUFFICES ASSUME Books!Init PROVE LedgerInv
      OBVIOUS
    <2>1. s2 \in [Accounts -> Codes \cup {None}]
      BY DEF Books!Init
    <2> QED
      BY <2>1, LedgerOpens DEF Books!Init
  <1>2. LedgerInv /\ [Books!Next]_(Books!avars) => LedgerInv'
    <2>1. ASSUME LedgerInv, UNCHANGED Books!avars PROVE LedgerInv'
      BY <2>1 DEF Books!avars, LedgerInv, LedgerTables, PaymentInv, Receipted, Counts, Paying,
                  JournalInv, JournalsLinked, Reversed, Single, Turning, ReversalOn
    <2> QED
      BY <2>1, LedgerKept DEF Books!Next
  <1> QED
    BY <1>1, <1>2, LedgerShows, PTL DEF Books!Spec

\* Handler x is to write journal j as POSTED.
Posts(x, j) == x.op = "postJournal" /\ x.id = j

\* What a step of handler c does to journals.
JournalChanges(c) ==
  /\ \A d \in Calls \ {c} : s6'[d] = s6[d]
  /\ s7 \subseteq s7'
  /\ \A j \in Journals : s3[j] # None =>
       /\ s3'[j] # None /\ s3'[j].of = s3[j].of
       /\ \/ s3'[j] = s3[j]
          \/ Posts(s6[c], j) /\ s3'[j].status = "POSTED"
          \/ s3'[j].status = "REVERSED"
  /\ \A j \in Journals : s3[j] = None /\ s3'[j] # None => s3'[j].of # None
  /\ \A j \in Journals : Posts(s6'[c], j) => s3[j] # None /\ s3[j].status = "DRAFT" /\ s3' = s3

\* A step of any handler does no more than that.
LEMMA StepChanges ==
  ASSUME LedgerInv, NEW c \in Calls, Books!AccountStep(c) \/ Books!JournalStep(c) \/ Books!InvoiceStep(c)
  PROVE  JournalChanges(c)
  <1>0. LedgerTables /\ PaymentInv /\ JournalInv
    BY DEF LedgerInv
  <1>1. CASE Books!AccountStep(c)
    BY <1>0, <1>1, AccountMoves DEF JournalChanges, LedgerTables, Posts
  <1>2. CASE Books!InvoiceStep(c)
    BY <1>0, <1>2, InvoiceMoves DEF JournalChanges, LedgerTables, Posts
  <1>3. ASSUME NEW j \in Journals, Books!PostJournal(c, j) \/ Books!ReverseJournal(c, j) PROVE JournalChanges(c)
    <2>1. /\ s3' = s3 /\ s6' = [s6 EXCEPT ![c] = s6'[c]] /\ s7 \subseteq s7' /\ s6'[c].id = j /\ s3[j] # None
          /\ s6'[c].op = "postJournal" => s3[j].status = "DRAFT"
      BY <1>0, <1>3, JournalTaken, LedgerAssumption DEF JournalMoves
    <2> QED
      BY <1>0, <2>1 DEF JournalChanges, LedgerTables, Posts
  <1>4. CASE Books!WriteJournal(c)
    <2>1. PICK j, x : j = s6[c].id /\ x = Rewritten(c)
      OBVIOUS
    <2>2. /\ s3' = [s3 EXCEPT ![j] = x] /\ x \in Books!Journal /\ j \in Journals
          /\ s6' = [s6 EXCEPT ![c] = s6'[c]] /\ s7' = s7 /\ OnJournal(s6[c])
          /\ s6[c].op = "postJournal" => x.status = "POSTED"
          /\ s6[c].op = "reverseJournal" => x.status = "REVERSED"
          /\ x.of = s6[c].row.of /\ s6'[c].op # "postJournal"
      BY <1>0, <1>4, <2>1, JournalWritten, IdleWork DEF JournalMoves, OnJournal
    <2>3. s3[j] # None /\ x.of = s3[j].of /\ x # None
      BY <1>0, <2>1, <2>2, LedgerAssumption DEF JournalInv, JournalsLinked, SameJournal
    <2>4. s3'[j] = x /\ \A k \in Journals \ {j} : s3'[k] = s3[k]
      BY <1>0, <2>2 DEF LedgerTables
    <2>5. \A d \in Calls \ {c} : s6'[d] = s6[d]
      BY <1>0, <2>2 DEF LedgerTables
    <2> QED
      BY <2>1, <2>2, <2>3, <2>4, <2>5 DEF JournalChanges, Posts, OnJournal
  <1>5. ASSUME NEW j \in Journals, Books!InsertReversal(c, j) PROVE JournalChanges(c)
    <2>1. PICK k, x : k = s6[c].id /\ x = ReversalOf(c)
      OBVIOUS
    <2>2. /\ s6' = [s6 EXCEPT ![c] = s6'[c]] /\ s7' = s7 /\ k \in Journals /\ s6'[c].op = "none" /\ s3[j] = None
          /\ x.of = k /\ (s3' = s3 \/ s3' = [s3 EXCEPT ![j] = x])
      BY <1>0, <1>5, <2>1, ReversalMade, IdleWork DEF JournalMoves
    <2>3. \A d \in Calls \ {c} : s6'[d] = s6[d]
      BY <1>0, <2>2 DEF LedgerTables
    <2>4. s3'[j] \in {None, x} /\ \A l \in Journals \ {j} : s3'[l] = s3[l]
      BY <1>0, <2>2 DEF LedgerTables
    <2> QED
      BY <2>2, <2>3, <2>4, LedgerAssumption DEF JournalChanges, Posts
  <1> QED
    BY <1>1, <1>2, <1>3, <1>4, <1>5 DEF Books!JournalStep

-----------------------------------------------------------------------------
\* What a posting workflow knows.
Posting ==
  [pc : {"idle", "read", "task", "policy", "posting", "complete", "done", "failed"},
   journal : Journals \cup {None}, key : Keys \cup {None}, threshold : PostingThresholds \cup {0},
   amount : Amounts \cup {0}, task : {None, "PENDING", "COMPLETED"}]

Announced(j) == \E n \in DOMAIN s11 : s11[n] = <<"JournalPosted", j>>

\* Announced at most once, and then posted for good.
AnnouncedOnceOnly(j) ==
  /\ \A n, m \in DOMAIN s11 : s11[n] = <<"JournalPosted", j>> /\ s11[m] = <<"JournalPosted", j>> => n = m
  /\ Announced(j) => s3[j] # None /\ s3[j].status # "DRAFT" /\ \A c \in Calls : ~Posts(s6[c], j)

PostedInv ==
  /\ LedgerInv
  /\ s9 \in [Workflows -> Posting]
  /\ s10 \in [Keys -> Workflows \cup {None}]
  /\ s11 \in Seq({"JournalPosted", "FinancialPostingEscalated"} \X Journals)
  /\ \A w \in Workflows :
       /\ s9[w].pc # "idle" => s9[w].journal \in Journals /\ s3[s9[w].journal] # None
       /\ IF s9[w].pc = "posting" THEN Posts(s6[w], s9[w].journal) ELSE s6[w].op = "none"
  /\ \A c \in Calls \ Workflows : \A j \in Journals : Posts(s6[c], j) => j \in s12
  /\ \A j \in Journals \ s7 : AnnouncedOnceOnly(j)
  /\ \A j \in Journals : s3[j] # None /\ s3[j].status = "POSTED" /\ s3[j].of = None /\ j \notin s12 => Announced(j)

\* A client's step announces nothing.
LEMMA ClientsPost ==
  ASSUME PostedInv, LedgerInv', NEW c \in Calls \ Workflows,
         Books!AccountStep(c) \/ Books!JournalStep(c) \/ Books!InvoiceStep(c),
         UNCHANGED <<s9, s10, s11>>,
         s12' = s12 \cup {s6'[x].id : x \in {d \in Calls \ Workflows : s6'[d].op = "postJournal"}}
  PROVE  PostedInv'
  <1>1. JournalChanges(c)
    BY StepChanges DEF PostedInv
  <1>2. \A w \in Workflows : w \in Calls /\ s6'[w] = s6[w]
    BY <1>1, WorkflowAssumption DEF JournalChanges
  <1>3. \A d \in Calls \ Workflows : \A j \in Journals : Posts(s6'[d], j) => j \in s12'
    BY DEF Posts
  <1>4. \A j : Announced(j)' <=> Announced(j)
    BY DEF Announced
  <1>5. ASSUME NEW j \in Journals \ s7' PROVE AnnouncedOnceOnly(j)'
    <2>1. AnnouncedOnceOnly(j)
      BY <1>1 DEF PostedInv, JournalChanges
    <2>2. Announced(j) => s3'[j] # None /\ s3'[j].status # "DRAFT"
      BY <1>1, <2>1 DEF AnnouncedOnceOnly, JournalChanges
    <2>3. Announced(j) => \A d \in Calls : ~Posts(s6'[d], j)
      BY <1>1, <2>1 DEF AnnouncedOnceOnly, JournalChanges
    <2> QED
      BY <1>4, <2>1, <2>2, <2>3 DEF AnnouncedOnceOnly
  <1>6. ASSUME NEW j \in Journals, s3'[j] # None, s3'[j].status = "POSTED", s3'[j].of = None, j \notin s12' PROVE Announced(j)
    <2>1. s3[j] # None /\ s3[j].of = None
      BY <1>1, <1>6 DEF JournalChanges
    <2>2. ~Posts(s6[c], j)
      BY <1>6 DEF PostedInv
    <2>3. s3'[j] = s3[j]
      BY <1>1, <1>6, <2>1, <2>2 DEF JournalChanges
    <2> QED
      BY <1>6, <2>1, <2>3 DEF PostedInv
  <1>7. \A j \in Journals : s3[j] # None => s3'[j] # None
    BY <1>1 DEF JournalChanges
  <1> QED
    BY <1>2, <1>3, <1>4, <1>5, <1>6, <1>7 DEF PostedInv

\* A journal somebody makes is a draft, not yet announced.
LEMMA MakersPost ==
  ASSUME PostedInv, LedgerInv', Books!Create, UNCHANGED <<s9, s10, s11>>,
         s12' = s12 \cup {s6'[x].id : x \in {d \in Calls \ Workflows : s6'[d].op = "postJournal"}}
  PROVE  PostedInv'
  <1>1. s6' = s6 /\ s7' = s7
    BY DEF Books!Create, Books!CreateJournal, Books!CreateInvoice
  <1>2. \A j \in Journals : s3'[j] = s3[j] \/ (s3[j] = None /\ s3'[j] # None /\ s3'[j].status = "DRAFT")
    <2>1. ASSUME NEW k \in Journals, NEW ref \in References, NEW n \in Amounts, Books!CreateJournal(k, ref, n),
                 NEW j \in Journals
          PROVE  s3'[j] = s3[j] \/ (s3[j] = None /\ s3'[j] # None /\ s3'[j].status = "DRAFT")
      <3>1. PICK x : x = [reference |-> ref, prefixes |-> 0, of |-> None, amount |-> n, status |-> "DRAFT"]
        OBVIOUS
      <3>2. s3' = [s3 EXCEPT ![k] = x] /\ s3[k] = None /\ x.status = "DRAFT"
        BY <2>1, <3>1 DEF Books!CreateJournal, Books!New
      <3>3. x \in Books!Journal
        BY <3>1 DEF Books!Journal, Books!JournalStatus
      <3>4. s3'[k] = x /\ (j # k => s3'[j] = s3[j])
        BY <3>2 DEF PostedInv, LedgerInv, LedgerTables
      <3> QED
        BY <3>2, <3>3, <3>4, LedgerAssumption
    <2>2. ASSUME NEW i \in Invoices, Books!CreateInvoice(i) PROVE s3' = s3
      BY <2>2 DEF Books!CreateInvoice
    <2> QED
      BY <2>1, <2>2 DEF Books!Create
  <1>3. \A j : Announced(j)' <=> Announced(j)
    BY DEF Announced
  <1>4. ASSUME NEW j \in Journals \ s7' PROVE AnnouncedOnceOnly(j)'
    <2>1. AnnouncedOnceOnly(j)
      BY <1>1 DEF PostedInv
    <2>2. Announced(j) => s3'[j] = s3[j]
      BY <1>2, <2>1 DEF AnnouncedOnceOnly
    <2> QED
      BY <1>1, <1>3, <2>1, <2>2 DEF AnnouncedOnceOnly
  <1>5. ASSUME NEW j \in Journals, s3'[j] # None, s3'[j].status = "POSTED", s3'[j].of = None, j \notin s12' PROVE Announced(j)
    <2>1. s3'[j] = s3[j]
      BY <1>2, <1>5
    <2> QED
      BY <1>5, <2>1 DEF PostedInv
  <1>6. \A j \in Journals : s3[j] # None => s3'[j] # None
    BY <1>2
  <1>7. \A d \in Calls \ Workflows : \A j \in Journals : Posts(s6'[d], j) => j \in s12'
    BY DEF Posts
  <1> QED
    BY <1>1, <1>3, <1>4, <1>5, <1>6, <1>7 DEF PostedInv

\* A workflow moves on beside the ledger,
Beside(w) == /\ UNCHANGED <<s1, s2, s3, s4, s5, s6, s7, s8, s12>>
             /\ s9' = [s9 EXCEPT ![w] = s9'[w]]

\* while nobody announces a journal.
LEMMA WorkflowBeside ==
  ASSUME PostedInv, NEW w \in Workflows, Beside(w), s9'[w] \in Posting,
         s9[w].pc # "posting", s9'[w].pc # "posting",
         s9'[w].pc # "idle" => s9'[w].journal \in Journals /\ s3[s9'[w].journal] # None,
         s10' \in [Keys -> Workflows \cup {None}],
         s11' \in Seq({"JournalPosted", "FinancialPostingEscalated"} \X Journals),
         s11' = s11 \/ \E j \in Journals : s11' = Append(s11, <<"FinancialPostingEscalated", j>>)
  PROVE  PostedInv'
  <1>1. LedgerInv'
    BY DEF PostedInv, Beside, LedgerInv, LedgerTables, PaymentInv, Receipted, Counts, Paying,
           JournalInv, JournalsLinked, Reversed, Single, Turning, ReversalOn
  <1>2. \A v \in Workflows \ {w} : s9'[v] = s9[v]
    BY DEF PostedInv, Beside
  <1>3. s9' \in [Workflows -> Posting]
    BY DEF PostedInv, Beside
  <1>4. \A v \in Workflows :
          /\ s9'[v].pc # "idle" => s9'[v].journal \in Journals /\ s3'[s9'[v].journal] # None
          /\ IF s9'[v].pc = "posting" THEN Posts(s6'[v], s9'[v].journal) ELSE s6'[v].op = "none"
    BY <1>2 DEF PostedInv, Beside
  <1>5. ASSUME NEW n, NEW j \in Journals
        PROVE  (n \in DOMAIN s11' /\ s11'[n] = <<"JournalPosted", j>>)
                  <=> (n \in DOMAIN s11 /\ s11[n] = <<"JournalPosted", j>>)
    <2>1. CASE s11' = s11
      BY <2>1
    <2>2. ASSUME NEW k \in Journals, s11' = Append(s11, <<"FinancialPostingEscalated", k>>)
          PROVE  (n \in DOMAIN s11' /\ s11'[n] = <<"JournalPosted", j>>)
                    <=> (n \in DOMAIN s11 /\ s11[n] = <<"JournalPosted", j>>)
      BY <2>2 DEF PostedInv
    <2> QED
      BY <2>1, <2>2
  <1>6. \A j \in Journals : Announced(j)' <=> Announced(j)
    BY <1>5 DEF Announced
  <1>7. ASSUME NEW j \in Journals \ s7' PROVE AnnouncedOnceOnly(j)'
    <2>1. AnnouncedOnceOnly(j) /\ UNCHANGED <<s3, s6, s7>>
      BY <1>7 DEF PostedInv, Beside
    <2> QED
      BY <1>5, <1>6, <2>1 DEF AnnouncedOnceOnly
  <1>8. UNCHANGED <<s3, s6, s12>>
    BY DEF Beside
  <1> QED
    BY <1>1, <1>3, <1>4, <1>6, <1>7, <1>8 DEF PostedInv

\* The fields of a workflow after a step.
LEMMA PostingMoves ==
  ASSUME PostedInv, NEW w \in Workflows, NEW pc, Books!Moves(w, pc),
         pc \in {"idle", "read", "task", "policy", "posting", "complete", "done", "failed"}
  PROVE  /\ s9' = [s9 EXCEPT ![w] = s9'[w]] /\ s9'[w] \in Posting
         /\ s9'[w].pc = pc /\ s9'[w].journal = s9[w].journal
         /\ \A v \in Workflows \ {w} : s9'[v] = s9[v]
  <1>1. s9[w] \in Posting
    BY DEF PostedInv
  <1>2. PICK x : x = [s9[w] EXCEPT !.pc = pc]
    OBVIOUS
  <1>3. x \in Posting /\ x.pc = pc /\ x.journal = s9[w].journal
    BY <1>1, <1>2 DEF Posting
  <1>4. s9' = [s9 EXCEPT ![w] = x]
    BY <1>2 DEF Books!Moves
  <1> QED
    BY <1>3, <1>4 DEF PostedInv

\* The steps of a workflow that leave the ledger alone,
LEMMA WorkflowWaits ==
  ASSUME PostedInv, NEW w \in Workflows,
         \/ \E j \in Journals, key \in Keys \cup {None}, t \in PostingThresholds :
              Books!ProcessFinancialPosting(w, j, key, t)
         \/ Books!ReadJournal(w) \/ Books!CreateTask(w) \/ Books!Escalate(w) \/ Books!CompleteTask(w)
  PROVE  PostedInv'
  <1>0. s9[w] \in Posting /\ s9 \in [Workflows -> Posting] /\ s10 \in [Keys -> Workflows \cup {None}]
        /\ s11 \in Seq({"JournalPosted", "FinancialPostingEscalated"} \X Journals)
    BY DEF PostedInv
  <1>1. ASSUME NEW j \in Journals, NEW key \in Keys \cup {None}, NEW t \in PostingThresholds,
               Books!ProcessFinancialPosting(w, j, key, t)
        PROVE  PostedInv'
    <2>1. PICK pc \in {"done", "read"} : pc = IF key # None /\ s10[key] # None THEN "done" ELSE "read"
      OBVIOUS
    <2>2. PICK x : x = [Books!NotStarted EXCEPT !.pc = pc, !.journal = j, !.key = key, !.threshold = t]
      OBVIOUS
    <2>3. x \in Posting /\ x.pc \in {"done", "read"} /\ x.journal = j
      BY <2>2 DEF Posting, Books!NotStarted
    <2>4. s9' = [s9 EXCEPT ![w] = x]
      BY <1>1, <2>1, <2>2 DEF Books!ProcessFinancialPosting
    <2>5. s9'[w] = x /\ UNCHANGED <<s1, s2, s3, s4, s5, s6, s7, s8, s10, s11, s12>> /\ s3[j] # None /\ s9[w].pc = "idle"
      BY <1>0, <1>1, <2>4 DEF Books!ProcessFinancialPosting, Books!avars, Books!Present, Books!At
    <2> QED
      BY <1>0, <2>3, <2>4, <2>5, WorkflowBeside DEF Beside
  <1>2. CASE Books!ReadJournal(w)
    <2>0. s9[w].pc = "read" /\ UNCHANGED <<s1, s2, s3, s4, s5, s6, s7, s8, s10, s11, s12>>
          /\ s9[w].journal \in Journals /\ s3[s9[w].journal] # None
      BY <1>2 DEF Books!ReadJournal, Books!At, Books!avars, PostedInv
    <2>1. CASE Books!Moves(w, "failed")
      BY <1>0, <2>0, <2>1, PostingMoves, WorkflowBeside DEF Beside
    <2>2. CASE s9' = [s9 EXCEPT ![w].pc = "task", ![w].amount = s3[s9[w].journal].amount]
      <3>1. PICK n \in Amounts : n = s3[s9[w].journal].amount
        BY <2>0 DEF PostedInv, LedgerInv, LedgerTables, Books!Journal
      <3>2. PICK x : x = [s9[w] EXCEPT !.pc = "task", !.amount = n]
        OBVIOUS
      <3>3. x \in Posting /\ x.pc = "task" /\ x.journal = s9[w].journal
        BY <1>0, <3>2 DEF Posting
      <3>4. s9' = [s9 EXCEPT ![w] = x]
        BY <1>0, <2>2, <3>1, <3>2 DEF Posting
      <3> QED
        BY <1>0, <2>0, <3>3, <3>4, WorkflowBeside DEF Beside
    <2> QED
      BY <1>2, <2>1, <2>2 DEF Books!ReadJournal
  <1>3. CASE Books!CreateTask(w) \/ Books!CompleteTask(w)
    <2>0. s9[w].pc \in {"task", "complete"} /\ UNCHANGED <<s1, s2, s3, s4, s5, s6, s7, s8, s11, s12>>
          /\ s9[w].journal \in Journals /\ s3[s9[w].journal] # None
      BY <1>3 DEF Books!CreateTask, Books!CompleteTask, Books!At, Books!avars, PostedInv
    <2>1. PICK pc \in {"policy", "done"}, t \in {"PENDING", "COMPLETED"} : s9' = [s9 EXCEPT ![w].pc = pc, ![w].task = t]
      BY <1>3 DEF Books!CreateTask, Books!CompleteTask
    <2>2. PICK x : x = [s9[w] EXCEPT !.pc = pc, !.task = t]
      OBVIOUS
    <2>3. x \in Posting /\ x.pc = pc /\ x.journal = s9[w].journal
      BY <1>0, <2>2 DEF Posting
    <2>4. s9' = [s9 EXCEPT ![w] = x]
      BY <1>0, <2>1, <2>2 DEF Posting
    <2>5. s10' \in [Keys -> Workflows \cup {None}]
      BY <1>0, <1>3 DEF Books!CreateTask, Books!CompleteTask
    <2> QED
      BY <1>0, <2>0, <2>3, <2>4, <2>5, WorkflowBeside DEF Beside
  <1>4. CASE Books!Escalate(w)
    <2>0. s9[w].pc = "policy" /\ UNCHANGED <<s1, s2, s3, s4, s5, s6, s7, s8, s10, s12>> /\ Books!Moves(w, "complete")
          /\ s9[w].journal \in Journals /\ s3[s9[w].journal] # None
      BY <1>4 DEF Books!Escalate, Books!At, Books!avars, PostedInv
    <2>1. s11' = Append(s11, <<"FinancialPostingEscalated", s9[w].journal>>)
      BY <1>4 DEF Books!Escalate
    <2>2. s11' \in Seq({"JournalPosted", "FinancialPostingEscalated"} \X Journals)
      BY <1>0, <2>0, <2>1
    <2>3. s9' = [s9 EXCEPT ![w] = s9'[w]] /\ s9'[w] \in Posting /\ s9'[w].pc = "complete" /\ s9'[w].journal = s9[w].journal
      BY <2>0, PostingMoves
    <2> QED
      BY <1>0, <2>0, <2>1, <2>2, <2>3, WorkflowBeside DEF Beside
  <1> QED
    BY <1>1, <1>2, <1>3, <1>4

\* the start of a posting,
LEMMA WorkflowPosts == ASSUME PostedInv, NEW w \in Workflows, Books!AutoApprove(w) PROVE PostedInv'
  <1>0. w \in Calls /\ s9[w] \in Posting /\ s9[w].pc = "policy" /\ UNCHANGED <<s10, s11, s12>>
    BY WorkflowAssumption DEF PostedInv, Books!AutoApprove, Books!At
  <1>1. PICK j : j = s9[w].journal
    OBVIOUS
  <1>2. j \in Journals /\ s3[j] # None
    BY <1>0, <1>1 DEF PostedInv
  <1>3. CASE Books!Moves(w, "failed") /\ UNCHANGED Books!avars
    <2>1. UNCHANGED <<s1, s2, s3, s4, s5, s6, s7, s8>>
      BY <1>3 DEF Books!avars
    <2>2. s10 \in [Keys -> Workflows \cup {None}] /\ s11 \in Seq({"JournalPosted", "FinancialPostingEscalated"} \X Journals)
      BY DEF PostedInv
    <2> QED
      BY <1>0, <1>1, <1>2, <1>3, <2>1, <2>2, PostingMoves, WorkflowBeside DEF Beside
  <1>4. CASE Books!PostJournal(w, j) /\ Books!Moves(w, "posting")
    <2>1. LedgerInv' /\ JournalChanges(w)
      BY <1>0, <1>2, <1>4, LedgerKept, StepChanges DEF PostedInv, Books!JournalStep
    <2>2. /\ s3' = s3 /\ s3[j].status = "DRAFT" /\ s6'[w].op = "postJournal" /\ s6'[w].id = j /\ s7 \subseteq s7'
      <3>1. LedgerTables /\ s3[j].status # "POSTED"
        BY <1>4 DEF PostedInv, LedgerInv, Books!PostJournal, Books!Postable
      <3> QED
        BY <1>0, <1>2, <1>4, <3>1, JournalTaken DEF JournalMoves
    <2>3. s9'[w] \in Posting /\ s9'[w].pc = "posting" /\ s9'[w].journal = j /\ s9' = [s9 EXCEPT ![w] = s9'[w]]
          /\ \A v \in Workflows \ {w} : s9'[v] = s9[v]
      BY <1>1, <1>4, PostingMoves
    <2>4. s9' \in [Workflows -> Posting]
      BY <2>3 DEF PostedInv
    <2>5. \A d \in Calls \ {w} : s6'[d] = s6[d]
      BY <2>1 DEF JournalChanges
    <2>6. \A v \in Workflows :
          /\ s9'[v].pc # "idle" => s9'[v].journal \in Journals /\ s3'[s9'[v].journal] # None
          /\ IF s9'[v].pc = "posting" THEN Posts(s6'[v], s9'[v].journal) ELSE s6'[v].op = "none"
      BY <1>2, <2>2, <2>3, <2>5, WorkflowAssumption DEF PostedInv, Posts
    <2>7. \A k : Announced(k)' <=> Announced(k)
      BY <1>0 DEF Announced
    <2>8. ASSUME NEW k \in Journals \ s7' PROVE AnnouncedOnceOnly(k)'
      <3>1. AnnouncedOnceOnly(k)
        BY <2>2, <2>8 DEF PostedInv
      <3>2. Announced(k) => ~Posts(s6'[w], k)
        BY <2>2, <3>1 DEF AnnouncedOnceOnly, Posts
      <3> QED
        BY <1>0, <2>2, <2>5, <2>7, <3>1, <3>2 DEF AnnouncedOnceOnly
    <2>9. \A d \in Calls \ Workflows : s6'[d] = s6[d]
      BY <1>0, <2>5
    <2> QED
      BY <1>0, <2>1, <2>2, <2>4, <2>6, <2>7, <2>8, <2>9 DEF PostedInv
  <1> QED
    BY <1>1, <1>2, <1>3, <1>4 DEF Books!AutoApprove, Books!Postable

\* its end, which is announced,
LEMMA WorkflowAnnounces == ASSUME PostedInv, NEW w \in Workflows, Books!Posted(w) PROVE PostedInv'
  <1>0. w \in Calls /\ s9[w] \in Posting /\ s9[w].pc = "posting" /\ UNCHANGED <<s10, s12>> /\ Books!WriteJournal(w)
        /\ Books!Moves(w, "complete")
    BY WorkflowAssumption DEF PostedInv, Books!Posted, Books!At
  <1>1. PICK j : j = s9[w].journal
    OBVIOUS
  <1>2. j \in Journals /\ s3[j] # None /\ s6[w].op = "postJournal" /\ s6[w].id = j
    BY <1>0, <1>1 DEF PostedInv, Posts
  <1>3. s11' = Append(s11, <<"JournalPosted", j>>)
    BY <1>1 DEF Books!Posted
  <1>4. LedgerInv' /\ JournalChanges(w)
    BY <1>0, LedgerKept, StepChanges DEF PostedInv, Books!JournalStep
  <1>5. s3'[j] # None /\ s3'[j].status = "POSTED" /\ s6'[w].op = "none" /\ s7' = s7
        /\ \A k \in Journals \ {j} : s3'[k] = s3[k]
    <2>1. PICK x : x = Rewritten(w)
      OBVIOUS
    <2>2. s3' = [s3 EXCEPT ![j] = x] /\ x \in Books!Journal /\ x.status = "POSTED" /\ s6'[w] = Books!Idle /\ s7' = s7
      BY <1>0, <1>2, <2>1, JournalWritten DEF PostedInv, LedgerInv
    <2> QED
      BY <1>2, <2>2, LedgerAssumption, IdleWork DEF PostedInv, LedgerInv, LedgerTables
  <1>6. \A d \in Calls \ {w} : s6'[d] = s6[d]
    BY <1>4 DEF JournalChanges
  <1>7. s9'[w] \in Posting /\ s9'[w].pc = "complete" /\ s9'[w].journal = j /\ s9' = [s9 EXCEPT ![w] = s9'[w]]
        /\ \A v \in Workflows \ {w} : s9'[v] = s9[v]
    BY <1>0, <1>1, PostingMoves
  <1>8. s9' \in [Workflows -> Posting]
    BY <1>7 DEF PostedInv
  <1>9. \A v \in Workflows :
          /\ s9'[v].pc # "idle" => s9'[v].journal \in Journals /\ s3'[s9'[v].journal] # None
          /\ IF s9'[v].pc = "posting" THEN Posts(s6'[v], s9'[v].journal) ELSE s6'[v].op = "none"
    BY <1>2, <1>5, <1>6, <1>7, WorkflowAssumption DEF PostedInv, Posts
  <1>10. s11 \in Seq({"JournalPosted", "FinancialPostingEscalated"} \X Journals)
    BY DEF PostedInv
  <1>11. s11' \in Seq({"JournalPosted", "FinancialPostingEscalated"} \X Journals)
    BY <1>2, <1>3, <1>10
  <1>12. /\ DOMAIN s11' = DOMAIN s11 \cup {Len(s11) + 1} /\ Len(s11) + 1 \notin DOMAIN s11
         /\ s11'[Len(s11) + 1] = <<"JournalPosted", j>> /\ \A n \in DOMAIN s11 : s11'[n] = s11[n]
    BY <1>3, <1>10
  <1>13. ASSUME NEW k PROVE Announced(k)' <=> (Announced(k) \/ k = j)
    <2>1. Announced(k)' <=> \E n \in DOMAIN s11' : s11'[n] = <<"JournalPosted", k>>
      BY DEF Announced
    <2>2. Announced(k) <=> \E n \in DOMAIN s11 : s11[n] = <<"JournalPosted", k>>
      BY DEF Announced
    <2>3. <<"JournalPosted", j>> = <<"JournalPosted", k>> <=> k = j
      OBVIOUS
    <2> QED
      BY <1>12, <2>1, <2>2, <2>3
  <1>14. ASSUME NEW k \in Journals \ s7' PROVE AnnouncedOnceOnly(k)'
    <2>1. AnnouncedOnceOnly(k)
      BY <1>5, <1>14 DEF PostedInv
    <2>2. CASE k # j
      <3>1. \A n \in DOMAIN s11' : s11'[n] = <<"JournalPosted", k>> => n \in DOMAIN s11 /\ s11[n] = <<"JournalPosted", k>>
        BY <1>12, <2>2
      <3>2. \A d \in Calls : Posts(s6'[d], k) => Posts(s6[d], k)
        BY <1>5, <1>6 DEF Posts
      <3>3. s3'[k] = s3[k]
        BY <1>5, <1>14, <2>2
      <3> QED
        BY <1>13, <2>1, <2>2, <3>1, <3>2, <3>3 DEF AnnouncedOnceOnly
    <2>3. CASE k = j
      <3>1. ~Announced(j)
        BY <1>0, <1>2, <2>1, <2>3 DEF AnnouncedOnceOnly, Posts
      <3>2. \A n, m \in DOMAIN s11' : s11'[n] = <<"JournalPosted", j>> /\ s11'[m] = <<"JournalPosted", j>> => n = m
        BY <1>12, <3>1 DEF Announced
      <3>3. \A d \in Calls : ~Posts(s6'[d], j)
        <4>1. \A d \in Calls : Posts(s6[d], j) => d = w
          BY <1>0, <1>2, <1>5, <1>14, <2>3 DEF PostedInv, LedgerInv, JournalInv, Single, Posts, OnJournal
        <4> QED
          BY <1>5, <1>6, <4>1 DEF Posts
      <3> QED
        BY <1>5, <2>3, <3>2, <3>3 DEF AnnouncedOnceOnly
    <2> QED
      BY <2>2, <2>3
  <1>15. \A k \in Journals : s3'[k] # None /\ s3'[k].status = "POSTED" /\ s3'[k].of = None /\ k \notin s12' => Announced(k)'
    BY <1>0, <1>5, <1>13 DEF PostedInv
  <1>16. \A d \in Calls \ Workflows : s6'[d] = s6[d]
    BY <1>0, <1>6
  <1> QED
    BY <1>0, <1>4, <1>8, <1>9, <1>11, <1>14, <1>15, <1>16 DEF PostedInv

\* and so every step of posting.
LEMMA PostingKept ==
  ASSUME PostedInv, Books!ClientStep \/ \E w \in Workflows : Books!PostingStep(w)
  PROVE  PostedInv'
  <1>1. CASE Books!ClientStep
    <2>1. LedgerInv'
      BY <1>1, LedgerKept DEF PostedInv, Books!ClientStep
    <2> QED
      BY <1>1, <2>1, MakersPost, ClientsPost DEF Books!ClientStep
  <1>2. ASSUME NEW w \in Workflows, Books!PostingStep(w) PROVE PostedInv'
    BY <1>2, WorkflowWaits, WorkflowPosts, WorkflowAnnounces DEF Books!PostingStep
  <1> QED
    BY <1>1, <1>2

\* No workflow has begun at the start,
LEMMA PostingOpens == ASSUME LedgerInv, s3 = [j \in Journals |-> None], s6 = [c \in Calls |-> Books!Idle], Books!PostingInit
                      PROVE PostedInv
  <1>1. \A c \in Calls : s6[c].op = "none"
    BY IdleWork
  <1>2. s9 = [w \in Workflows |-> Books!NotStarted] /\ Books!NotStarted \in Posting /\ Books!NotStarted.pc = "idle"
    BY DEF Books!PostingInit, Books!NotStarted, Posting
  <1>3. s10 \in [Keys -> Workflows \cup {None}] /\ s11 = <<>> /\ s12 = {}
    BY DEF Books!PostingInit
  <1>4. \A j : ~Announced(j)
    BY <1>3 DEF Announced
  <1> QED
    BY <1>1, <1>2, <1>3, <1>4, WorkflowAssumption DEF PostedInv, AnnouncedOnceOnly, Announced, Posts

\* and the invariant gives what the run checks of posting.
LEMMA PostingShows == PostedInv => Books!PostingTypeOK /\ Books!AnnouncedOnce
  <1> SUFFICES ASSUME PostedInv PROVE Books!PostingTypeOK /\ Books!AnnouncedOnce
    OBVIOUS
  <1>1. Books!PostingTypeOK
    BY DEF PostedInv, Posting, Books!PostingTypeOK
  <1>2. ASSUME NEW j \in Books!Present(s3)
        PROVE  /\ j \notin s7 => Books!Cardinality(Books!Announcements(j)) <= 1
               /\ s3[j].status = "POSTED" /\ s3[j].of = None /\ j \notin s12 => Books!Announcements(j) # {}
    <2>1. j \in Journals /\ s3[j] # None
      BY DEF Books!Present, PostedInv, LedgerInv, LedgerTables
    <2>2. ASSUME j \notin s7 PROVE Books!Cardinality(Books!Announcements(j)) <= 1
      <3>1. \A n, m \in Books!Announcements(j) : n = m
        BY <2>1, <2>2 DEF PostedInv, AnnouncedOnceOnly, Books!Announcements
      <3>2. CASE Books!Announcements(j) = {}
        BY <3>2, FS_EmptySet, SameCardinality
      <3>3. ASSUME NEW n \in Books!Announcements(j) PROVE Books!Cardinality(Books!Announcements(j)) <= 1
        <4>1. Books!Announcements(j) = {n}
          BY <3>1
        <4> QED
          BY <4>1, FS_Singleton, SameCardinality
      <3> QED
        BY <3>2, <3>3
    <2>3. s3[j].status = "POSTED" /\ s3[j].of = None /\ j \notin s12 => Books!Announcements(j) # {}
      BY <2>1 DEF PostedInv, Announced, Books!Announcements
    <2> QED
      BY <2>2, <2>3
  <1> QED
    BY <1>1, <1>2 DEF Books!AnnouncedOnce

\* The posting workflow among clients of accounting, over either repository.
THEOREM PostingSettles == Books!PostingSpec => [](Books!ReversedOnce /\ Books!PaidInFull /\ Books!AnnouncedOnce)
  <1>1. Books!Init /\ Books!PostingInit => PostedInv
    <2> SUFFICES ASSUME Books!Init, Books!PostingInit PROVE PostedInv
      OBVIOUS
    <2>1. LedgerInv
      <3>1. s2 \in [Accounts -> Codes \cup {None}]
        BY DEF Books!Init
      <3> QED
        BY <3>1, LedgerOpens DEF Books!Init
    <2> QED
      BY <2>1, PostingOpens DEF Books!Init
  <1>2. PostedInv /\ [Books!PostingNext]_<<Books!avars, Books!postingVars>> => PostedInv'
    <2>1. ASSUME PostedInv, UNCHANGED <<Books!avars, Books!postingVars>> PROVE PostedInv'
      BY <2>1 DEF Books!avars, Books!postingVars, LedgerInv, LedgerTables, PaymentInv, Receipted, Counts, Paying,
                  JournalInv, JournalsLinked, Reversed, Single, Turning, ReversalOn, PostedInv, AnnouncedOnceOnly, Announced
    <2> QED
      BY <2>1, PostingKept DEF Books!PostingNext
  <1>3. PostedInv => Books!ReversedOnce /\ Books!PaidInFull /\ Books!AnnouncedOnce
    BY PostingShows, LedgerShows DEF PostedInv
  <1> QED
    BY <1>1, <1>2, <1>3, PTL DEF Books!PostingSpec

BookkeepingInv == scene \in Bookkeeping => LedgerInv /\ (scene = "posting" => PostedInv)

\* The scenes of accounting start well,
LEMMA BookkeepingStarts == MCInit => BookkeepingInv
  <1> SUFFICES ASSUME MCInit, scene \in Bookkeeping PROVE LedgerInv /\ (scene = "posting" => PostedInv)
    BY DEF BookkeepingInv
  <1>1. BookkeepingInit
    BY DEF MCInit, Bookkeeping, Purchasing, Staffing, Selling
  <1>2. Chart \in [Accounts -> Codes]
    BY LedgerAssumption DEF Chart
  <1>3. s2 \in [Accounts -> Codes \cup {None}]
    BY <1>1, <1>2 DEF BookkeepingInit, NoRows
  <1>4. LedgerInv
    BY <1>1, <1>3, LedgerOpens DEF BookkeepingInit, NoRows
  <1> QED
    BY <1>1, <1>4, PostingOpens DEF BookkeepingInit, NoRows

\* and their steps keep the ledger.
LEMMA BookkeepingKept == BookkeepingInv /\ [MCNext]_<<purchaseVars, scene, slots>> => BookkeepingInv'
  <1> SUFFICES ASSUME BookkeepingInv, scene' \in Bookkeeping, [MCNext]_<<purchaseVars, scene, slots>>
               PROVE  LedgerInv' /\ (scene' = "posting" => PostedInv')
    BY DEF BookkeepingInv
  <1>1. scene' = scene
    BY DEF MCNext
  <1>2. LedgerInv /\ (scene = "posting" => PostedInv)
    BY <1>1 DEF BookkeepingInv
  <1>3. CASE UNCHANGED slots
    BY <1>1, <1>2, <1>3 DEF slots, LedgerInv, LedgerTables, PaymentInv, Receipted, Counts, Paying,
       JournalInv, JournalsLinked, Reversed, Single, Turning, ReversalOn, PostedInv, AnnouncedOnceOnly, Announced
  <1>4. CASE BookkeepingNext
    <2>1. CASE scene = "posting" /\ (Books!ClientStep \/ \E w \in Workflows : Books!PostingStep(w))
      BY <1>2, <2>1, PostingKept DEF PostedInv
    <2>2. CASE /\ scene # "posting"
               /\ Books!Create \/ \E c \in Calls : Books!AccountStep(c) \/ Books!JournalStep(c) \/ Books!InvoiceStep(c)
      BY <1>1, <1>2, <2>2, LedgerKept
    <2> QED
      <3>1. (CHOOSE n \in Amounts : TRUE) \in Amounts
        BY LedgerAssumption
      <3> QED
        BY <1>4, <2>1, <2>2, <3>1 DEF BookkeepingNext, Clerks, Books!Create
  <1> QED
    BY <1>1, <1>3, <1>4 DEF MCNext, Bookkeeping, Purchasing, Staffing, Selling

\* The ledger is settled in every scene of the back office.
THEOREM LedgerAlwaysSettled == MCSpec => []LedgerIsSettled
  <1>1. BookkeepingInv => LedgerIsSettled
    BY LedgerShows, PostingShows DEF BookkeepingInv, LedgerIsSettled, Bookkeeping
  <1> QED
    BY <1>1, BookkeepingStarts, BookkeepingKept, PTL DEF MCSpec

\* What a handler of tickets may be at, and what it holds there.
DeskState ==
  [op : {"none", "updateStatus", "assignTicket", "attachSla", "checkSlaBreaches"} \cup Desk!Clocks,
   pc : {"idle", "assign", "writeTicket", "createSla", "writeSla", "checkSlas"},
   ticket : Tickets \cup {None}, row : Desk!TicketStatus \cup Desk!TicketSla \cup {None},
   todo : Seq(Tickets \X Desk!TicketSla)]

Serving(x) ==
  /\ x \in DeskState
  /\ x.pc \in {"assign", "writeTicket"} => x.ticket \in Tickets /\ x.row \in Desk!TicketStatus
  /\ x.pc = "createSla" => x.ticket \in Tickets
  /\ x.pc = "writeSla" => x.ticket \in Tickets /\ x.row \in Desk!TicketSla /\ x.op \in Desk!Clocks
  /\ x.pc = "checkSlas" => x.todo # <<>>

HeldBy(x) == {x.ticket} \cup {x.todo[n][1] : n \in DOMAIN x.todo}

\* The tables and the handlers of tickets.
DeskTables ==
  /\ s2 \in [Tickets -> Desk!TicketStatus \cup {None}]
  /\ s3 \in [Tickets -> Desk!TicketSla \cup {None}]
  /\ s5 \in [Tickets -> SUBSET Desk!Clocks]
  /\ s6 \in [Workflows -> DeskState]
  /\ \A d \in Workflows : Serving(s6[d])

\* A ticket that is not contended is held by one handler.
OneHolder == \A t \in Tickets \ s7 : \A d, e \in Workflows :
               t \in HeldBy(s6[d]) /\ t \in HeldBy(s6[e]) => d = e

\* Where an escalated ticket stands, and what its handler writes, before its review.
BeforeReview == \A t \in Tickets \cap (s8 \ (s9 \cup s7)) :
  /\ s2[t] \in {"ESCALATED", "CLOSED"}
  /\ \A d \in Workflows : s6[d].pc \in {"assign", "writeTicket"} /\ s6[d].ticket = t
                            => s6[d].row \in {"ESCALATED", "HUMAN_REVIEW", "CLOSED"}

\* A service level says of some clocks what was so when they were stopped.
Truthful(t, level, clocks, times) ==
  \A k \in level.stopped \cap clocks : k \in level.breached <=> <<t, k>> \notin times

\* So do the stored ones and the copies, but for the clock a handler is about to record.
LevelsTruthful == \A t \in Tickets \ s7 :
  /\ s3[t] # None => Truthful(t, s3[t], Desk!Clocks, s10)
  /\ \A d \in Workflows : s6[d].pc = "writeSla" /\ s6[d].ticket = t
       => Truthful(t, s6[d].row, Desk!Clocks \ {s6[d].op}, s10)
  /\ \A d \in Workflows : \A n \in DOMAIN s6[d].todo :
       s6[d].todo[n][1] = t => Truthful(t, s6[d].todo[n][2], Desk!Clocks, s10)

DeskInv == DeskTables /\ OneHolder /\ BeforeReview /\ LevelsTruthful

\* A desk that serves nobody holds no ticket and has nothing to do.
LEMMA FreeDesk == Serving(Desk!Free) /\ HeldBy(Desk!Free) = {None} /\ Desk!Free.pc = "idle" /\ Desk!Free.todo = <<>>
  BY DEF Serving, DeskState, HeldBy, Desk!Free

\* What the statuses allow.
LEMMA Transitions ==
  /\ Desk!TicketStatus = {"OPEN", "TRIAGED", "ASSIGNED", "IN_PROGRESS", "ESCALATED", "HUMAN_REVIEW",
                          "RESOLVED", "CLOSED"}
  /\ Desk!VALID_TRANSITIONS["ESCALATED"] = {"HUMAN_REVIEW", "CLOSED"}
  /\ Desk!VALID_TRANSITIONS["CLOSED"] = {}
  BY DEF Desk!TicketStatus, Desk!VALID_TRANSITIONS

\* Before the first ticket.
LEMMA TicketsOpen == Desk!TicketInit => DeskInv
  <1> SUFFICES ASSUME Desk!TicketInit PROVE DeskInv
    OBVIOUS
  <1>1. DeskTables
    BY FreeDesk DEF Desk!TicketInit, DeskTables, Serving
  <1>2. OneHolder
    BY FreeDesk, TicketAssumption DEF Desk!TicketInit, OneHolder
  <1>3. BeforeReview /\ LevelsTruthful
    BY FreeDesk DEF Desk!TicketInit, BeforeReview, LevelsTruthful
  <1> QED
    BY <1>1, <1>2, <1>3 DEF DeskInv

\* What taking tickets does,
LEMMA DeskTook ==
  ASSUME DeskTables, NEW d \in Workflows, NEW x, Serving(x), Desk!Take(d, x)
  PROVE  /\ s6' = [s6 EXCEPT ![d] = x] /\ s6'[d] = x /\ s7 \subseteq s7'
         /\ \A t \in Tickets \ s7' : t \in HeldBy(x) => \A e \in Workflows \ {d} : t \notin HeldBy(s6[e])
  BY DEF Desk!Take, Desk!Holds, HeldBy, DeskTables

\* and leaving them.
LEMMA DeskLeft ==
  ASSUME DeskTables, NEW d \in Workflows, Desk!Leave(d)
  PROVE  s6' = [s6 EXCEPT ![d] = Desk!Free] /\ s6'[d] = Desk!Free /\ s7' = s7
  BY DEF Desk!Leave, DeskTables

\* A handler that goes on keeps to itself what nobody else holds.
LEMMA HolderStays ==
  ASSUME DeskTables, OneHolder, NEW d \in Workflows, NEW x, s6' = [s6 EXCEPT ![d] = x], Serving(x),
         s7 \subseteq s7',
         \A t \in Tickets \ s7' : t \in HeldBy(x)
           => t \in HeldBy(s6[d]) \/ \A e \in Workflows \ {d} : t \notin HeldBy(s6[e])
  PROVE  /\ s6' \in [Workflows -> DeskState] /\ \A e \in Workflows : Serving(s6'[e])
         /\ OneHolder'
  <1>1. s6'[d] = x /\ \A e \in Workflows \ {d} : s6'[e] = s6[e]
    BY DEF DeskTables
  <1>2. x \in DeskState
    BY DEF Serving
  <1>3. s6' \in [Workflows -> DeskState] /\ \A e \in Workflows : Serving(s6'[e])
    BY <1>1, <1>2 DEF DeskTables
  <1>4. OneHolder'
    BY <1>1 DEF OneHolder
  <1> QED
    BY <1>3, <1>4

\* A handler that takes tickets, knowing of them what it should, keeps the invariant.
LEMMA TakingKeeps ==
  ASSUME DeskInv, NEW d \in Workflows, NEW x, Serving(x), Desk!Take(d, x),
         UNCHANGED <<s2, s3, s5, s8, s9, s10>>,
         \A t \in Tickets \cap (s8 \ (s9 \cup s7')) :
           x.pc \in {"assign", "writeTicket"} /\ x.ticket = t
             => x.row \in {"ESCALATED", "HUMAN_REVIEW", "CLOSED"},
         \A t \in Tickets \ s7' :
           /\ x.pc = "writeSla" /\ x.ticket = t => Truthful(t, x.row, Desk!Clocks \ {x.op}, s10)
           /\ \A n \in DOMAIN x.todo : x.todo[n][1] = t => Truthful(t, x.todo[n][2], Desk!Clocks, s10)
  PROVE  DeskInv'
  <1>1. DeskTables /\ OneHolder /\ BeforeReview /\ LevelsTruthful
    BY DEF DeskInv
  <1>2. /\ s6' = [s6 EXCEPT ![d] = x] /\ s7 \subseteq s7'
        /\ \A t \in Tickets \ s7' : t \in HeldBy(x) => \A e \in Workflows \ {d} : t \notin HeldBy(s6[e])
    BY <1>1, DeskTook
  <1>3. s6'[d] = x /\ \A e \in Workflows \ {d} : s6'[e] = s6[e]
    BY <1>1, <1>2 DEF DeskTables
  <1>4. /\ s6' \in [Workflows -> DeskState] /\ \A e \in Workflows : Serving(s6'[e])
        /\ OneHolder'
    BY <1>1, <1>2, HolderStays
  <1>5. DeskTables'
    BY <1>1, <1>4 DEF DeskTables
  <1>6. BeforeReview'
    BY <1>1, <1>2, <1>3 DEF BeforeReview
  <1>7. LevelsTruthful'
    <2> SUFFICES ASSUME NEW t \in Tickets \ s7'
                 PROVE  /\ s3'[t] # None => Truthful(t, s3'[t], Desk!Clocks, s10')
                        /\ \A e \in Workflows : s6'[e].pc = "writeSla" /\ s6'[e].ticket = t
                             => Truthful(t, s6'[e].row, Desk!Clocks \ {s6'[e].op}, s10')
                        /\ \A e \in Workflows : \A n \in DOMAIN s6'[e].todo :
                             s6'[e].todo[n][1] = t => Truthful(t, s6'[e].todo[n][2], Desk!Clocks, s10')
      BY DEF LevelsTruthful
    <2> QED
      BY <1>1, <1>2, <1>3 DEF LevelsTruthful
  <1> QED
    BY <1>4, <1>5, <1>6, <1>7 DEF DeskInv

\* A handler of one ticket is a handler.
LEMMA OneTicketServed ==
  ASSUME NEW o \in {"none", "updateStatus", "assignTicket", "attachSla", "checkSlaBreaches"} \cup Desk!Clocks,
         NEW p \in {"idle", "assign", "writeTicket", "createSla", "writeSla", "checkSlas"},
         NEW t \in Tickets \cup {None}, NEW r \in Desk!TicketStatus \cup Desk!TicketSla \cup {None},
         NEW x, x = [op |-> o, pc |-> p, ticket |-> t, row |-> r, todo |-> <<>>]
  PROVE  /\ x \in DeskState
         /\ x.op = o /\ x.pc = p /\ x.ticket = t /\ x.row = r /\ x.todo = <<>>
  BY DEF DeskState

\* So does one that takes one ticket.
LEMMA TakingOneKeeps ==
  ASSUME DeskInv, NEW d \in Workflows, NEW x, Serving(x), Desk!Take(d, x), x.todo = <<>>,
         UNCHANGED <<s2, s3, s5, s8, s9, s10>>,
         x.pc \in {"assign", "writeTicket"} /\ x.ticket \in s8 \ (s9 \cup s7)
           => x.row \in {"ESCALATED", "HUMAN_REVIEW", "CLOSED"},
         x.pc = "writeSla" /\ x.ticket \notin s7 => Truthful(x.ticket, x.row, Desk!Clocks \ {x.op}, s10)
  PROVE  DeskInv'
  <1>1. s7 \subseteq s7'
    BY DeskTook DEF DeskInv
  <1>2. ASSUME NEW t \in Tickets \ s7', NEW n \in DOMAIN x.todo PROVE FALSE
    BY <1>2
  <1>3. \A t \in Tickets \cap (s8 \ (s9 \cup s7')) :
          x.pc \in {"assign", "writeTicket"} /\ x.ticket = t => x.row \in {"ESCALATED", "HUMAN_REVIEW", "CLOSED"}
    BY <1>1
  <1>4. \A t \in Tickets \ s7' :
           /\ x.pc = "writeSla" /\ x.ticket = t => Truthful(t, x.row, Desk!Clocks \ {x.op}, s10)
           /\ \A n \in DOMAIN x.todo : x.todo[n][1] = t => Truthful(t, x.todo[n][2], Desk!Clocks, s10)
    BY <1>1, <1>2
  <1> QED
    BY <1>3, <1>4, TakingKeeps

\* updateStatus, assignTicket and attachSla,
LEMMA StatusTaken ==
  ASSUME DeskInv, NEW d \in Workflows, NEW t \in Tickets, NEW s \in Desk!TicketStatus,
         Desk!UpdateStatus(d, t, s)
  PROVE  DeskInv'
  <1>1. PICK x : x = [Desk!Free EXCEPT !.op = "updateStatus", !.pc = "writeTicket", !.ticket = t, !.row = s]
    OBVIOUS
  <1>2. Serving(x) /\ x.op = "updateStatus" /\ x.pc = "writeTicket" /\ x.ticket = t /\ x.row = s /\ x.todo = <<>>
    <2>1. x.op = "updateStatus" /\ x.pc = "writeTicket" /\ x.ticket = t /\ x.row = s /\ x.todo = <<>>
      BY <1>1 DEF Desk!Free
    <2>2. x = [op |-> x.op, pc |-> x.pc, ticket |-> x.ticket, row |-> x.row, todo |-> x.todo]
      BY <1>1 DEF Desk!Free
    <2> QED
      BY <2>1, <2>2, OneTicketServed DEF Serving
  <1>3. Desk!Take(d, x) /\ UNCHANGED <<s2, s3, s5, s8, s9, s10>> /\ s \in Desk!VALID_TRANSITIONS[s2[t]]
    BY <1>1 DEF Desk!UpdateStatus
  <1>5. s7 \subseteq s7'
    BY <1>2, <1>3, DeskTook DEF DeskInv
  <1>4. t \in s8 \ (s9 \cup s7) => s \in {"ESCALATED", "HUMAN_REVIEW", "CLOSED"}
    BY <1>3, Transitions DEF DeskInv, BeforeReview
  <1> QED
    BY <1>2, <1>3, <1>4, <1>5, TakingOneKeeps

\* An assignment takes its ticket with the status it leads to,
LEMMA AssignmentTaken ==
  ASSUME DeskInv, NEW d \in Workflows, NEW t \in Tickets, Desk!AssignTicket(d, t)
  PROVE  DeskInv'
  <1>1. s2[t] # None /\ s2[t] \in Desk!TicketStatus
    BY DEF Desk!AssignTicket, DeskInv, DeskTables
  <1>2. PICK s \in Desk!TicketStatus : s = Desk!AssignedStatus(s2[t])
    BY <1>1, Transitions DEF Desk!AssignedStatus
  <1>3. PICK x : x = [Desk!Free EXCEPT !.op = "assignTicket", !.pc = "assign", !.ticket = t, !.row = s]
    OBVIOUS
  <1>4. Serving(x) /\ x.op = "assignTicket" /\ x.pc = "assign" /\ x.ticket = t /\ x.row = s /\ x.todo = <<>>
    <2>1. x.op = "assignTicket" /\ x.pc = "assign" /\ x.ticket = t /\ x.row = s /\ x.todo = <<>>
      BY <1>3 DEF Desk!Free
    <2>2. x = [op |-> x.op, pc |-> x.pc, ticket |-> x.ticket, row |-> x.row, todo |-> x.todo]
      BY <1>3 DEF Desk!Free
    <2> QED
      BY <2>1, <2>2, OneTicketServed DEF Serving
  <1>5. Desk!Take(d, x) /\ UNCHANGED <<s2, s3, s5, s8, s9, s10>>
    BY <1>2, <1>3 DEF Desk!AssignTicket
  <1>6. s7 \subseteq s7'
    BY <1>4, <1>5, DeskTook DEF DeskInv
  <1>7. t \in s8 \ (s9 \cup s7) => s \in {"ESCALATED", "HUMAN_REVIEW", "CLOSED"}
    BY <1>2 DEF DeskInv, BeforeReview, Desk!AssignedStatus
  <1> QED
    BY <1>4, <1>5, <1>6, <1>7, TakingOneKeeps

\* and a service level takes a ticket that must have none yet.
LEMMA LevelWanted ==
  ASSUME DeskInv, NEW d \in Workflows, NEW t \in Tickets, Desk!AttachSla(d, t)
  PROVE  DeskInv'
  <1>1. PICK x : x = [Desk!Free EXCEPT !.op = "attachSla", !.pc = "createSla", !.ticket = t]
    OBVIOUS
  <1>2. Serving(x) /\ x.op = "attachSla" /\ x.pc = "createSla" /\ x.ticket = t /\ x.row = None /\ x.todo = <<>>
    <2>1. x.op = "attachSla" /\ x.pc = "createSla" /\ x.ticket = t /\ x.row = None /\ x.todo = <<>>
      BY <1>1 DEF Desk!Free
    <2>2. x = [op |-> x.op, pc |-> x.pc, ticket |-> x.ticket, row |-> x.row, todo |-> x.todo]
      BY <1>1 DEF Desk!Free
    <2> QED
      BY <2>1, <2>2, OneTicketServed DEF Serving
  <1>3. Desk!Take(d, x) /\ UNCHANGED <<s2, s3, s5, s8, s9, s10>>
    BY <1>1 DEF Desk!AttachSla
  <1> QED
    BY <1>2, <1>3, TakingOneKeeps

\* recordResponse and recordResolution,
LEMMA ClockTaken ==
  ASSUME DeskInv, NEW d \in Workflows, NEW t \in Tickets, NEW k \in Desk!Clocks, Desk!RecordClock(d, t, k)
  PROVE  DeskInv'
  <1>1. s3[t] \in Desk!TicketSla /\ s5[t] \subseteq Desk!Clocks /\ s3[t] # None
    BY DEF DeskInv, DeskTables, Desk!RecordClock
  <1>2. PICK row \in Desk!TicketSla : row = Desk!Stopped(t, k)
    BY <1>1 DEF Desk!Stopped, Desk!TicketSla
  <1>3. PICK x : x = [Desk!Free EXCEPT !.op = k, !.pc = "writeSla", !.ticket = t, !.row = row]
    OBVIOUS
  <1>4. Serving(x) /\ x.op = k /\ x.pc = "writeSla" /\ x.ticket = t /\ x.row = row /\ x.todo = <<>>
    <2>1. x.op = k /\ x.pc = "writeSla" /\ x.ticket = t /\ x.row = row /\ x.todo = <<>>
      BY <1>3 DEF Desk!Free
    <2>2. x = [op |-> x.op, pc |-> x.pc, ticket |-> x.ticket, row |-> x.row, todo |-> x.todo]
      BY <1>3 DEF Desk!Free
    <2> QED
      BY <2>1, <2>2, OneTicketServed DEF Serving
  <1>5. Desk!Take(d, x) /\ UNCHANGED <<s2, s3, s5, s8, s9, s10>>
    BY <1>2, <1>3 DEF Desk!RecordClock
  <1>6. s7 \subseteq s7'
    BY <1>4, <1>5, DeskTook DEF DeskInv
  <1>7. t \notin s7 => Truthful(t, s3[t], Desk!Clocks, s10)
    BY <1>1 DEF DeskInv, LevelsTruthful
  <1>8. t \notin s7 => Truthful(t, row, Desk!Clocks \ {k}, s10)
    BY <1>1, <1>2, <1>7 DEF Truthful, Desk!Stopped, Desk!TicketSla
  <1> QED
    BY <1>4, <1>5, <1>6, <1>8, TakingOneKeeps

\* and a check of the service levels that are not resolved.
LEMMA LevelsTaken ==
  ASSUME DeskInv, NEW d \in Workflows, Desk!CheckSlaBreaches(d)
  PROVE  DeskInv'
  <1> DEFINE pending == {t \in Tickets : s3[t] # None /\ "resolution" \notin s3[t].stopped}
             changed == {t \in pending : s5[t] \ s3[t].stopped # {}}
  <1>1. changed # {} /\ changed \subseteq Tickets /\ UNCHANGED <<s2, s3, s5, s8, s9, s10>>
    BY DEF Desk!CheckSlaBreaches
  <1>2. PICK turn \in [1 .. Desk!Cardinality(changed) -> changed] :
          Desk!Take(d, [Desk!Free EXCEPT !.op = "checkSlaBreaches", !.pc = "checkSlas",
                          !.todo = [n \in DOMAIN turn |-> <<turn[n], Desk!Breached(turn[n])>>]])
    BY DEF Desk!CheckSlaBreaches
  <1>3. Desk!Cardinality(changed) = Cardinality(changed)
    BY DEF Desk!Cardinality, Cardinality
  <1>4. PICK N : N = Cardinality(changed)
    OBVIOUS
  <1>5. N \in Nat \ {0} /\ turn \in [1 .. N -> changed]
    <2>1. IsFiniteSet(changed)
      BY <1>1, TicketAssumption, FS_Subset
    <2> QED
      BY <1>1, <1>2, <1>3, <1>4, <2>1, FS_CardinalityType, FS_EmptySet
  <1>6. \A t \in changed : t \in Tickets /\ s3[t] # None /\ s3[t] \in Desk!TicketSla /\ s5[t] \subseteq Desk!Clocks
    BY DEF DeskInv, DeskTables
  <1> HIDE DEF changed
  <1>7. PICK todo : todo = [n \in 1 .. N |-> <<turn[n], Desk!Breached(turn[n])>>]
    OBVIOUS
  <1>8. \A n \in 1 .. N : /\ turn[n] \in Tickets /\ s3[turn[n]] # None /\ s3[turn[n]] \in Desk!TicketSla
                          /\ Desk!Breached(turn[n]) \in Desk!TicketSla
    BY <1>5, <1>6 DEF Desk!Breached, Desk!TicketSla
  <1>9. todo \in Seq(Tickets \X Desk!TicketSla) /\ todo # <<>> /\ DOMAIN todo = 1 .. N
    <2>1. todo \in [1 .. N -> Tickets \X Desk!TicketSla]
      BY <1>7, <1>8
    <2>2. DOMAIN todo = 1 .. N /\ todo \in Seq(Tickets \X Desk!TicketSla)
      BY <1>5, <2>1
    <2>3. 1 \in DOMAIN todo /\ DOMAIN <<>> = {}
      BY <1>5, <2>2
    <2> QED
      BY <2>2, <2>3
  <1>10. PICK x : x = [Desk!Free EXCEPT !.op = "checkSlaBreaches", !.pc = "checkSlas", !.todo = todo]
    OBVIOUS
  <1>11. Serving(x) /\ x.pc = "checkSlas" /\ x.todo = todo
    <2>1. x = [op |-> "checkSlaBreaches", pc |-> "checkSlas", ticket |-> None, row |-> None, todo |-> todo]
      BY <1>10 DEF Desk!Free
    <2> QED
      BY <1>9, <2>1 DEF Serving, DeskState
  <1>12. Desk!Take(d, x)
    BY <1>2, <1>5, <1>7, <1>10
  <1>13. ASSUME NEW t \in Tickets \ s7', NEW n \in DOMAIN todo, todo[n][1] = t
         PROVE  Truthful(t, todo[n][2], Desk!Clocks, s10)
    <2>1. t = turn[n] /\ todo[n][2] = Desk!Breached(t) /\ n \in 1 .. N
      BY <1>7, <1>9, <1>13
    <2>2. t \notin s7
      BY <1>11, <1>12, DeskTook DEF DeskInv
    <2>3. s3[t] # None /\ s3[t] \in Desk!TicketSla
      BY <1>8, <2>1
    <2>4. Truthful(t, s3[t], Desk!Clocks, s10)
      BY <2>2, <2>3 DEF DeskInv, LevelsTruthful
    <2> QED
      BY <2>1, <2>3, <2>4 DEF Truthful, Desk!Breached, Desk!TicketSla
  <1> QED
    BY <1>1, <1>11, <1>12, <1>13, TakingKeeps

\* A new ticket; a clock that runs out.
LEMMA TicketMade ==
  ASSUME DeskInv, NEW t \in Tickets, Desk!CreateTicketDirect(t)
  PROVE  DeskInv'
  <1>1. s2' = [s2 EXCEPT ![t] = "OPEN"] /\ s2[t] = None /\ UNCHANGED <<s3, s5, s6, s7, s8, s9, s10>>
    BY DEF Desk!CreateTicketDirect
  <1>2. DeskTables' /\ OneHolder' /\ LevelsTruthful'
    BY <1>1, Transitions DEF DeskInv, DeskTables, OneHolder, LevelsTruthful
  <1>3. t \notin Tickets \cap (s8 \ (s9 \cup s7))
    BY <1>1, Transitions, TicketAssumption DEF DeskInv, BeforeReview
  <1>4. BeforeReview'
    BY <1>1, <1>3 DEF DeskInv, DeskTables, BeforeReview
  <1> QED
    BY <1>2, <1>4 DEF DeskInv

\* A clock that runs out reaches no table.
LEMMA ClockRan ==
  ASSUME DeskInv, NEW t \in Tickets, NEW k \in Desk!Clocks, Desk!ClockRunsOut(t, k)
  PROVE  DeskInv'
  <1>1. s5' = [s5 EXCEPT ![t] = @ \cup {k}] /\ UNCHANGED <<s2, s3, s6, s7, s8, s9, s10>>
    BY DEF Desk!ClockRunsOut
  <1> QED
    BY <1>1 DEF DeskInv, DeskTables, OneHolder, BeforeReview, LevelsTruthful

\* A step to the write of the ticket, and the write.
LEMMA AssignmentMade ==
  ASSUME DeskInv, NEW d \in Workflows, Desk!CreateAssignment(d)
  PROVE  DeskInv'
  <1>1. /\ s6[d].pc = "assign" /\ s6' = [s6 EXCEPT ![d].pc = "writeTicket"]
        /\ UNCHANGED <<s2, s3, s5, s7, s8, s9, s10>>
    BY DEF Desk!CreateAssignment
  <1>2. Serving(s6[d]) /\ s6[d] \in DeskState
    BY DEF DeskInv, DeskTables
  <1>3. PICK x : x = [s6[d] EXCEPT !.pc = "writeTicket"]
    OBVIOUS
  <1>4. /\ x \in DeskState /\ x.pc = "writeTicket" /\ x.ticket = s6[d].ticket /\ x.row = s6[d].row
        /\ x.todo = s6[d].todo
    BY <1>2, <1>3 DEF DeskState
  <1>5. Serving(x) /\ HeldBy(x) = HeldBy(s6[d])
    BY <1>1, <1>2, <1>4 DEF Serving, HeldBy
  <1>6. s6' = [s6 EXCEPT ![d] = x] /\ s6'[d] = x /\ \A e \in Workflows \ {d} : s6'[e] = s6[e]
    BY <1>1, <1>3 DEF DeskInv, DeskTables
  <1>7. DeskTables' /\ OneHolder'
    BY <1>1, <1>5, <1>6, HolderStays DEF DeskInv, DeskTables
  <1>8. BeforeReview'
    BY <1>1, <1>4, <1>6 DEF DeskInv, BeforeReview
  <1>9. LevelsTruthful'
    <2>1. x.pc # "writeSla"
      BY <1>4
    <2> QED
      BY <1>1, <1>4, <1>6, <2>1 DEF DeskInv, LevelsTruthful
  <1> QED
    BY <1>7, <1>8, <1>9 DEF DeskInv

\* The status a desk took its ticket for is written as it was taken.
LEMMA TicketWritten ==
  ASSUME DeskInv, NEW d \in Workflows, Desk!UpdateTicket(d)
  PROVE  DeskInv'
  <1> DEFINE t == s6[d].ticket
             s == s6[d].row
  <1>1. /\ s6[d].pc = "writeTicket" /\ s2' = [s2 EXCEPT ![t] = s]
        /\ s8' = s8 \cup {x \in {t} : s = "ESCALATED"}
        /\ s9' = s9 \cup {x \in {t} : s = "HUMAN_REVIEW"}
        /\ Desk!Leave(d) /\ UNCHANGED <<s3, s5, s10>>
    BY DEF Desk!UpdateTicket
  <1>2. Serving(s6[d]) /\ t \in Tickets /\ s \in Desk!TicketStatus
    BY <1>1 DEF DeskInv, DeskTables, Serving
  <1>3. s6' = [s6 EXCEPT ![d] = Desk!Free] /\ s6'[d] = Desk!Free /\ s7' = s7
    BY <1>1, DeskLeft DEF DeskInv
  <1>4. \A e \in Workflows \ {d} : s6'[e] = s6[e]
    BY <1>3 DEF DeskInv, DeskTables
  <1>5. \A x \in Tickets : x \notin HeldBy(Desk!Free)
    BY FreeDesk, TicketAssumption
  <1>6. /\ s6' \in [Workflows -> DeskState] /\ \A e \in Workflows : Serving(s6'[e])
        /\ OneHolder'
    BY <1>3, <1>5, FreeDesk, HolderStays DEF DeskInv
  <1>7. DeskTables'
    BY <1>1, <1>2, <1>6 DEF DeskInv, DeskTables
  <1>8. LevelsTruthful'
    <2>1. s6'[d].pc = "idle" /\ s6'[d].todo = <<>>
      BY <1>3, FreeDesk
    <2>2. \A e \in Workflows : s6'[e].pc = "writeSla" => s6'[e] = s6[e]
      BY <1>4, <2>1
    <2>3. ASSUME NEW e \in Workflows, NEW n \in DOMAIN s6'[e].todo PROVE s6'[e] = s6[e]
      BY <1>4, <2>1, <2>3
    <2> QED
      BY <1>1, <1>3, <2>2, <2>3 DEF DeskInv, LevelsTruthful
  <1>9. BeforeReview'
    <2> SUFFICES ASSUME NEW u \in Tickets, u \in s8', u \notin s9', u \notin s7'
                 PROVE  /\ s2'[u] \in {"ESCALATED", "CLOSED"}
                        /\ \A e \in Workflows : s6'[e].pc \in {"assign", "writeTicket"} /\ s6'[e].ticket = u
                             => s6'[e].row \in {"ESCALATED", "HUMAN_REVIEW", "CLOSED"}
      BY DEF BeforeReview
    <2>1. s6'[d].pc = "idle"
      BY <1>3, FreeDesk
    <2>2. CASE u # t
      BY <1>1, <1>3, <1>4, <2>1, <2>2 DEF DeskInv, BeforeReview, DeskTables
    <2>3. CASE u = t
      <3>1. s2'[u] = s /\ s # "HUMAN_REVIEW"
        BY <1>1, <1>2, <2>3 DEF DeskInv, DeskTables
      <3>2. u \in s8 => s \in {"ESCALATED", "HUMAN_REVIEW", "CLOSED"}
        BY <1>1, <1>3, <2>3 DEF DeskInv, BeforeReview
      <3>3. u \notin s8 => s = "ESCALATED"
        BY <1>1, <2>3
      <3>4. \A e \in Workflows \ {d} : s6[e].ticket # u
        BY <1>3, <2>3 DEF DeskInv, OneHolder, HeldBy
      <3> QED
        BY <1>4, <2>1, <3>1, <3>2, <3>3, <3>4
    <2> QED
      BY <2>2, <2>3
  <1> QED
    BY <1>6, <1>7, <1>8, <1>9 DEF DeskInv

\* A handler that writes the service level of a ticket, as it is to be, and lets go of it.
LEMMA LevelWritten ==
  ASSUME DeskInv, NEW d \in Workflows, NEW t \in Tickets, t = s6[d].ticket,
         NEW level \in Desk!TicketSla, s3' = [s3 EXCEPT ![t] = level], s5' \in [Tickets -> SUBSET Desk!Clocks],
         Desk!Leave(d), UNCHANGED <<s2, s8, s9>>,
         \A u \in Tickets \ {t} : \A k \in Desk!Clocks : <<u, k>> \in s10' <=> <<u, k>> \in s10,
         t \notin s7 => Truthful(t, level, Desk!Clocks, s10')
  PROVE  DeskInv'
  <1>3. s6' = [s6 EXCEPT ![d] = Desk!Free] /\ s6'[d] = Desk!Free /\ s7' = s7
    BY DeskLeft DEF DeskInv
  <1>4. \A e \in Workflows \ {d} : s6'[e] = s6[e]
    BY <1>3 DEF DeskInv, DeskTables
  <1>5. \A x \in Tickets : x \notin HeldBy(Desk!Free)
    BY FreeDesk, TicketAssumption
  <1>6. /\ s6' \in [Workflows -> DeskState] /\ \A e \in Workflows : Serving(s6'[e])
        /\ OneHolder'
    BY <1>3, <1>5, FreeDesk, HolderStays DEF DeskInv
  <1>7. DeskTables'
    BY <1>6 DEF DeskInv, DeskTables
  <1>8. BeforeReview'
    BY <1>3, <1>4, FreeDesk DEF DeskInv, BeforeReview
  <1>9. LevelsTruthful'
    <2> SUFFICES ASSUME NEW u \in Tickets, u \notin s7
                 PROVE  /\ s3'[u] # None => Truthful(u, s3'[u], Desk!Clocks, s10')
                        /\ \A e \in Workflows : s6'[e].pc = "writeSla" /\ s6'[e].ticket = u
                             => Truthful(u, s6'[e].row, Desk!Clocks \ {s6'[e].op}, s10')
                        /\ \A e \in Workflows : \A n \in DOMAIN s6'[e].todo :
                             s6'[e].todo[n][1] = u => Truthful(u, s6'[e].todo[n][2], Desk!Clocks, s10')
      BY <1>3 DEF LevelsTruthful
    <2>1. s6'[d].pc = "idle" /\ s6'[d].todo = <<>>
      BY <1>3, FreeDesk
    <2>2. CASE u = t
      <3>1. \A e \in Workflows \ {d} : t \notin HeldBy(s6[e])
        BY <2>2 DEF DeskInv, OneHolder, HeldBy
      <3>2. \A e \in Workflows \ {d} : s6[e].ticket # u /\ \A n \in DOMAIN s6[e].todo : s6[e].todo[n][1] # u
        BY <2>2, <3>1 DEF HeldBy
      <3>3. s3'[u] = level
        BY <2>2 DEF DeskInv, DeskTables
      <3> QED
        BY <1>4, <2>1, <2>2, <3>2, <3>3
    <2>3. CASE u # t
      <3>1. s3'[u] = s3[u]
        BY <2>3 DEF DeskInv, DeskTables
      <3>2. ASSUME NEW row, NEW clocks \in SUBSET Desk!Clocks, Truthful(u, row, clocks, s10)
            PROVE  Truthful(u, row, clocks, s10')
        BY <2>3, <3>2 DEF Truthful
      <3>3. /\ s3[u] # None => Truthful(u, s3[u], Desk!Clocks, s10)
            /\ \A e \in Workflows : s6[e].pc = "writeSla" /\ s6[e].ticket = u
                 => Truthful(u, s6[e].row, Desk!Clocks \ {s6[e].op}, s10)
            /\ \A e \in Workflows : \A n \in DOMAIN s6[e].todo :
                 s6[e].todo[n][1] = u => Truthful(u, s6[e].todo[n][2], Desk!Clocks, s10)
        BY DEF DeskInv, LevelsTruthful
      <3>4. s3'[u] # None => Truthful(u, s3'[u], Desk!Clocks, s10')
        BY <3>1, <3>2, <3>3
      <3>5. ASSUME NEW e \in Workflows, s6'[e].pc = "writeSla", s6'[e].ticket = u
            PROVE  Truthful(u, s6'[e].row, Desk!Clocks \ {s6'[e].op}, s10')
        BY <1>4, <2>1, <3>2, <3>3, <3>5
      <3>6. ASSUME NEW e \in Workflows, NEW n \in DOMAIN s6'[e].todo, s6'[e].todo[n][1] = u
            PROVE  Truthful(u, s6'[e].todo[n][2], Desk!Clocks, s10')
        BY <1>4, <2>1, <3>2, <3>3, <3>6
      <3> QED
        BY <3>4, <3>5, <3>6
    <2> QED
      BY <2>2, <2>3
  <1> QED
    BY <1>6, <1>7, <1>8, <1>9 DEF DeskInv

\* createSla,
LEMMA LevelMade ==
  ASSUME DeskInv, NEW d \in Workflows, Desk!CreateSla(d)
  PROVE  DeskInv'
  <1> DEFINE t == s6[d].ticket
             level == [stopped |-> {}, breached |-> {}]
  <1>1. /\ s6[d].pc = "createSla" /\ s3' = [s3 EXCEPT ![t] = level] /\ s5' = [s5 EXCEPT ![t] = {}]
        /\ s10' = {x \in s10 : x[1] # t} /\ Desk!Leave(d) /\ UNCHANGED <<s2, s8, s9>>
    BY DEF Desk!CreateSla
  <1>2. t \in Tickets /\ level \in Desk!TicketSla
    BY <1>1 DEF DeskInv, DeskTables, Serving, Desk!TicketSla
  <1>3. s5' \in [Tickets -> SUBSET Desk!Clocks]
    BY <1>1 DEF DeskInv, DeskTables
  <1>4. \A u \in Tickets \ {t} : \A k \in Desk!Clocks : <<u, k>> \in s10' <=> <<u, k>> \in s10
    BY <1>1
  <1>5. Truthful(t, level, Desk!Clocks, s10')
    BY DEF Truthful
  <1> HIDE DEF level
  <1> QED
    BY <1>1, <1>2, <1>3, <1>4, <1>5, LevelWritten

\* the write of recordResponse or recordResolution,
LEMMA ClockWritten ==
  ASSUME DeskInv, NEW d \in Workflows, Desk!UpdateSla(d)
  PROVE  DeskInv'
  <1> DEFINE t == s6[d].ticket
             k == s6[d].op
             level == s6[d].row
  <1>1. /\ s6[d].pc = "writeSla" /\ s3' = [s3 EXCEPT ![t] = level] /\ Desk!Leave(d)
        /\ UNCHANGED <<s2, s5, s8, s9>>
        /\ s10' = IF k \in level.breached THEN s10 \ {<<t, k>>} ELSE s10 \cup {<<t, k>>}
    BY DEF Desk!UpdateSla
  <1>2. t \in Tickets /\ level \in Desk!TicketSla /\ k \in Desk!Clocks
    BY <1>1 DEF DeskInv, DeskTables, Serving
  <1>3. s5' \in [Tickets -> SUBSET Desk!Clocks]
    BY <1>1 DEF DeskInv, DeskTables
  <1>4. \A u \in Tickets \ {t} : \A j \in Desk!Clocks : <<u, j>> \in s10' <=> <<u, j>> \in s10
    BY <1>1
  <1>5. t \notin s7 => Truthful(t, level, Desk!Clocks \ {k}, s10)
    BY <1>1, <1>2 DEF DeskInv, LevelsTruthful
  <1>6. t \notin s7 => Truthful(t, level, Desk!Clocks, s10')
    BY <1>1, <1>2, <1>5 DEF Truthful
  <1> QED
    BY <1>1, <1>2, <1>3, <1>4, <1>6, LevelWritten

\* and the next write of a check.
LEMMA NextLevelWritten ==
  ASSUME DeskInv, NEW d \in Workflows, Desk!UpdateNextSla(d)
  PROVE  DeskInv'
  <1> DEFINE todo == s6[d].todo
  <1>1. Serving(s6[d]) /\ s6[d] \in DeskState /\ todo \in Seq(Tickets \X Desk!TicketSla)
    BY DEF DeskInv, DeskTables, DeskState
  <1>2. /\ s6[d].pc = "checkSlas" /\ s3' = [s3 EXCEPT ![Head(todo)[1]] = Head(todo)[2]]
        /\ UNCHANGED <<s2, s5, s8, s9, s10>>
        /\ \/ Len(todo) = 1 /\ Desk!Leave(d)
           \/ Len(todo) # 1 /\ s6' = [s6 EXCEPT ![d].todo = Tail(todo)] /\ s7' = s7
    BY DEF Desk!UpdateNextSla, DeskInv, DeskTables
  <1>3. todo # <<>> /\ Len(todo) \in Nat /\ DOMAIN todo = 1 .. Len(todo) /\ Len(todo) >= 1
    BY <1>1, <1>2 DEF Serving
  <1>4. PICK t \in Tickets, level \in Desk!TicketSla : todo[1] = <<t, level>> /\ Head(todo) = todo[1]
    BY <1>1, <1>3
  <1>5. t \in HeldBy(s6[d])
    BY <1>3, <1>4 DEF HeldBy
  <1>6. t \notin s7 => Truthful(t, level, Desk!Clocks, s10)
    BY <1>3, <1>4 DEF DeskInv, LevelsTruthful
  <1>7. s3' = [s3 EXCEPT ![t] = level] /\ s3' \in [Tickets -> Desk!TicketSla \cup {None}]
    <2>1. Head(todo)[1] = t /\ Head(todo)[2] = level
      BY <1>4
    <2>2. s3' = [s3 EXCEPT ![t] = level]
      BY <1>2, <2>1
    <2> QED
      BY <2>2 DEF DeskInv, DeskTables
  <1>8. \E x : /\ s6' = [s6 EXCEPT ![d] = x] /\ Serving(x) /\ HeldBy(x) \subseteq HeldBy(s6[d]) \cup {None} /\ s7' = s7
               /\ x.pc \in {"idle", "checkSlas"}
               /\ \A n \in DOMAIN x.todo : \E m \in DOMAIN todo : x.todo[n] = todo[m]
    <2>1. CASE Len(todo) = 1
      BY <1>2, <2>1, DeskLeft, FreeDesk DEF DeskInv
    <2>2. CASE Len(todo) # 1
      <3>1. PICK x : x = [s6[d] EXCEPT !.todo = Tail(todo)]
        OBVIOUS
      <3>2. s6' = [s6 EXCEPT ![d] = x]
        BY <1>2, <2>2, <3>1 DEF DeskInv, DeskTables
      <3>3. /\ Tail(todo) \in Seq(Tickets \X Desk!TicketSla) /\ Len(Tail(todo)) = Len(todo) - 1
            /\ DOMAIN Tail(todo) = 1 .. Len(todo) - 1
            /\ \A n \in 1 .. Len(todo) - 1 : n + 1 \in DOMAIN todo /\ Tail(todo)[n] = todo[n + 1]
        BY <1>1, <1>3
      <3>4. Tail(todo) # <<>>
        <4>1. Len(Tail(todo)) # 0 /\ Len(<<>>) = 0
          BY <1>3, <2>2, <3>3
        <4>2. ASSUME Tail(todo) = <<>> PROVE FALSE
          BY <4>1, <4>2, Zenon
        <4> QED
          BY <4>2
      <3>5. x \in DeskState /\ x.pc = s6[d].pc /\ x.ticket = s6[d].ticket /\ x.todo = Tail(todo) /\ x.row = s6[d].row
        BY <1>1, <3>1, <3>3 DEF DeskState
      <3>6. Serving(x)
        BY <1>1, <1>2, <3>4, <3>5 DEF Serving
      <3>7. \A n \in DOMAIN x.todo : \E m \in DOMAIN todo : x.todo[n] = todo[m]
        BY <3>3, <3>5
      <3>8. HeldBy(x) \subseteq HeldBy(s6[d])
        BY <3>5, <3>7 DEF HeldBy
      <3> QED
        BY <1>2, <2>2, <3>2, <3>5, <3>6, <3>7, <3>8
    <2> QED
      BY <2>1, <2>2
  <1>9. PICK x : /\ s6' = [s6 EXCEPT ![d] = x] /\ Serving(x) /\ HeldBy(x) \subseteq HeldBy(s6[d]) \cup {None} /\ s7' = s7
                 /\ x.pc \in {"idle", "checkSlas"}
                 /\ \A n \in DOMAIN x.todo : \E m \in DOMAIN todo : x.todo[n] = todo[m]
    BY <1>8
  <1>10. s6'[d] = x /\ \A e \in Workflows \ {d} : s6'[e] = s6[e]
    BY <1>9 DEF DeskInv, DeskTables
  <1>11. /\ s6' \in [Workflows -> DeskState] /\ \A e \in Workflows : Serving(s6'[e])
         /\ OneHolder'
    <2>1. s7 \subseteq s7' /\ \A u \in Tickets \ s7' : u \in HeldBy(x) => u \in HeldBy(s6[d])
      BY <1>9, TicketAssumption
    <2> QED
      BY <1>9, <2>1, HolderStays DEF DeskInv
  <1>12. DeskTables'
    BY <1>2, <1>7, <1>11 DEF DeskInv, DeskTables
  <1>13. BeforeReview'
    BY <1>2, <1>9, <1>10 DEF DeskInv, BeforeReview
  <1>14. LevelsTruthful'
    <2> SUFFICES ASSUME NEW u \in Tickets, u \notin s7
                 PROVE  /\ s3'[u] # None => Truthful(u, s3'[u], Desk!Clocks, s10)
                        /\ \A e \in Workflows : s6'[e].pc = "writeSla" /\ s6'[e].ticket = u
                             => Truthful(u, s6'[e].row, Desk!Clocks \ {s6'[e].op}, s10)
                        /\ \A e \in Workflows : \A n \in DOMAIN s6'[e].todo :
                             s6'[e].todo[n][1] = u => Truthful(u, s6'[e].todo[n][2], Desk!Clocks, s10)
      <3>1. s10' = s10 /\ s7' = s7
        BY <1>2, <1>9
      <3> QED
        BY <3>1 DEF LevelsTruthful
    <2>1. /\ s3[u] # None => Truthful(u, s3[u], Desk!Clocks, s10)
          /\ \A e \in Workflows : s6[e].pc = "writeSla" /\ s6[e].ticket = u
               => Truthful(u, s6[e].row, Desk!Clocks \ {s6[e].op}, s10)
          /\ \A e \in Workflows : \A n \in DOMAIN s6[e].todo :
               s6[e].todo[n][1] = u => Truthful(u, s6[e].todo[n][2], Desk!Clocks, s10)
      BY DEF DeskInv, LevelsTruthful
    <2>2. s3'[u] # None => Truthful(u, s3'[u], Desk!Clocks, s10)
      BY <1>6, <1>7, <2>1 DEF DeskInv, DeskTables
    <2>3. ASSUME NEW e \in Workflows, s6'[e].pc = "writeSla", s6'[e].ticket = u
          PROVE  Truthful(u, s6'[e].row, Desk!Clocks \ {s6'[e].op}, s10)
      BY <1>9, <1>10, <2>1, <2>3
    <2>4. ASSUME NEW e \in Workflows, NEW n \in DOMAIN s6'[e].todo, s6'[e].todo[n][1] = u
          PROVE  Truthful(u, s6'[e].todo[n][2], Desk!Clocks, s10)
      BY <1>9, <1>10, <2>1, <2>4
    <2> QED
      BY <2>2, <2>3, <2>4
  <1> QED
    BY <1>11, <1>12, <1>13, <1>14 DEF DeskInv

\* Every step of the ticketing service keeps its invariant.
LEMMA TicketsKept == DeskInv /\ Desk!TicketNext => DeskInv'
  BY TicketMade, ClockRan, StatusTaken, AssignmentTaken, LevelWanted, ClockTaken, LevelsTaken,
     AssignmentMade, TicketWritten, LevelMade, ClockWritten, NextLevelWritten DEF Desk!TicketNext

\* The invariant says what the run checks of tickets.
LEMMA TicketsShow == DeskInv => Desk!TicketTypeOK /\ Desk!EscalatedIsReviewed /\ Desk!SlaTellsTheTruth
  <1> SUFFICES ASSUME DeskInv PROVE Desk!TicketTypeOK /\ Desk!EscalatedIsReviewed /\ Desk!SlaTellsTheTruth
    OBVIOUS
  <1>1. Desk!TicketTypeOK
    <2>1. \A d \in Workflows : s6[d] \in DeskState
      BY DEF DeskInv, DeskTables
    <2>2. \A d \in Workflows : s6[d].pc \in {"idle", "assign", "writeTicket", "createSla", "findSla", "writeSla", "checkSlas"}
      BY <2>1 DEF DeskState
    <2> QED
      BY <2>2 DEF DeskInv, DeskTables, Desk!TicketTypeOK
  <1>2. Desk!EscalatedIsReviewed
    BY DEF DeskInv, BeforeReview, Desk!EscalatedIsReviewed, Desk!Uncontended
  <1>3. Desk!SlaTellsTheTruth
    <2> SUFFICES ASSUME NEW t \in Tickets, t \notin s7, s3[t] # None, NEW k \in s3[t].stopped
                 PROVE  k \in s3[t].breached <=> <<t, k>> \notin s10
      BY DEF Desk!SlaTellsTheTruth, Desk!Uncontended
    <2>1. k \in Desk!Clocks
      BY DEF DeskInv, DeskTables, Desk!TicketSla
    <2> QED
      BY <2>1 DEF DeskInv, LevelsTruthful, Truthful
  <1> QED
    BY <1>1, <1>2, <1>3

\* The tickets of the scenes that have them.
TicketScenes == {"tickets", "service levels"}
TicketingInv == scene \in TicketScenes => DeskInv

\* The scenes of tickets start with none,
LEMMA TicketingStarts == MCInit => TicketingInv
  BY TicketsOpen DEF MCInit, TicketingInv, TicketScenes, Bookkeeping, Purchasing, Staffing, Selling

\* and their steps keep what holds of tickets; the other scenes have none.
LEMMA TicketingKept == TicketingInv /\ [MCNext]_<<purchaseVars, scene, slots>> => TicketingInv'
  <1> SUFFICES ASSUME TicketingInv, scene' \in TicketScenes, [MCNext]_<<purchaseVars, scene, slots>>
               PROVE  DeskInv'
    BY DEF TicketingInv
  <1>1. scene' = scene
    BY DEF MCNext
  <1>2. DeskInv
    BY <1>1 DEF TicketingInv
  <1>3. CASE UNCHANGED slots
    BY <1>2, <1>3 DEF slots, DeskInv, DeskTables, OneHolder, BeforeReview, LevelsTruthful
  <1>4. CASE TicketsNext
    BY <1>2, <1>4, TicketsKept DEF TicketsNext
  <1> QED
    BY <1>1, <1>3, <1>4 DEF MCNext, TicketScenes, Bookkeeping, Purchasing, Staffing, Selling

\* Tickets tell the truth in every scene of the back office.
THEOREM TicketsAlwaysTruthful == MCSpec => []TicketsTellTheTruth
  <1>1. TicketingInv => TicketsTellTheTruth
    BY TicketsShow DEF TicketingInv, TicketScenes, TicketsTellTheTruth
  <1> QED
    BY <1>1, TicketingStarts, TicketingKept, PTL DEF MCSpec

\* The deliveries of a courier, by order, and of an order, by courier.
OfCourier(e) == [o \in Parcels |-> s5[o][e]]
OfParcel(o) == [e \in People |-> s5[o][e]]

DeliveriesTyped == s5 \in [Parcels -> [People -> Nat]]

\* What a courier carries is a total of one column,
LEMMA CarriedIsTotal ==
  ASSUME DeliveriesTyped, NEW e \in People
  PROVE  HR!Carried(e) = TotalOf(OfCourier(e), Parcels)
  <1> DEFINE f == OfCourier(e)
             Rule(it) == it = [s \in SUBSET Parcels |-> IF s = {} THEN 0 ELSE s5[Chosen(s)][e] + it[s \ {Chosen(s)}]]
  <1>1. HR!Carried(e) = (CHOOSE it : Rule(it))[Parcels]
    BY DEF HR!Carried, HR!MapThenSumSet, HR!MapThenFoldSet, Chosen
  <1>2. \A o \in Parcels : f[o] = s5[o][e] /\ f[o] \in Nat
    BY DEF DeliveriesTyped, OfCourier
  <1>3. \A s \in SUBSET Parcels : s # {} => Chosen(s) \in Parcels
    BY DEF Chosen
  <1> HIDE DEF f
  <1>4. \A it : Rule(it) <=> Adds(it, f, Parcels)
    BY <1>2, <1>3 DEF Adds
  <1>5. Adds([s \in SUBSET Parcels |-> TotalOf(f, s)], f, Parcels)
    BY <1>2, TotalsAdd, StaffAssumption
  <1> HIDE DEF Rule
  <1>6. Rule(CHOOSE it : Rule(it))
    BY <1>4, <1>5
  <1>7. Adds(CHOOSE it : Rule(it), f, Parcels)
    BY <1>4, <1>6
  <1> QED
    BY <1>1, <1>2, <1>7, AddsUniquely, StaffAssumption DEF f

\* and what a parcel weighs on its couriers the total of one row.
LEMMA SharedIsTotal ==
  ASSUME DeliveriesTyped, NEW o \in Parcels
  PROVE  HR!MapThenSumSet(LAMBDA e : s5[o][e], People) = TotalOf(OfParcel(o), People)
  <1> DEFINE f == OfParcel(o)
             Rule(it) == it = [s \in SUBSET People |-> IF s = {} THEN 0 ELSE s5[o][Chosen(s)] + it[s \ {Chosen(s)}]]
  <1>1. HR!MapThenSumSet(LAMBDA e : s5[o][e], People) = (CHOOSE it : Rule(it))[People]
    BY DEF HR!MapThenSumSet, HR!MapThenFoldSet, Chosen
  <1>2. \A e \in People : f[e] = s5[o][e] /\ f[e] \in Nat
    BY DEF DeliveriesTyped, OfParcel
  <1>3. \A s \in SUBSET People : s # {} => Chosen(s) \in People
    BY DEF Chosen
  <1> HIDE DEF f
  <1>4. \A it : Rule(it) <=> Adds(it, f, People)
    BY <1>2, <1>3 DEF Adds
  <1>5. Adds([s \in SUBSET People |-> TotalOf(f, s)], f, People)
    BY <1>2, TotalsAdd, StaffAssumption
  <1> HIDE DEF Rule
  <1>6. Rule(CHOOSE it : Rule(it))
    BY <1>4, <1>5
  <1>7. Adds(CHOOSE it : Rule(it), f, People)
    BY <1>4, <1>6
  <1> QED
    BY <1>1, <1>2, <1>7, AddsUniquely, StaffAssumption DEF f

\* What the couriers of an assessment carry, as it has noted it, is a number.
LEMMA LoadsAreNumbers ==
  ASSUME NEW loads, DOMAIN loads \subseteq People, \A e \in DOMAIN loads : loads[e] \in Nat
  PROVE  HR!MapThenSumSet(LAMBDA e : loads[e], DOMAIN loads) \in Nat
  <1> DEFINE S == DOMAIN loads
  <1>0. IsFiniteSet(S)
    BY StaffAssumption, FS_Subset
  <1> HIDE DEF S
  <1>1. HR!MapThenSumSet(LAMBDA e : loads[e], S) = (CHOOSE it : Adds(it, loads, S))[S]
    BY DEF HR!MapThenSumSet, HR!MapThenFoldSet, Adds, Chosen
  <1>2. Adds(CHOOSE it : Adds(it, loads, S), loads, S)
    BY <1>0, TotalsAdd DEF S
  <1>3. HR!MapThenSumSet(LAMBDA e : loads[e], S) = TotalOf(loads, S)
    BY <1>0, <1>1, <1>2, AddsUniquely DEF S
  <1>4. TotalOf(loads, S) \in Nat
    BY <1>0, TotalType DEF S
  <1> QED
    BY <1>3, <1>4 DEF S

\* Numbers, but for those of nobody's hands.
LEMMA CostIsNumber ==
  ASSUME NEW e \in People, s2[e] \in HR!Employee, NEW hours \in Int
  PROVE  HR!EstimatedCost(e, hours) \in Int
  <1>1. PICK rate \in Int : rate = (IF s2[e].rate = None THEN DefaultRate ELSE s2[e].rate)
    BY StaffAssumption DEF HR!Employee
  <1>2. HR!EstimatedCost(e, hours) = (hours * rate * 3) \div 2
    BY <1>1 DEF HR!EstimatedCost
  <1>3. hours * rate * 3 \in Int
    OBVIOUS
  <1> QED
    BY <1>2, <1>3

\* The figures an assessment works with are numbers:  a utilization,
LEMMA UtilizationIsNumber ==
  ASSUME NEW load \in Nat, NEW capacity \in Nat
  PROVE  HR!Utilization(load, capacity) \in Int
  BY DEF HR!Utilization

\* the hours of a surge,
LEMMA HoursAreNumbers ==
  ASSUME NEW peak \in Int
  PROVE  HR!SurgeHours(peak) \in Int
  <1>1. PICK n \in Int : n = (4 * (peak - 100) + 99) \div 100
    OBVIOUS
  <1>2. HR!Max({1, n}) \in {1, n}
    <2>1. \E x \in {1, n} : \A y \in {1, n} : x >= y
      OBVIOUS
    <2> QED
      BY <2>1 DEF HR!Max
  <1>3. PICK m \in Int : m = HR!Max({1, n})
    BY <1>2
  <1>4. HR!Min({4, m}) \in {4, m}
    <2>1. \E x \in {4, m} : \A y \in {4, m} : x =< y
      OBVIOUS
    <2> QED
      BY <2>1 DEF HR!Min
  <1> QED
    BY <1>1, <1>3, <1>4 DEF HR!SurgeHours

\* What an assessment of the staff, or a change of an employee, may be at.
NotedLoads == UNION {[S -> Nat] : S \in SUBSET People}
AssessorState ==
  [pc : {"idle", "employee", "loads", "orders", "create"}, of : People \cup {None},
   row : HR!Employee \cup {None}, pending : Nat, orders : Seq(Parcels),
   warehouse : SUBSET People, courier : SUBSET People, loads : NotedLoads, peak : Int,
   group : SUBSET People]

Active(x) == x.pc \notin {"idle", "employee"}
Hirees == {e \in People : s2[e] # None}

Assesses(x) ==
  /\ x \in AssessorState
  /\ x.warehouse \cup x.courier \cup x.group \subseteq Hirees
  /\ x.pc = "employee" => x.of \in People /\ x.row \in HR!Employee
  /\ x.pc = "create" => x.of \in DOMAIN x.loads /\ x.orders # <<>>

\* The tables of the staff, and who works on them.
StaffTables ==
  /\ s2 \in [People -> HR!Employee \cup {None}]
  /\ DeliveriesTyped
  /\ s6 \in [Expenses -> AssessorState]
  /\ \A a \in Expenses : Assesses(s6[a])
  /\ s8 \in BOOLEAN /\ s9 \in BOOLEAN

RequestTable ==
  /\ s3 \in [Questions -> HR!Request \cup {None}]
  /\ \A r \in Questions : s3[r] # None => s2[s3[r].of] # None

LoadOf(e) == TotalOf(OfCourier(e), Parcels)
Couriers == {e \in People : s2[e] # None /\ s2[e].role = "COURIER"}

\* Deliveries are shared: none is made twice, and no courier has two more than another.
SplitAmongCouriers ==
  /\ \A o \in Parcels : \A e, f \in People :
       s5[o][e] <= 1 /\ (s5[o][e] = 1 /\ s5[o][f] = 1 => e = f)
  /\ \A e, f \in Couriers : LoadOf(e) <= LoadOf(f) + 1

\* What an assessment has noted is still so, and whom it chose has least.
Current(x) ==
  Active(x) => /\ x.courier = Couriers /\ DOMAIN x.loads \subseteq x.courier
               /\ \A e \in DOMAIN x.loads : x.loads[e] = LoadOf(e)
               /\ x.pc # "loads" => DOMAIN x.loads = x.courier
               /\ x.pc = "create" => /\ \A e \in People : s5[Head(x.orders)][e] = 0
                                     /\ \A e \in Couriers : LoadOf(x.of) <= LoadOf(e)

OneAssessment == \A a, b \in Expenses : Active(s6[a]) /\ Active(s6[b]) => a = b

FairInv == ~s8 /\ ~s9 => OneAssessment /\ SplitAmongCouriers /\ \A a \in Expenses : Current(s6[a])

\* Nobody at work.
LEMMA RestingAssessor == HR!Resting \in AssessorState /\ ~Active(HR!Resting) /\ Assesses(HR!Resting)
  <1>1. <<>> \in NotedLoads
    <2>1. <<>> \in [{} -> Nat]
      OBVIOUS
    <2> QED
      BY <2>1 DEF NotedLoads
  <1>2. <<>> \in Seq(Parcels)
    OBVIOUS
  <1> QED
    BY <1>1, <1>2 DEF HR!Resting, AssessorState, Active, Assesses

\* The staff of a role was hired.
LEMMA CouriersAreStaff == HR!Staff("COURIER") = Couriers /\ HR!Staff("WAREHOUSE") \subseteq Hirees /\ Couriers \subseteq Hirees
  BY DEF HR!Staff, Couriers, Hirees

\* A total of nothing is nothing.
LEMMA TotalOfZeros ==
  ASSUME NEW f, NEW S, \A x \in S : f[x] = 0
  PROVE  TotalOf(f, S) = 0
  <1>1. UnitsOf(f, S) = {}
    BY DEF UnitsOf
  <1> QED
    BY <1>1, FS_EmptySet DEF TotalOf

\* What a courier carries is a number.
LEMMA LoadIsNumber == DeliveriesTyped => \A e \in People : LoadOf(e) \in Nat
  BY StaffAssumption, TotalType DEF LoadOf, OfCourier, DeliveriesTyped

\* An assessor that goes on keeps what holds of the staff.
LEMMA AssessorGoesOn ==
  ASSUME StaffTables, FairInv, NEW a \in Expenses, NEW x, Assesses(x), s6' = [s6 EXCEPT ![a] = x],
         UNCHANGED <<s2, s5, s9>>, s8' \in BOOLEAN, ~s8' => ~s8,
         ~s8' /\ Active(x) => Active(s6[a]) \/ \A b \in Expenses : ~Active(s6[b]),
         ~s8' /\ ~s9 => Current(x)
  PROVE  StaffTables' /\ FairInv'
  <1>1. s6'[a] = x /\ \A b \in Expenses \ {a} : s6'[b] = s6[b]
    BY DEF StaffTables
  <1>2. s6' \in [Expenses -> AssessorState]
    BY DEF StaffTables, Assesses
  <1>3. Hirees' = Hirees /\ Couriers' = Couriers
    BY DEF Hirees, Couriers
  <1>4. \A b \in Expenses : Assesses(s6'[b])
    BY <1>1 DEF StaffTables
  <1>5. \A b \in Expenses : Assesses(s6[b])'
    BY <1>3, <1>4 DEF Assesses
  <1>6. StaffTables'
    BY <1>2, <1>5 DEF StaffTables, DeliveriesTyped
  <1>7. FairInv'
    <2> SUFFICES ASSUME ~s8', ~s9' PROVE OneAssessment' /\ SplitAmongCouriers' /\ \A b \in Expenses : Current(s6[b])'
      BY DEF FairInv
    <2>1. OneAssessment /\ SplitAmongCouriers /\ \A b \in Expenses : Current(s6[b])
      BY DEF FairInv
    <2>2. OneAssessment'
      BY <1>1, <2>1 DEF OneAssessment
    <2>3. \A e : LoadOf(e)' = LoadOf(e)
      BY DEF LoadOf, OfCourier
    <2>4. SplitAmongCouriers'
      BY <1>3, <2>1, <2>3 DEF SplitAmongCouriers
    <2>5. \A b \in Expenses : Current(s6'[b])
      BY <1>1, <2>1
    <2>6. \A b \in Expenses : Current(s6[b])'
      BY <1>3, <2>3, <2>5 DEF Current
    <2> QED
      BY <2>2, <2>4, <2>6
  <1> QED
    BY <1>6, <1>7

StaffInv == StaffTables /\ FairInv

\* Nothing is carried while nothing is delivered.
LEMMA NobodyCarries ==
  ASSUME DeliveriesTyped, ~HR!Assigned
  PROVE  /\ \A o \in Parcels, e \in People : s5[o][e] = 0
         /\ \A e \in People : LoadOf(e) = 0
  <1>1. \A o \in Parcels, e \in People : s5[o][e] = 0
    BY DEF DeliveriesTyped, HR!Assigned
  <1>2. ASSUME NEW e \in People PROVE LoadOf(e) = 0
    <2>1. \A o \in Parcels : OfCourier(e)[o] = 0
      BY <1>1 DEF OfCourier
    <2> QED
      BY <2>1, TotalOfZeros DEF LoadOf
  <1> QED
    BY <1>1, <1>2

\* A row of an employee is saved,
LEMMA EmployeeSaved ==
  ASSUME StaffInv, RequestTable, NEW e \in People, NEW row \in HR!Employee, HR!SaveEmployee(e, row),
         UNCHANGED <<s3, s5, s8>>,
         s6' = s6 \/ \E a \in Expenses : s6' = [s6 EXCEPT ![a] = HR!Resting]
  PROVE  StaffInv' /\ RequestTable'
  <1>1. HR!StoredEmployee(row) \in HR!Employee
    BY DEF HR!StoredEmployee, HR!Employee
  <1>2. PICK new \in HR!Employee : s2' = [s2 EXCEPT ![e] = new]
    BY <1>1 DEF HR!SaveEmployee
  <1>3. s2' \in [People -> HR!Employee \cup {None}] /\ Hirees \subseteq Hirees' /\ new # None
    BY <1>2, StaffAssumption DEF StaffInv, StaffTables, Hirees
  <1>4. RequestTable'
    BY <1>2, <1>3 DEF RequestTable, StaffInv, StaffTables, HR!Request, Hirees
  <1>5. s9' = (s9 \/ HR!Assigned \/ \E a \in Expenses : s6[a].pc \notin {"idle", "employee"})
    BY DEF HR!SaveEmployee
  <1>6. \A a \in Expenses : s6'[a] = s6[a] \/ s6'[a] = HR!Resting
    BY DEF StaffInv, StaffTables
  <1>7. s6' \in [Expenses -> AssessorState]
    BY RestingAssessor DEF StaffInv, StaffTables
  <1>8. \A a \in Expenses : Assesses(s6[a]) /\ Assesses(HR!Resting)
    BY RestingAssessor DEF StaffInv, StaffTables
  <1>9. \A a \in Expenses : Assesses(s6[a])'
    BY <1>3, <1>6, <1>8 DEF Assesses
  <1>10. StaffTables'
    BY <1>3, <1>5, <1>7, <1>9 DEF StaffInv, StaffTables, DeliveriesTyped
  <1>11. FairInv'
    <2> SUFFICES ASSUME ~s9' PROVE OneAssessment' /\ SplitAmongCouriers' /\ \A a \in Expenses : Current(s6[a])'
      BY DEF FairInv
    <2>1. ~HR!Assigned /\ \A a \in Expenses : ~Active(s6[a])
      BY <1>5 DEF Active
    <2>2. \A a \in Expenses : ~Active(s6'[a])
      BY <1>6, <2>1, RestingAssessor
    <2>3. OneAssessment'
      BY <2>2 DEF OneAssessment
    <2>4. \A a \in Expenses : Current(s6[a])'
      BY <2>2 DEF Current, Active
    <2>5. /\ \A o \in Parcels, x \in People : s5[o][x] = 0
          /\ \A x \in People : LoadOf(x) = 0
      BY <2>1, NobodyCarries DEF StaffInv, StaffTables
    <2>6. \A x \in People : LoadOf(x)' = LoadOf(x)
      BY DEF LoadOf, OfCourier
    <2>7. SplitAmongCouriers'
      BY <2>5, <2>6 DEF SplitAmongCouriers, Couriers
    <2> QED
      BY <2>3, <2>4, <2>7
  <1> QED
    BY <1>4, <1>10, <1>11 DEF StaffInv

\* as it is for a new employee and for a changed one.
LEMMA EmployeeMade ==
  ASSUME StaffInv, RequestTable, NEW e \in People, NEW role \in HR!Role, NEW rate \in Rates,
         HR!CreateEmployee(e, role, rate)
  PROVE  StaffInv' /\ RequestTable'
  <1>1. [role |-> role, rate |-> rate] \in HR!Employee
    BY StaffAssumption DEF HR!Employee
  <1> QED
    BY <1>1, EmployeeSaved DEF HR!CreateEmployee

\* An employee is written with the row that was read.
LEMMA EmployeeWritten ==
  ASSUME StaffInv, RequestTable, NEW a \in Expenses, HR!WriteEmployee(a)
  PROVE  StaffInv' /\ RequestTable'
  <1>1. s6[a].of \in People /\ s6[a].row \in HR!Employee
    BY DEF HR!WriteEmployee, StaffInv, StaffTables, Assesses
  <1> QED
    BY <1>1, EmployeeSaved DEF HR!WriteEmployee

\* An assessor is put to work on an employee,
LEMMA EmployeeTaken ==
  ASSUME StaffInv, NEW a \in Expenses, NEW e \in People, NEW role \in HR!Role, NEW rate \in Rates,
         HR!UpdateEmployee(a, e, role, rate)
  PROVE  StaffInv'
  <1>1. PICK row \in HR!Employee : row = [role |-> role, rate |-> rate]
    BY StaffAssumption DEF HR!Employee
  <1>2. PICK x : x = [HR!Resting EXCEPT !.pc = "employee", !.of = e, !.row = row]
    OBVIOUS
  <1>3. s6' = [s6 EXCEPT ![a] = x] /\ UNCHANGED <<s2, s5, s8, s9>>
    BY <1>1, <1>2 DEF HR!UpdateEmployee
  <1>4. x \in AssessorState /\ x.pc = "employee" /\ x.of = e /\ x.row = row
        /\ x.warehouse = {} /\ x.courier = {} /\ x.group = {}
    <2>1. x = [pc |-> "employee", of |-> e, row |-> row, pending |-> 0, orders |-> HR!Resting.orders,
               warehouse |-> {}, courier |-> {}, loads |-> HR!Resting.loads, peak |-> 0, group |-> {}]
      BY <1>2 DEF HR!Resting
    <2>2. HR!Resting.orders \in Seq(Parcels) /\ HR!Resting.loads \in NotedLoads
      BY RestingAssessor DEF AssessorState
    <2> QED
      BY <2>1, <2>2 DEF AssessorState
  <1>5. Assesses(x) /\ ~Active(x)
    BY <1>4 DEF Assesses, Active
  <1> QED
    BY <1>3, <1>5, AssessorGoesOn DEF StaffInv, Current, StaffTables

\* or on the staff: the orders are some sequence.
LEMMA OrdersInTurn ==
  ASSUME NEW S \in SUBSET Parcels
  PROVE  HR!SetToSeq(S) \in Seq(Parcels)
  <1>1. IsFiniteSet(S)
    BY StaffAssumption, FS_Subset
  <1>2. PICK n \in Nat : n = Cardinality(S)
    BY <1>1, FS_CardinalityType
  <1>3. HR!Cardinality(S) = n
    BY <1>2 DEF HR!Cardinality, Cardinality
  <1>4. PICK f \in Injection(1 .. n, S) : TRUE
    <2>1. ExistsBijection(1 .. n, S)
      BY <1>1, <1>2, FS_CardinalityType
    <2> QED
      BY <2>1 DEF ExistsBijection, Bijection
  <1>5. f \in [1 .. n -> S] /\ HR!IsInjective(f)
    BY <1>4 DEF Injection, IsInjective, HR!IsInjective
  <1>6. HR!SetToSeq(S) \in [1 .. n -> S]
    BY <1>3, <1>5 DEF HR!SetToSeq
  <1> QED
    BY <1>6

\* or to an assessment, with the staff and the parcels there are,
LEMMA AssessmentBegun ==
  ASSUME StaffInv, NEW a \in Expenses, NEW pending \in Loads, NEW S \in SUBSET Parcels,
         HR!AssessStaffing(a, pending, HR!SetToSeq(S))
  PROVE  StaffInv'
  <1>1. PICK turn \in Seq(Parcels) : turn = HR!SetToSeq(S)
    BY OrdersInTurn
  <1>2. PICK hands \in SUBSET Hirees : hands = HR!Staff("WAREHOUSE")
    BY CouriersAreStaff
  <1>3. PICK x : x = [HR!Resting EXCEPT !.pc = "loads", !.orders = turn, !.pending = pending,
                                        !.warehouse = hands, !.courier = Couriers]
    OBVIOUS
  <1>4. /\ s6[a] = HR!Resting /\ s6' = [s6 EXCEPT ![a] = x] /\ UNCHANGED <<s2, s5, s9>>
        /\ s8' = (s8 \/ \E b \in Expenses : s6[b].pc \notin {"idle", "employee"})
    BY <1>1, <1>2, <1>3, CouriersAreStaff DEF HR!AssessStaffing
  <1>5. /\ x \in AssessorState /\ x.pc = "loads" /\ x.group = {} /\ x.warehouse = hands /\ x.courier = Couriers
        /\ DOMAIN x.loads = {}
    <2>1. x = [pc |-> "loads", of |-> None, row |-> None, pending |-> pending, orders |-> turn,
               warehouse |-> hands, courier |-> Couriers, loads |-> HR!Resting.loads, peak |-> 0, group |-> {}]
      BY <1>3 DEF HR!Resting
    <2>2. HR!Resting.loads \in NotedLoads /\ DOMAIN HR!Resting.loads = {}
      BY RestingAssessor DEF AssessorState, HR!Resting
    <2>3. hands \subseteq People /\ Couriers \subseteq People /\ pending \in Nat
      BY StaffAssumption DEF Hirees, Couriers
    <2> QED
      BY <2>1, <2>2, <2>3 DEF AssessorState
  <1>6. Assesses(x)
    BY <1>5, CouriersAreStaff DEF Assesses
  <1>7. Current(x)
    BY <1>5 DEF Current
  <1>8. s8' \in BOOLEAN /\ (~s8' => ~s8) /\ (~s8' => \A b \in Expenses : ~Active(s6[b]))
    BY <1>4 DEF Active, StaffInv, StaffTables
  <1> QED
    BY <1>4, <1>6, <1>7, <1>8, AssessorGoesOn DEF StaffInv

\* What an assessor at work has noted.
LEMMA AtWork ==
  ASSUME StaffInv, NEW a \in Expenses
  PROVE  /\ s6[a] \in AssessorState /\ Assesses(s6[a])
         /\ DOMAIN s6[a].loads \subseteq People /\ \A e \in DOMAIN s6[a].loads : s6[a].loads[e] \in Nat
         /\ ~s8 /\ ~s9 => Current(s6[a])
  BY DEF StaffInv, StaffTables, AssessorState, NotedLoads, FairInv

\* The load of one more courier.
LEMMA LoadRead ==
  ASSUME StaffInv, NEW a \in Expenses, NEW e \in People, HR!ReadLoad(a, e)
  PROVE  StaffInv'
  <1> DEFINE loads == s6[a].loads
             more == [x \in DOMAIN loads \cup {e} |-> IF x = e THEN HR!Carried(e) ELSE loads[x]]
  <1>1. /\ s6[a].pc = "loads" /\ e \in s6[a].courier \ DOMAIN loads
        /\ s6' = [s6 EXCEPT ![a].loads = more] /\ UNCHANGED <<s2, s5, s8, s9>>
    BY DEF HR!ReadLoad
  <1>2. HR!Carried(e) = LoadOf(e) /\ LoadOf(e) \in Nat
    BY CarriedIsTotal, LoadIsNumber DEF LoadOf, StaffInv, StaffTables
  <1>3. more \in NotedLoads
    <2>1. more \in [DOMAIN loads \cup {e} -> Nat]
      BY <1>2, AtWork
    <2>2. DOMAIN loads \cup {e} \in SUBSET People
      BY AtWork
    <2> QED
      BY <2>1, <2>2 DEF NotedLoads
  <1>4. PICK m \in NotedLoads : m = more
    BY <1>3
  <1>5. /\ DOMAIN m = DOMAIN loads \cup {e} /\ m[e] = LoadOf(e)
        /\ \A x \in DOMAIN loads : m[x] = loads[x]
    BY <1>1, <1>2, <1>4
  <1>6. PICK x : x = [s6[a] EXCEPT !.loads = m]
    OBVIOUS
  <1>7. s6' = [s6 EXCEPT ![a] = x]
    BY <1>1, <1>4, <1>6 DEF StaffInv, StaffTables
  <1>8. /\ x \in AssessorState /\ x.pc = "loads" /\ x.warehouse = s6[a].warehouse
        /\ x.courier = s6[a].courier /\ x.group = s6[a].group /\ x.loads = m
    BY <1>1, <1>6, AtWork DEF AssessorState
  <1>9. Assesses(x) /\ Active(s6[a])
    BY <1>1, <1>8, AtWork DEF Assesses, Active
  <1>10. ~s8 /\ ~s9 => Current(x)
    BY <1>1, <1>5, <1>8, <1>9, AtWork DEF Current
  <1> QED
    BY <1>1, <1>7, <1>9, <1>10, AssessorGoesOn DEF StaffInv, StaffTables

\* The judgement.
LEMMA Judged ==
  ASSUME StaffInv, NEW a \in Expenses, HR!Judge(a)
  PROVE  StaffInv'
  <1> DEFINE loads == s6[a].loads
             total == HR!MapThenSumSet(LAMBDA e : loads[e], DOMAIN loads)
             warehouse == HR!Utilization(s6[a].pending, WarehousePerHead * HR!Cardinality(s6[a].warehouse))
             courier == HR!Utilization(total, CourierPerHead * HR!Cardinality(s6[a].courier))
             top == HR!Max({warehouse, courier})
             team == IF HR!Severity(top) \notin {"OVERLOADED", "CRITICAL"} THEN {}
                     ELSE IF warehouse >= courier THEN s6[a].warehouse ELSE s6[a].courier
  <1>1. /\ s6[a].pc = "loads" /\ DOMAIN loads = s6[a].courier /\ UNCHANGED <<s2, s5, s8, s9>>
        /\ s6' = [s6 EXCEPT ![a].pc = "orders", ![a].peak = top, ![a].group = team]
    BY DEF HR!Judge
  <1>2. total \in Nat
    BY AtWork, LoadsAreNumbers
  <1>3. warehouse \in Int /\ courier \in Int
    <2>1. \A S \in SUBSET People : HR!Cardinality(S) \in Nat
      <3>1. \A S \in SUBSET People : IsFiniteSet(S) /\ Cardinality(S) \in Nat
        BY StaffAssumption, FS_Subset, FS_CardinalityType
      <3> QED
        BY <3>1 DEF HR!Cardinality, Cardinality
    <2>2. PICK n, m \in Nat : n = HR!Cardinality(s6[a].warehouse) /\ m = HR!Cardinality(s6[a].courier)
      BY <2>1, AtWork DEF AssessorState
    <2>3. WarehousePerHead * n \in Nat /\ CourierPerHead * m \in Nat
      BY StaffAssumption
    <2>4. s6[a].pending \in Nat
      BY AtWork DEF AssessorState
    <2> QED
      BY <1>2, <2>2, <2>3, <2>4, UtilizationIsNumber
  <1> HIDE DEF warehouse, courier
  <1>4. top \in Int
    <2>1. \E x \in {warehouse, courier} : \A y \in {warehouse, courier} : x >= y
      BY <1>3
    <2> QED
      BY <1>3, <2>1 DEF HR!Max
  <1> HIDE DEF top
  <1>5. PICK peak \in Int, group \in SUBSET (s6[a].warehouse \cup s6[a].courier) : peak = top /\ group = team
    BY <1>4
  <1>6. PICK x : x = [s6[a] EXCEPT !.pc = "orders", !.peak = peak, !.group = group]
    OBVIOUS
  <1>7. s6' = [s6 EXCEPT ![a] = x]
    BY <1>1, <1>5, <1>6 DEF StaffInv, StaffTables
  <1>8. /\ x \in AssessorState /\ x.pc = "orders" /\ x.warehouse = s6[a].warehouse
        /\ x.courier = s6[a].courier /\ x.group = group /\ x.loads = s6[a].loads
    <2>1. group \subseteq People
      BY AtWork DEF AssessorState
    <2> QED
      BY <1>6, <2>1, AtWork DEF AssessorState
  <1>9. Assesses(x) /\ Active(s6[a])
    BY <1>1, <1>5, <1>8, AtWork DEF Assesses, Active
  <1>10. ~s8 /\ ~s9 => Current(x)
    BY <1>1, <1>8, <1>9, AtWork DEF Current
  <1> QED
    BY <1>1, <1>7, <1>9, <1>10, AssessorGoesOn DEF StaffInv, StaffTables

\* The next order is passed over, or its courier chosen.
LEMMA OrderConsidered ==
  ASSUME StaffInv, NEW a \in Expenses, HR!ConsiderOrder(a)
  PROVE  StaffInv'
  <1> DEFINE turn == s6[a].orders
  <1>1. /\ s6[a].pc = "orders" /\ turn # <<>> /\ UNCHANGED <<s2, s5, s8, s9>>
        /\ turn \in Seq(Parcels) /\ Head(turn) \in Parcels /\ Tail(turn) \in Seq(Parcels)
    BY AtWork DEF HR!ConsiderOrder, AssessorState
  <1>2. Active(s6[a])
    BY <1>1 DEF Active
  <1>3. ASSUME NEW rest \in {Tail(turn), <<>>}, s6' = [s6 EXCEPT ![a].orders = rest]
        PROVE  StaffInv'
    <2>1. PICK x : x = [s6[a] EXCEPT !.orders = rest]
      OBVIOUS
    <2>2. s6' = [s6 EXCEPT ![a] = x]
      BY <1>3, <2>1 DEF StaffInv, StaffTables
    <2>3. /\ x \in AssessorState /\ x.pc = "orders" /\ x.warehouse = s6[a].warehouse
          /\ x.courier = s6[a].courier /\ x.group = s6[a].group /\ x.loads = s6[a].loads
      <3>0. <<>> \in Seq(Parcels)
        OBVIOUS
      <3>1. rest \in Seq(Parcels)
        BY <1>1, <3>0, Zenon
      <3> QED
        BY <1>1, <2>1, <3>1, AtWork DEF AssessorState
    <2>4. Assesses(x)
      BY <2>3, AtWork DEF Assesses
    <2>5. ~s8 /\ ~s9 => Current(x)
      BY <1>1, <1>2, <2>3, AtWork DEF Current
    <2> QED
      BY <1>1, <1>2, <2>2, <2>4, <2>5, AssessorGoesOn DEF StaffInv, StaffTables
  <1>4. ASSUME HR!Undelivered(Head(turn)), NEW e \in HR!LeastLoaded(a),
               s6' = [s6 EXCEPT ![a].pc = "create", ![a].of = e]
        PROVE  StaffInv'
    <2>1. /\ e \in DOMAIN s6[a].loads /\ e \in People
          /\ \A y \in DOMAIN s6[a].loads : s6[a].loads[e] <= s6[a].loads[y]
      BY <1>4, AtWork DEF HR!LeastLoaded
    <2>2. PICK x : x = [s6[a] EXCEPT !.pc = "create", !.of = e]
      OBVIOUS
    <2>3. s6' = [s6 EXCEPT ![a] = x]
      BY <1>4, <2>2 DEF StaffInv, StaffTables
    <2>4. /\ x \in AssessorState /\ x.pc = "create" /\ x.of = e /\ x.orders = turn
          /\ x.warehouse = s6[a].warehouse
          /\ x.courier = s6[a].courier /\ x.group = s6[a].group /\ x.loads = s6[a].loads
      BY <2>1, <2>2, AtWork DEF AssessorState
    <2>5. Assesses(x)
      BY <1>1, <2>1, <2>4, AtWork DEF Assesses
    <2>6. ~s8 /\ ~s9 => Current(x)
      <3>1. \A y \in People : s5[Head(turn)][y] = 0
        BY <1>4 DEF HR!Undelivered
      <3>2. SUFFICES ASSUME ~s8, ~s9 PROVE Current(x)
        OBVIOUS
      <3>3. /\ s6[a].courier = Couriers /\ DOMAIN s6[a].loads = Couriers
            /\ \A y \in Couriers : s6[a].loads[y] = LoadOf(y)
        BY <1>1, <1>2, <3>2, AtWork DEF Current
      <3> QED
        BY <2>1, <2>4, <3>1, <3>3 DEF Current
    <2> QED
      BY <1>1, <1>2, <2>3, <2>5, <2>6, AssessorGoesOn DEF StaffInv, StaffTables
  <1>5. \/ s6' = [s6 EXCEPT ![a].orders = Tail(turn)]
        \/ s6' = [s6 EXCEPT ![a].orders = <<>>]
        \/ /\ HR!Undelivered(Head(turn))
           /\ \E e \in HR!LeastLoaded(a) : s6' = [s6 EXCEPT ![a].pc = "create", ![a].of = e]
    BY DEF HR!ConsiderOrder, StaffInv, StaffTables
  <1> QED
    BY <1>3, <1>4, <1>5

\* What one more delivery does to the totals.
LEMMA OneMoreCarried ==
  ASSUME DeliveriesTyped, NEW o \in Parcels, NEW e \in People,
         s5' = [s5 EXCEPT ![o] = [s5[o] EXCEPT ![e] = s5[o][e] + 1]]
  PROVE  /\ DeliveriesTyped' /\ s5'[o][e] = s5[o][e] + 1
         /\ \A p \in Parcels, f \in People : p # o \/ f # e => s5'[p][f] = s5[p][f]
         /\ LoadOf(e)' = LoadOf(e) + 1
         /\ \A f \in People \ {e} : LoadOf(f)' = LoadOf(f)
  <1>1. DeliveriesTyped' /\ s5'[o][e] = s5[o][e] + 1
    BY DEF DeliveriesTyped
  <1>2. \A p \in Parcels, f \in People : p # o \/ f # e => s5'[p][f] = s5[p][f]
    BY DEF DeliveriesTyped
  <1>3. PICK n, m : n = OfCourier(e) /\ m = OfCourier(e)'
    OBVIOUS
  <1>4. /\ \A p \in Parcels : n[p] = s5[p][e] /\ n[p] \in Nat /\ m[p] = s5'[p][e] /\ m[p] \in Nat
        /\ m[o] = n[o] + 1 /\ \A p \in Parcels \ {o} : m[p] = n[p]
    BY <1>1, <1>2, <1>3 DEF OfCourier, DeliveriesTyped
  <1>5. TotalOf(m, Parcels) = m[o] + TotalOf(m, Parcels \ {o}) /\ TotalOf(n, Parcels) = n[o] + TotalOf(n, Parcels \ {o})
    <2>1. \A p \in Parcels : n[p] \in Nat
      BY <1>4
    <2>2. \A p \in Parcels : m[p] \in Nat
      BY <1>4
    <2>3. TotalOf(n, Parcels) = n[o] + TotalOf(n, Parcels \ {o})
      BY <2>1, StaffAssumption, TotalWithout
    <2>4. TotalOf(m, Parcels) = m[o] + TotalOf(m, Parcels \ {o})
      BY <2>2, StaffAssumption, TotalWithout
    <2> QED
      BY <2>3, <2>4
  <1>6. TotalOf(m, Parcels \ {o}) = TotalOf(n, Parcels \ {o})
    BY <1>4, TotalSame
  <1>7. IsFiniteSet(Parcels \ {o})
    BY StaffAssumption, FS_RemoveElement
  <1>8. PICK rest \in Nat : rest = TotalOf(n, Parcels \ {o})
    BY <1>4, <1>7, TotalType
  <1>9. TotalOf(m, Parcels) = TotalOf(n, Parcels) + 1
    BY <1>4, <1>5, <1>6, <1>8
  <1>10. LoadOf(e)' = LoadOf(e) + 1
    BY <1>3, <1>9 DEF LoadOf
  <1>11. ASSUME NEW f \in People \ {e} PROVE LoadOf(f)' = LoadOf(f)
    <2>1. PICK k, l : k = OfCourier(f) /\ l = OfCourier(f)'
      OBVIOUS
    <2>2. \A p \in Parcels : l[p] = k[p]
      BY <1>2, <2>1 DEF OfCourier
    <2>3. TotalOf(l, Parcels) = TotalOf(k, Parcels)
      BY <2>2, TotalSame
    <2> QED
      BY <2>1, <2>3 DEF LoadOf
  <1> QED
    BY <1>1, <1>2, <1>10, <1>11

\* The delivery.
LEMMA DeliveryMade ==
  ASSUME StaffInv, NEW a \in Expenses, HR!CreateDelivery(a)
  PROVE  StaffInv'
  <1>0. PICK e : e = s6[a].of
    OBVIOUS
  <1> DEFINE turn == s6[a].orders
             loads == s6[a].loads
  <1>1. /\ s6[a].pc = "create" /\ UNCHANGED <<s2, s8, s9>>
        /\ s5' = [s5 EXCEPT ![Head(turn)][e] = s5[Head(turn)][e] + 1]
        /\ s6' = [s6 EXCEPT ![a].pc = "orders", ![a].orders = Tail(turn),
                            ![a].loads = [loads EXCEPT ![e] = loads[e] + 1]]
    BY <1>0 DEF HR!CreateDelivery, HR!LoadsAfter, StaffInv, StaffTables, DeliveriesTyped
  <1>2. /\ turn # <<>> /\ turn \in Seq(Parcels) /\ Head(turn) \in Parcels /\ Tail(turn) \in Seq(Parcels)
        /\ e \in DOMAIN loads /\ e \in People
    BY <1>0, <1>1, AtWork DEF AssessorState, Assesses
  <1>3. PICK o, rest, m : /\ o = Head(turn) /\ rest = Tail(turn)
                         /\ m = [loads EXCEPT ![e] = loads[e] + 1]
    OBVIOUS
  <1>14. o \in Parcels /\ rest \in Seq(Parcels)
    BY <1>2, <1>3
  <1>4. /\ m \in NotedLoads /\ DOMAIN m = DOMAIN loads
        /\ m[e] = loads[e] + 1 /\ \A y \in DOMAIN loads : y # e => m[y] = loads[y]
    <2>1. m \in [DOMAIN loads -> Nat]
      <3>1. PICK S \in SUBSET People : loads \in [S -> Nat]
        BY AtWork DEF AssessorState, NotedLoads
      <3> QED
        BY <1>2, <1>3, <3>1
    <2>2. DOMAIN loads \in SUBSET People
      BY AtWork
    <2> QED
      BY <1>2, <1>3, <2>1, <2>2 DEF NotedLoads
  <1>5. PICK x : x = [s6[a] EXCEPT !.pc = "orders", !.orders = rest, !.loads = m]
    OBVIOUS
  <1>6. s6' = [s6 EXCEPT ![a] = x] /\ s6'[a] = x /\ \A b \in Expenses \ {a} : s6'[b] = s6[b]
    BY <1>1, <1>3, <1>5 DEF StaffInv, StaffTables
  <1>7. /\ x \in AssessorState /\ x.pc = "orders" /\ x.warehouse = s6[a].warehouse
        /\ x.courier = s6[a].courier /\ x.group = s6[a].group /\ x.loads = m
    BY <1>4, <1>5, <1>14, AtWork DEF AssessorState
  <1>8. Assesses(x)
    BY <1>7, AtWork DEF Assesses
  <1>9. s5' = [s5 EXCEPT ![o] = [s5[o] EXCEPT ![e] = s5[o][e] + 1]]
    BY <1>1, <1>3
  <1>10. /\ DeliveriesTyped' /\ s5'[o][e] = s5[o][e] + 1
         /\ \A p \in Parcels, f \in People : p # o \/ f # e => s5'[p][f] = s5[p][f]
         /\ LoadOf(e)' = LoadOf(e) + 1
         /\ \A f \in People \ {e} : LoadOf(f)' = LoadOf(f)
    BY <1>2, <1>9, <1>14, OneMoreCarried DEF StaffInv, StaffTables
  <1>11. Hirees' = Hirees /\ Couriers' = Couriers
    BY <1>1 DEF Hirees, Couriers
  <1>12. StaffTables'
    <2>1. s6' \in [Expenses -> AssessorState]
      BY <1>6, <1>7 DEF StaffInv, StaffTables
    <2>2. \A b \in Expenses : Assesses(s6'[b])
      BY <1>6, <1>8 DEF StaffInv, StaffTables
    <2>3. \A b \in Expenses : Assesses(s6[b])'
      BY <1>11, <2>2 DEF Assesses
    <2> QED
      BY <1>1, <1>10, <2>1, <2>3 DEF StaffInv, StaffTables
  <1>13. FairInv'
    <2> SUFFICES ASSUME ~s8, ~s9 PROVE OneAssessment' /\ SplitAmongCouriers' /\ \A b \in Expenses : Current(s6[b])'
      BY <1>1 DEF FairInv
    <2>1. OneAssessment /\ SplitAmongCouriers /\ Current(s6[a])
      BY DEF StaffInv, FairInv
    <2>2. Active(s6[a])
      BY <1>1 DEF Active
    <2>3. /\ s6[a].courier = Couriers /\ DOMAIN loads = Couriers /\ e \in Couriers
          /\ \A y \in Couriers : loads[y] = LoadOf(y)
          /\ \A y \in People : s5[o][y] = 0
          /\ \A y \in Couriers : LoadOf(e) <= LoadOf(y)
      BY <1>0, <1>1, <1>2, <1>3, <2>1, <2>2 DEF Current
    <2>4. \A b \in Expenses \ {a} : ~Active(s6'[b])
      BY <1>6, <2>1, <2>2 DEF OneAssessment
    <2>5. OneAssessment'
      BY <2>4 DEF OneAssessment
    <2>6. \A p \in Parcels : \A y, z \in People :
            s5'[p][y] <= 1 /\ (s5'[p][y] = 1 /\ s5'[p][z] = 1 => y = z)
      <3> SUFFICES ASSUME NEW p \in Parcels, NEW y \in People, NEW z \in People
                   PROVE  s5'[p][y] <= 1 /\ (s5'[p][y] = 1 /\ s5'[p][z] = 1 => y = z)
        OBVIOUS
      <3>1. CASE p = o
        <4>1. \A f \in People : s5'[o][f] = IF f = e THEN 1 ELSE 0
          BY <1>2, <1>10, <1>14, <2>3
        <4> QED
          BY <3>1, <4>1
      <3>2. CASE p # o
        BY <1>10, <2>1, <3>2 DEF SplitAmongCouriers
      <3> QED
        BY <3>1, <3>2
    <2>7. \A y \in Couriers : LoadOf(y) \in Nat /\ y \in People
      BY LoadIsNumber DEF StaffInv, StaffTables, Couriers
    <2>8. \A y, z \in Couriers : LoadOf(y)' <= LoadOf(z)' + 1
      <3> SUFFICES ASSUME NEW y \in Couriers, NEW z \in Couriers PROVE LoadOf(y)' <= LoadOf(z)' + 1
        OBVIOUS
      <3>1. PICK ly, lz, le \in Nat : ly = LoadOf(y) /\ lz = LoadOf(z) /\ le = LoadOf(e)
        BY <2>3, <2>7
      <3>2. ly <= lz + 1 /\ le <= lz /\ le <= ly
        BY <2>1, <2>3, <3>1 DEF SplitAmongCouriers
      <3>3. LoadOf(y)' = (IF y = e THEN ly + 1 ELSE ly) /\ LoadOf(z)' = (IF z = e THEN lz + 1 ELSE lz)
        BY <1>10, <2>7, <3>1
      <3>4. y = e => ly = le
        BY <3>1
      <3> QED
        BY <3>1, <3>2, <3>3, <3>4
    <2>9. SplitAmongCouriers'
      BY <1>11, <2>6, <2>8 DEF SplitAmongCouriers
    <2>10. Current(s6[a])'
      <3>1. \A y \in Couriers : m[y] = LoadOf(y)'
        BY <1>4, <1>10, <2>3, <2>7
      <3> QED
        BY <1>4, <1>6, <1>7, <1>11, <2>3, <3>1 DEF Current
    <2>11. \A b \in Expenses : Current(s6[b])'
      BY <2>4, <2>10 DEF Current, Active
    <2> QED
      BY <2>5, <2>9, <2>11
  <1> QED
    BY <1>12, <1>13 DEF StaffInv

\* A step that moves no staff and no assessor.
LEMMA StaffStays ==
  ASSUME StaffInv, UNCHANGED <<s2, s5, s6, s8, s9>>
  PROVE  StaffInv'
  <1>1. Hirees' = Hirees /\ Couriers' = Couriers /\ \A e : LoadOf(e)' = LoadOf(e)
    BY DEF Hirees, Couriers, LoadOf, OfCourier
  <1>2. \A a \in Expenses : Assesses(s6[a])'
    BY <1>1 DEF StaffInv, StaffTables, Assesses
  <1>3. StaffTables'
    BY <1>2 DEF StaffInv, StaffTables, DeliveriesTyped
  <1>4. \A a \in Expenses : Current(s6[a]) => Current(s6[a])'
    BY <1>1 DEF Current
  <1>5. FairInv'
    BY <1>1, <1>4 DEF StaffInv, FairInv, OneAssessment, SplitAmongCouriers
  <1> QED
    BY <1>3, <1>5 DEF StaffInv

\* The end of an assessment,
LEMMA Concluded ==
  ASSUME StaffInv, NEW a \in Expenses, HR!Conclude(a)
  PROVE  StaffInv'
  <1>1. s6' = [s6 EXCEPT ![a] = HR!Resting] /\ UNCHANGED <<s2, s5, s8, s9>>
    BY DEF HR!Conclude
  <1>2. Current(HR!Resting)
    BY RestingAssessor DEF Current
  <1> QED
    BY <1>1, <1>2, RestingAssessor, AssessorGoesOn DEF StaffInv, StaffTables

\* and the overtime it asks for.
LEMMA SurgeAsked ==
  ASSUME StaffInv, RequestTable, NEW a \in Expenses, NEW e \in People, NEW r \in Questions,
         HR!RequestSurge(a, e, r)
  PROVE  StaffInv' /\ RequestTable'
  <1>1. /\ s6[a].pc = "orders" /\ e \in s6[a].group /\ UNCHANGED <<s2, s5, s8, s9>>
        /\ s6' = [s6 EXCEPT ![a].group = s6[a].group \ {e}]
        /\ s3' = [s3 EXCEPT ![r] = HR!Overtime(e, HR!SurgeHours(s6[a].peak), TRUE)]
    BY DEF HR!RequestSurge, StaffInv, StaffTables
  <1>2. PICK x : x = [s6[a] EXCEPT !.group = s6[a].group \ {e}]
    OBVIOUS
  <1>3. s6' = [s6 EXCEPT ![a] = x]
    BY <1>1, <1>2 DEF StaffInv, StaffTables
  <1>4. /\ x \in AssessorState /\ x.pc = "orders" /\ x.warehouse = s6[a].warehouse
        /\ x.courier = s6[a].courier /\ x.group \subseteq s6[a].group /\ x.loads = s6[a].loads
    <2>1. s6[a].group \ {e} \in SUBSET People
      BY AtWork DEF AssessorState
    <2> QED
      BY <1>1, <1>2, <2>1, AtWork DEF AssessorState
  <1>5. Assesses(x) /\ Active(s6[a])
    BY <1>1, <1>4, AtWork DEF Assesses, Active
  <1>6. ~s8 /\ ~s9 => Current(x)
    BY <1>1, <1>4, <1>5, AtWork DEF Current
  <1>7. StaffInv'
    BY <1>1, <1>3, <1>5, <1>6, AssessorGoesOn DEF StaffInv, StaffTables
  <1>8. s2[e] # None /\ s2[e] \in HR!Employee
    BY <1>1, AtWork DEF Assesses, Hirees, StaffInv, StaffTables
  <1>9. PICK hours \in Int : hours = HR!SurgeHours(s6[a].peak)
    BY HoursAreNumbers, AtWork DEF AssessorState
  <1>10. HR!Overtime(e, hours, TRUE) \in HR!Request /\ HR!Overtime(e, hours, TRUE).of = e
    BY <1>8, CostIsNumber DEF HR!Overtime, HR!Request
  <1>11. RequestTable'
    BY <1>1, <1>8, <1>9, <1>10 DEF RequestTable
  <1> QED
    BY <1>7, <1>11

\* Requests of clients,
LEMMA RequestMoves ==
  ASSUME StaffInv, RequestTable, HR!RequestStep
  PROVE  StaffInv' /\ RequestTable'
  <1>1. ASSUME NEW r \in Questions, NEW e \in People, HR!RequestLeave(r, e) PROVE StaffInv' /\ RequestTable'
    <2>1. UNCHANGED <<s2, s5, s6, s8, s9>> /\ s2[e] # None
      BY <1>1 DEF HR!RequestLeave
    <2>2. PICK row : row = [kind |-> "leave", of |-> e, hours |-> 0, reason |-> FALSE, cost |-> 0,
                            status |-> "PENDING"]
      OBVIOUS
    <2>3. row \in HR!Request /\ row.of = e
      BY <2>2 DEF HR!Request
    <2>4. s3' = [s3 EXCEPT ![r] = row]
      BY <1>1, <2>2 DEF HR!RequestLeave
    <2> QED
      BY <2>1, <2>3, <2>4, StaffStays DEF RequestTable
  <1>2. ASSUME NEW r \in Questions, NEW e \in People, NEW h \in Hours, NEW why \in BOOLEAN,
               HR!RequestOvertime(r, e, h, why)
        PROVE  StaffInv' /\ RequestTable'
    <2>1. UNCHANGED <<s2, s5, s6, s8, s9>> /\ s2[e] # None /\ s2[e] \in HR!Employee /\ h \in Int
      BY <1>2, StaffAssumption DEF HR!RequestOvertime, StaffInv, StaffTables
    <2>2. HR!Overtime(e, h, why) \in HR!Request /\ HR!Overtime(e, h, why).of = e
      BY <2>1, CostIsNumber DEF HR!Overtime, HR!Request
    <2>3. s3' = [s3 EXCEPT ![r] = HR!Overtime(e, h, why)]
      BY <1>2 DEF HR!RequestOvertime
    <2> QED
      BY <2>1, <2>2, <2>3, StaffStays DEF RequestTable
  <1>3. ASSUME NEW r \in Questions, NEW status \in {"APPROVED", "REJECTED"}, HR!Settle(r, status)
        PROVE  StaffInv' /\ RequestTable'
    <2>1. UNCHANGED <<s2, s5, s6, s8, s9>> /\ s3[r] # None /\ s3[r] \in HR!Request
      BY <1>3 DEF HR!Settle, RequestTable
    <2>2. PICK row : row = [s3[r] EXCEPT !.status = status]
      OBVIOUS
    <2>3. row \in HR!Request /\ row.of = s3[r].of
      BY <2>1, <2>2 DEF HR!Request
    <2>4. s3' = [s3 EXCEPT ![r] = row]
      BY <1>3, <2>2 DEF HR!Settle, RequestTable
    <2> QED
      BY <2>1, <2>3, <2>4, StaffStays DEF RequestTable
  <1> QED
    BY <1>1, <1>2, <1>3 DEF HR!RequestStep

\* and every other step of the service.
LEMMA StaffMoves ==
  ASSUME StaffInv, RequestTable, HR!StaffStep
  PROVE  StaffInv' /\ RequestTable'
  <1>1. ASSUME NEW e \in People, HR!RecordAttendance(e) \/ HR!ClockOut(e) PROVE StaffInv' /\ RequestTable'
    BY <1>1, StaffStays DEF HR!RecordAttendance, HR!ClockOut, RequestTable
  <1>2. ASSUME NEW a \in Expenses, NEW e \in People, NEW role \in HR!Role, NEW rate \in Rates,
               HR!UpdateEmployee(a, e, role, rate)
        PROVE  StaffInv' /\ RequestTable'
    BY <1>2, EmployeeTaken DEF HR!UpdateEmployee, RequestTable
  <1> QED
    BY <1>1, <1>2, EmployeeMade, EmployeeWritten DEF HR!StaffStep

\* Every step of an assessment keeps what holds of the staff and of requests.
LEMMA AssessmentMoves ==
  ASSUME StaffInv, RequestTable, HR!AssessStep
  PROVE  StaffInv' /\ RequestTable'
  <1>1. PICK a \in Expenses :
          \/ \E pending \in Loads, turn \in {HR!SetToSeq(S) : S \in SUBSET Parcels} :
               HR!AssessStaffing(a, pending, turn)
          \/ \E e \in People : HR!ReadLoad(a, e) \/ \E r \in Questions : HR!RequestSurge(a, e, r)
          \/ HR!Judge(a) \/ HR!ConsiderOrder(a) \/ HR!CreateDelivery(a) \/ HR!Conclude(a)
    BY DEF HR!AssessStep
  <1>2. ASSUME NEW pending \in Loads, NEW S \in SUBSET Parcels, HR!AssessStaffing(a, pending, HR!SetToSeq(S))
        PROVE  StaffInv' /\ RequestTable'
    BY <1>2, AssessmentBegun DEF HR!AssessStaffing, RequestTable
  <1>3. ASSUME NEW e \in People, HR!ReadLoad(a, e) PROVE StaffInv' /\ RequestTable'
    BY <1>3, LoadRead DEF HR!ReadLoad, RequestTable
  <1>4. CASE HR!Judge(a)
    BY <1>4, Judged DEF HR!Judge, RequestTable
  <1>5. CASE HR!ConsiderOrder(a)
    BY <1>5, OrderConsidered DEF HR!ConsiderOrder, RequestTable
  <1>6. CASE HR!CreateDelivery(a)
    BY <1>6, DeliveryMade DEF HR!CreateDelivery, RequestTable
  <1>7. CASE HR!Conclude(a)
    BY <1>7, Concluded DEF HR!Conclude, RequestTable
  <1> QED
    BY <1>1, <1>2, <1>3, <1>4, <1>5, <1>6, <1>7, SurgeAsked

\* What the workflow of overtime may be at: it has read the request, which gives its reason
\* still, and one that is done has settled it or asked a human.
ApprovalState ==
  [pc : {"idle", "employee", "budget", "decide", "done"}, request : Questions \cup {None},
   row : HR!Request \cup {None}, urgent : BOOLEAN, breached : BOOLEAN, overloaded : BOOLEAN,
   escalated : BOOLEAN]

Advises(x, requests) ==
  /\ x.pc # "idle" => /\ x.request \in Questions /\ x.row \in HR!Request
                      /\ requests[x.request] # None /\ requests[x.request].reason = x.row.reason
  /\ x.pc = "done" => x.escalated \/ requests[x.request].status # "REQUESTED"

SurgeStands == \A r \in Questions \ s12 : s3[r] # None /\ s3[r].reason => s3[r].status # "REJECTED"

AdviceInv ==
  /\ s10 \in [Workflows -> ApprovalState]
  /\ \A w \in Workflows : Advises(s10[w], s3)
  /\ SurgeStands

\* What steps of the service do to requests: a request is made, or settled by hand.
RequestsGoOn ==
  /\ s12 \subseteq s12'
  /\ \A r \in Questions :
       \/ s3'[r] = s3[r]
       \/ s3[r] = None /\ s3'[r].status # "REJECTED"
       \/ /\ r \in s12' /\ s3[r] # None /\ s3'[r] # None
          /\ s3'[r].reason = s3[r].reason /\ s3'[r].status \in {"APPROVED", "REJECTED"}

\* A request that is settled is one still.
LEMMA Settled ==
  ASSUME RequestTable, NEW r \in Questions, NEW status \in {"APPROVED", "REJECTED"}, HR!Settle(r, status)
  PROVE  /\ s3[r] # None /\ s3'[r] # None /\ s3'[r].reason = s3[r].reason /\ s3'[r].status = status
         /\ s3'[r] \in HR!Request /\ \A q \in Questions \ {r} : s3'[q] = s3[q]
         /\ UNCHANGED <<s2, s5, s6, s8, s9>> /\ RequestTable'
  <1>1. UNCHANGED <<s2, s5, s6, s8, s9>> /\ s3[r] # None /\ s3[r] \in HR!Request
    BY DEF HR!Settle, RequestTable
  <1>2. PICK row : row = [s3[r] EXCEPT !.status = status]
    OBVIOUS
  <1>3. row \in HR!Request /\ row.of = s3[r].of /\ row.reason = s3[r].reason /\ row.status = status /\ row # None
    BY <1>1, <1>2, StaffAssumption DEF HR!Request
  <1>4. s3' = [s3 EXCEPT ![r] = row]
    BY <1>2 DEF HR!Settle, RequestTable
  <1> QED
    BY <1>1, <1>3, <1>4 DEF RequestTable

\* Advice on requests that go on is still good.
LEMMA AdviceStays ==
  ASSUME AdviceInv, s10' = s10, RequestsGoOn
  PROVE  AdviceInv'
  <1>1. \A w \in Workflows : Advises(s10[w], s3')
    BY DEF AdviceInv, Advises, RequestsGoOn
  <1>2. SurgeStands'
    BY DEF AdviceInv, SurgeStands, RequestsGoOn
  <1> QED
    BY <1>1, <1>2 DEF AdviceInv

\* The steps of clients, counted as settled by hand,
LEMMA HandsGoOn ==
  ASSUME RequestTable, HR!RequestStep, HR!ByHand
  PROVE  RequestsGoOn /\ s10' = s10
  <1>1. s12' = s12 \cup {q \in Questions : s3[q] # None /\ s3'[q] # s3[q]} /\ s10' = s10
    BY DEF HR!ByHand
  <1>2. ASSUME NEW r \in Questions, NEW e \in People, HR!RequestLeave(r, e) PROVE RequestsGoOn
    <2>1. PICK row : row = [kind |-> "leave", of |-> e, hours |-> 0, reason |-> FALSE, cost |-> 0,
                            status |-> "PENDING"]
      OBVIOUS
    <2>2. s3' = [s3 EXCEPT ![r] = row] /\ s3[r] = None /\ row.status = "PENDING"
      BY <1>2, <2>1 DEF HR!RequestLeave, HR!NewRequest
    <2> QED
      BY <1>1, <2>2 DEF RequestTable, RequestsGoOn
  <1>3. ASSUME NEW r \in Questions, NEW e \in People, NEW h \in Hours, NEW why \in BOOLEAN,
               HR!RequestOvertime(r, e, h, why)
        PROVE  RequestsGoOn
    <2>1. s3' = [s3 EXCEPT ![r] = HR!Overtime(e, h, why)] /\ s3[r] = None
          /\ HR!Overtime(e, h, why).status = "REQUESTED"
      BY <1>3 DEF HR!RequestOvertime, HR!NewRequest, HR!Overtime
    <2> QED
      BY <1>1, <2>1 DEF RequestTable, RequestsGoOn
  <1>4. ASSUME NEW r \in Questions, NEW status \in {"APPROVED", "REJECTED"}, HR!Settle(r, status)
        PROVE  RequestsGoOn
    BY <1>1, <1>4, Settled DEF RequestsGoOn
  <1> QED
    BY <1>1, <1>2, <1>3, <1>4 DEF HR!RequestStep

\* and those of an assessment.
LEMMA AssessmentsGoOn ==
  ASSUME RequestTable, HR!AssessStep, s12' = s12
  PROVE  RequestsGoOn
  <1>1. ASSUME NEW a \in Expenses, NEW e \in People, NEW r \in Questions, HR!RequestSurge(a, e, r)
        PROVE  RequestsGoOn
    <2>1. PICK hours : s3' = [s3 EXCEPT ![r] = HR!Overtime(e, hours, TRUE)] /\ s3[r] = None
      BY <1>1 DEF HR!RequestSurge, HR!NewRequest
    <2>2. HR!Overtime(e, hours, TRUE).status = "REQUESTED"
      BY DEF HR!Overtime
    <2> QED
      BY <2>1, <2>2 DEF RequestTable, RequestsGoOn
  <1>2. CASE s3' = s3
    BY <1>2 DEF RequestsGoOn
  <1> QED
    BY <1>1, <1>2 DEF HR!AssessStep, HR!AssessStaffing, HR!ReadLoad, HR!Judge, HR!ConsiderOrder,
       HR!CreateDelivery, HR!Conclude

\* A workflow that goes on.
LEMMA AdviserGoesOn ==
  ASSUME AdviceInv, NEW w \in Workflows, NEW x \in ApprovalState, s10' = [s10 EXCEPT ![w] = x],
         Advises(x, s3), UNCHANGED <<s3, s12>>
  PROVE  AdviceInv'
  BY DEF AdviceInv, SurgeStands

\* An adviser starts with the row of its request,
LEMMA AdviceStarted ==
  ASSUME AdviceInv, RequestTable, NEW w \in Workflows, NEW r \in Questions, NEW urgent \in BOOLEAN,
         NEW breached \in BOOLEAN, HR!Starting(w, r, urgent, breached)
  PROVE  AdviceInv'
  <1>1. s3[r] # None /\ UNCHANGED <<s3, s12>>
    BY DEF HR!Starting, HR!hrisVars
  <1>2. PICK row \in HR!Request : row = s3[r]
    BY <1>1 DEF RequestTable
  <1>3. PICK x : x = [HR!Waiting EXCEPT !.pc = "employee", !.request = r, !.row = row,
                                        !.urgent = urgent, !.breached = breached]
    OBVIOUS
  <1>4. x = [pc |-> "employee", request |-> r, row |-> row, urgent |-> urgent, breached |-> breached,
             overloaded |-> FALSE, escalated |-> FALSE]
    BY <1>3 DEF HR!Waiting
  <1>5. x \in ApprovalState /\ x.pc = "employee" /\ x.request = r /\ x.row = row
    BY <1>4 DEF ApprovalState
  <1>6. s10' = [s10 EXCEPT ![w] = x]
    BY <1>2, <1>3 DEF HR!Starting
  <1> QED
    BY <1>1, <1>2, <1>5, <1>6, AdviserGoesOn DEF Advises

\* reads the workload of the employee,
LEMMA WorkloadRead ==
  ASSUME AdviceInv, NEW w \in Workflows, HR!ReadWorkload(w)
  PROVE  AdviceInv'
  <1>1. s10[w].pc = "employee" /\ UNCHANGED <<s3, s12>> /\ s10[w] \in ApprovalState /\ Advises(s10[w], s3)
    BY DEF HR!ReadWorkload, HR!hrisVars, AdviceInv
  <1>2. PICK much \in BOOLEAN : s10' = [s10 EXCEPT ![w].pc = "budget", ![w].overloaded = much]
    BY DEF HR!ReadWorkload
  <1>3. PICK x : x = [s10[w] EXCEPT !.pc = "budget", !.overloaded = much]
    OBVIOUS
  <1>4. x \in ApprovalState /\ x.pc = "budget" /\ x.request = s10[w].request /\ x.row = s10[w].row
    BY <1>1, <1>3 DEF ApprovalState
  <1>5. s10' = [s10 EXCEPT ![w] = x]
    BY <1>2, <1>3 DEF AdviceInv
  <1> QED
    BY <1>1, <1>4, <1>5, AdviserGoesOn DEF Advises

\* checks what the hours cost,
LEMMA BudgetChecked ==
  ASSUME AdviceInv, NEW w \in Workflows, HR!CheckBudget(w)
  PROVE  AdviceInv'
  <1>1. s10[w].pc = "budget" /\ UNCHANGED <<s3, s12>> /\ s10[w] \in ApprovalState /\ Advises(s10[w], s3)
    BY DEF HR!CheckBudget, HR!hrisVars, AdviceInv
  <1>2. PICK more \in BOOLEAN : s10' = [s10 EXCEPT ![w].pc = "decide", ![w].breached = s10[w].breached \/ more]
    BY DEF HR!CheckBudget, AdviceInv
  <1>3. PICK much \in BOOLEAN : much = (s10[w].breached \/ more)
    OBVIOUS
  <1>4. PICK x : x = [s10[w] EXCEPT !.pc = "decide", !.breached = much]
    OBVIOUS
  <1>5. x \in ApprovalState /\ x.pc = "decide" /\ x.request = s10[w].request /\ x.row = s10[w].row
    BY <1>1, <1>4 DEF ApprovalState
  <1>6. s10' = [s10 EXCEPT ![w] = x]
    BY <1>2, <1>3, <1>4 DEF AdviceInv
  <1> QED
    BY <1>1, <1>5, <1>6, AdviserGoesOn DEF Advises

\* HRIS requires what gives its reason, so the two of them never reject it.
LEMMA ReasonIsHeard ==
  ASSUME NEW w \in Workflows, s10[w].row.reason
  PROVE  HR!Decision(w) # "OVERTIME_NOT_JUSTIFIED"
  BY DEF HR!Decision, HR!HrisDecision, HR!FinanceDecision, HR!DetectAndResolve, HR!ClearlyTrusted,
     HR!TRUST_RESOLUTION_MARGIN, HR!MIN_TRUST_TO_AUTO_RESOLVE

\* and decides:  a request for a surge is approved or asked of a person.
LEMMA Advised ==
  ASSUME AdviceInv, RequestTable, NEW w \in Workflows, HR!Decide(w)
  PROVE  AdviceInv' /\ RequestTable' /\ UNCHANGED <<s2, s5, s6, s8, s9>>
  <1>1. /\ s10[w].pc = "decide" /\ s12' = s12 /\ s10[w] \in ApprovalState /\ Advises(s10[w], s3)
        /\ s10[w].request \in Questions
    BY DEF HR!Decide, AdviceInv, Advises
  <1>2. PICK asked \in BOOLEAN : /\ asked = (HR!Decision(w) = "ESCALATED")
                                 /\ s10' = [s10 EXCEPT ![w].pc = "done", ![w].escalated = asked]
    BY DEF HR!Decide
  <1>3. PICK x : x = [s10[w] EXCEPT !.pc = "done", !.escalated = asked]
    OBVIOUS
  <1>4. /\ x \in ApprovalState /\ x.pc = "done" /\ x.request = s10[w].request /\ x.row = s10[w].row
        /\ x.escalated = asked
    BY <1>1, <1>3 DEF ApprovalState
  <1>5. s10' = [s10 EXCEPT ![w] = x] /\ s10' \in [Workflows -> ApprovalState]
    BY <1>2, <1>3, <1>4 DEF AdviceInv
  <1>6. CASE asked
    <2>1. UNCHANGED <<s2, s3, s5, s6, s8, s9>>
      BY <1>2, <1>6 DEF HR!Decide, HR!hrisVars
    <2>2. Advises(x, s3)
      BY <1>1, <1>4, <1>6 DEF Advises
    <2> QED
      BY <1>1, <1>4, <1>5, <2>1, <2>2, AdviserGoesOn DEF RequestTable
  <1>7. CASE ~asked
    <2>1. PICK r \in Questions : r = s10[w].request
      BY <1>1
    <2>2. PICK status \in {"APPROVED", "REJECTED"} :
            /\ HR!Settle(r, status)
            /\ status = "REJECTED" => HR!Decision(w) = "OVERTIME_NOT_JUSTIFIED"
      BY <1>2, <1>7, <2>1 DEF HR!Decide
    <2>3. /\ s3[r] # None /\ s3'[r] # None /\ s3'[r].reason = s3[r].reason /\ s3'[r].status = status
          /\ \A q \in Questions \ {r} : s3'[q] = s3[q]
          /\ UNCHANGED <<s2, s5, s6, s8, s9>> /\ RequestTable'
      BY <2>2, Settled
    <2>4. s3[r].reason => status # "REJECTED"
      BY <1>1, <2>1, <2>2, ReasonIsHeard DEF Advises
    <2>5. \A v \in Workflows : Advises(s10[v], s3')
      BY <2>3 DEF AdviceInv, Advises
    <2>6. Advises(x, s3')
      BY <1>1, <1>4, <2>1, <2>3 DEF Advises
    <2>7. \A v \in Workflows : Advises(s10'[v], s3')
      BY <1>5, <2>5, <2>6 DEF AdviceInv
    <2>8. SurgeStands'
      BY <1>1, <2>3, <2>4 DEF AdviceInv, SurgeStands
    <2> QED
      BY <1>5, <2>3, <2>7, <2>8 DEF AdviceInv
  <1> QED
    BY <1>6, <1>7

StaffingInv == scene \in Staffing => StaffInv /\ RequestTable /\ AdviceInv

\* Somebody is in the warehouse.
LEMMA HandsHired == Hired \in [People -> {"WAREHOUSE", "COURIER"}]
  <1>1. PICK p \in People : TRUE
    BY StaffAssumption
  <1> DEFINE f == [e \in People |-> IF e = p THEN "WAREHOUSE" ELSE "COURIER"]
  <1>2. {e \in People : f[e] = "WAREHOUSE"} = {p}
    OBVIOUS
  <1>3. Cardinality({p}) = 1
    BY FS_Singleton
  <1>4. Cardinality({e \in People : f[e] = "WAREHOUSE"}) = 1
    BY <1>2, <1>3
  <1>5. f \in [People -> {"WAREHOUSE", "COURIER"}] /\ Count(People, LAMBDA e : f[e] = "WAREHOUSE") = 1
    BY <1>4 DEF Count
  <1> HIDE DEF f
  <1> QED
    BY <1>5 DEF Hired

\* The scenes of the staff start well,
LEMMA StaffingStarts == MCInit => StaffingInv
  <1> SUFFICES ASSUME MCInit, scene \in Staffing PROVE StaffInv /\ RequestTable /\ AdviceInv
    BY DEF StaffingInv
  <1>1. StaffingInit
    BY DEF MCInit, Bookkeeping, Purchasing, Staffing, Selling
  <1>2. s2 \in [People -> HR!Employee \cup {None}]
    <2>1. CASE scene = "hiring"
      BY <1>1, <2>1 DEF StaffingInit, HR!HrisInit
    <2>2. CASE scene # "hiring"
      <3>1. ASSUME NEW e \in People PROVE [role |-> Hired[e], rate |-> 30] \in HR!Employee
        BY HandsHired DEF HR!Employee, HR!Role
      <3> QED
        BY <1>1, <2>2, <3>1 DEF StaffingInit
    <2> QED
      BY <2>1, <2>2
  <1>3. /\ s3 = [r \in Questions |-> None] /\ s5 = [o \in Parcels |-> [e \in People |-> 0]]
        /\ s6 = [a \in Expenses |-> HR!Resting] /\ s8 = FALSE /\ s9 = FALSE
        /\ s10 = [w \in Workflows |-> HR!Waiting] /\ s12 = {}
    BY <1>1 DEF StaffingInit, HR!HrisInit, HR!ApprovalInit, NoRows
  <1>4. DeliveriesTyped /\ ~HR!Assigned
    BY <1>3 DEF DeliveriesTyped, HR!Assigned
  <1>5. \A e \in People : LoadOf(e) = 0
    BY <1>4, NobodyCarries
  <1>6. SplitAmongCouriers
    BY <1>3, <1>5 DEF SplitAmongCouriers, Couriers
  <1>7. StaffTables
    BY <1>2, <1>3, <1>4, RestingAssessor DEF StaffTables
  <1>8. FairInv
    BY <1>3, <1>6, RestingAssessor DEF FairInv, OneAssessment, Current
  <1>9. RequestTable
    BY <1>3 DEF RequestTable
  <1>10. HR!Waiting \in ApprovalState /\ HR!Waiting.pc = "idle"
    BY DEF HR!Waiting, ApprovalState
  <1>11. AdviceInv
    BY <1>3, <1>10 DEF AdviceInv, Advises, SurgeStands
  <1> QED
    BY <1>7, <1>8, <1>9, <1>11 DEF StaffInv

\* and their steps keep it so.
LEMMA StaffingKept == StaffingInv /\ [MCNext]_<<purchaseVars, scene, slots>> => StaffingInv'
  <1> SUFFICES ASSUME StaffingInv, scene' \in Staffing, [MCNext]_<<purchaseVars, scene, slots>>
               PROVE  StaffInv' /\ RequestTable' /\ AdviceInv'
    BY DEF StaffingInv
  <1>1. scene' = scene
    BY DEF MCNext
  <1>2. StaffInv /\ RequestTable /\ AdviceInv
    BY <1>1 DEF StaffingInv
  <1>3. CASE UNCHANGED slots
    <2>1. UNCHANGED <<s2, s3, s5, s6, s8, s9, s10, s12>>
      BY <1>3 DEF slots
    <2>2. StaffInv'
      BY <1>2, <2>1, StaffStays
    <2> QED
      BY <1>2, <2>1, <2>2 DEF RequestTable, AdviceInv, SurgeStands
  <1>4. CASE HR!StaffStep /\ UNCHANGED <<s10, s11, s12>>
    <2>1. s3' = s3
      BY <1>4 DEF HR!StaffStep, HR!CreateEmployee, HR!UpdateEmployee, HR!RecordAttendance, HR!ClockOut,
         HR!WriteEmployee
    <2>2. AdviceInv'
      BY <1>2, <1>4, <2>1 DEF AdviceInv, SurgeStands
    <2> QED
      BY <1>2, <1>4, <2>2, StaffMoves
  <1>5. CASE HR!AssessStep /\ UNCHANGED <<s10, s11, s12>>
    BY <1>2, <1>5, AssessmentMoves, AssessmentsGoOn, AdviceStays
  <1>6. CASE HR!RequestStep /\ HR!ByHand
    BY <1>2, <1>6, RequestMoves, HandsGoOn, AdviceStays
  <1>7. CASE HR!ApprovalStep
    <2>1. PICK w \in Workflows :
            \/ \E r \in Questions, urgent \in BOOLEAN, breached \in BOOLEAN : HR!Starting(w, r, urgent, breached)
            \/ HR!ReadWorkload(w) \/ HR!CheckBudget(w) \/ HR!Decide(w)
      BY <1>7 DEF HR!ApprovalStep
    <2>2. CASE HR!Decide(w)
      BY <1>2, <2>2, Advised, StaffStays
    <2>3. CASE ~HR!Decide(w)
      <3>1. UNCHANGED <<s2, s3, s5, s6, s8, s9>>
        BY <2>1, <2>3 DEF HR!Starting, HR!ReadWorkload, HR!CheckBudget, HR!hrisVars
      <3>2. AdviceInv'
        BY <1>2, <2>1, <2>3, AdviceStarted, WorkloadRead, BudgetChecked
      <3> QED
        BY <1>2, <3>1, <3>2, StaffStays DEF RequestTable
    <2> QED
      BY <2>2, <2>3
  <1>8. CASE StaffingNext
    BY <1>4, <1>5, <1>6, <1>7, <1>8 DEF StaffingNext
  <1> QED
    BY <1>1, <1>3, <1>8 DEF MCNext, Bookkeeping, Purchasing, Staffing, Selling

\* Deliveries are shared,
LEMMA SharedFairly == StaffInv => HR!CouriersShareDeliveries
  <1> SUFFICES ASSUME StaffInv, ~s8, ~s9
               PROVE  /\ \A o \in Parcels : HR!MapThenSumSet(LAMBDA e : s5[o][e], People) <= 1
                      /\ \A e, f \in Couriers : HR!Carried(e) <= HR!Carried(f) + 1
    BY CouriersAreStaff DEF HR!CouriersShareDeliveries
  <1>1. DeliveriesTyped /\ SplitAmongCouriers
    BY DEF StaffInv, StaffTables, FairInv
  <1>2. \A e, f \in Couriers : HR!Carried(e) <= HR!Carried(f) + 1
    BY <1>1, CarriedIsTotal DEF SplitAmongCouriers, LoadOf, Couriers
  <1>3. ASSUME NEW o \in Parcels PROVE TotalOf(OfParcel(o), People) <= 1
    <2>1. PICK f : f = OfParcel(o)
      OBVIOUS
    <2>2. \A e \in People : f[e] = s5[o][e] /\ f[e] \in Nat
      BY <1>1, <2>1 DEF OfParcel, DeliveriesTyped
    <2>3. CASE \A e \in People : f[e] = 0
      BY <2>1, <2>3, TotalOfZeros
    <2>4. CASE \E e \in People : f[e] # 0
      <3>1. PICK e \in People : f[e] # 0
        BY <2>4
      <3>2. f[e] = 1 /\ \A y \in People \ {e} : f[y] = 0
        BY <1>1, <2>2, <3>1 DEF SplitAmongCouriers
      <3>3. TotalOf(f, People \ {e}) = 0
        BY <3>2, TotalOfZeros
      <3>4. TotalOf(f, People) = f[e] + TotalOf(f, People \ {e})
        BY <2>2, StaffAssumption, TotalWithout
      <3> QED
        BY <2>1, <3>2, <3>3, <3>4
    <2> QED
      BY <2>3, <2>4
  <1> QED
    BY <1>1, <1>2, <1>3, SharedIsTotal

\* The invariants say what the run checks of the staff.
LEMMA StaffShows == StaffInv /\ RequestTable /\ AdviceInv =>
                      HR!HrisTypeOK /\ HR!ApprovalTypeOK /\ HR!SurgeIsNeverRejected
  <1> SUFFICES ASSUME StaffInv, RequestTable, AdviceInv
               PROVE  HR!HrisTypeOK /\ HR!ApprovalTypeOK /\ HR!SurgeIsNeverRejected
    OBVIOUS
  <1>1. HR!HrisTypeOK
    BY DEF HR!HrisTypeOK, StaffInv, StaffTables, RequestTable, DeliveriesTyped, AssessorState
  <1>2. HR!ApprovalTypeOK
    BY DEF HR!ApprovalTypeOK, AdviceInv, ApprovalState
  <1>3. HR!SurgeIsNeverRejected
    BY DEF HR!SurgeIsNeverRejected, AdviceInv, Advises, SurgeStands
  <1> QED
    BY <1>1, <1>2, <1>3

\* The staff is treated fairly in every scene of the back office.
THEOREM StaffAlwaysTreatedFairly == MCSpec => []StaffIsTreatedFairly
  <1>1. StaffingInv => StaffIsTreatedFairly
    BY SharedFairly, StaffShows DEF StaffingInv, StaffIsTreatedFairly
  <1> QED
    BY <1>1, StaffingStarts, StaffingKept, PTL DEF MCSpec
=============================================================================
