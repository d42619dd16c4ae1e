------------------------------ MODULE Accounting ------------------------------
(***************************************************************************)
(* Charts of accounts, journals, invoices and payments: AccountingService  *)
(* over either repository.  As elsewhere a handler reads a copy of a row,  *)
(* judges the copy and writes it back an await later.  Every journal that  *)
(* is accepted balances, so of its entries only the amount is left, and a  *)
(* reversal has the entries of its original with the sides exchanged.      *)
(***************************************************************************)
EXTENDS Integers, FiniteSets

CONSTANTS
  Calls,          \* handlers under way
  Codes,          \* codes of accounts
  Accounts, Journals, Invoices, \* the ids there are to give to rows
  References,     \* references clients give to journals
  Amounts,        \* amounts of journals and payments
  Total,          \* the amount of every invoice
  None

VARIABLES
  driver,         \* the repository in use: "memory" or "prisma"
  account, journal, invoice, \* the tables: row or None by id
  received,       \* [Invoices -> what the payment rows of the invoice add up to]
  call,           \* [Calls -> the local state of the handler]
  reread,         \* history: rows and codes two handlers held at the same time
  unrecorded      \* history: invoices of payments PostgreSQL did not take

avars == <<driver, account, journal, invoice, received, call, reread, unrecorded>>

JournalStatus == {"DRAFT", "POSTED", "REVERSED"}

\* A reversal is "of" a journal; its reference is that of the journal it comes
\* from with one more prefix REVERSAL-, and "prefixes" counts them.
Journal ==
  [reference : References, prefixes : Nat, of : Journals \cup {None},
   amount : Amounts, status : JournalStatus]

InvoiceStatus == {"DRAFT", "ISSUED", "PARTIALLY_PAID", "PAID"}

Invoice == [paidAmount : 0 .. Total, status : InvoiceStatus]

Idle == [op |-> "none", pc |-> "idle", id |-> None, row |-> None, amount |-> 0]

TypeOK ==
  /\ driver \in {"memory", "prisma"}
  /\ account \in [Accounts -> Codes \cup {None}]
  /\ journal \in [Journals -> Journal \cup {None}]
  /\ invoice \in [Invoices -> Invoice \cup {None}]
  /\ \A c \in Calls : call[c].pc \in {"idle", "insert", "write"}

Init ==
  /\ driver \in {"memory", "prisma"}
  /\ account = [a \in Accounts |-> None]
  /\ journal = [j \in Journals |-> None]
  /\ invoice = [i \in Invoices |-> None]
  /\ received = [i \in Invoices |-> 0]
  /\ call = [c \in Calls |-> Idle]
  /\ reread = {}
  /\ unrecorded = {}

Present(table) == {id \in DOMAIN table : table[id] # None}

\* The next id; which one a row gets does not matter.
New(table, id) == table[id] = None /\ id = CHOOSE x \in DOMAIN table : table[x] = None

Holders(id) == {c \in Calls : call[c].id = id}

\* Handler c begins with the copy "row" of what "id" names.
Hold(c, op, pc, id, row, amount) ==
  /\ call[c] = Idle
  /\ call' = [call EXCEPT ![c] =
                [op |-> op, pc |-> pc, id |-> id, row |-> row, amount |-> amount]]
  /\ reread' = reread \cup {x \in {id} : Holders(x) # {}}

Finish(c) == call' = [call EXCEPT ![c] = Idle]

-----------------------------------------------------------------------------
(* Accounts and journals. *)

\* createChartOfAccount looks for the code; ...
CreateChartOfAccount(c, code) ==
  /\ \A a \in Accounts : account[a] # code
  /\ Hold(c, "createChartOfAccount", "insert", code, None, 0)
  /\ UNCHANGED <<driver, account, journal, invoice, received, unrecorded>>

\* ... the code is unique in PostgreSQL, where a second insert throws.
InsertAccount(c, a) ==
  LET code == call[c].id IN
  /\ call[c].op = "createChartOfAccount" /\ New(account, a)
  /\ account' = IF driver = "prisma" /\ code \in {account[x] : x \in Accounts}
                  THEN account ELSE [account EXCEPT ![a] = code]
  /\ Finish(c)
  /\ UNCHANGED <<driver, journal, invoice, received, reread, unrecorded>>

\* Journals with the same reference: PostgreSQL has at most one.
SameReference(reference, prefixes) ==
  {j \in Present(journal) : journal[j].reference = reference
                            /\ journal[j].prefixes = prefixes}

Insertable(reference, prefixes) == driver = "memory" \/ SameReference(reference, prefixes) = {}

\* createJournal: two accounts that are there, entries that balance.
CreateJournal(j, reference, amount) ==
  /\ Cardinality(Present(account)) >= 2
  /\ New(journal, j) /\ Insertable(reference, 0)
  /\ journal' = [journal EXCEPT ![j] =
                   [reference |-> reference, prefixes |-> 0, of |-> None,
                    amount |-> amount, status |-> "DRAFT"]]
  /\ UNCHANGED <<driver, account, invoice, received, call, reread, unrecorded>>

Postable(j) == journal[j] # None /\ journal[j].status \notin {"POSTED", "REVERSED"}

\* postJournal refuses the copy of a posted or reversed journal ...
PostJournal(c, j) ==
  /\ Postable(j)
  /\ Hold(c, "postJournal", "write", j, journal[j], 0)
  /\ UNCHANGED <<driver, account, journal, invoice, received, unrecorded>>

\* Only a posted journal is reversed.
Reversible(j) == journal[j] # None /\ journal[j].status = "POSTED"

\* ... reverseJournal all others.
ReverseJournal(c, j) ==
  /\ Reversible(j)
  /\ Hold(c, "reverseJournal", "write", j, journal[j], 0)
  /\ UNCHANGED <<driver, account, journal, invoice, received, unrecorded>>

\* The copy is written back with the new status; a reversal goes on.
WriteJournal(c) ==
  LET reverses == call[c].op = "reverseJournal" IN
  /\ call[c].op \in {"postJournal", "reverseJournal"} /\ call[c].pc = "write"
  /\ journal' = [journal EXCEPT ![call[c].id] =
       [call[c].row EXCEPT !.status = IF reverses THEN "REVERSED" ELSE "POSTED"]]
  /\ IF reverses THEN call' = [call EXCEPT ![c].pc = "insert"] ELSE Finish(c)
  /\ UNCHANGED <<driver, account, invoice, received, reread, unrecorded>>

\* The reversal is created POSTED, unless its reference is taken.
InsertReversal(c, j) ==
  LET original == call[c].row IN
  /\ call[c].op = "reverseJournal" /\ call[c].pc = "insert" /\ New(journal, j)
  /\ journal' = IF Insertable(original.reference, original.prefixes + 1)
                  THEN [journal EXCEPT ![j] = [original EXCEPT !.prefixes = @ + 1,
                                                 !.of = call[c].id, !.status = "POSTED"]]
                  ELSE journal
  /\ Finish(c)
  /\ UNCHANGED <<driver, account, invoice, received, reread, unrecorded>>

-----------------------------------------------------------------------------
(* Invoices and payments. *)

\* What a row is read back as: PostgreSQL keeps no paid amount and has no
\* status ISSUED.
Stored(row) ==
  IF driver = "memory" THEN row
  ELSE [paidAmount |-> 0, status |-> IF row.status = "ISSUED" THEN "DRAFT" ELSE row.status]

\* Nor has it a status PARTIALLY_PAID: writing it throws.
Storable(row) == driver = "memory" \/ row.status # "PARTIALLY_PAID"

CreateInvoice(i) ==
  /\ New(invoice, i)
  /\ invoice' = [invoice EXCEPT ![i] = Stored([paidAmount |-> 0, status |-> "DRAFT"])]
  /\ UNCHANGED <<driver, account, journal, received, call, reread, unrecorded>>

IssueInvoice(c, i) ==
  /\ i \in Present(invoice) /\ invoice[i].status = "DRAFT"
  /\ Hold(c, "issueInvoice", "write", i, [invoice[i] EXCEPT !.status = "ISSUED"], 0)
  /\ UNCHANGED <<driver, account, journal, invoice, received, unrecorded>>

\* *Fault*: the balance is the amount of the invoice.
RemainingBalanceUnpaid(i) == Total

RemainingBalance(i) == Total - invoice[i].paidAmount

\* The row with a payment added.
Paid(row, amount) ==
  LET paid == row.paidAmount + amount
  IN [paidAmount |-> paid, status |-> IF paid = Total THEN "PAID" ELSE "PARTIALLY_PAID"]

\* recordPayment compares the amount with the balance of the copy, ...
RecordPayment(c, i, amount) ==
  /\ i \in Present(invoice) /\ invoice[i].status # "PAID"
  /\ amount <= RemainingBalance(i)
  /\ Hold(c, "recordPayment", "write", i, Paid(invoice[i], amount), amount)
  /\ UNCHANGED <<driver, account, journal, invoice, received, unrecorded>>

\* ... writes the copy back ...
WriteInvoice(c) ==
  /\ call[c].op \in {"issueInvoice", "recordPayment"} /\ call[c].pc = "write"
  /\ invoice' = IF Storable(call[c].row)
                  THEN [invoice EXCEPT ![call[c].id] = Stored(call[c].row)] ELSE invoice
  /\ IF Storable(call[c].row) /\ call[c].op = "recordPayment"
       THEN call' = [call EXCEPT ![c].pc = "insert"]
       ELSE Finish(c)
  /\ UNCHANGED <<driver, account, journal, received, reread, unrecorded>>

\* ... and inserts the payment: PostgreSQL knows four methods of payment and
\* throws on any other, with the invoice already written.
InsertPayment(c) ==
  LET i == call[c].id IN
  /\ call[c].op = "recordPayment" /\ call[c].pc = "insert"
  /\ \/ /\ received' = [received EXCEPT ![i] = @ + call[c].amount]
        /\ UNCHANGED unrecorded
     \/ /\ driver = "prisma"
        /\ unrecorded' = unrecorded \cup {i}
        /\ UNCHANGED received
  /\ Finish(c)
  /\ UNCHANGED <<driver, account, journal, invoice, reread>>

-----------------------------------------------------------------------------
AccountStep(c) ==
  \/ \E code \in Codes : CreateChartOfAccount(c, code)
  \/ \E a \in Accounts : InsertAccount(c, a)

JournalStep(c) ==
  \/ \E j \in Journals : PostJournal(c, j) \/ ReverseJournal(c, j) \/ InsertReversal(c, j)
  \/ WriteJournal(c)

InvoiceStep(c) ==
  \/ \E i \in Invoices : IssueInvoice(c, i) \/ \E n \in Amounts : RecordPayment(c, i, n)
  \/ WriteInvoice(c) \/ InsertPayment(c)

Create ==
  \/ \E j \in Journals, ref \in References, n \in Amounts : CreateJournal(j, ref, n)
  \/ \E i \in Invoices : CreateInvoice(i)

Next == Create \/ \E c \in Calls : AccountStep(c) \/ JournalStep(c) \/ InvoiceStep(c)

Spec == Init /\ [][Next]_avars

-----------------------------------------------------------------------------
(* Properties. *)

Quiet(id) == Holders(id) = {}

Reversals(j) == {r \in Present(journal) : journal[r].of = j}

\* A journal nobody is at has a reversal if it is REVERSED, and never two --
\* over PostgreSQL whatever interleaves, because a reversal takes the reference of
\* its original; in memory unless two handlers held the journal.
ReversedOnce ==
  \A j \in Present(journal) :
    /\ Quiet(j) /\ journal[j].status = "REVERSED" => Reversals(j) # {}
    /\ driver = "prisma" \/ j \notin reread => Cardinality(Reversals(j)) <= 1

\* An invoice that two handlers never held at once is PAID exactly if its payments
\* make its amount up, and is not overpaid -- over PostgreSQL too, which forgets
\* what was paid, since there a payment of less than all of it is refused.
PaidInFull ==
  \A i \in Present(invoice) \ (reread \cup unrecorded) :
    Quiet(i) => /\ received[i] <= Total
                /\ invoice[i].status = "PAID" <=> received[i] = Total
=============================================================================
