--------------------------- MODULE FinancialPosting ---------------------------
(***************************************************************************)
(* The financial posting workflow over Accounting:                         *)
(* FinancialPostingService.processFinancialPosting.  A workflow is one of  *)
(* the Calls of Accounting, under whose name its postJournal runs.         *)
(***************************************************************************)
EXTENDS Accounting, PolicyEngine, Sequences

CONSTANTS
  Workflows,   \* invocations of the workflow, a subset of Calls
  Keys,        \* idempotency keys
  Thresholds   \* automatic approval thresholds callers ask for

VARIABLES
  posting,     \* [Workflows -> the local state of the workflow]
  responses,   \* [Keys -> the workflow whose answer is remembered, or None]
  outbox,      \* the sequence of events published, as <<event type, journal>>
  byHand       \* history: journals posted by a client

postingVars == <<posting, responses, outbox, byHand>>

NotStarted == [pc |-> "idle", journal |-> None, key |-> None, threshold |-> 0,
               amount |-> 0, task |-> None]

PostingTypeOK ==
  /\ \A w \in Workflows :
       /\ posting[w].pc \in {"idle", "read", "task", "policy", "posting", "complete",
                             "done", "failed"}
       /\ posting[w].task \in {None, "PENDING", "COMPLETED"}
  /\ responses \in [Keys -> Workflows \cup {None}]

PostingInit ==
  /\ posting = [w \in Workflows |-> NotStarted]
  /\ responses = [k \in Keys |-> None]
  /\ outbox = <<>>
  /\ byHand = {}

At(w, pc) == posting[w].pc = pc

Moves(w, pc) == posting' = [posting EXCEPT ![w].pc = pc]

\* A remembered answer is given again; otherwise the work begins.
ProcessFinancialPosting(w, j, key, threshold) ==
  /\ At(w, "idle") /\ j \in Present(journal)
  /\ posting' = [posting EXCEPT ![w] =
       [NotStarted EXCEPT !.pc = IF key # None /\ responses[key] # None THEN "done" ELSE "read",
                          !.journal = j, !.key = key, !.threshold = threshold]]
  /\ UNCHANGED <<avars, responses, outbox, byHand>>

\* A journal that is posted already is refused; its amount is taken down.
ReadJournal(w) ==
  /\ At(w, "read")
  /\ IF journal[posting[w].journal].status = "POSTED"
       THEN Moves(w, "failed")
       ELSE posting' = [posting EXCEPT ![w].pc = "task",
                                       ![w].amount = journal[posting[w].journal].amount]
  /\ UNCHANGED <<avars, responses, outbox, byHand>>

CreateTask(w) ==
  /\ At(w, "task")
  /\ posting' = [posting EXCEPT ![w].pc = "policy", ![w].task = "PENDING"]
  /\ UNCHANGED <<avars, responses, outbox, byHand>>

Policy(w) == FinancialPostingPolicy(posting[w].amount, TRUE, posting[w].threshold)

\* A journal within the threshold is posted, which throws if it has been posted
\* or reversed since it was read ...
AutoApprove(w) ==
  LET j == posting[w].journal IN
  /\ At(w, "policy") /\ Policy(w) = "AUTO_APPROVE"
  /\ IF Postable(j) THEN PostJournal(w, j) /\ Moves(w, "posting")
                    ELSE Moves(w, "failed") /\ UNCHANGED avars
  /\ UNCHANGED <<responses, outbox, byHand>>

\* ... and then announced; ...
Posted(w) ==
  /\ At(w, "posting")
  /\ WriteJournal(w)
  /\ outbox' = Append(outbox, <<"JournalPosted", posting[w].journal>>)
  /\ Moves(w, "complete")
  /\ UNCHANGED <<responses, byHand>>

\* ... one above it is left to a human.
Escalate(w) ==
  /\ At(w, "policy") /\ Policy(w) = "REQUIRE_HUMAN_APPROVAL"
  /\ outbox' = Append(outbox, <<"FinancialPostingEscalated", posting[w].journal>>)
  /\ Moves(w, "complete")
  /\ UNCHANGED <<avars, responses, byHand>>

\* The task is completed and the answer remembered.
CompleteTask(w) ==
  /\ At(w, "complete")
  /\ posting' = [posting EXCEPT ![w].pc = "done", ![w].task = "COMPLETED"]
  /\ responses' = IF posting[w].key = None THEN responses
                                           ELSE [responses EXCEPT ![posting[w].key] = w]
  /\ UNCHANGED <<avars, outbox, byHand>>

-----------------------------------------------------------------------------
PostingStep(w) ==
  \/ \E j \in Journals, key \in Keys \cup {None}, t \in Thresholds :
       ProcessFinancialPosting(w, j, key, t)
  \/ ReadJournal(w) \/ CreateTask(w) \/ AutoApprove(w) \/ Posted(w)
  \/ Escalate(w) \/ CompleteTask(w)

\* Clients of Accounting meanwhile.
ClientStep ==
  /\ \/ Create
     \/ \E c \in Calls \ Workflows : AccountStep(c) \/ JournalStep(c) \/ InvoiceStep(c)
  /\ byHand' = byHand \cup
       {call'[c].id : c \in {d \in Calls \ Workflows : call'[d].op = "postJournal"}}
  /\ UNCHANGED <<posting, responses, outbox>>

PostingNext == ClientStep \/ \E w \in Workflows : PostingStep(w)

PostingSpec == Init /\ PostingInit /\ [][PostingNext]_<<avars, postingVars>>

-----------------------------------------------------------------------------
(* Properties. *)

Announcements(j) == {n \in DOMAIN outbox : outbox[n] = <<"JournalPosted", j>>}

\* Workflows that read a journal as a draft at the same time post it once and
\* announce it once -- postJournal looks again -- unless two of its handlers held
\* the row together; and a journal only workflows posted is POSTED, once nobody is
\* at it, only if that was announced.
AnnouncedOnce ==
  \A j \in Present(journal) :
    /\ j \notin reread => Cardinality(Announcements(j)) <= 1
    /\ journal[j].status = "POSTED" /\ journal[j].of = None /\ j \notin byHand
         => Announcements(j) # {}
=============================================================================
