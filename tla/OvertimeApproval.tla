--------------------------- MODULE OvertimeApproval ---------------------------
(***************************************************************************)
(* OvertimeApprovalService.processOvertimeApproval over Hris: the opinions *)
(* of HRIS and Finance on a request for overtime, and what becomes of it.  *)
(***************************************************************************)
EXTENDS Hris, PolicyEngine

CONSTANTS Approvals,  \* invocations of the workflow
          JustificationThreshold, \* of the cost, 200 in the code
          OverloadHours           \* per employee, 10 in the code

VARIABLES
  approval,      \* [Approvals -> the local state of the workflow]
  approvalTickets, \* tickets of conflicts
  byHand         \* history: requests settled by a client

approvalVars == <<approval, approvalTickets, byHand>>

Waiting == [pc |-> "idle", request |-> None, row |-> None, urgent |-> FALSE,
            breached |-> FALSE, overloaded |-> FALSE, escalated |-> FALSE]

ApprovalTypeOK ==
  \A w \in Approvals : approval[w].pc \in {"idle", "employee", "budget", "decide", "done"}

ApprovalInit ==
  /\ approval = [w \in Approvals |-> Waiting]
  /\ approvalTickets = 0
  /\ byHand = {}

Starting(w, r, urgent, breached) ==
  /\ approval[w] = Waiting /\ request[r] # None /\ request[r].kind = "overtime"
  /\ approval' = [approval EXCEPT ![w] =
       [Waiting EXCEPT !.pc = "employee", !.request = r, !.row = request[r],
                       !.urgent = urgent, !.breached = breached]]
  /\ UNCHANGED <<hrisVars, approvalTickets, byHand>>

\* getWorkloadSummary: the department is overloaded by the overtime it has asked for,
\* or by open tickets -- and one without employees always is.
OvertimeHours ==
  LET live == {r \in Requests : /\ request[r] # None /\ request[r].kind = "overtime"
                                /\ request[r].status \in {"REQUESTED", "APPROVED"}}
  IN MapThenSumSet(LAMBDA r : request[r].hours, live)

HeadCount == Cardinality({e \in Employees : employee[e] # None})

ReadWorkload(w) ==
  /\ approval[w].pc = "employee"
  /\ \E manyTickets \in BOOLEAN :
       approval' = [approval EXCEPT ![w].pc = "budget",
         ![w].overloaded = OvertimeHours >= HeadCount * OverloadHours \/ manyTickets]
  /\ UNCHANGED <<hrisVars, approvalTickets, byHand>>

\* The budget, if one is named, has the money or has not.
CheckBudget(w) ==
  /\ approval[w].pc = "budget"
  /\ \E insufficient \in BOOLEAN :
       approval' = [approval EXCEPT ![w].pc = "decide", ![w].breached = @ \/ insufficient]
  /\ UNCHANGED <<hrisVars, approvalTickets, byHand>>

HrisDecision(w) ==
  IF approval[w].urgent \/ approval[w].overloaded \/ approval[w].row.reason
    THEN "OVERTIME_REQUIRED" ELSE "OVERTIME_NOT_JUSTIFIED"

FinanceDecision(w) ==
  IF approval[w].breached \/ approval[w].row.cost > JustificationThreshold
    THEN "OVERTIME_NOT_JUSTIFIED" ELSE "OVERTIME_REQUIRED"

\* Both are trusted alike, so what they disagree about goes to a human.
Decision(w) == DetectAndResolve(HrisDecision(w), 90, FinanceDecision(w), 90)

Decide(w) ==
  LET r == approval[w].request IN
  /\ approval[w].pc = "decide"
  /\ \/ Decision(w) = "OVERTIME_REQUIRED" /\ Settle(r, "APPROVED") /\ UNCHANGED approvalTickets
     \/ Decision(w) = "OVERTIME_NOT_JUSTIFIED" /\ Settle(r, "REJECTED") /\ UNCHANGED approvalTickets
     \/ Decision(w) = "ESCALATED" /\ approvalTickets' = approvalTickets + 1 /\ UNCHANGED hrisVars
  /\ approval' = [approval EXCEPT ![w].pc = "done", ![w].escalated = Decision(w) = "ESCALATED"]
  /\ UNCHANGED byHand

ApprovalStep ==
  \E w \in Approvals :
    \/ \E r \in Requests, urgent \in BOOLEAN, breached \in BOOLEAN : Starting(w, r, urgent, breached)
    \/ ReadWorkload(w) \/ CheckBudget(w) \/ Decide(w)

\* Clients of Hris meanwhile.
ByHand ==
  /\ byHand' = byHand \cup {r \in Requests : request[r] # None /\ request'[r] # request[r]}
  /\ UNCHANGED <<approval, approvalTickets>>

ApprovalSpec ==
  HrisInit /\ ApprovalInit /\ [][ApprovalStep \/ (HrisNext /\ ByHand)]_<<hrisVars, approvalVars>>

-----------------------------------------------------------------------------
(* Properties. *)

\* Overtime the staffing assessment asked for gives its reason, so HRIS always
\* requires it: however workflows interleave they approve it or ask a human,
\* and one that ended has left its request settled or a ticket behind.
SurgeIsNeverRejected ==
  /\ \A r \in Requests \ byHand :
       request[r] # None /\ request[r].reason => request[r].status # "REJECTED"
  /\ \A w \in Approvals : approval[w].pc = "done" =>
       approval[w].escalated \/ request[approval[w].request].status # "REQUESTED"
=============================================================================
