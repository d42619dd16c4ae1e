------------------------------- MODULE AiBudget -------------------------------
(***************************************************************************)
(* AiBudgetService for one tenant, with the Redis lock it takes around     *)
(* "check the budget, then record the usage" (reserveAndRecordUsage).  The *)
(* lock is a lease: it expires by itself, whether or not its holder is     *)
(* done.  recordUsage and setBudget take no lock.  One action is one       *)
(* operation on Redis or on the repository.                                *)
(***************************************************************************)
EXTENDS Integers, FiniteSets, FiniteSetsExt

CONSTANTS
  Requests,     \* invocations of the service, each runs once
  Agents,       \* agents with a daily budget of their own
  NoAgent,      \* usage that belongs to no agent
  None,
  Costs,        \* estimated costs
  DEFAULT_BUDGET, \* the limits of a tenant nobody configured
  LimitValues,  \* values an administrator sets a limit to
  MaxDay,       \* bound: the days that pass, all in one month
  RedisEnabled  \* REDIS_ENABLED: is there a lock at all?

Fields == {"transaction", "daily", "monthly", "agent"}

ASSUME NumberAssumption ==
  /\ Costs \subseteq Nat /\ LimitValues \subseteq Nat /\ MaxDay \in Nat \ {0}
  /\ DEFAULT_BUDGET \in [Fields -> Nat]
ASSUME RedisAssumption == RedisEnabled \in BOOLEAN

\* A budget, and a usage record.
Limits == [Fields -> Nat]

Record == [agent : Agents \cup {NoAgent}, cost : Nat, day : 1..MaxDay,
           reserved : BOOLEAN]

ASSUME NoneAssumption ==
  None \notin Requests \cup Limits \cup Record /\ NoAgent \notin Agents

VARIABLES
  limits,     \* the tenant's budget, or None before anyone asked for it
  usage,      \* [Requests -> Record or None]: the usage each recorded
  holder,     \* the request whose token the lock key holds, or None
  redisUp,    \* does Redis answer?
  day,        \* the current UTC day
  request,    \* [Requests -> the local state of the invocation]
  leaseLost,  \* history: some lease expired before its holder was done
  ceiling     \* history: the highest limit ever set, per field

vars == <<limits, usage, holder, redisUp, day, request, leaseLost, ceiling>>
history == <<leaseLost, ceiling>>
environment == <<redisUp, day>>

Idle == [op |-> "none", pc |-> "idle", agent |-> NoAgent, cost |-> 0,
         field |-> "daily", limits |-> None, status |-> None,
         used |-> [w \in {"daily", "monthly", "agent"} |-> 0]]

Goto(r, pc) == request' = [request EXCEPT ![r].pc = pc]

(***************************************************************************)
(* The lock.  SET NX PX gives the key to a request or refuses it; if Redis *)
(* does not answer, the operation throws out of the service.               *)
(***************************************************************************)
BeginReserve(r, a, c) ==
  /\ request[r] = Idle
  /\ request' = [request EXCEPT ![r] =
       [Idle EXCEPT !.op = "reserve", !.agent = a, !.cost = c,
                    !.pc = IF RedisEnabled THEN "acquire" ELSE "limits"]]
  /\ UNCHANGED <<limits, usage, holder, environment, history>>

\* Fault: SET without NX.
LockOverwritten == TRUE

LockFree == holder = None

AcquireLock(r) ==
  /\ request[r].pc = "acquire"
  /\ \/ /\ redisUp /\ LockFree
        /\ holder' = r
        /\ Goto(r, "limits")
     \/ /\ redisUp /\ ~LockFree
        /\ Goto(r, "busy")
        /\ UNCHANGED holder
     \/ /\ ~redisUp
        /\ Goto(r, "error")
        /\ UNCHANGED holder
  /\ UNCHANGED <<limits, usage, environment, history>>

\* Fault: delete without compare.
Deleted(r) == None

\* The Lua script: the key is deleted only if it still holds this token.
ComparedAndDeleted(r) == IF holder = r THEN None ELSE holder

\* The answer is already decided, but a Redis that
\* does not answer turns it into an error.
ReleaseLock(r) ==
  /\ request[r].pc \in {"releaseAllowed", "releaseDenied"}
  /\ \/ /\ redisUp
        /\ holder' = ComparedAndDeleted(r)
        /\ Goto(r, IF request[r].pc = "releaseAllowed" THEN "allowed"
                                                       ELSE "denied")
     \/ /\ ~redisUp
        /\ Goto(r, "error")
        /\ UNCHANGED holder
  /\ UNCHANGED <<limits, usage, environment, history>>

\* The requests that believe they hold the lock.
InCriticalSection(r) ==
  request[r].pc \in {"limits", "create", "status", "daily", "monthly", "agent",
                     "record", "releaseAllowed", "releaseDenied"}

\* After LOCK_TTL_MS the key is gone.
LeaseExpires ==
  /\ holder # None
  /\ holder' = None
  /\ leaseLost' = (leaseLost \/ InCriticalSection(holder))
  /\ UNCHANGED <<limits, usage, environment, request, ceiling>>

(***************************************************************************)
(* getOrCreateBudget, for a check and for setBudget: the budget is looked  *)
(* up and, if there is none, the default one is written without looking    *)
(* again.  setBudget merges one override into its copy.                    *)
(***************************************************************************)
Merged(q, budget) == [budget EXCEPT ![q.field] = q.cost]

WithBudget(q, budget) ==
  IF q.op = "setBudget"
  THEN [q EXCEPT !.limits = Merged(q, budget), !.pc = "writeBudget"]
  ELSE [q EXCEPT !.limits = budget, !.pc = "status"]

FindBudget(r) ==
  /\ request[r].pc = "limits"
  /\ \/ limits = None /\ Goto(r, "create")
     \/ /\ limits # None
        /\ request' = [request EXCEPT ![r] = WithBudget(request[r], limits)]
  /\ UNCHANGED <<limits, usage, holder, environment, history>>

CreateBudget(r) ==
  /\ request[r].pc = "create"
  /\ limits' = DEFAULT_BUDGET
  /\ request' = [request EXCEPT ![r] = WithBudget(request[r], DEFAULT_BUDGET)]
  /\ UNCHANGED <<usage, holder, environment, history>>

(***************************************************************************)
(* evaluateBudgetAvailability: after the budget, the budget again inside   *)
(* getStatus, then the usage of the day, of the month, and of the agent.   *)
(***************************************************************************)
ReadStatusLimits(r) ==
  /\ request[r].pc = "status"
  /\ request' = [request EXCEPT ![r].status = limits, ![r].pc = "daily"]
  /\ UNCHANGED <<limits, usage, holder, environment, history>>

CostOf(S) == MapThenSumSet(LAMBDA s : usage[s].cost, S)

Recorded == {s \in Requests : usage[s] # None}

InWindow(w, a) ==
  {s \in Recorded : /\ w \in {"daily", "agent"} => usage[s].day = day
                    /\ w = "agent" => usage[s].agent = a}

\* Fault: spending exactly the limit leaves room for one more.
CoversOneMore(limit, used, cost) == used <= limit

\* getStatus refuses a spent budget even a request that costs nothing.
Covers(limit, used, cost) == used < limit /\ used + cost <= limit

Allowed(q) ==
  /\ q.cost <= q.limits["transaction"]
  /\ Covers(q.status["daily"], q.used["daily"], q.cost)
  /\ Covers(q.status["monthly"], q.used["monthly"], q.cost)
  /\ q.agent # NoAgent => q.used["agent"] + q.cost <= q.limits["agent"]

AfterWindow(r) ==
  CASE request[r].pc = "daily" -> "monthly"
    [] request[r].pc = "monthly" /\ request[r].agent # NoAgent -> "agent"
    [] OTHER -> "decide"

ReadUsage(r) ==
  LET w == request[r].pc
      q == [request[r] EXCEPT
              !.used[w] = CostOf(InWindow(w, request[r].agent)),
              !.pc = AfterWindow(r)]
  IN
  /\ w \in {"daily", "monthly", "agent"}
  /\ request' = [request EXCEPT ![r] =
       IF q.pc # "decide" THEN q
       ELSE IF Allowed(q) THEN [q EXCEPT !.pc = "record"]
       ELSE [q EXCEPT !.pc = IF RedisEnabled THEN "releaseDenied"
                                             ELSE "denied"]]
  /\ UNCHANGED <<limits, usage, holder, environment, history>>

\* createUsageRecord, for both ways of recording; the day is today's.
RecordUsage(r) ==
  LET reserved == request[r].op = "reserve" IN
  /\ request[r].pc = "record"
  /\ usage' = [usage EXCEPT ![r] =
       [agent |-> request[r].agent, cost |-> request[r].cost, day |-> day,
        reserved |-> reserved]]
  /\ Goto(r, IF reserved /\ RedisEnabled THEN "releaseAllowed" ELSE "allowed")
  /\ UNCHANGED <<limits, holder, environment, history>>

\* recordUsage: no check and no lock.
BeginRecordUsage(r, a, c) ==
  /\ request[r] = Idle
  /\ request' = [request EXCEPT ![r] = [Idle EXCEPT !.op = "recordUsage",
                             !.agent = a, !.cost = c, !.pc = "record"]]
  /\ UNCHANGED <<limits, usage, holder, environment, history>>

\* setBudget writes the whole merged copy back, without the lock.
BeginSetBudget(r, f, v) ==
  /\ request[r] = Idle
  /\ request' = [request EXCEPT ![r] = [Idle EXCEPT !.op = "setBudget",
                             !.field = f, !.cost = v, !.pc = "limits"]]
  /\ UNCHANGED <<limits, usage, holder, environment, history>>

Higher(m, n) == IF m >= n THEN m ELSE n

WriteBudget(r) ==
  /\ request[r].pc = "writeBudget"
  /\ limits' = request[r].limits
  /\ ceiling' = [f \in Fields |-> Higher(ceiling[f], limits'[f])]
  /\ Goto(r, "done")
  /\ UNCHANGED <<usage, holder, environment, leaseLost>>

-----------------------------------------------------------------------------
NextDay ==
  /\ day < MaxDay
  /\ day' = day + 1
  /\ UNCHANGED <<limits, usage, holder, redisUp, request, history>>

RedisFailsOrReturns ==
  /\ RedisEnabled
  /\ redisUp' = ~redisUp
  /\ UNCHANGED <<limits, usage, holder, day, request, history>>

Init ==
  /\ limits = None
  /\ usage = [r \in Requests |-> None]
  /\ holder = None
  /\ redisUp = TRUE
  /\ day = 1
  /\ request = [r \in Requests |-> Idle]
  /\ leaseLost = FALSE
  /\ ceiling = DEFAULT_BUDGET

Begins(r) ==
  \/ \E a \in Agents \cup {NoAgent}, c \in Costs :
       BeginReserve(r, a, c) \/ BeginRecordUsage(r, a, c)
  \/ \E f \in Fields, v \in LimitValues : BeginSetBudget(r, f, v)

Step(r) ==
  \/ AcquireLock(r)
  \/ ReleaseLock(r)
  \/ FindBudget(r)
  \/ CreateBudget(r)
  \/ ReadStatusLimits(r)
  \/ ReadUsage(r)
  \/ RecordUsage(r)
  \/ WriteBudget(r)

Next ==
  \/ \E r \in Requests : Begins(r) \/ Step(r)
  \/ LeaseExpires
  \/ NextDay
  \/ RedisFailsOrReturns

Spec == Init /\ [][Next]_vars

-----------------------------------------------------------------------------
RequestState ==
  [op : {"none", "reserve", "recordUsage", "setBudget"},
   pc : {"idle", "acquire", "limits", "create", "status", "daily", "monthly",
         "agent", "record", "releaseAllowed", "releaseDenied", "writeBudget",
         "busy", "error", "allowed", "denied", "done"},
   agent : Agents \cup {NoAgent}, cost : Nat, field : Fields,
   limits : Limits \cup {None}, status : Limits \cup {None},
   used : [{"daily", "monthly", "agent"} -> Int]]

TypeOK ==
  /\ limits \in Limits \cup {None}
  /\ usage \in [Requests -> Record \cup {None}]
  /\ holder \in Requests \cup {None}
  /\ redisUp \in BOOLEAN
  /\ day \in 1..MaxDay
  /\ request \in [Requests -> RequestState]
  /\ leaseLost \in BOOLEAN
  /\ ceiling \in Limits

(***************************************************************************)
(* The lock serializes reservations as long as every holder finishes       *)
(* within its lease, whatever Redis outages and expiries of leases that    *)
(* were left behind happen around it.                                      *)
(***************************************************************************)
MayReserve(r) == request[r].op = "reserve" /\ InCriticalSection(r)

ReservationsSerialized ==
  RedisEnabled /\ ~leaseLost =>
    \A r, s \in Requests : MayReserve(r) /\ MayReserve(s) => r = s

(***************************************************************************)
(* Then what was reserved on a day never exceeds the highest daily limit   *)
(* there has been, in spite of unlocked recordUsage calls, changes of the  *)
(* budget and a day ending between check and record; and likewise for the  *)
(* month and for each agent's day.                                         *)
(***************************************************************************)
Reserved == {s \in Recorded : usage[s].reserved}

WithinBudget ==
  /\ \A d \in 1..MaxDay :
       /\ CostOf({s \in Reserved : usage[s].day = d}) <= ceiling["daily"]
       /\ \A a \in Agents :
            CostOf({s \in Reserved : usage[s].day = d /\ usage[s].agent = a})
              <= ceiling["agent"]
  /\ CostOf(Reserved) <= ceiling["monthly"]

ReservedWithinBudget == RedisEnabled /\ ~leaseLost => WithinBudget

(***************************************************************************)
(* A holder whose lease expired does not take the lock away from whoever   *)
(* holds it now: a held lock is given up by its holder or expires.         *)
(***************************************************************************)
OnlyHolderReleases ==
  [][\A r \in Requests : holder = r /\ holder' # r =>
       \/ UNCHANGED request
       \/ request'[r].pc \in {"allowed", "denied"}]_vars

(***************************************************************************)
(* OPERATIONS.md: "If Redis is disabled or unreachable, the service falls  *)
(* back to unlocked check-then-write behavior".  Unreachable, it throws.   *)
(***************************************************************************)
UnreachableFallsBack == \A r \in Requests : request[r].pc # "error"
=============================================================================
