---------------------------- MODULE AiBudget_proofs ----------------------------
(***************************************************************************)
(* The lock and the limits of AiBudgetService, for any number of requests  *)
(* and any costs: as long as no lease is lost, at most one reservation at  *)
(* a time is between its check and its record, and what is reserved stays  *)
(* within the limits; and a lock is never taken away from its holder.      *)
(*                                                                         *)
(* ReservationsSerialized speaks of pairs of requests only; what is        *)
(* inductive is that a reservation in the critical section is the one      *)
(* whose token the lock key holds (IInv).  That of the limits, BudgetInv,  *)
(* adds what the holder has read: it covers what is reserved at present,   *)
(* also after midnight, because usage is recorded on past days only.       *)
(***************************************************************************)
EXTENDS MCAiBudget, SumTheorems, TLAPS

\* The two fields the lock depends on.
Shape ==
  /\ request = [r \in Requests |-> request[r]]
  /\ \A r \in Requests : {"op", "pc"} \subseteq DOMAIN request[r]

HoldersReserve ==
  RedisEnabled /\ ~leaseLost =>
    \A r \in Requests : MayReserve(r) => holder = r

IInv == Shape /\ HoldersReserve

\* Before the first call nothing is spent.
LEMMA InitEstablishes == Init => IInv
BY DEF Init, IInv, Shape, HoldersReserve, MayReserve, InCriticalSection, Idle

\* A step of one request changes the local state of no other.
LEMMA Local ==
  ASSUME Shape, NEW r \in Requests, Begins(r) \/ Step(r)
  PROVE  /\ Shape'
         /\ \A s \in Requests \ {r} : request'[s] = request[s]
         /\ leaseLost' = leaseLost
<1> USE DEF Shape, history
<1>1. CASE Begins(r)
  BY <1>1 DEF Begins, BeginReserve, BeginRecordUsage, BeginSetBudget, Idle
<1>2. CASE AcquireLock(r) \/ ReleaseLock(r)
  BY <1>2 DEF AcquireLock, ReleaseLock, Goto
<1>3. CASE FindBudget(r) \/ CreateBudget(r) \/ ReadStatusLimits(r)
  BY <1>3 DEF FindBudget, CreateBudget, WithBudget, ReadStatusLimits, Goto
<1>4. CASE ReadUsage(r)
  BY <1>4 DEF ReadUsage
<1>5. CASE RecordUsage(r)
  BY <1>5 DEF RecordUsage, Goto
<1>6. CASE WriteBudget(r)
  BY <1>6 DEF WriteBudget, Goto
<1> QED  BY <1>1, <1>2, <1>3, <1>4, <1>5, <1>6 DEF Step

\* What a step of r does to the lock, and how r comes to be reserving: it
\* just took a free lock, or it already was and the lock is as it was.
LEMMA LockSteps ==
  ASSUME Shape, NEW r \in Requests, Begins(r) \/ Step(r)
  PROVE  \/ LockFree /\ holder' = r
         \/ /\ holder' = holder
            /\ RedisEnabled /\ MayReserve(r)' => MayReserve(r)
         \/ /\ holder' = ComparedAndDeleted(r) /\ ~MayReserve(r)'
            /\ request'[r].pc \in {"allowed", "denied"}
<1> USE DEF Shape, MayReserve, InCriticalSection
<1>1. CASE Begins(r)
  <2>1. ASSUME NEW a, NEW c, BeginReserve(r, a, c)
        PROVE  holder' = holder /\ (RedisEnabled => ~MayReserve(r)')
    BY <2>1 DEF BeginReserve, Idle
  <2>2. ASSUME NEW a, NEW c, BeginRecordUsage(r, a, c)
        PROVE  holder' = holder /\ ~MayReserve(r)'
    BY <2>2 DEF BeginRecordUsage, Idle
  <2>3. ASSUME NEW f, NEW v, BeginSetBudget(r, f, v)
        PROVE  holder' = holder /\ ~MayReserve(r)'
    BY <2>3 DEF BeginSetBudget, Idle
  <2> QED  BY <1>1, <2>1, <2>2, <2>3 DEF Begins
<1>2. CASE AcquireLock(r)
  BY <1>2 DEF AcquireLock, Goto
<1>3. CASE ReleaseLock(r)
  BY <1>3 DEF ReleaseLock, Goto
<1>4. CASE FindBudget(r) \/ CreateBudget(r)
  <2>1. request'[r].op = request[r].op
    <3>1. CASE Goto(r, "create")
      BY <3>1 DEF Goto
    <3>2. ASSUME NEW budget,
                 request' = [request EXCEPT ![r] = WithBudget(request[r], budget)]
          PROVE  request'[r].op = request[r].op
      <4>1. request'[r] = WithBudget(request[r], budget)
        BY <3>2
      <4>2. CASE request[r].op = "setBudget"
        BY <4>1, <4>2 DEF WithBudget
      <4>3. CASE request[r].op # "setBudget"
        BY <4>1, <4>3 DEF WithBudget
      <4> QED  BY <4>2, <4>3
    <3> QED  BY <1>4, <3>1, <3>2 DEF FindBudget, CreateBudget
  <2>2. holder' = holder /\ InCriticalSection(r)
    BY <1>4 DEF FindBudget, CreateBudget
  <2> QED  BY <2>1, <2>2
<1>5. CASE ReadStatusLimits(r)
  BY <1>5 DEF ReadStatusLimits
<1>6. CASE ReadUsage(r)
  <2>1. request'[r].op = request[r].op /\ holder' = holder
    BY <1>6 DEF ReadUsage
  <2> QED  BY <1>6, <2>1 DEF ReadUsage
<1>7. CASE RecordUsage(r)
  BY <1>7 DEF RecordUsage, Goto
<1>8. CASE WriteBudget(r)
  BY <1>8 DEF WriteBudget, Goto
<1> QED  BY <1>1, <1>2, <1>3, <1>4, <1>5, <1>6, <1>7, <1>8 DEF Step

\* A step of a request keeps the lock with whoever is reserving.
LEMMA RequestPreserves ==
  ASSUME IInv, NEW r \in Requests, Begins(r) \/ Step(r)  PROVE IInv'
<1>1. Shape' /\ leaseLost' = leaseLost
  BY Local DEF IInv
<1>2. HoldersReserve'
  <2> SUFFICES ASSUME RedisEnabled, ~leaseLost, NEW s \in Requests,
                      MayReserve(s)'
               PROVE  holder' = s
      BY <1>1 DEF HoldersReserve
  <2>1. \A t \in Requests : MayReserve(t) => holder = t
    BY DEF IInv, HoldersReserve
  <2>2. s # r => MayReserve(s)
    BY Local DEF IInv, MayReserve, InCriticalSection
  <2> QED  BY <2>1, <2>2, LockSteps, NoneAssumption
           DEF IInv, LockFree, ComparedAndDeleted
<1> QED  BY <1>1, <1>2 DEF IInv

\* An expiry that finds its holder at work is recorded as a lost lease.
LEMMA ExpiryPreserves == IInv /\ LeaseExpires => IInv'
<1> SUFFICES ASSUME IInv, LeaseExpires  PROVE IInv'
    OBVIOUS
<1>1. Shape'
  BY DEF IInv, Shape, LeaseExpires
<1>2. HoldersReserve'
  BY DEF IInv, HoldersReserve, LeaseExpires, MayReserve, InCriticalSection
<1> QED  BY <1>1, <1>2 DEF IInv

\* Every step keeps the invariant.
LEMMA StepPreserves == IInv /\ [Next]_vars => IInv'
<1> SUFFICES ASSUME IInv, [Next]_vars  PROVE IInv'
    OBVIOUS
<1>1. ASSUME UNCHANGED <<holder, request, leaseLost>>  PROVE IInv'
  BY <1>1 DEF IInv, Shape, HoldersReserve, MayReserve, InCriticalSection
<1>2. NextDay \/ RedisFailsOrReturns \/ UNCHANGED vars =>
        UNCHANGED <<holder, request, leaseLost>>
  BY DEF NextDay, RedisFailsOrReturns, vars, history
<1> QED  BY <1>1, <1>2, RequestPreserves, ExpiryPreserves DEF Next

\* A reservation in the critical section holds the lock, in every reachable state.
THEOREM InductiveInvariant == Spec => []IInv
BY InitEstablishes, StepPreserves, PTL DEF Spec

\* reserveAndRecordUsage: while no lease is lost, no two requests are between
\* taking the tenant's lock and giving it back.
THEOREM Serialized == Spec => []ReservationsSerialized
<1>1. IInv => ReservationsSerialized
  BY DEF IInv, HoldersReserve, ReservationsSerialized
<1> QED  BY <1>1, InductiveInvariant, PTL

\* releaseLock: a lock leaves its holder only when that holder answers or
\* when it expires, even if leases were lost before.
THEOREM LockNeverStolen == Spec => OnlyHolderReleases
<1>1. IInv /\ [Next]_vars =>
        [\A r \in Requests : holder = r /\ holder' # r =>
           \/ UNCHANGED request
           \/ request'[r].pc \in {"allowed", "denied"}]_vars
  <2> SUFFICES ASSUME IInv, Next, NEW r \in Requests, holder = r, holder' # r
               PROVE  \/ UNCHANGED request
                      \/ request'[r].pc \in {"allowed", "denied"}
      OBVIOUS
  <2>1. CASE LeaseExpires
    BY <2>1 DEF LeaseExpires
  <2>2. CASE NextDay \/ RedisFailsOrReturns
    BY <2>2 DEF NextDay, RedisFailsOrReturns
  <2>3. ASSUME NEW s \in Requests, Begins(s) \/ Step(s)
        PROVE  request'[r].pc \in {"allowed", "denied"}
    BY <2>3, LockSteps, NoneAssumption
       DEF IInv, LockFree, ComparedAndDeleted
  <2> QED  BY <2>1, <2>2, <2>3 DEF Next
<1> QED  BY <1>1, InductiveInvariant, PTL DEF Spec, OnlyHolderReleases

\* Where a request may still record usage, and has recorded none.
CanRecord == {"idle", "acquire", "limits", "create", "status", "daily", "monthly", "agent", "record"}

\* The types, with the sums read in natural numbers; usage recorded is finite and past.
BudgetTypes ==
  /\ TypeOK
  /\ \A r \in Requests : \A w \in {"daily", "monthly", "agent"} : request[r].used[w] \in Nat
  /\ \A r \in Requests : request[r].pc = "writeBudget" => request[r].limits \in Limits
  /\ IsFiniteSet(Recorded)
  /\ \A s \in Recorded : usage[s].day <= day
  /\ \A r \in Requests : request[r].pc \in CanRecord => usage[r] = None

\* A state a request may go on to from q.
GoesTo(q, x) ==
  /\ x \in RequestState /\ \A w \in {"daily", "monthly", "agent"} : x.used[w] \in Nat
  /\ x.pc = "writeBudget" => x.limits \in Limits
  /\ x.pc \in CanRecord => q.pc \in CanRecord

\* Limits are no higher than the highest there were,
CeilingCovers ==
  /\ \A f \in Fields : DEFAULT_BUDGET[f] <= ceiling[f]
  /\ limits # None => \A f \in Fields : limits[f] <= ceiling[f]

\* nor are those a reservation is judged by.
Judged(q) ==
  q.op = "reserve" =>
    /\ q.pc \in {"status", "daily", "monthly", "agent", "record"} =>
         limits # None /\ q.limits \in Limits /\ \A f \in Fields : q.limits[f] <= ceiling[f]
    /\ q.pc \in {"daily", "monthly", "agent", "record"} =>
         q.status \in Limits /\ \A f \in Fields : q.status[f] <= ceiling[f]

\* What each request recorded.
spent == [s \in Requests |-> IF usage[s] = None THEN 0 ELSE usage[s].cost]

ReservedOn(d) == {s \in Reserved : usage[s].day = d}
ReservedBy(d, a) == {s \in Reserved : usage[s].day = d /\ usage[s].agent = a}

\* What the reservation that holds the lock has read covers what is reserved today,
\* this month and by its agent; before it records, it fits with that.
Measured(q) ==
  /\ q.pc \in {"monthly", "agent", "record"} => TotalOf(spent, ReservedOn(day)) <= q.used["daily"]
  /\ q.pc \in {"agent", "record"} => TotalOf(spent, Reserved) <= q.used["monthly"]
  /\ q.pc = "record" =>
       /\ q.used["daily"] + q.cost <= ceiling["daily"]
       /\ q.used["monthly"] + q.cost <= ceiling["monthly"]
       /\ q.agent # NoAgent => /\ TotalOf(spent, ReservedBy(day, q.agent)) <= q.used["agent"]
                               /\ q.used["agent"] + q.cost <= ceiling["agent"]

TotalsWithin ==
  /\ \A d \in 1 .. MaxDay :
       /\ TotalOf(spent, ReservedOn(d)) <= ceiling["daily"]
       /\ \A a \in Agents : TotalOf(spent, ReservedBy(d, a)) <= ceiling["agent"]
  /\ TotalOf(spent, Reserved) <= ceiling["monthly"]

BudgetInv ==
  /\ IInv /\ BudgetTypes /\ CeilingCovers
  /\ \A r \in Requests : Judged(request[r])
  /\ RedisEnabled /\ ~leaseLost => TotalsWithin /\ \A r \in Requests : MayReserve(r) => Measured(request[r])

\* Part of what is summed is no more than the whole.
LEMMA TotalOfPart ==
  ASSUME NEW f, NEW S, NEW R, R \subseteq S, IsFiniteSet(S), \A x \in S : f[x] \in Nat
  PROVE  TotalOf(f, R) <= TotalOf(f, S) /\ IsFiniteSet(R)
  <1>1. IsFiniteSet(R) /\ IsFiniteSet(S \ R) /\ R \cup (S \ R) = S /\ R \cap (S \ R) = {}
    BY FS_Subset, FS_Difference
  <1>2. TotalOf(f, R \cup (S \ R)) = TotalOf(f, R) + TotalOf(f, S \ R)
    BY <1>1, TotalOfDisjoint
  <1>3. TotalOf(f, R) \in Nat /\ TotalOf(f, S \ R) \in Nat
    BY <1>1, TotalType
  <1>4. TotalOf(f, S) = TotalOf(f, R) + TotalOf(f, S \ R)
    BY <1>1, <1>2
  <1>5. TotalOf(f, R) <= TotalOf(f, R) + TotalOf(f, S \ R)
    BY <1>3
  <1> QED
    BY <1>1, <1>4, <1>5

\* The cost of what is recorded is a total.
LEMMA CostIsTotal ==
  ASSUME BudgetTypes, NEW S, S \subseteq Recorded
  PROVE  CostOf(S) = TotalOf(spent, S) /\ CostOf(S) \in Nat /\ IsFiniteSet(S) /\ \A s \in S : spent[s] \in Nat
  <1> DEFINE Folds(it) == it = [s \in SUBSET S |->
                              IF s = {} THEN 0
                              ELSE usage[CHOOSE y \in s : TRUE].cost + it[s \ {CHOOSE y \in s : TRUE}]]
  <1>0. IsFiniteSet(S)
    BY FS_Subset DEF BudgetTypes
  <1>1. CostOf(S) = (CHOOSE it : Folds(it))[S]
    BY DEF CostOf, MapThenSumSet, MapThenFoldSet
  <1>2. \A s \in S : spent[s] = usage[s].cost /\ spent[s] \in Nat
    BY DEF spent, Recorded, BudgetTypes, TypeOK, Record
  <1>3. \A it : Adds(it, spent, S) <=> Folds(it)
    <2>1. \A s \in SUBSET S : s # {} => spent[Chosen(s)] = usage[CHOOSE y \in s : TRUE].cost
      BY <1>2 DEF Chosen
    <2> QED
      BY <2>1 DEF Adds, Chosen
  <1>4. Folds([s \in SUBSET S |-> TotalOf(spent, s)])
    BY <1>0, <1>2, <1>3, TotalsAdd
  <1> HIDE DEF Folds
  <1>5. Folds(CHOOSE it : Folds(it))
    BY <1>4
  <1>6. CostOf(S) = TotalOf(spent, S)
    BY <1>0, <1>1, <1>2, <1>3, <1>5, AddsUniquely
  <1> QED
    BY <1>0, <1>2, <1>6, TotalType

\* A request that has not begun.
LEMMA IdleState ==
  /\ Idle \in RequestState /\ \A w \in {"daily", "monthly", "agent"} : Idle.used[w] \in Nat
  /\ Idle.op = "none" /\ Idle.pc = "idle"
  BY NumberAssumption DEF Idle, RequestState, Fields

\* A change of place.
LEMMA Went ==
  ASSUME NEW q \in RequestState, \A w \in {"daily", "monthly", "agent"} : q.used[w] \in Nat,
         NEW pc \in {"idle", "acquire", "limits", "create", "status", "daily", "monthly",
                     "agent", "record", "releaseAllowed", "releaseDenied", "busy", "error", "allowed", "denied", "done"},
         pc \in CanRecord => q.pc \in CanRecord, NEW x, x = [q EXCEPT !.pc = pc]
  PROVE  /\ GoesTo(q, x) /\ x.op = q.op /\ x.pc = pc /\ x.agent = q.agent /\ x.cost = q.cost
         /\ x.limits = q.limits /\ x.status = q.status /\ x.used = q.used
  <1>1. x \in RequestState
    BY DEF RequestState
  <1>2. /\ x.op = q.op /\ x.pc = pc /\ x.agent = q.agent /\ x.cost = q.cost
        /\ x.limits = q.limits /\ x.status = q.status /\ x.used = q.used
    BY DEF RequestState
  <1> QED
    BY <1>1, <1>2 DEF GoesTo

\* A request that begins.
LEMMA BeginGoes ==
  ASSUME BudgetTypes, NEW r \in Requests, Begins(r)
  PROVE  \E x : /\ request' = [request EXCEPT ![r] = x] /\ GoesTo(request[r], x)
                /\ UNCHANGED <<limits, usage, holder, environment, history>>
                /\ x.pc \in {"acquire", "limits"} \/ x.op # "reserve"
  <1>1. ASSUME NEW a \in Agents \cup {NoAgent}, NEW c \in Costs, BeginReserve(r, a, c)
        PROVE  \E x : /\ request' = [request EXCEPT ![r] = x] /\ GoesTo(request[r], x)
                      /\ x.pc \in {"acquire", "limits"}
    <2>1. PICK pc \in {"acquire", "limits"} : pc = IF RedisEnabled THEN "acquire" ELSE "limits"
      OBVIOUS
    <2>2. PICK x : x = [Idle EXCEPT !.op = "reserve", !.agent = a, !.cost = c, !.pc = pc]
      OBVIOUS
    <2>3. x \in RequestState /\ x.used = Idle.used /\ x.pc = pc
      BY <2>2, IdleState, NumberAssumption DEF RequestState
    <2>4. request' = [request EXCEPT ![r] = x] /\ request[r].pc = "idle"
      BY <1>1, <2>1, <2>2, IdleState DEF BeginReserve
    <2> QED
      BY <2>3, <2>4, IdleState DEF GoesTo, CanRecord
  <1>2. ASSUME NEW a \in Agents \cup {NoAgent}, NEW c \in Costs, BeginRecordUsage(r, a, c)
        PROVE  \E x : /\ request' = [request EXCEPT ![r] = x] /\ GoesTo(request[r], x)
                      /\ x.op # "reserve"
    <2>2. PICK x : x = [Idle EXCEPT !.op = "recordUsage", !.agent = a, !.cost = c, !.pc = "record"]
      OBVIOUS
    <2>3. x \in RequestState /\ x.used = Idle.used /\ x.pc = "record" /\ x.op = "recordUsage"
      BY <2>2, IdleState, NumberAssumption DEF RequestState
    <2>4. request' = [request EXCEPT ![r] = x] /\ request[r].pc = "idle"
      BY <1>2, <2>2, IdleState DEF BeginRecordUsage
    <2> QED
      BY <2>3, <2>4, IdleState DEF GoesTo, CanRecord
  <1>3. ASSUME NEW f \in Fields, NEW v \in LimitValues, BeginSetBudget(r, f, v)
        PROVE  \E x : /\ request' = [request EXCEPT ![r] = x] /\ GoesTo(request[r], x)
                      /\ x.op # "reserve"
    <2>2. PICK x : x = [Idle EXCEPT !.op = "setBudget", !.field = f, !.cost = v, !.pc = "limits"]
      OBVIOUS
    <2>3. x \in RequestState /\ x.used = Idle.used /\ x.pc = "limits" /\ x.op = "setBudget"
      BY <2>2, IdleState, NumberAssumption DEF RequestState
    <2>4. request' = [request EXCEPT ![r] = x] /\ request[r].pc = "idle"
      BY <1>3, <2>2, IdleState DEF BeginSetBudget
    <2> QED
      BY <2>3, <2>4, IdleState DEF GoesTo, CanRecord
  <1>4. UNCHANGED <<limits, usage, holder, environment, history>>
    BY DEF Begins, BeginReserve, BeginRecordUsage, BeginSetBudget
  <1> QED
    BY <1>1, <1>2, <1>3, <1>4 DEF Begins

\* A request that has its budget.
LEMMA BudgetFound ==
  ASSUME BudgetTypes, NEW r \in Requests, request[r].pc \in {"limits", "create"},
         NEW budget \in Limits, NEW x, x = WithBudget(request[r], budget)
  PROVE  /\ GoesTo(request[r], x) /\ x.op = request[r].op
         /\ x.op = "reserve" => x.pc = "status" /\ x.limits = budget
  <1>1. PICK q : q = request[r]
    OBVIOUS
  <1>2. q \in RequestState /\ q.pc \in CanRecord /\ \A w \in {"daily", "monthly", "agent"} : q.used[w] \in Nat
    BY <1>1 DEF BudgetTypes, TypeOK, CanRecord
  <1>3. CASE q.op = "setBudget"
    <2>1. PICK m : m = Merged(q, budget)
      OBVIOUS
    <2>2. m \in Limits
      BY <1>2, <2>1 DEF Merged, Limits, RequestState
    <2>3. x = [q EXCEPT !.limits = m, !.pc = "writeBudget"]
      BY <1>1, <1>3, <2>1 DEF WithBudget
    <2>4. x \in RequestState /\ x.op = q.op /\ x.used = q.used /\ x.limits = m /\ x.pc = "writeBudget"
      BY <1>2, <2>2, <2>3 DEF RequestState
    <2> QED
      BY <1>1, <1>2, <1>3, <2>2, <2>4 DEF GoesTo, CanRecord
  <1>4. CASE q.op # "setBudget"
    <2>3. x = [q EXCEPT !.limits = budget, !.pc = "status"]
      BY <1>1, <1>4 DEF WithBudget
    <2>4. x \in RequestState /\ x.op = q.op /\ x.used = q.used /\ x.limits = budget /\ x.pc = "status"
      BY <1>2, <2>3 DEF RequestState
    <2> QED
      BY <1>1, <1>2, <2>4 DEF GoesTo, CanRecord
  <1> QED
    BY <1>3, <1>4

\* What is recorded and the day it is stay what they are: so does what is summed.
LEMMA SameSums ==
  ASSUME UNCHANGED <<usage, day, ceiling>>
  PROVE  /\ TotalsWithin' <=> TotalsWithin
         /\ \A q : Measured(q)' <=> Measured(q)
         /\ Recorded' = Recorded
  BY DEF TotalsWithin, Measured, Recorded, Reserved, ReservedOn, ReservedBy, spent

\* A request goes on; the budget may be made.
LEMMA RequestGoes ==
  ASSUME BudgetInv, NEW r \in Requests, Begins(r) \/ Step(r), NEW x, request' = [request EXCEPT ![r] = x],
         GoesTo(request[r], x), UNCHANGED <<usage, day, redisUp, leaseLost, ceiling>>,
         holder' \in Requests \cup {None},
         limits' \in Limits \cup {None}, limits # None => limits' # None,
         limits' # None => \A f \in Fields : limits'[f] <= ceiling[f],
         Judged(x)',
         RedisEnabled /\ ~leaseLost /\ x.op = "reserve" /\ TotalsWithin /\ (MayReserve(r) => Measured(request[r])) => Measured(x)
  PROVE  BudgetInv'
  <1>0. IInv'
    BY RequestPreserves DEF BudgetInv
  <1>1. request \in [Requests -> RequestState] /\ x \in RequestState
    BY DEF BudgetInv, BudgetTypes, TypeOK, GoesTo
  <1>2. request'[r] = x /\ \A s \in Requests \ {r} : request'[s] = request[s]
    BY <1>1
  <1>3. TypeOK'
    BY <1>1 DEF BudgetInv, BudgetTypes, TypeOK
  <1>4. BudgetTypes'
    <2>1. \A s \in Requests : \A w \in {"daily", "monthly", "agent"} : request'[s].used[w] \in Nat
      BY <1>2 DEF BudgetInv, BudgetTypes, GoesTo
    <2>2. \A s \in Requests : request'[s].pc = "writeBudget" => request'[s].limits \in Limits
      BY <1>2 DEF BudgetInv, BudgetTypes, GoesTo
    <2>3. \A s \in Requests : request'[s].pc \in CanRecord => usage'[s] = None
      BY <1>2 DEF BudgetInv, BudgetTypes, GoesTo
    <2> QED
      BY <1>3, <2>1, <2>2, <2>3, SameSums DEF BudgetInv, BudgetTypes
  <1>5. CeilingCovers'
    BY DEF BudgetInv, CeilingCovers
  <1>6. \A s \in Requests \ {r} : Judged(request[s])'
    BY <1>2 DEF BudgetInv, Judged
  <1>7. Judged(request[r])'
    <2>1. PICK y : y = request'[r]
      OBVIOUS
    <2> QED
      BY <1>2 DEF Judged
  <1>8. RedisEnabled /\ ~leaseLost' => TotalsWithin' /\ \A s \in Requests : MayReserve(s)' => Measured(request[s])'
    <2>1. ASSUME RedisEnabled, ~leaseLost', NEW s \in Requests, MayReserve(s)' PROVE Measured(request'[s])
      <3>1. CASE s = r
        BY <1>2, <2>1, <3>1 DEF BudgetInv, MayReserve
      <3>2. CASE s # r
        BY <1>2, <2>1, <3>2 DEF BudgetInv, MayReserve, InCriticalSection
      <3> QED
        BY <3>1, <3>2
    <2>2. \A q : Measured(q)' <=> Measured(q)
      BY SameSums
    <2>3. \A s \in Requests : Measured(request'[s]) <=> Measured(request[s])'
      BY SameSums DEF Measured, Reserved, Recorded, ReservedOn, ReservedBy, spent
    <2> QED
      BY <2>1, <2>3, SameSums DEF BudgetInv
  <1> QED
    BY <1>0, <1>4, <1>5, <1>6, <1>7, <1>8 DEF BudgetInv

\* A request that begins knows nothing yet.
LEMMA BeginKept == ASSUME BudgetInv, NEW r \in Requests, Begins(r) PROVE BudgetInv'
  <1>1. PICK x : /\ request' = [request EXCEPT ![r] = x] /\ GoesTo(request[r], x)
                 /\ UNCHANGED <<limits, usage, holder, environment, history>>
                 /\ x.pc \in {"acquire", "limits"} \/ x.op # "reserve"
    BY BeginGoes DEF BudgetInv
  <1>2. UNCHANGED <<limits, usage, holder, redisUp, day, leaseLost, ceiling>>
    BY <1>1 DEF environment, history
  <1>3. Judged(x)' /\ (x.op = "reserve" => Measured(x))
    BY <1>1 DEF Judged, Measured
  <1> QED
    BY <1>1, <1>2, <1>3, RequestGoes DEF BudgetInv, BudgetTypes, TypeOK, CeilingCovers

\* Taking and releasing the lock.
LEMMA LockKept == ASSUME BudgetInv, NEW r \in Requests, AcquireLock(r) \/ ReleaseLock(r) PROVE BudgetInv'
  <1>0. request[r] \in RequestState /\ \A w \in {"daily", "monthly", "agent"} : request[r].used[w] \in Nat
    BY DEF BudgetInv, BudgetTypes, TypeOK
  <1>1. PICK pc \in {"limits", "busy", "error", "allowed", "denied"} :
          Goto(r, pc) /\ (pc = "limits" => request[r].pc = "acquire")
    <2>1. CASE AcquireLock(r)
      BY <2>1 DEF AcquireLock
    <2>2. CASE ReleaseLock(r)
      BY <2>2 DEF ReleaseLock
    <2> QED
      BY <2>1, <2>2
  <1>2. PICK x : x = [request[r] EXCEPT !.pc = pc]
    OBVIOUS
  <1>3. request' = [request EXCEPT ![r] = x]
    BY <1>1, <1>2 DEF Goto
  <1>4. GoesTo(request[r], x) /\ x.pc = pc
    BY <1>0, <1>1, <1>2, Went DEF CanRecord
  <1>5. UNCHANGED <<limits, usage, redisUp, day, leaseLost, ceiling>> /\ holder' \in Requests \cup {None}
    BY DEF AcquireLock, ReleaseLock, ComparedAndDeleted, environment, history, BudgetInv, BudgetTypes, TypeOK
  <1>6. Judged(x)' /\ Measured(x)
    BY <1>4 DEF Judged, Measured
  <1>7. Step(r)
    BY DEF Step
  <1> QED
    BY <1>3, <1>4, <1>5, <1>6, <1>7, RequestGoes DEF BudgetInv, BudgetTypes, TypeOK, CeilingCovers

\* Finding the budget and making the default one.
LEMMA FindKept == ASSUME BudgetInv, NEW r \in Requests, FindBudget(r) \/ CreateBudget(r) PROVE BudgetInv'
  <1>0. request[r] \in RequestState /\ \A w \in {"daily", "monthly", "agent"} : request[r].used[w] \in Nat
    BY DEF BudgetInv, BudgetTypes, TypeOK
  <1>1. UNCHANGED <<usage, redisUp, day, leaseLost, ceiling, holder>> /\ Step(r)
    BY DEF FindBudget, CreateBudget, environment, history, Step
  <1>2. CASE FindBudget(r) /\ Goto(r, "create")
    <2>1. PICK x : x = [request[r] EXCEPT !.pc = "create"]
      OBVIOUS
    <2>2. request' = [request EXCEPT ![r] = x] /\ limits' = limits /\ request[r].pc = "limits"
      BY <1>2, <2>1 DEF Goto, FindBudget
    <2>3. GoesTo(request[r], x) /\ x.pc = "create"
      BY <1>0, <2>1, <2>2, Went DEF CanRecord
    <2>4. Judged(x)' /\ Measured(x)
      BY <2>3 DEF Judged, Measured
    <2> QED
      BY <1>1, <2>2, <2>3, <2>4, RequestGoes DEF BudgetInv, BudgetTypes, TypeOK, CeilingCovers
  <1>3. ASSUME NEW budget \in Limits, request' = [request EXCEPT ![r] = WithBudget(request[r], budget)],
               limits' # None, limits' \in Limits, \A f \in Fields : limits'[f] <= ceiling[f] /\ budget[f] <= ceiling[f],
               request[r].pc \in {"limits", "create"}
        PROVE  BudgetInv'
    <2>1. PICK x : x = WithBudget(request[r], budget)
      OBVIOUS
    <2>2. GoesTo(request[r], x) /\ (x.op = "reserve" => x.pc = "status" /\ x.limits = budget)
      BY <1>3, <2>1, BudgetFound DEF BudgetInv
    <2>3. Judged(x)'
      BY <1>1, <1>3, <2>2 DEF Judged
    <2>4. x.op = "reserve" => Measured(x)
      BY <2>2 DEF Measured
    <2> QED
      BY <1>1, <1>3, <2>1, <2>2, <2>3, <2>4, RequestGoes DEF BudgetInv, BudgetTypes, TypeOK
  <1>4. CASE FindBudget(r) /\ limits # None
    BY <1>3, <1>4, NoneAssumption DEF FindBudget, BudgetInv, BudgetTypes, TypeOK, CeilingCovers
  <1>5. CASE CreateBudget(r)
    BY <1>3, <1>5, NoneAssumption, NumberAssumption DEF CreateBudget, BudgetInv, CeilingCovers, Limits
  <1> QED
    BY <1>2, <1>4, <1>5 DEF FindBudget

\* Reading the limits of the status.
LEMMA StatusKept == ASSUME BudgetInv, NEW r \in Requests, ReadStatusLimits(r) PROVE BudgetInv'
  <1>0. /\ request[r] \in RequestState /\ \A w \in {"daily", "monthly", "agent"} : request[r].used[w] \in Nat
        /\ limits \in Limits \cup {None}
    BY DEF BudgetInv, BudgetTypes, TypeOK
  <1>1. UNCHANGED <<limits, usage, redisUp, day, leaseLost, ceiling, holder>> /\ Step(r) /\ request[r].pc = "status"
    BY DEF ReadStatusLimits, environment, history, Step
  <1>2. PICK x : x = [request[r] EXCEPT !.status = limits, !.pc = "daily"]
    OBVIOUS
  <1>3. request' = [request EXCEPT ![r] = x]
    BY <1>2 DEF ReadStatusLimits
  <1>4. x \in RequestState /\ x.pc = "daily" /\ x.status = limits /\ x.limits = request[r].limits /\ x.used = request[r].used
        /\ x.op = request[r].op
    BY <1>0, <1>2 DEF RequestState
  <1>5. GoesTo(request[r], x)
    BY <1>0, <1>1, <1>4 DEF GoesTo, CanRecord
  <1>6. Judged(x)'
    BY <1>0, <1>1, <1>4 DEF Judged, BudgetInv, CeilingCovers
  <1>7. Measured(x)
    BY <1>4 DEF Measured
  <1> QED
    BY <1>1, <1>3, <1>5, <1>6, <1>7, RequestGoes DEF BudgetInv, BudgetTypes, TypeOK, CeilingCovers

\* What a reservation reads covers what was reserved.
LEMMA WindowCovers ==
  ASSUME BudgetTypes, NEW a
  PROVE  /\ TotalOf(spent, ReservedOn(day)) <= CostOf(InWindow("daily", a))
         /\ TotalOf(spent, Reserved) <= CostOf(InWindow("monthly", a))
         /\ TotalOf(spent, ReservedBy(day, a)) <= CostOf(InWindow("agent", a))
         /\ \A w : CostOf(InWindow(w, a)) \in Nat
  <1>1. \A w : InWindow(w, a) \subseteq Recorded
    BY DEF InWindow
  <1>2. ASSUME NEW S, NEW R, S \subseteq Recorded, R \subseteq S PROVE TotalOf(spent, R) <= CostOf(S)
    <2>1. CostOf(S) = TotalOf(spent, S) /\ IsFiniteSet(S) /\ \A s \in S : spent[s] \in Nat
      BY <1>2, CostIsTotal
    <2>2. TotalOf(spent, R) <= TotalOf(spent, S)
      BY <1>2, <2>1, TotalOfPart
    <2> QED
      BY <2>1, <2>2
  <1>3. ReservedOn(day) \subseteq InWindow("daily", a) /\ Reserved \subseteq InWindow("monthly", a)
        /\ ReservedBy(day, a) \subseteq InWindow("agent", a)
    BY DEF ReservedOn, Reserved, ReservedBy, InWindow
  <1>4. \A w : CostOf(InWindow(w, a)) \in Nat
    BY <1>1, CostIsTotal
  <1> QED
    BY <1>1, <1>2, <1>3, <1>4

\* Reading usage: the reservation goes on to the next window, or to record what fits, or away.
LEMMA UsageKept == ASSUME BudgetInv, NEW r \in Requests, ReadUsage(r) PROVE BudgetInv'
  <1>1. UNCHANGED <<limits, usage, redisUp, day, leaseLost, ceiling, holder>> /\ Step(r)
        /\ request[r].pc \in {"daily", "monthly", "agent"}
    BY DEF ReadUsage, environment, history, Step
  <1>2. PICK q : q = request[r]
    OBVIOUS
  <1>3. q \in RequestState /\ (\A w \in {"daily", "monthly", "agent"} : q.used[w] \in Nat) /\ q.pc \in CanRecord /\ Judged(q)
    BY <1>1, <1>2 DEF BudgetInv, BudgetTypes, TypeOK, CanRecord
  <1>4. PICK w \in {"daily", "monthly", "agent"} : w = q.pc
    BY <1>1, <1>2
  <1>5. PICK n \in Nat : n = CostOf(InWindow(w, q.agent))
    BY WindowCovers DEF BudgetInv
  <1>6. PICK pc \in {"monthly", "agent", "decide"} : pc = AfterWindow(r)
    BY DEF AfterWindow
  <1>7. pc = "decide" => w = "agent" \/ (w = "monthly" /\ q.agent = NoAgent)
    BY <1>1, <1>2, <1>4, <1>6 DEF AfterWindow
  <1>8. (pc = "monthly" => w = "daily") /\ (pc = "agent" => w = "monthly")
    BY <1>1, <1>2, <1>4, <1>6 DEF AfterWindow
  <1>9. PICK y : y = [q EXCEPT !.used[w] = n, !.pc = pc]
    OBVIOUS
  <1>10. /\ y.op = q.op /\ y.pc = pc /\ y.agent = q.agent /\ y.cost = q.cost /\ y.field = q.field
         /\ y.limits = q.limits /\ y.status = q.status
         /\ y.used = [q.used EXCEPT ![w] = n]
         /\ y = [op |-> q.op, pc |-> pc, agent |-> q.agent, cost |-> q.cost, field |-> q.field,
                 limits |-> q.limits, status |-> q.status, used |-> [q.used EXCEPT ![w] = n]]
    BY <1>3, <1>9 DEF RequestState
  <1>11. /\ y.used \in [{"daily", "monthly", "agent"} -> Int] /\ \A v \in {"daily", "monthly", "agent"} : y.used[v] \in Nat
         /\ y.used[w] = n /\ \A v \in {"daily", "monthly", "agent"} \ {w} : y.used[v] = q.used[v]
    <2>1. q.used \in [{"daily", "monthly", "agent"} -> Int]
      BY <1>3 DEF RequestState
    <2> QED
      BY <1>3, <1>10, <2>1
  <1>12. PICK d \in {"monthly", "agent", "record", "releaseDenied", "denied"} :
           /\ d = IF pc # "decide" THEN pc ELSE IF Allowed(y) THEN "record"
                  ELSE IF RedisEnabled THEN "releaseDenied" ELSE "denied"
    BY <1>6
  <1>13. PICK x : x = [y EXCEPT !.pc = d]
    OBVIOUS
  <1>14. /\ x.op = q.op /\ x.pc = d /\ x.agent = q.agent /\ x.cost = q.cost
         /\ x.limits = q.limits /\ x.status = q.status /\ x.used = y.used /\ x \in RequestState
    BY <1>3, <1>10, <1>11, <1>13 DEF RequestState
  <1>15. pc # "decide" => x = y
    BY <1>10, <1>12, <1>13
  <1>16. request' = [request EXCEPT ![r] = x]
    <2>1. y = [request[r] EXCEPT !.used[w] = CostOf(InWindow(w, request[r].agent)), !.pc = AfterWindow(r)]
      BY <1>2, <1>5, <1>6, <1>9
    <2>2. request' = [request EXCEPT ![r] =
             IF y.pc # "decide" THEN y
             ELSE IF Allowed(y) THEN [y EXCEPT !.pc = "record"]
             ELSE [y EXCEPT !.pc = IF RedisEnabled THEN "releaseDenied" ELSE "denied"]]
      BY <1>2, <1>4, <2>1 DEF ReadUsage
    <2> QED
      BY <1>10, <1>12, <1>13, <1>15, <2>2
  <1>17. GoesTo(q, x)
    BY <1>3, <1>11, <1>12, <1>14 DEF GoesTo
  <1>18. Judged(x)'
    <2>1. Judged(x)
      BY <1>1, <1>2, <1>3, <1>14 DEF Judged
    <2> QED
      BY <1>1, <2>1 DEF Judged
  <1>19. ASSUME x.op = "reserve", MayReserve(r) => Measured(q) PROVE Measured(x)
    <2>1. Measured(q)
      BY <1>1, <1>2, <1>14, <1>19 DEF MayReserve, InCriticalSection
    <2>2. d \in {"monthly", "agent", "record"} => TotalOf(spent, ReservedOn(day)) <= x.used["daily"]
      <3>1. CASE w = "daily"
        BY <1>5, <1>11, <1>14, <3>1, WindowCovers DEF BudgetInv
      <3>2. CASE w # "daily"
        BY <1>4, <1>11, <1>14, <2>1, <3>2 DEF Measured
      <3> QED
        BY <3>1, <3>2
    <2>3. d \in {"agent", "record"} => TotalOf(spent, Reserved) <= x.used["monthly"]
      <3>1. CASE w = "monthly"
        BY <1>5, <1>11, <1>14, <3>1, WindowCovers DEF BudgetInv
      <3>2. CASE w = "agent"
        BY <1>4, <1>11, <1>14, <2>1, <3>2 DEF Measured
      <3>3. CASE w = "daily"
        BY <1>6, <1>7, <1>8, <1>12, <3>3
      <3> QED
        BY <3>1, <3>2, <3>3
    <2>4. ASSUME d = "record" PROVE /\ x.used["daily"] + x.cost <= ceiling["daily"]
                                    /\ x.used["monthly"] + x.cost <= ceiling["monthly"]
                                    /\ x.agent # NoAgent => /\ TotalOf(spent, ReservedBy(day, x.agent)) <= x.used["agent"]
                                                            /\ x.used["agent"] + x.cost <= ceiling["agent"]
      <3>1. pc = "decide" /\ Allowed(y)
        BY <1>6, <1>12, <2>4
      <3>2. /\ q.status \in Limits /\ q.limits \in Limits /\ ceiling \in Limits
            /\ \A f \in Fields : q.status[f] <= ceiling[f] /\ q.limits[f] <= ceiling[f]
        BY <1>1, <1>2, <1>3, <1>14, <1>19 DEF Judged, BudgetInv, BudgetTypes, TypeOK
      <3>3. x.cost \in Nat /\ \A v \in {"daily", "monthly", "agent"} : x.used[v] \in Nat
        BY <1>11, <1>14 DEF RequestState
      <3>4. /\ x.used["daily"] + x.cost <= q.status["daily"] /\ x.used["monthly"] + x.cost <= q.status["monthly"]
            /\ x.agent # NoAgent => x.used["agent"] + x.cost <= q.limits["agent"]
        BY <1>10, <1>14, <3>1 DEF Allowed, Covers
      <3>5. /\ q.status["daily"] \in Nat /\ q.status["monthly"] \in Nat /\ q.limits["agent"] \in Nat
            /\ ceiling["daily"] \in Nat /\ ceiling["monthly"] \in Nat /\ ceiling["agent"] \in Nat
            /\ q.status["daily"] <= ceiling["daily"] /\ q.status["monthly"] <= ceiling["monthly"]
            /\ q.limits["agent"] <= ceiling["agent"]
        BY <3>2 DEF Limits, Fields
      <3>6. ASSUME x.agent # NoAgent PROVE TotalOf(spent, ReservedBy(day, x.agent)) <= x.used["agent"]
        <4>1. w = "agent"
          BY <1>7, <1>14, <3>1, <3>6
        <4> QED
          BY <1>5, <1>11, <1>14, <4>1, WindowCovers DEF BudgetInv
      <3>7. x.used["daily"] + x.cost <= ceiling["daily"] /\ x.used["monthly"] + x.cost <= ceiling["monthly"]
        BY <3>3, <3>4, <3>5
      <3>8. x.agent # NoAgent => x.used["agent"] + x.cost <= ceiling["agent"]
        BY <3>3, <3>4, <3>5
      <3> QED
        BY <3>6, <3>7, <3>8
    <2> QED
      BY <1>14, <2>2, <2>3, <2>4 DEF Measured
  <1> QED
    BY <1>1, <1>2, <1>16, <1>17, <1>18, <1>19, RequestGoes DEF BudgetInv, BudgetTypes, TypeOK, CeilingCovers

\* What recording does to the sums.
LEMMA Recording ==
  ASSUME BudgetTypes, NEW r \in Requests, RecordUsage(r)
  PROVE  /\ r \notin Recorded /\ Recorded' = Recorded \cup {r}
         /\ usage'[r] \in Record /\ usage'[r].day = day /\ usage'[r].agent = request[r].agent
         /\ usage'[r].cost = request[r].cost /\ (usage'[r].reserved <=> request[r].op = "reserve")
         /\ usage' \in [Requests -> Record \cup {None}]
         /\ \A s \in Requests \ {r} : usage'[s] = usage[s]
         /\ \A S : S \subseteq Recorded => TotalOf(spent', S) = TotalOf(spent, S)
         /\ \A S : S \subseteq Recorded => TotalOf(spent', S \cup {r}) = request[r].cost + TotalOf(spent, S)
  <1>1. request[r] \in RequestState /\ usage \in [Requests -> Record \cup {None}] /\ request[r].pc = "record" /\ day \in 1 .. MaxDay
    BY DEF BudgetTypes, TypeOK, RecordUsage
  <1>2. PICK x : x = [agent |-> request[r].agent, cost |-> request[r].cost, day |-> day,
                      reserved |-> request[r].op = "reserve"]
    OBVIOUS
  <1>3. x \in Record /\ x.agent = request[r].agent /\ x.cost = request[r].cost /\ x.day = day
        /\ (x.reserved <=> request[r].op = "reserve")
    BY <1>1, <1>2 DEF Record, RequestState
  <1>4. usage' = [usage EXCEPT ![r] = x]
    BY <1>2 DEF RecordUsage
  <1>5. usage'[r] = x /\ \A s \in Requests \ {r} : usage'[s] = usage[s]
    BY <1>1, <1>4
  <1>6. usage[r] = None
    BY <1>1 DEF BudgetTypes, CanRecord
  <1>7. x # None
    BY <1>3, NoneAssumption
  <1>8. r \notin Recorded /\ Recorded' = Recorded \cup {r}
    BY <1>5, <1>6, <1>7 DEF Recorded
  <1>9. \A s \in Recorded : s \in Requests /\ s # r /\ spent'[s] = spent[s]
    BY <1>5, <1>8 DEF spent, Recorded
  <1>10. spent'[r] = request[r].cost /\ spent'[r] \in Nat
    BY <1>1, <1>3, <1>5, <1>7 DEF spent, RequestState
  <1>11. ASSUME NEW S, S \subseteq Recorded
         PROVE  TotalOf(spent', S) = TotalOf(spent, S) /\ TotalOf(spent', S \cup {r}) = request[r].cost + TotalOf(spent, S)
    <2>1. IsFiniteSet(S) /\ \A s \in S : spent[s] \in Nat
      BY <1>11, CostIsTotal
    <2>2. TotalOf(spent', S) = TotalOf(spent, S)
      BY <1>9, <1>11, TotalSame
    <2>3. TotalOf(spent', S \cup {r}) = spent'[r] + TotalOf(spent', S)
      BY <1>8, <1>9, <1>10, <1>11, <2>1, TotalWith
    <2> QED
      BY <1>10, <2>2, <2>3
  <1>12. usage' \in [Requests -> Record \cup {None}]
    BY <1>1, <1>3, <1>4
  <1> QED
    BY <1>3, <1>5, <1>8, <1>11, <1>12

\* Recording keeps the types,
LEMMA RecordTypes == ASSUME BudgetInv, NEW r \in Requests, RecordUsage(r) PROVE BudgetTypes' /\ request'[r].pc \in {"releaseAllowed", "allowed"}
                                              /\ \A s \in Requests \ {r} : request'[s] = request[s]
  <1>1. /\ request[r] \in RequestState /\ request \in [Requests -> RequestState] /\ request[r].pc = "record"
        /\ \A w \in {"daily", "monthly", "agent"} : request[r].used[w] \in Nat
    BY DEF BudgetInv, BudgetTypes, TypeOK, RecordUsage
  <1>2. PICK pc \in {"releaseAllowed", "allowed"} : Goto(r, pc)
    BY DEF RecordUsage
  <1>3. PICK x : x = [request[r] EXCEPT !.pc = pc]
    OBVIOUS
  <1>4. GoesTo(request[r], x) /\ x.pc = pc
    BY <1>1, <1>2, <1>3, Went DEF CanRecord
  <1>5. request' = [request EXCEPT ![r] = x]
    BY <1>2, <1>3 DEF Goto
  <1>6. request'[r] = x /\ \A s \in Requests \ {r} : request'[s] = request[s]
    BY <1>1, <1>5
  <1>7. UNCHANGED <<limits, holder, redisUp, day, leaseLost, ceiling>>
    BY DEF RecordUsage, environment, history
  <1>8. TypeOK'
    BY <1>1, <1>4, <1>5, <1>7, Recording DEF BudgetInv, BudgetTypes, TypeOK, GoesTo
  <1>9. IsFiniteSet(Recorded)'
    BY Recording, FS_AddElement DEF BudgetInv, BudgetTypes
  <1>10. \A s \in Recorded' : usage'[s].day <= day'
    BY <1>7, Recording DEF BudgetInv, BudgetTypes, TypeOK, Recorded
  <1>11. \A s \in Requests : request'[s].pc \in CanRecord => usage'[s] = None
    BY <1>2, <1>4, <1>6, Recording DEF BudgetInv, BudgetTypes, CanRecord
  <1> QED
    BY <1>2, <1>4, <1>6, <1>8, <1>9, <1>10, <1>11 DEF BudgetInv, BudgetTypes, GoesTo

\* and, as the reservation had measured, the budget.
LEMMA RecordKept == ASSUME BudgetInv, NEW r \in Requests, RecordUsage(r) PROVE BudgetInv'
  <1>0. IInv' /\ UNCHANGED <<limits, holder, redisUp, day, leaseLost, ceiling>>
    BY RequestPreserves DEF BudgetInv, RecordUsage, environment, history, Step
  <1>1. BudgetTypes' /\ request'[r].pc \in {"releaseAllowed", "allowed"} /\ \A s \in Requests \ {r} : request'[s] = request[s]
    BY RecordTypes
  <1>2. CeilingCovers'
    BY <1>0 DEF BudgetInv, CeilingCovers
  <1>3. \A s \in Requests : Judged(request[s])'
    BY <1>0, <1>1 DEF BudgetInv, Judged
  <1>4. Reserved \subseteq Recorded /\ (\A d : ReservedOn(d) \subseteq Recorded) /\ \A d, a : ReservedBy(d, a) \subseteq Recorded
    BY DEF Reserved, ReservedOn, ReservedBy
  <1>5. ASSUME RedisEnabled, ~leaseLost, request[r].op = "reserve"
        PROVE  TotalsWithin' /\ \A s \in Requests : MayReserve(s)' => Measured(request[s])'
    <2>1. MayReserve(r) /\ Measured(request[r]) /\ request[r].pc = "record"
      BY <1>5 DEF BudgetInv, MayReserve, InCriticalSection, RecordUsage
    <2>2. \A s \in Requests \ {r} : ~MayReserve(s)
      BY <1>5, <2>1 DEF BudgetInv, IInv, HoldersReserve
    <2>3. \A s \in Requests : MayReserve(s)' => s = r
      BY <1>1, <2>2 DEF MayReserve, InCriticalSection
    <2>4. Measured(request[r])'
      BY <1>1 DEF Measured
    <2>5. /\ Reserved' = Reserved \cup {r}
          /\ \A d : ReservedOn(d)' = IF d = day THEN ReservedOn(d) \cup {r} ELSE ReservedOn(d)
          /\ \A d, a : ReservedBy(d, a)' = IF d = day /\ a = request[r].agent THEN ReservedBy(d, a) \cup {r} ELSE ReservedBy(d, a)
      BY <1>5, Recording DEF BudgetInv, Reserved, ReservedOn, ReservedBy, Recorded
    <2>6. PICK q : q = request[r]
      OBVIOUS
    <2>7. /\ q.cost \in Nat /\ (\A w \in {"daily", "monthly", "agent"} : q.used[w] \in Nat)
          /\ ceiling["daily"] \in Nat /\ ceiling["monthly"] \in Nat /\ ceiling["agent"] \in Nat
      BY <2>6 DEF BudgetInv, BudgetTypes, TypeOK, RequestState, Limits, Fields
    <2>8. \A S : S \subseteq Recorded => TotalOf(spent, S) \in Nat
      BY CostIsTotal DEF BudgetInv
    <2>9. TotalOf(spent', Reserved \cup {r}) <= ceiling["monthly"]
      <3>1. TotalOf(spent', Reserved \cup {r}) = q.cost + TotalOf(spent, Reserved)
        BY <1>4, <2>6, Recording DEF BudgetInv
      <3>2. TotalOf(spent, Reserved) <= q.used["monthly"] /\ q.used["monthly"] + q.cost <= ceiling["monthly"]
        BY <2>1, <2>6 DEF Measured
      <3> QED
        BY <1>4, <2>7, <2>8, <3>1, <3>2
    <2>10. TotalOf(spent', ReservedOn(day) \cup {r}) <= ceiling["daily"]
      <3>1. TotalOf(spent', ReservedOn(day) \cup {r}) = q.cost + TotalOf(spent, ReservedOn(day))
        BY <1>4, <2>6, Recording DEF BudgetInv
      <3>2. TotalOf(spent, ReservedOn(day)) <= q.used["daily"] /\ q.used["daily"] + q.cost <= ceiling["daily"]
        BY <2>1, <2>6 DEF Measured
      <3> QED
        BY <1>4, <2>7, <2>8, <3>1, <3>2
    <2>11. ASSUME q.agent \in Agents PROVE TotalOf(spent', ReservedBy(day, q.agent) \cup {r}) <= ceiling["agent"]
      <3>1. TotalOf(spent', ReservedBy(day, q.agent) \cup {r}) = q.cost + TotalOf(spent, ReservedBy(day, q.agent))
        BY <1>4, <2>6, Recording DEF BudgetInv
      <3>2. TotalOf(spent, ReservedBy(day, q.agent)) <= q.used["agent"] /\ q.used["agent"] + q.cost <= ceiling["agent"]
        BY <2>1, <2>6, <2>11, NoneAssumption DEF Measured
      <3> QED
        BY <1>4, <2>7, <2>8, <3>1, <3>2
    <2>12. \A S : S \subseteq Recorded => TotalOf(spent', S) = TotalOf(spent, S)
      BY Recording DEF BudgetInv
    <2>13. TotalsWithin
      BY <1>5 DEF BudgetInv
    <2>14. TotalOf(spent, Reserved)' <= ceiling'["monthly"]
      BY <1>0, <2>5, <2>9
    <2>15. ASSUME NEW d \in 1 .. MaxDay PROVE TotalOf(spent, ReservedOn(d))' <= ceiling'["daily"]
      <3>1. TotalOf(spent', ReservedOn(d)) <= ceiling["daily"]
        BY <1>4, <2>12, <2>13 DEF TotalsWithin
      <3> QED
        BY <1>0, <2>5, <2>10, <3>1
    <2>16. ASSUME NEW d \in 1 .. MaxDay, NEW a \in Agents PROVE TotalOf(spent, ReservedBy(d, a))' <= ceiling'["agent"]
      <3>1. TotalOf(spent', ReservedBy(d, a)) <= ceiling["agent"]
        BY <1>4, <2>12, <2>13 DEF TotalsWithin
      <3> QED
        BY <1>0, <2>5, <2>6, <2>11, <3>1
    <2>17. TotalsWithin'
      BY <2>14, <2>15, <2>16 DEF TotalsWithin
    <2> QED
      BY <2>3, <2>4, <2>17
  <1>6. ASSUME RedisEnabled, ~leaseLost, request[r].op # "reserve"
        PROVE  TotalsWithin' /\ \A s \in Requests : MayReserve(s)' => Measured(request[s])'
    <2>1. /\ Reserved' = Reserved /\ (\A d : ReservedOn(d)' = ReservedOn(d))
          /\ \A d, a : ReservedBy(d, a)' = ReservedBy(d, a)
      BY <1>6, Recording DEF BudgetInv, Reserved, ReservedOn, ReservedBy, Recorded
    <2>2. \A S : S \subseteq Recorded => TotalOf(spent', S) = TotalOf(spent, S)
      BY Recording DEF BudgetInv
    <2>3. /\ TotalOf(spent, Reserved)' = TotalOf(spent, Reserved)
          /\ \A d : TotalOf(spent, ReservedOn(d))' = TotalOf(spent, ReservedOn(d))
          /\ \A d, a : TotalOf(spent, ReservedBy(d, a))' = TotalOf(spent, ReservedBy(d, a))
      BY <1>4, <2>1, <2>2
    <2>4. TotalsWithin'
      BY <1>0, <1>6, <2>3 DEF BudgetInv, TotalsWithin
    <2>5. ASSUME NEW s \in Requests, MayReserve(s)' PROVE Measured(request[s])'
      <3>1. CASE s = r
        BY <1>1, <3>1 DEF Measured
      <3>2. CASE s # r
        <4>1. request'[s] = request[s] /\ MayReserve(s)
          BY <1>1, <2>5, <3>2 DEF MayReserve, InCriticalSection
        <4>2. Measured(request[s])
          BY <1>6, <4>1 DEF BudgetInv
        <4>3. /\ TotalOf(spent, ReservedOn(day))' = TotalOf(spent, ReservedOn(day))
              /\ TotalOf(spent, ReservedBy(day, request[s].agent))' = TotalOf(spent, ReservedBy(day, request[s].agent))
          BY <1>0, <2>3, <4>1
        <4> QED
          BY <1>0, <2>3, <4>1, <4>2, <4>3 DEF Measured
      <3> QED
        BY <3>1, <3>2
    <2> QED
      BY <2>4, <2>5
  <1> QED
    BY <1>0, <1>1, <1>2, <1>3, <1>5, <1>6 DEF BudgetInv

\* An administrator's write raises the ceiling, or does not.
LEMMA LimitsKept == ASSUME BudgetInv, NEW r \in Requests, WriteBudget(r) PROVE BudgetInv'
  <1>0. IInv' /\ UNCHANGED <<usage, holder, redisUp, day, leaseLost>>
    BY RequestPreserves DEF BudgetInv, WriteBudget, environment, Step
  <1>1. /\ request[r] \in RequestState /\ request \in [Requests -> RequestState] /\ request[r].pc = "writeBudget"
        /\ limits' = request[r].limits /\ limits' \in Limits /\ ceiling \in Limits
        /\ \A w \in {"daily", "monthly", "agent"} : request[r].used[w] \in Nat
    BY DEF BudgetInv, BudgetTypes, TypeOK, WriteBudget
  <1>2. PICK x : x = [request[r] EXCEPT !.pc = "done"]
    OBVIOUS
  <1>3. GoesTo(request[r], x) /\ x.pc = "done"
    BY <1>1, <1>2, Went DEF CanRecord
  <1>4. request' = [request EXCEPT ![r] = x]
    BY <1>2 DEF Goto, WriteBudget
  <1>5. request'[r] = x /\ \A s \in Requests \ {r} : request'[s] = request[s]
    BY <1>1, <1>4
  <1>6. ceiling' \in Limits /\ \A f \in Fields : ceiling[f] <= ceiling'[f] /\ limits'[f] <= ceiling'[f]
    BY <1>1 DEF WriteBudget, Higher, Limits
  <1>7. limits' # None
    BY <1>1, NoneAssumption
  <1>8. TypeOK'
    BY <1>0, <1>1, <1>3, <1>4, <1>6 DEF BudgetInv, BudgetTypes, TypeOK, GoesTo
  <1>9. BudgetTypes'
    <2>1. \A s \in Requests : \A w \in {"daily", "monthly", "agent"} : request'[s].used[w] \in Nat
      BY <1>3, <1>5 DEF BudgetInv, BudgetTypes, GoesTo
    <2>2. \A s \in Requests : request'[s].pc = "writeBudget" => request'[s].limits \in Limits
      BY <1>3, <1>5 DEF BudgetInv, BudgetTypes, GoesTo
    <2>3. \A s \in Requests : request'[s].pc \in CanRecord => usage'[s] = None
      BY <1>0, <1>3, <1>5 DEF BudgetInv, BudgetTypes, CanRecord
    <2>4. Recorded' = Recorded
      BY <1>0 DEF Recorded
    <2> QED
      BY <1>0, <1>8, <2>1, <2>2, <2>3, <2>4 DEF BudgetInv, BudgetTypes
  <1>10. \A b \in Limits : (\A f \in Fields : b[f] <= ceiling[f]) => \A f \in Fields : b[f] <= ceiling'[f]
    BY <1>1, <1>6 DEF Limits
  <1>11. CeilingCovers'
    BY <1>6, <1>7, <1>10, NumberAssumption DEF BudgetInv, CeilingCovers, Limits
  <1>12. ASSUME NEW s \in Requests PROVE Judged(request[s])'
    <2>1. CASE s = r
      BY <1>3, <1>5, <2>1 DEF Judged
    <2>2. CASE s # r
      BY <1>5, <1>7, <1>10, <2>2 DEF BudgetInv, Judged
    <2> QED
      BY <2>1, <2>2
  <1>13. ASSUME RedisEnabled, ~leaseLost'
         PROVE TotalsWithin' /\ \A s \in Requests : MayReserve(s)' => Measured(request[s])'
    <2>0. TotalsWithin /\ \A s \in Requests : MayReserve(s) => Measured(request[s])
      BY <1>0, <1>13 DEF BudgetInv
    <2>1. \A S : S \subseteq Recorded => TotalOf(spent, S) \in Nat
      BY CostIsTotal DEF BudgetInv
    <2>2. Reserved \subseteq Recorded /\ (\A d : ReservedOn(d) \subseteq Recorded) /\ \A d, a : ReservedBy(d, a) \subseteq Recorded
      BY DEF Reserved, ReservedOn, ReservedBy
    <2>3. /\ TotalOf(spent, Reserved)' = TotalOf(spent, Reserved)
          /\ \A d : TotalOf(spent, ReservedOn(d))' = TotalOf(spent, ReservedOn(d))
          /\ \A d, a : TotalOf(spent, ReservedBy(d, a))' = TotalOf(spent, ReservedBy(d, a))
      BY <1>0 DEF Reserved, ReservedOn, ReservedBy, Recorded, spent
    <2>4. \A n \in Int : \A f \in Fields : n <= ceiling[f] => n <= ceiling'[f]
      BY <1>1, <1>6 DEF Limits
    <2>5. {"daily", "monthly", "agent"} \subseteq Fields
      BY DEF Fields
    <2>6. TotalsWithin'
      BY <2>0, <2>1, <2>2, <2>3, <2>4, <2>5 DEF TotalsWithin
    <2>7. ASSUME NEW s \in Requests, MayReserve(s)' PROVE Measured(request[s])'
      <3>1. s # r /\ request'[s] = request[s]
        BY <1>3, <1>5, <2>7 DEF MayReserve, InCriticalSection
      <3>2. Measured(request[s])
        BY <2>0, <2>7, <3>1 DEF MayReserve, InCriticalSection
      <3>3. PICK q : q = request[s]
        OBVIOUS
      <3>4. q.cost \in Nat /\ \A w \in {"daily", "monthly", "agent"} : q.used[w] \in Nat
        BY <3>3 DEF BudgetInv, BudgetTypes, TypeOK, RequestState
      <3>5. \A w \in {"daily", "monthly", "agent"} : q.used[w] + q.cost <= ceiling[w] => q.used[w] + q.cost <= ceiling'[w]
        BY <2>4, <2>5, <3>4
      <3>6. Measured(q)'
        BY <1>0, <2>3, <3>2, <3>3, <3>5 DEF Measured
      <3>7. Measured(request[s])' <=> Measured(q)'
        BY <3>1, <3>3 DEF Measured
      <3> QED
        BY <3>6, <3>7
    <2> QED
      BY <2>6, <2>7
  <1> QED
    BY <1>0, <1>9, <1>11, <1>12, <1>13 DEF BudgetInv

\* The day ends, Redis fails or returns, a lease expires.
LEMMA SurroundingsKept == ASSUME BudgetInv, NextDay \/ RedisFailsOrReturns \/ LeaseExpires \/ UNCHANGED vars PROVE BudgetInv'
  <1>0. IInv'
    BY StepPreserves DEF BudgetInv, Next
  <1>1. UNCHANGED <<limits, usage, request, ceiling>> /\ (leaseLost => leaseLost')
    <2>1. CASE NextDay \/ RedisFailsOrReturns
      BY <2>1 DEF NextDay, RedisFailsOrReturns, history
    <2>2. CASE LeaseExpires
      BY <2>2 DEF LeaseExpires
    <2>3. CASE UNCHANGED vars
      BY <2>3 DEF vars
    <2> QED
      BY <2>1, <2>2, <2>3
  <1>2. day' = day \/ (NextDay /\ day' = day + 1)
    BY DEF NextDay, RedisFailsOrReturns, LeaseExpires, vars, history, environment
  <1>3. day \in Nat /\ day <= day' /\ day' \in 1 .. MaxDay
    BY <1>2, NumberAssumption DEF BudgetInv, BudgetTypes, TypeOK, NextDay
  <1>4. redisUp' \in BOOLEAN /\ leaseLost' \in BOOLEAN /\ holder' \in Requests \cup {None}
    BY DEF NextDay, RedisFailsOrReturns, LeaseExpires, vars, history, environment, BudgetInv, BudgetTypes, TypeOK
  <1>5. Recorded' = Recorded /\ \A s \in Recorded : usage[s].day \in Nat
    BY <1>1 DEF Recorded, BudgetInv, BudgetTypes, TypeOK, Record
  <1>6. BudgetTypes'
    BY <1>1, <1>3, <1>4, <1>5 DEF BudgetInv, BudgetTypes, TypeOK
  <1>7. CeilingCovers' /\ \A s \in Requests : Judged(request[s])'
    BY <1>1 DEF BudgetInv, CeilingCovers, Judged
  <1>8. ASSUME RedisEnabled, ~leaseLost'
        PROVE TotalsWithin' /\ \A s \in Requests : MayReserve(s)' => Measured(request[s])'
    <2>0. TotalsWithin /\ \A s \in Requests : MayReserve(s) => Measured(request[s])
      BY <1>1, <1>8 DEF BudgetInv
    <2>1. TotalsWithin'
      BY <1>1, <2>0 DEF TotalsWithin, Reserved, ReservedOn, ReservedBy, Recorded, spent
    <2>2. ASSUME NEW s \in Requests, MayReserve(s)' PROVE Measured(request[s])'
      <3>1. Measured(request[s]) /\ request'[s] = request[s]
        BY <1>1, <2>0, <2>2 DEF MayReserve, InCriticalSection
      <3>2. CASE day' = day
        BY <1>1, <3>1, <3>2 DEF Measured, Reserved, ReservedOn, ReservedBy, Recorded, spent
      <3>3. CASE day' = day + 1
        <4>1. ReservedOn(day)' = {} /\ \A a : ReservedBy(day, a)' = {}
          BY <1>1, <1>3, <1>5, <3>3 DEF Reserved, ReservedOn, ReservedBy, BudgetInv, BudgetTypes
        <4>2. TotalOf(spent, ReservedOn(day))' = 0 /\ TotalOf(spent, ReservedBy(day, request[s].agent))' = 0
          BY <4>1, TotalOfNone
        <4>3. TotalOf(spent, Reserved)' = TotalOf(spent, Reserved)
          BY <1>1 DEF Reserved, Recorded, spent
        <4>4. \A w \in {"daily", "monthly", "agent"} : request[s].used[w] \in Nat
          BY DEF BudgetInv, BudgetTypes
        <4>5. 0 <= request[s].used["daily"] /\ 0 <= request[s].used["agent"]
          BY <4>4
        <4> QED
          BY <1>1, <3>1, <4>2, <4>3, <4>5 DEF Measured
      <3> QED
        BY <1>2, <3>2, <3>3
    <2> QED
      BY <2>1, <2>2
  <1> QED
    BY <1>0, <1>6, <1>7, <1>8 DEF BudgetInv

\* Before the first call nothing is reserved,
LEMMA BudgetStarts == Init => BudgetInv
  <1> SUFFICES ASSUME Init PROVE BudgetInv
    OBVIOUS
  <1>1. Recorded = {} /\ Reserved = {} /\ (\A d : ReservedOn(d) = {}) /\ \A d, a : ReservedBy(d, a) = {}
    BY DEF Init, Recorded, Reserved, ReservedOn, ReservedBy
  <1>2. BudgetTypes
    <2>1. TypeOK
      <3>1. request \in [Requests -> RequestState]
        BY IdleState DEF Init
      <3>2. usage \in [Requests -> Record \cup {None}] /\ limits \in Limits \cup {None}
            /\ holder \in Requests \cup {None} /\ redisUp \in BOOLEAN /\ leaseLost \in BOOLEAN
        BY DEF Init
      <3>3. ceiling \in Limits
        BY NumberAssumption DEF Init, Limits
      <3>4. day \in 1 .. MaxDay
        BY NumberAssumption DEF Init
      <3> QED
        BY <3>1, <3>2, <3>3, <3>4 DEF TypeOK
    <2>2. IsFiniteSet(Recorded)
      BY <1>1, FS_EmptySet
    <2>3. \A r \in Requests : request[r] = Idle /\ usage[r] = None
      BY DEF Init
    <2> QED
      BY <1>1, <2>1, <2>2, <2>3, IdleState DEF BudgetTypes
  <1>3. CeilingCovers
    BY NumberAssumption DEF Init, CeilingCovers
  <1>4. \A r \in Requests : Judged(request[r]) /\ ~MayReserve(r)
    BY IdleState DEF Init, Judged, MayReserve
  <1>5. TotalsWithin
    <2>1. 0 <= ceiling["daily"] /\ 0 <= ceiling["monthly"] /\ 0 <= ceiling["agent"]
      BY NumberAssumption DEF Init, Fields
    <2> QED
      BY <1>1, <2>1, TotalOfNone DEF TotalsWithin
  <1> QED
    BY <1>2, <1>3, <1>4, <1>5, InitEstablishes DEF BudgetInv

\* every step keeps it within the budget,
LEMMA BudgetKept == BudgetInv /\ [Next]_vars => BudgetInv'
  <1>1. ASSUME BudgetInv, NEW r \in Requests, Step(r) PROVE BudgetInv'
    BY <1>1, LockKept, FindKept, StatusKept, UsageKept, RecordKept, LimitsKept DEF Step
  <1> QED
    BY <1>1, BeginKept, SurroundingsKept DEF Next

\* and the sums are those the property takes.
LEMMA BudgetShows == BudgetInv => BudgetHolds
  <1> SUFFICES ASSUME BudgetInv PROVE BudgetHolds
    OBVIOUS
  <1>1. TypeOK
    BY DEF BudgetInv, BudgetTypes
  <1>2. ASSUME RedisEnabled, ~leaseLost PROVE WithinBudget
    <2>1. TotalsWithin
      BY <1>2 DEF BudgetInv
    <2>2. CostOf(Reserved) = TotalOf(spent, Reserved)
      BY CostIsTotal DEF BudgetInv, Reserved
    <2>3. \A d : CostOf(ReservedOn(d)) = TotalOf(spent, ReservedOn(d))
      BY CostIsTotal DEF BudgetInv, Reserved, ReservedOn
    <2>4. \A d, a : CostOf(ReservedBy(d, a)) = TotalOf(spent, ReservedBy(d, a))
      BY CostIsTotal DEF BudgetInv, Reserved, ReservedBy
    <2>5. /\ \A d \in 1 .. MaxDay : /\ CostOf(ReservedOn(d)) <= ceiling["daily"]
                                    /\ \A a \in Agents : CostOf(ReservedBy(d, a)) <= ceiling["agent"]
          /\ CostOf(Reserved) <= ceiling["monthly"]
      BY <2>1, <2>2, <2>3, <2>4 DEF TotalsWithin
    <2> QED
      BY <2>5 DEF WithinBudget, ReservedOn, ReservedBy
  <1> QED
    BY <1>1, <1>2 DEF BudgetHolds, ReservedWithinBudget

\* evaluateBudgetAvailability and reserveAndRecordUsage: as long as no lease is lost, what is
\* reserved on a day, in the month and by an agent on a day never exceeds the highest limit
\* there has been, whatever is recorded without the lock, configured or overtaken by midnight
\* (ai-budget.service.ts:107-293).
THEOREM BudgetAlwaysHolds == Spec => []BudgetHolds
  BY BudgetStarts, BudgetKept, BudgetShows, PTL DEF Spec
=============================================================================
