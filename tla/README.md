# A TLA+ model of Autonomous Enterprise

Autonomous Enterprise is a NestJS API (`apps/api`) in which business modules —
inventory, sales, procurement, finance, HR, accounting, ticketing,
infrastructure — are driven by workflows and by AI agents whose spending is
budgeted, and a web console (`apps/web`) on which operators follow and steer
them. Every module keeps its state in a repository (in memory, or PostgreSQL
through Prisma) and every handler is an `async` function. This directory holds
TLA+ modules that model these handlers one `await` at a time, the TLC runs that
check them, and TLAPS proofs about them.

## The system

One Node.js process runs all handlers on one thread: code between two `await`s
is atomic, and at every `await` any other handler may run. The in-memory
repositories return **copies** of their rows (workflow tasks excepted) and
replace whole rows when written. So the recurring shape is

    copy = await find(id)       -- check the copy
    ...                         -- change the copy
    await update(copy)          -- replace the row

and the recurring question is what still holds when two of these interleave.
In the web console the shape is the same with the network in the middle: a
handler awaits an answer that may come late, after another one, after the page
was left, or not at all, and then writes what the page shows.

| Component | State | Operations | Talks to | What is hard | What makes it correct |
|---|---|---|---|---|---|
| Inventory | stock rows, reservations, movements | reserve, cancel, count, availability | repository | lost updates, key race, double cancellation | rows never promise more than there is; reserved = sum of pending reservations; movements explain the quantity |
| Sales orders | orders with a lead | create, updateOrderStatus, assignLead, closeLead | repository | two machines (status, lead) over one row | terminal statuses stay; a lead is decided once and decides the status; an order sent again under its key is not made again |
| Order fulfillment | idempotency map | processOrderFulfillment | inventory, sales, replenishment, outbox | compensation, retries that overlap, stale status | failed holds nothing, completed holds every line, fulfilled once |
| Replenishment | – | evaluate reorder rules | inventory, procurement | repeated requests | no shortage goes unnoticed |
| AI budget | limits, usage records | check, record, reserve-and-record, set limits | Redis | check-then-record, day boundary, limits changed meanwhile | reserved usage within the limits |
| Redis lock | key with a lease | acquire, compare-and-delete | Redis server | expiry, outage, late release | one holder; only the holder releases |
| Finance | budgets, allocations, expenses | allocate, approve/reject expense | repository | whole-row writes of three fields | allocated and spent within total; rows agree with allocations and expenses |
| Procurement | suppliers, requests, orders, receipts | approve, reject, convert, revert, receive | repository | conversion and closing on copies | one order per approved request; an order whose goods came is closed |
| Purchase approval | idempotency map | processPurchaseApproval | procurement, finance, policy, outbox | approve, then allocate, then revert | approved iff funded |
| Enterprise saga | – | process | inventory, procurement, infrastructure, finance, HR, accounting, ticketing | partial compensation | a failed saga has given back its stock and its scaling |
| Accounting, financial posting | accounts, journals, invoices, payments | post, reverse, issue, pay; post by policy | repository, policy, tasks | double reversal, overpayment, two postings | one reversal; paid exactly if payments make it up; announced once |
| HRIS, overtime approval | employees, requests, deliveries | hire, clock, request, assess; decide overtime | repository, finance, conflict resolution | loads counted in copies, two approvers | couriers share the deliveries; required overtime is not rejected |
| Workflow tasks | tasks with iteration, token and time limits | create, attempt, complete, fail | ticketing | attempts that overlap at the limit | re-evaluation is bounded; one ticket per broken circuit |
| Orchestrator | – | executeGoal | tasks, registry, AI budget, routing | which answers stop it | a broken circuit stops the goal; paid once |
| Ticketing | tickets, service levels | transition, assign, respond, sweep | repository | the sweep and the handlers it overlaps | escalated is resolved only after review; clocks say what was so |
| Infrastructure scaling | scaling events | request, roll back | Kubernetes, finance, policy | recorded state against real replicas | events say what the cluster has |
| Agent registry | agents, trust profiles | register, availability, record outcome | repository | registration beside outcomes | every outcome counts once, violations for good |
| Outbox | events | append, publish pending, mark | Kafka | failing sends, overlapping publishers, restart | order kept, nothing marked that the broker lacks |
| Rate-limit supervisor, AI client | pause until, timer | 429 seen, pause, resume | provider, event stream | late 429s, timer and clock | no call while paused; every pause ends |
| Agent runtime | one run's counters | reason, call tools, stop | AI client, AI budget | abort while awaiting | every run stops within its limits |
| Simulator | running/aborting/executing flags, a timer, a cursor, seeded ids | start, stop, tick, seed, act, pulse | everything | restart during a step, seeding that fails half way, feedback of the pulse | one step at a time; no roster row twice; turns for everyone; capacity settles |
| Experiments | scenarios, runs | run, replay, sandboxed replay, compare | AI client, audit | runs read while under way, crash | finished runs and no others are audited; comparisons stay true |
| Audit, event stream | log, subscribers | record, emit | Redis | two records of one action, a connection lost | each action logged once; own listeners hear it |
| Web console | what pages show, timers, streams, layout | load, poll, listen, edit, submit | the API | answers late, lost, overtaken; pages left early | pages catch up, close down and tell the truth |

`PROJECT.json` lists every part of the repository, with the reason where it is
not modelled, and every hazard at the line where it bites.

## Modules

| Module | Models | Notes |
|---|---|---|
| `Inventory` | `inventory.service.ts`, `in-memory-inventory.repository.ts` | one action per repository operation |
| `ReservationLedger` | – | the ledger clients expect: reserve, release and count are atomic |
| `SalesOrders` | `sales.service.ts` | read and write of an order, and key look-up and creation, are separate steps |
| `OrderFulfillment` | `order-fulfillment.service.ts`, `replenishment.service.ts` | INSTANCEs `Inventory` and `SalesOrders` over the same variables |
| `AiBudget` | `ai-budget.service.ts`, `redis.service.ts` | one tenant; Redis is external |
| `RateLimit` | `rate-limit-supervisor.service.ts`, the 429 handling of `omnirouter.client.ts` and its three kinds of callers | time is the time left; `Tick` moves it |
| `AgentRuntime` | `agent-runtime.service.ts` | one action per `await` of `run` |
| `Simulator` | the loop of `simulator.service.ts` | INSTANCEs `AgentRuntime`: the abort a run sees is the simulator's own "stopped" |
| `SimulatorSteps` | `executeSimulatedStep`, the `ensure…SeedData` and `step…` functions of `simulator.service.ts` | scripted and agent mode, memory and PostgreSQL, a restart |
| `Finance` | `finance.service.ts`, `in-memory-finance.repository.ts` | read, check and write of a row are separate steps |
| `Procurement` | `procurement.service.ts` and both its repositories | a call is a handler under way |
| `PurchaseApproval` | `purchase-approval.service.ts` | EXTENDS `Finance` and `PolicyEngine`, INSTANCEs `Procurement`: the calls of a workflow are taken under its name, among those of clients |
| `PolicyEngine` | `policy-engine.service.ts`, `conflict-resolution.service.ts` | pure operators |
| `Accounting` | `accounting.service.ts` and both its repositories | a reversal is a journal of its own |
| `FinancialPosting` | `financial-posting.service.ts` | EXTENDS `Accounting` and `PolicyEngine` |
| `Ticketing` | `ticketing.service.ts` | clocks run out at any moment |
| `Hris` | `hris.service.ts` and its repositories, deliveries included | one department |
| `OvertimeApproval` | `overtime-approval.service.ts` | EXTENDS `Hris` and `PolicyEngine` |
| `WorkflowTask` | `workflow-task.service.ts` | the memory repository shares one object per task, PostgreSQL hands out copies and forgets the counters |
| `Orchestrator` | `orchestrator.service.ts`, `model-routing.service.ts` | EXTENDS `WorkflowTask` |
| `AgentRegistry` | `agent-registry.service.ts` | trust in ten thousandths, as the code rounds it |
| `Outbox` | `outbox.service.ts`, `outbox.persistence.ts`, `kafka.publisher.ts`, `kafka.consumer.ts` | the broker is a log; a publisher holds places in the outbox |
| `Infrastructure` | `infrastructure.service.ts`, `kubernetes-client.service.ts` | the cluster is external: others scale it, and calls fail |
| `EnterpriseSaga` | `enterprise-saga.service.ts` | EXTENDS `Infrastructure`; the other seven domains grant or throw |
| `CapacityLoop` | `capacity-planner.ts`, the pulse of `simulator.service.ts` | EXTENDS `Infrastructure`; loads in fifths of orders per minute: integers, exact |
| `Experiments` | `experiment.service.ts`, `sandboxed-replay.service.ts`, both repositories | a run is named after its call |
| `AuditTrail` | `audit.service.ts`, `audit.interceptor.ts`, `event-stream.service.ts`, `tenant-context.middleware.ts` | two processes and a Redis channel |
| `WebPages` | the loads, polls, streams and timers of the operations, sales, modules, finops, overview and events pages and of `TraceStream.svelte` | a page is a set of traits its script has |
| `OfficeStatus` | the control bar of the office page | the simulator and supervisor at the API move by themselves |
| `VirtualOffice` | the stage of the office page: trips, timers, the layout editor and its storage | coordinates on a small square |
| `ConsoleForms` | the console page, `ModuleForm.svelte`, the `POST`s of `lib/api.ts` | a list is one record |
| `OperatorPages` | the writing handlers of the tickets, agents, workflows and experiments pages | made-up results are kept apart from real ones |
| `MCInventory`, `MCOrderFulfillment`, `MCAiBudget` | – | instances for TLC: model values, symmetry |
| `MCBackOffice`, `MCPlatform`, `MCConsole` | – | several components, one *scene* each (below) |
| `SumTheorems` | – | lemmas about sums over finite sets |
| `Inventory_proofs`, `OrderFulfillment_proofs`, `AiBudget_proofs`, `AgentRuntime_proofs` | – | theorems about one module each |
| `BackOffice_proofs`, `Platform_proofs`, `Console_proofs` | – | theorems about the components of the `MC` module of that name, and about the module itself |

State corresponds to code as follows: a repository's map is a function from
ids to records (or `None`); an invocation of a handler is an element of
`Calls`, `Updates`, `Requests`, `Workflows`, `Desks`, `Scalers`, … whose record
holds the handler's local variables and, as `pc` or `op`, the `await` it is at.
`Begin*` actions, or those named like the handler, take the arguments a client
may send; the other actions are one repository, Redis or service operation
followed by the code up to the next `await`, including its checks and early
returns. `failed`, `refused` and `error` stand for exceptions. Where a workflow
calls another service, that service's own actions run under the workflow's name.
A variable `driver` or `storage` says which repository the process was started
with.

History variables (`raced`, `reread`, `contended`, `disturbed`, `overlapped`,
`leaseLost`, `stops`, `settled`, `spoiled`, `astray`, `hasty`, …) record what
the properties need to know about the past; no guard of a component reads them,
with one exception: `Refused` of `SimulatorSteps` reads `overlapped`, since
only two steps at once can both look a SKU up before either creates it.

### Abstractions

* Every item has a stock row from the start; a reservation for an unknown row
  is refused and changes nothing. One warehouse per item.
* `findReservationByIdempotencyKey` returns the first match in insertion order;
  the model returns any match. There is more than one only after the key race.
* The in-memory repository functions have no `await` of their own, so
  `getSalesOrder` runs in the same tick as the idempotency check before it;
  `Begin` in `OrderFulfillment` is both. What `checkAvailability` reads for a
  line is one step.
* One reorder rule per item; evaluating it and creating the purchase request
  is one step.
* `OrderFulfillment` has no cancellations by clients (they are checked in
  `Inventory`); its clients change the status of orders.
* In `AiBudget` the days that pass lie in one month; amounts are integers.
  The lease may expire at any moment once taken: how long five seconds are
  compared with four reads is not bounded by the code.
* In `RateLimit` only the end of the pause and the due times of the pending
  timeouts matter, so both are kept as the time that is left. A timeout may
  fire at any moment after it is due, which is what the event loop promises.
  `consecutiveHits` is never reset by the code; `MaxHits` bounds it.
* `AgentRuntime` leaves out the two early returns without a provider or
  without tools, and calls of unknown tools, which are answered without an
  `await`. `isAborted` belongs to the caller and may change at any time, back
  too. A run that stopped may begin anew, as the simulator's do.
* In `Finance` budgets exist from the start, with nothing allocated; the
  status PAID exists in the contract and no handler sets it. `findBudgetById`
  reads the row first and awaits the allocations it returns with it, so its
  copy is of the row at the first of these steps.
* `Accounting` keeps of a journal's lines only the amount: a journal that does
  not balance is refused before anything is written.
* `SimulatorSteps` keeps of a seeded table how often each row of its roster was
  created; the amounts, names and narration of the ten operations are left out.
* `Experiments` counts tokens only; duration, cost and conflict counts are
  compared the same way. A run's mode is DETERMINISTIC or one of the others,
  which are treated alike (`PROPOSED` stands for them).
* `EnterpriseSaga`: each of the seven other domains grants or throws, because
  their own modules model what they do.
* Web: a list of the console is its one record; the points of the office are
  those of a small square; speech bubbles, toasts and styles are left out.
* Logging, audit records (outside `AuditTrail` and `Experiments`) and the
  wording of answers are left out.
* Operators commented *Fault* are plausible bugs next to the definition they
  vary. No specification uses them; they serve to check that each property
  fails when the code is wrong.

## Runs

A run that composes several components explores them one *scene* at a time:
the variable `scene` is chosen in the initial state and never changes, the
component of the scene takes its steps, and the others rest. So a run's
properties are conjunctions of "in this scene, that component's properties",
each with the types of its variables, and a scene is a bounded instance of a
module's own `Spec`, with the bounds written next to it in the `MC` module.
Components that do interact — workflows with the services they call, pages with
the API, the simulator with its agents and the cluster — are composed inside a
scene.

| Run | Instance | Question |
|---|---|---|
| `inventory` | 4 calls, 2 items of 2 units, 1 key, quantity 1 | do rows stay consistent under any interleaving; do the books agree where nobody raced; is the ledger a refinement of `ReservationLedger` there |
| `inventory_oversold` (violation) | same | do pending reservations fit in the stock |
| `order_fulfillment` | 2 workflows, 2 lines of 1 unit, 1 client change | do answers tell what is held; single fulfilment; replenishment |
| `order_fulfillment_siblings` (violation) | 2 workflows, 1 key | do two invocations with one key leave each other's reservations alone |
| `ai_budget` | 3 requests, 1 agent, 2 days, limits 1–2 | does the lock serialize; does reserved usage stay within the highest limits; who releases |
| `ai_budget_fallback` (violation) | 2 requests | does an unreachable Redis fall back |
| `rate_limit_and_console` | supervisor: one caller of each kind, 5 rate limits; pages: one visit of each page, 2 requests, 1 change, 1 failure; stage: 2 agents, 1 piece, 2 trips, 3 edits; control bar: 2 requests, 1 command, 1 lost answer; forms: 2 reloads at once, 3 in all; handlers: 2 tickets, 3 requests | is the pause's timeout the only one; is a pause lifted early; is a call sent in a pause; does every pause end; do pages close down, catch up and tell the truth |
| `rate_limit_narration` (violation) | same supervisor | does a rate limit on narration leave the traffic alone |
| `agent_runtime` | 1 run, 3 iterations, cap 3, costs 0–2, 2 tool calls | is the cap kept; does the ledger account for every answer; does an aborted run stop; does every run |
| `back_office` | 15 scenes: purchasing (sourcing, receiving, approval with 2 workflows), finance, accounts, journals, invoices, posting with 2 workflows, tickets, service levels, hiring, shipping, overtime, sales, ordering (3 calls, 2 orders, 1 key) | do orders match approvals; is what is approved funded; do funds add up; is the ledger settled; do tickets tell the truth; is staff treated fairly; does the lead decide the status and a key make one order; do decisions stand |
| `platform` | 12 scenes: steps, loop, scaling, saga, capacity, tasks, goals, registry, outbox, stream, audit, experiments | do the simulator's steps tell the truth and take turns; is there one loop and is a stop heeded; does the cluster follow the events; is a failed saga undone; does capacity settle; do tasks stop; is trust earned; is order kept; do records tell the truth |
| `enterprise_saga` (violation) | scene saga | does a saga everybody grants complete |

**Why the bounds are enough.** A lost update needs two calls on one row; four
calls let two such races meet, let a reservation be cancelled twice, and let a
count run beside them, and the second item shows that a race on one item does
not disturb another. Two units and quantity 1 are enough for a row to be full,
half full and empty. An order's status machine has paths of length three; the
`sales` scene gives it three updates, enough to reach its end and race on it.
Two workflows on one order with one unit per product are the smallest instance
in which a later line is refused after an earlier one was reserved, and where a
key is shared. Three requests are a holder, a successor after expiry and an
unlocked writer. Five rate limits are enough for a pause to be replaced by an
earlier end and by a later one, by a manual pause, and for a timeout to race
each; the retry times 0, 1 and 3 units, with the default at 2, are the three
cases of "none", "shorter" and "longer" (the unit is the least cooldown, five
seconds; only the order of the three matters). Runs of `AgentRuntime` share
nothing, so one is enough; three iterations are a first, a middle and a last
one, and the costs reach the cap exactly and jump over it.

In `back_office` two handlers of clients, or a workflow and one or two
handlers, are under way on one row at a time, which is what a stale copy needs;
`receiving` has three, because an order is closed by two receipts and disturbed
by a third handler. Three employees are one warehouse worker and two couriers:
one to overload and one to be passed over. In `platform`, `steps`
begins each of the six scripted operations and comes round to the first, and
two of the eight agents; rosters have one row, products two, so that a seeding
can fail half way; `capacity` starts at nine replicas of at most ten, where the
demand calls for six or for more than there may be; once a deployment was
disturbed or the demand has changed, only what is under way goes on. `tasks` has
one task of at most four re-evaluations, `registry` one agent with two
outcomes; `outbox` three events, two publishers and four sends; `stream` and
`audit` two requests in two processes; `experiments` three calls of which two
are under way at once, none begun after a crash or a refusal. In
`loop`, two stops let three steps overlap, so that a step that ends finds both
of the others. Deadlock checking is off wherever the system rightly stops: its
clients have made all their calls.

**Fairness.** Two runs need it. `rate_limit_and_console` assumes of the
supervisor that time passes and that a timeout that is due fires, as the event
loop sees to; `MaxHits` is then also the assumption that rate limits stop
arriving, without which a pause need not end. Of the pages it assumes that an
interval that is set fires, that a request is answered or fails, that an answer
that came is handled, that animation frames and timers run; never that an
operator does anything, nor that a particular answer succeeds. `agent_runtime`
assumes that the awaits of a run settle — fetches, repository calls and tools
end in a result or an error, and Node resumes the run — and nothing about
`isAborted`. A provider that never answers at all is excluded by this: the
client sets no timeout of its own on `fetch`. Nothing is assumed about clients
and operators.

## What the runs found

* **Two requests for the last unit both succeed** (`inventory_oversold`): each
  checks and writes back its own copy. `RowsConsistent` holds all the same —
  the row hides the loss, since the later write replaces the earlier one.
* **A failing workflow cancels its sibling's reservation**
  (`order_fulfillment_siblings`): the sibling was given the same reservation
  by the line's key and still answers COMPLETED.
* **An unreachable Redis makes reservations fail** (`ai_budget_fallback`);
  `OPERATIONS.md` says they fall back to unlocked behaviour. If Redis goes
  away after the usage was recorded, the caller gets an error for a usage that
  counts.
* **A 429 on a narration pauses everything** (`rate_limit_narration`). The
  simulator's comment explains why it must not, and the narrator does not
  report it; the client it calls does.
* **No enterprise saga completes** (`enterprise_saga`): its last step posts to
  the account ids `ar` and `rev`, and `createChartOfAccount` gives accounts
  random ids. The saga then compensates, and leaves its purchase request, its
  allocation and its overtime request behind.

What the properties that hold make no claim about is reachable too. Each of
these was seen in the models; for the three marked † a definition states the sentence
of the document and is false in the model, as TLC shows when it is given to the
run of its scene (`approval`, `goals`, `tasks`).

* two calls look an idempotency key up before either saves, and both reserve;
* a check that outlives the five-second lease lets a second one through
  (`leaseLost` in `BudgetHolds`), although `ROADMAP.md` calls the race
  eliminated;
* two approvals pass `checkBudgetAvailability` before either adds its amount
  to a second, unchecked read, and overspend the budget with no update lost;
  `AllocatedWithinTotal` has no such exception, since `allocateBudget` writes
  the row it checked;
* † two purchase approvals with one key allocate twice
  (`AllocatedOncePerKey`, `purchase-approval-workflow.test.ts:159`): the key is
  remembered at the end;
* † a goal whose confidence stays too low answers EXECUTE after one RETRY
  (`UnconfidentIsStopped`, `orchestrator.test.ts:70`): only CIRCUIT_BROKEN stops
  it;
* † over PostgreSQL a task forgets its counters and its bounds
  (`BoundsPersist`, `ROADMAP.md:72`) and is re-evaluated without end;
* the page script of the console says in its first lines that every other
  page in the app is read-only; `OperatorPages` models four that write, and on
  them nothing tells a made-up result from a real one.

Seen while modelling:

* *Workflows.* One whose last status update is refused throws and leaves its
  reservations in place; a shortage that is met twice requests two
  replenishments. The idempotency key the workflows page sends with an order is
  renewed in `finally`, after a failure too, so that a retry is a new order.
* *Services.* `closeLead(LOST)` cancels an order that was already FULFILLED; an
  allocation that races another is created and not counted in the budget's
  row; an empty department is always overloaded; overlapping assessments
  deliver an order twice; two rollbacks of one event both scale; overlapping
  handlers of a ticket resolve it before its review.
* *Platform.* The agent runtime reports a 429 that the client has already
  recorded, and its fixed 30 seconds replace a longer `retry-after`; the cost
  of an answer that arrives after an abort is recorded nowhere; a run aborted
  during its last iteration ends as MAX_ITERATIONS; a simulator restarted
  before its stopped agents notice lets them go on, and two overlapping steps
  seed a roster twice. The budget audit of the scripted step says it persisted
  something and wrote nothing. Nothing in `src/` calls `publishPending` or sets
  the handler of the consumer, and `markFailed` is never used: in the running
  program the outbox only fills up. The audit log and the outbox live in the
  process; a restart empties them. When the subscriber's connection is lost and
  the publisher's lives on, the trace falls silent.
* *Experiments.* A run whose request names no mode is stored as DETERMINISTIC
  and asks the model all the same; the baseline of a sandboxed replay may be a
  run that is still RUNNING, with no tokens; a run left RUNNING by a crash or a
  failed write is never finished; FAILED is unreachable, since a model that
  fails is made up for. In memory the fallback baseline is the oldest run, in
  PostgreSQL the newest.
* *PostgreSQL adapters.* Several methods of the repository interfaces are
  missing: in procurement, in ticketing (`createSla`,
  `findBreachedOrPendingSlas`, `updateSla`), in the AI budget
  (`createUsageRecord`, `findBudget`, `findUsageSince`, `upsertBudget`) and in
  accounting (`findAllPayments`, `findPaymentsByInvoiceId`); calling one throws.
  The infrastructure adapter stores POLICY_REJECTED as FAILED, HRIS keeps no
  hourly rate, experiments keep neither the run replayed nor the counts of
  conflicts, invoices not what was paid, stock rows not what is reserved.
* *Web.* The operations, sales and office pages await their first loads before
  they set their intervals and streams; left meanwhile, they poll for ever. The
  console's reloads overwrite each other in the order they come back.

## Proofs

`tlapm` checks these for every value of the constants that the named assumptions
allow. An assumption says one of four things: that quantities, limits and bounds are
natural numbers (`QuantityAssumption`, `NumberAssumption`, `AmountAssumption`,
`StockAssumption`, `MinAssumption`, `OrderedAssumption`, `PauseAssumption`,
`RuntimeAssumption`, `RosterAssumption`, `LoopAssumption`); that `None`, or another
marker of absence, is none of the values it stands for the absence of (`KeyAssumption`,
the `NoneAssumption`s, `RowAssumption`, `SaleAssumption`); that names of
clients and workflows differ, or that workflows are among the callers
(`CallsAssumption`, `LinesAssumption`, `WorkflowAssumption`, `RedisAssumption`); or, for
a composition, all of this for the constants of its scenes and that a scene has
something to begin with (`SceneAssumption`, `LedgerAssumption`, `TicketAssumption` and
`StaffAssumption` of `MCBackOffice`; `RegistryAssumption`, `ScalingAssumption`,
`TasksAssumption`, `LoopAssumption` and `LabAssumption` of `MCPlatform`;
`PageAssumption`, `StageAssumption`, `ControlAssumption`, `FormAssumption` and
`DeskAssumption` of `MCConsole`). TLC evaluates each of them in a run. So the
theorems hold for any number of calls, items, requests, agents, visits and events,
and every invariant and every action property of the passing runs is stated by one.

A composition is proved scene by scene: of every component its own inductive
invariant, then a lemma that the steps of other scenes leave its variables alone.
Where the bounds of a scene only cap what clients do, the component is proved under
its own specification too, without them.

* `Inventory_proofs`: `Spec => []TypeOK`, `Spec => []RowsConsistent`,
  `Spec => []BooksAgree` and `Spec => ImplementsLedger`.
  None is inductive. A row written back is computed from a copy, so the
  copy must have been consistent *and have passed its check*: the inductive
  invariant `IInv` adds `CallsSound`, which says of every call that is about
  to write that its copy is a consistent row which accepts it, and of every
  call about to save or cancel what its record refers to. That copies may be
  out of date does not matter: `Updated` of a consistent, accepting row is
  consistent, whatever the table has become meanwhile. `BooksInv` adds, for items
  nobody raced on, that a row counts the units of the calls that hold some
  (`RowsExplained`), those included whose reservation or movement is still to be
  saved. With that every step of a call is one step of `ReservationLedger` or none.
* `SumTheorems`: `MapThenSumSet` over a finite set, on which `BooksAgree`, `FundsAddUp`,
  `BudgetHolds`, the receipts of an order and the loads of couriers rest. A sum
  of natural numbers is the cardinality of the set of its units, about which the
  library's theorems say what is needed; that the recursive function agrees is shown
  with a least set on which it does not (`WFMin`), since the library's induction
  theorems cannot be instantiated.
* `OrderFulfillment_proofs`: `Spec => []AnswersTellHoldings`,
  `Spec => []FulfilledOnce` and `Spec => []NoSilentShortage`, from one inductive
  invariant, `OrderInv`. It takes over the inventory's `IInv` (the workflows' calls are
  an instance of that service, so its steps are cited, not proved again) and adds
  what each of a workflow's calls has established by how far it got (`CallsOK`),
  how the calls go with where the workflow is (`PhaseOK`), which status change a
  conclusion rests on (`StatusInv`), and how the row of an item counts the units
  that reservations hold of it (`StockInv`).
* `AiBudget_proofs`: `Spec => []ReservationsSerialized`, `Spec => OnlyHolderReleases`
  and `Spec => []BudgetHolds`. `IInv` adds `HoldersReserve`: while no lease
  was lost, every reservation inside the critical section is the holder the
  key names. Losing a lease sets `leaseLost`, after which nothing is claimed.
  `BudgetInv` follows the one reservation inside: what it has measured so far — of
  the day, the month, the agent — is at least what is reserved by now, since only it
  may add to that, and what it goes by is no higher than the highest limits there
  were. Midnight only empties the day; records made outside the lock are not reserved.
* `BackOffice_proofs`, the components of `MCBackOffice`, and all nine of its properties.
  * `Finance`: `CopyOK` says of a copy about to be written that it was within its
    total and, for an allocation, has room for the amount. `FundInv` says of budgets no
    two calls wrote over each other that a row shows the sum of the allocations that
    are done and of the expenses that are approved, or charged and about to be.
  * `Procurement`: `OnceInv` says of a request nobody raced for that its order is about
    to be recorded or was the only one. `ArrivedInv` says that an order whose
    receipts make it up is `RECEIVED` or that a call that saw them all is still
    to close it. It concerns the memory repository: the PostgreSQL adapter lacks
    `findGoodsReceiptsByPurchaseOrderId`, so that a receipt throws there.
  * `PurchaseApproval`: `FundedInv` says who answers for an order that shows
    `APPROVED` without a client's approval: a workflow that is still to allocate or to
    take it back, or one that allocated.
  * `SalesOrders`: `SalesInv` says that status and lead agree in the row of an order
    nobody overtook, that a copy about to be written has passed its check, and that
    every order under a key was made by a call with it, which a call begun
    after that one's answer finds.
  * `Accounting` and `FinancialPosting`: `LedgerInv` joins `JournalInv` (a journal that
    one handler at a time held has one reversal at most, and while a handler has it,
    none) and `PaymentInv` (an invoice counts what was received, and
    the payment that is still to be recorded); `PostedInv` adds that what was announced
    is posted for good, so that no second workflow posts it.
  * `Ticketing`: `DeskInv` says that a ticket nobody contended for is held by one
    handler, in the queue of the sweep too; where it stands before its review; and that
    its service level, stored or copied, says of every clock what was so, but for
    the one about to be recorded.
  * `Hris` and `OvertimeApproval`: `FairInv` says that, if assessments never overlapped,
    the one under way has noted the loads as they are and has chosen a courier with the
    least; `AdviceInv` that the copy a workflow has read still gives the
    reason of its request.
* `Console_proofs`, the components of `MCConsole`: `NotLiftedEarly`, `NoCallInPause`,
  `PauseHasItsTimer`, `PagesCloseDown` and `PagesTellTheTruth`.
  * `RateLimit`: `PauseHasItsTimer` is inductive together with the types, since
    whatever (re)starts or ends a pause first clears the one timeout there is;
    `NotLiftedEarly` follows: that timeout falls due when the pause ends. `NoCallInPause`
    looks at who sends: only a call that found no pause.
  * `WebPages`: `WebInv` says that a visit waits for one first load at most, that a page
    that awaits it has set up nothing yet, and that a first load that outlived its
    page makes the visit a `hasty` one, of which nothing is claimed.
    `OfficeStatus`: `BarInv` says the same of the control bar and its two loads.
  * `VirtualOffice`: `StageInv` says that whoever is sent away has a timer that
    sends him home, and with the types the layout shown is the one stored.
  * `ConsoleForms`: `FormInv` numbers the reloads and says that the latest, under
    way or shown, has found everything that was accepted before it asked.
  * `OperatorPages`: `DeskInv` counts requests: what is shown and what was
    answered but not handled is no more than what the API stored, or left unmet.
* `AgentRuntime_proofs`: `Spec => []CostCapped`, `Spec => []UsageAccounted` and
  `Spec => AbortedRunStops`. `IInv` relates `spent`, the run's own `cost` and
  `recorded` at each `await`; a run waits for an answer only with its cost
  below the cap.
* `Platform_proofs` proves of each component of `MCPlatform` its property
  under the component's own specification (`TurnsAreShared`, `StepsAreTruthful`,
  `TrustStaysEarned`, `LoopSettles`, `EventsAreFollowed`, `SagasAreUndone`,
  `TasksAreBounded`, `GoalsAreStopped`, `OneLoopAtATime`, `StopsAreHeeded`,
  `AuditTrailHolds`, `ExperimentsHold`), and from it the property of the
  composition (`MCSpec => []TrustIsEarned`, and so on).
  * `SimulatorSteps`: `TurnsInv` says there is a number of rounds such that those
    before the cursor have had one turn more. `StepsInv` says how often a row may
    have been created by what the steps under way have looked up, and of which
    table each is still to seed which rows.
  * `AgentRegistry`: `RegInv` says of an agent whose reports never met that at most
    one report is under way, and that what it holds is what is stored.
  * `CapacityLoop`: `CapInv` says that, the demand being unchanged and the
    deployment undisturbed, every pulse under way aims at the target of the demand.
  * `Infrastructure`: `CloudInv` says of a handler which event it holds, that at most
    one handler requests or rolls back an undisturbed deployment, and
    which event is the last applied. `EnterpriseSaga`: `SagaInv` adds what a saga has
    done at each of its steps and what its compensation has undone already.
  * `WorkflowTask`: `TaskInv` says that retries and escalations are counted by the
    iterations of the task, in the memory repository, where copies are the task
    itself. `Orchestrator`: `GoalInv` adds that each goal has a task of its own, and
    what has been paid and recorded at each step.
  * `Simulator`: `SimInv` says that the steps under way are at most those that
    were stopped and the one `isExecutingStep` stands for, and that a running loop has
    a timer or a step of its own.
  * `AuditTrail`: `LogInv` says which request each record of the log and each
    entry of the context is of; `StreamInv` that what is on its way from a server
    gets back to it as long as nothing else is lost.
  * `Experiments`: `LabInv` says what a call at each of its steps has stored and audited
    of its run, and that runs it compares are finished, unless one was read too early.
  * `Outbox`: `MailInv` says that the topic holds every event that precedes, in the
    outbox, one it holds or one a publisher holds and not the event itself, and that the
    handler was given what its group committed, in the order of the topic.

Proof attempts that failed for good reasons changed the model:
`NoSilentShortage` claimed too much of two cancellations that race on one row
(they give back one unit between them, and a workflow that fails does not look at
the minimum); `BoundedReevaluation` missed that `maxIterations` of a new task is not
validated and may be 0; and the report of an outcome in `AgentRegistry` waits at
two different points, which had one name. Others changed only how something is said:
a publisher of the `Outbox` holds the places of its events in the log, and the order
of what was sent is stated by which event precedes which, since the laws of
`SelectSeq` need induction over sequences; and the literals with which the `MC` modules
instantiate their components became their CONSTANTS.

Only model-checked, and why:

* `EveryPauseEnds`, `EveryRunStops` and `PagesCatchUp`: liveness under fairness, which is
  out of the prover's reach;
* the five violations, which are counterexamples and need no proof, and the sentences
  marked † above;
* that the bounds of the scenes lose nothing for `RateLimit` and the pages: their scenes
  are proved as they are bounded, for every value of the bounds;
* what `planCapacity` and the learning rule of the registry compute, beyond what the
  properties say of it.

## Not modelled

* `Knowledge` (documents with keyword scoring), `Foundation`, observability,
  authentication and roles, contracts and shared packages, deployment: single
  writes of fresh records, reads, counters nobody reads, checks without shared
  state.
* Creation of records nothing contends for: products, warehouses, reorder
  rules, customers, sales representatives, cost centers, budgets, departments,
  quotations, comments.
* Amounts and prices, except where a limit is compared with them.
* The agents' tools (`enterprise-tools.factory.ts`), thin wrappers of the
  services that are modelled.
* The adapters of inventory, sales, finance, ticketing, AI budget and knowledge;
  the others are modelled where a module chooses its `driver` or `storage`.
* Of the web console, markup and styles, formatting, speech bubbles and the
  service-level handler of the tickets page, which has the same shape as the
  comment handler that is modelled; the tickets list is modelled unfiltered.
* Scenes share no tables with each other: a sales order that changes while a
  ticket is assigned is the product of two scenes, and no handler reads both.

## What is left

Models: the inventory over PostgreSQL, whose rows forget what is reserved; departments,
customers and quotations, once something contends for them; the service-level handler
of the tickets page. Liveness of the workflows (an invocation that is always resumed
answers) would need their own fairness; `agent_runtime` shows the pattern. Theorems:
every safety property that is checked is proved, so new ones come with new properties.
