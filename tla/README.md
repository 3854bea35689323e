# Verification of the IntraMind inference runtime

TLA+ models, model-checking runs and machine-checked proofs for
`intramind_runtime` (`src/src/intramind_runtime/`): the service that accepts
inference work from workflows, sends it to engines at most a bounded number of
times, keeps budgets, and never loses track of an engine that may still compute.

Three compositions are modelled and checked: the PostgreSQL ledger of `store.py`
with the executors that drive it, the endpoint owner of runtime-api with the
direct proxy on top of it, and the delivery of the ledger's events to Temporal
with the workflows and the buffered submissions that depend on it. Every safety
property of the passing runs is also proved, the budgets as a refinement of an
abstract account, the executor as a user of the ledger.

## 1. Inventory

### Components, state and operations

| Component | State | Operations | What is hard | What makes it correct |
|---|---|---|---|---|
| `store` (ledger) | roots, operations, attempts, budgets, pools, owners, completion bindings, outbox, direct attempts | one PostgreSQL transaction per method: `create_root`, `submit_operation`, `reserve_next`, `mark_send`, `compute_finished`, `commit_result`, `unknown`, `fail`, `cancel`, `finish_run`, `bind_completion`, `reconcile_expired`, `confirm_epoch_stopped`, `settle_idle_unknown`, `quiesce_engine`, `resume_engine`, `configure_pool`, outbox claims | READ COMMITTED: rows that are read without a lock change before the write; four different parties settle an attempt | sends and budget within limits, one live attempt per operation, each reservation returned once, published results immutable, every operation ends and its end is announced |
| `executor` | one tick per reserved attempt | reserve, permit, payload, send, persist or settle; heartbeat; retry of settlements in the background | crash, shutdown, timeout or fencing at every await; the request may or may not have left | compute stays accounted while the engine runs, only unsent requests are refunded, every attempt is settled |
| `drivers`, `speech`, `embedding` | none | one HTTP request, classified as not sent, finished, rejected or uncertain | classification of transport errors | uncertain is never reported as not sent |
| `permits` + `memory_scheduler` | RAM: pools, waiters, permits, dirty endpoints, probe streaks | enqueue, reserve, mark_send, finish, unknown, durable acquire/heartbeat/release, refresh, probe, expiry | unclean restart, lost acquire calls, awaits between read and use, capacity at its limit | capacity never exceeded, a permit for all that is computed, no permit leaks, no waiter starves, idleness needs two probes of one epoch and boot |
| `direct_proxy`, `direct_routes` | RAM: pending requests, recoveries, settlements | admit, stream, abandon, drain, bounded retries | a caller that leaves while the engine computes | a permit is held until termination is known; at most two retries, never beside an attempt that still computes |
| `temporal_adapter` | outbox rows | claim, deliver, defer; submit or attach, finish | claim leases that run out during delivery, stale tokens | every event is delivered at least once, a stale claimant changes nothing |
| `buffering` | batches, items | append, seal, dispatch, tick | two publishers, deadlines during dispatch | one active batch per partition, no accepted item lost |
| `sdk`, `model_step` | workflow-local | durable activities, rolling maps, Continue-As-New, replay of model calls | replay, lost completions | deterministic replay, bounded children |
| `controller`, `epochs` | none | `decide`, `epoch_lags_engine` | bounds | target within profile limits |
| `wakeup` | generation counter | listen, wait | lost notifications | polling fall-back |
| `artifacts`, `uploads` | spool budget | put, get, receive | concurrency at the limit | bounded temporary disk |
| `api`, `client`, `direct_client`, `admission` | none of their own | translation of requests | – | – |
| `admin`, `inspection`, `metrics`, `retention_inventory`, `release_gate`, `language`, `rerank`, `preparation`, `contracts`, `settings`, `workload` | none | reports, validation | – | – |

Interaction: workflows call `temporal_adapter`, which submits to the ledger and
binds a completion; executors reserve attempts from the ledger, obtain a permit
from `memory_scheduler` over HTTP, record the send intent in the ledger, call the
engine, and record termination and result; the reconciler process reclaims
attempts of dead owners; `memory_scheduler` probes engines and settles what they
no longer compute; operators quiesce pools and confirm stopped epochs; the outbox
process tells Temporal and submits buffered batches. Apart from the permit calls to
runtime-api they share only the ledger's rows.

Hazards, each at the line where it bites and with the properties that cover it,
are listed in `PROJECT.json`.

### The modules

| Module | Models | Built on |
|---|---|---|
| `Ledger` | `store.py`: the transactions of `Store` | – |
| `Executor` | `executor.py`, `drivers.py` | `Ledger` |
| `Account`, `LedgerAccount` | what the ledger promises of budgets; the mapping from the rows | `Ledger` |
| `Scheduler` | `memory_scheduler.py`, `permits.py`, the life of runtime-api and of the engine | – |
| `DirectProxy` | `direct_proxy.py` | `Scheduler` |
| `Outbox` | `OutboxPublisher`, claims and events of `store.py` | – |
| `Workflow` | `sdk.py`, `BrokerActivities` | `Outbox` |
| `Buffering` | `buffering.py` | `Workflow` |
| `LedgerProofs`, `LedgerAttempts`, `LedgerCounts`, `LedgerRefinement` | theorems | `Ledger`, `LedgerAccount` |
| `ExecutorProofs` | theorems | `Executor`, `LedgerAttempts` |
| `DirectProofs` | theorems | `DirectProxy` |
| `DeliveryProofs`, `DeliveryInvariants` | theorems | `Buffering` |
| `MCLedger`, `MCExecutor`, `MCDirect`, `MCDelivery` | instances | the above |

The three compositions meet in the ledger. `Ledger` has its rows in full;
`Scheduler` reduces a durable attempt to the states the scheduler can tell apart
(`ledger[d]`), and `Outbox` an operation to PENDING or how it ended.

What would come next: an abstract specification of an operation's life that ledger
and executors implement; a model of the row locks, for the order in which
`commit_result` and `cancel` take them.

## 2. Module `Ledger`

`Ledger.tla` models class `Store`. A variable stands for each table (`root`, `op`,
`att`, `budget`, `pool`, `alive` for `runtime_owners`, `bindings`, `events` for
`complete_activity` rows of the outbox). Every action is one transaction. Where a
transaction reads rows that it does not lock and later acts on what it read, the
read is an action of its own and what was seen is kept until the write:

| Variable | Code | Actions |
|---|---|---|
| `snap[a]` | `_owned`: `FOR UPDATE OF a` locks the attempt only; operation and root come from the statement's snapshot | `Owned`, then `MarkSend`, `ComputeFinished`, `CommitResult`, `Unknown`, `Fail` or `Rollback` |
| `cancelling` | `cancel` reads the root without a lock | `CancelRead`, `CancelWrite` |
| `finishing` | `finish_run` reads the root, counts pending operations, writes | `FinishRead`, `FinishCount`, `FinishWrite` |
| `binder` | `bind_completion` reads the operation, inserts the binding | `BindRead`, `BindWrite` |
| `reconciler`, `scan` | `reconcile_expired` selects attempts without a lock and updates each by the state it selected | `ReconcileScan`, `ReclaimReserved`, `ReclaimSent`, `ReconcileFinish` |
| `settling` | `confirm_epoch_stopped` locks pool and attempts, then settles them one by one | `ConfirmStopped`, `SettleConfirmed` |

What a transaction re-reads under a lock (`mark_send` re-reads root, operation and
budget; `reserve_next` re-reads each candidate) is part of the writing action.
`reserve_next`'s loop is one action per candidate: `RefuseCandidate` or `Reserve`.
A rolled-back transaction is `Rollback`; when the process of an owner dies, all the
transactions it has open roll back at once (`OwnerCrash`).

Abstractions. Times become facts (`expired`, `lease`, membership in `alive`) that
`RootDeadline`, `OperationDeadline`, `AttemptLeaseLapse` and `OwnerLapse` make true.
`retry_at` delays, candidate order, reasons and payloads are dropped, so every
candidate may be served next. Attempt ids are constants with their operation and
number (`OpOf`, `Number`): `NextNumber` draws them in order. An account is a root's
token budget or one of its resource budgets. A pool's `target` is 0 exactly when it
is not `HEALTHY`: `update_target` is called by nothing. Rows of direct attempts, the
group's health, and `RESERVED` rows of older versions that already hold budget are
left out. In `_settle_stopped_attempt` the operation's state is the current one.
`overrun` and `raced` are history variables: usage reported beyond a bound, and
attempts that were reclaimed by a state they had left since the scan.

`Account.tla` is the abstract specification of budgets: an attempt holds its bound
when that fits beside all that is spent and really held, and every hold is settled
once. It has no counter of reserved units and knows of no owners, leases, scans or
races. `LedgerAccount` maps the rows to it (`HoldOf`), and `ImplementsAccount` states
that the ledger implements it.

## 3. Module `Executor`

`Executor.tla` extends `Ledger` with the ticks of `Executor.tick`: `pc[a]` is the
await at which the tick of attempt `a` stands, from `PERMIT` to `COMMIT`, or the
settlement it has decided on (`NOT_SENT`, `INVALID`, `REJECTED`, `REJECTED_DONE`,
`UNCERTAIN`). Every ledger call is two steps, `OpenCall` (= `Owned`) and the write.
`engine[a]` is what the engine does for the attempt, which no part of the program
can see; `down` the pools whose engine has stopped; `crashed` the dead processes;
`permits` the attempts that have a permit in the RAM of runtime-api; `lapsed` a history
of owners whose lease has ever run out. `Probed` are the pools of which runtime-api can
prove attempts idle (`_terminated`: llama.cpp with slots, a native serving with an
in-flight registry): it probes only those, and only for attempts that have a permit
(`ProbedIdle`). A restart of runtime-api (`ApiRestarts`) restores the permits of attempts
that hold compute and loses the others.

`Shutdown` is `CancelledError` at any await, `Crash` the death of the process at any
point (`OwnerCrash` of the ledger, and the end of its ticks; it also stands for a
shutdown whose last write fails). Database errors leave
a tick where it is: `_write_end` and the persistence loop retry.

External, marked so in the map: the engine and process death. Here the permit
authority grants and refuses permits at will, and a probe's proof of idleness
is taken to be true; the scheduler that earns this trust is the next module's. When the
permit of an ended attempt is released is left out: nothing reads it any more.

## 4. Modules `Scheduler` and `DirectProxy`

`Scheduler` is `MemoryScheduler` for one llama.cpp endpoint. Its coroutines await
only each other except at a database query or an HTTP probe, so a stretch between
two such awaits is one action: `task` says at which await `_maintain` stands and
what it read before. Of the process's RAM there are the permits, the record of each
attempt (`rec`), the waiters (`line`: the linear order of their `queued_at`, in which a
durable call, whose age is its operation's, may join before others), the pools as last
refreshed (`view`) and the probe streak; `Forget` is what a process end does to all of them, orderly
(`Shutdown`, which leaves the owner row behind when a direct request may still
compute) or not (`Crash`). `Start` is hydration from the ledger and the dirty flag.

A durable attempt is followed from its reservation (`ReserveNext`) through the
permit calls of `permits.py` (a call may be lost and asked again while the first
still waits), `mark_send`, the permit check, the request and the release, to the
reclaim of a dead executor's. `wire` is the HTTP request as the engine sees it,
`stray` a history of requests that reached another process than their epoch's, and
`orphans` one of direct requests that were computed without a permit when an orderly
end of runtime-api removed the owner row (the finding of `Direct_orphan`). `forfeited`
is a history of durable attempts that had no permit when a runtime-api ended although
their executor had been granted one, or the ledger holds their compute: the next start
may give them a permit again (`MayBeSent`, the condition of hydration, or soon to be).
Watchdog and operator stop, confirm and reconfigure the engine.

`DirectProxy` adds the requests of callers: `open` in wait and try mode, the
dispatcher (`Dispatch`), the producer from grant to settlement, detach of a caller,
the bounded retry (`RetryOr`) and the recovery of a lost attempt (`Recovered`).

Simplifications. One endpoint; no rows of rc17, no time to live of request
identities, no `tenant_limit`, no group ceilings or pools without slots, no second
runtime-api. A dispatcher turn is a sequence of single grants. A request that was
not received dies with its connection. An executor whose write fails is one whose
write is refused. Of a durable permit's state only UNKNOWN is ever looked at. The
permit check and the request are one step. `ExpireDirty` takes from the deployment
that `restart_drain_seconds` is longer than an inference may last. What the caller
reads is left out.

## 5. Modules `Outbox`, `Workflow` and `Buffering`

`Outbox` has the rows of runs, operations, bindings and `runtime_outbox`, and the
publisher processes. `Claim` takes all due events under a lease; each is then
delivered, and acknowledged or deferred, on its own (`task[p]`), so that a lease can
run out, a call be lost after Temporal carried it out, and a process die in between.
Temporal is external: one workflow per run id, for ever, and an activity that is
answered by the task token of its current attempt.

`Workflow` is what `durable_task` runs: a handler that maps its children in their
rolling window (`Refill`, `Harvest`, `Drain`), each waiting for one operation through
the activity `submit_or_attach`, which submits, reads, and binds its token in two
steps; then `finish`, with the unlocked read of `finish_run`, its write, and the
comparison with what was committed. Activities are retried with new tokens, and
their workers die.

`Buffering` is `append`, `seal` and the dispatch of batches by the same processes:
`SubmitBatch` and `InsertBatch` are the transaction of `submit_run` (which holds the
authority row, `Unlocked`), `MarkBatch` the update that follows it, `DeferBatch` what
`tick` does with a failure.

Simplifications. Time is abstract: `lease` says that a row rests, under a claim or
until `available_at`; `retry_at` of batches is ahead or not. Delivery numbers are not
kept: a tick gathers its deliveries before it claims again and an owner id is one
process's. The claim limit of 8 is not reached. The publisher's own `finish_run` is one
step. Backpressure by `max_pending` is one of the reasons of `ActivityRetried`. No
signals, sleep, `continue_as_new` or `model_step`; a child has one operation. A
process death strikes its event tick or its buffer tick. A batch's deadline is that
of its run.

## 6. Runs

| Run | Instance | Shows |
|---|---|---|
| `Ledger_budget` | 2 operations (bounds 2 and 1) on a limit of 2, usage 1 or 3; two scenarios: the lease of one attempt or of the other may run out | `ReservedIsHeld`, `BudgetCap`, `OverspentRootStops`, `ImplementsAccount` when both are reserved before either sends and when an engine overruns |
| `Ledger_ends` | 1 operation with 1 attempt id; three scenarios: awaited and finished as PARTIAL (which waits for no outcome); its own deadline and a cancellation; stops with and without recovery by 2 operators in 2 epochs | `TypeOK`, `ReservedIsHeld`, `OneLiveAttemptUnlessRaced`, and `OperationsEnd` under the reconciler's fairness alone |
| `Executor_safety` | 1 operation; five scenarios: 2 attempts; 1 attempt, which may also be rejected, with two of deadline, cancellation and engine stop, or with its pool quiesced | `XTypeOK`, `ComputeAccounted`, `RefundOnlyUnsent`, `UnknownSettleableUnlessRaced`, `SendsCounted`, `OneLiveAttemptUnlessRaced`, `SucceededHasResult`, `ResultImmutable` with crash, shutdown, fencing, lost leases and every driver outcome |
| `Executor_settles` | 1 attempt, 2 pools of which one can be probed; four scenarios: the root's deadline and its end as SUCCEEDED or PARTIAL; restarts of runtime-api; stops, confirmations and new epochs of the engine; the pool that cannot be probed | `AttemptsSettle`, with crash, shutdown, fencing and every driver outcome in each scenario |
| `Direct_permits` | a request that waits, one that tries (qa), a durable attempt (background); limits 2, 1 and 1; six scenarios of who comes and which faults happen | `TypeOK`, `PermitCoversCompute`, `WithinCapacity`, `OneComputePerRequest`, `NothingForgotten`, and under fairness `RequestsEnd`, `PermitsReturn`, `DurableEnds` |
| `Delivery` | 2 runs of 2 operations (windows 1 and 2), 4 inputs in 2 partitions and 2 policies, 2 processes; eleven scenarios | `TypeOK`, `DeliveredIsDone`, `AnswerIsLedger`, `SuccessIsAccepted`, `WindowBoundsLedger`, `OneBatchInOrder`, `FailedIsFailed`, and under fairness `RunsEnd`, `EventsDelivered`, `InputsEnd` |

A run goes through several scenarios (`Scenarios` of its MC module, chosen in the
initial state): each allows the arrivals and faults that its question needs, with all
their interleavings, where everything at once would be too many states. A scenario
only takes steps away from clients and faults; `Happens` says which. TLC then reports
one action, `MCNext`; its coverage of the expressions of the modules shows that every
action, and every disjunct of every action, is taken in some scenario of some run. One
branch is not: `DeliverCompletion` never meets a pending operation, since the
operations of `Outbox` are not revived (`Executor_announced` shows that they can be).
Counters of faults (`boot`, `outage`, `process`, `faults`, `replicas`) start anywhere
within their bounds, so that the code under a bound of 2 is also checked with 1 and 0.

The ledger instances have one root, pool, account and owner (`Executor_settles` a second
pool, without a probe); symmetry is not used
since attempt ids are ordered by `Number`. Two attempts of one operation are the
smallest instance in which a stale writer of the first meets the second; two
operations on one account the smallest in which admissions race; a third adds no new
pair. One owner suffices since ownership is compared per attempt and its lease may
lapse and be renewed at any time. On the endpoint two classes and two kinds of permit
compete for two slots of which one is closed to non-QA work: every comparison of
`SlotCapacity` is met at, below and above its limit. For delivery, two processes are
the smallest number in which a claim is taken over and a batch dispatched twice, two
operations the smallest run whose window is smaller than its items, and three inputs
the smallest partition in which a batch is full and another follows.

Bounds: `MaxEpoch`, `MaxBoot`, `MaxOutage` and `MaxCalls` (engine processes, runtime-api
processes, failed refreshes, concurrent permit calls of an attempt), `MaxStarts`
(activity attempts), `MaxFaults`, `MaxRoots`, `SealLimit`, `MaxBacklog`, the finite set
`Attempt`, and the sets of inputs (`Usage`, `FinishAs`, `Stops`, `Token`, `Awaited`,
`Cancellable`, `Deadlined`, `Try`, `Leaving`, `Dying`); a run gives the empty set to what
its question does not need. `Direct_permits` and `Delivery` do not look for deadlocks:
once all requests have ended and no fault is left, they may stop.

`Direct_permits` restarts runtime-api twice in a row where a request and a durable attempt
compete. `PermitCoversCompute` and `WithinCapacity` leave out `orphans`, without which they
fail as in `Direct_orphan`; `WithinCapacity` also leaves out `forfeited` (the double restart
below).

Each property is also checked to fail for a mutated model (`PROJECT.json`,
`mutants`; the mutants stand in the modules before the definition they change).

### Disagreements found

Six runs end in a violation, and show the code to differ from what it, its
documentation or its tests say. In each the code acts on an unlocked, missing or
outlived read, or on something it no longer knows.

| Run | Behaviour |
|---|---|
| `Executor_unknown` | `reconcile_expired` scans an attempt of a lapsed owner; the owner comes back and settles it; the reconciler then writes `UNKNOWN` over it, and no probe, restart or lost-result pass ever settles it. By the same stale scan a request that has been posted meanwhile is recorded as not sent, and an operation is re-queued under a newer live attempt: the properties named `...UnlessRaced`, `ResultImmutable`, `RefundOnlyUnsent` and `AttemptsSettle` exclude exactly the behaviours with `raced # {}` (the race is the only way to such an `UNKNOWN`, as `UnknownIsSettleable` proves), and `ComputeAccounted` the owners that ever lost their lease. |
| `Executor_announced` | `fail` (or `unknown`, `commit_result`) waits for the attempt's lock with an operation state read before; the operation's deadline ends and announces it; the write revives it. |
| `Ledger_cancel` | `finish_run` reads RUNNING, `cancel` commits, `finish_run` overwrites CANCELLED. |
| `Ledger_completion` | `bind_completion` reads a pending operation, the operation ends, the binding is inserted: no event tells the workflow, which waits until its activity times out. |
| `Executor_epoch` | an attempt is reserved, the engine is stopped and reconfigured under a new epoch (a `RESERVED` attempt holds neither compute nor budget and blocks nothing), and the attempt is sent under the old epoch. |
| `Direct_orphan` | runtime-api crashes while a direct request computes; it starts again, dirty, and without a permit for that request; before the drain time has passed it is shut down in order, finds no direct permit, and deletes the owner row. The next start finds no former owner, is not dirty, and grants beside the request that still computes. Found while looking for an inductive invariant of `PermitCoversCompute`: "the endpoint is clean" did not imply that what it computes has permits. |

One more is not kept as a run of its own: `Direct_orphan.cfg` with
`INVARIANT TransportLimitBounds` in place of its own. TLC then shows that `transport_limit`
does not bound "all accepted HTTP inference" (`docs/contracts.md:174`) over two
restarts: an executor has its permit; runtime-api restarts, which restores no permit of
a `RESERVED` attempt (`memory_scheduler.py:286`); the executor commits `SEND_INTENT`
and the slot is granted to a direct request, which computes; runtime-api restarts again
and restores a permit for the `SEND_INTENT`; the executor's check finds it and posts.
Two inferences are computed on one slot. That this and the removed owner row are the only
ways past the limits is `CapacityIsKept` (section 7).

### Fairness

`Fairness` (`Ledger_ends`): the reconciler process calls `reconcile_expired` every 5
seconds (`cli.py`, `repeat`), a transaction that has begun completes, and deadlines
pass. Nothing is assumed of owners, clients or operators.

`XFairness` (`Executor_settles`) adds: a tick whose process lives goes on (every await
is bounded by the attempt's deadline, settlements are retried until they land); an
engine answers in the end; a confirmation of the operator that is under way completes
(it is one transaction); a lease that nobody renews runs out. `_maintain` probes every two
seconds, and this settles what it can prove: an UNKNOWN attempt with a permit, on a pool
with a probe, whose engine is up and stays idle (`EngineIdle`, the idle slots of
`_slots_idle`; an engine that always computes for somebody else proves nothing). No probe
is assumed for other attempts: without a permit `_settle_idle_unknown` does not look at
them, and without slots or registry `_terminated` returns no proof. Nor is an operator
assumed to stop, confirm or start an engine, or runtime-api to restart. Weak fairness
suffices: each of these stays enabled until taken.

`Fairness` of `DirectProxy` (`Direct_permits`): the maintenance task, the dispatcher, the
producers and the executors that live go on; a runtime-api that ended is started
again; the engine answers, and an engine that is down or quiesced is restarted,
confirmed and configured by watchdog and operator. Strong fairness is assumed of one
step, the answer to a permit call: the connection may be lost again and again, but not
every time. Callers, deadlines, crashes and lost responses are left to chance.

`Fairness` of `Buffering` (`Delivery`): every deployed process goes on with its events and
with its batches (`repeat` every 5 seconds), leases that nobody holds run out, and
workers, operations, the reconciler and due times go on. One weak-fairness condition
covers the latter since each of their steps happens finitely often. No fault, deadline,
cancellation or retry is assumed to happen.

What liveness excepts is named in the properties: `Outlived` (sent under a retired
epoch, the finding above), `Stranded` (an UNKNOWN attempt whose permit was lost by a
restart of runtime-api before it was sent, and whose executor died before it could tell:
only a confirmed stop ends it), `Unprobed` and `Halted` (an UNKNOWN attempt on a pool
without a probe, where by `docs/contracts.md:443-444` "unresolved compute still needs
reconciliation", or on an engine that has stopped: again only a confirmed stop),
`Unheard` (a workflow whose worker died with the token, or the finding of
`Ledger_completion`), `Refused` (a success claimed with operations pending), and `Gone`
(the cancellation of a closed workflow, which is tried for ever). Each of them is in the
code, and waits for a deadline or an operator, `Outlived` attempts and `Gone` for nothing.

## 7. Proofs

Every theorem holds for all values of the constants that satisfy the assumptions of
its component: finite sets, positive bounds, natural limits, and that a thing belongs
to one other (an attempt to an operation, an account to a root, a batch to the items
sealed with it). They are `StructureAssumption`, `FitsAssumption`, `NumberAssumption`
and `AccountAssumption` (two operations on one account are of one root) of `Ledger`;
`EndpointAssumption` and `ProxyAssumption` of the endpoint; `OutboxAssumption`,
`WorkflowAssumption` and `BufferingAssumption` of the delivery. TLC evaluates each of
them in the runs. The counters of faults stay bounded by their constants, but by any
constants: any number of restarts, epochs, outages and repetitions.

| Module | Theorem | Argument |
|---|---|---|
| `LedgerProofs` | `TypeCorrect`: `Spec => []TypeOK` | `TypeOK` is inductive; one lemma per group of actions, `_settle` and `_settle_stopped_attempt` once |
| `LedgerProofs` | `BudgetKept`: `Spec => []BudgetCap` | inductive with `TypeOK`: only `Settle` and `MarkSend` touch a budget (`BudgetSteps`); the first trades a bound for the usage, counting the excess in `overrun`; the second is guarded by `Affordable` |
| `LedgerAttempts` | `OneAttemptAtATime`, `ResultIsCommitted`, `ResultStands` | one inductive invariant, `AttemptInv` |
| `LedgerCounts` | `SendsAreCounted`, `ReservationsAreHeld` | every step either leaves sends and holders alone, settles one attempt, or is `MarkSend` (`CountSteps`); cardinalities from the library's theorems on finite sets |
| `LedgerCounts` | `OverspendingStops`: `Spec => []OverspentRootStops` | `OverspentInv` with `HoldInv`: what overspends an account is the settlement of an attempt that was sent, so that its root exists and is failed by the same step, and no ended root is started again |
| `LedgerRefinement` | `AccountImplemented`: `Spec => ImplementsAccount` | with the invariants `AttemptInv`, `ReservedIsHeld` (the counter that `mark_send` compares is what attempts hold) and `HoldInv` (what holds budget was sent and has an account). A step sends (`MarkSendHolds`: a `Hold`), settles one attempt (`SettledSettles`: a `Settle`) or leaves holds and spending alone (`KeptStutters`) |
| `ExecutorProofs` | `ExecutorUsesLedger`: `XSpec => Spec` | a step of a tick is a transaction of its attempt's owner or leaves the ledger alone: every theorem about the ledger holds of the executors |
| `ExecutorProofs` | `ExecutorTypeCorrect`, `ComputeStaysAccounted`, `RefundsAreUnsent` | one inductive invariant, `ExecInv` |
| `ExecutorProofs` | `UnknownIsSettleable`: `XSpec => []UnknownSettleableUnlessRaced` | `CarriedInv` with `ExecInv` and `AttemptInv`: every transaction keeps what a row carries (`RowsCarry`), `unknown` since a tick ends as uncertain only after its send intent (`TickCalls`, `IntentFirst`) |
| `DirectProofs` | `DirectTypeCorrect`, `PermitsCover`, `OneComputeAtATime`, `NothingIsForgotten` | one inductive invariant, `DirectInv` |
| `DirectProofs` | `CapacityIsKept`: `Spec => []WithinCapacity` | `CapacityInv` with `DirectInv`: only a grant adds to what is known (`StaysKnown`), and a grant is made while all that is known has a permit (`ReadyKnows`), so that the check of the permits bounds it (`GrantFits`) |
| `DeliveryProofs` | `DeliveryTypeCorrect` | the types are inductive; the steps are grouped by the rows they change |
| `DeliveryInvariants` | `DeliveredEventsAreDone`, `WorkflowsHearTheLedger`, `CompletedIsAccepted`, `WindowIsKept`, `FailedBatchesFail` | one inductive invariant, `DeliveryInv` |
| `DeliveryInvariants` | `BatchesInOrder` | `BatchInv`, which adds the order of batches to it |

### Why the invariants are needed

*Ledger.* `OneLiveAttempt` is not inductive: from an unreachable state in which a free row
holds a snapshot, or a SUCCEEDED operation still has an unsettled attempt, an
owner's late `fail` or `unknown` would revive the operation. `AttemptInv` adds what
excludes this: a row that has not been sent carries nothing to settle or publish
(`Fresh`); an attempt that was drawn has an operation that exists, and snapshots,
scans and locked batches are of such attempts only (`Opened`); a SUCCEEDED operation
has only settled attempts (`SucceededSettled`) and the result of one of them
(`SucceededHasResult`). `OneLiveAttempt` and `SucceededSettled` are claimed as long as
no reclaim raced, the other parts always. `ResultStands` follows: an owner that
could replace a result acts on an attempt that is not settled, and a SUCCEEDED
operation has none.

`ReservedIsHeld` counts units, not attempts: an account's reserved column is the
cardinality of the union of `{a} \X 1..Bound` over the holders `a`, disjoint for
different attempts, so that `mark_send` adds and `_settle` removes exactly one
summand.

*Executor.* That running compute stays accounted relates three parties that never meet
in one transaction: the tick, the engine, and whoever settles the row. `ExecInv` says
where a tick stands for each state of the engine (`Drawn`, `IntentFirst`, `Reached`),
that a stop is confirmed only of an engine that stopped (`StopProven`), what the
reconciler's unlocked scan may have selected while the owner keeps its lease
(`ReclaimSafe`: nothing sent, or nothing that can still be sent), and that from the
send intent on the row holds the compute (`ComputeHeld`). `RefundSafe` is claimed as
long as no reclaim raced (`raced`, the finding of `Executor_unknown`).

`UnknownSettleable` is not inductive either: the row that `unknown` or a reclaim overwrites
must already carry what a settlement needs. `CarriedInv` says it of each state before that: a
sent row holds compute, a finished one its evidence, and only a settled one a committed
result. It needs the executor: in the ledger alone nothing stops an owner from calling
`unknown` on a row it has only reserved.

*Endpoint.* `PermitCoversCompute` speaks of permits that are taken and given back by six
coroutines and of an engine nobody can see. `DirectInv` consists of `Core` and `Queue`:

- `Epochs`, `ComputeKnown`: what the RAM knows trails the pool's row, which trails the
  process that serves; what is computed is of that process. A permit of an older epoch
  covers nothing, so that a refresh may release it.
- `DurableStage`, `DurableHeld`: where the executor stands, what the ledger says and what the
  engine sees. A sent attempt of the epoch that serves is held in the ledger, and has its
  permit while runtime-api is up; hence hydration restores every permit that matters, and
  reconciliation, which releases what the ledger has ended (`Reconciling`: and has ended
  by the time the answer is applied), none.
- `Generations`, `Recorded`: only the latest generation of a request is at the engine, and
  the record of an attempt says enough of it: RESERVED was not sent, UNKNOWN is not on its
  way any more, and an idle proof leaves nothing behind. Idle slots then prove that an
  UNKNOWN attempt is over, and a retry that nothing of the former one computes.
- `RowKept`: a clean endpoint has permits for the direct requests it computes; an endpoint
  without an owner row computes none, but for `orphans`. The second does not hold of the
  code without them, which is how `Direct_orphan` was found.
- `Settled` and `Queue`: a permit has a caller that will settle it or is UNKNOWN, a waiter has
  a caller that waits, and the line stays a linear order when calls join in the middle.

`WithinCapacity` speaks of what the engine computes, the capacity check of the permits in RAM,
and neither bounds the other across a restart: a start restores permits without the check.
`CapacityInv` therefore counts, besides permits and compute, what a start may restore while no
runtime-api runs (`Claims`): a process that ends turns permits into claims, a start claims back
a part of them, and executors only send what they had claimed. What was `forfeited` escapes
this count, since nothing of it was known to the process that granted its slot to another.

*Delivery.* No property of the runs is inductive, since each compares two ends of a chain.
`DeliveryInv` says how the rows along it follow each other: what exists at Temporal or in
the outbox exists in the ledger (`Submitted`); children start in the order of the items,
and those not in flight have ended (`Mapped`); an operation follows its activity, a binding
one of its attempts, an answer the ledger's decision (`Heard`); an event that was answered
has had its effect even if the acknowledgement is lost (`Delivered`); a confirmed success is
the run's or was overwritten (`Confirmed`); a failed batch was late before its run began
(`Failed`). `BatchInv` adds that a batch contains the item it starts with (`Opened`), and
that an item in a batch is preceded in its partition by items of it or of batches that
are over (`Ordered`).

### Only model-checked

- Liveness (`OperationsEnd`, `AttemptsSettle`, `RequestsEnd`, `PermitsReturn`, `DurableEnds`,
  `RunsEnd`, `EventsDelivered`, `InputsEnd`): fairness is out of the proof system's reach.
- The findings: a violation needs one behaviour, which TLC shows.

## 8. Not modelled

`PROJECT.json` lists every component with its status. Of the modelled ones, what is
left out stands with their modules above. Left out for good: payload preparation and
validation, language contracts, HTTP translation and authentication, object storage,
reports, the release gate and configuration: they keep no shared state, and what they
compute is data. The capacity controller computes targets that nothing applies
(`update_target` has no caller). The model step planner replays recorded calls inside
one workflow task. Notifications (`wakeup`) only shorten the polling intervals that
the fairness stands for. Row locks inside a transaction, and hence PostgreSQL's
deadlock aborts, are not modelled: an aborted transaction is a rolled-back one.
