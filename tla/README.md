# A TLA+ model of hookbox

hookbox is a durable webhook inbox. A provider posts a webhook; the server
verifies it, stores it once with one delivery row per configured emitter, and
only then answers 200. Background workers, one per emitter, drain the delivery
rows into Kafka, NATS, SQS or Redis, with retries and a dead-letter queue.

This directory holds a model of that system, the TLC runs that check it on
small instances, and TLAPS proofs of its main results for instances of any
size. Paths below are relative to the repository (`src/` in `PROJECT.json`).

## 1. Inventory

| Part | State it keeps | Operations | What makes it correct |
|---|---|---|---|
| Ingest pipeline (`hookbox/src/pipeline.rs`, `hookbox-server/src/routes/ingest.rs`) | per request: its stage, its new `ReceiptId` | `ingest`: verify, advisory dedupe, `store_with_deliveries`, record, answer | 200 only after the commit; one receipt per event; fan-out all or nothing |
| Advisory dedupe (`hookbox/src/dedupe.rs`, `hookbox-postgres/src/dedupe.rs`) | a map and a FIFO deque per process, behind a mutex | `check`, `record` | map and deque agree, the keys learnt last are kept, no false positive |
| Delivery queue (`hookbox-postgres/src/storage.rs`, `DeliveryStorage`; table `webhook_deliveries`) | state, attempt_count, next_attempt_at, last_attempt_at, immutable | `claim_pending`, `reclaim_expired`, `mark_emitted`, `mark_failed`, `mark_dead_lettered`, `insert_replay(s)` | a row is settled once, truthfully, and eventually; claims are exclusive; attempts are counted |
| Emitter workers (`hookbox-server/src/worker.rs`, `EmitterWorker`) | loop position, the rows of the current batch, a health snapshot | `spawn` (sleep, reclaim, claim, `join_all`), `dispatch_one`, `update_health`, `refresh_gauges` | at least once, no duplicate without a fault, emitters isolated from each other |
| Server lifecycle (`hookbox-server/src/serve.rs`, `shutdown.rs`) | watch channel, worker handles | `serve_inner`, `spawn_emitter_workers`, `supervise_worker`, `drain_worker_handles` | a failed start leaves nobody running; shutdown ends, with no batch cut off |
| Health (`worker.rs`, `serve.rs`, `routes/health.rs`) | a snapshot per emitter behind an `ArcSwap` | `update_health`, `refresh_gauges`, `derive_status`, `supervise_worker`, `readyz`, `list_emitters` | an outage shows, and nothing else does; degraded passes |
| Emitter adapters (`hookbox-emitter-*`, `hookbox/src/emitter.rs`) | a client buffer, a channel | `emit` | Ok is worth what the kind of adapter can promise; retries duplicate within bounds |
| Replay and derived state (`routes/admin.rs`, `hookbox/src/transitions.rs`, CLI `replay`, `dlq`) | further rows of the same receipt and emitter; what a request has read | `replay_receipt`, `replay_delivery`, `replay id`, `dlq retry`, `receipt_aggregate_state`, `list_receipts`, `get_receipt`, `list_dlq` | success of one emitter never hides another; rows are an audit trail; a row is for a name that is served, or was configured when the command began |
| Back-off (`transitions.rs`) | none | `compute_backoff` | capped, no panic |
| Legacy retry worker (`worker.rs`, `RetryWorker`; CLI `replay failed`) | processing_state, emit_count of a receipt; the batch each reader holds | `query_for_retry`, `retry_failed`, `reset_for_retry`, `update_state` | no receipt is stranded; overshoot is bounded; everything settles |
| Configuration (`config.rs`, `bootstrap.rs`, `emitter_factory.rs`) | none | `normalize`, `validate_emitter_entries`, `validate_retry_config`, verifier and emitter construction | what is fanned out to is drained, by one sound worker each |
| Verifiers (`hookbox-providers`) | none | `verify` of eight provider types | exactly what the provider signed, in time, is verified |

How they interact: the HTTP handler runs the pipeline in its own task; pipeline
and workers share only the database, in which every statement is atomic and a
transaction is all or nothing; workers learn of shutdown through a watch
channel. What is hard: every `await` is a point where another request, worker
or process moves, where the client may disconnect (the future is dropped) or
the process may die; leases expire by the clock, not by agreement; a commit or
an emit may succeed with its confirmation lost. `PROJECT.json` lists these
hazards at the lines where they bite.

## 2. Modules

| Module | Role |
|---|---|
| `DeliveryQueue` | the queue, its workers, the clock and the faults around them |
| `DeliveryLedger` | abstract: a delivery is open until it is settled, once and truthfully |
| `DeliveryQueueProofs` | proofs about `DeliveryQueue` |
| `MCQueue` | instances of `DeliveryQueue` for TLC |
| `Ingest` | the ingest path of several processes on one database, cache and pool included |
| `Inbox` | abstract: an event is stored once with its fan-out, and then told of |
| `IngestProofs` | proofs about `Ingest` |
| `MCIngest` | instances of `Ingest` for TLC |
| `Lifecycle` | a server process from its start to its end: tasks, signal, drain |
| `LifecycleProofs` | proofs about `Lifecycle` |
| `MCLifecycle` | an instance of `Lifecycle` for TLC |
| `LegacyRetry` | retries at the level of a receipt: RetryWorkers and `replay failed` |
| `LegacyRetryProofs`, `MCRetry` | proofs and instance |
| `Receipts` | replays, views, the derived state, edits and restarts; extends `LegacyRetry` |
| `ReceiptsProofs`, `MCReceipts` | proofs and instance |
| `Adapters` | what Ok and Err of each kind of `emit` say about an event |
| `Health` | a worker dispatching through an adapter, its snapshot, supervisor and probes; extends `Adapters` |
| `HealthProofs`, `MCHealth` | proofs and instance |
| `Config`, `Verifiers`, `Backoff` | the pure parts, as operators |
| `Boot` | `hookbox serve` from a file to verdicts and retry dates; extends the three |
| `BackoffProofs` | proofs about `compute_backoff` |
| `BootProofs`, `MCBoot` | proofs and instance |

### DeliveryQueue

State: the columns of a row (`state`, `attempt_count`, and two flags for the
clock, `due` for `next_attempt_at <= now()` and `expired` for
`last_attempt_at < now() - lease`), the position of each worker in its loop
(`pc`), the `dispatch_one` future of each worker and row (`task`) with the
`attempt_count` that the claim returned to it (`seen`). `copies` and `failures`
are history: what the downstream system took, and which emits returned an
error. A future that ends drops its copy of the row (`EndTask`). Each SQL statement is one action with the guard of its `WHERE` clause;
`ClaimPending` also starts the futures, because nothing happens in between.
`ClaimError` covers both error paths of `claim_pending`: the statement failed,
or it committed and the read of a receipt failed after it.
`ORDER BY next_attempt_at LIMIT n FOR UPDATE SKIP LOCKED` is any non-empty set
of at most `BatchSize` due rows. The clock raises `due` and `expired` at any
moment, so no property depends on back-off lengths or on the clocks of
application and database agreeing. A lease that runs out under a worker still
dispatching (`LeaseOverruns`) happens only with `Overrun = TRUE`.

Faults (`MaxFaults` of them): a failed reclaim, claim or mark statement, a
crash, an emit that times out after the event was taken, an overrun lease. An
emit that simply fails is not a fault; it is what the retries are for.

### Ingest

State: the committed rows (`receipts`, `deliveries`), the stage of each request
(`pc`), the process that handles it (`host`), how often it was sent (`tries`,
which makes `<<r, tries[r]>>` a fresh `ReceiptId`), the rows its open
transaction has inserted (`fanned`), and the cache of each process (`map`,
`order`). `acks` and `learnt` are history: every 200 ever given, and the keys
each cache was told, in order; `CacheCoherent` says that the deque is the end
of `learnt`. Each `await` of `ingest` and
of `store_with_deliveries` is one action. The unique index on `dedupe_key` is
modelled as PostgreSQL implements it: an INSERT waits while another transaction
holds the key, then finds a conflict or does not. A request holds a connection
of its process's pool from `begin()` to the end of its transaction, and needs
a free one for the lookup, for `begin()` and for the fetch of the existing id.
The advice of the dedupe layers decides nothing but whether the database is
asked, as in the code. Verification is the predicate `Forged`.

Faults: a failed statement or connection wait (500, roll-back), a commit whose
confirmation is lost, a client that goes away at any stage, a lost answer, a
crash of a process with its cache and its requests.

### Lifecycle

State: where `serve_inner` is (`main`), how many entries it has spawned, the
list `worker_handles` and how much of it was awaited, the value of the watch
channel (`signal`) and, for each worker, whether a value was sent that it has
not looked at (`unseen`), and the state of the three tasks an entry may have:
the worker, the supervisor around it and the drain task of a channel emitter.
`late` is history: the batches a worker began after the signal. The main task
and every other task interleave freely. A worker is before the `select!`,
asleep in it, past it (reclaim and claim) or in a batch; while the worker is
asleep both arms of the `select!` may be ready and either is taken, so a worker
may begin one batch after the signal (`OneLateBatch`), and no more. A worker
whose emitter panics ends at once; everything else that happens in a batch is
in `DeliveryQueue`.

Any start may fail before the workers, any entry may fail to build, any worker
may panic, and the server may fail while it serves.

### LegacyRetry

State: the columns `processing_state` and `emit_count`, what each worker or
operator has read and not handled (`batch`), and the outcome of an emit that is
not recorded yet. A worker reads a batch, emits and records, one statement
each; `hookbox replay failed` reads and resets receipt by receipt. None of the
writes tests the state it finds. `late` is history: receipts that were marked
emitted after the reader read them. Faults: failing statements; the command
ends at one (`ResetFails`, which also stands for an interrupted command).

### Receipts

State: the receipts stored, `webhook_deliveries` as a sequence in the order of
`created_at`, the emitters in the file (`config`) and those the running server
was started with (`emitters`), and for each client or viewer its operation
between two statements (`op`). The admin API checks names against the running
server, the commands against the file they have read. The workers are reduced
to what they do to the state of a row (`Claim`, `Dispatched`). A command keeps
the names it read in the file (`op[c].file`): between that and its insert the
file may be edited and the server restarted, and then the row is for a name
nobody serves. `TargetsAreServed` says that this is the only way to one.
`created_at` is `now()` of the
inserting transaction, and its order is taken to be that of the commits; two
transactions that overlap could commit in the other order.

### Adapters, Health

`Adapters` follows an event through an emit. The confirming adapters (Kafka,
SQS, Redis) have a request in the network, which may arrive after the adapter
gave up, and which librdkafka (idempotence is not switched on) and the AWS SDK
(default retries) may send again within one emit (`Resend`); the buffering ones (NATS, the channel, Kafka with `acks = 0`) return
Ok when the event is in a buffer of the process. The brokers are external. A
FIFO queue of SQS knows a deduplication id for five minutes (`Forget`).
`Health` is the worker around it: a batch of futures in one task, which
interleave only at the emit and at the mark, `update_health` after the mark,
the tick, the supervisor of a task that panicked, and requests that ping the
database and then read the snapshot. `recent` is "the last failure is less than
60 s ago"; `streak` is history, counted apart from the snapshot. The comment of
`update_health` fears lost updates between futures of one batch; they run in
one task and there is no `await` between its load and its store, so there are
none.

### Config, Verifiers, Backoff, Boot

`Config` has the normalisation and the validations; `Verifiers` what each of
the seven verifiers makes of timestamps, signatures, several of each, and
undecodable parts, with ideal signatures; `Backoff` is `compute_backoff` with
the special values of f64 (NaN and infinity are model values, saturation is at
`MaxFloat`), the conversion to `chrono::Duration` and the date. An f64 is
counted in hundredths, rounded down, so that multipliers between 0 and 1, which
no validation refuses, are there. It is the release build: the
`debug_assert!`s of the function do not exist. `Boot` starts a server from a file, with any step failing, and then has
it judge requests put together item by item from what the provider signed and
from foreign parts, and schedule retries.

## 3. Runs

| Run | Instance | Shows |
|---|---|---|
| `queue_overrun` | 2 emitters, one with 2 workers and one with 1, a row each, 3 attempts, 1 fault, overruns, fairness for the first emitter only | `AttemptsAreFailures`, `DuplicatesNeedFaults`, `FailuresBounded`, `ImplementsLedger`, `FirstSettles` |
| `queue_exclusive` | 2 workers, 2 rows and a backfilled one, batches of 2, 2 attempts, 2 faults | `Exclusive`, `FailuresBounded`, `AttemptsNeverRegress`, `LegacyUntouched` |
| `ingest_race` | fairness, 2 processes, 2 requests for one event and a forged copy, 2 emitters, pools of 1, 2 faults | `TypeOK`, `AckedIsDurable`, `StoredOnce`, `FanOutAtomic`, `ImplementsInbox`, `EveryWebhookAnswered` |
| `ingest_cache` | 1 process, 2 requests for one event and one each for two others, a cache of 2, a pool of 1, 1 fault | `CacheCoherent` |
| `lifecycle` | fairness, 3 emitters, the second with a drain task; panics, failed builds, a failing server | `TypeOK`, `NobodyLeft`, `PanicsAreReported`, `OneLateBatch`, `ShutdownCompletes`, `PanicShows` |
| `retry` | fairness, 2 RetryWorkers, 1 operator, 2 receipts of an old database, batches of 1, 2 attempts, 1 reset, 1 failing statement | `NeverStuck`, `RetriesBounded`, `OnlyStaleReadersReopen`, `FailedSettles` |
| `receipts` | 1 receipt, old or new, up to 3 rows, 2 configurations, one who replays, one who looks, one who runs `replay failed`, any edits of the file, restarts and failing statements | `ReceiptsTypeOK`, `EmittedReached`, `TargetsAreServed`, `ViewWasTrue`, `AuditTrail` |
| `health` | fairness, 2 events (3 emits), four kinds of adapter, a channel of 1, threshold 2, 1 probe, 1 panic, 1 fault | `AckedIsDownstream`, `CopiesBounded`, `ReadyzIsTruthful`, `HealthyIsQuiet`, `DegradedDecays` |
| `boot` | files with each flaw, strange policies (a multiplier of 0.5 among them), all eight provider types; 2 signed webhooks, requests of 3 items, a clock of 0..2 with a tolerance of 1 | `FanOutIsDrained`, `VerdictIsRight`, `BackoffIsSound` |

Three runs end in a counterexample: the code does something else than a document
says.

| Run | What happens |
|---|---|
| `queue_stale_mark` | Two processes. The lease of a worker runs out, the other process reclaims, claims and fails the row, claims it again; now the `mark_failed` of the first finds `in_flight` and sets `attempt_count` back. The guard of `mark_*` tests the state, not the holder. The same interleaving lets a stale `mark_emitted` or `mark_dead_lettered` settle another worker's lease (truthfully, as the refinement shows). |
| `queue_dead_letter` | The fan-out design has the worker persist `attempt_count = next_attempt` and then decide, and `fanout.rs:266` says 1→2 of the row that is dead-lettered. `mark_dead_lettered` does not write the count: after `max_attempts` failed emits it is `max_attempts - 1`. |
| `ingest_rejected` | The README says a webhook that fails verification is stored; it is answered 401 and dropped. (The README says the same of duplicates; `ImplementsInbox` shows that only the first copy is stored.) |

Further disagreements met while modelling, described here without a run:

- `max_attempts` is documented to bound dispatches (`hookbox/src/state.rs:281`);
  it bounds what was counted. A failed emit whose mark is lost
  (`worker.rs:345`) is not counted; `FailuresBounded` says by how much.
- The SQS adapter claims "exactly-once delivery" of a FIFO queue
  (`hookbox-emitter-sqs/README.md:5`, `lib.rs:20-22`). The deduplication id is
  known for five minutes only; with the default policy the attempts come about
  30, 60, 120 and 240 s apart, so that the fifth may follow a copy taken by the
  first, whose answer was lost, by more than that. `CopiesBounded` says what holds:
  one copy, and one more for each time the queue forgot the id.
- `prop_backoff_monotonic_under_no_jitter` draws multipliers of at least 1.0;
  one below passes the validation, and then every retry comes sooner than the
  one before (`SmallMultipliersShrink`).
- `hookbox replay failed` asks the column `processing_state`
  (`storage.rs:583`), which no part of this release sets to a failed state, and
  resets it for the RetryWorker, which `hookbox serve` does not run. On a
  database of this release it finds nothing.
- The admin API shows the derived state and filters on the column; the
  commands `receipts list` and `receipts inspect` show the column.
- `hookbox config validate` stops after `parse_and_normalize`; a file it calls
  OK may still be refused by `hookbox serve` for its retry section or its
  providers.

Bounds. Every race in the queue is between two holders of one row, so two
workers and one or two rows show it; three attempts and a fault, the overrun,
let a stale mark arrive after the next holder has counted. More faults, rows and
workers are in the proofs. The second emitter of `queue_overrun` has a worker
that may stop anywhere. In `Ingest` the races are
between two requests for one event, on one process (pool, cache) or two; two
faults let a retry fail again. A cache of two and three events show which one is
forgotten. `MaxFaults` bounds counters and makes every
liveness run finite. In `Lifecycle` three emitters let one fail to build beside
two running workers, and put a drain task between two others in the list of
handles.

In `LegacyRetry` two workers and an operator are every pair of racing writers;
a batch of one with two receipts makes the LIMIT bite; `MaxResets` bounds the
runs of the command and `MaxRetryFaults` the failing statements. In `Receipts`
three rows (`MaxRows`) are a fan-out to two emitters and a replay, or a
backfilled row and two replays; edits of the file, restarts, failing statements
and unconfirmed commits are not bounded, and come at any moment, between the
check and the insert of a command too. In `Health` two events are the smallest batch that mixes outcomes, `MaxCalls` lets
one of them be retried after a timeout, the one fault is a request sent again, a
lost buffer, a closed client or a failed statement, a panic is free and happens
once, and a threshold of 2 is reached within
one batch or across two; `kafka` stands for `sqs` and `redis` too, which it
differs from only in name, and `nats` for `kafka_acks0` (the proofs are of all
kinds). In `Boot` an entry has at most one flaw, so each validation is needed
for some file; `MaxClock` reaches beyond the tolerance on both sides,
`MaxItems` is a timestamp with two signatures or a second timestamp, and the
ranges of dates and durations are scaled so that each of them is exceeded by a
policy.

The queue, `LegacyRetry` and `Health` are checked for deadlock (their workers
poll for ever); the others are not: once every webhook is answered, the process
has ended, or the bounds are used up, the modelled world stops.

Fairness. Queue: weak fairness of each worker's loop and of its futures (the
runtime polls them), of an emit's end (the Kafka, SQS and Redis adapters bound
it by a timeout; NATS hands it to a buffer, assumed not to stay full), of a
restart (a supervisor of the process is assumed; hookbox itself does not
restart a worker that panicked, it marks it unhealthy), and of the clock.
Nothing is assumed of faults. With unbounded overruns a row may bounce between
two workers for ever, so liveness is claimed for finitely many faults. Ingest:
weak fairness of each handler and of the provider's resending. Lifecycle: weak
fairness of the main task and of every worker, supervisor and drain task; the
batches and the connections of a stopping server come to an end. Nobody needs
to ask for the shutdown. LegacyRetry: weak fairness of each RetryWorker's loop,
whose every await ends, and nothing of the operators; with `MaxResets` runs of
the command the receipts settle. Health: weak fairness of the worker's task, of
its supervisor, of the 60 s window and of whatever empties the buffer; nothing
of brokers and probes. `Receipts` and `Boot` state safety only and assume no
fairness.

## 4. Proofs

All for arbitrary constants satisfying the named assumption of each module
(`QueueAssumption`, `IngestAssumption`, `LifecycleAssumption`,
`LegacyRetryAssumption`, `ReceiptsAssumption`, `AdaptersAssumption`,
`HealthAssumption`, `BackoffAssumption`, `VerifiersAssumption`,
`BootAssumption`).

`DeliveryQueueProofs`. `QueueInv` (types; a future works from a count that is
below `max_attempts` and not above the failures; a future that is about to
record a failure has one failure more than it has counted; a row is terminal
only with its reason; backfilled rows are in no future's hands) is inductive
without any assumption on leases, and gives `TypeOK`, `AttemptsAreFailures`,
`LegacyUntouched` and the refinement `ImplementsLedger`. `Exclusive` is
inductive with `LeaseInv` if emits end within their leases or there is one
worker per emitter; `AttemptsNeverRegress` follows. (Without that hypothesis
both are false: `queue_stale_mark`.) Under it `CountInv` charges every
uncounted failure to a fault, which is the sharp half of `FailuresBounded`.

`DuplicatesNeedFaults` and the other half of `FailuresBounded` are proved
without any hypothesis on leases, where a row may be in the hands of several
workers and a stale mark may set its count back. No bound on the row alone is
inductive there; `PaidInv` keeps accounts of what is still to come. A future
that has not called the downstream system, or is about to record a failure,
stands for one more copy (`Call`) and for the failures from its own count up to
`max_attempts` (`Try`). A row that can be claimed again without a fault
(`Open`: not settled, and if in flight then expired or held by nobody) stands
for as much (`Reopen`, `Series`). What happened, plus what the futures of all
workers and the row stand for, is at most one copy, and one series of
`max_attempts` failures, for the start and for each fault used. A claim moves
the row's share to a future, a `mark_failed` moves it back, and only a fault
adds to it. The sum over the workers is the number of pairs of a worker and one
of its units (`Total`), so that it needs no recursion: `TotalChange` says that
it changes by as much as the one worker's number does. For this the set of
workers is assumed finite. `DispatchInv` (only a worker in its dispatch has
futures) says that a claim overwrites none.

`IngestProofs`. `IngestInv` adds to the properties what makes them inductive:
`LockInv` (a transaction that inserted its receipt holds the key alone and no
receipt of the key is stored), `StageInv` (what is known at each stage) and
`TriesInv` (a webhook is sent again only after a fault). It gives `TypeOK`,
`AckedIsDurable`, `StoredOnce`, `FanOutAtomic` and `ImplementsInbox`. The cache
is proved coherent, with its order, for every capacity from lemmas on popping
and pushing a deque without repetitions that is the end of a longer sequence.

`LifecycleProofs`. `LifecycleInv` says what holds in each phase of the main
task, that every task has its handle in the list and the handles awaited so far
are of tasks that have ended (`HandleInv`), that a supervisor ends only after
its worker and as it did (`TaskInv`), that `lost` is exactly what failed among
the handles awaited (`ReportInv`), and that a late batch is a worker's last
(`LateInv`). It gives `TypeOK`, `NobodyLeft`, `PanicsAreReported` and
`OneLateBatch`. The argument for `NobodyLeft`: at the end all handles were
awaited, every task has one, and what has ended stays ended (`Steady`).

`LegacyRetryProofs`. `NeverStuck` is inductive as it stands, which is the point
of writing count and state in one statement. `OnlyStaleReadersReopen` needs
`LateInv` (whoever holds an emitted receipt is marked late), and
`RetriesBounded` needs `Overshoot` (the count, plus the workers that hold the
receipt and may add one each, stays within `max_attempts - 1` plus the number
of workers); it is stated for at least one worker. That the next receipt of a
batch is a member of it rests on the well-ordering of the naturals.

`ReceiptsProofs`. Every step either keeps the rows, appends to them or changes
the state of an open one (`Kept`), which is `AuditTrail`; for it an immutable
row must never be in flight. Because of `Kept`, what an operation remembers
stays true while it waits (`OpOK`, `OpKept`): its emitters were in the file it
read, or the server runs them (`TargetsAreServed`), its dead letters are dead, and a receipt that had no
mutable row when its column was read had that column for its derived state,
which with the second read gives `ViewWasTrue`. `EmittedReached` needs the
youngest row of an emitter to exist (`Greatest`).

`HealthProofs`. Every step of `Health` is a step of an adapter or settles a
call (`AdapterView`). `AdapterInv` (a waiting call of a confirming adapter has
a request in flight; what has landed or is remembered is stored; what is stored
or in flight was sent by a call or sent again by the client library) gives
`AckedIsDownstream` and `CopiesBounded`; that the snapshot counts exactly the
current streak until the worker is reported dead (`Snapshot`) gives
`HealthyIsQuiet` and `ReadyzIsTruthful`.

`BackoffProofs`. `Powi` is a recursive function, and no induction theorem can
be applied to it. But the naturals are well-founded, so a set of exceptions
that is not empty has a least member (`Least`), and that one can be refuted
with the first-order provers. In this way tables of the first n powers exist
and agree (`PowersExist`, `PowersUnique`), hence `Powi` satisfies its equation
(`PowiEquation`), and every fact about all powers follows as well:
`PowiType`, `PowiAtLeastOne`, `PowiShrinks`. From these follow that
`compute_backoff` stays within `max_backoff` for every validated policy
(`ComputeBackoffBounded`), with overflow, `0 * Inf`, NaN jitter and multipliers
that are not positive; that without jitter and with a multiplier of at least 1.0
it never shrinks (`BackoffMonotonic`) and starts with `initial_backoff`
(`FirstBackoffIsInitial`), the two facts that
`hookbox-verify/src/backoff_props.rs` tests on samples; that with a smaller one
it never grows (`SmallMultipliersShrink`); and that only a date beyond the
calendar panics (`OnlyFarDatesPanic`).

`BootProofs`. The validation makes the normalised entries sound and their names
distinct (`ValidatedEntries`); `BootInv` says that the pipeline's names and the
workers are copied from these entries and nothing else. It gives
`FanOutIsDrained` for every set of files. Because a worker's policy is one that
passed the validation, and `due` names the worker, `DueInv` and `ComputeBackoffBounded` give
`BackoffIsSound`. `VerdictIsRight` is proved for every length of a request and
every clock: `WireInv` says that what carries the provider's key on the wire is
a signature the provider made, so a signature that a verifier finds right is
the provider's own (`OwnSignature`), and the timestamp a scheme picks, the
first or the last of several, is the one signed with it
(`SignedInTimeIsAuthentic`, `GenericHmacIsAuthentic`), which is
`VerifiedIsAuthentic`; `HonestIsVerified` is the other direction.
`BootAssumption` says that a file is of the type that serde gives it
(`HookboxConfig`) and has at most the one provider the model follows (verifiers
of several providers are keyed by name and share nothing).

The types of `DeliveryQueue`, `LegacyRetry` and `Health` are proved and not
listed in a run.

Only model-checked: the liveness properties (`FirstSettles`,
`EveryWebhookAnswered`, `ShutdownCompletes`, `PanicShows`, `FailedSettles`,
`DegradedDecays`), which need fairness and ENABLED. Every other property of a
passing run is a theorem.

## 5. Not modelled

- The mathematics of signatures, the client libraries and the brokers
  (external), TOML and HTTP syntax, error texts, tracing.
- The bearer token of the admin API, `/healthz`, `/metrics` and the numbers of
  the gauges: nothing else depends on them. (A failing count shows as 0 in the
  gauges.)
- `get_delivery` and the commands `receipts`, `emitters list`, `dlq list`,
  `dlq inspect`: single reads that are printed.
- A RetryWorker that dies: it keeps nothing but its batch, and the receipts it
  had not recorded are read again.
- A `max_attempts` that is changed between two runs of the server.
- The verification crate and the scenario tests, which are tests themselves.

What could follow: `Ingest` and `DeliveryQueue` composed into one
specification of an acked event that reaches every emitter or its dead
letters. Today the link between them is `FanOutAtomic` on one side and the
initial rows of the queue on the other.
