# aiokpl: TLA+ models and proofs

aiokpl is an asyncio/trio producer for Amazon Kinesis in the style of the KPL:
`put_record` buffers user records, aggregates them per predicted shard,
rate-limits, collects them into `PutRecords` requests, classifies the results
and retries. This directory holds TLA+ models of its core, TLC configurations
that check them on small instances, and TLAPS proofs for any instance. All
paths below are relative to the repository; line references are in
`PROJECT.json` (`map`).

    tlc -config MCReducer.cfg MCReducer                one run
    tlapm ReducerProofs.tla                            the proofs about one module

## 1. The system

Everything runs on one event loop. A *task* only loses control at an `await`;
the anyio locks guard bodies that contain no other `await` (except
`Producer._pipeline_lock`, held while a pipeline is built), so what interleaves
is the code between awaits. The records of a stream flow

    put_record -> Aggregator -> Limiter -> Collector -> Sender -> Retrier -> Outcome
                      ^                                               |
                      +------------------- retry ---------------------+

and there is no queue between two stages: whichever task closed a batch calls
the next stage itself (a caller of `put_record`, a reducer's timer, the
limiter's drain loop, `flush`), up to the collector, whose batches get a send
task of their own.

| Component | State | Operations | Interacts with | What makes it correct |
|---|---|---|---|---|
| `reducer.py` Reducer | active batch, timer scope, closed flag | `add`, `flush`, `aclose`, timer task, `_fire` | owned by aggregator (one per predicted shard) and collector; spawns timers in their task group | no item lost, duplicated or stuck without a timer; batches within limits, packed in deadline order; a stale timer closes nothing |
| `aggregator.py` Aggregator | reducers by predicted shard | `build_buffered`, `put_buffered`, `flush`, `aclose` | asks ShardMap, feeds Limiter | an aggregate holds records of one shard and is routed to it |
| `limiter.py`, `token_bucket.py` | deadline-ordered queue and bucket per shard, drain task | `put`, `flush`, drain loop, `aclose` | feeds Collector, reports expired batches to the Retrier | each batch leaves its queue once, admitted or expired; the rate is kept |
| `collector.py` Collector | one reducer of aggregates | `put`, `flush`, `aclose` | starts send tasks | as the reducer's |
| `sender.py` Sender | none | `send` | Kinesis | every error becomes data |
| `retrier.py` Retrier | none | `handle` | Aggregator (retry), Producer (finish), ShardMap | each record is finished or retried, exactly once per attempt; success means stored where it belongs |
| `shard_map.py` ShardMap | snapshot, state, closed shards, backoff, refresh and cleanup tasks | `start`, `predict`, `hashrange`, `invalidate`, `aclose` | ListShards | predictions come from one topology; refreshes end; closed shards stay answerable |
| `producer.py` Producer | semaphore, outstanding count, pipelines, pending Outcomes | `put_record`, `flush`, exit | all of the above | backpressure is exact; every returned Outcome resolves; exit ends |
| `outcome.py` | one-shot value | `set_value`, `wait` | | set once |
| `sync.py` SyncProducer | entered flag, portal, dispatcher task, command stream without buffer | `put_record`, `flush`, enter, exit, `SyncOutcome.wait` and `cancel` | threads of the user; Producer | every call comes back, `flush` drains, exit ends |
| `metrics.py` MetricsManager | a rolling window of one-second buckets per key, upload task | `put`, `snapshots`, `flush`, upload loop, exit | all stages, a sink | windows are exact, nothing slides out before an upload, the last window is exported |
| `aggregation.py` and `AggregatedBatch` of `aggregator.py` | builder tables; records, key sets and size estimate | encode, decode; `add`, `remove_last` | Aggregator, Sender | decode(encode) is the identity, no partial record, the estimate covers the encoding |
| `hashing.py`, `config.py`, `sinks/` | none of their own | hash keys, parameters, formatting and network I/O | | |

What is hard here: several live timer tasks per reducer; tasks that carry other
callers' records and may be cancelled; retries that re-enter the first stage
while the pipeline is being closed; a cached shard map that is always behind
the stream; a request that failed but was executed; expiry, tokens and retries
on one clock; threads that race with the exit of the facade; an upload that
takes as long as the window it uploads. `PROJECT.json` lists these
as `hazards`, each at its line with the properties that would catch it.

## 2. Modules

| Module | Models | Composes |
|---|---|---|
| `Batcher` | abstract: what a batching stage promises | |
| `Reducer` | `reducer.py`, with size estimate, predicate and limits as parameters | INSTANCE Batcher |
| `WellOrder` | lemmas: extremal elements, induction and sums over finite sets, recursion on naturals | |
| `ReducerProofs` | proofs about `Reducer`, and that it implements `Batcher` | EXTENDS Reducer, WellOrder |
| `MCReducer` | an instance with the aggregator's size estimate (partition keys counted once) and the collector's per-shard threshold | EXTENDS Reducer |
| `Producer`, `MCProducer` | `producer.py` and the hand-over between the stages | its buffers are used as `Batcher` promises |
| `ProducerProofs` | proofs about `Producer` | EXTENDS Producer |
| `ShardMap`, `MCShardMap` | `shard_map.py` against a stream that is resharded | |
| `Routing`, `MCRouting` | prediction, batching per shard, validation of the actual shard, invalidation (`aggregator.py`, `retrier.py`) | EXTENDS ShardMap |
| `RoutingProofs` | proofs about `ShardMap` and `Routing`, and that the latter uses the map as the former allows | EXTENDS Routing |
| `TokenBucket` | `token_bucket.py` as operators on a bucket | |
| `Limiter`, `MCLimiter` | `limiter.py` on a clock, with the retrier's TTL and the stages' deadlines around it | EXTENDS TokenBucket |
| `LimiterProofs` | proofs about `Limiter` | EXTENDS Limiter, WellOrder |
| `SyncProducer`, `MCSync` | `sync.py` over what `Producer` shows of the async producer | |
| `SyncProofs` | proofs about `SyncProducer` | EXTENDS SyncProducer |
| `Metrics`, `MCMetrics` | `metrics.py` | |
| `MetricsProofs` | proofs about `Metrics` | EXTENDS Metrics, WellOrder |
| `Aggregation` | `aggregation.py` as operators on byte strings | |
| `AggregatedBatch`, `MCAggregatedBatch` | the container of `aggregator.py` and its encoding | EXTENDS Aggregation |
| `AggregationProofs` | proofs about `Aggregation` and `AggregatedBatch` | EXTENDS AggregatedBatch, WellOrder |

Definitions named "Mutant" in a comment are faulty variants of the definition
that follows; with the variant in its place the property named in
`PROJECT.json` (`mutants`) is violated. No specification uses them.

### Batcher

What the stages before and after a reducer rely on: an accepted item leaves in
exactly one batch, a batch holds the earliest deadlines of those waiting, and
what is discarded at the close never leaves. `Reducer!Stage` maps `waiting` to
`active`, `batches` to the item sets of `out` and `lost` to `dropped`.

### Reducer

State: `active` with arrival numbers (exactly the order `sorted` works on, see
the module's header), `scope`/`scopes` for `_timer_scope`, `timers` for the
live timer tasks, `closed`, the batches handed over (`out`), the items `aclose`
dropped. Every body under `self._lock` is one action: `Add`, `Flush`, `Aclose`,
`TimerFire`. A timer task is `due`, wakes (`TimerWake`), waits for the lock and
fires; a cancelled one ends at a time of its own (`CancelDelivered`), or fires
if it was already past its last cancellation point, which is what the check of
the scope in `_fire` is for.

### Producer

One action per stretch of code between two awaits. A *hand-off* in `flight` is
a batch held by a task between two stages, with the records in it and, after a
reply, those that were reported successful. Cancelling a `put_record` call, the
cancellation of the drain loop at exit, and an exception in a task drop that
task's hand-offs. A stage that has been closed raises: the aggregator when a record
re-enters, the collector when it would start a send or arm a timer
(`reducer.py:188`), its records staying behind in the buffer. The aggregator and the collector are sets from which an add,
a timer or a flush closes some non-empty part: this is what `Reducer` is shown
to do. Tokens and expiry are a nondeterministic choice; `record_ttl_ms` is a
bound on attempts with an early failure always possible. `phase` follows
`__aexit__` and the exit stack. One stream.

### ShardMap and Routing

The stream goes through a fixed history of topologies. A refresh is split at
its awaits: fetching (one listing is atomic), sleeping, waiting for the lock,
installed. `invalidate` is split at the lock. The clock saturates at `MaxTime`,
which stands for all later times, so that a listing can fail for ever in a
finite model. `Routing` adds records: predicted, put into that shard's reducer,
closed into a batch with a first record, stored by Kinesis on the open shard
that owns the first record's hash key, and judged by `_handle_success` with the
map as it is then.

### Limiter and TokenBucket

Tokens and time are integers: a tick is a fraction of a second and the rate is
per tick. A query grows the streams in order and stops at the first that fails,
as `try_take` does; a growth moves `last` only if it is positive. A queue is
the set of batches in it, ordered by deadline and rank of insertion. The bodies
of `put`, the drain loop and `flush` under the limiter's lock are one action
each; what they drained is dispatched in later steps (`Admit`, `Expire`), so the
other tasks run in between. `until` is `expires_at` in a queue, and in the
aggregator or in a request the moment at which the stage gives the record up.
`since` and `used` are history variables: a moment, chosen at the start, and
what was admitted since. A batch is one record (a retried batch is split into
its records). The clock is *prompt*: time passes only when no task is ready, so
a tick is the resolution at which delays of the event loop are neglected.

### SyncProducer

`thread[c]` is the caller of command `c`: one thread per record, one that calls
`flush`, one that leaves the `with` block. A call is split where a thread may be
preempted: the check of `_entered`, the send on a stream without buffer (senders
wait in `line`), the answer, and in `put_record` a second read of the portal.
`running` is the dispatcher: receiving, executing a command, or leaving the
producer. A flush that times out while `Producer.flush` holds a batch loses it
(`lost`), with its slots; `Producer` shows why. The dispatcher hands every error
to the caller: a put that the producer refuses (`PutRaises`), and a flush that
raises something other than its timeout (`FlushRaises`). `Producer` has no such
flush before the exit; the branch is in the model because `__exit__` treats it
differently: it suppresses a `TimeoutError` only, and after any other error leaves
the portal without a shutdown command. `portal` is `closing` while
`portal_cm.__exit__` waits for the tasks of the portal. `SyncOutcome.wait` returns
when the outcome is set (`WaitEnds`, fair), or earlier if it was given a timeout
(`WaitTimeout`, which nothing obliges). A failing `__enter__` changes nothing and
is not an action.

### Metrics

An accumulator is the sequence of its one-second buckets. An export takes time
and may raise; meanwhile observations are put, and the exit's own flush may
overlap the loop's. `carried`, `exported` and `due` are history variables.

### Aggregation and AggregatedBatch

Byte strings are sequences of `0..255`. A message is written as a sequence of
fields, each a tag and a value (`Encode`, `EncodeField`). The three decoders
share one loop in the model (`Fields`), followed by the choice of the fields each
of them knows; in the code the loop is written out three times. The code's loops
are recursive functions of the rounds, bytes or records left. md5 is some
function with sixteen bytes, strings are their UTF-8. `AggregatedBatch` is a
state machine of `add` and `remove_last`; its properties hold the wire format
against the container in every batch that additions and undos can build.
`RoundTrip` also puts fields that the schema does not have (`Additions`) around
the tables and into every record.

## 3. Runs

Passing runs:

| Run | Bounds | Shows |
|---|---|---|
| `reducer` | 4 items, deadlines 2, 1, 3, 3, sizes from 2 to 9, count limit 3, size limit 8, threshold 7, clock to 3 | types; `Conservation`; `TimerArmed`: buffered items always have a live timer by their earliest deadline; `BatchesFit`; `NeverEarly`: stale timers close nothing; `FifoByDeadline`; `EveryItemLeaves`; `ImplementsBatcher` |
| `producer_open` | 3 records, 2 slots, 1 retry, every call may be cancelled | types; `SlotsAccounted`; `NeverDuplicated`; `NeverLost` while no call was cancelled |
| `producer_live` | 2 records, 1 slot, 1 retry, exit | `PutReturns`, `ReturnedResolves` until the exit has closed the pipeline |
| `producer_exit` | 2 records, 2 slots, exit, one call may be cancelled | `OutcomesTruthful`, `ExitCompletes` |
| `shard_map` | 4 hash keys, 3 topologies (a split, then a merge), 2 callers of invalidate, clock to 6 | types; `PredictionsOnceTrue`; `ClosedShardsAnswerable`; `OneRefresh`; `RefreshEnds`; `StartEnds` |
| `routing` | 3 hash keys, 2 records of one shard that a split separates, 2 retries | `SuccessOnRightShard`; `MismatchMeansResharded` |
| `limiter` | 2 records, one larger than the bucket, 1 shard, 1 record and 2 byte units per tick, TTL 2 ticks, all delays 1 tick, clock to 8 | types (no stream is overdrawn); `RateKept` since any moment; `QueueDrains`; `AdmitsByDeadline`; `LifetimeBounded` |
| `sync` | 2 putting threads, 1 slot, one user flush, one exit | `NobodyForgotten`; `FlushDrains`; `OutcomeSetOnce`; `CallsReturn`; `ExitReturns` |
| `metrics` | 3 observations on 2 keys, window of 2 s, ticks of half a second, clock to 6 | `WindowExact`; `NothingSkipped`; `LastWindowExported` |
| `aggregated_batch` | batches of up to 3 out of 5 records that share keys or not, data of 0, 4, 122, 127 and 128 bytes | `RoundTrip`; `NoPartialRecord`; `EstimateCovers` |

Why these bounds: four items are the fewest with which a closed batch, an
undone candidate, a remainder of two, a tie and an item that is too large alone
occur together. With three
records on two slots one caller waits while two are in different stages; two
records suffice for a batch shared by two callers. One retry takes a record
through every stage twice; a further one meets no new state of another record.
Three topologies let a shard close between two refreshes and a prediction be
two topologies old. In `limiter` a record that fits waits behind one that never
does, the latter expires twice, and the clock runs past the longest life a record
can have (7 ticks). With one slot and two threads in `sync` the dispatcher is
blocked while flush and shutdown are in line. In `metrics` the clock covers
three windows. The data sizes of `aggregated_batch` straddle the length at which
a field, or the record around it, takes a second length byte; TLC's integers
keep it from the varints of more than four bytes.

The type invariants of `Routing`, `SyncProducer` and `Metrics` are proved; no
run is spent on them.

Runs in which TLC refutes what a document says (details and quotations in
`PROJECT.json`, `findings`):

| Run | What the code does |
|---|---|
| `producer_exit_drains` | exit drops records whose last attempt fails during exit |
| `routing_catch_up` | the map is never refreshed after a resharding |

The retrier calls `invalidate` with the *actual* shard, and `invalidate` ignores
shards it does not know; the shard of a divergence is never known. So after
`start()` the map stays READY with its first snapshot. This also keeps the
records of an unpredicted batch (aggregated although the documentation promises
single-record mode) out of reach: `SuccessOnRightShard` holds with the code as
it is, and `MapNeverRefreshed` proves for every instance that there is no second
snapshot.

Deadlock is not checked where the system may come to rest: after exit, and when
a bounded clock and a finished resharding leave nothing to do.

### Disagreements without a run of their own

Met while modelling; the models contain the behaviour, and properties that it
would break are stated with the exception.

- `flush` of a reducer returns one batch and leaves the rest (`reducer.py:125`,
  docstring 117-118). A re-injected remainder may itself meet the size limit
  and then waits for its timer, although `phase-3-batching.md` says the limits
  keep a full batch from sitting on the timer.
- A `put_record` that is cancelled while it dispatches a batch loses the records
  of other callers in it (`producer.py:200`); cancelled once its own record is
  buffered it releases its slot, and the terminal callback releases it again.
  `SlotsAccounted` speaks of calls that raised cleanly.
- While ListShards fails, every `put_record` and `flush` waits behind
  `_pipeline_lock` (`producer.py:342`, against the comment above it).
- A `put_record` that waits for a slot when the producer exits waits for ever
  if the exit dropped the record that holds it (`producer.py:183`).
- A record stored on the right child of a split is judged with the old map and
  retried as `Wrong Shard` (`retrier.py:181`, `architecture.md:74`).
- `invalidate` compares `seen_at` with `updated_at` before it waits for the lock
  and may start a refresh for a divergence that has just been addressed.
- `philosophy.md:46` has a record land or fail within `record_ttl_ms`. It may
  live for that time until a failure is seen as one to retry, and again in the
  queue, which takes `expires_at` anew (`Lifetime` in `Limiter`).
- A bucket holds a second of tokens, so one second may see twice the rate
  (`RateKept` has the full bucket as a summand), and `flush` takes no tokens at
  all; `phase-4-rate-limiting.md:103` says the limits are never exceeded on the
  wire.
- The comment at `limiter.py:271-274` speaks of a check of `_closed` that the
  loop does not make; it ends by cancellation only.
- `SyncProducer.flush` with a timeout may lose a batch whose slots never come
  back; a later `put_record` then holds the dispatcher for ever, and with it
  `flush` and `__exit__`. `SyncOutcome.wait` without timeout on a lost or dropped
  record keeps the exit of the portal waiting (`sync.py:104` and 243). An exit
  flush that raises something other than a timeout sends no shutdown: the portal
  then waits for a dispatcher that receives for ever (`sync.py:241-243`).
  `ExitReturns` names these as what may hold the exit up for ever (`HeldUp`), and
  TLC finds nothing else; without any one of them it fails. A thread that sleeps
  between the answer and `sync.py:371` through the whole exit raises although its
  record was put. A second `with` on the same object finds its events already set.
- With the default upload interval, which equals the window, observations at the
  boundary of a window may never be exported (`WindowSuffices` is the condition
  under which none is skipped); with a shorter one, windows overlap and sinks
  that add up what they get count twice. A failing export in the loop cancels
  the task that entered the manager; a failing final export leaves loop and sink
  running.
- The size estimate does not count magic and digest, references to explicit
  hash keys and tags (`EstimateCovers` bounds the excess), nor the longer varints
  of lengths from 2^14 and of indices from 128 on.
- The counter of the OpenTelemetry sink assumes growing sums
  (`sinks/opentelemetry.py:122-132`); sums of a rolling window fall.

## 4. Fairness

- Reducer: the clock advances, and timer tasks that can run do. Nothing is
  assumed of callers.
- Producer (`FairSpec`): tasks that can run do, timers and the drain loop fire
  again and again, Kinesis answers or the request fails (the client has a
  timeout), and `anyio.Semaphore` serves waiters in order, hence strong fairness
  of `Acquire`. ListShards succeeds in the end. Nothing is assumed of users:
  calls, cancellation, flush and exit.
- ShardMap: the refresh task runs, and a listing that is retried for ever
  succeeds at some point (strong fairness of `FetchOk`); without that the loop
  retries for ever, by design.
- SyncProducer: threads and the dispatcher run when they can, a wait whose
  outcome is set returns, a record in the pipeline is resolved
  (`ReturnedResolves`), and the exit's flush times out, since `__exit__` always
  gives it a timeout. The user's timeouts (of `flush`, of `wait`), errors, calls
  and the exit are not obliged to happen.
- Limiter and Metrics have no fairness: what must happen in time is stated on
  their clocks, as invariants.

## 5. Proofs

`ReducerProofs` proves for every set of items, every assignment of deadlines,
every size estimate and predicate, and all limits and clocks
(`ReducerAssumption`: deadlines and sizes are naturals, count limit at least 1):

| Theorem | States |
|---|---|
| `TypeCorrect` | `Spec => []TypeOK`; no closed batch is empty |
| `ItemsConserved` | `Spec => []Conservation` |
| `AlwaysArmed` | `Spec => []TimerArmed` |
| `OneOwner` | `Spec => []ScopeMatchesBatch` |
| `CountNeverReached` | `Spec => []CountBelowLimit` |
| `ClosedBatchesFit` | `Spec => []BatchesFit` |
| `NoOvertaking` | `Spec => FifoByDeadline` |
| `DeadlinesNotEarly` | `Spec => NeverEarly` |

The argument. `FirstCandidate` shows that greedy packing always takes the first
item in (deadline, arrival) order, so closed batches are non-empty and the
remainder is smaller. Conservation is inductive with the types. `TimerArmed` is
not: a timer that wakes late must still be due by the deadline of the items
now in the batch, and a stale timer must not be mistaken for the current one.
`TimerInv` adds that scope numbers of timer tasks are at most `scopes` and
distinct, and that the task owning the current scope is due when the earliest
deadline of the batch is or, if that had passed, at once; from it follow
`TimerArmed`, `ScopeMatchesBatch` and, for steps, `NeverEarly`. `ArrivalInv`
(arrival numbers are distinct) makes the packing order total, which
`FifoByDeadline` needs; `CountInv` adds that the active batch is finite.
`BatchesFit` needs that a finite totally ordered batch has a last item, whose
prefix is the batch itself.

The last theorem of the module is `ReducerImplementsBatcher`, `Spec =>
ImplementsBatcher`, under the same assumption. `PackAndSplitCloses` shows that
`_pack_and_split` is a `Close` of the abstract stage: the batch is non-empty and
a prefix in deadline order, for which the arrival numbers must be distinct
(`ArrivalInv`). `StepImplements` then maps each action: `Add` to `Accept` or
`AcceptAndClose` (that the item is new comes from `Conservation`), `Flush` and a
timer that fires to `Close`, `Aclose` to `Discard`, everything else to a stutter.

`LimiterProofs` proves every property of the run `limiter` for any records,
shards, sizes, rates, capacities, delays and clock (`LimiterAssumption`: all are
naturals, `Ttl` and `DrainInterval` positive, no batches have no bytes;
`TokenBucketAssumption`: rates and capacities are naturals):

| Theorem | States |
|---|---|
| `LimiterTypeCorrect` | `Spec => []TypeOK`; no stream is overdrawn |
| `RateIsKept` | `Spec => []RateKept` |
| `DeadlinesRespected` | `Spec => AdmitsByDeadline` |
| `QueuesDrain` | `Spec => []QueueDrains` |
| `LifetimeIsBounded` | `Spec => []LifetimeBounded` |

The argument. `RateKept` says nothing of the bucket, so it is not inductive.
`RateInv` adds the budget: the tokens taken since the moment `since` and those
left are together within a full bucket and the growth from `since` to the last
growth, and a stream that has not grown since then has had nothing taken (or
never grows). `Grow` keeps it because the time is committed with the tokens, so
no span is counted twice; a take moves tokens from one side of the sum to the
other. That a drain can pay for what it admits needs the last admitted batch,
hence `RankInv`: the ranks in a queue are distinct, so (deadline, rank) orders it
totally; the same order gives `AdmitsByDeadline`. `LoopInv` carries
`QueueDrains`: the loop runs from the first put on, and its next wake is within
an interval of every queued batch's expiration. `LifeInv` bounds the age of a
record stage by stage: its deadline is at most the longest of the buffering time
and the last retry the TTL allows; from there a queue adds a TTL, and a late
drain or a send the rest. `QueueDrains` closes the step from a queue to the
retrier.

Promptness, that time passes only when no task is ready, is a guard of `Tick`,
and the theorems about time are as good as that abstraction.

`ProducerProofs`, for any finite set of records, any number of slots and
retries, with or without cancellation and exit (`ProducerAssumption`; that
`Record` is finite is needed to count slots, and records are told from the
names of tasks):

| Theorem | States |
|---|---|
| `ProducerTypes` | `Spec => []TypeOK`; the semaphore is never below zero |
| `PlacesDisjoint` | `Spec => []NeverDuplicated` |
| `NothingLost` | `Spec => []NeverLost` |
| `TruthfulOutcomes` | `Spec => []OutcomesTruthful` |
| `SlotsConserved` | `Spec => []SlotsAccounted` |
| `SlotsReturnedTwice` | `Spec => []SlotInv` |

The argument. None of these is inductive alone: that the terminal callback finds
its Outcome needs that a placed record is pending, which needs that no record is
placed twice. `ProducerInv` is the conjunction of `PlaceInv` (buffers and
batches in flight are disjoint, and a batch carried by a caller has that caller
dispatching), `FateInv` (a placed record is pending and unfinished, a record
that is not yet routed is nowhere, a success is stored), `KeptInv` and `SlotInv`.
The many actions are first shown to be of four kinds (`StepKind`): records move
or are dropped, one call advances, one call gives up, one record resolves; the
parts of the invariant are then proved per kind. `SlotInv` has no exception for
cancelled calls: it counts the slots returned twice (`TwiceReturned`), and shows
that nothing else ever miscounts; `SlotsAccounted` is what is left when there are
none.

`SyncProofs`, for any finite set of putting threads and any number of slots
(`SyncAssumption`): `SyncTypes`, `EveryCallKept` (`Spec => []NobodyForgotten`),
`FlushLeavesNone` (`Spec => FlushDrains`) and `OutcomeKept` (`Spec =>
OutcomeSetOnce`). `NobodyForgotten` becomes inductive with `LineInv` (nobody is
in line twice, nobody in line is being executed, and the line is empty once the
dispatcher stops) and `ExitInv` (before the block is left there is no exit
command and the portal does not close; without a dispatcher the block was not
entered or has been left).
`FlushDrains` needs `RecordInv`: records are dropped only by the end of the
dispatcher, and a resolved record has its outcome.

`RoutingProofs` about `ShardMap`, for any history of topologies in which the shards of a
topology partition the hash keys and a closed shard does not come back, any
backoff bounds, TTL and clock, and any callers of `invalidate`
(`ShardMapAssumption`; Kinesis guarantees what it says of topologies):

| Theorem | States |
|---|---|
| `MapTypes` | `MapSpec => []MapTypeOK` |
| `OneTopology` | `MapSpec => []PredictionsOnceTrue` |
| `ClosedKept` | `MapSpec => ClosedShardsAnswerable` |
| `RefreshAlone` | `MapSpec => OneRefresh` |

`MapInv` adds that a refresh exists only in state UPDATING, which is what the
guards of `invalidate` and `start` test, and that the listed shards are one
topology of the past, the known and closed ones of it or of earlier ones
(`SnapAt`); an installation replaces it by a later topology. `OwnerEndsFirst` is the lemma about `bisect_left`: in a partition
the shard with the least end that is not below a hash key is its owner.

`RoutingProofs` about `Routing`, for any records, hash keys and number of retries
(`RoutingAssumption`; `NoShard` is no shard):

| Theorem | States |
|---|---|
| `RoutingImplementsMap` | `RoutingSpec => MapSpec` |
| `RoutingTypes` | `RoutingSpec => []RoutingTypeOK` |
| `RightShard` | `RoutingSpec => []SuccessOnRightShard` |
| `MismatchIsReshard` | `RoutingSpec => []MismatchMeansResharded` |
| `MapNeverRefreshed` | `RoutingSpec => NeverRefreshed` |

By the first theorem what is proved of the map holds here. `RouteInv` adds that
the map of an open pipeline keeps the snapshot of `start()` (`OpenMap`) and that
every buffered or sent record was routed by that one topology (`RoutedBy`). A
shard that Kinesis answers with and that was not predicted is then younger than
the snapshot, hence not known, and `invalidate` returns at its guard: this closes
the induction, proves that a success is on the right shard, and is
`MapNeverRefreshed`, the general form of the finding of `routing_catch_up`. A
correct `invalidate` would break `OpenMap`, and with it the proof of
`RightShard`: the unpredicted batches become reachable then.

`MetricsProofs`, for any observations, levels, window, interval, export time and
tick (`MetricsAssumption`: values are integers, times naturals, window, interval
and ticks per second positive):

| Theorem | States |
|---|---|
| `MetricsTypes` | `Spec => []TypeOK`; a window never has more buckets than seconds |
| `WindowSeconds` | `Spec => []FreshSeconds`: fresh buckets are of exactly the seconds observed |
| `StatisticsExact` | `Spec => []WindowExact`: count, sum, minimum and maximum are those of the observations in the window |
| `LoopSkipsNothing` | `Spec => []NothingSkipped` |
| `ExitExportsAll` | `Spec => LastWindowExported` |

`RegistryInv` says that the seconds of a window rise strictly, are not in the
future, and are those of its observations; from it follow the bound on buckets
(`FreshFew`) and that without snapshots nothing is live (`NoSnapshotNoneLive`),
which the branches of `flush` that export nothing rely on. `NothingSkipped` speaks
of no age, so `LoopInv` bounds it: a missing observation was put no earlier than
the snapshot of the loop's last export, an export and a sleep ago.
`DivisionGap` turns ticks into whole seconds, where the one second of
`WindowSuffices` is needed. `ExitInv` follows what was due at the exit through
both exports. `WindowExact` needs to know what is in a bucket: `BucketsExact` says
that it summarises the observations of its key and second, which a put extends by
one (`SummariseMore`) or starts (`SummariseFirst`; the second had no observation,
or it would be live and have a bucket) and eviction leaves alone. `StatsSummarise`
adds the buckets up: they summarise disjoint sets, and the sum over their union is
the sum of the sums (`SumParts` of `WellOrder`). The lemmas on sums unfold the
library's fold; they are inductions over the subsets of a finite set, written with
a least counterexample (`FiniteInduction`, `AdderExists`), since no installed prover
instantiates an induction theorem. No observation set need be finite: only what has
been put so far is, which is part of the invariant.

`AggregationProofs`, for any set of records and any bound on the length of a
batch:

| Theorem | States |
|---|---|
| `BatchIsItsRecords` | `Spec => []BatchInv`: records, key sets and estimate are what adding the records makes, so `remove_last` leaves no trace |
| `ReadBack` | `Spec => []RoundTrip` |
| `WholeRecordsOnly` | `Spec => []NoPartialRecord` |
| `EstimateHolds` | `Spec => []EstimateCovers`, for `SmallRecords` |

The assumptions: every index and every length is one that ten bytes of varint
hold (`BatchAssumption`; the code would write a longer one and refuse to read it,
which takes a string of 2^70 bytes), and `None` and `ValueError` are no values of
the format (`CodecAssumption`). The records of `EstimateHolds` and their messages
are below 2^14 bytes and batches have at most 128 (`SmallRecords`): beyond, a
varint may take more bytes than the framing constants of the code allow for. TLC
evaluates all three on the instance of the run.

The argument: `BatchInv` is inductive, and everything else is about the operators.
`Recursion` of `WellOrder` shows that a recursive definition on naturals which
looks back only has a solution; each loop of the model is an instance of it or of
the same argument (`EncoderExists`, `DecoderExists`, `JoinerExists`,
`ReaderExists`, `BuilderExists`, `RebuilderExists`), and facts about a loop are
inductions by a least counterexample. From the bytes up: a varint is read as it
was written, and a part of one is not read at all (`VarintRead`), the same for a
field (`FieldRead`); the fields of a message cut anywhere are its first fields, or
the decoder raises when the cut is inside one (`FieldsRead`). A record's fields give
its keys, data and tags (`RecordMessage`, `RecordRead`), for any tables that have
its keys at its indices (`Refers`), which a growing table keeps (`TableGrows`,
`BuilderStep`); fields of other numbers change no value (`Surrounded`). A cut in
the tables leaves no record, and one in the records leaves the first ones
(`BatchCut`). For the estimate the two loops, the builder's and the batch's, go
side by side: after every record the batch knows the builder's keys and has
counted all of its bytes but `Uncounted` (`Counted`, `CountOne`).

Only model-checked: liveness (`EveryItemLeaves`, `PutReturns`,
`ReturnedResolves`, `ExitCompletes`, `RefreshEnds`, `StartEnds`, `CallsReturn`,
`ExitReturns`), which is out of the prover's reach.

## 6. Not modelled

- Several streams, and sizes in the Producer model.
- A ListShards listing whose pages straddle a resharding.
- The running totals of `PutRecordsBatch`, the payload of a request, the list of
  attempts of a record.
- The reporter task of the pending gauge; the sinks, which format and send what
  `export` gets, and the synchronous `record` of an eventful sink.
- md5, UTF-8 and the decimal parsing of hash keys: library calls.
- Actual shard ids that `_handle_success` cannot parse (`retrier.py:170` accepts
  such a reply unchecked): Kinesis is taken to name its shards. `invalidate` with
  `None` (`shard_map.py:234`), which no caller in `src/` passes. Other tasks between
  two records of one reply with a divergence (`retrier.py:184-201`): the loop is one
  step of `Routing`, and one step per record in `Producer`.
- A task group of the async producer that is cancelled by an exception while the
  facade runs: the dispatcher would be cancelled with it.
- Argument validation other than as `PutRaises`, and `Config`, whose parameters are CONSTANTS.

## 7. Plan

Done: every module of section 2. Every safety invariant and action property of
the passing runs is proved for all instances.

What would come next: the composition of `SyncProducer` with `Producer`, that is,
that what `SyncProducer` assumes of the async producer (slots, resolution, what a
cancelled flush loses) is what `Producer` does, as a refinement with its proof.
