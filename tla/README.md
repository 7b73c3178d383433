# tally: TLA+ specifications and proofs

tally counts events. Clients send events through two doors (HTTP `postEvent`,
gRPC `Publish`); a door answers as soon as the event is in a queue. Workers
take events from the queue in batches and write them to Postgres with
`InsertBatch`, which also keeps the per-minute counters and the per-day sketches
of unique users that the queries read. The queue is a bounded Go channel
(`QUEUE=memory`, one process) or a Kafka topic (`QUEUE=kafka`, ingest and worker
processes). The hard part is what the README of the program promises: nothing
that was accepted is lost, and nothing is counted twice, through retries,
crashes, redeliveries and shutdown.

Beside the pipeline stand a rate limiter in front of the doors (token buckets in
the process, or counters in Redis shared by all instances), the queries behind
the dashboard, and a load generator whose report is compared with what was
stored.

This directory holds TLA+ modules for these parts, TLC configurations that
check them on small instances, and proofs checked by TLAPS for all values of the
constants. `PROJECT.json` maps every definition to the source lines it models.

## Inventory

| Part | State | Operations | What is hard | Properties |
|---|---|---|---|---|
| `internal/store` InsertBatch | tables `events`, `event_counts_minute`, `event_uniques_day` | one transaction: insert with ON CONFLICT, rollup, sketch merge | concurrent batches, lock order, lost updates, lost answers, replays | `StoredOnce`, `RollupsMatchEvents`, `SketchesCoverEvents`, `NoDeadlock`, `LocksInOrder`, `ImplementsStore` |
| `internal/store` queries, `internal/ingest` query endpoints | the answer under construction | CountToday, TotalsToday, Series, UniquesToday(All), getStats | three statements while batches commit, day boundary, clocks | `TotalsCounted`, `StatsCohere`, `AnswersGrow` |
| `internal/queue` Memory | channel, flag `closed` | Enqueue, Close, receive | Enqueue against Close, full queue | `PanicOnlyAfterTimeout`, `Bounded` |
| `internal/worker` | per worker: batch, attempt | receive, tick, flush, retry, drop, last flush | failed and unacknowledged inserts, drain at shutdown | `AcceptedAccounted`, `DrainedAtExit`, `MetricsReconcile`, `AcceptedResolved` |
| `internal/queue` KafkaProducer | the client's buffer | Enqueue, delivery, failure, Close | check then act, asynchronous failure, flush timeout | `AcceptedLogged`, `ShutdownCompletes` |
| `internal/queue` KafkaConsumer | polled records, group offsets | poll, decode, insert, commit, stop | kill at any point, stale members, malformed records | `CommittedStored`, `DeliveryInv`, `LoggedStored` |
| `internal/ingest`, `internal/grpcingest` | request in progress | validate, enqueue, answer | a batch that fails half way, handlers that outlive shutdown | `AcceptedAccounted`, `AcceptedLogged` |
| `cmd/tally` main | phase of the shutdown | signal, Shutdown, GracefulStop, backend shutdown | timeouts, order, crash and restart | `ShutdownInv`, `ShutdownCompletes` |
| `internal/ratelimit` | token buckets; Redis window counters | Allow, janitor; the script | eviction against use, clock skew, late, lost and repeated calls | `RateHolds`, `HeldInMap`, `LimitIsGlobal`, `RefusedOnlyOverLimit` |
| `internal/hll` | registers | Add, Merge, Bytes, FromBytes | order and grouping of the values, encoded rows | `SketchesEncode`, `AnswersGrow` |
| `cmd/loadgen` | jobs, senders, counters | tick, send, retry, duplicate, deadline, report | lost answers, failed duplicates, drain at the deadline | `JobsCounted`, `SentWereAccepted`, `ExactUnlessFailed`, `Reports` |
| dashboard, configuration, `store.New`, generated gRPC code | | | | not modelled |

`PROJECT.json` lists the hazards of the code line by line, with the properties
that cover each one.

## Modules

    Tally            what tally promises: pending -> counted once, or lost
      ^ refined by
    MemoryTally      = Doors + Pool (MemQueue, Store) + crash + shutdown
    KafkaTally       = Doors + producer + KafkaConsumer (Store) + faults + shutdown

    Store            InsertBatch as one atomic step
      ^ refined by
    StoreTx          InsertBatch statement by statement, with row locks

    Queries          = Store + Sketch (the encoded registers) + getStats
    Limits           = RateLimit + RedisLimit behind the choice of main
    LoadGen          the client; the server is external

- **Store.** The three tables and `InsertBatch(batch, new)`, where `new` are the
  rows that are really inserted. An event is its id, name, user and minute. The
  counters grow by `new`, the sketches by the users of the *whole* batch, as
  `updateUniques` does. A sketch is the set of users folded into it: `Add` is
  idempotent and commutative, so the registers are a function of that set (proved,
  `SketchUnique`; for the stored bytes `QueryEncodes`). A
  batch with an id in `Unstorable` is one that Postgres rejects each time.
- **StoreTx.** Transactions `Txs` run `insertBatchSQL` and `updateUniques` key by
  key. `InsertRow` waits for a transaction that has inserted the same id,
  `LockCounter` for the row of a counter, `EnsureRow` for a transaction that is
  creating the sketch row, `SelectForUpdate` for its lock. The SELECT, the merge
  and the UPDATE of a sketch are one step: the row is locked throughout.
  `Rollback` may happen anywhere (error, 10 s context, lost connection).
- **MemQueue.** The channel, the flag, and the two steps each of Enqueue and
  Close.
- **Pool.** `run` and `flush` per worker, with `onFlush`. An attempt ends in
  `InsertOk`, in `InsertFail` (rolled back or never sent) or in
  `InsertUnacknowledged` (committed, but the worker sees an error). A COMMIT that
  lands after its attempt has ended is placed at the attempt, so the models do not
  show it behind the next attempt; StoreTx, where transactions overlap freely, does.
- **Doors.** `postEvent` and `Publish`, and main up to `GracefulStop`. A handler
  takes its request's events one at a time; an error of Enqueue ends the request
  and leaves what was enqueued before. srv.Shutdown may return with HTTP handlers
  still running (`timedOut`); gRPC takes new calls until GracefulStop begins. A
  send on the closed channel fails only that request, since net/http recovers
  the panic; the proofs show that it never happens to a gRPC handler, where it
  would end the process.
- **MemoryTally.** Doors and Pool joined by MemQueue in one process; `Crash` loses
  the channel and the batches and starts again over the same store.
- **KafkaConsumer.** The group's members in `Run`, over the log, the committed
  offsets and the assignment. A partition may be given to another member at any
  time without the first one noticing; it goes on to insert its old batch and to
  commit its offsets, which the broker may take, take in part or refuse. That is
  more than a broker that fences old members allows. In one respect it is less: a
  poll returns records of partitions the member owns at that moment, although the
  client might hand out what it had fetched before it heard of the loss.
- **KafkaTally.** An ingest process with the producer's buffer, the broker and
  the group. `EnqueueCheck` and `EnqueueProduce` are two steps, and the second waits
  while the buffer is full. `FlushReturns` is the end of the flush in time or after 15 s. `Fault` is a kill, a stop, a crash
  of the ingest process or a reassignment.
- **Tally.** The abstract specification of both modes.
- **Sketch.** Registers, ranks, `Add`, `Merge` and the encoding, over any function
  `hash64` to `HashBits` bits. `IsSketchOf(s, S)` says what the registers of a set
  are. `Estimate` computes a float from them and is left out: where the code
  answers an estimate, the model answers the registers.
- **Queries.** `Insert` is InsertBatch on the tables and, next to the set of users
  of Store, on the bytes in `event_uniques_day`: ensure, decode, add the ids in
  any order, encode. Each query is an operator on the committed tables and the
  clock of Postgres; `getStats` is three actions, and `StatsFails` an error of
  any of them. Ingest processes stamp events by their own clocks, up to
  `MaxAhead` minutes ahead. The session's time zone is UTC, as the code's
  comments take for granted.
- **RateLimit.** `Memory.Allow` is `Lookup` (up to Unlock) and then `Grant` or
  `Deny` (`lim.Allow`); `janitor` is one sweep, at any time. Buckets are objects,
  so that a caller may hold one that is no longer in the map. `Observe` starts an
  interval of observation anywhere. A new bucket is full, so an eviction is a gift
  to a key whose burst does not refill while it is idle: `Excess` is the most that
  one can be worth, 0 when `Burst <= Rate * (IdleFor - MaxStall)`.
- **RedisLimit.** `AskRedis` reads the instance's clock; then the script runs and
  its answer arrives (`Answered`), comes too late (`AnswerLost`), the client sends
  it again after a broken connection (`Repeated`), or it never gets there
  (`NotSent`). Counters expire by Redis's clock, and a second of the day returns
  the next day.
- **Limits.** main's choice of one of the two, and the client's key at both doors.
- **LoadGen.** main's select loop, the senders with retry and duplicate, and the
  report. The ids it makes are taken to be distinct.
- **MCMemory, MCKafka, MCStore, MCLimits, MCQueries** give the constants their
  values.
- **StoreProofs** (induction over finite sets, sums, and Store), **StoreTxProofs,
  QueryProofs** (Sketch and Queries), **MemoryProofs, KafkaProofs, LimitProofs** and
  **LoadProofs** hold the theorems. **PipelineProofs** holds the lemmas about Doors and
  about sequences that both modes of the pipeline rest on.

Operators named `X_Something` next to `X` are faulty variants of `X`, each a
plausible mistake in the code (`Poll_AutoCommit`, `SelectForUpdate_NoLock`). No
specification uses them. Each property of a passing run is violated when the
variant named with it in `PROJECT.json` takes the place of `X`.

Abstractions that hold everywhere: time is counted in minutes, and timeouts are
a choice of the environment; properties of an event, logging, and the waits
between attempts are left out; entering a handler, decoding and stamping the
event are one step; a Prometheus counter moves together with the call it
follows. A request that the JSON decoder refuses changes no state, and one that
the rate limiter refuses changes only the limiter's, so the doors leave them out.

## Runs

Passing runs (distinct states in parentheses):

- **memory_safety** (612,378). Two workers, batch size 2, queue size 1, two
  attempts, one HTTP and one gRPC handler, two requests, one crash, midnight
  between two minutes. The requests carry the same id with two users, an event
  without a user, and a Publish of a good, an invalid and a good event. The queue
  fills up, batches are full and partial, both requests may carry the same id on
  different days, and the shutdown meets every stage of them. Checks the tables,
  the accounting, draining, the closed channel, the metrics, the bounds, and
  that the mode implements Tally.
- **memory_liveness** (11,460). One POST and one Publish, with fairness.
  `AcceptedResolved` and `ShutdownCompletes`.
- **kafka_pipeline** (399,327). A Publish sends the same id to two partitions, one
  of them with a malformed record; two members; the broker may refuse records; one
  fault; midnight. `AcceptedLogged`, `DeliveryInv` and the refinement of Tally.
- **kafka_group** (188,738). A POST and a Publish race for the one place of the
  buffer, so that one of them waits in Produce; one partition with a malformed
  record, two members, one fault: enough for a member to poll, lose the
  partition, see the other one poll the same records, and come back to commit.
  The broker may stop taking records at any time. `CommittedStored` and, with
  fairness, `LoggedStored` and `ShutdownCompletes`.
- **store_tx** (29,319). Three transactions, four begun in all, over batches that
  share ids in crossed order, share only counters and sketches, or share only
  sketches.
- **limits** (735,952). Memory: two keys, two callers and three buckets; rate 1,
  burst 3, a bucket idle for more than 2 ticks is swept, a caller may be off the
  processor for one: an evicted bucket need not be full. Redis: two instances, their clocks up to half a second apart, a limit
  of one request per second, days of four seconds, so that a second of the day
  returns; four calls and repeats.
- **queries** (5,308). Batches that share ids, users and minutes, one id sent again
  the next day, an event without a user, two days of two minutes, `LIMIT` 1 for
  two names, an ingest clock one minute ahead; hashes of 4 bits with two users in
  one register and one whose evidence is all zeros.
- **loadgen** (170,800). Two senders, a channel of two jobs, four ticks.

Runs that end in a violation, each a disagreement between the code and what the
repository says of it (`PROJECT.json`, findings):

- **memory_race**: "no Enqueue can race with the channel closing". srv.Shutdown
  gives up after 10 s, and Close closes the channel while a handler stands between
  the test of the flag and its send, which then panics.
- **memory_midnight**: "duplicate sends can't inflate a number". A duplicate sent
  on the next day adds its user to that day's sketch.
- **kafka_wedged**: ADR 0003 has "Poll → insert (retry until success) → commit" and
  concludes that events are "counted exactly once"; `kafka.go:128` says "a malformed
  record is skipped (logged), never allowed to wedge the whole partition". A record
  that is not malformed, but that Postgres refuses, is retried for ever, and what
  is behind it in the partition is never counted.
- **queries_totals**: "TotalsToday returns today's count for every event name"
  (`store.go:314`), and BENCHMARKS.md:38 sums it up. The query stops at 20 names (in
  the run at one of two), and takes in rows of the next day from an ingest process
  whose clock is ahead. What does hold is `TotalsCounted`.

Four more sentences of the repository hold only with a qualification that the
modules spell out:

- "Accepted events always land." (README.md:233): unless `Pool` drops the batch
  after MaxRetries (`worker.go:131`), the `dropped` of `AcceptedAccounted`.
- "Enqueue produces one event without blocking the request path."
  (`kafka.go:48`): `EnqueueProduce` waits when two handlers have passed
  `EnqueueCheck` for one free slot, for as long as the broker takes nothing. The
  last disjunct of `ShutdownCompletes` is that wait: an RPC in Produce keeps
  GracefulStop waiting, and TLC refutes the property without it. An HTTP handler
  does not, since srv.Shutdown ends after 10 s.
- "graceful shutdown drains every accepted event" (README.md:34): in Kafka mode
  within the 15 s of `FlushReturns`; the rest is the `lost` of `AcceptedLogged`.
- "compares events sent vs events stored — they must match exactly"
  (`scripts/chaos.sh:9`), and the same comparison in BENCHMARKS.md:38: the report
  equals what the server accepted when it says failed=0 (`ExactUnlessFailed`).
  Otherwise a request that timed out may have been accepted, and only
  `SentWereAccepted` remains.

**Bounds.** `MaxSends`, `MaxCrashes`, `MaxFaults`, `MaxBegins`, `MaxMinute`,
`MaxTime`, `MaxClock`, `MaxCalls` and `MaxTicks` cap what would grow for ever; the
proofs do not depend on their values. Two actors of each kind suffice for every
race described here, since each is between two parties (handler and Close, two
handlers, member and successor, caller and janitor, two instances); store_tx has
three transactions, so that a circle of three waits could form.

Some bounds are assumptions on the world. `MaxStall` is how long a goroutine may
be off the processor between Unlock and `lim.Allow`: less than the janitor's 10
minutes. `MaxSkew` and `MaxDelay` together with a second are below the 1999 ms of a
counter: with a delay of 200 ms, clocks that differ by less than 800 ms. The code
does not enforce that delay: go-redis applies the deadline of a context to a read
only with `ContextTimeoutEnabled`, which `NewRedis` does not set, so a slow answer
is waited for up to the client's own read timeout. TLC violates `LimitIsGlobal` with
clocks one tick further apart. It counts what Redis allowed; requests that pass
because Redis did not answer are limited by nothing.

Of the burst nothing is assumed, as loadConfig compares it with nothing. The default
of twice the rate refills in 2 s, and then evictions add nothing (`RefilledBurst`);
with one that takes more than the 10 minutes a key gains up to `Excess` by each
eviction, and TLC violates `RateHolds` without that term.

**Symmetry** is used on workers, members, transactions, buckets, callers and instances, in runs that check safety only.

**Fairness.** Weak fairness of every handler, worker and of main: the Go
scheduler runs what can run, an attempt ends within its 10 s context, tickers
fire, and srv.Shutdown ends after its own 10 s. In Kafka mode also of the flush,
which ends after its 15 s, of assignment, of a restart of stopped
members (Kubernetes does that), and of a successful insert, since `Run` retries
until the database takes the batch. In LoadGen of the deadline, of the report and
of the senders, whose requests end with the client's timeout of 5 s. Nothing is
assumed of clients, signals, crashes, the clock, or the delivery of records to the
broker. memory_liveness does not check deadlock: a system that is
stuck violates the liveness properties, and once the program has ended nothing
need happen. The other runs do check it.

## Proofs

All theorems hold for arbitrary sets of ids, names, users, handlers, workers,
partitions, members, keys and callers, and for any hash, rate and burst, under the
ASSUMEs of the modules: constants have their types, sizes are positive, special values are not ordinary ones; workers,
partitions, transactions, senders and the events of a batch are finitely many.
Two assumptions are about the world, on `MaxStall` and on the clocks and delays
of Redis, and are discussed under Bounds. One is about
a flag: `-workers` is at least 1. loadgen does not check it; with 0 it would report
without having sent the jobs in its channel.

Several of the arguments need induction over finite sets and facts about sums and
folds, which the community modules define by recursion. StoreProofs derives both
from the well-foundedness of the naturals: `SubsetInduction`, for a set P of sets
instead of a predicate; `MaximalExists`, that a strict order on a finite set has
maximal elements; `RecursionExists`, that the recursion over the subsets of a
finite set behind `SumFunctionOnSet` and `FoldLeft` has a solution; and from that
what sums do (`SumRemove`: the order leaves no trace, `SumUpdate`, `SumGrows`,
`SumOfSizes`: the sizes of disjoint sets add up to that of their union).

- **StoreCorrect**: `StoreSpec => []StoreInv`. `StoreInv` (types, one row per id,
  counters equal to the number of rows, sketches cover the rows) is inductive as
  it stands. The step for the counters uses that inserted rows are disjoint from
  stored ones, so that cardinalities add. **OneRowPerId, RollupsExact** and
  **SketchesComplete** are its conjuncts, the invariants of memory_safety.
- **AddExtends, MergeUnites, SketchUnique, RoundTrip**. `Add` takes the sketch of S
  to the sketch of S and one value, `Merge` those of two sets to that of the
  union, a set has exactly one sketch, and decoding undoes encoding. So a row of
  `event_uniques_day` depends on nothing but the set of users, which is the
  abstraction of Store. The one fact about bits is that a rank is between 1 and
  `MaxRank` and an index is a register.
- **TxImplements**: `TxSpec => StoreSpec`. The inductive invariant is `TxInv`:
  types, lock order, and `LockInv`, which says of each open transaction that what
  it is about to write is what the atomic `InsertBatch` would write now
  (`WritesCurrent`) and that what it has not dealt with is still on its list
  (`NothingSkipped`). A step of one transaction keeps this for the others because
  it touches only rows they have not locked. `Commit` then is `InsertBatch`; every
  other step leaves the tables alone. **TxLocksGuard** states `LockInv` by itself.
- **TxLocksInOrder, TxNoDeadlock**: all transactions take locks in the same order,
  and so no set of them waits in a circle. `Stage` says which locks a transaction is
  taking, ids, counters or sketches, and `Ahead` orders two transactions by their
  stages, then by the id or key each is at. Whoever waits, waits for one that does
  not wait itself or is further on. `Ahead` is a strict order, so of finitely many
  transactions one has no other ahead of it (`MaximalExists`): that one can go on.
- **MemoryTypes, MemoryAccounts, ShutdownHolds, MemoryDrains, MemoryPanics**. The
  types and `StoreInv` come first. `AcceptedAccounted` is inductive relative to
  them. `DrainedAtExit` and `PanicOnlyAfterTimeout` need `ShutdownInv`: the phase of
  main fixes the state of the flag, of the channel and of the handlers it has
  waited for, and a worker leaves only after the closed channel has run dry.
- **MemoryBounded**: the channel and the batches keep their sizes, a batch is tried at
  most `MaxRetries` times, and a worker that selects has room for one more event and
  starts over at the first attempt, which is what makes the bound inductive.
- **MemoryReconciles**: `MetricsReconcile`, a sum over all workers. Each step moves the
  batch of one worker, so the sum moves by the change of that one (`SumUpdate`), and
  what leaves the batch enters a counter.
- **MemoryImplements, KafkaImplements**: `Spec => ImplementsTally`. Pending are the
  events in the channel and in batches, or in the producer's buffer and in the
  log, whose id is not stored; counted are the rows. An Enqueue that succeeds is
  an Accept, a committed batch is CountRows of its new rows, and every other step
  can only lose pending events. The step needs that a batch consists of events
  in flight (types), and that its new rows have ids of their own.
- **KafkaTypes, KafkaInHand, KafkaDelivers, KafkaAccounts**. `CommittedStored` is not inductive:
  a commit moves the offset over records the member polled earlier. `DeliveryInv`
  adds that what lies below the fetch offset is settled or in its owner's hands,
  and that everything below a polled batch was settled before it was polled. It
  is inductive since a stored row never goes away.
- **RateKeeps, RateLimited, RefilledBurst, BucketHeld**. `RateHolds` is not inductive: an eviction
  forgets what a bucket has given. `RateInv` adds the credit of a key (the level of its
  bucket, or a full one when it has none) to what was granted, and that a bucket is
  used at most `MaxStall` after its stamp: a bucket that is swept lacks at most
  `Excess`, by which the budget of its key grows, and no caller holds it.
- **RedisCounts, RedisLimited, RedisRefuses, LimitTypes**. `RedisInv` ties the counter
  at Redis to the requests of one second: the counter of a time of day counts the
  requests of the only second with that time that can be asked for now, it does not
  expire before the last of them arrives, and it has expired when the next day asks
  again. `LimitIsGlobal` and `RefusedOnlyOverLimit` follow, over `Limits`' specification,
  where main runs one limiter or the other.
- **QueryKeeps** and its consequences. `QueryInv` is the store's invariant, what is
  claimed of an answer, and per row of `event_uniques_day`: no row for no users, and
  else the bytes of *some* sketch of exactly its users. **QueryEncodes**: the fold of a
  batch into a row, in any order of its events, gives the sketch of the old users
  and the new (`FoldSketches`, by induction over the places of the sequence, with
  `AddExtends` for the step). **QueryTotals**: the sum of the rollups of a day is the
  number of its rows (`CountIs`, from `RollupsMatchEvents` and `SumOfSizes`); a name
  that is left out although it has rows means that `LIMIT` was reached. **QueryCoheres**:
  rows, sketches and rollups only grow between the statements of getStats.
  **QueryGrows**: `[][...]_vars`, since sums grow with their summands (`SumGrows`) and the
  registers of a larger set are no smaller (`SketchGrows`). **QueryTypes** is the type
  invariant.
- **LoadTypes, LoadCounts, LoadSent, LoadExact**. `LoadInv` says of each sender that its
  event is its own and whether the server has it, and of the counters how many
  senders stand between a send and its count: a job is counted once, and the
  1 taken off for a duplicate was added by its first send. A report comes
  after every sender has ended, so nothing stands between any more.

Proved, and not in a run: `RateInv`, `RedisInv`, `LoadInv` and `QueryInv` (TLC has
checked each of them on the instance of its run), `TxTypeOK` (in TxLocksGuard), and the
theorems about sketches.

Only model-checked: liveness (`AcceptedResolved`, `LoggedStored`, `ShutdownCompletes`,
`Reports`), for which TLAPS has no means here. Every invariant, every action property
and every refinement that a passing run checks is also a theorem.

## Not modelled

- `Estimate` of the sketches: floating-point arithmetic. `hash64`: any function.
- Configuration (`loadConfig`, `getenv`) and `store.New`: strings read, and a ping
  repeated, before any process of the models exists.
- The rejection counter, the histograms and the depth gauge of `internal/metrics`,
  which no decision of the program reads.
- The dashboard, one static page drawn anew from each answer, and generated gRPC
  code; what `Publish` relies on is in Doors.
- Durations: whether the steps of the shutdown fit into the 30 s that Kubernetes
  grants is not a question these models can answer. A kill at any point of it is.
- TCP, HTTP, SQL planning and the internals of Kafka, Redis and Postgres beyond
  what the code relies on.
