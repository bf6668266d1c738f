# A TLA+ development of kafka_reliability

kafka_reliability is a Python library with three parts that meet only in the
database and on Kafka topics: a **transactional outbox** (write events in the
application's transaction, publish them later), a **deduplicator** for consumers,
and a **replay** tool for dead-letter topics. This directory models them in TLA+,
checks the models with TLC and proves the theorems that matter most with TLAPS.

Source paths below are relative to `src/src/kafka_reliability/`.

## 1. Inventory

### Outbox
| Component | State | Operations |
|---|---|---|
| writers `outbox/writer.py`, `outbox/backends/{asyncpg,psycopg,sqlalchemy,django}.py` | none; rows of the caller's open transaction | `enqueue`, `enqueue_many` |
| table `outbox/schema.py` | per row: `seq`, `aggregateid`, `status`, `attempts` | — |
| relay `outbox/relay.py` | loop position, tasks of the pass, failing passes | `run`, `run_once`, `_publish_key`, `close` |
| relay store `outbox/backends/asyncpg_relay.py` | `_held`, one connection, `_io` lock; the advisory lock in the server's session | `acquire_leadership`, `claim`, `mark_published`, `record_failure`, `stats`, `release_leadership` |
| retention `outbox/retention.py` | none | `sweep_published` |

Writers and relays share the table; relays exclude one another with a PostgreSQL
advisory lock that belongs to a *session*; the relay awaits the producer for
every record. Hard: the lock can be lost without the relay noticing; rows become
visible in commit order and are published in `seq` order; a send that raised may
still arrive; one `asyncio.gather` runs a task per key, and leaves tasks behind
when one of them raises. What makes it correct: nothing committed is lost,
nothing uncommitted is published, the order of a key holds, and every row is
settled in the end unless its key waits for an operator.

### Deduplicator
`dedup/deduplicator.py` runs a handler under a claim in a store
(`dedup/backends/{postgres,sqlite,redis,memory}.py`). State: per (group, key) a
record `in_progress` or `done` with an expiry. Operations: `claim`, `confirm`,
`release`, `is_done`, `purge`; `process()` in its three modes
(`transactional`, `claim_confirm`, `record_after`) with `fail_closed` or
`fail_open`. Hard: leases that expire under a live worker, operations that name a
key but no owner, several statements per claim, crashes between the side effect
and the record, an unreachable store. Correct when a side effect is repeated only
where the documentation says so, and reported where it says so.

### Replay
| Component | State | Operations |
|---|---|---|
| runner `replay/runner.py`, audit `replay/audit.py` | counters of the traversal, last offset per partition, the audit file | `dry_run`, `execute` |
| selector `replay/selector.py` | none | `resolve`, `as_selection` |
| reader `replay/reader.py`, `replay/reader_aiokafka.py` | position of one consumer; committed offsets of a group | `beginning_offsets`, `end_offsets`, `offsets_for_times`, `read`, `commit` |
| router `replay/dlq.py` | none; headers of the record | `build`, `route`, `should_dead_letter` |
| command line `replay/cli.py`, `replay/expr.py` | the plan it printed | dry run, prompt, `execute` |

Replay and dead-lettering form a loop whose only memory is a header. Hard: `resolve`
asks Kafka several questions about a topic that changes meanwhile, and a command
resolves twice; a range may end in a gap or lose its beginning to retention; a
crash may fall between send, audit line and commit. Correct when a replay that
completes has produced what was asked for and nothing else, what the operator saw,
confirmed, finds in the audit file and has committed agrees with it, and poison stops.

### Producers and the rest
`producers/confluent.py` bridges librdkafka's callbacks into asyncio. State: a queue in
librdkafka, a poller thread, `_stop`, one future per send. Operations: `send` with
retries on a full queue, `flush`, `close`. Hard: three threads, cancelled sends, a
close while sends wait, use after close. Correct when `send` returns only what the
broker has, ends, and `close` returns. `producers/aiokafka.py` is one awaited call;
`producers/memory.py` is a test double. `core/`, `metrics.py` and `contrib/` are value
types, counters and wiring.

### Together
The relay calls the producer; its records carry the row's id in a header, by which
the deduplicator may know them; consumers dead-letter what they cannot handle; the
replay runner puts it back with a replay id, which the deduplicator's replay policy
looks at. Each part repeats; correct end to end means that side effects neither repeat
nor get lost nor leave their order.

`PROJECT.json` lists each component with its status, and under `hazards` the
lines of this code that are hard to test, with the properties that cover each.

## 2. Plan

Done:
1. `OutboxRelay` with `OutboxContract`, its runs, `OutboxRelayProofs`,
   `OutboxRefinementProofs`, `OutboxLockProofs`.
2. `DedupStore`, one operator per statement of a backend, and `Deduplicator`, the
   consumers on top of it, with their runs, `DedupProofs` and `DedupOnceProofs`.
3. `ReplaySelector` (operators) and `ReplayRunner` on top of it, and `ReplayProofs`.
4. `ProducerPort`, `ConfluentProducer`, which implements it, and `ProducerProofs`.
5. `Pipeline`: the outbox as its contract, a consumer, the dead-letter loop, and
   `PipelineProofs`.

Every safety property that a passing run checks is also a theorem (section 5).

Left:
* an abstract specification of the consumer that `Pipeline` assumes (claim, handler and
  commit as one step), and that the transactional mode of `Deduplicator` implements it;
* the arithmetic of the relay's backoff (see "Not modelled").

## 3. Modules

| Module | Models |
|---|---|
| `OutboxRelay` | writers, table, relays, their stores and sessions, Kafka, sweep, operator |
| `OutboxContract` | what the outbox promises, without tables, relays or failures |
| `MCOutboxRelay` | values for TLC: key hashes (one negative), shard indexes, symmetry |
| `DedupStore` | the dedup table or key of Postgres, SQLite and Redis, statement by statement |
| `Deduplicator` | consumers around `process()`: three modes, leases, purges, rebalances, crashes, outages; EXTENDS `DedupStore` |
| `MCDeduplicator` | values for TLC: the deduplicators considered, symmetry |
| `ReplaySelector` | logs with gaps, selections, and the ranges they resolve to; operators only |
| `ReplayRunner` | the command, the traversal, reader, audit, commits, retention, the dead-letter loop; EXTENDS `ReplaySelector` |
| `MCReplayRunner` | values for TLC: small logs, and one setting for each way to replay them |
| `ProducerPort` | what `send()` promises, whatever client is behind it |
| `ConfluentProducer` | event loop, librdkafka, poller thread, flush and close |
| `MCConfluentProducer` | values for TLC |
| `Pipeline` | outbox, topic, transactional consumer, dead-letter topic and replays; instantiates `OutboxContract` |
| `MCPipeline` | values for TLC: dedup keys, policies, failures |
| `OutboxRelayProofs` | type correctness, the order invariant, giving up |
| `OutboxRefinementProofs` | `OutboxRelay` implements `OutboxContract` |
| `OutboxLockProofs` | the lock invariant, no split brain, fresh claims, published is final |
| `DedupProofs` | type correctness of `Deduplicator`; skipping a message is never losing it |
| `DedupOnceProofs` | done records stay, leases exclude, repeats are accounted for, transactional mode is once |
| `ReplayProofs` | all safety properties of `ReplayRunner` |
| `ProducerProofs` | types, the poller thread, `ConfluentProducer` implements `ProducerPort` |
| `PipelineProofs` | all safety properties of `Pipeline` |

### OutboxRelay, state against code
* `status[n]` is the row's column; `"unused"`, `"uncommitted"`, `"aborted"` and
  `"swept"` say where a row is when no other session can see it in the table.
* `sessionLocks` is the server's view of the advisory locks, `held[r]` the store's
  `_held`, `link[r]` the connection. They differ exactly when things get hard.
* `pc[r]` is where `run()` is: `idle` between passes, `elected` after
  `acquire_leadership`, `publish` inside `gather`, `cancelled` and `closing` on the
  way to the `finally`, `exited`, `down`.
* `work[r][n]` is what the `_publish_key` task holding row `n` does with it:
  `todo` (in `rows`, not reached), `air` (awaiting `send`), `failing` (awaiting
  `record_failure`), `sent` (in the list `sent`). Units are computed from keys as
  `_group_by_key` does, so tasks need no identity.
* `seen[r][n]` is `row.attempts` as the claim read it.
* `delivered` is the set of rows with a record on the topic; `limbo` holds records
  whose producer call failed or was abandoned and that may still arrive.
* `ahead` is history only: no action's guard reads it.

Each action is what happens between two awaits, or one SQL statement, or one
record reaching the broker; the comment above it names the call. `Send` has no
guard on `link` or lock, since the code looks at neither between two rows.
`StoreCallFails`/`StoreLost` are `StoreUnavailableError` (gather collects the
outcomes of all tasks first), `TaskQueryFails`/`QueryFails` any other exception
(gather raises at once and the other tasks go on as orphans, also after the
`finally` unlocked). `Cancel` keeps the finally of each task: what was sent is
still to be marked, and the unlock queues behind it on `_io`.

### DedupStore and Deduplicator, state against code
* `record[k]` is the row of a (group, key) pair with the time it has left, `pending[k]`
  what an open transaction has written for it. There is no owner in either: the
  table has none, and most of what can go wrong follows from that.
* `doomed` is the snapshot of a Postgres sweep that is running: its DELETE waits
  for a locked row and then checks the key of the new version only.
* `setting` is what the deduplicator was constructed with: store, mode,
  `on_store_unavailable`, `replay_policy`; `sweeps` and `forgets` say whether
  somebody calls `purge()`. It is a variable that never changes, so one run covers
  many deduplicators; `namespace` is a choice of `KeyOf`.
* `pc[w]` is where worker `w` is: the statement of a claim (`isdone`, `insert`,
  `takeover`, `read`), the handler (`handling`, `acted` after its side effect),
  the way out (`confirm`, `release`), the commit (`offset`), or `down`.
* `stale[w]` is the row a SQLite claim has read before its UPDATE. A SQLite claim
  has no await inside, so one tick of the clock never falls between its
  statements; another process does.
* `effects`, `lapses`, `alarms`, `overruns` and `leaseLeft` are history: side effects
  that happened, and the reasons the documentation gives for a second one.

The consumer around `process()` is the one of the recipes: commit the offset
unless the decision is IN_PROGRESS, then try the message again; a handler's or a
store's exception ends the consumer, which its supervisor starts again. A
rebalance moves a message to another worker and lets the first go on. A store
call that fails may have taken effect. In transactional mode side effect and record
become visible together when the caller commits.

### ReplaySelector and ReplayRunner, state against code
* A log is a sequence that keeps what retention dropped; `begin[p]` is the beginning
  offset, so a record is where it was. A gap is an offset without a record.
* A record is its id, the headers that replays and filters read (`x-dlq-replay-count`
  and, for all others, the error type), a timestamp, and `hops`: history, how often it
  was really replayed.
* `setting` holds options and surroundings: command line or library, target, `yes`,
  `commit`, `audit`, `auto_offset_reset`, ordered timestamps, retention.
* `pc` follows `resolve()` (one step per answer of the reader: `begin`, `end`, `since`,
  `until`), then `reading`, `sending` and `landed` around the send, `committing`, and
  `asked` between the dry run and the prompt.
* `limits` and `ranges` are what `resolve()` has so far, `reader.next` the next offset
  to yield, `reader.got` the consumer's position: between the two lies what `getmany`
  returned. A position below `begin` is reset by the consumer, not reported.
* `scanned` and `matched` are the counters (and `last_offset`), `plan` the printed plan.
* `target` are the records on the target, `sent` the sends that returned, `trail` the
  lines of the audit file, `committed` the group's offsets.

`Fail` is an exception of any call of Kafka, or a kill, at any step, a send's also after
the record landed. `DeadLetter` is a consumer of the target that fails at a replayed
record: `DlqRouter.build` drops the old diagnosis and keeps the count.

### ConfluentProducer, state against code
* `call[s]` is where `send()` is: `sleeping` for room, `waiting` for its future.
* `message[s]` follows the message: `queued`, then `acked` or `failed` with its report
  unserved, `ok` or `error` with `resolve()` on its way to the event loop, `done`. A
  message counts against the queue until its report is served.
* `poller` is the thread: about to check `_stop`, in `poll()`, or ended; `closer` is
  where `close()` is. `before` and `during` are history: which sends a close overlaps.

`ProducerPort` is what the relay and the runner rely on. `OutboxRelay`'s `Send`, `Acked`,
`SendFailed` and `Land`, and `ReplayRunner`'s `Deliver`, `Sent` and `Fail`, are its actions.

### Pipeline, state against code
* The outbox is an instance of `OutboxContract` that never forgets; its variables are
  `accepted`, `keyOf`, `ahead`, `published`. `Republish` is what the contract allows
  besides: another record of a published event. `failed` holds the events whose row the
  relay gave up (`GiveUp`, `record_failure` at `max_attempts`) until an operator puts it
  back (`PutBack`); `Blocked` is `CLAIM_SQL`'s condition on earlier failed rows of the key.
* `topic` is one partition, `dlq` the dead-letter topic, `offset` the group's committed
  offset. `pc` is where the consumer is with its record: `ready`, `failed` (the
  transaction rolled back), `commit`.
* `done` holds (group, key) pairs, as the transactional mode commits them with
  `effects`; `Key` is what the key function makes of the record at an offset, `Group`
  carries the replay id under `namespace`. `setting.payload` gives the bytes of an event.
* A record of `done` may go at any time (`Lapse`): its `ttl` is up, so that a claim takes
  it over and the sweep deletes it, or `purge` named its key. `lapses` counts this for
  each event that has the key.
* `replay` is the replay that runs, with its id and the place in the dead-letter topic.

Steps are bigger than in the modules of the parts, which show what such a step does
when it is interrupted: a relay's pass is `Publish`, a claim with handler and commit
is `Handle`.

### Not modelled
**Outbox.** Payloads, headers and topics; metrics; the age filter and chunk size of the
sweep (any set of published rows may go); a pass that is refused leadership (it
changes nothing). A chunk of the sweep is one step, where the code chooses rows by
status in a CTE and deletes them by id: only a `record_failure` of a task that outlived
its `run()` (see `relay_unpublish`) could turn a chosen row to `failed` in between, and the
record of such a row is on the topic. The delay between passes: a pass may start at any time. Its
arithmetic has an edge that nothing here covers: `2 ** (failing_passes - 1)` is computed
before `min()`, and from 1025 failing passes on (about eight hours at the default
`max_backoff`) its product with a float raises OverflowError, which ends `run()`; its
supervisor starts it again. A restarted process gets a connection only after the
server reaped its old session; the window in which it would be a second session of the
same relay is covered by having several relays. Every record of a row is the same to
the model, so a late duplicate changes nothing. The table's DDL and the checks of
arguments are text and assumptions.

**Deduplicator.** `RevocationSignals` (events a handler may look at), metrics other than the
alarms, the in-memory store (a dict in one event loop, for tests). A Postgres
transaction's `now()` is its start and the model's is the statement's; the model
allows more takeovers for it. An expired lease of Redis is a missing key. Of
`dedup/keys.py`, how a path is parsed or a payload hashed.

**Replay.** `RateLimiter` (when a send happens, not whether); `preserve_key=False`; how
options, expressions and plans are parsed and printed; the text of the other `x-dlq-*`
headers; a replay count below zero, which nothing in this code writes.

**Producers.** Several `close()` at a time, a cancelled one, `flush()` called alone; what the
in-memory producer records. The poller thread ends when it is told to: an exception
out of `poll()`, which would leave the adapter without one until the next send looks at
`is_alive()`, is not a step.

**Core, metrics, tracing.** Value types and observers.

## 4. Runs

`MaxSeq` bounds rows, `MaxDisruptions` crashes, lost connections, cancellations,
stops and failed statements together, `MaxResets` an operator's resets, `MaxFaults`
crashes, rebalances, exceptions, store failures, forgotten keys, failed routings, rows
given up, records produced twice and, in `Pipeline`, dedup records that lapse; `MaxRuns` and `MaxReplays` replays, `MaxCloses` calls of close.

| Run | Instance | Shows |
|---|---|---|
| `relay_failover` | 2 relays, 2 rows, 2 disruptions, an operator reset | `NothingLost`, `NoSplitBrain`, `ClaimIsFresh`, `PublishedIsFinal`, `TypeOK` |
| `relay_contract` | 2 writers, failing statements, 2 attempts, 1 disruption | `ImplementsContract`, `NothingLost`, `OnlyCommitted`, `KeyOrder`, `GivesUpLate` |
| `relay_liveness` | 2 relays of one shard of two, batches of 1, failing statements | `EventuallySettled` |
| `relay_unpublish` | failing statements | `PublishedIsFinal` is violated |
| `dedup_safety` | 8 deduplicators, 2 workers, 2 messages of a key, 2 faults | `NothingSkipped`, `TransactionalOnce`, `RepeatsAccounted`, `OverlapNeedsOverrun`, `DoneIsKept`, `TypeOK` |
| `dedup_liveness` | 3 deduplicators, 1 fault, Postgres swept | `EventuallyHandled` |
| `dedup_swept_done` | transactional mode, sweeps, 3 messages, 1 fault | `TransactionalOnce` is violated |
| `dedup_sqlite_race` | SQLite, `claim_confirm` | `LeasesExclude` is violated |
| `replay` | 8 settings, 2 partitions of up to 3 records, up to 2 replays | `PoisonStops`, `NothingMissed`, `OnlySelected`, `PlanReproducible`, `TrailAccurate`, `CommitIsHandled`, `ConfirmedIsReplayed`, `ConsentCoversSent`, `TraversalEnds`, `TypeOK` |
| `producer` | 2 sends, a queue of 1, 1 retry, 2 closes | `ImplementsPort`, `ReportsAreServed`, `SendSettles`, `CloseReturns`, `TypeOK` |
| `producer_stranded` | the same | `NoneStranded` is violated |
| `pipeline` | 7 settings, 2 events, 2 replays, 1 fault | `EffectivelyOnce`, `NothingDropped`, `EffectsInOrder`, `Accounted`, `ReplayRecovers`, `TypeOK` |

Why the bounds are enough to be interesting: two rows of one key are the least
that can be out of order; two relays are the least that race, and one disruption
already separates a session from the relay that believes in it, two let the
successor fail as well; overlapping transactions need two writers. In
`relay_liveness` the key's hash is negative, and the other shard is empty. TLC has one
slot with two relays in every run; that relays of different shards share no row is
proved (section 5). Two workers on a record and its duplicate
at another offset are the least that contend for a key; two faults let a
successor fail too; a lease of one tick and a TTL of two let a record expire in
either state while somebody works under it. `claim()`'s three tries are
`MaxTries`, two in the passing runs, which reaches giving up with fewer releases.
One key suffices: the operations name one each, and what keys share, SQLite's
lock, only makes them wait.

The settings of `replay` are one for each way to use it: by everything, partition,
offsets, a time window, a header filter, `max_messages`; from the command line with and
without a prompt; into the same topic; with commits, audit, retention and either
`auto_offset_reset`. Their logs end in a gap, hold counts that stop a replay or cannot
be read, and are out of time order. With `max_replay_count` 1, two replays are one more
than a record may have; `confirm_above` 1 makes both answers happen. Two sends on a queue of one make one wait for
room; two closes let the adapter be used between and after them. In
`pipeline` the second event is no JSON, so that `field_key` fails on it, and
`payload_hash` comes twice, with payloads that differ and with equal ones, where it takes
one event for the other; two replays with `max_replay_count` 1 reach the limit. The one
fault may be a dedup record that lapses, so that a replay handles its event again, or a
row given up, for good or until it is put back; how lapses add up with other faults is
left to `EffectivelyOnceTheorem`. The theorems do not depend on bounds.

### Fairness
`FairSpec` assumes weak fairness of the tasks of a pass (the event loop runs ready
tasks and `send` answers), of `run()` with its supervisor (a process that ended
is restarted, as the docstring of `run` expects), and of the server noticing a
dead session. Nothing forces an application to commit, a record of unknown fate
to arrive, the sweep to run or an operator to act. A standby needs no strong
fairness: a free lock stays free until somebody takes it, and any relay of the
slot may serve.

`Deduplicator`'s `FairSpec` assumes weak fairness of each consumer with its
supervisor and of time. Nothing forces a sweep, a rebalance or a fault. SQLite is
not in `dedup_liveness`: two processes that retry for ever could keep the model's
clock from ticking, which a real one cannot.

`ReplayRunner`'s assumes that Kafka answers the calls of a traversal; no prompt is ever
answered, no record has to arrive and no retention to run. `ConfluentProducer`'s
assumes that the event loop runs what is ready, that the threads run, that librdkafka
delivers or expires each message (`message.timeout.ms`), and that a flush with nothing
left returns; the flush may end earlier. `Pipeline`'s assumes weak fairness of the
consumer as one process, of a replay that runs, and of the publication of each event
whose key is not blocked: that is what `EventuallySettled` shows of the relay, which
passes over a failed row and those behind it. Nobody has to enqueue, to put a failed row
back, to fix the handler or to start a replay. `Accounted` therefore excepts two places
where an event may wait for ever: behind a failed row of its key, and behind a handler
that fails transiently for ever, since nothing in this code ends such retries. `Spec`
alone is used for everything else.

### Where code and documents differ
* `relay_unpublish`: a statement that fails on a live connection ends `gather()`
  and leaves the other tasks running after `run()` unlocked. Such a task's
  `record_failure` names a row by id only and turns a row that the next leader
  published into a failed one, which blocks its key. Without failing statements
  the property holds (`relay_failover`).
* `dedup_swept_done`: the Postgres sweep chooses expired rows in its snapshot, waits
  for a takeover of one of them, and deletes the renewed record, since only its
  key is compared again. A message already processed is then processed again.
* `dedup_sqlite_race`: SQLite's takeover is a SELECT and an UPDATE whose row count
  is ignored. In a transaction the write lock taken by the INSERT before them makes
  the claim atomic, which `dedup_safety` confirms; with autocommit two processes
  are both told CLAIMED.
* `producer_stranded`: the module's docstring says that close() flushes first, since
  stopping the poller earlier would strand delivery reports. A send that sleeps
  because the queue is full is not in the queue that the flush empties; it produces
  when it wakes, and nobody polls for its report any more: `_ensure_poller` runs once,
  before the retries. `ReportsAreServed` and `SendSettles` therefore except the sends
  that a close overlaps. A flush that times out leaves reports unserved as well.

Five more things a reader of the documents may not expect, which no run asserts:
* A relay learns of a lost lock from its next query only; between two rows it makes
  none, so it produces the rest of its batch while a successor produces the same rows.
  `KeyOrder` and `NothingLost` hold all the same, and their proofs do not use the lock.
* `release` deletes whatever `in_progress` record the key has: a worker that outlived
  its lease and then raises deletes the claim of the worker that took over.
  `OverlapNeedsOverrun` is what remains: no overlap before some lease ran out under a
  live worker, so a lease longer than the slowest handler is enough.
* `docs/delivery-semantics.md` says that every reprocessed lease is reported by
  `dedup.lease_expired`. The Postgres sweep deletes expired `in_progress` records too; the
  claim that follows is a plain insert, and the repeated side effect is reported nowhere.
  `RepeatsAccounted` is therefore stated for a Postgres that is not swept.
* A committed source offset does not make a replay non-repeatable: `resolve()` never
  asks for committed offsets, and a second replay reads the same records.
* With aiokafka's default `auto_offset_reset`, a replay that loses its position to
  retention skips to the end of the log and completes. `NothingMissed` is stated for
  the other setting, and for logs that retention does not cut meanwhile.

`RepeatsAccounted` is not stated for Redis either, whose module says that it cannot report
an expired lease, nor for `record_after`, which promises nothing of the kind.

## 5. Proofs

The theorems hold for every value of the constants that the named assumptions of the
modules allow: any sets of relays, writers, keys, workers, messages, partitions (finitely
many), records and settings, any hash function and any bounds. Where a theorem has a
hypothesis besides, it is named in its statement and below.

### OutboxRelay
* `TypeCorrect`: `Spec => []TypeOK`.
* `OrderInvariant`: `Spec => []OrderInv`. `NothingLost` and `KeyOrder` are not
  inductive by themselves: a row marked published must have been in a task's
  `sent`, so `SentIsDelivered` says what that means; a row that gets delivered
  was in the air or in limbo, so `InFlightInOrder` says those overtake nothing; a
  row goes into the air from a queue, so `QueueInOrder` says that whatever must
  precede a queued row is delivered, or queued or in the air in the same task
  list. The last holds when the claim is made because a claim is a prefix in
  `seq` order of the claimable rows of a key: a failed row blocks its key, what
  is neither pending nor failed is delivered (`NothingLost` again), and what
  commits later is not in `ahead`. It survives a failed send because the rest of
  the unit is dropped. `TxnsOwnRows`, `AheadIsOlder` and `OnlyCommitted` say that
  a transaction's rows are its own until it ends. No lock appears in the
  argument: order and delivery hold even with two relays on the same rows.
* `NothingLostTheorem`, `OnlyCommittedTheorem`, `KeyOrderTheorem` follow.
* `Refinement`: `Spec => ImplementsContract`. With `OrderInv`, a commit maps to
  `Accept`, the first record of a row to `Publish`, a sweep to `Forget`, every
  other action to a stutter.
* `LockInvariant`, `NoSplitBrainTheorem`: the session of a relay inside a pass
  with its connection up owns the lock of its slot; a slot has one owner; relays
  of different slots are given disjoint keys.
* `GivesUpLateTheorem`: `give_up` is computed from the attempts of the claim, so `Counted`
  says that these never exceed the row's, which only an operator takes back. It needs no
  lock and holds for stale claims.
* `ClaimIsFreshTheorem` and `PublishedIsFinalTheorem`, under `~QueryErrors`: `TasksInPass`
  says that a task lives inside its relay's pass, or only marks what it has sent, and that
  its store believes in the lock while the connection is up. With `LockInv` no two
  connected relays have tasks for one row, so the row is as the claim read it, and the
  only relay that can still record a failure is the one that claimed it. The hypothesis
  is needed: with statements that fail on a live connection `relay_unpublish` shows
  `PublishedIsFinal` violated, by a task that outlives its pass.

### Deduplicator
* `DedupProofs!TypeCorrect`: `Spec => []TypeOK`.
* `SkippingIsNotLosing`: `Spec => []NothingSkipped`, by `SkipInv`. An offset is
  committed by a worker that was told DUPLICATE, or that has handled the message;
  so the invariant follows evidence of a side effect to where it is used.
  `DoneMeansActed`: a done record is such evidence. `WorkersActed`: so is being in a
  part of `process()` that comes after the handler, which differs by mode:
  `record_after` claims after it, the others before. In transactional mode neither is
  true of an uncommitted record, and `PendingIsOwn` is needed: what an open
  transaction will record is the message its worker is handling, so one commit makes
  side effect and record visible together. The argument does not use leases or time,
  hence holds however late a release, a sweep or an operator comes.

The theorems of `DedupOnceProofs` assume `PostgresUnswept`: no deduplicator considered
runs the sweep of Postgres, which deletes rows it has not looked at. `dedup_swept_done`
shows that `TransactionalOnce` fails with it. SQLite may be swept. `CalmInv` turns the
hypothesis into a fact about states: no sweep has chosen a row.
* `DoneIsKeptTheorem`: `WorkerWrites` lists what a worker can do to the table, and a
  claim is written only where there is no record or one whose time is up.
* `OverlapNeedsOverrunTheorem`, by `LeaseInv`: a worker whose lease has not run out has
  less lease left than its record has time left, and is alone with its key. The first
  is needed for the second: the record could otherwise expire under the worker and be
  taken over. It is also why a release deletes a claim of the worker's own: the
  invariant extends to `confirm` and `release`.
* `RepeatsAccountedTheorem`, by `Account`, for finitely many workers: the side effects of
  a key, with one for every worker that may still have one, are at most its lapses and
  alarms, with one for the record. A worker in `release` counts too, since it can take
  away a record that stands for another's side effect. A step of one worker changes a
  cardinality by one (`OneMoves`), which makes each case arithmetic.
* `TransactionalOnceTheorem`, by `Balance`, for finitely many workers: side effects with
  those that workers past a bypass will commit without a record, and one for an open
  record whose time is already up, are at most the lapses and one for a done record.
  `ClaimOwned` says that a worker that claimed has the open record, hence commits it with
  the side effect; `OpenMeansUndone` that nobody claims a key while it is done.
  On SQLite a claim reads before it writes: `SqliteAlone` says that nobody else can write
  in between.

### ReplayRunner
`ReplayInvariant`: `Spec => []ReplayInv`, from which the theorems follow, each by a
lemma of its own. Its parts:
* `TypeInv`: types, and that what `resolve()` was told stays true of the part of the log
  it was about (`LimitsSound`): logs only grow, retention only moves `begin`.
* `StartSound`, `StartComplete`, `EndSound`, `EndComplete`: while `resolve()` asks its
  questions, the ranges so far leave out nothing that was asked for and is known, and
  what they hold is late or early enough. An upper bound in time is an offset:
  everything before it must be early enough, not only the record itself (`Before`).
* `ReaderSound`, `ScanSound`, `ScanDense`, `ReaderDense`, `RangesCovered`: what was read
  lies in the ranges behind the reader, and nothing before it was left out, unless a
  reset to the latest offset threw the reader over it (`NoJump`).
* `LandedSound`, `RunsBounded`: what was matched has landed and what landed was sent, but
  for the record at hand. With the parts above: `NothingMissedTheorem`,
  `OnlySelectedTheorem` and, with `CommitSound`, `CommitIsHandledTheorem`.
* `AuditSound`: at most one record of any run has no line; `TrailAccurateTheorem`.
* `HopsCounted`: the header of every record in the log and on the target covers the number
  of times it was really replayed, through `Build`, `Routed` and the appends; it is not
  larger than the maximum because a record is replayed only below it.
  `PoisonStopsTheorem`.
* `PlanKept`: the printed plan lists records the selection asks for (`Picked`), and all
  that the replay will find from `Horizon` on (`Wanted`), whatever arrives between dry
  run and replay. With ordered timestamps, or where retention does not cut, the two
  agree: `ConfirmedIsReplayedTheorem`. `PlanReproducibleTheorem` needs only the shape of
  the plan.
* `ConsentInv`: a traversal that got past the confirmation was agreed to, or its bound is
  small; `max_messages` bounds what is matched. That what is matched is at most
  `total_records` is a sum over partitions. The prover has no induction over data, so
  the fold is unfolded (`TotalIsSum`), and both that the recursive function exists
  (`SumExists`) and that it bounds the places in the ranges (`SumBounds`) are proved by
  taking a counterexample of least cardinality. `ConsentCoversSentTheorem`.

### ConfluentProducer
* `ProducerInvariant`: `Spec => []ProducerInv`. `ReportsAreServed` is not inductive: a
  send must find its thread before it has a report, so `PollerIsThere` says it of every
  open send that no close overlaps. A stop must not hit such a send: `OverlapsKnown`
  says that a close knows every open send, and `StoppedIsJoined` that a thread which
  was told to stop is being joined by a close, hence that a new send which relies on it
  is overlapped. `TypeCorrect` and `ReportsAreServedTheorem` follow.
* `PortRefinement`: `Spec => ImplementsPort`. `AckedIsThere` carries the fact that a
  message reached the broker from the acknowledgement through report and callback to
  the future; `Fresh` says that a call that was not made has no message.

### Pipeline
* `PipelineInvariant`: `Spec => [](TypeInv /\ PipelineInv)`. `NothingDropped` is about what
  the consumer has left behind, so `LeftBehind` includes the record whose offset it is
  about to commit; it leaves a duplicate behind because of a dedup record, and
  `DoneIsHandled` says that such a record was made for a record whose event has its
  effect. `TopicInOrder` brings the order of the outbox's contract to the topic, where
  every record comes after a record of every event that must precede it; the
  consumer reads in order, so with `LeftBehind` those are settled:
  `NothingDroppedTheorem`, `EffectsInOrderTheorem`.
* `EffectivelyOnceTheorem`, by `EffectsCounted`: each side effect of an event took a dedup
  record in a group of its own, which is still there or is counted in `lapses`; and there
  is one group, or one for each replay under the policy `namespace`. `EffectIsRead` is what
  makes a lapse count for the right event: one that had its effect has a record on the
  topic, by whose key it is found. Without a lapse the bound is one: this is what a `ttl`
  longer than the replay window buys (`docs/operations.md`, "TTL sizing").

### Only model-checked
Every liveness property: `EventuallySettled`, `EventuallyHandled`, `TraversalEnds`,
`SendSettles`, `CloseReturns`, `Accounted`, `ReplayRecovers`. Liveness under fairness is
outside what the prover does.
