---------------------------- MODULE OutboxRelay ----------------------------
(***************************************************************************)
(* The transactional outbox of kafka_reliability: application transactions *)
(* insert rows, relays publish them to Kafka, a sweep deletes them.        *)
(*                                                                         *)
(*   outbox/writer.py, outbox/backends/{asyncpg,...}.py    Enqueue         *)
(*   outbox/schema.py                                      the table       *)
(*   outbox/relay.py, outbox/backends/asyncpg_relay.py     the relay       *)
(*   outbox/retention.py                                   Sweep           *)
(*                                                                         *)
(* A row is its seq.  Payload, topic and headers are left out: no property *)
(* tells them apart.  A step is what happens between two awaits of the     *)
(* relay, or one statement at the database, or one record reaching Kafka.  *)
(***************************************************************************)
EXTENDS Integers, FiniteSets

CONSTANTS
    Relays,         \* relay processes: one OutboxRelay, one store, one connection each
    Writers,        \* application sessions that enqueue in their transactions
    Keys,           \* the non-empty aggregateids
    NoKey,          \* the empty aggregateid: no ordering requirement
    MaxSeq,         \* bound: rows ever inserted
    BatchSize,      \* RelayConfig.batch_size
    MaxAttempts,    \* RelayConfig.max_attempts
    ShardCount,     \* RelayConfig.shard_count (1 = strict ordering)
    ShardIndex,     \* RelayConfig.shard_index of each relay
    Hash,           \* hashtext(aggregateid): any integer, negative ones too
    QueryErrors,    \* whether a statement may fail on a connection that stays up
    MaxDisruptions, \* bound: crashes, lost links, cancellations, stops, failed queries
    MaxResets       \* bound: rows an operator puts back to pending

AllKeys == Keys \cup {NoKey}
Seqs == 1..MaxSeq

ASSUME BoundsAssumption ==
    /\ MaxSeq \in Nat
    /\ BatchSize \in Nat \ {0}
    /\ MaxAttempts \in Nat \ {0}
    /\ MaxDisruptions \in Nat
    /\ MaxResets \in Nat
    /\ QueryErrors \in BOOLEAN

ASSUME KeysAssumption ==
    /\ NoKey \notin Keys
    /\ Hash \in [AllKeys -> Int]

ASSUME ShardAssumption ==
    /\ ShardCount \in Nat \ {0}
    /\ ShardIndex \in [Relays -> 0..(ShardCount - 1)]

VARIABLES
    nextSeq,        \* the identity sequence of the table
    txn,            \* txn[w]: rows inserted by w's open transaction
    status,         \* status[n]: the row's column, or where it is when not in the table
    key,            \* key[n]: aggregateid
    attempts,       \* attempts[n]: the column
    ahead,          \* history: rows of n's key with a smaller seq committed when n was
    sessionLocks,   \* relays whose database session holds the advisory lock of their slot
    pc,             \* pc[r]: where r's run() is
    held,           \* held[r]: r's store believes it holds the lock (_held)
    link,           \* link[r]: r's database connection
    work,           \* work[r][n]: what r's _publish_key tasks are doing with row n
    seen,           \* seen[r][n]: attempts as read by the claim
    delivered,      \* rows with a record on the topic
    limbo,          \* records handed to the producer whose fate no relay will learn
    disruptions,
    resets

table == <<nextSeq, txn, status, key, attempts, ahead>>
relay == <<pc, held, link, work, seen>>
topic == <<delivered, limbo>>
vars == <<table, sessionLocks, relay, topic, disruptions, resets>>

InTable == {"pending", "published", "failed"}
Statuses == InTable \cup {"unused", "uncommitted", "aborted", "swept"}
Phases == {"idle", "elected", "publish", "cancelled", "closing", "exited", "down"}
Stages == {"none", "todo", "air", "failing", "sent"}

Committed(n) == status[n] \in InTable \cup {"swept"}

TypeOK ==
    /\ nextSeq \in 1..(MaxSeq + 1)
    /\ txn \in [Writers -> SUBSET Seqs]
    /\ status \in [Seqs -> Statuses]
    /\ key \in [Seqs -> AllKeys]
    /\ attempts \in [Seqs -> Nat]
    /\ ahead \in [Seqs -> SUBSET Seqs]
    /\ sessionLocks \subseteq Relays
    /\ pc \in [Relays -> Phases]
    /\ held \in [Relays -> BOOLEAN]
    /\ link \in [Relays -> {"up", "down"}]
    /\ work \in [Relays -> [Seqs -> Stages]]
    /\ seen \in [Relays -> [Seqs -> Nat]]
    /\ delivered \subseteq Seqs
    /\ limbo \subseteq Seqs
    /\ disruptions \in 0..MaxDisruptions
    /\ resets \in 0..MaxResets

Idle == [n \in Seqs |-> "none"]
Unread == [n \in Seqs |-> 0]

Init ==
    /\ nextSeq = 1
    /\ txn = [w \in Writers |-> {}]
    /\ status = [n \in Seqs |-> "unused"]
    /\ key = [n \in Seqs |-> NoKey]
    /\ attempts = [n \in Seqs |-> 0]
    /\ ahead = [n \in Seqs |-> {}]
    /\ sessionLocks = {}
    /\ pc = [r \in Relays |-> "idle"]
    /\ held = [r \in Relays |-> FALSE]
    /\ link = [r \in Relays |-> "up"]
    /\ work = [r \in Relays |-> Idle]
    /\ seen = [r \in Relays |-> Unread]
    /\ delivered = {}
    /\ limbo = {}
    /\ disruptions = 0
    /\ resets = 0

-----------------------------------------------------------------------------
(* Application transactions                                                *)

\* One INSERT of enqueue() or enqueue_many(): seq is drawn from the identity
\* now, the row is visible to others only when the caller commits.
Enqueue(w, k) ==
    /\ nextSeq <= MaxSeq
    /\ nextSeq' = nextSeq + 1
    /\ status' = [status EXCEPT ![nextSeq] = "uncommitted"]
    /\ key' = [key EXCEPT ![nextSeq] = k]
    /\ txn' = [txn EXCEPT ![w] = @ \cup {nextSeq}]
    /\ UNCHANGED <<attempts, ahead, sessionLocks, relay, topic, disruptions, resets>>

SameKey(m, n) == key[m] = key[n] /\ key[n] # NoKey

\* The rows that must reach the topic before n does if n commits with S.
MustPrecede(n, S) ==
    {m \in Seqs : m < n /\ SameKey(m, n) /\ (m \in S \/ Committed(m))}

Commit(w) ==
    /\ txn[w] # {}
    /\ status' = [n \in Seqs |-> IF n \in txn[w] THEN "pending" ELSE status[n]]
    /\ ahead' = [n \in Seqs |-> IF n \in txn[w] THEN MustPrecede(n, txn[w]) ELSE ahead[n]]
    /\ txn' = [txn EXCEPT ![w] = {}]
    /\ UNCHANGED <<nextSeq, key, attempts, sessionLocks, relay, topic, disruptions, resets>>

Rollback(w) ==
    /\ txn[w] # {}
    /\ status' = [n \in Seqs |-> IF n \in txn[w] THEN "aborted" ELSE status[n]]
    /\ txn' = [txn EXCEPT ![w] = {}]
    /\ UNCHANGED <<nextSeq, key, attempts, ahead, sessionLocks, relay, topic,
                   disruptions, resets>>

-----------------------------------------------------------------------------
(* One pass of run_once()                                                  *)

\* The second key of the advisory lock: 0 in strict mode, one slot per shard otherwise.
Slot(r) == IF ShardCount = 1 THEN 0 ELSE ShardIndex[r] + 1

\* abs(...::bigint), and its mutant without abs.
AbsDropped(i) == i
Abs(i) == IF i < 0 THEN -i ELSE i

\* SQL's %: the remainder has the sign of the dividend.
Rem(a, b) == IF a < 0 THEN -((-a) % b) ELSE a % b

\* The shard filter.
InShard(r, k) == ShardCount = 1 \/ Rem(Abs(Hash[k]), ShardCount) = ShardIndex[r]

\* NOT EXISTS (a failed row of the key).
Blocked(k) == k # NoKey /\ \E f \in Seqs : status[f] = "failed" /\ key[f] = k

\* The WHERE of claim_sql, and its mutant that sees rows before they commit.
ClaimableDirty(r) ==
    {n \in Seqs : /\ status[n] \in {"pending", "uncommitted"}
                  /\ InShard(r, key[n])
                  /\ ~Blocked(key[n])}
Claimable(r) ==
    {n \in Seqs : status[n] = "pending" /\ InShard(r, key[n]) /\ ~Blocked(key[n])}

\* ORDER BY seq LIMIT batch_size.
Claimed(r) ==
    {n \in Claimable(r) : Cardinality({m \in Claimable(r) : m < n}) < BatchSize}

Move(r, S, stage) == [work EXCEPT ![r] = [n \in Seqs |-> IF n \in S THEN stage ELSE @[n]]]

\* Another session holds the advisory lock, and the mutant that never asks.
SlotTakenUnasked(r) == FALSE
SlotTaken(r) == \E q \in sessionLocks \ {r} : Slot(q) = Slot(r)

\* acquire_leadership() returning True: at once when _held, otherwise from
\* pg_try_advisory_lock.  Returning False ends the pass and changes nothing.
AcquireLeadership(r) ==
    /\ pc[r] = "idle"
    /\ link[r] = "up"
    /\ \/ held[r] /\ UNCHANGED <<held, sessionLocks>>
       \/ /\ ~held[r]
          /\ ~SlotTaken(r)
          /\ held' = [held EXCEPT ![r] = TRUE]
          /\ sessionLocks' = sessionLocks \cup {r}
    /\ pc' = [pc EXCEPT ![r] = "elected"]
    /\ UNCHANGED <<table, link, work, seen, topic, disruptions, resets>>

\* claim(), then gather() starts one _publish_key task per ordering unit.
Claim(r) ==
    /\ pc[r] = "elected"
    /\ link[r] = "up"
    /\ pc' = [pc EXCEPT ![r] = "publish"]
    /\ work' = Move(r, Claimed(r), "todo")
    /\ seen' = [seen EXCEPT ![r] = [n \in Seqs |-> IF n \in Claimed(r) THEN attempts[n] ELSE 0]]
    /\ UNCHANGED <<table, sessionLocks, held, link, topic, disruptions, resets>>

\* The ordering unit of a row: its key's rows, or the row alone when it has no key.
Unit(n) == {m \in Seqs : m = n \/ SameKey(m, n)}

At(r, stage) == {n \in Seqs : work[r][n] = stage}

Sending(r, n) == Unit(n) \cap (At(r, "air") \cup At(r, "failing")) # {}

\* producer.send() of the unit's next row.  No query is made and no lock is
\* looked at between two rows, so this needs neither link nor lock.
Send(r, n) ==
    /\ n \in At(r, "todo")
    /\ ~Sending(r, n)
    /\ \A m \in Unit(n) \cap At(r, "todo") : n <= m
    /\ work' = Move(r, {n}, "air")
    /\ UNCHANGED <<table, sessionLocks, pc, held, link, seen, topic, disruptions, resets>>

\* send() returned: the record is on the topic and sent.append() ran.
Acked(r, n) ==
    /\ n \in At(r, "air")
    /\ delivered' = delivered \cup {n}
    /\ work' = Move(r, {n}, "sent")
    /\ UNCHANGED <<table, sessionLocks, pc, held, link, seen, limbo, disruptions, resets>>

\* A record already on the topic can only add a duplicate, so it is dropped here.
Adrift(S) == (limbo \cup S) \ delivered

\* What the break after a failed send leaves unsent, and its mutant without break.
BehindKept(r, n) == {}
Behind(r, n) == Unit(n) \cap At(r, "todo")

\* send() raised: the unit stops here.  The record may or may not arrive later.
SendFailed(r, n) ==
    /\ n \in At(r, "air")
    /\ work' = [work EXCEPT ![r] = [m \in Seqs |->
                    IF m = n THEN "failing"
                    ELSE IF m \in Behind(r, n) THEN "none"
                    ELSE @[m]]]
    /\ limbo' = Adrift({n})
    /\ UNCHANGED <<table, sessionLocks, pc, held, link, seen, delivered, disruptions, resets>>

\* A record of unknown fate is appended by the broker.
Land(n) ==
    /\ n \in limbo
    /\ limbo' = limbo \ {n}
    /\ delivered' = delivered \cup {n}
    /\ UNCHANGED <<table, sessionLocks, relay, disruptions, resets>>

\* give_up, and its mutant one attempt early.
GivesUpEarly(r, n) == seen[r][n] + 2 >= MaxAttempts
GivesUp(r, n) == seen[r][n] + 1 >= MaxAttempts

\* The status a failure leaves, and its mutant with a status the table refuses.
AfterFailureDead(r, n) == IF GivesUp(r, n) THEN "dead" ELSE status[n]
AfterFailure(r, n) == IF GivesUp(r, n) THEN "failed" ELSE status[n]

\* record_failure(): the UPDATE looks at the id only, whatever the row's status
\* is by now, and the decision to give up uses the attempts the claim read.
RecordFailure(r, n) ==
    /\ n \in At(r, "failing")
    /\ link[r] = "up"
    /\ status[n] # "swept"
    /\ attempts' = [attempts EXCEPT ![n] = @ + 1]
    /\ status' = [status EXCEPT ![n] = AfterFailure(r, n)]
    /\ work' = Move(r, {n}, "none")
    /\ UNCHANGED <<nextSeq, txn, key, ahead, sessionLocks, pc, held, link, seen, topic,
                   disruptions, resets>>

\* The finally of a _publish_key task: mark_published() of what it sent.  The
\* mutant also marks what was handed to the producer and is not acknowledged.
UnitSentUnacked(r, n) == Unit(n) \cap (At(r, "sent") \cup At(r, "air"))
UnitSent(r, n) ==
    IF Unit(n) \cap At(r, "todo") = {} /\ ~Sending(r, n)
    THEN Unit(n) \cap At(r, "sent") ELSE {}

MarkPublished(r, n) ==
    /\ n \in UnitSent(r, n)
    /\ link[r] = "up"
    /\ status' = [m \in Seqs |-> IF m \in UnitSent(r, n) /\ status[m] \in InTable
                                 THEN "published" ELSE status[m]]
    /\ work' = Move(r, UnitSent(r, n), "none")
    /\ UNCHANGED <<nextSeq, txn, key, attempts, ahead, sessionLocks, pc, held, link, seen,
                   topic, disruptions, resets>>

\* Every task is done and stats() answered: run_once() returns, run() sleeps.
FinishPass(r) ==
    /\ pc[r] = "publish"
    /\ link[r] = "up"
    /\ work[r] = Idle
    /\ pc' = [pc EXCEPT ![r] = "idle"]
    /\ seen' = [seen EXCEPT ![r] = Unread]
    /\ UNCHANGED <<table, sessionLocks, held, link, work, topic, disruptions, resets>>

-----------------------------------------------------------------------------
(* How run() ends, and what may go wrong under it                          *)

Disrupt ==
    /\ disruptions < MaxDisruptions
    /\ disruptions' = disruptions + 1

\* Every way a store call of r's tasks ends in StoreUnavailableError: _call
\* forgets the lock, and the task is done with the row or the rows it had.
StoreCallFails(r, n) ==
    /\ link[r] = "down"
    /\ \/ /\ n \in At(r, "failing")
          /\ work' = Move(r, {n}, "none")
       \/ /\ n \in UnitSent(r, n)
          /\ work' = Move(r, UnitSent(r, n), "none")
    /\ held' = [held EXCEPT ![r] = FALSE]
    /\ UNCHANGED <<table, sessionLocks, pc, link, seen, topic, disruptions, resets>>

\* StoreUnavailableError out of acquire, claim or stats, or out of a task once
\* gather() has collected them all: run() goes to its finally.
StoreLost(r) ==
    /\ link[r] = "down"
    /\ pc[r] \in {"idle", "elected", "publish"}
    /\ work[r] = Idle
    /\ pc' = [pc EXCEPT ![r] = "closing"]
    /\ held' = [held EXCEPT ![r] = FALSE]
    /\ UNCHANGED <<table, sessionLocks, link, work, seen, topic, disruptions, resets>>

\* A statement fails but the connection stays (a timeout, a deadlock): not one
\* of _CONNECTION_ERRORS.  In acquire, claim or stats it ends the pass.
QueryFails(r) ==
    /\ QueryErrors
    /\ link[r] = "up"
    /\ pc[r] \in {"idle", "elected", "publish"}
    /\ work[r] = Idle
    /\ pc' = [pc EXCEPT ![r] = "closing"]
    /\ Disrupt
    /\ UNCHANGED <<table, sessionLocks, held, link, work, seen, topic, resets>>

\* The same in a task: gather() raises at once and run() closes, while the
\* tasks of the other units are neither awaited nor cancelled.
TaskQueryFails(r, n) ==
    /\ QueryErrors
    /\ link[r] = "up"
    /\ \/ /\ n \in At(r, "failing")
          /\ work' = Move(r, {n}, "none")
       \/ /\ n \in UnitSent(r, n)
          /\ work' = Move(r, UnitSent(r, n), "none")
    /\ pc' = IF pc[r] = "publish" THEN [pc EXCEPT ![r] = "closing"] ELSE pc
    /\ Disrupt
    /\ UNCHANGED <<table, sessionLocks, held, link, seen, topic, resets>>

\* record_failure() of a row that was swept: int(None) is a TypeError, which
\* leaves the task the same way.
RecordFailureOfSwept(r, n) ==
    /\ n \in At(r, "failing")
    /\ link[r] = "up"
    /\ status[n] = "swept"
    /\ work' = Move(r, {n}, "none")
    /\ pc' = IF pc[r] = "publish" THEN [pc EXCEPT ![r] = "closing"] ELSE pc
    /\ UNCHANGED <<table, sessionLocks, held, link, seen, topic, disruptions, resets>>

\* The stop event, looked at between passes.
Stop(r) ==
    /\ pc[r] = "idle"
    /\ Disrupt
    /\ pc' = [pc EXCEPT ![r] = "closing"]
    /\ UNCHANGED <<table, sessionLocks, held, link, work, seen, topic, resets>>

\* The run() task is cancelled.  Each unit's task stops where it is and goes to
\* its finally; a lock granted while acquire_leadership was being cancelled is
\* held by the session and unknown to the store.
Cancel(r) ==
    /\ pc[r] \in {"idle", "elected", "publish"}
    /\ Disrupt
    /\ pc' = [pc EXCEPT ![r] = "cancelled"]
    /\ work' = Move(r, Seqs \ At(r, "sent"), "none")
    /\ limbo' = Adrift(At(r, "air"))
    /\ \/ UNCHANGED sessionLocks
       \/ /\ pc[r] = "idle" /\ link[r] = "up" /\ ~held[r] /\ ~SlotTaken(r)
          /\ sessionLocks' = sessionLocks \cup {r}
    /\ UNCHANGED <<table, held, link, seen, delivered, resets>>

\* A cancelled run() unlocks after its tasks' mark_published, which already wait
\* for the store's _io lock; a run() that a task's exception ended does not wait
\* for the other tasks.  The mutant unlocks without waiting for the marks.
MayCloseAtOnce(r) == pc[r] \in {"closing", "cancelled"}
MayClose(r) == pc[r] = "closing" \/ (pc[r] = "cancelled" /\ work[r] = Idle)

\* close(), in the finally of run().
Close(r) ==
    /\ MayClose(r)
    /\ pc' = [pc EXCEPT ![r] = "exited"]
    /\ held' = [held EXCEPT ![r] = FALSE]
    /\ sessionLocks' = IF held[r] /\ link[r] = "up" THEN sessionLocks \ {r} ELSE sessionLocks
    /\ UNCHANGED <<table, link, work, seen, topic, disruptions, resets>>

\* The process is gone, and what its tasks were doing with it.
ProcessEnds(r) ==
    /\ pc' = [pc EXCEPT ![r] = "down"]
    /\ held' = [held EXCEPT ![r] = FALSE]
    /\ link' = [link EXCEPT ![r] = "down"]
    /\ work' = [work EXCEPT ![r] = Idle]
    /\ seen' = [seen EXCEPT ![r] = Unread]
    /\ limbo' = Adrift(At(r, "air"))
    /\ UNCHANGED <<table, sessionLocks, delivered, resets>>

Exit(r) ==
    /\ pc[r] = "exited"
    /\ ProcessEnds(r)
    /\ UNCHANGED disruptions

Crash(r) ==
    /\ pc[r] \notin {"exited", "down"}
    /\ Disrupt
    /\ ProcessEnds(r)

\* The connection breaks; the relay learns of it from its next query only.
LinkDown(r) ==
    /\ link[r] = "up"
    /\ Disrupt
    /\ link' = [link EXCEPT ![r] = "down"]
    /\ UNCHANGED <<table, sessionLocks, pc, held, work, seen, topic, resets>>

\* The server notices that the session is gone and releases its lock.
ServerReapsSession(r) ==
    /\ link[r] = "down"
    /\ r \in sessionLocks
    /\ sessionLocks' = sessionLocks \ {r}
    /\ UNCHANGED <<table, relay, topic, disruptions, resets>>

\* The supervisor starts the process again.  While the server still keeps the
\* old session, the new process would be a standby: the other relays stand for it.
Restart(r) ==
    /\ pc[r] = "down"
    /\ r \notin sessionLocks
    /\ pc' = [pc EXCEPT ![r] = "idle"]
    /\ link' = [link EXCEPT ![r] = "up"]
    /\ UNCHANGED <<table, sessionLocks, held, work, seen, topic, disruptions, resets>>

-----------------------------------------------------------------------------
(* Housekeeping                                                            *)

\* WHERE status = 'published', and its mutant that also takes failed rows.
SweepableFailed(n) == status[n] \in {"published", "failed"}
Sweepable(n) == status[n] = "published"

\* One chunk of sweep_published(): published rows that are old enough.
Sweep(S) ==
    /\ S # {}
    /\ \A n \in S : Sweepable(n)
    /\ status' = [n \in Seqs |-> IF n \in S THEN "swept" ELSE status[n]]
    /\ UNCHANGED <<nextSeq, txn, key, attempts, ahead, sessionLocks, relay, topic,
                   disruptions, resets>>

\* An operator puts a failed row back: status='pending', attempts=0.
OperatorReset(n) ==
    /\ status[n] = "failed"
    /\ resets < MaxResets
    /\ resets' = resets + 1
    /\ status' = [status EXCEPT ![n] = "pending"]
    /\ attempts' = [attempts EXCEPT ![n] = 0]
    /\ UNCHANGED <<nextSeq, txn, key, ahead, sessionLocks, relay, topic, disruptions>>

-----------------------------------------------------------------------------
WriterNext == \E w \in Writers : (\E k \in AllKeys : Enqueue(w, k)) \/ Commit(w) \/ Rollback(w)

PublishKey(r) ==
    \E n \in Seqs : \/ Send(r, n)
                    \/ Acked(r, n)
                    \/ SendFailed(r, n)
                    \/ RecordFailure(r, n)
                    \/ RecordFailureOfSwept(r, n)
                    \/ MarkPublished(r, n)
                    \/ StoreCallFails(r, n)

RunLoop(r) ==
    \/ AcquireLeadership(r)
    \/ Claim(r)
    \/ FinishPass(r)
    \/ StoreLost(r)
    \/ Close(r)
    \/ Exit(r)
    \/ Restart(r)

Disruption(r) ==
    \/ QueryFails(r)
    \/ \E n \in Seqs : TaskQueryFails(r, n)
    \/ Stop(r)
    \/ Cancel(r)
    \/ Crash(r)
    \/ LinkDown(r)

Next ==
    \/ WriterNext
    \/ \E r \in Relays : PublishKey(r) \/ RunLoop(r) \/ ServerReapsSession(r) \/ Disruption(r)
    \/ \E n \in Seqs : Land(n) \/ OperatorReset(n)
    \/ \E S \in SUBSET Seqs : Sweep(S)

Spec == Init /\ [][Next]_vars

\* The event loop runs every ready task, the server reaps dead sessions, the
\* supervisor restarts processes and the producer answers every send.  A standby
\* needs no strong fairness: a lock that was freed stays free until it is taken.
\* Nothing makes an application commit, a record of unknown fate arrive, an
\* operator reset a row or the sweep run.
Fairness ==
    \A r \in Relays :
        /\ WF_vars(PublishKey(r))
        /\ WF_vars(RunLoop(r))
        /\ WF_vars(ServerReapsSession(r))

FairSpec == Spec /\ Fairness
-----------------------------------------------------------------------------
(* What the outbox promises                                                *)

\* At least once: a row leaves the pending and failed backlog, by being marked
\* published or swept, only if its record reached the topic.  No crash between
\* the ack and the mark, no stale task of a lost relay and no sweep breaks it.
NothingLost == \A n \in Seqs : status[n] \in {"published", "swept"} => n \in delivered

\* Nothing that was rolled back, or is not committed yet, reaches the producer.
OnlyCommitted ==
    \A n \in Seqs :
        \/ n \in delivered \cup limbo
        \/ \E r \in Relays : work[r][n] # "none"
        => Committed(n)

\* Per-key order: the first record of a row comes after the first record of
\* every row of its key with a smaller seq that was committed when it was (in an
\* earlier transaction or in its own), whatever relays run, lose their lock,
\* fail or are restarted.  `delivered` only grows, one row at a time.
KeyOrder == \A n \in delivered : ahead[n] \subseteq delivered

\* A relay inside a pass whose connection is up.
Leading(r) == pc[r] \in {"elected", "publish"} /\ link[r] = "up"

\* Two relays whose connections are up never work on the same row in their passes.
NoSplitBrain ==
    \A q, r \in Relays : \A n \in Seqs :
        Leading(q) /\ Leading(r) /\ q # r => work[q][n] = "none" \/ work[r][n] = "none"

\* A leader's claim is never stale: a row it has yet to produce, or failed to
\* produce, is still pending in the table, with the attempts the claim read.
ClaimIsFresh ==
    \A r \in Relays : \A n \in Seqs :
        Leading(r) /\ work[r][n] \in {"todo", "air", "failing"}
            => status[n] = "pending" /\ attempts[n] = seen[r][n]

\* A row is given up on only after MaxAttempts recorded failures, also when the
\* decision is taken on a count read by a claim that is stale by then.
GivesUpLate ==
    resets = 0 => \A n \in Seqs : status[n] = "failed" => attempts[n] >= MaxAttempts

\* A published row stays published until it is swept: no late record_failure of
\* a relay that lost its lock turns it into a failed row that blocks its key.
PublishedIsFinal ==
    [][\A n \in Seqs : status[n] = "published" => status'[n] \in {"published", "swept"}]_vars

\* Every committed row is in the end published, or its key is blocked by a
\* failed row that waits for an operator: no row starves behind others, and no
\* lost session or stopped relay keeps the lock for ever.
EventuallySettled ==
    \A n \in Seqs :
        status[n] = "pending" ~>
            \/ status[n] # "pending"
            \/ \E f \in Seqs : status[f] = "failed" /\ SameKey(f, n)

\* Why KeyOrder and NothingLost hold: the inductive invariant of the proofs.

\* Open transactions own the rows they inserted, and nobody else's.
TxnsOwnRows ==
    /\ \A n \in Seqs : n >= nextSeq => status[n] = "unused"
    /\ \A w \in Writers : \A n \in txn[w] : status[n] = "uncommitted"
    /\ \A v, w \in Writers : v # w => txn[v] \cap txn[w] = {}

\* What must precede a row has a smaller seq, its key, and is committed.
AheadIsOlder ==
    /\ \A n \in Seqs : \A m \in ahead[n] : m < n /\ SameKey(m, n) /\ Committed(m)
    /\ \A n \in Seqs : ~Committed(n) => ahead[n] = {}

\* A task reports as sent only what reached the topic.
SentIsDelivered ==
    \A r \in Relays : \A n \in Seqs : work[r][n] = "sent" => n \in delivered

\* What is on its way to the topic, or may still arrive there, overtakes nothing.
InFlightInOrder ==
    \A n \in Seqs :
        n \in limbo \/ (\E r \in Relays : work[r][n] = "air") => ahead[n] \subseteq delivered

\* A task that waits to send a row will first have sent what must precede it.
QueueInOrder ==
    \A r \in Relays : \A n \in Seqs :
        work[r][n] = "todo" =>
            \A m \in ahead[n] : m \in delivered \/ work[r][m] \in {"todo", "air"}

OrderInv ==
    /\ TxnsOwnRows
    /\ AheadIsOlder
    /\ OnlyCommitted
    /\ NothingLost
    /\ KeyOrder
    /\ SentIsDelivered
    /\ InFlightInOrder
    /\ QueueInOrder

\* Why NoSplitBrain holds: a leader's session owns the lock of its slot, and
\* relays of different slots are given different keys.
LeadersHoldLocks ==
    /\ \A q, r \in sessionLocks : Slot(q) = Slot(r) => q = r
    /\ \A r \in Relays : held[r] /\ link[r] = "up" => r \in sessionLocks
    /\ \A r \in Relays : Leading(r) => held[r]
    /\ \A r \in Relays : pc[r] \in {"exited", "down"} => ~held[r]

WorkInShard == \A r \in Relays : \A n \in Seqs : work[r][n] # "none" => InShard(r, key[n])

LockInv == LeadersHoldLocks /\ WorkInShard

\* The rows, seen as the events of OutboxContract.
Contract == INSTANCE OutboxContract WITH
    Events <- Seqs,
    accepted <- {n \in Seqs : Committed(n)},
    keyOf <- [n \in Seqs |-> IF Committed(n) THEN key[n] ELSE NoKey],
    published <- delivered,
    forgotten <- {n \in Seqs : status[n] = "swept"}

\* Relays that fail, race and lose their lock, the sweep and late commits
\* together still do what OutboxContract promises.
ImplementsContract == Contract!Spec

=============================================================================
