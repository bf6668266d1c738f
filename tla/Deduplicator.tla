---------------------------- MODULE Deduplicator ----------------------------
(***************************************************************************)
(* Consumers that guard their handler with Deduplicator.process():         *)
(*                                                                         *)
(*   dedup/deduplicator.py             the three modes, fail_open          *)
(*   dedup/backends/*.py               the statements of a claim           *)
(*   docs/recipes/*.py, quickstart.md  the consumer loop around process()  *)
(*                                                                         *)
(* A worker is one consumer: it polls a message of a partition it owns,    *)
(* enters process(), runs the handler, leaves process() and commits the    *)
(* offset.  A rebalance gives a message to another worker and does not     *)
(* stop the one that is at it.  Workers crash and come back, handlers      *)
(* raise, the store fails before or after it did what it was asked.        *)
(***************************************************************************)
EXTENDS DedupStore

CONSTANTS
    Messages,      \* records of the topic
    KeyOf,         \* the (group, key) of each; replay_policy "namespace" gives replays their own
    Replayed,      \* the messages that carry the replay header
    MaxTries,      \* the tries of one claim: 3 in the code
    HandlersFail,  \* whether handlers raise
    StoreFails,    \* whether the store may be unavailable
    MaxFaults      \* bound: crashes, rebalances, exceptions, store failures, forgotten keys

ASSUME DedupAssumption ==
    /\ KeyOf \in [Messages -> Keys]
    /\ Replayed \subseteq Messages
    /\ HandlersFail \in BOOLEAN /\ StoreFails \in BOOLEAN
    /\ Messages # {}
    /\ MaxTries \in Nat \ {0}
    /\ MaxFaults \in Nat

VARIABLES
    pc,            \* pc[w]: the statement or the part of process() w is at
    msg,           \* msg[w]: the message it is at
    tries,         \* tries[w]: of the claim it is making
    stale,         \* stale[w]: the state its SQLite claim has read and will act on
    bypassed,      \* bypassed[w]: the decision has no result: no claim was made
    leaseLeft,     \* history: what is left of the lease of w's own claim
    owner,         \* owner[m]: the worker the partition of m is assigned to
    committed,     \* messages whose offset is committed
    effects,       \* effects[k]: side effects that happened for k
    lapses,        \* history: records of k that timed out as done or were bypassed or forgotten
    alarms,        \* history: reasons for a repeat that were counted, logged or raised
    overruns,      \* history: keys whose claim ran out, or was forgotten, under a live worker
    faults

worker == <<pc, msg, tries, stale, bypassed, leaseLeft>>
topic == <<owner, committed>>
history == <<effects, lapses, alarms, overruns>>
vars == <<setting, store, worker, topic, history, faults>>

Steps == {"idle", "isdone", "insert", "takeover", "read", "handling", "acted",
          "confirm", "release", "offset", "down"}

TypeOK ==
    /\ StoreTypeOK
    /\ pc \in [Workers -> Steps]
    /\ msg \in [Workers -> Messages]
    /\ tries \in [Workers -> 0..MaxTries - 1]
    /\ stale \in [Workers -> {"none", "in_progress", "done"}]
    /\ bypassed \in [Workers -> BOOLEAN]
    /\ leaseLeft \in [Workers -> Nat]
    /\ owner \in [Messages -> Workers]
    /\ committed \subseteq Messages
    /\ effects \in [Keys -> Nat]
    /\ lapses \in [Keys -> Nat]
    /\ alarms \in [Keys -> Nat]
    /\ overruns \subseteq Keys
    /\ faults \in 0..MaxFaults

Init ==
    /\ StoreInit
    /\ pc = [w \in Workers |-> "idle"]
    /\ msg = [w \in Workers |-> CHOOSE m \in Messages : TRUE]
    /\ tries = [w \in Workers |-> 0]
    /\ stale = [w \in Workers |-> "none"]
    /\ bypassed = [w \in Workers |-> FALSE]
    /\ leaseLeft = [w \in Workers |-> 0]
    /\ owner \in [Messages -> Workers]
    /\ committed = {}
    /\ effects = [k \in Keys |-> 0]
    /\ lapses = [k \in Keys |-> 0]
    /\ alarms = [k \in Keys |-> 0]
    /\ overruns = {}
    /\ faults = 0

Mode == setting.mode
FailOpen == setting.failOpen
K(w) == KeyOf[msg[w]]

\* An INSERT that meets a conflict leaves a SQLite transaction holding the one
\* write lock; with autocommit it does not, as in the mutant.
HoldsNever(w) == FALSE
Holds(w) == Backend = "sqlite" /\ Joined /\ pc[w] \in {"read", "takeover"}
SqliteHeld == \E w \in Workers : Holds(w)
Locked(w) == Waits(w, K(w)) \/ \E v \in Workers \ {w} : Holds(v)

\* record_after only looks first.
Entry == IF Mode = "record_after" THEN "isdone" ELSE "insert"
Step(w, p) == pc' = [pc EXCEPT ![w] = p]
More(count, k) == [count EXCEPT ![k] = @ + 1]
Fault == faults < MaxFaults /\ faults' = faults + 1

-----------------------------------------------------------------------------
(* Entering process()                                                      *)

\* replay_policy "bypass" runs the handler on a replayed message without a claim.
Bypasses(m) == setting.bypass /\ m \in Replayed

Poll(w, m) ==
    /\ pc[w] = "idle"
    /\ owner[m] = w
    /\ m \notin committed
    /\ msg' = [msg EXCEPT ![w] = m]
    /\ tries' = [tries EXCEPT ![w] = 0]
    /\ stale' = [stale EXCEPT ![w] = "none"]
    /\ bypassed' = [bypassed EXCEPT ![w] = Bypasses(m)]
    /\ Step(w, IF Bypasses(m) THEN "handling" ELSE Entry)
    /\ lapses' = IF Bypasses(m) THEN More(lapses, KeyOf[m]) ELSE lapses
    /\ UNCHANGED <<store, leaseLeft, topic, effects, alarms, overruns, faults>>

\* is_done(), in record_after only.
IsDone(w) ==
    /\ pc[w] = "isdone"
    /\ Step(w, IF Done(K(w)) THEN "offset" ELSE "handling")
    /\ UNCHANGED <<store, msg, tries, stale, bypassed, leaseLeft, topic, history, faults>>

\* claim() answers CLAIMED.  A lease_expired claim is counted and logged.
Granted(w, expired) ==
    /\ Step(w, IF Mode = "record_after" THEN "offset" ELSE "handling")
    /\ leaseLeft' = [leaseLeft EXCEPT ![w] = IF Mode = "claim_confirm" THEN Lease ELSE 0]
    /\ alarms' = IF expired THEN More(alarms, K(w)) ELSE alarms
    /\ UNCHANGED <<msg, tries, stale, bypassed, topic, effects, lapses, overruns, faults>>

WriteClaim(w) ==
    IF Mode = "claim_confirm" THEN Write(w, K(w), FALSE, "in_progress", Lease)
                              ELSE Write(w, K(w), Joined, "done", TTL)

\* INSERT ... ON CONFLICT DO NOTHING, or SET NX: the row was not there.
ClaimInserts(w) ==
    /\ pc[w] = "insert"
    /\ ~Locked(w)
    /\ Free(K(w))
    /\ WriteClaim(w)
    /\ Granted(w, FALSE)

\* It was there.  SQL looks at it next: Postgres with its UPDATE, SQLite with a SELECT.
ClaimConflicts(w) ==
    /\ pc[w] = "insert"
    /\ ~Locked(w)
    /\ ~Free(K(w))
    /\ Step(w, IF Backend = "postgres" THEN "takeover" ELSE "read")
    /\ UNCHANGED <<store, msg, tries, stale, bypassed, leaseLeft, topic, history, faults>>

\* Postgres: UPDATE ... WHERE expires_at <= now() RETURNING the old state.
\* The mutants take any row over, or only finished ones.
TakeableAny(k) == Present(k)
TakeableDone(k) == Expired(k) /\ record[k].state = "done"
Takeable(k) == Expired(k)

ClaimTakesOver(w) ==
    /\ pc[w] = "takeover"
    /\ Backend = "postgres"
    /\ ~Locked(w)
    /\ Takeable(K(w))
    /\ WriteClaim(w)
    /\ Granted(w, record[K(w)].state = "in_progress")

ClaimTakesNothing(w) ==
    /\ pc[w] = "takeover"
    /\ Backend = "postgres"
    /\ ~Locked(w)
    /\ ~Takeable(K(w))
    /\ Step(w, "read")
    /\ UNCHANGED <<store, msg, tries, stale, bypassed, leaseLeft, topic, history, faults>>

\* What the consumer does with a decision that is not CLAIMED: a finished message
\* is committed, one in progress elsewhere is tried again and never committed.
\* record_after has run the handler when it claims, so any answer ends it.  The
\* mutant treats a claim in progress as a finished message.
AfterCommitting(state) == "offset"
After(state) == IF state = "done" \/ Mode = "record_after" THEN "offset" ELSE Entry

\* SELECT state, or GET: done or in progress.  SQLite checks the time here,
\* Postgres did in its UPDATE, Redis has no expired keys.
ClaimAnswers(w) ==
    /\ pc[w] = "read"
    /\ Present(K(w))
    /\ Backend = "sqlite" => ~Expired(K(w))
    /\ Step(w, After(record[K(w)].state))
    /\ tries' = [tries EXCEPT ![w] = 0]
    /\ UNCHANGED <<store, msg, stale, bypassed, leaseLeft, topic, history, faults>>

\* StoreUnavailableError while entering: fail_closed raises out of the consumer,
\* fail_open runs the handler without a claim, or leaves a finished one unrecorded.
Unavailable(w, tolerated) ==
    /\ Step(w, IF ~tolerated THEN "down"
               ELSE IF Mode = "record_after" /\ pc[w] # "isdone" THEN "offset" ELSE "handling")
    /\ bypassed' = [bypassed EXCEPT ![w] = TRUE]
    /\ alarms' = IF tolerated THEN More(alarms, K(w)) ELSE alarms
    /\ UNCHANGED <<msg, tries, stale, leaseLeft, topic, effects, lapses, overruns>>

\* The loop of claim(), and one that goes round once more.
MayRetryTooOften(w) == tries[w] < MaxTries
MayRetry(w) == tries[w] + 1 < MaxTries

\* The row vanished since the conflict: released, swept or expired.
ClaimVanishes(w) ==
    /\ pc[w] = "read"
    /\ Backend # "sqlite"
    /\ ~Present(K(w))
    /\ \/ /\ MayRetry(w)
          /\ tries' = [tries EXCEPT ![w] = @ + 1]
          /\ Step(w, "insert")
          /\ UNCHANGED <<msg, stale, bypassed, leaseLeft, topic, history, faults>>
       \/ /\ ~MayRetry(w)
          /\ Unavailable(w, FailOpen)
          /\ UNCHANGED faults
    /\ UNCHANGED store

\* SQLite does not expect it: unpacking None is a TypeError.
SqliteClaimVanishes(w) ==
    /\ pc[w] = "read"
    /\ Backend = "sqlite"
    /\ ~Present(K(w))
    /\ Step(w, "down")
    /\ pending' = RolledBack(w)
    /\ UNCHANGED <<record, doomed, msg, tries, stale, bypassed, leaseLeft, topic, history, faults>>

SqliteReadsExpired(w) ==
    /\ pc[w] = "read"
    /\ Backend = "sqlite"
    /\ Expired(K(w))
    /\ stale' = [stale EXCEPT ![w] = record[K(w)].state]
    /\ Step(w, "takeover")
    /\ UNCHANGED <<store, msg, tries, bypassed, leaseLeft, topic, history, faults>>

\* The UPDATE checks the time again, and claim() does not look at its row count.
SqliteTakesOver(w) ==
    /\ pc[w] = "takeover"
    /\ Backend = "sqlite"
    /\ ~Locked(w)
    /\ IF Expired(K(w)) THEN WriteClaim(w) ELSE UNCHANGED store
    /\ Granted(w, stale[w] = "in_progress")

-----------------------------------------------------------------------------
(* The handler, and leaving process()                                      *)

\* The side effect.  In transactional mode it is a write that commits later.
Act(w) ==
    /\ pc[w] = "handling"
    /\ Step(w, "acted")
    /\ effects' = IF Joined THEN effects ELSE More(effects, K(w))
    /\ UNCHANGED <<store, msg, tries, stale, bypassed, leaseLeft, topic, lapses, alarms,
                   overruns, faults>>

\* What follows the handler's return: confirm, record, or, in transactional mode,
\* the commit of the caller's transaction after process() has been left.
Leave(w) ==
    /\ pc[w] = "acted"
    /\ Step(w, IF Joined THEN "confirm"
               ELSE IF bypassed[w] THEN "offset"
               ELSE IF Mode = "claim_confirm" THEN "confirm" ELSE "insert")
    /\ UNCHANGED <<store, msg, tries, stale, bypassed, leaseLeft, topic, history, faults>>

Confirm(w) ==
    /\ pc[w] = "confirm"
    /\ ~Joined
    /\ Put(K(w), Confirmed(K(w)))
    /\ Step(w, "offset")
    /\ UNCHANGED <<pending, msg, tries, stale, bypassed, leaseLeft, topic, history, faults>>

CommitTransaction(w) ==
    /\ pc[w] = "confirm"
    /\ Joined
    /\ CommitRows(w)
    /\ effects' = More(effects, K(w))
    /\ Step(w, "offset")
    /\ UNCHANGED <<msg, tries, stale, bypassed, leaseLeft, topic, lapses, alarms, overruns, faults>>

\* The handler raises, before or after its side effect.  claim_confirm releases;
\* the exception of a transactional handler rolls its transaction back.  Either
\* way it ends the consumer, which is started again.
HandlerRaises(w) ==
    /\ HandlersFail
    /\ pc[w] \in {"handling", "acted"}
    /\ Fault
    /\ Step(w, IF Mode = "claim_confirm" /\ ~bypassed[w] THEN "release" ELSE "down")
    /\ pending' = RolledBack(w)
    /\ alarms' = IF pc[w] = "acted" /\ ~Joined THEN More(alarms, K(w)) ELSE alarms
    /\ UNCHANGED <<record, doomed, msg, tries, stale, bypassed, leaseLeft, topic, effects,
                   lapses, overruns>>

Release(w) ==
    /\ pc[w] = "release"
    /\ Put(K(w), Released(K(w)))
    /\ Step(w, "down")
    /\ UNCHANGED <<pending, msg, tries, stale, bypassed, leaseLeft, topic, history, faults>>

\* The consumer commits the offset: refused when the partition was taken away.
CommitOffset(w) ==
    /\ pc[w] = "offset"
    /\ Step(w, "idle")
    /\ committed' = IF owner[msg[w]] = w THEN committed \cup {msg[w]} ELSE committed
    /\ UNCHANGED <<store, msg, tries, stale, bypassed, leaseLeft, owner, history, faults>>

-----------------------------------------------------------------------------
(* What goes wrong                                                         *)

\* A connection that failed takes the handler's transaction with it, and sqlite3's
\* errors are not mapped to StoreUnavailableError, so fail_open misses them.
Tolerates == FailOpen /\ ~Joined /\ Backend # "sqlite"

\* A store call of claim() or is_done() fails, having done nothing or everything.
ClaimCallFails(w) ==
    /\ StoreFails
    /\ Fault
    /\ pc[w] \in {"isdone", "insert", "takeover", "read"}
    /\ \/ pending' = RolledBack(w) /\ UNCHANGED <<record, doomed>>
       \/ pc[w] = "insert" /\ ~Joined /\ Free(K(w)) /\ WriteClaim(w)
       \/ pc[w] = "takeover" /\ ~Joined /\ Takeable(K(w)) /\ WriteClaim(w)
    /\ Unavailable(w, Tolerates)

\* The same in confirm and release; release is best effort, so the handler's
\* exception goes on.
LeaveCallFails(w) ==
    /\ StoreFails
    /\ Fault
    /\ ~Joined
    /\ pc[w] \in {"confirm", "release"}
    /\ \/ UNCHANGED <<record, doomed>>
       \/ pc[w] = "confirm" /\ Put(K(w), Confirmed(K(w)))
       \/ pc[w] = "release" /\ Put(K(w), Released(K(w)))
    /\ Step(w, IF Tolerates /\ pc[w] = "confirm" THEN "offset" ELSE "down")
    /\ UNCHANGED <<pending, msg, tries, stale, bypassed, leaseLeft, topic, history>>

\* The COMMIT of the caller's transaction fails: it did or did not take place.
CommitCallFails(w) ==
    /\ StoreFails
    /\ Fault
    /\ Joined
    /\ pc[w] = "confirm"
    /\ \/ CommitRows(w) /\ effects' = More(effects, K(w))
       \/ pending' = RolledBack(w) /\ UNCHANGED <<record, doomed, effects>>
    /\ Step(w, "down")
    /\ UNCHANGED <<msg, tries, stale, bypassed, leaseLeft, topic, lapses, alarms, overruns>>

Crash(w) ==
    /\ pc[w] # "down"
    /\ Fault
    /\ Step(w, "down")
    /\ pending' = RolledBack(w)
    /\ UNCHANGED <<record, doomed, msg, tries, stale, bypassed, leaseLeft, topic, history>>

Restart(w) ==
    /\ pc[w] = "down"
    /\ Step(w, "idle")
    /\ UNCHANGED <<store, msg, tries, stale, bypassed, leaseLeft, topic, history, faults>>

\* The partition of m moves to w; whoever is at m goes on.
Rebalance(m, w) ==
    /\ owner[m] # w
    /\ Fault
    /\ owner' = [owner EXCEPT ![m] = w]
    /\ UNCHANGED <<store, worker, committed, history>>

Sweep(k) ==
    /\ setting.sweeps
    /\ ~SqliteHeld
    /\ SweepRow(k) \/ SweepChooses(k) \/ SweepDeletes(k)
    /\ UNCHANGED <<worker, topic, history, faults>>

Forget(k) ==
    /\ setting.forgets
    /\ Fault
    /\ ~SqliteHeld
    /\ ForgetRow(k)
    /\ lapses' = More(lapses, k)
    /\ overruns' = overruns \cup {k}
    /\ UNCHANGED <<worker, topic, effects, alarms>>

\* The SQLite statements of one claim run without an await and read the clock once.
Reading == \E w \in Workers : Backend = "sqlite" /\ pc[w] \in {"read", "takeover"}

Working(w) == pc[w] \in {"handling", "acted", "confirm", "release"} /\ ~bypassed[w]

Tick ==
    /\ ~Reading
    /\ \/ \E k \in Keys : record[k].left > 0 \/ pending[k].left > 0
       \/ \E w \in Workers : leaseLeft[w] > 0
    /\ AgeRows
    /\ leaseLeft' = [w \in Workers |-> Less(leaseLeft[w])]
    /\ lapses' = [k \in Keys |->
                    IF record[k] = [state |-> "done", left |-> 1] \/ pending[k].left = 1
                    THEN lapses[k] + 1 ELSE lapses[k]]
    /\ overruns' = overruns \cup {K(w) : w \in {v \in Workers : Working(v) /\ leaseLeft[v] = 1}}
    /\ UNCHANGED <<pc, msg, tries, stale, bypassed, topic, effects, alarms, faults>>

-----------------------------------------------------------------------------
Claim(w) ==
    \/ ClaimInserts(w)
    \/ ClaimConflicts(w)
    \/ ClaimTakesOver(w)
    \/ ClaimTakesNothing(w)
    \/ ClaimAnswers(w)
    \/ ClaimVanishes(w)
    \/ SqliteClaimVanishes(w)
    \/ SqliteReadsExpired(w)
    \/ SqliteTakesOver(w)

Consume(w) ==
    /\ \/ \E m \in Messages : Poll(w, m)
       \/ IsDone(w)
       \/ Claim(w)
       \/ Act(w)
       \/ Leave(w)
       \/ Confirm(w)
       \/ CommitTransaction(w)
       \/ Release(w)
       \/ CommitOffset(w)
       \/ Restart(w)
    /\ UNCHANGED setting

Trouble(w) ==
    /\ \/ HandlerRaises(w)
       \/ ClaimCallFails(w)
       \/ LeaveCallFails(w)
       \/ CommitCallFails(w)
       \/ Crash(w)
       \/ \E m \in Messages : Rebalance(m, w)
    /\ UNCHANGED setting

Purge ==
    /\ \E k \in Keys : Sweep(k) \/ Forget(k)
    /\ UNCHANGED setting

Time == Tick /\ UNCHANGED setting

Next ==
    \/ \E w \in Workers : Consume(w) \/ Trouble(w)
    \/ Purge
    \/ Time

Spec == Init /\ [][Next]_vars

\* Consumers run, handlers return, the supervisor restarts consumers, and time
\* passes.  Nothing forces a purge, a rebalance or a fault.
Fairness == WF_vars(Time) /\ \A w \in Workers : WF_vars(Consume(w))

FairSpec == Spec /\ Fairness
-----------------------------------------------------------------------------
(* What deduplication promises                                             *)

\* An offset is committed only after the side effect of its message happened, be
\* it by another worker or under another offset: skipping is never losing.
NothingSkipped == \A m \in committed : effects[KeyOf[m]] > 0

\* Transactional mode is effectively once: as long as the record of a key lives,
\* its side effect has been committed once, whatever crashes, races, rebalances or
\* fails, and wherever a COMMIT was cut off.
TransactionalOnce ==
    Joined /\ ~FailOpen => \A k \in Keys : effects[k] <= 1 + lapses[k]

\* SQLite's claim takes an expired record over in two statements (LeasesExclude).
ClaimsAreAtomic == Backend # "sqlite" \/ Joined

\* A side effect runs again only where the library says so: lease_expired, a claim
\* skipped by fail_open, an exception the handler raised after its side effect, or a
\* record that was bypassed, forgotten or timed out as done.  Redis cannot report an
\* expired lease, and record_after promises nothing.
RepeatsAccounted ==
    Mode = "claim_confirm" /\ Backend # "redis" /\ ClaimsAreAtomic =>
        \A k \in Keys : effects[k] <= 1 + lapses[k] + alarms[k]

Handling(w, k) == pc[w] \in {"handling", "acted"} /\ ~bypassed[w] /\ K(w) = k

\* Two workers never handle one key under live leases.
LeasesExclude ==
    Mode = "claim_confirm" =>
        \A v, w \in Workers : \A k \in Keys :
            /\ Handling(v, k) /\ leaseLeft[v] > 0
            /\ Handling(w, k) /\ leaseLeft[w] > 0
            => v = w

\* Two workers handle one key at once only if a lease of that key ran out under a
\* live worker, or an operator forgot the claim: otherwise a lease longer than the
\* slowest handler excludes overlap.
OverlapNeedsOverrun ==
    Mode = "claim_confirm" /\ ClaimsAreAtomic =>
        \A v, w \in Workers : \A k \in Keys :
            Handling(v, k) /\ Handling(w, k) /\ k \notin overruns => v = w

\* A live done record stays done until its time is up or an operator forgets it: no
\* late release, takeover or claim of a worker that lost its lease undoes it.
DoneIsKept ==
    [][\A k \in Keys : Done(k) =>
         record'[k].state = "done" \/ lapses'[k] > lapses[k]]_vars

\* Every message is handled in the end, whoever died holding a claim on it.
EventuallyHandled == \A m \in Messages : <>(m \in committed)

-----------------------------------------------------------------------------
(* Why nothing is skipped: the invariant DedupProofs proves                *)

\* The parts of process() a worker reaches only when the side effect of its key has
\* happened, and those in which its transaction may hold a record.
ActedAt(p) ==
    \/ p = "offset"
    \/ ~Joined /\ p \in {"acted", "confirm"}
    \/ Mode = "record_after" /\ p \in {"insert", "takeover", "read"}
OpenAt(p) == p \in {"handling", "acted", "confirm"}

WorkersActed == \A w \in Workers : ActedAt(pc[w]) => effects[K(w)] > 0

\* A done record is evidence of a side effect, and an open transaction writes the
\* record of the message its worker is handling and no other.
DoneMeansActed == \A k \in Keys : record[k].state = "done" => effects[k] > 0
PendingIsOwn ==
    \A k \in Keys : pending[k].by # NoWorker =>
        Joined /\ OpenAt(pc[pending[k].by]) /\ K(pending[k].by) = k

SkipInv == WorkersActed /\ DoneMeansActed /\ PendingIsOwn /\ NothingSkipped

=============================================================================
