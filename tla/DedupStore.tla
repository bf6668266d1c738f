----------------------------- MODULE DedupStore -----------------------------
(***************************************************************************)
(* The dedup table of kafka_reliability, one SQL statement or Redis        *)
(* command at a time:                                                      *)
(*                                                                         *)
(*   dedup/backends/postgres.py, sqlite.py, redis.py                       *)
(*                                                                         *)
(* A key stands for a (consumer group, dedup key) pair; every statement but *)
(* the sweep names one.  A record carries the time it has left: 0 is an    *)
(* expired record, which Redis drops by itself and SQL keeps until it is   *)
(* taken over or swept.  The store has no notion of who made a claim.      *)
(***************************************************************************)
EXTENDS Integers

CONSTANTS
    Keys,
    Workers,       \* consumers of the group, each with its own connection
    NoWorker,
    Settings,      \* the deduplicators considered
    Lease,         \* Deduplicator.lease, in ticks
    TTL            \* Deduplicator.ttl, in ticks

ASSUME StoreAssumption ==
    /\ NoWorker \notin Workers
    /\ Settings \subseteq
         [backend : {"postgres", "sqlite", "redis"},
          mode : {"transactional", "claim_confirm", "record_after"},
          failOpen : BOOLEAN,        \* on_store_unavailable = "fail_open"
          bypass : BOOLEAN,          \* replay_policy = "bypass"
          sweeps : BOOLEAN,          \* somebody runs purge()
          forgets : BOOLEAN]         \* an operator runs purge(group, key)
    /\ \A s \in Settings : s.mode = "transactional" => s.backend # "redis"
    /\ Lease \in Nat \ {0}
    /\ TTL \in Nat \ {0}

VARIABLES
    setting,       \* the arguments the deduplicator was constructed with
    record,        \* record[k]: the committed row of k
    pending,       \* pending[k]: the row an open transaction has written for k
    doomed         \* keys of the rows a running Postgres sweep has chosen

store == <<record, pending, doomed>>

Backend == setting.backend
Joined == setting.mode = "transactional"

Absent == [state |-> "none", left |-> 0]
NoTx == [by |-> NoWorker, left |-> 0]

StoreTypeOK ==
    /\ setting \in Settings
    /\ record \in [Keys -> [state : {"none", "in_progress", "done"}, left : Nat]]
    /\ pending \in [Keys -> [by : Workers \cup {NoWorker}, left : Nat]]
    /\ doomed \subseteq Keys

StoreInit ==
    /\ setting \in Settings
    /\ record = [k \in Keys |-> Absent]
    /\ pending = [k \in Keys |-> NoTx]
    /\ doomed = {}

Present(k) == record[k] # Absent
Expired(k) == Present(k) /\ record[k].left = 0

\* ON CONFLICT DO NOTHING, NX: only where there is no row.
Free(k) == ~Present(k)
Done(k) == record[k].state = "done" /\ record[k].left > 0

\* A committed write of a row.  Deleting it takes it from a running sweep too: a
\* row inserted afterwards is another row.
Put(k, row) ==
    /\ record' = [record EXCEPT ![k] = row]
    /\ doomed' = IF row = Absent THEN doomed \ {k} ELSE doomed

\* A write waits while another open transaction has written the same row; with
\* SQLite, which has one writer, any row.
Waits(w, k) ==
    \E j \in Keys : /\ pending[j].by \notin {w, NoWorker}
                    /\ Backend = "sqlite" \/ j = k

\* What a claim writes: in the handler's transaction a done record that becomes
\* visible when it commits, otherwise the record itself.
Write(w, k, joined, state, span) ==
    \/ /\ joined
       /\ pending' = [pending EXCEPT ![k] = [by |-> w, left |-> span]]
       /\ UNCHANGED <<record, doomed>>
    \/ /\ ~joined
       /\ Put(k, [state |-> state, left |-> span])
       /\ UNCHANGED pending

\* What a confirm leaves: an UPDATE of the row when there is one; Redis's SET
\* writes it anyway.
Confirmed(k) ==
    IF Backend = "redis" \/ Present(k) THEN [state |-> "done", left |-> TTL] ELSE record[k]

\* What a release leaves: it deletes an in_progress row, whoever claimed it.
\* The mutant deletes whatever there is.
ReleasedAny(k) == Absent
Released(k) == IF record[k].state = "in_progress" THEN Absent ELSE record[k]

\* The caller's transaction commits, or rolls back and leaves the table alone.
CommitRows(w) ==
    /\ record' = [k \in Keys |->
                    IF pending[k].by = w
                    THEN [state |-> "done", left |-> pending[k].left] ELSE record[k]]
    /\ pending' = [k \in Keys |-> IF pending[k].by = w THEN NoTx ELSE pending[k]]
    /\ UNCHANGED doomed

RolledBack(w) == [k \in Keys |-> IF pending[k].by = w THEN NoTx ELSE pending[k]]

\* purge() in SQLite is one DELETE, which looks and deletes at once.
SweepRow(k) ==
    /\ Backend = "sqlite"
    /\ Expired(k)
    /\ ~Waits(NoWorker, k)
    /\ Put(k, Absent)
    /\ UNCHANGED pending

\* In Postgres its DELETE chooses expired rows in a snapshot, waits for whoever has
\* such a row locked and deletes what the row has become: the time is in the
\* subquery, which is not evaluated again.
SweepChooses(k) ==
    /\ Backend = "postgres"
    /\ Expired(k)
    /\ doomed' = doomed \cup {k}
    /\ UNCHANGED <<record, pending>>

SweepDeletes(k) ==
    /\ k \in doomed
    /\ ~Waits(NoWorker, k)
    /\ Put(k, Absent)
    /\ UNCHANGED pending

\* purge(group, key): forget the record, whatever its state.
ForgetRow(k) ==
    /\ Present(k)
    /\ ~Waits(NoWorker, k)
    /\ Put(k, Absent)
    /\ UNCHANGED pending

\* Time passes.  Redis deletes a key whose time is up.
Less(n) == IF n > 0 THEN n - 1 ELSE 0

Aged(row) ==
    IF Backend = "redis" /\ row.left = 1 THEN Absent ELSE [row EXCEPT !.left = Less(@)]

AgeRows ==
    /\ record' = [k \in Keys |-> Aged(record[k])]
    /\ pending' = [k \in Keys |-> [pending[k] EXCEPT !.left = Less(@)]]
    /\ UNCHANGED doomed

=============================================================================
