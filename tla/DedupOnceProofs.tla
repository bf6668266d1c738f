-------------------------- MODULE DedupOnceProofs --------------------------
(***************************************************************************)
(* Deduplication itself: done records last, live claims exclude, and side  *)
(* effects repeat only where the library says so.  For any number of       *)
(* workers, messages and keys, every fault and every deduplicator, as long *)
(* as Postgres, whose sweep deletes rows it has not looked at, is not      *)
(* swept by it.                                                            *)
(***************************************************************************)
EXTENDS DedupProofs, FiniteSetTheorems

PostgresUnswept == \A s \in Settings : s.backend = "postgres" => ~s.sweeps

\* Parts of process() that only one mode has, or only a worker that claims.
Searching ==
    \A w \in Workers :
        /\ pc[w] = "isdone" => Mode = "record_after"
        /\ pc[w] = "release" => Mode = "claim_confirm"
        /\ pc[w] \in {"insert", "takeover", "read"} => ~bypassed[w]

CalmInv == doomed = {} /\ Searching

\* A worker's step is its own.
Others(w) ==
    \A v \in Workers \ {w} :
        /\ pc'[v] = pc[v] /\ msg'[v] = msg[v]
        /\ bypassed'[v] = bypassed[v] /\ leaseLeft'[v] = leaseLeft[v]

LEMMA WorkerStep ==
    ASSUME TypeOK, NEW w \in Workers, Consume(w) \/ Trouble(w)
    PROVE  Others(w) /\ setting' = setting /\ overruns' = overruns
  <1>1. CASE Consume(w)
    BY <1>1
       DEF Consume, Claim, Poll, IsDone, ClaimInserts, ClaimConflicts, ClaimTakesOver,
           ClaimTakesNothing, ClaimAnswers, ClaimVanishes, SqliteClaimVanishes,
           SqliteReadsExpired, SqliteTakesOver, Act, Leave, Confirm, CommitTransaction,
           Release, CommitOffset, Restart, Granted, Unavailable, Step, Others, history, TypeOK
  <1>2. CASE Trouble(w)
    BY <1>2
       DEF Trouble, HandlerRaises, ClaimCallFails, LeaveCallFails, CommitCallFails, Crash,
           Rebalance, Unavailable, Step, Others, worker, history, TypeOK
  <1>3. QED
    BY <1>1, <1>2

\* A claim is written where there is no row, or one whose time is up.
Claimable(k) == Free(k) \/ Expired(k)

\* What a worker does to the table.
LEMMA WorkerWrites ==
    ASSUME TypeOK, NEW w \in Workers, Consume(w) \/ Trouble(w)
    PROVE  \/ UNCHANGED <<record, doomed>>
           \/ WriteClaim(w) /\ Claimable(K(w))
           \/ Put(K(w), Confirmed(K(w)))
           \/ Put(K(w), Released(K(w)))
           \/ CommitRows(w)
  <1>1. ASSUME Claim(w)
        PROVE  UNCHANGED <<record, doomed>> \/ (WriteClaim(w) /\ Claimable(K(w)))
    BY <1>1
       DEF Claim, ClaimInserts, ClaimConflicts, ClaimTakesOver, Takeable, ClaimTakesNothing,
           ClaimAnswers, ClaimVanishes, SqliteClaimVanishes, SqliteReadsExpired,
           SqliteTakesOver, Claimable, store
  <1>2. CASE Consume(w)
    BY <1>1, <1>2
       DEF Consume, Poll, IsDone, Act, Leave, Confirm, CommitTransaction, Release,
           CommitOffset, Restart, store
  <1>3. CASE Trouble(w)
    BY <1>3
       DEF Trouble, HandlerRaises, ClaimCallFails, Takeable, LeaveCallFails, CommitCallFails,
           Crash, Rebalance, Claimable, store
  <1>4. QED
    BY <1>2, <1>3

-----------------------------------------------------------------------------
(* Done records                                                            *)

LEMMA WriteClaimDoomed ==
    ASSUME NEW w \in Workers, WriteClaim(w), doomed = {} PROVE doomed' = {}
  BY DEF WriteClaim, Write, Put

\* Only a sweep of Postgres chooses rows.
LEMMA DoomedNext ==
    ASSUME PostgresUnswept, TypeOK, doomed = {}, [Next]_vars PROVE doomed' = {}
  <1>1. ASSUME NEW w \in Workers, Consume(w) \/ Trouble(w) PROVE doomed' = {}
    BY <1>1, WorkerWrites, WriteClaimDoomed DEF Put, CommitRows
  <1>2. CASE Purge
    <2>1. setting.backend = "postgres" => ~setting.sweeps
      BY DEF PostgresUnswept, TypeOK, StoreTypeOK
    <2>2. QED
      BY <1>2, <2>1
         DEF Purge, Sweep, SweepRow, SweepChooses, SweepDeletes, Backend, Forget, ForgetRow, Put
  <1>3. CASE Time
    BY <1>3 DEF Time, Tick, AgeRows
  <1>4. CASE UNCHANGED vars
    BY <1>4 DEF vars, store
  <1>5. QED
    BY <1>1, <1>2, <1>3, <1>4 DEF Next

LEMMA SearchingNext == ASSUME TypeOK, Searching, [Next]_vars PROVE Searching'
  <1>1. ASSUME NEW w \in Workers, Others(w), setting' = setting,
               pc'[w] = "isdone" => Mode = "record_after",
               pc'[w] = "release" => Mode = "claim_confirm",
               pc'[w] \in {"insert", "takeover", "read"} => ~bypassed'[w]
        PROVE  Searching'
    BY <1>1 DEF Searching, Others, Mode
  <1>2. ASSUME NEW w \in Workers, Consume(w) PROVE Searching'
    <2>0. Others(w) /\ setting' = setting /\ pc[w] \in Steps
      BY <1>2, WorkerStep DEF TypeOK
    <2>1. CASE \E m \in Messages : Poll(w, m)
      BY <1>1, <2>0, <2>1 DEF Poll, Step, Entry, TypeOK
    <2>2. CASE Claim(w)
      BY <1>1, <2>0, <2>2
         DEF Claim, ClaimInserts, ClaimConflicts, ClaimTakesOver, ClaimTakesNothing,
             ClaimAnswers, ClaimVanishes, SqliteClaimVanishes, SqliteReadsExpired,
             SqliteTakesOver, Granted, Unavailable, Step, After, Entry, Searching, TypeOK
    <2>3. CASE Leave(w)
      BY <1>1, <2>0, <2>3 DEF Leave, Step, TypeOK
    <2>4. CASE \/ IsDone(w) \/ Act(w) \/ Confirm(w) \/ CommitTransaction(w) \/ Release(w)
               \/ CommitOffset(w) \/ Restart(w)
      BY <1>1, <2>0, <2>4
         DEF IsDone, Act, Confirm, CommitTransaction, Release, CommitOffset, Restart, Step, TypeOK
    <2>5. QED
      BY <1>2, <2>1, <2>2, <2>3, <2>4 DEF Consume
  <1>3. ASSUME NEW w \in Workers, Trouble(w) PROVE Searching'
    <2>0. Others(w) /\ setting' = setting
      BY <1>3, WorkerStep
    <2>1. CASE \E m \in Messages : Rebalance(m, w)
      BY <1>1, <2>0, <2>1 DEF Rebalance, worker, Searching
    <2>2. CASE HandlerRaises(w) \/ ClaimCallFails(w) \/ LeaveCallFails(w)
               \/ CommitCallFails(w) \/ Crash(w)
      BY <1>1, <2>0, <2>2
         DEF HandlerRaises, ClaimCallFails, LeaveCallFails, CommitCallFails, Crash,
             Unavailable, Step, TypeOK
    <2>3. QED
      BY <1>3, <2>1, <2>2 DEF Trouble
  <1>4. CASE Purge \/ Time \/ UNCHANGED vars
    BY <1>4 DEF Purge, Sweep, Forget, Time, Tick, vars, worker, Searching, Mode
  <1>5. QED
    BY <1>2, <1>3, <1>4 DEF Next

LEMMA CalmInvariant == ASSUME PostgresUnswept PROVE Spec => []CalmInv
  <1>1. Init => CalmInv
    BY DEF Init, StoreInit, CalmInv, Searching
  <1>2. TypeOK /\ CalmInv /\ [Next]_vars => CalmInv'
    BY DoomedNext, SearchingNext DEF CalmInv
  <1>3. QED
    BY <1>1, <1>2, TypeCorrect, PTL DEF Spec

LEMMA DoneStays ==
    ASSUME TypeOK, doomed = {}, Next, NEW k \in Keys, Done(k)
    PROVE  record'[k].state = "done" \/ lapses'[k] > lapses[k]
  <1>0. /\ record[k].state = "done" /\ record[k].left \in Nat \ {0} /\ ~Claimable(k)
        /\ lapses[k] \in Nat
    BY DEF Done, Claimable, Free, Expired, Present, Absent, TypeOK, StoreTypeOK
  <1>1. ASSUME NEW w \in Workers, Consume(w) \/ Trouble(w) PROVE record'[k].state = "done"
    <2>1. CASE WriteClaim(w) /\ Claimable(K(w))
      <3>1. K(w) # k /\ K(w) \in Keys
        BY <1>0, <2>1, KeyOfWorker
      <3>2. QED
        BY <1>0, <2>1, <3>1 DEF WriteClaim, Write, Put, TypeOK, StoreTypeOK
    <2>2. CASE Put(K(w), Confirmed(K(w))) \/ Put(K(w), Released(K(w)))
      <3>1. Confirmed(k).state = "done" /\ Released(k).state = "done"
        BY <1>0 DEF Confirmed, Released
      <3>2. record'[k] = record[k] \/ record'[k] \in {Confirmed(k), Released(k)}
        BY <2>2 DEF Put, TypeOK, StoreTypeOK
      <3>3. QED
        BY <1>0, <3>1, <3>2
    <2>3. CASE CommitRows(w)
      BY <1>0, <2>3 DEF CommitRows
    <2>4. QED
      BY <1>0, <1>1, <2>1, <2>2, <2>3, WorkerWrites
  <1>2. ASSUME NEW j \in Keys, Sweep(j) PROVE record'[k].state = "done"
    BY <1>0, <1>2
       DEF Sweep, SweepRow, SweepChooses, SweepDeletes, Put, Claimable, TypeOK, StoreTypeOK
  <1>3. ASSUME NEW j \in Keys, Forget(j)
        PROVE  record'[k].state = "done" \/ lapses'[k] > lapses[k]
    <2>1. CASE j = k
      BY <1>0, <1>3, <2>1 DEF Forget, More, TypeOK
    <2>2. CASE j # k
      BY <1>0, <1>3, <2>2 DEF Forget, ForgetRow, Put, TypeOK, StoreTypeOK
    <2>3. QED
      BY <2>1, <2>2
  <1>4. CASE Time
    <2>1. /\ record'[k] = Aged(record[k])
          /\ record[k] = [state |-> "done", left |-> 1] => lapses'[k] = lapses[k] + 1
      BY <1>4 DEF Time, Tick, AgeRows
    <2>2. CASE record[k].left = 1
      <3>1. record[k] = [state |-> "done", left |-> 1]
        BY <1>0, <2>2 DEF TypeOK, StoreTypeOK
      <3>2. QED
        BY <1>0, <2>1, <3>1
    <2>3. CASE record[k].left # 1
      BY <1>0, <2>1, <2>3 DEF Aged, TypeOK, StoreTypeOK
    <2>4. QED
      BY <2>2, <2>3
  <1>5. QED
    BY <1>1, <1>2, <1>3, <1>4 DEF Next, Purge

\* No late release, takeover or claim undoes a live done record: it stays done until
\* its time is up or an operator forgets it.
THEOREM DoneIsKeptTheorem == ASSUME PostgresUnswept PROVE Spec => DoneIsKept
  <1>1. TypeOK /\ CalmInv /\ [Next]_vars =>
            [\A k \in Keys : Done(k) =>
                 record'[k].state = "done" \/ lapses'[k] > lapses[k]]_vars
    BY DoneStays DEF CalmInv
  <1>2. QED
    BY <1>1, TypeCorrect, CalmInvariant, PTL DEF Spec, DoneIsKept

-----------------------------------------------------------------------------
(* Leases                                                                  *)

\* A worker whose claim has neither run out under it nor been forgotten.
HoldsLease(w) == Working(w) /\ K(w) \notin overruns

\* Its record outlives its lease, and it is alone with its key.
LeaseInv ==
    /\ \A w \in Workers : pc[w] \in {"confirm", "release"} => ~bypassed[w]
    /\ \A w \in Workers :
           HoldsLease(w) => leaseLeft[w] > 0 /\ leaseLeft[w] <= record[K(w)].left
    /\ \A v, w \in Workers : HoldsLease(v) /\ HoldsLease(w) /\ K(v) = K(w) => v = w

OverlapInv == Mode = "claim_confirm" /\ Backend # "sqlite" => LeaseInv

\* One worker moves, and the records of those who hold a lease stay as they are.
LEMMA LeaseStep ==
    ASSUME TypeOK, LeaseInv, NEW w \in Workers, Others(w), overruns' = overruns,
           \A v \in Workers \ {w} : HoldsLease(v) => record'[K(v)] = record[K(v)],
           pc'[w] \in {"confirm", "release"} => ~bypassed'[w],
           HoldsLease(w)' =>
               /\ leaseLeft'[w] > 0 /\ leaseLeft'[w] <= record'[K(w)'].left
               /\ \A v \in Workers \ {w} : HoldsLease(v) => K(v) # K(w)'
    PROVE  LeaseInv'
  <1>1. \A v \in Workers \ {w} : (HoldsLease(v)' <=> HoldsLease(v)) /\ K(v)' = K(v)
    BY DEF Others, HoldsLease, Working, K
  <1>2. \A v \in Workers : pc'[v] \in {"confirm", "release"} => ~bypassed'[v]
    BY DEF LeaseInv, Others
  <1>3. ASSUME NEW v \in Workers, HoldsLease(v)'
        PROVE  leaseLeft'[v] > 0 /\ leaseLeft'[v] <= record'[K(v)'].left
    <2>1. CASE v = w
      BY <1>3, <2>1
    <2>2. CASE v # w
      BY <1>1, <1>3, <2>2 DEF LeaseInv, Others
    <2>3. QED
      BY <2>1, <2>2
  <1>4. ASSUME NEW u \in Workers, NEW v \in Workers,
               HoldsLease(u)', HoldsLease(v)', K(u)' = K(v)', u # v
        PROVE  FALSE
    <2>1. CASE u # w /\ v # w
      BY <1>1, <1>4, <2>1 DEF LeaseInv
    <2>2. CASE u = w \/ v = w
      BY <1>1, <1>4, <2>2
    <2>3. QED
      BY <2>1, <2>2
  <1>5. QED
    BY <1>2, <1>3, <1>4 DEF LeaseInv

\* A worker goes on with the lease it has, or without one.
LEMMA LeaseQuiet ==
    ASSUME TypeOK, LeaseInv, NEW w \in Workers, Others(w), UNCHANGED <<record, overruns>>,
           pc'[w] \in {"confirm", "release"} => ~bypassed'[w],
           Working(w)' => Working(w) /\ msg'[w] = msg[w] /\ leaseLeft'[w] = leaseLeft[w]
    PROVE  LeaseInv'
  <1>1. HoldsLease(w)' => HoldsLease(w) /\ K(w)' = K(w) /\ leaseLeft'[w] = leaseLeft[w]
    BY DEF HoldsLease, K
  <1>2. HoldsLease(w)' => leaseLeft'[w] > 0 /\ leaseLeft'[w] <= record'[K(w)'].left
    BY <1>1 DEF LeaseInv
  <1>3. HoldsLease(w)' => \A v \in Workers \ {w} : HoldsLease(v) => K(v) # K(w)'
    BY <1>1 DEF LeaseInv
  <1>4. QED
    BY <1>2, <1>3, LeaseStep

\* Nobody holds a lease on a key that can be claimed.
LEMMA ClaimableFree ==
    ASSUME TypeOK, LeaseInv, NEW k \in Keys, Claimable(k)
    PROVE  \A v \in Workers : HoldsLease(v) => K(v) # k
  <1>1. record[k].left = 0
    BY DEF Claimable, Free, Expired, Present, Absent
  <1>2. ASSUME NEW v \in Workers, HoldsLease(v) PROVE K(v) # k
    <2>1. leaseLeft[v] \in Nat /\ leaseLeft[v] > 0 /\ leaseLeft[v] <= record[K(v)].left
      BY <1>2 DEF LeaseInv, TypeOK
    <2>2. QED
      BY <1>1, <2>1
  <1>3. QED
    BY <1>2

\* A claim is written: by a worker that goes on with it, or that does not learn of it.
LEMMA LeaseGranted ==
    ASSUME TypeOK, LeaseInv, Mode = "claim_confirm", NEW w \in Workers, Others(w),
           overruns' = overruns,
           WriteClaim(w), Claimable(K(w)), msg' = msg, pc'[w] \notin {"confirm", "release"},
           leaseLeft'[w] = Lease \/ bypassed'[w]
    PROVE  LeaseInv'
  <1>1. K(w) \in Keys /\ K(w)' = K(w)
    BY KeyOfWorker DEF K
  <1>2. record' = [record EXCEPT ![K(w)] = [state |-> "in_progress", left |-> Lease]]
    BY DEF WriteClaim, Write, Put
  <1>3. \A v \in Workers : HoldsLease(v) => K(v) # K(w)
    BY <1>1, ClaimableFree
  <1>4. \A v \in Workers : HoldsLease(v) => record'[K(v)] = record[K(v)]
    BY <1>2, <1>3, KeyOfWorker DEF TypeOK, StoreTypeOK
  <1>5. record'[K(w)].left = Lease
    BY <1>1, <1>2 DEF TypeOK, StoreTypeOK
  <1>6. HoldsLease(w)' => leaseLeft'[w] = Lease
    BY DEF HoldsLease, Working
  <1>7. HoldsLease(w)' => leaseLeft'[w] > 0 /\ leaseLeft'[w] <= record'[K(w)'].left
    BY <1>1, <1>5, <1>6, StoreAssumption
  <1>8. QED
    BY <1>1, <1>3, <1>4, <1>7, LeaseStep

\* A worker confirms or releases: the claim is its own, or nobody holds it.
LEMMA LeaseEnds ==
    ASSUME TypeOK, LeaseInv, NEW w \in Workers, Others(w), overruns' = overruns,
           pc[w] \in {"confirm", "release"}, pc'[w] \in {"offset", "down"},
           \A k \in Keys \ {K(w)} : record'[k] = record[k]
    PROVE  LeaseInv'
  <1>1. \A v \in Workers \ {w} : HoldsLease(v) => K(v) # K(w)
    BY DEF LeaseInv, HoldsLease, Working
  <1>2. ~HoldsLease(w)'
    BY DEF HoldsLease, Working
  <1>3. QED
    BY <1>1, <1>2, KeyOfWorker, LeaseStep

LEMMA ConsumeLease ==
    ASSUME TypeOK, Searching, LeaseInv, Mode = "claim_confirm", Backend # "sqlite",
           NEW w \in Workers, Consume(w)
    PROVE  LeaseInv'
  <1>0. Others(w) /\ overruns' = overruns /\ K(w) \in Keys
    BY WorkerStep, KeyOfWorker
  <1>1. CASE \E m \in Messages : Poll(w, m)
    BY <1>0, <1>1, LeaseQuiet DEF Poll, store, Step, Entry, Working, TypeOK
  <1>2. CASE ClaimInserts(w)
    BY <1>0, <1>2, LeaseGranted DEF ClaimInserts, Granted, Step, Claimable, TypeOK
  <1>3. CASE ClaimTakesOver(w)
    BY <1>0, <1>3, LeaseGranted DEF ClaimTakesOver, Takeable, Granted, Step, Claimable, TypeOK
  <1>4. CASE ClaimConflicts(w) \/ ClaimTakesNothing(w)
    BY <1>0, <1>4, LeaseQuiet DEF ClaimConflicts, ClaimTakesNothing, store, Step, Working, TypeOK
  <1>5. CASE ClaimAnswers(w)
    BY <1>0, <1>5, LeaseQuiet DEF ClaimAnswers, store, Step, After, Entry, Working, TypeOK
  <1>6. CASE ClaimVanishes(w)
    BY <1>0, <1>6, LeaseQuiet DEF ClaimVanishes, Unavailable, store, Step, Working, TypeOK
  <1>7. CASE Act(w) \/ Leave(w)
    BY <1>0, <1>7, LeaseQuiet DEF Act, Leave, Joined, Mode, store, history, Step, Working, TypeOK
  <1>8. CASE Confirm(w) \/ Release(w)
    <2>1. \A k \in Keys \ {K(w)} : record'[k] = record[k]
      BY <1>8 DEF Confirm, Release, Put, TypeOK, StoreTypeOK
    <2>2. pc[w] \in {"confirm", "release"} /\ pc'[w] \in {"offset", "down"}
      BY <1>8 DEF Confirm, Release, Step, TypeOK
    <2>3. QED
      BY <1>0, <2>1, <2>2, LeaseEnds
  <1>9. CASE CommitOffset(w) \/ Restart(w)
    BY <1>0, <1>9, LeaseQuiet DEF CommitOffset, Restart, store, Step, Working, TypeOK
  <1>10. QED
    BY <1>1, <1>2, <1>3, <1>4, <1>5, <1>6, <1>7, <1>8, <1>9
       DEF Consume, Claim, IsDone, Searching, SqliteClaimVanishes, SqliteReadsExpired,
           SqliteTakesOver, CommitTransaction, Joined, Mode

LEMMA TroubleLease ==
    ASSUME TypeOK, LeaseInv, Mode = "claim_confirm", Backend # "sqlite",
           NEW w \in Workers, Trouble(w)
    PROVE  LeaseInv'
  <1>0. Others(w) /\ overruns' = overruns /\ K(w) \in Keys
    BY WorkerStep, KeyOfWorker
  <1>1. CASE HandlerRaises(w) \/ Crash(w)
    BY <1>0, <1>1, LeaseQuiet DEF HandlerRaises, Crash, history, Step, Working, TypeOK
  <1>2. CASE ClaimCallFails(w)
    <2>1. bypassed'[w] /\ msg' = msg /\ pc'[w] \notin {"confirm", "release"}
      BY <1>2 DEF ClaimCallFails, Unavailable, Step, TypeOK
    <2>2. CASE WriteClaim(w) /\ Claimable(K(w))
      BY <1>0, <2>1, <2>2, LeaseGranted
    <2>3. CASE record' = record
      BY <1>0, <2>1, <2>3, LeaseQuiet DEF Working
    <2>4. QED
      BY <1>2, <2>2, <2>3 DEF ClaimCallFails, Takeable, Claimable
  <1>3. CASE LeaveCallFails(w)
    <2>1. \A k \in Keys \ {K(w)} : record'[k] = record[k]
      BY <1>3 DEF LeaveCallFails, Put, TypeOK, StoreTypeOK
    <2>2. pc[w] \in {"confirm", "release"} /\ pc'[w] \in {"offset", "down"}
      BY <1>3 DEF LeaveCallFails, Step, TypeOK
    <2>3. QED
      BY <1>0, <2>1, <2>2, LeaseEnds
  <1>4. CASE \E m \in Messages : Rebalance(m, w)
    BY <1>4 DEF Rebalance, store, worker, history, LeaseInv, HoldsLease, Working, K
  <1>5. QED
    BY <1>1, <1>2, <1>3, <1>4 DEF Trouble, CommitCallFails, Joined, Mode

\* Nothing but a worker and an operator takes a record away before its time.
LEMMA PurgeLease ==
    ASSUME TypeOK, LeaseInv, doomed = {}, Backend # "sqlite", Purge
    PROVE  LeaseInv'
  <1>1. UNCHANGED <<pc, msg, bypassed, leaseLeft>> /\ overruns \subseteq overruns'
    BY DEF Purge, Sweep, Forget, worker, history
  <1>2. \A v \in Workers : HoldsLease(v)' => HoldsLease(v) /\ K(v)' = K(v)
    BY <1>1 DEF HoldsLease, Working, K
  <1>3. ASSUME NEW v \in Workers, HoldsLease(v)' PROVE record'[K(v)] = record[K(v)]
    <2>1. CASE \E k \in Keys : Sweep(k)
      BY <2>1 DEF Sweep, SweepRow, SweepChooses, SweepDeletes
    <2>2. CASE \E k \in Keys : Forget(k)
      BY <1>2, <1>3, <2>2, KeyOfWorker
         DEF Forget, ForgetRow, Put, HoldsLease, TypeOK, StoreTypeOK
    <2>3. QED
      BY <2>1, <2>2 DEF Purge
  <1>4. QED
    BY <1>1, <1>2, <1>3 DEF LeaseInv

\* Time takes as much from the lease as from the record.
LEMMA TimeLease ==
    ASSUME TypeOK, LeaseInv, Time
    PROVE  LeaseInv'
  <1>1. /\ UNCHANGED <<pc, msg, bypassed>> /\ overruns \subseteq overruns'
        /\ \A w \in Workers : leaseLeft'[w] = Less(leaseLeft[w])
        /\ \A w \in Workers : Working(w) /\ leaseLeft[w] = 1 => K(w) \in overruns'
        /\ \A k \in Keys : record'[k] = Aged(record[k])
    BY DEF Time, Tick, AgeRows
  <1>2. \A v \in Workers : HoldsLease(v)' => HoldsLease(v) /\ K(v)' = K(v)
    BY <1>1 DEF HoldsLease, Working, K
  <1>3. ASSUME NEW w \in Workers, HoldsLease(w)'
        PROVE  leaseLeft'[w] > 0 /\ leaseLeft'[w] <= record'[K(w)'].left
    <2>1. HoldsLease(w) /\ K(w)' = K(w) /\ K(w) \in Keys /\ K(w) \notin overruns'
      BY <1>2, <1>3, KeyOfWorker DEF HoldsLease
    <2>2. leaseLeft[w] > 0 /\ leaseLeft[w] <= record[K(w)].left
      BY <2>1 DEF LeaseInv
    <2>3. leaseLeft[w] # 1
      BY <1>1, <2>1 DEF HoldsLease
    <2>4. leaseLeft[w] \in Nat /\ record[K(w)].left \in Nat
      BY <2>1 DEF TypeOK, StoreTypeOK
    <2>5. record[K(w)].left # 1 /\ record[K(w)].left > 0
      BY <2>2, <2>3, <2>4
    <2>6. record'[K(w)] = [record[K(w)] EXCEPT !.left = Less(record[K(w)].left)]
      BY <1>1, <2>1, <2>5 DEF Aged
    <2>7. record'[K(w)].left = record[K(w)].left - 1
      BY <2>1, <2>4, <2>5, <2>6 DEF Less, TypeOK, StoreTypeOK
    <2>8. leaseLeft'[w] = leaseLeft[w] - 1
      BY <1>1, <2>2, <2>4 DEF Less
    <2>9. QED
      BY <2>1, <2>2, <2>3, <2>4, <2>7, <2>8
  <1>4. \A v \in Workers : pc'[v] \in {"confirm", "release"} => ~bypassed'[v]
    BY <1>1 DEF LeaseInv
  <1>5. QED
    BY <1>2, <1>3, <1>4 DEF LeaseInv

LEMMA OverlapNext ==
    TypeOK /\ CalmInv /\ OverlapInv /\ [Next]_vars => OverlapInv'
  <1> SUFFICES ASSUME TypeOK, CalmInv, LeaseInv, Mode = "claim_confirm", Backend # "sqlite",
                      [Next]_vars
               PROVE  LeaseInv'
    <2>1. [Next]_vars => setting' = setting
      BY DEF Next, Consume, Trouble, Purge, Time, vars
    <2>2. QED
      BY <2>1 DEF OverlapInv, Mode, Backend
  <1>1. CASE UNCHANGED vars
    BY <1>1 DEF vars, store, worker, history, LeaseInv, HoldsLease, Working, K
  <1>2. QED
    BY <1>1, ConsumeLease, TroubleLease, PurgeLease, TimeLease DEF Next, CalmInv

\* Two workers handle one key at once only if a lease of that key ran out under a live
\* worker or an operator forgot the claim, with every backend that claims in one
\* statement and with transactions.
THEOREM OverlapNeedsOverrunTheorem == ASSUME PostgresUnswept PROVE Spec => []OverlapNeedsOverrun
  <1>1. Init => OverlapInv
    BY DEF Init, OverlapInv, LeaseInv, HoldsLease, Working
  <1>2. OverlapInv => OverlapNeedsOverrun
    BY DEF OverlapInv, LeaseInv, HoldsLease, Working, OverlapNeedsOverrun, ClaimsAreAtomic,
           Handling, Joined, Mode
  <1>3. QED
    BY <1>1, <1>2, OverlapNext, TypeCorrect, CalmInvariant, PTL DEF Spec

-----------------------------------------------------------------------------
(* Counting: each side effect is paid for by a record, a lapse or an alarm *)

Bit(b) == IF b THEN 1 ELSE 0

\* One worker joins or leaves a set of workers.
LEMMA OneMoves ==
    ASSUME IsFiniteSet(Workers), NEW w \in Workers,
           NEW S \in SUBSET Workers, NEW T \in SUBSET Workers, S \ {w} = T \ {w}
    PROVE  /\ Cardinality(S) \in Nat /\ Cardinality(T) \in Nat
           /\ Cardinality(T) + Bit(w \in S) = Cardinality(S) + Bit(w \in T)
  <1> DEFINE R == S \ {w}
  <1>1. IsFiniteSet(R) /\ IsFiniteSet(S) /\ IsFiniteSet(T) /\ w \notin R
    BY FS_Subset
  <1>2. Cardinality(R) \in Nat /\ Cardinality(S) \in Nat /\ Cardinality(T) \in Nat
    BY <1>1, FS_CardinalityType
  <1>3. Cardinality(R \cup {w}) = Cardinality(R) + 1
    BY <1>1, FS_AddElement
  <1>4. Cardinality(S) = Cardinality(R) + Bit(w \in S)
    <2>1. CASE w \in S
      <3>1. S = R \cup {w}
        BY <2>1
      <3>2. QED
        BY <1>2, <1>3, <2>1, <3>1 DEF Bit
    <2>2. CASE w \notin S
      <3>1. S = R
        BY <2>2
      <3>2. QED
        BY <1>2, <2>2, <3>1 DEF Bit
    <2>3. QED
      BY <2>1, <2>2
  <1>5. Cardinality(T) = Cardinality(R) + Bit(w \in T)
    <2>1. CASE w \in T
      <3>1. T = R \cup {w}
        BY <2>1
      <3>2. QED
        BY <1>2, <1>3, <2>1, <3>1 DEF Bit
    <2>2. CASE w \notin T
      <3>1. T = R
        BY <2>2
      <3>2. QED
        BY <1>2, <2>2, <3>1 DEF Bit
    <2>3. QED
      BY <2>1, <2>2
  <1> HIDE DEF R
  <1>6. QED
    BY <1>2, <1>4, <1>5 DEF Bit

-----------------------------------------------------------------------------
(* Claim, confirm                                                          *)

\* Workers at k whose side effect may still happen, or whose release may still take
\* a claim away: each has been paid for.
UndecidedAt(p) == p \in {"handling", "release"}
Undecided(k) == {w \in Workers : UndecidedAt(pc[w]) /\ K(w) = k}

\* The record stands for one side effect.
Standing(k) == record[k].state = "in_progress" \/ Done(k)

Account(k) ==
    effects[k] + Cardinality(Undecided(k)) <= lapses[k] + alarms[k] + Bit(Standing(k))

AccountInv ==
    Mode = "claim_confirm" /\ Backend = "postgres" => \A k \in Keys : Account(k)

\* A step of one worker keeps the account of a key if it balances for that worker.
LEMMA AccountStep ==
    ASSUME IsFiniteSet(Workers), TypeOK, TypeOK', NEW w \in Workers, Others(w),
           NEW k \in Keys, Account(k),
           effects'[k] + Bit(w \in Undecided(k)') + lapses[k] + alarms[k] + Bit(Standing(k))
             <= effects[k] + Bit(w \in Undecided(k)) + lapses'[k] + alarms'[k] + Bit(Standing(k)')
    PROVE  Account(k)'
  <1>1. /\ Undecided(k) \in SUBSET Workers /\ Undecided(k)' \in SUBSET Workers
        /\ Undecided(k) \ {w} = Undecided(k)' \ {w}
    BY DEF Undecided, Others, K
  <1>2. /\ Cardinality(Undecided(k)) \in Nat /\ Cardinality(Undecided(k)') \in Nat
        /\ Cardinality(Undecided(k)') + Bit(w \in Undecided(k))
             = Cardinality(Undecided(k)) + Bit(w \in Undecided(k)')
    BY <1>1, OneMoves
  <1>3. /\ effects[k] \in Nat /\ effects'[k] \in Nat /\ lapses[k] \in Nat /\ lapses'[k] \in Nat
        /\ alarms[k] \in Nat /\ alarms'[k] \in Nat
    BY DEF TypeOK
  <1>4. /\ Bit(w \in Undecided(k)) \in Nat /\ Bit(w \in Undecided(k)') \in Nat
        /\ Bit(Standing(k)) \in Nat /\ Bit(Standing(k)') \in Nat
    BY DEF Bit
  <1>5. effects'[k] + Cardinality(Undecided(k)') <= lapses'[k] + alarms'[k] + Bit(Standing(k)')
    BY <1>2, <1>3, <1>4 DEF Account
  <1>6. QED
    BY <1>5 DEF Account, Bit

\* A worker at k, or on its way to it, moves.  What it does to the account is in four
\* numbers; the account of any other key is not touched.
LEMMA AccountMove ==
    ASSUME IsFiniteSet(Workers), TypeOK, TypeOK', \A k \in Keys : Account(k),
           NEW w \in Workers, Others(w), NEW k \in Keys,
           K(w)' = k, K(w) = k \/ ~UndecidedAt(pc[w]),
           \A j \in Keys \ {k} :
               /\ effects'[j] = effects[j] /\ lapses'[j] = lapses[j]
               /\ alarms'[j] = alarms[j] /\ record'[j] = record[j],
           effects'[k] + Bit(UndecidedAt(pc'[w])) + lapses[k] + alarms[k] + Bit(Standing(k))
             <= effects[k] + Bit(UndecidedAt(pc[w])) + lapses'[k] + alarms'[k] + Bit(Standing(k)')
    PROVE  \A j \in Keys : Account(j)'
  <1>1. ASSUME NEW j \in Keys \ {k} PROVE Account(j)'
    <2>1. w \notin Undecided(j) /\ w \notin Undecided(j)'
      BY <1>1 DEF Undecided
    <2>2. Standing(j)' <=> Standing(j)
      BY <1>1 DEF Standing, Done
    <2>3. Bit(w \in Undecided(j)) = 0 /\ Bit(w \in Undecided(j)') = 0
          /\ Bit(Standing(j)') = Bit(Standing(j)) /\ Bit(Standing(j)) \in Nat
      BY <2>1, <2>2 DEF Bit
    <2>4. /\ effects'[j] = effects[j] /\ lapses'[j] = lapses[j] /\ alarms'[j] = alarms[j]
          /\ effects[j] \in Nat /\ lapses[j] \in Nat /\ alarms[j] \in Nat
      BY <1>1 DEF TypeOK
    <2>5. QED
      BY <2>3, <2>4, AccountStep
  <1>2. Account(k)'
    <2>1. w \in Undecided(k)' <=> UndecidedAt(pc'[w])
      BY DEF Undecided
    <2>2. w \in Undecided(k) <=> UndecidedAt(pc[w]) /\ K(w) = k
      BY DEF Undecided
    <2>3. /\ Bit(w \in Undecided(k)') = Bit(UndecidedAt(pc'[w]))
          /\ Bit(w \in Undecided(k)) = Bit(UndecidedAt(pc[w]))
      BY <2>1, <2>2 DEF Bit
    <2>4. QED
      BY <2>3, AccountStep
  <1>3. QED
    BY <1>1, <1>2

\* A worker moves on without acting: nothing is spent that has not been paid.
LEMMA AccountQuiet ==
    ASSUME IsFiniteSet(Workers), TypeOK, TypeOK', \A k \in Keys : Account(k),
           NEW w \in Workers, Others(w), UNCHANGED <<record, effects, lapses, alarms>>,
           UndecidedAt(pc'[w]) => UndecidedAt(pc[w]) /\ msg'[w] = msg[w],
           setting' = setting
    PROVE  \A k \in Keys : Account(k)'
  <1> SUFFICES ASSUME NEW k \in Keys PROVE Account(k)'
    OBVIOUS
  <1>1. Standing(k)' <=> Standing(k)
    BY DEF Standing, Done
  <1>2. w \in Undecided(k)' => w \in Undecided(k)
    BY DEF Undecided, K
  <1>3. /\ Bit(Standing(k)') = Bit(Standing(k)) /\ Bit(Standing(k)) \in Nat
        /\ Bit(w \in Undecided(k)') <= Bit(w \in Undecided(k))
        /\ Bit(w \in Undecided(k)') \in Nat /\ Bit(w \in Undecided(k)) \in Nat
    BY <1>1, <1>2 DEF Bit
  <1>4. effects[k] \in Nat /\ lapses[k] \in Nat /\ alarms[k] \in Nat
    BY DEF TypeOK
  <1>5. QED
    BY <1>3, <1>4, AccountStep

LEMMA MoreCounts ==
    ASSUME NEW c \in [Keys -> Nat], NEW k \in Keys
    PROVE  /\ More(c, k)[k] = c[k] + 1
           /\ \A j \in Keys \ {k} : More(c, k)[j] = c[j]
  BY DEF More

\* A claim that is written stands; what stood before it was never confirmed.
LEMMA ClaimStands ==
    ASSUME TypeOK, Mode = "claim_confirm", NEW w \in Workers, WriteClaim(w), Claimable(K(w))
    PROVE  /\ Standing(K(w)) => record[K(w)].state = "in_progress" /\ ~Free(K(w))
           /\ record'[K(w)].state = "in_progress"
           /\ \A k \in Keys \ {K(w)} : record'[k] = record[k]
  <1>1. record' = [record EXCEPT ![K(w)] = [state |-> "in_progress", left |-> Lease]]
    BY DEF WriteClaim, Write, Put
  <1>2. Standing(K(w)) => record[K(w)].state = "in_progress" /\ ~Free(K(w))
    BY DEF Claimable, Standing, Done, Free, Expired, Present, Absent
  <1>3. QED
    BY <1>1, <1>2, KeyOfWorker DEF TypeOK, StoreTypeOK

LEMMA AccountGranted ==
    ASSUME IsFiniteSet(Workers), TypeOK, TypeOK', Mode = "claim_confirm",
           \A k \in Keys : Account(k), NEW w \in Workers, Others(w),
           WriteClaim(w), Claimable(K(w)), pc[w] \in {"insert", "takeover"},
           NEW expired \in BOOLEAN, Granted(w, expired),
           expired \/ Free(K(w)) \/ record[K(w)].state # "in_progress"
    PROVE  \A k \in Keys : Account(k)'
  <1>0. PICK k \in Keys : K(w) = k
    BY KeyOfWorker
  <1>1. K(w)' = k
    BY <1>0 DEF Granted, K
  <1>2. /\ effects' = effects /\ lapses' = lapses
        /\ alarms' = IF expired THEN More(alarms, k) ELSE alarms
        /\ pc'[w] = "handling"
    BY <1>0 DEF Granted, Step, TypeOK
  <1>3. /\ Standing(k) => expired
        /\ record'[k].state = "in_progress" /\ \A j \in Keys \ {k} : record'[j] = record[j]
    BY <1>0, ClaimStands
  <1>4. Standing(k)'
    BY <1>1, <1>3 DEF Standing
  <1>5. /\ \A j \in Keys \ {k} : alarms'[j] = alarms[j]
        /\ alarms'[k] = alarms[k] + Bit(expired)
        /\ alarms[k] \in Nat /\ effects[k] \in Nat /\ lapses[k] \in Nat
    <2>1. alarms \in [Keys -> Nat] /\ effects[k] \in Nat /\ lapses[k] \in Nat
      BY DEF TypeOK
    <2>2. CASE expired
      BY <1>2, <2>1, <2>2, MoreCounts DEF Bit
    <2>3. CASE ~expired
      BY <1>2, <2>1, <2>3 DEF Bit
    <2>4. QED
      BY <2>1, <2>2, <2>3
  <1>6. /\ Bit(Standing(k)) <= Bit(expired) /\ Bit(Standing(k)) \in Nat /\ Bit(expired) \in Nat
        /\ Bit(Standing(k)') = 1 /\ Bit(UndecidedAt(pc'[w])) = 1 /\ Bit(UndecidedAt(pc[w])) = 0
    BY <1>2, <1>3, <1>4 DEF Bit, UndecidedAt
  <1>7. effects'[k] + Bit(UndecidedAt(pc'[w])) + lapses[k] + alarms[k] + Bit(Standing(k))
          <= effects[k] + Bit(UndecidedAt(pc[w])) + lapses'[k] + alarms'[k] + Bit(Standing(k)')
    BY <1>2, <1>5, <1>6
  <1>8. QED
    BY <1>0, <1>1, <1>2, <1>3, <1>5, <1>7, AccountMove

\* The store fails under a claim, or the handler raises: an alarm pays for what may
\* still happen.
LEMMA AccountAlarmed ==
    ASSUME IsFiniteSet(Workers), TypeOK, TypeOK',
           \A k \in Keys : Account(k), NEW w \in Workers, Others(w),
           \A k \in Keys \ {K(w)} : record'[k] = record[k],
           Standing(K(w)) => Standing(K(w))',
           UNCHANGED <<msg, effects, lapses>>, NEW alarmed \in BOOLEAN,
           alarms' = IF alarmed THEN More(alarms, K(w)) ELSE alarms,
           UndecidedAt(pc'[w]) => alarmed \/ UndecidedAt(pc[w])
    PROVE  \A k \in Keys : Account(k)'
  <1>0. PICK k \in Keys : K(w) = k
    BY KeyOfWorker
  <1>1. K(w)' = k
    BY <1>0 DEF K
  <1>2. /\ effects' = effects /\ lapses' = lapses
        /\ alarms' = IF alarmed THEN More(alarms, k) ELSE alarms
        /\ UndecidedAt(pc'[w]) => alarmed \/ UndecidedAt(pc[w])
    BY <1>0
  <1>3. /\ \A j \in Keys \ {k} : alarms'[j] = alarms[j]
        /\ alarms'[k] = alarms[k] + Bit(alarmed)
        /\ alarms[k] \in Nat /\ effects[k] \in Nat /\ lapses[k] \in Nat
    <2>1. alarms \in [Keys -> Nat] /\ effects[k] \in Nat /\ lapses[k] \in Nat
      BY DEF TypeOK
    <2>2. CASE alarmed
      BY <1>2, <2>1, <2>2, MoreCounts DEF Bit
    <2>3. CASE ~alarmed
      BY <1>2, <2>1, <2>3 DEF Bit
    <2>4. QED
      BY <2>1, <2>2, <2>3
  <1>4. Standing(k) => Standing(k)'
    BY <1>0, <1>1 DEF Standing, Done
  <1>5. /\ Bit(Standing(k)) <= Bit(Standing(k)')
        /\ Bit(Standing(k)) \in Nat /\ Bit(Standing(k)') \in Nat /\ Bit(alarmed) \in Nat
        /\ Bit(UndecidedAt(pc'[w])) <= Bit(alarmed) + Bit(UndecidedAt(pc[w]))
        /\ Bit(UndecidedAt(pc'[w])) \in Nat /\ Bit(UndecidedAt(pc[w])) \in Nat
    BY <1>2, <1>4 DEF Bit
  <1>6. effects'[k] + Bit(UndecidedAt(pc'[w])) + lapses[k] + alarms[k] + Bit(Standing(k))
          <= effects[k] + Bit(UndecidedAt(pc[w])) + lapses'[k] + alarms'[k] + Bit(Standing(k)')
    BY <1>2, <1>3, <1>5
  <1>7. QED
    BY <1>0, <1>1, <1>2, <1>3, <1>6, AccountMove

\* A release spends what its handler did not, whoever's claim it takes away.
LEMMA AccountReleased ==
    ASSUME IsFiniteSet(Workers), TypeOK, TypeOK',
           \A k \in Keys : Account(k), NEW w \in Workers, Others(w),
           UNCHANGED <<msg, effects, lapses, alarms>>,
           \A k \in Keys \ {K(w)} : record'[k] = record[k],
           ~UndecidedAt(pc'[w]),
           UndecidedAt(pc[w]) \/ (Standing(K(w)) => Standing(K(w))')
    PROVE  \A k \in Keys : Account(k)'
  <1>0. PICK k \in Keys : K(w) = k
    BY KeyOfWorker
  <1>1. K(w)' = k
    BY <1>0 DEF K
  <1>2. effects[k] \in Nat /\ lapses[k] \in Nat /\ alarms[k] \in Nat
    BY <1>1 DEF TypeOK
  <1>3. UndecidedAt(pc[w]) \/ (Standing(k) => Standing(k)')
    BY <1>0, <1>1 DEF Standing, Done
  <1>4. /\ Bit(UndecidedAt(pc'[w])) + Bit(Standing(k))
             <= Bit(UndecidedAt(pc[w])) + Bit(Standing(k)')
        /\ Bit(Standing(k)) \in Nat /\ Bit(Standing(k)') \in Nat
        /\ Bit(UndecidedAt(pc'[w])) \in Nat /\ Bit(UndecidedAt(pc[w])) \in Nat
    BY <1>3 DEF Bit
  <1>5. effects'[k] + Bit(UndecidedAt(pc'[w])) + lapses[k] + alarms[k] + Bit(Standing(k))
          <= effects[k] + Bit(UndecidedAt(pc[w])) + lapses'[k] + alarms'[k] + Bit(Standing(k)')
    BY <1>2, <1>4
  <1>6. QED
    BY <1>0, <1>1, <1>5, AccountMove

\* The side effect happens.
LEMMA AccountAct ==
    ASSUME IsFiniteSet(Workers), TypeOK, TypeOK', ~Joined,
           \A k \in Keys : Account(k), NEW w \in Workers, Others(w), Act(w)
    PROVE  \A k \in Keys : Account(k)'
  <1>0. PICK k \in Keys : K(w) = k
    BY KeyOfWorker
  <1>1. /\ K(w)' = k /\ effects' = More(effects, k) /\ UNCHANGED <<record, lapses, alarms>>
        /\ UndecidedAt(pc[w]) /\ ~UndecidedAt(pc'[w])
    BY <1>0 DEF Act, Step, UndecidedAt, store, K, TypeOK
  <1>2. /\ \A j \in Keys \ {k} : effects'[j] = effects[j]
        /\ effects'[k] = effects[k] + 1 /\ lapses'[k] = lapses[k] /\ alarms'[k] = alarms[k]
        /\ effects[k] \in Nat /\ lapses[k] \in Nat /\ alarms[k] \in Nat
    <2>1. effects \in [Keys -> Nat] /\ lapses[k] \in Nat /\ alarms[k] \in Nat
      BY DEF TypeOK
    <2>2. QED
      BY <1>1, <2>1, MoreCounts
  <1>3. Standing(k)' <=> Standing(k)
    BY <1>1 DEF Standing, Done
  <1>4. /\ Bit(UndecidedAt(pc[w])) = 1 /\ Bit(UndecidedAt(pc'[w])) = 0
        /\ Bit(Standing(k)') = Bit(Standing(k)) /\ Bit(Standing(k)) \in Nat
    BY <1>1, <1>3 DEF Bit
  <1>5. effects'[k] + Bit(UndecidedAt(pc'[w])) + lapses[k] + alarms[k] + Bit(Standing(k))
          <= effects[k] + Bit(UndecidedAt(pc[w])) + lapses'[k] + alarms'[k] + Bit(Standing(k)')
    BY <1>2, <1>4
  <1>6. QED
    BY <1>0, <1>1, <1>2, <1>5, AccountMove

\* A replayed message is handled without a claim: its record has lapsed.
LEMMA AccountPoll ==
    ASSUME IsFiniteSet(Workers), TypeOK, TypeOK', Mode = "claim_confirm",
           \A k \in Keys : Account(k), NEW w \in Workers, Others(w), setting' = setting,
           NEW m \in Messages, Poll(w, m)
    PROVE  \A k \in Keys : Account(k)'
  <1>1. CASE Bypasses(m)
    <2>0. PICK k \in Keys : KeyOf[m] = k
      BY DedupAssumption
    <2>1. /\ K(w)' = k /\ lapses' = More(lapses, k) /\ UNCHANGED <<record, effects, alarms>>
          /\ ~UndecidedAt(pc[w]) /\ UndecidedAt(pc'[w])
      BY <1>1, <2>0 DEF Poll, Step, UndecidedAt, store, K, TypeOK
    <2>2. /\ \A j \in Keys \ {k} : lapses'[j] = lapses[j]
          /\ lapses'[k] = lapses[k] + 1 /\ effects'[k] = effects[k] /\ alarms'[k] = alarms[k]
          /\ effects[k] \in Nat /\ lapses[k] \in Nat /\ alarms[k] \in Nat
      <3>1. lapses \in [Keys -> Nat] /\ effects[k] \in Nat /\ alarms[k] \in Nat
        BY DEF TypeOK
      <3>2. QED
        BY <2>1, <3>1, MoreCounts
    <2>3. Standing(k)' <=> Standing(k)
      BY <2>1 DEF Standing, Done
    <2>4. /\ Bit(UndecidedAt(pc[w])) = 0 /\ Bit(UndecidedAt(pc'[w])) = 1
          /\ Bit(Standing(k)') = Bit(Standing(k)) /\ Bit(Standing(k)) \in Nat
      BY <2>1, <2>3 DEF Bit
    <2>5. effects'[k] + Bit(UndecidedAt(pc'[w])) + lapses[k] + alarms[k] + Bit(Standing(k))
            <= effects[k] + Bit(UndecidedAt(pc[w])) + lapses'[k] + alarms'[k] + Bit(Standing(k)')
      BY <2>2, <2>4
    <2>6. QED
      BY <2>1, <2>2, <2>5, AccountMove
  <1>2. CASE ~Bypasses(m)
    <2>1. UNCHANGED <<record, effects, lapses, alarms>> /\ ~UndecidedAt(pc'[w])
      BY <1>2 DEF Poll, Step, Entry, UndecidedAt, store, TypeOK
    <2>2. QED
      BY <2>1, AccountQuiet
  <1>3. QED
    BY <1>1, <1>2

LEMMA ConsumeAccount ==
    ASSUME IsFiniteSet(Workers), TypeOK, TypeOK', Searching, Mode = "claim_confirm",
           Backend = "postgres", \A k \in Keys : Account(k), NEW w \in Workers, Consume(w)
    PROVE  \A k \in Keys : Account(k)'
  <1>0. Others(w) /\ setting' = setting /\ ~Joined /\ pc[w] \in Steps
    BY WorkerStep DEF Joined, Mode, TypeOK
  <1>1. CASE \E m \in Messages : Poll(w, m)
    BY <1>0, <1>1, AccountPoll
  <1>2. CASE ClaimInserts(w)
    <2>1. WriteClaim(w) /\ Free(K(w)) /\ Claimable(K(w)) /\ pc[w] = "insert" /\ Granted(w, FALSE)
      BY <1>2 DEF ClaimInserts, Claimable
    <2>2. QED
      BY <1>0, <2>1, AccountGranted
  <1>3. CASE ClaimTakesOver(w)
    <2>1. /\ WriteClaim(w) /\ Claimable(K(w)) /\ pc[w] = "takeover"
          /\ Granted(w, record[K(w)].state = "in_progress")
      BY <1>3 DEF ClaimTakesOver, Takeable, Claimable
    <2>2. CASE record[K(w)].state = "in_progress"
      <3>1. Granted(w, TRUE)
        BY <2>1, <2>2 DEF Granted
      <3>2. QED
        BY <1>0, <2>1, <3>1, AccountGranted
    <2>3. CASE record[K(w)].state # "in_progress"
      <3>1. Granted(w, FALSE)
        BY <2>1, <2>3 DEF Granted
      <3>2. QED
        BY <1>0, <2>1, <2>3, <3>1, AccountGranted
    <2>4. QED
      BY <2>2, <2>3
  <1>4. CASE ClaimConflicts(w) \/ ClaimTakesNothing(w) \/ ClaimAnswers(w)
    <2>1. UNCHANGED <<record, effects, lapses, alarms>> /\ ~UndecidedAt(pc'[w])
      BY <1>4 DEF ClaimConflicts, ClaimTakesNothing, ClaimAnswers, After, Entry, Step,
                  UndecidedAt, store, history, TypeOK
    <2>2. QED
      BY <1>0, <2>1, AccountQuiet
  <1>5. CASE ClaimVanishes(w)
    <2>1. CASE Unavailable(w, FailOpen)
      <3>1. /\ record' = record /\ UNCHANGED <<msg, effects, lapses>>
            /\ alarms' = IF FailOpen THEN More(alarms, K(w)) ELSE alarms
            /\ UndecidedAt(pc'[w]) => FailOpen
        BY <1>5, <2>1 DEF ClaimVanishes, Unavailable, Step, UndecidedAt, store, TypeOK
      <3>2. Standing(K(w)) => Standing(K(w))'
        BY <3>1 DEF Standing, Done, K
      <3>3. QED
        BY <1>0, <3>1, <3>2, Modes, AccountAlarmed
    <2>2. CASE ~Unavailable(w, FailOpen)
      <3>1. UNCHANGED <<record, effects, lapses, alarms>> /\ ~UndecidedAt(pc'[w])
        BY <1>5, <2>2 DEF ClaimVanishes, Step, UndecidedAt, store, history, TypeOK
      <3>2. QED
        BY <1>0, <3>1, AccountQuiet
    <2>3. QED
      BY <2>1, <2>2
  <1>6. CASE Act(w)
    BY <1>0, <1>6, AccountAct
  <1>7. CASE Leave(w) \/ CommitOffset(w) \/ Restart(w)
    <2>1. UNCHANGED <<record, effects, lapses, alarms>> /\ ~UndecidedAt(pc'[w])
      BY <1>0, <1>7
         DEF Leave, CommitOffset, Restart, Step, UndecidedAt, store, history, TypeOK
    <2>2. QED
      BY <1>0, <2>1, AccountQuiet
  <1>8. CASE Confirm(w)
    <2>1. /\ UNCHANGED <<msg, effects, lapses, alarms>> /\ ~UndecidedAt(pc'[w])
          /\ \A k \in Keys \ {K(w)} : record'[k] = record[k]
          /\ record'[K(w)] = Confirmed(K(w))
      BY <1>8, KeyOfWorker
         DEF Confirm, Put, Step, UndecidedAt, history, TypeOK, StoreTypeOK
    <2>2. Standing(K(w)) => Standing(K(w))'
      BY <2>1, StoreAssumption DEF Standing, Done, Confirmed, Present, Absent, K
    <2>3. QED
      BY <1>0, <2>1, <2>2, AccountReleased
  <1>9. CASE Release(w)
    <2>1. /\ UNCHANGED <<msg, effects, lapses, alarms>>
          /\ UndecidedAt(pc[w]) /\ ~UndecidedAt(pc'[w])
          /\ \A k \in Keys \ {K(w)} : record'[k] = record[k]
      BY <1>9 DEF Release, Put, Step, UndecidedAt, history, TypeOK, StoreTypeOK
    <2>2. QED
      BY <1>0, <2>1, AccountReleased
  <1>10. QED
    BY <1>0, <1>1, <1>2, <1>3, <1>4, <1>5, <1>6, <1>7, <1>8, <1>9
       DEF Consume, Claim, IsDone, Searching, SqliteClaimVanishes, SqliteReadsExpired,
           SqliteTakesOver, CommitTransaction

LEMMA TroubleAccount ==
    ASSUME IsFiniteSet(Workers), TypeOK, TypeOK', Mode = "claim_confirm",
           \A k \in Keys : Account(k), NEW w \in Workers, Trouble(w)
    PROVE  \A k \in Keys : Account(k)'
  <1>0. Others(w) /\ setting' = setting /\ ~Joined
    BY WorkerStep DEF Joined, Mode
  <1>1. CASE HandlerRaises(w)
    <2>1. /\ record' = record /\ UNCHANGED <<msg, effects, lapses>>
          /\ UndecidedAt(pc'[w]) => pc[w] = "acted" \/ UndecidedAt(pc[w])
      BY <1>1 DEF HandlerRaises, Step, UndecidedAt, TypeOK
    <2>2. Standing(K(w)) => Standing(K(w))'
      BY <2>1 DEF Standing, Done, K
    <2>3. CASE pc[w] = "acted"
      <3>1. alarms' = More(alarms, K(w))
        BY <1>0, <1>1, <2>3 DEF HandlerRaises
      <3>2. QED
        BY <1>0, <2>1, <2>2, <3>1, AccountAlarmed
    <2>4. CASE pc[w] # "acted"
      <3>1. alarms' = alarms
        BY <1>1, <2>4 DEF HandlerRaises
      <3>2. QED
        BY <1>0, <2>1, <2>2, <2>4, <3>1, AccountAlarmed
    <2>5. QED
      BY <2>3, <2>4
  <1>2. CASE ClaimCallFails(w)
    <2>1. Unavailable(w, Tolerates) /\ Tolerates \in BOOLEAN
      BY <1>2, Modes DEF ClaimCallFails, Tolerates
    <2>2. /\ UNCHANGED <<msg, effects, lapses>>
          /\ alarms' = IF Tolerates THEN More(alarms, K(w)) ELSE alarms
          /\ UndecidedAt(pc'[w]) => Tolerates
      BY <2>1 DEF Unavailable, Step, UndecidedAt, TypeOK
    <2>3. CASE WriteClaim(w) /\ Claimable(K(w))
      <3>1. /\ record'[K(w)].state = "in_progress"
            /\ \A k \in Keys \ {K(w)} : record'[k] = record[k]
        BY <2>3, ClaimStands
      <3>2. Standing(K(w))'
        BY <2>2, <3>1 DEF Standing, K
      <3>3. QED
        BY <1>0, <2>1, <2>2, <3>1, <3>2, AccountAlarmed
    <2>4. CASE record' = record
      <3>1. Standing(K(w)) => Standing(K(w))'
        BY <2>2, <2>4 DEF Standing, Done, K
      <3>2. QED
        BY <1>0, <2>1, <2>2, <2>4, <3>1, AccountAlarmed
    <2>5. QED
      BY <1>2, <2>3, <2>4 DEF ClaimCallFails, Takeable, Claimable
  <1>3. CASE LeaveCallFails(w)
    <2>1. /\ UNCHANGED <<msg, effects, lapses, alarms>> /\ ~UndecidedAt(pc'[w])
          /\ \A k \in Keys \ {K(w)} : record'[k] = record[k]
      BY <1>3 DEF LeaveCallFails, Put, Step, UndecidedAt, history, TypeOK, StoreTypeOK
    <2>2. CASE pc[w] = "release"
      BY <1>0, <2>1, <2>2, AccountReleased DEF UndecidedAt
    <2>3. CASE pc[w] # "release"
      <3>1. record'[K(w)] = record[K(w)] \/ record'[K(w)] = Confirmed(K(w))
        BY <1>3, <2>3, KeyOfWorker DEF LeaveCallFails, Put, TypeOK, StoreTypeOK
      <3>2. Standing(K(w)) => Standing(K(w))'
        BY <2>1, <3>1, StoreAssumption DEF Standing, Done, Confirmed, Present, Absent, K
      <3>3. QED
        BY <1>0, <2>1, <3>2, AccountReleased
    <2>4. QED
      BY <2>2, <2>3
  <1>4. CASE Crash(w) \/ \E m \in Messages : Rebalance(m, w)
    <2>1. /\ UNCHANGED <<record, effects, lapses, alarms>>
          /\ UndecidedAt(pc'[w]) => UndecidedAt(pc[w]) /\ msg'[w] = msg[w]
      BY <1>4 DEF Crash, Rebalance, Step, UndecidedAt, store, worker, history, TypeOK
    <2>2. QED
      BY <1>0, <2>1, AccountQuiet
  <1>5. QED
    BY <1>0, <1>1, <1>2, <1>3, <1>4 DEF Trouble, CommitCallFails

\* No worker moves.
LEMMA AccountStill ==
    ASSUME IsFiniteSet(Workers), TypeOK, TypeOK', UNCHANGED <<pc, msg>>, NEW k \in Keys,
           Account(k),
           effects'[k] + lapses[k] + alarms[k] + Bit(Standing(k))
             <= effects[k] + lapses'[k] + alarms'[k] + Bit(Standing(k)')
    PROVE  Account(k)'
  <1>1. Undecided(k)' = Undecided(k)
    BY DEF Undecided, K
  <1>2. IsFiniteSet(Undecided(k))
    BY FS_Subset DEF Undecided
  <1>3. Cardinality(Undecided(k)) \in Nat /\ Cardinality(Undecided(k))' = Cardinality(Undecided(k))
    BY <1>1, <1>2, FS_CardinalityType
  <1>4. /\ effects[k] \in Nat /\ effects'[k] \in Nat /\ lapses[k] \in Nat /\ lapses'[k] \in Nat
        /\ alarms[k] \in Nat /\ alarms'[k] \in Nat
        /\ Bit(Standing(k)) \in Nat /\ Bit(Standing(k)') \in Nat
    BY DEF TypeOK, Bit
  <1>5. effects'[k] + Cardinality(Undecided(k))' <= lapses'[k] + alarms'[k] + Bit(Standing(k)')
    BY <1>3, <1>4 DEF Account
  <1>6. QED
    BY <1>5 DEF Account, Bit

LEMMA PurgeAccount ==
    ASSUME IsFiniteSet(Workers), TypeOK, TypeOK', doomed = {}, Backend = "postgres",
           \A k \in Keys : Account(k), Purge
    PROVE  \A k \in Keys : Account(k)'
  <1>1. UNCHANGED <<pc, msg>>
    BY DEF Purge, Sweep, Forget, worker
  <1>2. CASE \E j \in Keys : Sweep(j)
    <2>1. UNCHANGED <<record, effects, lapses, alarms>>
      BY <1>2 DEF Sweep, SweepRow, SweepChooses, SweepDeletes, history
    <2>2. ASSUME NEW k \in Keys PROVE Account(k)'
      <3>1. Standing(k)' <=> Standing(k)
        BY <2>1 DEF Standing, Done
      <3>2. Bit(Standing(k)') = Bit(Standing(k)) /\ Bit(Standing(k)) \in Nat
        BY <3>1 DEF Bit
      <3>3. /\ effects'[k] = effects[k] /\ lapses'[k] = lapses[k] /\ alarms'[k] = alarms[k]
            /\ effects[k] \in Nat /\ lapses[k] \in Nat /\ alarms[k] \in Nat
        BY <2>1 DEF TypeOK
      <3>4. QED
        BY <1>1, <3>2, <3>3, AccountStill
    <2>3. QED
      BY <2>2
  <1>3. ASSUME NEW j \in Keys, Forget(j), NEW k \in Keys PROVE Account(k)'
    <2>1. /\ effects'[k] = effects[k] /\ alarms'[k] = alarms[k] /\ lapses' = More(lapses, j)
          /\ effects[k] \in Nat /\ lapses \in [Keys -> Nat] /\ alarms[k] \in Nat
          /\ lapses[k] \in Nat
      BY <1>3 DEF Forget, TypeOK
    <2>2. CASE k = j
      <3>1. lapses'[k] = lapses[k] + 1
        BY <2>1, <2>2, MoreCounts
      <3>2. Bit(Standing(k)) <= 1 + Bit(Standing(k)')
            /\ Bit(Standing(k)) \in Nat /\ Bit(Standing(k)') \in Nat
        BY DEF Bit
      <3>3. QED
        BY <1>1, <2>1, <3>1, <3>2, AccountStill
    <2>3. CASE k # j
      <3>1. lapses'[k] = lapses[k]
        BY <2>1, <2>3, MoreCounts
      <3>2. record'[k] = record[k]
        BY <1>3, <2>3 DEF Forget, ForgetRow, Put, TypeOK, StoreTypeOK
      <3>3. Standing(k)' <=> Standing(k)
        BY <3>2 DEF Standing, Done
      <3>4. Bit(Standing(k)') = Bit(Standing(k)) /\ Bit(Standing(k)) \in Nat
        BY <3>3 DEF Bit
      <3>5. QED
        BY <1>1, <2>1, <3>1, <3>4, AccountStill
    <2>4. QED
      BY <2>2, <2>3
  <1>4. QED
    BY <1>2, <1>3 DEF Purge

\* A done record whose time is up pays for the next claim with a lapse.
LEMMA TimeAccount ==
    ASSUME IsFiniteSet(Workers), TypeOK, TypeOK', Backend = "postgres",
           \A k \in Keys : Account(k), Time
    PROVE  \A k \in Keys : Account(k)'
  <1> SUFFICES ASSUME NEW k \in Keys PROVE Account(k)'
    OBVIOUS
  <1>1. /\ UNCHANGED <<pc, msg>>
        /\ effects'[k] = effects[k] /\ alarms'[k] = alarms[k]
        /\ record'[k] = [record[k] EXCEPT !.left = Less(record[k].left)]
        /\ lapses'[k] = IF record[k] = [state |-> "done", left |-> 1] \/ pending[k].left = 1
                        THEN lapses[k] + 1 ELSE lapses[k]
    BY DEF Time, Tick, AgeRows, Aged
  <1>2. /\ effects[k] \in Nat /\ lapses[k] \in Nat /\ alarms[k] \in Nat
        /\ record[k] \in [state : {"none", "in_progress", "done"}, left : Nat]
    BY DEF TypeOK, StoreTypeOK
  <1>3. record'[k].state = record[k].state /\ record'[k].left = Less(record[k].left)
    BY <1>1, <1>2
  <1>4. Bit(Standing(k)) \in Nat /\ Bit(Standing(k)') \in Nat
    BY DEF Bit
  <1>5. CASE Standing(k) => Standing(k)'
    <2>1. Bit(Standing(k)) <= Bit(Standing(k)')
      BY <1>5 DEF Bit
    <2>2. lapses[k] <= lapses'[k] /\ lapses'[k] \in Nat
      BY <1>1, <1>2
    <2>3. QED
      BY <1>1, <1>2, <1>4, <2>1, <2>2, AccountStill
  <1>6. CASE Standing(k) /\ ~Standing(k)'
    <2>1. record[k].state = "done" /\ record[k].left > 0 /\ ~(record'[k].left > 0)
      BY <1>3, <1>6 DEF Standing, Done
    <2>2. record[k].left = 1
      BY <1>2, <1>3, <2>1 DEF Less
    <2>3. record[k] = [state |-> "done", left |-> 1]
      BY <1>2, <2>1, <2>2
    <2>4. lapses'[k] = lapses[k] + 1
      BY <1>1, <2>3
    <2>5. Bit(Standing(k)) <= 1 + Bit(Standing(k)')
      BY DEF Bit
    <2>6. QED
      BY <1>1, <1>2, <1>4, <2>4, <2>5, AccountStill
  <1>7. QED
    BY <1>5, <1>6

LEMMA AccountNext ==
    ASSUME IsFiniteSet(Workers), TypeOK, TypeOK', CalmInv, AccountInv, [Next]_vars
    PROVE  AccountInv'
  <1>1. setting' = setting
    BY DEF Next, Consume, Trouble, Purge, Time, vars
  <1> SUFFICES ASSUME Mode = "claim_confirm", Backend = "postgres"
               PROVE  \A k \in Keys : Account(k)'
    BY <1>1 DEF AccountInv, Mode, Backend
  <1>2. \A k \in Keys : Account(k)
    BY DEF AccountInv
  <1>3. CASE UNCHANGED vars
    <2>1. ASSUME NEW k \in Keys PROVE Account(k)'
      <3>1. Undecided(k)' = Undecided(k) /\ Standing(k)' = Standing(k)
        BY <1>3 DEF Undecided, Standing, Done, K, vars, worker, store
      <3>2. UNCHANGED <<effects, lapses, alarms>>
        BY <1>3 DEF vars, history
      <3>3. QED
        BY <1>2, <3>1, <3>2 DEF Account
    <2>2. QED
      BY <2>1
  <1>4. QED
    BY <1>2, <1>3, ConsumeAccount, TroubleAccount, PurgeAccount, TimeAccount DEF Next, CalmInv

\* Claim and confirm on Postgres: a side effect runs again only for a lease that is
\* reported expired, a claim that fail_open skipped, an exception after the side effect,
\* or a record that was bypassed, forgotten or timed out as done.
THEOREM RepeatsAccountedTheorem ==
    ASSUME IsFiniteSet(Workers), PostgresUnswept
    PROVE  Spec => []RepeatsAccounted
  <1>1. Init => AccountInv
    <2> SUFFICES ASSUME Init, NEW k \in Keys PROVE Account(k)
      BY DEF AccountInv
    <2>1. Undecided(k) = {}
      BY DEF Init, Undecided, UndecidedAt
    <2>2. effects[k] = 0 /\ lapses[k] = 0 /\ alarms[k] = 0
      BY DEF Init
    <2>3. QED
      BY <2>1, <2>2, FS_EmptySet DEF Account, Bit
  <1>2. TypeOK /\ AccountInv => RepeatsAccounted
    <2> SUFFICES ASSUME TypeOK, AccountInv, Mode = "claim_confirm", Backend = "postgres",
                        NEW k \in Keys
                 PROVE  effects[k] <= 1 + lapses[k] + alarms[k]
      BY Modes DEF RepeatsAccounted, ClaimsAreAtomic, Joined, Mode
    <2>1. IsFiniteSet(Undecided(k))
      BY FS_Subset DEF Undecided
    <2>2. Cardinality(Undecided(k)) \in Nat
      BY <2>1, FS_CardinalityType
    <2>3. effects[k] \in Nat /\ lapses[k] \in Nat /\ alarms[k] \in Nat
      BY DEF TypeOK
    <2>4. Account(k)
      BY DEF AccountInv
    <2>5. QED
      BY <2>2, <2>3, <2>4 DEF Account, Bit
  <1>3. QED
    BY <1>1, <1>2, AccountNext, TypeCorrect, CalmInvariant, PTL DEF Spec

-----------------------------------------------------------------------------
(* Transactional mode                                                      *)

SearchesAt(p) == p \in {"read", "takeover"}

\* Inside its transaction a worker that claimed has written the record of its key.
ClaimOwned == \A w \in Workers : OpenAt(pc[w]) /\ ~bypassed[w] => pending[K(w)].by = w

\* A SQLite worker between its statements is alone: nobody else writes, and a row it
\* has read as expired is still expired.
SqliteAlone ==
    Backend = "sqlite" =>
        \A w \in Workers : SearchesAt(pc[w]) =>
            /\ \A k \in Keys : pending[k].by = NoWorker
            /\ \A v \in Workers : SearchesAt(pc[v]) => v = w
            /\ pc[w] = "takeover" => Expired(K(w))

\* The steps of a worker, by what they do to the transactions.
Claims(w) ==
    /\ pc[w] \in {"insert", "takeover"} /\ ~bypassed[w] /\ ~Locked(w)
    /\ WriteClaim(w) /\ Claimable(K(w))
    /\ pc'[w] = "handling"
    /\ UNCHANGED <<msg, bypassed, effects, lapses>>

Commits(w) ==
    /\ pc[w] = "confirm" /\ pc'[w] \in {"offset", "down"}
    /\ CommitRows(w)
    /\ effects' = More(effects, K(w))
    /\ UNCHANGED <<msg, bypassed, lapses>>

HandlesUnclaimed(w, m) ==
    /\ pc[w] = "idle" /\ pc'[w] = "handling"
    /\ bypassed'[w] /\ msg'[w] = m
    /\ lapses' = More(lapses, KeyOf[m])
    /\ UNCHANGED <<record, pending, effects>>

Conflicts(w) ==
    /\ pc[w] = "insert" /\ ~Locked(w)
    /\ pc'[w] = IF Backend = "postgres" THEN "takeover" ELSE "read"
    /\ UNCHANGED <<record, pending, msg, bypassed, effects, lapses>>

Aborts(w) ==
    /\ ~OpenAt(pc'[w]) /\ ~SearchesAt(pc'[w])
    /\ pending' = RolledBack(w)
    /\ UNCHANGED <<record, effects, lapses>>

GoesOn(w) ==
    /\ OpenAt(pc'[w]) => OpenAt(pc[w]) /\ msg'[w] = msg[w] /\ bypassed'[w] = bypassed[w]
    /\ SearchesAt(pc'[w]) =>
           /\ SearchesAt(pc[w]) /\ msg'[w] = msg[w]
           /\ Backend = "sqlite" /\ pc'[w] = "takeover" => Expired(K(w))
    /\ UNCHANGED <<record, pending, effects, lapses>>

LEMMA ConsumeJoined ==
    ASSUME TypeOK, Searching, SqliteAlone, Joined, ~FailOpen, NEW w \in Workers, Consume(w)
    PROVE  \/ Claims(w) \/ Commits(w) \/ Conflicts(w) \/ Aborts(w) \/ GoesOn(w)
           \/ \E m \in Messages : HandlesUnclaimed(w, m)
  <1>1. Mode = "transactional" /\ pc[w] \in Steps
    BY DEF Joined, Mode, TypeOK
  <1>2. ASSUME NEW m \in Messages, Poll(w, m) PROVE HandlesUnclaimed(w, m) \/ GoesOn(w)
    BY <1>1, <1>2 DEF Poll, Entry, Step, store, HandlesUnclaimed, GoesOn, OpenAt, SearchesAt, TypeOK
  <1>3. CASE ClaimInserts(w) \/ ClaimTakesOver(w)
    BY <1>1, <1>3
       DEF ClaimInserts, ClaimTakesOver, Takeable, Granted, Step, Claims, Claimable, Searching,
           TypeOK
  <1>4. CASE SqliteTakesOver(w)
    <2>1. Expired(K(w))
      BY <1>4 DEF SqliteTakesOver, SqliteAlone, SearchesAt
    <2>2. QED
      BY <1>1, <1>4, <2>1
         DEF SqliteTakesOver, Granted, Step, Claims, Claimable, Searching, TypeOK
  <1>5. CASE ClaimConflicts(w)
    BY <1>5 DEF ClaimConflicts, Step, store, history, Conflicts, TypeOK
  <1>6. CASE ClaimTakesNothing(w) \/ ClaimAnswers(w)
    BY <1>1, <1>6
       DEF ClaimTakesNothing, ClaimAnswers, After, Entry, Step, store, history, GoesOn, OpenAt,
           SearchesAt, TypeOK
  <1>7. CASE ClaimVanishes(w)
    BY <1>7
       DEF ClaimVanishes, Unavailable, Step, store, history, GoesOn, OpenAt, SearchesAt, TypeOK
  <1>8. CASE SqliteClaimVanishes(w)
    BY <1>8 DEF SqliteClaimVanishes, Step, history, Aborts, OpenAt, SearchesAt, TypeOK
  <1>9. CASE SqliteReadsExpired(w)
    BY <1>9 DEF SqliteReadsExpired, Step, store, history, GoesOn, OpenAt, SearchesAt, TypeOK
  <1>10. CASE Act(w) \/ Leave(w)
    BY <1>10 DEF Act, Leave, Step, store, history, GoesOn, OpenAt, SearchesAt, TypeOK
  <1>11. CASE CommitTransaction(w)
    BY <1>11 DEF CommitTransaction, Step, Commits, TypeOK
  <1>12. CASE CommitOffset(w) \/ Restart(w)
    BY <1>12 DEF CommitOffset, Restart, Step, store, history, GoesOn, OpenAt, SearchesAt, TypeOK
  <1>13. ~IsDone(w) /\ ~Confirm(w) /\ ~Release(w)
    BY <1>1 DEF IsDone, Confirm, Release, Searching
  <1>14. QED
    BY <1>2, <1>3, <1>4, <1>5, <1>6, <1>7, <1>8, <1>9, <1>10, <1>11, <1>12, <1>13
       DEF Consume, Claim

LEMMA TroubleJoined ==
    ASSUME TypeOK, SqliteAlone, Joined, NEW w \in Workers, Trouble(w)
    PROVE  Commits(w) \/ Aborts(w) \/ GoesOn(w)
  <1>1. Mode = "transactional"
    BY DEF Joined, Mode
  <1>2. CASE HandlerRaises(w) \/ Crash(w)
    BY <1>1, <1>2 DEF HandlerRaises, Crash, Step, history, Aborts, OpenAt, SearchesAt, TypeOK
  <1>3. CASE ClaimCallFails(w)
    BY <1>3 DEF ClaimCallFails, Tolerates, Unavailable, Step, Aborts, OpenAt, SearchesAt, TypeOK
  <1>4. CASE CommitCallFails(w)
    BY <1>4 DEF CommitCallFails, Step, Commits, Aborts, OpenAt, SearchesAt, TypeOK
  <1>5. CASE \E m \in Messages : Rebalance(m, w)
    <2>1. UNCHANGED <<pc, msg, bypassed, record, pending, effects, lapses>>
      BY <1>5 DEF Rebalance, store, worker, history
    <2>2. SearchesAt(pc[w]) /\ Backend = "sqlite" /\ pc[w] = "takeover" => Expired(K(w))
      BY DEF SqliteAlone
    <2>3. QED
      BY <2>1, <2>2 DEF GoesOn
  <1>6. QED
    BY <1>2, <1>3, <1>4, <1>5 DEF Trouble, LeaveCallFails

\* A worker's step, in one of these ways.
Acts(w) ==
    \/ Claims(w) \/ Commits(w) \/ Conflicts(w) \/ Aborts(w) \/ GoesOn(w)
    \/ \E m \in Messages : HandlesUnclaimed(w, m)

\* A transaction that claims in transactional mode writes its record, and waits for
\* whoever has written the same row.
LEMMA ClaimPends ==
    ASSUME TypeOK, Joined, NEW w \in Workers, Claims(w)
    PROVE  /\ record' = record
           /\ pending' = [pending EXCEPT ![K(w)] = [by |-> w, left |-> TTL]]
           /\ K(w) \in Keys /\ K(w)' = K(w)
           /\ pending[K(w)].by \in {w, NoWorker}
  BY KeyOfWorker DEF Claims, WriteClaim, Write, Joined, Mode, Locked, Waits, K

LEMMA OwnedStep ==
    ASSUME TypeOK, ClaimOwned, Joined, NEW w \in Workers, Others(w), Acts(w)
    PROVE  ClaimOwned'
  <1>0. \A v \in Workers \ {w} : K(v)' = K(v) /\ K(v) \in Keys
    BY KeyOfWorker DEF Others, K
  <1>1. ASSUME \A v \in Workers \ {w} :
                   pending[K(v)].by = v => pending'[K(v)].by = v,
               OpenAt(pc'[w]) /\ ~bypassed'[w] => pending'[K(w)'].by = w
        PROVE  ClaimOwned'
    BY <1>0, <1>1 DEF ClaimOwned, Others
  <1>2. CASE Claims(w)
    <2>1. ASSUME NEW v \in Workers \ {w}, pending[K(v)].by = v PROVE pending'[K(v)].by = v
      <3>1. /\ pending' = [pending EXCEPT ![K(w)] = [by |-> w, left |-> TTL]]
            /\ pending[K(w)].by \in {w, NoWorker} /\ K(w) \in Keys /\ K(v) \in Keys
        BY <1>0, <1>2, ClaimPends
      <3>2. v # w /\ v # NoWorker
        BY StoreAssumption
      <3>3. K(v) # K(w)
        BY <2>1, <3>1, <3>2
      <3>4. pending = [k \in Keys |-> pending[k]]
        BY DEF TypeOK, StoreTypeOK
      <3>5. pending'[K(v)] = pending[K(v)]
        BY <3>1, <3>3, <3>4
      <3>6. QED
        BY <2>1, <3>5
    <2>2. pending'[K(w)'].by = w
      BY <1>2, ClaimPends DEF TypeOK, StoreTypeOK
    <2>3. QED
      BY <1>1, <2>1, <2>2
  <1>3. CASE Commits(w) \/ Aborts(w)
    <2>1. pending' = RolledBack(w) /\ ~OpenAt(pc'[w])
      BY <1>3 DEF Commits, CommitRows, RolledBack, Aborts, OpenAt
    <2>2. \A v \in Workers \ {w} : pending[K(v)].by = v => pending'[K(v)].by = v
      BY <1>0, <2>1 DEF RolledBack
    <2>3. QED
      BY <1>1, <2>1, <2>2
  <1>4. CASE Conflicts(w)
    BY <1>1, <1>4 DEF Conflicts, OpenAt
  <1>5. CASE GoesOn(w)
    <2>1. OpenAt(pc'[w]) => K(w)' = K(w)
      BY <1>5 DEF GoesOn, K
    <2>2. QED
      BY <1>1, <1>5, <2>1 DEF GoesOn, ClaimOwned
  <1>6. CASE \E m \in Messages : HandlesUnclaimed(w, m)
    BY <1>1, <1>6 DEF HandlesUnclaimed
  <1>7. QED
    BY <1>2, <1>3, <1>4, <1>5, <1>6 DEF Acts

LEMMA AloneStep ==
    ASSUME TypeOK, SqliteAlone, PendingIsOwn, Joined, setting' = setting,
           NEW w \in Workers, Others(w), Acts(w)
    PROVE  SqliteAlone'
  <1> SUFFICES ASSUME Backend = "sqlite",
                      NEW v \in Workers, SearchesAt(pc'[v])
               PROVE  /\ \A k \in Keys : pending'[k].by = NoWorker
                      /\ \A u \in Workers : SearchesAt(pc'[u]) => u = v
                      /\ pc'[v] = "takeover" => Expired(K(v))'
    BY DEF SqliteAlone, Backend
  <1>1. ASSUME NEW u \in Workers, SearchesAt(pc[u])
        PROVE  /\ \A k \in Keys : pending[k].by = NoWorker
               /\ \A t \in Workers : SearchesAt(pc[t]) => t = u
               /\ pc[u] = "takeover" => Expired(K(u))
               /\ Holds(u)
    BY <1>1 DEF SqliteAlone, Holds, SearchesAt
  <1>2. ASSUME NEW u \in Workers, SearchesAt(pc[u]), ~Locked(w) PROVE u = w
    BY <1>1, <1>2 DEF Locked
  <1>3. ~Claims(w)
    <2>1. SUFFICES ASSUME Claims(w) PROVE FALSE
      OBVIOUS
    <2>2. v # w
      BY <2>1 DEF Claims, SearchesAt
    <2>3. SearchesAt(pc[v])
      BY <2>2 DEF Others
    <2>4. QED
      BY <1>2, <2>1, <2>2, <2>3 DEF Claims
  <1>4. CASE Conflicts(w)
    <2>1. \A k \in Keys : pending[k].by \in {w, NoWorker}
      BY <1>4 DEF Conflicts, Locked, Waits
    <2>2. \A k \in Keys : pending[k].by # w
      BY <1>4, StoreAssumption DEF Conflicts, PendingIsOwn, OpenAt
    <2>3. \A u \in Workers \ {w} : ~SearchesAt(pc'[u])
      BY <1>2, <1>4 DEF Conflicts, Others
    <2>4. pc'[w] = "read"
      BY <1>4 DEF Conflicts
    <2>5. pending' = pending
      BY <1>4 DEF Conflicts
    <2>6. v = w
      BY <2>3
    <2>7. QED
      BY <2>1, <2>2, <2>3, <2>4, <2>5, <2>6
  <1>5. CASE ~Conflicts(w)
    <2>1. SearchesAt(pc'[w]) => SearchesAt(pc[w]) /\ GoesOn(w)
      BY <1>3, <1>5 DEF Acts, Commits, Aborts, GoesOn, HandlesUnclaimed, SearchesAt
    <2>2. \A u \in Workers : SearchesAt(pc'[u]) => SearchesAt(pc[u])
      BY <2>1 DEF Others
    <2>3. \A k \in Keys : pending[k].by = NoWorker
      BY <1>1, <2>2
    <2>4. \A k \in Keys : record'[k] = record[k] /\ pending'[k].by = NoWorker
      BY <1>3, <1>5, <2>3, StoreAssumption
         DEF Acts, Commits, CommitRows, Aborts, RolledBack, NoTx, GoesOn, HandlesUnclaimed
    <2>5. \A u \in Workers : SearchesAt(pc'[u]) => u = v
      BY <1>1, <2>2
    <2>6. ASSUME pc'[v] = "takeover" PROVE Expired(K(v))'
      <3>1. K(v)' = K(v) /\ Expired(K(v)) /\ K(v) \in Keys
        <4>1. CASE v = w
          <5>1. GoesOn(w)
            BY <2>1, <4>1
          <5>2. QED
            BY <2>6, <4>1, <5>1, KeyOfWorker DEF GoesOn, K
        <4>2. CASE v # w
          <5>1. pc[v] = "takeover"
            BY <2>6, <4>2 DEF Others
          <5>2. QED
            BY <1>1, <2>2, <4>2, <5>1, KeyOfWorker DEF Others, K
        <4>3. QED
          BY <4>1, <4>2
      <3>2. QED
        BY <2>4, <3>1 DEF Expired, Present
    <2>7. QED
      BY <2>4, <2>5, <2>6
  <1>6. QED
    BY <1>4, <1>5

\* Workers at k whose transaction will commit a side effect and no record, and an
\* open record whose time is up already: each has been paid for by a lapse.
UnclaimedAt(b, p) == b /\ OpenAt(p)
Unclaimed(k) == {w \in Workers : UnclaimedAt(bypassed[w], pc[w]) /\ K(w) = k}
Spent(k) == pending[k].by # NoWorker /\ pending[k].left = 0

Balance(k) ==
    effects[k] + Cardinality(Unclaimed(k)) + Bit(Spent(k)) <= lapses[k] + Bit(Done(k))
OpenMeansUndone == \A k \in Keys : pending[k].by # NoWorker => ~Done(k)

JoinedInv ==
    Joined /\ ~FailOpen =>
        ClaimOwned /\ SqliteAlone /\ OpenMeansUndone /\ \A k \in Keys : Balance(k)

LEMMA BalanceStep ==
    ASSUME IsFiniteSet(Workers), TypeOK, TypeOK', NEW w \in Workers, Others(w),
           NEW k \in Keys, Balance(k),
           effects'[k] + Bit(w \in Unclaimed(k)') + Bit(Spent(k)') + lapses[k] + Bit(Done(k))
             <= effects[k] + Bit(w \in Unclaimed(k)) + Bit(Spent(k)) + lapses'[k] + Bit(Done(k)')
    PROVE  Balance(k)'
  <1>1. /\ Unclaimed(k) \in SUBSET Workers /\ Unclaimed(k)' \in SUBSET Workers
        /\ Unclaimed(k) \ {w} = Unclaimed(k)' \ {w}
    BY DEF Unclaimed, Others, K
  <1>2. /\ Cardinality(Unclaimed(k)) \in Nat /\ Cardinality(Unclaimed(k)') \in Nat
        /\ Cardinality(Unclaimed(k)') + Bit(w \in Unclaimed(k))
             = Cardinality(Unclaimed(k)) + Bit(w \in Unclaimed(k)')
    BY <1>1, OneMoves
  <1>3. /\ effects[k] \in Nat /\ effects'[k] \in Nat /\ lapses[k] \in Nat /\ lapses'[k] \in Nat
    BY DEF TypeOK
  <1>4. /\ Bit(w \in Unclaimed(k)) \in Nat /\ Bit(w \in Unclaimed(k)') \in Nat
        /\ Bit(Spent(k)) \in Nat /\ Bit(Spent(k)') \in Nat
        /\ Bit(Done(k)) \in Nat /\ Bit(Done(k)') \in Nat
    BY DEF Bit
  <1>5. effects'[k] + Cardinality(Unclaimed(k)') + Bit(Spent(k)') <= lapses'[k] + Bit(Done(k)')
    BY <1>2, <1>3, <1>4 DEF Balance
  <1>6. QED
    BY <1>5 DEF Balance, Bit

\* A worker at k, or on its way to it, moves; nobody else's balance is touched.
LEMMA BalanceMove ==
    ASSUME IsFiniteSet(Workers), TypeOK, TypeOK', \A k \in Keys : Balance(k),
           NEW w \in Workers, Others(w), NEW k \in Keys,
           K(w)' = k, K(w) = k \/ ~UnclaimedAt(bypassed[w], pc[w]),
           \A j \in Keys \ {k} :
               /\ effects'[j] = effects[j] /\ lapses'[j] = lapses[j]
               /\ pending'[j] = pending[j] /\ record'[j] = record[j],
           effects'[k] + Bit(UnclaimedAt(bypassed'[w], pc'[w])) + Bit(Spent(k)') + lapses[k]
               + Bit(Done(k))
             <= effects[k] + Bit(UnclaimedAt(bypassed[w], pc[w])) + Bit(Spent(k)) + lapses'[k]
               + Bit(Done(k)')
    PROVE  \A j \in Keys : Balance(j)'
  <1>1. ASSUME NEW j \in Keys \ {k} PROVE Balance(j)'
    <2>1. w \notin Unclaimed(j) /\ w \notin Unclaimed(j)'
      BY <1>1 DEF Unclaimed
    <2>2. (Spent(j)' <=> Spent(j)) /\ (Done(j)' <=> Done(j))
      BY <1>1 DEF Spent, Done
    <2>3. /\ Bit(w \in Unclaimed(j)) = 0 /\ Bit(w \in Unclaimed(j)') = 0
          /\ Bit(Spent(j)') = Bit(Spent(j)) /\ Bit(Spent(j)) \in Nat
          /\ Bit(Done(j)') = Bit(Done(j)) /\ Bit(Done(j)) \in Nat
      BY <2>1, <2>2 DEF Bit
    <2>4. /\ effects'[j] = effects[j] /\ lapses'[j] = lapses[j]
          /\ effects[j] \in Nat /\ lapses[j] \in Nat
      BY <1>1 DEF TypeOK
    <2>5. QED
      BY <2>3, <2>4, BalanceStep
  <1>2. Balance(k)'
    <2>1. w \in Unclaimed(k)' <=> UnclaimedAt(bypassed'[w], pc'[w])
      BY DEF Unclaimed, UnclaimedAt
    <2>2. w \in Unclaimed(k) <=> UnclaimedAt(bypassed[w], pc[w]) /\ K(w) = k
      BY DEF Unclaimed
    <2>3. /\ Bit(w \in Unclaimed(k)') = Bit(UnclaimedAt(bypassed'[w], pc'[w]))
          /\ Bit(w \in Unclaimed(k)) = Bit(UnclaimedAt(bypassed[w], pc[w]))
      BY <2>1, <2>2 DEF Bit
    <2>4. QED
      BY <2>3, BalanceStep
  <1>3. QED
    BY <1>1, <1>2

\* No side effect and no record: a worker goes on, or ends its transaction.
LEMMA BalanceQuiet ==
    ASSUME IsFiniteSet(Workers), TypeOK, TypeOK', \A k \in Keys : Balance(k),
           NEW w \in Workers, Others(w), UNCHANGED <<record, effects, lapses>>,
           \A k \in Keys : Spent(k)' => Spent(k),
           UnclaimedAt(bypassed'[w], pc'[w]) =>
               UnclaimedAt(bypassed[w], pc[w]) /\ msg'[w] = msg[w]
    PROVE  \A k \in Keys : Balance(k)'
  <1> SUFFICES ASSUME NEW k \in Keys PROVE Balance(k)'
    OBVIOUS
  <1>1. Done(k)' <=> Done(k)
    BY DEF Done
  <1>2. w \in Unclaimed(k)' => w \in Unclaimed(k)
    BY DEF Unclaimed, K, UnclaimedAt
  <1>3. /\ Bit(Done(k)') = Bit(Done(k)) /\ Bit(Done(k)) \in Nat
        /\ Bit(w \in Unclaimed(k)') <= Bit(w \in Unclaimed(k))
        /\ Bit(w \in Unclaimed(k)') \in Nat /\ Bit(w \in Unclaimed(k)) \in Nat
        /\ Bit(Spent(k)') <= Bit(Spent(k)) /\ Bit(Spent(k)) \in Nat /\ Bit(Spent(k)') \in Nat
    BY <1>1, <1>2 DEF Bit
  <1>4. /\ effects'[k] = effects[k] /\ lapses'[k] = lapses[k]
        /\ effects[k] \in Nat /\ lapses[k] \in Nat
    BY DEF TypeOK
  <1>5. QED
    BY <1>3, <1>4, BalanceStep

\* The side effect and the record become visible at once.
LEMMA BalanceCommits ==
    ASSUME IsFiniteSet(Workers), TypeOK, TypeOK', \A k \in Keys : Balance(k),
           OpenMeansUndone, ClaimOwned, PendingIsOwn,
           NEW w \in Workers, Others(w), Commits(w)
    PROVE  \A k \in Keys : Balance(k)'
  <1>0. PICK k \in Keys : K(w) = k
    BY KeyOfWorker
  <1>1. /\ K(w)' = k /\ effects' = More(effects, k) /\ lapses' = lapses
        /\ ~UnclaimedAt(bypassed'[w], pc'[w])
        /\ UnclaimedAt(bypassed[w], pc[w]) <=> bypassed[w]
    BY <1>0 DEF Commits, K, UnclaimedAt, OpenAt
  <1>2. \A j \in Keys \ {k} : pending[j].by # w
    BY <1>0, StoreAssumption DEF PendingIsOwn
  <1>3. /\ \A j \in Keys \ {k} : record'[j] = record[j] /\ pending'[j] = pending[j]
        /\ pending[k].by = w => /\ record'[k] = [state |-> "done", left |-> pending[k].left]
                                /\ pending'[k] = NoTx
        /\ pending[k].by # w => record'[k] = record[k] /\ pending'[k] = pending[k]
    BY <1>2 DEF Commits, CommitRows
  <1>4. /\ \A j \in Keys \ {k} : effects'[j] = effects[j]
        /\ effects'[k] = effects[k] + 1 /\ lapses'[k] = lapses[k]
        /\ effects[k] \in Nat /\ lapses[k] \in Nat
    <2>1. effects \in [Keys -> Nat] /\ lapses[k] \in Nat
      BY DEF TypeOK
    <2>2. QED
      BY <1>1, <2>1, MoreCounts
  <1>5. 1 + Bit(Spent(k)') + Bit(Done(k))
          <= Bit(UnclaimedAt(bypassed[w], pc[w])) + Bit(Spent(k)) + Bit(Done(k)')
    <2>1. CASE pending[k].by = w
      <3>1. ~Done(k)
        BY <2>1, StoreAssumption DEF OpenMeansUndone
      <3>2. pending[k].left \in Nat /\ ~Spent(k)' /\ (Spent(k) <=> pending[k].left = 0)
        BY <1>3, <2>1, StoreAssumption DEF Spent, NoTx, TypeOK, StoreTypeOK
      <3>3. Done(k)' <=> pending[k].left > 0
        BY <1>3, <2>1 DEF Done
      <3>4. QED
        BY <3>1, <3>2, <3>3 DEF Bit
    <2>2. CASE pending[k].by # w
      <3>1. bypassed[w]
        BY <1>0, <2>2 DEF ClaimOwned, Commits, OpenAt
      <3>2. (Spent(k)' <=> Spent(k)) /\ (Done(k)' <=> Done(k))
        BY <1>3, <2>2 DEF Spent, Done
      <3>3. QED
        BY <1>1, <3>1, <3>2 DEF Bit
    <2>3. QED
      BY <2>1, <2>2
  <1>6. /\ Bit(UnclaimedAt(bypassed'[w], pc'[w])) = 0
        /\ Bit(UnclaimedAt(bypassed[w], pc[w])) \in Nat
        /\ Bit(Spent(k)) \in Nat /\ Bit(Spent(k)') \in Nat
        /\ Bit(Done(k)) \in Nat /\ Bit(Done(k)') \in Nat
    BY <1>1 DEF Bit
  <1>7. effects'[k] + Bit(UnclaimedAt(bypassed'[w], pc'[w])) + Bit(Spent(k)') + lapses[k]
            + Bit(Done(k))
          <= effects[k] + Bit(UnclaimedAt(bypassed[w], pc[w])) + Bit(Spent(k)) + lapses'[k]
            + Bit(Done(k)')
    BY <1>4, <1>5, <1>6
  <1>8. \A j \in Keys \ {k} : lapses'[j] = lapses[j]
    BY <1>1
  <1>9. QED
    BY <1>0, <1>1, <1>3, <1>4, <1>7, <1>8, BalanceMove

LEMMA BalanceUnclaimed ==
    ASSUME IsFiniteSet(Workers), TypeOK, TypeOK', \A k \in Keys : Balance(k),
           NEW w \in Workers, Others(w), NEW m \in Messages, HandlesUnclaimed(w, m)
    PROVE  \A k \in Keys : Balance(k)'
  <1>0. PICK k \in Keys : KeyOf[m] = k
    BY DedupAssumption
  <1>1. /\ K(w)' = k /\ lapses' = More(lapses, k) /\ UNCHANGED <<record, pending, effects>>
        /\ ~UnclaimedAt(bypassed[w], pc[w])
    BY <1>0 DEF HandlesUnclaimed, K, UnclaimedAt, OpenAt
  <1>2. /\ \A j \in Keys \ {k} : lapses'[j] = lapses[j]
        /\ lapses'[k] = lapses[k] + 1 /\ effects'[k] = effects[k]
        /\ effects[k] \in Nat /\ lapses[k] \in Nat
    <2>1. lapses \in [Keys -> Nat] /\ effects[k] \in Nat
      BY DEF TypeOK
    <2>2. QED
      BY <1>1, <2>1, MoreCounts
  <1>3. (Spent(k)' <=> Spent(k)) /\ (Done(k)' <=> Done(k))
    BY <1>1 DEF Spent, Done
  <1>4. /\ Bit(UnclaimedAt(bypassed'[w], pc'[w])) <= 1
        /\ Bit(UnclaimedAt(bypassed'[w], pc'[w])) \in Nat
        /\ Bit(UnclaimedAt(bypassed[w], pc[w])) = 0
        /\ Bit(Spent(k)') = Bit(Spent(k)) /\ Bit(Spent(k)) \in Nat
        /\ Bit(Done(k)') = Bit(Done(k)) /\ Bit(Done(k)) \in Nat
    BY <1>1, <1>3 DEF Bit
  <1>5. effects'[k] + Bit(UnclaimedAt(bypassed'[w], pc'[w])) + Bit(Spent(k)') + lapses[k]
            + Bit(Done(k))
          <= effects[k] + Bit(UnclaimedAt(bypassed[w], pc[w])) + Bit(Spent(k)) + lapses'[k]
            + Bit(Done(k)')
    BY <1>2, <1>4
  <1>6. QED
    BY <1>1, <1>2, <1>5, BalanceMove

LEMMA ActsBalance ==
    ASSUME IsFiniteSet(Workers), TypeOK, TypeOK', \A k \in Keys : Balance(k),
           OpenMeansUndone, ClaimOwned, PendingIsOwn, Joined,
           NEW w \in Workers, Others(w), Acts(w)
    PROVE  OpenMeansUndone' /\ \A k \in Keys : Balance(k)'
  <1>1. CASE Claims(w)
    <2>1. ~Claimable(K(w)) \/ ~Done(K(w))
      BY DEF Claimable, Free, Expired, Present, Absent, Done
    <2>2. /\ record' = record /\ K(w) \in Keys
          /\ pending' = [pending EXCEPT ![K(w)] = [by |-> w, left |-> TTL]]
      BY <1>1, ClaimPends
    <2>3. OpenMeansUndone'
      BY <1>1, <2>1, <2>2 DEF OpenMeansUndone, Done, Claims, TypeOK, StoreTypeOK
    <2>4. \A k \in Keys : Spent(k)' => Spent(k)
      BY <2>2, StoreAssumption DEF Spent, TypeOK, StoreTypeOK
    <2>5. ~UnclaimedAt(bypassed'[w], pc'[w])
      BY <1>1 DEF Claims, UnclaimedAt
    <2>6. QED
      BY <1>1, <2>2, <2>3, <2>4, <2>5, BalanceQuiet DEF Claims
  <1>2. CASE Commits(w)
    <2>1. OpenMeansUndone'
      BY <1>2 DEF Commits, CommitRows, NoTx, OpenMeansUndone, Done
    <2>2. QED
      BY <1>2, <2>1, BalanceCommits
  <1>3. CASE Conflicts(w) \/ Aborts(w) \/ GoesOn(w)
    <2>1. /\ UNCHANGED <<record, effects, lapses>>
          /\ \A k \in Keys : pending'[k] = pending[k] \/ pending'[k] = NoTx
      BY <1>3 DEF Conflicts, Aborts, RolledBack, GoesOn
    <2>2. OpenMeansUndone'
      BY <2>1 DEF OpenMeansUndone, NoTx, Done
    <2>3. \A k \in Keys : Spent(k)' => Spent(k)
      BY <2>1 DEF Spent, NoTx
    <2>4. UnclaimedAt(bypassed'[w], pc'[w]) =>
              UnclaimedAt(bypassed[w], pc[w]) /\ msg'[w] = msg[w]
      BY <1>3 DEF Conflicts, Aborts, GoesOn, UnclaimedAt, OpenAt
    <2>5. QED
      BY <2>1, <2>2, <2>3, <2>4, BalanceQuiet
  <1>4. CASE \E m \in Messages : HandlesUnclaimed(w, m)
    <2>1. OpenMeansUndone'
      BY <1>4 DEF HandlesUnclaimed, OpenMeansUndone, Done
    <2>2. QED
      BY <1>4, <2>1, BalanceUnclaimed
  <1>5. QED
    BY <1>1, <1>2, <1>3, <1>4 DEF Acts

\* No worker moves, and whoever has written a row has still written it.
LEMMA BalanceStill ==
    ASSUME IsFiniteSet(Workers), TypeOK, TypeOK', UNCHANGED <<pc, msg, bypassed>>,
           NEW k \in Keys, Balance(k),
           effects'[k] + Bit(Spent(k)') + lapses[k] + Bit(Done(k))
             <= effects[k] + Bit(Spent(k)) + lapses'[k] + Bit(Done(k)')
    PROVE  Balance(k)'
  <1>1. Unclaimed(k)' = Unclaimed(k)
    BY DEF Unclaimed, K
  <1>2. IsFiniteSet(Unclaimed(k))
    BY FS_Subset DEF Unclaimed
  <1>3. Cardinality(Unclaimed(k)) \in Nat /\ Cardinality(Unclaimed(k))' = Cardinality(Unclaimed(k))
    BY <1>1, <1>2, FS_CardinalityType
  <1>4. /\ effects[k] \in Nat /\ effects'[k] \in Nat /\ lapses[k] \in Nat /\ lapses'[k] \in Nat
        /\ Bit(Spent(k)) \in Nat /\ Bit(Spent(k)') \in Nat
        /\ Bit(Done(k)) \in Nat /\ Bit(Done(k)') \in Nat
    BY DEF TypeOK, Bit
  <1>5. effects'[k] + Cardinality(Unclaimed(k))' + Bit(Spent(k)') <= lapses'[k] + Bit(Done(k)')
    BY <1>3, <1>4 DEF Balance
  <1>6. QED
    BY <1>5 DEF Balance, Bit

LEMMA OwnedStill ==
    ASSUME ClaimOwned, UNCHANGED <<pc, msg, bypassed>>,
           \A k \in Keys : pending'[k].by = pending[k].by,
           TypeOK
    PROVE  ClaimOwned'
  <1>1. \A w \in Workers : K(w) \in Keys /\ K(w)' = K(w)
    BY KeyOfWorker DEF K
  <1>2. QED
    BY <1>1 DEF ClaimOwned

\* SQLite's statements are over when time passes or somebody deletes a row.
LEMMA AloneStill ==
    ASSUME Joined, setting' = setting, UNCHANGED pc,
           Backend = "sqlite" => ~SqliteHeld
    PROVE  SqliteAlone'
  <1>1. Backend = "sqlite" => \A w \in Workers : ~SearchesAt(pc[w])
    BY DEF SqliteHeld, Holds, SearchesAt
  <1>2. QED
    BY <1>1 DEF SqliteAlone, Backend

LEMMA PurgeJoined ==
    ASSUME IsFiniteSet(Workers), TypeOK, TypeOK', doomed = {}, Joined,
           ClaimOwned, SqliteAlone, OpenMeansUndone, \A k \in Keys : Balance(k), Purge
    PROVE  ClaimOwned' /\ SqliteAlone' /\ OpenMeansUndone' /\ \A k \in Keys : Balance(k)'
  <1>1. /\ UNCHANGED <<pc, msg, bypassed, pending, effects>> /\ setting' = setting /\ ~SqliteHeld
    BY DEF Purge, Sweep, SweepRow, SweepChooses, SweepDeletes, Forget, ForgetRow, worker, history
  <1>2. ClaimOwned' /\ SqliteAlone'
    BY <1>1, OwnedStill, AloneStill
  <1>3. ASSUME NEW k \in Keys, lapses'[k] = lapses[k],
               record'[k] = record[k] \/ (~Done(k) /\ ~Done(k)')
        PROVE  Balance(k)' /\ (pending'[k].by # NoWorker => ~Done(k)')
    <2>1. (Done(k)' <=> Done(k)) /\ (Spent(k)' <=> Spent(k))
      BY <1>1, <1>3 DEF Done, Spent
    <2>2. /\ Bit(Done(k)') = Bit(Done(k)) /\ Bit(Done(k)) \in Nat
          /\ Bit(Spent(k)') = Bit(Spent(k)) /\ Bit(Spent(k)) \in Nat
      BY <2>1 DEF Bit
    <2>3. /\ effects'[k] = effects[k] /\ effects[k] \in Nat
          /\ lapses'[k] = lapses[k] /\ lapses[k] \in Nat
      BY <1>1, <1>3 DEF TypeOK
    <2>4. Balance(k)'
      BY <1>1, <2>2, <2>3, BalanceStill
    <2>5. QED
      BY <1>1, <2>1, <2>4 DEF OpenMeansUndone
  <1>4. ASSUME NEW j \in Keys, Sweep(j), NEW k \in Keys
        PROVE  Balance(k)' /\ (pending'[k].by # NoWorker => ~Done(k)')
    <2>1. lapses'[k] = lapses[k]
      BY <1>4 DEF Sweep, history
    <2>2. record'[k] = record[k] \/ (~Done(k) /\ record'[k] = Absent)
      BY <1>4
         DEF Sweep, SweepRow, SweepChooses, SweepDeletes, Put, Expired, Done, TypeOK, StoreTypeOK
    <2>3. record'[k] = Absent => ~Done(k)'
      BY DEF Absent, Done
    <2>4. QED
      BY <1>3, <2>1, <2>2, <2>3
  <1>5. ASSUME NEW j \in Keys, Forget(j), NEW k \in Keys
        PROVE  Balance(k)' /\ (pending'[k].by # NoWorker => ~Done(k)')
    <2>1. lapses' = More(lapses, j) /\ lapses \in [Keys -> Nat] /\ lapses[k] \in Nat
      BY <1>5 DEF Forget, TypeOK
    <2>2. CASE k # j
      <3>1. lapses'[k] = lapses[k]
        BY <2>1, <2>2, MoreCounts
      <3>2. record'[k] = record[k]
        BY <1>5, <2>2 DEF Forget, ForgetRow, Put, TypeOK, StoreTypeOK
      <3>3. QED
        BY <1>3, <3>1, <3>2
    <2>3. CASE k = j
      <3>1. lapses'[k] = lapses[k] + 1
        BY <2>1, <2>3, MoreCounts
      <3>2. record'[k] = Absent /\ ~Waits(NoWorker, k)
        BY <1>5, <2>3 DEF Forget, ForgetRow, Put, TypeOK, StoreTypeOK
      <3>3. pending[k].by = NoWorker
        BY <3>2 DEF Waits
      <3>4. ~Spent(k) /\ ~Spent(k)'
        BY <1>1, <3>3 DEF Spent
      <3>5. ~Done(k)'
        BY <3>2 DEF Done, Absent
      <3>6. /\ Bit(Spent(k)) = 0 /\ Bit(Spent(k)') = 0 /\ Bit(Done(k)') = 0
            /\ Bit(Done(k)) \in Nat /\ Bit(Done(k)) <= 1
        BY <3>4, <3>5 DEF Bit
      <3>7. effects'[k] = effects[k] /\ effects[k] \in Nat
        BY <1>1 DEF TypeOK
      <3>8. Balance(k)'
        BY <1>1, <2>1, <3>1, <3>6, <3>7, BalanceStill
      <3>9. QED
        BY <3>5, <3>8
    <2>4. QED
      BY <2>2, <2>3
  <1>6. \A k \in Keys : Balance(k)' /\ (pending'[k].by # NoWorker => ~Done(k)')
    BY <1>4, <1>5 DEF Purge
  <1>7. QED
    BY <1>2, <1>6 DEF OpenMeansUndone

\* What times out, a record or the row of an open transaction, is counted.
LEMMA TimeJoined ==
    ASSUME IsFiniteSet(Workers), TypeOK, TypeOK', Joined,
           ClaimOwned, SqliteAlone, OpenMeansUndone, \A k \in Keys : Balance(k), Time
    PROVE  ClaimOwned' /\ SqliteAlone' /\ OpenMeansUndone' /\ \A k \in Keys : Balance(k)'
  <1>1. /\ UNCHANGED <<pc, msg, bypassed, effects>> /\ setting' = setting /\ ~Reading
    BY DEF Time, Tick
  <1>2. Backend # "redis"
    BY StoreAssumption DEF TypeOK, StoreTypeOK, Joined, Backend
  <1>3. ASSUME NEW k \in Keys
        PROVE  /\ pending'[k].by = pending[k].by /\ pending'[k].left = Less(pending[k].left)
               /\ record'[k].state = record[k].state /\ record'[k].left = Less(record[k].left)
               /\ lapses'[k] = IF record[k] = [state |-> "done", left |-> 1] \/ pending[k].left = 1
                               THEN lapses[k] + 1 ELSE lapses[k]
               /\ effects'[k] = effects[k] /\ effects[k] \in Nat /\ lapses[k] \in Nat
               /\ pending[k].left \in Nat /\ record[k].left \in Nat
               /\ record[k].state = "done" /\ record[k].left = 1 =>
                      record[k] = [state |-> "done", left |-> 1]
    BY <1>2 DEF Time, Tick, AgeRows, Aged, TypeOK, StoreTypeOK
  <1>4. ClaimOwned'
    BY <1>1, <1>3, OwnedStill
  <1>5. SqliteAlone'
    <2>1. Backend = "sqlite" => ~SqliteHeld
      BY <1>1 DEF Reading, SqliteHeld, Holds
    <2>2. QED
      BY <1>1, <2>1, AloneStill
  <1>6. \A k \in Keys : Done(k)' => Done(k)
    BY <1>3 DEF Done, Less
  <1>7. OpenMeansUndone'
    BY <1>3, <1>6 DEF OpenMeansUndone
  <1>8. ASSUME NEW k \in Keys PROVE Balance(k)'
    <2>1. /\ Bit(Spent(k)) \in Nat /\ Bit(Spent(k)') \in Nat
          /\ Bit(Done(k)) \in Nat /\ Bit(Done(k)') \in Nat
      BY DEF Bit
    <2>2. CASE Done(k)
      <3>1. pending[k].by = NoWorker /\ ~Spent(k) /\ ~Spent(k)'
        BY <1>3, <2>2 DEF OpenMeansUndone, Spent
      <3>2. lapses[k] + Bit(Done(k)) <= lapses'[k] + Bit(Done(k)')
        <4>1. CASE record[k].left = 1
          <5>1. lapses'[k] = lapses[k] + 1
            BY <1>3, <2>2, <4>1 DEF Done
          <5>2. Bit(Done(k)) <= 1
            BY DEF Bit
          <5>3. QED
            BY <1>3, <2>1, <5>1, <5>2
        <4>2. CASE record[k].left # 1
          <5>1. Done(k)'
            BY <1>3, <2>2, <4>2 DEF Done, Less
          <5>2. Bit(Done(k)') = Bit(Done(k)) /\ lapses[k] <= lapses'[k] /\ lapses'[k] \in Nat
            BY <1>3, <2>2, <5>1 DEF Bit
          <5>3. QED
            BY <1>3, <2>1, <5>2
        <4>3. QED
          BY <4>1, <4>2
      <3>3. Bit(Spent(k)) = 0 /\ Bit(Spent(k)') = 0
        BY <3>1 DEF Bit
      <3>4. lapses'[k] \in Nat
        BY <1>3
      <3>5. QED
        BY <1>1, <1>3, <2>1, <3>2, <3>3, <3>4, BalanceStill
    <2>3. CASE ~Done(k)
      <3>1. Bit(Done(k)) = 0 /\ Bit(Done(k)') = 0
        BY <1>6, <2>3 DEF Bit
      <3>2. Bit(Spent(k)') + lapses[k] <= Bit(Spent(k)) + lapses'[k]
        <4>1. CASE Spent(k)' /\ ~Spent(k)
          <5>1. pending[k].left = 1
            BY <1>3, <4>1 DEF Spent, Less
          <5>2. lapses'[k] = lapses[k] + 1 /\ Bit(Spent(k)') = 1
            BY <1>3, <4>1, <5>1 DEF Bit
          <5>3. QED
            BY <1>3, <2>1, <5>2
        <4>2. CASE Spent(k)' => Spent(k)
          <5>1. Bit(Spent(k)') <= Bit(Spent(k)) /\ lapses[k] <= lapses'[k] /\ lapses'[k] \in Nat
            BY <1>3, <4>2 DEF Bit
          <5>2. QED
            BY <1>3, <2>1, <5>1
        <4>3. QED
          BY <4>1, <4>2
      <3>3. lapses'[k] \in Nat
        BY <1>3
      <3>4. QED
        BY <1>1, <1>3, <2>1, <3>1, <3>2, <3>3, BalanceStill
    <2>4. QED
      BY <2>2, <2>3
  <1>9. QED
    BY <1>4, <1>5, <1>7, <1>8

LEMMA JoinedNext ==
    ASSUME IsFiniteSet(Workers), TypeOK, TypeOK', CalmInv, PendingIsOwn, JoinedInv, [Next]_vars
    PROVE  JoinedInv'
  <1>1. setting' = setting
    BY DEF Next, Consume, Trouble, Purge, Time, vars
  <1>2. (Joined' <=> Joined) /\ (FailOpen' <=> FailOpen)
    BY <1>1 DEF Joined, FailOpen
  <1> SUFFICES ASSUME Joined, ~FailOpen
               PROVE  ClaimOwned' /\ SqliteAlone' /\ OpenMeansUndone' /\ \A k \in Keys : Balance(k)'
    BY <1>2 DEF JoinedInv
  <1>3. ClaimOwned /\ SqliteAlone /\ OpenMeansUndone /\ \A k \in Keys : Balance(k)
    BY DEF JoinedInv
  <1>4. ASSUME NEW w \in Workers, Consume(w) \/ Trouble(w)
        PROVE  ClaimOwned' /\ SqliteAlone' /\ OpenMeansUndone' /\ \A k \in Keys : Balance(k)'
    <2>1. Acts(w) /\ Others(w)
      BY <1>3, <1>4, ConsumeJoined, TroubleJoined, WorkerStep DEF Acts, CalmInv
    <2>2. QED
      BY <1>1, <1>3, <2>1, OwnedStep, AloneStep, ActsBalance
  <1>5. CASE UNCHANGED vars
    <2>1. UNCHANGED <<setting, record, pending, pc, msg, bypassed, effects, lapses>>
      BY <1>5 DEF vars, store, worker, history
    <2>2. ClaimOwned' /\ OpenMeansUndone'
      BY <1>3, <2>1 DEF ClaimOwned, OpenMeansUndone, Done, K
    <2>3. SqliteAlone'
      BY <1>3, <2>1 DEF SqliteAlone, Backend, Expired, Present, K
    <2>4. \A k \in Keys : Unclaimed(k)' = Unclaimed(k) /\ Spent(k)' = Spent(k) /\ Done(k)' = Done(k)
      BY <2>1 DEF Unclaimed, Spent, Done, K
    <2>5. \A k \in Keys : Balance(k)'
      BY <1>3, <2>1, <2>4 DEF Balance
    <2>6. QED
      BY <2>2, <2>3, <2>5
  <1>6. QED
    BY <1>3, <1>4, <1>5, PurgeJoined, TimeJoined DEF Next, CalmInv

\* A handler that writes in process()'s transaction is effectively once, on Postgres
\* and on SQLite: its side effect is committed no more often than records of its key
\* were bypassed, forgotten or timed out, plus one.
THEOREM TransactionalOnceTheorem ==
    ASSUME IsFiniteSet(Workers), PostgresUnswept
    PROVE  Spec => []TransactionalOnce
  <1>1. Init => JoinedInv
    <2> SUFFICES ASSUME Init
                 PROVE  ClaimOwned /\ SqliteAlone /\ OpenMeansUndone /\ \A k \in Keys : Balance(k)
      BY DEF JoinedInv
    <2>1. /\ \A w \in Workers : pc[w] = "idle"
          /\ \A k \in Keys : /\ pending[k] = NoTx /\ record[k] = Absent
                             /\ effects[k] = 0 /\ lapses[k] = 0
      BY DEF Init, StoreInit
    <2>2. ClaimOwned /\ SqliteAlone /\ OpenMeansUndone
      BY <2>1 DEF ClaimOwned, SqliteAlone, OpenMeansUndone, OpenAt, SearchesAt, NoTx
    <2>3. ASSUME NEW k \in Keys PROVE Balance(k)
      <3>1. Unclaimed(k) = {} /\ ~Spent(k)
        BY <2>1 DEF Unclaimed, UnclaimedAt, OpenAt, Spent, NoTx
      <3>2. QED
        BY <2>1, <3>1, FS_EmptySet DEF Balance, Bit
    <2>4. QED
      BY <2>2, <2>3
  <1>2. TypeOK /\ JoinedInv => TransactionalOnce
    <2> SUFFICES ASSUME TypeOK, JoinedInv, Joined, ~FailOpen, NEW k \in Keys
                 PROVE  effects[k] <= 1 + lapses[k]
      BY DEF TransactionalOnce
    <2>1. IsFiniteSet(Unclaimed(k))
      BY FS_Subset DEF Unclaimed
    <2>2. Cardinality(Unclaimed(k)) \in Nat
      BY <2>1, FS_CardinalityType
    <2>3. effects[k] \in Nat /\ lapses[k] \in Nat
      BY DEF TypeOK
    <2>4. Balance(k)
      BY DEF JoinedInv
    <2>5. QED
      BY <2>2, <2>3, <2>4 DEF Balance, Bit
  <1>3. SkipInv => PendingIsOwn
    BY DEF SkipInv
  <1>4. QED
    BY <1>1, <1>2, <1>3, JoinedNext, TypeCorrect, CalmInvariant, SkipInvariant, PTL DEF Spec

=============================================================================
