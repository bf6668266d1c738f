---------------------------- MODULE DedupProofs ----------------------------
(***************************************************************************)
(* Deduplicator keeps its types, and skipping is never losing: for every   *)
(* deduplicator, any number of workers, messages and keys, every fault.    *)
(***************************************************************************)
EXTENDS Deduplicator, TLAPS

Rows == [state : {"none", "in_progress", "done"}, left : Nat]

LEMMA Modes ==
    ASSUME TypeOK
    PROVE  /\ Mode \in {"transactional", "claim_confirm", "record_after"}
           /\ Backend \in {"postgres", "sqlite", "redis"}
           /\ FailOpen \in BOOLEAN
           /\ Joined \in BOOLEAN
  BY StoreAssumption DEF TypeOK, StoreTypeOK, Mode, Backend, FailOpen, Joined

LEMMA KeyOfWorker == ASSUME TypeOK, NEW w \in Workers PROVE K(w) \in Keys
  BY DedupAssumption DEF TypeOK, K

LEMMA RowTypes ==
    /\ Absent \in Rows
    /\ \A s \in {"none", "in_progress", "done"} : \A n \in Nat : [state |-> s, left |-> n] \in Rows
  BY DEF Absent, Rows

\* What each statement writes is a row.
LEMMA PutType ==
    ASSUME StoreTypeOK, NEW k \in Keys, NEW row \in Rows, Put(k, row)
    PROVE  /\ record' \in [Keys -> Rows]
           /\ doomed' \subseteq Keys
  BY DEF StoreTypeOK, Put, Rows

LEMMA WriteType ==
    ASSUME StoreTypeOK, NEW w \in Workers, NEW k \in Keys, NEW joined \in BOOLEAN,
           NEW s \in {"in_progress", "done"}, NEW n \in Nat, Write(w, k, joined, s, n),
           UNCHANGED setting
    PROVE  StoreTypeOK'
  <1>1. CASE joined
    BY <1>1 DEF StoreTypeOK, Write
  <1>2. CASE ~joined
    <2>1. Put(k, [state |-> s, left |-> n]) /\ UNCHANGED pending
      BY <1>2 DEF Write
    <2>2. QED
      BY <2>1, PutType, RowTypes DEF StoreTypeOK, Rows
  <1>3. QED
    BY <1>1, <1>2

LEMMA ClaimType ==
    ASSUME TypeOK, NEW w \in Workers, WriteClaim(w), UNCHANGED setting
    PROVE  StoreTypeOK'
  <1>1. Lease \in Nat /\ TTL \in Nat /\ StoreTypeOK
    BY StoreAssumption DEF TypeOK
  <1>2. CASE Mode = "claim_confirm"
    BY <1>1, <1>2, KeyOfWorker, WriteType DEF WriteClaim
  <1>3. CASE Mode # "claim_confirm"
    BY <1>1, <1>3, KeyOfWorker, Modes, WriteType DEF WriteClaim
  <1>4. QED
    BY <1>2, <1>3

LEMMA ConfirmedType == ASSUME TypeOK, NEW k \in Keys PROVE Confirmed(k) \in Rows
  BY StoreAssumption, RowTypes DEF TypeOK, StoreTypeOK, Confirmed, Rows

LEMMA ReleasedType == ASSUME TypeOK, NEW k \in Keys PROVE Released(k) \in Rows
  BY RowTypes DEF TypeOK, StoreTypeOK, Released, Rows

LEMMA RollbackType ==
    ASSUME StoreTypeOK, NEW w \in Workers
    PROVE  RolledBack(w) \in [Keys -> [by : Workers \cup {NoWorker}, left : Nat]]
  BY DEF StoreTypeOK, RolledBack, NoTx

LEMMA CommitType ==
    ASSUME StoreTypeOK, NEW w \in Workers, CommitRows(w), UNCHANGED setting
    PROVE  StoreTypeOK'
  BY DEF StoreTypeOK, CommitRows, NoTx

-----------------------------------------------------------------------------
(* Type correctness                                                        *)

\* Everything but the store.
WorkTypeOK ==
    /\ pc \in [Workers -> Steps]
    /\ msg \in [Workers -> Messages]
    /\ tries \in [Workers -> 0..MaxTries - 1]
    /\ stale \in [Workers -> {"none", "in_progress", "done"}]
    /\ bypassed \in [Workers -> BOOLEAN]
    /\ leaseLeft \in [Workers -> Nat]
    /\ owner \in [Messages -> Workers]
    /\ committed \subseteq Messages
    /\ effects \in [Keys -> Nat]
    /\ lapses \in [Keys -> Nat]
    /\ alarms \in [Keys -> Nat]
    /\ overruns \subseteq Keys
    /\ faults \in 0..MaxFaults

LEMMA TypeParts ==
    /\ TypeOK <=> StoreTypeOK /\ WorkTypeOK
    /\ TypeOK' <=> StoreTypeOK' /\ WorkTypeOK'
  BY DEF TypeOK, WorkTypeOK

LEMMA InitType == Init => TypeOK
  <1>1. ASSUME Init PROVE StoreTypeOK
    BY <1>1 DEF Init, StoreInit, StoreTypeOK, Absent, NoTx
  <1>2. ASSUME Init PROVE WorkTypeOK
    <2>1. (CHOOSE m \in Messages : TRUE) \in Messages
      BY DedupAssumption
    <2>2. 0 \in 0..MaxTries - 1 /\ 0 \in 0..MaxFaults
      BY DedupAssumption
    <2>3. QED
      BY <1>2, <2>1, <2>2 DEF Init, WorkTypeOK, Steps
  <1>3. QED
    BY <1>1, <1>2, TypeParts

\* The step to another part of process(), and the counts of history.
LEMMA StepType ==
    ASSUME TypeOK, NEW w \in Workers, NEW p \in Steps, Step(w, p)
    PROVE  pc' \in [Workers -> Steps]
  BY DEF TypeOK, Step

LEMMA MoreType ==
    ASSUME NEW c \in [Keys -> Nat], NEW k \in Keys
    PROVE  More(c, k) \in [Keys -> Nat]
  BY DEF More

LEMMA FaultType == ASSUME TypeOK, Fault PROVE faults' \in 0..MaxFaults
  BY DedupAssumption DEF TypeOK, Fault

LEMMA ClaimKeepsType ==
    ASSUME TypeOK, NEW w \in Workers, Claim(w), UNCHANGED setting
    PROVE  TypeOK'
  <1> USE TypeParts
  <1>0. /\ "handling" \in Steps /\ "offset" \in Steps /\ "takeover" \in Steps
        /\ "read" \in Steps /\ "down" \in Steps /\ "insert" \in Steps
        /\ Entry \in Steps /\ 0 \in 0..MaxTries - 1
        /\ K(w) \in Keys /\ Lease \in Nat
    BY DedupAssumption, StoreAssumption, KeyOfWorker DEF Entry, Steps
  <1>1. ASSUME NEW e \in BOOLEAN, Granted(w, e) PROVE WorkTypeOK'
    <2>1. pc' \in [Workers -> Steps]
      <3>1. (IF Mode = "record_after" THEN "offset" ELSE "handling") \in Steps
        BY <1>0
      <3>2. QED
        BY <1>1, <3>1, StepType DEF Granted
    <2>2. leaseLeft' \in [Workers -> Nat]
      BY <1>0, <1>1 DEF Granted, WorkTypeOK
    <2>3. alarms' \in [Keys -> Nat]
      BY <1>0, <1>1, MoreType DEF Granted, WorkTypeOK
    <2>4. QED
      BY <1>1, <2>1, <2>2, <2>3 DEF Granted, WorkTypeOK, topic
  <1>2. CASE ClaimInserts(w)
    BY <1>1, <1>2, ClaimType DEF ClaimInserts
  <1>3. CASE ClaimTakesOver(w)
    <2>1. (record[K(w)].state = "in_progress") \in BOOLEAN
      OBVIOUS
    <2>2. QED
      BY <1>1, <1>3, <2>1, ClaimType DEF ClaimTakesOver
  <1>4. CASE SqliteTakesOver(w)
    <2>1. WorkTypeOK'
      <3>1. (stale[w] = "in_progress") \in BOOLEAN
        OBVIOUS
      <3>2. QED
        BY <1>1, <1>4, <3>1 DEF SqliteTakesOver
    <2>2. StoreTypeOK'
      <3>1. CASE WriteClaim(w)
        BY <3>1, ClaimType
      <3>2. CASE UNCHANGED store
        BY <3>2 DEF store, StoreTypeOK
      <3>3. QED
        BY <1>4, <3>1, <3>2 DEF SqliteTakesOver
    <2>3. QED
      BY <2>1, <2>2
  <1>5. ASSUME UNCHANGED store, WorkTypeOK' PROVE TypeOK'
    BY <1>5 DEF store, StoreTypeOK
  <1>6. CASE ClaimConflicts(w)
    <2>1. (IF Backend = "postgres" THEN "takeover" ELSE "read") \in Steps
      BY <1>0
    <2>2. pc' \in [Workers -> Steps]
      BY <1>6, <2>1, StepType DEF ClaimConflicts
    <2>3. QED
      BY <1>5, <1>6, <2>2 DEF ClaimConflicts, WorkTypeOK, topic, history
  <1>7. CASE ClaimTakesNothing(w)
    <2>1. pc' \in [Workers -> Steps]
      BY <1>0, <1>7, StepType DEF ClaimTakesNothing
    <2>2. QED
      BY <1>5, <1>7, <2>1 DEF ClaimTakesNothing, WorkTypeOK, topic, history
  <1>8. CASE ClaimAnswers(w)
    <2>1. pc' \in [Workers -> Steps]
      BY <1>0, <1>8, StepType DEF ClaimAnswers, After
    <2>2. QED
      BY <1>0, <1>5, <1>8, <2>1 DEF ClaimAnswers, WorkTypeOK, topic, history
  <1>9. CASE ClaimVanishes(w)
    <2>1. CASE MayRetry(w) /\ tries' = [tries EXCEPT ![w] = @ + 1] /\ Step(w, "insert")
                 /\ UNCHANGED <<msg, stale, bypassed, leaseLeft, topic, history, faults>>
      <3>1. pc' \in [Workers -> Steps]
        BY <1>0, <2>1, StepType
      <3>2. tries' \in [Workers -> 0..MaxTries - 1]
        <4>1. tries[w] + 1 \in 0..MaxTries - 1
          BY <2>1, DedupAssumption DEF MayRetry, WorkTypeOK
        <4>2. QED
          BY <2>1, <4>1 DEF WorkTypeOK
      <3>3. QED
        BY <1>5, <1>9, <2>1, <3>1, <3>2 DEF ClaimVanishes, WorkTypeOK, topic, history
    <2>2. CASE Unavailable(w, FailOpen) /\ UNCHANGED faults
      <3>1. WorkTypeOK'
        <4>1. pc' \in [Workers -> Steps]
          BY <1>0, <2>2, StepType DEF Unavailable
        <4>2. alarms' \in [Keys -> Nat]
          BY <1>0, <2>2, MoreType DEF Unavailable, WorkTypeOK
        <4>3. QED
          BY <2>2, <4>1, <4>2 DEF Unavailable, WorkTypeOK, topic
      <3>2. QED
        BY <1>5, <1>9, <3>1 DEF ClaimVanishes
    <2>3. QED
      BY <1>9, <2>1, <2>2 DEF ClaimVanishes
  <1>10. CASE SqliteClaimVanishes(w)
    <2>1. pc' \in [Workers -> Steps]
      BY <1>0, <1>10, StepType DEF SqliteClaimVanishes
    <2>2. StoreTypeOK'
      BY <1>10, RollbackType DEF SqliteClaimVanishes, StoreTypeOK
    <2>3. QED
      BY <1>10, <2>1, <2>2 DEF SqliteClaimVanishes, WorkTypeOK, topic, history
  <1>11. CASE SqliteReadsExpired(w)
    <2>1. pc' \in [Workers -> Steps]
      BY <1>0, <1>11, StepType DEF SqliteReadsExpired
    <2>2. record[K(w)].state \in {"none", "in_progress", "done"}
      BY <1>0 DEF StoreTypeOK
    <2>3. QED
      BY <1>5, <1>11, <2>1, <2>2 DEF SqliteReadsExpired, WorkTypeOK, topic, history
  <1>12. QED
    BY <1>2, <1>3, <1>4, <1>6, <1>7, <1>8, <1>9, <1>10, <1>11 DEF Claim

LEMMA ConsumeKeepsType ==
    ASSUME TypeOK, NEW w \in Workers, Consume(w)
    PROVE  TypeOK'
  <1> USE TypeParts
  <1>0. /\ \A p \in {"idle", "isdone", "insert", "handling", "acted", "confirm", "offset", "down"} :
                p \in Steps
        /\ Entry \in Steps /\ 0 \in 0..MaxTries - 1 /\ K(w) \in Keys
        /\ UNCHANGED setting
    BY DedupAssumption, KeyOfWorker DEF Entry, Steps, Consume
  <1>1. ASSUME UNCHANGED store, WorkTypeOK' PROVE TypeOK'
    BY <1>0, <1>1 DEF store, StoreTypeOK
  <1>2. ASSUME NEW m \in Messages, Poll(w, m) PROVE TypeOK'
    <2>1. Bypasses(m) \in BOOLEAN
      BY DEF Bypasses, TypeOK
    <2>2. pc' \in [Workers -> Steps]
      <3>1. (IF Bypasses(m) THEN "handling" ELSE Entry) \in Steps
        BY <1>0
      <3>2. QED
        BY <1>2, <3>1, StepType DEF Poll
    <2>3. lapses' \in [Keys -> Nat]
      <3>1. KeyOf[m] \in Keys
        BY DedupAssumption
      <3>2. QED
        BY <1>2, <3>1, MoreType DEF Poll, WorkTypeOK
    <2>4. bypassed' \in [Workers -> BOOLEAN]
      BY <1>2, <2>1 DEF Poll, WorkTypeOK
    <2>5. QED
      BY <1>0, <1>1, <1>2, <2>2, <2>3, <2>4 DEF Poll, WorkTypeOK, topic
  <1>3. CASE IsDone(w)
    <2>1. pc' \in [Workers -> Steps]
      BY <1>0, <1>3, StepType DEF IsDone
    <2>2. QED
      BY <1>1, <1>3, <2>1 DEF IsDone, WorkTypeOK, topic, history
  <1>4. CASE Claim(w)
    BY <1>0, <1>4, ClaimKeepsType
  <1>5. CASE Act(w)
    <2>1. pc' \in [Workers -> Steps]
      BY <1>0, <1>5, StepType DEF Act
    <2>2. effects' \in [Keys -> Nat]
      BY <1>0, <1>5, MoreType DEF Act, WorkTypeOK
    <2>3. QED
      BY <1>1, <1>5, <2>1, <2>2 DEF Act, WorkTypeOK, topic
  <1>6. CASE Leave(w)
    <2>1. pc' \in [Workers -> Steps]
      BY <1>0, <1>6, StepType DEF Leave
    <2>2. QED
      BY <1>1, <1>6, <2>1 DEF Leave, WorkTypeOK, topic, history
  <1>7. CASE Confirm(w)
    <2>1. pc' \in [Workers -> Steps]
      BY <1>0, <1>7, StepType DEF Confirm
    <2>2. StoreTypeOK'
      BY <1>0, <1>7, ConfirmedType, PutType DEF Confirm, StoreTypeOK, Rows
    <2>3. QED
      BY <1>7, <2>1, <2>2 DEF Confirm, WorkTypeOK, topic, history
  <1>8. CASE CommitTransaction(w)
    <2>1. pc' \in [Workers -> Steps]
      BY <1>0, <1>8, StepType DEF CommitTransaction
    <2>2. effects' \in [Keys -> Nat]
      BY <1>0, <1>8, MoreType DEF CommitTransaction, WorkTypeOK
    <2>3. StoreTypeOK'
      BY <1>0, <1>8, CommitType DEF CommitTransaction
    <2>4. QED
      BY <1>8, <2>1, <2>2, <2>3 DEF CommitTransaction, WorkTypeOK, topic
  <1>9. CASE Release(w)
    <2>1. pc' \in [Workers -> Steps]
      BY <1>0, <1>9, StepType DEF Release
    <2>2. StoreTypeOK'
      BY <1>0, <1>9, ReleasedType, PutType DEF Release, StoreTypeOK, Rows
    <2>3. QED
      BY <1>9, <2>1, <2>2 DEF Release, WorkTypeOK, topic, history
  <1>10. CASE CommitOffset(w)
    <2>1. pc' \in [Workers -> Steps]
      BY <1>0, <1>10, StepType DEF CommitOffset
    <2>2. committed' \subseteq Messages
      BY <1>10 DEF CommitOffset, WorkTypeOK
    <2>3. QED
      BY <1>1, <1>10, <2>1, <2>2 DEF CommitOffset, WorkTypeOK, history
  <1>11. CASE Restart(w)
    <2>1. pc' \in [Workers -> Steps]
      BY <1>0, <1>11, StepType DEF Restart
    <2>2. QED
      BY <1>1, <1>11, <2>1 DEF Restart, WorkTypeOK, topic, history
  <1>12. QED
    BY <1>2, <1>3, <1>4, <1>5, <1>6, <1>7, <1>8, <1>9, <1>10, <1>11 DEF Consume

LEMMA TroubleKeepsType ==
    ASSUME TypeOK, NEW w \in Workers, Trouble(w)
    PROVE  TypeOK'
  <1> USE TypeParts
  <1>0. /\ "release" \in Steps /\ "down" \in Steps /\ "offset" \in Steps /\ "handling" \in Steps
        /\ K(w) \in Keys
        /\ UNCHANGED setting
    BY KeyOfWorker DEF Steps, Trouble
  <1>1. ASSUME UNCHANGED <<record, doomed>>, pending' = RolledBack(w) PROVE StoreTypeOK'
    BY <1>0, <1>1, RollbackType DEF StoreTypeOK
  <1>2. CASE HandlerRaises(w)
    <2>1. pc' \in [Workers -> Steps]
      BY <1>0, <1>2, StepType DEF HandlerRaises
    <2>2. alarms' \in [Keys -> Nat]
      BY <1>0, <1>2, MoreType DEF HandlerRaises, WorkTypeOK
    <2>3. QED
      BY <1>1, <1>2, <2>1, <2>2, FaultType DEF HandlerRaises, WorkTypeOK, topic
  <1>3. CASE ClaimCallFails(w)
    <2>1. pc' \in [Workers -> Steps]
      BY <1>0, <1>3, StepType DEF ClaimCallFails, Unavailable
    <2>2. alarms' \in [Keys -> Nat]
      BY <1>0, <1>3, MoreType DEF ClaimCallFails, Unavailable, WorkTypeOK
    <2>3. StoreTypeOK'
      <3>1. CASE WriteClaim(w)
        BY <1>0, <3>1, ClaimType
      <3>2. QED
        BY <1>1, <1>3, <3>1 DEF ClaimCallFails
    <2>4. faults' \in 0..MaxFaults
      BY <1>3, FaultType DEF ClaimCallFails
    <2>5. QED
      BY <1>3, <2>1, <2>2, <2>3, <2>4 DEF ClaimCallFails, Unavailable, WorkTypeOK, topic
  <1>4. CASE LeaveCallFails(w)
    <2>1. pc' \in [Workers -> Steps]
      BY <1>0, <1>4, StepType DEF LeaveCallFails
    <2>2. StoreTypeOK'
      <3>1. CASE UNCHANGED <<record, doomed>>
        BY <1>0, <1>4, <3>1 DEF LeaveCallFails, StoreTypeOK
      <3>2. CASE Put(K(w), Confirmed(K(w)))
        BY <1>0, <1>4, <3>2, ConfirmedType, PutType DEF LeaveCallFails, StoreTypeOK, Rows
      <3>3. CASE Put(K(w), Released(K(w)))
        BY <1>0, <1>4, <3>3, ReleasedType, PutType DEF LeaveCallFails, StoreTypeOK, Rows
      <3>4. QED
        BY <1>4, <3>1, <3>2, <3>3 DEF LeaveCallFails
    <2>3. QED
      BY <1>4, <2>1, <2>2, FaultType DEF LeaveCallFails, WorkTypeOK, topic, history
  <1>5. CASE CommitCallFails(w)
    <2>1. pc' \in [Workers -> Steps]
      BY <1>0, <1>5, StepType DEF CommitCallFails
    <2>2. StoreTypeOK'
      BY <1>0, <1>1, <1>5, CommitType DEF CommitCallFails
    <2>3. effects' \in [Keys -> Nat]
      <3>1. CASE effects' = More(effects, K(w))
        BY <1>0, <3>1, MoreType DEF WorkTypeOK
      <3>2. CASE UNCHANGED effects
        BY <3>2 DEF WorkTypeOK
      <3>3. QED
        BY <1>5, <3>1, <3>2 DEF CommitCallFails
    <2>4. QED
      BY <1>5, <2>1, <2>2, <2>3, FaultType DEF CommitCallFails, WorkTypeOK, topic
  <1>6. CASE Crash(w)
    <2>1. pc' \in [Workers -> Steps]
      BY <1>0, <1>6, StepType DEF Crash
    <2>2. QED
      BY <1>1, <1>6, <2>1, FaultType DEF Crash, WorkTypeOK, topic, history
  <1>7. ASSUME NEW m \in Messages, Rebalance(m, w) PROVE TypeOK'
    <2>1. StoreTypeOK'
      BY <1>0, <1>7 DEF Rebalance, store, StoreTypeOK
    <2>2. QED
      BY <1>7, <2>1, FaultType DEF Rebalance, WorkTypeOK, worker, history
  <1>8. QED
    BY <1>2, <1>3, <1>4, <1>5, <1>6, <1>7 DEF Trouble

LEMMA PurgeKeepsType == ASSUME TypeOK, Purge PROVE TypeOK'
  <1> USE TypeParts
  <1>1. PICK k \in Keys : Sweep(k) \/ Forget(k)
    BY DEF Purge
  <1>2. CASE Sweep(k)
    <2>1. StoreTypeOK'
      <3>1. UNCHANGED setting
        BY DEF Purge
      <3>2. CASE SweepChooses(k)
        BY <3>1, <3>2 DEF SweepChooses, StoreTypeOK
      <3>3. CASE SweepRow(k) \/ SweepDeletes(k)
        BY <3>1, <3>3, PutType, RowTypes DEF SweepRow, SweepDeletes, StoreTypeOK, Rows
      <3>4. QED
        BY <1>2, <3>2, <3>3 DEF Sweep
    <2>2. QED
      BY <1>2, <2>1 DEF Sweep, WorkTypeOK, worker, topic, history
  <1>3. CASE Forget(k)
    <2>1. StoreTypeOK'
      BY <1>3, PutType, RowTypes DEF Purge, Forget, ForgetRow, StoreTypeOK, Rows
    <2>2. lapses' \in [Keys -> Nat] /\ overruns' \subseteq Keys
      BY <1>3, MoreType DEF Forget, WorkTypeOK
    <2>3. QED
      BY <1>3, <2>1, <2>2, FaultType DEF Forget, WorkTypeOK, worker, topic
  <1>4. QED
    BY <1>1, <1>2, <1>3

LEMMA TimeKeepsType == ASSUME TypeOK, Time PROVE TypeOK'
  <1> USE TypeParts
  <1>1. \A n \in Nat : Less(n) \in Nat
    BY DEF Less
  <1>2. StoreTypeOK'
    <2>1. \A k \in Keys : Aged(record[k]) \in Rows
      BY <1>1, RowTypes DEF StoreTypeOK, Aged, Rows
    <2>2. QED
      BY <1>1, <2>1 DEF Time, Tick, AgeRows, StoreTypeOK, Rows
  <1>3. leaseLeft' \in [Workers -> Nat]
    BY <1>1 DEF Time, Tick, WorkTypeOK
  <1>4. lapses' \in [Keys -> Nat]
    BY DEF Time, Tick, WorkTypeOK
  <1>5. overruns' \subseteq Keys
    BY KeyOfWorker DEF Time, Tick, WorkTypeOK
  <1>6. QED
    BY <1>2, <1>3, <1>4, <1>5 DEF Time, Tick, WorkTypeOK, topic

\* Every variable keeps its type: dedup/deduplicator.py and the dedup backends.
THEOREM TypeCorrect == Spec => []TypeOK
  <1>1. TypeOK /\ [Next]_vars => TypeOK'
    <2> SUFFICES ASSUME TypeOK, [Next]_vars PROVE TypeOK'
      OBVIOUS
    <2>1. CASE UNCHANGED vars
      BY <2>1 DEF vars, store, worker, topic, history, TypeOK, StoreTypeOK
    <2>2. QED
      BY <2>1, ConsumeKeepsType, TroubleKeepsType, PurgeKeepsType, TimeKeepsType DEF Next
  <1>2. QED
    BY <1>1, InitType, PTL DEF Spec

-----------------------------------------------------------------------------
(* Skipping is never losing: an offset is committed only after the side    *)
(* effect of its message                                                   *)

Grows == effects' \in [Keys -> Nat] /\ \A k \in Keys : effects'[k] >= effects[k]

LEMMA InitSkip == Init => SkipInv
  BY StoreAssumption DEF Init, StoreInit, SkipInv, WorkersActed, ActedAt, DoneMeansActed,
     PendingIsOwn, NothingSkipped, Absent, NoTx

LEMMA SameGrows == ASSUME TypeOK, UNCHANGED effects PROVE Grows
  BY DEF TypeOK, Grows

LEMMA MoreGrows ==
    ASSUME TypeOK, NEW k \in Keys, effects' = More(effects, k)
    PROVE  Grows /\ effects'[k] > 0
  BY DEF TypeOK, Grows, More

\* A worker at p goes to q: nobody else's step, message or key changes.
LEMMA StepActed ==
    ASSUME TypeOK, WorkersActed, Grows, UNCHANGED <<setting, msg>>,
           NEW w \in Workers, NEW p \in Steps, Step(w, p),
           ActedAt(p) => effects'[K(w)] > 0
    PROVE  WorkersActed'
  <1> SUFFICES ASSUME NEW v \in Workers, ActedAt(pc[v])' PROVE effects'[K(v)'] > 0
    BY DEF WorkersActed
  <1>1. K(v)' = K(v) /\ K(v) \in Keys
    BY KeyOfWorker DEF K
  <1>2. CASE v = w
    <2>1. pc'[v] = p
      BY <1>2 DEF Step, TypeOK
    <2>2. ActedAt(p)
      BY <2>1 DEF ActedAt, Mode, Joined
    <2>3. QED
      BY <1>1, <1>2, <2>2
  <1>3. CASE v # w
    <2>1. pc'[v] = pc[v]
      BY <1>3 DEF Step, TypeOK
    <2>2. ActedAt(pc[v])
      BY <2>1 DEF ActedAt, Mode, Joined
    <2>3. effects[K(v)] > 0
      BY <2>2 DEF WorkersActed
    <2>4. QED
      BY <1>1, <2>3 DEF Grows, TypeOK
  <1>4. QED
    BY <1>2, <1>3

\* A worker that has acted stays acted when it moves on.
LEMMA ActedGrows ==
    ASSUME TypeOK, WorkersActed, Grows, NEW w \in Workers, ActedAt(pc[w])
    PROVE  effects'[K(w)] > 0
  BY KeyOfWorker DEF TypeOK, WorkersActed, Grows

LEMMA SameRecord ==
    ASSUME TypeOK, DoneMeansActed, Grows, UNCHANGED record
    PROVE  DoneMeansActed'
  BY DEF TypeOK, DoneMeansActed, Grows

LEMMA PutDone ==
    ASSUME TypeOK, DoneMeansActed, Grows, NEW k \in Keys, NEW row \in Rows, Put(k, row),
           row.state = "done" => effects'[k] > 0
    PROVE  DoneMeansActed'
  BY DEF TypeOK, StoreTypeOK, DoneMeansActed, Grows, Put

\* Committing a transaction records the message of its worker.
LEMMA CommitDone ==
    ASSUME TypeOK, DoneMeansActed, PendingIsOwn, Grows, NEW w \in Workers, CommitRows(w),
           effects'[K(w)] > 0
    PROVE  DoneMeansActed'
  <1> SUFFICES ASSUME NEW k \in Keys, record'[k].state = "done" PROVE effects'[k] > 0
    BY DEF DoneMeansActed
  <1>1. CASE pending[k].by = w
    BY <1>1, StoreAssumption DEF PendingIsOwn
  <1>2. CASE pending[k].by # w
    <2>1. record'[k] = record[k]
      BY <1>2 DEF CommitRows
    <2>2. QED
      BY <2>1 DEF DoneMeansActed, Grows, TypeOK
  <1>3. QED
    BY <1>1, <1>2

\* A worker moves on with its transaction open, or with no transaction.
LEMMA PendingStays ==
    ASSUME TypeOK, PendingIsOwn, UNCHANGED <<setting, msg, pending>>,
           NEW w \in Workers, NEW p \in Steps, Step(w, p),
           OpenAt(p) \/ ~OpenAt(pc[w]) \/ ~Joined
    PROVE  PendingIsOwn'
  <1> SUFFICES ASSUME NEW k \in Keys, pending[k].by # NoWorker
               PROVE  (Joined /\ OpenAt(pc[pending[k].by]) /\ K(pending[k].by) = k)'
    BY DEF PendingIsOwn
  <1>1. pending[k].by \in Workers
    BY DEF TypeOK, StoreTypeOK
  <1>2. Joined /\ OpenAt(pc[pending[k].by]) /\ K(pending[k].by) = k
    BY DEF PendingIsOwn
  <1>3. OpenAt(pc'[pending[k].by])
    BY <1>1, <1>2 DEF Step, TypeOK
  <1>4. QED
    BY <1>2, <1>3 DEF Joined, K, OpenAt

\* It ends its transaction.
Ended(w) ==
    \A k \in Keys : \/ pending'[k] = NoTx
                    \/ pending[k].by # w /\ pending'[k] = pending[k]

LEMMA RollbackEnds ==
    ASSUME NEW w \in Workers, pending' = RolledBack(w) \/ CommitRows(w) PROVE Ended(w)
  <1>1. pending' = RolledBack(w)
    BY DEF RolledBack, CommitRows
  <1>2. QED
    BY <1>1 DEF RolledBack, Ended

LEMMA PendingEnds ==
    ASSUME TypeOK, PendingIsOwn, UNCHANGED <<setting, msg>>,
           NEW w \in Workers, NEW p \in Steps, Step(w, p), Ended(w)
    PROVE  PendingIsOwn'
  <1> SUFFICES ASSUME NEW k \in Keys, pending'[k].by # NoWorker
               PROVE  (Joined /\ OpenAt(pc[pending[k].by]) /\ K(pending[k].by) = k)'
    BY DEF PendingIsOwn
  <1>1. pending'[k] = pending[k] /\ pending[k].by # w /\ pending[k].by \in Workers
    BY DEF Ended, NoTx, TypeOK, StoreTypeOK
  <1>2. Joined /\ OpenAt(pc[pending[k].by]) /\ K(pending[k].by) = k
    BY <1>1 DEF PendingIsOwn
  <1>3. pc'[pending[k].by] = pc[pending[k].by]
    BY <1>1 DEF Step, TypeOK
  <1>4. QED
    BY <1>1, <1>2, <1>3 DEF Joined, K, OpenAt

LEMMA SameSkipped ==
    ASSUME TypeOK, NothingSkipped, Grows, UNCHANGED committed
    PROVE  NothingSkipped'
  BY DedupAssumption DEF TypeOK, NothingSkipped, Grows

-----------------------------------------------------------------------------
(* Claims                                                                  *)

\* What the parts of process() are called here.
LEMMA Places ==
    /\ {"idle", "isdone", "insert", "takeover", "read", "handling", "acted",
        "confirm", "release", "offset", "down"} \subseteq Steps
    /\ OpenAt("handling") /\ OpenAt("acted") /\ OpenAt("confirm")
    /\ \A p \in {"idle", "isdone", "insert", "takeover", "read", "release", "offset", "down"} :
           ~OpenAt(p)
    /\ \A p \in {"idle", "isdone", "handling", "release", "down"} : ~ActedAt(p)
    /\ ~Joined => ActedAt("acted") /\ ActedAt("confirm")
    /\ Joined => ~ActedAt("acted") /\ ~ActedAt("confirm")
    /\ \A p \in {"insert", "takeover", "read"} : ActedAt(p) <=> Mode = "record_after"
    /\ ActedAt("offset")
    /\ Mode = "record_after" => ~Joined
  BY DEF Steps, OpenAt, ActedAt, Mode, Joined

\* A claim is written before the handler runs, except by record_after.
LEMMA WriteClaimSkip ==
    ASSUME TypeOK, SkipInv, NEW w \in Workers, WriteClaim(w),
           UNCHANGED <<setting, msg, effects>>,
           pc[w] \in {"insert", "takeover"},
           NEW p \in Steps, Step(w, p), Joined => p = "handling"
    PROVE  DoneMeansActed' /\ PendingIsOwn'
  <1>0. /\ K(w) \in Keys /\ Grows /\ DoneMeansActed /\ PendingIsOwn /\ WorkersActed
        /\ Lease \in Nat /\ TTL \in Nat /\ ~OpenAt(pc[w]) /\ OpenAt("handling")
    BY KeyOfWorker, SameGrows, StoreAssumption, Places DEF SkipInv
  <1>1. CASE Joined
    <2>1. /\ pending' = [pending EXCEPT ![K(w)] = [by |-> w, left |-> TTL]]
          /\ UNCHANGED record
      BY <1>1 DEF WriteClaim, Write, Joined, Mode
    <2>2. SUFFICES ASSUME NEW k \in Keys, pending'[k].by # NoWorker
                   PROVE  (Joined /\ OpenAt(pc[pending[k].by]) /\ K(pending[k].by) = k)'
      BY <1>0, <2>1, SameRecord DEF PendingIsOwn
    <2>3. CASE k = K(w)
      <3>1. pending'[k].by = w
        BY <1>0, <2>1, <2>3 DEF TypeOK, StoreTypeOK
      <3>2. pc'[w] = "handling"
        BY <1>1 DEF Step, TypeOK
      <3>3. QED
        BY <1>0, <1>1, <2>3, <3>1, <3>2 DEF Joined, K, OpenAt
    <2>4. CASE k # K(w)
      <3>1. pending'[k] = pending[k] /\ pending[k].by \in Workers
        BY <2>1, <2>2, <2>4 DEF TypeOK, StoreTypeOK
      <3>2. Joined /\ OpenAt(pc[pending[k].by]) /\ K(pending[k].by) = k
        BY <2>2, <3>1 DEF PendingIsOwn, SkipInv
      <3>3. pc'[pending[k].by] = pc[pending[k].by]
        BY <1>0, <3>1, <3>2 DEF Step, TypeOK
      <3>4. QED
        BY <3>1, <3>2, <3>3 DEF Joined, K, OpenAt
    <2>5. QED
      BY <2>3, <2>4
  <1>2. CASE ~Joined
    <2>1. UNCHANGED pending
      BY <1>2 DEF WriteClaim, Write, Joined, Mode
    <2>2. PendingIsOwn'
      BY <1>0, <1>2, <2>1, PendingStays
    <2>3. CASE Mode = "claim_confirm"
      <3>1. Put(K(w), [state |-> "in_progress", left |-> Lease])
        BY <2>3 DEF WriteClaim, Write
      <3>2. QED
        BY <1>0, <2>2, <3>1, PutDone, RowTypes
    <2>4. CASE Mode = "record_after"
      <3>1. Put(K(w), [state |-> "done", left |-> TTL])
        BY <1>2, <2>4 DEF WriteClaim, Write
      <3>2. effects'[K(w)] > 0
        BY <1>0, <2>4, ActedGrows, Places
      <3>3. QED
        BY <1>0, <2>2, <3>1, <3>2, PutDone, RowTypes
    <2>5. QED
      BY <1>2, <2>3, <2>4, Modes DEF Joined, Mode
  <1>3. QED
    BY <1>1, <1>2

\* CLAIMED: the handler runs next, or the record has been written after it.
LEMMA GrantedSkip ==
    ASSUME TypeOK, SkipInv, NEW w \in Workers, NEW expired \in BOOLEAN, Granted(w, expired),
           pc[w] \in {"insert", "takeover"}, UNCHANGED setting,
           WriteClaim(w) \/ UNCHANGED store
    PROVE  SkipInv'
  <1>0. /\ Grows /\ UNCHANGED <<msg, effects, committed>>
        /\ "offset" \in Steps /\ "handling" \in Steps /\ ~ActedAt("handling")
    BY SameGrows, Places DEF Granted, topic
  <1>1. CASE Mode = "record_after"
    <2>1. Step(w, "offset") /\ effects'[K(w)] > 0 /\ ~Joined
      BY <1>0, <1>1, ActedGrows, Places DEF Granted, SkipInv
    <2>2. WorkersActed'
      BY <1>0, <2>1, StepActed DEF SkipInv
    <2>3. DoneMeansActed' /\ PendingIsOwn'
      <3>1. CASE WriteClaim(w)
        BY <1>0, <2>1, <3>1, WriteClaimSkip
      <3>2. CASE UNCHANGED store
        BY <1>0, <2>1, <3>2, SameRecord, PendingStays DEF SkipInv, store
      <3>3. QED
        BY <3>1, <3>2
    <2>4. QED
      BY <1>0, <2>2, <2>3, SameSkipped DEF SkipInv
  <1>2. CASE Mode # "record_after"
    <2>1. Step(w, "handling")
      BY <1>2 DEF Granted
    <2>2. WorkersActed'
      BY <1>0, <2>1, StepActed DEF SkipInv
    <2>3. DoneMeansActed' /\ PendingIsOwn'
      <3>1. CASE WriteClaim(w)
        BY <1>0, <2>1, <3>1, WriteClaimSkip
      <3>2. CASE UNCHANGED store
        BY <1>0, <2>1, <3>2, SameRecord, PendingStays, Places DEF SkipInv, store
      <3>3. QED
        BY <3>1, <3>2
    <2>4. QED
      BY <1>0, <2>2, <2>3, SameSkipped DEF SkipInv
  <1>3. QED
    BY <1>1, <1>2

\* The store cannot be asked: the handler runs unrecorded, the recording after it is
\* left out, or the consumer stops.
LEMMA UnavailableSkip ==
    ASSUME TypeOK, SkipInv, NEW w \in Workers, NEW tolerated \in BOOLEAN,
           Unavailable(w, tolerated), pc[w] \in {"isdone", "insert", "takeover", "read"},
           UNCHANGED setting
    PROVE  /\ WorkersActed' /\ NothingSkipped'
           /\ UNCHANGED pending => PendingIsOwn'
           /\ Ended(w) => PendingIsOwn'
           /\ UNCHANGED <<msg, effects>>
           /\ \E p \in Steps : Step(w, p) /\ (Joined => p \in {"handling", "down"})
  <1>0. /\ Grows /\ UNCHANGED <<msg, effects, committed>>
        /\ ~OpenAt(pc[w])
    BY SameGrows, Places DEF Unavailable, topic
  <1>1. PICK p \in {"down", "offset", "handling"} :
            Step(w, p) /\ (p = "offset" => Mode = "record_after" /\ pc[w] # "isdone")
    BY DEF Unavailable
  <1>2. p \in Steps
    BY Places
  <1>3. ActedAt(p) => effects'[K(w)] > 0
    BY <1>0, <1>1, ActedGrows, Places DEF SkipInv
  <1>4. WorkersActed'
    BY <1>0, <1>1, <1>2, <1>3, StepActed DEF SkipInv
  <1>5. UNCHANGED pending => PendingIsOwn'
    BY <1>0, <1>1, <1>2, PendingStays DEF SkipInv
  <1>6. Ended(w) => PendingIsOwn'
    BY <1>0, <1>1, <1>2, PendingEnds DEF SkipInv
  <1>7. QED
    BY <1>0, <1>1, <1>2, <1>4, <1>5, <1>6, SameSkipped, Places DEF SkipInv

\* A step that leaves the store alone and nobody's transaction open.
LEMMA QuietSkip ==
    ASSUME TypeOK, SkipInv, NEW w \in Workers, NEW p \in Steps, Step(w, p),
           UNCHANGED <<setting, store, msg, committed, effects>>,
           ActedAt(p) => effects[K(w)] > 0,
           OpenAt(p) \/ ~OpenAt(pc[w]) \/ ~Joined
    PROVE  SkipInv'
  <1>1. Grows
    BY SameGrows
  <1>2. WorkersActed'
    BY <1>1, StepActed DEF SkipInv
  <1>3. DoneMeansActed' /\ PendingIsOwn'
    BY <1>1, SameRecord, PendingStays DEF SkipInv, store
  <1>4. QED
    BY <1>1, <1>2, <1>3, SameSkipped DEF SkipInv

LEMMA ClaimSkips ==
    ASSUME TypeOK, SkipInv, NEW w \in Workers, Claim(w), UNCHANGED setting
    PROVE  SkipInv'
  <1>1. CASE ClaimInserts(w)
    BY <1>1, GrantedSkip DEF ClaimInserts
  <1>2. CASE ClaimConflicts(w)
    <2>1. PICK p \in {"takeover", "read"} : Step(w, p)
      BY <1>2 DEF ClaimConflicts
    <2>2. UNCHANGED <<store, msg, committed, effects>> /\ pc[w] = "insert"
      BY <1>2 DEF ClaimConflicts, topic, history
    <2>3. ActedAt(p) => effects[K(w)] > 0
      BY <2>2, Places DEF SkipInv, WorkersActed
    <2>4. QED
      BY <2>1, <2>2, <2>3, QuietSkip, Places
  <1>3. CASE ClaimTakesOver(w)
    <2>1. (record[K(w)].state = "in_progress") \in BOOLEAN
      OBVIOUS
    <2>2. QED
      BY <1>3, <2>1, GrantedSkip DEF ClaimTakesOver
  <1>4. CASE ClaimTakesNothing(w)
    <2>1. /\ Step(w, "read") /\ pc[w] = "takeover"
          /\ UNCHANGED <<store, msg, committed, effects>>
      BY <1>4 DEF ClaimTakesNothing, topic, history
    <2>2. ActedAt("read") => effects[K(w)] > 0
      BY <2>1, Places DEF SkipInv, WorkersActed
    <2>3. QED
      BY <2>1, <2>2, QuietSkip, Places
  <1>5. CASE ClaimAnswers(w)
    <2>1. /\ Step(w, After(record[K(w)].state)) /\ pc[w] = "read"
          /\ UNCHANGED <<store, msg, committed, effects>>
      BY <1>5 DEF ClaimAnswers, topic, history
    <2>2. PICK p \in {"offset", "insert"} :
            /\ Step(w, p)
            /\ p = "offset" => record[K(w)].state = "done" \/ Mode = "record_after"
            /\ p = "insert" => Mode # "record_after"
      BY <2>1 DEF After, Entry
    <2>3. ActedAt(p) => effects[K(w)] > 0
      BY <2>1, <2>2, KeyOfWorker, Places DEF SkipInv, WorkersActed, DoneMeansActed
    <2>4. QED
      BY <2>1, <2>2, <2>3, QuietSkip, Places
  <1>6. CASE ClaimVanishes(w)
    <2>1. UNCHANGED store /\ pc[w] = "read"
      BY <1>6 DEF ClaimVanishes
    <2>2. CASE Step(w, "insert") /\ UNCHANGED <<msg, topic, history>>
      <3>1. ActedAt("insert") => effects[K(w)] > 0
        BY <2>1, Places DEF SkipInv, WorkersActed
      <3>2. UNCHANGED <<committed, effects>>
        BY <2>2 DEF topic, history
      <3>3. QED
        BY <2>1, <2>2, <3>1, <3>2, QuietSkip, Places
    <2>3. CASE Unavailable(w, FailOpen)
      <3>1. /\ WorkersActed' /\ NothingSkipped' /\ PendingIsOwn' /\ UNCHANGED effects
        BY <2>1, <2>3, UnavailableSkip, Modes DEF store
      <3>2. QED
        BY <2>1, <3>1, SameGrows, SameRecord DEF SkipInv, store
    <2>4. QED
      BY <1>6, <2>2, <2>3 DEF ClaimVanishes
  <1>7. CASE SqliteClaimVanishes(w)
    <2>1. /\ Step(w, "down") /\ Ended(w) /\ Grows
          /\ UNCHANGED <<record, msg, committed>>
      BY <1>7, RollbackEnds, SameGrows DEF SqliteClaimVanishes, topic, history
    <2>2. WorkersActed' /\ PendingIsOwn' /\ DoneMeansActed' /\ NothingSkipped'
      BY <2>1, StepActed, PendingEnds, SameRecord, SameSkipped, Places DEF SkipInv
    <2>3. QED
      BY <2>2 DEF SkipInv
  <1>8. CASE SqliteReadsExpired(w)
    <2>1. /\ Step(w, "takeover") /\ pc[w] = "read"
          /\ UNCHANGED <<store, msg, committed, effects>>
      BY <1>8 DEF SqliteReadsExpired, topic, history
    <2>2. ActedAt("takeover") => effects[K(w)] > 0
      BY <2>1, Places DEF SkipInv, WorkersActed
    <2>3. QED
      BY <2>1, <2>2, QuietSkip, Places
  <1>9. CASE SqliteTakesOver(w)
    <2>1. (stale[w] = "in_progress") \in BOOLEAN
      OBVIOUS
    <2>2. QED
      BY <1>9, <2>1, GrantedSkip DEF SqliteTakesOver
  <1>10. QED
    BY <1>1, <1>2, <1>3, <1>4, <1>5, <1>6, <1>7, <1>8, <1>9 DEF Claim

-----------------------------------------------------------------------------
(* The other steps                                                         *)

\* A message is polled by a worker without a transaction.
LEMMA PollSkip ==
    ASSUME TypeOK, SkipInv, NEW w \in Workers, NEW m \in Messages, Poll(w, m), UNCHANGED setting
    PROVE  SkipInv'
  <1>1. /\ Grows /\ UNCHANGED <<store, committed, effects>> /\ pc[w] = "idle"
        /\ msg' = [msg EXCEPT ![w] = m]
    BY SameGrows DEF Poll, topic
  <1>2. PICK p \in {"handling", "isdone", "insert"} :
            Step(w, p) /\ (Mode = "record_after" => p # "insert")
    BY DEF Poll, Entry
  <1>3. ~ActedAt(p)
    BY <1>2, Places
  <1>4. \A v \in Workers : v # w => pc'[v] = pc[v] /\ K(v)' = K(v)
    BY <1>1, <1>2 DEF TypeOK, Step, K
  <1>5. pc'[w] = p
    BY <1>2 DEF TypeOK, Step
  <1>6. WorkersActed'
    <2> SUFFICES ASSUME NEW v \in Workers, ActedAt(pc[v])' PROVE effects'[K(v)'] > 0
      BY DEF WorkersActed
    <2>1. ActedAt(pc'[v])
      BY DEF ActedAt, Joined, Mode
    <2>2. v # w
      BY <1>3, <1>5, <2>1
    <2>3. QED
      BY <1>1, <1>4, <2>1, <2>2 DEF SkipInv, WorkersActed
  <1>7. PendingIsOwn'
    <2> SUFFICES ASSUME NEW k \in Keys, pending[k].by # NoWorker
                 PROVE  (Joined /\ OpenAt(pc[pending[k].by]) /\ K(pending[k].by) = k)'
      BY <1>1 DEF PendingIsOwn, store
    <2>1. Joined /\ OpenAt(pc[pending[k].by]) /\ K(pending[k].by) = k
      BY DEF SkipInv, PendingIsOwn
    <2>2. pending'[k].by = pending[k].by /\ pending[k].by \in Workers \ {w}
      BY <1>1, <2>1, Places DEF TypeOK, StoreTypeOK, store
    <2>3. QED
      BY <1>4, <2>1, <2>2 DEF Joined, OpenAt, K
  <1>8. QED
    BY <1>1, <1>6, <1>7, SameRecord, SameSkipped DEF SkipInv, store

LEMMA ConsumeSkips ==
    ASSUME TypeOK, SkipInv, NEW w \in Workers, Consume(w)
    PROVE  SkipInv'
  <1>0. UNCHANGED setting /\ K(w) \in Keys
    BY KeyOfWorker DEF Consume
  <1>1. ASSUME NEW m \in Messages, Poll(w, m) PROVE SkipInv'
    BY <1>0, <1>1, PollSkip
  <1>2. CASE IsDone(w)
    <2>1. /\ UNCHANGED <<store, msg, committed, effects>> /\ pc[w] = "isdone"
          /\ Step(w, IF Done(K(w)) THEN "offset" ELSE "handling")
      BY <1>2 DEF IsDone, topic, history
    <2>2. CASE Done(K(w))
      <3>1. effects[K(w)] > 0
        BY <1>0, <2>2 DEF Done, SkipInv, DoneMeansActed
      <3>2. QED
        BY <1>0, <2>1, <2>2, <3>1, QuietSkip, Places
    <2>3. CASE ~Done(K(w))
      BY <1>0, <2>1, <2>3, QuietSkip, Places
    <2>4. QED
      BY <2>2, <2>3
  <1>3. CASE Claim(w)
    BY <1>0, <1>3, ClaimSkips
  <1>4. CASE Act(w)
    <2>1. /\ Step(w, "acted") /\ UNCHANGED <<store, msg, committed>>
          /\ effects' = IF Joined THEN effects ELSE More(effects, K(w))
      BY <1>4 DEF Act, topic
    <2>2. Grows /\ (ActedAt("acted") => effects'[K(w)] > 0)
      BY <1>0, <2>1, SameGrows, MoreGrows, Places
    <2>3. WorkersActed' /\ DoneMeansActed' /\ PendingIsOwn' /\ NothingSkipped'
      BY <1>0, <2>1, <2>2, StepActed, SameRecord, PendingStays, SameSkipped, Places
         DEF SkipInv, store
    <2>4. QED
      BY <2>3 DEF SkipInv
  <1>5. CASE Leave(w)
    <2>1. /\ UNCHANGED <<store, msg, committed, effects>> /\ pc[w] = "acted"
      BY <1>5 DEF Leave, topic, history
    <2>2. PICK p \in {"confirm", "offset", "insert"} : Step(w, p) /\ (Joined => p = "confirm")
      BY <1>5 DEF Leave
    <2>3. ActedAt(p) => effects[K(w)] > 0
      BY <2>1, <2>2, Places DEF SkipInv, WorkersActed
    <2>4. QED
      BY <1>0, <2>1, <2>2, <2>3, QuietSkip, Places
  <1>6. CASE Confirm(w)
    <2>1. /\ Step(w, "offset") /\ Put(K(w), Confirmed(K(w))) /\ ~Joined /\ pc[w] = "confirm"
          /\ UNCHANGED <<pending, msg, committed, effects>>
      BY <1>6 DEF Confirm, topic, history
    <2>2. Grows /\ effects'[K(w)] > 0
      BY <2>1, SameGrows, ActedGrows, Places DEF SkipInv
    <2>3. WorkersActed' /\ PendingIsOwn' /\ NothingSkipped'
      BY <1>0, <2>1, <2>2, StepActed, PendingStays, SameSkipped, Places DEF SkipInv
    <2>4. DoneMeansActed'
      BY <1>0, <2>1, <2>2, PutDone, ConfirmedType DEF SkipInv
    <2>5. QED
      BY <2>3, <2>4 DEF SkipInv
  <1>7. CASE CommitTransaction(w)
    <2>1. /\ Step(w, "offset") /\ CommitRows(w) /\ UNCHANGED <<msg, committed>>
          /\ effects' = More(effects, K(w))
      BY <1>7 DEF CommitTransaction, topic
    <2>2. Grows /\ effects'[K(w)] > 0 /\ Ended(w)
      BY <1>0, <2>1, MoreGrows, RollbackEnds
    <2>3. WorkersActed' /\ DoneMeansActed' /\ PendingIsOwn' /\ NothingSkipped'
      BY <1>0, <2>1, <2>2, StepActed, CommitDone, PendingEnds, SameSkipped, Places DEF SkipInv
    <2>4. QED
      BY <2>3 DEF SkipInv
  <1>8. CASE Release(w)
    <2>1. /\ Step(w, "down") /\ Put(K(w), Released(K(w))) /\ pc[w] = "release"
          /\ UNCHANGED <<pending, msg, committed, effects>>
      BY <1>8 DEF Release, topic, history
    <2>2. Grows /\ (Released(K(w)).state = "done" => effects'[K(w)] > 0)
      BY <1>0, <2>1, SameGrows DEF Released, Absent, SkipInv, DoneMeansActed
    <2>3. WorkersActed' /\ PendingIsOwn' /\ NothingSkipped'
      BY <1>0, <2>1, <2>2, StepActed, PendingStays, SameSkipped, Places DEF SkipInv
    <2>4. DoneMeansActed'
      BY <1>0, <2>1, <2>2, PutDone, ReleasedType DEF SkipInv
    <2>5. QED
      BY <2>3, <2>4 DEF SkipInv
  <1>9. CASE CommitOffset(w)
    <2>1. /\ Step(w, "idle") /\ UNCHANGED <<store, msg, effects>> /\ pc[w] = "offset"
          /\ committed' \subseteq committed \cup {msg[w]}
      BY <1>9 DEF CommitOffset, history
    <2>2. Grows /\ effects[K(w)] > 0
      BY <2>1, SameGrows, Places DEF SkipInv, WorkersActed
    <2>3. NothingSkipped'
      BY <2>1, <2>2 DEF SkipInv, NothingSkipped, K
    <2>4. WorkersActed' /\ DoneMeansActed' /\ PendingIsOwn'
      BY <1>0, <2>1, <2>2, StepActed, SameRecord, PendingStays, Places DEF SkipInv, store
    <2>5. QED
      BY <2>3, <2>4 DEF SkipInv
  <1>10. CASE Restart(w)
    <2>1. /\ Step(w, "idle") /\ UNCHANGED <<store, msg, committed, effects>> /\ pc[w] = "down"
      BY <1>10 DEF Restart, topic, history
    <2>2. QED
      BY <1>0, <2>1, QuietSkip, Places
  <1>11. QED
    BY <1>1, <1>2, <1>3, <1>4, <1>5, <1>6, <1>7, <1>8, <1>9, <1>10 DEF Consume

\* A worker goes down, or to its release, and its transaction with it.
LEMMA AbortSkip ==
    ASSUME TypeOK, SkipInv, NEW w \in Workers, NEW p \in {"down", "release"}, Step(w, p),
           pending' = RolledBack(w), UNCHANGED <<setting, record, msg, committed, effects>>
    PROVE  SkipInv'
  <1>1. Grows /\ Ended(w) /\ ~ActedAt(p) /\ p \in Steps
    BY SameGrows, RollbackEnds, Places
  <1>2. WorkersActed' /\ DoneMeansActed' /\ PendingIsOwn' /\ NothingSkipped'
    BY <1>1, StepActed, SameRecord, PendingEnds, SameSkipped DEF SkipInv
  <1>3. QED
    BY <1>2 DEF SkipInv

LEMMA TroubleSkips ==
    ASSUME TypeOK, SkipInv, NEW w \in Workers, Trouble(w)
    PROVE  SkipInv'
  <1>0. UNCHANGED setting /\ K(w) \in Keys
    BY KeyOfWorker DEF Trouble
  <1>1. CASE HandlerRaises(w)
    <2>1. PICK p \in {"down", "release"} : Step(w, p)
      BY <1>1 DEF HandlerRaises
    <2>2. QED
      BY <1>0, <1>1, <2>1, AbortSkip DEF HandlerRaises, topic
  <1>2. CASE ClaimCallFails(w)
    <2>1. /\ Unavailable(w, Tolerates) /\ Tolerates \in BOOLEAN
          /\ pc[w] \in {"isdone", "insert", "takeover", "read"}
      BY <1>2, Modes DEF ClaimCallFails, Tolerates
    <2>2. WorkersActed' /\ NothingSkipped' /\ UNCHANGED <<msg, effects>> /\ Grows
      BY <1>0, <2>1, UnavailableSkip, SameGrows
    <2>3. DoneMeansActed' /\ PendingIsOwn'
      <3>1. CASE pending' = RolledBack(w) /\ UNCHANGED <<record, doomed>>
        BY <1>0, <2>1, <2>2, <3>1, UnavailableSkip, RollbackEnds, SameRecord DEF SkipInv
      <3>2. CASE ~Joined /\ WriteClaim(w) /\ pc[w] \in {"insert", "takeover"}
        <4>1. PICK p \in Steps : Step(w, p) /\ (Joined => p = "handling")
          BY <1>0, <2>1, <3>2, UnavailableSkip
        <4>2. QED
          BY <1>0, <2>2, <3>2, <4>1, WriteClaimSkip
      <3>3. QED
        BY <1>2, <3>1, <3>2 DEF ClaimCallFails
    <2>4. QED
      BY <2>2, <2>3 DEF SkipInv
  <1>3. CASE LeaveCallFails(w)
    <2>1. /\ ~Joined /\ pc[w] \in {"confirm", "release"}
          /\ UNCHANGED <<pending, msg, committed, effects>>
      BY <1>3 DEF LeaveCallFails, topic, history
    <2>2. PICK p \in {"offset", "down"} : Step(w, p) /\ (p = "offset" => pc[w] = "confirm")
      BY <1>3 DEF LeaveCallFails
    <2>3. Grows /\ (pc[w] = "confirm" => effects'[K(w)] > 0)
      BY <2>1, SameGrows, ActedGrows, Places DEF SkipInv
    <2>4. WorkersActed' /\ PendingIsOwn' /\ NothingSkipped'
      BY <1>0, <2>1, <2>2, <2>3, StepActed, PendingStays, SameSkipped, Places DEF SkipInv
    <2>5. DoneMeansActed'
      <3>1. CASE UNCHANGED <<record, doomed>>
        BY <2>3, <3>1, SameRecord DEF SkipInv
      <3>2. CASE pc[w] = "confirm" /\ Put(K(w), Confirmed(K(w)))
        BY <1>0, <2>3, <3>2, PutDone, ConfirmedType DEF SkipInv
      <3>3. CASE Put(K(w), Released(K(w)))
        <4>1. Released(K(w)).state = "done" => effects'[K(w)] > 0
          BY <1>0, <2>1 DEF Released, Absent, SkipInv, DoneMeansActed
        <4>2. QED
          BY <1>0, <2>3, <3>3, <4>1, PutDone, ReleasedType DEF SkipInv
      <3>4. QED
        BY <1>3, <3>1, <3>2, <3>3 DEF LeaveCallFails
    <2>6. QED
      BY <2>4, <2>5 DEF SkipInv
  <1>4. CASE CommitCallFails(w)
    <2>1. Step(w, "down") /\ UNCHANGED <<msg, committed>>
      BY <1>4 DEF CommitCallFails, topic
    <2>2. CASE CommitRows(w) /\ effects' = More(effects, K(w))
      <3>1. Grows /\ effects'[K(w)] > 0 /\ Ended(w)
        BY <1>0, <2>2, MoreGrows, RollbackEnds
      <3>2. WorkersActed' /\ DoneMeansActed' /\ PendingIsOwn' /\ NothingSkipped'
        BY <1>0, <2>1, <2>2, <3>1, StepActed, CommitDone, PendingEnds, SameSkipped, Places
           DEF SkipInv
      <3>3. QED
        BY <3>2 DEF SkipInv
    <2>3. CASE pending' = RolledBack(w) /\ UNCHANGED <<record, doomed, effects>>
      BY <1>0, <2>1, <2>3, AbortSkip
    <2>4. QED
      BY <1>4, <2>2, <2>3 DEF CommitCallFails
  <1>5. CASE Crash(w)
    BY <1>0, <1>5, AbortSkip DEF Crash, topic, history
  <1>6. ASSUME NEW m \in Messages, Rebalance(m, w) PROVE SkipInv'
    BY <1>0, <1>6 DEF Rebalance, store, worker, history, SkipInv, WorkersActed, ActedAt, Mode,
       Joined, DoneMeansActed, PendingIsOwn, OpenAt, K, NothingSkipped
  <1>7. QED
    BY <1>1, <1>2, <1>3, <1>4, <1>5, <1>6 DEF Trouble

\* Nobody moves, no side effect happens: only the table changes.
LEMMA StandStill ==
    ASSUME TypeOK, SkipInv, UNCHANGED <<setting, pc, msg, committed, effects>>,
           \A k \in Keys : pending'[k].by = pending[k].by,
           \A k \in Keys : record'[k].state = "done" => record[k].state = "done"
    PROVE  SkipInv'
  <1>1. WorkersActed' /\ NothingSkipped'
    BY DEF SkipInv, WorkersActed, ActedAt, Mode, Joined, K, NothingSkipped
  <1>2. DoneMeansActed'
    BY DEF SkipInv, DoneMeansActed
  <1>3. PendingIsOwn'
    BY DEF SkipInv, PendingIsOwn, OpenAt, Joined, K
  <1>4. QED
    BY <1>1, <1>2, <1>3 DEF SkipInv

LEMMA PurgeSkips == ASSUME TypeOK, SkipInv, Purge PROVE SkipInv'
  <1>1. UNCHANGED <<setting, pc, msg, committed, effects>>
    BY DEF Purge, Sweep, Forget, worker, topic, history
  <1>2. PICK k \in Keys :
            SweepRow(k) \/ SweepChooses(k) \/ SweepDeletes(k) \/ ForgetRow(k)
    BY DEF Purge, Sweep, Forget
  <1>3. UNCHANGED pending /\ (UNCHANGED record \/ Put(k, Absent))
    BY <1>2 DEF SweepRow, SweepChooses, SweepDeletes, ForgetRow
  <1>4. \A j \in Keys : record'[j].state = "done" => record[j].state = "done"
    <2>1. CASE UNCHANGED record
      BY <2>1
    <2>2. CASE Put(k, Absent)
      <3>1. record' = [record EXCEPT ![k] = Absent] /\ record = [j \in Keys |-> record[j]]
        BY <2>2 DEF Put, TypeOK, StoreTypeOK
      <3>2. \A j \in Keys : record'[j] = record[j] \/ record'[j] = Absent
        BY <3>1
      <3>3. QED
        BY <3>2 DEF Absent
    <2>3. QED
      BY <1>3, <2>1, <2>2
  <1>5. QED
    BY <1>1, <1>3, <1>4, StandStill

LEMMA TimeSkips == ASSUME TypeOK, SkipInv, Time PROVE SkipInv'
  <1>1. UNCHANGED <<setting, pc, msg, committed, effects>>
    BY DEF Time, Tick, topic
  <1>2. \A k \in Keys : pending'[k].by = pending[k].by
    BY DEF Time, Tick, AgeRows, TypeOK, StoreTypeOK
  <1>3. \A k \in Keys : record'[k].state = "done" => record[k].state = "done"
    BY DEF Time, Tick, AgeRows, Aged, Absent, TypeOK, StoreTypeOK
  <1>4. QED
    BY <1>1, <1>2, <1>3, StandStill

LEMMA SkipInvariant == Spec => []SkipInv
  <1>1. TypeOK /\ SkipInv /\ [Next]_vars => SkipInv'
    <2> SUFFICES ASSUME TypeOK, SkipInv, [Next]_vars PROVE SkipInv'
      OBVIOUS
    <2>1. CASE UNCHANGED vars
      BY <2>1, StandStill DEF vars, store, worker, topic, history
    <2>2. QED
      BY <2>1, ConsumeSkips, TroubleSkips, PurgeSkips, TimeSkips DEF Next
  <1>2. QED
    BY <1>1, InitSkip, TypeCorrect, PTL DEF Spec

\* An offset is committed only after the side effect of its message happened, in every
\* mode of Deduplicator.process() and with every backend.
THEOREM SkippingIsNotLosing == Spec => []NothingSkipped
  <1>1. SkipInv => NothingSkipped
    BY DEF SkipInv
  <1>2. QED
    BY <1>1, SkipInvariant, PTL

=============================================================================
