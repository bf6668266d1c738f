-------------------------- MODULE OutboxLockProofs --------------------------
(***************************************************************************)
(* Mutual exclusion of the relays of OutboxRelay, strict and sharded, and  *)
(* what it gives when no statement fails on a connection that stays up:    *)
(* claims that are fresh, and rows that stay published.                    *)
(***************************************************************************)
EXTENDS OutboxRelayProofs

LEMMA InitLock == Init => LockInv
  BY DEF Init, LockInv, LeadersHoldLocks, WorkInShard, Leading, Idle

\* The lock side of the invariant: one step per action that touches pc, held,
\* link or sessionLocks; the others leave all four alone.
LEMMA LocksNext == ASSUME TypeOK, LeadersHoldLocks, [Next]_vars PROVE LeadersHoldLocks'
  <1>0. CASE UNCHANGED <<pc, held, link, sessionLocks>>
    BY <1>0 DEF LeadersHoldLocks, Leading
  <1>1. CASE WriterNext
    BY <1>0, <1>1 DEF WriterNext, Enqueue, Commit, Rollback, relay
  <1>2. ASSUME NEW r \in Relays, PublishKey(r) PROVE LeadersHoldLocks'
    <2> PICK n \in Seqs : \/ Send(r, n)
                          \/ Acked(r, n)
                          \/ SendFailed(r, n)
                          \/ RecordFailure(r, n)
                          \/ RecordFailureOfSwept(r, n)
                          \/ MarkPublished(r, n)
                          \/ StoreCallFails(r, n)
      BY <1>2 DEF PublishKey
    <2>1. CASE Send(r, n) \/ Acked(r, n) \/ SendFailed(r, n) \/ RecordFailure(r, n)
                 \/ MarkPublished(r, n)
      BY <1>0, <2>1 DEF Send, Acked, SendFailed, RecordFailure, MarkPublished
    <2>2. CASE RecordFailureOfSwept(r, n)
      BY <2>2 DEF RecordFailureOfSwept, LeadersHoldLocks, Leading, TypeOK
    <2>3. CASE StoreCallFails(r, n)
      BY <2>3 DEF StoreCallFails, LeadersHoldLocks, Leading, TypeOK
    <2>4. QED
      BY <2>1, <2>2, <2>3
  <1>3. ASSUME NEW r \in Relays, ProcessEnds(r) PROVE LeadersHoldLocks'
    BY <1>3 DEF ProcessEnds, LeadersHoldLocks, Leading, TypeOK
  <1>4. ASSUME NEW r \in Relays, RunLoop(r) PROVE LeadersHoldLocks'
    <2>1. CASE AcquireLeadership(r)
      <3>1. CASE held[r]
        BY <2>1, <3>1 DEF AcquireLeadership, LeadersHoldLocks, Leading, TypeOK
      <3>2. CASE ~held[r]
        <4>1. /\ \A q \in sessionLocks : q # r => Slot(q) # Slot(r)
              /\ sessionLocks' = sessionLocks \cup {r}
          BY <2>1, <3>2 DEF AcquireLeadership, SlotTaken
        <4>2. \A p, q \in sessionLocks' : Slot(p)' = Slot(q)' => p = q
          BY <4>1 DEF LeadersHoldLocks, Slot
        <4>3. QED
          BY <2>1, <3>2, <4>1, <4>2 DEF AcquireLeadership, LeadersHoldLocks, Leading, TypeOK
      <3>3. QED
        BY <3>1, <3>2
    <2>2. CASE Claim(r) \/ FinishPass(r)
      BY <2>2 DEF Claim, FinishPass, LeadersHoldLocks, Leading, TypeOK
    <2>3. CASE StoreLost(r)
      BY <2>3 DEF StoreLost, LeadersHoldLocks, Leading, TypeOK
    <2>4. CASE Close(r)
      BY <2>4 DEF Close, MayClose, LeadersHoldLocks, Leading, Slot, TypeOK
    <2>5. CASE Exit(r)
      BY <1>3, <2>5 DEF Exit
    <2>6. CASE Restart(r)
      BY <2>6 DEF Restart, LeadersHoldLocks, Leading, TypeOK
    <2>7. QED
      BY <1>4, <2>1, <2>2, <2>3, <2>4, <2>5, <2>6 DEF RunLoop
  <1>5. ASSUME NEW r \in Relays, ServerReapsSession(r) PROVE LeadersHoldLocks'
    BY <1>5 DEF ServerReapsSession, relay, LeadersHoldLocks, Leading, Slot
  <1>6. ASSUME NEW r \in Relays, Disruption(r) PROVE LeadersHoldLocks'
    <2>1. CASE QueryFails(r) \/ Stop(r) \/ LinkDown(r)
      BY <2>1 DEF QueryFails, Stop, LinkDown, LeadersHoldLocks, Leading, TypeOK
    <2>2. ASSUME NEW n \in Seqs, TaskQueryFails(r, n) PROVE LeadersHoldLocks'
      BY <2>2 DEF TaskQueryFails, LeadersHoldLocks, Leading, TypeOK
    <2>3. CASE Cancel(r)
      <3>1. \A p, q \in sessionLocks' : Slot(p)' = Slot(q)' => p = q
        BY <2>3 DEF Cancel, SlotTaken, LeadersHoldLocks, Slot
      <3>2. QED
        BY <2>3, <3>1 DEF Cancel, LeadersHoldLocks, Leading, TypeOK
    <2>4. CASE Crash(r)
      BY <1>3, <2>4 DEF Crash
    <2>5. QED
      BY <1>6, <2>1, <2>2, <2>3, <2>4 DEF Disruption
  <1>7. ASSUME NEW n \in Seqs, Land(n) \/ OperatorReset(n) PROVE LeadersHoldLocks'
    BY <1>0, <1>7 DEF Land, OperatorReset, relay
  <1>8. ASSUME NEW S \in SUBSET Seqs, Sweep(S) PROVE LeadersHoldLocks'
    BY <1>0, <1>8 DEF Sweep, relay
  <1>9. CASE UNCHANGED vars
    BY <1>0, <1>9 DEF vars, relay
  <1>10. QED
    BY <1>1, <1>2, <1>4, <1>5, <1>6, <1>7, <1>8, <1>9 DEF Next

\* Rows start being worked on by a claim, and a claimed row keeps its key.
LEMMA ShardNext ==
    ASSUME TypeOK, TypeOK', OnlyCommitted, TxnsOwnRows, WorkInShard, [Next]_vars
    PROVE  WorkInShard'
  <1>1. CASE key' = key /\ \A r \in Relays : \A n \in Seqs :
                              work'[r][n] # "none" => work[r][n] # "none"
    BY <1>1 DEF WorkInShard, InShard
  <1>2. CASE WriterNext
    <2>1. ASSUME NEW w \in Writers, NEW k \in AllKeys, Enqueue(w, k) PROVE WorkInShard'
      <3>1. nextSeq \in Seqs /\ ~Committed(nextSeq)
        BY <2>1 DEF Enqueue, TypeOK, Seqs, TxnsOwnRows, Committed, InTable
      <3>2. \A r \in Relays : work[r][nextSeq] = "none"
        BY <3>1 DEF OnlyCommitted
      <3>3. QED
        BY <2>1, <3>1, <3>2 DEF Enqueue, WorkInShard, InShard, relay, TypeOK
    <2>2. QED
      BY <1>1, <1>2, <2>1 DEF WriterNext, Commit, Rollback, relay
  <1>3. ASSUME NEW r \in Relays, Claim(r) PROVE WorkInShard'
    <2>1. \A q \in Relays : \A n \in Seqs :
             work'[q][n] = IF q = r /\ n \in Claimed(r) THEN "todo" ELSE work[q][n]
      BY <1>3 DEF Claim, Move, TypeOK
    <2>2. \A n \in Claimed(r) : InShard(r, key[n])
      BY DEF Claimed, Claimable
    <2>3. key' = key
      BY <1>3 DEF Claim, table
    <2>4. QED
      BY <2>1, <2>2, <2>3 DEF WorkInShard, InShard
  <1>4. ASSUME NEW r \in Relays, PublishKey(r) PROVE WorkInShard'
    <2> PICK n \in Seqs : \/ Send(r, n)
                          \/ Acked(r, n)
                          \/ SendFailed(r, n)
                          \/ RecordFailure(r, n)
                          \/ RecordFailureOfSwept(r, n)
                          \/ MarkPublished(r, n)
                          \/ StoreCallFails(r, n)
      BY <1>4 DEF PublishKey
    <2>1. key' = key
      BY DEF Send, Acked, SendFailed, RecordFailure, RecordFailureOfSwept, MarkPublished,
             StoreCallFails, table
    <2>2. CASE Send(r, n)
      BY <1>1, <2>1, <2>2 DEF Send, At, Move, TypeOK
    <2>3. CASE Acked(r, n)
      BY <1>1, <2>1, <2>3 DEF Acked, At, Move, TypeOK
    <2>4. CASE SendFailed(r, n)
      BY <1>1, <2>1, <2>4 DEF SendFailed, Behind, At, TypeOK
    <2>5. ASSUME NEW S \in SUBSET Seqs, work' = Move(r, S, "none") PROVE WorkInShard'
      BY <1>1, <2>1, <2>5 DEF Move, TypeOK
    <2>6. UnitSent(r, n) \in SUBSET Seqs /\ {n} \in SUBSET Seqs
      BY DEF UnitSent, At
    <2>7. QED
      BY <2>2, <2>3, <2>4, <2>5, <2>6
         DEF RecordFailure, RecordFailureOfSwept, MarkPublished, StoreCallFails
  <1>5. ASSUME NEW r \in Relays, ProcessEnds(r) PROVE WorkInShard'
    BY <1>1, <1>5 DEF ProcessEnds, table, Idle, TypeOK
  <1>6. ASSUME NEW r \in Relays, RunLoop(r) PROVE WorkInShard'
    BY <1>1, <1>3, <1>5, <1>6
       DEF RunLoop, AcquireLeadership, FinishPass, StoreLost, Close, Exit, Restart, table
  <1>7. ASSUME NEW r \in Relays, Disruption(r) PROVE WorkInShard'
    <2>1. ASSUME NEW S \in SUBSET Seqs, work' = Move(r, S, "none"), key' = key PROVE WorkInShard'
      BY <1>1, <2>1 DEF Move, TypeOK
    <2>2. ASSUME NEW n \in Seqs, TaskQueryFails(r, n) PROVE WorkInShard'
      <3>1. UnitSent(r, n) \in SUBSET Seqs /\ {n} \in SUBSET Seqs
        BY DEF UnitSent, At
      <3>2. QED
        BY <2>1, <2>2, <3>1 DEF TaskQueryFails, table
    <2>3. CASE Cancel(r)
      BY <2>1, <2>3 DEF Cancel, table
    <2>4. QED
      BY <1>1, <1>5, <1>7, <2>2, <2>3 DEF Disruption, QueryFails, Stop, Crash, LinkDown, table
  <1>8. CASE UNCHANGED <<key, work>>
    BY <1>1, <1>8
  <1>9. QED
    BY <1>2, <1>4, <1>6, <1>7, <1>8
       DEF Next, ServerReapsSession, Land, OperatorReset, Sweep, table, relay, vars

\* Exclusion follows: same slot, same lock; different slots, different keys.
LEMMA LockExcludes == TypeOK /\ LockInv => NoSplitBrain
  <1> SUFFICES ASSUME TypeOK, LockInv,
                      NEW q \in Relays, NEW r \in Relays, NEW n \in Seqs,
                      Leading(q), Leading(r), work[q][n] # "none", work[r][n] # "none"
               PROVE  q = r
    BY DEF NoSplitBrain
  <1>1. q \in sessionLocks /\ r \in sessionLocks
    BY DEF LockInv, LeadersHoldLocks, Leading
  <1>2. InShard(q, key[n]) /\ InShard(r, key[n])
    BY DEF LockInv, WorkInShard
  <1>3. Slot(q) = Slot(r)
    BY <1>2 DEF InShard, Slot
  <1>4. QED
    BY <1>1, <1>3 DEF LockInv, LeadersHoldLocks

THEOREM LockInvariant == Spec => []LockInv
  <1>1. TypeOK /\ TypeOK' /\ OrderInv /\ LockInv /\ [Next]_vars => LockInv'
    BY LocksNext, ShardNext DEF LockInv, OrderInv
  <1>2. QED
    BY <1>1, InitLock, TypeCorrect, OrderInvariant, PTL DEF Spec

\* Two relays inside a pass, with their connections up, never work on the same
\* row: any number of relays and shards, any crashes, lost links, stops, failed
\* statements and cancellations.
THEOREM NoSplitBrainTheorem == Spec => []NoSplitBrain
  BY LockExcludes, TypeCorrect, LockInvariant, PTL

-----------------------------------------------------------------------------
(* Fresh claims                                                            *)

\* A task lives inside a pass, or ends what a cancelled pass had sent, and its
\* relay's store believes in the lock as long as the connection is up.
TasksInPass ==
    \A r \in Relays : \A n \in Seqs : work[r][n] # "none" =>
        /\ pc[r] \in {"publish", "cancelled"}
        /\ pc[r] = "cancelled" => work[r][n] = "sent"
        /\ link[r] = "up" => held[r]

FreshInv == TasksInPass /\ ClaimIsFresh

\* Not only leaders: no two relays with a connection have tasks for one row.
LEMMA TasksExclude ==
    ASSUME TypeOK, LockInv, TasksInPass,
           NEW q \in Relays, NEW r \in Relays, NEW n \in Seqs,
           link[q] = "up", link[r] = "up", work[q][n] # "none", work[r][n] # "none"
    PROVE  q = r
  <1>1. q \in sessionLocks /\ r \in sessionLocks
    BY DEF LockInv, LeadersHoldLocks, TasksInPass
  <1>2. InShard(q, key[n]) /\ InShard(r, key[n])
    BY DEF LockInv, WorkInShard
  <1>3. Slot(q) = Slot(r)
    BY <1>2 DEF InShard, Slot
  <1>4. QED
    BY <1>1, <1>3 DEF LockInv, LeadersHoldLocks

\* Only inside a pass is there a row whose send has failed.
LEMMA FailingLeads ==
    ASSUME FreshInv, NEW r \in Relays, NEW n \in Seqs, n \in At(r, "failing"), link[r] = "up"
    PROVE  Leading(r) /\ status[n] = "pending"
  BY DEF FreshInv, TasksInPass, ClaimIsFresh, Leading, At

LEMMA PublishKeyTasks ==
    ASSUME TypeOK, FreshInv, NEW r \in Relays, PublishKey(r)
    PROVE  TasksInPass'
  <1> PICK n \in Seqs : \/ Send(r, n)
                        \/ Acked(r, n)
                        \/ SendFailed(r, n)
                        \/ RecordFailure(r, n)
                        \/ RecordFailureOfSwept(r, n)
                        \/ MarkPublished(r, n)
                        \/ StoreCallFails(r, n)
    BY DEF PublishKey
  <1>1. ~RecordFailureOfSwept(r, n)
    BY FailingLeads DEF RecordFailureOfSwept
  <1>2. /\ pc' = pc /\ link' = link
        /\ \A q \in Relays : link[q] = "up" => held'[q] = held[q]
    BY <1>1 DEF Send, Acked, SendFailed, RecordFailure, MarkPublished, StoreCallFails, TypeOK
  <1>3. ASSUME NEW S \in SUBSET Seqs, work' = Move(r, S, "none") PROVE TasksInPass'
    BY <1>2, <1>3 DEF Move, TypeOK, FreshInv, TasksInPass
  <1>4. UnitSent(r, n) \in SUBSET Seqs /\ {n} \in SUBSET Seqs
    BY DEF UnitSent, At
  <1>5. CASE Send(r, n)
    BY <1>2, <1>5 DEF Send, At, Move, TypeOK, FreshInv, TasksInPass
  <1>6. CASE Acked(r, n)
    BY <1>2, <1>6 DEF Acked, At, Move, TypeOK, FreshInv, TasksInPass
  <1>7. CASE SendFailed(r, n)
    BY <1>2, <1>7 DEF SendFailed, Behind, At, TypeOK, FreshInv, TasksInPass
  <1>8. QED
    BY <1>1, <1>3, <1>4, <1>5, <1>6, <1>7 DEF RecordFailure, MarkPublished, StoreCallFails

LEMMA TasksNext ==
    ASSUME ~QueryErrors, TypeOK, LockInv, FreshInv, [Next]_vars
    PROVE  TasksInPass'
  <1>0. CASE UNCHANGED <<work, pc, link, held>>
    BY <1>0 DEF FreshInv, TasksInPass
  <1>1. CASE WriterNext
    BY <1>0, <1>1 DEF WriterNext, Enqueue, Commit, Rollback, relay
  <1>2. ASSUME NEW r \in Relays, RunLoop(r) PROVE TasksInPass'
    <2>1. CASE AcquireLeadership(r)
      BY <2>1 DEF AcquireLeadership, FreshInv, TasksInPass, TypeOK
    <2>2. CASE Claim(r)
      <3>1. held[r] /\ pc' = [pc EXCEPT ![r] = "publish"]
        BY <2>2 DEF Claim, LockInv, LeadersHoldLocks, Leading
      <3>2. QED
        BY <2>2, <3>1 DEF Claim, Move, FreshInv, TasksInPass, TypeOK
    <2>3. CASE FinishPass(r) \/ StoreLost(r)
      BY <2>3 DEF FinishPass, StoreLost, Idle, FreshInv, TasksInPass, TypeOK
    <2>4. CASE Close(r)
      BY <2>4 DEF Close, MayClose, Idle, FreshInv, TasksInPass, TypeOK
    <2>5. CASE Exit(r)
      BY <2>5 DEF Exit, ProcessEnds, Idle, FreshInv, TasksInPass, TypeOK
    <2>6. CASE Restart(r)
      <3>1. \A n \in Seqs : work[r][n] = "none"
        BY <2>6 DEF Restart, FreshInv, TasksInPass
      <3>2. QED
        BY <2>6, <3>1 DEF Restart, FreshInv, TasksInPass, TypeOK
    <2>7. QED
      BY <1>2, <2>1, <2>2, <2>3, <2>4, <2>5, <2>6 DEF RunLoop
  <1>3. ASSUME NEW r \in Relays, Disruption(r) PROVE TasksInPass'
    <2>1. ~QueryFails(r) /\ \A n \in Seqs : ~TaskQueryFails(r, n)
      BY DEF QueryFails, TaskQueryFails
    <2>2. CASE Stop(r) \/ LinkDown(r)
      BY <2>2 DEF Stop, LinkDown, FreshInv, TasksInPass, TypeOK
    <2>3. CASE Cancel(r)
      BY <2>3 DEF Cancel, Move, At, FreshInv, TasksInPass, TypeOK
    <2>4. CASE Crash(r)
      BY <2>4 DEF Crash, ProcessEnds, Idle, FreshInv, TasksInPass, TypeOK
    <2>5. QED
      BY <1>3, <2>1, <2>2, <2>3, <2>4 DEF Disruption
  <1>4. QED
    BY <1>0, <1>1, <1>2, <1>3, PublishKeyTasks
       DEF Next, ServerReapsSession, Land, OperatorReset, Sweep, relay, vars

\* A claim stays fresh in a step that gives no leader a row and disturbs none it has.
LEMMA FreshKept ==
    ASSUME ClaimIsFresh,
           \A r \in Relays : \A n \in Seqs :
               Leading(r)' /\ work'[r][n] \in {"todo", "air", "failing"} =>
                   /\ Leading(r) /\ work[r][n] \in {"todo", "air", "failing"}
                   /\ seen'[r][n] = seen[r][n]
                   /\ status'[n] = status[n] /\ attempts'[n] = attempts[n]
    PROVE  ClaimIsFresh'
  BY DEF ClaimIsFresh

\* Application transactions touch rows nobody has claimed.
LEMMA WriterFresh ==
    ASSUME TypeOK, TxnsOwnRows, ClaimIsFresh, WriterNext
    PROVE  /\ ClaimIsFresh'
           /\ \A n \in Seqs : status[n] \in InTable => status'[n] = status[n]
  <1>1. /\ UNCHANGED <<attempts, pc, link, work, seen>>
        /\ \A n \in Seqs : status[n] \in InTable => status'[n] = status[n]
    <2>1. ASSUME NEW w \in Writers, NEW k \in AllKeys, Enqueue(w, k)
          PROVE  \A n \in Seqs : status[n] \in InTable => status'[n] = status[n]
      BY <2>1 DEF Enqueue, TxnsOwnRows, TypeOK, InTable, Seqs
    <2>2. ASSUME NEW w \in Writers, Commit(w) \/ Rollback(w)
          PROVE  \A n \in Seqs : status[n] \in InTable => status'[n] = status[n]
      BY <2>2 DEF Commit, Rollback, TxnsOwnRows, InTable
    <2>3. QED
      BY <2>1, <2>2 DEF WriterNext, Enqueue, Commit, Rollback, relay
  <1>2. QED
    BY <1>1 DEF ClaimIsFresh, Leading, InTable

\* What a task does to the table, it does to rows of its own.
LEMMA PublishKeyFresh ==
    ASSUME TypeOK, LockInv, FreshInv, NEW r \in Relays, PublishKey(r)
    PROVE  /\ ClaimIsFresh'
           /\ \A n \in Seqs : status[n] = "published" => status'[n] = "published"
  <1> PICK n \in Seqs : \/ Send(r, n)
                        \/ Acked(r, n)
                        \/ SendFailed(r, n)
                        \/ RecordFailure(r, n)
                        \/ RecordFailureOfSwept(r, n)
                        \/ MarkPublished(r, n)
                        \/ StoreCallFails(r, n)
    BY DEF PublishKey
  <1>1. ~RecordFailureOfSwept(r, n)
    BY FailingLeads DEF RecordFailureOfSwept
  <1>2. UNCHANGED <<pc, link, seen>>
    BY <1>1 DEF Send, Acked, SendFailed, RecordFailure, MarkPublished, StoreCallFails
  <1>3. \A q \in Relays : Leading(q)' <=> Leading(q)
    BY <1>2 DEF Leading
  <1>4. CASE Send(r, n) \/ Acked(r, n) \/ SendFailed(r, n) \/ StoreCallFails(r, n)
    <2>1. UNCHANGED <<status, attempts>>
      BY <1>4 DEF Send, Acked, SendFailed, StoreCallFails, table
    <2>2. \A q \in Relays : \A m \in Seqs : work'[q][m] \in {"todo", "air", "failing"} =>
             work[q][m] \in {"todo", "air", "failing"}
      <3>1. ASSUME NEW S \in SUBSET Seqs, work' = Move(r, S, "none")
            PROVE  \A q \in Relays : \A m \in Seqs :
                       work'[q][m] # "none" => work'[q][m] = work[q][m]
        BY <3>1 DEF Move, TypeOK
      <3>2. UnitSent(r, n) \in SUBSET Seqs /\ {n} \in SUBSET Seqs
        BY DEF UnitSent, At
      <3>3. CASE Send(r, n)
        BY <3>3 DEF Send, Move, At, TypeOK
      <3>4. CASE Acked(r, n)
        BY <3>4 DEF Acked, Move, At, TypeOK
      <3>5. CASE SendFailed(r, n)
        BY <3>5 DEF SendFailed, At, TypeOK
      <3>6. CASE StoreCallFails(r, n)
        BY <3>1, <3>2, <3>6 DEF StoreCallFails
      <3>7. QED
        BY <1>4, <3>3, <3>4, <3>5, <3>6
    <2>3. QED
      BY <1>2, <1>3, <2>1, <2>2, FreshKept DEF FreshInv
  <1>5. CASE RecordFailure(r, n)
    <2>1. /\ n \in At(r, "failing") /\ link[r] = "up" /\ work' = Move(r, {n}, "none")
          /\ \A m \in Seqs \ {n} : status'[m] = status[m] /\ attempts'[m] = attempts[m]
      BY <1>5 DEF RecordFailure, TypeOK
    <2>2. work[r][n] # "none"
      BY <2>1 DEF At
    <2>3. ASSUME NEW q \in Relays, Leading(q), q # r PROVE work[q][n] = "none"
      BY <2>1, <2>2, <2>3, TasksExclude DEF Leading, FreshInv
    <2>4. work'[r][n] = "none" /\ \A q \in Relays : \A m \in Seqs :
              work'[q][m] # "none" => work'[q][m] = work[q][m]
      BY <2>1 DEF Move, TypeOK
    <2>5. ClaimIsFresh'
      <3>1. ASSUME NEW q \in Relays, NEW m \in Seqs, Leading(q),
                   work'[q][m] \in {"todo", "air", "failing"}
            PROVE  m # n /\ work[q][m] \in {"todo", "air", "failing"}
        BY <2>3, <2>4, <3>1
      <3>2. QED
        BY <1>2, <1>3, <2>1, <3>1, FreshKept DEF FreshInv
    <2>6. status[n] = "pending"
      BY <2>1, FailingLeads
    <2>7. QED
      BY <2>1, <2>5, <2>6
  <1>6. CASE MarkPublished(r, n)
    <2>1. /\ link[r] = "up" /\ attempts' = attempts
          /\ work' = Move(r, UnitSent(r, n), "none")
          /\ \A m \in Seqs : \/ status'[m] = status[m]
                             \/ m \in UnitSent(r, n) /\ status'[m] = "published"
      BY <1>6 DEF MarkPublished
    <2>2. \A m \in UnitSent(r, n) : m \in Seqs /\ work[r][m] = "sent"
      BY UnitSentIsSent DEF At
    <2>3. ASSUME NEW q \in Relays, Leading(q), q # r, NEW m \in UnitSent(r, n)
          PROVE  work[q][m] = "none"
      BY <2>1, <2>2, <2>3, TasksExclude DEF Leading, FreshInv
    <2>4. \A q \in Relays : \A m \in Seqs : work'[q][m] # "none" => work'[q][m] = work[q][m]
      BY <2>1 DEF Move, TypeOK
    <2>5. ASSUME NEW q \in Relays, NEW m \in Seqs, Leading(q),
                 work'[q][m] \in {"todo", "air", "failing"}
          PROVE  m \notin UnitSent(r, n) /\ work[q][m] \in {"todo", "air", "failing"}
      BY <2>2, <2>3, <2>4, <2>5
    <2>6. ClaimIsFresh'
      BY <1>2, <1>3, <2>1, <2>5, FreshKept DEF FreshInv
    <2>7. QED
      BY <2>1, <2>6
  <1>7. QED
    BY <1>1, <1>4, <1>5, <1>6

LEMMA FreshNext ==
    ASSUME TypeOK, TxnsOwnRows, LockInv, FreshInv, ~QueryErrors, [Next]_vars
    PROVE  ClaimIsFresh'
  <1>0. ASSUME UNCHANGED <<status, attempts, work, seen>>,
               \A r \in Relays : Leading(r)' => Leading(r) \/ \A n \in Seqs : work[r][n] = "none"
        PROVE  ClaimIsFresh'
    BY <1>0, FreshKept DEF FreshInv
  <1>1. ASSUME NEW r \in Relays, RunLoop(r) PROVE ClaimIsFresh'
    <2>1. CASE AcquireLeadership(r)
      BY <1>0, <2>1 DEF AcquireLeadership, table, Leading, FreshInv, TasksInPass, TypeOK
    <2>2. CASE Claim(r)
      <3>0. \A n \in Seqs : work[r][n] = "none"
        BY <2>2 DEF Claim, FreshInv, TasksInPass
      <3>1. /\ UNCHANGED <<status, attempts, link>>
            /\ \A q \in Relays \ {r} : pc'[q] = pc[q] /\ work'[q] = work[q] /\ seen'[q] = seen[q]
        BY <2>2 DEF Claim, Move, table, TypeOK
      <3>2. \A n \in Seqs : work'[r][n] # "none" => n \in Claimed(r) /\ seen'[r][n] = attempts[n]
        BY <2>2, <3>0 DEF Claim, Move, TypeOK
      <3>3. \A n \in Claimed(r) : status[n] = "pending"
        BY DEF Claimed, Claimable
      <3>4. QED
        BY <3>1, <3>2, <3>3 DEF FreshInv, ClaimIsFresh, Leading
    <2>3. CASE FinishPass(r)
      BY <2>3, FreshKept DEF FinishPass, table, Leading, Idle, FreshInv, TypeOK
    <2>4. CASE StoreLost(r) \/ Close(r)
      BY <1>0, <2>4 DEF StoreLost, Close, table, Leading, TypeOK
    <2>5. CASE Exit(r)
      BY <2>5, FreshKept DEF Exit, ProcessEnds, table, Leading, Idle, FreshInv, TypeOK
    <2>6. CASE Restart(r)
      BY <1>0, <2>6 DEF Restart, table, Leading, TypeOK
    <2>7. QED
      BY <1>1, <2>1, <2>2, <2>3, <2>4, <2>5, <2>6 DEF RunLoop
  <1>2. ASSUME NEW r \in Relays, Disruption(r) PROVE ClaimIsFresh'
    <2>1. ~QueryFails(r) /\ \A n \in Seqs : ~TaskQueryFails(r, n)
      BY DEF QueryFails, TaskQueryFails
    <2>2. CASE Stop(r) \/ LinkDown(r)
      BY <1>0, <2>2 DEF Stop, LinkDown, table, Leading, TypeOK
    <2>3. CASE Cancel(r)
      BY <2>3, FreshKept DEF Cancel, Move, At, table, Leading, FreshInv, TypeOK
    <2>4. CASE Crash(r)
      BY <2>4, FreshKept DEF Crash, ProcessEnds, table, Leading, Idle, FreshInv, TypeOK
    <2>5. QED
      BY <1>2, <2>1, <2>2, <2>3, <2>4 DEF Disruption
  <1>3. ASSUME NEW n \in Seqs, Land(n) \/ OperatorReset(n) PROVE ClaimIsFresh'
    BY <1>3, FreshKept
       DEF Land, OperatorReset, table, relay, Leading, FreshInv, ClaimIsFresh, TypeOK
  <1>4. ASSUME NEW S \in SUBSET Seqs, Sweep(S) PROVE ClaimIsFresh'
    BY <1>4, FreshKept DEF Sweep, Sweepable, relay, Leading, FreshInv, ClaimIsFresh
  <1>5. ASSUME NEW r \in Relays, ServerReapsSession(r) PROVE ClaimIsFresh'
    BY <1>0, <1>5 DEF ServerReapsSession, table, relay, Leading
  <1>6. CASE UNCHANGED vars
    BY <1>0, <1>6 DEF vars, table, relay, Leading
  <1>7. QED
    BY <1>1, <1>2, <1>3, <1>4, <1>5, <1>6, WriterFresh, PublishKeyFresh DEF Next, FreshInv

LEMMA FreshInvariant == ASSUME ~QueryErrors PROVE Spec => []FreshInv
  <1>1. Init => FreshInv
    BY DEF Init, FreshInv, TasksInPass, ClaimIsFresh, Idle, Leading
  <1>2. TypeOK /\ OrderInv /\ LockInv /\ FreshInv /\ [Next]_vars => FreshInv'
    BY TasksNext, FreshNext DEF FreshInv, OrderInv
  <1>3. QED
    BY <1>1, <1>2, TypeCorrect, OrderInvariant, LockInvariant, PTL DEF Spec

\* As long as a failing statement ends the connection it failed on, a leader's
\* claim is never stale: the rows it works on are pending, with the attempts it
\* has read, whatever relays that lost their lock still do.
THEOREM ClaimIsFreshTheorem == ASSUME ~QueryErrors PROVE Spec => []ClaimIsFresh
  <1>1. FreshInv => ClaimIsFresh
    BY DEF FreshInv
  <1>2. QED
    BY <1>1, FreshInvariant, PTL

LEMMA PublishedStays ==
    ASSUME TypeOK, OrderInv, LockInv, FreshInv, [Next]_vars,
           ~QueryErrors, NEW n \in Seqs, status[n] = "published"
    PROVE  status'[n] \in {"published", "swept"}
  <1>1. CASE WriterNext
    BY <1>1, WriterFresh DEF OrderInv, FreshInv, InTable
  <1>2. ASSUME NEW r \in Relays, RunLoop(r) PROVE status' = status
    BY <1>2 DEF RunLoop, AcquireLeadership, Claim, FinishPass, StoreLost, Close, Exit, Restart,
                ProcessEnds, table
  <1>3. ASSUME NEW r \in Relays, Disruption(r) PROVE status' = status
    BY <1>3 DEF Disruption, QueryFails, TaskQueryFails, Stop, Cancel, Crash, LinkDown,
                ProcessEnds, table
  <1>4. ASSUME NEW m \in Seqs, Land(m) \/ OperatorReset(m) PROVE status'[n] = status[n]
    BY <1>4 DEF Land, OperatorReset, table, TypeOK
  <1>5. ASSUME NEW S \in SUBSET Seqs, Sweep(S) PROVE status'[n] \in {"published", "swept"}
    BY <1>5 DEF Sweep
  <1>6. QED
    BY <1>1, <1>2, <1>3, <1>4, <1>5, PublishKeyFresh DEF Next, ServerReapsSession, table, vars

\* Under the same condition a published row stays published until it is swept.
\* Without it the row may become failed: the code's own counterexample is a run.
THEOREM PublishedIsFinalTheorem == ASSUME ~QueryErrors PROVE Spec => PublishedIsFinal
  <1>1. TypeOK /\ OrderInv /\ LockInv /\ FreshInv /\ [Next]_vars =>
            [\A n \in Seqs : status[n] = "published" => status'[n] \in {"published", "swept"}]_vars
    BY PublishedStays
  <1>2. QED
    BY <1>1, TypeCorrect, OrderInvariant, LockInvariant, FreshInvariant, PTL
       DEF Spec, PublishedIsFinal

=============================================================================
