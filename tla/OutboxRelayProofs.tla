------------------------- MODULE OutboxRelayProofs -------------------------
(***************************************************************************)
(* Theorems about OutboxRelay: any number of relays, writers, keys, rows,  *)
(* failures; any batch size; strict or sharded; with or without statements *)
(* that fail on a live connection.                                         *)
(***************************************************************************)
EXTENDS OutboxRelay, FiniteSetTheorems, TLAPS

\* Moving rows of one relay to another stage keeps work a function of its type.
LEMMA MoveType ==
    ASSUME TypeOK, NEW r \in Relays, NEW S \in SUBSET Seqs, NEW stage \in Stages
    PROVE  Move(r, S, stage) \in [Relays -> [Seqs -> Stages]]
  BY DEF Move, TypeOK

-----------------------------------------------------------------------------
(* Type correctness                                                        *)

LEMMA InitType == Init => TypeOK
  BY BoundsAssumption
     DEF Init, TypeOK, Idle, Unread, AllKeys, Seqs, Statuses, InTable, Phases, Stages

LEMMA WriterType == ASSUME TypeOK, WriterNext PROVE TypeOK'
  <1>1. ASSUME NEW w \in Writers, NEW k \in AllKeys, Enqueue(w, k) PROVE TypeOK'
    BY <1>1, BoundsAssumption DEF Enqueue, TypeOK, relay, topic, Seqs, Statuses
  <1>2. ASSUME NEW w \in Writers, Commit(w) PROVE TypeOK'
    BY <1>2, BoundsAssumption DEF Commit, MustPrecede, TypeOK, relay, topic, Statuses, InTable
  <1>3. ASSUME NEW w \in Writers, Rollback(w) PROVE TypeOK'
    BY <1>3, BoundsAssumption DEF Rollback, TypeOK, relay, topic, Statuses
  <1>4. QED
    BY <1>1, <1>2, <1>3 DEF WriterNext

LEMMA PublishKeyType == ASSUME TypeOK, NEW r \in Relays, PublishKey(r) PROVE TypeOK'
  <1> PICK n \in Seqs : \/ Send(r, n)
                        \/ Acked(r, n)
                        \/ SendFailed(r, n)
                        \/ RecordFailure(r, n)
                        \/ RecordFailureOfSwept(r, n)
                        \/ MarkPublished(r, n)
                        \/ StoreCallFails(r, n)
    BY DEF PublishKey
  <1>0. /\ \A stage \in Stages : Move(r, {n}, stage) \in [Relays -> [Seqs -> Stages]]
        /\ Move(r, UnitSent(r, n), "none") \in [Relays -> [Seqs -> Stages]]
    <2>1. UnitSent(r, n) \in SUBSET Seqs
      BY DEF UnitSent, At
    <2>2. QED
      BY <2>1, MoveType DEF Stages
  <1>1. CASE Send(r, n)
    BY <1>0, <1>1 DEF Send, TypeOK, table, topic, Stages
  <1>2. CASE Acked(r, n)
    BY <1>0, <1>2 DEF Acked, TypeOK, table, Stages
  <1>3. CASE SendFailed(r, n)
    <2>1. work' \in [Relays -> [Seqs -> Stages]]
      BY <1>3 DEF SendFailed, TypeOK, Stages
    <2>2. limbo' \subseteq Seqs
      BY <1>3 DEF SendFailed, Adrift, TypeOK
    <2>3. QED
      BY <1>3, <2>1, <2>2 DEF SendFailed, TypeOK, table
  <1>4. CASE RecordFailure(r, n)
    <2>1. status' \in [Seqs -> Statuses] /\ attempts' \in [Seqs -> Nat]
      BY <1>4 DEF RecordFailure, AfterFailure, TypeOK, Statuses, InTable
    <2>2. QED
      BY <1>0, <1>4, <2>1 DEF RecordFailure, TypeOK, topic, Stages
  <1>5. CASE RecordFailureOfSwept(r, n)
    BY <1>0, <1>5 DEF RecordFailureOfSwept, TypeOK, table, topic, Stages, Phases
  <1>6. CASE MarkPublished(r, n)
    <2>1. status' \in [Seqs -> Statuses]
      BY <1>6 DEF MarkPublished, TypeOK, Statuses, InTable
    <2>2. QED
      BY <1>0, <1>6, <2>1 DEF MarkPublished, TypeOK, topic
  <1>7. CASE StoreCallFails(r, n)
    BY <1>0, <1>7 DEF StoreCallFails, TypeOK, table, topic, Stages
  <1>8. QED
    BY <1>1, <1>2, <1>3, <1>4, <1>5, <1>6, <1>7

LEMMA ProcessEndsType ==
    ASSUME TypeOK, NEW r \in Relays, ProcessEnds(r), disruptions' \in 0..MaxDisruptions
    PROVE  TypeOK'
  <1>1. work' \in [Relays -> [Seqs -> Stages]] /\ seen' \in [Relays -> [Seqs -> Nat]]
    BY DEF ProcessEnds, TypeOK, Idle, Unread, Stages
  <1>2. limbo' \subseteq Seqs
    BY DEF ProcessEnds, Adrift, At, TypeOK
  <1>3. QED
    BY <1>1, <1>2 DEF ProcessEnds, TypeOK, table, Phases

LEMMA RunLoopType == ASSUME TypeOK, NEW r \in Relays, RunLoop(r) PROVE TypeOK'
  <1>1. CASE AcquireLeadership(r)
    BY <1>1 DEF AcquireLeadership, TypeOK, table, topic, Phases
  <1>2. CASE Claim(r)
    <2>1. Claimed(r) \in SUBSET Seqs
      BY DEF Claimed, Claimable
    <2>2. work' \in [Relays -> [Seqs -> Stages]]
      BY <1>2, <2>1, MoveType DEF Claim, Stages
    <2>3. seen' \in [Relays -> [Seqs -> Nat]]
      BY <1>2 DEF Claim, TypeOK
    <2>4. QED
      BY <1>2, <2>2, <2>3 DEF Claim, TypeOK, table, topic, Phases
  <1>3. CASE FinishPass(r)
    BY <1>3 DEF FinishPass, TypeOK, table, topic, Phases, Unread
  <1>4. CASE StoreLost(r)
    BY <1>4 DEF StoreLost, TypeOK, table, topic, Phases
  <1>5. CASE Close(r)
    BY <1>5 DEF Close, TypeOK, table, topic, Phases
  <1>6. CASE Exit(r)
    BY <1>6, ProcessEndsType DEF Exit, TypeOK
  <1>7. CASE Restart(r)
    BY <1>7 DEF Restart, TypeOK, table, topic, Phases
  <1>8. QED
    BY <1>1, <1>2, <1>3, <1>4, <1>5, <1>6, <1>7 DEF RunLoop

LEMMA DisruptionType == ASSUME TypeOK, NEW r \in Relays, Disruption(r) PROVE TypeOK'
  <1>0. ASSUME Disrupt PROVE disruptions' \in 0..MaxDisruptions
    BY <1>0, BoundsAssumption DEF Disrupt, TypeOK
  <1>1. CASE QueryFails(r)
    BY <1>0, <1>1 DEF QueryFails, TypeOK, table, topic, Phases
  <1>2. ASSUME NEW n \in Seqs, TaskQueryFails(r, n) PROVE TypeOK'
    <2>1. UnitSent(r, n) \in SUBSET Seqs
      BY DEF UnitSent, At
    <2>2. work' \in [Relays -> [Seqs -> Stages]]
      BY <1>2, <2>1, MoveType DEF TaskQueryFails, Stages
    <2>3. QED
      BY <1>0, <1>2, <2>2 DEF TaskQueryFails, TypeOK, table, topic, Phases
  <1>3. CASE Stop(r)
    BY <1>0, <1>3 DEF Stop, TypeOK, table, topic, Phases
  <1>4. CASE Cancel(r)
    <2>1. work' \in [Relays -> [Seqs -> Stages]]
      BY <1>4, MoveType DEF Cancel, Stages
    <2>2. limbo' \subseteq Seqs
      BY <1>4 DEF Cancel, Adrift, At, TypeOK
    <2>3. sessionLocks' \subseteq Relays
      BY <1>4 DEF Cancel, TypeOK
    <2>4. QED
      BY <1>0, <1>4, <2>1, <2>2, <2>3 DEF Cancel, TypeOK, table, Phases
  <1>5. CASE Crash(r)
    BY <1>0, <1>5, ProcessEndsType DEF Crash
  <1>6. CASE LinkDown(r)
    BY <1>0, <1>6 DEF LinkDown, TypeOK, table, topic
  <1>7. QED
    BY <1>1, <1>2, <1>3, <1>4, <1>5, <1>6 DEF Disruption

LEMMA NextType == TypeOK /\ [Next]_vars => TypeOK'
  <1> SUFFICES ASSUME TypeOK, [Next]_vars PROVE TypeOK'
    OBVIOUS
  <1>1. CASE WriterNext
    BY <1>1, WriterType
  <1>2. ASSUME NEW r \in Relays,
               PublishKey(r) \/ RunLoop(r) \/ ServerReapsSession(r) \/ Disruption(r)
        PROVE TypeOK'
    <2>1. CASE ServerReapsSession(r)
      BY <2>1 DEF ServerReapsSession, TypeOK, table, relay, topic
    <2>2. QED
      BY <1>2, <2>1, PublishKeyType, RunLoopType, DisruptionType
  <1>3. ASSUME NEW n \in Seqs, Land(n) PROVE TypeOK'
    BY <1>3 DEF Land, TypeOK, table, relay
  <1>4. ASSUME NEW n \in Seqs, OperatorReset(n) PROVE TypeOK'
    BY <1>4, BoundsAssumption DEF OperatorReset, TypeOK, relay, topic, Statuses, InTable
  <1>5. ASSUME NEW S \in SUBSET Seqs, Sweep(S) PROVE TypeOK'
    BY <1>5 DEF Sweep, TypeOK, relay, topic, Statuses
  <1>6. CASE UNCHANGED vars
    BY <1>6 DEF vars, table, relay, topic, TypeOK
  <1>7. QED
    BY <1>1, <1>2, <1>3, <1>4, <1>5, <1>6 DEF Next

\* Every variable of OutboxRelay keeps its type.
THEOREM TypeCorrect == Spec => []TypeOK
  BY InitType, NextType, PTL DEF Spec

-----------------------------------------------------------------------------
(* Order and no loss                                                       *)
(*                                                                         *)
(* KeyOrder and NothingLost say what must be on the topic; OrderInv adds   *)
(* what is on its way there (InFlightInOrder), what waits in a task        *)
(* (QueueInOrder) and what a task is about to mark (SentIsDelivered).  No  *)
(* part of it mentions the advisory lock: a stale relay repeats records,   *)
(* it neither loses nor overtakes any.                                     *)

\* Rows that stay committed may change status, tasks may drop rows, as long as a
\* task that keeps a waiting row keeps all its waiting and unacknowledged rows.
QuietStep ==
    /\ UNCHANGED <<nextSeq, txn, key, ahead, delivered>>
    /\ \A n \in Seqs :
          \/ status'[n] = status[n]
          \/ /\ Committed(n)
             /\ status'[n] \in InTable \cup {"swept"}
             /\ status'[n] \in {"published", "swept"} => n \in delivered
    /\ \A n \in limbo' : n \in limbo \/ \E r \in Relays : work[r][n] = "air"
    /\ \A r \in Relays : \A n \in Seqs :
          /\ work'[r][n] # "none" => work'[r][n] = work[r][n]
          /\ work'[r][n] = "todo" =>
                \A m \in Seqs : work[r][m] \in {"todo", "air"} => work'[r][m] = work[r][m]

\* A quiet step keeps the invariant.
LEMMA QuietOrder == ASSUME TypeOK, TypeOK', OrderInv, QuietStep PROVE OrderInv'
  <1>0. \A n \in Seqs : Committed(n)' <=> Committed(n)
    BY DEF QuietStep, Committed, TypeOK
  <1>1. TxnsOwnRows'
    <2>1. \A n \in Seqs : status[n] \in {"unused", "uncommitted"} => status'[n] = status[n]
      BY DEF QuietStep, Committed, InTable
    <2>2. \A n \in Seqs : n >= nextSeq' => status'[n] = "unused"
      BY <2>1 DEF OrderInv, TxnsOwnRows, QuietStep
    <2>3. \A w \in Writers : \A n \in txn'[w] : n \in Seqs /\ status'[n] = "uncommitted"
      BY <2>1 DEF OrderInv, TxnsOwnRows, QuietStep, TypeOK
    <2>4. QED
      BY <2>2, <2>3 DEF OrderInv, TxnsOwnRows, QuietStep
  <1>2. AheadIsOlder'
    BY <1>0 DEF OrderInv, AheadIsOlder, QuietStep, SameKey, TypeOK
  <1>3. OnlyCommitted'
    <2> SUFFICES ASSUME NEW n \in Seqs,
                        n \in delivered' \cup limbo' \/ \E r \in Relays : work'[r][n] # "none"
                 PROVE  Committed(n)'
      BY DEF OnlyCommitted
    <2>1. n \in delivered \cup limbo \/ \E r \in Relays : work[r][n] # "none"
      BY DEF QuietStep
    <2>2. QED
      BY <1>0, <2>1 DEF OrderInv, OnlyCommitted
  <1>4. NothingLost'
    BY DEF OrderInv, NothingLost, QuietStep
  <1>5. KeyOrder' /\ SentIsDelivered'
    BY DEF OrderInv, KeyOrder, SentIsDelivered, QuietStep
  <1>6. InFlightInOrder'
    <2> SUFFICES ASSUME NEW n \in Seqs, n \in limbo' \/ \E r \in Relays : work'[r][n] = "air"
                 PROVE  ahead'[n] \subseteq delivered'
      BY DEF InFlightInOrder
    <2>1. n \in limbo \/ \E r \in Relays : work[r][n] = "air"
      BY DEF QuietStep
    <2>2. ahead[n] \subseteq delivered
      BY <2>1 DEF OrderInv, InFlightInOrder
    <2>3. ahead' = ahead /\ delivered' = delivered
      BY DEF QuietStep
    <2>4. QED
      BY <2>2, <2>3
  <1>7. QueueInOrder'
    <2> SUFFICES ASSUME NEW r \in Relays, NEW n \in Seqs, work'[r][n] = "todo",
                        NEW m \in ahead[n]
                 PROVE  m \in delivered \/ work'[r][m] \in {"todo", "air"}
      BY DEF QueueInOrder, QuietStep
    <2>1. m \in Seqs
      BY DEF TypeOK
    <2>2. work[r][n] = "todo"
      BY DEF QuietStep
    <2>3. m \in delivered \/ work[r][m] \in {"todo", "air"}
      BY <2>2 DEF OrderInv, QueueInOrder
    <2>4. QED
      BY <2>1, <2>3 DEF QuietStep
  <1>8. QED
    BY <1>1, <1>2, <1>3, <1>4, <1>5, <1>6, <1>7 DEF OrderInv

\* Dropping rows that wait for nothing (failing) or were sent is a quiet step.
LEMMA DropSettled ==
    ASSUME TypeOK, NEW r \in Relays, NEW S \in SUBSET Seqs,
           \A m \in S : work[r][m] \in {"failing", "sent"},
           work' = Move(r, S, "none")
    PROVE  \A q \in Relays : \A n \in Seqs :
              /\ work'[q][n] # "none" => work'[q][n] = work[q][n]
              /\ work[q][n] \in {"todo", "air"} => work'[q][n] = work[q][n]
  BY DEF Move, TypeOK

LEMMA UnitSentIsSent ==
    ASSUME NEW r \in Relays, NEW n \in Seqs
    PROVE  UnitSent(r, n) \subseteq At(r, "sent")
  BY DEF UnitSent

LEMMA InitOrder == Init => OrderInv
  BY BoundsAssumption
     DEF Init, OrderInv, TxnsOwnRows, AheadIsOlder, OnlyCommitted, NothingLost, KeyOrder,
         SentIsDelivered, InFlightInOrder, QueueInOrder, Committed, InTable, Idle, Seqs

LEMMA WriterOrder == ASSUME TypeOK, TypeOK', OrderInv, WriterNext PROVE OrderInv'
  <1>1. ASSUME NEW w \in Writers, NEW k \in AllKeys, Enqueue(w, k) PROVE OrderInv'
    <2> DEFINE new == nextSeq
    <2>0. /\ new \in Seqs
          /\ status[new] = "unused"
          /\ \A n \in Seqs : Committed(n)' <=> Committed(n)
          /\ \A n \in Seqs \ {new} : key'[n] = key[n] /\ status'[n] = status[n]
          /\ UNCHANGED <<ahead, delivered, limbo, work>>
      BY <1>1 DEF Enqueue, TypeOK, Seqs, OrderInv, TxnsOwnRows, Committed, InTable, topic, relay
    <2>1. TxnsOwnRows'
      <3>1. \A n \in Seqs : n >= nextSeq' => status'[n] = "unused"
        BY <1>1, <2>0 DEF Enqueue, OrderInv, TxnsOwnRows, TypeOK, Seqs
      <3>2. \A v \in Writers : new \notin txn[v]
        BY <2>0 DEF OrderInv, TxnsOwnRows
      <3>3. \A v \in Writers : txn'[v] = IF v = w THEN txn[v] \cup {new} ELSE txn[v]
        BY <1>1 DEF Enqueue, TypeOK
      <3>4. status'[new] = "uncommitted"
        BY <1>1, <2>0 DEF Enqueue, TypeOK
      <3>5. \A v \in Writers : \A n \in txn'[v] : status'[n] = "uncommitted"
        BY <2>0, <3>2, <3>3, <3>4 DEF OrderInv, TxnsOwnRows, TypeOK
      <3>6. \A u, v \in Writers : u # v => txn'[u] \cap txn'[v] = {}
        <4> SUFFICES ASSUME NEW u \in Writers, NEW v \in Writers, u # v,
                            NEW n \in txn'[u], n \in txn'[v]
                     PROVE  FALSE
          OBVIOUS
        <4>1. CASE n = new
          BY <3>2, <3>3, <4>1
        <4>2. CASE n # new
          <5>1. \A x \in Writers : txn'[x] \subseteq txn[x] \cup {new}
            BY <3>3
          <5>2. n \in txn[u] /\ n \in txn[v]
            BY <5>1, <4>2
          <5>3. QED
            BY <5>2 DEF OrderInv, TxnsOwnRows
        <4>3. QED
          BY <4>1, <4>2
      <3>7. QED
        BY <3>1, <3>5, <3>6 DEF TxnsOwnRows
    <2>2. AheadIsOlder'
      <3>1. ahead[new] = {} /\ \A n \in Seqs : new \notin ahead[n]
        BY <2>0 DEF OrderInv, AheadIsOlder, Committed, InTable
      <3>2. QED
        BY <2>0, <3>1 DEF OrderInv, AheadIsOlder, SameKey, TypeOK
    <2>3. OnlyCommitted' /\ NothingLost'
      <3>1. status'[new] = "uncommitted"
        BY <1>1, <2>0 DEF Enqueue, TypeOK
      <3>2. QED
        BY <2>0, <3>1 DEF OrderInv, OnlyCommitted, NothingLost
    <2>4. KeyOrder' /\ SentIsDelivered' /\ InFlightInOrder' /\ QueueInOrder'
      BY <2>0 DEF OrderInv, KeyOrder, SentIsDelivered, InFlightInOrder, QueueInOrder
    <2>5. QED
      BY <2>1, <2>2, <2>3, <2>4 DEF OrderInv
  <1>2. ASSUME NEW w \in Writers, Commit(w) PROVE OrderInv'
    <2>0. /\ UNCHANGED <<nextSeq, key, delivered, limbo, work>>
          /\ \A n \in Seqs : status'[n] = IF n \in txn[w] THEN "pending" ELSE status[n]
          /\ \A n \in Seqs :
                ahead'[n] = IF n \in txn[w] THEN MustPrecede(n, txn[w]) ELSE ahead[n]
          /\ \A n \in txn[w] : n \in Seqs /\ status[n] = "uncommitted" /\ ~Committed(n)
      BY <1>2 DEF Commit, TypeOK, OrderInv, TxnsOwnRows, topic, relay, Committed, InTable
    <2>1. \A n \in Seqs : Committed(n)' <=> Committed(n) \/ n \in txn[w]
      BY <2>0 DEF Committed, InTable
    <2>2. \A n \in txn[w] : /\ n \notin delivered \cup limbo
                            /\ \A r \in Relays : work[r][n] = "none"
      BY <2>0 DEF OrderInv, OnlyCommitted
    <2>3. TxnsOwnRows'
      <3>1. \A v \in Writers : txn'[v] = IF v = w THEN {} ELSE txn[v]
        BY <1>2 DEF Commit, TypeOK
      <3>2. \A n \in Seqs : n >= nextSeq => n \notin txn[w]
        BY <2>0 DEF OrderInv, TxnsOwnRows
      <3>3. \A v \in Writers : \A n \in txn'[v] : status'[n] = "uncommitted"
        BY <2>0, <3>1 DEF OrderInv, TxnsOwnRows, TypeOK
      <3>4. QED
        BY <2>0, <3>1, <3>2, <3>3 DEF OrderInv, TxnsOwnRows
    <2>4. AheadIsOlder'
      <3>1. ASSUME NEW n \in Seqs, NEW m \in ahead'[n]
            PROVE  m < n /\ SameKey(m, n)' /\ Committed(m)'
        <4>1. m \in Seqs
          BY <2>0 DEF TypeOK
        <4>2. CASE n \in txn[w]
          BY <2>0, <2>1, <3>1, <4>1, <4>2 DEF MustPrecede, SameKey
        <4>3. CASE n \notin txn[w]
          BY <2>0, <2>1, <3>1, <4>1, <4>3 DEF OrderInv, AheadIsOlder, SameKey
        <4>4. QED
          BY <4>2, <4>3
      <3>2. ASSUME NEW n \in Seqs, ~Committed(n)' PROVE ahead'[n] = {}
        BY <2>0, <2>1, <3>2 DEF OrderInv, AheadIsOlder
      <3>3. QED
        BY <3>1, <3>2 DEF AheadIsOlder
    <2>5. OnlyCommitted'
      BY <2>0, <2>1 DEF OrderInv, OnlyCommitted
    <2>6. NothingLost'
      BY <2>0 DEF OrderInv, NothingLost
    <2>7. KeyOrder' /\ InFlightInOrder'
      BY <2>0, <2>2 DEF OrderInv, KeyOrder, InFlightInOrder, TypeOK
    <2>8. SentIsDelivered' /\ QueueInOrder'
      BY <2>0, <2>2 DEF OrderInv, SentIsDelivered, QueueInOrder, TypeOK
    <2>9. QED
      BY <2>3, <2>4, <2>5, <2>6, <2>7, <2>8 DEF OrderInv
  <1>3. ASSUME NEW w \in Writers, Rollback(w) PROVE OrderInv'
    <2>0. /\ UNCHANGED <<nextSeq, key, ahead, delivered, limbo, work>>
          /\ \A n \in Seqs : status'[n] = IF n \in txn[w] THEN "aborted" ELSE status[n]
          /\ \A n \in txn[w] : n \in Seqs /\ status[n] = "uncommitted"
          /\ \A v \in Writers : txn'[v] = IF v = w THEN {} ELSE txn[v]
      BY <1>3 DEF Rollback, TypeOK, OrderInv, TxnsOwnRows, topic, relay
    <2>1. \A n \in Seqs : Committed(n)' <=> Committed(n)
      BY <2>0 DEF Committed, InTable
    <2>2. TxnsOwnRows'
      <3>1. \A v \in Writers : \A n \in txn'[v] : status'[n] = "uncommitted"
        BY <2>0 DEF OrderInv, TxnsOwnRows, TypeOK
      <3>2. QED
        BY <2>0, <3>1 DEF OrderInv, TxnsOwnRows
    <2>3. AheadIsOlder' /\ OnlyCommitted' /\ NothingLost'
      BY <2>0, <2>1 DEF OrderInv, AheadIsOlder, OnlyCommitted, NothingLost, SameKey, TypeOK
    <2>4. KeyOrder' /\ SentIsDelivered' /\ InFlightInOrder' /\ QueueInOrder'
      BY <2>0 DEF OrderInv, KeyOrder, SentIsDelivered, InFlightInOrder, QueueInOrder
    <2>5. QED
      BY <2>2, <2>3, <2>4 DEF OrderInv
  <1>4. QED
    BY <1>1, <1>2, <1>3 DEF WriterNext

\* Cardinality is monotone, so the claim is a prefix of what is claimable.
LEMMA ClaimIsPrefix ==
    ASSUME NEW r \in Relays, NEW n \in Claimed(r), NEW m \in Claimable(r), m < n
    PROVE  m \in Claimed(r)
  <1> DEFINE Below(k) == {x \in Claimable(r) : x < k}
  <1>0. \A k \in Seqs : Below(k) \subseteq Seqs
    BY DEF Claimable
  <1>1. IsFiniteSet(Seqs)
    BY FS_Interval, BoundsAssumption DEF Seqs
  <1>2. n \in Seqs /\ m \in Seqs /\ Seqs \subseteq Int
    BY DEF Claimed, Claimable, Seqs
  <1>3. Below(m) \subseteq Below(n)
    <2> SUFFICES ASSUME NEW x \in Claimable(r), x < m PROVE x < n
      OBVIOUS
    <2>1. x \in Int
      BY <1>2 DEF Claimable
    <2>2. QED
      BY <1>2, <2>1
  <1>4. IsFiniteSet(Below(n)) /\ IsFiniteSet(Below(m))
    BY <1>0, <1>1, <1>2, FS_Subset
  <1>5. Cardinality(Below(m)) <= Cardinality(Below(n))
    BY <1>3, <1>4, FS_Subset
  <1>6. Cardinality(Below(m)) \in Nat /\ Cardinality(Below(n)) \in Nat
    BY <1>4, FS_CardinalityType
  <1>7. Cardinality(Below(n)) < BatchSize
    BY DEF Claimed
  <1>8. Cardinality(Below(m)) < BatchSize
    BY <1>5, <1>6, <1>7, BoundsAssumption
  <1>9. QED
    BY <1>8 DEF Claimed

\* What must precede a claimed row is delivered or claimed with it.
LEMMA ClaimOrder ==
    ASSUME TypeOK, OrderInv, NEW r \in Relays, NEW n \in Claimed(r), NEW m \in ahead[n]
    PROVE  m \in delivered \/ m \in Claimed(r)
  <1>1. n \in Seqs /\ n \in Claimable(r) /\ m \in Seqs
    BY DEF Claimed, Claimable, TypeOK
  <1>2. m < n /\ SameKey(m, n) /\ Committed(m)
    BY <1>1 DEF OrderInv, AheadIsOlder
  <1>3. CASE status[m] = "pending"
    <2>1. m \in Claimable(r)
      BY <1>1, <1>2, <1>3 DEF Claimable, SameKey
    <2>2. QED
      BY <1>2, <2>1, ClaimIsPrefix
  <1>4. CASE status[m] = "failed"
    BY <1>1, <1>2, <1>4 DEF Claimable, Blocked, SameKey
  <1>5. CASE status[m] \in {"published", "swept"}
    BY <1>1, <1>5 DEF OrderInv, NothingLost
  <1>6. QED
    BY <1>2, <1>3, <1>4, <1>5 DEF Committed, InTable

LEMMA ClaimStep ==
    ASSUME TypeOK, TypeOK', OrderInv, NEW r \in Relays, Claim(r)
    PROVE  OrderInv'
  <1>0. /\ UNCHANGED <<nextSeq, txn, status, key, ahead, delivered, limbo>>
        /\ \A q \in Relays : \A n \in Seqs :
              work'[q][n] = IF q = r /\ n \in Claimed(r) THEN "todo" ELSE work[q][n]
    BY DEF Claim, Move, table, topic, TypeOK
  <1>1. TxnsOwnRows' /\ AheadIsOlder' /\ NothingLost' /\ KeyOrder'
    BY <1>0 DEF OrderInv, TxnsOwnRows, AheadIsOlder, NothingLost, KeyOrder, SameKey, Committed
  <1>2. OnlyCommitted'
    <2>1. \A n \in Claimed(r) : Committed(n)
      BY DEF Claimed, Claimable, Committed, InTable
    <2>2. QED
      BY <1>0, <2>1 DEF OrderInv, OnlyCommitted, Committed
  <1>3. SentIsDelivered' /\ InFlightInOrder'
    BY <1>0 DEF OrderInv, SentIsDelivered, InFlightInOrder
  <1>4. QueueInOrder'
    <2> SUFFICES ASSUME NEW q \in Relays, NEW n \in Seqs, work'[q][n] = "todo",
                        NEW m \in ahead[n]
                 PROVE  m \in delivered \/ work'[q][m] \in {"todo", "air"}
      BY <1>0 DEF QueueInOrder
    <2>0. m \in Seqs
      BY DEF TypeOK
    <2>1. CASE q = r /\ n \in Claimed(r)
      BY <1>0, <2>0, <2>1, ClaimOrder
    <2>2. CASE ~(q = r /\ n \in Claimed(r))
      <3>1. m \in delivered \/ work[q][m] \in {"todo", "air"}
        BY <1>0, <2>2 DEF OrderInv, QueueInOrder
      <3>2. QED
        BY <1>0, <2>0, <3>1
    <2>3. QED
      BY <2>1, <2>2
  <1>5. QED
    BY <1>1, <1>2, <1>3, <1>4 DEF OrderInv

\* Nothing that must precede the unit's next row is still waiting or in flight.
LEMMA SendStep ==
    ASSUME TypeOK, TypeOK', OrderInv, NEW r \in Relays, NEW n \in Seqs, Send(r, n)
    PROVE  OrderInv'
  <1>0. /\ UNCHANGED <<nextSeq, txn, status, key, ahead, delivered, limbo>>
        /\ work[r][n] = "todo"
        /\ \A q \in Relays : \A m \in Seqs :
              work'[q][m] = IF q = r /\ m = n THEN "air" ELSE work[q][m]
    BY DEF Send, At, Move, table, topic, TypeOK
  <1>1. ahead[n] \subseteq delivered
    <2> SUFFICES ASSUME NEW m \in ahead[n], m \notin delivered PROVE FALSE
      OBVIOUS
    <2>1. m \in Seqs /\ m < n /\ m \in Unit(n)
      BY DEF TypeOK, OrderInv, AheadIsOlder, Unit
    <2>2. work[r][m] \in {"todo", "air"}
      BY <1>0 DEF OrderInv, QueueInOrder
    <2>3. CASE work[r][m] = "todo"
      <3>1. n <= m
        BY <2>1, <2>3 DEF Send, At
      <3>2. QED
        BY <2>1, <3>1 DEF Seqs
    <2>4. CASE work[r][m] = "air"
      BY <2>1, <2>4 DEF Send, Sending, At
    <2>5. QED
      BY <2>2, <2>3, <2>4
  <1>2. TxnsOwnRows' /\ AheadIsOlder' /\ NothingLost' /\ KeyOrder'
    BY <1>0 DEF OrderInv, TxnsOwnRows, AheadIsOlder, NothingLost, KeyOrder, SameKey, Committed
  <1>3. OnlyCommitted'
    BY <1>0 DEF OrderInv, OnlyCommitted, Committed
  <1>4. SentIsDelivered' /\ InFlightInOrder'
    BY <1>0, <1>1 DEF OrderInv, SentIsDelivered, InFlightInOrder
  <1>5. QueueInOrder'
    <2> SUFFICES ASSUME NEW q \in Relays, NEW m \in Seqs, work'[q][m] = "todo",
                        NEW l \in ahead[m]
                 PROVE  l \in delivered \/ work'[q][l] \in {"todo", "air"}
      BY <1>0 DEF QueueInOrder
    <2>1. l \in Seqs /\ work[q][m] = "todo"
      BY <1>0 DEF TypeOK
    <2>2. l \in delivered \/ work[q][l] \in {"todo", "air"}
      BY <2>1 DEF OrderInv, QueueInOrder
    <2>3. QED
      BY <1>0, <2>1, <2>2
  <1>6. QED
    BY <1>2, <1>3, <1>4, <1>5 DEF OrderInv

\* A record that reaches the topic comes after those that must precede it.
LEMMA DeliveryStep ==
    ASSUME TypeOK, TypeOK', OrderInv, NEW n \in Seqs,
           n \in limbo \/ \E r \in Relays : work[r][n] = "air",
           UNCHANGED <<nextSeq, txn, status, key, ahead>>,
           delivered' = delivered \cup {n},
           limbo' \subseteq limbo,
           \A r \in Relays : \A m \in Seqs :
              \/ work'[r][m] = work[r][m]
              \/ m = n /\ work[r][m] = "air" /\ work'[r][m] = "sent"
    PROVE  OrderInv'
  <1>1. ahead[n] \subseteq delivered
    BY DEF OrderInv, InFlightInOrder
  <1>2. TxnsOwnRows' /\ AheadIsOlder' /\ NothingLost'
    BY DEF OrderInv, TxnsOwnRows, AheadIsOlder, NothingLost, SameKey, Committed
  <1>3. KeyOrder'
    BY <1>1 DEF OrderInv, KeyOrder
  <1>4. OnlyCommitted'
    <2>1. \A m \in Seqs : /\ m \in limbo' => m \in limbo
                         /\ \A r \in Relays : work'[r][m] # "none" => work[r][m] # "none"
      OBVIOUS
    <2>2. QED
      BY <2>1 DEF OrderInv, OnlyCommitted, Committed
  <1>5. SentIsDelivered' /\ InFlightInOrder'
    BY DEF OrderInv, SentIsDelivered, InFlightInOrder
  <1>6. QueueInOrder'
    <2> SUFFICES ASSUME NEW r \in Relays, NEW m \in Seqs, work'[r][m] = "todo",
                        NEW l \in ahead[m]
                 PROVE  l \in delivered' \/ work'[r][l] \in {"todo", "air"}
      BY DEF QueueInOrder
    <2>1. l \in Seqs /\ work[r][m] = "todo"
      BY DEF TypeOK
    <2>2. l \in delivered \/ work[r][l] \in {"todo", "air"}
      BY <2>1 DEF OrderInv, QueueInOrder
    <2>3. QED
      BY <2>1, <2>2
  <1>7. QED
    BY <1>2, <1>3, <1>4, <1>5, <1>6 DEF OrderInv

\* A failed send drops every row of its unit that waits behind it.
LEMMA SendFailedStep ==
    ASSUME TypeOK, TypeOK', OrderInv, NEW r \in Relays, NEW n \in Seqs, SendFailed(r, n)
    PROVE  OrderInv'
  <1>0. /\ UNCHANGED <<nextSeq, txn, status, key, ahead, delivered>>
        /\ limbo' \subseteq limbo \cup {n}
        /\ work[r][n] = "air"
        /\ \A q \in Relays : \A m \in Seqs :
              work'[q][m] = IF q = r /\ m = n THEN "failing"
                            ELSE IF q = r /\ m \in Unit(n) /\ work[q][m] = "todo" THEN "none"
                            ELSE work[q][m]
    BY DEF SendFailed, Behind, At, Adrift, table, TypeOK
  <1>1. TxnsOwnRows' /\ AheadIsOlder' /\ NothingLost' /\ KeyOrder'
    BY <1>0 DEF OrderInv, TxnsOwnRows, AheadIsOlder, NothingLost, KeyOrder, SameKey, Committed
  <1>2. OnlyCommitted'
    <2>1. \A m \in Seqs : m \in limbo' \/ (\E q \in Relays : work'[q][m] # "none")
            => m \in limbo \/ \E q \in Relays : work[q][m] # "none"
      BY <1>0
    <2>2. QED
      BY <1>0, <2>1 DEF OrderInv, OnlyCommitted, Committed
  <1>3. SentIsDelivered' /\ InFlightInOrder'
    BY <1>0 DEF OrderInv, SentIsDelivered, InFlightInOrder
  <1>4. QueueInOrder'
    <2> SUFFICES ASSUME NEW q \in Relays, NEW m \in Seqs, work'[q][m] = "todo",
                        NEW l \in ahead[m]
                 PROVE  l \in delivered \/ work'[q][l] \in {"todo", "air"}
      BY <1>0 DEF QueueInOrder
    <2>1. l \in Seqs /\ work[q][m] = "todo" /\ (q = r => m \notin Unit(n))
      BY <1>0 DEF TypeOK
    <2>2. l \in delivered \/ work[q][l] \in {"todo", "air"}
      BY <2>1 DEF OrderInv, QueueInOrder
    <2>3. SameKey(l, m)
      BY DEF OrderInv, AheadIsOlder
    <2>4. q = r => l \notin Unit(n)
      BY <2>1, <2>3 DEF Unit, SameKey
    <2>5. n \in Unit(n)
      BY DEF Unit
    <2>6. QED
      BY <1>0, <2>1, <2>2, <2>4, <2>5
  <1>5. QED
    BY <1>1, <1>2, <1>3, <1>4 DEF OrderInv

LEMMA PublishKeyOrder ==
    ASSUME TypeOK, TypeOK', OrderInv, NEW r \in Relays, PublishKey(r)
    PROVE  OrderInv'
  <1> PICK n \in Seqs : \/ Send(r, n)
                        \/ Acked(r, n)
                        \/ SendFailed(r, n)
                        \/ RecordFailure(r, n)
                        \/ RecordFailureOfSwept(r, n)
                        \/ MarkPublished(r, n)
                        \/ StoreCallFails(r, n)
    BY DEF PublishKey
  <1>0. UnitSent(r, n) \in SUBSET Seqs /\ \A m \in UnitSent(r, n) : work[r][m] = "sent"
    BY UnitSentIsSent DEF At
  <1>1. CASE Send(r, n)
    BY <1>1, SendStep
  <1>2. CASE Acked(r, n)
    <2>1. /\ UNCHANGED <<nextSeq, txn, status, key, ahead, limbo>>
          /\ work[r][n] = "air"
          /\ delivered' = delivered \cup {n}
          /\ \A q \in Relays : \A m \in Seqs :
                \/ work'[q][m] = work[q][m]
                \/ m = n /\ work[q][m] = "air" /\ work'[q][m] = "sent"
      BY <1>2 DEF Acked, At, Move, table, TypeOK
    <2>2. QED
      BY <2>1, DeliveryStep
  <1>3. CASE SendFailed(r, n)
    BY <1>3, SendFailedStep
  <1>4. CASE RecordFailure(r, n)
    <2>1. \A q \in Relays : \A m \in Seqs :
             /\ work'[q][m] # "none" => work'[q][m] = work[q][m]
             /\ work[q][m] \in {"todo", "air"} => work'[q][m] = work[q][m]
      <3>1. work[r][n] = "failing" /\ work' = Move(r, {n}, "none")
        BY <1>4 DEF RecordFailure, At
      <3>2. QED
        BY <3>1, DropSettled
    <2>2. Committed(n) /\ status[n] # "swept"
      BY <1>4 DEF RecordFailure, At, OrderInv, OnlyCommitted
    <2>3. \A m \in Seqs : status'[m] = status[m] \/ (m = n /\ status'[m] = "failed")
      <3>1. status' = [status EXCEPT ![n] = AfterFailure(r, n)]
        BY <1>4 DEF RecordFailure
      <3>2. AfterFailure(r, n) \in {"failed", status[n]}
        BY DEF AfterFailure
      <3>3. QED
        BY <3>1, <3>2 DEF TypeOK
    <2>4. UNCHANGED <<nextSeq, txn, key, ahead, delivered, limbo>>
      BY <1>4 DEF RecordFailure, topic
    <2>5. QuietStep
      BY <2>1, <2>2, <2>3, <2>4 DEF QuietStep, InTable
    <2>6. QED
      BY <2>5, QuietOrder
  <1>5. CASE RecordFailureOfSwept(r, n)
    <2>1. \A q \in Relays : \A m \in Seqs :
             /\ work'[q][m] # "none" => work'[q][m] = work[q][m]
             /\ work[q][m] \in {"todo", "air"} => work'[q][m] = work[q][m]
      <3>1. work[r][n] = "failing" /\ work' = Move(r, {n}, "none")
        BY <1>5 DEF RecordFailureOfSwept, At
      <3>2. QED
        BY <3>1, DropSettled
    <2>2. QuietStep
      BY <1>5, <2>1 DEF RecordFailureOfSwept, QuietStep, table, topic
    <2>3. QED
      BY <2>2, QuietOrder
  <1>6. CASE MarkPublished(r, n)
    <2>1. \A q \in Relays : \A m \in Seqs :
             /\ work'[q][m] # "none" => work'[q][m] = work[q][m]
             /\ work[q][m] \in {"todo", "air"} => work'[q][m] = work[q][m]
      BY <1>0, <1>6, DropSettled DEF MarkPublished
    <2>2. \A m \in UnitSent(r, n) : m \in delivered
      BY <1>0 DEF OrderInv, SentIsDelivered
    <2>3. \A m \in Seqs :
             \/ status'[m] = status[m]
             \/ m \in UnitSent(r, n) /\ status[m] \in InTable /\ status'[m] = "published"
      BY <1>6 DEF MarkPublished
    <2>4. UNCHANGED <<nextSeq, txn, key, ahead, delivered, limbo>>
      BY <1>6 DEF MarkPublished, topic
    <2>5. QuietStep
      BY <2>1, <2>2, <2>3, <2>4 DEF QuietStep, Committed, InTable
    <2>6. QED
      BY <2>5, QuietOrder
  <1>7. CASE StoreCallFails(r, n)
    <2>1. \A q \in Relays : \A m \in Seqs :
             /\ work'[q][m] # "none" => work'[q][m] = work[q][m]
             /\ work[q][m] \in {"todo", "air"} => work'[q][m] = work[q][m]
      <3>1. CASE n \in At(r, "failing") /\ work' = Move(r, {n}, "none")
        <4>1. work[r][n] = "failing"
          BY <3>1 DEF At
        <4>2. QED
          BY <3>1, <4>1, DropSettled
      <3>2. CASE n \in UnitSent(r, n) /\ work' = Move(r, UnitSent(r, n), "none")
        BY <1>0, <3>2, DropSettled
      <3>3. QED
        BY <1>7, <3>1, <3>2 DEF StoreCallFails
    <2>2. QuietStep
      BY <1>7, <2>1 DEF StoreCallFails, QuietStep, table, topic
    <2>3. QED
      BY <2>2, QuietOrder
  <1>8. QED
    BY <1>1, <1>2, <1>3, <1>4, <1>5, <1>6, <1>7

LEMMA ProcessEndsOrder ==
    ASSUME TypeOK, TypeOK', OrderInv, NEW r \in Relays, ProcessEnds(r)
    PROVE  OrderInv'
  <1>1. \A q \in Relays : \A n \in Seqs : work'[q][n] = IF q = r THEN "none" ELSE work[q][n]
    BY DEF ProcessEnds, Idle, TypeOK
  <1>2. \A n \in limbo' : n \in limbo \/ \E q \in Relays : work[q][n] = "air"
    BY DEF ProcessEnds, Adrift, At
  <1>3. QuietStep
    BY <1>1, <1>2 DEF ProcessEnds, QuietStep, table
  <1>4. QED
    BY <1>3, QuietOrder

LEMMA RunLoopOrder ==
    ASSUME TypeOK, TypeOK', OrderInv, NEW r \in Relays, RunLoop(r)
    PROVE  OrderInv'
  <1>1. CASE UNCHANGED <<table, work, topic>>
    <2>1. QuietStep
      BY <1>1 DEF QuietStep, table, topic
    <2>2. QED
      BY <2>1, QuietOrder
  <1>2. CASE Claim(r)
    BY <1>2, ClaimStep
  <1>3. CASE Exit(r)
    BY <1>3, ProcessEndsOrder DEF Exit
  <1>4. QED
    BY <1>1, <1>2, <1>3
       DEF RunLoop, AcquireLeadership, FinishPass, StoreLost, Close, Restart

LEMMA DisruptionOrder ==
    ASSUME TypeOK, TypeOK', OrderInv, NEW r \in Relays, Disruption(r)
    PROVE  OrderInv'
  <1>1. CASE UNCHANGED <<table, work, topic>>
    <2>1. QuietStep
      BY <1>1 DEF QuietStep, table, topic
    <2>2. QED
      BY <2>1, QuietOrder
  <1>2. ASSUME NEW n \in Seqs, TaskQueryFails(r, n) PROVE OrderInv'
    <2>0. UnitSent(r, n) \in SUBSET Seqs /\ \A m \in UnitSent(r, n) : work[r][m] = "sent"
      BY UnitSentIsSent DEF At
    <2>1. \A q \in Relays : \A m \in Seqs :
             /\ work'[q][m] # "none" => work'[q][m] = work[q][m]
             /\ work[q][m] \in {"todo", "air"} => work'[q][m] = work[q][m]
      <3>1. CASE n \in At(r, "failing") /\ work' = Move(r, {n}, "none")
        <4>1. work[r][n] = "failing"
          BY <3>1 DEF At
        <4>2. QED
          BY <3>1, <4>1, DropSettled
      <3>2. CASE n \in UnitSent(r, n) /\ work' = Move(r, UnitSent(r, n), "none")
        BY <2>0, <3>2, DropSettled
      <3>3. QED
        BY <1>2, <3>1, <3>2 DEF TaskQueryFails
    <2>2. QuietStep
      BY <1>2, <2>1 DEF TaskQueryFails, QuietStep, table, topic
    <2>3. QED
      BY <2>2, QuietOrder
  <1>3. CASE Cancel(r)
    <2>1. \A q \in Relays : \A n \in Seqs :
             work'[q][n] = IF q = r /\ work[q][n] # "sent" THEN "none" ELSE work[q][n]
      BY <1>3 DEF Cancel, Move, At, TypeOK
    <2>2. \A n \in limbo' : n \in limbo \/ \E q \in Relays : work[q][n] = "air"
      BY <1>3 DEF Cancel, Adrift, At
    <2>3. UNCHANGED <<nextSeq, txn, key, ahead, delivered, status>>
      BY <1>3 DEF Cancel, table
    <2>4. ASSUME NEW q \in Relays, NEW n \in Seqs
          PROVE  /\ work'[q][n] # "none" => work'[q][n] = work[q][n]
                 /\ work'[q][n] = "todo" =>
                       \A m \in Seqs : work[q][m] \in {"todo", "air"} => work'[q][m] = work[q][m]
      <3>1. CASE q = r
        BY <2>1, <3>1
      <3>2. CASE q # r
        BY <2>1, <3>2
      <3>3. QED
        BY <3>1, <3>2
    <2>5. QuietStep
      BY <2>2, <2>3, <2>4 DEF QuietStep
    <2>6. QED
      BY <2>5, QuietOrder
  <1>4. CASE Crash(r)
    BY <1>4, ProcessEndsOrder DEF Crash
  <1>5. QED
    BY <1>1, <1>2, <1>3, <1>4 DEF Disruption, QueryFails, Stop, LinkDown

LEMMA NextOrder == TypeOK /\ TypeOK' /\ OrderInv /\ [Next]_vars => OrderInv'
  <1> SUFFICES ASSUME TypeOK, TypeOK', OrderInv, [Next]_vars PROVE OrderInv'
    OBVIOUS
  <1>1. CASE WriterNext
    BY <1>1, WriterOrder
  <1>2. ASSUME NEW r \in Relays,
               PublishKey(r) \/ RunLoop(r) \/ ServerReapsSession(r) \/ Disruption(r)
        PROVE OrderInv'
    <2>1. CASE ServerReapsSession(r)
      <3>1. QuietStep
        BY <2>1 DEF ServerReapsSession, QuietStep, table, relay, topic
      <3>2. QED
        BY <3>1, QuietOrder
    <2>2. QED
      BY <1>2, <2>1, PublishKeyOrder, RunLoopOrder, DisruptionOrder
  <1>3. ASSUME NEW n \in Seqs, Land(n) PROVE OrderInv'
    BY <1>3, DeliveryStep DEF Land, table, relay
  <1>4. ASSUME NEW n \in Seqs, OperatorReset(n) PROVE OrderInv'
    <2>1. QuietStep
      BY <1>4 DEF OperatorReset, QuietStep, relay, topic, Committed, InTable, TypeOK
    <2>2. QED
      BY <2>1, QuietOrder
  <1>5. ASSUME NEW S \in SUBSET Seqs, Sweep(S) PROVE OrderInv'
    <2>1. QuietStep
      BY <1>5 DEF Sweep, Sweepable, QuietStep, relay, topic, Committed, InTable, OrderInv, NothingLost
    <2>2. QED
      BY <2>1, QuietOrder
  <1>6. CASE UNCHANGED vars
    <2>1. QuietStep
      BY <1>6 DEF vars, table, relay, topic, QuietStep
    <2>2. QED
      BY <2>1, QuietOrder
  <1>7. QED
    BY <1>1, <1>2, <1>3, <1>4, <1>5, <1>6 DEF Next

THEOREM OrderInvariant == Spec => []OrderInv
  BY InitOrder, NextOrder, TypeCorrect, PTL DEF Spec

\* At least once, for any relays, failures and sweeps.
THEOREM NothingLostTheorem == Spec => []NothingLost
  <1>1. OrderInv => NothingLost
    BY DEF OrderInv
  <1>2. QED
    BY <1>1, OrderInvariant, PTL

\* Only committed rows are claimed, produced or delivered.
THEOREM OnlyCommittedTheorem == Spec => []OnlyCommitted
  <1>1. OrderInv => OnlyCommitted
    BY DEF OrderInv
  <1>2. QED
    BY <1>1, OrderInvariant, PTL

\* No row is first delivered before a row of its key that must precede it.
THEOREM KeyOrderTheorem == Spec => []KeyOrder
  <1>1. OrderInv => KeyOrder
    BY DEF OrderInv
  <1>2. QED
    BY <1>1, OrderInvariant, PTL

-----------------------------------------------------------------------------
(* Giving up                                                               *)

\* The attempts a claim read are not more than the row's: only an operator
\* takes attempts back.
Counted == resets = 0 => \A r \in Relays : \A n \in Seqs : seen[r][n] <= attempts[n]

LateInv == Counted /\ GivesUpLate

\* A step after which no row has fewer attempts and no more rows are failed.
LEMMA MoreAttempts ==
    ASSUME TypeOK, TypeOK', LateInv, resets' = resets,
           \A n \in Seqs : attempts[n] <= attempts'[n],
           \A n \in Seqs : status'[n] = "failed" =>
               status[n] = "failed" \/ MaxAttempts <= attempts'[n],
           \A r \in Relays : \A n \in Seqs :
               seen'[r][n] = seen[r][n] \/ seen'[r][n] <= attempts'[n]
    PROVE  LateInv'
  <1>1. ASSUME resets' = 0, NEW r \in Relays, NEW n \in Seqs PROVE seen'[r][n] <= attempts'[n]
    <2>1. /\ seen[r][n] \in Nat /\ seen'[r][n] \in Nat
          /\ attempts[n] \in Nat /\ attempts'[n] \in Nat
      BY DEF TypeOK
    <2>2. seen[r][n] <= attempts[n] /\ attempts[n] <= attempts'[n]
      BY <1>1 DEF LateInv, Counted
    <2>3. QED
      BY <2>1, <2>2
  <1>2. ASSUME resets' = 0, NEW n \in Seqs, status'[n] = "failed" PROVE MaxAttempts <= attempts'[n]
    <2>1. attempts[n] \in Nat /\ attempts'[n] \in Nat /\ MaxAttempts \in Nat
      BY BoundsAssumption DEF TypeOK
    <2>2. CASE status[n] = "failed"
      <3>1. MaxAttempts <= attempts[n] /\ attempts[n] <= attempts'[n]
        BY <1>2, <2>1, <2>2 DEF LateInv, GivesUpLate
      <3>2. QED
        BY <2>1, <3>1
    <2>3. QED
      BY <1>2, <2>2
  <1>3. Counted'
    BY <1>1 DEF Counted
  <1>4. \A n \in Seqs : attempts'[n] \in Nat
    BY DEF TypeOK
  <1>5. GivesUpLate'
    BY <1>2, <1>4, BoundsAssumption DEF GivesUpLate
  <1>6. QED
    BY <1>3, <1>5 DEF LateInv

\* ... in particular one that leaves attempts and seen alone and fails no row.
LEMMA SameAttempts ==
    ASSUME TypeOK, TypeOK', LateInv, UNCHANGED <<attempts, seen, resets>>,
           \A n \in Seqs : status'[n] = "failed" => status[n] = "failed"
    PROVE  LateInv'
  <1>1. \A n \in Seqs : attempts[n] \in Nat
    BY DEF TypeOK
  <1>2. QED
    BY <1>1, MoreAttempts

LEMMA LateNext == TypeOK /\ TypeOK' /\ LateInv /\ [Next]_vars => LateInv'
  <1> SUFFICES ASSUME TypeOK, TypeOK', LateInv, [Next]_vars PROVE LateInv'
    OBVIOUS
  <1>0. CASE UNCHANGED <<attempts, seen, status, resets>>
    BY <1>0, SameAttempts
  <1>1. CASE WriterNext
    BY <1>1, SameAttempts DEF WriterNext, Enqueue, Commit, Rollback, relay, TypeOK
  <1>2. ASSUME NEW r \in Relays, PublishKey(r) PROVE LateInv'
    <2> PICK n \in Seqs : \/ Send(r, n)
                          \/ Acked(r, n)
                          \/ SendFailed(r, n)
                          \/ RecordFailure(r, n)
                          \/ RecordFailureOfSwept(r, n)
                          \/ MarkPublished(r, n)
                          \/ StoreCallFails(r, n)
      BY <1>2 DEF PublishKey
    <2>1. CASE RecordFailure(r, n)
      <3>1. /\ attempts' = [attempts EXCEPT ![n] = @ + 1]
            /\ status' = [status EXCEPT ![n] = AfterFailure(r, n)]
            /\ seen' = seen /\ resets' = resets
        BY <2>1 DEF RecordFailure
      <3>2. \A m \in Seqs : attempts[m] \in Nat
        BY DEF TypeOK
      <3>3. attempts'[n] = attempts[n] + 1 /\ \A m \in Seqs \ {n} : attempts'[m] = attempts[m]
        BY <3>1 DEF TypeOK
      <3>4. \A m \in Seqs : attempts[m] <= attempts'[m]
        BY <3>2, <3>3
      <3>5. ASSUME NEW m \in Seqs, status'[m] = "failed", status[m] # "failed"
            PROVE  MaxAttempts <= attempts'[m] \/ resets # 0
        <4>1. m = n /\ GivesUp(r, n)
          BY <3>1, <3>5 DEF AfterFailure, TypeOK
        <4>2. seen[r][n] \in Nat /\ MaxAttempts \in Nat
          BY BoundsAssumption DEF TypeOK
        <4>3. CASE resets = 0
          <5>1. seen[r][n] <= attempts[n]
            BY <4>3 DEF LateInv, Counted
          <5>2. QED
            BY <3>2, <3>3, <4>1, <4>2, <5>1 DEF GivesUp
        <4>4. QED
          BY <4>3
      <3>6. CASE resets = 0
        BY <3>1, <3>4, <3>5, <3>6, MoreAttempts
      <3>7. CASE resets # 0
        BY <3>1, <3>7 DEF LateInv, Counted, GivesUpLate
      <3>8. QED
        BY <3>6, <3>7
    <2>2. CASE MarkPublished(r, n)
      <3>1. /\ UNCHANGED <<attempts, seen, resets>>
            /\ \A m \in Seqs : status'[m] = "failed" => status[m] = "failed"
        BY <2>2 DEF MarkPublished
      <3>2. QED
        BY <3>1, SameAttempts
    <2>3. QED
      BY <1>0, <2>1, <2>2
         DEF Send, Acked, SendFailed, RecordFailureOfSwept, StoreCallFails, table
  <1>3. ASSUME NEW r \in Relays, seen' = [seen EXCEPT ![r] = Unread],
               UNCHANGED <<attempts, status, resets>>
        PROVE  LateInv'
    <2>1. \A q \in Relays : \A n \in Seqs : seen'[q][n] = seen[q][n] \/ seen'[q][n] = 0
      BY <1>3 DEF Unread, TypeOK
    <2>2. \A n \in Seqs : attempts[n] \in Nat
      BY DEF TypeOK
    <2>3. QED
      BY <1>3, <2>1, <2>2, MoreAttempts
  <1>4. ASSUME NEW r \in Relays, Claim(r) PROVE LateInv'
    <2>1. /\ UNCHANGED <<attempts, status, resets>>
          /\ \A q \in Relays : \A n \in Seqs : seen'[q][n] \in {seen[q][n], attempts[n], 0}
      BY <1>4 DEF Claim, table, TypeOK
    <2>2. \A n \in Seqs : attempts[n] \in Nat
      BY DEF TypeOK
    <2>3. QED
      BY <2>1, <2>2, MoreAttempts
  <1>5. ASSUME NEW r \in Relays, RunLoop(r) PROVE LateInv'
    BY <1>0, <1>3, <1>4, <1>5
       DEF RunLoop, AcquireLeadership, FinishPass, StoreLost, Close, Exit, Restart,
           ProcessEnds, table
  <1>6. ASSUME NEW r \in Relays, Disruption(r) PROVE LateInv'
    BY <1>0, <1>3, <1>6
       DEF Disruption, QueryFails, TaskQueryFails, Stop, Cancel, Crash, LinkDown,
           ProcessEnds, table
  <1>7. ASSUME NEW n \in Seqs, OperatorReset(n) PROVE LateInv'
    <2>1. resets' # 0
      BY <1>7 DEF OperatorReset, TypeOK
    <2>2. QED
      BY <2>1 DEF LateInv, Counted, GivesUpLate
  <1>8. ASSUME NEW S \in SUBSET Seqs, Sweep(S) PROVE LateInv'
    <2>1. /\ UNCHANGED <<attempts, seen, resets>>
          /\ \A n \in Seqs : status'[n] = "failed" => status[n] = "failed"
      BY <1>8 DEF Sweep, relay
    <2>2. QED
      BY <2>1, SameAttempts
  <1>9. QED
    BY <1>0, <1>1, <1>2, <1>5, <1>6, <1>7, <1>8
       DEF Next, ServerReapsSession, Land, relay, table, vars

\* A row fails only after MaxAttempts recorded failures, unless an operator has
\* taken attempts back, though relays decide on counts that are stale.
THEOREM GivesUpLateTheorem == Spec => []GivesUpLate
  <1>1. Init => LateInv
    BY DEF Init, LateInv, Counted, GivesUpLate, Unread
  <1>2. LateInv => GivesUpLate
    BY DEF LateInv
  <1>3. QED
    BY <1>1, <1>2, LateNext, TypeCorrect, PTL DEF Spec

=============================================================================
