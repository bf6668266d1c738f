----------------------- MODULE OutboxRefinementProofs -----------------------
(***************************************************************************)
(* OutboxRelay implements OutboxContract: every step of writers, relays,   *)
(* server, sweep and operator accepts, publishes or forgets events as the  *)
(* contract allows, or changes nothing the contract sees.                  *)
(***************************************************************************)
EXTENDS OutboxRelayProofs

CommittedRows == {n \in Seqs : Committed(n)}
SweptRows == {n \in Seqs : status[n] = "swept"}
KeyOfCommitted == [n \in Seqs |-> IF Committed(n) THEN key[n] ELSE NoKey]

\* A step that neither commits, delivers nor sweeps is invisible to the contract.
Invisible ==
    /\ UNCHANGED <<ahead, delivered>>
    /\ \A n \in Seqs :
          /\ Committed(n)' <=> Committed(n)
          /\ status'[n] = "swept" <=> status[n] = "swept"
          /\ Committed(n) => key'[n] = key[n]

LEMMA InvisibleStutters == Invisible => UNCHANGED Contract!contractVars
  <1> SUFFICES ASSUME Invisible PROVE UNCHANGED Contract!contractVars
    OBVIOUS
  <1>1. CommittedRows' = CommittedRows
    BY DEF Invisible, CommittedRows
  <1>2. SweptRows' = SweptRows
    BY DEF Invisible, SweptRows
  <1>3. KeyOfCommitted' = KeyOfCommitted
    BY DEF Invisible, KeyOfCommitted
  <1>4. QED
    BY <1>1, <1>2, <1>3
       DEF Invisible, CommittedRows, SweptRows, KeyOfCommitted, Contract!contractVars

LEMMA SameTableInvisible == UNCHANGED <<table, delivered>> => Invisible
  BY DEF Invisible, table, Committed

\* The first record of a row is a publication, any other changes nothing.
LEMMA DeliveryPublishes ==
    ASSUME TypeOK, OrderInv, NEW n \in Seqs,
           n \in limbo \/ \E r \in Relays : work[r][n] = "air",
           UNCHANGED table, delivered' = delivered \cup {n}
    PROVE  [Contract!Next]_Contract!contractVars
  <1>1. CASE n \in delivered
    <2>1. UNCHANGED delivered
      BY <1>1
    <2>2. QED
      BY <2>1, SameTableInvisible, InvisibleStutters
  <1>2. CASE n \notin delivered
    <2>1. Committed(n) /\ ahead[n] \subseteq delivered
      BY DEF OrderInv, OnlyCommitted, InFlightInOrder
    <2>2. /\ CommittedRows' = CommittedRows
          /\ SweptRows' = SweptRows
          /\ KeyOfCommitted' = KeyOfCommitted
          /\ ahead' = ahead
      BY DEF CommittedRows, SweptRows, KeyOfCommitted, table, Committed
    <2>3. Contract!Publish(n)
      BY <1>2, <2>1, <2>2 DEF Contract!Publish, CommittedRows, SweptRows, KeyOfCommitted
    <2>4. QED
      BY <2>3 DEF Contract!Next
  <1>3. QED
    BY <1>1, <1>2

\* A commit accepts the rows of the transaction, with their keys.
LEMMA CommitAccepts ==
    ASSUME TypeOK, OrderInv, NEW w \in Writers, Commit(w)
    PROVE  Contract!Next
  <1> PICK S \in SUBSET Seqs : S = txn[w]
    BY DEF TypeOK
  <1> PICK ks \in [S -> Keys \cup {NoKey}] : ks = [n \in S |-> key[n]]
    BY DEF TypeOK, AllKeys
  <1>1. /\ S # {}
        /\ \A n \in S : ~Committed(n)
        /\ UNCHANGED <<key, delivered>>
    BY DEF Commit, TypeOK, AllKeys, OrderInv, TxnsOwnRows, Committed, InTable, topic
  <1>2. \A n \in Seqs : /\ Committed(n)' <=> Committed(n) \/ n \in S
                        /\ status'[n] = "swept" <=> status[n] = "swept"
    BY <1>1 DEF Commit, Committed, InTable
  <1>3. CommittedRows' = CommittedRows \cup S /\ SweptRows' = SweptRows
    BY <1>1, <1>2 DEF CommittedRows, SweptRows
  <1>4. KeyOfCommitted' = [n \in Seqs |-> IF n \in S THEN ks[n] ELSE KeyOfCommitted[n]]
    BY <1>1, <1>2 DEF KeyOfCommitted
  <1>5. ahead' = [n \in Seqs |->
                    IF n \in S
                    THEN {m \in CommittedRows' : /\ m < n
                                                 /\ KeyOfCommitted'[m] = KeyOfCommitted'[n]
                                                 /\ KeyOfCommitted'[n] # NoKey}
                    ELSE ahead[n]]
    <2>1. ASSUME NEW n \in S
          PROVE  MustPrecede(n, S) =
                   {m \in CommittedRows' : /\ m < n
                                           /\ KeyOfCommitted'[m] = KeyOfCommitted'[n]
                                           /\ KeyOfCommitted'[n] # NoKey}
      <3>1. \A m \in CommittedRows' : KeyOfCommitted'[m] = key[m]
        BY <1>1, <1>2 DEF CommittedRows, KeyOfCommitted
      <3>2. n \in CommittedRows'
        BY <1>1, <1>3
      <3>3. \A m \in Seqs : m \in S \/ Committed(m) <=> m \in CommittedRows'
        BY <1>2 DEF CommittedRows
      <3>4. CommittedRows' \subseteq Seqs
        BY DEF CommittedRows
      <3>5. QED
        BY <3>1, <3>2, <3>3, <3>4 DEF MustPrecede, SameKey
    <2>2. QED
      BY <2>1 DEF Commit
  <1>6. Contract!Accept(S, ks)
    BY <1>1, <1>3, <1>4, <1>5
       DEF Contract!Accept, CommittedRows, SweptRows, KeyOfCommitted
  <1>7. QED
    BY <1>6 DEF Contract!Next

LEMMA SweepForgets ==
    ASSUME TypeOK, OrderInv, NEW S \in SUBSET Seqs, Sweep(S)
    PROVE  Contract!Next
  <1>1. S \subseteq delivered
    BY DEF Sweep, Sweepable, OrderInv, NothingLost
  <1>2. \A n \in Seqs : /\ Committed(n)' <=> Committed(n)
                        /\ status'[n] = "swept" <=> status[n] = "swept" \/ n \in S
    BY DEF Sweep, Sweepable, Committed, InTable
  <1>3. /\ CommittedRows' = CommittedRows
        /\ SweptRows' = SweptRows \cup S
        /\ KeyOfCommitted' = KeyOfCommitted
        /\ UNCHANGED <<ahead, delivered>>
    BY <1>2 DEF CommittedRows, SweptRows, KeyOfCommitted, Sweep, topic
  <1>4. Contract!Forget(S)
    BY <1>1, <1>3 DEF Contract!Forget, CommittedRows, SweptRows, KeyOfCommitted
  <1>5. QED
    BY <1>4 DEF Contract!Next

LEMMA InitRefines == Init => Contract!Init
  BY DEF Init, Contract!Init, Committed, InTable

LEMMA StepRefines ==
    TypeOK /\ OrderInv /\ [Next]_vars => [Contract!Next]_Contract!contractVars
  <1> SUFFICES ASSUME TypeOK, OrderInv, [Next]_vars
               PROVE  [Contract!Next]_Contract!contractVars
    OBVIOUS
  <1>0. UNCHANGED <<table, delivered>> => [Contract!Next]_Contract!contractVars
    BY SameTableInvisible, InvisibleStutters
  <1>1. CASE WriterNext
    <2>1. ASSUME NEW w \in Writers, NEW k \in AllKeys, Enqueue(w, k) PROVE Invisible
      <3>1. nextSeq \in Seqs /\ status[nextSeq] = "unused"
        BY <2>1 DEF Enqueue, TypeOK, Seqs, OrderInv, TxnsOwnRows
      <3>2. QED
        BY <2>1, <3>1 DEF Enqueue, Invisible, Committed, InTable, TypeOK, topic
    <2>2. ASSUME NEW w \in Writers, Rollback(w) PROVE Invisible
      <3>1. \A n \in txn[w] : status[n] = "uncommitted"
        BY DEF OrderInv, TxnsOwnRows
      <3>2. QED
        BY <2>2, <3>1 DEF Rollback, Invisible, Committed, InTable, topic
    <2>3. QED
      BY <1>1, <2>1, <2>2, CommitAccepts, InvisibleStutters DEF WriterNext
  <1>2. ASSUME NEW r \in Relays, PublishKey(r) PROVE [Contract!Next]_Contract!contractVars
    <2> PICK n \in Seqs : \/ Send(r, n)
                          \/ Acked(r, n)
                          \/ SendFailed(r, n)
                          \/ RecordFailure(r, n)
                          \/ RecordFailureOfSwept(r, n)
                          \/ MarkPublished(r, n)
                          \/ StoreCallFails(r, n)
      BY <1>2 DEF PublishKey
    <2>1. CASE Send(r, n)
      BY <1>0, <2>1 DEF Send, topic
    <2>2. CASE Acked(r, n)
      BY <2>2, DeliveryPublishes DEF Acked, At
    <2>3. CASE SendFailed(r, n)
      BY <1>0, <2>3 DEF SendFailed
    <2>4. CASE RecordFailure(r, n)
      <3>1. Committed(n)
        BY <2>4 DEF RecordFailure, At, OrderInv, OnlyCommitted
      <3>2. status' = [status EXCEPT ![n] = AfterFailure(r, n)]
        BY <2>4 DEF RecordFailure
      <3>3. Invisible
        BY <2>4, <3>1, <3>2 DEF RecordFailure, AfterFailure, Invisible, Committed, InTable, TypeOK, topic
      <3>4. QED
        BY <3>3, InvisibleStutters
    <2>5. CASE RecordFailureOfSwept(r, n)
      BY <1>0, <2>5 DEF RecordFailureOfSwept, topic
    <2>6. CASE MarkPublished(r, n)
      <3>1. Invisible
        BY <2>6 DEF MarkPublished, Invisible, Committed, InTable, TypeOK, topic
      <3>2. QED
        BY <3>1, InvisibleStutters
    <2>7. CASE StoreCallFails(r, n)
      BY <1>0, <2>7 DEF StoreCallFails, topic
    <2>8. QED
      BY <2>1, <2>2, <2>3, <2>4, <2>5, <2>6, <2>7
  <1>3. ASSUME NEW r \in Relays, RunLoop(r) \/ ServerReapsSession(r) \/ Disruption(r)
        PROVE  [Contract!Next]_Contract!contractVars
    <2>1. CASE RunLoop(r)
      BY <1>0, <2>1 DEF RunLoop, AcquireLeadership, Claim, FinishPass, StoreLost, Close, Exit,
                        ProcessEnds, Restart, topic
    <2>2. CASE ServerReapsSession(r)
      BY <1>0, <2>2 DEF ServerReapsSession, topic
    <2>3. CASE Disruption(r)
      BY <1>0, <2>3 DEF Disruption, QueryFails, TaskQueryFails, Stop, Cancel, Crash, ProcessEnds,
                        LinkDown, topic
    <2>4. QED
      BY <1>3, <2>1, <2>2, <2>3
  <1>4. ASSUME NEW n \in Seqs, Land(n) PROVE [Contract!Next]_Contract!contractVars
    BY <1>4, DeliveryPublishes DEF Land
  <1>5. ASSUME NEW n \in Seqs, OperatorReset(n) PROVE [Contract!Next]_Contract!contractVars
    <2>1. Invisible
      BY <1>5 DEF OperatorReset, Invisible, Committed, InTable, TypeOK, topic
    <2>2. QED
      BY <2>1, InvisibleStutters
  <1>6. ASSUME NEW S \in SUBSET Seqs, Sweep(S) PROVE [Contract!Next]_Contract!contractVars
    BY <1>6, SweepForgets
  <1>7. CASE UNCHANGED vars
    BY <1>0, <1>7 DEF vars, topic
  <1>8. QED
    BY <1>1, <1>2, <1>3, <1>4, <1>5, <1>6, <1>7 DEF Next

\* The outbox, with all that can go wrong, does what OutboxContract promises.
THEOREM Refinement == Spec => ImplementsContract
  <1>1. QED
    BY InitRefines, StepRefines, TypeCorrect, OrderInvariant, PTL
       DEF Spec, ImplementsContract, Contract!Spec

=============================================================================
