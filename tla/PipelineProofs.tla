--------------------------- MODULE PipelineProofs ---------------------------
(***************************************************************************)
(* Pipeline, for any events, keys and payloads, any dedup key and replay   *)
(* policy, any bounds: skipping is not losing, side effects keep the order *)
(* of their key, and they are not repeated.                                *)
(***************************************************************************)
EXTENDS Pipeline, FiniteSetTheorems, TLAPS

\* The consumer is at a record of the topic, a replay at one of the dead letters.
PlacesExist ==
    /\ pc # "ready" => offset <= Len(topic)
    /\ replay.end <= Len(dlq)

TypeInv == TypeOK /\ PlacesExist

LEMMA InitTypes == Init => TypeInv
  BY PipelineAssumption, SettingsAssumption
     DEF Init, Outbox!Init, TypeInv, TypeOK, PlacesExist

\* What every step does to the log of a topic.
Grows(log) == log' = log \/ \E rec \in Records : log' = Append(log, rec)

LEMMA ReplayedIsRecord ==
    ASSUME TypeInv, NEW rec \in Records, MayReplay(rec)
    PROVE  Replayed(rec) \in Records
  BY PipelineAssumption DEF TypeInv, TypeOK, Records, MayReplay, Replayed

\* The outbox and the logs only grow, and the logs by records.
LEMMA GrowStep ==
    ASSUME TypeInv, [Next]_vars
    PROVE  Grows(topic) /\ Grows(dlq) /\ UNCHANGED setting
  <1> USE DEF TypeInv, TypeOK, PlacesExist, Grows
  <1>1. CASE Enqueue
    BY <1>1 DEF Enqueue
  <1>2. ASSUME NEW e \in Events, Publish(e) \/ Republish(e)
        PROVE  Grows(topic) /\ Grows(dlq) /\ UNCHANGED setting
    <2>1. Message(e) \in Records
      BY PipelineAssumption DEF Message, Records
    <2>2. QED
      BY <1>2, <2>1 DEF Publish, Republish
  <1>3. CASE Consume \/ RouteFails \/ Crash
    <2>1. pc # "ready" => Current \in Records
      BY DEF Current
    <2>2. QED
      BY <1>3, <2>1
         DEF Consume, RouteFails, Crash, Skip, Handle, Raise, Route, Retry, CommitOffset
  <1>4. ASSUME Operate \/ ReplayEnds \/ (\E e \in Events : GiveUp(e)) \/ (\E x \in done : Lapse(x))
        PROVE  Grows(topic) /\ Grows(dlq) /\ UNCHANGED setting
    BY <1>4 DEF Operate, Deploy, StartReplay, ReplayEnds, PutBack, GiveUp, Lapse
  <1>5. CASE ReplayNext
    <2>1. dlq[replay.next] \in Records
      BY <1>5 DEF ReplayNext, Replaying
    <2>2. MayReplay(dlq[replay.next]) => Replayed(dlq[replay.next]) \in Records
      BY <2>1, ReplayedIsRecord
    <2>3. QED
      BY <1>5, <2>2 DEF ReplayNext
  <1>6. CASE UNCHANGED vars
    BY <1>6 DEF vars
  <1>7. QED
    BY <1>1, <1>2, <1>3, <1>4, <1>5, <1>6 DEF Next, Trouble

\* What a growing log keeps.
LEMMA LogGrows ==
    ASSUME NEW log \in Seq(Records), NEW log2,
           log2 = log \/ \E rec \in Records : log2 = Append(log, rec)
    PROVE  /\ log2 \in Seq(Records)
           /\ Len(log) <= Len(log2)
           /\ DOMAIN log = 1..Len(log) /\ DOMAIN log2 = 1..Len(log2)
           /\ DOMAIN log \subseteq DOMAIN log2
           /\ \A o \in DOMAIN log : log2[o] = log[o]
  OBVIOUS

\* What a step leaves as it was.
LEMMA HistoryStep ==
    ASSUME TypeInv, [Next]_vars
    PROVE  /\ setting' = setting
           /\ accepted \subseteq accepted' /\ published \subseteq published'
           /\ \A e \in accepted : ahead'[e] = ahead[e]
           /\ \A e \in Events : effects[e] > 0 => effects'[e] > 0
  <1> USE DEF TypeInv, TypeOK
  <1>1. CASE Enqueue
    <2>1. PICK S \in SUBSET Events : \E ks \in [S -> Keys \cup {NoKey}] : Outbox!Accept(S, ks)
      BY <1>1 DEF Enqueue
    <2>2. \A e \in accepted : e \in Events \ S
      BY <2>1 DEF Outbox!Accept
    <2>3. \A e \in accepted : ahead'[e] = ahead[e]
      BY <2>1, <2>2 DEF Outbox!Accept
    <2>4. QED
      BY <1>1, <2>1, <2>3 DEF Enqueue, Outbox!Accept, consumer, handled
  <1>2. ASSUME NEW e \in Events, Publish(e)
        PROVE  /\ UNCHANGED <<setting, accepted, ahead, consumer>>
               /\ published \subseteq published'
    BY <1>2 DEF Publish, Outbox!Publish
  <1>3. CASE Handle
    BY <1>3 DEF Handle, outbox, ledger
  <1>4. CASE \/ Consume /\ ~Handle
             \/ Operate \/ Trouble \/ ReplayNext \/ UNCHANGED vars
    <2>1. UNCHANGED <<setting, accepted, published, ahead, effects>>
      BY <1>4 DEF Consume, Skip, Raise, Route, Retry, CommitOffset, Operate, Deploy,
         StartReplay, PutBack, Trouble, RouteFails, Crash, ReplayEnds, Republish, GiveUp,
         Lapse, ReplayNext, vars, outbox, ledger, consumer, handled
    <2>2. QED
      BY <2>1
  <1>5. QED
    BY <1>1, <1>2, <1>3, <1>4 DEF Next, consumer, handled

-----------------------------------------------------------------------------
(* Types                                                                   *)

LEMMA KeyTypes ==
    ASSUME TypeInv, NEW o \in DOMAIN topic
    PROVE  Group(topic[o]) \in 0..MaxReplays /\ Key(o) \in Nat
  <1>1. topic[o] \in Records /\ o \in Nat
    BY DEF TypeInv, TypeOK
  <1>2. setting.key \in {"header", "field", "payload", "offset"}
    BY SettingsAssumption DEF TypeInv, TypeOK
  <1>3. topic[o].ev \in Nat /\ setting.payload[topic[o].ev] \in Nat
    <2>1. setting.payload \in [Events -> Nat]
      BY SettingsAssumption DEF TypeInv, TypeOK
    <2>2. QED
      BY <1>1, <2>1, PipelineAssumption DEF Records
  <1>4. Key(o) \in Nat
    BY <1>1, <1>2, <1>3
       DEF Key, FromHeader, FromJsonPath, PayloadHash, TopicPartitionOffset
  <1>5. Group(topic[o]) \in 0..MaxReplays
    BY <1>1, PipelineAssumption DEF Group, Records
  <1>6. QED
    BY <1>4, <1>5

\* A record that is gone counts for every event with its key.
LEMMA LapseStep ==
    ASSUME TypeInv, NEW x \in done, Lapse(x)
    PROVE  /\ lapses' \in [Events -> Nat]
           /\ \A e \in Events : lapses[e] <= lapses'[e]
           /\ \A o \in DOMAIN topic :
                  Key(o) = x[2] => lapses'[topic[o].ev] = lapses[topic[o].ev] + 1
  <1> DEFINE known == {topic[o].ev : o \in {p \in DOMAIN topic : Key(p) = x[2]}}
  <1>1. lapses \in [Events -> Nat]
    BY DEF TypeInv, TypeOK
  <1>2. lapses' = [e \in Events |-> IF e \in known THEN lapses[e] + 1 ELSE lapses[e]]
    BY DEF Lapse
  <1>3. \A o \in DOMAIN topic :
            topic[o].ev \in Events /\ (Key(o) = x[2] => topic[o].ev \in known)
    <2>1. \A o \in DOMAIN topic : topic[o] \in Records
      BY DEF TypeInv, TypeOK
    <2>2. QED
      BY <2>1 DEF Records
  <1> HIDE DEF known
  <1>4. \A e \in Events : lapses'[e] = IF e \in known THEN lapses[e] + 1 ELSE lapses[e]
    BY <1>2
  <1>5. \A e \in Events : lapses'[e] \in Nat /\ lapses[e] <= lapses'[e]
    BY <1>1, <1>2, <1>4
  <1>6. QED
    BY <1>2, <1>3, <1>4, <1>5

\* The bound on faults holds.
LEMMA FaultsBounded ==
    ASSUME TypeInv, UNCHANGED faults \/ Fault
    PROVE  faults' \in 0..MaxFaults
  <1>1. faults \in 0..MaxFaults /\ MaxFaults \in Nat
    BY PipelineAssumption DEF TypeInv, TypeOK
  <1>2. QED
    BY <1>1 DEF Fault

LEMMA TypeStep == TypeInv /\ [Next]_vars => TypeInv'
  <1> SUFFICES ASSUME TypeInv, [Next]_vars PROVE TypeInv'
    OBVIOUS
  <1>1. /\ topic' \in Seq(Records) /\ Len(topic) <= Len(topic')
        /\ dlq' \in Seq(Records) /\ Len(dlq) <= Len(dlq')
        /\ setting' = setting
    BY GrowStep, LogGrows DEF TypeInv, TypeOK, Grows
  <1>0. /\ offset \in 1..Len(topic') + 1 /\ replay.end <= Len(dlq')
        /\ pc # "ready" => offset <= Len(topic')
    BY <1>1 DEF TypeInv, TypeOK, PlacesExist
  <1> USE DEF TypeInv, TypeOK, PlacesExist
  <1>2. CASE Enqueue
    <2>1. PICK S \in SUBSET Events : \E ks \in [S -> Keys \cup {NoKey}] : Outbox!Accept(S, ks)
      BY <1>2 DEF Enqueue
    <2>2. /\ accepted' \subseteq Events /\ published' \subseteq accepted'
          /\ failed' \subseteq accepted'
      BY <1>2, <2>1 DEF Enqueue, Outbox!Accept
    <2>3. ahead' \in [Events -> SUBSET Events]
      <3> DEFINE Before(e) == IF e \in S
                              THEN {d \in accepted' : d < e /\ keyOf'[d] = keyOf'[e]
                                                            /\ keyOf'[e] # NoKey}
                              ELSE ahead[e]
      <3>1. ahead' = [e \in Events |-> Before(e)]
        BY <2>1 DEF Outbox!Accept
      <3>2. \A e \in Events : Before(e) \in SUBSET Events
        BY <2>2
      <3> HIDE DEF Before
      <3>3. QED
        BY <3>1, <3>2
    <2>4. QED
      BY <1>0, <1>1, <1>2, <2>2, <2>3 DEF Enqueue, consumer, handled
  <1>3. ASSUME NEW e \in Events, Publish(e) PROVE TypeInv'
    BY <1>0, <1>1, <1>3 DEF Publish, Outbox!Publish, consumer, handled
  <1>4. ASSUME NEW e \in Events, Republish(e) PROVE TypeInv'
    <2>1. faults' \in 0..MaxFaults
      BY <1>4, FaultsBounded DEF Republish
    <2>2. /\ UNCHANGED <<setting, accepted, ahead, published, failed, dlq, broken, replay>>
          /\ UNCHANGED <<offset, pc, done, effects, lapses>>
      BY <1>4 DEF Republish, outbox, ledger, consumer, handled
    <2>3. QED
      BY <1>0, <1>1, <2>1, <2>2
  <1>5. CASE Handle
    <2>1. offset \in DOMAIN topic /\ Current \in Records /\ offset <= Len(topic)
      BY <1>5 DEF Handle, Reads, Current
    <2>2. effects' \in [Events -> Nat]
      <3>1. Current.ev \in Events
        BY <2>1 DEF Records
      <3>2. effects' = [effects EXCEPT ![Current.ev] = @ + 1]
        BY <1>5 DEF Handle
      <3> HIDE DEF Current
      <3>3. QED
        BY <3>1, <3>2
    <2>3. Entry \in (0..MaxReplays) \X Nat
      BY <2>1, KeyTypes DEF Entry, Current
    <2>4. done' \subseteq (0..MaxReplays) \X Nat
      BY <1>5, <2>3 DEF Handle
    <2>5. QED
      BY <1>0, <1>1, <1>5, <2>1, <2>2, <2>4 DEF Handle, outbox, ledger
  <1>6. CASE Skip \/ Raise \/ Route \/ Retry
    <2>1. /\ UNCHANGED <<setting, accepted, ahead, published, failed, broken, replay, faults>>
          /\ UNCHANGED <<offset, done, effects, lapses>>
          /\ pc' \in {"ready", "failed", "commit"}
          /\ Reads \/ pc # "ready"
      BY <1>6 DEF Skip, Raise, Route, Retry, outbox, ledger, handled
    <2>2. offset <= Len(topic)
      BY <2>1 DEF Reads
    <2>3. QED
      BY <1>0, <1>1, <2>1, <2>2
  <1>7. CASE CommitOffset
    BY <1>0, <1>1, <1>7 DEF CommitOffset, outbox, ledger, handled
  <1>8. CASE RouteFails \/ Crash
    <2>1. faults' \in 0..MaxFaults
      BY <1>8, FaultsBounded DEF RouteFails, Crash
    <2>2. /\ UNCHANGED <<setting, accepted, ahead, published, failed, topic, broken, replay>>
          /\ UNCHANGED <<offset, done, effects, lapses>>
      BY <1>8 DEF RouteFails, Crash, outbox, ledger, handled
    <2>3. pc' = "ready"
      BY <1>8 DEF RouteFails, Crash
    <2>4. QED
      BY <1>0, <1>1, <2>1, <2>2, <2>3
  <1>9. CASE Deploy
    BY <1>0, <1>1, <1>9 DEF Deploy, outbox, ledger, consumer, handled
  <1>10. ASSUME StartReplay \/ ReplayNext \/ ReplayEnds PROVE TypeInv'
    <2>1. /\ replay' \in [run : 0..MaxReplays, next : Nat \ {0}, end : Nat]
          /\ replay'.end <= Len(dlq)
      <3>1. CASE StartReplay
        BY <3>1, PipelineAssumption DEF StartReplay
      <3>2. CASE ReplayNext
        <4>1. replay' = [replay EXCEPT !.next = @ + 1] /\ replay.next + 1 \in Nat \ {0}
          BY <3>2 DEF ReplayNext
        <4> HIDE DEF TypeInv, TypeOK, PlacesExist
        <4>2. replay \in [run : 0..MaxReplays, next : Nat \ {0}, end : Nat]
          BY DEF TypeInv, TypeOK
        <4>3. replay.end <= Len(dlq)
          BY DEF TypeInv, PlacesExist
        <4>4. QED
          BY <4>1, <4>2, <4>3
      <3>3. CASE ReplayEnds
        <4>1. replay.next - 1 \in Nat /\ replay.next - 1 <= Len(dlq)
          BY <3>3 DEF ReplayEnds, Replaying
        <4>2. QED
          BY <3>3, <4>1 DEF ReplayEnds
      <3>4. QED
        BY <1>10, <3>1, <3>2, <3>3
    <2>2. faults' \in 0..MaxFaults
      BY <1>10, FaultsBounded DEF StartReplay, ReplayNext, ReplayEnds
    <2>3. UNCHANGED <<setting, outbox, dlq, consumer, broken>>
      BY <1>10 DEF StartReplay, ReplayNext, ReplayEnds
    <2>4. TypeOK'
      <3>1. UNCHANGED <<accepted, published, ahead, failed>>
        BY <2>3 DEF outbox, ledger
      <3>2. UNCHANGED <<offset, pc, done, effects, lapses>>
        BY <2>3 DEF consumer, handled
      <3>3. offset \in 1..Len(topic') + 1
        BY <1>1
      <3>4. QED
        BY <1>0, <1>1, <2>1, <2>2, <2>3, <3>1, <3>2, <3>3
    <2>5. PlacesExist'
      BY <1>0, <1>1, <2>1, <2>3 DEF consumer, handled
    <2>6. QED
      BY <2>4, <2>5 DEF TypeInv
  <1>11. CASE UNCHANGED vars
    BY <1>11 DEF vars, outbox, ledger, consumer, handled
  <1>12. ASSUME NEW e \in Events, GiveUp(e) \/ PutBack(e) PROVE TypeInv'
    <2>1. faults' \in 0..MaxFaults
      BY <1>12, FaultsBounded DEF GiveUp, PutBack
    <2>2. failed' \subseteq accepted
      BY <1>12 DEF GiveUp, PutBack
    <2>3. UNCHANGED <<setting, ledger, topic, dlq, consumer, broken, replay>>
      BY <1>12 DEF GiveUp, PutBack
    <2>4. QED
      BY <1>0, <1>1, <2>1, <2>2, <2>3 DEF ledger, consumer, handled
  <1>13. ASSUME NEW x \in done, Lapse(x) PROVE TypeInv'
    <2>1. lapses' \in [Events -> Nat] /\ faults' \in 0..MaxFaults
      BY <1>13, LapseStep, FaultsBounded DEF Lapse
    <2>2. done' \subseteq done
      BY <1>13 DEF Lapse
    <2>3. UNCHANGED <<setting, outbox, topic, dlq, offset, pc, effects, broken, replay>>
      BY <1>13 DEF Lapse
    <2>4. QED
      BY <1>0, <1>1, <2>1, <2>2, <2>3 DEF outbox, ledger
  <1>14. QED
    BY <1>2, <1>3, <1>4, <1>5, <1>6, <1>7, <1>8, <1>9, <1>10, <1>11, <1>12, <1>13
       DEF Next, Consume, Trouble, Operate

\* The state always has its type.
THEOREM TypeCorrect == Spec => []TypeOK
  <1>1. TypeInv => TypeOK
    BY DEF TypeInv
  <1>2. QED
    BY <1>1, InitTypes, TypeStep, PTL DEF Spec

-----------------------------------------------------------------------------
(* Skipping is not losing                                                  *)

\* The event has had its effect, or waits in the dead-letter topic.
Settled(e) == effects[e] > 0 \/ DeadLettered(e)

\* The topics hold records of published events only, and one of each.
RecordsPublished ==
    /\ \A o \in DOMAIN topic : topic[o].ev \in published
    /\ \A o \in DOMAIN dlq : dlq[o].ev \in published
PublishedOnTopic == \A e \in published : \E o \in DOMAIN topic : topic[o].ev = e

\* A record comes after a record of every event that must precede it.
TopicInOrder ==
    \A o \in DOMAIN topic : \A d \in ahead[topic[o].ev] :
        \E b \in DOMAIN topic : b < o /\ topic[b].ev = d

\* A dedup record was made for the record of an event that has its effect.
DoneIsHandled ==
    \A x \in done : \E o \in DOMAIN topic : x[2] = Key(o) /\ effects[topic[o].ev] > 0

\* NothingDropped, with the record whose offset is about to be committed.
LeftBehind ==
    KeysTellApart =>
        \A o \in DOMAIN topic :
            o < offset \/ (o = offset /\ pc = "commit") => Settled(topic[o].ev)

\* A side effect comes from a record the consumer has reached.
EffectIsRead ==
    \A e \in Events : effects[e] > 0 => \E o \in DOMAIN topic : topic[o].ev = e

PipelineInv ==
    /\ RecordsPublished /\ PublishedOnTopic /\ TopicInOrder
    /\ DoneIsHandled /\ LeftBehind /\ EffectIsRead /\ EffectsInOrder

LEMMA LogsKept ==
    ASSUME TypeInv, [Next]_vars
    PROVE  /\ DOMAIN topic = 1..Len(topic) /\ DOMAIN topic \subseteq DOMAIN topic'
           /\ DOMAIN topic' = 1..Len(topic') /\ Len(topic) \in Nat /\ Len(topic') \in Nat
           /\ \A o \in DOMAIN topic : topic'[o] = topic[o] /\ topic[o] \in Records
           /\ DOMAIN dlq \subseteq DOMAIN dlq'
           /\ \A o \in DOMAIN dlq : dlq'[o] = dlq[o] /\ dlq[o] \in Records
  <1>1. Grows(topic) /\ topic \in Seq(Records) /\ Grows(dlq) /\ dlq \in Seq(Records)
    BY GrowStep DEF TypeInv, TypeOK
  <1>2. \A log \in {topic, dlq} : \A o \in DOMAIN log : log[o] \in Records
    BY <1>1
  <1>3. /\ Len(topic) \in Nat /\ DOMAIN topic = 1..Len(topic)
        /\ DOMAIN topic \subseteq DOMAIN topic'
        /\ DOMAIN topic' = 1..Len(topic') /\ Len(topic') \in Nat
        /\ \A o \in DOMAIN topic : topic'[o] = topic[o]
    BY <1>1, LogGrows DEF Grows
  <1>4. DOMAIN dlq \subseteq DOMAIN dlq' /\ \A o \in DOMAIN dlq : dlq'[o] = dlq[o]
    BY <1>1, LogGrows DEF Grows
  <1>5. QED
    BY <1>2, <1>3, <1>4

\* What is appended to a log: the first record of an event for which everything is
\* ready, or another record of an event that has one.
LEMMA NewRecords ==
    ASSUME TypeInv, RecordsPublished, [Next]_vars
    PROVE  /\ \A o \in DOMAIN topic' \ DOMAIN topic :
                  \/ topic'[o].ev \in published
                  \/ topic'[o].ev \in published' /\ ahead[topic'[o].ev] \subseteq published
           /\ \A o \in DOMAIN dlq' \ DOMAIN dlq : dlq'[o].ev \in published
           /\ \A e \in published' \ published : \E o \in DOMAIN topic' : topic'[o].ev = e
  <1> USE DEF TypeInv, TypeOK, RecordsPublished
  <1>1. ASSUME UNCHANGED <<topic, dlq, published>>
        PROVE  /\ DOMAIN topic' = DOMAIN topic /\ DOMAIN dlq' = DOMAIN dlq
               /\ published' = published
    BY <1>1
  <1>2. CASE Enqueue
    BY <1>1, <1>2 DEF Enqueue, Outbox!Accept
  <1>3. ASSUME NEW e \in Events, Publish(e) \/ Republish(e)
        PROVE  /\ topic' = Append(topic, Message(e)) /\ Message(e).ev = e
               /\ UNCHANGED dlq /\ published' = published \cup {e}
               /\ e \in published \/ ahead[e] \subseteq published
    BY <1>3 DEF Publish, Republish, Outbox!Publish, outbox, ledger, Message
  <1>4. CASE \/ Skip \/ Handle \/ Raise \/ Retry \/ CommitOffset \/ Crash \/ Operate \/ ReplayEnds
             \/ (\E e \in Events : GiveUp(e)) \/ \E x \in done : Lapse(x)
    <2>1. UNCHANGED <<topic, dlq, published>>
      BY <1>4 DEF Skip, Handle, Raise, Retry, CommitOffset, Crash, Operate, Deploy,
         StartReplay, PutBack, ReplayEnds, GiveUp, Lapse, outbox, ledger
    <2>2. QED
      BY <1>1, <2>1
  <1>5. CASE Route \/ RouteFails
    <2>1. Current \in Records /\ Current.ev \in published
      BY <1>5 DEF Route, RouteFails, PlacesExist, Current
    <2>2. /\ UNCHANGED <<topic, published>>
          /\ dlq' = dlq \/ dlq' = Append(dlq, Current)
      BY <1>5 DEF Route, RouteFails, outbox, ledger
    <2> HIDE DEF Current
    <2>3. QED
      BY <2>1, <2>2
  <1>6. CASE ReplayNext
    <2>1. replay.next \in DOMAIN dlq
      BY <1>6 DEF ReplayNext, Replaying, PlacesExist
    <2>2. dlq[replay.next].ev \in published /\ Replayed(dlq[replay.next]).ev = dlq[replay.next].ev
      BY <2>1 DEF Replayed
    <2>3. /\ UNCHANGED <<dlq, published>>
          /\ topic' = topic \/ topic' = Append(topic, Replayed(dlq[replay.next]))
      BY <1>6 DEF ReplayNext, outbox, ledger
    <2>4. QED
      BY <2>2, <2>3
  <1>7. CASE UNCHANGED vars
    BY <1>1, <1>7 DEF vars, outbox, ledger
  <1>8. QED
    <2>1. ASSUME NEW e \in Events, Publish(e) \/ Republish(e)
          PROVE  /\ \A o \in DOMAIN topic' \ DOMAIN topic : topic'[o].ev = e
                 /\ \E o \in DOMAIN topic' : topic'[o].ev = e
      <3>1. Len(topic) + 1 \in DOMAIN topic' /\ topic'[Len(topic) + 1] = Message(e)
        BY <1>3, <2>1
      <3>2. \A o \in DOMAIN topic' \ DOMAIN topic : o = Len(topic) + 1
        BY <1>3, <2>1
      <3>3. QED
        BY <1>3, <2>1, <3>1, <3>2
    <2>2. CASE \E e \in Events : Publish(e) \/ Republish(e)
      <3>1. PICK e \in Events : Publish(e) \/ Republish(e)
        BY <2>2
      <3>2. UNCHANGED dlq /\ published' = published \cup {e}
        BY <1>3, <3>1
      <3>3. /\ \A o \in DOMAIN topic' \ DOMAIN topic : topic'[o].ev = e
            /\ \E o \in DOMAIN topic' : topic'[o].ev = e
        BY <2>1, <3>1
      <3>4. e \in published \/ ahead[e] \subseteq published
        BY <1>3, <3>1
      <3>5. QED
        BY <3>2, <3>3, <3>4
    <2>3. CASE ~\E e \in Events : Publish(e) \/ Republish(e)
      BY <1>2, <1>4, <1>5, <1>6, <1>7, <2>3 DEF Next, Consume, Trouble
    <2>4. QED
      BY <2>2, <2>3

LEMMA PublishedWasAccepted ==
    ASSUME TypeInv, [Next]_vars
    PROVE  published' \subseteq accepted
  <1> USE DEF TypeInv, TypeOK
  <1>1. ASSUME NEW e \in Events, Publish(e) PROVE published' \subseteq accepted
    BY <1>1 DEF Publish, Outbox!Publish
  <1>2. CASE Enqueue
    BY <1>2 DEF Enqueue, Outbox!Accept
  <1>3. CASE Consume \/ Operate \/ Trouble \/ ReplayNext \/ UNCHANGED vars
    <2>1. UNCHANGED published
      BY <1>3 DEF Consume, Skip, Handle, Raise, Route, Retry, CommitOffset, Operate, Deploy,
         StartReplay, PutBack, Trouble, RouteFails, Crash, ReplayEnds, Republish, GiveUp,
         Lapse, ReplayNext, vars, outbox, ledger
    <2>2. QED
      BY <2>1
  <1>4. QED
    BY <1>1, <1>2, <1>3 DEF Next

LEMMA TopicStep ==
    ASSUME TypeInv, RecordsPublished, PublishedOnTopic, TopicInOrder, [Next]_vars
    PROVE  RecordsPublished' /\ PublishedOnTopic' /\ TopicInOrder'
  <1>1. RecordsPublished'
    BY NewRecords, LogsKept, HistoryStep DEF RecordsPublished
  <1>2. PublishedOnTopic'
    BY NewRecords, LogsKept DEF PublishedOnTopic
  <1>3. TopicInOrder'
    <2> SUFFICES ASSUME NEW o \in DOMAIN topic', NEW d \in ahead'[topic'[o].ev]
                 PROVE  \E b \in DOMAIN topic : b < o /\ topic[b].ev = d
      BY LogsKept DEF TopicInOrder
    <2> DEFINE e == topic'[o].ev
    <2>1. CASE o \in DOMAIN topic
      <3>1. e = topic[o].ev /\ e \in accepted
        BY <2>1, LogsKept DEF RecordsPublished, TypeInv, TypeOK
      <3>2. d \in ahead[topic[o].ev]
        BY <3>1, HistoryStep
      <3>3. QED
        BY <2>1, <3>2 DEF TopicInOrder
    <2>2. CASE o \notin DOMAIN topic
      <3>1. \A b \in DOMAIN topic : b < o
        BY <2>2, LogsKept
      <3>2. CASE e \in published
        <4>1. PICK b \in DOMAIN topic : topic[b].ev = e
          BY <3>2 DEF PublishedOnTopic
        <4>2. d \in ahead[topic[b].ev]
          BY <3>2, <4>1, HistoryStep DEF TypeInv, TypeOK
        <4>3. QED
          BY <3>1, <4>2 DEF TopicInOrder
      <3>3. CASE e \notin published
        <4>1. e \in published' /\ ahead[e] \subseteq published
          BY <2>2, <3>3, NewRecords
        <4>2. d \in ahead[e]
          <5>1. e \in accepted
            BY <3>3, <4>1, PublishedWasAccepted
          <5>2. QED
            BY <5>1, HistoryStep
        <4>3. QED
          BY <3>1, <4>1, <4>2 DEF PublishedOnTopic
      <3>4. QED
        BY <3>2, <3>3
    <2>3. QED
      BY <2>1, <2>2
  <1>4. QED
    BY <1>1, <1>2, <1>3

\* Side effects and dedup records are made by Handle alone, and a record is gone by
\* Lapse alone.
LEMMA OnlyHandleActs ==
    ASSUME TypeInv, [Next]_vars, ~Handle
    PROVE  /\ UNCHANGED effects
           /\ UNCHANGED <<done, lapses>> \/ \E x \in done : Lapse(x)
           /\ done' \subseteq done
  <1>1. UNCHANGED handled \/ \E x \in done : Lapse(x)
    BY DEF Next, Enqueue, Publish, Consume, Skip, Raise, Route, Retry, CommitOffset, Operate,
       Deploy, StartReplay, PutBack, Trouble, RouteFails, Crash, ReplayEnds, Republish, GiveUp,
       ReplayNext, vars, consumer
  <1>2. QED
    BY <1>1 DEF Lapse, handled

LEMMA KeyKept ==
    ASSUME TypeInv, [Next]_vars, NEW o \in DOMAIN topic
    PROVE  Key(o)' = Key(o)
  BY LogsKept, HistoryStep
     DEF Key, FromHeader, FromJsonPath, PayloadHash, TopicPartitionOffset

LEMMA SettledKept ==
    ASSUME TypeInv, [Next]_vars, NEW e \in Events, Settled(e)
    PROVE  Settled(e)'
  BY LogsKept, HistoryStep DEF Settled, DeadLettered

LEMMA TellApartKept ==
    ASSUME TypeInv, [Next]_vars, KeysTellApart'
    PROVE  KeysTellApart
  BY HistoryStep DEF KeysTellApart

\* The record at hand, when the consumer is at one.
LEMMA CurrentIsThere ==
    ASSUME TypeInv, Reads \/ pc # "ready"
    PROVE  /\ offset \in DOMAIN topic
           /\ Current = topic[offset] /\ Current \in Records /\ Current.ev \in Events
  <1>1. offset \in DOMAIN topic /\ topic \in Seq(Records)
    BY DEF TypeInv, TypeOK, PlacesExist, Reads
  <1>2. Current = topic[offset] /\ Current \in Records
    BY <1>1 DEF Current
  <1>3. QED
    BY <1>1, <1>2 DEF Records

\* Handle leaves all but the history of the consumer alone.
LEMMA HandleStep ==
    ASSUME TypeInv, Handle
    PROVE  /\ UNCHANGED <<setting, accepted, published, ahead, topic, dlq, offset>>
           /\ effects'[Current.ev] > 0
           /\ \A e \in Events \ {Current.ev} : effects'[e] = effects[e]
           /\ done \subseteq done' /\ done' \subseteq done \cup {Entry}
           /\ UNCHANGED lapses
  <1>1. Current.ev \in Events
    BY CurrentIsThere DEF Handle
  <1>2. effects' = [effects EXCEPT ![Current.ev] = @ + 1] /\ effects \in [Events -> Nat]
    BY DEF Handle, TypeInv, TypeOK
  <1>3. QED
    BY <1>1, <1>2 DEF Handle, outbox, ledger

LEMMA DoneStep ==
    ASSUME TypeInv, DoneIsHandled, EffectIsRead, [Next]_vars
    PROVE  DoneIsHandled' /\ EffectIsRead'
  <1>1. CASE Handle
    <2>1. offset \in DOMAIN topic /\ Current = topic[offset] /\ Current.ev \in Events
      BY <1>1, CurrentIsThere DEF Handle
    <2>2. DoneIsHandled'
      <3> SUFFICES ASSUME NEW x \in done'
                   PROVE  \E o \in DOMAIN topic' : x[2] = Key(o)' /\ effects'[topic'[o].ev] > 0
        BY DEF DoneIsHandled
      <3>1. CASE x \in done
        <4>1. PICK o \in DOMAIN topic : x[2] = Key(o) /\ effects[topic[o].ev] > 0
          BY <3>1 DEF DoneIsHandled
        <4>2. topic[o].ev \in Events
          BY LogsKept DEF Records
        <4>3. QED
          BY <4>1, <4>2, LogsKept, HistoryStep, KeyKept
      <3>2. CASE x = Entry
        BY <1>1, <2>1, <3>2, KeyKept, HandleStep DEF Entry
      <3>3. QED
        BY <1>1, <3>1, <3>2, HandleStep
    <2>3. EffectIsRead'
      BY <1>1, <2>1, HandleStep DEF EffectIsRead
    <2>4. QED
      BY <2>2, <2>3
  <1>2. CASE ~Handle
    <2>1. UNCHANGED effects /\ done' \subseteq done
      BY <1>2, OnlyHandleActs
    <2>2. DoneIsHandled'
      <3> SUFFICES ASSUME NEW x \in done
                   PROVE  \E o \in DOMAIN topic' : x[2] = Key(o)' /\ effects[topic'[o].ev] > 0
        BY <2>1 DEF DoneIsHandled
      <3>1. PICK o \in DOMAIN topic : x[2] = Key(o) /\ effects[topic[o].ev] > 0
        BY DEF DoneIsHandled
      <3>2. QED
        BY <3>1, LogsKept, KeyKept
    <2>3. EffectIsRead'
      BY <2>1, LogsKept DEF EffectIsRead
    <2>4. QED
      BY <2>2, <2>3
  <1>3. QED
    BY <1>1, <1>2

\* ALREADY_DONE is told of a record only if its event has its effect.
LEMMA DuplicateIsHandled ==
    ASSUME TypeInv, RecordsPublished, DoneIsHandled, KeysTellApart, Reads, Duplicate
    PROVE  effects[Current.ev] > 0
  <1>1. offset \in DOMAIN topic /\ Current = topic[offset] /\ Current.ev \in Events
    BY CurrentIsThere
  <1>2. PICK o \in DOMAIN topic : Key(offset) = Key(o) /\ effects[topic[o].ev] > 0
    BY DEF Duplicate, Entry, DoneIsHandled
  <1>3. setting.key \in {"header", "field", "payload", "offset"}
    BY SettingsAssumption DEF TypeInv, TypeOK
  <1>4. topic[o].ev \in accepted /\ topic[offset].ev \in accepted
    BY <1>1, <1>2 DEF RecordsPublished, TypeInv, TypeOK
  <1>5. topic[o].ev = topic[offset].ev
    BY <1>1, <1>2, <1>3, <1>4
       DEF Key, FromHeader, FromJsonPath, PayloadHash, TopicPartitionOffset, KeysTellApart
  <1>6. QED
    BY <1>1, <1>2, <1>5

\* How the consumer moves on.
LEMMA ConsumerStep ==
    ASSUME TypeInv, [Next]_vars
    PROVE  \/ Skip \/ Handle \/ Route
           \/ CommitOffset
           \/ offset' = offset /\ (pc' = "commit" => pc = "commit")
  BY DEF Next, Enqueue, Publish, Consume, Raise, Retry, Operate, Deploy, StartReplay, PutBack,
     Trouble, RouteFails, Crash, ReplayEnds, Republish, GiveUp, Lapse, ReplayNext, vars, consumer

LEMMA LeftBehindStep ==
    ASSUME TypeInv, RecordsPublished, DoneIsHandled, LeftBehind, [Next]_vars
    PROVE  LeftBehind'
  <1> SUFFICES ASSUME KeysTellApart', NEW o \in DOMAIN topic',
                      o < offset' \/ (o = offset' /\ pc' = "commit")
               PROVE  Settled(topic[o].ev)'
    BY DEF LeftBehind
  <1>1. \A b \in DOMAIN topic : b < offset \/ (b = offset /\ pc = "commit") => Settled(topic[b].ev)
    BY TellApartKept DEF LeftBehind
  <1>2. ASSUME NEW b \in DOMAIN topic, Settled(topic[b].ev) PROVE Settled(topic[b].ev)'
    <2>1. topic[b].ev \in Events /\ topic'[b] = topic[b]
      BY LogsKept DEF Records
    <2>2. QED
      BY <1>2, <2>1, SettledKept DEF Settled, DeadLettered
  <1>3. CASE Skip \/ Handle \/ Route
    <2>1. Reads \/ pc # "ready"
      BY <1>3 DEF Skip, Handle, Route
    <2>2. offset \in DOMAIN topic /\ Current = topic[offset] /\ Current.ev \in Events
      BY <2>1, CurrentIsThere
    <2>3. UNCHANGED <<topic, offset>>
      BY <1>3 DEF Skip, Handle, Route
    <2>4. Settled(Current.ev)'
      <3>1. CASE Skip
        BY <2>2, <2>3, <3>1, DuplicateIsHandled, TellApartKept, HistoryStep
           DEF Skip, Settled, Current
      <3>2. CASE Handle
        BY <2>2, <2>3, <3>2, HandleStep DEF Settled, Current
      <3>3. CASE Route
        <4>1. dlq' = Append(dlq, Current) /\ dlq \in Seq(Records) /\ Current \in Records
          BY <2>1, <3>3, CurrentIsThere DEF Route, TypeInv, TypeOK
        <4>2. Len(dlq) + 1 \in DOMAIN dlq' /\ dlq'[Len(dlq) + 1] = Current
          BY <4>1
        <4>3. Current' = Current
          BY <2>3 DEF Current
        <4>4. QED
          BY <4>2, <4>3 DEF DeadLettered, Settled
      <3>4. QED
        BY <1>3, <3>1, <3>2, <3>3
    <2>5. QED
      BY <1>1, <1>2, <2>2, <2>3, <2>4 DEF Current
  <1>4. CASE CommitOffset
    <2>1. offset \in DOMAIN topic /\ offset \in Nat
      BY <1>4, CurrentIsThere DEF CommitOffset, TypeInv, TypeOK
    <2>2. o \in DOMAIN topic /\ (o < offset \/ o = offset)
      BY <1>4, <2>1, LogsKept DEF CommitOffset
    <2>3. QED
      BY <1>1, <1>2, <1>4, <2>2 DEF CommitOffset
  <1>5. CASE offset' = offset /\ (pc' = "commit" => pc = "commit")
    <2>1. o < offset \/ (o = offset /\ pc = "commit")
      BY <1>5
    <2>2. o \in DOMAIN topic
      BY <2>1, LogsKept DEF TypeInv, TypeOK, PlacesExist
    <2>3. QED
      BY <1>1, <1>2, <2>1, <2>2
  <1>6. QED
    BY <1>3, <1>4, <1>5, ConsumerStep

LEMMA OrderStep ==
    ASSUME TypeInv, RecordsPublished, TopicInOrder, LeftBehind, EffectIsRead, EffectsInOrder,
           [Next]_vars
    PROVE  EffectsInOrder'
  <1> SUFFICES ASSUME KeysTellApart', NEW e \in Events, effects'[e] > 0, NEW d \in ahead'[e]
               PROVE  Settled(d)'
    BY DEF EffectsInOrder, Settled
  <1>1. ASSUME e \in published, d \in ahead[e], Settled(d) PROVE Settled(d)'
    BY <1>1, SettledKept DEF TypeInv, TypeOK
  <1>2. CASE effects[e] > 0
    <2>1. e \in published /\ e \in accepted
      BY <1>2 DEF EffectIsRead, RecordsPublished, TypeInv, TypeOK
    <2>2. d \in ahead[e]
      BY <2>1, HistoryStep
    <2>3. Settled(d)
      BY <1>2, <2>2, TellApartKept DEF EffectsInOrder, Settled
    <2>4. QED
      BY <1>1, <2>1, <2>2, <2>3
  <1>3. CASE ~(effects[e] > 0)
    <2>1. Handle
      BY <1>3, OnlyHandleActs
    <2>2. offset \in DOMAIN topic /\ Current = topic[offset]
      BY <2>1, CurrentIsThere DEF Handle
    <2>3. e = Current.ev /\ ahead' = ahead
      BY <1>3, <2>1, HandleStep
    <2>4. PICK b \in DOMAIN topic : b < offset /\ topic[b].ev = d
      BY <2>2, <2>3 DEF TopicInOrder
    <2>5. Settled(d)
      BY <2>4, TellApartKept DEF LeftBehind
    <2>6. e \in published
      BY <2>2, <2>3 DEF RecordsPublished
    <2>7. QED
      BY <1>1, <2>3, <2>5, <2>6
  <1>4. QED
    BY <1>2, <1>3

LEMMA InitPipelineInv == Init => PipelineInv
  BY DEF Init, Outbox!Init, PipelineInv, RecordsPublished, PublishedOnTopic, TopicInOrder,
     DoneIsHandled, LeftBehind, EffectIsRead, EffectsInOrder

\* The inductive invariant of the pipeline.
THEOREM PipelineInvariant == Spec => [](TypeInv /\ PipelineInv)
  <1>1. Init => TypeInv /\ PipelineInv
    BY InitTypes, InitPipelineInv
  <1>2. TypeInv /\ PipelineInv /\ [Next]_vars => (TypeInv /\ PipelineInv)'
    BY TypeStep, TopicStep, DoneStep, LeftBehindStep, OrderStep DEF PipelineInv
  <1>3. QED
    BY <1>1, <1>2, PTL DEF Spec

\* An event whose record the consumer has left behind has had its effect or is on
\* the dead-letter topic (pc and offset of the consumer, the dedup table, DlqRouter).
THEOREM NothingDroppedTheorem == Spec => []NothingDropped
  <1>1. TypeInv /\ PipelineInv => NothingDropped
    <2> SUFFICES ASSUME TypeInv, PipelineInv, KeysTellApart, NEW o \in 1..offset - 1
                 PROVE  Settled(topic[o].ev)
      BY DEF NothingDropped, Settled
    <2>1. o \in DOMAIN topic /\ o < offset
      BY DEF TypeInv, TypeOK
    <2>2. QED
      BY <2>1 DEF PipelineInv, LeftBehind
  <1>2. QED
    BY <1>1, PipelineInvariant, PTL

\* No event has its effect before those that precede it under its key.
THEOREM EffectsInOrderTheorem == Spec => []EffectsInOrder
  <1>1. TypeInv /\ PipelineInv => EffectsInOrder
    BY DEF PipelineInv
  <1>2. QED
    BY <1>1, PipelineInvariant, PTL

-----------------------------------------------------------------------------
(* Effectively once                                                        *)

\* The dedup key of an event, when it is not that of a copy.
EventKey(e) == IF setting.key = "payload" THEN setting.payload[e] ELSE e

\* The groups in which records of e are deduplicated, and those in which one was.
Groups(e) == IF setting.policy = "namespace" THEN {0} \cup ReplaysOf(e) ELSE {0}
Taken(e) == {g \in Groups(e) : <<g, EventKey(e)>> \in done}

\* The strengthening of EffectivelyOnce: each effect took a group of its own, or one
\* that had lapsed.
EffectsCounted ==
    setting.key # "offset" /\ setting.policy # "bypass" =>
        \A e \in Events : effects[e] <= Cardinality(Taken(e)) + lapses[e]

LEMMA GroupsFinite ==
    ASSUME TypeInv, NEW e \in Events
    PROVE  /\ IsFiniteSet(ReplaysOf(e)) /\ IsFiniteSet(Groups(e)) /\ IsFiniteSet(Taken(e))
           /\ Cardinality(Taken(e)) \in Nat
  <1>1. \A o \in DOMAIN topic : topic[o].replay \in 0..MaxReplays
    <2>1. \A o \in DOMAIN topic : topic[o] \in Records
      BY DEF TypeInv, TypeOK
    <2>2. QED
      BY <2>1 DEF Records
  <1>2. ReplaysOf(e) \subseteq 0..MaxReplays /\ Groups(e) \subseteq 0..MaxReplays
    BY <1>1, PipelineAssumption DEF ReplaysOf, Groups
  <1>3. IsFiniteSet(0..MaxReplays)
    BY FS_Interval, PipelineAssumption
  <1>4. Taken(e) \subseteq 0..MaxReplays
    BY <1>2 DEF Taken
  <1>5. QED
    BY <1>2, <1>3, <1>4, FS_Subset, FS_CardinalityType

LEMMA TakenGrows ==
    ASSUME TypeInv, [Next]_vars, NEW e \in Events
    PROVE  /\ EventKey(e)' = EventKey(e)
           /\ Groups(e) \subseteq Groups(e)'
           /\ done \subseteq done' => Taken(e) \subseteq Taken(e)'
  <1>1. EventKey(e)' = EventKey(e)
    BY HistoryStep DEF EventKey
  <1>2. Groups(e) \subseteq Groups(e)'
    BY HistoryStep, LogsKept DEF Groups, ReplaysOf
  <1>3. QED
    BY <1>1, <1>2 DEF Taken

\* A key that does not follow the copy is that of the event.
LEMMA KeyOfEvent ==
    ASSUME TypeInv, setting.key # "offset", NEW o \in DOMAIN topic
    PROVE  Key(o) = EventKey(topic[o].ev)
  BY SettingsAssumption
     DEF TypeInv, TypeOK, Key, FromHeader, FromJsonPath, PayloadHash, EventKey

\* A side effect takes a group that no earlier one has taken.
LEMMA HandleTakes ==
    ASSUME TypeInv, Handle, setting.key # "offset", setting.policy # "bypass"
    PROVE  /\ Group(Current) \in Groups(Current.ev)' \ Taken(Current.ev)
           /\ Group(Current) \in Taken(Current.ev)'
  <1> DEFINE e == Current.ev
             g == Group(Current)
  <1>1. offset \in DOMAIN topic /\ Current = topic[offset] /\ e \in Events
    BY CurrentIsThere DEF Handle
  <1>3. Key(offset) = EventKey(e)
    BY <1>1, KeyOfEvent
  <1>4. g \in Groups(e)
    BY <1>1 DEF Group, Groups, ReplaysOf
  <1>5. <<g, EventKey(e)>> \notin done
    BY <1>3 DEF Handle, Duplicate, Bypasses, Entry
  <1>6. <<g, EventKey(e)>> \in done'
    BY <1>3 DEF Handle, Bypasses, Entry
  <1>7. Groups(Current.ev)' = Groups(Current.ev) /\ EventKey(Current.ev)' = EventKey(Current.ev)
    BY DEF Handle, Groups, ReplaysOf, EventKey, Current
  <1>8. Group(Current)' = Group(Current) /\ Current' = Current
    BY DEF Handle, Group, Current
  <1>9. QED
    BY <1>4, <1>5, <1>6, <1>7, <1>8 DEF Taken

\* A record of an event that had its effect is gone: one group less is taken, and one
\* lapse more is counted.
LEMMA LapseTakes ==
    ASSUME TypeInv, EffectIsRead, [Next]_vars, setting.key # "offset",
           NEW x \in done, Lapse(x), NEW e \in Events, effects[e] > 0
    PROVE  Taken(e) \subseteq Taken(e)' \/ /\ Taken(e) \subseteq Taken(e)' \cup {x[1]}
                                           /\ lapses'[e] = lapses[e] + 1
  <1>1. PICK o \in DOMAIN topic : topic[o].ev = e
    BY DEF EffectIsRead
  <1>2. Key(o) = EventKey(e)
    BY <1>1, KeyOfEvent
  <1>3. done' = done \ {x}
    BY DEF Lapse
  <1>4. EventKey(e)' = EventKey(e) /\ Groups(e) \subseteq Groups(e)'
    BY TakenGrows
  <1>5. CASE x[2] = EventKey(e)
    <2>1. lapses'[e] = lapses[e] + 1
      BY <1>1, <1>2, <1>5, LapseStep
    <2>2. ASSUME NEW g \in Taken(e), g # x[1] PROVE g \in Taken(e)'
      <3>1. <<g, EventKey(e)>> \in done' /\ g \in Groups(e)'
        BY <1>3, <1>4, <2>2 DEF Taken
      <3>2. QED
        BY <1>4, <3>1 DEF Taken
    <2>3. QED
      BY <2>1, <2>2
  <1>6. CASE x[2] # EventKey(e)
    <2>1. ASSUME NEW g \in Taken(e) PROVE g \in Taken(e)'
      <3>1. <<g, EventKey(e)>> \in done' /\ g \in Groups(e)'
        BY <1>3, <1>4, <1>6 DEF Taken
      <3>2. QED
        BY <1>4, <3>1 DEF Taken
    <2>2. QED
      BY <2>1
  <1>7. QED
    BY <1>5, <1>6

LEMMA CountStep ==
    ASSUME TypeInv, EffectIsRead, EffectsCounted, [Next]_vars
    PROVE  EffectsCounted'
  <1> SUFFICES ASSUME setting.key # "offset", setting.policy # "bypass", NEW e \in Events
               PROVE  effects'[e] <= Cardinality(Taken(e)') + lapses'[e]
    BY HistoryStep DEF EffectsCounted
  <1> DEFINE before == Cardinality(Taken(e))
             after == Cardinality(Taken(e)')
  <1>1. effects[e] <= before + lapses[e] /\ effects[e] \in Nat /\ lapses[e] \in Nat
    BY DEF EffectsCounted, TypeInv, TypeOK
  <1>2. /\ IsFiniteSet(Taken(e)) /\ before \in Nat
        /\ IsFiniteSet(Taken(e)') /\ after \in Nat
        /\ lapses'[e] \in Nat
    <2>1. TypeInv'
      BY TypeStep
    <2>2. Taken(e)' \subseteq 0..MaxReplays
      BY <2>1 DEF Taken, TypeInv, TypeOK
    <2>3. IsFiniteSet(0..MaxReplays)
      BY FS_Interval, PipelineAssumption
    <2>4. lapses'[e] \in Nat
      BY <2>1 DEF TypeInv, TypeOK
    <2>5. QED
      BY <2>2, <2>3, <2>4, GroupsFinite, FS_Subset, FS_CardinalityType
  <1>3. Taken(e) \subseteq Taken(e)' => before <= after
    BY <1>2, FS_Subset
  <1>4. CASE Handle
    <2>1. lapses'[e] = lapses[e] /\ Taken(e) \subseteq Taken(e)'
      BY <1>4, HandleStep, TakenGrows
    <2>2. CASE e = Current.ev
      <3>1. PICK g \in Taken(e)' : g \notin Taken(e)
        BY <1>4, <2>2, HandleTakes DEF Handle, Current
      <3>2. /\ IsFiniteSet(Taken(e) \cup {g})
            /\ Cardinality(Taken(e) \cup {g}) = before + 1
        BY <1>2, <3>1, FS_AddElement
      <3>3. Taken(e) \cup {g} \subseteq Taken(e)'
        BY <2>1, <3>1
      <3>4. before + 1 <= after
        BY <1>2, <3>2, <3>3, FS_Subset
      <3>5. effects'[e] = effects[e] + 1
        BY <1>4, <2>2 DEF Handle, TypeInv, TypeOK
      <3>6. QED
        BY <1>1, <1>2, <2>1, <3>4, <3>5
    <2>3. CASE e # Current.ev
      <3>1. effects'[e] = effects[e]
        BY <1>4, <2>3, HandleStep
      <3>2. before <= after
        BY <1>3, <2>1
      <3>3. QED
        BY <1>1, <1>2, <2>1, <3>1, <3>2
    <2>4. QED
      BY <2>2, <2>3
  <1>5. CASE ~Handle /\ UNCHANGED <<done, lapses>>
    <2>1. effects'[e] = effects[e] /\ lapses'[e] = lapses[e]
      BY <1>5, OnlyHandleActs
    <2>2. before <= after
      BY <1>3, <1>5, TakenGrows
    <2>3. QED
      BY <1>1, <1>2, <2>1, <2>2
  <1>6. CASE ~Handle /\ \E x \in done : Lapse(x)
    <2>1. PICK x \in done : Lapse(x)
      BY <1>6
    <2>2. effects'[e] = effects[e] /\ lapses[e] <= lapses'[e]
      BY <1>6, <2>1, OnlyHandleActs, LapseStep
    <2>3. CASE effects[e] = 0
      <3>1. QED
        BY <1>1, <1>2, <2>2, <2>3
    <2>4. CASE effects[e] > 0 /\ Taken(e) \subseteq Taken(e)'
      <3>1. before <= after
        BY <1>3, <2>4
      <3>2. QED
        BY <1>1, <1>2, <2>2, <3>1
    <2>5. CASE effects[e] > 0 /\ ~(Taken(e) \subseteq Taken(e)')
      <3>1. Taken(e) \subseteq Taken(e)' \cup {x[1]} /\ lapses'[e] = lapses[e] + 1
        BY <2>1, <2>5, LapseTakes
      <3> DEFINE more == Taken(e)' \cup {x[1]}
      <3>2. /\ IsFiniteSet(more)
            /\ Cardinality(more) = IF x[1] \in Taken(e)' THEN after ELSE after + 1
        BY <1>2, FS_AddElement
      <3>3. before <= Cardinality(more)
        BY <3>1, <3>2, FS_Subset
      <3>4. before <= after + 1
        BY <1>2, <3>2, <3>3
      <3>5. QED
        BY <1>1, <1>2, <2>2, <3>1, <3>4
    <2>6. QED
      BY <1>1, <2>3, <2>4, <2>5
  <1>7. QED
    BY <1>4, <1>5, <1>6, OnlyHandleActs

\* With a key that follows the event and not the copy, a side effect is committed
\* once, once more for each dedup record of it that lapsed, and once more for each replay
\* that "namespace" gives a group of its own (Deduplicator.process, ttl, replay_policy).
THEOREM EffectivelyOnceTheorem == Spec => []EffectivelyOnce
  <1>1. Init => EffectsCounted
    <2> SUFFICES ASSUME Init, NEW e \in Events
                 PROVE  effects[e] <= Cardinality(Taken(e)) + lapses[e]
      BY DEF EffectsCounted
    <2>1. effects[e] = 0 /\ lapses[e] = 0
      BY DEF Init
    <2>2. Cardinality(Taken(e)) \in Nat
      BY InitTypes, GroupsFinite
    <2>3. QED
      BY <2>1, <2>2
  <1>2. TypeInv /\ EffectsCounted => EffectivelyOnce
    <2> SUFFICES ASSUME TypeInv, setting.key # "offset", setting.policy # "bypass",
                        NEW e \in Events, effects[e] <= Cardinality(Taken(e)) + lapses[e]
                 PROVE  effects[e] <= 1 + lapses[e] + (IF setting.policy = "namespace"
                                                       THEN Cardinality(ReplaysOf(e)) ELSE 0)
      BY DEF EffectsCounted, EffectivelyOnce
    <2> DEFINE taken == Cardinality(Taken(e))
               replays == Cardinality(ReplaysOf(e))
    <2>1. IsFiniteSet(ReplaysOf(e)) /\ IsFiniteSet(Groups(e)) /\ taken \in Nat
      BY GroupsFinite
    <2>2. taken <= Cardinality(Groups(e))
      BY <2>1, FS_Subset DEF Taken
    <2>3. /\ replays \in Nat /\ effects[e] \in Nat /\ lapses[e] \in Nat
          /\ effects[e] <= taken + lapses[e]
      BY <2>1, FS_CardinalityType DEF TypeInv, TypeOK
    <2>4. CASE setting.policy = "namespace"
      <3>1. 0 \notin ReplaysOf(e) /\ Groups(e) = ReplaysOf(e) \cup {0}
        BY <2>4 DEF ReplaysOf, Groups
      <3>2. Cardinality(Groups(e)) = replays + 1
        BY <2>1, <3>1, FS_AddElement
      <3>3. taken <= replays + 1
        BY <2>2, <3>2
      <3> HIDE DEF taken, replays
      <3>4. effects[e] <= 1 + lapses[e] + replays
        BY <2>1, <2>3, <3>3
      <3>5. QED
        BY <2>4, <3>4 DEF replays
    <2>5. CASE setting.policy # "namespace"
      <3>1. Cardinality(Groups(e)) = 1
        BY <2>5, FS_Singleton DEF Groups
      <3>2. taken <= 1
        BY <2>2, <3>1
      <3> HIDE DEF taken, replays
      <3>3. effects[e] <= 1 + lapses[e]
        BY <2>1, <2>3, <3>2
      <3>4. QED
        BY <2>3, <2>5, <3>3
    <2>6. QED
      BY <2>4, <2>5
  <1>3. TypeInv /\ PipelineInv /\ EffectsCounted /\ [Next]_vars => EffectsCounted'
    BY CountStep DEF PipelineInv
  <1>4. QED
    BY <1>1, <1>2, <1>3, PipelineInvariant, PTL DEF Spec

=============================================================================
