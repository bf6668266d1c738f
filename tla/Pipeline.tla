------------------------------ MODULE Pipeline ------------------------------
(***************************************************************************)
(* The three parts together: an outbox that keeps OutboxContract publishes *)
(* the events of one topic partition; a consumer deduplicates them in the  *)
(* transaction of its handler (docs/quickstart.md) and dead-letters what   *)
(* it cannot handle; an operator replays the dead-letter topic into the    *)
(* topic the consumer reads.  Every part may deliver twice; what holds     *)
(* end to end depends on the dedup key and on the replay policy.           *)
(*                                                                         *)
(* The parts are as OutboxRelay, Deduplicator (transactional mode) and     *)
(* ReplayRunner show them to be, in bigger steps: a pass over a record is  *)
(* the transaction, the routing and the offset commit.  What the parts do  *)
(* not promise happens here too: the relay gives a row up, and its key     *)
(* waits for an operator; a dedup record outlives its ttl, and what it     *)
(* stood for is handled again.                                             *)
(***************************************************************************)
EXTENDS Integers, Sequences, FiniteSets

CONSTANTS
    Events,         \* event tickets of the outbox
    Keys, NoKey,    \* Kafka keys
    Opaque,         \* events whose payload is not JSON with the field
    Settings,       \* see SettingsAssumption
    MaxReplayCount, \* ReplayOptions.max_replay_count
    MaxReplays,     \* bound: replays started
    MaxFaults       \* bound: crashes, failed sends, rows given up, sends done twice, records that lapse

ASSUME PipelineAssumption ==
    /\ Events \subseteq Nat /\ Opaque \subseteq Events
    /\ MaxReplayCount \in Nat \ {0} /\ MaxReplays \in Nat
    /\ MaxFaults \in Nat

ASSUME SettingsAssumption == \A s \in Settings :
    /\ s.key \in {"header", "field", "payload", "offset"}       \* Deduplicator(key=)
    /\ s.payload \in [Events -> Nat]                           \* the bytes of each event
    /\ s.policy \in {"suppress", "bypass", "namespace"}         \* replay_policy
    /\ s.permanent \in BOOLEAN                                  \* what classify says
    /\ s.broken \subseteq Events                                \* the handler's bug

VARIABLES
    setting,        \* rigid: one member of Settings
    accepted, keyOf, ahead, published,  \* the outbox, as its contract has it
    failed,         \* events whose row is marked failed
    topic,          \* the partition the consumer reads
    dlq,            \* the dead-letter topic
    offset,         \* the consumer's committed offset: the next to read
    pc,             \* how far it is with the record there
    done,           \* dedup records: <<group, key>>
    effects,        \* history: effects[e], side effects committed for e
    lapses,         \* history: lapses[e], dedup records with a key of e that are gone
    broken,         \* events the handler raises on
    replay,         \* [run, next, end]: the replay that runs, or the last one
    faults

ledger == <<accepted, keyOf, ahead, published>>
outbox == <<ledger, failed>>
handled == <<done, effects, lapses>>
consumer == <<offset, pc, handled>>
vars == <<setting, outbox, topic, dlq, consumer, broken, replay, faults>>

\* The sweep of published rows changes nothing here.
Outbox == INSTANCE OutboxContract WITH forgotten <- {}

\* A record: its event, and the replay id (0: none) and replay count it carries.
Records == [ev : Events, replay : 0..MaxReplays, count : 0..MaxReplayCount]

TypeOK ==
    /\ setting \in Settings
    /\ accepted \subseteq Events /\ published \subseteq accepted
    /\ ahead \in [Events -> SUBSET Events] /\ failed \subseteq accepted
    /\ topic \in Seq(Records) /\ dlq \in Seq(Records)
    /\ offset \in 1..Len(topic) + 1
    /\ pc \in {"ready", "failed", "commit"}
    /\ done \subseteq (0..MaxReplays) \X Nat
    /\ effects \in [Events -> Nat] /\ lapses \in [Events -> Nat]
    /\ broken \subseteq setting.broken
    /\ replay \in [run : 0..MaxReplays, next : Nat \ {0}, end : Nat]
    /\ faults \in 0..MaxFaults

Init ==
    /\ setting \in Settings
    /\ Outbox!Init
    /\ failed = {}
    /\ topic = <<>>
    /\ dlq = <<>>
    /\ offset = 1
    /\ pc = "ready"
    /\ done = {}
    /\ effects = [e \in Events |-> 0]
    /\ lapses = [e \in Events |-> 0]
    /\ broken = setting.broken
    /\ replay = [run |-> 0, next |-> 1, end |-> 0]
    /\ faults = 0

Fault == faults < MaxFaults /\ faults' = faults + 1

-----------------------------------------------------------------------------
(* The outbox                                                              *)

\* A transaction of the application commits.
Enqueue ==
    /\ \E S \in SUBSET Events : \E ks \in [S -> Keys \cup {NoKey}] : Outbox!Accept(S, ks)
    /\ UNCHANGED <<setting, failed, topic, dlq, consumer, broken, replay, faults>>

\* The record of a row carries its event id; every copy carries the same.
Message(e) == [ev |-> e, replay |-> 0, count |-> 0]

Publish(e) ==
    /\ Outbox!Publish(e)
    /\ topic' = Append(topic, Message(e))
    /\ UNCHANGED <<setting, failed, dlq, consumer, broken, replay, faults>>

\* The last of max_attempts sends raised, with its record on the topic or not: the row
\* is marked failed.
GiveUp(e) ==
    /\ e \in accepted \ failed
    /\ ahead[e] \subseteq published
    /\ Fault
    /\ failed' = failed \cup {e}
    /\ UNCHANGED <<setting, ledger, topic, dlq, consumer, broken, replay>>

\* The relay leaves alone a failed row and those of its key.
Blocked(e) == e \in failed \/ \E f \in failed : keyOf[f] = keyOf[e] /\ keyOf[e] # NoKey

\* A relay publishes what was not marked, or the producer's retry lands late.
Republish(e) ==
    /\ e \in published
    /\ topic' = Append(topic, Message(e))
    /\ Fault
    /\ UNCHANGED <<setting, outbox, dlq, consumer, broken, replay>>

-----------------------------------------------------------------------------
(* The consumer                                                            *)

Current == topic[offset]
Reads == pc = "ready" /\ offset <= Len(topic)

\* The key functions, each a function of the record.
FromHeader(o) == topic[o].ev
FromJsonPath(o) == topic[o].ev
PayloadHash(o) == setting.payload[topic[o].ev]
TopicPartitionOffset(o) == o

\* The mutant takes the coordinates whatever it was told.
KeyByOffset(o) == TopicPartitionOffset(o)
Key(o) == CASE setting.key = "header" -> FromHeader(o)
            [] setting.key = "field" -> FromJsonPath(o)
            [] setting.key = "payload" -> PayloadHash(o)
            [] setting.key = "offset" -> TopicPartitionOffset(o)

\* DedupKeyError: raised before anything else is looked at.
Keyless(e) == setting.key = "field" /\ e \in Opaque

Bypasses(rec) == setting.policy = "bypass" /\ rec.replay # 0
Group(rec) == IF setting.policy = "namespace" THEN rec.replay ELSE 0

Entry == <<Group(Current), Key(offset)>>
Duplicate == ~Bypasses(Current) /\ Entry \in done

\* ALREADY_DONE: the offset may be committed.  The mutant waits as if another
\* worker were at it.
SkipWaits ==
    /\ Reads /\ ~Keyless(Current.ev) /\ Duplicate
    /\ UNCHANGED vars
Skip ==
    /\ Reads /\ ~Keyless(Current.ev) /\ Duplicate
    /\ pc' = "commit"
    /\ UNCHANGED <<setting, outbox, topic, dlq, offset, handled, broken, replay, faults>>

\* The side effect and the dedup record commit together.
Handle ==
    /\ Reads /\ ~Keyless(Current.ev) /\ ~Duplicate
    /\ Current.ev \notin broken
    /\ effects' = [effects EXCEPT ![Current.ev] = @ + 1]
    /\ done' = IF Bypasses(Current) THEN done ELSE done \cup {Entry}
    /\ pc' = "commit"
    /\ UNCHANGED <<setting, outbox, topic, dlq, offset, lapses, broken, replay, faults>>

\* The handler, or the key function, raises: the transaction rolls back, dedup
\* record included.  The mutant keeps the record.
RaiseRecorded ==
    /\ Reads /\ ~Keyless(Current.ev) /\ ~Duplicate /\ Current.ev \in broken
    /\ done' = done \cup {Entry}
    /\ pc' = "failed"
    /\ UNCHANGED <<setting, outbox, topic, dlq, offset, effects, lapses, broken, replay, faults>>
Raise ==
    /\ Reads
    /\ Keyless(Current.ev) \/ (~Duplicate /\ Current.ev \in broken)
    /\ pc' = "failed"
    /\ UNCHANGED <<setting, outbox, topic, dlq, offset, handled, broken, replay, faults>>

\* classify: a permanent error is dead-lettered, any other is retried.
Permanent == setting.permanent

Route ==
    /\ pc = "failed" /\ Permanent
    /\ dlq' = Append(dlq, Current)
    /\ pc' = "commit"
    /\ UNCHANGED <<setting, outbox, topic, offset, handled, broken, replay, faults>>

\* route() raises, with the record there or not: the offset is not committed.  The
\* mutant goes on and commits it.
RouteIgnored ==
    /\ pc = "failed" /\ Permanent
    /\ dlq' \in {dlq, Append(dlq, Current)}
    /\ Fault
    /\ pc' = "commit"
    /\ UNCHANGED <<setting, outbox, topic, offset, handled, broken, replay>>
RouteFails ==
    /\ pc = "failed" /\ Permanent
    /\ dlq' \in {dlq, Append(dlq, Current)}
    /\ Fault
    /\ pc' = "ready"
    /\ UNCHANGED <<setting, outbox, topic, offset, handled, broken, replay>>

\* A transient error: the record is read again.  The mutant goes on with the next.
RetryLater ==
    /\ pc = "failed" /\ ~Permanent
    /\ pc' = "commit"
    /\ UNCHANGED <<setting, outbox, topic, dlq, offset, handled, broken, replay, faults>>
Retry ==
    /\ pc = "failed" /\ ~Permanent
    /\ pc' = "ready"
    /\ UNCHANGED <<setting, outbox, topic, dlq, offset, handled, broken, replay, faults>>

CommitOffset ==
    /\ pc = "commit"
    /\ offset' = offset + 1
    /\ pc' = "ready"
    /\ UNCHANGED <<setting, outbox, topic, dlq, handled, broken, replay, faults>>

\* The consumer dies, or loses the partition, before it commits the offset.
Crash ==
    /\ pc # "ready"
    /\ Fault
    /\ pc' = "ready"
    /\ UNCHANGED <<setting, outbox, topic, dlq, offset, handled, broken, replay>>

\* A dedup record is gone: it is past its ttl, so that a claim takes it over and the
\* sweep deletes it, or an operator had its key forgotten.
Lapse(x) ==
    /\ x \in done
    /\ done' = done \ {x}
    /\ LET known == {topic[o].ev : o \in {p \in DOMAIN topic : Key(p) = x[2]}}
       IN lapses' = [e \in Events |-> IF e \in known THEN lapses[e] + 1 ELSE lapses[e]]
    /\ Fault
    /\ UNCHANGED <<setting, outbox, topic, dlq, offset, pc, effects, broken, replay>>

-----------------------------------------------------------------------------
(* The operator                                                            *)

\* A failed row is put back to pending.
PutBack(e) ==
    /\ e \in failed
    /\ failed' = failed \ {e}
    /\ UNCHANGED <<setting, ledger, topic, dlq, consumer, broken, replay, faults>>

\* The bug in the handler is fixed.
Deploy ==
    /\ broken # {}
    /\ broken' = {}
    /\ UNCHANGED <<setting, outbox, topic, dlq, consumer, replay, faults>>

Replaying == replay.next <= replay.end

\* Replay all of the dead-letter topic, with what was replayed before.
StartReplay ==
    /\ ~Replaying /\ replay.run < MaxReplays
    /\ replay' = [run |-> replay.run + 1, next |-> 1, end |-> Len(dlq)]
    /\ UNCHANGED <<setting, outbox, topic, dlq, consumer, broken, faults>>

\* _skip_reason, and its mutant with one replay more.
MayReplayOnceMore(rec) == rec.count <= MaxReplayCount
MayReplay(rec) == rec.count < MaxReplayCount

Replayed(rec) == [ev |-> rec.ev, replay |-> replay.run, count |-> rec.count + 1]

ReplayNext ==
    /\ Replaying
    /\ LET rec == dlq[replay.next]
       IN topic' = IF MayReplay(rec) THEN Append(topic, Replayed(rec)) ELSE topic
    /\ replay' = [replay EXCEPT !.next = @ + 1]
    /\ UNCHANGED <<setting, outbox, dlq, consumer, broken, faults>>

ReplayEnds ==
    /\ Replaying
    /\ Fault
    /\ replay' = [replay EXCEPT !.end = replay.next - 1]
    /\ UNCHANGED <<setting, outbox, topic, dlq, consumer, broken>>

Consume == Skip \/ Handle \/ Raise \/ Route \/ Retry \/ CommitOffset
Trouble ==
    \/ RouteFails \/ Crash \/ ReplayEnds
    \/ \E e \in Events : Republish(e) \/ GiveUp(e)
    \/ \E x \in done : Lapse(x)
Operate == Deploy \/ StartReplay \/ \E e \in Events : PutBack(e)

Next == Enqueue \/ (\E e \in Events : Publish(e)) \/ Consume \/ Operate \/ ReplayNext \/ Trouble

Spec == Init /\ [][Next]_vars

\* The outbox publishes what may be published next and is not blocked by a failed row
\* (OutboxRelay's EventuallySettled), the consumer and a replay go on.  Nobody has to
\* enqueue, to put a row back, to fix the handler or to replay.
FairSpec ==
    /\ Spec
    /\ \A e \in Events : WF_vars(~Blocked(e) /\ Publish(e))
    /\ WF_vars(Consume)
    /\ WF_vars(ReplayNext)

-----------------------------------------------------------------------------
(* Properties                                                              *)

DeadLettered(e) == \E o \in DOMAIN dlq : dlq[o].ev = e
Fails(e) == e \in broken \/ Keyless(e)

\* payload_hash says that two events with the same bytes are one.
KeysTellApart ==
    setting.key = "payload" =>
        \A d, e \in accepted : setting.payload[d] = setting.payload[e] => d = e

\* Replays that have put a copy of e on the topic.
ReplaysOf(e) == {topic[o].replay : o \in {x \in DOMAIN topic : topic[x].ev = e}} \ {0}

\* Effectively once, end to end, as long as dedup records live: with a key that follows
\* the event and not the copy, its side effect is committed once, however often the
\* relay, Kafka, the router and the operator deliver it; once more for each dedup record
\* of it that lapsed, which a ttl longer than the replay window rules out (operations.md);
\* and under the policy "namespace" once more for each replay of it.
EffectivelyOnce ==
    setting.key # "offset" /\ setting.policy # "bypass" =>
        \A e \in Events :
            effects[e] <= 1 + lapses[e] + (IF setting.policy = "namespace"
                                           THEN Cardinality(ReplaysOf(e)) ELSE 0)

\* Skipping is not losing, end to end: an event whose record the consumer has left
\* behind has had its effect, or is on the dead-letter topic; also when the
\* consumer died between the routing and the commit, or the routing failed.
NothingDropped ==
    KeysTellApart =>
        \A o \in 1..offset - 1 : effects[topic[o].ev] > 0 \/ DeadLettered(topic[o].ev)

\* The order of a key survives from the commit of its transactions to the side
\* effects: no event has its effect before those that must precede it had theirs, but
\* for the ones that were dead-lettered.
EffectsInOrder ==
    KeysTellApart =>
        \A e \in Events : effects[e] > 0 =>
            \A d \in ahead[e] : effects[d] > 0 \/ DeadLettered(d)

\* No event gets stuck but in two places: unless its key waits in the outbox behind a row
\* the relay gave up, or a transient failure that nobody fixes blocks the partition, every
\* accepted event has its effect or is dead-lettered.
Accounted ==
    \A e \in Events :
        (e \in accepted /\ (Permanent \/ \A d \in Events : ~Fails(d)))
            ~> \/ effects[e] > 0 \/ DeadLettered(e)
               \/ e \notin published /\ Blocked(e)
               \/ ~KeysTellApart

\* A replayed copy of e that the consumer has yet to read.
Replayable(e) ==
    \E o \in offset..Len(topic) :
        topic[o].ev = e /\ topic[o].replay # 0 /\ (o = offset => pc = "ready")

\* What the operator replays once the handler is fixed is handled, whatever the
\* failed attempts have left in the dedup store (deduplicator.py process: "retried
\* rather than permanently suppressed").
ReplayRecovers ==
    \A e \in Events :
        (Replayable(e) /\ \A d \in Events : ~Fails(d)) ~> (effects[e] > 0 \/ ~KeysTellApart)

=============================================================================
