---------------------------- MODULE ReplayRunner ----------------------------
(***************************************************************************)
(* Replays of a dead-letter topic: the command line (replay/cli.py), the   *)
(* traversal of dry_run() and execute() (replay/runner.py) through the     *)
(* reader (replay/reader_aiokafka.py), the audit file (replay/audit.py),   *)
(* and around them what goes on meanwhile: records arrive, retention drops *)
(* records, consumers of the target fail again and dead-letter what was    *)
(* replayed (replay/dlq.py).                                               *)
(*                                                                         *)
(* A record is its id, its headers as far as they matter, its timestamp,   *)
(* and `hops`, history: how often it was really replayed.  Key, value and  *)
(* all other headers follow the id.  A step is what happens between two    *)
(* awaits of the runner, or one record reaching a topic.                   *)
(***************************************************************************)
EXTENDS ReplaySelector

CONSTANTS
    Settings,       \* the replays considered, see IsSetting
    PartitionOf,    \* the partition an id is written to: it follows the key
    ErrorOf,        \* ErrorOf[i]: the error at which the handler of id i fails
    MaxReplayCount, \* ReplayOptions.max_replay_count
    ConfirmAbove,   \* ReplayOptions.confirm_above
    MaxRuns         \* bound: replays started with any of the settings

ReplayCount == "x-dlq-replay-count"
Diagnosis == "x-dlq-error-type"     \* stands for all the x-dlq-* headers of a failure
HeaderNames == {ReplayCount, Diagnosis}
Unreadable == -1                    \* a replay count that is not a number

Values == {n \in Int : n >= Unreadable}
Headers == [{} -> Values] \cup [{ReplayCount} -> Values] \cup [{Diagnosis} -> Values]
              \cup [HeaderNames -> Values]
LogRecords == [id : Ids \cup {NoId}, headers : Headers, hops : Nat, ts : Times \cup {0}]
Logs == [Partitions -> Seq(LogRecords)]

IsSetting(s) ==
    /\ s.selections # {}            \* what the operator may ask for
    /\ \A x \in s.selections : IsSelection(x)
    /\ s.cli \in BOOLEAN            \* a dry run first, then the prompt; else execute()
    /\ s.same \in BOOLEAN           \* the target is the source topic
    /\ s.allowSame \in BOOLEAN      \* ReplayOptions.allow_same_topic
    /\ s.yes \in BOOLEAN            \* ReplayOptions.assume_yes
    /\ s.commit \in BOOLEAN         \* ReplayOptions.commit_source_offsets
    /\ s.audit \in BOOLEAN          \* ReplayOptions.audit_path
    /\ s.reset \in {"earliest", "latest"} \* auto_offset_reset of the consumer
    /\ s.ordered \in BOOLEAN        \* LogAppendTime: timestamps never decrease
    /\ s.trims \in BOOLEAN          \* retention drops records
    /\ s.log \in Logs               \* the source at first
    /\ \A p \in Partitions : \A o \in DOMAIN s.log[p] : s.log[p][o].hops = 0
    /\ s.runs \in 0..MaxRuns        \* bound: replays the operator starts
    /\ s.length \in Nat             \* bound: of a log that grows from elsewhere

ASSUME SettingsAssumption == \A s \in Settings : IsSetting(s)

ASSUME ReplayAssumption ==
    /\ PartitionOf \in [Ids -> Partitions]
    /\ ErrorOf \in [Ids -> Nat]
    /\ MaxReplayCount \in Nat \ {0}
    /\ ConfirmAbove \in Nat
    /\ MaxRuns \in Nat

VARIABLES
    setting,        \* rigid: one member of Settings
    source,         \* source[p]: the log of p, with what retention has dropped
    begin,          \* begin[p]: its beginning offset
    target,         \* records on the target topic, with where they were read
    pc,             \* where the command is
    mode,           \* "dry" or "execute"
    run,            \* replays started
    sel,            \* the selection of this replay
    limits,         \* begin and end as resolve() has read them
    ranges,         \* the ranges, as far as they are resolved
    reader,         \* [p, next, got]: partition, offset after the last record yielded,
                    \* position of the consumer
    scanned,        \* records read in this traversal
    matched,        \* of those, the ones that were, or would be, produced
    sent,           \* <<run, p, o>> of every send that returned
    trail,          \* <<run, p, o>> of every line in the audit file
    toCommit,       \* partitions whose offset is still to be committed
    committed,      \* the reader's group: the next offset to read, or None
    plan,           \* what the dry run of this command printed
    consent,        \* the operator agreed to this replay
    outcome         \* how the last traversal ended

topics == <<source, begin, target>>
traversal == <<mode, run, sel, limits, ranges, reader, scanned, matched, plan, consent>>
effects == <<sent, trail, committed>>
vars == <<setting, topics, pc, traversal, effects, toCommit, outcome>>

Steps == {"idle", "begin", "end", "since", "until", "resolved", "reading",
          "sending", "landed", "committing", "asked"}
Outcomes == {"none", "refused", "declined", "failed", "crashed", "done"}
Offsets == Nat \ {0}
Places == Partitions \X Offsets
Spans == [start : Int, end : Int]
NoPlan == [ranges |-> <<>>, matched |-> {}, limits |-> <<>>]

TypeOK ==
    /\ setting \in Settings
    /\ source \in Logs
    /\ begin \in [Partitions -> Offsets]
    /\ target \subseteq [run : 1..MaxRuns, p : Partitions, o : Offsets, rec : LogRecords]
    /\ pc \in Steps
    /\ mode \in {"dry", "execute"}
    /\ run \in 0..MaxRuns
    /\ sel \in setting.selections
    /\ limits \in [begin : [Partitions -> Offsets], end : [Partitions -> Offsets]]
    /\ DOMAIN ranges \subseteq Partitions /\ \A p \in DOMAIN ranges : ranges[p] \in Spans
    /\ reader \in [p : Partitions, next : Offsets, got : Offsets]
    /\ matched \subseteq scanned /\ scanned \subseteq Places
    /\ sent \subseteq (1..MaxRuns) \X Partitions \X Offsets
    /\ trail \subseteq sent
    /\ toCommit \subseteq Partitions
    /\ committed \in [Partitions -> Nat]
    /\ consent \in BOOLEAN
    /\ outcome \in Outcomes

Init ==
    /\ setting \in Settings
    /\ source = setting.log
    /\ begin = [p \in Partitions |-> 1]
    /\ target = {}
    /\ pc = "idle"
    /\ mode = "dry"
    /\ run = 0
    /\ sel = CHOOSE s \in setting.selections : TRUE
    /\ limits = [begin |-> begin, end |-> begin]
    /\ ranges = <<>>
    /\ reader = [p |-> Min(Partitions), next |-> 1, got |-> 1]
    /\ scanned = {}
    /\ matched = {}
    /\ sent = {}
    /\ trail = {}
    /\ toCommit = {}
    /\ committed = [p \in Partitions |-> None]
    /\ plan = NoPlan
    /\ consent = FALSE
    /\ outcome = "none"

-----------------------------------------------------------------------------
(* The command                                                             *)

\* The options --from-offset and --to-offset need one --partitions.
Misused(s) ==
    /\ setting.cli
    /\ DOMAIN s.from # {} \/ DOMAIN s.to # {}
    /\ s.every \/ Cardinality(s.parts) # 1

\* Also ReplayRunner._check_target, and the partitions of ReplaySelector.resolve.
Refused(s) == Misused(s) \/ (setting.same /\ ~setting.allowSame) \/ ~Resolvable(s)

\* The operator gives a command that raises ConfigurationError.
Refuse(s) ==
    /\ pc = "idle" /\ run < setting.runs
    /\ Refused(s)
    /\ run' = run + 1
    /\ sel' = s
    /\ outcome' = "refused"
    /\ UNCHANGED <<setting, topics, pc, mode, limits, ranges, reader, scanned, matched,
                   plan, consent, effects, toCommit>>

\* A traversal starts with nothing counted.
Traverse(how) ==
    /\ mode' = how
    /\ pc' = "begin"
    /\ ranges' = <<>>
    /\ scanned' = {}
    /\ matched' = {}
    /\ consent' = FALSE
    /\ outcome' = "none"

\* The operator starts the command line, or calls execute().
Start(s) ==
    /\ pc = "idle" /\ run < setting.runs
    /\ ~Refused(s)
    /\ Traverse(IF setting.cli THEN "dry" ELSE "execute")
    /\ run' = run + 1
    /\ sel' = s
    /\ plan' = NoPlan
    /\ UNCHANGED <<setting, topics, limits, reader, effects, toCommit>>

\* --execute, and the prompt with the count of the dry run answered yes, or --yes.
Accept ==
    /\ pc = "asked"
    /\ Traverse("execute")
    /\ UNCHANGED <<setting, topics, run, sel, limits, reader, plan, effects, toCommit>>

\* No --execute, or the prompt is answered no.
Abort ==
    /\ pc = "asked"
    /\ pc' = "idle"
    /\ outcome' = "declined"
    /\ UNCHANGED <<setting, topics, traversal, effects, toCommit>>

-----------------------------------------------------------------------------
(* resolve(): one step per answer of Kafka                                 *)

AskBegin ==
    /\ pc = "begin"
    /\ limits' = [limits EXCEPT !.begin = BeginningOffsets(begin)]
    /\ pc' = "end"
    /\ UNCHANGED <<setting, topics, mode, run, sel, ranges, reader, scanned, matched, plan,
                   consent, effects, toCommit, outcome>>

AfterSince == IF sel.until # None THEN "until" ELSE "resolved"
AfterEnd == IF sel.since # None THEN "since" ELSE AfterSince

AskEnd ==
    /\ pc = "end"
    /\ limits' = [limits EXCEPT !.end = EndOffsets(source)]
    /\ ranges' = [p \in Chosen(sel) |-> Bounded(sel, p, limits.begin[p], limits'.end[p])]
    /\ pc' = AfterEnd
    /\ UNCHANGED <<setting, topics, mode, run, sel, reader, scanned, matched, plan, consent,
                   effects, toCommit, outcome>>

Found(p, t) == OffsetForTime(source[p], begin[p], t)

AskSince ==
    /\ pc = "since"
    /\ ranges' = [p \in DOMAIN ranges |->
                     From(ranges[p], Found(p, sel.since), limits.end[p])]
    /\ pc' = AfterSince
    /\ UNCHANGED <<setting, topics, mode, run, sel, limits, reader, scanned, matched, plan,
                   consent, effects, toCommit, outcome>>

AskUntil ==
    /\ pc = "until"
    /\ ranges' = [p \in DOMAIN ranges |->
                     Until(ranges[p], Found(p, sel.until), limits.end[p])]
    /\ pc' = "resolved"
    /\ UNCHANGED <<setting, topics, mode, run, sel, limits, reader, scanned, matched, plan,
                   consent, effects, toCommit, outcome>>

Resolution ==
    [p \in DOMAIN ranges |-> Clipped(ranges[p], limits.begin[p], limits.end[p])]

\* The most records this replay can produce, as _traverse bounds it.
Bound(resolved) ==
    IF sel.max = None THEN TotalRecords(resolved) ELSE Min({sel.max, TotalRecords(resolved)})

NeedsConsent(resolved) ==
    mode = "execute" /\ Bound(resolved) > ConfirmAbove /\ ~setting.yes

\* reader.read(): assign the partition and seek to the start of its range; the
\* mutant seeks to the record before it.
SeekBefore(p, resolved) ==
    [p |-> p, next |-> resolved[p].start - 1, got |-> resolved[p].start - 1]
Seek(p, resolved) == [p |-> p, next |-> resolved[p].start, got |-> resolved[p].start]

\* The range is known, and confirmed if it must be: read its first partition.
Enter ==
    /\ pc = "resolved"
    /\ ranges' = Resolution
    /\ consent' = NeedsConsent(Resolution)
    /\ reader' = Seek(Min(DOMAIN ranges), Resolution)
    /\ pc' = "reading"
    /\ UNCHANGED <<setting, topics, mode, run, sel, limits, scanned, matched, plan, effects,
                   toCommit, outcome>>

\* ConfirmationRequired: nobody to ask, or the answer is no.
Decline ==
    /\ pc = "resolved"
    /\ NeedsConsent(Resolution)
    /\ pc' = "idle"
    /\ outcome' = "declined"
    /\ UNCHANGED <<setting, topics, traversal, effects, toCommit>>

-----------------------------------------------------------------------------
(* _traverse(): reading                                                    *)

\* What getmany has returned and the reader has not yielded.
Batch == Records(source[reader.p], reader.next, reader.got)

MaxReached == sel.max # None /\ Cardinality(matched) >= sel.max

\* The reader returns: a record at the end, or nothing and its position there.
\* The mutant waits for a record.
ExhaustedAtRecord(end) == reader.next >= end \/ (Batch # {} /\ Min(Batch) >= end)
Exhausted(end) ==
    \/ reader.next >= end
    \/ Batch = {} /\ reader.got >= end
    \/ Batch # {} /\ Min(Batch) >= end

\* ... or the loop breaks on the record after the last one it may take.
RangeOver == Exhausted(ranges[reader.p].end) \/ (Batch # {} /\ MaxReached)

\* getmany: some records from the position on, or none of them are left.  A
\* position that retention has dropped is reset by the consumer.
Fetch ==
    /\ pc = "reading" /\ ~RangeOver /\ Batch = {}
    /\ LET end == Len(source[reader.p]) + 1
           first == begin[reader.p]
       IN \/ /\ reader.got >= first
             /\ \E q \in (reader.got + 1)..end :
                    reader' = [p |-> reader.p, next |-> reader.got, got |-> q]
          \/ /\ reader.got < first
             /\ LET to == IF setting.reset = "latest" THEN end ELSE first
                IN reader' = [p |-> reader.p, next |-> to, got |-> to]
    /\ UNCHANGED <<setting, topics, pc, mode, run, sel, limits, ranges, scanned, matched,
                   plan, consent, effects, toCommit, outcome>>

CountStops(rec) ==
    /\ ReplayCount \in DOMAIN rec.headers
    /\ \/ rec.headers[ReplayCount] = Unreadable
       \/ rec.headers[ReplayCount] >= MaxReplayCount

\* ReplayRunner._skip_reason: the three reasons to leave a record alone.  The
\* mutant has one of them only when it really replays.
SkipsWhenReal(rec) == ~Matches(sel, rec) \/ (mode = "execute" /\ CountStops(rec))
Skips(rec) == ~Matches(sel, rec) \/ CountStops(rec)

\* One record is yielded: skipped, counted by a dry run, or handed to the producer.
Yield ==
    /\ pc = "reading" /\ ~RangeOver /\ Batch # {}
    /\ LET o == Min(Batch)
           skip == Skips(source[reader.p][o])
       IN /\ reader' = [reader EXCEPT !.next = o + 1]
          /\ scanned' = scanned \cup {<<reader.p, o>>}
          /\ matched' = IF skip THEN matched ELSE matched \cup {<<reader.p, o>>}
          /\ pc' = IF skip \/ mode = "dry" THEN "reading" ELSE "sending"
    /\ UNCHANGED <<setting, topics, mode, run, sel, limits, ranges, plan, consent, effects,
                   toCommit, outcome>>

Later == {p \in DOMAIN ranges : p > reader.p}

NextRange ==
    /\ pc = "reading" /\ RangeOver
    /\ Later # {}
    /\ reader' = Seek(Min(Later), ranges)
    /\ UNCHANGED <<setting, topics, pc, mode, run, sel, limits, ranges, scanned, matched,
                   plan, consent, effects, toCommit, outcome>>

\* The end of a dry run: the plan is printed, and the operator asked.
Report ==
    /\ pc = "reading" /\ RangeOver
    /\ Later = {} /\ mode = "dry"
    /\ plan' = [ranges |-> ranges, matched |-> matched, limits |-> limits]
    /\ pc' = "asked"
    /\ UNCHANGED <<setting, topics, mode, run, sel, limits, ranges, reader, scanned, matched,
                   consent, effects, toCommit, outcome>>

\* The end of execute(): return the result, or commit first.
Finish ==
    /\ pc = "reading" /\ RangeOver
    /\ Later = {} /\ mode = "execute"
    /\ toCommit' = IF setting.commit THEN {x[1] : x \in scanned} ELSE {}
    /\ pc' = IF toCommit' = {} THEN "idle" ELSE "committing"
    /\ outcome' = IF toCommit' = {} THEN "done" ELSE outcome
    /\ UNCHANGED <<setting, topics, traversal, effects>>

-----------------------------------------------------------------------------
(* _traverse(): producing, auditing, committing                            *)

At == <<reader.p, reader.next - 1>>

\* The line of the audit file: the replay, and where its record was read.
Entry == <<run, At[1], At[2]>>
Current == source[At[1]][At[2]]

Replays(rec) ==
    IF ReplayCount \in DOMAIN rec.headers THEN rec.headers[ReplayCount] ELSE 0

\* ReplayRunner._build: the replay count goes up, nothing else is changed.
Build(rec) ==
    [id |-> rec.id, ts |-> rec.ts, hops |-> rec.hops + 1,
     headers |-> [n \in DOMAIN rec.headers \cup {ReplayCount} |->
                     IF n = ReplayCount THEN Replays(rec) + 1 ELSE rec.headers[n]]]

\* Timestamps are the producer's, or the broker's and then never decrease.
Stamps(log) ==
    IF setting.ordered
    THEN {t \in Times : \A o \in DOMAIN log : log[o].ts <= t}
    ELSE Times

Appended(rec) ==
    LET p == PartitionOf[rec.id]
    IN \E t \in Stamps(source[p]) :
           source' = [source EXCEPT ![p] = Append(@, [rec EXCEPT !.ts = t])]

\* The record reaches the target topic.
Deliver ==
    /\ pc = "sending"
    /\ target' = target \cup {[run |-> run, p |-> At[1], o |-> At[2], rec |-> Build(Current)]}
    /\ IF setting.same THEN Appended(Build(Current)) ELSE UNCHANGED source
    /\ pc' = "landed"
    /\ UNCHANGED <<setting, begin, traversal, effects, toCommit, outcome>>

\* send() returns, the audit line is written, the loop goes on.
Sent ==
    /\ pc = "landed"
    /\ sent' = sent \cup {Entry}
    /\ trail' = IF setting.audit THEN trail \cup {Entry} ELSE trail
    /\ pc' = "reading"
    /\ UNCHANGED <<setting, topics, traversal, committed, toCommit, outcome>>

\* The line cannot be written: the exception ends the replay.  The mutant goes on.
AuditFailsQuietly ==
    /\ pc = "landed" /\ setting.audit
    /\ sent' = sent \cup {Entry}
    /\ pc' = "reading"
    /\ UNCHANGED <<setting, topics, traversal, trail, committed, toCommit, outcome>>
AuditFails ==
    /\ pc = "landed" /\ setting.audit
    /\ sent' = sent \cup {Entry}
    /\ pc' = "idle"
    /\ outcome' = "failed"
    /\ UNCHANGED <<setting, topics, traversal, trail, committed, toCommit>>

\* A call of Kafka raises, a send also after its record landed; or the process
\* is killed.
Fail ==
    /\ pc \notin {"idle", "asked"}
    /\ pc' = "idle"
    /\ outcome' = "failed"
    /\ toCommit' = {}
    /\ UNCHANGED <<setting, topics, traversal, effects>>

\* last_offset: of the last record read; the mutant commits the end of the range.
LastOffsetResolved(p) == ranges[p].end - 1
LastOffset(p) == Max({x[2] : x \in {y \in scanned : y[1] = p}})

\* reader.commit() of one partition.
CommitOffset ==
    /\ pc = "committing"
    /\ LET p == Min(toCommit)
       IN /\ committed' = [committed EXCEPT ![p] = LastOffset(p) + 1]
          /\ toCommit' = toCommit \ {p}
    /\ pc' = IF toCommit' = {} THEN "idle" ELSE "committing"
    /\ outcome' = IF toCommit' = {} THEN "done" ELSE outcome
    /\ UNCHANGED <<setting, topics, traversal, sent, trail>>

-----------------------------------------------------------------------------
(* What goes on around the command                                         *)

\* DlqRouter.build drops the old diagnosis but for the replay count, which its
\* mutant drops too.
KeptUncounted(rec) == DOMAIN rec.headers \ HeaderNames
Kept(rec) == DOMAIN rec.headers \ (HeaderNames \ {ReplayCount})

\* What is kept, and the new diagnosis.
Routed(rec) ==
    [rec EXCEPT !.headers = [n \in Kept(rec) \cup {Diagnosis} |->
                                IF n = Diagnosis THEN ErrorOf[rec.id] ELSE rec.headers[n]]]

HasRoom(id) == Len(source[PartitionOf[id]]) < setting.length

\* A message is dead-lettered for the first time.
Arrive(id) ==
    /\ HasRoom(id)
    /\ Appended(Routed([id |-> id, headers |-> <<>>, hops |-> 0, ts |-> 0]))
    /\ UNCHANGED <<setting, begin, target, pc, traversal, effects, toCommit, outcome>>

\* A consumer of the target fails at a replayed record and routes it.  It may do
\* so again when it dies before it commits its own offset.
DeadLetter(x) ==
    /\ ~setting.same
    /\ HasRoom(x.rec.id)
    /\ Appended(Routed(x.rec))
    /\ UNCHANGED <<setting, begin, target, pc, traversal, effects, toCommit, outcome>>

\* Retention drops the oldest offset of a partition.
Trim(p) ==
    /\ setting.trims
    /\ begin[p] <= Len(source[p])
    /\ begin' = [begin EXCEPT ![p] = @ + 1]
    /\ UNCHANGED <<setting, source, target, pc, traversal, effects, toCommit, outcome>>

Resolve == AskBegin \/ AskEnd \/ AskSince \/ AskUntil
Read == Fetch \/ Yield \/ NextRange \/ Report \/ Finish
Produce == Deliver \/ Sent \/ CommitOffset
Operator == (\E s \in setting.selections : Refuse(s) \/ Start(s)) \/ Accept \/ Abort \/ Decline
Faults == AuditFails \/ Fail
Around == (\E id \in Ids : Arrive(id)) \/ (\E x \in target : DeadLetter(x))
              \/ (\E p \in Partitions : Trim(p))

Next == Operator \/ Resolve \/ Enter \/ Read \/ Produce \/ Faults \/ Around

Spec == Init /\ [][Next]_vars

\* Kafka answers every call in the end, with what it was asked for.
FairSpec == Spec /\ WF_vars(Resolve \/ Enter \/ Read \/ Produce)

-----------------------------------------------------------------------------
(* Properties                                                              *)

Completed == pc = "idle" /\ outcome = "done"

\* The records that landed on the target in this replay.
Landed == {<<x.p, x.o>> : x \in {y \in target : y.run = run}}

Replayable(rec) == Replays(rec) \in 0..MaxReplayCount - 1

\* What a selection asks for, said without begin, end or resolving anything.
AsksFor(s, p, o) ==
    /\ p \in Chosen(s)
    /\ p \in DOMAIN s.from => s.from[p] <= o
    /\ p \in DOMAIN s.to => o < s.to[p]
    /\ Matches(s, source[p][o])

InTime(s, rec) ==
    /\ s.since # None => s.since <= rec.ts
    /\ s.until # None => rec.ts < s.until

\* The timestamps of p never decrease before offset e.
InOrder(p, e) ==
    \A a, b \in Records(source[p], 1, e) : a <= b => source[p][a].ts <= source[p][b].ts

\* Retention did not race the reader, or the consumer starts again at the beginning.
NoJump == setting.trims => setting.reset = "earliest"

\* A record is never replayed more often than max_replay_count along any chain
\* of replay, failure, dead letter and replay, whoever rebuilds its headers on
\* the way (runner.py _skip_reason and _build, dlq.py build).
PoisonStops ==
    /\ \A x \in target : x.rec.hops <= MaxReplayCount
    /\ \A p \in Partitions : \A o \in DOMAIN source[p] : source[p][o].hops <= MaxReplayCount

\* A replay that completes has produced every record the selection asks for that
\* was there when the end was read, is there still, and passes the replay count;
\* whatever arrives or is dropped between the calls of resolve() and of read().
\* (An upper bound on time is only as good as the order of the timestamps.)
NothingMissed ==
    Completed /\ sel.max = None /\ NoJump =>
        \A p \in DOMAIN ranges :
            sel.until = None \/ InOrder(p, limits.end[p]) =>
               \A o \in Records(source[p], begin[p], limits.end[p]) :
                   AsksFor(sel, p, o) /\ InTime(sel, source[p][o]) /\ Replayable(source[p][o])
                       => <<run, p, o>> \in sent

\* A replay produces only what its selection asks for and was there when it read
\* the end of the log: never its own copies, nor what arrived since.
OnlySelected ==
    \A x \in Landed :
        /\ AsksFor(sel, x[1], x[2])
        /\ Replayable(source[x[1]][x[2]])
        /\ x[2] < limits.end[x[1]]
        /\ InOrder(x[1], limits.end[x[1]]) => InTime(sel, source[x[1]][x[2]])

\* as_selection() of a printed plan resolves, on the topic as it has become
\* since, to the same records without those retention has dropped; unless the
\* plan was empty, when it cannot be resolved at all (selector.py as_selection).
PlanReproducible ==
    plan # NoPlan =>
        LET again == AsSelection(sel, plan.ranges)
            active == ActiveIn(plan.ranges)
        IN /\ Resolvable(again) <=> active # {}
           /\ Chosen(again) = active
           /\ \A p \in active :
                  LET now == ResolvedByOffset(again, p, begin[p], Len(source[p]) + 1)
                  IN Records(source[p], now.start, now.end) =
                         Records(source[p], Max({plan.ranges[p].start, begin[p]}),
                                 plan.ranges[p].end)

\* The audit file tells what a replay produced: no line for a record that is not
\* on the target, at most one record without a line, the one at which the replay
\* ended, and none once it completed (audit.py, runner.py _traverse).
TrailAccurate ==
    setting.audit =>
        \A n \in 1..run :
            LET landed == {<<x.p, x.o>> : x \in {y \in target : y.run = n}}
                lines == {<<x[2], x[3]>> : x \in {y \in trail : y[1] = n}}
            IN /\ lines \subseteq landed
               /\ Cardinality(landed \ lines) <= 1
               /\ n = run /\ Completed => landed = lines

\* An offset that --commit has committed leaves nothing of the replay behind it:
\* every record of the range below it was read, and produced unless it was
\* skipped for a reason (runner.py _traverse, last_offset).
CommitIsHandled ==
    setting.commit /\ mode = "execute" /\ (pc = "committing" \/ Completed) =>
        \A p \in {x[1] : x \in scanned} \ toCommit :
            /\ committed[p] > None
            /\ \A o \in Records(source[p], Max({ranges[p].start, begin[p]}), committed[p]) :
                   /\ <<p, o>> \in scanned
                   /\ Skips(source[p][o]) \/ <<run, p, o>> \in sent

\* What the operator agreed to after the dry run is replayed, and what is
\* replayed besides arrived after the dry run had read the end of the log
\* (cli.py _run: the second traversal resolves everything again).
ConfirmedIsReplayed ==
    Completed /\ setting.cli /\ sel.max = None /\ NoJump
        /\ (setting.trims => \A p \in Partitions : InOrder(p, Len(source[p]) + 1)) =>
        /\ \A x \in plan.matched : x[2] >= begin[x[1]] => x \in matched
        /\ \A x \in matched \ plan.matched : x[2] >= plan.limits.end[x[1]]

\* Nobody is surprised by a large replay: more than confirm_above records are
\* produced only after somebody saw the resolved ranges and agreed, or --yes
\* (runner.py _traverse: the bound is on offsets, taken before anything is read).
ConsentCoversSent ==
    mode = "execute" /\ Cardinality(Landed) > ConfirmAbove => consent \/ setting.yes

\* A traversal ends, on a range that ends in a gap, on a topic that grows, and
\* on one that grows by the replay itself (reader_aiokafka.py read).
TraversalEnds == pc \notin {"idle", "asked"} ~> pc \in {"idle", "asked"}

=============================================================================
