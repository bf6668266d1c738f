---------------------------- MODULE ReplayProofs ----------------------------
(***************************************************************************)
(* ReplayRunner, for any logs, partitions, selections and options, any     *)
(* number of replays: poison stops, a replay produces what was asked for,  *)
(* what was agreed to, and nothing else, the audit file and the committed  *)
(* offsets tell the truth about it, and a printed plan can be run again.   *)
(***************************************************************************)
EXTENDS ReplayRunner, FiniteSetTheorems, WellFoundedInduction, TLAPS

\* A traversal is under way, or has completed and nothing came after it.
Live == pc # "idle" \/ outcome = "done"

\* resolve() has a range for every partition; the reader is reading them.
Ranged == Live /\ pc \notin {"begin", "end"}
Resolved == Ranged /\ pc \notin {"since", "until", "resolved"}
Reading == pc \in {"reading", "sending", "landed"}

\* A record of partition p at offset o, also when retention has dropped it.
IsThere(p, o) == o \in DOMAIN source[p] /\ ~IsGap(source[p][o])

\* ... that retention has not dropped and resolve() could know of.
IsKnown(p, o) == IsThere(p, o) /\ begin[p] <= o /\ o < limits.end[p]

Scanned(p, o) == <<p, o>> \in scanned

-----------------------------------------------------------------------------
(* The inductive invariant, part by part                                   *)

\* What resolve() was told is still true of the part of the log it was about.
LimitsSound ==
    \A p \in Partitions :
        /\ begin[p] <= Len(source[p]) + 1
        /\ limits.begin[p] <= begin[p]
        /\ limits.end[p] <= Len(source[p]) + 1
        /\ ~setting.trims => begin[p] = 1

\* A run that is live was not refused, and has a range for every partition.
Started == pc # "idle" \/ outcome = "done" => run >= 1 /\ Resolvable(sel)
Shaped ==
    /\ Ranged => DOMAIN ranges = Chosen(sel)
    /\ Reading => reader.p \in DOMAIN ranges /\ \A p \in DOMAIN ranges : ranges[p].start \in Offsets
    /\ pc \in {"begin", "end", "since", "until", "resolved"} => scanned = {}

\* The record at hand was matched.
AtSound == pc \in {"sending", "landed"} => At \in matched

\* What was read, and what was replayed, is in the log.
Placed ==
    /\ \A x \in scanned : IsThere(x[1], x[2])
    /\ \A x \in target : x.run <= run /\ IsThere(x.p, x.o) /\ x.rec.id \in Ids

\* Offsets are committed of what was read, and at no other time.
CommitShaped ==
    /\ toCommit \subseteq {x[1] : x \in scanned}
    /\ toCommit # {} <=> pc = "committing"

TypeInv == TypeOK /\ LimitsSound /\ Started /\ Shaped /\ AtSound /\ Placed /\ CommitShaped

\* Only execute() produces.
ModeSound ==
    /\ pc \in {"sending", "landed", "committing"} \/ Completed => mode = "execute"
    /\ pc = "asked" => mode = "dry"
    /\ pc = "since" => sel.since # None
    /\ pc = "until" => sel.until # None

RangesShaped ==
    Resolved =>
        \A p \in DOMAIN ranges :
            limits.begin[p] <= ranges[p].start /\ ranges[p].end <= limits.end[p]

\* A range starts where it was asked to, or later, and skips nothing asked for.
StartSound ==
    Ranged => \A p \in DOMAIN ranges :
        /\ p \in DOMAIN sel.from => sel.from[p] <= ranges[p].start
        /\ sel.since # None /\ pc # "since" =>
               \/ limits.end[p] <= ranges[p].start
               \/ \E o \in DOMAIN source[p] :
                      IsThere(p, o) /\ o <= ranges[p].start /\ sel.since <= source[p][o].ts
StartComplete ==
    Ranged => \A p \in DOMAIN ranges : \A o \in DOMAIN source[p] :
        /\ IsKnown(p, o)
        /\ p \in DOMAIN sel.from => sel.from[p] <= o
        /\ sel.since # None => sel.since <= source[p][o].ts
        => ranges[p].start <= o

\* Nothing up to o is too late for the selection.
Before(p, o) ==
    sel.until # None =>
        \A a \in DOMAIN source[p] : IsThere(p, a) /\ a <= o => source[p][a].ts < sel.until

\* The same for where it ends.
EndSound ==
    Ranged => \A p \in DOMAIN ranges :
        /\ p \in DOMAIN sel.to => ranges[p].end <= sel.to[p]
        /\ sel.until # None /\ pc \notin {"since", "until"} =>
               \A o \in DOMAIN source[p] :
                   IsKnown(p, o) /\ o < ranges[p].end => source[p][o].ts < sel.until
EndComplete ==
    Ranged => \A p \in DOMAIN ranges : \A o \in DOMAIN source[p] :
        /\ IsKnown(p, o)
        /\ p \in DOMAIN sel.to => o < sel.to[p]
        /\ Before(p, o)
        => o < ranges[p].end

\* The reader is in one of the ranges, and what it holds is in the log.
ReaderSound ==
    Reading =>
        /\ ranges[reader.p].start <= reader.next
        /\ reader.next <= reader.got
        /\ reader.next = reader.got \/ reader.got <= Len(source[reader.p]) + 1
        /\ sel.until # None =>
               \A o \in DOMAIN source[reader.p] :
                   /\ IsThere(reader.p, o) /\ reader.next <= o /\ o < reader.got
                   /\ o < ranges[reader.p].end
                   => source[reader.p][o].ts < sel.until

\* What was read is in the ranges, behind the reader, and was judged by _skip_reason.
ScanSound ==
    Live => \A x \in scanned :
        /\ x[1] \in DOMAIN ranges
        /\ ranges[x[1]].start <= x[2] /\ x[2] < ranges[x[1]].end
        /\ sel.until # None => source[x[1]][x[2]].ts < sel.until
        /\ x \in matched <=> ~Skips(source[x[1]][x[2]])
        /\ Reading => x[1] <= reader.p /\ (x[1] = reader.p => x[2] < reader.next)

\* Nothing of a range was left out before something that was read ...
ScanDense ==
    Live => \A x \in scanned : \A o \in DOMAIN source[x[1]] :
        /\ IsThere(x[1], o) /\ ranges[x[1]].start <= o /\ begin[x[1]] <= o /\ o < x[2]
        => Scanned(x[1], o)

\* ... nor before the reader, unless it was thrown beyond the range, ...
ReaderDense ==
    Reading => \A o \in DOMAIN source[reader.p] :
        /\ IsThere(reader.p, o) /\ ranges[reader.p].start <= o /\ begin[reader.p] <= o
        /\ o < reader.next /\ o < ranges[reader.p].end
        /\ NoJump \/ reader.next < ranges[reader.p].end
        => Scanned(reader.p, o)

\* ... nor in the partitions it has left.
Covered(p) ==
    \A o \in DOMAIN source[p] :
        IsThere(p, o) /\ ranges[p].start <= o /\ begin[p] <= o /\ o < ranges[p].end
            => Scanned(p, o)
RangesCovered ==
    NoJump /\ sel.max = None =>
        /\ Reading => \A p \in DOMAIN ranges : p < reader.p => Covered(p)
        /\ pc = "committing" \/ Completed => \A p \in DOMAIN ranges : Covered(p)

\* What landed and what was sent, while the run is live.
SentNow == {<<x[2], x[3]>> : x \in {y \in sent : y[1] = run}}
Produced == IF mode = "execute" THEN matched ELSE {}
LandedSound ==
    Live => /\ Landed \subseteq Produced
            /\ SentNow \subseteq Landed
            /\ Produced \subseteq Landed \cup (IF pc = "sending" THEN {At} ELSE {})
            /\ Landed \subseteq SentNow \cup (IF pc = "landed" THEN {At} ELSE {})

\* Runs are numbered as they start.
RunsBounded == \A x \in sent : x[1] <= run

\* The audit file of every run so far.
LandedIn(n) == {<<x.p, x.o>> : x \in {y \in target : y.run = n}}
Lines(n) == {<<x[2], x[3]>> : x \in {y \in trail : y[1] = n}}
AuditSound ==
    setting.audit =>
        /\ \A n \in 1..run :
              /\ Lines(n) \subseteq LandedIn(n)
              /\ \A x, y \in LandedIn(n) \ Lines(n) : x = y
        /\ Live => LandedIn(run) \subseteq
                       Lines(run) \cup (IF pc = "landed" THEN {At} ELSE {})

\* The header counts what really happened.
CountCovers(rec) ==
    /\ rec.hops <= MaxReplayCount
    /\ rec.hops = 0 \/ (ReplayCount \in DOMAIN rec.headers /\ rec.hops <= rec.headers[ReplayCount])
HopsCounted ==
    /\ \A x \in target : CountCovers(x.rec)
    /\ \A p \in Partitions : \A o \in DOMAIN source[p] : CountCovers(source[p][o])

\* An offset is committed behind a record that was read.
CommitSound ==
    setting.commit /\ (pc = "committing" \/ Completed) =>
        \A p \in {x[1] : x \in scanned} \ toCommit :
            \E x \in scanned : x[1] = p /\ committed[p] = x[2] + 1

\* What a dry run printed still holds when the replay runs: it lists records that
\* the selection asks for, and all that were there and will be read again.
After(p, o) ==
    sel.since # None =>
        \E a \in DOMAIN source[p] : IsThere(p, a) /\ a <= o /\ sel.since <= source[p][a].ts
Asked(p, o) == IsThere(p, o) /\ AsksFor(sel, p, o) /\ Replayable(source[p][o])
Picked(p, o) ==
    /\ Asked(p, o) /\ After(p, o)
    /\ sel.until # None => source[p][o].ts < sel.until
    /\ ~setting.trims => Before(p, o)
Wanted(p, o) ==
    /\ Asked(p, o) /\ Before(p, o)
    /\ sel.since # None =>
           sel.since <= source[p][o].ts \/ (~setting.trims /\ After(p, o))

Planned == Live /\ setting.cli /\ (mode = "execute" \/ pc = "asked")
Horizon(p) == IF pc \in {"asked", "begin"} THEN begin[p] ELSE limits.begin[p]
PlanKept ==
    Planned =>
        /\ \A p \in Partitions :
               /\ plan.limits.end[p] \in Nat /\ plan.limits.end[p] <= Len(source[p]) + 1
               /\ pc \notin {"asked", "begin", "end"} => plan.limits.end[p] <= limits.end[p]
        /\ \A x \in plan.matched :
               x \in Places /\ Picked(x[1], x[2]) /\ x[2] < plan.limits.end[x[1]]
        /\ NoJump /\ sel.max = None =>
               \A p \in Partitions : \A o \in DOMAIN source[p] :
                   /\ Horizon(p) <= o /\ o < plan.limits.end[p]
                   /\ Wanted(p, o)
                   => <<p, o>> \in plan.matched

PlanSound ==
    DOMAIN plan.ranges \subseteq Partitions /\ \A p \in DOMAIN plan.ranges : plan.ranges[p] \in Spans

\* What a replay may produce is bounded by max_messages, and was agreed to.
MaxKept == Live /\ sel.max # None => IsFiniteSet(matched) /\ Cardinality(matched) <= sel.max
Agreed ==
    Resolved /\ mode = "execute" => consent \/ setting.yes \/ Bound(ranges) <= ConfirmAbove
LeftAgreed == ~Live => ConsentCoversSent
ConsentInv == MaxKept /\ Agreed /\ LeftAgreed

-----------------------------------------------------------------------------
(* Min and Max of FiniteSetsExt, and the operators built from them         *)

LEMMA MinNat ==
    ASSUME NEW S \in SUBSET Nat, S # {}
    PROVE  Min(S) \in S /\ \A y \in S : Min(S) <= y
  <1>1. PICK x \in S : \A y \in S : ~(<<y, x>> \in OpToRel(<, Nat))
    BY NatLessThanWellFounded, WFMin, Zenon
  <1>2. \A y \in S : ~(y < x)
    BY <1>1, Zenon DEF OpToRel
  <1>3. \A y \in S : x <= y
    BY <1>2
  <1>4. QED
    BY <1>1, <1>3 DEF Min

LEMMA MaxNat ==
    ASSUME NEW S \in SUBSET Nat, S # {}, NEW n \in Nat, \A y \in S : y <= n
    PROVE  Max(S) \in S /\ \A y \in S : y <= Max(S)
  <1> DEFINE T == {n - y : y \in S}
  <1>1. T \in SUBSET Nat /\ T # {}
    <2>1. \A y \in S : n - y \in Nat
      OBVIOUS
    <2>2. QED
      BY <2>1
  <1>2. Min(T) \in T /\ \A z \in T : Min(T) <= z
    BY <1>1, MinNat
  <1>3. PICK x \in S : Min(T) = n - x
    BY <1>2
  <1>4. \A y \in S : n - x <= n - y
    BY <1>2, <1>3
  <1>5. \A y \in S : y <= x
    BY <1>4
  <1>6. QED
    BY <1>3, <1>5 DEF Max

LEMMA MinPair ==
    ASSUME NEW x \in Int, NEW y \in Int
    PROVE  Min({x, y}) = IF x <= y THEN x ELSE y
  BY DEF Min

LEMMA MaxPair ==
    ASSUME NEW x \in Int, NEW y \in Int
    PROVE  Max({x, y}) = IF x <= y THEN y ELSE x
  BY DEF Max

LEMMA ClippedRange ==
    ASSUME NEW r \in Spans, NEW b \in Int, NEW e \in Int
    PROVE  /\ Clipped(r, b, e) \in Spans
           /\ Clipped(r, b, e).start = IF r.start <= b THEN b ELSE r.start
           /\ Clipped(r, b, e).end = IF r.end <= e THEN r.end ELSE e
  <1>1. r.start \in Int /\ r.end \in Int
    BY DEF Spans
  <1>2. QED
    BY <1>1, MinPair, MaxPair DEF Clipped, Span, Spans

LEMMA CountPositive ==
    ASSUME NEW r \in Spans
    PROVE  Count(r) > 0 <=> r.start < r.end
  <1>1. r.start \in Int /\ r.end \in Int /\ r.end - r.start \in Int
    BY DEF Spans
  <1>2. QED
    BY <1>1, MaxPair DEF Count

-----------------------------------------------------------------------------
(* total_records: the prover cannot do induction over data, so the fold is *)
(* unfolded and reasoned about with the smallest counterexample            *)

\* The sum over a set of partitions takes one out and goes on.
Any(s) == CHOOSE p \in s : TRUE
SumStep(rs, h, s) == IF s = {} THEN 0 ELSE Count(rs[Any(s)]) + h[s \ {Any(s)}]
IsSum(rs, h) == h = [s \in SUBSET DOMAIN rs |-> SumStep(rs, h, s)]

LEMMA TotalIsSum ==
    ASSUME NEW rs PROVE TotalRecords(rs) = (CHOOSE h : IsSum(rs, h))[DOMAIN rs]
  BY DEF TotalRecords, FoldFunction, FoldFunctionOnSet, MapThenFoldSet, IsSum, SumStep, Any

\* A function that is a sum on all sets of up to n partitions.
SumUpTo(rs, n, h) ==
    /\ h = [s \in SUBSET DOMAIN rs |-> h[s]]
    /\ \A s \in SUBSET DOMAIN rs : Cardinality(s) <= n => h[s] = SumStep(rs, h, s)

\* The partition that is taken out.
LEMMA AnyIn ==
    ASSUME NEW S, IsFiniteSet(S), NEW s \in SUBSET S, s # {}
    PROVE  /\ Any(s) \in s /\ s \ {Any(s)} \in SUBSET S
           /\ Cardinality(s) \in Nat \ {0}
           /\ Cardinality(s \ {Any(s)}) = Cardinality(s) - 1
  <1>1. Any(s) \in s
    BY DEF Any
  <1>2. IsFiniteSet(s)
    BY FS_Subset
  <1>3. QED
    BY <1>1, <1>2, FS_RemoveElement, FS_CardinalityType, FS_EmptySet

\* There is a function that is a sum on all sets.
LEMMA SumExists ==
    ASSUME NEW rs, IsFiniteSet(DOMAIN rs) PROVE \E h : IsSum(rs, h)
  <1> DEFINE missing == {n \in Nat : ~\E h : SumUpTo(rs, n, h)}
  <1>1. \E h : SumUpTo(rs, 0, h)
    <2> DEFINE h == [s \in SUBSET DOMAIN rs |-> 0]
    <2>1. ASSUME NEW s \in SUBSET DOMAIN rs, Cardinality(s) <= 0 PROVE s = {}
      <3>1. s # {} => Cardinality(s) \in Nat \ {0}
        BY AnyIn
      <3>2. QED
        BY <2>1, <3>1
    <2>2. SumUpTo(rs, 0, h)
      BY <2>1 DEF SumUpTo, SumStep
    <2>3. QED
      BY <2>2
  <1>2. ASSUME NEW n \in Nat, NEW h, SumUpTo(rs, n, h) PROVE \E g : SumUpTo(rs, n + 1, g)
    <2> DEFINE g == [s \in SUBSET DOMAIN rs |-> SumStep(rs, h, s)]
    <2>1. ASSUME NEW s \in SUBSET DOMAIN rs, Cardinality(s) <= n + 1
          PROVE  g[s] = SumStep(rs, g, s)
      <3>1. CASE s = {}
        BY <3>1 DEF SumStep
      <3>2. CASE s # {}
        <4> DEFINE t == s \ {Any(s)}
        <4>1. t \in SUBSET DOMAIN rs /\ Cardinality(t) <= n
          BY <2>1, <3>2, AnyIn
        <4>2. g[t] = h[t]
          BY <1>2, <4>1 DEF SumUpTo
        <4>3. QED
          BY <3>2, <4>2 DEF SumStep
      <3>3. QED
        BY <3>1, <3>2
    <2>2. SumUpTo(rs, n + 1, g)
      BY <2>1 DEF SumUpTo
    <2>3. QED
      BY <2>2
  <1>3. missing = {}
    <2> SUFFICES ASSUME missing # {} PROVE FALSE
      OBVIOUS
    <2>1. Min(missing) \in missing /\ \A y \in missing : Min(missing) <= y
      BY MinNat
    <2>2. PICK n \in missing : \A y \in missing : n <= y
      BY <2>1
    <2>3. n \in Nat \ {0}
      BY <1>1, <2>2
    <2>4. n - 1 \in Nat /\ n - 1 \notin missing /\ n - 1 + 1 = n
      BY <2>2, <2>3
    <2>5. PICK h : SumUpTo(rs, n - 1, h)
      BY <2>4
    <2>6. \E g : SumUpTo(rs, n, g)
      BY <1>2, <2>4, <2>5
    <2>7. QED
      BY <2>2, <2>6
  <1>4. Cardinality(DOMAIN rs) \in Nat
    BY FS_CardinalityType
  <1>5. PICK h : SumUpTo(rs, Cardinality(DOMAIN rs), h)
    BY <1>3, <1>4
  <1>6. \A s \in SUBSET DOMAIN rs : h[s] = SumStep(rs, h, s)
    BY <1>5, FS_Subset DEF SumUpTo
  <1>7. IsSum(rs, h)
    BY <1>5, <1>6 DEF SumUpTo, IsSum
  <1>8. QED
    BY <1>7

\* Places in the ranges of a set of partitions.
InRanges(rs, X, s) ==
    \A x \in X : /\ x[1] \in s /\ x = <<x[1], x[2]>>
                 /\ x[2] \in Int /\ rs[x[1]].start <= x[2] /\ x[2] < rs[x[1]].end

\* A range holds at most count places.
LEMMA RangeCounts ==
    ASSUME NEW r \in Spans, NEW p, NEW X,
           \A x \in X : x = <<p, x[2]>> /\ x[2] \in Int /\ r.start <= x[2] /\ x[2] < r.end
    PROVE  IsFiniteSet(X) /\ Count(r) \in Nat /\ Cardinality(X) <= Count(r)
  <1>1. r.start \in Int /\ r.end \in Int
    BY DEF Spans
  <1> DEFINE S == r.start .. (r.end - 1)
             T == {<<p, o>> : o \in S}
  <1>2. /\ IsFiniteSet(S)
        /\ Cardinality(S) = IF r.start > r.end - 1 THEN 0 ELSE r.end - 1 - r.start + 1
    BY <1>1, FS_Interval
  <1>3. IsFiniteSet(T) /\ Cardinality(T) <= Cardinality(S)
    <2> DEFINE f == [o \in S |-> <<p, o>>]
    <2>1. f \in Surjection(S, T)
      BY DEF Surjection
    <2>2. QED
      BY <1>2, <2>1, FS_Surjection
  <1>4. X \subseteq T
    BY <1>1
  <1>5. IsFiniteSet(X) /\ Cardinality(X) <= Cardinality(T)
    BY <1>3, <1>4, FS_Subset
  <1>6. Count(r) = IF 0 <= r.end - r.start THEN r.end - r.start ELSE 0
    BY <1>1, MaxPair DEF Count
  <1>7. QED
    BY <1>1, <1>2, <1>3, <1>5, <1>6, FS_CardinalityType

\* ... and it bounds the places in the ranges of a set.
LEMMA SumBounds ==
    ASSUME NEW rs, IsFiniteSet(DOMAIN rs), \A p \in DOMAIN rs : rs[p] \in Spans,
           NEW h, IsSum(rs, h)
    PROVE  \A s \in SUBSET DOMAIN rs : \A X :
               InRanges(rs, X, s) =>
                   IsFiniteSet(X) /\ h[s] \in Nat /\ Cardinality(X) <= h[s]
  <1> DEFINE Good(s) ==
                 \A X : InRanges(rs, X, s) =>
                     IsFiniteSet(X) /\ h[s] \in Nat /\ Cardinality(X) <= h[s]
             bad == {Cardinality(s) : s \in {t \in SUBSET DOMAIN rs : ~Good(t)}}
  <1>0. \A s \in SUBSET DOMAIN rs : h[s] = SumStep(rs, h, s)
    BY DEF IsSum
  <1>1. bad \in SUBSET Nat
    BY FS_Subset, FS_CardinalityType
  <1>2. Good({})
    <2>1. h[{}] = 0
      BY <1>0 DEF SumStep
    <2>2. \A X : InRanges(rs, X, {}) => X = {}
      BY DEF InRanges
    <2>3. QED
      BY <2>1, <2>2, FS_EmptySet
  <1>3. ASSUME NEW s \in SUBSET DOMAIN rs, s # {}, Good(s \ {Any(s)}) PROVE Good(s)
    <2> DEFINE p == Any(s)
               t == s \ {p}
    <2>1. p \in DOMAIN rs /\ rs[p] \in Spans
      BY <1>3, AnyIn
    <2>2. h[s] = Count(rs[p]) + h[t]
      BY <1>0, <1>3 DEF SumStep
    <2> HIDE DEF p
    <2>3. ASSUME NEW X, InRanges(rs, X, s)
          PROVE  IsFiniteSet(X) /\ h[s] \in Nat /\ Cardinality(X) <= h[s]
      <3> DEFINE Y == {x \in X : x[1] = p}
                 Z == {x \in X : x[1] # p}
      <3>1. IsFiniteSet(Y) /\ Count(rs[p]) \in Nat /\ Cardinality(Y) <= Count(rs[p])
        <4>1. \A x \in Y : /\ x = <<p, x[2]>> /\ x[2] \in Int
                            /\ rs[p].start <= x[2] /\ x[2] < rs[p].end
          BY <2>3 DEF InRanges
        <4>2. QED
          BY <2>1, <4>1, RangeCounts
      <3>2. IsFiniteSet(Z) /\ h[t] \in Nat /\ Cardinality(Z) <= h[t]
        <4>1. InRanges(rs, Z, t)
          BY <2>3 DEF InRanges
        <4>2. QED
          BY <1>3, <4>1 DEF p
      <3>3. X = Y \cup Z /\ Y \cap Z = {}
        OBVIOUS
      <3> HIDE DEF Y, Z
      <3>4. /\ IsFiniteSet(X)
            /\ Cardinality(X) = Cardinality(Y) + Cardinality(Z) - Cardinality(Y \cap Z)
        BY <3>1, <3>2, <3>3, FS_Union
      <3>5. Cardinality(Y \cap Z) = 0
        BY <3>3, FS_EmptySet
      <3>6. Cardinality(Y) \in Nat /\ Cardinality(Z) \in Nat
        BY <3>1, <3>2, FS_CardinalityType
      <3>7. QED
        BY <2>2, <3>1, <3>2, <3>4, <3>5, <3>6
    <2>4. QED
      BY <2>3
  <1>4. bad = {}
    <2> SUFFICES ASSUME bad # {} PROVE FALSE
      OBVIOUS
    <2>1. Min(bad) \in bad /\ \A y \in bad : Min(bad) <= y
      BY <1>1, MinNat
    <2>2. PICK s \in SUBSET DOMAIN rs : ~Good(s) /\ Cardinality(s) = Min(bad)
      BY <2>1
    <2>3. s # {}
      BY <1>2, <2>2
    <2> DEFINE t == s \ {Any(s)}
    <2>4. t \in SUBSET DOMAIN rs /\ Cardinality(t) = Cardinality(s) - 1 /\ Cardinality(s) \in Nat
      BY <2>3, AnyIn
    <2>5. ~(Min(bad) <= Cardinality(t))
      BY <2>2, <2>4
    <2>6. Good(t)
      BY <2>1, <2>4, <2>5
    <2>7. QED
      BY <1>3, <2>2, <2>3, <2>6
  <1>5. QED
    BY <1>4

\* The places in a range are at most as many as total_records counts.
LEMMA TotalCovers ==
    ASSUME NEW rs, IsFiniteSet(DOMAIN rs), \A p \in DOMAIN rs : rs[p] \in Spans,
           NEW X, InRanges(rs, X, DOMAIN rs)
    PROVE  IsFiniteSet(X) /\ TotalRecords(rs) \in Nat /\ Cardinality(X) <= TotalRecords(rs)
  <1>1. IsSum(rs, CHOOSE h : IsSum(rs, h))
    BY SumExists
  <1>2. QED
    BY <1>1, TotalIsSum, SumBounds

-----------------------------------------------------------------------------
(* Records and selections                                                  *)

LEMMA HeaderTypes ==
    /\ \A h \in Headers : DOMAIN h \subseteq HeaderNames /\ \A n \in DOMAIN h : h[n] \in Values
    /\ \A D \in SUBSET HeaderNames : [D -> Values] \subseteq Headers
  <1>1. ASSUME NEW h \in Headers
        PROVE  DOMAIN h \subseteq HeaderNames /\ \A n \in DOMAIN h : h[n] \in Values
    BY DEF Headers, HeaderNames
  <1>2. ASSUME NEW D \in SUBSET HeaderNames
        PROVE  [D -> Values] \subseteq Headers
    <2>1. D \in {{}, {ReplayCount}, {Diagnosis}, HeaderNames}
      BY DEF HeaderNames
    <2>2. QED
      BY <2>1 DEF Headers
  <1>3. QED
    BY <1>1, <1>2

LEMMA TimesAreNat == \A t \in Times : t \in Nat \ {0}
  BY SelectorAssumption

LEMMA RecordTypes ==
    ASSUME NEW rec \in LogRecords
    PROVE  /\ rec.id \in Ids \cup {NoId} /\ rec.hops \in Nat /\ rec.ts \in Nat
           /\ DOMAIN rec.headers \subseteq HeaderNames
           /\ \A n \in DOMAIN rec.headers : rec.headers[n] \in Values
           /\ Replays(rec) \in Values
  <1>1. rec.ts \in Nat
    <2>1. rec.ts \in Times \cup {0}
      BY DEF LogRecords
    <2>2. QED
      BY <2>1, TimesAreNat
  <1>2. DOMAIN rec.headers \subseteq HeaderNames
        /\ \A n \in DOMAIN rec.headers : rec.headers[n] \in Values
    BY HeaderTypes DEF LogRecords
  <1>3. Replays(rec) \in Values
    BY <1>2 DEF Replays, Values, Unreadable
  <1>4. QED
    BY <1>1, <1>2, <1>3 DEF LogRecords

LEMMA BuildTypes ==
    ASSUME NEW rec \in LogRecords
    PROVE  /\ Build(rec) \in LogRecords
           /\ Build(rec).id = rec.id /\ Build(rec).hops = rec.hops + 1
           /\ ReplayCount \in DOMAIN Build(rec).headers
           /\ Build(rec).headers[ReplayCount] = Replays(rec) + 1
  <1> DEFINE H == [n \in DOMAIN rec.headers \cup {ReplayCount} |->
                      IF n = ReplayCount THEN Replays(rec) + 1 ELSE rec.headers[n]]
  <1>1. Replays(rec) + 1 \in Values
    BY RecordTypes DEF Values, Unreadable
  <1>2. DOMAIN rec.headers \cup {ReplayCount} \in SUBSET HeaderNames
    BY RecordTypes DEF HeaderNames
  <1>3. H \in [DOMAIN rec.headers \cup {ReplayCount} -> Values]
    BY <1>1, RecordTypes
  <1>4. H \in Headers
    BY <1>2, <1>3, HeaderTypes
  <1>5. Build(rec) = [id |-> rec.id, ts |-> rec.ts, hops |-> rec.hops + 1, headers |-> H]
    BY DEF Build
  <1>6. H[ReplayCount] = Replays(rec) + 1 /\ ReplayCount \in DOMAIN H
    OBVIOUS
  <1> HIDE DEF H
  <1>7. Build(rec) \in LogRecords
    BY <1>4, <1>5 DEF LogRecords
  <1>8. QED
    BY <1>5, <1>6, <1>7

LEMMA RoutedTypes ==
    ASSUME NEW rec \in LogRecords, rec.id \in Ids
    PROVE  /\ Routed(rec) \in LogRecords
           /\ Routed(rec).id = rec.id /\ Routed(rec).hops = rec.hops
           /\ ReplayCount \in DOMAIN rec.headers =>
                  /\ ReplayCount \in DOMAIN Routed(rec).headers
                  /\ Routed(rec).headers[ReplayCount] = rec.headers[ReplayCount]
  <1> DEFINE H == [n \in Kept(rec) \cup {Diagnosis} |->
                      IF n = Diagnosis THEN ErrorOf[rec.id] ELSE rec.headers[n]]
  <1>1. ErrorOf[rec.id] \in Values
    BY ReplayAssumption DEF Values, Unreadable
  <1>2. Kept(rec) \subseteq DOMAIN rec.headers
        /\ Kept(rec) \cup {Diagnosis} \in SUBSET HeaderNames
    BY RecordTypes DEF HeaderNames, Kept
  <1>3. H \in [Kept(rec) \cup {Diagnosis} -> Values]
    BY <1>1, <1>2, RecordTypes
  <1>4. H \in Headers
    BY <1>2, <1>3, HeaderTypes
  <1>5. Routed(rec) = [rec EXCEPT !.headers = H]
    BY DEF Routed
  <1>6. ReplayCount \in DOMAIN rec.headers =>
            ReplayCount \in DOMAIN H /\ H[ReplayCount] = rec.headers[ReplayCount]
    BY DEF Kept, ReplayCount, Diagnosis
  <1> HIDE DEF H
  <1>7. QED
    BY <1>4, <1>5, <1>6 DEF LogRecords

LEMMA SelectionTypes ==
    ASSUME TypeInv
    PROVE  /\ sel.since \in Nat /\ sel.until \in Nat /\ sel.max \in Nat
           /\ \A p \in DOMAIN sel.from : sel.from[p] \in Int
           /\ \A p \in DOMAIN sel.to : sel.to[p] \in Int
           /\ Resolvable(sel) => Chosen(sel) \subseteq Partitions /\ Chosen(sel) # {}
           /\ DOMAIN sel.from # {} => sel.since = None /\ sel.until = None
           /\ DOMAIN sel.to # {} => sel.since = None /\ sel.until = None
  <1>1. IsSelection(sel)
    BY SettingsAssumption DEF TypeInv, TypeOK, IsSetting
  <1>2. Resolvable(sel) => Chosen(sel) \subseteq Partitions /\ Chosen(sel) # {}
    BY DEF Resolvable, Unknown, Chosen
  <1>3. sel.since \in Nat /\ sel.until \in Nat
    BY <1>1, TimesAreNat DEF IsSelection, None
  <1>4. /\ \A p \in DOMAIN sel.from : sel.from[p] \in Int
        /\ \A p \in DOMAIN sel.to : sel.to[p] \in Int
    BY <1>1 DEF IsSelection
  <1>5. QED
    BY <1>1, <1>2, <1>3, <1>4 DEF IsSelection

-----------------------------------------------------------------------------
(* What every step does to the log                                         *)

\* The logs keep what they have; what is new is one record at the end of one.
Grows == \A p \in Partitions :
    /\ Len(source[p]) <= Len(source'[p])
    /\ \A o \in DOMAIN source[p] : source'[p][o] = source[p][o]
GrowsBy(rec) == \A p \in Partitions : \A o \in DOMAIN source'[p] \ DOMAIN source[p] :
    source'[p][o].hops = rec.hops /\ source'[p][o].headers = rec.headers

LEMMA AppendedStep ==
    ASSUME TypeInv, NEW rec \in LogRecords, rec.id \in Ids, Appended(rec)
    PROVE  source' \in Logs /\ Grows /\ GrowsBy(rec)
  <1> DEFINE q == PartitionOf[rec.id]
  <1>1. q \in Partitions
    BY ReplayAssumption
  <1>2. PICK t \in Times : source' = [source EXCEPT ![q] = Append(@, [rec EXCEPT !.ts = t])]
    BY DEF Appended, Stamps
  <1> DEFINE new == [rec EXCEPT !.ts = t]
  <1>3. new \in LogRecords /\ new.hops = rec.hops /\ new.headers = rec.headers
    BY DEF LogRecords
  <1>4. source \in [Partitions -> Seq(LogRecords)]
    BY DEF TypeInv, TypeOK, Logs
  <1> HIDE DEF new, q
  <1>5. source' = [source EXCEPT ![q] = Append(@, new)]
    BY <1>2 DEF new
  <1>6. Append(source[q], new) \in Seq(LogRecords)
    BY <1>1, <1>3, <1>4
  <1>7. source' \in Logs
    BY <1>4, <1>5, <1>6 DEF Logs
  <1>8. \A p \in Partitions : source'[p] = source[p] \/ source'[p] = Append(source[p], new)
    BY <1>1, <1>4, <1>5
  <1>9. ASSUME NEW p \in Partitions
        PROVE  /\ Len(source[p]) <= Len(source'[p])
               /\ \A o \in DOMAIN source[p] : source'[p][o] = source[p][o]
               /\ \A o \in DOMAIN source'[p] \ DOMAIN source[p] : source'[p][o] = new
    <2>1. source[p] \in Seq(LogRecords)
      BY <1>4
    <2>2. QED
      BY <2>1, <1>8, <1>3
  <1>10. Grows
    BY <1>9 DEF Grows
  <1>11. GrowsBy(rec)
    BY <1>9, <1>3 DEF GrowsBy
  <1>12. QED
    BY <1>7, <1>10, <1>11

LEMMA LogTypes ==
    ASSUME TypeInv, NEW p \in Partitions
    PROVE  /\ source[p] \in Seq(LogRecords) /\ Len(source[p]) \in Nat
           /\ DOMAIN source[p] = 1..Len(source[p])
           /\ \A o \in DOMAIN source[p] : source[p][o] \in LogRecords
           /\ begin[p] \in Nat \ {0} /\ limits.begin[p] \in Nat \ {0}
           /\ limits.end[p] \in Nat \ {0} /\ p \in Nat
  <1>1. source \in [Partitions -> Seq(LogRecords)]
    BY DEF TypeInv, TypeOK, Logs
  <1>2. /\ source[p] \in Seq(LogRecords) /\ Len(source[p]) \in Nat
        /\ DOMAIN source[p] = 1..Len(source[p])
        /\ \A o \in DOMAIN source[p] : source[p][o] \in LogRecords
    BY <1>1
  <1>3. /\ begin[p] \in Nat \ {0} /\ limits.begin[p] \in Nat \ {0}
        /\ limits.end[p] \in Nat \ {0}
    BY DEF TypeInv, TypeOK, Offsets
  <1>4. p \in Nat
    BY SelectorAssumption
  <1>5. QED
    BY <1>2, <1>3, <1>4

LEMMA CurrentTypes ==
    ASSUME TypeInv, pc \in {"sending", "landed"}
    PROVE  /\ At \in matched /\ At[1] = reader.p /\ At[2] = reader.next - 1
           /\ At[1] \in Partitions /\ At[2] \in Offsets
           /\ IsThere(At[1], At[2])
           /\ Current = source[At[1]][At[2]]
           /\ Current \in LogRecords /\ Current.id \in Ids
  <1>1. At \in matched /\ At \in scanned /\ At \in Places
    BY DEF TypeInv, TypeOK, AtSound
  <1>2. At[1] \in Partitions /\ At[2] \in Offsets
    BY <1>1 DEF Places
  <1>3. IsThere(At[1], At[2])
    BY <1>1 DEF TypeInv, Placed
  <1>4. Current = source[At[1]][At[2]]
    BY DEF Current
  <1>5. Current \in LogRecords
    BY <1>2, <1>3, <1>4, LogTypes DEF IsThere
  <1>6. Current.id \in Ids
    BY <1>3, <1>4, <1>5, RecordTypes DEF IsThere, IsGap
  <1>7. At[1] = reader.p /\ At[2] = reader.next - 1
    BY DEF At
  <1>8. QED
    BY <1>1, <1>2, <1>3, <1>4, <1>5, <1>6, <1>7

\* The steps of the command that change nothing but what it knows itself.
TopicsStep == Deliver \/ Around
OwnStep == Operator \/ Resolve \/ Enter \/ Read \/ Sent \/ CommitOffset \/ Faults
               \/ UNCHANGED vars

LEMMA StepKinds == [Next]_vars <=> TopicsStep \/ OwnStep
  BY DEF Next, Produce, TopicsStep, OwnStep

LEMMA OwnStepFrame == OwnStep => UNCHANGED <<setting, topics>>
  BY DEF OwnStep, Operator, Refuse, Start, Traverse, Accept, Abort, Decline, Resolve, AskBegin,
     AskEnd, AskSince, AskUntil, Enter, Read, Fetch, Yield, NextRange, Report, Finish, Sent,
     CommitOffset, Faults, AuditFails, Fail, vars, topics

LEMMA AroundFrame ==
    Around => UNCHANGED <<setting, target, pc, traversal, effects, toCommit, outcome>>
  BY DEF Around, Arrive, DeadLetter, Trim

LEMMA AroundCases ==
    ASSUME TypeInv, Around
    PROVE  \/ /\ begin' = begin
              /\ \E rec \in LogRecords :
                     /\ rec.id \in Ids /\ Appended(rec)
                     /\ \/ rec.hops = 0
                        \/ ~setting.same /\ \E x \in target : rec = Routed(x.rec)
           \/ /\ UNCHANGED source /\ setting.trims
              /\ \E p \in Partitions :
                     begin[p] <= Len(source[p]) /\ begin' = [begin EXCEPT ![p] = @ + 1]
  <1>1. ASSUME NEW id \in Ids, Arrive(id)
        PROVE  /\ begin' = begin
               /\ \E rec \in LogRecords : rec.id \in Ids /\ Appended(rec) /\ rec.hops = 0
    <2> DEFINE new == [id |-> id, headers |-> <<>>, hops |-> 0, ts |-> 0]
    <2>1. <<>> \in Headers
      <3>1. <<>> \in [{} -> Values]
        OBVIOUS
      <3>2. QED
        BY <3>1 DEF Headers
    <2>2. new \in LogRecords /\ new.id \in Ids /\ new.hops = 0
      BY <2>1 DEF LogRecords
    <2> HIDE DEF new
    <2>3. Routed(new) \in LogRecords /\ Routed(new).id \in Ids /\ Routed(new).hops = 0
      BY <2>2, RoutedTypes
    <2>4. begin' = begin /\ Appended(Routed(new))
      BY <1>1 DEF Arrive, new
    <2>5. QED
      BY <2>3, <2>4
  <1>2. ASSUME NEW x \in target, DeadLetter(x)
        PROVE  /\ begin' = begin
               /\ \E rec \in LogRecords :
                      rec.id \in Ids /\ Appended(rec) /\ ~setting.same /\ rec = Routed(x.rec)
    <2>1. x.rec \in LogRecords /\ x.rec.id \in Ids
      BY DEF TypeInv, TypeOK, Placed
    <2>2. Routed(x.rec) \in LogRecords /\ Routed(x.rec).id \in Ids
      BY <2>1, RoutedTypes
    <2>3. QED
      BY <1>2, <2>2 DEF DeadLetter
  <1>3. ASSUME NEW p \in Partitions, Trim(p)
        PROVE  /\ UNCHANGED source /\ setting.trims /\ begin[p] <= Len(source[p])
               /\ begin' = [begin EXCEPT ![p] = @ + 1]
    BY <1>3 DEF Trim
  <1>4. QED
    BY <1>1, <1>2, <1>3 DEF Around

LEMMA LogStep ==
    ASSUME TypeInv, [Next]_vars
    PROVE  /\ setting' = setting /\ source' \in Logs /\ Grows
           /\ begin' \in [Partitions -> Offsets]
           /\ \A p \in Partitions : begin[p] <= begin'[p] /\ begin'[p] <= Len(source'[p]) + 1
           /\ ~setting.trims => begin' = begin
  <1>1. /\ source \in Logs /\ begin \in [Partitions -> Offsets]
        /\ \A p \in Partitions : begin[p] <= Len(source[p]) + 1
    BY DEF TypeInv, TypeOK, LimitsSound
  <1>2. ASSUME begin' = begin, source' \in Logs, Grows
        PROVE  \A p \in Partitions : begin[p] <= begin'[p] /\ begin'[p] <= Len(source'[p]) + 1
    <2>1. \A p \in Partitions : Len(source'[p]) \in Nat
      BY <1>2 DEF Logs
    <2>2. QED
      BY <1>1, <1>2, <2>1, LogTypes DEF Grows
  <1>3. UNCHANGED source => source' \in Logs /\ Grows
    BY <1>1, LogTypes DEF Grows
  <1>4. CASE UNCHANGED <<setting, topics>>
    BY <1>1, <1>2, <1>3, <1>4 DEF topics
  <1>5. CASE Deliver
    <2>1. Build(Current) \in LogRecords /\ Build(Current).id \in Ids
      BY <1>5, CurrentTypes, BuildTypes DEF Deliver
    <2>2. /\ setting' = setting /\ begin' = begin
          /\ source' = source \/ Appended(Build(Current))
      BY <1>5 DEF Deliver
    <2>3. source' \in Logs /\ Grows
      BY <1>3, <2>1, <2>2, AppendedStep
    <2>4. QED
      BY <1>1, <1>2, <2>2, <2>3
  <1>6. CASE Around
    <2>1. setting' = setting
      BY <1>6, AroundFrame
    <2>2. CASE begin' = begin /\ \E rec \in LogRecords : rec.id \in Ids /\ Appended(rec)
      <3>1. source' \in Logs /\ Grows
        BY <2>2, AppendedStep
      <3>2. QED
        BY <1>1, <1>2, <2>1, <2>2, <3>1
    <2>3. CASE /\ UNCHANGED source /\ setting.trims
               /\ \E p \in Partitions :
                      begin[p] <= Len(source[p]) /\ begin' = [begin EXCEPT ![p] = @ + 1]
      BY <1>1, <1>3, <2>1, <2>3, LogTypes DEF Offsets
    <2>4. QED
      BY <1>6, <2>2, <2>3, AroundCases
  <1>7. QED
    BY <1>4, <1>5, <1>6, StepKinds, OwnStepFrame DEF TopicsStep

LEMMA ThereStays ==
    ASSUME TypeInv, [Next]_vars, NEW p \in Partitions, NEW o, IsThere(p, o)
    PROVE  IsThere(p, o)' /\ source'[p][o] = source[p][o] /\ o \in DOMAIN source'[p]
  <1>1. Grows /\ source' \in Logs
    BY LogStep
  <1>2. source'[p] \in Seq(LogRecords) /\ source[p] \in Seq(LogRecords)
    BY <1>1, LogTypes DEF Logs
  <1>3. QED
    BY <1>1, <1>2 DEF Grows, IsThere

LEMMA LimitsStep == TypeInv /\ [Next]_vars => LimitsSound'
  <1> SUFFICES ASSUME TypeInv, [Next]_vars, NEW p \in Partitions
               PROVE  /\ begin'[p] <= Len(source'[p]) + 1
                      /\ limits'.begin[p] <= begin'[p]
                      /\ limits'.end[p] <= Len(source'[p]) + 1
                      /\ ~setting'.trims => begin'[p] = 1
    BY DEF LimitsSound
  <1>1. /\ begin[p] <= begin'[p] /\ begin'[p] <= Len(source'[p]) + 1
        /\ Len(source[p]) <= Len(source'[p]) /\ setting' = setting
        /\ ~setting.trims => begin'[p] = begin[p]
    BY LogStep DEF Grows
  <1>2. begin'[p] \in Nat /\ Len(source'[p]) \in Nat
    BY LogStep DEF Offsets, Logs
  <1>3. /\ limits.begin[p] <= begin[p] /\ limits.end[p] <= Len(source[p]) + 1
        /\ ~setting.trims => begin[p] = 1
    BY DEF TypeInv, LimitsSound
  <1>4. CASE UNCHANGED limits
    BY <1>1, <1>2, <1>3, <1>4, LogTypes
  <1>5. CASE AskBegin
    <2>1. limits'.begin[p] = begin[p] /\ limits'.end[p] = limits.end[p]
      BY <1>5 DEF AskBegin, BeginningOffsets, TypeInv, TypeOK
    <2>2. QED
      BY <2>1, <1>1, <1>2, <1>3, LogTypes
  <1>6. CASE AskEnd
    <2>1. limits'.end[p] = Len(source[p]) + 1 /\ limits'.begin[p] = limits.begin[p]
      BY <1>6 DEF AskEnd, EndOffsets, TypeInv, TypeOK, Logs
    <2>2. QED
      BY <2>1, <1>1, <1>2, <1>3, LogTypes
  <1>7. AskBegin \/ AskEnd \/ UNCHANGED limits
    <2>1. Around \/ Deliver => UNCHANGED limits
      BY AroundFrame DEF Deliver, traversal
    <2>2. OwnStep => AskBegin \/ AskEnd \/ UNCHANGED limits
      BY DEF OwnStep, Operator, Refuse, Start, Traverse, Accept, Abort, Decline, Resolve,
         AskSince, AskUntil, Enter, Read, Fetch, Yield, NextRange, Report, Finish, Sent,
         CommitOffset, Faults, AuditFails, Fail, vars, traversal
    <2>3. QED
      BY <2>1, <2>2, StepKinds DEF TopicsStep
  <1>8. QED
    BY <1>4, <1>5, <1>6, <1>7

-----------------------------------------------------------------------------
(* Reading                                                                 *)

LEMMA FoundIsNat ==
    ASSUME TypeInv, NEW p \in Partitions, NEW t \in Nat
    PROVE  /\ Found(p, t) \in Nat
           /\ Found(p, t) # None =>
                  /\ IsThere(p, Found(p, t)) /\ begin[p] <= Found(p, t)
                  /\ t <= source[p][Found(p, t)].ts
           /\ \A o \in DOMAIN source[p] :
                  IsThere(p, o) /\ begin[p] <= o /\ t <= source[p][o].ts
                      => Found(p, t) # None /\ Found(p, t) <= o
  <1> DEFINE found == {o \in Records(source[p], begin[p], Len(source[p]) + 1) :
                           source[p][o].ts >= t}
  <1>1. found \in SUBSET Nat
    BY LogTypes DEF Records
  <1>2. \A o : o \in found <=>
            o \in DOMAIN source[p] /\ ~IsGap(source[p][o]) /\ begin[p] <= o /\ t <= source[p][o].ts
    <2>1. \A o \in DOMAIN source[p] : o < Len(source[p]) + 1 /\ source[p][o].ts \in Nat
      BY LogTypes, RecordTypes
    <2>2. QED
      BY <2>1 DEF Records
  <1>3. \A o \in DOMAIN source[p] : o # None
    BY LogTypes DEF None
  <1> HIDE DEF found
  <1>4. Found(p, t) = IF found = {} THEN None ELSE Min(found)
    BY DEF Found, OffsetForTime, found
  <1>5. found # {} => Min(found) \in found /\ \A o \in found : Min(found) <= o
    BY <1>1, MinNat
  <1>6. CASE found = {}
    BY <1>2, <1>4, <1>6 DEF IsThere, None
  <1>7. CASE found # {}
    <2>1. Found(p, t) \in found /\ \A o \in found : Found(p, t) <= o
      BY <1>4, <1>5, <1>7
    <2>2. Found(p, t) # None /\ Found(p, t) \in Nat
      BY <1>1, <1>2, <1>3, <2>1
    <2>3. QED
      BY <1>2, <2>1, <2>2 DEF IsThere
  <1>8. QED
    BY <1>6, <1>7

LEMMA BatchIs ==
    ASSUME TypeInv
    PROVE  /\ reader.p \in Partitions /\ reader.next \in Nat \ {0} /\ reader.got \in Nat \ {0}
           /\ \A o : o \in Batch <=> IsThere(reader.p, o) /\ reader.next <= o /\ o < reader.got
           /\ Batch \subseteq Nat \ {0}
           /\ Batch # {} => Min(Batch) \in Batch /\ \A o \in Batch : Min(Batch) <= o
  <1>1. reader.p \in Partitions /\ reader.next \in Nat \ {0} /\ reader.got \in Nat \ {0}
    BY DEF TypeInv, TypeOK, Offsets
  <1>2. \A o : o \in Batch <=> IsThere(reader.p, o) /\ reader.next <= o /\ o < reader.got
    BY DEF Batch, Records, IsThere
  <1>3. Batch \subseteq Nat \ {0}
    BY <1>1, <1>2, LogTypes DEF IsThere
  <1>4. QED
    BY <1>1, <1>2, <1>3, MinNat

LEMMA ResolutionIs ==
    ASSUME TypeInv, pc = "resolved"
    PROVE  /\ DOMAIN Resolution = DOMAIN ranges /\ DOMAIN ranges = Chosen(sel)
           /\ DOMAIN ranges \subseteq Partitions
           /\ \A p \in DOMAIN ranges :
                  /\ Resolution[p] \in Spans /\ Resolution[p].start \in Offsets
                  /\ Resolution[p].start = IF ranges[p].start <= limits.begin[p]
                                           THEN limits.begin[p] ELSE ranges[p].start
                  /\ Resolution[p].end = IF ranges[p].end <= limits.end[p]
                                         THEN ranges[p].end ELSE limits.end[p]
           /\ Min(DOMAIN ranges) \in DOMAIN ranges
           /\ \A p \in DOMAIN ranges : Min(DOMAIN ranges) <= p
  <1>1. DOMAIN ranges = Chosen(sel) /\ Chosen(sel) # {} /\ Chosen(sel) \subseteq Partitions
    BY SelectionTypes DEF TypeInv, Started, Shaped, Ranged, Live
  <1>2. DOMAIN ranges \in SUBSET Nat
    BY <1>1, SelectorAssumption
  <1>3. ASSUME NEW p \in DOMAIN ranges
        PROVE  /\ Resolution[p] \in Spans /\ Resolution[p].start \in Offsets
               /\ Resolution[p].start = IF ranges[p].start <= limits.begin[p]
                                        THEN limits.begin[p] ELSE ranges[p].start
               /\ Resolution[p].end = IF ranges[p].end <= limits.end[p]
                                      THEN ranges[p].end ELSE limits.end[p]
    <2>1. ranges[p] \in Spans /\ limits.begin[p] \in Nat \ {0} /\ limits.end[p] \in Nat
      BY <1>1, LogTypes DEF TypeInv, TypeOK
    <2>2. Resolution[p] = Clipped(ranges[p], limits.begin[p], limits.end[p])
      BY DEF Resolution
    <2>3. ranges[p].start \in Int
      BY <2>1 DEF Spans
    <2>4. /\ Resolution[p] \in Spans
          /\ Resolution[p].start = IF ranges[p].start <= limits.begin[p]
                                   THEN limits.begin[p] ELSE ranges[p].start
          /\ Resolution[p].end = IF ranges[p].end <= limits.end[p]
                                 THEN ranges[p].end ELSE limits.end[p]
      <3>1. limits.begin[p] \in Int /\ limits.end[p] \in Int
        BY <2>1
      <3>2. QED
        BY <2>1, <2>2, <3>1, ClippedRange
    <2>5. Resolution[p].start \in Offsets
      <3>1. CASE ranges[p].start <= limits.begin[p]
        BY <2>1, <2>4, <3>1 DEF Offsets
      <3>2. CASE ~(ranges[p].start <= limits.begin[p])
        BY <2>1, <2>3, <2>4, <3>2 DEF Offsets
      <3>3. QED
        BY <3>1, <3>2
    <2>6. QED
      BY <2>4, <2>5
  <1>4. Min(DOMAIN ranges) \in DOMAIN ranges /\ \A p \in DOMAIN ranges : Min(DOMAIN ranges) <= p
    BY <1>1, <1>2, MinNat
  <1>5. DOMAIN Resolution = DOMAIN ranges
    BY DEF Resolution
  <1>6. QED
    BY <1>1, <1>3, <1>4, <1>5

-----------------------------------------------------------------------------
(* Types                                                                   *)

LEMMA NoRanges == DOMAIN <<>> = {}
  OBVIOUS

LEMMA InitTypes == Init => TypeInv
  <1> SUFFICES ASSUME Init PROVE TypeInv
    OBVIOUS
  <1>1. IsSetting(setting)
    BY SettingsAssumption DEF Init
  <1>2. sel \in setting.selections
    BY <1>1 DEF Init, IsSetting
  <1>3. source \in Logs
    BY <1>1 DEF Init, IsSetting
  <1>4. reader \in [p : Partitions, next : Offsets, got : Offsets]
    <2>1. Min(Partitions) \in Partitions
      BY SelectorAssumption, MinNat
    <2>2. QED
      BY <2>1 DEF Init, Offsets
  <1>5. \A p \in Partitions : Len(source[p]) \in Nat
    BY <1>3 DEF Logs
  <1>6. begin = [p \in Partitions |-> 1] /\ limits = [begin |-> begin, end |-> begin]
    BY DEF Init
  <1>7. /\ begin \in [Partitions -> Offsets]
        /\ limits \in [begin : [Partitions -> Offsets], end : [Partitions -> Offsets]]
    BY <1>6 DEF Offsets
  <1>8. TypeOK
    <2>1. DOMAIN ranges \subseteq Partitions /\ \A p \in DOMAIN ranges : ranges[p] \in Spans
      BY NoRanges DEF Init
    <2>2. run \in 0..MaxRuns /\ committed \in [Partitions -> Nat]
      BY ReplayAssumption DEF Init, None
    <2>3. QED
      BY <1>2, <1>3, <1>4, <1>7, <2>1, <2>2 DEF Init, TypeOK, Steps, Outcomes
  <1>9. LimitsSound
    BY <1>5, <1>6 DEF LimitsSound
  <1>10. QED
    BY <1>8, <1>9
       DEF Init, TypeInv, Started, Shaped, Ranged, Live, Reading, AtSound, Placed, CommitShaped

LEMMA SomeSelection == TypeInv => setting.selections # {}
  BY SettingsAssumption DEF TypeInv, TypeOK, IsSetting

LEMMA CommandTypes ==
    ASSUME TypeInv, NEW s \in setting.selections,
           Refuse(s) \/ Start(s) \/ Accept \/ Abort \/ Decline
    PROVE  TypeOK' /\ Started' /\ Shaped' /\ AtSound' /\ Placed' /\ CommitShaped'
  <1> USE DEF TypeInv, TypeOK, Started, Shaped, AtSound, Placed, CommitShaped, Ranged, Live,
          Reading, topics, traversal, effects
  <1>1. run \in Nat /\ setting.runs \in 0..MaxRuns /\ MaxRuns \in Nat
    BY SettingsAssumption, ReplayAssumption DEF IsSetting
  <1>2. CASE Refuse(s)
    BY <1>1, <1>2 DEF Refuse, Outcomes, IsThere
  <1>3. CASE Start(s)
    <2>1. DOMAIN ranges' \subseteq Partitions /\ \A p \in DOMAIN ranges' : ranges'[p] \in Spans
      BY <1>3, NoRanges DEF Start, Traverse
    <2>2. run' \in 0..MaxRuns /\ run' >= 1 /\ run <= run' /\ Resolvable(sel')
      BY <1>1, <1>3 DEF Start, Refused
    <2>3. mode' \in {"dry", "execute"}
      BY <1>3 DEF Start, Traverse
    <2>4. TypeOK'
      BY <1>3, <2>1, <2>2, <2>3 DEF Start, Traverse, Outcomes, Steps
    <2>5. \A x \in target : x.run \in Nat /\ x.run <= run
      OBVIOUS
    <2>6. Placed'
      BY <1>1, <1>3, <2>2, <2>5 DEF Start, Traverse, IsThere
    <2>7. QED
      BY <1>3, <2>2, <2>4, <2>6 DEF Start, Traverse
  <1>4. CASE Accept
    BY <1>4, NoRanges DEF Accept, Traverse, Outcomes, Steps, IsThere
  <1>5. CASE Abort \/ Decline
    BY <1>5 DEF Abort, Decline, Outcomes, Steps, IsThere
  <1>6. QED
    BY <1>2, <1>3, <1>4, <1>5

LEMMA FoundSpans ==
    ASSUME TypeInv, NEW t \in Nat, NEW p \in DOMAIN ranges
    PROVE  /\ From(ranges[p], Found(p, t), limits.end[p]) \in Spans
           /\ Until(ranges[p], Found(p, t), limits.end[p]) \in Spans
  <1>1. p \in Partitions /\ ranges[p] \in Spans
    BY DEF TypeInv, TypeOK
  <1>2. Found(p, t) \in Int /\ limits.end[p] \in Int
    BY <1>1, FoundIsNat, LogTypes
  <1>3. QED
    BY <1>1, <1>2 DEF From, Until, Spans

LEMMA ResolveTypes ==
    ASSUME TypeInv, Resolve
    PROVE  TypeOK' /\ Started' /\ Shaped' /\ AtSound' /\ Placed' /\ CommitShaped'
  <1> USE DEF TypeInv, TypeOK, Started, Shaped, AtSound, Placed, CommitShaped, Ranged, Live,
          Reading, topics, effects, AfterEnd, AfterSince, Steps
  <1>1. CASE AskBegin
    BY <1>1 DEF AskBegin, BeginningOffsets, IsThere
  <1>2. CASE AskEnd
    <2>1. limits' = [limits EXCEPT !.end = EndOffsets(source)]
      BY <1>2 DEF AskEnd
    <2>2. EndOffsets(source) \in [Partitions -> Offsets]
      <3>1. DOMAIN source = Partitions /\ \A p \in Partitions : Len(source[p]) + 1 \in Offsets
        BY DEF Logs, Offsets
      <3>2. QED
        BY <3>1 DEF EndOffsets
    <2>3. limits' \in [begin : [Partitions -> Offsets], end : [Partitions -> Offsets]]
      BY <2>1, <2>2
    <2>4. Chosen(sel) \subseteq Partitions
      BY <1>2, SelectionTypes DEF AskEnd
    <2>5. \A p \in Chosen(sel) : Bounded(sel, p, limits.begin[p], limits'.end[p]) \in Spans
      BY <2>3, <2>4, SelectionTypes DEF Bounded, Span, Spans, Offsets
    <2>6. DOMAIN ranges' = Chosen(sel) /\ \A p \in Chosen(sel) : ranges'[p] \in Spans
      BY <1>2, <2>5 DEF AskEnd
    <2>7. QED
      BY <1>2, <2>3, <2>4, <2>6 DEF AskEnd, IsThere
  <1>3. \A t \in Nat : \A p \in DOMAIN ranges :
            /\ From(ranges[p], Found(p, t), limits.end[p]) \in Spans
            /\ Until(ranges[p], Found(p, t), limits.end[p]) \in Spans
    BY FoundSpans
  <1>4. CASE AskSince
    <2>1. DOMAIN ranges' = DOMAIN ranges /\ \A p \in DOMAIN ranges : ranges'[p] \in Spans
      BY <1>3, <1>4, SelectionTypes DEF AskSince
    <2>2. QED
      BY <1>4, <2>1 DEF AskSince, IsThere
  <1>5. CASE AskUntil
    <2>1. DOMAIN ranges' = DOMAIN ranges /\ \A p \in DOMAIN ranges : ranges'[p] \in Spans
      BY <1>3, <1>5, SelectionTypes DEF AskUntil
    <2>2. QED
      BY <1>5, <2>1 DEF AskUntil, IsThere
  <1>6. QED
    BY <1>1, <1>2, <1>4, <1>5 DEF Resolve

LEMMA RangeStarts ==
    ASSUME TypeInv, Later # {}
    PROVE  /\ Min(Later) \in Later /\ \A p \in Later : Min(Later) <= p
           /\ Min(Later) \in DOMAIN ranges /\ reader.p < Min(Later)
           /\ \A p \in DOMAIN ranges : p < Min(Later) => p <= reader.p
           /\ reader.p \in Nat
  <1>1. DOMAIN ranges \in SUBSET Nat /\ reader.p \in Nat
    BY SelectorAssumption DEF TypeInv, TypeOK
  <1>2. Later \in SUBSET Nat
    BY <1>1 DEF Later
  <1>3. Min(Later) \in Later /\ \A p \in Later : Min(Later) <= p
    BY <1>2, MinNat
  <1>4. Min(Later) \in DOMAIN ranges /\ reader.p < Min(Later)
    BY <1>3 DEF Later
  <1>5. ASSUME NEW p \in DOMAIN ranges, p < Min(Later)
        PROVE  p <= reader.p
    <2>1. p \in Nat /\ Min(Later) \in Nat
      BY <1>1, <1>4
    <2>2. p \notin Later
      BY <1>3, <1>5, <2>1
    <2>3. QED
      BY <1>1, <2>1, <2>2 DEF Later
  <1>6. QED
    BY <1>1, <1>3, <1>4, <1>5

LEMMA YieldIs ==
    ASSUME TypeInv, Yield
    PROVE  /\ reader.p \in Partitions /\ Min(Batch) \in Offsets
           /\ IsThere(reader.p, Min(Batch))
           /\ reader.next <= Min(Batch) /\ Min(Batch) < reader.got
           /\ \A o : IsThere(reader.p, o) /\ reader.next <= o /\ o < reader.got => Min(Batch) <= o
           /\ reader' = [p |-> reader.p, next |-> Min(Batch) + 1, got |-> reader.got]
           /\ scanned' = scanned \cup {<<reader.p, Min(Batch)>>}
           /\ At' = <<reader.p, Min(Batch)>>
           /\ matched' = IF Skips(source[reader.p][Min(Batch)])
                         THEN matched ELSE matched \cup {<<reader.p, Min(Batch)>>}
           /\ pc' = IF Skips(source[reader.p][Min(Batch)]) \/ mode = "dry"
                    THEN "reading" ELSE "sending"
           /\ Min(Batch) < ranges[reader.p].end
  <1>1. Batch # {} /\ ~RangeOver
    BY DEF Yield
  <1>2. /\ reader.p \in Partitions /\ Min(Batch) \in Nat \ {0} /\ Min(Batch) \in Batch
        /\ \A o \in Batch : Min(Batch) <= o
        /\ \A o : o \in Batch <=> IsThere(reader.p, o) /\ reader.next <= o /\ o < reader.got
    BY <1>1, BatchIs
  <1>3. reader \in [p : Partitions, next : Offsets, got : Offsets]
    BY DEF TypeInv, TypeOK
  <1>4. reader' = [reader EXCEPT !.next = Min(Batch) + 1]
    BY DEF Yield
  <1>5. reader' = [p |-> reader.p, next |-> Min(Batch) + 1, got |-> reader.got]
    BY <1>3, <1>4
  <1>6. ~(Min(Batch) >= ranges[reader.p].end)
    BY <1>1 DEF RangeOver, Exhausted
  <1>7. Min(Batch) < ranges[reader.p].end
    <2>1. reader.p \in DOMAIN ranges => ranges[reader.p].end \in Int
      BY DEF TypeInv, TypeOK, Spans
    <2>2. reader.p \in DOMAIN ranges
      BY DEF TypeInv, Shaped, Reading, Yield
    <2>3. QED
      BY <1>2, <1>6, <2>1, <2>2
  <1>8. At' = <<reader.p, Min(Batch)>>
    BY <1>2, <1>5 DEF At
  <1>9. QED
    BY <1>2, <1>5, <1>7, <1>8 DEF Yield, Offsets

LEMMA ReadTypes ==
    ASSUME TypeInv, Enter \/ Read
    PROVE  TypeOK' /\ Started' /\ Shaped' /\ AtSound' /\ Placed' /\ CommitShaped'
  <1> USE DEF Started, Shaped, AtSound, Placed, CommitShaped, Ranged, Live, Reading
  <1>1. CASE Enter
    <2>1. /\ DOMAIN ranges' = DOMAIN ranges
          /\ \A p \in DOMAIN ranges : ranges'[p] \in Spans /\ ranges'[p].start \in Offsets
          /\ Min(DOMAIN ranges) \in DOMAIN ranges /\ DOMAIN ranges \subseteq Partitions
      BY <1>1, ResolutionIs DEF Enter
    <2>2. reader' = [p |-> Min(DOMAIN ranges), next |-> ranges'[Min(DOMAIN ranges)].start,
                     got |-> ranges'[Min(DOMAIN ranges)].start]
      BY <1>1 DEF Enter, Seek
    <2>3. reader' \in [p : Partitions, next : Offsets, got : Offsets]
          /\ reader'.p \in DOMAIN ranges
      BY <2>1, <2>2
    <2>4. consent' \in BOOLEAN
      BY <1>1 DEF Enter, NeedsConsent
    <2>5. QED
      BY <1>1, <2>1, <2>3, <2>4 DEF Enter, TypeInv, TypeOK, Steps, topics, effects, IsThere
  <1>2. CASE Fetch
    <2>1. reader.p \in Partitions /\ reader.got \in Nat \ {0} /\ begin[reader.p] \in Nat \ {0}
          /\ Len(source[reader.p]) + 1 \in Nat \ {0}
      BY BatchIs, LogTypes
    <2>2. reader' \in [p : Partitions, next : Offsets, got : Offsets] /\ reader'.p = reader.p
      BY <1>2, <2>1 DEF Fetch, Offsets
    <2>3. QED
      BY <1>2, <2>2 DEF Fetch, TypeInv, TypeOK, topics, effects, IsThere
  <1>3. CASE Yield
    <2>1. reader' \in [p : Partitions, next : Offsets, got : Offsets] /\ reader'.p = reader.p
      <3>1. Min(Batch) + 1 \in Offsets /\ reader.p \in Partitions /\ reader.got \in Offsets
        BY <1>3, YieldIs, BatchIs DEF Offsets
      <3>2. QED
        BY <1>3, <3>1, YieldIs
    <2>2. <<reader.p, Min(Batch)>> \in Places /\ IsThere(reader.p, Min(Batch))
      BY <1>3, YieldIs DEF Places
    <2>3. scanned' \subseteq Places /\ matched' \subseteq scanned' /\ scanned \subseteq scanned'
      BY <1>3, YieldIs, <2>2 DEF TypeInv, TypeOK
    <2>4. TypeOK'
      BY <1>3, <2>1, <2>3 DEF Yield, TypeInv, TypeOK, topics, effects, Steps
    <2>5. AtSound'
      BY <1>3, YieldIs
    <2>6. \A x \in scanned' : IsThere(x[1], x[2])
      BY <1>3, YieldIs, <2>2 DEF TypeInv
    <2>7. Placed' /\ CommitShaped'
      BY <1>3, <2>3, <2>6 DEF Yield, topics, IsThere, TypeInv
    <2>8. QED
      BY <1>3, <2>1, <2>4, <2>5, <2>7 DEF Yield, TypeInv
  <1>4. CASE NextRange
    <2>1. /\ Min(Later) \in DOMAIN ranges /\ DOMAIN ranges \subseteq Partitions
          /\ reader' = [p |-> Min(Later), next |-> ranges[Min(Later)].start,
                        got |-> ranges[Min(Later)].start]
      BY <1>4, RangeStarts DEF NextRange, Seek, TypeInv, TypeOK
    <2>2. ranges[Min(Later)].start \in Offsets
      BY <1>4, <2>1 DEF NextRange, TypeInv
    <2>3. reader' \in [p : Partitions, next : Offsets, got : Offsets]
      BY <2>1, <2>2
    <2>4. QED
      BY <1>4, <2>1, <2>3 DEF NextRange, TypeInv, TypeOK, topics, effects, IsThere
  <1>5. CASE Report
    BY <1>5 DEF Report, TypeInv, TypeOK, Steps, topics, effects, IsThere
  <1>6. CASE Finish
    <2>1. toCommit' \subseteq {x[1] : x \in scanned}
      BY <1>6 DEF Finish
    <2>2. toCommit' \subseteq Partitions
      BY <2>1 DEF TypeInv, TypeOK, Places
    <2>3. TypeOK'
      BY <1>6, <2>2 DEF Finish, TypeInv, TypeOK, Steps, Outcomes, topics, traversal, effects
    <2>4. QED
      BY <1>6, <2>1, <2>3 DEF Finish, TypeInv, topics, traversal, effects, IsThere
  <1>7. QED
    BY <1>1, <1>2, <1>3, <1>4, <1>5, <1>6 DEF Read

LEMMA LastOffsetIs ==
    ASSUME TypeInv, NEW p \in {x[1] : x \in scanned}
    PROVE  /\ p \in Partitions /\ LastOffset(p) \in Offsets /\ <<p, LastOffset(p)>> \in scanned
           /\ \A x \in scanned : x[1] = p => x[2] <= LastOffset(p)
  <1> DEFINE S == {x[2] : x \in {y \in scanned : y[1] = p}}
  <1>1. \A x \in scanned : x \in Places /\ x = <<x[1], x[2]>> /\ x[1] \in Partitions
                               /\ x[2] \in Offsets /\ x[2] \in DOMAIN source[x[1]]
    BY DEF TypeInv, TypeOK, Placed, IsThere, Places
  <1>2. p \in Partitions /\ S # {} /\ S \in SUBSET Nat
    BY <1>1 DEF Offsets
  <1>3. Len(source[p]) \in Nat /\ \A o \in S : o <= Len(source[p])
    BY <1>1, <1>2, LogTypes
  <1>4. \A o \in S : <<p, o>> \in scanned /\ o \in Offsets
    BY <1>1
  <1>5. \A x \in scanned : x[1] = p => x[2] \in S
    OBVIOUS
  <1> HIDE DEF S
  <1>6. Max(S) \in S /\ \A o \in S : o <= Max(S)
    BY <1>2, <1>3, MaxNat
  <1>7. LastOffset(p) = Max(S)
    BY DEF LastOffset, S
  <1>8. QED
    BY <1>2, <1>4, <1>5, <1>6, <1>7

LEMMA CommitIs ==
    ASSUME TypeInv, CommitOffset
    PROVE  /\ Min(toCommit) \in toCommit /\ toCommit' = toCommit \ {Min(toCommit)}
           /\ Min(toCommit) \in {x[1] : x \in scanned}
           /\ committed' = [committed EXCEPT ![Min(toCommit)] = LastOffset(Min(toCommit)) + 1]
  <1>1. toCommit \in SUBSET Nat /\ toCommit # {}
    BY SelectorAssumption DEF TypeInv, TypeOK, CommitShaped, CommitOffset
  <1>2. Min(toCommit) \in toCommit
    BY <1>1, MinNat
  <1>3. QED
    BY <1>2 DEF CommitOffset, TypeInv, CommitShaped

LEMMA ProduceTypes ==
    ASSUME TypeInv, Produce \/ Faults
    PROVE  TypeOK' /\ Started' /\ Shaped' /\ AtSound' /\ Placed' /\ CommitShaped'
  <1> USE DEF Started, Shaped, AtSound, CommitShaped, Ranged, Live, Reading
  <1>1. run \in 0..MaxRuns /\ MaxRuns \in Nat
    BY ReplayAssumption DEF TypeInv, TypeOK
  <1>2. CASE Deliver
    <2>1. source' \in Logs /\ \A p \in Partitions : \A o : IsThere(p, o) => IsThere(p, o)'
      BY <1>2, LogStep, ThereStays, StepKinds DEF TopicsStep
    <2> DEFINE new == [run |-> run, p |-> At[1], o |-> At[2], rec |-> Build(Current)]
    <2>2. target' = target \cup {new} /\ pc' = "landed" /\ pc = "sending"
      BY <1>2 DEF Deliver
    <2>3. /\ Build(Current) \in LogRecords /\ Build(Current).id \in Ids
          /\ At[1] \in Partitions /\ At[2] \in Offsets /\ IsThere(At[1], At[2])
      BY <2>2, CurrentTypes, BuildTypes
    <2>4. run \in 1..MaxRuns
      BY <1>1, <2>2 DEF TypeInv
    <2>5. new \in [run : 1..MaxRuns, p : Partitions, o : Offsets, rec : LogRecords]
          /\ new.run = run /\ new.rec.id \in Ids /\ new.p \in Partitions /\ IsThere(new.p, new.o)
      BY <2>3, <2>4
    <2> HIDE DEF new
    <2>6. UNCHANGED <<setting, begin, traversal, effects, toCommit, outcome>>
      BY <1>2 DEF Deliver
    <2>7. TypeOK'
      BY <2>1, <2>2, <2>5, <2>6 DEF TypeInv, TypeOK, traversal, effects, Steps
    <2>8. \A x \in target' : x.run <= run' /\ IsThere(x.p, x.o)' /\ x.rec.id \in Ids
      <3>1. \A x \in target : x.p \in Partitions
        BY DEF TypeInv, TypeOK
      <3>2. \A x \in target : x.run <= run /\ IsThere(x.p, x.o) /\ x.rec.id \in Ids
        BY DEF TypeInv, Placed
      <3>3. new.run <= run /\ run' = run
        BY <1>1, <2>5, <2>6 DEF traversal
      <3>4. QED
        BY <2>1, <2>2, <2>5, <3>1, <3>2, <3>3
    <2>9. scanned' = scanned /\ \A x \in scanned : IsThere(x[1], x[2])'
      BY <2>1, <2>6 DEF TypeInv, TypeOK, Placed, Places, traversal
    <2>10. Placed'
      BY <2>8, <2>9 DEF Placed
    <2>11. Started' /\ Shaped' /\ AtSound' /\ CommitShaped'
      BY <2>2, <2>6 DEF TypeInv, traversal, At
    <2>12. QED
      BY <2>7, <2>10, <2>11
  <1>3. CASE Sent \/ AuditFails
    <2>1. Entry \in (1..MaxRuns) \X Partitions \X Offsets
      BY <1>1, <1>3, CurrentTypes DEF Entry, Sent, AuditFails, TypeInv
    <2>2. QED
      BY <1>3, <2>1 DEF Sent, AuditFails, TypeInv, TypeOK, Placed, Steps, Outcomes, topics,
         traversal, IsThere
  <1>4. CASE CommitOffset
    <2>1. committed' \in [Partitions -> Nat]
      <3>1. LastOffset(Min(toCommit)) + 1 \in Nat
        <4>1. Min(toCommit) \in {x[1] : x \in scanned}
          BY <1>4, CommitIs
        <4>2. LastOffset(Min(toCommit)) \in Nat \ {0}
          BY <4>1, LastOffsetIs DEF Offsets
        <4>3. QED
          BY <4>2
      <3>2. committed \in [Partitions -> Nat]
        BY DEF TypeInv, TypeOK
      <3>3. QED
        BY <1>4, <3>1, <3>2, CommitIs
    <2>2. QED
      BY <1>4, <2>1, CommitIs
         DEF CommitOffset, TypeInv, TypeOK, Placed, Steps, Outcomes, topics, traversal, IsThere
  <1>5. CASE Fail
    BY <1>5 DEF Fail, TypeInv, TypeOK, Placed, Steps, Outcomes, topics, traversal, effects, IsThere
  <1>6. QED
    BY <1>2, <1>3, <1>4, <1>5 DEF Produce, Faults

LEMMA TypeStep == TypeInv /\ [Next]_vars => TypeInv'
  <1> SUFFICES ASSUME TypeInv, [Next]_vars PROVE TypeInv'
    OBVIOUS
  <1>1. LimitsSound'
    BY LimitsStep
  <1>2. CASE Operator
    BY <1>1, <1>2, CommandTypes, SomeSelection DEF Operator, TypeInv
  <1>3. CASE Resolve
    BY <1>1, <1>3, ResolveTypes DEF TypeInv
  <1>4. CASE Enter \/ Read
    BY <1>1, <1>4, ReadTypes DEF TypeInv
  <1>5. CASE Produce \/ Faults
    BY <1>1, <1>5, ProduceTypes DEF TypeInv
  <1>6. CASE Around
    <2>1. UNCHANGED <<setting, target, pc, traversal, effects, toCommit, outcome>>
      BY <1>6, AroundFrame
    <2>2. source' \in Logs /\ begin' \in [Partitions -> Offsets]
      BY LogStep
    <2>3. TypeOK'
      BY <2>1, <2>2 DEF TypeInv, TypeOK, traversal, effects
    <2>4. /\ \A x \in scanned : IsThere(x[1], x[2])'
          /\ \A x \in target : IsThere(x.p, x.o)'
      BY ThereStays DEF TypeInv, TypeOK, Placed, Places
    <2>5. Placed'
      BY <2>1, <2>4 DEF TypeInv, Placed, traversal
    <2>6. Started' /\ Shaped' /\ AtSound' /\ CommitShaped'
      BY <2>1 DEF TypeInv, Started, Shaped, AtSound, CommitShaped, Ranged, Live, Reading,
         traversal, At
    <2>7. QED
      BY <1>1, <2>3, <2>5, <2>6 DEF TypeInv
  <1>7. CASE UNCHANGED vars
    BY <1>1, <1>7 DEF TypeInv, TypeOK, Started, Shaped, AtSound, Placed, CommitShaped, Ranged,
       Live, Reading, At, IsThere, vars, topics, traversal, effects
  <1>8. QED
    BY <1>2, <1>3, <1>4, <1>5, <1>6, <1>7 DEF Next

\* Every variable keeps its type: a record keeps a count the next replay can read,
\* the reader stays in a partition of the topic, and every place that was read,
\* produced, audited or committed is one of the log.
THEOREM TypeCorrect == Spec => []TypeOK
  <1>1. TypeInv => TypeOK
    BY DEF TypeInv
  <1>2. QED
    BY <1>1, InitTypes, TypeStep, PTL DEF Spec

-----------------------------------------------------------------------------
(* What a traversal reads                                                  *)

ReadInv ==
    /\ ModeSound /\ RangesShaped
    /\ StartSound /\ StartComplete /\ EndSound /\ EndComplete
    /\ ReaderSound /\ ScanSound /\ ScanDense /\ ReaderDense /\ RangesCovered

\* The steps that leave the traversal as it is, and where they lead.
KeepStep == Abort \/ Decline \/ Finish \/ Produce \/ Faults \/ Around \/ UNCHANGED vars

LEMMA KeepFrame ==
    ASSUME KeepStep
    PROVE  /\ setting' = setting /\ mode' = mode /\ run' = run /\ sel' = sel
           /\ limits' = limits /\ ranges' = ranges /\ reader' = reader /\ scanned' = scanned
           /\ matched' = matched /\ plan' = plan
           /\ Live' => Live
           /\ Ranged' => Ranged
           /\ Reading' => Reading
           /\ \A step \in {"begin", "end", "since", "until", "resolved", "asked", "sending"} :
                  pc' = step => pc = step
           /\ \A step \in {"asked", "begin", "end", "since", "until", "resolved"} :
                  pc = step /\ Live' => pc' = step
           /\ pc' = "landed" => pc \in {"sending", "landed"}
           /\ pc' = "reading" => pc \in {"reading", "landed"}
           /\ (pc' = "committing" \/ Completed') /\ ~(pc = "committing" \/ Completed)
                  => Finish
  <1> USE DEF Live, Ranged, Reading, Completed
  <1>1. CASE Around \/ UNCHANGED vars
    <2>1. UNCHANGED <<setting, pc, traversal, outcome>>
      BY <1>1, AroundFrame DEF vars
    <2>2. QED
      BY <2>1 DEF traversal
  <1>2. CASE Abort \/ Decline \/ Faults
    BY <1>2 DEF Abort, Decline, Faults, AuditFails, Fail, traversal
  <1>3. CASE Finish
    BY <1>3 DEF Finish, traversal
  <1>4. CASE Produce
    BY <1>4 DEF Produce, Deliver, Sent, CommitOffset, traversal
  <1>5. QED
    BY <1>1, <1>2, <1>3, <1>4 DEF KeepStep

\* Below what it was told about, a log stays as it is.
LEMMA BelowStays ==
    ASSUME TypeInv, [Next]_vars, NEW p \in Partitions, NEW o,
           IsThere(p, o)', o < Len(source[p]) + 1
    PROVE  IsThere(p, o) /\ o \in DOMAIN source[p] /\ source'[p][o] = source[p][o]
  <1>1. Grows /\ source' \in Logs
    BY LogStep
  <1>2. source'[p] \in Seq(LogRecords) /\ source[p] \in Seq(LogRecords)
    BY <1>1, LogTypes DEF Logs
  <1>3. QED
    BY <1>1, <1>2 DEF Grows, IsThere

Ordered(log, e) == \A a, b \in Records(log, 1, e) : a <= b => log[a].ts <= log[b].ts

LEMMA OrderStays ==
    ASSUME NEW log \in Seq(LogRecords), NEW log2 \in Seq(LogRecords), Len(log) <= Len(log2),
           \A o \in DOMAIN log : log2[o] = log[o], NEW e \in Nat, e <= Len(log) + 1
    PROVE  /\ Records(log2, 1, e) = Records(log, 1, e)
           /\ Ordered(log2, e) <=> Ordered(log, e)
  <1>1. Records(log2, 1, e) = Records(log, 1, e)
    BY DEF Records
  <1>2. \A o \in Records(log, 1, e) : log2[o] = log[o]
    BY DEF Records
  <1>3. QED
    BY <1>1, <1>2 DEF Ordered

LEMMA InOrderStays ==
    ASSUME TypeInv, [Next]_vars, limits' = limits, NEW p \in Partitions
    PROVE  InOrder(p, limits.end[p])' <=> InOrder(p, limits.end[p])
  <1>1. Grows /\ source' \in Logs
    BY LogStep
  <1>2. source'[p] \in Seq(LogRecords) /\ source[p] \in Seq(LogRecords)
    BY <1>1, LogTypes DEF Logs
  <1>3. limits.end[p] \in Nat /\ limits.end[p] <= Len(source[p]) + 1
    BY LogTypes DEF TypeInv, LimitsSound
  <1>4. Ordered(source'[p], limits.end[p]) <=> Ordered(source[p], limits.end[p])
    BY <1>1, <1>2, <1>3, OrderStays DEF Grows
  <1>5. QED
    BY <1>4 DEF InOrder, Ordered

\* Steps that keep the log of p and the ranges, as far as the range of p goes.
LEMMA KnownStays ==
    ASSUME TypeInv, [Next]_vars, limits' = limits, NEW p \in Partitions, NEW o, IsKnown(p, o)'
    PROVE  IsKnown(p, o) /\ o \in DOMAIN source[p] /\ source'[p][o] = source[p][o]
  <1>1. o \in DOMAIN source'[p] /\ DOMAIN source'[p] \subseteq Nat
    BY LogStep DEF Logs, IsKnown, IsThere
  <1>2. /\ o < limits.end[p] /\ limits.end[p] <= Len(source[p]) + 1
        /\ begin'[p] <= o /\ begin[p] <= begin'[p]
        /\ begin[p] \in Nat /\ begin'[p] \in Nat /\ Len(source[p]) \in Nat
        /\ limits.end[p] \in Nat
    BY LogTypes, LogStep DEF IsKnown, TypeInv, LimitsSound, Offsets
  <1>3. o < Len(source[p]) + 1 /\ begin[p] <= o
    BY <1>1, <1>2
  <1>4. QED
    BY <1>2, <1>3, BelowStays DEF IsKnown

LEMMA KeepBounds ==
    ASSUME TypeInv, [Next]_vars, sel' = sel, limits' = limits, ranges' = ranges,
           Ranged' => /\ Ranged
                      /\ pc' = "since" <=> pc = "since"
                      /\ pc' = "until" <=> pc = "until"
    PROVE  /\ StartSound => StartSound'
           /\ StartComplete => StartComplete'
           /\ EndSound => EndSound'
           /\ EndComplete => EndComplete'
  <1>1. DOMAIN ranges \subseteq Partitions
    BY DEF TypeInv, TypeOK
  <1>2. ASSUME StartSound PROVE StartSound'
    <2> SUFFICES ASSUME Ranged', NEW p \in DOMAIN ranges
                 PROVE  /\ p \in DOMAIN sel.from => sel.from[p] <= ranges[p].start
                        /\ sel.since # None /\ pc' # "since" =>
                               \/ limits.end[p] <= ranges[p].start
                               \/ \E o \in DOMAIN source'[p] :
                                      /\ IsThere(p, o)' /\ o <= ranges[p].start
                                      /\ sel.since <= source'[p][o].ts
      BY DEF StartSound
    <2>1. /\ p \in DOMAIN sel.from => sel.from[p] <= ranges[p].start
          /\ sel.since # None /\ pc # "since" =>
                 \/ limits.end[p] <= ranges[p].start
                 \/ \E o \in DOMAIN source[p] :
                        IsThere(p, o) /\ o <= ranges[p].start /\ sel.since <= source[p][o].ts
      BY <1>2 DEF StartSound
    <2>2. \A o : IsThere(p, o) =>
                     IsThere(p, o)' /\ source'[p][o] = source[p][o] /\ o \in DOMAIN source'[p]
      BY <1>1, ThereStays
    <2>3. QED
      BY <2>1, <2>2
  <1>3. \A p \in DOMAIN ranges : \A o : IsKnown(p, o)' =>
            IsKnown(p, o) /\ o \in DOMAIN source[p] /\ source'[p][o] = source[p][o]
    BY <1>1, KnownStays
  <1>4. ASSUME StartComplete PROVE StartComplete'
    <2> SUFFICES ASSUME Ranged', NEW p \in DOMAIN ranges, NEW o, IsKnown(p, o)',
                        p \in DOMAIN sel.from => sel.from[p] <= o,
                        sel.since # None => sel.since <= source'[p][o].ts
                 PROVE  ranges[p].start <= o
      BY DEF StartComplete
    <2>1. QED
      BY <1>3, <1>4 DEF StartComplete
  <1>5. ASSUME EndSound PROVE EndSound'
    <2> SUFFICES ASSUME Ranged', NEW p \in DOMAIN ranges
                 PROVE  /\ p \in DOMAIN sel.to => ranges[p].end <= sel.to[p]
                        /\ sel.until # None /\ pc' \notin {"since", "until"} =>
                               \A o : IsKnown(p, o)' /\ o < ranges[p].end
                                          => source'[p][o].ts < sel.until
      BY DEF EndSound
    <2>1. QED
      BY <1>3, <1>5 DEF EndSound
  <1>6. ASSUME EndComplete PROVE EndComplete'
    <2> SUFFICES ASSUME Ranged', NEW p \in DOMAIN ranges, NEW o, IsKnown(p, o)',
                        p \in DOMAIN sel.to => o < sel.to[p],
                        Before(p, o)'
                 PROVE  o < ranges[p].end
      BY DEF EndComplete
    <2>1. Before(p, o)
      BY <1>1, ThereStays DEF Before
    <2>2. QED
      BY <1>3, <1>6, <2>1 DEF EndComplete
  <1>7. QED
    BY <1>2, <1>4, <1>5, <1>6

\* As long as a traversal runs, what it has read stays where it is.
LEMMA KeepScan ==
    ASSUME TypeInv, [Next]_vars, KeepStep, ReadInv
    PROVE  ReaderSound' /\ ScanSound' /\ ScanDense' /\ ReaderDense'
  <1>1. /\ sel' = sel /\ ranges' = ranges /\ reader' = reader /\ scanned' = scanned
        /\ matched' = matched /\ setting' = setting
        /\ Live' => Live
        /\ Reading' => Reading
    BY KeepFrame
  <1>2. /\ DOMAIN ranges \subseteq Partitions /\ reader.p \in Partitions
        /\ \A x \in scanned : x[1] \in Partitions /\ IsThere(x[1], x[2])
    BY DEF TypeInv, TypeOK, Placed, Places
  <1>3. ASSUME NEW p \in Partitions
        PROVE  /\ Len(source[p]) \in Nat
               /\ DOMAIN source[p] = 1..Len(source[p]) /\ DOMAIN source'[p] \subseteq Nat
               /\ begin[p] \in Nat /\ begin'[p] \in Nat /\ begin[p] <= begin'[p]
    BY LogTypes, LogStep DEF Logs, Offsets
  <1>4. ReaderSound'
    <2> SUFFICES ASSUME Reading'
                 PROVE  /\ ranges[reader.p].start <= reader.next
                        /\ reader.next <= reader.got
                        /\ reader.next = reader.got \/ reader.got <= Len(source'[reader.p]) + 1
                        /\ sel.until # None =>
                               \A o : /\ IsThere(reader.p, o)' /\ reader.next <= o
                                      /\ o < reader.got /\ o < ranges[reader.p].end
                                      => source'[reader.p][o].ts < sel.until
      BY <1>1 DEF ReaderSound
    <2>1. /\ ranges[reader.p].start <= reader.next /\ reader.next <= reader.got
          /\ reader.next = reader.got \/ reader.got <= Len(source[reader.p]) + 1
          /\ sel.until # None =>
                 \A o \in DOMAIN source[reader.p] :
                     /\ IsThere(reader.p, o) /\ reader.next <= o /\ o < reader.got
                     /\ o < ranges[reader.p].end
                     => source[reader.p][o].ts < sel.until
      BY <1>1 DEF ReadInv, ReaderSound
    <2>2. /\ reader.next \in Nat /\ reader.got \in Nat
          /\ Len(source[reader.p]) \in Nat /\ Len(source'[reader.p]) \in Nat
          /\ Len(source[reader.p]) <= Len(source'[reader.p])
      BY <1>2, BatchIs, LogTypes, LogStep DEF Logs, Grows
    <2>3. reader.next = reader.got \/ reader.got <= Len(source'[reader.p]) + 1
      BY <2>1, <2>2
    <2>4. ASSUME NEW o, IsThere(reader.p, o)', reader.next <= o, o < reader.got
          PROVE  /\ o \in DOMAIN source[reader.p] /\ IsThere(reader.p, o)
                 /\ source'[reader.p][o] = source[reader.p][o]
      <3>1. o \in DOMAIN source'[reader.p] /\ ~IsGap(source'[reader.p][o])
        BY <1>1, <2>4 DEF IsThere, IsGap
      <3>2. o < Len(source[reader.p]) + 1
        BY <1>2, <1>3, <2>1, <2>2, <2>4, <3>1
      <3>3. QED
        BY <1>2, <3>1, <3>2, BelowStays DEF IsThere, IsGap
    <2>5. QED
      BY <2>1, <2>3, <2>4
  <1>5. ScanSound'
    <2> SUFFICES ASSUME Live', NEW x \in scanned
                 PROVE  /\ x[1] \in DOMAIN ranges
                        /\ ranges[x[1]].start <= x[2] /\ x[2] < ranges[x[1]].end
                        /\ sel.until # None => source'[x[1]][x[2]].ts < sel.until
                        /\ x \in matched <=> ~Skips(source[x[1]][x[2]])'
                        /\ Reading' => x[1] <= reader.p /\ (x[1] = reader.p => x[2] < reader.next)
      BY <1>1 DEF ScanSound
    <2>1. /\ x[1] \in DOMAIN ranges
          /\ ranges[x[1]].start <= x[2] /\ x[2] < ranges[x[1]].end
          /\ sel.until # None => source[x[1]][x[2]].ts < sel.until
          /\ x \in matched <=> ~Skips(source[x[1]][x[2]])
          /\ Reading => x[1] <= reader.p /\ (x[1] = reader.p => x[2] < reader.next)
      BY <1>1 DEF ReadInv, ScanSound
    <2>2. source'[x[1]][x[2]] = source[x[1]][x[2]]
      BY <1>2, ThereStays
    <2>3. Skips(source[x[1]][x[2]])' <=> Skips(source[x[1]][x[2]])
      BY <1>1, <2>2 DEF Skips, Matches, CountStops
    <2>4. QED
      BY <1>1, <2>1, <2>2, <2>3
  <1>6. ScanDense'
    <2> SUFFICES ASSUME Live', NEW x \in scanned, NEW o, IsThere(x[1], o)',
                        ranges[x[1]].start <= o, begin'[x[1]] <= o, o < x[2]
                 PROVE  Scanned(x[1], o)
      BY <1>1 DEF ScanDense, Scanned
    <2>1. o \in Nat /\ x[2] \in DOMAIN source[x[1]] /\ x[2] < Len(source[x[1]]) + 1
      BY <1>2, <1>3 DEF IsThere
    <2>2. o < Len(source[x[1]]) + 1
      BY <1>2, <1>3, <2>1
    <2>3. IsThere(x[1], o) /\ o \in DOMAIN source[x[1]] /\ begin[x[1]] <= o
      BY <1>2, <1>3, <2>1, <2>2, BelowStays
    <2>4. QED
      BY <1>1, <2>3 DEF ReadInv, ScanDense
  <1>7. ReaderDense'
    <2> SUFFICES ASSUME Reading', NEW o, IsThere(reader.p, o)', ranges[reader.p].start <= o,
                        begin'[reader.p] <= o, o < reader.next, o < ranges[reader.p].end,
                        NoJump \/ reader.next < ranges[reader.p].end
                 PROVE  Scanned(reader.p, o)
      BY <1>1 DEF ReaderDense, Scanned, NoJump
    <2>1. /\ ranges[reader.p].end <= limits.end[reader.p]
          /\ limits.end[reader.p] <= Len(source[reader.p]) + 1
          /\ ranges[reader.p].end \in Int /\ limits.end[reader.p] \in Int
      <3>1. Reading /\ Resolved /\ reader.p \in DOMAIN ranges
        BY <1>1 DEF Reading, Resolved, Ranged, Live, TypeInv, Shaped
      <3>2. ranges[reader.p].end <= limits.end[reader.p]
        BY <3>1 DEF ReadInv, RangesShaped, Resolved
      <3>3. ranges[reader.p].end \in Int
        BY <3>1 DEF TypeInv, TypeOK, Spans
      <3>4. QED
        BY <1>2, <3>2, <3>3, LogTypes DEF TypeInv, LimitsSound
    <2>2. o \in DOMAIN source'[reader.p] /\ ~IsGap(source'[reader.p][o])
      BY <1>1 DEF IsThere, IsGap
    <2>3. o < Len(source[reader.p]) + 1
      BY <1>2, <1>3, <2>1, <2>2
    <2>4. IsThere(reader.p, o) /\ o \in DOMAIN source[reader.p]
      BY <1>2, <2>2, <2>3, BelowStays DEF IsThere, IsGap
    <2>5. begin[reader.p] <= o
      BY <1>2, <1>3, <2>2
    <2>6. QED
      BY <1>1, <2>4, <2>5 DEF ReadInv, ReaderDense
  <1>8. QED
    BY <1>4, <1>5, <1>6, <1>7

LEMMA RangeTypes ==
    ASSUME TypeInv
    PROVE  \A p \in DOMAIN ranges : /\ p \in Partitions /\ p \in Nat
                                    /\ ranges[p].start \in Int /\ ranges[p].end \in Int
  BY SelectorAssumption DEF TypeInv, TypeOK, Spans

\* The reader is in a range that ends where the log was read to, or before.
LEMMA ReadingIs ==
    ASSUME TypeInv, ReadInv, Reading
    PROVE  /\ Live /\ Ranged /\ reader.p \in DOMAIN ranges /\ reader.p \in Partitions
           /\ \A p \in DOMAIN ranges : ranges[p].end <= limits.end[p] /\ ranges[p].start \in Offsets
           /\ ranges[reader.p].end <= Len(source[reader.p]) + 1
           /\ reader.next \in Nat \ {0} /\ reader.got \in Nat \ {0} /\ reader.next <= reader.got
           /\ ranges[reader.p].start <= reader.next
  <1>1. Live /\ Ranged /\ pc \notin {"since", "until", "resolved"}
    BY DEF Reading, Live, Ranged
  <1>2. /\ reader.p \in DOMAIN ranges
        /\ \A p \in DOMAIN ranges : ranges[p].end <= limits.end[p] /\ ranges[p].start \in Offsets
    BY <1>1 DEF TypeInv, Shaped, ReadInv, RangesShaped, Resolved
  <1>3. /\ reader.p \in Partitions /\ reader.next \in Nat \ {0} /\ reader.got \in Nat \ {0}
    BY BatchIs
  <1>4. ranges[reader.p].end <= Len(source[reader.p]) + 1
    <2>1. limits.end[reader.p] <= Len(source[reader.p]) + 1
      BY <1>3 DEF TypeInv, LimitsSound
    <2>2. QED
      BY <1>2, <1>3, <2>1, RangeTypes, LogTypes
  <1>5. reader.next <= reader.got /\ ranges[reader.p].start <= reader.next
    BY DEF ReadInv, ReaderSound
  <1>6. QED
    BY <1>1, <1>2, <1>3, <1>4, <1>5

LEMMA OverCovers ==
    ASSUME TypeInv, ReadInv, pc = "reading", RangeOver, NoJump, sel.max = None
    PROVE  Covered(reader.p)
  <1> SUFFICES ASSUME NEW o \in DOMAIN source[reader.p], IsThere(reader.p, o),
                      ranges[reader.p].start <= o, begin[reader.p] <= o, o < ranges[reader.p].end
               PROVE  Scanned(reader.p, o)
    BY DEF Covered
  <1>1. Reading
    BY DEF Reading
  <1>2. /\ reader.next \in Nat /\ reader.got \in Nat /\ o \in Nat
        /\ ranges[reader.p].end \in Int
    BY <1>1, ReadingIs, RangeTypes, LogTypes
  <1>3. CASE o < reader.next
    BY <1>1, <1>3 DEF ReadInv, ReaderDense
  <1>4. CASE reader.next <= o
    <2>1. Exhausted(ranges[reader.p].end) /\ reader.next < ranges[reader.p].end
      BY <1>2, <1>4 DEF RangeOver, MaxReached
    <2>2. ~(reader.got >= ranges[reader.p].end /\ Batch = {})
      BY <1>2, <1>4, BatchIs
    <2>3. Batch # {} /\ Min(Batch) >= ranges[reader.p].end
      BY <1>2, <2>1, <2>2 DEF Exhausted
    <2>4. Min(Batch) \in Nat /\ Min(Batch) < reader.got
      BY <2>3, BatchIs
    <2>5. o < reader.got
      BY <1>2, <2>3, <2>4
    <2>6. o \in Batch /\ Min(Batch) <= o
      BY <1>2, <1>4, <2>3, <2>5, BatchIs
    <2>7. QED
      BY <1>2, <2>3, <2>4, <2>6
  <1>5. QED
    BY <1>2, <1>3, <1>4

LEMMA LastOverCovers ==
    ASSUME TypeInv, ReadInv, pc = "reading", RangeOver, Later = {}, NoJump, sel.max = None
    PROVE  \A p \in DOMAIN ranges : Covered(p)
  <1>1. Reading
    BY DEF Reading
  <1>2. Covered(reader.p)
    BY OverCovers
  <1>3. \A p \in DOMAIN ranges : p < reader.p => Covered(p)
    BY <1>1 DEF ReadInv, RangesCovered
  <1>4. \A p \in DOMAIN ranges : p <= reader.p
    BY <1>1, RangeTypes, ReadingIs DEF Later
  <1>5. \A p \in DOMAIN ranges : p < reader.p \/ p = reader.p
    BY <1>1, <1>4, RangeTypes, ReadingIs
  <1>6. QED
    BY <1>2, <1>3, <1>5

LEMMA CoveredStays ==
    ASSUME TypeInv, [Next]_vars, ranges' = ranges, scanned \subseteq scanned',
           NEW p \in DOMAIN ranges, ranges[p].end <= Len(source[p]) + 1, Covered(p)
    PROVE  Covered(p)'
  <1> SUFFICES ASSUME NEW o, IsThere(p, o)', ranges[p].start <= o, begin'[p] <= o,
                      o < ranges[p].end
               PROVE  <<p, o>> \in scanned'
    BY DEF Covered, Scanned
  <1>1. /\ p \in Partitions /\ ranges[p].end \in Int /\ Len(source[p]) \in Nat
        /\ begin[p] \in Nat /\ begin'[p] \in Nat /\ begin[p] <= begin'[p]
        /\ source'[p] \in Seq(LogRecords)
    BY RangeTypes, LogTypes, LogStep DEF Offsets, Logs
  <1>2. o \in Nat
    BY <1>1 DEF IsThere
  <1>3. o < Len(source[p]) + 1 /\ begin[p] <= o
    BY <1>1, <1>2
  <1>4. IsThere(p, o) /\ o \in DOMAIN source[p]
    BY <1>1, <1>3, BelowStays
  <1>5. QED
    BY <1>3, <1>4 DEF Covered, Scanned

LEMMA KeepCovered ==
    ASSUME TypeInv, [Next]_vars, KeepStep, ReadInv
    PROVE  RangesCovered'
  <1>1. /\ sel' = sel /\ ranges' = ranges /\ reader' = reader /\ scanned' = scanned
        /\ setting' = setting
        /\ Reading' => Reading
        /\ pc' = "committing" \/ Completed' => pc = "committing" \/ Completed \/ Finish
    BY KeepFrame
  <1>2. Ranged /\ pc \notin {"since", "until", "resolved"} =>
            \A p \in DOMAIN ranges : ranges[p].end <= Len(source[p]) + 1
    <2>1. \A p \in Partitions : limits.end[p] <= Len(source[p]) + 1
      BY DEF TypeInv, LimitsSound
    <2>2. QED
      BY <2>1, RangeTypes, LogTypes DEF ReadInv, RangesShaped, Resolved
  <1>3. Ranged /\ pc \notin {"since", "until", "resolved"} =>
            \A p \in DOMAIN ranges : Covered(p) => Covered(p)'
    BY <1>1, <1>2, CoveredStays
  <1>4. CASE Reading' /\ NoJump /\ sel.max = None
    <2>1. Reading /\ Ranged /\ pc \notin {"since", "until", "resolved"}
      BY <1>1, <1>4 DEF Reading, Ranged, Live
    <2>2. \A p \in DOMAIN ranges : p < reader.p => Covered(p)
      BY <1>4, <2>1 DEF ReadInv, RangesCovered
    <2>3. \A p \in DOMAIN ranges : p < reader.p => Covered(p)'
      BY <1>3, <2>1, <2>2
    <2>4. ~(pc' = "committing" \/ Completed')
      BY <1>4 DEF Reading, Completed
    <2>5. QED
      BY <1>1, <2>3, <2>4 DEF RangesCovered
  <1>5. CASE (pc' = "committing" \/ Completed') /\ NoJump /\ sel.max = None
    <2>1. Ranged /\ pc \notin {"since", "until", "resolved"}
      BY <1>1, <1>5 DEF Ranged, Live, Completed, Finish
    <2>2. Finish => \A p \in DOMAIN ranges : Covered(p)
      BY <1>5, LastOverCovers DEF Finish
    <2>3. \A p \in DOMAIN ranges : Covered(p)
      <3>1. CASE Finish
        BY <2>2, <3>1
      <3>2. CASE pc = "committing" \/ Completed
        BY <1>5, <3>2 DEF ReadInv, RangesCovered
      <3>3. QED
        BY <1>1, <1>5, <3>1, <3>2
    <2>4. \A p \in DOMAIN ranges : Covered(p)'
      BY <1>3, <2>1, <2>3
    <2>5. ~Reading'
      BY <1>5 DEF Reading, Completed
    <2>6. QED
      BY <1>1, <2>4, <2>5 DEF RangesCovered
  <1>6. NoJump' <=> NoJump
    BY <1>1 DEF NoJump
  <1>7. CASE ~(NoJump /\ sel.max = None)
    BY <1>1, <1>6, <1>7 DEF RangesCovered
  <1>8. CASE ~Reading' /\ ~(pc' = "committing" \/ Completed')
    BY <1>8 DEF RangesCovered
  <1>9. QED
    BY <1>4, <1>5, <1>7, <1>8

LEMMA KeepReads ==
    ASSUME TypeInv, [Next]_vars, KeepStep, ReadInv
    PROVE  ReadInv'
  <1>1. /\ sel' = sel /\ ranges' = ranges /\ limits' = limits /\ mode' = mode
        /\ Live' => Live
        /\ Ranged' => Ranged
        /\ \A step \in {"since", "until", "resolved"} :
               (pc' = step => pc = step) /\ (pc = step /\ Live' => pc' = step)
    BY KeepFrame
  <1>2. ModeSound'
    <2>1. pc' = "asked" => pc = "asked"
      BY KeepFrame
    <2>2. pc' \in {"sending", "landed"} => pc \in {"sending", "landed"}
      BY KeepFrame
    <2>3. pc' = "committing" \/ Completed' => pc = "committing" \/ Completed \/ mode = "execute"
      BY KeepFrame DEF Finish
    <2>4. QED
      BY <1>1, <2>1, <2>2, <2>3 DEF ReadInv, ModeSound
  <1>3. RangesShaped'
    <2>1. Ranged' => Live'
      BY DEF Ranged
    <2>2. QED
      BY <1>1, <2>1 DEF ReadInv, RangesShaped, Resolved
  <1>4. StartSound' /\ StartComplete' /\ EndSound' /\ EndComplete'
    <2>1. Ranged' => Ranged /\ (pc' = "since" <=> pc = "since") /\ (pc' = "until" <=> pc = "until")
      BY <1>1 DEF Ranged
    <2>2. QED
      BY <1>1, <2>1, KeepBounds DEF ReadInv
  <1>5. QED
    BY <1>2, <1>3, <1>4, KeepScan, KeepCovered DEF ReadInv

\* A command that begins, or is refused, has read nothing.
LEMMA BeginReads ==
    ASSUME TypeInv, ReadInv, NEW s, Refuse(s) \/ Start(s) \/ Accept \/ AskBegin
    PROVE  ReadInv'
  <1> USE DEF ReadInv, ModeSound, RangesShaped, Resolved, StartSound, StartComplete,
          EndSound, EndComplete, ReaderSound, ScanSound, ScanDense, ReaderDense, RangesCovered,
          Live, Ranged, Reading, Completed
  <1>1. CASE Refuse(s)
    BY <1>1 DEF Refuse
  <1>2. CASE Start(s) \/ Accept
    BY <1>2 DEF Start, Accept, Traverse
  <1>3. CASE AskBegin
    <2>1. scanned' = {} /\ pc' = "end"
      BY <1>3 DEF AskBegin, TypeInv, Shaped
    <2>2. QED
      BY <2>1
  <1>4. QED
    BY <1>1, <1>2, <1>3

\* Nothing is read while the ranges are resolved.
LEMMA ResolvingReads ==
    ASSUME TypeInv, ReadInv, AskEnd \/ AskSince \/ AskUntil
    PROVE  /\ ModeSound' /\ RangesShaped' /\ ReaderSound' /\ ScanSound' /\ ScanDense'
           /\ ReaderDense' /\ RangesCovered'
           /\ pc' \in {"since", "until", "resolved"} /\ Live /\ Live'
  <1>1. pc' \in {"since", "until", "resolved"}
    BY DEF AskEnd, AskSince, AskUntil, AfterEnd, AfterSince
  <1>2. scanned' = {}
    BY DEF AskEnd, AskSince, AskUntil, TypeInv, Shaped
  <1>3. Live /\ sel' = sel
    BY DEF AskEnd, AskSince, AskUntil, Live
  <1>4. pc' = "since" => sel.since # None
    BY DEF AskEnd, AskSince, AskUntil, AfterEnd, AfterSince
  <1>5. pc' = "until" => sel.until # None
    BY DEF AskEnd, AskSince, AskUntil, AfterEnd, AfterSince
  <1>6. QED
    BY <1>1, <1>2, <1>3, <1>4, <1>5
       DEF ModeSound, RangesShaped, Resolved, ReaderSound, ScanSound, ScanDense, ReaderDense,
           RangesCovered, Live, Reading, Completed

LEMMA AskEndReads ==
    ASSUME TypeInv, ReadInv, AskEnd
    PROVE  ReadInv'
  <1>1. /\ UNCHANGED <<source, begin, sel>> /\ limits' = [limits EXCEPT !.end = EndOffsets(source)]
        /\ ranges' = [p \in Chosen(sel) |-> Bounded(sel, p, limits.begin[p], limits'.end[p])]
        /\ pc' = AfterEnd
    BY DEF AskEnd, topics
  <1>2. Chosen(sel) \subseteq Partitions
    BY SelectionTypes DEF TypeInv, Started, AskEnd
  <1>3. limits'.begin = limits.begin
    BY <1>1 DEF TypeInv, TypeOK
  <1>4. ASSUME NEW p \in Chosen(sel)
        PROVE  /\ ranges'[p].start = IF p \in DOMAIN sel.from THEN sel.from[p] ELSE limits.begin[p]
               /\ ranges'[p].end = IF p \in DOMAIN sel.to THEN sel.to[p] ELSE limits'.end[p]
               /\ limits'.end[p] \in Nat /\ limits.begin[p] <= begin[p]
               /\ limits.begin[p] \in Nat /\ begin[p] \in Nat
    <2>1. limits'.end = EndOffsets(source)
      BY <1>1 DEF TypeInv, TypeOK
    <2>2. limits'.end[p] \in Nat
      BY <1>2, <2>1, LogTypes DEF EndOffsets, TypeInv, TypeOK, Logs
    <2>3. QED
      BY <1>1, <1>2, <2>2, LogTypes DEF Bounded, Span, TypeInv, LimitsSound
  <1>5. DOMAIN ranges' = Chosen(sel)
    BY <1>1
  <1>6. /\ sel.since # None => pc' = "since"
        /\ sel.until # None => pc' \in {"since", "until"}
    BY <1>1 DEF AfterEnd, AfterSince
  <1>7. \A p \in Chosen(sel) : /\ p \in DOMAIN sel.from => sel.from[p] \in Int
                               /\ p \in DOMAIN sel.to => sel.to[p] \in Int
    BY SelectionTypes
  <1>8. StartSound'
    BY <1>1, <1>4, <1>5, <1>6, <1>7 DEF StartSound
  <1>9. \A p \in Chosen(sel) : \A o \in DOMAIN source[p] : o \in Nat
    BY <1>2, LogTypes
  <1>10. StartComplete'
    BY <1>1, <1>4, <1>5, <1>7, <1>9 DEF StartComplete, IsKnown
  <1>11. EndSound'
    BY <1>1, <1>4, <1>5, <1>6, <1>7 DEF EndSound
  <1>12. EndComplete'
    BY <1>1, <1>4, <1>5, <1>7, <1>9 DEF EndComplete, IsKnown
  <1>13. QED
    BY <1>8, <1>10, <1>11, <1>12, ResolvingReads DEF ReadInv

LEMMA AskSinceReads ==
    ASSUME TypeInv, ReadInv, [Next]_vars, AskSince
    PROVE  ReadInv'
  <1>1. /\ UNCHANGED <<source, begin, sel, limits>> /\ pc = "since" /\ pc' = AfterSince
        /\ ranges' = [p \in DOMAIN ranges |-> From(ranges[p], Found(p, sel.since), limits.end[p])]
    BY DEF AskSince, topics
  <1>2. Ranged /\ sel.since # None /\ sel.since \in Nat /\ pc' # "since"
        /\ (sel.until # None => pc' = "until")
    BY <1>1, SelectionTypes DEF Ranged, Live, ReadInv, ModeSound, AfterSince
  <1>3. DOMAIN sel.from = {}
    BY <1>2, SelectionTypes
  <1>4. ASSUME NEW p \in DOMAIN ranges
        PROVE  /\ p \in Partitions /\ ranges'[p].end = ranges[p].end
               /\ ranges'[p].start = IF Found(p, sel.since) = None THEN limits.end[p]
                                     ELSE Found(p, sel.since)
               /\ limits.end[p] \in Nat
    <2>1. ranges'[p] = From(ranges[p], Found(p, sel.since), limits.end[p])
      BY <1>1
    <2>2. ranges[p] \in Spans /\ p \in Partitions
      BY DEF TypeInv, TypeOK
    <2>3. QED
      BY <2>1, <2>2, LogTypes DEF From, Spans
  <1>5. DOMAIN ranges' = DOMAIN ranges
    BY <1>1
  <1>6. StartSound'
    <2> SUFFICES ASSUME NEW p \in DOMAIN ranges
                 PROVE  \/ limits.end[p] <= ranges'[p].start
                        \/ \E o \in DOMAIN source[p] : /\ IsThere(p, o) /\ o <= ranges'[p].start
                                                       /\ sel.since <= source[p][o].ts
      BY <1>1, <1>3, <1>5 DEF StartSound, IsThere
    <2>1. CASE Found(p, sel.since) = None
      BY <1>4, <2>1
    <2>2. CASE Found(p, sel.since) # None
      <3>1. /\ IsThere(p, Found(p, sel.since)) /\ sel.since <= source[p][Found(p, sel.since)].ts
            /\ Found(p, sel.since) \in Nat
        BY <1>2, <1>4, <2>2, FoundIsNat
      <3>2. ranges'[p].start = Found(p, sel.since) /\ Found(p, sel.since) \in DOMAIN source[p]
        BY <1>4, <2>2, <3>1 DEF IsThere
      <3>3. QED
        BY <3>1, <3>2
    <2>3. QED
      BY <2>1, <2>2
  <1>7. StartComplete'
    <2> SUFFICES ASSUME NEW p \in DOMAIN ranges, NEW o \in DOMAIN source[p], IsKnown(p, o),
                        sel.since <= source[p][o].ts
                 PROVE  ranges'[p].start <= o
      BY <1>1, <1>2, <1>5 DEF StartComplete, IsKnown, IsThere
    <2>1. Found(p, sel.since) # None /\ Found(p, sel.since) <= o
      BY <1>2, <1>4, FoundIsNat DEF IsKnown
    <2>2. QED
      BY <1>4, <2>1
  <1>8. EndSound' /\ EndComplete'
    BY <1>1, <1>2, <1>4, <1>5
       DEF ReadInv, EndSound, EndComplete, IsKnown, IsThere, Before, Ranged
  <1>9. QED
    BY <1>6, <1>7, <1>8, ResolvingReads DEF ReadInv

LEMMA AskUntilReads ==
    ASSUME TypeInv, ReadInv, [Next]_vars, AskUntil
    PROVE  ReadInv'
  <1>1. /\ UNCHANGED <<source, begin, sel, limits>> /\ pc = "until" /\ pc' = "resolved"
        /\ ranges' = [p \in DOMAIN ranges |-> Until(ranges[p], Found(p, sel.until), limits.end[p])]
    BY DEF AskUntil, topics
  <1>2. Ranged /\ sel.until # None /\ sel.until \in Nat
    BY <1>1, SelectionTypes DEF Ranged, Live, ReadInv, ModeSound
  <1>3. DOMAIN sel.to = {}
    BY <1>2, SelectionTypes
  <1>4. ASSUME NEW p \in DOMAIN ranges
        PROVE  /\ p \in Partitions /\ ranges'[p].start = ranges[p].start
               /\ ranges'[p].end = IF Found(p, sel.until) = None THEN limits.end[p]
                                   ELSE Found(p, sel.until)
               /\ limits.end[p] \in Nat
    <2>1. ranges'[p] = Until(ranges[p], Found(p, sel.until), limits.end[p])
      BY <1>1
    <2>2. ranges[p] \in Spans /\ p \in Partitions
      BY DEF TypeInv, TypeOK
    <2>3. QED
      BY <2>1, <2>2, LogTypes DEF Until, Spans
  <1>5. DOMAIN ranges' = DOMAIN ranges
    BY <1>1
  <1>6. StartSound' /\ StartComplete'
    BY <1>1, <1>2, <1>4, <1>5 DEF ReadInv, StartSound, StartComplete, IsKnown, IsThere, Ranged
  <1>7. EndSound'
    <2> SUFFICES ASSUME NEW p \in DOMAIN ranges, NEW o \in DOMAIN source[p], IsKnown(p, o),
                        o < ranges'[p].end
                 PROVE  source[p][o].ts < sel.until
      BY <1>1, <1>3, <1>5 DEF EndSound, IsKnown, IsThere
    <2>1. source[p][o].ts \in Nat /\ o \in Nat
      BY <1>4, LogTypes, RecordTypes
    <2>2. ASSUME sel.until <= source[p][o].ts PROVE FALSE
      <3>1. Found(p, sel.until) # None /\ Found(p, sel.until) <= o /\ Found(p, sel.until) \in Nat
        BY <1>2, <1>4, <2>2, FoundIsNat DEF IsKnown
      <3>2. QED
        BY <1>4, <2>1, <3>1
    <2>3. QED
      BY <1>2, <2>1, <2>2
  <1>8. EndComplete'
    <2> SUFFICES ASSUME NEW p \in DOMAIN ranges, NEW o \in DOMAIN source[p], IsKnown(p, o),
                        Before(p, o)
                 PROVE  o < ranges'[p].end
      BY <1>1, <1>2, <1>5 DEF EndComplete, IsKnown, IsThere, Before
    <2>1. CASE Found(p, sel.until) = None
      BY <1>4, <2>1 DEF IsKnown
    <2>2. CASE Found(p, sel.until) # None
      <3>1. /\ IsThere(p, Found(p, sel.until)) /\ Found(p, sel.until) \in Nat
            /\ sel.until <= source[p][Found(p, sel.until)].ts
        BY <1>2, <1>4, <2>2, FoundIsNat
      <3>2. /\ o \in Nat /\ source[p][Found(p, sel.until)].ts \in Nat
            /\ Found(p, sel.until) \in DOMAIN source[p]
        BY <1>4, <3>1, LogTypes, RecordTypes DEF IsThere
      <3>3. ~(Found(p, sel.until) <= o)
        BY <1>2, <3>1, <3>2 DEF Before
      <3>4. QED
        BY <1>4, <2>2, <3>1, <3>2, <3>3
    <2>3. QED
      BY <2>1, <2>2
  <1>9. QED
    BY <1>6, <1>7, <1>8, ResolvingReads DEF ReadInv

LEMMA EnterReads ==
    ASSUME TypeInv, ReadInv, Enter
    PROVE  ReadInv'
  <1>1. /\ UNCHANGED <<source, begin, sel, limits, scanned, matched, mode>>
        /\ pc = "resolved" /\ pc' = "reading" /\ ranges' = Resolution
        /\ reader' = Seek(Min(DOMAIN ranges), ranges')
    BY DEF Enter, topics
  <1>2. scanned = {} /\ Ranged
    BY <1>1 DEF TypeInv, Shaped, Ranged, Live
  <1>3. /\ DOMAIN ranges' = DOMAIN ranges
        /\ Min(DOMAIN ranges) \in DOMAIN ranges
        /\ \A p \in DOMAIN ranges : Min(DOMAIN ranges) <= p
    BY <1>1, ResolutionIs
  <1>4. ASSUME NEW p \in DOMAIN ranges
        PROVE  /\ p \in Partitions /\ p \in Nat
               /\ ranges[p].start \in Int /\ ranges[p].end \in Int
               /\ ranges'[p].start \in Nat \ {0} /\ ranges'[p].end \in Int
               /\ ranges'[p].start = IF ranges[p].start <= limits.begin[p]
                                     THEN limits.begin[p] ELSE ranges[p].start
               /\ ranges'[p].end = IF ranges[p].end <= limits.end[p]
                                   THEN ranges[p].end ELSE limits.end[p]
               /\ limits.begin[p] \in Nat /\ limits.end[p] \in Nat /\ begin[p] \in Nat
               /\ limits.begin[p] <= begin[p]
    <2>1. p \in Partitions
      BY DEF TypeInv, TypeOK
    <2>2. QED
      BY <1>1, <2>1, ResolutionIs, RangeTypes, LogTypes DEF Spans, Offsets, TypeInv, LimitsSound
  <1>5. ASSUME NEW p \in DOMAIN ranges, NEW o \in DOMAIN source[p] PROVE o \in Nat
    BY <1>4, LogTypes
  <1>6. RangesShaped'
    BY <1>1, <1>3, <1>4 DEF RangesShaped, Resolved
  <1>7. StartSound'
    <2> SUFFICES ASSUME NEW p \in DOMAIN ranges
                 PROVE  /\ p \in DOMAIN sel.from => sel.from[p] <= ranges'[p].start
                        /\ sel.since # None =>
                               \/ limits.end[p] <= ranges'[p].start
                               \/ \E o \in DOMAIN source[p] :
                                      /\ IsThere(p, o) /\ o <= ranges'[p].start
                                      /\ sel.since <= source[p][o].ts
      BY <1>1, <1>3 DEF StartSound, IsThere
    <2>1. /\ p \in DOMAIN sel.from => sel.from[p] <= ranges[p].start /\ sel.from[p] \in Int
          /\ sel.since # None =>
                 \/ limits.end[p] <= ranges[p].start
                 \/ \E o \in DOMAIN source[p] :
                        IsThere(p, o) /\ o <= ranges[p].start /\ sel.since <= source[p][o].ts
      BY <1>1, <1>2, SelectionTypes DEF ReadInv, StartSound
    <2>2. ranges[p].start <= ranges'[p].start
      BY <1>4
    <2>3. /\ p \in DOMAIN sel.from => sel.from[p] <= ranges'[p].start
          /\ limits.end[p] <= ranges[p].start => limits.end[p] <= ranges'[p].start
          /\ \A o \in DOMAIN source[p] : o <= ranges[p].start => o <= ranges'[p].start
      BY <1>4, <1>5, <2>1, <2>2
    <2>4. QED
      BY <2>1, <2>3
  <1>8. StartComplete'
    BY <1>1, <1>2, <1>3, <1>4, <1>5 DEF ReadInv, StartComplete, IsKnown, IsThere
  <1>9. EndSound'
    <2> SUFFICES ASSUME NEW p \in DOMAIN ranges
                 PROVE  /\ p \in DOMAIN sel.to => ranges'[p].end <= sel.to[p]
                        /\ sel.until # None =>
                               \A o \in DOMAIN source[p] :
                                   IsKnown(p, o) /\ o < ranges'[p].end
                                       => source[p][o].ts < sel.until
      BY <1>1, <1>3 DEF EndSound, IsKnown, IsThere
    <2>1. /\ p \in DOMAIN sel.to => ranges[p].end <= sel.to[p] /\ sel.to[p] \in Int
          /\ sel.until # None =>
                 \A o \in DOMAIN source[p] :
                     IsKnown(p, o) /\ o < ranges[p].end => source[p][o].ts < sel.until
      BY <1>1, <1>2, SelectionTypes DEF ReadInv, EndSound
    <2>2. ranges'[p].end <= ranges[p].end
      BY <1>4
    <2>3. \A o \in DOMAIN source[p] : o < ranges'[p].end => o < ranges[p].end
      BY <1>4, <1>5, <2>2
    <2>4. QED
      BY <1>4, <2>1, <2>2, <2>3
  <1>10. EndComplete'
    BY <1>1, <1>2, <1>3, <1>4, <1>5
       DEF ReadInv, EndComplete, IsKnown, IsThere, Before
  <1>11. /\ reader'.p = Min(DOMAIN ranges) /\ reader'.next = ranges'[Min(DOMAIN ranges)].start
         /\ reader'.got = ranges'[Min(DOMAIN ranges)].start
    BY <1>1 DEF Seek
  <1>12. ReaderSound'
    BY <1>1, <1>3, <1>4, <1>5, <1>11 DEF ReaderSound, IsThere
  <1>13. ReaderDense'
    BY <1>1, <1>3, <1>4, <1>5, <1>11 DEF ReaderDense, IsThere
  <1>14. ScanSound' /\ ScanDense'
    BY <1>1, <1>2 DEF ScanSound, ScanDense
  <1>15. RangesCovered'
    <2>1. \A p \in DOMAIN ranges : ~(p < reader'.p)
      BY <1>3, <1>4, <1>11
    <2>2. QED
      BY <1>1, <1>3, <2>1 DEF RangesCovered, Completed
  <1>16. ModeSound'
    BY <1>1 DEF ModeSound, Completed
  <1>17. QED
    BY <1>6, <1>7, <1>8, <1>9, <1>10, <1>12, <1>13, <1>14, <1>15, <1>16 DEF ReadInv

\* Reading leaves alone what is known of the ranges.
LEMMA ReadKeepsBounds ==
    ASSUME TypeInv, ReadInv, [Next]_vars, Fetch \/ Yield \/ NextRange \/ Report
    PROVE  /\ StartSound' /\ StartComplete' /\ EndSound' /\ EndComplete'
           /\ RangesShaped' /\ ModeSound'
  <1>1. /\ pc = "reading" /\ Ranged /\ Live
        /\ UNCHANGED <<source, begin, sel, limits, ranges, mode>>
        /\ pc' \in {"reading", "sending", "asked"}
        /\ pc' = "sending" => mode = "execute"
        /\ pc' = "asked" => mode = "dry"
    BY DEF Fetch, Yield, NextRange, Report, Ranged, Live, topics, TypeInv, TypeOK
  <1>2. StartSound' /\ StartComplete' /\ EndSound' /\ EndComplete'
    BY <1>1, KeepBounds DEF ReadInv
  <1>3. RangesShaped'
    BY <1>1 DEF ReadInv, RangesShaped, Resolved
  <1>4. ModeSound'
    BY <1>1 DEF ModeSound, Completed
  <1>5. QED
    BY <1>2, <1>3, <1>4

LEMMA FetchReads ==
    ASSUME TypeInv, ReadInv, [Next]_vars, Fetch
    PROVE  ReadInv'
  <1> DEFINE q == reader.p
             end == Len(source[q]) + 1
  <1>1. /\ UNCHANGED <<source, begin, setting, sel, limits, ranges, scanned, matched, mode>>
        /\ pc = "reading" /\ pc' = "reading" /\ Reading /\ ~RangeOver /\ Batch = {}
    BY DEF Fetch, topics, Reading
  <1>2. /\ Live /\ Ranged /\ q \in DOMAIN ranges /\ q \in Partitions
        /\ ranges[q].end <= end /\ ranges[q].end <= limits.end[q]
        /\ reader.next \in Nat \ {0} /\ reader.got \in Nat \ {0} /\ reader.next <= reader.got
        /\ ranges[q].start <= reader.next
        /\ ranges[q].start \in Int /\ ranges[q].end \in Int
        /\ begin[q] \in Nat \ {0} /\ end \in Nat \ {0}
        /\ reader.next < ranges[q].end
    <2>1. ~(reader.next >= ranges[q].end)
      BY <1>1 DEF RangeOver, Exhausted
    <2>2. QED
      BY <1>1, <2>1, ReadingIs, RangeTypes, LogTypes
  <1>3. /\ reader'.p = q /\ reader.got <= reader'.next /\ reader'.next <= reader'.got
        /\ reader'.next \in Nat /\ reader'.got \in Nat
        /\ \/ begin[q] <= reader.got /\ reader'.next = reader.got /\ reader'.got <= end
           \/ /\ reader.got < begin[q] /\ reader'.got = reader'.next
              /\ reader'.next = IF setting.reset = "latest" THEN end ELSE begin[q]
    <2>1. begin[q] <= end
      BY <1>2 DEF TypeInv, LimitsSound
    <2>2. QED
      BY <1>2, <2>1 DEF Fetch
  <1> HIDE DEF q
  <1>4. \A o \in DOMAIN source[q] : o \in Nat /\ o < end
    <2>1. DOMAIN source[q] = 1..Len(source[q]) /\ Len(source[q]) \in Nat
      BY <1>2, LogTypes
    <2>2. QED
      BY <2>1
  <1> HIDE DEF end
  <1>5. ReaderSound'
    <2>1. ranges[q].start <= reader'.next
      BY <1>2, <1>3
    <2>2. reader'.next = reader'.got \/ reader'.got <= end
      BY <1>3
    <2>3. ASSUME NEW o \in DOMAIN source[q], IsThere(q, o), reader'.next <= o, o < reader'.got,
                 o < ranges[q].end, sel.until # None
          PROVE  source[q][o].ts < sel.until
      <3>1. begin[q] <= o
        BY <1>2, <1>3, <1>4, <2>3
      <3>2. o < limits.end[q]
        BY <1>2, <1>4, <2>3, LogTypes
      <3>3. IsKnown(q, o)
        BY <2>3, <3>1, <3>2 DEF IsKnown
      <3>4. QED
        BY <1>1, <1>2, <2>3, <3>3 DEF ReadInv, EndSound
    <2>4. QED
      BY <1>1, <1>3, <2>1, <2>2, <2>3 DEF ReaderSound, IsThere, end
  <1>6. ScanSound'
    <2>1. ASSUME NEW x \in scanned
          PROVE  x[1] <= q /\ (x[1] = q => x[2] < reader'.next)
      <3>1. x[1] <= q /\ (x[1] = q => x[2] < reader.next)
        BY <1>1, <1>2 DEF ReadInv, ScanSound, q
      <3>2. x[2] \in Nat
        BY DEF TypeInv, TypeOK, Places, Offsets
      <3>3. QED
        BY <1>2, <1>3, <3>1, <3>2
    <2>2. \A x \in scanned : Skips(source[x[1]][x[2]])' <=> Skips(source[x[1]][x[2]])
      BY <1>1 DEF Skips, Matches, CountStops
    <2>3. QED
      BY <1>1, <1>2, <1>3, <2>1, <2>2 DEF ReadInv, ScanSound
  <1>7. ScanDense'
    BY <1>1, <1>2 DEF ReadInv, ScanDense, IsThere, Scanned
  <1>8. ReaderDense'
    <2> SUFFICES ASSUME NEW o \in DOMAIN source[q], IsThere(q, o), ranges[q].start <= o,
                        begin[q] <= o, o < reader'.next, o < ranges[q].end,
                        NoJump \/ reader'.next < ranges[q].end
                 PROVE  Scanned(q, o)
      BY <1>1, <1>3 DEF ReaderDense, IsThere, Scanned, NoJump
    <2>1. CASE o < reader.next
      BY <1>1, <1>2, <2>1 DEF ReadInv, ReaderDense, q
    <2>2. CASE reader.next <= o
      <3>1. ~(o < reader.got)
        BY <1>1, <2>2, BatchIs DEF q
      <3>2. reader.got < begin[q] /\ reader'.next = IF setting.reset = "latest" THEN end ELSE begin[q]
        BY <1>2, <1>3, <1>4, <3>1
      <3>3. setting.reset = "latest" /\ reader'.next = end
        BY <1>2, <1>4, <3>2
      <3>4. ~NoJump
        <4>1. begin[q] # 1
          BY <1>2, <3>2
        <4>2. setting.trims
          BY <1>2, <4>1 DEF TypeInv, LimitsSound
        <4>3. QED
          BY <3>3, <4>2 DEF NoJump
      <3>5. QED
        BY <1>2, <3>3, <3>4
    <2>3. QED
      BY <1>2, <1>4, <2>1, <2>2
  <1>9. RangesCovered'
    BY <1>1, <1>2, <1>3 DEF ReadInv, RangesCovered, Covered, IsThere, Scanned, NoJump, Reading,
       Completed, q
  <1>10. QED
    BY <1>5, <1>6, <1>7, <1>8, <1>9, ReadKeepsBounds DEF ReadInv

LEMMA YieldReads ==
    ASSUME TypeInv, ReadInv, [Next]_vars, Yield
    PROVE  ReadInv'
  <1> DEFINE q == reader.p
             n == Min(Batch)
  <1>1. /\ UNCHANGED <<source, begin, setting, sel, limits, ranges, mode>>
        /\ pc = "reading" /\ Reading /\ pc' \in {"reading", "sending"} /\ Batch # {}
    BY DEF Yield, topics, Reading
  <1>2. /\ Live /\ Ranged /\ q \in DOMAIN ranges /\ q \in Partitions /\ q \in Nat
        /\ reader.next \in Nat \ {0} /\ reader.got \in Nat \ {0} /\ reader.next <= reader.got
        /\ ranges[q].start <= reader.next
        /\ ranges[q].start \in Int /\ ranges[q].end \in Int
    BY <1>1, ReadingIs, RangeTypes
  <1>3. /\ n \in Nat \ {0} /\ IsThere(q, n) /\ n \in DOMAIN source[q]
        /\ reader.next <= n /\ n < reader.got /\ n < ranges[q].end
        /\ \A o : IsThere(q, o) /\ reader.next <= o /\ o < reader.got => n <= o
        /\ reader'.p = q /\ reader'.next = n + 1 /\ reader'.got = reader.got
        /\ scanned' = scanned \cup {<<q, n>>}
        /\ matched' = IF Skips(source[q][n]) THEN matched ELSE matched \cup {<<q, n>>}
    BY YieldIs DEF Offsets, IsThere
  <1>4. \A o \in DOMAIN source[q] : o \in Nat
    BY <1>2, LogTypes
  <1>5. \A x \in scanned : /\ x[2] \in Nat /\ x[1] \in Partitions /\ x = <<x[1], x[2]>>
                           /\ x[1] <= q /\ (x[1] = q => x[2] < reader.next)
    BY <1>1, <1>2 DEF TypeInv, TypeOK, Places, Offsets, ReadInv, ScanSound
  <1> HIDE DEF q, n
  \* What lies between the start of the range and the record yielded was read.
  <1>6. ASSUME NEW o \in DOMAIN source[q], IsThere(q, o), ranges[q].start <= o, begin[q] <= o, o < n
        PROVE  Scanned(q, o)
    <2>1. o \in Nat /\ o < reader.got
      BY <1>2, <1>3, <1>4, <1>6
    <2>2. o < reader.next
      BY <1>2, <1>3, <1>6, <2>1
    <2>3. o < ranges[q].end /\ reader.next < ranges[q].end
      BY <1>2, <1>3, <1>6, <2>1
    <2>4. QED
      BY <1>1, <1>6, <2>2, <2>3 DEF ReadInv, ReaderDense, q
  <1>7. ReaderSound'
    <2>1. reader.next = reader.got \/ reader.got <= Len(source[q]) + 1
      BY <1>1 DEF ReadInv, ReaderSound, q
    <2>2. reader'.got <= Len(source[q]) + 1 /\ ranges[q].start <= n + 1 /\ n + 1 <= reader.got
      BY <1>2, <1>3, <2>1
    <2>3. sel.until # None =>
              \A o \in DOMAIN source[q] :
                  /\ IsThere(q, o) /\ n + 1 <= o /\ o < reader.got /\ o < ranges[q].end
                  => source[q][o].ts < sel.until
      <3>1. \A o \in DOMAIN source[q] : n + 1 <= o => reader.next <= o
        BY <1>2, <1>3, <1>4
      <3>2. QED
        BY <1>1, <3>1 DEF ReadInv, ReaderSound, q
    <2>4. QED
      BY <1>1, <1>3, <2>2, <2>3 DEF ReaderSound, IsThere
  <1>8. ScanSound'
    <2>1. \A x \in scanned' : Skips(source[x[1]][x[2]])' <=> Skips(source[x[1]][x[2]])
      BY <1>1 DEF Skips, Matches, CountStops
    <2>2. ASSUME NEW x \in scanned, x # <<q, n>>
          PROVE  /\ x[1] \in DOMAIN ranges
                 /\ ranges[x[1]].start <= x[2] /\ x[2] < ranges[x[1]].end
                 /\ sel.until # None => source[x[1]][x[2]].ts < sel.until
                 /\ x \in matched' <=> ~Skips(source[x[1]][x[2]])
                 /\ x[1] <= q /\ (x[1] = q => x[2] < n + 1)
      <3>1. /\ x[1] \in DOMAIN ranges
            /\ ranges[x[1]].start <= x[2] /\ x[2] < ranges[x[1]].end
            /\ sel.until # None => source[x[1]][x[2]].ts < sel.until
            /\ x \in matched <=> ~Skips(source[x[1]][x[2]])
        BY <1>2 DEF ReadInv, ScanSound
      <3>2. x \in matched' <=> x \in matched
        BY <1>3, <2>2
      <3>3. x[1] = q => x[2] < n + 1
        BY <1>2, <1>3, <1>5
      <3>4. QED
        BY <1>5, <3>1, <3>2, <3>3
    <2>3. /\ ranges[q].start <= n /\ n < ranges[q].end
          /\ sel.until # None => source[q][n].ts < sel.until
      BY <1>1, <1>2, <1>3 DEF ReadInv, ReaderSound, q
    <2>4. <<q, n>> \in matched' <=> ~Skips(source[q][n])
      <3>1. <<q, n>> \notin scanned
        BY <1>2, <1>3, <1>5
      <3>2. QED
        BY <1>3, <3>1 DEF TypeInv, TypeOK
    <2>5. ASSUME NEW x \in scanned'
          PROVE  /\ x[1] \in DOMAIN ranges
                 /\ ranges[x[1]].start <= x[2] /\ x[2] < ranges[x[1]].end
                 /\ sel.until # None => source[x[1]][x[2]].ts < sel.until
                 /\ x \in matched' <=> ~Skips(source[x[1]][x[2]])
                 /\ x[1] <= q /\ (x[1] = q => x[2] < n + 1)
      <3>1. CASE x = <<q, n>>
        BY <1>2, <1>3, <2>3, <2>4, <3>1
      <3>2. CASE x # <<q, n>>
        BY <1>3, <2>2, <2>5, <3>2
      <3>3. QED
        BY <3>1, <3>2
    <2>6. QED
      BY <1>1, <1>3, <2>1, <2>5 DEF ScanSound
  <1>9. ScanDense'
    <2> SUFFICES ASSUME NEW x \in scanned', NEW o \in DOMAIN source[x[1]], IsThere(x[1], o),
                        ranges[x[1]].start <= o, begin[x[1]] <= o, o < x[2]
                 PROVE  <<x[1], o>> \in scanned'
      BY <1>1 DEF ScanDense, IsThere, Scanned
    <2>1. CASE x \in scanned
      BY <1>2, <1>3, <2>1 DEF ReadInv, ScanDense, Scanned
    <2>2. CASE x = <<q, n>>
      BY <1>3, <1>6, <2>2 DEF Scanned
    <2>3. QED
      BY <1>3, <2>1, <2>2
  <1>10. ReaderDense'
    <2> SUFFICES ASSUME NEW o \in DOMAIN source[q], IsThere(q, o), ranges[q].start <= o,
                        begin[q] <= o, o < n + 1
                 PROVE  <<q, o>> \in scanned'
      BY <1>1, <1>3 DEF ReaderDense, IsThere, Scanned
    <2>1. CASE o = n
      BY <1>3, <2>1
    <2>2. CASE o < n
      BY <1>3, <1>6, <2>2 DEF Scanned
    <2>3. QED
      BY <1>3, <1>4, <2>1, <2>2
  <1>11. RangesCovered'
    BY <1>1, <1>2, <1>3 DEF ReadInv, RangesCovered, Covered, IsThere, Scanned, NoJump, Reading,
       Completed, q
  <1>12. QED
    BY <1>7, <1>8, <1>9, <1>10, <1>11, ReadKeepsBounds DEF ReadInv

LEMMA NextRangeReads ==
    ASSUME TypeInv, ReadInv, [Next]_vars, NextRange
    PROVE  ReadInv'
  <1> DEFINE q == Min(Later)
  <1>1. /\ UNCHANGED <<source, begin, setting, sel, limits, ranges, scanned, matched, mode>>
        /\ pc = "reading" /\ pc' = "reading" /\ Reading /\ RangeOver /\ Later # {}
        /\ reader' = Seek(q, ranges)
    BY DEF NextRange, topics, Reading
  <1>2. /\ Live /\ Ranged /\ reader.p \in DOMAIN ranges
        /\ q \in DOMAIN ranges /\ reader.p < q /\ q \in Nat /\ reader.p \in Nat
        /\ \A p \in DOMAIN ranges : p < q => p <= reader.p
        /\ q \in Partitions /\ ranges[q].start \in Nat
    BY <1>1, ReadingIs, RangeStarts, RangeTypes DEF Offsets
  <1>3. /\ reader'.p = q /\ reader'.next = ranges[q].start /\ reader'.got = ranges[q].start
    BY <1>1 DEF Seek
  <1>4. \A o \in DOMAIN source[q] : o \in Nat
    BY <1>2, LogTypes
  <1>5. \A x \in scanned : x[1] \in Nat /\ x[1] <= reader.p
    BY <1>1, <1>2, SelectorAssumption DEF TypeInv, TypeOK, Places, ReadInv, ScanSound
  <1> HIDE DEF q
  <1>6. ReaderSound'
    BY <1>1, <1>2, <1>3, <1>4 DEF ReaderSound, IsThere
  <1>7. ScanSound'
    <2>1. \A x \in scanned : Skips(source[x[1]][x[2]])' <=> Skips(source[x[1]][x[2]])
      BY <1>1 DEF Skips, Matches, CountStops
    <2>2. \A x \in scanned : x[1] <= q /\ x[1] # q
      BY <1>2, <1>5
    <2>3. QED
      BY <1>1, <1>2, <1>3, <2>1, <2>2 DEF ReadInv, ScanSound
  <1>8. ScanDense'
    BY <1>1, <1>2 DEF ReadInv, ScanDense, IsThere, Scanned
  <1>9. ReaderDense'
    BY <1>1, <1>2, <1>3, <1>4 DEF ReaderDense, IsThere
  <1>10. RangesCovered'
    <2> SUFFICES ASSUME NoJump, sel.max = None, NEW p \in DOMAIN ranges, p < q
                 PROVE  Covered(p)
      BY <1>1, <1>3 DEF RangesCovered, Covered, IsThere, Scanned, NoJump, Completed
    <2>1. p < reader.p \/ p = reader.p
      BY <1>2, RangeTypes
    <2>2. Covered(reader.p)
      BY <1>1, OverCovers
    <2>3. QED
      BY <1>1, <2>1, <2>2 DEF ReadInv, RangesCovered
  <1>11. QED
    BY <1>6, <1>7, <1>8, <1>9, <1>10, ReadKeepsBounds DEF ReadInv

LEMMA ReportReads ==
    ASSUME TypeInv, ReadInv, [Next]_vars, Report
    PROVE  ReadInv'
  <1>1. /\ UNCHANGED <<source, begin, setting, sel, limits, ranges, scanned, matched, mode>>
        /\ pc = "reading" /\ pc' = "asked" /\ Live
    BY DEF Report, topics, Live
  <1>2. ScanSound'
    <2>1. \A x \in scanned : Skips(source[x[1]][x[2]])' <=> Skips(source[x[1]][x[2]])
      BY <1>1 DEF Skips, Matches, CountStops
    <2>2. QED
      BY <1>1, <2>1 DEF ReadInv, ScanSound, Reading
  <1>3. ScanDense'
    BY <1>1 DEF ReadInv, ScanDense, IsThere, Scanned
  <1>4. ReaderSound' /\ ReaderDense' /\ RangesCovered'
    BY <1>1 DEF ReaderSound, ReaderDense, RangesCovered, Reading, Completed
  <1>5. QED
    BY <1>2, <1>3, <1>4, ReadKeepsBounds DEF ReadInv

LEMMA ReadInit == Init => ReadInv
  BY DEF Init, ReadInv, ModeSound, RangesShaped, Resolved, StartSound, StartComplete,
     EndSound, EndComplete, ReaderSound, ScanSound, ScanDense, ReaderDense, RangesCovered,
     Live, Ranged, Reading, Completed

LEMMA ReadStep == TypeInv /\ ReadInv /\ [Next]_vars => ReadInv'
  <1> SUFFICES ASSUME TypeInv, ReadInv, [Next]_vars PROVE ReadInv'
    OBVIOUS
  <1>1. CASE KeepStep
    BY <1>1, KeepReads
  <1>2. ASSUME NEW s, Refuse(s) \/ Start(s) \/ Accept \/ AskBegin PROVE ReadInv'
    BY <1>2, BeginReads
  <1>3. CASE AskEnd \/ AskSince \/ AskUntil
    BY <1>3, AskEndReads, AskSinceReads, AskUntilReads
  <1>4. CASE Enter \/ Fetch \/ Yield \/ NextRange \/ Report
    BY <1>4, EnterReads, FetchReads, YieldReads, NextRangeReads, ReportReads
  <1>5. QED
    BY <1>1, <1>2, <1>3, <1>4 DEF Next, Operator, Resolve, Read, KeepStep

-----------------------------------------------------------------------------
(* What a replay produces                                                  *)

\* What a record of a place is worth to the selection.
Selected(x) ==
    /\ AsksFor(sel, x[1], x[2])
    /\ Replayable(source[x[1]][x[2]])
    /\ x[2] < limits.end[x[1]]
    /\ InOrder(x[1], limits.end[x[1]]) => InTime(sel, source[x[1]][x[2]])

LEMMA NotStopped ==
    ASSUME NEW rec \in LogRecords
    PROVE  Replayable(rec) <=> ~CountStops(rec)
  <1>1. Replays(rec) \in Values
    BY RecordTypes
  <1>2. MaxReplayCount \in Nat \ {0}
    BY ReplayAssumption
  <1>3. ReplayCount \in DOMAIN rec.headers =>
            rec.headers[ReplayCount] \in Values /\ Replays(rec) = rec.headers[ReplayCount]
    BY RecordTypes DEF Replays
  <1>4. ReplayCount \notin DOMAIN rec.headers => Replays(rec) = 0
    BY DEF Replays
  <1>5. QED
    BY <1>1, <1>2, <1>3, <1>4 DEF Replayable, CountStops, Values, Unreadable

LEMMA MatchedIsSelected ==
    ASSUME TypeInv, ReadInv, Resolved, NEW x \in matched
    PROVE  Selected(x) /\ x[1] \in Partitions /\ x[2] \in DOMAIN source[x[1]]
  <1>1. /\ Live /\ Ranged /\ DOMAIN ranges = Chosen(sel)
        /\ \A p \in DOMAIN ranges : ranges[p].end <= limits.end[p]
    BY DEF Resolved, Ranged, TypeInv, Shaped, ReadInv, RangesShaped
  <1>2. /\ x \in scanned /\ x[1] \in Partitions /\ x[2] \in Nat \ {0}
        /\ IsThere(x[1], x[2]) /\ x[2] \in DOMAIN source[x[1]]
    BY DEF TypeInv, TypeOK, Placed, Places, Offsets, IsThere
  <1>3. /\ x[1] \in DOMAIN ranges
        /\ ranges[x[1]].start <= x[2] /\ x[2] < ranges[x[1]].end
        /\ sel.until # None => source[x[1]][x[2]].ts < sel.until
        /\ ~Skips(source[x[1]][x[2]])
    BY <1>1, <1>2 DEF ReadInv, ScanSound
  <1>4. Matches(sel, source[x[1]][x[2]]) /\ ~CountStops(source[x[1]][x[2]])
    BY <1>3 DEF Skips
  <1>5. /\ ranges[x[1]].start \in Int /\ ranges[x[1]].end \in Int /\ limits.end[x[1]] \in Nat
        /\ source[x[1]][x[2]] \in LogRecords
    BY <1>2, <1>3, RangeTypes, LogTypes
  <1>6. x[2] < limits.end[x[1]]
    BY <1>1, <1>2, <1>3, <1>5
  <1>7. /\ x[1] \in DOMAIN sel.from => sel.from[x[1]] <= x[2]
        /\ x[1] \in DOMAIN sel.to => x[2] < sel.to[x[1]]
    <2>1. /\ x[1] \in DOMAIN sel.from => sel.from[x[1]] \in Int /\ sel.from[x[1]] <= ranges[x[1]].start
          /\ x[1] \in DOMAIN sel.to => sel.to[x[1]] \in Int /\ ranges[x[1]].end <= sel.to[x[1]]
      BY <1>1, <1>3, SelectionTypes DEF ReadInv, StartSound, EndSound, Resolved
    <2>2. QED
      BY <1>2, <1>3, <1>5, <2>1
  <1>8. ASSUME InOrder(x[1], limits.end[x[1]]), sel.since # None
        PROVE  sel.since <= source[x[1]][x[2]].ts
    <2>1. PICK o \in DOMAIN source[x[1]] :
              IsThere(x[1], o) /\ o <= ranges[x[1]].start /\ sel.since <= source[x[1]][o].ts
      <3>1. ~(limits.end[x[1]] <= ranges[x[1]].start)
        BY <1>2, <1>3, <1>5, <1>6
      <3>2. QED
        BY <1>1, <1>3, <1>8, <3>1 DEF ReadInv, StartSound, Resolved
    <2>2. /\ o \in Nat \ {0} /\ source[x[1]][o].ts \in Nat /\ source[x[1]][x[2]].ts \in Nat
          /\ sel.since \in Nat
      BY <1>2, LogTypes, RecordTypes, SelectionTypes
    <2>3. o <= x[2] /\ o < limits.end[x[1]]
      BY <1>2, <1>3, <1>5, <1>6, <2>1, <2>2
    <2>4. o \in Records(source[x[1]], 1, limits.end[x[1]])
          /\ x[2] \in Records(source[x[1]], 1, limits.end[x[1]])
      BY <1>2, <1>6, <2>1, <2>2, <2>3 DEF Records, IsThere
    <2>5. source[x[1]][o].ts <= source[x[1]][x[2]].ts
      BY <1>8, <2>3, <2>4 DEF InOrder
    <2>6. QED
      BY <2>1, <2>2, <2>5
  <1>9. QED
    BY <1>1, <1>2, <1>3, <1>4, <1>5, <1>6, <1>7, <1>8, NotStopped
       DEF Selected, AsksFor, InTime

\* Who produces, and who writes down what was produced.
LEMMA EffectsFrame ==
    ASSUME [Next]_vars
    PROVE  /\ Deliver \/ target' = target
           /\ Sent \/ AuditFails \/ (sent' = sent /\ trail' = trail)
           /\ Refuse(sel') \/ Start(sel') \/ (run' = run /\ sel' = sel)
           /\ Report \/ Start(sel') \/ plan' = plan
           /\ CommitOffset \/ committed' = committed
  <1>1. CASE Around \/ UNCHANGED vars
    <2>1. UNCHANGED <<target, traversal, effects>>
      BY <1>1, AroundFrame DEF vars, topics
    <2>2. QED
      BY <2>1 DEF traversal, effects
  <1>2. CASE Operator
    BY <1>2 DEF Operator, Refuse, Start, Accept, Abort, Decline, Traverse, topics, traversal,
       effects
  <1>3. CASE Resolve \/ Enter \/ Read
    BY <1>3 DEF Resolve, AskBegin, AskEnd, AskSince, AskUntil, Enter, Read, Fetch, Yield,
       NextRange, Report, Finish, topics, traversal, effects
  <1>4. CASE Produce \/ Faults
    BY <1>4 DEF Produce, Faults, Deliver, Sent, CommitOffset, AuditFails, Fail, topics,
       traversal, effects
  <1>5. QED
    BY <1>1, <1>2, <1>3, <1>4 DEF Next

LEMMA RunsStep == TypeInv /\ RunsBounded /\ [Next]_vars => RunsBounded'
  <1> SUFFICES ASSUME TypeInv, RunsBounded, [Next]_vars PROVE RunsBounded'
    OBVIOUS
  <1>1. /\ run \in Nat /\ run' \in Nat /\ run <= run'
        /\ \A x \in sent : x[1] \in Nat
    <2>1. run \in Nat /\ \A x \in sent : x[1] \in Nat
      BY ReplayAssumption DEF TypeInv, TypeOK
    <2>2. run' = run \/ run' = run + 1
      BY EffectsFrame DEF Refuse, Start
    <2>3. QED
      BY <2>1, <2>2
  <1>2. sent' = sent \/ sent' = sent \cup {Entry}
    BY EffectsFrame DEF Sent, AuditFails
  <1>3. Entry[1] = run
    BY DEF Entry
  <1>4. \A x \in sent' : x[1] <= run
    BY <1>1, <1>2, <1>3 DEF RunsBounded
  <1>5. \A x \in sent' : x[1] \in Nat
    BY <1>1, <1>2, <1>3
  <1>6. QED
    BY <1>1, <1>4, <1>5 DEF RunsBounded

\* A new run has produced nothing.
LEMMA NewRun ==
    ASSUME TypeInv, RunsBounded, NEW s, Refuse(s) \/ Start(s)
    PROVE  /\ run' = run + 1 /\ target' = target /\ sent' = sent /\ trail' = trail
           /\ Landed' = {} /\ SentNow' = {} /\ LandedIn(run + 1) = {} /\ Lines(run + 1) = {}
  <1>1. /\ run' = run + 1 /\ target' = target /\ sent' = sent /\ trail' = trail
    BY DEF Refuse, Start, topics, effects
  <1>2. /\ run \in Nat
        /\ \A x \in target : x.run \in Nat /\ x.run <= run
        /\ \A x \in sent : x[1] \in Nat /\ x[1] <= run
        /\ trail \subseteq sent
    BY ReplayAssumption DEF TypeInv, TypeOK, Placed, RunsBounded
  <1>3. (\A x \in target : x.run # run + 1) /\ (\A x \in sent : x[1] # run + 1)
    BY <1>2
  <1>4. QED
    BY <1>1, <1>2, <1>3 DEF Landed, SentNow, LandedIn, Lines

LEMMA LandedStep ==
    TypeInv /\ ReadInv /\ RunsBounded /\ LandedSound /\ [Next]_vars => LandedSound'
  <1> SUFFICES ASSUME TypeInv, ReadInv, RunsBounded, LandedSound, [Next]_vars, Live'
               PROVE  /\ Landed' \subseteq Produced'
                      /\ SentNow' \subseteq Landed'
                      /\ Produced' \subseteq Landed' \cup (IF pc' = "sending" THEN {At'} ELSE {})
                      /\ Landed' \subseteq SentNow' \cup (IF pc' = "landed" THEN {At'} ELSE {})
    BY DEF LandedSound
  <1>1. CASE Deliver
    <2>1. /\ pc = "sending" /\ pc' = "landed" /\ UNCHANGED <<traversal, effects>> /\ Live
          /\ target' = target \cup
                 {[run |-> run, p |-> At[1], o |-> At[2], rec |-> Build(Current)]}
      BY <1>1 DEF Deliver, Live
    <2>2. run' = run /\ Produced' = Produced /\ At' = At /\ SentNow' = SentNow
      BY <2>1 DEF traversal, effects, Produced, At, SentNow
    <2>3. At = <<At[1], At[2]>>
      BY DEF At
    <2>4. Landed' = Landed \cup {At}
      <3> DEFINE new == [run |-> run, p |-> At[1], o |-> At[2], rec |-> Build(Current)]
      <3>1. new.run = run /\ <<new.p, new.o>> = At
        BY <2>3
      <3>2. target' = target \cup {new}
        BY <2>1
      <3> HIDE DEF new
      <3>3. QED
        BY <2>2, <3>1, <3>2 DEF Landed
    <2>5. At \in Produced
      BY <2>1 DEF TypeInv, AtSound, Produced, ReadInv, ModeSound
    <2>6. QED
      BY <2>1, <2>2, <2>4, <2>5 DEF LandedSound
  <1>2. CASE Sent \/ AuditFails
    <2>1. /\ pc = "landed" /\ pc' \in {"reading", "idle"} /\ UNCHANGED <<topics, traversal>>
          /\ Live /\ sent' = sent \cup {Entry}
      BY <1>2 DEF Sent, AuditFails, Live
    <2>2. run' = run /\ Produced' = Produced /\ At' = At /\ Landed' = Landed
      BY <2>1 DEF topics, traversal, Produced, At, Landed
    <2>3. Entry[1] = run /\ <<Entry[2], Entry[3]>> = At
      BY DEF Entry, At
    <2>4. SentNow' = SentNow \cup {At}
      BY <2>1, <2>2, <2>3 DEF SentNow
    <2>5. At \in Landed
      BY <2>1 DEF LandedSound, TypeInv, AtSound, Produced, ReadInv, ModeSound
    <2>6. QED
      BY <2>1, <2>2, <2>4, <2>5 DEF LandedSound
  <1>3. ASSUME NEW s, Refuse(s) \/ Start(s)
        PROVE  Landed' = {} /\ SentNow' = {} /\ Produced' = {}
    BY <1>3, NewRun DEF Refuse, Start, Traverse, Produced, Live
  <1>4. CASE ~Deliver /\ ~Sent /\ ~AuditFails /\ run' = run
    <2>1. Landed' = Landed /\ SentNow' = SentNow
      BY <1>4, EffectsFrame DEF Landed, SentNow
    <2>2. CASE Accept
      <3>1. Produced = {} /\ Produced' = {} /\ Live /\ pc' = "begin"
        BY <2>2 DEF Accept, Traverse, Produced, ReadInv, ModeSound, Live
      <3>2. Landed = {} /\ SentNow = {}
        BY <3>1 DEF LandedSound
      <3>3. QED
        BY <2>1, <3>1, <3>2
    <2>3. CASE Resolve \/ Enter
      <3>1. matched = {} /\ matched' = matched /\ Live /\ pc' \notin {"sending", "landed"}
        BY <2>3 DEF Resolve, AskBegin, AskEnd, AskSince, AskUntil, AfterEnd, AfterSince, Enter,
           TypeInv, TypeOK, Shaped, Live
      <3>2. Produced = {} /\ Produced' = {}
        BY <3>1 DEF Produced
      <3>3. QED
        BY <2>1, <3>1, <3>2 DEF LandedSound
    <2>4. CASE Fetch \/ NextRange \/ Report
      <3>1. /\ matched' = matched /\ mode' = mode /\ Live
            /\ pc = "reading" /\ pc' \notin {"sending", "landed"}
        BY <2>4 DEF Fetch, NextRange, Report, Live
      <3>2. Produced' = Produced
        BY <3>1 DEF Produced
      <3>3. QED
        BY <2>1, <3>1, <3>2 DEF LandedSound
    <2>5. CASE Yield
      <3>1. pc = "reading" /\ Live /\ mode' = mode /\ mode \in {"dry", "execute"}
        BY <2>5 DEF Yield, Live, TypeInv, TypeOK
      <3>2. Landed = Produced /\ SentNow = Landed
        BY <3>1 DEF LandedSound
      <3>3. /\ pc' = "sending" => mode = "execute" /\ matched' = matched \cup {At'}
            /\ pc' # "sending" => pc' = "reading" /\ (mode = "dry" \/ matched' = matched)
        BY <2>5, <3>1, YieldIs
      <3>4. QED
        BY <2>1, <3>1, <3>2, <3>3 DEF Produced
    <2>6. CASE KeepStep
      <3>1. /\ matched' = matched /\ mode' = mode /\ At' = At /\ Live
            /\ pc' = "sending" => pc = "sending"
            /\ pc' = "landed" => pc \in {"sending", "landed"}
        BY <2>6, KeepFrame DEF At
      <3>2. pc = "sending" => pc' = "sending" \/ ~Live'
        BY <1>4, <2>6, AroundFrame
           DEF KeepStep, Abort, Decline, Finish, Produce, CommitOffset, Faults, Fail, Live, vars
      <3>3. pc = "landed" => pc' = "landed" \/ ~Live'
        BY <1>4, <2>6, AroundFrame
           DEF KeepStep, Abort, Decline, Finish, Produce, CommitOffset, Faults, Fail, Live, vars
      <3>4. Produced' = Produced
        BY <3>1 DEF Produced
      <3>5. QED
        BY <2>1, <3>1, <3>2, <3>3, <3>4 DEF LandedSound
    <2>7. ASSUME NEW s, Refuse(s) \/ Start(s) PROVE FALSE
      <3>1. run' = run + 1 /\ run \in Nat
        BY <2>7, ReplayAssumption DEF Refuse, Start, TypeInv, TypeOK
      <3>2. QED
        BY <1>4, <3>1
    <2>8. QED
      BY <2>2, <2>3, <2>4, <2>5, <2>6, <2>7 DEF Next, Operator, Read, KeepStep
  <1>5. QED
    BY <1>1, <1>2, <1>3, <1>4, EffectsFrame

LEMMA SelectedStays ==
    ASSUME TypeInv, [Next]_vars, sel' = sel, limits' = limits, NEW p \in Partitions, NEW o,
           IsThere(p, o), Selected(<<p, o>>)
    PROVE  Selected(<<p, o>>)'
  <1>1. source'[p][o] = source[p][o]
    BY ThereStays
  <1>2. InOrder(p, limits.end[p])' <=> InOrder(p, limits.end[p])
    BY InOrderStays
  <1>3. QED
    BY <1>1, <1>2 DEF Selected, AsksFor, Matches, Chosen, InTime, Replayable, Replays

LEMMA SelectedStep ==
    ASSUME TypeInv, ReadInv, RunsBounded, LandedSound, OnlySelected, [Next]_vars
    PROVE  OnlySelected'
  <1>1. OnlySelected <=> \A x \in Landed : Selected(x)
    BY DEF OnlySelected, Selected
  <1>2. OnlySelected' <=> \A x \in Landed' : Selected(x)'
    BY DEF OnlySelected, Selected
  <1>3. \A x \in Landed : x = <<x[1], x[2]>> /\ x[1] \in Partitions /\ IsThere(x[1], x[2])
    BY DEF Landed, TypeInv, TypeOK, Placed
  <1>4. CASE Landed' = {}
    BY <1>2, <1>4
  <1>5. CASE sel' = sel /\ limits' = limits /\ \A x \in Landed' : x \in Landed \/ (x \in matched /\ Reading)
    <2>1. \A x \in Landed' : /\ Selected(x) /\ x = <<x[1], x[2]>>
                             /\ x[1] \in Partitions /\ IsThere(x[1], x[2])
      <3>1. \A x \in matched : x = <<x[1], x[2]>> /\ x[1] \in Partitions /\ IsThere(x[1], x[2])
        BY DEF TypeInv, TypeOK, Placed, Places
      <3>2. QED
        BY <1>1, <1>3, <1>5, <3>1, MatchedIsSelected DEF Reading, Resolved, Ranged, Live
    <2>2. \A x \in Landed' : Selected(<<x[1], x[2]>>)'
      BY <1>5, <2>1, SelectedStays
    <2>3. QED
      BY <1>2, <2>1, <2>2
  <1>6. CASE Deliver
    <2>1. Landed' \subseteq Landed \cup {At}
      <3> DEFINE new == [run |-> run, p |-> At[1], o |-> At[2], rec |-> Build(Current)]
      <3>1. target' = target \cup {new} /\ run' = run
        BY <1>6 DEF Deliver, traversal
      <3>2. <<new.p, new.o>> = At
        BY DEF At
      <3> HIDE DEF new
      <3>3. QED
        BY <3>1, <3>2 DEF Landed
    <2>2. At \in matched /\ Reading /\ sel' = sel /\ limits' = limits
      BY <1>6 DEF Deliver, traversal, TypeInv, AtSound, Reading
    <2>3. QED
      BY <1>5, <2>1, <2>2
  <1>7. ASSUME NEW s, Refuse(s) \/ Start(s) PROVE Landed' = {}
    BY <1>7, NewRun
  <1>8. CASE ~Deliver /\ run' = run /\ sel' = sel
    <2>1. Landed' = Landed
      BY <1>8, EffectsFrame DEF Landed
    <2>2. CASE AskBegin \/ AskEnd
      <3>1. matched = {} /\ Live
        BY <2>2 DEF AskBegin, AskEnd, TypeInv, TypeOK, Shaped, Live
      <3>2. Landed = {}
        BY <3>1 DEF LandedSound, Produced
      <3>3. QED
        BY <1>4, <2>1, <3>2
    <2>3. CASE limits' = limits
      BY <1>5, <1>8, <2>1, <2>3
    <2>4. AskBegin \/ AskEnd \/ limits' = limits
      BY KeepFrame DEF Next, Operator, Refuse, Start, Accept, Resolve, AskSince, AskUntil, Enter,
         Read, Fetch, Yield, NextRange, Report, KeepStep
    <2>5. QED
      BY <2>2, <2>3, <2>4
  <1>9. QED
    BY <1>6, <1>7, <1>8, <1>4, EffectsFrame

\* Building the copy counts it.
LEMMA BuildCovers ==
    ASSUME NEW rec \in LogRecords, CountCovers(rec), ~CountStops(rec)
    PROVE  CountCovers(Build(rec))
  <1>1. /\ Build(rec).hops = rec.hops + 1 /\ ReplayCount \in DOMAIN Build(rec).headers
        /\ Build(rec).headers[ReplayCount] = Replays(rec) + 1
    BY BuildTypes
  <1>2. Replays(rec) \in 0..MaxReplayCount - 1 /\ MaxReplayCount \in Nat /\ rec.hops \in Nat
    BY NotStopped, ReplayAssumption, RecordTypes DEF Replayable
  <1>3. rec.hops <= Replays(rec)
    BY <1>2 DEF CountCovers, Replays
  <1>4. QED
    BY <1>1, <1>2, <1>3 DEF CountCovers

LEMMA HopsInit == Init => HopsCounted
  <1> SUFFICES ASSUME Init PROVE HopsCounted
    OBVIOUS
  <1>1. \A p \in Partitions : \A o \in DOMAIN source[p] : source[p][o].hops = 0
    BY SettingsAssumption DEF Init, IsSetting
  <1>2. QED
    BY <1>1, ReplayAssumption DEF Init, HopsCounted, CountCovers

LEMMA HopsStep ==
    ASSUME TypeInv, ReadInv, HopsCounted, [Next]_vars
    PROVE  HopsCounted'
  <1>1. ASSUME NEW rec \in LogRecords, CountCovers(rec), GrowsBy(rec), NEW p \in Partitions,
               NEW o \in DOMAIN source'[p]
        PROVE  CountCovers(source'[p][o])
    <2>1. CASE o \in DOMAIN source[p]
      BY <2>1, LogStep DEF HopsCounted, Grows
    <2>2. CASE o \notin DOMAIN source[p]
      BY <1>1, <2>2 DEF GrowsBy, CountCovers
    <2>3. QED
      BY <2>1, <2>2
  <1>2. CASE Deliver
    <2>1. /\ pc = "sending" /\ (source' = source \/ Appended(Build(Current)))
          /\ target' = target \cup
                 {[run |-> run, p |-> At[1], o |-> At[2], rec |-> Build(Current)]}
      BY <1>2 DEF Deliver
    <2>2. /\ At \in matched /\ At[1] \in Partitions /\ At[2] \in DOMAIN source[At[1]]
          /\ Current = source[At[1]][At[2]] /\ Current \in LogRecords /\ Current.id \in Ids
      BY <2>1, CurrentTypes DEF IsThere
    <2>3. ~CountStops(Current)
      BY <2>1, <2>2 DEF ReadInv, ScanSound, Live, Skips, TypeInv, TypeOK
    <2>4. CountCovers(Current)
      BY <2>2 DEF HopsCounted
    <2>5. CountCovers(Build(Current)) /\ Build(Current) \in LogRecords /\ Build(Current).id \in Ids
      BY <2>2, <2>3, <2>4, BuildCovers, BuildTypes
    <2>6. \A x \in target' : CountCovers(x.rec)
      <3> DEFINE new == [run |-> run, p |-> At[1], o |-> At[2], rec |-> Build(Current)]
      <3>1. new.rec = Build(Current) /\ target' = target \cup {new}
        BY <2>1
      <3> HIDE DEF new
      <3>2. QED
        BY <2>5, <3>1 DEF HopsCounted
    <2>7. \A p \in Partitions : \A o \in DOMAIN source'[p] : CountCovers(source'[p][o])
      <3>1. CASE source' = source
        BY <3>1 DEF HopsCounted
      <3>2. CASE Appended(Build(Current))
        BY <1>1, <2>5, <3>2, AppendedStep
      <3>3. QED
        BY <2>1, <3>1, <3>2
    <2>8. QED
      BY <2>6, <2>7 DEF HopsCounted, CountCovers
  <1>3. CASE Around
    <2>1. target' = target
      BY <1>3, AroundFrame
    <2>2. ASSUME NEW rec \in LogRecords, rec.id \in Ids, Appended(rec),
                 rec.hops = 0 \/ \E x \in target : rec = Routed(x.rec)
          PROVE  \A p \in Partitions : \A o \in DOMAIN source'[p] : CountCovers(source'[p][o])
      <3>1. CASE rec.hops = 0
        <4>1. CountCovers(rec)
          BY <3>1, ReplayAssumption DEF CountCovers
        <4>2. QED
          BY <1>1, <2>2, <4>1, AppendedStep
      <3>2. ASSUME NEW x \in target, rec = Routed(x.rec) PROVE CountCovers(rec)
        <4>1. x.rec \in LogRecords /\ x.rec.id \in Ids /\ CountCovers(x.rec)
          BY DEF TypeInv, TypeOK, Placed, HopsCounted
        <4>2. QED
          BY <3>2, <4>1, RoutedTypes DEF CountCovers
      <3>3. QED
        BY <1>1, <2>2, <3>1, <3>2, AppendedStep
    <2>3. CASE UNCHANGED source
      BY <2>1, <2>3 DEF HopsCounted, CountCovers
    <2>4. QED
      BY <1>3, <2>1, <2>2, <2>3, AroundCases DEF HopsCounted, CountCovers
  <1>4. CASE OwnStep
    BY <1>4, OwnStepFrame DEF HopsCounted, CountCovers, topics
  <1>5. QED
    BY <1>2, <1>3, <1>4, StepKinds DEF TopicsStep

-----------------------------------------------------------------------------
(* The audit file, the committed offsets and the plan                      *)

LEMMA QuietStep ==
    ASSUME TypeInv, [Next]_vars, ~Deliver, ~Sent, ~AuditFails, run' = run, Live'
    PROVE  Live /\ (pc = "landed" => pc' = "landed" /\ At' = At)
  <1>1. ASSUME NEW s, Refuse(s) \/ Start(s) PROVE FALSE
    <2>1. run' = run + 1 /\ run \in Nat
      BY <1>1, ReplayAssumption DEF Refuse, Start, TypeInv, TypeOK
    <2>2. QED
      BY <2>1
  <1>2. CASE Accept \/ Resolve \/ Enter \/ Read
    BY <1>2 DEF Accept, Resolve, AskBegin, AskEnd, AskSince, AskUntil, Enter, Read, Fetch, Yield,
       NextRange, Report, Finish, Live
  <1>3. CASE KeepStep
    <2>1. Live /\ At' = At
      BY <1>3, KeepFrame DEF At
    <2>2. pc = "landed" => pc' = "landed"
      BY <1>3, AroundFrame
         DEF KeepStep, Abort, Decline, Finish, Produce, CommitOffset, Faults, Fail, Live, vars
    <2>3. QED
      BY <2>1, <2>2
  <1>4. QED
    BY <1>1, <1>2, <1>3 DEF Next, Operator, KeepStep

LEMMA AuditStep ==
    ASSUME TypeInv, ReadInv, RunsBounded, LandedSound, AuditSound, [Next]_vars
    PROVE  AuditSound'
  <1> SUFFICES ASSUME setting.audit
               PROVE  /\ \A n \in 1..run' :
                             /\ Lines(n)' \subseteq LandedIn(n)'
                             /\ \A x, y \in LandedIn(n)' \ Lines(n)' : x = y
                      /\ Live' => LandedIn(run)' \subseteq
                                      Lines(run)' \cup (IF pc' = "landed" THEN {At'} ELSE {})
    BY LogStep DEF AuditSound
  <1>1. run \in Nat /\ Landed = LandedIn(run)
    BY ReplayAssumption DEF TypeInv, TypeOK, Landed, LandedIn
  <1>2. /\ \A n \in 1..run : /\ Lines(n) \subseteq LandedIn(n)
                             /\ \A x, y \in LandedIn(n) \ Lines(n) : x = y
        /\ Live => LandedIn(run) \subseteq Lines(run) \cup (IF pc = "landed" THEN {At} ELSE {})
    BY DEF AuditSound
  <1>3. CASE Deliver
    <2> DEFINE new == [run |-> run, p |-> At[1], o |-> At[2], rec |-> Build(Current)]
    <2>1. /\ pc = "sending" /\ pc' = "landed" /\ UNCHANGED <<traversal, effects>>
          /\ target' = target \cup {new} /\ Live
      BY <1>3 DEF Deliver, Live
    <2>2. new.run = run /\ <<new.p, new.o>> = At
      BY DEF At
    <2> HIDE DEF new
    <2>3. run' = run /\ trail' = trail /\ At' = At
      BY <2>1 DEF traversal, effects, At
    <2>4. \A n : Lines(n)' = Lines(n) /\ LandedIn(n)' = LandedIn(n) \cup (IF n = run THEN {At} ELSE {})
      BY <2>1, <2>2, <2>3 DEF Lines, LandedIn
    <2>5. LandedIn(run) \subseteq Lines(run)
      BY <1>2, <2>1
    <2>6. LandedIn(run)' = LandedIn(run) \cup {At} /\ Lines(run)' = Lines(run)
      BY <2>1, <2>2, <2>3 DEF Lines, LandedIn
    <2>7. QED
      BY <1>2, <2>1, <2>3, <2>4, <2>5, <2>6
  <1>4. CASE Sent
    <2>1. /\ pc = "landed" /\ pc' = "reading" /\ UNCHANGED <<topics, traversal>> /\ Live
          /\ trail' = trail \cup {Entry}
      BY <1>4 DEF Sent, Live
    <2>2. run' = run /\ target' = target /\ Entry[1] = run /\ <<Entry[2], Entry[3]>> = At
      BY <2>1 DEF topics, traversal, Entry, At
    <2>3. \A n : LandedIn(n)' = LandedIn(n) /\ Lines(n)' = Lines(n) \cup (IF n = run THEN {At} ELSE {})
      BY <2>1, <2>2 DEF Lines, LandedIn
    <2>4. LandedIn(run)' = LandedIn(run) /\ Lines(run)' = Lines(run) \cup {At}
      BY <2>1, <2>2 DEF Lines, LandedIn
    <2>5. At \in LandedIn(run)
      BY <1>1, <2>1 DEF LandedSound, TypeInv, AtSound, Produced, ReadInv, ModeSound
    <2>6. QED
      BY <1>2, <2>1, <2>2, <2>3, <2>4, <2>5
  <1>5. CASE AuditFails
    <2>1. ~Live' /\ run' = run /\ target' = target /\ trail' = trail
      BY <1>5 DEF AuditFails, Live, topics, traversal
    <2>2. QED
      BY <1>2, <2>1 DEF Lines, LandedIn
  <1>6. ASSUME NEW s, Refuse(s) \/ Start(s)
        PROVE  /\ \A n \in 1..run' :
                      /\ Lines(n)' \subseteq LandedIn(n)'
                      /\ \A x, y \in LandedIn(n)' \ Lines(n)' : x = y
               /\ LandedIn(run)' = {}
    <2>1. /\ run' = run + 1 /\ target' = target /\ trail' = trail
          /\ LandedIn(run + 1) = {} /\ Lines(run + 1) = {}
      BY <1>6, NewRun
    <2>2. \A n : LandedIn(n)' = LandedIn(n) /\ Lines(n)' = Lines(n)
      BY <2>1 DEF LandedIn, Lines
    <2>3. \A n \in 1..run' : n \in 1..run \/ n = run + 1
      BY <1>1, <2>1
    <2>4. LandedIn(run)' = LandedIn(run + 1)
      BY <2>1 DEF LandedIn
    <2>5. QED
      BY <1>2, <2>1, <2>2, <2>3, <2>4
  <1>7. CASE ~Deliver /\ ~Sent /\ ~AuditFails /\ run' = run
    <2>1. target' = target /\ trail' = trail
      BY <1>7, EffectsFrame
    <2>2. \A n : LandedIn(n)' = LandedIn(n) /\ Lines(n)' = Lines(n)
      BY <2>1 DEF LandedIn, Lines
    <2>3. LandedIn(run)' = LandedIn(run) /\ Lines(run)' = Lines(run)
      BY <1>7, <2>1 DEF LandedIn, Lines
    <2>4. QED
      BY <1>2, <1>7, <2>2, <2>3, QuietStep
  <1>8. QED
    BY <1>3, <1>4, <1>5, <1>6, <1>7, EffectsFrame

LEMMA CommitStep ==
    ASSUME TypeInv, CommitSound, [Next]_vars
    PROVE  CommitSound'
  <1> SUFFICES ASSUME setting.commit, pc' = "committing" \/ Completed',
                      NEW p \in {x[1] : x \in scanned'} \ toCommit'
               PROVE  \E x \in scanned' : x[1] = p /\ committed'[p] = x[2] + 1
    BY LogStep DEF CommitSound
  <1>1. KeepStep /\ ~Abort /\ ~Decline
    BY DEF Next, Operator, Refuse, Start, Accept, Traverse, Abort, Decline, Resolve, AskBegin,
       AskEnd, AskSince, AskUntil, AfterEnd, AfterSince, Enter, Read, Fetch, Yield, NextRange,
       Report, KeepStep, Completed
  <1>2. scanned' = scanned
    BY <1>1, KeepFrame
  <1>3. CASE Finish
    BY <1>2, <1>3 DEF Finish
  <1>4. CASE CommitOffset
    <2> DEFINE m == Min(toCommit)
    <2>1. /\ m \in toCommit /\ m \in {x[1] : x \in scanned} /\ toCommit' = toCommit \ {m}
          /\ committed' = [committed EXCEPT ![m] = LastOffset(m) + 1]
          /\ pc = "committing" /\ committed \in [Partitions -> Nat]
      BY <1>4, CommitIs DEF CommitOffset, TypeInv, TypeOK
    <2> HIDE DEF m
    <2>2. m \in Partitions /\ <<m, LastOffset(m)>> \in scanned
      BY <2>1, LastOffsetIs
    <2>3. CASE p = m
      BY <1>2, <2>1, <2>2, <2>3
    <2>4. CASE p # m
      <3>1. p \in {x[1] : x \in scanned} \ toCommit /\ committed'[p] = committed[p]
        BY <1>2, <2>1, <2>4
      <3>2. QED
        BY <1>2, <2>1, <3>1 DEF CommitSound
    <2>5. QED
      BY <2>3, <2>4
  <1>5. CASE ~Finish /\ ~CommitOffset
    <2>1. UNCHANGED <<committed, toCommit>> /\ (pc = "committing" \/ Completed)
      BY <1>1, <1>5, AroundFrame
         DEF KeepStep, Produce, Deliver, Sent, Faults, AuditFails, Fail, Completed, vars, effects
    <2>2. QED
      BY <1>2, <2>1 DEF CommitSound
  <1>6. QED
    BY <1>3, <1>4, <1>5

LEMMA PlanStep == TypeInv /\ PlanSound /\ [Next]_vars => PlanSound'
  <1> SUFFICES ASSUME TypeInv, PlanSound, [Next]_vars PROVE PlanSound'
    OBVIOUS
  <1>1. CASE Report
    BY <1>1 DEF Report, PlanSound, TypeInv, TypeOK
  <1>2. CASE Start(sel')
    <2>1. plan'.ranges = <<>>
      BY <1>2 DEF Start, NoPlan
    <2>2. QED
      BY <2>1, NoRanges DEF PlanSound
  <1>3. CASE plan' = plan
    BY <1>3 DEF PlanSound
  <1>4. QED
    BY <1>1, <1>2, <1>3, EffectsFrame

-----------------------------------------------------------------------------
(* The dry run and the replay after it                                     *)

LEMMA MatchedIsPicked ==
    ASSUME TypeInv, ReadInv, Resolved, NEW x \in matched
    PROVE  /\ x \in Places /\ Picked(x[1], x[2])
           /\ limits.begin[x[1]] <= x[2] /\ x[2] < limits.end[x[1]]
  <1>1. /\ Selected(x) /\ x[1] \in Partitions /\ x[2] \in DOMAIN source[x[1]]
        /\ x \in scanned /\ x \in Places /\ IsThere(x[1], x[2])
    BY MatchedIsSelected DEF TypeInv, TypeOK, Placed
  <1>2. /\ x[1] \in DOMAIN ranges
        /\ ranges[x[1]].start <= x[2] /\ x[2] < ranges[x[1]].end
        /\ sel.until # None => source[x[1]][x[2]].ts < sel.until
    BY <1>1 DEF ReadInv, ScanSound, Resolved, Ranged
  <1>3. /\ limits.begin[x[1]] <= ranges[x[1]].start
        /\ ranges[x[1]].start \in Int /\ ranges[x[1]].end \in Int
        /\ limits.begin[x[1]] \in Nat /\ limits.end[x[1]] \in Nat /\ x[2] \in Nat \ {0}
    BY <1>1, <1>2, RangeTypes, LogTypes DEF ReadInv, RangesShaped
  <1>4. limits.begin[x[1]] <= x[2] /\ x[2] < limits.end[x[1]]
    BY <1>1, <1>2, <1>3 DEF Selected
  <1>5. Asked(x[1], x[2])
    BY <1>1 DEF Asked, Selected
  <1>6. After(x[1], x[2])
    <2> SUFFICES ASSUME sel.since # None
                 PROVE  \E a \in DOMAIN source[x[1]] :
                            IsThere(x[1], a) /\ a <= x[2] /\ sel.since <= source[x[1]][a].ts
      BY DEF After
    <2>1. ~(limits.end[x[1]] <= ranges[x[1]].start)
      BY <1>2, <1>3, <1>4
    <2>2. PICK a \in DOMAIN source[x[1]] :
              IsThere(x[1], a) /\ a <= ranges[x[1]].start /\ sel.since <= source[x[1]][a].ts
      BY <1>2, <2>1 DEF ReadInv, StartSound, Resolved
    <2>3. a \in Nat
      BY <1>1, LogTypes
    <2>4. a <= x[2]
      BY <1>2, <1>3, <2>2, <2>3
    <2>5. QED
      BY <2>2, <2>4
  <1>7. ~setting.trims => Before(x[1], x[2])
    <2> SUFFICES ASSUME ~setting.trims, sel.until # None,
                        NEW a \in DOMAIN source[x[1]], IsThere(x[1], a), a <= x[2]
                 PROVE  source[x[1]][a].ts < sel.until
      BY DEF Before
    <2>1. a \in Nat \ {0} /\ begin[x[1]] = 1
      BY <1>1, LogTypes DEF TypeInv, LimitsSound
    <2>2. IsKnown(x[1], a) /\ a < ranges[x[1]].end
      BY <1>2, <1>3, <1>4, <2>1 DEF IsKnown
    <2>3. QED
      BY <1>2, <2>2 DEF ReadInv, EndSound, Resolved
  <1>8. QED
    BY <1>1, <1>2, <1>4, <1>5, <1>6, <1>7 DEF Picked

LEMMA WantedIsMatched ==
    ASSUME TypeInv, ReadInv, Resolved, \A p \in DOMAIN ranges : Covered(p),
           NEW p \in Partitions, NEW o \in DOMAIN source[p],
           begin[p] <= o, o < limits.end[p], Wanted(p, o)
    PROVE  <<p, o>> \in matched
  <1>1. /\ Live /\ Ranged /\ DOMAIN ranges = Chosen(sel) /\ p \in DOMAIN ranges
        /\ IsThere(p, o) /\ IsKnown(p, o)
    BY DEF Resolved, Ranged, TypeInv, Shaped, Wanted, Asked, AsksFor, IsKnown
  <1>2. /\ ranges[p].start \in Int /\ o \in Nat \ {0} /\ begin[p] \in Nat
        /\ limits.end[p] \in Nat
    BY <1>1, RangeTypes, LogTypes
  <1>3. ranges[p].start <= o
    <2>1. CASE sel.since # None => sel.since <= source[p][o].ts
      BY <1>1, <2>1 DEF ReadInv, StartComplete, Wanted, Asked, AsksFor
    <2>2. CASE sel.since # None /\ ~setting.trims /\ After(p, o)
      <3>1. PICK a \in DOMAIN source[p] : IsThere(p, a) /\ a <= o /\ sel.since <= source[p][a].ts
        BY <2>2 DEF After
      <3>2. a \in Nat \ {0} /\ begin[p] = 1
        BY <2>2, LogTypes DEF TypeInv, LimitsSound
      <3>3. IsKnown(p, a)
        BY <1>2, <3>1, <3>2 DEF IsKnown
      <3>4. p \notin DOMAIN sel.from
        BY <2>2, SelectionTypes
      <3>5. ranges[p].start <= a
        BY <1>1, <3>1, <3>3, <3>4 DEF ReadInv, StartComplete
      <3>6. QED
        BY <1>2, <3>1, <3>2, <3>5
    <2>3. QED
      BY <2>1, <2>2 DEF Wanted
  <1>4. o < ranges[p].end
    BY <1>1 DEF ReadInv, EndComplete, Wanted, Asked, AsksFor
  <1>5. <<p, o>> \in scanned
    BY <1>1, <1>3, <1>4 DEF Covered, Scanned
  <1>6. ~Skips(source[p][o])
    BY LogTypes, NotStopped DEF Skips, Wanted, Asked, AsksFor
  <1>7. QED
    BY <1>1, <1>5, <1>6 DEF ReadInv, ScanSound

\* What is thought of a record stays, as the log grows behind it.
LEMMA JudgedStays ==
    ASSUME TypeInv, [Next]_vars, sel' = sel, setting' = setting,
           NEW p \in Partitions, NEW o \in DOMAIN source[p], IsThere(p, o)
    PROVE  /\ Picked(p, o) => Picked(p, o)'
           /\ Wanted(p, o)' => Wanted(p, o)
  <1>1. /\ IsThere(p, o)' /\ source'[p][o] = source[p][o]
        /\ o \in Nat /\ o < Len(source[p]) + 1
    BY ThereStays, LogTypes
  <1>2. \A a \in DOMAIN source[p] : IsThere(p, a) =>
            IsThere(p, a)' /\ source'[p][a] = source[p][a] /\ a \in DOMAIN source'[p]
    BY ThereStays
  <1>3. \A a \in DOMAIN source'[p] : IsThere(p, a)' /\ a <= o =>
            IsThere(p, a) /\ source'[p][a] = source[p][a] /\ a \in DOMAIN source[p]
    <2> SUFFICES ASSUME NEW a \in DOMAIN source'[p], IsThere(p, a)', a <= o
                 PROVE  IsThere(p, a) /\ source'[p][a] = source[p][a] /\ a \in DOMAIN source[p]
      OBVIOUS
    <2>1. a \in Nat
      BY LogStep DEF Logs
    <2>2. a < Len(source[p]) + 1
      BY <1>1, <2>1, LogTypes
    <2>3. QED
      BY <2>2, BelowStays
  <1>4. Asked(p, o)' <=> Asked(p, o)
    BY <1>1 DEF Asked, AsksFor, Matches, Replayable, Replays
  <1>5. (After(p, o)' <=> After(p, o)) /\ (Before(p, o)' <=> Before(p, o))
    BY <1>2, <1>3 DEF After, Before
  <1>6. QED
    BY <1>1, <1>4, <1>5 DEF Picked, Wanted

\* Only the end of a dry run makes a plan; the replay it is for keeps it.
LEMMA PlanFrame ==
    ASSUME TypeInv, [Next]_vars, ~Report, Planned'
    PROVE  /\ Planned /\ plan' = plan /\ sel' = sel /\ setting' = setting
           /\ \/ /\ limits' = limits
                 /\ pc' \in {"asked", "begin"} <=> pc \in {"asked", "begin"}
                 /\ pc' \in {"asked", "begin", "end"} <=> pc \in {"asked", "begin", "end"}
              \/ AskBegin
              \/ AskEnd
  <1>1. CASE KeepStep
    BY <1>1, KeepFrame DEF Planned
  <1>2. ASSUME NEW s, Refuse(s) \/ Start(s) PROVE FALSE
    BY <1>2 DEF Refuse, Start, Traverse, Planned, Live
  <1>3. CASE Accept
    BY <1>3 DEF Accept, Traverse, Planned, Live
  <1>4. CASE AskBegin \/ AskEnd \/ AskSince \/ AskUntil
    BY <1>4 DEF AskBegin, AskEnd, AskSince, AskUntil, AfterEnd, AfterSince, Planned, Live
  <1>5. CASE Enter \/ Fetch \/ Yield \/ NextRange
    BY <1>5 DEF Enter, Fetch, Yield, NextRange, Planned, Live
  <1>6. QED
    BY <1>1, <1>2, <1>3, <1>4, <1>5 DEF Next, Operator, Resolve, Read, KeepStep

\* What the operator asked of a record, that the plan's report leaves as it was.
LEMMA ReportAsks ==
    ASSUME Report, NEW p, NEW o
    PROVE  /\ Asked(p, o)' <=> Asked(p, o)
           /\ After(p, o)' <=> After(p, o)
           /\ Before(p, o)' <=> Before(p, o)
  <1>1. source' = source /\ sel' = sel /\ setting' = setting
    BY DEF Report, topics
  <1>2. \A a : IsThere(p, a)' <=> IsThere(p, a)
    BY <1>1 DEF IsThere
  <1>3. Asked(p, o)' <=> Asked(p, o)
    BY <1>1, <1>2 DEF Asked, AsksFor, Matches, Replayable, Replays
  <1>4. After(p, o)' <=> After(p, o)
    BY <1>1, <1>2 DEF After
  <1>5. Before(p, o)' <=> Before(p, o)
    BY <1>1, <1>2 DEF Before
  <1>6. QED
    BY <1>3, <1>4, <1>5

LEMMA PlanMade ==
    ASSUME TypeInv, ReadInv, Report
    PROVE  PlanKept'
  <1>1. /\ UNCHANGED <<source, begin, setting, sel, limits>>
        /\ plan'.matched = matched /\ plan'.limits = limits
        /\ pc = "reading" /\ RangeOver /\ Later = {} /\ pc' = "asked"
    BY DEF Report, topics
  <1>2. Resolved
    BY <1>1 DEF Resolved, Ranged, Live
  <1>3. \A p \in Partitions : limits.end[p] \in Nat /\ limits.end[p] <= Len(source[p]) + 1
    BY LogTypes DEF TypeInv, LimitsSound
  <1>4. \A x \in matched : x \in Places /\ Picked(x[1], x[2])' /\ x[2] < limits.end[x[1]]
    <2>1. \A x \in matched : x \in Places /\ Picked(x[1], x[2]) /\ x[2] < limits.end[x[1]]
      BY <1>2, MatchedIsPicked
    <2>2. ASSUME NEW x \in matched
          PROVE  /\ Asked(x[1], x[2])' <=> Asked(x[1], x[2])
                 /\ After(x[1], x[2])' <=> After(x[1], x[2])
                 /\ Before(x[1], x[2])' <=> Before(x[1], x[2])
      BY ReportAsks
    <2>3. QED
      BY <1>1, <2>1, <2>2 DEF Picked
  <1>5. ASSUME NoJump, sel.max = None, NEW p \in Partitions, NEW o \in DOMAIN source[p],
               begin[p] <= o, o < limits.end[p], Wanted(p, o)'
        PROVE  <<p, o>> \in matched
    <2>1. Wanted(p, o)
      <3>1. /\ Asked(p, o)' <=> Asked(p, o)
            /\ After(p, o)' <=> After(p, o)
            /\ Before(p, o)' <=> Before(p, o)
        BY ReportAsks
      <3>2. QED
        BY <1>1, <1>5, <3>1 DEF Wanted
    <2>2. \A q \in DOMAIN ranges : Covered(q)
      BY <1>1, <1>5, LastOverCovers
    <2>3. QED
      BY <1>2, <1>5, <2>1, <2>2, WantedIsMatched
  <1>6. QED
    BY <1>1, <1>3, <1>4, <1>5 DEF PlanKept, Horizon, NoJump

LEMMA PlanKeptStep == TypeInv /\ ReadInv /\ PlanKept /\ [Next]_vars => PlanKept'
  <1> SUFFICES ASSUME TypeInv, ReadInv, PlanKept, [Next]_vars, ~Report, Planned'
               PROVE  PlanKept'
    BY PlanMade DEF PlanKept
  <1>1. Planned /\ plan' = plan /\ sel' = sel /\ setting' = setting /\ (NoJump' <=> NoJump)
    BY PlanFrame DEF NoJump
  <1>2. \A p \in Partitions :
            /\ Len(source[p]) <= Len(source'[p]) /\ begin[p] <= begin'[p]
            /\ Len(source[p]) \in Nat /\ Len(source'[p]) \in Nat
            /\ begin[p] \in Nat /\ begin'[p] \in Nat /\ limits.begin[p] \in Nat
            /\ DOMAIN source'[p] \subseteq Nat
    BY LogTypes, LogStep DEF Grows, Offsets, Logs
  <1>3. \A p \in Partitions :
            /\ plan.limits.end[p] \in Nat /\ plan.limits.end[p] <= Len(source[p]) + 1
            /\ pc \notin {"asked", "begin", "end"} => plan.limits.end[p] <= limits.end[p]
    BY <1>1 DEF PlanKept
  <1>4. ASSUME NEW p \in Partitions
        PROVE  /\ plan.limits.end[p] <= Len(source'[p]) + 1
               /\ pc' \notin {"asked", "begin", "end"} => plan.limits.end[p] <= limits'.end[p]
               /\ Horizon(p) <= Horizon(p)' /\ Horizon(p) \in Nat /\ Horizon(p)' \in Nat
    <2>1. plan.limits.end[p] <= Len(source'[p]) + 1
      BY <1>2, <1>3
    <2>2. CASE /\ limits' = limits
               /\ pc' \in {"asked", "begin"} <=> pc \in {"asked", "begin"}
               /\ pc' \in {"asked", "begin", "end"} <=> pc \in {"asked", "begin", "end"}
      BY <1>2, <1>3, <2>1, <2>2 DEF Horizon
    <2>3. CASE AskBegin
      <3>1. pc = "begin" /\ pc' = "end" /\ limits'.begin = begin
        BY <2>3 DEF AskBegin, BeginningOffsets, TypeInv, TypeOK
      <3>2. QED
        BY <1>2, <2>1, <3>1 DEF Horizon
    <2>4. CASE AskEnd
      <3>1. pc = "end" /\ pc' \notin {"asked", "begin"} /\ limits'.begin = limits.begin
            /\ limits'.end[p] = Len(source[p]) + 1
        BY <2>4 DEF AskEnd, AfterEnd, AfterSince, EndOffsets, TypeInv, TypeOK, Logs
      <3>2. QED
        BY <1>2, <1>3, <2>1, <3>1 DEF Horizon
    <2>5. QED
      BY <2>2, <2>3, <2>4, PlanFrame
  <1>5. ASSUME NEW x \in plan.matched
        PROVE  x \in Places /\ Picked(x[1], x[2])' /\ x[2] < plan.limits.end[x[1]]
    <2>1. x \in Places /\ Picked(x[1], x[2]) /\ x[2] < plan.limits.end[x[1]]
      BY <1>1 DEF PlanKept
    <2>2. x[1] \in Partitions /\ IsThere(x[1], x[2]) /\ x[2] \in DOMAIN source[x[1]]
      BY <2>1 DEF Places, Picked, Asked, IsThere
    <2>3. QED
      BY <1>1, <2>1, <2>2, JudgedStays
  <1>6. ASSUME NoJump, sel.max = None, NEW p \in Partitions, NEW o \in DOMAIN source'[p],
               Horizon(p)' <= o, o < plan.limits.end[p], Wanted(p, o)'
        PROVE  <<p, o>> \in plan.matched
    <2>1. o \in Nat /\ o < Len(source[p]) + 1 /\ Horizon(p) <= o
      BY <1>2, <1>3, <1>4, <1>6
    <2>2. IsThere(p, o)'
      BY <1>6 DEF Wanted, Asked
    <2>3. IsThere(p, o) /\ o \in DOMAIN source[p]
      BY <2>1, <2>2, BelowStays
    <2>4. Wanted(p, o)
      BY <1>1, <1>6, <2>3, JudgedStays
    <2>5. QED
      BY <1>1, <1>6, <2>1, <2>3, <2>4 DEF PlanKept
  <1>7. QED
    BY <1>1, <1>3, <1>4, <1>5, <1>6 DEF PlanKept

-----------------------------------------------------------------------------
(* What was agreed to                                                      *)

LEMMA RangesFinite ==
    ASSUME TypeInv
    PROVE  IsFiniteSet(DOMAIN ranges) /\ \A p \in DOMAIN ranges : ranges[p] \in Spans
  <1>1. DOMAIN ranges \subseteq Partitions /\ \A p \in DOMAIN ranges : ranges[p] \in Spans
    BY RangeTypes DEF TypeInv, TypeOK
  <1>2. QED
    BY <1>1, SelectorAssumption, FS_Subset

\* The bound that is confirmed covers what is matched.
LEMMA MatchedBounded ==
    ASSUME TypeInv, ReadInv, MaxKept, Live
    PROVE  IsFiniteSet(matched) /\ Cardinality(matched) <= Bound(ranges) /\ Bound(ranges) \in Nat
  <1>1. /\ IsFiniteSet(DOMAIN ranges) /\ \A p \in DOMAIN ranges : ranges[p] \in Spans
        /\ sel.max \in Nat
    BY RangesFinite, SelectionTypes
  <1>2. InRanges(ranges, matched, DOMAIN ranges)
    <2>1. matched \subseteq scanned /\ scanned \subseteq Places
      BY DEF TypeInv, TypeOK
    <2>2. \A x \in matched : x = <<x[1], x[2]>> /\ x[2] \in Int
      BY <2>1 DEF Places, Offsets
    <2>3. QED
      BY <2>1, <2>2 DEF InRanges, ReadInv, ScanSound
  <1>3. /\ IsFiniteSet(matched) /\ TotalRecords(ranges) \in Nat
        /\ Cardinality(matched) <= TotalRecords(ranges)
    BY <1>1, <1>2, TotalCovers
  <1>4. CASE sel.max = None
    BY <1>3, <1>4 DEF Bound
  <1>5. CASE sel.max # None
    BY <1>1, <1>3, <1>5, MinPair DEF Bound, MaxKept
  <1>6. QED
    BY <1>3, <1>4, <1>5

LEMMA ConsentCovers ==
    TypeInv /\ ReadInv /\ LandedSound /\ ConsentInv => ConsentCoversSent
  <1> SUFFICES ASSUME TypeInv, ReadInv, LandedSound, ConsentInv, Live, mode = "execute",
                      Cardinality(Landed) > ConfirmAbove
               PROVE  consent \/ setting.yes
    BY DEF ConsentInv, LeftAgreed, ConsentCoversSent
  <1>1. Landed \subseteq matched
    BY DEF LandedSound, Produced
  <1>2. /\ IsFiniteSet(matched) /\ Cardinality(matched) <= Bound(ranges) /\ Bound(ranges) \in Nat
    BY MatchedBounded DEF ConsentInv
  <1>3. /\ Cardinality(Landed) <= Cardinality(matched)
        /\ Cardinality(Landed) \in Nat /\ Cardinality(matched) \in Nat
    BY <1>1, <1>2, FS_Subset, FS_CardinalityType
  <1>4. ConfirmAbove \in Nat
    BY ReplayAssumption
  <1>5. ~(Bound(ranges) <= ConfirmAbove)
    BY <1>2, <1>3, <1>4
  <1>6. Resolved
    <2>1. CASE pc \in {"begin", "end", "since", "until", "resolved"}
      <3>1. matched = {}
        BY <2>1 DEF TypeInv, TypeOK, Shaped
      <3>2. Cardinality(Landed) = 0
        BY <1>1, <3>1, FS_EmptySet
      <3>3. QED
        BY <1>4, <3>2
    <2>2. QED
      BY <2>1 DEF Resolved, Ranged
  <1>7. QED
    BY <1>5, <1>6 DEF ConsentInv, Agreed

\* Only a start changes what was asked for; then nothing is matched yet.
LEMMA AskedFrame ==
    ASSUME [Next]_vars
    PROVE  /\ setting' = setting
           /\ \/ \E s : Refuse(s)
              \/ matched' = {} /\ pc' = "begin" /\ (Accept \/ \E s : Start(s))
              \/ /\ mode' = mode /\ run' = run /\ sel' = sel /\ (Live' => Live)
                 /\ Yield \/ matched' = matched
                 /\ Enter \/ (consent' = consent /\ (Resolved' => ranges' = ranges /\ Resolved))
  <1> USE DEF Live, Ranged, Resolved
  <1>1. CASE Around \/ UNCHANGED vars
    <2>1. UNCHANGED <<setting, pc, traversal, outcome>>
      BY <1>1, AroundFrame DEF vars
    <2>2. QED
      BY <2>1 DEF traversal
  <1>2. CASE Operator
    BY <1>2 DEF Operator, Refuse, Start, Accept, Abort, Decline, Traverse, traversal
  <1>3. CASE Resolve
    BY <1>3 DEF Resolve, AskBegin, AskEnd, AskSince, AskUntil, AfterEnd, AfterSince
  <1>4. CASE Enter \/ Read
    BY <1>4 DEF Enter, Read, Fetch, Yield, NextRange, Report, Finish, traversal
  <1>5. CASE Produce \/ Faults
    BY <1>5 DEF Produce, Faults, Deliver, Sent, CommitOffset, AuditFails, Fail, traversal
  <1>6. QED
    BY <1>1, <1>2, <1>3, <1>4, <1>5 DEF Next

LEMMA MaxStep == ASSUME TypeInv, TypeInv', MaxKept, [Next]_vars PROVE MaxKept'
  <1>1. sel.max \in Nat /\ sel'.max \in Nat
    BY SettingsAssumption DEF TypeInv, TypeOK, IsSetting, IsSelection
  <1>2. CASE matched' = {}
    BY <1>1, <1>2, FS_EmptySet DEF MaxKept
  <1>3. ASSUME NEW s, Refuse(s) PROVE MaxKept'
    BY <1>3 DEF Refuse, MaxKept, Live
  <1>4. CASE sel' = sel /\ (Live' => Live) /\ matched' = matched
    BY <1>4 DEF MaxKept
  <1>5. CASE sel' = sel /\ (Live' => Live) /\ Yield
    <2> SUFFICES ASSUME Live, sel.max # None
                 PROVE  IsFiniteSet(matched') /\ Cardinality(matched') <= sel.max
      BY <1>5 DEF MaxKept
    <2>1. IsFiniteSet(matched) /\ Cardinality(matched) <= sel.max
      BY DEF MaxKept
    <2>2. Cardinality(matched) \in Nat /\ ~(Cardinality(matched) >= sel.max)
      BY <1>5, <2>1, FS_CardinalityType DEF Yield, RangeOver, MaxReached
    <2>3. \A x : /\ IsFiniteSet(matched \cup {x})
                 /\ \/ Cardinality(matched \cup {x}) = Cardinality(matched)
                    \/ Cardinality(matched \cup {x}) = Cardinality(matched) + 1
      BY <2>1, FS_AddElement
    <2>4. ASSUME NEW x PROVE Cardinality(matched \cup {x}) <= sel.max
      <3>1. \/ Cardinality(matched \cup {x}) = Cardinality(matched)
            \/ Cardinality(matched \cup {x}) = Cardinality(matched) + 1
        BY <2>3
      <3>2. Cardinality(matched) < sel.max
        BY <1>1, <2>2
      <3>3. QED
        BY <1>1, <2>2, <3>1, <3>2
    <2>5. matched' = matched \/ \E x : matched' = matched \cup {x}
      BY <1>5, YieldIs
    <2>6. QED
      BY <2>1, <2>3, <2>4, <2>5
  <1>6. QED
    BY <1>2, <1>3, <1>4, <1>5, AskedFrame

LEMMA AgreedStep == ASSUME TypeInv, Agreed, [Next]_vars PROVE Agreed'
  <1>1. ASSUME setting' = setting, mode' = mode, sel' = sel, consent' = consent,
               Resolved' => ranges' = ranges /\ Resolved
        PROVE  Agreed'
    BY <1>1 DEF Agreed, Bound
  <1>2. CASE Enter
    <2>1. /\ setting' = setting /\ mode' = mode /\ sel' = sel /\ ranges' = Resolution
          /\ consent' = NeedsConsent(Resolution)
      BY <1>2 DEF Enter
    <2>2. Bound(ranges)' = Bound(Resolution)
      BY <2>1 DEF Bound
    <2>3. /\ DOMAIN Resolution = DOMAIN ranges
          /\ \A p \in DOMAIN Resolution : Resolution[p] \in Spans
      BY <1>2, ResolutionIs DEF Enter
    <2>4. TotalRecords(Resolution) \in Nat
      <3>1. InRanges(Resolution, {}, DOMAIN Resolution)
        BY DEF InRanges
      <3>2. QED
        BY <2>3, <3>1, RangesFinite, TotalCovers
    <2>5. Bound(Resolution) \in Nat
      BY <2>4, SelectionTypes, MinPair DEF Bound
    <2>6. ~(Bound(Resolution) > ConfirmAbove) => Bound(Resolution) <= ConfirmAbove
      BY <2>5, ReplayAssumption
    <2>7. consent' = (mode = "execute" /\ Bound(Resolution) > ConfirmAbove /\ ~setting.yes)
      BY <2>1 DEF NeedsConsent
    <2>8. mode = "execute" => consent' \/ setting.yes \/ Bound(Resolution) <= ConfirmAbove
      BY <2>6, <2>7
    <2>9. QED
      BY <2>1, <2>2, <2>8 DEF Agreed
  <1>3. ASSUME NEW s, Refuse(s) PROVE Agreed'
    BY <1>3 DEF Refuse, Agreed, Resolved, Ranged, Live
  <1>4. CASE pc' = "begin"
    BY <1>4 DEF Agreed, Resolved, Ranged
  <1>5. QED
    BY <1>1, <1>2, <1>3, <1>4, AskedFrame

LEMMA LeftStep ==
    ASSUME TypeInv, RunsBounded, ConsentCoversSent, [Next]_vars, ~Live'
    PROVE  ConsentCoversSent'
  <1>1. ConfirmAbove \in Nat
    BY ReplayAssumption
  <1>2. ASSUME NEW s, Refuse(s) \/ Start(s) PROVE ConsentCoversSent'
    <2>1. Landed' = {}
      BY <1>2, NewRun
    <2>2. QED
      BY <1>1, <2>1, FS_EmptySet DEF ConsentCoversSent
  <1>3. CASE pc' = "begin" \/ Enter \/ Deliver
    BY <1>3 DEF Enter, Deliver, Live
  <1>4. CASE /\ setting' = setting /\ mode' = mode /\ run' = run /\ target' = target
             /\ consent' = consent
    BY <1>4 DEF ConsentCoversSent, Landed
  <1>5. QED
    BY <1>2, <1>3, <1>4, AskedFrame, EffectsFrame

LEMMA ConsentStep ==
    TypeInv /\ ReadInv /\ RunsBounded /\ LandedSound /\ ConsentInv /\ [Next]_vars => ConsentInv'
  BY ConsentCovers, TypeStep, MaxStep, AgreedStep, LeftStep DEF ConsentInv, LeftAgreed

-----------------------------------------------------------------------------
(* The invariant                                                           *)

ReplayInv ==
    /\ TypeInv /\ ReadInv
    /\ RunsBounded /\ LandedSound /\ OnlySelected
    /\ HopsCounted /\ AuditSound /\ CommitSound /\ PlanSound /\ PlanKept
    /\ ConsentInv

LEMMA ReplayInit == Init => ReplayInv
  <1> SUFFICES ASSUME Init PROVE ReplayInv
    OBVIOUS
  <1>1. RunsBounded /\ LandedSound /\ OnlySelected
    BY DEF Init, RunsBounded, LandedSound, OnlySelected, Live, Landed
  <1>2. AuditSound /\ CommitSound
    BY DEF Init, AuditSound, CommitSound, Completed, Live
  <1>3. PlanSound
    BY NoRanges DEF Init, PlanSound, NoPlan
  <1>4. PlanKept
    BY DEF Init, PlanKept, Planned, Live
  <1>5. ConsentInv
    <2>1. ~Live /\ mode = "dry"
      BY DEF Init, Live
    <2>2. QED
      BY <2>1 DEF ConsentInv, MaxKept, Agreed, LeftAgreed, Resolved, Ranged, ConsentCoversSent
  <1>6. QED
    BY <1>1, <1>2, <1>3, <1>4, <1>5, InitTypes, ReadInit, HopsInit DEF ReplayInv

LEMMA ReplayStep == ReplayInv /\ [Next]_vars => ReplayInv'
  BY TypeStep, ReadStep, RunsStep, LandedStep, SelectedStep, HopsStep, AuditStep, CommitStep,
     PlanStep, PlanKeptStep, ConsentStep DEF ReplayInv

\* The inductive invariant of the replay command, whatever goes on around it: what it
\* was told of the logs stays true, its ranges are the selection's, what it has read,
\* produced, audited and committed fits together, and the header counts replays.
THEOREM ReplayInvariant == Spec => []ReplayInv
  BY ReplayInit, ReplayStep, PTL DEF Spec

\* A record is never replayed more often than max_replay_count along any chain of
\* replay, failure, dead letter and replay (runner.py _skip_reason and _build, dlq.py build).
THEOREM PoisonStopsTheorem == Spec => []PoisonStops
  <1>1. ReplayInv => PoisonStops
    BY DEF ReplayInv, HopsCounted, CountCovers, PoisonStops
  <1>2. QED
    BY <1>1, ReplayInvariant, PTL

\* A replay produces only what its selection asks for and what was there when it read
\* the end of the log: never its own copies (runner.py _traverse, selector.py resolve).
THEOREM OnlySelectedTheorem == Spec => []OnlySelected
  <1>1. ReplayInv => OnlySelected
    BY DEF ReplayInv
  <1>2. QED
    BY <1>1, ReplayInvariant, PTL

LEMMA AuditIsAccurate == ReplayInv => TrailAccurate
  <1> SUFFICES ASSUME ReplayInv, setting.audit, NEW n \in 1..run
               PROVE  /\ Lines(n) \subseteq LandedIn(n)
                      /\ Cardinality(LandedIn(n) \ Lines(n)) <= 1
                      /\ n = run /\ Completed => LandedIn(n) = Lines(n)
    BY DEF TrailAccurate, LandedIn, Lines
  <1>1. /\ Lines(n) \subseteq LandedIn(n)
        /\ \A x, y \in LandedIn(n) \ Lines(n) : x = y
        /\ Live => LandedIn(run) \subseteq Lines(run) \cup (IF pc = "landed" THEN {At} ELSE {})
    BY DEF ReplayInv, AuditSound
  <1>2. Cardinality(LandedIn(n) \ Lines(n)) <= 1
    <2> DEFINE missing == LandedIn(n) \ Lines(n)
    <2>1. CASE missing = {}
      BY <2>1, FS_EmptySet
    <2>2. CASE missing # {}
      <3>1. PICK x \in missing : missing = {x}
        BY <1>1, <2>2
      <3>2. QED
        BY <3>1, FS_Singleton
    <2>3. QED
      BY <2>1, <2>2
  <1>3. n = run /\ Completed => LandedIn(n) = Lines(n)
    BY <1>1 DEF Completed, Live
  <1>4. QED
    BY <1>1, <1>2, <1>3

LEMMA CommittedIsHandled == ReplayInv => CommitIsHandled
  <1> SUFFICES ASSUME ReplayInv, setting.commit, mode = "execute",
                      pc = "committing" \/ Completed,
                      NEW p \in {x[1] : x \in scanned} \ toCommit
               PROVE  /\ committed[p] > None
                      /\ \A o \in Records(source[p], Max({ranges[p].start, begin[p]}), committed[p]) :
                             /\ <<p, o>> \in scanned
                             /\ Skips(source[p][o]) \/ <<run, p, o>> \in sent
    BY DEF CommitIsHandled
  <1>1. PICK x \in scanned : x[1] = p /\ committed[p] = x[2] + 1
    BY DEF ReplayInv, CommitSound
  <1>2. /\ Live /\ x[2] \in Nat \ {0} /\ x = <<p, x[2]>> /\ p \in Partitions
        /\ p \in DOMAIN ranges
    BY <1>1 DEF Live, Completed, ReplayInv, TypeInv, TypeOK, Places, Offsets, ReadInv, ScanSound
  <1>3. ranges[p].start \in Int /\ begin[p] \in Int
    BY <1>2, RangeTypes, LogTypes DEF ReplayInv
  <1>4. ASSUME NEW o \in Records(source[p], Max({ranges[p].start, begin[p]}), committed[p])
        PROVE  /\ <<p, o>> \in scanned
               /\ Skips(source[p][o]) \/ <<run, p, o>> \in sent
    <2>1. o \in DOMAIN source[p] /\ o \in Nat /\ ~IsGap(source[p][o]) /\ o < x[2] + 1
          /\ Max({ranges[p].start, begin[p]}) <= o
      BY <1>1, <1>2, LogTypes DEF Records, ReplayInv
    <2>2. ranges[p].start <= o /\ begin[p] <= o
      BY <1>3, <2>1, MaxPair
    <2>3. <<p, o>> \in scanned
      <3>1. CASE o = x[2]
        BY <1>2, <3>1
      <3>2. CASE o < x[2]
        BY <1>1, <1>2, <2>1, <2>2, <3>2 DEF ReplayInv, ReadInv, ScanDense, IsThere, Scanned
      <3>3. QED
        BY <1>2, <2>1, <3>1, <3>2
    <2>4. ASSUME ~Skips(source[p][o]) PROVE <<run, p, o>> \in sent
      <3>1. <<p, o>> \in matched
        BY <1>2, <2>3, <2>4 DEF ReplayInv, ReadInv, ScanSound
      <3>2. <<p, o>> \in SentNow
        BY <1>2, <3>1 DEF ReplayInv, LandedSound, Produced, Completed
      <3>3. QED
        BY <3>2 DEF SentNow, ReplayInv, TypeInv, TypeOK
    <2>5. QED
      BY <2>3, <2>4
  <1>5. committed[p] > None
    BY <1>1, <1>2 DEF None
  <1>6. QED
    BY <1>4, <1>5

\* In order, a record that is not too late is after no record that is.
LEMMA OrderedBefore ==
    ASSUME TypeInv, NEW p \in Partitions, NEW o \in DOMAIN source[p], IsThere(p, o),
           NEW e \in Nat, o < e, InOrder(p, e), sel.until # None => source[p][o].ts < sel.until
    PROVE  Before(p, o)
  <1> SUFFICES ASSUME sel.until # None, NEW a \in DOMAIN source[p], IsThere(p, a), a <= o
               PROVE  source[p][a].ts < sel.until
    BY DEF Before
  <1>1. /\ a \in Nat \ {0} /\ o \in Nat \ {0}
        /\ source[p][a].ts \in Nat /\ source[p][o].ts \in Nat /\ sel.until \in Nat
    BY LogTypes, RecordTypes, SelectionTypes
  <1>2. a \in Records(source[p], 1, e) /\ o \in Records(source[p], 1, e)
    BY <1>1 DEF Records, IsThere
  <1>3. source[p][a].ts <= source[p][o].ts
    BY <1>2 DEF InOrder
  <1>4. QED
    BY <1>1, <1>3

LEMMA CompletedMissedNothing == ReplayInv => NothingMissed
  <1> SUFFICES ASSUME ReplayInv, Completed, sel.max = None, NoJump, NEW p \in DOMAIN ranges,
                      sel.until = None \/ InOrder(p, limits.end[p]),
                      NEW o \in Records(source[p], begin[p], limits.end[p]),
                      AsksFor(sel, p, o), InTime(sel, source[p][o]), Replayable(source[p][o])
               PROVE  <<run, p, o>> \in sent
    BY DEF NothingMissed
  <1>1. Live /\ Ranged /\ mode = "execute" /\ p \in Partitions
    BY RangeTypes DEF Completed, Live, Ranged, ReplayInv, ReadInv, ModeSound
  <1>2. o \in DOMAIN source[p] /\ IsKnown(p, o) /\ IsThere(p, o) /\ begin[p] <= o
    BY DEF Records, IsKnown, IsThere
  <1>3. ranges[p].start <= o
    BY <1>1, <1>2 DEF ReplayInv, ReadInv, StartComplete, AsksFor, InTime
  <1>4. o < ranges[p].end
    <2>1. limits.end[p] \in Nat /\ o < limits.end[p]
      BY <1>1, LogTypes DEF ReplayInv, Records
    <2>2. Before(p, o)
      <3>1. CASE sel.until = None
        BY <3>1 DEF Before
      <3>2. CASE sel.until # None
        BY <1>1, <1>2, <2>1, <3>2, OrderedBefore DEF ReplayInv, InTime
      <3>3. QED
        BY <3>1, <3>2
    <2>3. QED
      BY <1>1, <1>2, <2>2 DEF ReplayInv, ReadInv, EndComplete, AsksFor
  <1>5. <<p, o>> \in scanned
    BY <1>2, <1>3, <1>4 DEF ReplayInv, ReadInv, RangesCovered, Covered, Scanned
  <1>6. source[p][o] \in LogRecords
    BY <1>1, <1>2, LogTypes DEF ReplayInv
  <1>7. ~Skips(source[p][o])
    BY <1>6, NotStopped DEF Skips, AsksFor
  <1>8. <<p, o>> \in matched
    BY <1>1, <1>5, <1>7 DEF ReplayInv, ReadInv, ScanSound
  <1>9. <<p, o>> \in SentNow
    BY <1>1, <1>8 DEF ReplayInv, LandedSound, Produced, Completed
  <1>10. QED
    BY <1>9 DEF SentNow, ReplayInv, TypeInv, TypeOK

LEMMA ConfirmedStands == ReplayInv => ConfirmedIsReplayed
  <1> SUFFICES ASSUME ReplayInv, Completed, setting.cli, sel.max = None, NoJump,
                      setting.trims => \A p \in Partitions : InOrder(p, Len(source[p]) + 1)
               PROVE  /\ \A x \in plan.matched : x[2] >= begin[x[1]] => x \in matched
                      /\ \A x \in matched \ plan.matched : x[2] >= plan.limits.end[x[1]]
    BY DEF ConfirmedIsReplayed
  <1> USE DEF ReplayInv
  <1>1. /\ Resolved /\ Planned /\ pc = "idle"
        /\ \A p \in DOMAIN ranges : Covered(p)
    BY DEF Completed, Live, Ranged, Resolved, Planned, ReadInv, ModeSound, RangesCovered
  <1>2. ASSUME NEW p \in Partitions, NEW o \in DOMAIN source[p], Picked(p, o)
        PROVE  Wanted(p, o)
    <2>1. Asked(p, o) /\ IsThere(p, o) /\ After(p, o)
          /\ (sel.until # None => source[p][o].ts < sel.until)
      BY <1>2 DEF Picked, Asked
    <2>2. CASE ~setting.trims
      BY <1>2, <2>1, <2>2 DEF Picked, Wanted
    <2>3. CASE setting.trims
      <3>1. o \in Nat /\ Len(source[p]) + 1 \in Nat /\ o < Len(source[p]) + 1
        BY LogTypes
      <3>2. Before(p, o)
        BY <2>1, <2>3, <3>1, OrderedBefore
      <3>3. ASSUME sel.since # None PROVE sel.since <= source[p][o].ts
        <4>1. PICK a \in DOMAIN source[p] : IsThere(p, a) /\ a <= o /\ sel.since <= source[p][a].ts
          BY <2>1, <3>3 DEF After
        <4>2. /\ a \in Nat \ {0} /\ source[p][a].ts \in Nat /\ source[p][o].ts \in Nat
              /\ o \in Nat \ {0} /\ sel.since \in Nat
          BY LogTypes, RecordTypes, SelectionTypes
        <4>3. /\ a \in Records(source[p], 1, Len(source[p]) + 1)
              /\ o \in Records(source[p], 1, Len(source[p]) + 1)
          BY <2>1, <3>1, <4>1, <4>2 DEF Records, IsThere
        <4>4. source[p][a].ts <= source[p][o].ts
          BY <2>3, <4>1, <4>3 DEF InOrder
        <4>5. QED
          BY <4>1, <4>2, <4>4
      <3>4. QED
        BY <2>1, <3>2, <3>3 DEF Wanted
    <2>4. QED
      BY <2>2, <2>3
  <1>3. ASSUME NEW x \in plan.matched, x[2] >= begin[x[1]] PROVE x \in matched
    <2>1. x \in Places /\ Picked(x[1], x[2]) /\ x[2] < plan.limits.end[x[1]]
      BY <1>1 DEF PlanKept
    <2>2. /\ x[1] \in Partitions /\ x[2] \in DOMAIN source[x[1]] /\ x = <<x[1], x[2]>>
      BY <2>1 DEF Places, Picked, Asked, IsThere
    <2>3. plan.limits.end[x[1]] \in Nat /\ plan.limits.end[x[1]] <= limits.end[x[1]]
      BY <1>1, <2>2 DEF PlanKept
    <2>4. begin[x[1]] <= x[2] /\ x[2] < limits.end[x[1]]
      BY <1>3, <2>1, <2>2, <2>3, LogTypes
    <2>5. Wanted(x[1], x[2])
      BY <1>2, <2>1, <2>2
    <2>6. QED
      BY <1>1, <2>2, <2>4, <2>5, WantedIsMatched
  <1>4. ASSUME NEW x \in matched \ plan.matched PROVE x[2] >= plan.limits.end[x[1]]
    <2>1. /\ x \in Places /\ Picked(x[1], x[2]) /\ limits.begin[x[1]] <= x[2]
      BY <1>1, MatchedIsPicked
    <2>2. /\ x[1] \in Partitions /\ x[2] \in DOMAIN source[x[1]] /\ x = <<x[1], x[2]>>
          /\ x[2] \in Nat
      BY <2>1, LogTypes DEF Places, Picked, Asked, IsThere
    <2>3. plan.limits.end[x[1]] \in Nat
      BY <1>1, <2>2 DEF PlanKept
    <2>4. Wanted(x[1], x[2])
      BY <1>2, <2>1, <2>2
    <2>5. Horizon(x[1]) <= x[2]
      BY <1>1, <2>1 DEF Horizon
    <2>6. ~(x[2] < plan.limits.end[x[1]])
      BY <1>1, <1>4, <2>2, <2>4, <2>5 DEF PlanKept
    <2>7. QED
      BY <2>2, <2>3, <2>6
  <1>5. QED
    BY <1>3, <1>4

LEMMA PlanCanBeReplayed == ReplayInv => PlanReproducible
  <1> SUFFICES ASSUME ReplayInv PROVE PlanReproducible
    OBVIOUS
  <1> DEFINE active == ActiveIn(plan.ranges)
             again == AsSelection(sel, plan.ranges)
             now(p) == ResolvedByOffset(again, p, begin[p], Len(source[p]) + 1)
  <1>1. /\ DOMAIN plan.ranges \subseteq Partitions
        /\ \A p \in DOMAIN plan.ranges : plan.ranges[p] \in Spans
    BY DEF ReplayInv, PlanSound
  <1>2. active \subseteq DOMAIN plan.ranges /\ active \subseteq Partitions
    BY <1>1 DEF ActiveIn
  <1>3. /\ again.every = FALSE /\ again.parts = active
        /\ again.from = [p \in active |-> plan.ranges[p].start]
        /\ again.to = [p \in active |-> plan.ranges[p].end]
    BY DEF AsSelection
  <1> HIDE DEF active, again
  <1>4. (Resolvable(again) <=> active # {}) /\ Chosen(again) = active
    BY <1>2, <1>3 DEF Resolvable, Unknown, Chosen
  <1>5. ASSUME NEW p \in active
        PROVE  Records(source[p], now(p).start, now(p).end) =
                   Records(source[p], Max({plan.ranges[p].start, begin[p]}), plan.ranges[p].end)
    <2> DEFINE r == plan.ranges[p]
    <2>1. r \in Spans /\ r.start \in Int /\ r.end \in Int
      BY <1>1, <1>2 DEF Spans
    <2>2. /\ begin[p] \in Int /\ Len(source[p]) \in Nat
          /\ \A o \in DOMAIN source[p] : o \in Nat /\ o < Len(source[p]) + 1
      BY <1>2, LogTypes DEF ReplayInv
    <2> HIDE DEF r
    <2>3. Bounded(again, p, begin[p], Len(source[p]) + 1) = Span(r.start, r.end)
      BY <1>3 DEF Bounded, r
    <2>4. Span(r.start, r.end) \in Spans /\ Span(r.start, r.end).start = r.start
          /\ Span(r.start, r.end).end = r.end
      BY <2>1 DEF Span, Spans
    <2>5. /\ now(p).start = IF r.start <= begin[p] THEN begin[p] ELSE r.start
          /\ now(p).end = IF r.end <= Len(source[p]) + 1 THEN r.end ELSE Len(source[p]) + 1
      BY <2>2, <2>3, <2>4, ClippedRange DEF ResolvedByOffset
    <2>6. Max({r.start, begin[p]}) = now(p).start
      BY <2>1, <2>2, <2>5, MaxPair
    <2>7. \A o \in DOMAIN source[p] : o < now(p).end <=> o < r.end
      BY <2>1, <2>2, <2>5
    <2>8. Records(source[p], now(p).start, now(p).end) = Records(source[p], now(p).start, r.end)
      BY <2>7 DEF Records
    <2>9. QED
      BY <2>6, <2>8 DEF r
  <1>6. QED
    BY <1>4, <1>5 DEF PlanReproducible, active, again

\* The audit file tells what every replay so far produced, but for at most the one
\* record at which it ended (audit.py, runner.py _traverse).
THEOREM TrailAccurateTheorem == Spec => []TrailAccurate
  BY AuditIsAccurate, ReplayInvariant, PTL

\* An offset that --commit has committed leaves nothing of the replay behind it
\* (runner.py _traverse, last_offset).
THEOREM CommitIsHandledTheorem == Spec => []CommitIsHandled
  BY CommittedIsHandled, ReplayInvariant, PTL

\* A replay that completes has produced every record that was asked for, whatever
\* arrived and was dropped meanwhile (selector.py resolve, reader_aiokafka.py read).
THEOREM NothingMissedTheorem == Spec => []NothingMissed
  BY CompletedMissedNothing, ReplayInvariant, PTL

\* A printed plan resolves to the same records again, without those retention has
\* dropped (selector.py as_selection).
THEOREM PlanReproducibleTheorem == Spec => []PlanReproducible
  BY PlanCanBeReplayed, ReplayInvariant, PTL

\* What the operator agreed to is what is replayed, and more only of what arrived since.
THEOREM ConfirmedIsReplayedTheorem == Spec => []ConfirmedIsReplayed
  BY ReplayInvariant, ConfirmedStands, PTL

\* Nobody is surprised by a large replay: more than confirm_above records are produced
\* only after somebody agreed to it, or --yes (runner.py _traverse).
THEOREM ConsentCoversSentTheorem == Spec => []ConsentCoversSent
  <1>1. ReplayInv => ConsentCoversSent
    BY ConsentCovers DEF ReplayInv
  <1>2. QED
    BY <1>1, ReplayInvariant, PTL

=============================================================================
