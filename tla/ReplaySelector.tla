--------------------------- MODULE ReplaySelector ---------------------------
(***************************************************************************)
(* What a replay reads: the log of a partition as a Reader sees it         *)
(* (replay/reader.py), a Selection, and the offset ranges it resolves to   *)
(* (replay/selector.py).  Operators only: ReplayRunner makes the calls.    *)
(*                                                                         *)
(* A log is a sequence; the record at offset o is log[o].  Offsets start   *)
(* at 1: offset 0 of every partition is gone already.  Kafka never changes *)
(* a record, it only appends, and drops records below the beginning        *)
(* offset; so the sequence keeps what retention has dropped, and `begin`   *)
(* says what is left.  A gap is an offset without a record: compaction or  *)
(* a transaction marker.                                                   *)
(***************************************************************************)
EXTENDS Integers, Sequences, FiniteSetsExt

CONSTANTS
    Ids,            \* messages, as first written; every copy keeps the id
    Partitions,     \* the partitions of the source topic
    Times,          \* record timestamps
    NoId            \* the id of a gap

ASSUME SelectorAssumption ==
    /\ Partitions \subseteq Nat /\ Partitions # {} /\ IsFiniteSet(Partitions)
    /\ Times \subseteq Nat \ {0}
    /\ NoId \notin Ids

Gap == [id |-> NoId, headers |-> <<>>, hops |-> 0, ts |-> 0]
IsGap(r) == r.id = NoId

\* None of Python, for an offset, a timestamp or max_messages.
None == 0

BeginningOffsets(begin) == begin
EndOffsets(log) == [p \in DOMAIN log |-> Len(log[p]) + 1]

\* The offsets of [start, end) that still have a record.
Records(log, start, end) == {o \in DOMAIN log : start <= o /\ o < end /\ ~IsGap(log[o])}

\* The first offset from begin on with a record not older than t, or None.
OffsetForTime(log, begin, t) ==
    LET found == {o \in Records(log, begin, Len(log) + 1) : log[o].ts >= t}
    IN IF found = {} THEN None ELSE Min(found)

-----------------------------------------------------------------------------
(* A selection: every (partitions is None), parts, from and to (partial    *)
(* functions from partitions to offsets, empty for None), since and until  *)
(* (timestamps), max (max_messages), clauses (of its predicate).          *)

\* Selection.__post_init__: offsets or timestamps, not both.
IsSelection(s) ==
    /\ s.every \in BOOLEAN
    /\ s.parts \subseteq Nat
    /\ s.clauses \subseteq [name : STRING, eq : BOOLEAN, value : Nat]
    /\ s.max \in Nat
    /\ \A bound \in {s.from, s.to} : \A p \in DOMAIN bound : bound[p] \in Int
    /\ {s.since, s.until} \subseteq Times \cup {None}
    /\ DOMAIN s.from # {} \/ DOMAIN s.to # {} => s.since = None /\ s.until = None

\* The predicate of parse_header_filter: == and != joined by "and"; a header that
\* is missing equals nothing.
Matches(s, rec) ==
    \A c \in s.clauses :
        c.eq <=> (c.name \in DOMAIN rec.headers /\ rec.headers[c.name] = c.value)

Unknown(s) == ~s.every /\ ~(s.parts \subseteq Partitions)
Chosen(s) == IF s.every THEN Partitions ELSE s.parts
Resolvable(s) == ~Unknown(s) /\ Chosen(s) # {}

Span(start, end) == [start |-> start, end |-> end]

\* The range of p once begin and end are known: from and to replace them.  The
\* mutant forgets the upper bound.
BoundedBelow(s, p, begin, end) ==
    Span(IF p \in DOMAIN s.from THEN s.from[p] ELSE begin, end)
Bounded(s, p, begin, end) ==
    Span(IF p \in DOMAIN s.from THEN s.from[p] ELSE begin,
         IF p \in DOMAIN s.to THEN s.to[p] ELSE end)

\* ... and once the offset found for a timestamp is: the end if there is none.
\* The mutant takes None for an offset.
UntilFound(range, found, end) == [range EXCEPT !.end = found]
From(range, found, end) == [range EXCEPT !.start = IF found = None THEN end ELSE found]
Until(range, found, end) == [range EXCEPT !.end = IF found = None THEN end ELSE found]

Clipped(range, begin, end) == Span(Max({range.start, begin}), Min({range.end, end}))

\* PartitionRange.count, and its mutant that takes the end for the last offset.
CountShort(range) == Max({0, range.end - range.start - 1})
Count(range) == Max({0, range.end - range.start})
TotalRecords(ranges) == FoldFunction(LAMBDA r, n : Count(r) + n, 0, ranges)

\* ResolvedSelection.as_selection: the same replay by offset.  The mutant leaves
\* the end as it was.
ActiveIn(ranges) == {p \in DOMAIN ranges : Count(ranges[p]) > 0}
AsSelectionOpen(s, ranges) ==
    [every |-> FALSE, parts |-> ActiveIn(ranges),
     from |-> [p \in ActiveIn(ranges) |-> ranges[p].start], to |-> s.to,
     since |-> None, until |-> None, max |-> s.max, clauses |-> s.clauses]
AsSelection(s, ranges) ==
    [every |-> FALSE, parts |-> ActiveIn(ranges),
     from |-> [p \in ActiveIn(ranges) |-> ranges[p].start],
     to |-> [p \in ActiveIn(ranges) |-> ranges[p].end],
     since |-> None, until |-> None, max |-> s.max, clauses |-> s.clauses]

\* What resolving a selection by offset gives on a topic as it is now.
ResolvedByOffset(s, p, begin, end) == Clipped(Bounded(s, p, begin, end), begin, end)

=============================================================================
