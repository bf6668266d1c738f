--------------------------- MODULE MCReplayRunner ---------------------------
(***************************************************************************)
(* Instances of ReplayRunner for TLC: small logs with gaps, records that   *)
(* were replayed before, timestamps out of order; and one setting for each *)
(* way to replay them.                                                     *)
(***************************************************************************)
EXTENDS ReplayRunner, TLC

CONSTANTS a, b

MCPartitionOf == (a :> 0) @@ (b :> 1)
MCErrorOf == (a :> 0) @@ (b :> 1)

With(id, headers, ts) ==
    [id |-> id, headers |-> headers @@ (Diagnosis :> MCErrorOf[id]), hops |-> 0, ts |-> ts]
Rec(id, ts) == With(id, <<>>, ts)
Counted(id, n, ts) == With(id, ReplayCount :> n, ts)

\* Logs that end in a gap, hold counts that stop a replay, or are out of time order.
Gapped == (0 :> <<Rec(a, 1), Gap>>) @@ (1 :> <<Counted(b, Unreadable, 1)>>)
Disordered == (0 :> <<Rec(a, 2), Counted(a, 1, 1)>>) @@ (1 :> <<>>)
Full == (0 :> <<Rec(a, 1), Rec(a, 2)>>) @@ (1 :> <<Rec(b, 2)>>)

All == [every |-> TRUE, parts |-> {}, from |-> <<>>, to |-> <<>>,
        since |-> None, until |-> None, max |-> None, clauses |-> {}]
One == [All EXCEPT !.every = FALSE, !.parts = {0}]
Window == [All EXCEPT !.since = 1, !.until = 2]
Recent == [One EXCEPT !.since = 2]
ByOffset == [One EXCEPT !.from = (0 :> 2), !.to = (0 :> 3)]
AtMostOne == [One EXCEPT !.max = 1]
ByError == [name |-> Diagnosis, eq |-> TRUE, value |-> 0]
NotCounted == [name |-> ReplayCount, eq |-> FALSE, value |-> 1]
Filtered == [All EXCEPT !.clauses = {ByError, NotCounted}]
ByOffsets == [All EXCEPT !.from = (0 :> 2)]
Missing == [One EXCEPT !.parts = {2}]

Command(selections, log, runs, length) ==
    [selections |-> selections, cli |-> FALSE, same |-> FALSE, allowSame |-> FALSE,
     yes |-> FALSE, commit |-> FALSE, audit |-> FALSE, reset |-> "latest",
     ordered |-> TRUE, trims |-> FALSE, log |-> log, runs |-> runs, length |-> length]

MCSettings ==
    {[Command({One, ByOffset}, Gapped, 2, 3) EXCEPT !.cli = TRUE, !.yes = TRUE],
     [Command({All, Recent, ByOffsets}, Full, 1, 3) EXCEPT !.cli = TRUE],
     [Command({Window}, Disordered, 1, 3) EXCEPT !.cli = TRUE, !.ordered = FALSE],
     [Command({Window}, Full, 1, 3) EXCEPT !.trims = TRUE, !.reset = "earliest"],
     [Command({Filtered, AtMostOne}, Full, 2, 3) EXCEPT !.commit = TRUE, !.audit = TRUE],
     [Command({All}, Full, 1, 2) EXCEPT !.commit = TRUE, !.trims = TRUE],
     [Command({One}, Disordered, 2, 3) EXCEPT !.same = TRUE, !.allowSame = TRUE, !.audit = TRUE],
     [Command({One, Missing}, Gapped, 1, 2) EXCEPT !.same = TRUE]}

=============================================================================
