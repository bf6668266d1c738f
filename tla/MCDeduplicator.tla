--------------------------- MODULE MCDeduplicator ---------------------------
(***************************************************************************)
(* Instances of Deduplicator for TLC: two messages of one key, a record    *)
(* and its duplicate at another offset.                                    *)
(***************************************************************************)
EXTENDS Deduplicator, TLC

CONSTANT k1

MCKeyOf == [m \in Messages |-> k1]

MCSymmetry == Permutations(Workers)

With(backend, mode, failOpen, sweeps) ==
    [backend |-> backend, mode |-> mode, failOpen |-> failOpen, bypass |-> FALSE,
     sweeps |-> sweeps, forgets |-> FALSE]

\* Every backend in every mode it has, swept where a property survives the sweep.
MCEvery ==
    {[s EXCEPT !.forgets = TRUE] : s \in
        {With("postgres", "claim_confirm", FALSE, FALSE),
         [With("postgres", "claim_confirm", TRUE, FALSE) EXCEPT !.bypass = TRUE],
         With("postgres", "transactional", FALSE, FALSE),
         With("postgres", "record_after", TRUE, FALSE),
         With("sqlite", "claim_confirm", FALSE, TRUE),
         With("sqlite", "transactional", FALSE, TRUE),
         With("sqlite", "record_after", FALSE, TRUE),
         With("redis", "claim_confirm", FALSE, FALSE)}}

\* The settings of the liveness run and of the single disagreements.
MCSwept == {With("postgres", "claim_confirm", FALSE, TRUE),
            With("redis", "claim_confirm", TRUE, FALSE),
            With("postgres", "transactional", FALSE, TRUE)}
MCSweptJoined == {With("postgres", "transactional", FALSE, TRUE)}
MCSqlite == {With("sqlite", "claim_confirm", FALSE, FALSE)}

=============================================================================
