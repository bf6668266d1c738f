--------------------------- MODULE MCOutboxRelay ---------------------------
(***************************************************************************)
(* Instances of OutboxRelay for TLC.  The hash of k1 is negative, which    *)
(* hashtext() can return.                                                  *)
(***************************************************************************)
EXTENDS OutboxRelay, TLC

CONSTANT k1

MCHash == [k \in AllKeys |-> IF k = k1 THEN -3 ELSE 1]

\* Every relay of the same configuration: strict ordering.
MCStrict == [r \in Relays |-> 0]

\* Two shards; the relays were given shard_index 1, that of every key here.
MCSharded == [r \in Relays |-> 1]

MCSymmetry == Permutations(Relays) \cup Permutations(Writers)

=============================================================================
