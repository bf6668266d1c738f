------------------------ MODULE MCConfluentProducer ------------------------
(***************************************************************************)
(* Instances of ConfluentProducer for TLC.                                 *)
(***************************************************************************)
EXTENDS ConfluentProducer, TLC

MCSymmetry == Permutations(Sends)

=============================================================================
