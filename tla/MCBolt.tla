------------------------------- MODULE MCBolt -------------------------------
(* Bolt on small instances. *)
EXTENDS BoltInv, TLC

ReaderSymmetry == Permutations(Readers)
=============================================================================
