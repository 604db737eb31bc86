------------------------------- MODULE MCLocks -------------------------------
(* The locks on small instances. *)
EXTENDS Locks, TLC

\* The goroutines of one kind are interchangeable.
Symmetry == Permutations(Readers) \cup Permutations(Writers) \cup Permutations(Closers)
=============================================================================
