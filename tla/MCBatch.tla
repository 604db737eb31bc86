------------------------------- MODULE MCBatch -------------------------------
(* Batches of a few callers. *)
EXTENDS Batch
=============================================================================
