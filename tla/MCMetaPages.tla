----------------------------- MODULE MCMetaPages -----------------------------
(* The meta pages on small instances. *)
EXTENDS MetaPages
=============================================================================
