-------------------------------- MODULE Store --------------------------------
(***************************************************************************)
(* What the database promises its users, whatever pages and freelists it   *)
(* is made of: one current version, readers that keep the version they     *)
(* began with, commits that replace the version as a whole, and a crash    *)
(* that falls back to a version not older than the last commit that was    *)
(* acknowledged.                                                           *)
(***************************************************************************)
CONSTANTS Readers, None

VARIABLES cur,          \* the version new transactions start from
          snap,         \* snap[r]: the version reader r sees, or None
          alts          \* the versions a crash may fall back to

vars == <<cur, snap, alts>>

Init ==
  /\ alts = {cur}
  /\ snap = [r \in Readers |-> None]

Begin(r) ==
  /\ snap[r] = None
  /\ snap' = [snap EXCEPT ![r] = cur]
  /\ UNCHANGED <<cur, alts>>

End(r) ==
  /\ snap[r] # None
  /\ snap' = [snap EXCEPT ![r] = None]
  /\ UNCHANGED <<cur, alts>>

\* A commit takes effect at one instant; it is not durable yet.
Publish ==
  /\ alts' = alts \cup {cur'}
  /\ UNCHANGED snap

\* A commit is acknowledged: nothing older can come back.
Acknowledge ==
  /\ alts' = {cur}
  /\ UNCHANGED <<cur, snap>>

Crash ==
  /\ cur' \in alts
  /\ alts' = {cur'}
  /\ snap' = [r \in Readers |-> None]

Next ==
  \/ \E r \in Readers : Begin(r) \/ End(r)
  \/ Publish
  \/ Acknowledge
  \/ Crash

Spec == Init /\ [][Next]_vars
=============================================================================
