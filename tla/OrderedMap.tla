----------------------------- MODULE OrderedMap -----------------------------
(***************************************************************************)
(* What a bucket promises its write transaction: an ordered map, changed   *)
(* by Put and Delete, whose contents a Commit keeps and a Rollback forgets.*)
(***************************************************************************)
CONSTANTS Keys, Values

VARIABLES map,          \* what the transaction reads
          saved,        \* what the last commit kept
          committing

Init ==
  /\ map = saved /\ committing = FALSE
  /\ \E ks \in SUBSET Keys : saved \in [ks -> Values]

\* (A map is bound by a quantifier so that TLC evaluates it once.)
Put(k, v) ==
  /\ ~committing /\ UNCHANGED <<saved, committing>>
  /\ \E m \in {map} : map' = [x \in DOMAIN m \cup {k} |-> IF x = k THEN v ELSE m[x]]

Delete(k) ==
  /\ ~committing /\ UNCHANGED <<saved, committing>>
  /\ \E m \in {map} : map' = [x \in DOMAIN m \ {k} |-> m[x]]

\* The transaction begins to commit, and works at it: nothing changes.
Commit == committing' /\ UNCHANGED <<map, saved>>

EndCommit ==
  /\ committing /\ ~committing'
  /\ \E m \in {map} : map' = m /\ saved' = m

Rollback ==
  /\ ~committing'
  /\ \E m \in {saved} : map' = m /\ saved' = m

Next ==
  \/ \E k \in Keys : Delete(k) \/ \E v \in Values : Put(k, v)
  \/ Commit \/ EndCommit \/ Rollback

Spec == Init /\ [][Next]_<<map, saved, committing>>
=============================================================================
