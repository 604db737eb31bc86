------------------------------ MODULE Namespace ------------------------------
(***************************************************************************)
(* What nested buckets promise: a tree of names.  The path of a value has  *)
(* the value, the path of a bucket its sequence.  A write transaction      *)
(* changes it, a commit keeps the changes.                                 *)
(***************************************************************************)
EXTENDS Integers, Sequences

CONSTANTS Names, Values

VARIABLES store, saved

Bucket(seq) == [kind |-> "bucket", val |-> seq]
Value(v) == [kind |-> "value", val |-> v]

Under(p, q) == Len(q) >= Len(p) /\ SubSeq(q, 1, Len(p)) = p
IsBucket(s, p) == p = <<>> \/ (p \in DOMAIN s /\ s[p].kind = "bucket")
With(s, p, e) == [q \in DOMAIN s \cup {p} |-> IF q = p THEN e ELSE s[q]]
Without(s, p) == [q \in {q \in DOMAIN s : ~Under(p, q)} |-> s[q]]

\* p and all that is below it is called q from now on.
Moved(s, p, q) ==
  LET old(r) == p \o SubSeq(r, Len(q) + 1, Len(r))
      new == {q \o SubSeq(r, Len(p) + 1, Len(r)) : r \in {r \in DOMAIN s : Under(p, r)}} IN
  [r \in DOMAIN Without(s, p) \cup new |-> IF r \in new THEN s[old(r)] ELSE s[r]]

\* The calls, which turn the tree s into t: at the path p of a key in a bucket,
\* or at a bucket's own path b.
Put(s, t, p, v) == ~IsBucket(s, p) /\ t = With(s, p, Value(v))
CreateBucket(s, t, p) == p \notin DOMAIN s /\ t = With(s, p, Bucket(0))
Delete(s, t, p) == t = Without(s, p)
MoveBucket(s, t, p, q) ==
  IsBucket(s, p) /\ q \notin DOMAIN s /\ ~Under(p, q) /\ t = Moved(s, p, q)
NextSequence(s, t, b) == b # <<>> /\ t = With(s, b, Bucket(s[b].val + 1))

Change(s, t, b) ==
  \/ NextSequence(s, t, b)
  \/ \E k \in Names :
       \/ \E v \in Values : b # <<>> /\ Put(s, t, Append(b, k), v)
       \/ CreateBucket(s, t, Append(b, k))
       \/ Delete(s, t, Append(b, k))
       \/ \E d \in DOMAIN s \cup {<<>>} :
            IsBucket(s, d) /\ MoveBucket(s, t, Append(b, k), Append(d, k))

Init == store = saved

Commit(s, t, keeps) == keeps = s /\ t = s
Rollback(t, kept, keeps) == keeps = kept /\ t = kept

Next ==
  \E s \in {store}, t \in {store'}, kept \in {saved}, keeps \in {saved'} :
    \/ keeps = kept /\ \E b \in DOMAIN s \cup {<<>>} : IsBucket(s, b) /\ Change(s, t, b)
    \/ Commit(s, t, keeps)
    \/ Rollback(t, kept, keeps)

Spec == Init /\ [][Next]_<<store, saved>>
=============================================================================
