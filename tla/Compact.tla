------------------------------ MODULE Compact ------------------------------
(***************************************************************************)
(* Compact (compact.go): a walk of the source, a tree of names visited     *)
(* parents first and in key order, that creates each bucket and key in the *)
(* destination.  The destination's transaction is committed whenever the   *)
(* next item would make it larger than txMaxSize.  Any call may fail, and  *)
(* compaction may be started again with what it left.                      *)
(***************************************************************************)
EXTENDS Integers, Sequences, FiniteSets, SequencesExt, FiniteSetsExt

CONSTANTS Sources,      \* trees of names: path |-> [kind, val], val a bucket's sequence
          TxMaxSizes,   \* 0 for no limit
          KeySize,      \* of every name
          Runs          \* of Compact with one destination (bound)

\* A database is finite, its names are in order, and sizes are numbers.
ASSUME SourcesAssumption ==
  /\ \A s \in Sources :
       /\ IsFiniteSet(DOMAIN s)
       /\ DOMAIN s \subseteq Seq(Nat)
       /\ \A p \in DOMAIN s : s[p] \in [kind : {"bucket", "value"}, val : Nat]
  /\ TxMaxSizes \subseteq Nat /\ KeySize \in Nat

VARIABLES
  src,          \* the snapshot that View walks
  txMaxSize,
  dst,          \* what the destination's last commit kept
  pending,      \* what its transaction has
  at,           \* the next item of the walk
  size,         \* bytes the transaction has been given
  given,        \* how many items those are
  state,        \* "running", "flushed", "failed", "done"
  runs

\* Lexicographic order, a bucket before what it holds.
Before(p, q) ==
  \/ Len(p) < Len(q) /\ SubSeq(q, 1, Len(p)) = p
  \/ \E i \in 1 .. Min({Len(p), Len(q)}) :
       p[i] < q[i] /\ SubSeq(p, 1, i - 1) = SubSeq(q, 1, i - 1)

\* The names of src by rank in an order.
Ranked(less(_, _)) ==
  [i \in 1 .. Cardinality(DOMAIN src) |->
     CHOOSE p \in DOMAIN src : Cardinality({q \in DOMAIN src : less(q, p)}) = i - 1]

\* Variant: the names of a level before the names below them.
WalkByLevel ==
  Ranked(LAMBDA p, q : Len(p) < Len(q) \/ (Len(p) = Len(q) /\ Before(p, q)))

\* walk, walkBucket
Walk == Ranked(Before)

ItemSize(p) == KeySize + (IF src[p].kind = "value" THEN src[p].val ELSE 0)

-----------------------------------------------------------------------------
progress == <<dst, pending, at, size, given, state>>
compactVars == <<src, txMaxSize, progress, runs>>

CompactInit ==
  /\ src \in Sources /\ txMaxSize \in TxMaxSizes
  /\ dst = <<>> /\ pending = <<>>
  /\ at = 1 /\ size = 0 /\ given = 0 /\ state = "running" /\ runs = 1

\* Variant: the limit is noticed when it has been passed.
ExceedsLate(p) == txMaxSize # 0 /\ size > txMaxSize

Exceeds(p) == txMaxSize # 0 /\ size + ItemSize(p) > txMaxSize

Running == at <= Len(Walk) /\ UNCHANGED <<src, txMaxSize, runs>>

\* The callback commits, and begins the next transaction.
Flush ==
  /\ state = "running" /\ Running /\ Exceeds(Walk[at])
  /\ dst' = pending
  /\ size' = 0 /\ given' = 0 /\ state' = "flushed"
  /\ UNCHANGED <<pending, at>>

\* CreateBucket and SetSequence, or Put.  A bucket must not be there.
Copy ==
  LET p == Walk[at] IN
  /\ Running
  /\ state = "flushed" \/ (state = "running" /\ ~Exceeds(p))
  /\ src[p].kind = "bucket" => p \notin DOMAIN pending
  /\ pending' = [q \in DOMAIN pending \cup {p} |-> IF q = p THEN src[p] ELSE pending[q]]
  /\ size' = size + ItemSize(p) /\ given' = given + 1
  /\ at' = at + 1 /\ state' = "running"
  /\ UNCHANGED dst

Finish ==
  /\ state = "running" /\ at > Len(Walk)
  /\ dst' = pending /\ state' = "done"
  /\ UNCHANGED <<src, txMaxSize, pending, at, size, given, runs>>

\* A call fails: ErrBucketExists, or any error.  The transaction rolls back,
\* but of a commit whose last sync failed the destination has the meta page.
Fail ==
  /\ state \in {"running", "flushed"}
  /\ \/ dst' = dst
     \/ /\ state = "running"
        /\ at <= Len(Walk) => Exceeds(Walk[at])
        /\ dst' = pending
  /\ state' = "failed" /\ pending' = dst'
  /\ UNCHANGED <<src, txMaxSize, at, size, given, runs>>

Again ==
  /\ state = "failed" /\ runs < Runs
  /\ runs' = runs + 1
  /\ at' = 1 /\ size' = 0 /\ given' = 0 /\ state' = "running"
  /\ UNCHANGED <<src, txMaxSize, dst, pending>>

CompactNext == Flush \/ Copy \/ Finish \/ Fail \/ Again

CompactSpec == CompactInit /\ [][CompactNext]_compactVars

-----------------------------------------------------------------------------
(* Whenever compaction stops, the destination is the beginning of the      *)
(* source: with a name it has, unchanged, every bucket on the way to it    *)
(* and every name before it.  It is the whole source when Compact reports  *)
(* success, also on a destination that an earlier run left behind.         *)
DstIsPrefix ==
  /\ \A p \in DOMAIN dst :
       \A q \in DOMAIN src : q = p \/ Before(q, p) => q \in DOMAIN dst /\ dst[q] = src[q]
  /\ DOMAIN dst \subseteq DOMAIN src
  /\ state = "done" => DOMAIN dst = DOMAIN src

(* A transaction of the destination is given at most txMaxSize bytes, or   *)
(* one item that is larger by itself.                                      *)
TxBounded == txMaxSize # 0 => size <= txMaxSize \/ given = 1
=============================================================================
