------------------------------- MODULE Buckets -------------------------------
(***************************************************************************)
(* Nested buckets under a write transaction (bucket.go).  A bucket is a    *)
(* header, a root page and a sequence, stored in its parent's leaf; a      *)
(* small one without buckets of its own is stored there whole.  Opening a  *)
(* bucket makes a Bucket value that the parent caches by name, and the     *)
(* changes are made in it; a commit writes the cached buckets, children    *)
(* first, and puts their new headers into their parents.                   *)
(*                                                                         *)
(* A bucket is one leaf here (Tree has the pages below it).  A Bucket      *)
(* value is known by its path from the transaction's root.                 *)
(***************************************************************************)
EXTENDS Integers, Sequences, FiniteSets, SequencesExt, FiniteSetsExt, TLC

CONSTANTS Names,        \* keys of values and buckets
          Values,       \* a value is its size
          MaxInline,    \* what an inline bucket may hold
          MaxDepth,     \* of nested buckets (bound)
          MaxOps,       \* calls of a transaction (bound)
          MaxCommits,   \* (bound)
          Pgids,        \* (bound)
          Start,        \* the databases a transaction may find
          Careless      \* what the user does not avoid

Paths == UNION {[1 .. d -> Names] : d \in 0 .. MaxDepth}

VARIABLES
  page,         \* page[p]: the leaf written to p
  root,         \* root page of the root bucket, in the meta page
  open,         \* open[path]: the Bucket values, the root's and the cached ones
  freed,        \* pages freed by this transaction
  panic,        \* a page is freed twice, or a bucket header is misplaced
  ops, commits

vars == <<page, root, open, freed, panic, ops, commits>>

(***************************************************************************)
(* Leaves: names with values or buckets.                                   *)
(***************************************************************************)
Value(v) == [bucket |-> FALSE, val |-> v, root |-> 0, seq |-> 0, inline |-> <<>>]
Header(b) == [bucket |-> TRUE, val |-> 0, root |-> b.root, seq |-> b.seq, inline |-> <<>>]
\* Variant: the sequence of an inline bucket is lost.
InlineAnew(b, leaf) == [Header(b) EXCEPT !.seq = 0, !.inline = leaf]

Inline(b, leaf) == [Header(b) EXCEPT !.inline = leaf]

PutKey(leaf, k, e) == [n \in DOMAIN leaf \cup {k} |-> IF n = k THEN e ELSE leaf[n]]
DelKey(leaf, k) == [n \in DOMAIN leaf \ {k} |-> leaf[n]]
HasBucket(leaf, k) == k \in DOMAIN leaf /\ leaf[k].bucket

Inlineable(leaf) ==
  /\ \A n \in DOMAIN leaf : ~leaf[n].bucket
  /\ MapThenSumSet(LAMBDA n : leaf[n].val, DOMAIN leaf) <= MaxInline

(***************************************************************************)
(* A transaction is the Bucket values, the pages it frees, and a panic.    *)
(* A Bucket value has its header, whether its root node is read, and the   *)
(* contents of that node or of its inline page.                            *)
(***************************************************************************)
Tx == [open |-> open, page |-> page, freed |-> freed, panic |-> panic]

Opened(e) == [root |-> e.root, seq |-> e.seq, read |-> FALSE, leaf |-> e.inline]
Leaf(tx, p) == LET b == tx.open[p] IN
               IF b.read \/ b.root = 0 THEN b.leaf ELSE tx.page[b.root]

\* The buckets on the way to p are opened by Bucket, one in the other.
Open(tx, p) ==
  LET with[i \in 0 .. Len(p)] ==
        IF i = 0 THEN tx
        ELSE LET up == with[i-1] q == SubSeq(p, 1, i) IN
             IF q \in DOMAIN up.open THEN up
             ELSE [up EXCEPT !.open =
                     [x \in DOMAIN @ \cup {q} |->
                        IF x = q THEN Opened(Leaf(up, Front(q))[Last(q)]) ELSE @[x]]]
  IN with[Len(p)]

\* Cursor.node: the bucket's leaf is read into its root node, and changed.
Change(tx, p, leaf) ==
  [tx EXCEPT !.open[p].read = TRUE, !.open[p].leaf = leaf]

Under(p, q) == Len(q) >= Len(p) /\ SubSeq(q, 1, Len(p)) = p
Forget(tx, p) ==
  [tx EXCEPT !.open = [q \in {q \in DOMAIN @ : ~Under(p, q)} |-> @[q]]]

Free(tx, id) ==
  IF id = 0 THEN tx
  ELSE [tx EXCEPT !.freed = @ \cup {id}, !.panic = @ \/ id \in tx.freed]

(***************************************************************************)
(* What is found at a path, in the Bucket values or in the pages.          *)
(***************************************************************************)
Found(tx) ==
  LET leafAt[p \in Paths] ==
        IF p \in DOMAIN tx.open THEN Leaf(tx, p)
        ELSE IF ~HasBucket(leafAt[Front(p)], Last(p)) THEN <<>>
        ELSE LET e == leafAt[Front(p)][Last(p)] IN
             IF e.root = 0 THEN e.inline ELSE tx.page[e.root]
  IN leafAt
BucketsIn(tx) ==
  LET found == Found(tx) IN
  {p \in Paths : p = <<>> \/ HasBucket(found[Front(p)], Last(p))}

Fresh(p) == [root |-> p, seq |-> 0, read |-> FALSE, leaf |-> <<>>]
Init ==
  /\ \E db \in Start : page = db.page /\ root = db.root
  /\ open = (<<>> :> Fresh(root))
  /\ freed = {} /\ panic = FALSE /\ ops = 0 /\ commits = 0

Call(tx) ==
  /\ ops < MaxOps /\ commits < MaxCommits
  /\ ops' = ops + 1
  /\ open' = tx.open /\ freed' = tx.freed /\ panic' = tx.panic
  /\ UNCHANGED <<page, root, commits>>

\* Bucket, when it is read.
OpenBucket(p) == p \notin DOMAIN open /\ Call(Open(Tx, p))

(***************************************************************************)
(* The calls.  One that returns an error changes nothing.                  *)
(***************************************************************************)
CreateBucket(p, k) ==
  LET tx == Open(Tx, p) IN
  /\ Len(p) < MaxDepth /\ k \notin DOMAIN Leaf(tx, p)
  /\ Call(Open(Change(tx, p, PutKey(Leaf(tx, p), k, Header(Fresh(0)))), Append(p, k)))

CreateBucketIfNotExists(p, k) ==
  IF HasBucket(Leaf(Open(Tx, p), p), k) THEN OpenBucket(Append(p, k)) ELSE CreateBucket(p, k)

Put(p, k, v) ==
  LET tx == Open(Tx, p) IN
  /\ p # <<>> /\ ~HasBucket(Leaf(tx, p), k)
  /\ Call(Change(tx, p, PutKey(Leaf(tx, p), k, Value(v))))

Delete(p, k) ==
  LET tx == Open(Tx, p) IN
  /\ k \in DOMAIN Leaf(tx, p) /\ ~HasBucket(Leaf(tx, p), k)
  /\ Call(Change(tx, p, DelKey(Leaf(tx, p), k)))

NextSequence(p) ==
  LET tx == Change(Open(Tx, p), p, Leaf(Open(Tx, p), p)) IN
  p # <<>> /\ Call([tx EXCEPT !.open[p].seq = @ + 1])

(***************************************************************************)
(* DeleteBucket deletes the nested buckets that ForEachBucket visits: its  *)
(* cursor stays on the page when the bucket has not been read into a node, *)
(* and moves along the node otherwise, from which the visited bucket has   *)
(* just been removed.                                                      *)
(***************************************************************************)
Sorted(leaf) == SetToSortSeq(DOMAIN leaf, LAMBDA a, b : a < b)

RECURSIVE DeletedBucket(_, _, _), DeletedNested(_, _, _, _, _)
DeletedNested(tx, p, i, live, first) ==
  LET leaf == IF live THEN Leaf(tx, p) ELSE first IN
  IF i > Cardinality(DOMAIN leaf) THEN tx
  ELSE LET k == Sorted(leaf)[i] IN
       DeletedNested(IF leaf[k].bucket THEN DeletedBucket(tx, p, k) ELSE tx,
                     p, i + 1, live, first)
DeletedBucket(tx, p, k) ==
  LET child == Append(p, k)
      with == Open(tx, child)
      empty == DeletedNested(with, child, 1, with.open[child].read, Leaf(with, child))
      gone == Free(Forget(empty, child), empty.open[child].root) IN
  Change(gone, p, DelKey(Leaf(gone, p), k))

\* The user deletes no bucket whose nested buckets changed in this transaction.
ChangedNested(tx, p) ==
  \E q \in DOMAIN tx.open : /\ Under(p, q) /\ tx.open[q].read
                            /\ \E n \in DOMAIN tx.open[q].leaf : tx.open[q].leaf[n].bucket

DeleteBucket(p, k) ==
  LET tx == Open(Tx, p) IN
  /\ HasBucket(Leaf(tx, p), k)
  /\ "delete changed" \in Careless \/ ~ChangedNested(tx, Append(p, k))
  /\ Call(DeletedBucket(tx, p, k))

(***************************************************************************)
(* MoveBucket puts the stored value into the destination and forgets the   *)
(* cached Bucket, with the changes made in it.                             *)
(***************************************************************************)
MoveBucket(p, k, q) ==
  LET tx == Open(Open(Tx, p), q)
      moved == Append(p, k)
      out == Change(Forget(tx, moved), p, DelKey(Leaf(tx, p), k)) IN
  /\ HasBucket(Leaf(tx, p), k) /\ p # q /\ k \notin DOMAIN Leaf(tx, q)
  /\ \/ Under(moved, q)
     \/ \A r \in BucketsIn(tx) : Under(moved, r) => Len(r) - Len(p) + Len(q) <= MaxDepth
  /\ "move changed" \in Careless
     \/ \A r \in DOMAIN tx.open : Under(moved, r) => ~tx.open[r].read
  /\ "move inside" \in Careless \/ ~Under(moved, q)
  /\ Call(IF q \in DOMAIN out.open
          THEN Change(out, q, PutKey(Leaf(out, q), k, Leaf(tx, p)[k]))
          ELSE out)

(***************************************************************************)
(* Bucket.spill, for the cached buckets from the deepest to the root.      *)
(***************************************************************************)
Unused(tx) == Min(Pgids \ DOMAIN tx.page)

\* The node is written to a new page, the page it was read from is freed.
Written(tx, p) ==
  LET new == Unused(tx) IN
  [Free(tx, tx.open[p].root) EXCEPT
     !.open[p].root = new,
     !.page = [id \in DOMAIN @ \cup {new} |-> IF id = new THEN tx.open[p].leaf ELSE @[id]]]

\* Variant: the page of a bucket that becomes inline is kept.
InlinedOver(tx, p) == [tx EXCEPT !.open[p].root = 0]

\* The node becomes part of the parent's leaf, the bucket's page is freed.
Inlined(tx, p) == [Free(tx, tx.open[p].root) EXCEPT !.open[p].root = 0]

Spilled(tx, p) ==
  LET b == tx.open[p]
      new == IF Inlineable(b.leaf) THEN Inlined(tx, p) ELSE Written(tx, p)
      up == Leaf(new, Front(p))
      value == IF Inlineable(b.leaf) THEN Inline(new.open[p], b.leaf)
               ELSE Header(new.open[p]) IN
  IF ~b.read THEN tx
  ELSE IF ~HasBucket(up, Last(p)) THEN [new EXCEPT !.panic = TRUE]
  ELSE Change(new, Front(p), PutKey(up, Last(p), value))

SpilledAll ==
  LET depth(tx, d) == FoldSet(LAMBDA p, t : Spilled(t, p), tx,
                              {p \in DOMAIN open : Len(p) = d})
      from[d \in 1 .. MaxDepth + 1] == IF d > MaxDepth THEN Tx ELSE depth(from[d+1], d)
      tx == from[1] IN
  IF tx.open[<<>>].read THEN Written(tx, <<>>) ELSE tx

Commit ==
  /\ commits < MaxCommits
  /\ LET tx == SpilledAll IN
       /\ page' = [id \in DOMAIN tx.page \ tx.freed |-> tx.page[id]]
       /\ root' = tx.open[<<>>].root
       /\ panic' = tx.panic
  /\ open' = (<<>> :> Fresh(root')) /\ freed' = {}
  /\ ops' = 0 /\ commits' = commits + 1

Rollback ==
  /\ open' = (<<>> :> Fresh(root)) /\ freed' = {} /\ ops' = 0
  /\ UNCHANGED <<page, root, panic, commits>>

Next ==
  \/ \E p \in BucketsIn(Tx) :
       \/ NextSequence(p)
       \/ \E k \in Names :
            \/ CreateBucketIfNotExists(p, k) \/ Delete(p, k) \/ DeleteBucket(p, k)
            \/ \E v \in Values : Put(p, k, v)
            \/ \E q \in BucketsIn(Tx) : MoveBucket(p, k, q)
  \/ Commit \/ Rollback

Spec == Init /\ [][Next]_vars

-----------------------------------------------------------------------------
StoreOf(open_, found) ==
  LET buckets == {p \in Paths : p = <<>> \/ HasBucket(found[Front(p)], Last(p))}
      paths == UNION {{Append(b, k) : k \in DOMAIN found[b]} : b \in buckets} IN
  [p \in paths |->
     LET e == found[Front(p)][Last(p)] IN
     IF ~e.bucket THEN [kind |-> "value", val |-> e.val]
     ELSE [kind |-> "bucket", val |-> IF p \in DOMAIN open_ THEN open_[p].seq ELSE e.seq]]
\* (The leaves are bound by a set so that TLC evaluates them once.)
Store(tx) == CHOOSE s \in {StoreOf(tx.open, f) : f \in {Found(tx)} \ {<<>>}} : TRUE

(* Whatever buckets are opened, created, moved, deleted, inlined and       *)
(* written out in one transaction, in any order, it reads the tree of      *)
(* names that the calls it made lead to, each of them doing to that tree   *)
(* what it says, and a commit keeps exactly that tree.                     *)
store == Store(Tx)
saved == Store([Tx EXCEPT !.open = (<<>> :> Fresh(root))])
Abstract == INSTANCE Namespace
ImplementsNamespace ==
  /\ Abstract!Spec
  /\ [][\E s \in {store}, t \in {store'} :
          /\ \A p \in BucketsIn(Tx) :
               /\ NextSequence(p) => Abstract!NextSequence(s, t, p)
               /\ \A k \in Names :
                    /\ CreateBucketIfNotExists(p, k)
                         => IF Append(p, k) \in DOMAIN s THEN t = s
                            ELSE Abstract!CreateBucket(s, t, Append(p, k))
                    /\ Delete(p, k) \/ DeleteBucket(p, k) => Abstract!Delete(s, t, Append(p, k))
                    /\ \A v \in Values : Put(p, k, v) => Abstract!Put(s, t, Append(p, k), v)
                    /\ \A q \in BucketsIn(Tx) : MoveBucket(p, k, q)
                         => Abstract!MoveBucket(s, t, Append(p, k), Append(q, k))
          /\ Commit => Abstract!Commit(s, t, saved')
          /\ Rollback => Abstract!Rollback(t, saved, saved')]_vars

(* Between transactions every page belongs to exactly one bucket and every *)
(* bucket that is not inline has its page; no transaction freed a page     *)
(* twice or missed the place of a bucket's header.                         *)
PagesOwned ==
  LET found == Found(Tx)
      out == {p \in BucketsIn(Tx) \ {<<>>} : found[Front(p)][Last(p)].root # 0} IN
  /\ ops = 0 => /\ DOMAIN page = {root} \cup {found[Front(p)][Last(p)].root : p \in out}
                /\ Cardinality(DOMAIN page) = Cardinality(out) + 1
  /\ ~panic
=============================================================================
