-------------------------------- MODULE Tree --------------------------------
(***************************************************************************)
(* The B+tree of one bucket under a write transaction (node.go, and        *)
(* Bucket.node, rebalance, spill of bucket.go).  Put and Delete read the   *)
(* pages from the root to a leaf into nodes and change the leaf; Commit    *)
(* merges the nodes that deletions left too small, in the order of a Go    *)
(* map, then splits the large ones and writes all of them, children first, *)
(* to new pages.                                                           *)
(*                                                                         *)
(* A node read from page p is known as p for the rest of the transaction,  *)
(* as in Bucket.nodes; the parent a split root gets has a negative number. *)
(* An element is its key and its value, or the page id in a branch, and    *)
(* sizes are counted in units.                                             *)
(***************************************************************************)
EXTENDS Integers, Sequences, FiniteSets, SequencesExt, FiniteSetsExt

CONSTANTS Keys,         \* a set of positive numbers, 0 stands for nil
          Values,       \* a value is its size
          PageSize,
          Pgids,        \* page ids of the file (bound)
          Start,        \* the trees a transaction may find
          Puts,         \* the elements that are put (bound)
          Deletes,      \* the keys that are deleted (bound)
          MaxOps,       \* changes of a transaction (bound)
          MaxCommits    \* transactions (bound)

\* Keys and pages are numbered from 1, values and pages have a size.
ASSUME TreeAssumption ==
  /\ Keys \subseteq Nat \ {0} /\ Values \subseteq Nat /\ PageSize \in Nat \ {0}
  /\ Pgids \subseteq Nat \ {0} /\ IsFiniteSet(Pgids)
  /\ \A e \in Puts : e.key \in Keys /\ e.val \in Values
  /\ Deletes \subseteq Keys

HeaderSize == 2
MinKeysPerPage == 2
FillPercent == 50

VARIABLES
  page,         \* page[p]: the pages of the last commit and of this transaction
  root,         \* Bucket.RootPage
  node,         \* Bucket.nodes, and the parents of a split root
  freed,        \* pages this transaction has freed
  written,      \* pages this transaction has written
  phase,        \* "open", "rebalance", "spill" or "panic"
  cur,          \* the node whose rebalance is to be called next, 0 for any
  ops, commits

tree == <<page, root, node, freed, written>>
vars == <<tree, phase, cur, ops, commits>>

(***************************************************************************)
(* Elements, sizes, search.                                                *)
(***************************************************************************)
Element(k, v) == [key |-> k, val |-> v]
ElementSize(leaf, e) == IF leaf THEN 1 + e.val ELSE 2
Size(leaf, s) ==
  HeaderSize + FoldLeft(LAMBDA sum, e : sum + ElementSize(leaf, e), 0, s)
Threshold == (PageSize * FillPercent) \div 100
MinKeys(leaf) == IF leaf THEN 1 ELSE 2

\* Whether splitTwo leaves the elements in one node.
Fits(leaf, s) == Len(s) <= 2 * MinKeysPerPage \/ Size(leaf, s) < PageSize

\* sort.Search for the first element whose key is not less than k.
Index(s, k) == 1 + Cardinality({i \in DOMAIN s : s[i].key < k})
Has(s, k) == Index(s, k) \in DOMAIN s /\ s[Index(s, k)].key = k
PutElement(s, old, e) ==
  IF Has(s, old) THEN [s EXCEPT ![Index(s, old)] = e] ELSE InsertAt(s, Index(s, old), e)
DelElement(s, k) == IF Has(s, k) THEN RemoveAt(s, Index(s, k)) ELSE s

\* The child of a branch under which k belongs.
ChildFor(s, k) == IF Has(s, k) \/ Index(s, k) = 1 THEN Index(s, k) ELSE Index(s, k) - 1

(***************************************************************************)
(* Pages and nodes.                                                        *)
(***************************************************************************)
Inodes(id) == page[id].inodes
FirstKey(s) == IF s = <<>> THEN 0 ELSE s[1].key
PageNode(id) == IF id \in DOMAIN node THEN node[id] ELSE page[id]

Read(id, parent) ==
  [pgid |-> id, leaf |-> page[id].leaf, inodes |-> Inodes(id),
   key |-> FirstKey(Inodes(id)), parent |-> parent, children |-> {},
   unbalanced |-> FALSE, spilled |-> FALSE]

\* Bucket.node: the cached node, or a new one that its parent knows.
Node(ns, id, parent) ==
  IF id \in DOMAIN ns THEN ns
  ELSE [n \in DOMAIN ns \cup {id} |->
          IF n = id THEN Read(id, parent)
          ELSE IF n = parent THEN [ns[n] EXCEPT !.children = @ \cup {id}]
          ELSE ns[n]]

\* From x by next until it stays where it is.
Follow(next, x) ==
  LET from[y \in DOMAIN next] == IF next[y] = y THEN <<y>> ELSE <<y>> \o from[next[y]]
  IN from[x]

\* Cursor.seek: the pages and nodes from the root down to k's leaf.
ToChild(k) ==
  [id \in DOMAIN page |->
     IF PageNode(id).leaf THEN id
     ELSE LET s == PageNode(id).inodes IN s[ChildFor(s, k)].val]
Path(k) == Follow(ToChild(k), root)

\* Cursor.node: the same path, every page of it read into a node.
NodesOn(path) ==
  LET above(id) == {path[i-1] : i \in {i \in 2 .. Len(path) : path[i] = id}}
      below(id) == {path[i] : i \in {i \in 2 .. Len(path) : path[i-1] = id}} IN
  [id \in DOMAIN node \cup ToSet(path) |->
     [IF id \in DOMAIN node THEN node[id]
      ELSE Read(id, IF above(id) = {} THEN 0 ELSE CHOOSE p \in above(id) : TRUE)
        EXCEPT !.children = @ \cup (below(id) \ DOMAIN node)]]

(***************************************************************************)
(* A tree that a transaction may find, with the height of every page: keys *)
(* are in order in a page and from page to page, a branch's key is its     *)
(* child's first key, every page but the root has one parent, and no page  *)
(* but an empty root is empty.                                             *)
(***************************************************************************)
SoundTree(t) ==
  LET inodes(id) == t.page[id].inodes
      branches == {id \in DOMAIN t.page : ~t.page[id].leaf} IN
  /\ DOMAIN t.page \subseteq Pgids /\ t.root \in DOMAIN t.page
  /\ \A id \in DOMAIN t.page :
       /\ t.page[id] \in [leaf : BOOLEAN, inodes : Seq([key : Keys, val : Nat])]
       /\ \A i, j \in DOMAIN inodes(id) : i < j => inodes(id)[i].key < inodes(id)[j].key
       /\ Fits(t.page[id].leaf, inodes(id))
       /\ t.page[id].leaf => \A e \in ToSet(inodes(id)) : e.val \in Values
       /\ t.height[id] \in Nat /\ (t.page[id].leaf <=> t.height[id] = 0)
       /\ id # t.root => /\ inodes(id) # <<>> /\ t.height[id] < t.height[t.root]
                         /\ \E p \in branches : \E e \in ToSet(inodes(p)) : e.val = id
  /\ \A id \in branches :
       /\ Len(inodes(id)) >= 2
       /\ \A e \in ToSet(inodes(id)) :
            /\ e.val \in DOMAIN t.page \ {t.root} /\ t.height[e.val] + 1 = t.height[id]
            /\ FirstKey(inodes(e.val)) = e.key
  /\ \A p, q \in branches : \A e \in ToSet(inodes(p)), f \in ToSet(inodes(q)) :
       e.val = f.val => p = q
  /\ \A p, q \in DOMAIN t.page :
       t.height[p] = t.height[q] /\ FirstKey(inodes(p)) < FirstKey(inodes(q))
         => \A e \in ToSet(inodes(p)) : e.key < FirstKey(inodes(q))

ASSUME StartAssumption == \A t \in Start : SoundTree(t)

(***************************************************************************)
(* The transaction's changes.                                              *)
(***************************************************************************)
Init ==
  /\ \E t \in Start : page = t.page /\ root = t.root
  /\ node = <<>> /\ freed = {} /\ written = {}
  /\ phase = "open" /\ cur = 0 /\ ops = 0 /\ commits = 0

Change(k, inodes, unbalanced) ==
  LET path == Path(k) leaf == Last(path) IN
  /\ phase = "open" /\ ops < MaxOps /\ commits < MaxCommits
  /\ ops' = ops + 1
  /\ node' = [NodesOn(path) EXCEPT ![leaf].inodes = inodes,
                                   ![leaf].unbalanced = @ \/ unbalanced]
  /\ UNCHANGED <<page, root, freed, written, phase, cur, commits>>

LeafOf(k) == PageNode(Last(Path(k))).inodes

Put(k, v) == Change(k, PutElement(LeafOf(k), k, Element(k, v)), FALSE)

Delete(k) == Has(LeafOf(k), k) /\ Change(k, DelElement(LeafOf(k), k), TRUE)

Commit ==
  /\ phase = "open" /\ commits < MaxCommits
  /\ phase' = "rebalance" /\ UNCHANGED <<tree, cur, ops, commits>>

(***************************************************************************)
(* Bucket.rebalance: node.rebalance for every node of Bucket.nodes, in any *)
(* order; a call that changes the parent ends by rebalancing the parent.   *)
(***************************************************************************)
Panic == phase' = "panic" /\ UNCHANGED <<tree, cur, ops, commits>>

\* Variant: the page of a node is not freed.
FreeNothing(id) == freed' = freed

\* node.free, a page freed twice panics.
Free(id) == id \notin freed /\ freed' = freed \cup {id}

Rebalanced(ns, next) ==
  /\ node' = ns
  /\ cur' = IF next # 0 /\ ns[next].unbalanced THEN next ELSE 0
  /\ UNCHANGED <<page, root, written, phase, ops, commits>>

Forget(ns, id) == [n \in DOMAIN ns \ {id} |-> ns[n]]

\* Variant: the children of a merged node keep their parent.
AdoptNone(ns, n, inodes, leaf) == ns

\* The elements that are nodes, and their children's nodes, move under n.
Adopt(ns, n, inodes, leaf) ==
  LET moved == IF leaf THEN {} ELSE {e.val : e \in ToSet(inodes)} \cap DOMAIN ns IN
  [id \in DOMAIN ns |->
     IF id \in moved THEN [ns[id] EXCEPT !.parent = n]
     ELSE IF id = n THEN [ns[id] EXCEPT !.children = @ \cup moved]
     ELSE [ns[id] EXCEPT !.children = @ \ moved]]

\* parent.del(n.key), parent.removeChild(n), delete(b.nodes, n).
Drop(ns, n) ==
  LET p == ns[n].parent IN
  Forget([ns EXCEPT ![p].inodes = DelElement(@, ns[n].key),
                    ![p].unbalanced = @ \/ Has(ns[p].inodes, ns[n].key),
                    ![p].children = @ \ {n}], n)

BigEnough(n) ==
  /\ Size(n.leaf, n.inodes) > Threshold \div 2
  /\ Len(n.inodes) > MinKeys(n.leaf)

\* The root takes the place of its only child.
Collapse(ns, n) ==
  LET child == ns[n].inodes[1].val
      with == Node(ns, child, n)
      c == with[child]
      up == Adopt(with, n, c.inodes, c.leaf) IN
  /\ Free(c.pgid)
  /\ Rebalanced(Forget([up EXCEPT ![n].leaf = c.leaf, ![n].inodes = c.inodes,
                                  ![n].children = c.children], child), 0)

\* The first child is merged with the next one, any other with the previous one.
Merge(ns, n) ==
  LET p == ns[n].parent
      i == Index(ns[p].inodes, ns[n].key)
      with == Node(ns, ns[p].inodes[IF i = 1 THEN 2 ELSE i - 1].val, p)
      sibling == ns[p].inodes[IF i = 1 THEN 2 ELSE i - 1].val
      left == IF i = 1 THEN n ELSE sibling
      right == IF i = 1 THEN sibling ELSE n
      joined == [Adopt(with, left, with[right].inodes, with[right].leaf)
                   EXCEPT ![left].inodes = @ \o with[right].inodes] IN
  /\ Free(with[right].pgid)
  /\ Rebalanced(Drop(joined, right), p)

Rebalance(n) ==
  LET ns == [node EXCEPT ![n].unbalanced = FALSE]
      p == node[n].parent IN
  /\ phase = "rebalance"
  /\ node[n].unbalanced /\ cur \in {0, n}
  /\ CASE BigEnough(node[n]) -> Rebalanced(ns, 0) /\ UNCHANGED freed
       [] ~BigEnough(node[n]) /\ p = 0 ->
            IF ~node[n].leaf /\ Len(node[n].inodes) = 1 THEN Collapse(ns, n)
            ELSE Rebalanced(ns, 0) /\ UNCHANGED freed
       [] ~BigEnough(node[n]) /\ p # 0 /\ node[n].inodes = <<>> ->
            Free(node[n].pgid) /\ Rebalanced(Drop(ns, n), p)
       [] OTHER -> Len(node[p].inodes) > 1 /\ Merge(ns, n)

\* The assertions of rebalance: a parent without a sibling, a double free.
RebalancePanics(n) ==
  LET p == node[n].parent IN
  /\ phase = "rebalance"
  /\ node[n].unbalanced /\ cur \in {0, n} /\ ~BigEnough(node[n])
  /\ p # 0 /\ node[n].inodes # <<>> /\ Len(node[p].inodes) < 2
  /\ Panic

StartSpill ==
  /\ phase = "rebalance" /\ \A n \in DOMAIN node : ~node[n].unbalanced
  /\ phase' = "spill" /\ UNCHANGED <<tree, cur, ops, commits>>

(***************************************************************************)
(* Bucket.spill: every node is split and written, after its children in    *)
(* the order of their keys.                                                *)
(***************************************************************************)
\* The nodes splitTwo makes of the elements s.
SplitIndex(leaf, s) ==
  Min({Len(s) - MinKeysPerPage - 1} \cup
      {i \in MinKeysPerPage .. Len(s) - MinKeysPerPage - 1 :
         Size(leaf, SubSeq(s, 1, i + 1)) > Threshold})
NextStart(leaf, s) ==
  [i \in 1 .. Len(s) + 1 |->
     LET rest == SubSeq(s, i, Len(s)) IN
     IF Fits(leaf, rest) THEN i ELSE i + SplitIndex(leaf, rest)]
Split(leaf, s) ==
  LET starts == Follow(NextStart(leaf, s), 1) IN
  [j \in DOMAIN starts |->
     SubSeq(s, starts[j], IF j = Len(starts) THEN Len(s) ELSE starts[j+1] - 1)]

\* node.root of the bucket's root node.
ToParent == [n \in DOMAIN node |-> IF node[n].parent = 0 THEN n ELSE node[n].parent]
Top == Last(Follow(ToParent, root))

AllSpilled == IF node = <<>> THEN TRUE ELSE node[Top].spilled

Unspilled(n) == {c \in node[n].children : ~node[c].spilled}
Least(cs) == CHOOSE c \in cs : \A d \in cs : FirstKey(node[c].inodes) <= FirstKey(node[d].inodes)
ToUnspilled == [n \in DOMAIN node |-> IF Unspilled(n) = {} THEN n ELSE Least(Unspilled(n))]
NextToSpill == Last(Follow(ToUnspilled, Top))

Unused(i) == CHOOSE p \in Pgids \ DOMAIN page :
               Cardinality({q \in Pgids \ DOMAIN page : q < p}) = i - 1

\* The parent of a root that is split.
NewRoot == [pgid |-> 0, leaf |-> FALSE, inodes |-> <<>>, key |-> 0, parent |-> 0,
            children |-> {}, unbalanced |-> FALSE, spilled |-> FALSE]

\* node.write
Write(leaf, inodes) == [leaf |-> leaf, inodes |-> inodes]

\* The key by which the parent knows part i of node n.
OldKey(n, part, i) == IF i = 1 /\ node[n].key # 0 THEN node[n].key ELSE FirstKey(part)

\* The parts of n are put among the elements s of its parent.
PutParts(s, n, parts, ids) ==
  LET put[i \in 0 .. Len(parts)] ==
        IF i = 0 THEN s
        ELSE PutElement(put[i-1], OldKey(n, parts[i], i), Element(FirstKey(parts[i]), ids[i]))
  IN put[Len(parts)]

Spill ==
  LET n == NextToSpill
      parts == Split(node[n].leaf, node[n].inodes)
      ids == [i \in DOMAIN parts |-> Unused(i)]
      p == IF node[n].parent = 0 /\ Len(parts) > 1 THEN Min(DOMAIN node \cup {0}) - 1
           ELSE node[n].parent
      ns == IF p \in DOMAIN node \/ p = 0 THEN node
            ELSE [m \in DOMAIN node \cup {p} |-> IF m = p THEN NewRoot ELSE node[m]] IN
  /\ phase = "spill" /\ ~AllSpilled
  /\ Len(parts) <= Cardinality(Pgids \ DOMAIN page)
  /\ IF node[n].pgid = 0 THEN UNCHANGED freed ELSE Free(node[n].pgid)
  /\ p # 0 => \A i \in DOMAIN parts : parts[i] # <<>>
  /\ page' = [id \in DOMAIN page \cup ToSet(ids) |->
                IF id \in DOMAIN page THEN page[id]
                ELSE Write(node[n].leaf, parts[CHOOSE i \in DOMAIN ids : ids[i] = id])]
  /\ written' = written \cup ToSet(ids)
  /\ node' = [m \in DOMAIN ns |->
                IF m = n THEN [ns[n] EXCEPT !.pgid = ids[1], !.inodes = parts[1], !.parent = p,
                                            !.children = {}, !.spilled = TRUE]
                ELSE IF m = p THEN [ns[p] EXCEPT !.inodes = PutParts(@, n, parts, ids),
                                                 !.children = @ \cup {n}]
                ELSE ns[m]]
  /\ UNCHANGED <<root, phase, cur, ops, commits>>

\* An element of an empty node is read, or its page is freed again.
SpillPanics ==
  /\ phase = "spill" /\ ~AllSpilled
  /\ LET n == NextToSpill IN
       \/ node[n].parent # 0 /\ node[n].inodes = <<>>
       \/ node[n].pgid \in freed
  /\ Panic

(***************************************************************************)
(* The end of the transaction.  The pages it freed are free for the next   *)
(* one, the pages of a transaction that rolls back are free at once.       *)
(***************************************************************************)
Keep(ids) == page' = [id \in ids |-> page[id]]

EndCommit ==
  /\ phase = "spill" /\ AllSpilled
  /\ root' = IF node = <<>> THEN root ELSE node[Top].pgid
  /\ Keep(DOMAIN page \ freed)
  /\ node' = <<>> /\ freed' = {} /\ written' = {}
  /\ phase' = "open" /\ ops' = 0 /\ commits' = commits + 1
  /\ UNCHANGED cur

Rollback ==
  /\ phase # "panic"
  /\ Keep(DOMAIN page \ written)
  /\ node' = <<>> /\ freed' = {} /\ written' = {}
  /\ phase' = "open" /\ cur' = 0 /\ ops' = 0
  /\ UNCHANGED <<root, commits>>

Next ==
  \/ \E k \in Deletes : Delete(k)
  \/ \E e \in Puts : Put(e.key, e.val)
  \/ Commit
  \/ \E n \in DOMAIN node : Rebalance(n) \/ RebalancePanics(n)
  \/ StartSpill \/ Spill \/ SpillPanics
  \/ EndCommit \/ Rollback

Spec == Init /\ [][Next]_vars

-----------------------------------------------------------------------------
(***************************************************************************)
(* What the tree holds.                                                    *)
(***************************************************************************)
\* The pages and nodes that a transaction reads: a node is read in the place of its
\* page until it is written.
Reads ==
  [id \in (DOMAIN page \ freed) \cup {n \in DOMAIN node : ~node[n].spilled} |->
     IF id \in DOMAIN node /\ ~node[id].spilled THEN node[id] ELSE page[id]]
ReadsFrom == IF node = <<>> THEN root ELSE IF node[Top].spilled THEN node[Top].pgid ELSE Top

\* The pages of the last commit.
Committed == [id \in DOMAIN page \ written |-> page[id]]

\* In-order contents of the tree of t at id; a page that is gone has none.
Contents(t, id) ==
  LET ids == DOMAIN t
      below[n \in ids] ==
        IF t[n].leaf THEN t[n].inodes
        ELSE FoldLeft(LAMBDA s, e : s \o (IF e.val \in ids THEN below[e.val] ELSE <<>>),
                      <<>>, t[n].inodes)
  IN below[id]
\* (The contents are bound by a quantifier so that TLC evaluates them once.)
AsMap(contents) ==
  CHOOSE m \in {[k \in {s[i].key : i \in DOMAIN s} |-> s[Index(s, k)].val] : s \in {contents}} : TRUE

(* Whatever the order of the rebalancing and wherever nodes are split,     *)
(* a transaction reads the map its puts and deletes made: a Put or a       *)
(* Delete changes its own key and no other, a step of the commit none,     *)
(* what the commit keeps is exactly that map, and a rollback is back at    *)
(* the last.  So every step is one of OrderedMap, the one of its name.     *)
(* (A Delete by a cursor is the Delete of the key where it stands.)        *)
map == AsMap(Contents(Reads, ReadsFrom))
saved == AsMap(Contents(Committed, root))
committing == phase # "open"
OrderedMap == INSTANCE OrderedMap
ImplementsMap ==
  /\ OrderedMap!Init
  /\ [][/\ ops' > ops =>
             /\ \A e \in Puts : Put(e.key, e.val) => OrderedMap!Put(e.key, e.val)
             /\ \A k \in Keys : Delete(k) => OrderedMap!Delete(k)
        /\ committing' => OrderedMap!Commit
        /\ EndCommit => OrderedMap!EndCommit
        /\ Rollback => OrderedMap!Rollback]_vars

\* The number of levels at a page, 0 if something is wrong below.
Depth(id) ==
  LET depth[p \in DOMAIN page] ==
        LET s == page[p].inodes IN
        IF page[p].leaf THEN IF Fits(TRUE, s) THEN 1 ELSE 0
        ELSE LET ds == {IF e.val \in DOMAIN page /\ FirstKey(page[e.val].inodes) = e.key
                          THEN depth[e.val] ELSE 0 : e \in ToSet(s)}
             IN IF Fits(FALSE, s) /\ Len(s) >= MinKeysPerPage /\ Cardinality(ds) = 1 /\ 0 \notin ds
                THEN 1 + Max(ds) ELSE 0
  IN depth[id]

Reached(id) ==
  LET reached[p \in DOMAIN page] ==
        IF page[p].leaf THEN {p}
        ELSE {p} \cup UNION {reached[e.val] : e \in ToSet(page[p].inodes)}
  IN reached[id]

KeysInOrder(s) == \A i \in 1 .. Len(s) - 1 : s[i].key < s[i+1].key

(* Between transactions the pages of the file are exactly those of the     *)
(* tree: a commit leaks no page and loses none.  All leaves have the same  *)
(* depth, keys are in order, a branch's key is its child's first key, no   *)
(* page but an empty root is empty, and a page that does not fit has too   *)
(* few keys to be split.                                                   *)
PagesSound ==
  phase = "open" =>
    /\ Depth(root) > 0
    /\ node = <<>> => DOMAIN page = Reached(root)
    /\ KeysInOrder(Contents(page, root))

(* The parents, the children and the cache of nodes tell the same story,   *)
(* and no node of the cache stands for a page that was freed.  So no       *)
(* assertion of rebalance and spill fails: a parent has a sibling to merge *)
(* with, a node that is written has a first key, a page is freed once.     *)
LinksAgree ==
  /\ phase # "panic"
  /\ \A n \in DOMAIN node : LET p == node[n].parent IN
       /\ phase # "spill" => \/ p = 0 /\ n = root
                             \/ /\ p \in DOMAIN node /\ n \in node[p].children
                                /\ ~node[p].leaf
                                /\ \E e \in ToSet(node[p].inodes) : e.val = n
       /\ \A c \in node[n].children : c \in DOMAIN node /\ node[c].parent = n
       /\ ~node[n].spilled => node[n].pgid \notin freed
=============================================================================
