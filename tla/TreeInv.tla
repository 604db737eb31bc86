------------------------------- MODULE TreeInv -------------------------------
(***************************************************************************)
(* The inductive invariant of Tree.                                        *)
(*                                                                         *)
(* The nodes and pages of a transaction are seen as one tree: a function   *)
(* from ids to a node's kind, the key its parent knows it by and its       *)
(* elements.  What each operation does to the nodes is a change of this    *)
(* tree, and the tree's shape is kept by each such change.                 *)
(***************************************************************************)
EXTENDS Tree

-----------------------------------------------------------------------------
(***************************************************************************)
(* The tree.  h is the height of a node, d the set of keys that are in the *)
(* part of the tree below it or were there once.                           *)
(***************************************************************************)
Key == Nat \ {0}
Elem == [key : Key, val : Int]

Branches(t) == {v \in DOMAIN t : ~t[v].leaf}
Apart(A, B) == \A x \in A, y \in B : x < y

Kinds(t) ==
  \A v \in DOMAIN t :
    /\ t[v].leaf \in BOOLEAN /\ t[v].key \in Nat /\ t[v].items \subseteq Elem
    /\ \A e, f \in t[v].items : e.key = f.key => e = f

Heights(t, r, h) ==
  \A v \in DOMAIN t : h[v] \in Nat /\ (t[v].leaf <=> h[v] = 0) /\ (v # r => h[v] < h[r])

Domains(t, r, d) ==
  \A v \in DOMAIN t : /\ d[v] \subseteq Nat
                      /\ \A e \in t[v].items : e.key \in d[v]
                      /\ v # r => t[v].key \in d[v]

Children(t, r, h, d) ==
  \A v \in Branches(t) :
    /\ \A e \in t[v].items : /\ e.val \in DOMAIN t \ {r} /\ h[e.val] + 1 = h[v]
                             /\ t[e.val].key = e.key /\ d[e.val] \subseteq d[v]
    /\ \A e, f \in t[v].items : e.key < f.key => Apart(d[e.val], d[f.val])

OneParent(t) ==
  \A v, w \in Branches(t) : \A e \in t[v].items, f \in t[w].items : e.val = f.val => v = w

AllHaveParents(t, r) ==
  \A v \in DOMAIN t \ {r} : \E p \in Branches(t) : \E e \in t[p].items : e.val = v

Shape(t, r, h, d) ==
  /\ r \in DOMAIN t
  /\ Kinds(t) /\ Heights(t, r, h) /\ Domains(t, r, d) /\ Children(t, r, h, d)
  /\ OneParent(t) /\ AllHaveParents(t, r)

\* A key below an element that is not the first is not less than its key.
Guided(t, d) ==
  \A v \in Branches(t) : \A e, f \in t[v].items :
    e.key < f.key => \A x \in d[f.val] : f.key <= x

\* A branch has two elements, but for the node that is to be rebalanced next.
Full(t, short) ==
  \A v \in Branches(t) : /\ t[v].items # {}
                         /\ v # short => \E e, f \in t[v].items : e # f

(***************************************************************************)
(* The tree of pages and nodes.                                            *)
(***************************************************************************)
Row(s) == /\ s \in Seq(Elem)
          /\ \A i, j \in DOMAIN s : i < j => s[i].key < s[j].key

Unwritten(ns, v) == v \in DOMAIN ns /\ ~ns[v].spilled

OfPage(p) == [leaf |-> p.leaf, key |-> FirstKey(p.inodes), items |-> ToSet(p.inodes)]
OfNode(n) == [leaf |-> n.leaf, key |-> n.key, items |-> ToSet(n.inodes)]

\* The pages of the transaction that are not freed, and a new root.
Live(pages, ns, gone) == (DOMAIN pages \ gone) \cup {n \in DOMAIN ns : ~ns[n].spilled}

TreeOf(pages, ns, gone) ==
  [v \in Live(pages, ns, gone) |-> IF Unwritten(ns, v) THEN OfNode(ns[v]) ELSE OfPage(pages[v])]

TreeOfPages(pages, ids) == [v \in ids |-> OfPage(pages[v])]

(***************************************************************************)
(* The invariant.                                                          *)
(***************************************************************************)
PageType == [leaf : BOOLEAN, inodes : {s \in Seq(Elem) : Row(s)}]
NodeType == [pgid : Nat, leaf : BOOLEAN, inodes : {s \in Seq(Elem) : Row(s)}, key : Nat,
             parent : Int, children : SUBSET Int, unbalanced : BOOLEAN, spilled : BOOLEAN]

Typed(pages, ns) ==
  /\ DOMAIN pages \subseteq Pgids /\ \A id \in DOMAIN pages : pages[id] \in PageType
  /\ DOMAIN ns \subseteq Int /\ IsFiniteSet(DOMAIN ns) /\ \A n \in DOMAIN ns : ns[n] \in NodeType

\* The pages of the last commit are a tree.
SoundPages(pages, ids, r) ==
  /\ \A v \in ids : v # r => pages[v].inodes # <<>>
  /\ Full(TreeOfPages(pages, ids), 0)
  /\ \E h, d : /\ Shape(TreeOfPages(pages, ids), r, h, d)
               /\ Guided(TreeOfPages(pages, ids), d)

\* Parents and children of nodes, top is the node without a parent.
Links(ns, top) ==
  /\ top \in DOMAIN ns /\ ns[top].parent = 0
  /\ \A n \in DOMAIN ns : \A c \in ns[n].children : c \in DOMAIN ns /\ ns[c].parent = n
  /\ \A n \in DOMAIN ns \ {top} :
       /\ ns[n].parent \in DOMAIN ns
       /\ ~ns[n].spilled => LET p == ns[n].parent IN
                            /\ ~ns[p].spilled /\ n \in ns[p].children
                            /\ ~ns[p].leaf /\ \E e \in ToSet(ns[p].inodes) : e.val = n

\* Until nodes are written every node stands for its page, and only a node whose
\* rebalance is due is empty.
Loaded(pages, ns, gone, r, h, d) ==
  /\ Shape(TreeOf(pages, ns, gone), r, h, d)
  /\ \A n \in DOMAIN ns : n \in DOMAIN pages \ gone /\ ns[n].pgid = n /\ ~ns[n].spilled
  /\ \A v \in DOMAIN pages \ gone :
       v # r /\ TreeOf(pages, ns, gone)[v].items = {} => v \in DOMAIN ns /\ ns[v].unbalanced
  /\ ns # <<>> => Links(ns, r)

\* What a node stands for when nodes are written: its page, or a new root, until
\* it is written itself.
Stands(pages, ns, gone) ==
  \A n \in DOMAIN ns :
    /\ n \in DOMAIN pages \/ n < 0
    /\ IF ns[n].spilled
       THEN n \notin DOMAIN pages \ gone
       ELSE \/ n \in DOMAIN pages \ gone /\ ns[n].pgid = n
            \/ n < 0 /\ ns[n].pgid = 0

\* A node is less high than its parent.
Steep(ns, top, h) ==
  /\ h[top] \in Nat
  /\ \A n \in DOMAIN ns \ {top} : h[n] \in Nat /\ h[n] < h[ns[n].parent] /\ h[n] < h[top]

TreeTop(ns, top, rt) ==
  IF ns = <<>> THEN rt ELSE IF ns[top].spilled THEN ns[top].pgid ELSE top

Spilling(pages, ns, gone, rt, top, h, d) ==
  LET t == TreeOf(pages, ns, gone) r == TreeTop(ns, top, rt) IN
  /\ Shape(t, r, h, d)
  /\ \A v \in DOMAIN t \ {r} : t[v].items # {}
  /\ ns # <<>> => rt \in DOMAIN ns /\ Links(ns, top) /\ Steep(ns, top, h)
  /\ Stands(pages, ns, gone)

\* Where the transaction is.
Progress ==
  /\ phase \in {"open", "rebalance", "spill"}
  /\ cur # 0 => phase = "rebalance" /\ cur \in DOMAIN node /\ node[cur].unbalanced
  /\ phase # "spill" => written = {}
  /\ phase = "open" => freed = {}
  /\ phase = "spill" => \A n \in DOMAIN node : ~node[n].unbalanced

TreeInv ==
  /\ Typed(page, node) /\ Progress
  /\ written \subseteq DOMAIN page /\ freed \subseteq DOMAIN page
  /\ SoundPages(page, DOMAIN page \ written, root)
  /\ Full(TreeOf(page, node, freed), cur)
  /\ phase # "spill" => \E h, d : /\ Loaded(page, node, freed, root, h, d)
                                  /\ phase = "open" => Guided(TreeOf(page, node, freed), d)
  /\ phase = "spill" => \E top, h, d : Spilling(page, node, freed, root, top, h, d)

=============================================================================
