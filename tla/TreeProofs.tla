----------------------------- MODULE TreeProofs -----------------------------
(***************************************************************************)
(* Proofs about Tree for every tree, key set and page size: whatever is    *)
(* put and deleted and in whatever order the nodes are rebalanced, nodes,  *)
(* parents and pages agree, no assertion of rebalance and spill fails, and *)
(* the transaction reads and keeps the map its puts and deletes made.      *)
(***************************************************************************)
EXTENDS TreeLemmas

\* What the leaves hold that the transaction reads, and those of the last commit.
Held == LeafItems(TreeOf(page, node, freed))
Saved == LeafItems(TreeOfPages(page, DOMAIN page \ written))

-----------------------------------------------------------------------------
(***************************************************************************)
(* The tree of a transaction that writes nothing yet.                      *)
(***************************************************************************)
LEMMA TypedRecords ==
  ASSUME NEW pages, NEW ns, Typed(pages, ns)
  PROVE  /\ \A v \in DOMAIN pages :
              /\ v \in Int /\ v # 0 /\ v \in Nat /\ Row(pages[v].inodes) /\ pages[v].leaf \in BOOLEAN
              /\ OfPage(pages[v]).leaf = pages[v].leaf
              /\ OfPage(pages[v]).key = FirstKey(pages[v].inodes)
              /\ OfPage(pages[v]).items = ToSet(pages[v].inodes)
         /\ \A n \in DOMAIN ns :
              /\ n \in Int /\ Row(ns[n].inodes) /\ ns[n].leaf \in BOOLEAN /\ ns[n].key \in Nat
              /\ ns[n].parent \in Int /\ ns[n].children \subseteq Int /\ ns[n].pgid \in Nat
              /\ ns[n].unbalanced \in BOOLEAN /\ ns[n].spilled \in BOOLEAN
              /\ OfNode(ns[n]).leaf = ns[n].leaf
              /\ OfNode(ns[n]).key = ns[n].key
              /\ OfNode(ns[n]).items = ToSet(ns[n].inodes)
<1>1. ASSUME NEW v \in DOMAIN pages
      PROVE  /\ v \in Int /\ v # 0 /\ v \in Nat /\ Row(pages[v].inodes) /\ pages[v].leaf \in BOOLEAN
             /\ OfPage(pages[v]).leaf = pages[v].leaf
             /\ OfPage(pages[v]).key = FirstKey(pages[v].inodes)
             /\ OfPage(pages[v]).items = ToSet(pages[v].inodes)
  <2>1. v \in Nat \ {0} /\ pages[v] \in PageType
    BY TreeAssumption DEF Typed
  <2>2. Row(pages[v].inodes) /\ pages[v].leaf \in BOOLEAN
    BY <2>1 DEF PageType
  <2> QED
    BY <2>1, <2>2 DEF OfPage
<1>2. ASSUME NEW n \in DOMAIN ns
      PROVE  /\ n \in Int /\ Row(ns[n].inodes) /\ ns[n].leaf \in BOOLEAN /\ ns[n].key \in Nat
             /\ ns[n].parent \in Int /\ ns[n].children \subseteq Int /\ ns[n].pgid \in Nat
             /\ ns[n].unbalanced \in BOOLEAN /\ ns[n].spilled \in BOOLEAN
             /\ OfNode(ns[n]).leaf = ns[n].leaf
             /\ OfNode(ns[n]).key = ns[n].key
             /\ OfNode(ns[n]).items = ToSet(ns[n].inodes)
  <2>1. n \in Int /\ ns[n] \in NodeType
    BY DEF Typed
  <2>2. /\ Row(ns[n].inodes) /\ ns[n].leaf \in BOOLEAN /\ ns[n].key \in Nat
        /\ ns[n].parent \in Int /\ ns[n].children \subseteq Int /\ ns[n].pgid \in Nat
        /\ ns[n].unbalanced \in BOOLEAN /\ ns[n].spilled \in BOOLEAN
    BY <2>1 DEF NodeType
  <2> QED
    BY <2>1, <2>2 DEF OfNode
<1> QED
  BY <1>1, <1>2

\* Nodes that stand for their pages.
AllLoaded(pages, ns, gone) ==
  \A n \in DOMAIN ns : n \in DOMAIN pages \ gone /\ ns[n].pgid = n /\ ~ns[n].spilled

Overlays(t, pages, ns, gone) ==
  /\ DOMAIN t = DOMAIN pages \ gone
  /\ \A v \in DOMAIN ns : v \in DOMAIN pages /\ v \notin gone /\ v \in DOMAIN t /\ t[v] = OfNode(ns[v])
  /\ \A v \in DOMAIN t : v \notin DOMAIN ns => t[v] = OfPage(pages[v])

LEMMA LoadedTree ==
  ASSUME NEW pages, NEW ns, NEW gone, AllLoaded(pages, ns, gone)
  PROVE  Overlays(TreeOf(pages, ns, gone), pages, ns, gone)
<1> DEFINE t == TreeOf(pages, ns, gone)
<1>1. DOMAIN t = DOMAIN pages \ gone
  BY DEF TreeOf, Live, AllLoaded
<1>2. \A v \in DOMAIN t : t[v] = IF v \in DOMAIN ns THEN OfNode(ns[v]) ELSE OfPage(pages[v])
  BY <1>1 DEF TreeOf, Live, AllLoaded, Unwritten
<1> HIDE DEF t
<1>3. \A v \in DOMAIN ns : v \in DOMAIN t
  BY <1>1 DEF AllLoaded
<1>4. \A v \in DOMAIN ns : v \in DOMAIN pages /\ v \notin gone
  BY DEF AllLoaded
<1> QED
  BY <1>1, <1>2, <1>3, <1>4 DEF t, Overlays

\* Pages are read into nodes; par is the parent each new node is given.
Reading(pages, ns, ns2, C, par) ==
  /\ DOMAIN ns2 = DOMAIN ns \cup C /\ C \cap DOMAIN ns = {}
  /\ \A n \in DOMAIN ns : ns2[n] = [ns[n] EXCEPT !.children = @ \cup {c \in C : par[c] = n}]
  /\ \A c \in C : ns2[c] = [pgid |-> c, leaf |-> pages[c].leaf, inodes |-> pages[c].inodes,
                            key |-> FirstKey(pages[c].inodes), parent |-> par[c],
                            children |-> {x \in C : par[x] = c},
                            unbalanced |-> FALSE, spilled |-> FALSE]

\* par is the parent of the nodes in C.
Parents(t, r, S, C, par) ==
  \A c \in C : IF c = r THEN par[c] = 0
               ELSE par[c] \in S /\ ~t[par[c]].leaf /\ \E e \in t[par[c]].items : e.val = c

LEMMA ReadingLoads ==
  ASSUME NEW pages, NEW ns, NEW gone, NEW r, NEW h, NEW d, Typed(pages, ns),
         Loaded(pages, ns, gone, r, h, d),
         NEW ns2, NEW C, NEW par, Reading(pages, ns, ns2, C, par), IsFiniteSet(C),
         C \subseteq DOMAIN pages \ gone, r \in DOMAIN ns2,
         Parents(TreeOf(pages, ns, gone), r, DOMAIN ns2, C, par)
  PROVE  /\ Typed(pages, ns2) /\ Loaded(pages, ns2, gone, r, h, d)
         /\ TreeOf(pages, ns2, gone) = TreeOf(pages, ns, gone)
         /\ \A n \in DOMAIN ns : /\ ns2[n].inodes = ns[n].inodes /\ ns2[n].key = ns[n].key
                                 /\ ns2[n].parent = ns[n].parent /\ ns2[n].leaf = ns[n].leaf
                                 /\ ns2[n].unbalanced = ns[n].unbalanced
         /\ \A c \in C : ~ns2[c].unbalanced
<1> DEFINE t == TreeOf(pages, ns, gone)
           t2 == TreeOf(pages, ns2, gone)
<1>1. /\ DOMAIN ns2 = DOMAIN ns \cup C /\ \A c \in C : c \notin DOMAIN ns
      /\ \A c \in C : c \in DOMAIN pages /\ c \notin gone /\ c \in Nat /\ c \in Int
  <2>1. DOMAIN ns2 = DOMAIN ns \cup C /\ C \cap DOMAIN ns = {}
    BY DEF Reading
  <2>2. \A c \in C : c \in DOMAIN pages /\ c \notin gone
    OBVIOUS
  <2>3. \A c \in C : c \in Nat /\ c \in Int
    BY <2>2, TypedRecords
  <2> QED
    BY <2>1, <2>2, <2>3
<1>2. AllLoaded(pages, ns, gone)
  BY DEF Loaded, AllLoaded
<1>3. \A n \in DOMAIN ns : ns[n] \in NodeType
  BY DEF Typed
<1>4. \A c \in C : par[c] \in Int
  <2>1. \A n \in DOMAIN ns2 : n \in Int
    BY <1>1, TypedRecords
  <2> QED
    BY <2>1 DEF Parents
<1>5. \A n \in DOMAIN ns :
        /\ ns2[n] \in NodeType /\ ns2[n].inodes = ns[n].inodes /\ ns2[n].key = ns[n].key
        /\ ns2[n].parent = ns[n].parent /\ ns2[n].leaf = ns[n].leaf /\ ns2[n].pgid = ns[n].pgid
        /\ ns2[n].unbalanced = ns[n].unbalanced /\ ns2[n].spilled = ns[n].spilled
        /\ ns2[n].children = ns[n].children \cup {c \in C : par[c] = n}
  <2>1. SUFFICES ASSUME NEW n \in DOMAIN ns
                 PROVE  /\ ns2[n] \in NodeType /\ ns2[n].inodes = ns[n].inodes /\ ns2[n].key = ns[n].key
                        /\ ns2[n].parent = ns[n].parent /\ ns2[n].leaf = ns[n].leaf
                        /\ ns2[n].pgid = ns[n].pgid
                        /\ ns2[n].unbalanced = ns[n].unbalanced /\ ns2[n].spilled = ns[n].spilled
                        /\ ns2[n].children = ns[n].children \cup {c \in C : par[c] = n}
    OBVIOUS
  <2> DEFINE new == {c \in C : par[c] = n}
  <2>2. new \subseteq Int
    BY <1>1
  <2>3. ns2[n] = [ns[n] EXCEPT !.children = @ \cup new] /\ ns[n] \in NodeType
    BY <1>3 DEF Reading
  <2> HIDE DEF new
  <2>4. /\ ns2[n] \in NodeType /\ ns2[n].inodes = ns[n].inodes /\ ns2[n].key = ns[n].key
        /\ ns2[n].parent = ns[n].parent /\ ns2[n].leaf = ns[n].leaf
        /\ ns2[n].pgid = ns[n].pgid
        /\ ns2[n].unbalanced = ns[n].unbalanced /\ ns2[n].spilled = ns[n].spilled
        /\ ns2[n].children = ns[n].children \cup new
    BY <2>2, <2>3 DEF NodeType
  <2> QED
    BY <2>4 DEF new
<1>6. \A c \in C :
        /\ ns2[c] \in NodeType /\ ns2[c].inodes = pages[c].inodes /\ ns2[c].parent = par[c]
        /\ ns2[c].leaf = pages[c].leaf /\ ns2[c].key = FirstKey(pages[c].inodes) /\ ns2[c].pgid = c
        /\ ns2[c].unbalanced = FALSE /\ ns2[c].spilled = FALSE
        /\ ns2[c].children = {x \in C : par[x] = c}
  <2>1. SUFFICES ASSUME NEW c \in C
                 PROVE  /\ ns2[c] \in NodeType /\ ns2[c].inodes = pages[c].inodes /\ ns2[c].parent = par[c]
                        /\ ns2[c].leaf = pages[c].leaf /\ ns2[c].key = FirstKey(pages[c].inodes)
                        /\ ns2[c].pgid = c
                        /\ ns2[c].unbalanced = FALSE /\ ns2[c].spilled = FALSE
                        /\ ns2[c].children = {x \in C : par[x] = c}
    OBVIOUS
  <2>2. /\ FirstKey(pages[c].inodes) \in Nat /\ pages[c].leaf \in BOOLEAN
        /\ pages[c].inodes \in {s \in Seq(Elem) : Row(s)}
    BY <1>1, TypedRecords, RowFirst DEF Row
  <2>3. {x \in C : par[x] = c} \subseteq Int /\ par[c] \in Int /\ c \in Nat
    BY <1>1, <1>4
  <2>4. ns2[c] = [pgid |-> c, leaf |-> pages[c].leaf, inodes |-> pages[c].inodes,
                  key |-> FirstKey(pages[c].inodes), parent |-> par[c],
                  children |-> {x \in C : par[x] = c}, unbalanced |-> FALSE, spilled |-> FALSE]
    BY DEF Reading
  <2> QED
    BY <2>2, <2>3, <2>4 DEF NodeType
<1>7. Typed(pages, ns2)
  <2>1. IsFiniteSet(DOMAIN ns2)
    BY <1>1, FS_Union DEF Typed
  <2> QED
    BY <1>1, <1>5, <1>6, <2>1 DEF Typed
<1>8. AllLoaded(pages, ns2, gone)
  BY <1>1, <1>2, <1>5, <1>6 DEF AllLoaded
<1>9. t2 = t
  <2>1. Live(pages, ns2, gone) = Live(pages, ns, gone) /\ Live(pages, ns, gone) = DOMAIN pages \ gone
    BY <1>2, <1>8 DEF Live, AllLoaded
  <2>2. ASSUME NEW v \in DOMAIN pages \ gone
        PROVE  (IF Unwritten(ns2, v) THEN OfNode(ns2[v]) ELSE OfPage(pages[v]))
               = (IF Unwritten(ns, v) THEN OfNode(ns[v]) ELSE OfPage(pages[v]))
    <3>1. CASE v \in DOMAIN ns
      <4>1. Unwritten(ns2, v) /\ Unwritten(ns, v)
        BY <1>1, <1>2, <1>5, <3>1 DEF Unwritten, AllLoaded
      <4> QED
        BY <1>5, <3>1, <4>1 DEF OfNode
    <3>2. CASE v \in C
      <4>1. Unwritten(ns2, v) /\ ~Unwritten(ns, v)
        BY <1>1, <1>6, <3>2 DEF Unwritten
      <4> QED
        BY <1>6, <3>2, <4>1 DEF OfNode, OfPage
    <3>3. CASE v \notin DOMAIN ns2
      BY <1>1, <3>3 DEF Unwritten
    <3> QED
      BY <1>1, <3>1, <3>2, <3>3
  <2> QED
    BY <2>1, <2>2 DEF TreeOf
<1>10. DOMAIN t = DOMAIN pages \ gone /\ \A v \in DOMAIN ns2 : v \in DOMAIN t /\ t[v] = OfNode(ns2[v])
  <2>1. DOMAIN t2 = DOMAIN pages \ gone /\ \A v \in DOMAIN ns2 : v \in DOMAIN t2 /\ t2[v] = OfNode(ns2[v])
    <3>1. Overlays(t2, pages, ns2, gone)
      BY <1>8, LoadedTree
    <3> HIDE DEF t2
    <3> QED
      BY <3>1 DEF Overlays
  <2> QED
    BY <1>9, <2>1
<1>11. \A v \in DOMAIN ns2 : t[v].leaf = ns2[v].leaf /\ t[v].items = ToSet(ns2[v].inodes)
  <2> HIDE DEF t, t2
  <2> QED
    BY <1>7, <1>10, TypedRecords
<1>12. Shape(t2, r, h, d)
  BY <1>9 DEF Loaded
<1>13. \A v \in DOMAIN pages \ gone : v # r /\ t2[v].items = {} => v \in DOMAIN ns2 /\ ns2[v].unbalanced
  <2>1. \A v \in DOMAIN pages \ gone : v # r /\ t[v].items = {} => v \in DOMAIN ns /\ ns[v].unbalanced
    BY DEF Loaded
  <2> HIDE DEF t, t2
  <2> QED
    BY <1>1, <1>5, <1>9, <2>1
<1>14. ns # <<>> => Links(ns, r)
  BY DEF Loaded
<1>15. Links(ns2, r)
  <2>1. r \in DOMAIN ns => ns # <<>>
    OBVIOUS
  <2>2. ns2[r].parent = 0
    <3>1. CASE r \in DOMAIN ns
      BY <1>5, <1>14, <2>1, <3>1 DEF Links
    <3>2. CASE r \in C
      BY <1>6, <3>2 DEF Parents
    <3> QED
      BY <1>1, <3>1, <3>2
  <2>3. ASSUME NEW n \in DOMAIN ns2, NEW c \in ns2[n].children PROVE c \in DOMAIN ns2 /\ ns2[c].parent = n
    <3>1. CASE c \in C /\ par[c] = n
      BY <1>1, <1>6, <3>1
    <3>2. CASE ~(c \in C /\ par[c] = n)
      <4>1. n \in DOMAIN ns /\ c \in ns[n].children
        BY <1>1, <1>5, <1>6, <2>3, <3>2
      <4>2. ns # <<>>
        BY <4>1
      <4>3. c \in DOMAIN ns /\ ns[c].parent = n
        BY <1>14, <4>1, <4>2 DEF Links
      <4> QED
        BY <1>1, <1>5, <4>3
    <3> QED
      BY <3>1, <3>2
  <2>4. ASSUME NEW n \in DOMAIN ns2 \ {r}
        PROVE  /\ ns2[n].parent \in DOMAIN ns2 /\ n \in ns2[ns2[n].parent].children
               /\ ~ns2[ns2[n].parent].leaf
               /\ \E e \in ToSet(ns2[ns2[n].parent].inodes) : e.val = n
    <3>1. CASE n \in DOMAIN ns
      <4> DEFINE p == ns[n].parent
      <4>1. ns # <<>> /\ ~ns[n].spilled
        BY <1>2, <3>1 DEF AllLoaded
      <4>2. /\ p \in DOMAIN ns /\ n \in ns[p].children /\ ~ns[p].leaf
            /\ \E e \in ToSet(ns[p].inodes) : e.val = n
        BY <1>14, <2>4, <3>1, <4>1 DEF Links
      <4>3. ns2[n].parent = p
        BY <1>5, <3>1
      <4> HIDE DEF p
      <4> QED
        BY <1>1, <1>5, <4>2, <4>3
    <3>2. CASE n \in C
      <4>1. /\ par[n] \in DOMAIN ns2 /\ ~t[par[n]].leaf /\ \E e \in t[par[n]].items : e.val = n
        BY <2>4, <3>2 DEF Parents
      <4>2. ns2[n].parent = par[n] /\ n \in ns2[par[n]].children
        BY <1>1, <1>5, <1>6, <3>2, <4>1
      <4> HIDE DEF t
      <4> QED
        BY <1>11, <4>1, <4>2
    <3> QED
      BY <1>1, <3>1, <3>2
  <2>5. \A n \in DOMAIN ns2 : ~ns2[n].spilled
    BY <1>8 DEF AllLoaded
  <2> QED
    BY <2>2, <2>3, <2>4, <2>5 DEF Links
<1>16. Loaded(pages, ns2, gone, r, h, d)
  BY <1>8, <1>12, <1>13, <1>15 DEF Loaded, AllLoaded
<1> QED
  BY <1>5, <1>6, <1>7, <1>9, <1>16

\* What PageNode finds for a page is the tree's node.
LEMMA PageNodeOf ==
  ASSUME Typed(page, node), AllLoaded(page, node, {}), NEW v \in DOMAIN page
  PROVE  /\ Row(PageNode(v).inodes) /\ PageNode(v).leaf \in BOOLEAN
         /\ TreeOf(page, node, {})[v].leaf = PageNode(v).leaf
         /\ TreeOf(page, node, {})[v].items = ToSet(PageNode(v).inodes)
<1> DEFINE t == TreeOf(page, node, {})
<1>1. t[v] = IF v \in DOMAIN node THEN OfNode(node[v]) ELSE OfPage(page[v])
  <2>1. v \in Live(page, node, {})
    BY DEF Live
  <2> QED
    BY <2>1 DEF TreeOf, AllLoaded, Unwritten
<1> HIDE DEF t
<1>2. CASE v \in DOMAIN node
  <2>1. PageNode(v) = node[v] /\ t[v] = OfNode(node[v])
    BY <1>1, <1>2 DEF PageNode
  <2> QED
    BY <1>2, <2>1, TypedRecords DEF t
<1>3. CASE v \notin DOMAIN node
  <2>1. PageNode(v) = page[v] /\ t[v] = OfPage(page[v])
    BY <1>1, <1>3 DEF PageNode
  <2> QED
    BY <1>3, <2>1, TypedRecords DEF t
<1> QED
  BY <1>2, <1>3

\* The step from a branch to the child where a key belongs.
LEMMA StepDown ==
  ASSUME Typed(page, node), NEW h, NEW d, Loaded(page, node, {}, root, h, d),
         Full(TreeOf(page, node, {}), 0), NEW k \in Key, NEW v \in DOMAIN page
  PROVE  LET t == TreeOf(page, node, {}) IN
         /\ t[v].leaf => ToChild(k)[v] = v
         /\ ~t[v].leaf => /\ ToChild(k)[v] \in DOMAIN page \ {root}
                          /\ h[ToChild(k)[v]] + 1 = h[v] /\ h[v] \in Nat /\ ToChild(k)[v] # v
                          /\ \E e \in t[v].items : /\ e.val = ToChild(k)[v]
                                                   /\ Leads(t[v].items, e, k)
<1> DEFINE t == TreeOf(page, node, {})
           s == PageNode(v).inodes
           c == ChildFor(s, k)
<1>1. AllLoaded(page, node, {})
  BY DEF Loaded, AllLoaded
<1>2. Row(s) /\ t[v].leaf = PageNode(v).leaf /\ t[v].items = ToSet(s) /\ PageNode(v).leaf \in BOOLEAN
  BY <1>1, PageNodeOf
<1>3. DOMAIN t = DOMAIN page
  <2>1. DOMAIN t = DOMAIN page \ {}
    <3>1. Overlays(t, page, node, {})
      BY <1>1, LoadedTree
    <3> HIDE DEF t
    <3> QED
      BY <3>1 DEF Overlays
  <2> QED
    BY <2>1
<1>4. ToChild(k)[v] = IF PageNode(v).leaf THEN v ELSE s[c].val
  BY DEF ToChild
<1>5. Shape(t, root, h, d)
  BY DEF Loaded
<1>6. ASSUME ~t[v].leaf
      PROVE  /\ ToChild(k)[v] \in DOMAIN page \ {root}
             /\ h[ToChild(k)[v]] + 1 = h[v] /\ h[v] \in Nat /\ ToChild(k)[v] # v
             /\ \E e \in t[v].items : e.val = ToChild(k)[v] /\ Leads(t[v].items, e, k)
  <2>1. v \in Branches(t)
    BY <1>3, <1>6 DEF Branches
  <2>2. s # <<>>
    <3>1. t[v].items # {}
      BY <2>1 DEF Full
    <3> HIDE DEF t, s
    <3> QED
      BY <1>2, <3>1, RowSize
  <2>3. k \in Nat
    BY DEF Key
  <2> HIDE DEF t, s
  <2>4. /\ c \in 1 .. Len(s)
        /\ \A f \in ToSet(s) : s[c].key < f.key => k < f.key
        /\ \A f \in ToSet(s) : f.key < s[c].key => s[c].key <= k
    BY <1>2, <2>2, <2>3, RowChild
  <2>5. s[c] \in t[v].items
    BY <1>2, <2>4, RowType
  <2>6. Leads(t[v].items, s[c], k)
    BY <1>2, <2>4 DEF Leads
  <2>7. ToChild(k)[v] = s[c].val
    BY <1>2, <1>4, <1>6
  <2>8. /\ s[c].val \in DOMAIN t \ {root} /\ h[s[c].val] + 1 = h[v] /\ s[c].val # v /\ h[v] \in Nat
    BY <1>3, <1>5, <2>1, <2>5, ChildFacts
  <2> QED
    BY <1>3, <2>5, <2>6, <2>7, <2>8
<1>7. t[v].leaf => ToChild(k)[v] = v
  BY <1>2, <1>4
<1> QED
  BY <1>6, <1>7

LEMMA PathWay ==
  ASSUME Typed(page, node), NEW h, NEW d, Loaded(page, node, {}, root, h, d),
         Full(TreeOf(page, node, {}), 0), NEW k \in Key
  PROVE  LET t == TreeOf(page, node, {}) w == Path(k) IN
         /\ w \in Seq(DOMAIN page) /\ Len(w) \in Nat \ {0} /\ w[1] = root
         /\ Way(t, root, ToSet(w), k) /\ Last(w) \in ToSet(w) /\ t[Last(w)].leaf
         /\ \A i \in 1 .. Len(w) - 1 : /\ ~t[w[i]].leaf /\ w[i+1] # root
                                       /\ \E e \in t[w[i]].items : e.val = w[i+1]
<1> DEFINE t == TreeOf(page, node, {})
           w == Path(k)
           next == ToChild(k)
           rank == [v \in DOMAIN page |-> h[v]]
<1>1. DOMAIN t = DOMAIN page /\ root \in DOMAIN page /\ Shape(t, root, h, d)
  <2>1. AllLoaded(page, node, {})
    BY DEF Loaded, AllLoaded
  <2>2. DOMAIN t = DOMAIN page \ {}
    <3>1. Overlays(t, page, node, {})
      BY <2>1, LoadedTree
    <3> HIDE DEF t
    <3> QED
      BY <3>1 DEF Overlays
  <2> QED
    BY <2>2 DEF Loaded, Shape
<1>2. \A v \in DOMAIN page : h[v] \in Nat
  BY <1>1, ChildFacts
<1>3. DOMAIN next = DOMAIN page /\ next = [v \in DOMAIN page |-> next[v]]
  BY DEF ToChild
<1>4. \A v \in DOMAIN page :
        /\ t[v].leaf => next[v] = v
        /\ ~t[v].leaf => /\ next[v] \in DOMAIN page \ {root}
                         /\ h[next[v]] + 1 = h[v] /\ h[v] \in Nat /\ next[v] # v
                         /\ \E e \in t[v].items : e.val = next[v] /\ Leads(t[v].items, e, k)
  BY StepDown
<1>5. w = Follow(next, root)
  BY DEF Path
<1> HIDE DEF t, w, next
<1>6. Ranked(next, rank)
  <2>1. \A v \in DOMAIN page : next[v] \in DOMAIN page /\ (next[v] # v => h[next[v]] < h[v])
    BY <1>2, <1>4
  <2> QED
    BY <1>2, <1>3, <2>1 DEF Ranked
<1>7. IsWay(next, root, w)
  BY <1>1, <1>3, <1>5, <1>6, FollowIsWay
<1>8. /\ w \in Seq(DOMAIN page) /\ Len(w) \in Nat \ {0} /\ w[1] = root
      /\ next[w[Len(w)]] = w[Len(w)]
      /\ \A i \in 1 .. Len(w) - 1 : w[i+1] = next[w[i]] /\ next[w[i]] # w[i]
  BY <1>3, <1>7 DEF IsWay
<1>9. /\ DOMAIN w = 1 .. Len(w) /\ \A i \in 1 .. Len(w) : w[i] \in DOMAIN page
      /\ ToSet(w) = {w[i] : i \in 1 .. Len(w)}
  BY <1>8, LenProperties DEF ToSet
<1>10. \A i \in 1 .. Len(w) - 1 : i \in 1 .. Len(w) /\ i + 1 \in 1 .. Len(w)
  BY <1>8
<1>11. \A i \in 1 .. Len(w) - 1 : /\ ~t[w[i]].leaf /\ w[i+1] # root
                                  /\ \E e \in t[w[i]].items : e.val = w[i+1] /\ Leads(t[w[i]].items, e, k)
  <2>1. SUFFICES ASSUME NEW i \in 1 .. Len(w) - 1
                 PROVE  /\ ~t[w[i]].leaf /\ w[i+1] # root
                        /\ \E e \in t[w[i]].items : e.val = w[i+1] /\ Leads(t[w[i]].items, e, k)
    OBVIOUS
  <2>2. w[i] \in DOMAIN page /\ w[i+1] = next[w[i]] /\ next[w[i]] # w[i]
    BY <1>8, <1>9, <1>10
  <2>3. ~t[w[i]].leaf
    BY <1>4, <2>2
  <2> QED
    BY <1>4, <2>2, <2>3
<1>12. Last(w) \in ToSet(w) /\ t[Last(w)].leaf
  <2>1. Len(w) \in 1 .. Len(w) /\ Last(w) = w[Len(w)]
    BY <1>8 DEF Last
  <2> QED
    BY <1>4, <1>8, <1>9, <2>1
<1>13. Way(t, root, ToSet(w), k)
  <2>1. ToSet(w) \subseteq DOMAIN t
    BY <1>1, <1>9
  <2>2. root \in ToSet(w)
    <3>1. 1 \in 1 .. Len(w)
      BY <1>8
    <3> QED
      BY <1>8, <1>9, <3>1
  <2>3. ASSUME NEW v \in ToSet(w) \ {root}
        PROVE  \E q \in ToSet(w) \cap Branches(t) : \E e \in t[q].items :
                 e.val = v /\ Leads(t[q].items, e, k)
    <3>1. PICK i \in 1 .. Len(w) : v = w[i]
      BY <1>9
    <3>2. i # 1
      BY <1>8, <2>3, <3>1
    <3> DEFINE j == i - 1
    <3>3. j \in 1 .. Len(w) - 1 /\ j + 1 = i
      BY <1>8, <3>2
    <3> HIDE DEF j
    <3>4. w[j] \in ToSet(w) /\ w[j] \in Branches(t)
      BY <1>1, <1>9, <1>10, <1>11, <3>3 DEF Branches
    <3>5. \E e \in t[w[j]].items : e.val = v /\ Leads(t[w[j]].items, e, k)
      BY <1>11, <3>1, <3>3
    <3> QED
      BY <3>4, <3>5
  <2> QED
    BY <2>1, <2>2, <2>3 DEF Way
<1> QED
  BY <1>8, <1>11, <1>12, <1>13 DEF t, w

LEMMA NodesOnReads ==
  ASSUME Typed(page, node), NEW h, NEW d, Loaded(page, node, {}, root, h, d),
         Full(TreeOf(page, node, {}), 0), NEW k \in Key
  PROVE  /\ root \in DOMAIN NodesOn(Path(k)) /\ Last(Path(k)) \in DOMAIN NodesOn(Path(k))
         /\ \E C, par : /\ Reading(page, node, NodesOn(Path(k)), C, par)
                        /\ IsFiniteSet(C) /\ C \subseteq DOMAIN page
                        /\ Parents(TreeOf(page, node, {}), root, DOMAIN NodesOn(Path(k)), C, par)
<1> DEFINE t == TreeOf(page, node, {})
           w == Path(k)
           ns2 == NodesOn(w)
           C == ToSet(w) \ DOMAIN node
           above(id) == {w[i-1] : i \in {i \in 2 .. Len(w) : w[i] = id}}
           below(id) == {w[i] : i \in {i \in 2 .. Len(w) : w[i-1] = id}}
           up(id) == IF above(id) = {} THEN 0 ELSE CHOOSE p \in above(id) : TRUE
           par == [c \in C |-> up(c)]
<1>1. /\ w \in Seq(DOMAIN page) /\ Len(w) \in Nat \ {0} /\ w[1] = root
      /\ Last(w) \in ToSet(w) /\ t[Last(w)].leaf
      /\ \A i \in 1 .. Len(w) - 1 : /\ ~t[w[i]].leaf /\ w[i+1] # root
                                    /\ \E e \in t[w[i]].items : e.val = w[i+1]
  BY PathWay
<1>2. DOMAIN t = DOMAIN page /\ Shape(t, root, h, d)
  <2>1. AllLoaded(page, node, {})
    BY DEF Loaded, AllLoaded
  <2>2. DOMAIN t = DOMAIN page \ {}
    <3>1. Overlays(t, page, node, {})
      BY <2>1, LoadedTree
    <3> HIDE DEF t
    <3> QED
      BY <3>1 DEF Overlays
  <2> QED
    BY <2>2 DEF Loaded
<1>3. /\ DOMAIN ns2 = DOMAIN node \cup ToSet(w)
      /\ \A id \in DOMAIN node \cup ToSet(w) :
           ns2[id] = [IF id \in DOMAIN node THEN node[id] ELSE Read(id, up(id))
                        EXCEPT !.children = @ \cup (below(id) \ DOMAIN node)]
  BY DEF NodesOn
<1> HIDE DEF t, w, ns2
<1>4. /\ DOMAIN w = 1 .. Len(w) /\ \A i \in 1 .. Len(w) : w[i] \in DOMAIN page
      /\ ToSet(w) = {w[i] : i \in 1 .. Len(w)}
  BY <1>1, LenProperties DEF ToSet
<1>5. ASSUME NEW i \in 2 .. Len(w)
      PROVE  /\ i - 1 \in 1 .. Len(w) /\ i \in 1 .. Len(w) /\ w[i-1] \in Branches(t) /\ w[i] # root
             /\ w[i-1] \in ToSet(w) /\ \E e \in t[w[i-1]].items : e.val = w[i]
  <2> DEFINE j == i - 1
  <2>1. j \in 1 .. Len(w) - 1 /\ j \in 1 .. Len(w) /\ i \in 1 .. Len(w) /\ j + 1 = i
    BY <1>1
  <2>2. j = i - 1
    OBVIOUS
  <2> HIDE DEF j
  <2>3. ~t[w[j]].leaf /\ w[j+1] # root /\ \E e \in t[w[j]].items : e.val = w[j+1]
    BY <1>1, <2>1
  <2>4. w[j] \in Branches(t) /\ w[j] \in ToSet(w)
    BY <1>2, <1>4, <2>1, <2>3 DEF Branches
  <2> QED
    BY <2>1, <2>2, <2>3, <2>4
<1>6. root \in ToSet(w) /\ root \in DOMAIN page /\ ToSet(w) \subseteq DOMAIN page
  <2>1. 1 \in 1 .. Len(w)
    BY <1>1
  <2> QED
    BY <1>1, <1>4, <2>1
<1>7. \A id : above(id) \subseteq ToSet(w) /\ 0 \notin above(id)
  BY <1>5, <1>6, TypedRecords
<1>8. ASSUME NEW c \in C, c = root PROVE par[c] = 0
  <2>1. above(c) = {}
    BY <1>5, <1>8
  <2> QED
    BY <2>1
<1>9. ASSUME NEW c \in C, c # root
      PROVE  /\ above(c) # {} /\ par[c] \in above(c)
             /\ par[c] \in ToSet(w) /\ par[c] \in Branches(t) /\ \E e \in t[par[c]].items : e.val = c
  <2>1. PICK i \in 1 .. Len(w) : c = w[i]
    BY <1>4
  <2>2. i \in 2 .. Len(w)
    BY <1>1, <1>9, <2>1
  <2>3. w[i-1] \in above(c)
    BY <2>1, <2>2
  <2>4. par[c] \in above(c)
    BY <2>3
  <2>5. PICK m \in 2 .. Len(w) : w[m] = c /\ par[c] = w[m-1]
    BY <2>4
  <2> QED
    BY <1>5, <2>3, <2>4, <2>5
<1>10. \A i \in 2 .. Len(w) : w[i] \in C => par[w[i]] = w[i-1]
  <2>1. SUFFICES ASSUME NEW i \in 2 .. Len(w), w[i] \in C PROVE par[w[i]] = w[i-1]
    OBVIOUS
  <2> DEFINE q == par[w[i]]
             p == w[i-1]
  <2>2. p \in Branches(t) /\ \E e \in t[p].items : e.val = w[i]
    BY <1>5
  <2>3. q \in Branches(t) /\ \E e \in t[q].items : e.val = w[i]
    BY <1>5, <1>9, <2>1
  <2> HIDE DEF p, q
  <2>4. p = q
    BY <1>2, <2>2, <2>3, TheParent
  <2> QED
    BY <2>4 DEF p, q
<1>11. ASSUME NEW id \in DOMAIN ns2 PROVE below(id) \ DOMAIN node = {c \in C : par[c] = id}
  <2>1. ASSUME NEW c \in below(id) \ DOMAIN node PROVE c \in C /\ par[c] = id
    <3>1. PICK i \in 2 .. Len(w) : c = w[i] /\ w[i-1] = id
      BY <2>1
    <3>2. c \in ToSet(w)
      BY <1>4, <1>5, <3>1
    <3>3. c \in C
      BY <2>1, <3>2
    <3> QED
      BY <1>10, <3>1, <3>3
  <2>2. ASSUME NEW c \in C, par[c] = id PROVE c \in below(id) \ DOMAIN node
    <3>1. id # 0
      <4>1. CASE id \in DOMAIN node
        <5>1. id \in DOMAIN page
          BY <4>1 DEF Loaded
        <5> QED
          BY <5>1, TypedRecords
      <4>2. CASE id \in ToSet(w)
        BY <1>6, <4>2, TypedRecords
      <4> QED
        BY <1>3, <4>1, <4>2
    <3>2. id \in above(c)
      BY <1>8, <1>9, <2>2, <3>1
    <3>3. PICK i \in 2 .. Len(w) : w[i] = c /\ id = w[i-1]
      BY <3>2
    <3> QED
      BY <2>2, <3>3
  <2> QED
    BY <2>1, <2>2
<1> HIDE DEF C, par, below
<1>12. Reading(page, node, ns2, C, par)
  <2>1. DOMAIN ns2 = DOMAIN node \cup C /\ C \cap DOMAIN node = {}
    BY <1>3 DEF C
  <2>2. ASSUME NEW n \in DOMAIN node
        PROVE  ns2[n] = [node[n] EXCEPT !.children = @ \cup {c \in C : par[c] = n}]
    <3>1. below(n) \ DOMAIN node = {c \in C : par[c] = n}
      BY <1>11, <2>1
    <3>2. ns2[n] = [node[n] EXCEPT !.children = @ \cup (below(n) \ DOMAIN node)]
      BY <1>3
    <3> QED
      BY <3>1, <3>2
  <2>3. ASSUME NEW c \in C
        PROVE  ns2[c] = [pgid |-> c, leaf |-> page[c].leaf, inodes |-> page[c].inodes,
                         key |-> FirstKey(page[c].inodes), parent |-> par[c],
                         children |-> {x \in C : par[x] = c}, unbalanced |-> FALSE, spilled |-> FALSE]
    <3> DEFINE new == {x \in C : par[x] = c}
    <3>1. below(c) \ DOMAIN node = new
      BY <1>11, <2>1
    <3>2. c \in ToSet(w) /\ c \notin DOMAIN node /\ par[c] = up(c)
      BY DEF C, par
    <3> HIDE DEF new, up
    <3>3. ns2[c] = [Read(c, par[c]) EXCEPT !.children = @ \cup new]
      BY <1>3, <3>1, <3>2
    <3>4. ns2[c] = [pgid |-> c, leaf |-> page[c].leaf, inodes |-> page[c].inodes,
                    key |-> FirstKey(page[c].inodes), parent |-> par[c],
                    children |-> new, unbalanced |-> FALSE, spilled |-> FALSE]
      BY <3>3, Zenon DEF Read, Inodes
    <3> QED
      BY <3>4 DEF new
  <2> QED
    BY <2>1, <2>2, <2>3 DEF Reading
<1>13. IsFiniteSet(C)
  <2>1. IsFiniteSet(DOMAIN page)
    BY TreeAssumption, FS_Subset DEF Typed
  <2> QED
    BY <1>6, <2>1, FS_Subset DEF C
<1>14. Parents(t, root, DOMAIN ns2, C, par)
  <2>1. ASSUME NEW c \in C
        PROVE  IF c = root THEN par[c] = 0
               ELSE par[c] \in DOMAIN ns2 /\ ~t[par[c]].leaf /\ \E e \in t[par[c]].items : e.val = c
    <3>1. c = root => par[c] = 0
      BY <1>8 DEF C, par
    <3>2. c # root => /\ par[c] \in ToSet(w) /\ par[c] \in Branches(t)
                      /\ \E e \in t[par[c]].items : e.val = c
      BY <1>9 DEF C, par
    <3> QED
      BY <1>3, <3>1, <3>2 DEF Branches
  <2> QED
    BY <2>1 DEF Parents
<1>15. C \subseteq DOMAIN page /\ root \in DOMAIN ns2 /\ Last(w) \in DOMAIN ns2
  BY <1>1, <1>3, <1>6 DEF C
<1> QED
  BY <1>12, <1>13, <1>14, <1>15 DEF t, w, ns2

\* Only the elements of the leaf z change.
NewLeaf(ns, ns2, z, s, b) == ns2 = [ns EXCEPT ![z].inodes = s, ![z].unbalanced = @ \/ b]

LEMMA LeafChange ==
  ASSUME NEW pages, NEW ns, NEW gone, NEW r, NEW h, NEW d, Typed(pages, ns),
         Loaded(pages, ns, gone, r, h, d), NEW z \in DOMAIN ns, ns[z].leaf,
         NEW s, Row(s), NEW b \in BOOLEAN, s = <<>> => b,
         NEW ns2, NewLeaf(ns, ns2, z, s, b)
  PROVE  /\ Typed(pages, ns2)
         /\ OnlyItems(TreeOf(pages, ns, gone), TreeOf(pages, ns2, gone), z)
         /\ TreeOf(pages, ns2, gone)[z].items = ToSet(s)
         /\ \A d2 : Shape(TreeOf(pages, ns2, gone), r, h, d2) => Loaded(pages, ns2, gone, r, h, d2)
<1> DEFINE t == TreeOf(pages, ns, gone)
           t2 == TreeOf(pages, ns2, gone)
<1>1. DOMAIN ns2 = DOMAIN ns /\ \A n \in DOMAIN ns : n # z => ns2[n] = ns[n]
  BY DEF NewLeaf
<1>2. ns[z] \in NodeType /\ s \in {x \in Seq(Elem) : Row(x)}
  BY DEF Typed, Row
<1> DEFINE x == ns[z].unbalanced \/ b
<1>3. ns2[z] = [ns[z] EXCEPT !.inodes = s, !.unbalanced = x] /\ x \in BOOLEAN
  BY DEF NewLeaf
<1>4. ns[z].unbalanced \/ b => x
  OBVIOUS
<1> HIDE DEF x
<1>5. /\ ns2[z] \in NodeType /\ ns2[z].inodes = s /\ ns2[z].leaf = ns[z].leaf /\ ns2[z].key = ns[z].key
      /\ ns2[z].parent = ns[z].parent /\ ns2[z].children = ns[z].children
      /\ ns2[z].pgid = ns[z].pgid /\ ns2[z].spilled = ns[z].spilled /\ ns2[z].unbalanced = x
  BY <1>2, <1>3, Zenon DEF NodeType
<1>6. Typed(pages, ns2)
  BY <1>1, <1>5 DEF Typed
<1>7. \A n \in DOMAIN ns : /\ ns2[n].leaf = ns[n].leaf /\ ns2[n].key = ns[n].key
                           /\ ns2[n].parent = ns[n].parent /\ ns2[n].children = ns[n].children
                           /\ ns2[n].pgid = ns[n].pgid /\ ns2[n].spilled = ns[n].spilled
                           /\ n # z => ns2[n].inodes = ns[n].inodes /\ ns2[n].unbalanced = ns[n].unbalanced
  BY <1>1, <1>5
<1>8. AllLoaded(pages, ns, gone)
  BY DEF Loaded, AllLoaded
<1>9. AllLoaded(pages, ns2, gone)
  BY <1>1, <1>7, <1>8 DEF AllLoaded
<1>10. Overlays(t, pages, ns, gone)
  BY <1>8, LoadedTree
<1>11. Overlays(t2, pages, ns2, gone)
  BY <1>9, LoadedTree
<1> HIDE DEF t, t2
<1>12. z \in DOMAIN pages \ gone
  BY <1>8 DEF AllLoaded
<1>13. t2[z].leaf = t[z].leaf /\ t2[z].key = t[z].key /\ t2[z].items = ToSet(s)
  <2>1. t2[z] = OfNode(ns2[z]) /\ t[z] = OfNode(ns[z])
    BY <1>1, <1>10, <1>11, <1>12 DEF Overlays
  <2> QED
    BY <1>5, <2>1 DEF OfNode
<1>14. \A v \in DOMAIN t : v # z => t2[v] = t[v]
  BY <1>1, <1>10, <1>11 DEF Overlays
<1>15. OnlyItems(t, t2, z)
  BY <1>10, <1>11, <1>13, <1>14 DEF OnlyItems, Overlays
<1>16. ASSUME NEW d2, Shape(t2, r, h, d2) PROVE Loaded(pages, ns2, gone, r, h, d2)
  <2>1. ASSUME NEW v \in DOMAIN pages \ gone, v # r, t2[v].items = {}
        PROVE  v \in DOMAIN ns2 /\ ns2[v].unbalanced
    <3>1. CASE v = z
      <4>1. s = <<>>
        BY <1>13, <2>1, <3>1, RowSize
      <4> QED
        BY <1>1, <1>4, <1>5, <3>1, <4>1
    <3>2. CASE v # z
      <4>1. t[v].items = {}
        BY <1>10, <1>14, <2>1, <3>2 DEF Overlays
      <4>2. v \in DOMAIN ns /\ ns[v].unbalanced
        BY <2>1, <4>1 DEF Loaded, t
      <4> QED
        BY <1>1, <1>7, <3>2, <4>2
    <3> QED
      BY <3>1, <3>2
  <2>2. ns2 # <<>> => Links(ns2, r)
    <3>1. Links(ns, r)
      BY DEF Loaded
    <3>2. /\ r \in DOMAIN ns2 /\ ns2[r].parent = 0
          /\ \A n \in DOMAIN ns2 : \A c \in ns2[n].children : c \in DOMAIN ns2 /\ ns2[c].parent = n
      BY <1>1, <1>7, <3>1 DEF Links
    <3>3. ASSUME NEW n \in DOMAIN ns2 \ {r}
          PROVE  /\ ns2[n].parent \in DOMAIN ns2
                 /\ ~ns2[n].spilled =>
                      /\ ~ns2[ns2[n].parent].spilled /\ n \in ns2[ns2[n].parent].children
                      /\ ~ns2[ns2[n].parent].leaf
                      /\ \E e \in ToSet(ns2[ns2[n].parent].inodes) : e.val = n
      <4> DEFINE p == ns[n].parent
      <4>1. /\ p \in DOMAIN ns /\ ~ns[n].spilled
            /\ ~ns[p].spilled /\ n \in ns[p].children /\ ~ns[p].leaf
            /\ \E e \in ToSet(ns[p].inodes) : e.val = n
        BY <1>1, <1>8, <3>1, <3>3 DEF Links, AllLoaded
      <4>2. ns2[n].parent = p
        BY <1>1, <1>7, <3>3
      <4> HIDE DEF p
      <4>3. p # z
        BY <4>1
      <4> QED
        BY <1>1, <1>7, <4>1, <4>2, <4>3
    <3> QED
      BY <3>2, <3>3 DEF Links
  <2> QED
    BY <1>9, <1>16, <2>1, <2>2 DEF Loaded, AllLoaded, t2
<1> QED
  BY <1>6, <1>13, <1>15, <1>16 DEF t, t2

\* The number of elements is not changed by a change of a leaf.
LEMMA LeafFull ==
  ASSUME NEW t, NEW u, NEW z, t[z].leaf, OnlyItems(t, u, z), NEW c, Full(t, c)
  PROVE  Full(u, c)
<1>1. ASSUME NEW v \in Branches(u) PROVE v \in Branches(t) /\ u[v].items = t[v].items
  <2>1. v \in DOMAIN t /\ u[v].leaf = t[v].leaf /\ ~u[v].leaf
    BY DEF OnlyItems, Branches
  <2>2. v # z
    BY <2>1
  <2> QED
    BY <2>1, <2>2 DEF OnlyItems, Branches
<1> QED
  BY <1>1 DEF Full

\* Put and Delete: the element of key k is taken from what the leaves hold, and E is added.
LEMMA ChangeStep ==
  ASSUME TreeInv, NEW k \in Keys, NEW s, NEW b \in BOOLEAN, Change(k, s, b),
         Row(s), s = <<>> => b,
         NEW E, ToSet(s) = {f \in ToSet(LeafOf(k)) : f.key # k} \cup E,
         \/ E = {} /\ \E f \in ToSet(LeafOf(k)) : f.key = k
         \/ \E e \in Elem : e.key = k /\ E = {e}
  PROVE  TreeInv' /\ Held' = {f \in Held : f.key # k} \cup E
<1> DEFINE t == TreeOf(page, node, {})
           w == Path(k)
           z == Last(w)
           ns2 == NodesOn(w)
           u == TreeOf(page, node', {})
<1>1. /\ phase = "open" /\ phase' = "open" /\ cur' = cur /\ page' = page /\ root' = root
      /\ freed' = freed /\ written' = written
      /\ NewLeaf(ns2, node', z, s, b)
  BY DEF Change, NewLeaf
<1>2. /\ Typed(page, node) /\ freed = {} /\ written = {} /\ cur = 0
      /\ Full(t, 0) /\ SoundPages(page, DOMAIN page \ written, root)
  BY <1>1 DEF TreeInv, Progress
<1>3. PICK h, d : Loaded(page, node, {}, root, h, d) /\ Guided(t, d)
  BY <1>1, <1>2 DEF TreeInv
<1>4. k \in Key
  BY TreeAssumption DEF Key
<1>5. /\ Way(t, root, ToSet(w), k) /\ z \in ToSet(w) /\ t[z].leaf
      /\ w \in Seq(DOMAIN page) /\ ToSet(w) \subseteq DOMAIN page
  <2>1. /\ Way(t, root, ToSet(w), k) /\ z \in ToSet(w) /\ t[z].leaf
        /\ w \in Seq(DOMAIN page)
    BY <1>2, <1>3, <1>4, PathWay
  <2> HIDE DEF t, w, z
  <2>2. ToSet(w) \subseteq DOMAIN page
    BY <2>1 DEF ToSet
  <2> QED
    BY <2>1, <2>2
<1>6. /\ root \in DOMAIN ns2 /\ z \in DOMAIN ns2
      /\ \E C, par : /\ Reading(page, node, ns2, C, par) /\ IsFiniteSet(C) /\ C \subseteq DOMAIN page
                     /\ Parents(t, root, DOMAIN ns2, C, par)
  BY <1>2, <1>3, <1>4, NodesOnReads
<1>7. AllLoaded(page, node, {})
  BY <1>3 DEF Loaded, AllLoaded
<1>8. Row(LeafOf(k)) /\ t[z].items = ToSet(LeafOf(k))
  <2>1. z \in DOMAIN page
    BY <1>5
  <2> QED
    BY <1>2, <1>7, <2>1, PageNodeOf DEF LeafOf
<1> HIDE DEF t, w, z, ns2, u
<1>9. Typed(page, ns2) /\ Loaded(page, ns2, {}, root, h, d) /\ TreeOf(page, ns2, {}) = t
  <2>1. PICK C, par : /\ Reading(page, node, ns2, C, par) /\ IsFiniteSet(C) /\ C \subseteq DOMAIN page \ {}
                      /\ Parents(t, root, DOMAIN ns2, C, par)
    BY <1>6
  <2> QED
    BY <1>2, <1>3, <1>6, <2>1, ReadingLoads DEF t
<1>10. ns2[z].leaf
  <2>1. AllLoaded(page, ns2, {})
    BY <1>9 DEF Loaded, AllLoaded
  <2>2. Overlays(t, page, ns2, {})
    BY <1>9, <2>1, LoadedTree
  <2>3. t[z] = OfNode(ns2[z])
    BY <1>6, <2>2 DEF Overlays
  <2> QED
    BY <1>5, <2>3 DEF OfNode
<1>11. /\ Typed(page, node') /\ OnlyItems(t, u, z) /\ u[z].items = ToSet(s)
       /\ \A d2 : Shape(u, root, h, d2) => Loaded(page, node', {}, root, h, d2)
  BY <1>1, <1>6, <1>9, <1>10, LeafChange DEF u
<1>12. Shape(t, root, h, d)
  BY <1>3 DEF Loaded, t
<1>13. z \in DOMAIN t
  BY <1>5 DEF Way
<1>14. /\ \E d2 : Shape(u, root, h, d2) /\ Guided(u, d2)
       /\ LeafItems(u) = {f \in LeafItems(t) : f.key # k} \cup E
  <2>1. CASE E = {} /\ \E f \in ToSet(LeafOf(k)) : f.key = k
    <3>1. u[z].items = {f \in t[z].items : f.key # k} /\ \E f \in t[z].items : f.key = k
      BY <1>8, <1>11, <2>1
    <3>2. Shape(u, root, h, d)
      BY <1>5, <1>11, <1>12, <1>13, <3>1, LeafShape
    <3>3. Guided(t, d) => Guided(u, d)
      BY <1>5, <1>11, <1>12, <1>13, <3>1, LeafShape
    <3>4. TakeItem(t, u, z, k)
      BY <3>1 DEF TakeItem
    <3>5. LeafItems(u) = {f \in LeafItems(t) : f.key # k}
      BY <1>5, <1>11, <1>12, <1>13, <3>4, DeleteLeaves
    <3> QED
      BY <1>3, <2>1, <3>2, <3>3, <3>5 DEF t
  <2>2. ASSUME NEW e \in Elem, e.key = k, E = {e}
        PROVE  /\ \E d2 : Shape(u, root, h, d2) /\ Guided(u, d2)
               /\ LeafItems(u) = {f \in LeafItems(t) : f.key # k} \cup E
    <3> DEFINE P == ToSet(w)
               d2 == [v \in DOMAIN t |-> IF v \in P THEN d[v] \cup {k} ELSE d[v]]
    <3>1. PutItem(t, u, z, k, e)
      BY <1>8, <1>11, <2>2 DEF PutItem
    <3>2. Widened(t, d, d2, P, k)
      BY DEF Widened
    <3>3. Way(t, root, P, k) /\ z \in P
      BY <1>5
    <3> HIDE DEF d2, P
    <3>4. Guided(t, d)
      BY <1>3
    <3>5. OnlyItems(t, u, z) /\ t[z].leaf
      BY <1>5, <1>11
    <3>6. Shape(u, root, h, d2) /\ Guided(u, d2)
      BY <1>4, <1>12, <2>2, <3>1, <3>2, <3>3, <3>4, <3>5, PutShape
    <3>7. LeafItems(u) = {f \in LeafItems(t) : f.key # k} \cup {e}
      BY <1>13, <2>2, <3>1, <3>5, <3>6, PutLeaves
    <3> QED
      BY <2>2, <3>6, <3>7
  <2> QED
    BY <2>1, <2>2
<1>15. Full(u, 0)
  BY <1>2, <1>5, <1>11, LeafFull
<1>16. \E h2, d2 : Loaded(page, node', {}, root, h2, d2) /\ Guided(u, d2)
  BY <1>11, <1>14
<1>17. Progress'
  BY <1>1, <1>2 DEF Progress
<1>18. Held = LeafItems(t) /\ Held' = LeafItems(u)
  BY <1>1, <1>2 DEF Held, t, u
<1>19. TreeInv'
  BY <1>1, <1>2, <1>11, <1>15, <1>16, <1>17 DEF TreeInv, u
<1> QED
  BY <1>14, <1>18, <1>19

LEMMA PutStep ==
  ASSUME TreeInv, NEW e \in Puts, Put(e.key, e.val)
  PROVE  TreeInv' /\ Held' = {f \in Held : f.key # e.key} \cup {Element(e.key, e.val)}
<1> DEFINE k == e.key
           x == Element(k, e.val)
           s == PutElement(LeafOf(k), k, x)
<1>1. k \in Keys /\ k \in Nat /\ x \in Elem /\ x.key = k
  <2>1. k \in Keys /\ e.val \in Values
    BY TreeAssumption DEF TreeAssumption
  <2> HIDE DEF k
  <2>2. x = [key |-> k, val |-> e.val]
    BY DEF Element
  <2> DEFINE v == e.val
  <2> HIDE DEF v
  <2>3. v \in Values => v \in Int
    BY TreeAssumption DEF TreeAssumption
  <2>4. k \in Nat /\ k # 0 /\ e.val \in Int
    BY <2>1, <2>3, TreeAssumption DEF v
  <2> HIDE DEF x
  <2> QED
    BY <2>1, <2>2, <2>4 DEF Elem, Key
<1>2. Row(LeafOf(k))
  <2>1. PICK h, d : Loaded(page, node, {}, root, h, d)
    BY DEF TreeInv, Put, Change, Progress
  <2>2. Typed(page, node) /\ Full(TreeOf(page, node, {}), 0) /\ k \in Key /\ AllLoaded(page, node, {})
    BY <1>1, <2>1, TreeAssumption DEF TreeInv, Put, Change, Progress, Key, Loaded, AllLoaded
  <2>3. Path(k) \in Seq(DOMAIN page) /\ Last(Path(k)) \in ToSet(Path(k))
    BY <2>1, <2>2, PathWay
  <2>4. Last(Path(k)) \in DOMAIN page
    BY <2>3 DEF ToSet
  <2> QED
    BY <2>2, <2>4, PageNodeOf DEF LeafOf
<1> HIDE DEF x, s, k
<1>3. Row(s) /\ ToSet(s) = {f \in ToSet(LeafOf(k)) : f.key # k} \cup {x}
  BY <1>1, <1>2, RowPut DEF s
<1>4. s # <<>>
  BY <1>3, RowSize
<1>5. Change(k, s, FALSE)
  BY DEF Put, k, s, x
<1>6. TreeInv' /\ Held' = {f \in Held : f.key # k} \cup {x}
  <2> DEFINE E == {x}
  <2>1. \E g \in Elem : g.key = k /\ E = {g}
    BY <1>1
  <2>2. ToSet(s) = {f \in ToSet(LeafOf(k)) : f.key # k} \cup E
    BY <1>3
  <2> HIDE DEF E
  <2>3. TreeInv' /\ Held' = {f \in Held : f.key # k} \cup E
    BY <1>1, <1>3, <1>4, <1>5, <2>1, <2>2, ChangeStep
  <2> QED
    BY <2>3 DEF E
<1> QED
  BY <1>6 DEF k, x

LEMMA DeleteStep ==
  ASSUME TreeInv, NEW k \in Keys, Delete(k)
  PROVE  TreeInv' /\ Held' = {f \in Held : f.key # k} /\ \E f \in ToSet(LeafOf(k)) : f.key = k
<1> DEFINE s == DelElement(LeafOf(k), k)
<1>1. k \in Key /\ k \in Nat
  BY TreeAssumption DEF Key
<1>2. Row(LeafOf(k))
  <2>1. PICK h, d : Loaded(page, node, {}, root, h, d)
    BY DEF TreeInv, Delete, Change, Progress
  <2>2. Typed(page, node) /\ Full(TreeOf(page, node, {}), 0) /\ AllLoaded(page, node, {})
    BY <2>1 DEF TreeInv, Delete, Change, Progress, Loaded, AllLoaded
  <2>3. Path(k) \in Seq(DOMAIN page) /\ Last(Path(k)) \in ToSet(Path(k))
    BY <1>1, <2>1, <2>2, PathWay
  <2>4. Last(Path(k)) \in DOMAIN page
    BY <2>3 DEF ToSet
  <2> QED
    BY <2>2, <2>4, PageNodeOf DEF LeafOf
<1>3. Row(s) /\ ToSet(s) = {f \in ToSet(LeafOf(k)) : f.key # k}
  BY <1>1, <1>2, RowDel
<1>4. Change(k, s, TRUE)
  BY DEF Delete
<1>5. \E f \in ToSet(LeafOf(k)) : f.key = k
  BY <1>1, <1>2, HasKey DEF Delete
<1> HIDE DEF s
<1>6. TreeInv' /\ Held' = {f \in Held : f.key # k}
  <2> DEFINE E == {}
  <2>1. ToSet(s) = {f \in ToSet(LeafOf(k)) : f.key # k} \cup E
    BY <1>3
  <2>2. E = {}
    OBVIOUS
  <2> HIDE DEF E
  <2>3. TreeInv' /\ Held' = {f \in Held : f.key # k} \cup E
    BY <1>3, <1>4, <1>5, <2>1, <2>2, ChangeStep
  <2> QED
    BY <2>3 DEF E
<1> QED
  BY <1>5, <1>6

-----------------------------------------------------------------------------
(***************************************************************************)
(* Rebalancing.                                                            *)
(***************************************************************************)
\* Nodes whose place in the tree is the same.
SamePlace(ns, ns2) ==
  /\ DOMAIN ns2 = DOMAIN ns
  /\ \A n \in DOMAIN ns : /\ ns2[n].leaf = ns[n].leaf /\ ns2[n].inodes = ns[n].inodes
                          /\ ns2[n].key = ns[n].key /\ ns2[n].parent = ns[n].parent
                          /\ ns2[n].children = ns[n].children
                          /\ ns2[n].pgid = ns[n].pgid /\ ns2[n].spilled = ns[n].spilled

LEMMA SamePlaceLinks ==
  ASSUME NEW ns, NEW ns2, SamePlace(ns, ns2), NEW top, Links(ns, top)
  PROVE  Links(ns2, top)
<1>1. top \in DOMAIN ns2 /\ ns2[top].parent = 0
  BY DEF SamePlace, Links
<1>2. \A n \in DOMAIN ns2 : \A c \in ns2[n].children : c \in DOMAIN ns2 /\ ns2[c].parent = n
  BY DEF SamePlace, Links
<1>3. ASSUME NEW n \in DOMAIN ns2 \ {top}
      PROVE  /\ ns2[n].parent \in DOMAIN ns2
             /\ ~ns2[n].spilled =>
                  /\ ~ns2[ns2[n].parent].spilled /\ n \in ns2[ns2[n].parent].children
                  /\ ~ns2[ns2[n].parent].leaf
                  /\ \E e \in ToSet(ns2[ns2[n].parent].inodes) : e.val = n
  <2> DEFINE p == ns[n].parent
  <2>1. n \in DOMAIN ns \ {top} /\ ns2[n].parent = p /\ ns2[n].spilled = ns[n].spilled
    BY DEF SamePlace
  <2>2. /\ p \in DOMAIN ns
        /\ ~ns[n].spilled => /\ ~ns[p].spilled /\ n \in ns[p].children /\ ~ns[p].leaf
                             /\ \E e \in ToSet(ns[p].inodes) : e.val = n
    BY <2>1 DEF Links
  <2> HIDE DEF p
  <2>3. /\ p \in DOMAIN ns2 /\ ns2[p].spilled = ns[p].spilled /\ ns2[p].leaf = ns[p].leaf
        /\ ns2[p].children = ns[p].children /\ ns2[p].inodes = ns[p].inodes
    BY <2>2 DEF SamePlace
  <2> QED
    BY <2>1, <2>2, <2>3
<1> QED
  BY <1>1, <1>2, <1>3 DEF Links

LEMMA SamePlaceTree ==
  ASSUME NEW pages, NEW gone, NEW ns, NEW ns2, SamePlace(ns, ns2)
  PROVE  TreeOf(pages, ns2, gone) = TreeOf(pages, ns, gone)
<1>1. Live(pages, ns2, gone) = Live(pages, ns, gone)
  BY DEF Live, SamePlace
<1>2. ASSUME NEW v
      PROVE  (IF Unwritten(ns2, v) THEN OfNode(ns2[v]) ELSE OfPage(pages[v]))
             = (IF Unwritten(ns, v) THEN OfNode(ns[v]) ELSE OfPage(pages[v]))
  <2>1. Unwritten(ns2, v) <=> Unwritten(ns, v)
    BY DEF Unwritten, SamePlace
  <2>2. v \in DOMAIN ns => OfNode(ns2[v]) = OfNode(ns[v])
    BY DEF OfNode, SamePlace
  <2> QED
    BY <2>1, <2>2 DEF Unwritten
<1> QED
  BY <1>1, <1>2 DEF TreeOf

\* A node that is not empty needs no rebalancing.
Settled(ns, ns2, n) == ns2 = [ns EXCEPT ![n].unbalanced = FALSE]

LEMMA SettledNodes ==
  ASSUME NEW pages, NEW ns, Typed(pages, ns), NEW n \in DOMAIN ns, NEW ns2, Settled(ns, ns2, n)
  PROVE  /\ Typed(pages, ns2) /\ SamePlace(ns, ns2) /\ ns2[n].unbalanced = FALSE
         /\ \A m \in DOMAIN ns : m # n => ns2[m].unbalanced = ns[m].unbalanced
<1>1. /\ DOMAIN ns2 = DOMAIN ns /\ ns2[n] = [ns[n] EXCEPT !.unbalanced = FALSE]
      /\ \A m \in DOMAIN ns : m # n => ns2[m] = ns[m]
  BY DEF Settled
<1>2. \A m \in DOMAIN ns : ns[m] \in NodeType
  BY DEF Typed
<1>3. /\ ns2[n] \in NodeType /\ ns2[n].unbalanced = FALSE
      /\ ns2[n].leaf = ns[n].leaf /\ ns2[n].inodes = ns[n].inodes
      /\ ns2[n].key = ns[n].key /\ ns2[n].parent = ns[n].parent
      /\ ns2[n].children = ns[n].children
      /\ ns2[n].pgid = ns[n].pgid /\ ns2[n].spilled = ns[n].spilled
  BY <1>1, <1>2 DEF NodeType
<1>4. SamePlace(ns, ns2)
  BY <1>1, <1>3 DEF SamePlace
<1>5. Typed(pages, ns2)
  BY <1>1, <1>2, <1>3 DEF Typed
<1> QED
  BY <1>1, <1>3, <1>4, <1>5

LEMMA SettledLoads ==
  ASSUME NEW pages, NEW ns, NEW gone, NEW r, NEW h, NEW d, Typed(pages, ns),
         Loaded(pages, ns, gone, r, h, d), NEW n \in DOMAIN ns, n = r \/ ns[n].inodes # <<>>,
         NEW ns2, Settled(ns, ns2, n)
  PROVE  /\ Typed(pages, ns2) /\ Loaded(pages, ns2, gone, r, h, d) /\ SamePlace(ns, ns2)
         /\ TreeOf(pages, ns2, gone) = TreeOf(pages, ns, gone)
<1> DEFINE t == TreeOf(pages, ns, gone)
<1>1. /\ Typed(pages, ns2) /\ SamePlace(ns, ns2)
      /\ \A m \in DOMAIN ns : m # n => ns2[m].unbalanced = ns[m].unbalanced
  <2>1. Typed(pages, ns2) /\ SamePlace(ns, ns2)
    BY SettledNodes
  <2>2. \A m \in DOMAIN ns : m # n => ns2[m] = ns[m]
    BY DEF Settled
  <2> QED
    BY <2>1, <2>2
<1>2. TreeOf(pages, ns2, gone) = t
  BY <1>1, SamePlaceTree
<1>3. AllLoaded(pages, ns, gone)
  BY DEF Loaded, AllLoaded
<1>4. AllLoaded(pages, ns2, gone)
  BY <1>1, <1>3 DEF AllLoaded, SamePlace
<1>5. Overlays(t, pages, ns, gone)
  BY <1>3, LoadedTree
<1> HIDE DEF t
<1>6. ASSUME NEW v \in DOMAIN pages \ gone, v # r, t[v].items = {}
      PROVE  v \in DOMAIN ns2 /\ ns2[v].unbalanced
  <2>1. v \in DOMAIN ns /\ ns[v].unbalanced
    BY <1>6 DEF Loaded, t
  <2>2. v # n
    <3>1. SUFFICES ASSUME v = n PROVE FALSE
      OBVIOUS
    <3>2. Row(ns[n].inodes) /\ OfNode(ns[n]).items = ToSet(ns[n].inodes)
      BY TypedRecords
    <3>3. t[n] = OfNode(ns[n])
      BY <1>5 DEF Overlays
    <3> QED
      BY <1>6, <3>1, <3>2, <3>3, RowSize
  <2> QED
    BY <1>1, <2>1, <2>2 DEF SamePlace
<1>7. Links(ns2, r)
  <2>1. Links(ns, r)
    BY DEF Loaded
  <2> QED
    BY <1>1, <2>1, SamePlaceLinks
<1>8. Shape(t, r, h, d)
  BY DEF Loaded, t
<1> QED
  BY <1>1, <1>2, <1>4, <1>6, <1>7, <1>8 DEF Loaded, AllLoaded, t

\* Bucket.node, called for a child of a node.
LEMMA NodeLoads ==
  ASSUME Typed(page, node), NEW gone, NEW r, NEW h, NEW d,
         NEW ns, Typed(page, ns), Loaded(page, ns, gone, r, h, d),
         NEW p \in DOMAIN ns, ~ns[p].leaf, NEW id, \E e \in ToSet(ns[p].inodes) : e.val = id
  PROVE  /\ Typed(page, Node(ns, id, p)) /\ Loaded(page, Node(ns, id, p), gone, r, h, d)
         /\ TreeOf(page, Node(ns, id, p), gone) = TreeOf(page, ns, gone)
         /\ \A x : x \in DOMAIN Node(ns, id, p) <=> x \in DOMAIN ns \/ x = id
         /\ \A n \in DOMAIN ns : /\ Node(ns, id, p)[n].inodes = ns[n].inodes
                                 /\ Node(ns, id, p)[n].key = ns[n].key
                                 /\ Node(ns, id, p)[n].parent = ns[n].parent
                                 /\ Node(ns, id, p)[n].leaf = ns[n].leaf
                                 /\ Node(ns, id, p)[n].unbalanced = ns[n].unbalanced
<1> DEFINE t == TreeOf(page, ns, gone)
           ns2 == Node(ns, id, p)
           C == {id}
           par == [c \in C |-> p]
<1>1. CASE id \in DOMAIN ns
  BY <1>1 DEF Node
<1>2. CASE id \notin DOMAIN ns
  <2>1. AllLoaded(page, ns, gone)
    BY DEF Loaded, AllLoaded
  <2>2. Overlays(t, page, ns, gone)
    BY <2>1, LoadedTree
  <2>3. Shape(t, r, h, d)
    BY DEF Loaded
  <2> HIDE DEF t
  <2>4. p \in DOMAIN t /\ t[p] = OfNode(ns[p])
    BY <2>2 DEF Overlays
  <2>5. ~t[p].leaf /\ \E e \in t[p].items : e.val = id
    BY <2>4 DEF OfNode
  <2>6. id \in DOMAIN t \ {r} /\ id # p
    BY <2>3, <2>4, <2>5, ChildFacts DEF Branches
  <2>7. id \in DOMAIN page /\ id \notin gone
    BY <2>2, <2>6 DEF Overlays
  <2>8. \A n \in DOMAIN ns : ns[n] \in NodeType
    BY DEF Typed
  <2>9. ns2 = [n \in DOMAIN ns \cup {id} |->
                 IF n = id THEN Read(id, p)
                 ELSE IF n = p THEN [ns[n] EXCEPT !.children = @ \cup {id}] ELSE ns[n]]
    BY <1>2 DEF Node
  <2> HIDE DEF ns2, par
  <2>10. DOMAIN ns2 = DOMAIN ns \cup C /\ C \cap DOMAIN ns = {}
    BY <1>2, <2>9
  <2>11. \A n \in DOMAIN ns : ns2[n] = [ns[n] EXCEPT !.children = @ \cup {c \in C : par[c] = n}]
    <3>1. SUFFICES ASSUME NEW n \in DOMAIN ns
                   PROVE  ns2[n] = [ns[n] EXCEPT !.children = @ \cup {c \in C : par[c] = n}]
      OBVIOUS
    <3> DEFINE new == {c \in C : par[c] = n}
    <3>2. n # id
      BY <1>2
    <3>3. CASE n = p
      <4>1. new = {id}
        BY <3>3 DEF par
      <4>2. ns2[n] = [ns[n] EXCEPT !.children = @ \cup {id}]
        BY <2>9, <3>2, <3>3
      <4> HIDE DEF new
      <4>3. ns2[n] = [ns[n] EXCEPT !.children = @ \cup new]
        BY <4>1, <4>2
      <4> QED
        BY <4>3 DEF new
    <3>4. CASE n # p
      <4>1. new = {}
        BY <3>4 DEF par
      <4>2. ns2[n] = ns[n]
        BY <2>9, <3>2, <3>4
      <4> HIDE DEF new
      <4>3. ns[n] = [ns[n] EXCEPT !.children = @ \cup new]
        BY <2>8, <4>1 DEF NodeType
      <4> QED
        BY <4>2, <4>3 DEF new
    <3> QED
      BY <3>3, <3>4
  <2>12. \A c \in C :
           ns2[c] = [pgid |-> c, leaf |-> page[c].leaf, inodes |-> page[c].inodes,
                     key |-> FirstKey(page[c].inodes), parent |-> par[c],
                     children |-> {x \in C : par[x] = c}, unbalanced |-> FALSE, spilled |-> FALSE]
    <3>1. SUFFICES ns2[id] = [pgid |-> id, leaf |-> page[id].leaf, inodes |-> page[id].inodes,
                     key |-> FirstKey(page[id].inodes), parent |-> p,
                     children |-> {}, unbalanced |-> FALSE, spilled |-> FALSE]
      <4>1. par[id] = p /\ {x \in C : par[x] = id} = {}
        BY <2>6 DEF par
      <4> QED
        BY <4>1
    <3> QED
      BY <2>9 DEF Read, Inodes
  <2>13. Reading(page, ns, ns2, C, par)
    BY <2>10, <2>11, <2>12 DEF Reading
  <2>14. Parents(t, r, DOMAIN ns2, C, par)
    <3>1. par[id] = p /\ p \in DOMAIN ns2
      BY <2>10 DEF par
    <3> QED
      BY <2>5, <2>6, <3>1 DEF Parents
  <2>15. IsFiniteSet(C) /\ C \subseteq DOMAIN page \ gone
    BY <2>7, FS_Singleton
  <2>16. r \in DOMAIN ns2
    <3>1. ns # <<>>
      OBVIOUS
    <3>2. r \in DOMAIN ns
      BY <3>1 DEF Loaded, Links
    <3> QED
      BY <2>10, <3>2
  <2> HIDE DEF C
  <2>17. /\ Typed(page, ns2) /\ Loaded(page, ns2, gone, r, h, d)
         /\ TreeOf(page, ns2, gone) = t
         /\ \A n \in DOMAIN ns : /\ ns2[n].inodes = ns[n].inodes /\ ns2[n].key = ns[n].key
                                 /\ ns2[n].parent = ns[n].parent /\ ns2[n].leaf = ns[n].leaf
                                 /\ ns2[n].unbalanced = ns[n].unbalanced
    BY <2>13, <2>14, <2>15, <2>16, ReadingLoads DEF t
  <2>18. \A x : x \in DOMAIN ns2 <=> x \in DOMAIN ns \/ x = id
    BY <2>10 DEF C
  <2> QED
    BY <2>17, <2>18 DEF t, ns2
<1> QED
  BY <1>1, <1>2

\* What Drop does to the nodes.
Dropped(ns, ns2, n, p) ==
  /\ DOMAIN ns2 = DOMAIN ns \ {n}
  /\ \A m \in DOMAIN ns : m # n /\ m # p => ns2[m] = ns[m]
  /\ ns2[p].unbalanced
  /\ ns2[p].inodes = DelElement(ns[p].inodes, ns[n].key)
  /\ ns2[p].children = ns[p].children \ {n}
  /\ ns2[p].leaf = ns[p].leaf /\ ns2[p].key = ns[p].key
  /\ ns2[p].parent = ns[p].parent /\ ns2[p].pgid = ns[p].pgid /\ ns2[p].spilled = ns[p].spilled

LEMMA DropNodes ==
  ASSUME NEW pages, NEW ns, Typed(pages, ns), NEW n \in DOMAIN ns,
         NEW p \in DOMAIN ns, ns[n].parent = p, p # n, Has(ns[p].inodes, ns[n].key)
  PROVE  Typed(pages, Drop(ns, n)) /\ Dropped(ns, Drop(ns, n), n, p)
<1> DEFINE ns2 == Drop(ns, n)
           s == DelElement(ns[p].inodes, ns[n].key)
           cs == ns[p].children \ {n}
           x == ns[p].unbalanced \/ Has(ns[p].inodes, ns[n].key)
           up == [ns EXCEPT ![p].inodes = s, ![p].unbalanced = x, ![p].children = cs]
<1>1. \A m \in DOMAIN ns : ns[m] \in NodeType
  BY DEF Typed
<1>2. Row(s)
  BY TypedRecords, RowDel
<1>3. ns2 = [m \in DOMAIN ns \ {n} |-> up[m]]
  BY DEF Drop, Forget
<1>4. x = TRUE
  OBVIOUS
<1>5. s \in {q \in Seq(Elem) : Row(q)} /\ cs \subseteq Int
  <2>1. s \in Seq(Elem)
    BY <1>2 DEF Row
  <2>2. cs \subseteq Int
    BY TypedRecords
  <2> QED
    BY <1>2, <2>1, <2>2
<1>6. up[p] = [ns[p] EXCEPT !.inodes = s, !.unbalanced = x, !.children = cs]
  <2> HIDE DEF s, x, cs
  <2> QED
    OBVIOUS
<1>7. \A m \in DOMAIN ns : m # p => up[m] = ns[m]
  <2> HIDE DEF s, x, cs
  <2> QED
    OBVIOUS
<1> HIDE DEF s, x, cs, up, ns2
<1>8. /\ up[p] \in NodeType /\ up[p].unbalanced = x
      /\ up[p].inodes = s /\ up[p].children = cs /\ up[p].leaf = ns[p].leaf /\ up[p].key = ns[p].key
      /\ up[p].parent = ns[p].parent /\ up[p].pgid = ns[p].pgid /\ up[p].spilled = ns[p].spilled
  <2>1. x \in BOOLEAN
    BY <1>4
  <2> QED
    BY <1>1, <1>5, <1>6, <2>1, Zenon DEF NodeType
<1>9. DOMAIN ns2 = DOMAIN ns \ {n} /\ ns2[p] = up[p] /\ \A m \in DOMAIN ns : m # n /\ m # p => ns2[m] = ns[m]
  BY <1>3, <1>7
<1>10. Typed(pages, ns2)
  <2>1. IsFiniteSet(DOMAIN ns2)
    BY <1>9, FS_Subset DEF Typed
  <2>2. \A m \in DOMAIN ns2 : ns2[m] \in NodeType
    BY <1>1, <1>8, <1>9
  <2> QED
    BY <1>9, <2>1, <2>2 DEF Typed
<1>11. ns2[p].unbalanced
  BY <1>4, <1>8, <1>9
<1>12. Dropped(ns, ns2, n, p)
  BY <1>8, <1>9, <1>11 DEF Dropped, s, cs
<1> QED
  BY <1>10, <1>12 DEF ns2

\* An empty leaf is dropped.
LEMMA DropLoads ==
  ASSUME NEW pages, NEW ns, NEW gone, NEW r, NEW h, NEW d, Typed(pages, ns),
         Loaded(pages, ns, gone, r, h, d), NEW n \in DOMAIN ns, n # r, ns[n].inodes = <<>>, ns[n].leaf,
         NEW p, p = ns[n].parent, \E e \in ToSet(ns[p].inodes) : e.val # n,
         NEW ns1, Settled(ns, ns1, n)
  PROVE  /\ Typed(pages, Drop(ns1, n)) /\ Loaded(pages, Drop(ns1, n), gone \cup {n}, r, h, d)
         /\ Without(TreeOf(pages, ns, gone), TreeOf(pages, Drop(ns1, n), gone \cup {n}), n, n)
         /\ p \in DOMAIN Drop(ns1, n) /\ Drop(ns1, n)[p].unbalanced
<1> DEFINE t == TreeOf(pages, ns, gone)
           ns2 == Drop(ns1, n)
           u == TreeOf(pages, ns2, gone \cup {n})
<1>1. Typed(pages, ns1) /\ SamePlace(ns, ns1)
  BY SettledNodes
<1>2. AllLoaded(pages, ns, gone) /\ Shape(t, r, h, d) /\ Links(ns, r)
  BY DEF Loaded, AllLoaded
<1>3. Overlays(t, pages, ns, gone)
  BY <1>2, LoadedTree
<1> HIDE DEF t, u, ns2
<1>4. /\ p \in DOMAIN ns /\ ~ns[n].spilled /\ n \in ns[p].children /\ ~ns[p].leaf
      /\ \E e \in ToSet(ns[p].inodes) : e.val = n
  BY <1>2 DEF Links, AllLoaded
<1>5. p # n
  BY <1>4
<1>6. \A v \in DOMAIN ns : /\ v \in DOMAIN t /\ t[v].leaf = ns[v].leaf /\ t[v].key = ns[v].key
                           /\ t[v].items = ToSet(ns[v].inodes)
  BY <1>3, TypedRecords DEF Overlays
<1>7. PICK a \in t[p].items : a.val = n
  BY <1>4, <1>6
<1>8. p \in Branches(t) /\ p \in DOMAIN t /\ n \in DOMAIN t
  BY <1>4, <1>6 DEF Branches
<1>9. a.key = ns[n].key /\ a.key \in Nat
  BY <1>2, <1>6, <1>7, <1>8, ChildFacts
<1>10. \A e \in t[p].items : e.key # a.key <=> e.val # n
  <2>1. SUFFICES ASSUME NEW e \in t[p].items PROVE e.key # a.key <=> e.val # n
    OBVIOUS
  <2>2. e.key = a.key => e = a
    BY <1>2, <1>7, <1>8 DEF Shape, Kinds
  <2>3. e.val = n => e = a
    BY <1>2, <1>7, <1>8, TheParent
  <2> QED
    BY <1>7, <2>2, <2>3
<1>11. Row(ns[p].inodes) /\ Has(ns[p].inodes, ns[n].key)
  <2>1. Row(ns[p].inodes)
    BY <1>4, TypedRecords
  <2>2. \E e \in ToSet(ns[p].inodes) : e.key = ns[n].key
    BY <1>4, <1>6, <1>7, <1>9
  <2> QED
    BY <1>9, <2>1, <2>2, HasKey
<1>12. /\ n \in DOMAIN ns1 /\ p \in DOMAIN ns1 /\ ns1[n].parent = p /\ Has(ns1[p].inodes, ns1[n].key)
       /\ ns1[n].key = ns[n].key /\ ns1[p].inodes = ns[p].inodes /\ ns1[p].children = ns[p].children
       /\ DOMAIN ns1 = DOMAIN ns
  BY <1>1, <1>4, <1>11 DEF SamePlace
<1>13. /\ Typed(pages, ns2) /\ DOMAIN ns2 = DOMAIN ns1 \ {n}
       /\ \A m \in DOMAIN ns1 : m # n /\ m # p => ns2[m] = ns1[m]
       /\ ns2[p].unbalanced /\ ns2[p].inodes = DelElement(ns1[p].inodes, ns1[n].key)
       /\ ns2[p].children = ns1[p].children \ {n}
       /\ ns2[p].leaf = ns1[p].leaf /\ ns2[p].key = ns1[p].key
       /\ ns2[p].parent = ns1[p].parent /\ ns2[p].pgid = ns1[p].pgid /\ ns2[p].spilled = ns1[p].spilled
  <2>1. Typed(pages, ns2) /\ Dropped(ns1, ns2, n, p)
    BY <1>1, <1>5, <1>12, DropNodes DEF ns2
  <2> QED
    BY <2>1 DEF Dropped
<1>14. \A m \in DOMAIN ns2 : /\ m \in DOMAIN ns /\ m # n
                             /\ ns2[m].leaf = ns[m].leaf /\ ns2[m].key = ns[m].key
                             /\ ns2[m].parent = ns[m].parent /\ ns2[m].pgid = ns[m].pgid
                             /\ ns2[m].spilled = ns[m].spilled
                             /\ m # p => /\ ns2[m].inodes = ns[m].inodes /\ ns2[m].children = ns[m].children
                                         /\ ns2[m].unbalanced = ns[m].unbalanced
  <2>1. SUFFICES ASSUME NEW m \in DOMAIN ns2
                 PROVE  /\ m \in DOMAIN ns /\ m # n
                        /\ ns2[m].leaf = ns[m].leaf /\ ns2[m].key = ns[m].key
                        /\ ns2[m].parent = ns[m].parent /\ ns2[m].pgid = ns[m].pgid
                        /\ ns2[m].spilled = ns[m].spilled
                        /\ m # p => /\ ns2[m].inodes = ns[m].inodes /\ ns2[m].children = ns[m].children
                                    /\ ns2[m].unbalanced = ns[m].unbalanced
    OBVIOUS
  <2>2. m \in DOMAIN ns /\ m # n
    BY <1>12, <1>13
  <2>3. CASE m = p
    BY <1>1, <1>13, <2>2, <2>3 DEF SamePlace
  <2>4. CASE m # p
    <3>1. ns2[m] = ns1[m]
      BY <1>12, <1>13, <2>2, <2>4
    <3>2. ns1[m] = ns[m]
      BY <2>2 DEF Settled
    <3> QED
      BY <2>2, <2>4, <3>1, <3>2
  <2> QED
    BY <2>3, <2>4
<1>15. ToSet(ns2[p].inodes) = {e \in t[p].items : e.val # n}
  <2>1. ns2[p].inodes = DelElement(ns[p].inodes, a.key)
    BY <1>9, <1>12, <1>13
  <2>2. ToSet(ns2[p].inodes) = {e \in t[p].items : e.key # a.key}
    BY <1>4, <1>6, <1>9, <1>11, <2>1, RowDel
  <2> QED
    BY <1>10, <2>2
<1>16. AllLoaded(pages, ns2, gone \cup {n})
  BY <1>2, <1>14 DEF AllLoaded
<1>17. Overlays(u, pages, ns2, gone \cup {n})
  BY <1>16, LoadedTree DEF u
<1>18. DOMAIN u = DOMAIN t \ {n} /\ p \in DOMAIN ns2
  BY <1>3, <1>4, <1>5, <1>12, <1>13, <1>17 DEF Overlays
<1>19. \A v \in DOMAIN ns2 : /\ u[v].leaf = ns2[v].leaf /\ u[v].key = ns2[v].key
                             /\ u[v].items = ToSet(ns2[v].inodes)
  BY <1>13, <1>17, TypedRecords DEF Overlays
<1>20. \A v \in DOMAIN u : v \notin DOMAIN ns2 => v \notin DOMAIN ns /\ u[v] = t[v]
  BY <1>3, <1>12, <1>13, <1>17, <1>18 DEF Overlays
<1>21. ASSUME NEW v \in DOMAIN u
       PROVE  /\ u[v].leaf = t[v].leaf /\ u[v].key = t[v].key
              /\ v # p => u[v].items = t[v].items
  <2>1. CASE v \in DOMAIN ns2
    BY <1>6, <1>14, <1>19, <2>1
  <2>2. CASE v \notin DOMAIN ns2
    BY <1>20, <2>2
  <2> QED
    BY <2>1, <2>2
<1>22. u[p].items = {e \in t[p].items : e.val # n}
  BY <1>15, <1>18, <1>19
<1>23. Without(t, u, n, n)
  <2>1. ASSUME NEW v \in DOMAIN u
        PROVE  u[v].items = IF t[v].leaf THEN t[v].items ELSE {e \in t[v].items : e.val # n}
    <3>1. CASE v = p
      BY <1>8, <1>22, <3>1 DEF Branches
    <3>2. CASE v # p /\ t[v].leaf
      BY <1>21, <3>2
    <3>3. CASE v # p /\ ~t[v].leaf
      <4>1. v \in Branches(t)
        BY <1>18, <3>3 DEF Branches
      <4>2. \A e \in t[v].items : e.val # n
        BY <1>2, <1>7, <1>8, <3>3, <4>1, TheParent
      <4> QED
        BY <1>21, <3>3, <4>2
    <3> QED
      BY <3>1, <3>2, <3>3
  <2> QED
    BY <1>18, <1>21, <2>1 DEF Without
<1>24. Shape(u, r, h, d)
  BY <1>2, <1>6, <1>8, <1>23, DropShape
<1>25. ASSUME NEW v \in DOMAIN pages \ (gone \cup {n}), v # r, u[v].items = {}
       PROVE  v \in DOMAIN ns2 /\ ns2[v].unbalanced
  <2>1. v \in DOMAIN u
    BY <1>17 DEF Overlays
  <2>2. CASE v = p
    BY <1>13, <1>18, <2>2
  <2>3. CASE v # p
    <3>1. t[v].items = {}
      BY <1>21, <1>25, <2>1, <2>3
    <3>2. v \in DOMAIN ns /\ ns[v].unbalanced
      BY <1>25, <3>1 DEF Loaded, t
    <3> QED
      BY <1>12, <1>13, <1>14, <1>25, <2>3, <3>2
  <2> QED
    BY <2>2, <2>3
<1>26. Links(ns2, r)
  <2>1. r \in DOMAIN ns2 /\ ns2[r].parent = 0
    BY <1>2, <1>12, <1>13, <1>14 DEF Links
  <2>2. \A m \in DOMAIN ns2 : ns2[m].children \subseteq ns[m].children
    BY <1>12, <1>13, <1>14
  <2>3. n \notin ns2[p].children
    BY <1>13
  <2>4. \A m \in DOMAIN ns : \A c \in ns[m].children : c \in DOMAIN ns /\ ns[c].parent = m
    BY <1>2 DEF Links
  <2>5. ASSUME NEW m \in DOMAIN ns2, NEW c \in ns2[m].children PROVE c \in DOMAIN ns2 /\ ns2[c].parent = m
    <3>1. m \in DOMAIN ns /\ c \in ns[m].children
      BY <1>14, <2>2, <2>5
    <3>2. c \in DOMAIN ns /\ ns[c].parent = m
      BY <2>4, <3>1
    <3>3. c # n
      BY <2>3, <2>5, <3>2
    <3> QED
      BY <1>12, <1>13, <1>14, <3>2, <3>3
  <2>6. ASSUME NEW m \in DOMAIN ns2 \ {r}
        PROVE  /\ ns2[m].parent \in DOMAIN ns2
               /\ ~ns2[ns2[m].parent].spilled /\ m \in ns2[ns2[m].parent].children
               /\ ~ns2[ns2[m].parent].leaf
               /\ \E e \in ToSet(ns2[ns2[m].parent].inodes) : e.val = m
    <3> DEFINE q == ns[m].parent
    <3>1. m \in DOMAIN ns \ {r} /\ ns2[m].parent = q /\ m # n
      BY <1>14
    <3>2. /\ q \in DOMAIN ns /\ ~ns[q].spilled /\ m \in ns[q].children /\ ~ns[q].leaf
          /\ \E e \in ToSet(ns[q].inodes) : e.val = m
      BY <1>2, <3>1 DEF Links, AllLoaded
    <3> HIDE DEF q
    <3>3. q # n
      BY <3>2
    <3>4. q \in DOMAIN ns2
      BY <1>12, <1>13, <3>2, <3>3
    <3>5. ~ns2[q].spilled /\ ~ns2[q].leaf
      BY <1>14, <3>2, <3>4
    <3>6. m \in ns2[q].children
      BY <1>12, <1>13, <1>14, <3>1, <3>2, <3>4
    <3>7. \E e \in ToSet(ns2[q].inodes) : e.val = m
      <4>1. CASE q = p
        BY <1>4, <1>6, <1>15, <3>1, <3>2, <4>1
      <4>2. CASE q # p
        BY <1>14, <3>2, <3>4, <4>2
      <4> QED
        BY <4>1, <4>2
    <3> QED
      BY <3>1, <3>4, <3>5, <3>6, <3>7
  <2> QED
    BY <2>1, <2>5, <2>6 DEF Links
<1>27. Loaded(pages, ns2, gone \cup {n}, r, h, d)
  BY <1>16, <1>24, <1>25, <1>26 DEF Loaded, AllLoaded, u
<1> QED
  BY <1>13, <1>18, <1>23, <1>27 DEF ns2, t, u

\* What Adopt does to the nodes.
Moved(ns, c) == IF ns[c].leaf THEN {} ELSE {e.val : e \in ToSet(ns[c].inodes)} \cap DOMAIN ns

Adopted(ns, ns2, n, M) ==
  /\ DOMAIN ns2 = DOMAIN ns
  /\ \A m \in DOMAIN ns :
       /\ ns2[m].leaf = ns[m].leaf /\ ns2[m].key = ns[m].key /\ ns2[m].pgid = ns[m].pgid
       /\ ns2[m].spilled = ns[m].spilled /\ ns2[m].unbalanced = ns[m].unbalanced
       /\ ns2[m].inodes = ns[m].inodes
       /\ m \in M => ns2[m].parent = n /\ ns2[m].children = ns[m].children
       /\ m \notin M => ns2[m].parent = ns[m].parent
       /\ m \notin M /\ m # n => ns2[m].children = ns[m].children \ M
  /\ ns2[n].children = ns[n].children \cup M

LEMMA AdoptNodes ==
  ASSUME NEW pages, NEW ns, Typed(pages, ns), NEW n \in DOMAIN ns, NEW c \in DOMAIN ns, n \notin Moved(ns, c)
  PROVE  /\ Typed(pages, Adopt(ns, n, ns[c].inodes, ns[c].leaf))
         /\ Adopted(ns, Adopt(ns, n, ns[c].inodes, ns[c].leaf), n, Moved(ns, c))
<1> DEFINE up == Adopt(ns, n, ns[c].inodes, ns[c].leaf)
           M == Moved(ns, c)
<1>1. \A m \in DOMAIN ns : ns[m] \in NodeType /\ m \in Int
  BY DEF Typed
<1>2. up = [id \in DOMAIN ns |->
              IF id \in M THEN [ns[id] EXCEPT !.parent = n]
              ELSE IF id = n THEN [ns[id] EXCEPT !.children = @ \cup M]
              ELSE [ns[id] EXCEPT !.children = @ \ M]]
  BY DEF Adopt, Moved
<1>3. M \subseteq Int
  BY <1>1 DEF Moved
<1> HIDE DEF up, M
<1>4. ASSUME NEW m \in DOMAIN ns
      PROVE  /\ up[m] \in NodeType
             /\ up[m].leaf = ns[m].leaf /\ up[m].key = ns[m].key /\ up[m].pgid = ns[m].pgid
             /\ up[m].spilled = ns[m].spilled /\ up[m].unbalanced = ns[m].unbalanced
             /\ up[m].inodes = ns[m].inodes
  <2>1. CASE m \in M
    <3>1. up[m] = [ns[m] EXCEPT !.parent = n] /\ ns[m] \in NodeType /\ n \in Int
      BY <1>1, <1>2, <2>1
    <3> QED
      BY <3>1 DEF NodeType
  <2>2. CASE m \notin M
    <3> DEFINE cs == IF m = n THEN ns[m].children \cup M ELSE ns[m].children \ M
    <3>1. up[m] = [ns[m] EXCEPT !.children = cs] /\ ns[m] \in NodeType
      BY <1>1, <1>2, <2>2
    <3>2. cs \subseteq Int
      BY <1>1, <1>3 DEF NodeType
    <3> HIDE DEF cs
    <3> QED
      BY <3>1, <3>2 DEF NodeType
  <2> QED
    BY <2>1, <2>2
<1>5. ASSUME NEW m \in DOMAIN ns, m \in M PROVE up[m].parent = n /\ up[m].children = ns[m].children
  <2>1. up[m] = [ns[m] EXCEPT !.parent = n] /\ ns[m] \in NodeType
    BY <1>1, <1>2, <1>5
  <2> QED
    BY <2>1 DEF NodeType
<1>6. ASSUME NEW m \in DOMAIN ns, m \notin M
      PROVE  /\ up[m].parent = ns[m].parent
             /\ up[m].children = IF m = n THEN ns[m].children \cup M ELSE ns[m].children \ M
  <2> DEFINE cs == IF m = n THEN ns[m].children \cup M ELSE ns[m].children \ M
  <2>1. up[m] = [ns[m] EXCEPT !.children = cs] /\ ns[m] \in NodeType
    BY <1>1, <1>2, <1>6
  <2> HIDE DEF cs
  <2>2. up[m].parent = ns[m].parent /\ up[m].children = cs
    BY <2>1 DEF NodeType
  <2> QED
    BY <2>2 DEF cs
<1>7. ASSUME NEW m \in DOMAIN ns, m \notin M, m # n PROVE up[m].children = ns[m].children \ M
  BY <1>6, <1>7
<1>8. up[n].children = ns[n].children \cup M
  <2>1. n \notin M
    BY DEF M
  <2> QED
    BY <1>6, <2>1
<1>9. DOMAIN up = DOMAIN ns
  BY <1>2
<1>10. Typed(pages, up)
  BY <1>4, <1>9 DEF Typed
<1>11. Adopted(ns, up, n, M)
  BY <1>4, <1>5, <1>6, <1>7, <1>8, <1>9 DEF Adopted
<1> QED
  BY <1>10, <1>11 DEF up, M

\* The elements and the nodes of right are moved to left.
JoinedNodes(ns, left, right) ==
  [Adopt(ns, left, ns[right].inodes, ns[right].leaf) EXCEPT ![left].inodes = @ \o ns[right].inodes]

AreJoined(ns, ns2, left, right, M) ==
  /\ DOMAIN ns2 = DOMAIN ns
  /\ \A m \in DOMAIN ns :
       /\ ns2[m].leaf = ns[m].leaf /\ ns2[m].key = ns[m].key /\ ns2[m].pgid = ns[m].pgid
       /\ ns2[m].spilled = ns[m].spilled /\ ns2[m].unbalanced = ns[m].unbalanced
       /\ m # left => ns2[m].inodes = ns[m].inodes
       /\ m \in M => ns2[m].parent = left /\ ns2[m].children = ns[m].children
       /\ m \notin M => ns2[m].parent = ns[m].parent
       /\ m \notin M /\ m # left => ns2[m].children = ns[m].children \ M
  /\ ns2[left].inodes = ns[left].inodes \o ns[right].inodes
  /\ ns2[left].children = ns[left].children \cup M

LEMMA JoinNodes ==
  ASSUME NEW pages, NEW ns, Typed(pages, ns), NEW left \in DOMAIN ns, NEW right \in DOMAIN ns,
         Row(ns[left].inodes \o ns[right].inodes), left \notin Moved(ns, right)
  PROVE  /\ Typed(pages, JoinedNodes(ns, left, right))
         /\ AreJoined(ns, JoinedNodes(ns, left, right), left, right, Moved(ns, right))
<1> DEFINE up == Adopt(ns, left, ns[right].inodes, ns[right].leaf)
           ns2 == JoinedNodes(ns, left, right)
           M == Moved(ns, right)
           s == ns[left].inodes \o ns[right].inodes
<1>1. Typed(pages, up) /\ Adopted(ns, up, left, M)
  BY AdoptNodes
<1>2. ns2 = [up EXCEPT ![left].inodes = @ \o ns[right].inodes]
  BY DEF JoinedNodes
<1> HIDE DEF up, ns2, M
<1>3. DOMAIN up = DOMAIN ns /\ up[left].inodes = ns[left].inodes
  BY <1>1 DEF Adopted
<1>4. \A m \in DOMAIN ns : up[m] \in NodeType
  BY <1>1, <1>3 DEF Typed
<1>5. s \in {x \in Seq(Elem) : Row(x)}
  BY DEF Row
<1>6. DOMAIN ns2 = DOMAIN ns /\ \A m \in DOMAIN ns : m # left => ns2[m] = up[m]
  BY <1>2, <1>3
<1>7. ns2[left] = [up[left] EXCEPT !.inodes = s] /\ up[left] \in NodeType
  BY <1>2, <1>3, <1>4
<1> HIDE DEF s
<1>8. /\ ns2[left] \in NodeType /\ ns2[left].inodes = s
      /\ ns2[left].leaf = up[left].leaf /\ ns2[left].key = up[left].key /\ ns2[left].pgid = up[left].pgid
      /\ ns2[left].spilled = up[left].spilled /\ ns2[left].unbalanced = up[left].unbalanced
      /\ ns2[left].parent = up[left].parent /\ ns2[left].children = up[left].children
  BY <1>5, <1>7 DEF NodeType
<1>9. Typed(pages, ns2)
  <2>1. \A m \in DOMAIN ns2 : ns2[m] \in NodeType
    BY <1>4, <1>6, <1>8
  <2> QED
    BY <1>1, <1>3, <1>6, <2>1 DEF Typed
<1>10. AreJoined(ns, ns2, left, right, M)
  <2>1. ASSUME NEW m \in DOMAIN ns
        PROVE  /\ ns2[m].leaf = up[m].leaf /\ ns2[m].key = up[m].key /\ ns2[m].pgid = up[m].pgid
               /\ ns2[m].spilled = up[m].spilled /\ ns2[m].unbalanced = up[m].unbalanced
               /\ m # left => ns2[m].inodes = up[m].inodes
               /\ ns2[m].parent = up[m].parent /\ ns2[m].children = up[m].children
    BY <1>6, <1>8
  <2>2. ASSUME NEW m \in DOMAIN ns
        PROVE  /\ ns2[m].leaf = ns[m].leaf /\ ns2[m].key = ns[m].key /\ ns2[m].pgid = ns[m].pgid
               /\ ns2[m].spilled = ns[m].spilled /\ ns2[m].unbalanced = ns[m].unbalanced
               /\ m # left => ns2[m].inodes = ns[m].inodes
    BY <1>1, <2>1 DEF Adopted
  <2>3. ASSUME NEW m \in DOMAIN ns
        PROVE  /\ m \in M => ns2[m].parent = left /\ ns2[m].children = ns[m].children
               /\ m \notin M => ns2[m].parent = ns[m].parent
               /\ m \notin M /\ m # left => ns2[m].children = ns[m].children \ M
    BY <1>1, <2>1 DEF Adopted
  <2>4. ns2[left].children = ns[left].children \cup M
    BY <1>1, <2>1 DEF Adopted
  <2> QED
    BY <1>6, <1>8, <2>2, <2>3, <2>4 DEF AreJoined, s
<1> QED
  BY <1>9, <1>10 DEF ns2, M

\* A node stands for the tree's node.
NodesOf(t, ns) ==
  \A v \in DOMAIN ns : /\ v \in DOMAIN t /\ t[v].leaf = ns[v].leaf /\ t[v].key = ns[v].key
                       /\ t[v].items = ToSet(ns[v].inodes)

LEMMA LoadedNodes ==
  ASSUME NEW pages, NEW ns, NEW gone, NEW r, NEW h, NEW d, Typed(pages, ns),
         Loaded(pages, ns, gone, r, h, d)
  PROVE  LET t == TreeOf(pages, ns, gone) IN
         Shape(t, r, h, d) /\ AllLoaded(pages, ns, gone) /\ Overlays(t, pages, ns, gone) /\ NodesOf(t, ns)
<1> DEFINE t == TreeOf(pages, ns, gone)
<1>1. Shape(t, r, h, d) /\ AllLoaded(pages, ns, gone)
  BY DEF Loaded, AllLoaded
<1>2. Overlays(t, pages, ns, gone)
  BY <1>1, LoadedTree
<1> HIDE DEF t
<1>3. NodesOf(t, ns)
  BY <1>2, TypedRecords DEF Overlays, NodesOf
<1> QED
  BY <1>1, <1>2, <1>3 DEF t

\* The node that has an element for n is n's parent.
LEMMA NodeParent ==
  ASSUME NEW pages, NEW ns, NEW gone, NEW r, NEW h, NEW d, Typed(pages, ns),
         Loaded(pages, ns, gone, r, h, d), NEW n \in DOMAIN ns,
         NEW v \in Branches(TreeOf(pages, ns, gone)), NEW e \in TreeOf(pages, ns, gone)[v].items, e.val = n
  PROVE  n # r /\ v \in DOMAIN ns /\ ns[n].parent = v /\ n \in ns[v].children
<1> DEFINE t == TreeOf(pages, ns, gone)
<1>1. Shape(t, r, h, d) /\ AllLoaded(pages, ns, gone) /\ NodesOf(t, ns)
  BY LoadedNodes
<1>2. Links(ns, r)
  BY DEF Loaded
<1>3. v \in Branches(t) /\ e \in t[v].items
  OBVIOUS
<1> HIDE DEF t
<1>4. n # r
  BY <1>1, <1>3, ChildFacts
<1> DEFINE p == ns[n].parent
<1>5. /\ p \in DOMAIN ns /\ n \in ns[p].children /\ ~ns[p].leaf
      /\ \E f \in ToSet(ns[p].inodes) : f.val = n
  BY <1>1, <1>2, <1>4 DEF Links, AllLoaded
<1> HIDE DEF p
<1>6. p \in Branches(t) /\ \E f \in t[p].items : f.val = n
  BY <1>1, <1>5 DEF NodesOf, Branches
<1>7. p = v
  BY <1>1, <1>3, <1>6, TheParent
<1> QED
  BY <1>4, <1>5, <1>7 DEF p

\* The nodes that Adopt moves are the children.
LEMMA MovedChildren ==
  ASSUME NEW pages, NEW ns, NEW gone, NEW r, NEW h, NEW d, Typed(pages, ns),
         Loaded(pages, ns, gone, r, h, d), NEW c \in DOMAIN ns
  PROVE  /\ \A x : x \in Moved(ns, c) <=> x \in ns[c].children
         /\ \A x \in Moved(ns, c) : x \in DOMAIN ns /\ ns[x].parent = c /\ x # r
<1> DEFINE t == TreeOf(pages, ns, gone)
<1>1. Shape(t, r, h, d) /\ AllLoaded(pages, ns, gone) /\ NodesOf(t, ns)
  BY LoadedNodes
<1>2. Links(ns, r)
  BY DEF Loaded
<1>3. ASSUME NEW x \in Moved(ns, c) PROVE x \in DOMAIN ns /\ ns[x].parent = c /\ x # r /\ x \in ns[c].children
  <2>1. ~ns[c].leaf /\ x \in DOMAIN ns /\ \E e \in ToSet(ns[c].inodes) : e.val = x
    BY DEF Moved
  <2> HIDE DEF t
  <2>2. c \in Branches(t) /\ \E e \in t[c].items : e.val = x
    BY <1>1, <2>1 DEF NodesOf, Branches
  <2>3. PICK e \in t[c].items : e.val = x
    BY <2>2
  <2>4. c \in Branches(TreeOf(pages, ns, gone)) /\ e \in TreeOf(pages, ns, gone)[c].items
    BY <2>2, <2>3 DEF t
  <2> QED
    BY <2>1, <2>3, <2>4, NodeParent
<1>4. ASSUME NEW x \in ns[c].children PROVE x \in Moved(ns, c)
  <2>1. x \in DOMAIN ns /\ ns[x].parent = c
    BY <1>2 DEF Links
  <2>2. c # 0
    <3>1. c \in DOMAIN pages
      BY <1>1 DEF AllLoaded
    <3> QED
      BY <3>1, TypedRecords
  <2>3. x # r
    BY <1>2, <2>1, <2>2 DEF Links
  <2>4. ~ns[c].leaf /\ \E e \in ToSet(ns[c].inodes) : e.val = x
    BY <1>1, <1>2, <2>1, <2>3 DEF Links, AllLoaded
  <2> QED
    BY <2>1, <2>4 DEF Moved
<1> QED
  BY <1>3, <1>4

\* Two neighbours are merged.
LEMMA MergeLoads ==
  ASSUME NEW pages, NEW ns, NEW gone, NEW r, NEW h, NEW d, Typed(pages, ns),
         Loaded(pages, ns, gone, r, h, d),
         NEW p \in DOMAIN ns, ~ns[p].leaf,
         NEW a \in ToSet(ns[p].inodes), NEW b \in ToSet(ns[p].inodes), a.key < b.key,
         Neighbours(ToSet(ns[p].inodes), a, b),
         NEW left \in DOMAIN ns, NEW right \in DOMAIN ns, left = a.val, right = b.val,
         ns[left].inodes # <<>> \/ ns[right].inodes # <<>>,
         NEW ns2, ns2 = Drop(JoinedNodes(ns, left, right), right)
  PROVE  /\ Typed(pages, ns2) /\ \E d2 : Loaded(pages, ns2, gone \cup {right}, r, h, d2)
         /\ Without(TreeOf(pages, ns, gone), TreeOf(pages, ns2, gone \cup {right}), right, left)
         /\ Joined(TreeOf(pages, ns, gone), TreeOf(pages, ns2, gone \cup {right}), left, right)
         /\ p \in DOMAIN ns2 /\ ns2[p].unbalanced
<1> DEFINE t == TreeOf(pages, ns, gone)
           u == TreeOf(pages, ns2, gone \cup {right})
           M == Moved(ns, right)
           ns1 == JoinedNodes(ns, left, right)
<1>1. Shape(t, r, h, d) /\ AllLoaded(pages, ns, gone) /\ Overlays(t, pages, ns, gone) /\ NodesOf(t, ns)
  BY LoadedNodes
<1>2. Links(ns, r)
  BY DEF Loaded
<1>3. /\ \A x : x \in M <=> x \in ns[right].children
      /\ \A x \in M : x \in DOMAIN ns /\ ns[x].parent = right /\ x # r
  BY MovedChildren
<1>4. \A v \in DOMAIN ns : Row(ns[v].inodes) /\ ns[v].key \in Nat
  BY TypedRecords
<1>5. p \in Branches(t) /\ a \in t[p].items /\ b \in t[p].items /\ t[p].items = ToSet(ns[p].inodes)
  BY <1>1 DEF NodesOf, Branches
<1>6. /\ left # r /\ right # r /\ ns[left].parent = p /\ ns[right].parent = p
      /\ right \in ns[p].children
  BY <1>5, NodeParent
<1> HIDE DEF t, u, M, ns1
<1>7. /\ left \in DOMAIN t /\ right \in DOMAIN t /\ p # left /\ p # right
      /\ t[left].key = a.key /\ t[right].key = b.key /\ h[left] = h[right]
      /\ h[p] \in Nat /\ h[right] \in Nat /\ h[right] + 1 = h[p] /\ a.key \in Nat /\ b.key \in Nat
      /\ h[left] \in Nat
  <2>1. /\ \A f \in t[p].items : /\ f.val \in DOMAIN t \ {r} /\ h[f.val] + 1 = h[p]
                                 /\ t[f.val].key = f.key /\ f.key \in Nat /\ f.val # p
        /\ \A v \in DOMAIN t : h[v] \in Nat
    BY <1>1, <1>5, ChildFacts
  <2> QED
    BY <1>5, <2>1 DEF Branches
<1>8. left # right
  <2>1. SUFFICES ASSUME left = right PROVE FALSE
    OBVIOUS
  <2>2. a.val = b.val
    BY <2>1
  <2>3. a = b
    BY <1>1, <1>5, <2>2, TheParent
  <2> QED
    BY <1>7, <2>3
<1>9. t[left].leaf <=> t[right].leaf
  BY <1>1, <1>7 DEF Shape, Heights
<1>10. /\ ns[left].key = a.key /\ ns[right].key = b.key
       /\ t[left].items = ToSet(ns[left].inodes) /\ t[right].items = ToSet(ns[right].inodes)
       /\ t[left].leaf = ns[left].leaf /\ t[right].leaf = ns[right].leaf
  BY <1>1, <1>7 DEF NodesOf
<1>11. \A e \in ToSet(ns[left].inodes), f \in ToSet(ns[right].inodes) : e.key < f.key
  <2>1. Apart(d[left], d[right])
    BY <1>1, <1>5 DEF Shape, Children
  <2>2. \A e \in t[left].items : e.key \in d[left]
    BY <1>1, <1>7, ChildFacts
  <2>3. \A e \in t[right].items : e.key \in d[right]
    BY <1>1, <1>7, ChildFacts
  <2> QED
    BY <1>10, <2>1, <2>2, <2>3 DEF Apart
<1>12. /\ Row(ns[left].inodes \o ns[right].inodes)
       /\ ToSet(ns[left].inodes \o ns[right].inodes) = ToSet(ns[left].inodes) \cup ToSet(ns[right].inodes)
  BY <1>4, <1>11, RowConcat
<1>13. left \notin M /\ right \notin M /\ p \notin M
  <2>1. left \notin M /\ right \notin M
    BY <1>3, <1>6, <1>7
  <2>2. p \notin M
    <3>1. SUFFICES ASSUME p \in M PROVE FALSE
      OBVIOUS
    <3>2. ~ns[right].leaf /\ \E e \in ToSet(ns[right].inodes) : e.val = p
      BY <3>1 DEF M, Moved
    <3>3. right \in Branches(t) /\ \E e \in t[right].items : e.val = p
      BY <1>7, <1>10, <3>2 DEF Branches
    <3>4. h[p] + 1 = h[right]
      BY <1>1, <3>3, ChildFacts
    <3> QED
      BY <1>7, <3>4
  <2> QED
    BY <2>1, <2>2
<1>14. Typed(pages, ns1) /\ AreJoined(ns, ns1, left, right, M)
  BY <1>12, <1>13, JoinNodes DEF ns1, M
<1>15. /\ DOMAIN ns1 = DOMAIN ns
       /\ ns1[right].parent = p /\ ns1[right].key = b.key /\ ns1[p].inodes = ns[p].inodes
       /\ ns1[p].children = ns[p].children \ M /\ ns1[right].inodes = ns[right].inodes
  BY <1>6, <1>7, <1>8, <1>10, <1>13, <1>14 DEF AreJoined
<1>16. Has(ns1[p].inodes, ns1[right].key)
  <2>1. \E e \in ToSet(ns[p].inodes) : e.key = b.key
    OBVIOUS
  <2> QED
    BY <1>4, <1>7, <1>15, <2>1, HasKey
<1>17. Typed(pages, ns2) /\ Dropped(ns1, ns2, right, p)
  BY <1>7, <1>14, <1>15, <1>16, DropNodes DEF ns1
<1>18. DOMAIN ns2 = DOMAIN ns \ {right} /\ p \in DOMAIN ns2 /\ left \in DOMAIN ns2 /\ ns2[p].unbalanced
  BY <1>7, <1>8, <1>15, <1>17 DEF Dropped
<1>19. ASSUME NEW m \in DOMAIN ns2
       PROVE  /\ m \in DOMAIN ns /\ m # right
              /\ ns2[m].leaf = ns[m].leaf /\ ns2[m].key = ns[m].key
              /\ ns2[m].pgid = ns[m].pgid /\ ns2[m].spilled = ns[m].spilled
              /\ m # p => ns2[m].unbalanced = ns[m].unbalanced
              /\ m # p /\ m # left => ns2[m].inodes = ns[m].inodes
              /\ m \in M => ns2[m].parent = left
              /\ m \notin M => ns2[m].parent = ns[m].parent
  <2>1. m \in DOMAIN ns /\ m # right
    BY <1>18
  <2>2. /\ ns1[m].leaf = ns[m].leaf /\ ns1[m].key = ns[m].key
        /\ ns1[m].pgid = ns[m].pgid /\ ns1[m].spilled = ns[m].spilled
        /\ ns1[m].unbalanced = ns[m].unbalanced
        /\ m # left => ns1[m].inodes = ns[m].inodes
        /\ m \in M => ns1[m].parent = left
        /\ m \notin M => ns1[m].parent = ns[m].parent
    BY <1>14, <2>1 DEF AreJoined
  <2>3. CASE m = p
    BY <1>17, <2>1, <2>2, <2>3 DEF Dropped
  <2>4. CASE m # p
    <3>1. ns2[m] = ns1[m]
      BY <1>15, <1>17, <2>1, <2>4 DEF Dropped
    <3> QED
      BY <2>1, <2>2, <2>4, <3>1
  <2> QED
    BY <2>3, <2>4
<1>20. ASSUME NEW m \in DOMAIN ns2
       PROVE  \A c : c \in ns2[m].children <=> \/ c \in ns[m].children /\ c # right
                                               \/ m = left /\ c \in M
  <2>1. m \in DOMAIN ns /\ m # right
    BY <1>18
  <2>2. \A c \in ns[m].children : c \notin M
    <3>1. \A c \in ns[m].children : ns[c].parent = m
      BY <1>2, <2>1 DEF Links
    <3> QED
      BY <1>3, <2>1, <3>1
  <2>3. \A c : c \in ns1[m].children <=> \/ c \in ns[m].children
                                         \/ m = left /\ c \in M
    <3>1. CASE m = left
      <4>1. ns1[left].children = ns[left].children \cup M
        BY <1>14 DEF AreJoined
      <4> QED
        BY <3>1, <4>1
    <3>2. CASE m # left /\ m \in M
      BY <1>14, <2>1, <3>2 DEF AreJoined
    <3>3. CASE m # left /\ m \notin M
      <4>1. ns1[m].children = ns[m].children \ M
        BY <1>14, <2>1, <3>3 DEF AreJoined
      <4> QED
        BY <2>2, <3>3, <4>1
    <3> QED
      BY <3>1, <3>2, <3>3
  <2>4. CASE m = p
    <3>1. ns2[p].children = ns1[p].children \ {right}
      BY <1>17 DEF Dropped
    <3> QED
      BY <1>7, <2>3, <2>4, <3>1
  <2>5. CASE m # p
    <3>1. ns2[m] = ns1[m]
      BY <1>15, <1>17, <2>1, <2>5 DEF Dropped
    <3>2. right \notin ns[m].children
      <4>1. \A c \in ns[m].children : ns[c].parent = m
        BY <1>2, <2>1 DEF Links
      <4> QED
        BY <1>6, <2>5, <4>1
    <3>3. right \notin M
      BY <1>13
    <3> QED
      BY <2>3, <3>1, <3>2, <3>3
  <2> QED
    BY <2>4, <2>5
<1>21. ns2[left].inodes = ns[left].inodes \o ns[right].inodes /\ ns2[p].inodes = DelElement(ns[p].inodes, b.key)
  <2>1. ns2[left] = ns1[left]
    BY <1>7, <1>8, <1>15, <1>17 DEF Dropped
  <2>2. ns1[left].inodes = ns[left].inodes \o ns[right].inodes
    BY <1>14 DEF AreJoined
  <2>3. ns2[p].inodes = DelElement(ns1[p].inodes, ns1[right].key)
    BY <1>17 DEF Dropped
  <2> QED
    BY <1>15, <2>1, <2>2, <2>3
<1>22. \A e \in t[p].items : e.key # b.key <=> e.val # right
  <2>1. SUFFICES ASSUME NEW e \in t[p].items PROVE e.key # b.key <=> e.val # right
    OBVIOUS
  <2>2. e.key = b.key => e = b
    BY <1>1, <1>5 DEF Shape, Kinds, Branches
  <2>3. e.val = right => e = b
    BY <1>1, <1>5, TheParent
  <2> QED
    BY <2>2, <2>3
<1>23. ToSet(ns2[p].inodes) = {e \in t[p].items : e.val # right}
  <2> DEFINE s == ns[p].inodes
             k == b.key
  <2>1. Row(s) /\ k \in Nat
    BY <1>4, <1>7
  <2>2. ns2[p].inodes = DelElement(s, k) /\ t[p].items = ToSet(s)
    BY <1>5, <1>21
  <2>3. \A e \in t[p].items : e.key # k <=> e.val # right
    BY <1>22
  <2> HIDE DEF s, k
  <2>4. ToSet(DelElement(s, k)) = {e \in ToSet(s) : e.key # k}
    BY <2>1, RowDel
  <2> QED
    BY <2>2, <2>3, <2>4
<1>24. AllLoaded(pages, ns2, gone \cup {right})
  BY <1>1, <1>19 DEF AllLoaded
<1>25. Overlays(u, pages, ns2, gone \cup {right})
  BY <1>24, LoadedTree DEF u
<1>26. DOMAIN u = DOMAIN t \ {right}
  BY <1>1, <1>25 DEF Overlays
<1>27. \A v \in DOMAIN ns2 : /\ v \in DOMAIN u /\ u[v].leaf = ns2[v].leaf /\ u[v].key = ns2[v].key
                             /\ u[v].items = ToSet(ns2[v].inodes)
  BY <1>17, <1>25, TypedRecords DEF Overlays
<1>28. \A v \in DOMAIN u : v \notin DOMAIN ns2 => v \notin DOMAIN ns /\ u[v] = t[v]
  BY <1>1, <1>18, <1>25, <1>26 DEF Overlays
<1>29. ASSUME NEW v \in DOMAIN u
       PROVE  /\ u[v].leaf = t[v].leaf /\ u[v].key = t[v].key
              /\ v # p /\ v # left => u[v].items = t[v].items
  <2>1. CASE v \in DOMAIN ns2
    BY <1>1, <1>19, <1>27, <2>1 DEF NodesOf
  <2>2. CASE v \notin DOMAIN ns2
    BY <1>28, <2>2
  <2> QED
    BY <2>1, <2>2
<1>30. u[p].items = {e \in t[p].items : e.val # right}
  BY <1>18, <1>23, <1>27
<1>31. Joined(t, u, left, right)
  <2>1. u[left].items = ToSet(ns2[left].inodes)
    BY <1>18, <1>27
  <2> QED
    BY <1>10, <1>12, <1>21, <2>1 DEF Joined
<1>32. Without(t, u, right, left)
  <2>1. ASSUME NEW v \in DOMAIN u, v # left
        PROVE  u[v].items = IF t[v].leaf THEN t[v].items ELSE {e \in t[v].items : e.val # right}
    <3>1. CASE v = p
      BY <1>5, <1>30, <3>1 DEF Branches
    <3>2. CASE v # p /\ t[v].leaf
      BY <1>29, <2>1, <3>2
    <3>3. CASE v # p /\ ~t[v].leaf
      <4>1. v \in Branches(t)
        BY <1>26, <3>3 DEF Branches
      <4>2. \A e \in t[v].items : e.val # right
        BY <1>1, <1>5, <3>3, <4>1, TheParent
      <4> QED
        BY <1>29, <2>1, <3>3, <4>2
    <3> QED
      BY <3>1, <3>2, <3>3
  <2> QED
    BY <1>26, <1>29, <2>1 DEF Without
<1> DEFINE d2 == [v \in DOMAIN t |-> IF v = left THEN d[left] \cup d[right] ELSE d[v]]
<1>33. Shape(u, r, h, d2)
  <2>1. DomainsJoined(t, d, d2, left, right)
    BY DEF DomainsJoined
  <2>2. Neighbours(t[p].items, a, b)
    BY <1>5
  <2> HIDE DEF d2
  <2> QED
    BY <1>1, <1>5, <1>31, <1>32, <2>1, <2>2, MergeShape
<1> HIDE DEF d2
<1>34. ASSUME NEW v \in DOMAIN pages \ (gone \cup {right}), v # r, u[v].items = {}
       PROVE  v \in DOMAIN ns2 /\ ns2[v].unbalanced
  <2>1. v \in DOMAIN u
    BY <1>25 DEF Overlays
  <2>2. CASE v = p
    BY <1>18, <2>2
  <2>3. CASE v = left
    <3>1. ToSet(ns[left].inodes) = {} /\ ToSet(ns[right].inodes) = {}
      BY <1>10, <1>31, <1>34, <2>3 DEF Joined
    <3> QED
      BY <1>4, <3>1, RowSize
  <2>4. CASE v # p /\ v # left
    <3>1. t[v].items = {}
      BY <1>29, <1>34, <2>1, <2>4
    <3>2. v \in DOMAIN ns /\ ns[v].unbalanced
      BY <1>34, <3>1 DEF Loaded, t
    <3>3. v \in DOMAIN ns2
      BY <1>18, <1>34, <3>2
    <3> QED
      BY <1>19, <2>4, <3>2, <3>3
  <2> QED
    BY <2>2, <2>3, <2>4
<1>35. Links(ns2, r)
  <2>1. r \in DOMAIN ns2 /\ ns2[r].parent = 0
    BY <1>2, <1>3, <1>6, <1>18, <1>19 DEF Links
  <2>2. ASSUME NEW m \in DOMAIN ns2, NEW c \in ns2[m].children PROVE c \in DOMAIN ns2 /\ ns2[c].parent = m
    <3>1. CASE c \in ns[m].children /\ c # right
      <4>1. c \in DOMAIN ns /\ ns[c].parent = m /\ m # right
        BY <1>2, <1>19, <3>1 DEF Links
      <4>2. c \notin M
        BY <1>3, <4>1
      <4> QED
        BY <1>18, <1>19, <3>1, <4>1, <4>2
    <3>2. CASE m = left /\ c \in M
      <4>1. c \in DOMAIN ns2
        BY <1>3, <1>13, <1>18, <3>2
      <4> QED
        BY <1>19, <3>2, <4>1
    <3> QED
      BY <1>20, <2>2, <3>1, <3>2
  <2>3. ASSUME NEW m \in DOMAIN ns2 \ {r}
        PROVE  /\ ns2[m].parent \in DOMAIN ns2
               /\ ~ns2[ns2[m].parent].spilled /\ m \in ns2[ns2[m].parent].children
               /\ ~ns2[ns2[m].parent].leaf
               /\ \E e \in ToSet(ns2[ns2[m].parent].inodes) : e.val = m
    <3> DEFINE q == ns[m].parent
    <3>1. m \in DOMAIN ns \ {r} /\ m # right
      BY <1>19
    <3>2. /\ q \in DOMAIN ns /\ ~ns[q].spilled /\ m \in ns[q].children /\ ~ns[q].leaf
          /\ \E e \in ToSet(ns[q].inodes) : e.val = m
      BY <1>1, <1>2, <3>1 DEF Links, AllLoaded
    <3>3. q = right <=> m \in M
      <4>1. q = right => m \in M
        BY <1>3, <3>2
      <4> QED
        BY <1>3, <4>1
    <3>4. ~ns[left].spilled
      BY <1>1 DEF AllLoaded
    <3> HIDE DEF q
    <3>5. CASE q = right
      <4>1. ns2[m].parent = left
        BY <1>19, <3>3, <3>5
      <4>2. m \in ns2[left].children
        BY <1>18, <1>20, <3>3, <3>5
      <4>3. ~ns2[left].spilled /\ ~ns2[left].leaf
        BY <1>9, <1>10, <1>18, <1>19, <3>2, <3>4, <3>5
      <4>4. \E e \in ToSet(ns2[left].inodes) : e.val = m
        BY <1>12, <1>21, <3>2, <3>5
      <4> QED
        BY <1>18, <4>1, <4>2, <4>3, <4>4
    <3>6. CASE q # right
      <4>1. ns2[m].parent = q
        BY <1>19, <3>3, <3>6 DEF q
      <4>2. q \in DOMAIN ns2
        BY <1>18, <3>2, <3>6
      <4>3. m \in ns2[q].children /\ ~ns2[q].spilled /\ ~ns2[q].leaf
        BY <1>19, <1>20, <3>1, <3>2, <4>2
      <4>4. \E e \in ToSet(ns2[q].inodes) : e.val = m
        <5>1. CASE q = p
          BY <1>5, <1>23, <3>1, <3>2, <5>1
        <5>2. CASE q = left
          BY <1>12, <1>21, <3>2, <5>2
        <5>3. CASE q # p /\ q # left
          BY <1>19, <3>2, <4>2, <5>3
        <5> QED
          BY <5>1, <5>2, <5>3
      <4> QED
        BY <4>1, <4>2, <4>3, <4>4
    <3> QED
      BY <3>5, <3>6
  <2> QED
    BY <2>1, <2>2, <2>3 DEF Links
<1>36. Loaded(pages, ns2, gone \cup {right}, r, h, d2)
  BY <1>24, <1>33, <1>34, <1>35 DEF Loaded, AllLoaded, u
<1> QED
  BY <1>17, <1>18, <1>31, <1>32, <1>36 DEF t, u

\* The root takes the elements and the nodes of its child c.
CollapsedNodes(ns, r, c) ==
  Forget([Adopt(ns, r, ns[c].inodes, ns[c].leaf) EXCEPT ![r].leaf = ns[c].leaf,
                                                        ![r].inodes = ns[c].inodes,
                                                        ![r].children = ns[c].children], c)

LEMMA CollapseLoads ==
  ASSUME NEW pages, NEW ns, NEW gone, NEW r, NEW h, NEW d, Typed(pages, ns),
         Loaded(pages, ns, gone, r, h, d), r \in DOMAIN ns, ~ns[r].leaf, ns[r].inodes # <<>>,
         NEW c \in DOMAIN ns, \A e \in ToSet(ns[r].inodes) : e.val = c,
         NEW ns2, ns2 = CollapsedNodes(ns, r, c)
  PROVE  /\ Typed(pages, ns2) /\ \E h2 : Loaded(pages, ns2, gone \cup {c}, r, h2, d)
         /\ OnlyBelow(TreeOf(pages, ns, gone), r, c)
         /\ Collapsed(TreeOf(pages, ns, gone), TreeOf(pages, ns2, gone \cup {c}), r, c)
<1> DEFINE t == TreeOf(pages, ns, gone)
           u == TreeOf(pages, ns2, gone \cup {c})
           M == Moved(ns, c)
           up == Adopt(ns, r, ns[c].inodes, ns[c].leaf)
           ns1 == [up EXCEPT ![r].leaf = ns[c].leaf, ![r].inodes = ns[c].inodes, ![r].children = ns[c].children]
<1>1. Shape(t, r, h, d) /\ AllLoaded(pages, ns, gone) /\ Overlays(t, pages, ns, gone) /\ NodesOf(t, ns)
  BY LoadedNodes
<1>2. Links(ns, r)
  BY DEF Loaded
<1>3. /\ \A x : x \in M <=> x \in ns[c].children
      /\ \A x \in M : x \in DOMAIN ns /\ ns[x].parent = c /\ x # r
  BY MovedChildren
<1>4. \A v \in DOMAIN ns : ns[v] \in NodeType /\ Row(ns[v].inodes)
  BY TypedRecords DEF Typed
<1>5. r \notin M
  BY <1>3
<1>6. Typed(pages, up) /\ Adopted(ns, up, r, M)
  BY <1>5, AdoptNodes DEF M
<1>7. ns2 = [m \in DOMAIN ns1 \ {c} |-> ns1[m]]
  BY DEF CollapsedNodes, Forget
<1> HIDE DEF t, u, M, up
<1>8. DOMAIN up = DOMAIN ns /\ \A m \in DOMAIN ns : up[m] \in NodeType
  BY <1>6 DEF Adopted, Typed
<1>9. DOMAIN ns1 = DOMAIN ns /\ \A m \in DOMAIN ns : m # r => ns1[m] = up[m]
  BY <1>8
<1>10. ns1[r] = [up[r] EXCEPT !.leaf = ns[c].leaf, !.inodes = ns[c].inodes, !.children = ns[c].children]
  BY <1>8
<1> HIDE DEF ns1
<1>11. /\ ns1[r] \in NodeType /\ ns1[r].leaf = ns[c].leaf /\ ns1[r].inodes = ns[c].inodes
       /\ ns1[r].children = ns[c].children
       /\ ns1[r].key = up[r].key /\ ns1[r].pgid = up[r].pgid /\ ns1[r].spilled = up[r].spilled
       /\ ns1[r].unbalanced = up[r].unbalanced /\ ns1[r].parent = up[r].parent
  <2>1. up[r] \in NodeType /\ ns[c] \in NodeType
    BY <1>4, <1>8
  <2>2. /\ ns[c].leaf \in BOOLEAN /\ ns[c].inodes \in {s \in Seq(Elem) : Row(s)}
        /\ ns[c].children \in SUBSET Int
    BY <2>1 DEF NodeType
  <2> QED
    BY <1>10, <2>1, <2>2 DEF NodeType
<1>12. /\ ~t[r].leaf /\ t[r].items # {} /\ r \in Branches(t) /\ c \in DOMAIN t
       /\ t[r].items = ToSet(ns[r].inodes)
       /\ t[c].leaf = ns[c].leaf /\ t[c].items = ToSet(ns[c].inodes)
  <2>1. ToSet(ns[r].inodes) # {}
    BY <1>4, RowSize
  <2> QED
    BY <1>1, <2>1 DEF NodesOf, Branches
<1>13. OnlyBelow(t, r, c)
  BY <1>12 DEF OnlyBelow
<1>14. c # r /\ ns[c].parent = r /\ c \in ns[r].children
  <2>1. PICK e \in t[r].items : TRUE
    BY <1>12
  <2>2. e.val = c
    BY <1>12, <2>1
  <2>3. r \in Branches(TreeOf(pages, ns, gone)) /\ e \in TreeOf(pages, ns, gone)[r].items
    BY <1>12 DEF t
  <2> QED
    BY <2>2, <2>3, NodeParent
<1>15. DOMAIN ns2 = DOMAIN ns \ {c} /\ \A m \in DOMAIN ns2 : ns2[m] = ns1[m]
  BY <1>7, <1>9
<1>16. ASSUME NEW m \in DOMAIN ns2
       PROVE  /\ m \in DOMAIN ns /\ m # c
              /\ ns2[m].key = ns[m].key
              /\ ns2[m].pgid = ns[m].pgid /\ ns2[m].spilled = ns[m].spilled
              /\ ns2[m].unbalanced = ns[m].unbalanced
              /\ m # r => ns2[m].inodes = ns[m].inodes /\ ns2[m].leaf = ns[m].leaf
              /\ m \in M => ns2[m].parent = r
              /\ m \notin M => ns2[m].parent = ns[m].parent
  <2>1. m \in DOMAIN ns /\ m # c /\ ns2[m] = ns1[m]
    BY <1>15
  <2>2. /\ up[m].leaf = ns[m].leaf /\ up[m].key = ns[m].key
        /\ up[m].pgid = ns[m].pgid /\ up[m].spilled = ns[m].spilled
        /\ up[m].unbalanced = ns[m].unbalanced /\ up[m].inodes = ns[m].inodes
        /\ m \in M => up[m].parent = r
        /\ m \notin M => up[m].parent = ns[m].parent
    BY <1>6, <2>1 DEF Adopted
  <2>3. CASE m = r
    BY <1>11, <2>1, <2>2, <2>3
  <2>4. CASE m # r
    BY <1>9, <2>1, <2>2, <2>4
  <2> QED
    BY <2>3, <2>4
<1>17. r \in DOMAIN ns2 /\ ns2[r].leaf = ns[c].leaf /\ ns2[r].inodes = ns[c].inodes
  BY <1>11, <1>14, <1>15
<1>18. ASSUME NEW m \in DOMAIN ns2, m # r PROVE \A x : x \in ns2[m].children <=> x \in ns[m].children
  <2>1. m \in DOMAIN ns /\ ns2[m] = up[m] /\ m # c
    BY <1>9, <1>15, <1>18
  <2>2. \A x \in ns[m].children : x \notin M
    <3>1. \A x \in ns[m].children : ns[x].parent = m
      BY <1>2, <2>1 DEF Links
    <3> QED
      BY <1>3, <2>1, <3>1
  <2>3. CASE m \in M
    BY <1>6, <2>1, <2>3 DEF Adopted
  <2>4. CASE m \notin M
    <3>1. up[m].children = ns[m].children \ M
      BY <1>6, <1>18, <2>1, <2>4 DEF Adopted
    <3> QED
      BY <2>1, <2>2, <3>1
  <2> QED
    BY <2>3, <2>4
<1>19. \A x : x \in ns2[r].children <=> x \in M
  BY <1>3, <1>11, <1>15, <1>17
<1>20. Typed(pages, ns2)
  <2>1. \A m \in DOMAIN ns2 : ns2[m] \in NodeType
    BY <1>8, <1>9, <1>11, <1>15
  <2>2. IsFiniteSet(DOMAIN ns2)
    BY <1>15, FS_Subset DEF Typed
  <2> QED
    BY <1>15, <2>1, <2>2 DEF Typed
<1>21. AllLoaded(pages, ns2, gone \cup {c})
  BY <1>1, <1>16 DEF AllLoaded
<1>22. Overlays(u, pages, ns2, gone \cup {c})
  BY <1>21, LoadedTree DEF u
<1>23. DOMAIN u = DOMAIN t \ {c}
  BY <1>1, <1>22 DEF Overlays
<1>24. Collapsed(t, u, r, c)
  <2>1. u[r] = OfNode(ns2[r]) /\ t[r] = OfNode(ns[r])
    BY <1>1, <1>17, <1>22 DEF Overlays
  <2>2. u[r].leaf = t[c].leaf /\ u[r].key = t[r].key /\ u[r].items = t[c].items
    BY <1>12, <1>16, <1>17, <2>1 DEF OfNode
  <2>3. ASSUME NEW v \in DOMAIN u, v # r PROVE u[v] = t[v]
    <3>1. CASE v \in DOMAIN ns2
      <4>1. v \in DOMAIN ns /\ u[v] = OfNode(ns2[v]) /\ t[v] = OfNode(ns[v])
        BY <1>1, <1>16, <1>22, <3>1 DEF Overlays
      <4> QED
        BY <1>16, <2>3, <3>1, <4>1 DEF OfNode
    <3>2. CASE v \notin DOMAIN ns2
      <4>1. v \in DOMAIN t /\ v # c /\ v \notin DOMAIN ns
        BY <1>15, <1>23, <3>2
      <4> QED
        BY <1>1, <1>22, <3>2, <4>1 DEF Overlays
    <3> QED
      BY <3>1, <3>2
  <2> QED
    BY <1>23, <2>2, <2>3 DEF Collapsed
<1> DEFINE h2 == [v \in DOMAIN t |-> IF v = r THEN h[c] ELSE h[v]]
<1>25. Shape(u, r, h2, d)
  <2>1. NewHeight(t, h, h2, r, h[c])
    BY DEF NewHeight
  <2> HIDE DEF h2
  <2> QED
    BY <1>1, <1>13, <1>24, <2>1, CollapseShape
<1> HIDE DEF h2
<1>26. ASSUME NEW v \in DOMAIN pages \ (gone \cup {c}), v # r, u[v].items = {}
       PROVE  v \in DOMAIN ns2 /\ ns2[v].unbalanced
  <2>1. v \in DOMAIN u
    BY <1>22 DEF Overlays
  <2>2. t[v].items = {}
    BY <1>24, <1>26, <2>1 DEF Collapsed
  <2>3. v \in DOMAIN ns /\ ns[v].unbalanced
    BY <1>26, <2>2 DEF Loaded, t
  <2>4. v \in DOMAIN ns2
    BY <1>15, <1>26, <2>3
  <2> QED
    BY <1>16, <2>3, <2>4
<1>27. Links(ns2, r)
  <2>1. ns2[r].parent = 0
    BY <1>2, <1>5, <1>16, <1>17 DEF Links
  <2>2. ASSUME NEW m \in DOMAIN ns2, NEW x \in ns2[m].children PROVE x \in DOMAIN ns2 /\ ns2[x].parent = m
    <3>1. CASE m = r
      <4>1. x \in M
        BY <1>19, <2>2, <3>1
      <4>2. x \in DOMAIN ns2
        BY <1>3, <1>14, <1>15, <4>1
      <4> QED
        BY <1>16, <3>1, <4>1, <4>2
    <3>2. CASE m # r
      <4>1. x \in ns[m].children /\ m \in DOMAIN ns /\ m # c
        BY <1>16, <1>18, <2>2, <3>2
      <4>2. x \in DOMAIN ns /\ ns[x].parent = m
        BY <1>2, <4>1 DEF Links
      <4>3. x \notin M /\ x # c
        BY <1>3, <1>14, <3>2, <4>1, <4>2
      <4> QED
        BY <1>15, <1>16, <4>2, <4>3
    <3> QED
      BY <3>1, <3>2
  <2>3. ASSUME NEW m \in DOMAIN ns2 \ {r}
        PROVE  /\ ns2[m].parent \in DOMAIN ns2
               /\ ~ns2[ns2[m].parent].spilled /\ m \in ns2[ns2[m].parent].children
               /\ ~ns2[ns2[m].parent].leaf
               /\ \E e \in ToSet(ns2[ns2[m].parent].inodes) : e.val = m
    <3> DEFINE q == ns[m].parent
    <3>1. m \in DOMAIN ns \ {r} /\ m # c
      BY <1>16
    <3>2. /\ q \in DOMAIN ns /\ ~ns[q].spilled /\ m \in ns[q].children /\ ~ns[q].leaf
          /\ \E e \in ToSet(ns[q].inodes) : e.val = m
      BY <1>1, <1>2, <3>1 DEF Links, AllLoaded
    <3>3. q = c <=> m \in M
      <4>1. q = c => m \in M
        BY <1>3, <3>2
      <4> QED
        BY <1>3, <4>1
    <3>4. ~ns[r].spilled
      BY <1>1 DEF AllLoaded
    <3> HIDE DEF q
    <3>5. CASE q = c
      <4>1. ns2[m].parent = r /\ m \in ns2[r].children
        BY <1>16, <1>19, <3>3, <3>5
      <4>2. ~ns2[r].spilled /\ ~ns2[r].leaf
        BY <1>16, <1>17, <3>2, <3>4, <3>5
      <4>3. \E e \in ToSet(ns2[r].inodes) : e.val = m
        BY <1>17, <3>2, <3>5
      <4> QED
        BY <1>17, <4>1, <4>2, <4>3
    <3>6. CASE q # c
      <4>1. ns2[m].parent = q
        BY <1>16, <3>3, <3>6 DEF q
      <4>2. q # r
        BY <3>1, <3>2
      <4>3. q \in DOMAIN ns2
        BY <1>15, <3>2, <3>6
      <4>4. m \in ns2[q].children
        BY <1>18, <3>2, <4>2, <4>3
      <4> QED
        BY <1>16, <3>2, <4>1, <4>2, <4>3, <4>4
    <3> QED
      BY <3>5, <3>6
  <2> QED
    BY <1>17, <2>1, <2>2, <2>3 DEF Links
<1>28. Loaded(pages, ns2, gone \cup {c}, r, h2, d)
  BY <1>21, <1>25, <1>26, <1>27 DEF Loaded, AllLoaded, u
<1> QED
  BY <1>13, <1>20, <1>24, <1>28 DEF t, u

\* What every call of rebalance leaves.
LEMMA Rebalances ==
  ASSUME TreeInv, phase = "rebalance", NEW ns2, NEW next, Rebalanced(ns2, next),
         freed' \subseteq DOMAIN page, Typed(page, ns2),
         \E h, d : Loaded(page, ns2, freed', root, h, d),
         next = 0 \/ (next \in DOMAIN ns2 /\ ns2[next].unbalanced),
         Full(TreeOf(page, ns2, freed'), next), LeafItems(TreeOf(page, ns2, freed')) = Held
  PROVE  TreeInv' /\ Held' = Held /\ Saved' = Saved
<1>1. /\ node' = ns2 /\ page' = page /\ root' = root /\ written' = written /\ phase' = phase
      /\ cur' = next
  BY DEF Rebalanced
<1>2. Progress'
  BY <1>1 DEF TreeInv, Progress
<1>3. /\ Typed(page, node)' /\ (written \subseteq DOMAIN page /\ freed \subseteq DOMAIN page)'
      /\ SoundPages(page, DOMAIN page \ written, root)'
  BY <1>1 DEF TreeInv
<1>4. Full(TreeOf(page, node, freed), cur)'
  BY <1>1
<1>5. \E h, d : Loaded(page', node', freed', root', h, d)
  BY <1>1
<1>6. phase' # "open" /\ phase' # "spill"
  BY <1>1
<1>7. TreeInv'
  BY <1>2, <1>3, <1>4, <1>5, <1>6 DEF TreeInv
<1>8. Held' = Held /\ Saved' = Saved
  BY <1>1 DEF Held, Saved
<1> QED
  BY <1>7, <1>8

\* A node, its parent and their elements.
LEMMA NodeFacts ==
  ASSUME TreeInv, phase = "rebalance", NEW n \in DOMAIN node, NEW p, p = node[n].parent
  PROVE  /\ root \in DOMAIN node /\ n \in DOMAIN page \ freed /\ node[n].pgid = n /\ n # 0
         /\ n \in DOMAIN TreeOf(page, node, freed)
         /\ TreeOf(page, node, freed)[n].items = ToSet(node[n].inodes)
         /\ TreeOf(page, node, freed)[n].leaf = node[n].leaf
         /\ Row(node[n].inodes)
         /\ p = 0 <=> n = root
         /\ node[n].inodes = <<>> => node[n].leaf
         /\ ~node[n].leaf /\ n # cur => Len(node[n].inodes) >= 2
         /\ p # 0 => /\ p \in DOMAIN node /\ p # n /\ ~node[p].leaf
                     /\ \E e \in ToSet(node[p].inodes) : e.val = n /\ e.key = node[n].key
<1> DEFINE t == TreeOf(page, node, freed)
<1>1. PICK h, d : Loaded(page, node, freed, root, h, d)
  BY DEF TreeInv
<1>2. Typed(page, node) /\ Full(t, cur)
  BY DEF TreeInv
<1>3. Shape(t, root, h, d) /\ AllLoaded(page, node, freed) /\ Overlays(t, page, node, freed) /\ NodesOf(t, node)
  BY <1>1, <1>2, LoadedNodes
<1> HIDE DEF t
<1>4. Links(node, root)
  <2>1. node # <<>>
    OBVIOUS
  <2> QED
    BY <1>1, <2>1 DEF Loaded
<1>5. n \in DOMAIN page \ freed /\ node[n].pgid = n /\ n # 0
  <2>1. n \in DOMAIN page \ freed /\ node[n].pgid = n
    BY <1>3 DEF AllLoaded
  <2> QED
    BY <1>2, <2>1, TypedRecords
<1>6. /\ n \in DOMAIN t /\ t[n].items = ToSet(node[n].inodes) /\ t[n].leaf = node[n].leaf
      /\ t[n].key = node[n].key
  BY <1>3 DEF NodesOf
<1>7. Row(node[n].inodes) /\ node[n].leaf \in BOOLEAN
  BY <1>2, TypedRecords
<1>8. root \in DOMAIN node
  BY <1>4 DEF Links
<1>9. \A m \in DOMAIN node : m # 0
  BY <1>2, <1>3, TypedRecords DEF AllLoaded
<1>10. p = 0 <=> n = root
  BY <1>4, <1>9 DEF Links
<1>11. node[n].inodes = <<>> => node[n].leaf
  BY <1>2, <1>6, <1>7, RowSize DEF Full, Branches
<1>12. ~node[n].leaf /\ n # cur => Len(node[n].inodes) >= 2
  BY <1>2, <1>6, <1>7, RowSize DEF Full, Branches
<1>13. ASSUME p # 0
       PROVE  /\ p \in DOMAIN node /\ p # n /\ ~node[p].leaf
              /\ \E e \in ToSet(node[p].inodes) : e.val = n /\ e.key = node[n].key
  <2>1. n \in DOMAIN node \ {root}
    BY <1>10, <1>13
  <2>2. p \in DOMAIN node /\ ~node[p].leaf /\ \E e \in ToSet(node[p].inodes) : e.val = n
    BY <1>3, <1>4, <2>1 DEF Links, AllLoaded
  <2>3. PICK e \in ToSet(node[p].inodes) : e.val = n
    BY <2>2
  <2>4. p \in Branches(t) /\ e \in t[p].items
    BY <1>3, <2>2, <2>3 DEF NodesOf, Branches
  <2>5. t[n].key = e.key /\ e.val # p
    BY <1>3, <2>3, <2>4, ChildFacts
  <2> QED
    BY <1>6, <2>2, <2>3, <2>5
<1> QED
  BY <1>5, <1>6, <1>7, <1>8, <1>10, <1>11, <1>12, <1>13 DEF t

\* A node that stays as it is.
LEMMA SettleStep ==
  ASSUME TreeInv, phase = "rebalance", NEW n \in DOMAIN node, cur \in {0, n},
         Rebalanced([node EXCEPT ![n].unbalanced = FALSE], 0), freed' = freed,
         n = root \/ node[n].inodes # <<>>, node[n].leaf \/ Len(node[n].inodes) >= 2
  PROVE  TreeInv' /\ Held' = Held /\ Saved' = Saved
<1> DEFINE ns == [node EXCEPT ![n].unbalanced = FALSE]
           t == TreeOf(page, node, freed)
<1>1. PICK h, d : Loaded(page, node, freed, root, h, d)
  BY DEF TreeInv
<1>2. Typed(page, node) /\ Full(t, cur) /\ freed \subseteq DOMAIN page
  BY DEF TreeInv
<1>3. Settled(node, ns, n)
  BY DEF Settled
<1> HIDE DEF ns
<1>4. Typed(page, ns) /\ Loaded(page, ns, freed, root, h, d) /\ TreeOf(page, ns, freed) = t
  BY <1>1, <1>2, <1>3, SettledLoads
<1>5. /\ n \in DOMAIN t /\ t[n].items = ToSet(node[n].inodes) /\ t[n].leaf = node[n].leaf
      /\ Row(node[n].inodes) /\ n # 0
  BY NodeFacts
<1> HIDE DEF t
<1>6. Full(t, 0)
  <2>1. SUFFICES ASSUME NEW v \in Branches(t)
                 PROVE  t[v].items # {} /\ \E e, f \in t[v].items : e # f
    BY DEF Full
  <2>2. CASE v = n
    BY <1>5, <2>2, RowSize DEF Branches
  <2>3. CASE v # n
    <3>1. v # cur \/ v = 0
      BY <2>3
    <3>2. v # 0
      <4>1. DOMAIN t \subseteq DOMAIN page
        <5>1. AllLoaded(page, node, freed) /\ Overlays(t, page, node, freed)
          BY <1>1, <1>2, LoadedNodes DEF t
        <5> QED
          BY <5>1 DEF Overlays
      <4> QED
        BY <1>2, <4>1, TypedRecords DEF Branches
    <3> QED
      BY <1>2, <3>1, <3>2 DEF Full
  <2> QED
    BY <2>2, <2>3
<1>7. Rebalanced(ns, 0)
  BY DEF ns
<1>8. Full(TreeOf(page, ns, freed'), 0) /\ Loaded(page, ns, freed', root, h, d)
  BY <1>4, <1>6
<1>9. LeafItems(TreeOf(page, ns, freed')) = Held
  BY <1>4 DEF Held, t
<1> QED
  BY <1>2, <1>4, <1>7, <1>8, <1>9, Rebalances

\* The root takes the place of its only child.
LEMMA CollapseStep ==
  ASSUME TreeInv, phase = "rebalance", NEW n \in DOMAIN node,
         n = root, cur = n, ~node[n].leaf, node[n].inodes # <<>>,
         \A e \in ToSet(node[n].inodes) : e = node[n].inodes[1],
         Collapse([node EXCEPT ![n].unbalanced = FALSE], n)
  PROVE  TreeInv' /\ Held' = Held /\ Saved' = Saved
<1> DEFINE ns == [node EXCEPT ![n].unbalanced = FALSE]
           t == TreeOf(page, node, freed)
           c == ns[n].inodes[1].val
           with == Node(ns, c, n)
           ns2 == CollapsedNodes(with, n, c)
           u == TreeOf(page, ns2, freed \cup {c})
<1>1. PICK h, d : Loaded(page, node, freed, root, h, d)
  BY DEF TreeInv
<1>2. Typed(page, node) /\ Full(t, cur) /\ freed \subseteq DOMAIN page
  BY DEF TreeInv
<1>3. Settled(node, ns, n)
  BY DEF Settled
<1>4. Free(with[c].pgid) /\ Rebalanced(ns2, 0)
  BY Zenon DEF Collapse, CollapsedNodes
<1>5. Typed(page, ns) /\ Loaded(page, ns, freed, root, h, d) /\ SamePlace(node, ns) /\ TreeOf(page, ns, freed) = t
  BY <1>1, <1>2, <1>3, SettledLoads
<1> HIDE DEF ns
<1>6. ns[n].inodes = node[n].inodes /\ ~ns[n].leaf /\ n \in DOMAIN ns
  BY <1>5 DEF SamePlace
<1>7. n # 0 /\ n \in DOMAIN t
  BY NodeFacts
<1>8. \A e : e \in ToSet(ns[n].inodes) <=> e = ns[n].inodes[1]
  <2>1. Row(node[n].inodes)
    BY <1>2, TypedRecords
  <2>2. node[n].inodes[1] \in ToSet(node[n].inodes)
    BY <2>1, RowFirst
  <2> QED
    BY <1>6, <2>2
<1>9. \A e \in ToSet(ns[n].inodes) : e.val = c
  BY <1>8
<1>10. \E e \in ToSet(ns[n].inodes) : e.val = c
  BY <1>8
<1> HIDE DEF t, c
<1>11. /\ Typed(page, with) /\ Loaded(page, with, freed, root, h, d) /\ TreeOf(page, with, freed) = t
       /\ \A x : x \in DOMAIN with <=> x \in DOMAIN ns \/ x = c
       /\ with[n].inodes = ns[n].inodes /\ with[n].leaf = ns[n].leaf
  <2>1. /\ Typed(page, Node(ns, c, n)) /\ Loaded(page, Node(ns, c, n), freed, root, h, d)
        /\ TreeOf(page, Node(ns, c, n), freed) = TreeOf(page, ns, freed)
        /\ \A x : x \in DOMAIN Node(ns, c, n) <=> x \in DOMAIN ns \/ x = c
        /\ Node(ns, c, n)[n].inodes = ns[n].inodes /\ Node(ns, c, n)[n].leaf = ns[n].leaf
    <3> HIDE DEF with, ns2, u
    <3>1. Typed(page, node) /\ Typed(page, ns) /\ Loaded(page, ns, freed, root, h, d)
      BY <1>2, <1>5
    <3>2. n \in DOMAIN ns /\ ~ns[n].leaf /\ \E e \in ToSet(ns[n].inodes) : e.val = c
      BY <1>6, <1>10
    <3> QED
      BY <3>1, <3>2, NodeLoads
  <2> QED
    BY <1>5, <2>1
<1> HIDE DEF with
<1>12. /\ Typed(page, ns2) /\ \E h2 : Loaded(page, ns2, freed \cup {c}, root, h2, d)
       /\ OnlyBelow(t, root, c) /\ Collapsed(t, u, root, c)
  <2>1. root \in DOMAIN with /\ ~with[root].leaf /\ with[root].inodes # <<>> /\ c \in DOMAIN with
    BY <1>6, <1>7, <1>11
  <2>2. \A e \in ToSet(with[root].inodes) : e.val = c
    BY <1>9, <1>11
  <2>3. ns2 = CollapsedNodes(with, root, c)
    OBVIOUS
  <2> HIDE DEF ns2
  <2> QED
    BY <1>11, <2>1, <2>2, <2>3, CollapseLoads
<1>13. c \in DOMAIN page /\ with[c].pgid = c
  BY <1>11 DEF Loaded
<1>14. freed' = freed \cup {c}
  BY <1>4, <1>13 DEF Free
<1> HIDE DEF ns2, u
<1>15. Full(u, 0)
  <2>1. SUFFICES ASSUME NEW v \in Branches(u)
                 PROVE  u[v].items # {} /\ \E e, f \in u[v].items : e # f
    BY DEF Full
  <2>2. Shape(t, root, h, d)
    BY <1>1 DEF Loaded, t
  <2>3. c \in DOMAIN t \ {root}
    BY <1>12, <2>2, ChildFacts DEF OnlyBelow
  <2>4. CASE v = root
    <3>1. c \in Branches(t) /\ c # cur /\ u[v].items = t[c].items
      BY <1>7, <1>12, <2>3, <2>4 DEF Branches, Collapsed
    <3> QED
      BY <1>2, <3>1 DEF Full
  <2>5. CASE v # root
    <3>1. v \in Branches(t) /\ v # cur /\ u[v] = t[v]
      BY <1>7, <1>12, <2>5 DEF Branches, Collapsed
    <3> QED
      BY <1>2, <3>1 DEF Full
  <2> QED
    BY <2>4, <2>5
<1>16. \E h2, d2 : Loaded(page, ns2, freed', root, h2, d2)
  BY <1>12, <1>14
<1>17. freed' \subseteq DOMAIN page /\ Full(TreeOf(page, ns2, freed'), 0)
  BY <1>2, <1>13, <1>14, <1>15 DEF u
<1>18. LeafItems(u) = LeafItems(t)
  <2>1. root \in DOMAIN t /\ ~t[root].leaf /\ c \in DOMAIN t /\ root # c
    <3>1. Shape(t, root, h, d)
      BY <1>1 DEF Loaded, t
    <3> QED
      BY <1>12, <3>1, ChildFacts DEF OnlyBelow, Branches
  <2> QED
    BY <1>12, <2>1, CollapseLeaves
<1>19. LeafItems(TreeOf(page, ns2, freed')) = Held
  BY <1>14, <1>18 DEF Held, t, u
<1> QED
  BY <1>4, <1>12, <1>16, <1>17, <1>19, Rebalances

\* An empty node is dropped.
LEMMA DropStep ==
  ASSUME TreeInv, phase = "rebalance", NEW n \in DOMAIN node, cur \in {0, n},
         NEW p, p = node[n].parent, p # 0, node[n].inodes = <<>>,
         Free(node[n].pgid), Rebalanced(Drop([node EXCEPT ![n].unbalanced = FALSE], n), p)
  PROVE  TreeInv' /\ Held' = Held /\ Saved' = Saved
<1> DEFINE ns == [node EXCEPT ![n].unbalanced = FALSE]
           t == TreeOf(page, node, freed)
           ns2 == Drop(ns, n)
           u == TreeOf(page, ns2, freed \cup {n})
<1>1. PICK h, d : Loaded(page, node, freed, root, h, d)
  BY DEF TreeInv
<1>2. Typed(page, node) /\ Full(t, cur) /\ freed \subseteq DOMAIN page
  BY DEF TreeInv
<1>3. Settled(node, ns, n) /\ Rebalanced(ns2, p)
  BY DEF Settled
<1>4. /\ n \in DOMAIN page \ freed /\ node[n].pgid = n /\ n # root /\ node[n].leaf
      /\ n \in DOMAIN t /\ t[n].items = ToSet(node[n].inodes) /\ t[n].leaf = node[n].leaf
      /\ p \in DOMAIN node /\ p # n /\ ~node[p].leaf
      /\ \E e \in ToSet(node[p].inodes) : e.val = n /\ e.key = node[n].key
  BY NodeFacts
<1>5. Len(node[p].inodes) >= 2 /\ Row(node[p].inodes)
  <2>1. p # cur
    BY <1>4
  <2>2. p \in DOMAIN node /\ node[p].parent = node[p].parent
    BY <1>4
  <2> QED
    BY <1>4, <2>1, <2>2, NodeFacts
<1>6. Shape(t, root, h, d) /\ NodesOf(t, node)
  BY <1>1, <1>2, LoadedNodes
<1> HIDE DEF t, ns, ns2, u
<1>7. p \in Branches(t) /\ t[p].items = ToSet(node[p].inodes)
  BY <1>4, <1>6 DEF NodesOf, Branches
<1>8. \E e \in ToSet(node[p].inodes) : e.val # n
  <2>1. PICK e \in ToSet(node[p].inodes), f \in ToSet(node[p].inodes) : e # f
    BY <1>5, RowSize
  <2>2. e.val # f.val
    BY <1>6, <1>7, <2>1, TheParent
  <2> QED
    BY <2>1, <2>2
<1>9. /\ Typed(page, ns2) /\ Loaded(page, ns2, freed \cup {n}, root, h, d)
      /\ Without(t, u, n, n) /\ p \in DOMAIN ns2 /\ ns2[p].unbalanced
  BY <1>1, <1>2, <1>3, <1>4, <1>8, DropLoads DEF t, u, ns2
<1>10. freed' = freed \cup {n}
  BY <1>4 DEF Free
<1>11. Full(u, p)
  <2>1. SUFFICES ASSUME NEW v \in Branches(u)
                 PROVE  u[v].items # {} /\ (v # p => \E e, f \in u[v].items : e # f)
    BY DEF Full
  <2>2. /\ v \in DOMAIN t /\ v # n /\ v \in Branches(t)
        /\ \A e : e \in u[v].items <=> e \in t[v].items /\ e.val # n
    BY <1>9 DEF Without, Branches
  <2>3. CASE v = p
    BY <1>7, <1>8, <2>2, <2>3
  <2>4. CASE v # p
    <3>1. \A e \in t[v].items : e.val # n
      <4>1. SUFFICES ASSUME NEW e \in t[v].items, e.val = n PROVE FALSE
        OBVIOUS
      <4>2. PICK f \in t[p].items : f.val = n
        BY <1>4, <1>7
      <4>3. e.val = f.val
        BY <4>1, <4>2
      <4> QED
        BY <1>6, <1>7, <2>2, <2>4, <4>3, TheParent
    <3>2. v # cur
      <4>1. v \in DOMAIN page
        <5>1. AllLoaded(page, node, freed) /\ Overlays(t, page, node, freed)
          BY <1>1, <1>2, LoadedNodes DEF t
        <5> QED
          BY <2>2, <5>1 DEF Overlays
      <4> QED
        BY <1>2, <2>2, <4>1, TypedRecords
    <3>3. t[v].items # {} /\ \E e, f \in t[v].items : e # f
      BY <1>2, <1>4, <2>2, <3>2 DEF Full
    <3> QED
      BY <2>2, <3>1, <3>3
  <2> QED
    BY <2>3, <2>4
<1>12. freed' \subseteq DOMAIN page /\ Full(TreeOf(page, ns2, freed'), p)
  BY <1>2, <1>4, <1>10, <1>11 DEF u
<1>13. \E h2, d2 : Loaded(page, ns2, freed', root, h2, d2)
  BY <1>9, <1>10
<1>14. LeafItems(u) = LeafItems(t)
  <2>1. t[n].items = {}
    BY <1>4, RowNone
  <2> QED
    BY <1>4, <1>9, <2>1, DropLeaves
<1>15. LeafItems(TreeOf(page, ns2, freed')) = Held
  BY <1>10, <1>14 DEF Held, t, u
<1> QED
  BY <1>3, <1>9, <1>12, <1>13, <1>15, Rebalances

\* Two neighbours are merged.
LEMMA MergeStep ==
  ASSUME TreeInv, phase = "rebalance", NEW n \in DOMAIN node, cur \in {0, n},
         NEW p, p = node[n].parent, p # 0, node[n].inodes # <<>>, Len(node[p].inodes) > 1,
         Merge([node EXCEPT ![n].unbalanced = FALSE], n)
  PROVE  TreeInv' /\ Held' = Held /\ Saved' = Saved
<1> DEFINE ns == [node EXCEPT ![n].unbalanced = FALSE]
           t == TreeOf(page, node, freed)
           q == ns[n].parent
           s == ns[q].inodes
           i == Index(s, ns[n].key)
           m == IF i = 1 THEN 1 ELSE i - 1
           sibling == s[IF i = 1 THEN 2 ELSE i - 1].val
           with == Node(ns, sibling, q)
           left == IF i = 1 THEN n ELSE sibling
           right == IF i = 1 THEN sibling ELSE n
           ns2 == Drop(JoinedNodes(with, left, right), right)
           u == TreeOf(page, ns2, freed \cup {right})
<1>1. PICK h, d : Loaded(page, node, freed, root, h, d)
  BY DEF TreeInv
<1>2. Typed(page, node) /\ Full(t, cur) /\ freed \subseteq DOMAIN page
  BY DEF TreeInv
<1>3. Settled(node, ns, n)
  BY DEF Settled
<1>4. Typed(page, ns) /\ Loaded(page, ns, freed, root, h, d) /\ SamePlace(node, ns) /\ TreeOf(page, ns, freed) = t
  BY <1>1, <1>2, <1>3, SettledLoads
<1>6. Free(with[right].pgid) /\ Rebalanced(ns2, q)
  BY Zenon DEF Merge, JoinedNodes
<1>0. n \in DOMAIN ns /\ q = p /\ s = ns[p].inodes /\ ns[n].key = node[n].key
  <2> HIDE DEF ns
  <2> QED
    BY <1>4 DEF SamePlace
<1>5. /\ n # 0 /\ n \in DOMAIN page \ freed /\ n \in DOMAIN t
      /\ p \in DOMAIN node /\ p # n /\ ~node[p].leaf
      /\ \E e \in ToSet(s) : e.val = n /\ e.key = node[n].key
      /\ s = node[p].inodes
  <2> HIDE DEF ns, q, s, i, m, sibling, with, left, right
  <2>1. /\ n # 0 /\ n \in DOMAIN page \ freed /\ n \in DOMAIN t
        /\ p \in DOMAIN node /\ p # n /\ ~node[p].leaf
        /\ \E e \in ToSet(node[p].inodes) : e.val = n /\ e.key = node[n].key
    BY NodeFacts
  <2>2. s = node[p].inodes
    BY <1>0, <1>4, <2>1 DEF SamePlace
  <2> QED
    BY <2>1, <2>2
<1> HIDE DEF ns, t, q
<1>7. Row(s) /\ node[n].key \in Nat /\ Len(s) \in Nat
  <2> HIDE DEF s, i, m, sibling, with, left, right
  <2>1. Row(node[p].inodes) /\ node[n].key \in Nat
    BY <1>2, <1>5, TypedRecords
  <2>2. Row(s)
    BY <1>5, <2>1
  <2> QED
    BY <2>1, <2>2, RowType
<1>8. /\ i \in 1 .. Len(s) /\ s[i].val = n
  <2> HIDE DEF s
  <2>1. PICK e \in ToSet(s) : e.val = n /\ e.key = node[n].key
    BY <1>5
  <2>0. i = Index(s, node[n].key)
    BY <1>0
  <2> HIDE DEF i, m, sibling, with, left, right
  <2>2. i \in 1 .. Len(s) /\ s[i].key = node[n].key
    BY <1>7, <2>0, <2>1, HasKey
  <2>3. s[i] \in ToSet(s)
    BY <1>7, <2>2, RowType
  <2>4. s[i] = e
    BY <1>7, <2>1, <2>2, <2>3, RowKeys
  <2> QED
    BY <2>1, <2>2, <2>4
<1> DEFINE a == s[m]
           b == s[m+1]
<1>9. /\ m \in 1 .. Len(s) - 1 /\ left = a.val /\ right = b.val
      /\ IF i = 1 THEN sibling = b.val ELSE sibling = a.val
  <2> HIDE DEF s, i
  <2>3. Len(s) > 1
    BY <1>5
  <2>1. i = 1 => m \in 1 .. Len(s) - 1 /\ m + 1 = 2
    BY <1>7, <1>8, <2>3
  <2>2. i # 1 => m \in 1 .. Len(s) - 1 /\ m + 1 = i
    BY <1>7, <1>8
  <2> QED
    BY <1>8, <2>1, <2>2
<1>10. /\ a \in ToSet(s) /\ b \in ToSet(s) /\ a.key < b.key /\ Neighbours(ToSet(s), a, b)
  <2> HIDE DEF s, m
  <2> QED
    BY <1>7, <1>9, RowNext
<1>11. \E e \in ToSet(s) : e.val = sibling
  BY <1>9, <1>10, Zenon
<1>12. (left = n \/ right = n) /\ (left = sibling \/ right = sibling) /\ (left = n \/ left = sibling)
       /\ (right = n \/ right = sibling)
  OBVIOUS
<1> HIDE DEF s, i, m, a, b, sibling, left, right
<1>13. ns[p].inodes = s /\ ~ns[p].leaf /\ p \in DOMAIN ns /\ ns[n].inodes = node[n].inodes /\ n \in DOMAIN ns
  BY <1>0, <1>4, <1>5 DEF SamePlace
<1>14. /\ Typed(page, with) /\ Loaded(page, with, freed, root, h, d) /\ TreeOf(page, with, freed) = t
       /\ \A x : x \in DOMAIN with <=> x \in DOMAIN ns \/ x = sibling
       /\ with[n].inodes = node[n].inodes /\ with[p].inodes = s /\ ~with[p].leaf
       /\ with = Node(ns, sibling, p)
  <2>1. \E e \in ToSet(ns[p].inodes) : e.val = sibling
    BY <1>11, <1>13
  <2>2. /\ Typed(page, Node(ns, sibling, p)) /\ Loaded(page, Node(ns, sibling, p), freed, root, h, d)
        /\ TreeOf(page, Node(ns, sibling, p), freed) = TreeOf(page, ns, freed)
        /\ \A x : x \in DOMAIN Node(ns, sibling, p) <=> x \in DOMAIN ns \/ x = sibling
        /\ \A x \in DOMAIN ns : /\ Node(ns, sibling, p)[x].inodes = ns[x].inodes
                                /\ Node(ns, sibling, p)[x].leaf = ns[x].leaf
    <3> HIDE DEF with, ns2, u
    <3> QED
      BY <1>2, <1>4, <1>13, <2>1, NodeLoads
  <2>3. with = Node(ns, sibling, p)
    BY <1>0
  <2> HIDE DEF with
  <2> QED
    BY <1>4, <1>13, <2>2, <2>3
<1> HIDE DEF with
<1>15. left \in DOMAIN with /\ right \in DOMAIN with /\ p \in DOMAIN with
  BY <1>12, <1>13, <1>14
<1>16. with[left].inodes # <<>> \/ with[right].inodes # <<>>
  BY <1>12, <1>14
<1>17. /\ Typed(page, ns2) /\ \E d2 : Loaded(page, ns2, freed \cup {right}, root, h, d2)
       /\ Without(t, u, right, left) /\ Joined(t, u, left, right)
       /\ p \in DOMAIN ns2 /\ ns2[p].unbalanced
  <2>1. a \in ToSet(with[p].inodes) /\ b \in ToSet(with[p].inodes) /\ Neighbours(ToSet(with[p].inodes), a, b)
    BY <1>10, <1>14
  <2>2. /\ Typed(page, ns2) /\ \E d2 : Loaded(page, ns2, freed \cup {right}, root, h, d2)
        /\ Without(TreeOf(page, with, freed), u, right, left)
        /\ Joined(TreeOf(page, with, freed), u, left, right)
        /\ p \in DOMAIN ns2 /\ ns2[p].unbalanced
    <3>1. ns2 = Drop(JoinedNodes(with, left, right), right)
      OBVIOUS
    <3>2. left = a.val /\ right = b.val /\ a.key < b.key
      BY <1>9, <1>10
    <3>3. Typed(page, with) /\ Loaded(page, with, freed, root, h, d) /\ ~with[p].leaf
      BY <1>14
    <3> HIDE DEF ns2, u
    <3>4. /\ Typed(page, ns2) /\ \E d2 : Loaded(page, ns2, freed \cup {right}, root, h, d2)
          /\ Without(TreeOf(page, with, freed), TreeOf(page, ns2, freed \cup {right}), right, left)
          /\ Joined(TreeOf(page, with, freed), TreeOf(page, ns2, freed \cup {right}), left, right)
          /\ p \in DOMAIN ns2 /\ ns2[p].unbalanced
      BY <1>15, <1>16, <2>1, <3>1, <3>2, <3>3, MergeLoads, Zenon
    <3> QED
      BY <3>4 DEF u
  <2> QED
    BY <1>14, <2>2
<1> HIDE DEF ns2
<1>18. right \in DOMAIN page /\ with[right].pgid = right
  BY <1>14, <1>15 DEF Loaded
<1>19. freed' = freed \cup {right}
  BY <1>6, <1>18 DEF Free
<1>20. Shape(t, root, h, d) /\ NodesOf(t, with)
  BY <1>14, LoadedNodes
<1>21. /\ p \in Branches(t) /\ a \in t[p].items /\ b \in t[p].items
       /\ n \in DOMAIN t /\ right \in DOMAIN t /\ left \in DOMAIN t
  BY <1>10, <1>14, <1>15, <1>20, <1>5 DEF NodesOf, Branches
<1> HIDE DEF u
<1>22. left # right /\ h[left] = h[right] /\ left # p /\ right # p /\ left # root /\ right # root
  <2>1. left # right
    <3>1. SUFFICES ASSUME a.val = b.val PROVE FALSE
      BY <1>9
    <3>2. a = b
      BY <1>20, <1>21, <3>1, TheParent
    <3>3. a.key \in Nat
      BY <1>20, <1>21, ChildFacts
    <3> QED
      BY <1>10, <3>2, <3>3
  <2>2. /\ h[a.val] + 1 = h[p] /\ h[b.val] + 1 = h[p]
        /\ a.val # p /\ b.val # p /\ a.val \in DOMAIN t \ {root} /\ b.val \in DOMAIN t \ {root}
    BY <1>20, <1>21, ChildFacts
  <2>3. h[a.val] \in Nat /\ h[b.val] \in Nat
    BY <1>20, <2>2, ChildFacts
  <2> QED
    BY <1>9, <2>1, <2>2, <2>3
<1>23. DOMAIN t \subseteq DOMAIN page
  <2>1. AllLoaded(page, node, freed) /\ Overlays(t, page, node, freed)
    BY <1>1, <1>2, LoadedNodes DEF t
  <2> QED
    BY <2>1 DEF Overlays
<1>24. Full(u, p)
  <2>1. SUFFICES ASSUME NEW v \in Branches(u)
                 PROVE  u[v].items # {} /\ (v # p => \E e, f \in u[v].items : e # f)
    BY DEF Full
  <2>2. /\ v \in DOMAIN t /\ v # right /\ v \in Branches(t)
        /\ v # left => \A e : e \in u[v].items <=> e \in t[v].items /\ e.val # right
    BY <1>17 DEF Without, Branches
  <2>3. CASE v = p
    <3>1. a \in u[v].items
      BY <1>9, <1>21, <1>22, <2>2, <2>3
    <3> QED
      BY <2>3, <3>1
  <2>4. CASE v = left
    <3>1. right \in Branches(t)
      BY <1>20, <1>21, <1>22, <2>2, <2>4 DEF Shape, Heights, Branches
    <3>2. PICK e \in t[left].items : TRUE
      BY <1>2, <2>2, <2>4 DEF Full
    <3>3. PICK f \in t[right].items : TRUE
      BY <1>2, <3>1 DEF Full
    <3>4. e # f
      <4>1. SUFFICES ASSUME e.val = f.val PROVE FALSE
        OBVIOUS
      <4> QED
        BY <1>20, <1>22, <2>2, <2>4, <3>1, <3>2, <3>3, <4>1, TheParent
    <3>5. e \in u[v].items /\ f \in u[v].items
      BY <1>17, <2>4, <3>2, <3>3 DEF Joined
    <3> QED
      BY <3>4, <3>5
  <2>5. CASE v # p /\ v # left
    <3>1. \A e \in t[v].items : e.val # right
      <4>1. SUFFICES ASSUME NEW e \in t[v].items, e.val = b.val PROVE FALSE
        BY <1>9
      <4> QED
        BY <1>20, <1>21, <2>2, <2>5, <4>1, TheParent
    <3>2. v # cur
      <4>1. v \in DOMAIN page
        BY <1>23, <2>2
      <4>2. v # 0
        BY <1>2, <4>1, TypedRecords
      <4> QED
        BY <1>12, <2>2, <2>5, <4>2
    <3>3. t[v].items # {} /\ \E e, f \in t[v].items : e # f
      BY <1>2, <2>2, <3>2 DEF Full
    <3> QED
      BY <2>2, <2>5, <3>1, <3>3
  <2> QED
    BY <2>3, <2>4, <2>5
<1>25. freed' \subseteq DOMAIN page /\ Full(TreeOf(page, ns2, freed'), p)
  BY <1>2, <1>18, <1>19, <1>24 DEF u
<1>26. \E h2, d2 : Loaded(page, ns2, freed', root, h2, d2)
  BY <1>17, <1>19
<1>27. LeafItems(u) = LeafItems(t)
  <2>1. t[left].leaf = t[right].leaf
    BY <1>20, <1>21, <1>22 DEF Shape, Heights, Kinds
  <2> QED
    BY <1>17, <1>21, <1>22, <2>1, MergeLeaves
<1>28. LeafItems(TreeOf(page, ns2, freed')) = Held
  BY <1>19, <1>27 DEF Held, t, u
<1> QED
  BY <1>0, <1>6, <1>17, <1>25, <1>26, <1>28, Rebalances

LEMMA RebalanceStep ==
  ASSUME TreeInv, NEW n \in DOMAIN node, Rebalance(n)
  PROVE  TreeInv' /\ Held' = Held /\ Saved' = Saved
<1> DEFINE ns == [node EXCEPT ![n].unbalanced = FALSE]
           p == node[n].parent
           big == BigEnough(node[n])
           single == ~node[n].leaf /\ Len(node[n].inodes) = 1
           empty == node[n].inodes = <<>>
<1>1. phase = "rebalance" /\ cur \in {0, n}
  BY DEF Rebalance
<1>2. /\ big => Rebalanced(ns, 0) /\ freed' = freed
      /\ ~big /\ p = 0 /\ single => Collapse(ns, n)
      /\ ~big /\ p = 0 /\ ~single => Rebalanced(ns, 0) /\ freed' = freed
      /\ ~big /\ p # 0 /\ empty => Free(node[n].pgid) /\ Rebalanced(Drop(ns, n), p)
      /\ ~big /\ p # 0 /\ ~empty => Len(node[p].inodes) > 1 /\ Merge(ns, n)
  BY DEF Rebalance
<1>3. /\ Row(node[n].inodes)
      /\ p = 0 => n = root
      /\ empty => node[n].leaf
      /\ ~node[n].leaf /\ n # cur => Len(node[n].inodes) >= 2
  <2> HIDE DEF ns, big, single, empty
  <2> DEFINE q == p
  <2>1. q = node[n].parent
    OBVIOUS
  <2> HIDE DEF q
  <2> QED
    BY <1>1, <2>1, NodeFacts DEF empty
<1>4. /\ Len(node[n].inodes) \in Nat /\ DOMAIN node[n].inodes = 1 .. Len(node[n].inodes)
      /\ empty <=> Len(node[n].inodes) = 0
  BY <1>3, RowType, RowSize
<1>5. CASE big
  <2>1. ~empty /\ (node[n].leaf \/ Len(node[n].inodes) >= 2)
    <3> DEFINE l == Len(node[n].inodes)
    <3>1. l > MinKeys(node[n].leaf) /\ l \in Nat /\ (empty <=> l = 0)
      BY <1>4, <1>5 DEF BigEnough
    <3> HIDE DEF l, empty
    <3>2. ~empty /\ (node[n].leaf \/ l >= 2)
      BY <3>1 DEF MinKeys
    <3> QED
      BY <3>2 DEF l
  <2> HIDE DEF big, p, single
  <2> QED
    BY <1>1, <1>2, <1>5, <2>1, SettleStep
<1>6. CASE ~big /\ p = 0 /\ single
  <2>1. n = root /\ ~node[n].leaf
    BY <1>3, <1>6
  <2>2. ~empty
    BY <1>3, <1>6
  <2>3. cur = n
    <3> DEFINE l == Len(node[n].inodes)
    <3>1. l = 1 /\ (n # cur => l >= 2)
      BY <1>3, <1>6
    <3> HIDE DEF l, big, p, single, empty, ns
    <3> QED
      BY <3>1
  <2>4. \A e \in ToSet(node[n].inodes) : e = node[n].inodes[1]
    <3>1. ToSet(node[n].inodes) = {node[n].inodes[i] : i \in 1 .. Len(node[n].inodes)}
      BY <1>3, RowType
    <3> DEFINE l == Len(node[n].inodes)
    <3>2. l = 1
      BY <1>6
    <3>3. \A i \in 1 .. l : i = 1
      <4> HIDE DEF l
      <4> QED
        BY <3>2
    <3> QED
      BY <3>1, <3>3
  <2>5. Collapse(ns, n)
    BY <1>2, <1>6
  <2> HIDE DEF big, p, single
  <2> QED
    BY <1>1, <2>1, <2>2, <2>3, <2>4, <2>5, CollapseStep
<1>7. CASE ~big /\ p = 0 /\ ~single
  <2>1. n = root
    BY <1>3, <1>7
  <2>2. node[n].leaf \/ Len(node[n].inodes) >= 2
    <3> DEFINE l == Len(node[n].inodes)
    <3>1. l \in Nat /\ (empty <=> l = 0) /\ (empty => node[n].leaf) /\ (node[n].leaf \/ l # 1)
      BY <1>3, <1>4, <1>7
    <3> HIDE DEF l, empty, big, p, single, ns
    <3>2. node[n].leaf \/ l >= 2
      BY <3>1
    <3> QED
      BY <3>2 DEF l
  <2>3. Rebalanced(ns, 0) /\ freed' = freed
    BY <1>2, <1>7
  <2> HIDE DEF big, p, single, empty
  <2> QED
    BY <1>1, <2>1, <2>2, <2>3, SettleStep
<1>8. CASE ~big /\ p # 0 /\ empty
  <2>1. Free(node[n].pgid) /\ Rebalanced(Drop(ns, n), p) /\ p # 0 /\ node[n].inodes = <<>>
    BY <1>2, <1>8
  <2>2. p = node[n].parent
    OBVIOUS
  <2> HIDE DEF big, p, single, empty
  <2> QED
    BY <1>1, <2>1, <2>2, DropStep
<1>9. CASE ~big /\ p # 0 /\ ~empty
  <2>1. Merge(ns, n) /\ Len(node[p].inodes) > 1 /\ p # 0 /\ node[n].inodes # <<>>
    BY <1>2, <1>9
  <2>2. p = node[n].parent
    OBVIOUS
  <2> HIDE DEF big, p, single, empty
  <2> QED
    BY <1>1, <2>1, <2>2, MergeStep
<1> HIDE DEF big, p, single, empty
<1> QED
  BY <1>5, <1>6, <1>7, <1>8, <1>9

\* Every node that is merged has a sibling.
LEMMA RebalancePanicsNot ==
  ASSUME TreeInv, NEW n \in DOMAIN node, RebalancePanics(n)
  PROVE  FALSE
<1> DEFINE p == node[n].parent
           l == Len(node[p].inodes)
<1>1. phase = "rebalance" /\ cur \in {0, n} /\ p # 0 /\ l < 2
  BY DEF RebalancePanics
<1>2. p = node[n].parent
  OBVIOUS
<1> HIDE DEF p
<1>3. p \in DOMAIN node /\ p # n /\ ~node[p].leaf
  BY <1>1, <1>2, NodeFacts
<1> DEFINE q == node[p].parent
<1>4. q = node[p].parent
  OBVIOUS
<1> HIDE DEF q
<1>5. ~node[p].leaf /\ p # cur => Len(node[p].inodes) >= 2
  BY <1>1, <1>3, <1>4, NodeFacts
<1>6. l >= 2 /\ l \in Nat
  <2>1. p # cur
    BY <1>1, <1>3
  <2>2. Row(node[p].inodes)
    BY <1>3, TypedRecords DEF TreeInv
  <2> QED
    BY <1>3, <1>5, <2>1, <2>2, RowType
<1> HIDE DEF l
<1> QED
  BY <1>1, <1>6

LEMMA CommitStep ==
  ASSUME TreeInv, Commit
  PROVE  TreeInv' /\ Held' = Held /\ Saved' = Saved
<1>1. /\ phase = "open" /\ phase' = "rebalance" /\ page' = page /\ root' = root /\ node' = node
      /\ freed' = freed /\ written' = written /\ cur' = cur
  BY DEF Commit, tree
<1>2. Progress'
  BY <1>1 DEF TreeInv, Progress
<1>3. \E h, d : Loaded(page, node, freed, root, h, d)
  BY <1>1 DEF TreeInv
<1>4. TreeInv'
  BY <1>1, <1>2, <1>3 DEF TreeInv
<1> QED
  BY <1>1, <1>4 DEF Held, Saved

\* The root's node is above all others.
LEMMA LoadedSteep ==
  ASSUME Typed(page, node), node # <<>>, NEW h, NEW d, Loaded(page, node, freed, root, h, d)
  PROVE  root \in DOMAIN node /\ ~node[root].spilled /\ Links(node, root) /\ Steep(node, root, h)
<1> DEFINE t == TreeOf(page, node, freed)
<1>1. Shape(t, root, h, d) /\ AllLoaded(page, node, freed) /\ NodesOf(t, node)
  BY LoadedNodes
<1>2. Links(node, root)
  BY DEF Loaded
<1>3. root \in DOMAIN node /\ h[root] \in Nat
  BY <1>1, <1>2 DEF Links, Shape, Heights
<1> HIDE DEF t
<1>4. ASSUME NEW n \in DOMAIN node \ {root}
      PROVE  h[n] \in Nat /\ h[n] < h[node[n].parent] /\ h[n] < h[root]
  <2>1. n \in DOMAIN t /\ h[n] \in Nat /\ h[n] < h[root]
    BY <1>1, <1>4 DEF NodesOf, Shape, Heights
  <2> DEFINE p == node[n].parent
  <2>2. p \in DOMAIN node /\ ~node[p].leaf /\ \E e \in ToSet(node[p].inodes) : e.val = n
    BY <1>1, <1>2, <1>4 DEF Links, AllLoaded
  <2> HIDE DEF p
  <2>3. p \in Branches(t) /\ \E e \in t[p].items : e.val = n
    BY <1>1, <2>2 DEF NodesOf, Branches
  <2>4. h[n] + 1 = h[p]
    BY <1>1, <2>3, ChildFacts
  <2>5. h[n] < h[p]
    BY <2>1, <2>4
  <2> QED
    BY <2>1, <2>5 DEF p
<1> QED
  BY <1>1, <1>2, <1>3, <1>4 DEF Steep, AllLoaded

\* The nodes are written when none is left to be rebalanced.
LEMMA StartSpillStep ==
  ASSUME TreeInv, StartSpill
  PROVE  TreeInv' /\ Held' = Held /\ Saved' = Saved
<1> DEFINE t == TreeOf(page, node, freed)
<1>1. /\ phase = "rebalance" /\ phase' = "spill" /\ page' = page /\ root' = root /\ node' = node
      /\ freed' = freed /\ written' = written /\ cur' = cur
      /\ \A n \in DOMAIN node : ~node[n].unbalanced
  BY DEF StartSpill, tree
<1>2. Progress'
  BY <1>1 DEF TreeInv, Progress
<1>3. PICK h, d : Loaded(page, node, freed, root, h, d)
  BY <1>1 DEF TreeInv
<1>4. Typed(page, node)
  BY DEF TreeInv
<1>5. Shape(t, root, h, d) /\ AllLoaded(page, node, freed) /\ Overlays(t, page, node, freed) /\ NodesOf(t, node)
  BY <1>3, <1>4, LoadedNodes
<1>6. TreeTop(node, root, root) = root
  <2>1. node # <<>> => ~node[root].spilled
    BY <1>3, <1>5 DEF Loaded, Links, AllLoaded
  <2> QED
    BY <2>1 DEF TreeTop
<1>7. ASSUME NEW v \in DOMAIN t \ {root} PROVE t[v].items # {}
  <2>1. v \in DOMAIN page \ freed /\ v # root
    BY <1>5 DEF Overlays
  <2> QED
    BY <1>1, <1>3, <2>1 DEF Loaded
<1> HIDE DEF t
<1>8. node # <<>> => root \in DOMAIN node /\ Links(node, root) /\ Steep(node, root, h)
  BY <1>3, <1>4, LoadedSteep
<1>9. Stands(page, node, freed)
  BY <1>5 DEF Stands, AllLoaded
<1>10. Spilling(page, node, freed, root, root, h, d)
  BY <1>5, <1>6, <1>7, <1>8, <1>9 DEF Spilling, t
<1>11. \E top, h2, d2 : Spilling(page', node', freed', root', top, h2, d2)
  BY <1>1, <1>10
<1>12. TreeInv'
  BY <1>1, <1>2, <1>11 DEF TreeInv
<1> QED
  BY <1>1, <1>12 DEF Held, Saved

LEMMA UnusedIds ==
  ASSUME DOMAIN page \subseteq Pgids, NEW i \in 1 .. Cardinality(Pgids \ DOMAIN page)
  PROVE  /\ Unused(i) \in Pgids \ DOMAIN page
         /\ \A j \in 1 .. Cardinality(Pgids \ DOMAIN page) : j # i => Unused(j) # Unused(i)
<1> DEFINE F == Pgids \ DOMAIN page
<1>1. F \subseteq Int /\ IsFiniteSet(F)
  <2>1. Pgids \subseteq Nat /\ IsFiniteSet(Pgids) /\ F \in SUBSET Pgids
    BY TreeAssumption DEF TreeAssumption
  <2>2. F \subseteq Int
    <3>1. \A x \in Pgids : x \in Int
      BY <2>1
    <3>2. \A x \in F : x \in Pgids
      OBVIOUS
    <3> HIDE DEF F
    <3> QED
      BY <3>1, <3>2
  <2> QED
    BY <2>1, <2>2, FS_Subset
<1>2. \A j : Unused(j) = CHOOSE p \in F : RankOf(F, p) = j - 1
  BY DEF Unused, RankOf, Below
<1> HIDE DEF F
<1>3. ASSUME NEW j \in 1 .. Cardinality(F) PROVE Unused(j) \in F /\ RankOf(F, Unused(j)) = j - 1
  <2>1. \E p \in F : RankOf(F, p) = j - 1
    BY <1>1, RankTaken
  <2>2. Unused(j) = CHOOSE p \in F : RankOf(F, p) = j - 1
    BY <1>2
  <2> QED
    BY <2>1, <2>2
<1>4. Cardinality(F) \in Nat
  BY <1>1, FS_CardinalityType
<1>5. i \in 1 .. Cardinality(F)
  BY DEF F
<1>6. ASSUME NEW j \in 1 .. Cardinality(F), Unused(j) = Unused(i) PROVE j = i
  BY <1>3, <1>4, <1>5, <1>6
<1> QED
  BY <1>3, <1>5, <1>6 DEF F

-----------------------------------------------------------------------------
(***************************************************************************)
(* The node that is written next.                                          *)
(***************************************************************************)
LEMMA StandsNames ==
  ASSUME NEW pages, NEW ns, NEW gone, Typed(pages, ns), Stands(pages, ns, gone), NEW n \in DOMAIN ns
  PROVE  n \in Int /\ n # 0 /\ (n \in DOMAIN pages \/ n < 0)
<1>1. n \in DOMAIN pages \/ n < 0
  BY DEF Stands
<1>2. n \in Int
  BY DEF Typed
<1>3. n \in DOMAIN pages => n # 0
  BY TypedRecords
<1> QED
  BY <1>1, <1>2, <1>3

\* node.root
LEMMA TopIs ==
  ASSUME NEW top, NEW h, Links(node, top), Steep(node, top, h), root \in DOMAIN node,
         0 \notin DOMAIN node
  PROVE  Top = top
<1> DEFINE next == ToParent
           rank == [n \in DOMAIN node |-> h[top] - h[n]]
<1>1. DOMAIN next = DOMAIN node /\ next = [n \in DOMAIN node |-> next[n]]
  BY DEF ToParent
<1>2. ASSUME NEW n \in DOMAIN node
      PROVE  next[n] = IF n = top THEN top ELSE node[n].parent
  <2>1. n # top => node[n].parent \in DOMAIN node
    BY DEF Links
  <2>2. n = top => node[n].parent = 0
    BY DEF Links
  <2>3. next[n] = IF node[n].parent = 0 THEN n ELSE node[n].parent
    BY DEF ToParent
  <2> QED
    BY <2>1, <2>2, <2>3
<1>3. \A n \in DOMAIN node : n # top => node[n].parent \in DOMAIN node
  BY DEF Links
<1>4. top \in DOMAIN node
  BY DEF Links
<1>5. \A n \in DOMAIN node : /\ h[n] \in Nat /\ h[top] \in Nat /\ h[n] <= h[top]
                             /\ n # top => h[n] < h[node[n].parent]
  BY DEF Steep
<1> HIDE DEF next
<1>6. Ranked(next, rank)
  <2>1. next \in [DOMAIN next -> DOMAIN next]
    BY <1>1, <1>2, <1>3, <1>4
  <2>2. rank \in [DOMAIN next -> Nat]
    BY <1>1, <1>5
  <2>3. ASSUME NEW y \in DOMAIN next, next[y] # y PROVE rank[next[y]] < rank[y]
    <3>1. y \in DOMAIN node /\ y # top /\ next[y] = node[y].parent /\ node[y].parent \in DOMAIN node
      BY <1>1, <1>2, <1>3, <2>3
    <3>2. h[y] < h[next[y]] /\ h[y] \in Nat /\ h[next[y]] \in Nat /\ h[top] \in Nat
      BY <1>5, <3>1
    <3> QED
      BY <3>1, <3>2
  <2> QED
    BY <2>1, <2>2, <2>3 DEF Ranked
<1> DEFINE w == Follow(next, root)
<1>7. IsWay(next, root, w)
  BY <1>1, <1>6, FollowIsWay
<1>8. Top = Last(w)
  BY DEF Top, next
<1> HIDE DEF w
<1>9. w \in Seq(DOMAIN next) /\ Len(w) \in Nat \ {0} /\ next[w[Len(w)]] = w[Len(w)]
  BY <1>7 DEF IsWay
<1> DEFINE l == Len(w)
           z == w[l]
<1>10. z \in DOMAIN node
  <2>1. DOMAIN w = 1 .. l /\ \A i \in 1 .. l : w[i] \in DOMAIN next
    BY <1>9
  <2>2. l \in 1 .. l
    BY <1>9
  <2> QED
    BY <1>1, <2>1, <2>2
<1>11. Top = z
  BY <1>8 DEF Last
<1>12. next[z] = z
  BY <1>9
<1> HIDE DEF z
<1>13. z = top
  <2>1. ASSUME z # top PROVE FALSE
    <3>1. node[z].parent = z
      BY <1>2, <1>10, <1>12, <2>1
    <3>2. h[z] < h[node[z].parent] /\ h[z] \in Nat
      BY <1>5, <1>10, <2>1
    <3> QED
      BY <3>1, <3>2
  <2> QED
    BY <2>1
<1> QED
  BY <1>11, <1>13

\* A node with the least first key.
LEMMA LeastIn ==
  ASSUME NEW cs, cs # {}, \A c \in cs : FirstKey(node[c].inodes) \in Nat
  PROVE  Least(cs) \in cs
<1> DEFINE ks == {FirstKey(node[c].inodes) : c \in cs}
<1>1. ks \in SUBSET Nat /\ ks # {}
  OBVIOUS
<1>2. PICK k \in ks : \A x \in ks : k <= x
  <2> HIDE DEF ks
  <2> QED
    BY <1>1, LeastNumber
<1>3. \E c \in cs : \A d \in cs : FirstKey(node[c].inodes) <= FirstKey(node[d].inodes)
  BY <1>2
<1> QED
  BY <1>3 DEF Least

\* A node is written when all its children are.
LEMMA NextIs ==
  ASSUME Typed(page, node), NEW top, NEW h, Links(node, top), Steep(node, top, h),
         0 \notin DOMAIN node, Top = top, ~node[top].spilled
  PROVE  /\ NextToSpill \in DOMAIN node /\ ~node[NextToSpill].spilled
         /\ \A c \in node[NextToSpill].children : c \in DOMAIN node /\ node[c].spilled
<1> DEFINE next == ToUnspilled
           rank == [n \in DOMAIN node |-> h[n]]
<1>1. /\ DOMAIN next = DOMAIN node
      /\ \A n \in DOMAIN node : next[n] = IF Unspilled(n) = {} THEN n ELSE Least(Unspilled(n))
  BY DEF ToUnspilled
<1>2. next = [n \in DOMAIN node |-> next[n]]
  BY DEF ToUnspilled
<1>3. top \in DOMAIN node
  BY DEF Links
<1>4. \A n \in DOMAIN node : h[n] \in Nat /\ (n # top => h[n] < h[node[n].parent])
  BY DEF Steep
<1>5. ASSUME NEW n \in DOMAIN node, Unspilled(n) # {}
      PROVE  /\ Least(Unspilled(n)) \in DOMAIN node /\ ~node[Least(Unspilled(n))].spilled
             /\ h[Least(Unspilled(n))] < h[n]
  <2>1. \A c \in Unspilled(n) : c \in DOMAIN node /\ node[c].parent = n /\ ~node[c].spilled
    BY DEF Unspilled, Links
  <2>2. \A c \in DOMAIN node : Row(node[c].inodes)
    BY TypedRecords
  <2>3. \A c \in Unspilled(n) : FirstKey(node[c].inodes) \in Nat
    BY <2>1, <2>2, RowFirst
  <2> DEFINE c == Least(Unspilled(n))
  <2>4. c \in Unspilled(n)
    BY <1>5, <2>3, LeastIn
  <2> HIDE DEF c
  <2>5. c \in DOMAIN node /\ node[c].parent = n /\ ~node[c].spilled
    BY <2>1, <2>4
  <2>6. c # top
    BY <2>5 DEF Links
  <2>7. h[c] < h[n]
    BY <1>4, <2>5, <2>6
  <2> QED
    BY <2>5, <2>7 DEF c
<1> HIDE DEF next
<1>6. Ranked(next, rank)
  <2>1. next \in [DOMAIN next -> DOMAIN next]
    BY <1>1, <1>2, <1>5
  <2>2. rank \in [DOMAIN next -> Nat]
    BY <1>1, <1>4
  <2>3. ASSUME NEW y \in DOMAIN next, next[y] # y PROVE rank[next[y]] < rank[y]
    <3>1. y \in DOMAIN node /\ Unspilled(y) # {} /\ next[y] = Least(Unspilled(y))
      BY <1>1, <2>3
    <3>2. next[y] \in DOMAIN node /\ h[next[y]] < h[y]
      BY <1>5, <3>1
    <3> QED
      BY <3>1, <3>2
  <2> QED
    BY <2>1, <2>2, <2>3 DEF Ranked
<1> DEFINE w == Follow(next, top)
<1>7. IsWay(next, top, w)
  BY <1>1, <1>3, <1>6, FollowIsWay
<1>8. NextToSpill = Last(w)
  BY DEF NextToSpill, next
<1> HIDE DEF w
<1>9. /\ w \in Seq(DOMAIN next) /\ Len(w) \in Nat \ {0} /\ next[w[Len(w)]] = w[Len(w)] /\ w[1] = top
      /\ \A i \in 1 .. Len(w) - 1 : w[i+1] = next[w[i]] /\ next[w[i]] # w[i]
  BY <1>7 DEF IsWay
<1> DEFINE l == Len(w)
           z == w[l]
<1>10. \A i \in 1 .. l : w[i] \in DOMAIN node
  BY <1>1, <1>9
<1>11. NextToSpill = z
  BY <1>8 DEF Last
<1>12. next[z] = z /\ l \in Nat \ {0}
  BY <1>9
<1>13. z \in DOMAIN node
  <2>1. l \in 1 .. l
    BY <1>9
  <2> QED
    BY <1>10, <2>1
<1>14. ~node[z].spilled
  <2>1. CASE l = 1
    BY <1>9, <2>1
  <2>2. CASE l # 1
    <3>1. l - 1 \in 1 .. l - 1 /\ (l - 1) + 1 = l /\ l - 1 \in 1 .. l
      <4> HIDE DEF l, z
      <4> QED
        BY <1>12, <2>2
    <3> DEFINE y == w[l-1]
    <3>2. y \in DOMAIN node
      BY <1>10, <3>1
    <3>3. z = next[y] /\ next[y] # y
      BY <1>9, <3>1
    <3> HIDE DEF y, z
    <3>4. Unspilled(y) # {} /\ z = Least(Unspilled(y))
      BY <1>1, <3>2, <3>3
    <3> QED
      BY <1>5, <3>2, <3>4
  <2> QED
    BY <2>1, <2>2
<1> HIDE DEF z
<1>15. Unspilled(z) = {}
  <2>1. ASSUME Unspilled(z) # {} PROVE FALSE
    <3>1. Least(Unspilled(z)) = z
      BY <1>1, <1>12, <1>13, <2>1
    <3>2. h[Least(Unspilled(z))] < h[z] /\ h[z] \in Nat
      BY <1>4, <1>5, <1>13, <2>1
    <3> QED
      BY <3>1, <3>2
  <2> QED
    BY <2>1
<1>16. \A c \in node[z].children : c \in DOMAIN node /\ node[c].spilled
  BY <1>13, <1>15 DEF Unspilled, Links
<1> QED
  BY <1>11, <1>13, <1>14, <1>16

-----------------------------------------------------------------------------
(***************************************************************************)
(* A node is written: pages, nodes and links.                              *)
(***************************************************************************)
\* No node or page is named 0.
LEMMA NoTreeAtZero ==
  ASSUME NEW pages, NEW ns, NEW gone, Typed(pages, ns), Stands(pages, ns, gone)
  PROVE  0 \notin DOMAIN TreeOf(pages, ns, gone)
<1>1. \A x \in DOMAIN ns : x # 0
  BY StandsNames
<1>2. \A x \in DOMAIN pages : x # 0
  BY TypedRecords
<1> QED
  BY <1>1, <1>2 DEF TreeOf, Live

-----------------------------------------------------------------------------
(***************************************************************************)
(* A node is written.                                                      *)
(***************************************************************************)
\* Node n is written to the pages in I, and its own page is freed.
Writes(pages, ns, gone, pages2, ns2, gone2, n, I) ==
  /\ n \in DOMAIN ns /\ ~ns[n].spilled /\ \A c \in ns[n].children : ns[c].spilled
  /\ I \subseteq Pgids /\ \A x \in I : x \notin DOMAIN pages
  /\ \A x : x \in DOMAIN pages2 <=> x \in DOMAIN pages \/ x \in I
  /\ \A x \in DOMAIN pages : pages2[x] = pages[x]
  /\ \A x : x \in gone2 <=> x \in gone \/ (x = n /\ n \in DOMAIN pages)
  /\ DOMAIN ns2 = DOMAIN ns
  /\ ns2[n].spilled /\ ns2[n].children = {} /\ ns2[n].parent = ns[n].parent
  /\ \A m \in DOMAIN ns : m # n =>
       /\ ns2[m].leaf = ns[m].leaf /\ ns2[m].key = ns[m].key /\ ns2[m].pgid = ns[m].pgid
       /\ ns2[m].parent = ns[m].parent /\ ns2[m].children = ns[m].children
       /\ ns2[m].spilled = ns[m].spilled
       /\ \A e \in ToSet(ns[m].inodes) : e.val # n => e \in ToSet(ns2[m].inodes)

\* The links of the other nodes stay.
LEMMA WritesLinks ==
  ASSUME NEW pages, NEW ns, NEW gone, NEW pages2, NEW ns2, NEW gone2, NEW n, NEW I,
         Writes(pages, ns, gone, pages2, ns2, gone2, n, I),
         NEW top, NEW h, Links(ns, top), Steep(ns, top, h),
         NEW h2, \A m \in DOMAIN ns : h2[m] = h[m]
  PROVE  Links(ns2, top) /\ Steep(ns2, top, h2)
<1>1. /\ DOMAIN ns2 = DOMAIN ns /\ n \in DOMAIN ns /\ \A m \in DOMAIN ns : ns2[m].parent = ns[m].parent
      /\ ns2[n].spilled /\ ns2[n].children = {} /\ ~ns[n].spilled
  BY DEF Writes
<1>2. \A m \in DOMAIN ns : m # n =>
        /\ ns2[m].leaf = ns[m].leaf /\ ns2[m].children = ns[m].children /\ ns2[m].spilled = ns[m].spilled
        /\ \A e \in ToSet(ns[m].inodes) : e.val # n => e \in ToSet(ns2[m].inodes)
  BY DEF Writes
<1>3. top \in DOMAIN ns /\ ns[top].parent = 0
  BY DEF Links
<1>4. ASSUME NEW m \in DOMAIN ns, NEW c \in ns2[m].children PROVE c \in DOMAIN ns /\ ns2[c].parent = m
  <2>1. c \in ns[m].children
    BY <1>1, <1>2, <1>4
  <2>2. c \in DOMAIN ns /\ ns[c].parent = m
    BY <2>1 DEF Links
  <2> QED
    BY <1>1, <2>2
<1>5. ASSUME NEW m \in DOMAIN ns, m # top
      PROVE  /\ ns2[m].parent \in DOMAIN ns
             /\ ~ns2[m].spilled => LET p == ns2[m].parent IN
                                   /\ ~ns2[p].spilled /\ m \in ns2[p].children
                                   /\ ~ns2[p].leaf /\ \E e \in ToSet(ns2[p].inodes) : e.val = m
  <2> DEFINE p == ns[m].parent
  <2>1. /\ p \in DOMAIN ns
        /\ ~ns[m].spilled => /\ ~ns[p].spilled /\ m \in ns[p].children
                             /\ ~ns[p].leaf /\ \E e \in ToSet(ns[p].inodes) : e.val = m
    BY <1>5 DEF Links
  <2>2. ns2[m].parent = p
    BY <1>1
  <2> HIDE DEF p
  <2>3. ASSUME ~ns2[m].spilled
        PROVE  /\ ~ns2[p].spilled /\ m \in ns2[p].children
               /\ ~ns2[p].leaf /\ \E e \in ToSet(ns2[p].inodes) : e.val = m
    <3>1. m # n /\ ~ns[m].spilled
      BY <1>1, <1>2, <2>3
    <3>2. p # n
      <4>1. \A c \in ns[n].children : ns[c].spilled
        BY DEF Writes
      <4> QED
        BY <2>1, <3>1, <4>1
    <3>3. PICK e \in ToSet(ns[p].inodes) : e.val = m
      BY <2>1, <3>1
    <3>4. e \in ToSet(ns2[p].inodes)
      BY <1>2, <2>1, <3>1, <3>2, <3>3
    <3> QED
      BY <1>2, <2>1, <3>1, <3>2, <3>3, <3>4
  <2> QED
    BY <2>1, <2>2, <2>3
<1>6. Links(ns2, top)
  BY <1>1, <1>3, <1>4, <1>5 DEF Links
<1>7. Steep(ns2, top, h2)
  <2>1. h2[top] = h[top] /\ h[top] \in Nat
    BY <1>3 DEF Steep
  <2>2. ASSUME NEW m \in DOMAIN ns \ {top}
        PROVE  h2[m] \in Nat /\ h2[m] < h2[ns2[m].parent] /\ h2[m] < h2[top]
    <3>1. ns[m].parent \in DOMAIN ns
      BY DEF Links
    <3>2. h[m] \in Nat /\ h[m] < h[ns[m].parent] /\ h[m] < h[top]
      BY DEF Steep
    <3> QED
      BY <1>1, <1>3, <3>1, <3>2
  <2> QED
    BY <1>1, <2>1, <2>2 DEF Steep
<1> QED
  BY <1>6, <1>7

\* The node that was written stands for nothing any more, the others for what they did.
LEMMA WritesStands ==
  ASSUME NEW pages, NEW ns, NEW gone, NEW pages2, NEW ns2, NEW gone2, NEW n, NEW I,
         Writes(pages, ns, gone, pages2, ns2, gone2, n, I),
         Typed(pages, ns), Stands(pages, ns, gone)
  PROVE  Stands(pages2, ns2, gone2)
<1>1. ASSUME NEW m \in DOMAIN ns
      PROVE  /\ m \in DOMAIN pages2 \/ m < 0
             /\ IF ns2[m].spilled
                THEN m \notin DOMAIN pages2 \ gone2
                ELSE \/ m \in DOMAIN pages2 \ gone2 /\ ns2[m].pgid = m
                     \/ m < 0 /\ ns2[m].pgid = 0
  <2>1. m \in Int /\ (m \in DOMAIN pages \/ m < 0) /\ m \notin I
    <3>1. m \in Int /\ (m \in DOMAIN pages \/ m < 0)
      BY StandsNames
    <3>2. \A x \in I : x \in Nat /\ x \notin DOMAIN pages
      BY TreeAssumption DEF Writes
    <3> QED
      BY <3>1, <3>2
  <2>2. /\ m \in DOMAIN pages2 <=> m \in DOMAIN pages
        /\ m \in gone2 <=> m \in gone \/ (m = n /\ n \in DOMAIN pages)
    BY <2>1 DEF Writes
  <2>3. CASE m = n
    <3>1. ns2[m].spilled
      BY <2>3 DEF Writes
    <3> QED
      BY <2>1, <2>2, <2>3, <3>1
  <2>4. CASE m # n
    <3>1. ns2[m].spilled = ns[m].spilled /\ ns2[m].pgid = ns[m].pgid
      BY <2>4 DEF Writes
    <3>2. IF ns[m].spilled THEN m \notin DOMAIN pages \ gone
          ELSE \/ m \in DOMAIN pages \ gone /\ ns[m].pgid = m
               \/ m < 0 /\ ns[m].pgid = 0
      BY DEF Stands
    <3> QED
      BY <2>1, <2>2, <2>4, <3>1, <3>2
  <2> QED
    BY <2>3, <2>4
<1>2. DOMAIN ns2 = DOMAIN ns
  BY DEF Writes
<1> QED
  BY <1>1, <1>2 DEF Stands

\* The tree after a node was written.
Rewritten(t, u, pages2, ns, ns2, n, I) ==
  /\ n \in DOMAIN t /\ t[n] = OfNode(ns[n])
  /\ \A i \in I : i \notin DOMAIN t /\ i \notin DOMAIN ns /\ i # n /\ i \in Nat /\ i # 0
  /\ \A x : x \in DOMAIN u <=> (x \in DOMAIN t /\ x # n) \/ x \in I
  /\ \A i \in I : u[i] = OfPage(pages2[i])
  /\ \A v \in DOMAIN t : v # n /\ Unwritten(ns, v) => t[v] = OfNode(ns[v]) /\ u[v] = OfNode(ns2[v])
  /\ \A v \in DOMAIN t : v # n /\ ~Unwritten(ns, v) => u[v] = t[v]

\* The tree has the pages of the parts in the place of n.
LEMMA WritesTree ==
  ASSUME NEW pages, NEW ns, NEW gone, NEW pages2, NEW ns2, NEW gone2, NEW n, NEW I,
         Writes(pages, ns, gone, pages2, ns2, gone2, n, I),
         Typed(pages, ns), Stands(pages, ns, gone), gone \subseteq DOMAIN pages
  PROVE  Rewritten(TreeOf(pages, ns, gone), TreeOf(pages2, ns2, gone2), pages2, ns, ns2, n, I)
<1> DEFINE t == TreeOf(pages, ns, gone)
           u == TreeOf(pages2, ns2, gone2)
<1>1. /\ \A x : x \in DOMAIN t <=> (x \in DOMAIN pages /\ x \notin gone) \/ Unwritten(ns, x)
      /\ \A v \in DOMAIN t : t[v] = IF Unwritten(ns, v) THEN OfNode(ns[v]) ELSE OfPage(pages[v])
  BY DEF TreeOf, Live, Unwritten
<1>2. /\ \A x : x \in DOMAIN u <=> (x \in DOMAIN pages2 /\ x \notin gone2) \/ Unwritten(ns2, x)
      /\ \A v \in DOMAIN u : u[v] = IF Unwritten(ns2, v) THEN OfNode(ns2[v]) ELSE OfPage(pages2[v])
  BY DEF TreeOf, Live, Unwritten
<1> HIDE DEF t, u
<1>3. /\ n \in DOMAIN ns /\ Unwritten(ns, n) /\ ~Unwritten(ns2, n)
      /\ \A m : m # n => (Unwritten(ns2, m) <=> Unwritten(ns, m))
  BY DEF Writes, Unwritten
<1>4. /\ \A x : x \in DOMAIN pages2 <=> x \in DOMAIN pages \/ x \in I
      /\ \A x \in DOMAIN pages : pages2[x] = pages[x]
      /\ \A x : x \in gone2 <=> x \in gone \/ (x = n /\ n \in DOMAIN pages)
  BY DEF Writes
<1>5. \A m \in DOMAIN ns : m \in Int /\ (m \in DOMAIN pages \/ m < 0)
  BY StandsNames
<1>6. \A x \in I : x \notin DOMAIN pages /\ x \in Nat /\ x # 0 /\ x \notin DOMAIN ns
  <2>1. \A x \in I : x \notin DOMAIN pages /\ x \in Nat /\ x # 0
    BY TreeAssumption DEF Writes
  <2> QED
    BY <1>5, <2>1
<1>7. \A x \in I : x \notin DOMAIN t /\ x # n
  BY <1>1, <1>3, <1>6 DEF Unwritten
<1>8. \A x \in I : x \notin gone /\ x \notin gone2
  BY <1>4, <1>6, <1>7
<1>9. \A x \in I : ~Unwritten(ns2, x) /\ x \in DOMAIN u /\ u[x] = OfPage(pages2[x])
  <2>1. \A x \in I : ~Unwritten(ns2, x)
    BY <1>3, <1>6, <1>7 DEF Unwritten
  <2> QED
    BY <1>2, <1>4, <1>8, <2>1
<1>10. n \notin DOMAIN u
  <2>1. n \in DOMAIN pages2 => n \in gone2
    BY <1>4, <1>7
  <2> QED
    BY <1>2, <1>3, <2>1
<1>11. ASSUME NEW x, x # n, x \notin I PROVE x \in DOMAIN u <=> x \in DOMAIN t
  BY <1>1, <1>2, <1>3, <1>4, <1>11
<1>12. \A x : x \in DOMAIN u <=> (x \in DOMAIN t /\ x # n) \/ x \in I
  BY <1>9, <1>10, <1>11
<1>13. n \in DOMAIN t /\ t[n] = OfNode(ns[n])
  BY <1>1, <1>3
<1>14. ASSUME NEW v \in DOMAIN t, v # n, Unwritten(ns, v)
       PROVE  t[v] = OfNode(ns[v]) /\ u[v] = OfNode(ns2[v])
  BY <1>1, <1>2, <1>3, <1>12, <1>14
<1>15. ASSUME NEW v \in DOMAIN t, v # n, ~Unwritten(ns, v) PROVE u[v] = t[v]
  BY <1>1, <1>2, <1>3, <1>4, <1>12, <1>15
<1>16. Rewritten(t, u, pages2, ns, ns2, n, I)
  BY <1>6, <1>7, <1>9, <1>12, <1>13, <1>14, <1>15 DEF Rewritten
<1> QED
  BY <1>16 DEF t, u

\* The parts of n and the pages they are written to.
PartsOf(parts, l, s) ==
  /\ \A j \in 1 .. l : /\ Row(parts[j]) /\ parts[j] # <<>> /\ ToSet(parts[j]) \subseteq ToSet(s)
                       /\ (\E e, f \in ToSet(s) : e # f) => \E e, f \in ToSet(parts[j]) : e # f
  /\ \A e \in ToSet(s) : \E j \in 1 .. l : e \in ToSet(parts[j])
  /\ \A i, j \in 1 .. l : i < j => /\ InOrder(ToSet(parts[i]), ToSet(parts[j]))
                                  /\ FirstKey(parts[i]) < FirstKey(parts[j])
  /\ l = 1 => ToSet(parts[1]) = ToSet(s)
  /\ l > 1 => ToSet(s) # {}

\* The parts of a row hold all of it, in order.
LEMMA PartsFacts ==
  ASSUME NEW s, Row(s), NEW parts, AreParts(parts, s), NEW l, l = Len(parts),
         \A j \in 1 .. l : parts[j] # <<>>
  PROVE  PartsOf(parts, l, s)
<1> DEFINE n == Len(s)
<1>1. n \in Nat /\ (n >= 2 <=> \E e, f \in ToSet(s) : e # f)
  BY RowType, RowSize
<1>2. ASSUME NEW j \in 1 .. l
      PROVE  /\ Row(parts[j]) /\ parts[j] # <<>> /\ ToSet(parts[j]) \subseteq ToSet(s)
             /\ (\E e, f \in ToSet(s) : e # f) => \E e, f \in ToSet(parts[j]) : e # f
  <2>1. Row(parts[j]) /\ ToSet(parts[j]) \subseteq ToSet(s) /\ (n >= 2 => Len(parts[j]) >= 2)
    BY DEF AreParts
  <2>2. Len(parts[j]) >= 2 <=> \E e, f \in ToSet(parts[j]) : e # f
    BY <2>1, RowSize
  <2> QED
    BY <1>1, <2>1, <2>2
<1>3. \A e \in ToSet(s) : \E j \in 1 .. l : e \in ToSet(parts[j])
  BY DEF AreParts
<1>4. ASSUME NEW i \in 1 .. l, NEW j \in 1 .. l, i < j
      PROVE  /\ InOrder(ToSet(parts[i]), ToSet(parts[j]))
             /\ FirstKey(parts[i]) < FirstKey(parts[j])
  <2>1. InOrder(ToSet(parts[i]), ToSet(parts[j]))
    BY <1>4 DEF AreParts
  <2>2. parts[i][1] \in ToSet(parts[i]) /\ FirstKey(parts[i]) = parts[i][1].key
    BY <1>2, RowFirst
  <2>3. parts[j][1] \in ToSet(parts[j]) /\ FirstKey(parts[j]) = parts[j][1].key
    BY <1>2, RowFirst
  <2> QED
    BY <2>1, <2>2, <2>3 DEF InOrder
<1>5. l = 1 => ToSet(parts[1]) = ToSet(s)
  BY DEF AreParts
<1>6. l > 1 => ToSet(s) # {}
  <2>1. l > 1 => n >= 2
    BY DEF AreParts
  <2> QED
    BY <1>1, <2>1
<1> QED
  BY <1>2, <1>3, <1>4, <1>5, <1>6 DEF PartsOf

\* ids are the pages I of the parts.
PagesOf(ids, l, I, pages2, leaf, parts) ==
  /\ l \in Nat \ {0}
  /\ \A x : x \in I <=> \E j \in 1 .. l : x = ids[j]
  /\ \A i, j \in 1 .. l : ids[i] = ids[j] => i = j
  /\ \A j \in 1 .. l : pages2[ids[j]] = Write(leaf, parts[j])

\* The parent has the elements of the other nodes and of the parts.
HasParts(s2, s, n, l, parts, ids) ==
  \A x : x \in ToSet(s2) <=> \/ x \in ToSet(s) /\ x.val # n
                             \/ \E j \in 1 .. l : x = Element(FirstKey(parts[j]), ids[j])

Holds(t, n, leaf, s) == t[n].leaf = leaf /\ t[n].items = ToSet(s)

\* The pages of the parts in the tree.
LEMMA PartedTree ==
  ASSUME NEW t, NEW u, NEW pages2, NEW ns, NEW ns2, NEW n, NEW I,
         Rewritten(t, u, pages2, ns, ns2, n, I),
         NEW parts, NEW l, NEW ids, NEW leaf, NEW s, Holds(t, n, leaf, s),
         PartsOf(parts, l, s), PagesOf(ids, l, I, pages2, leaf, parts)
  PROVE  /\ Parted(t, u, n, I)
         /\ \A j \in 1 .. l : /\ ids[j] \in I /\ u[ids[j]].leaf = leaf /\ u[ids[j]].items = ToSet(parts[j])
                              /\ u[ids[j]].key = FirstKey(parts[j])
<1>1. ASSUME NEW j \in 1 .. l
      PROVE  /\ ids[j] \in I /\ u[ids[j]].leaf = leaf /\ u[ids[j]].items = ToSet(parts[j])
             /\ u[ids[j]].key = FirstKey(parts[j])
  <2>1. ids[j] \in I /\ pages2[ids[j]] = Write(leaf, parts[j])
    BY DEF PagesOf
  <2>2. u[ids[j]] = OfPage(pages2[ids[j]])
    BY <2>1 DEF Rewritten
  <2> QED
    BY <2>1, <2>2 DEF OfPage, Write
<1>2. \A i \in I : \E j \in 1 .. l : i = ids[j]
  BY DEF PagesOf
<1>3. I \subseteq Nat \ {0} /\ I \cap DOMAIN t = {}
  BY DEF Rewritten
<1> USE DEF Holds
<1>4. ASSUME NEW i \in I
      PROVE  /\ u[i].leaf = t[n].leaf /\ u[i].items \subseteq t[n].items
             /\ \E e \in u[i].items : e.key = u[i].key
  <2>1. PICK j \in 1 .. l : i = ids[j]
    BY <1>2
  <2>2. Row(parts[j]) /\ parts[j] # <<>> /\ ToSet(parts[j]) \subseteq ToSet(s)
    BY DEF PartsOf
  <2>3. parts[j][1] \in ToSet(parts[j]) /\ FirstKey(parts[j]) = parts[j][1].key
    BY <2>2, RowFirst
  <2> QED
    BY <1>1, <2>1, <2>2, <2>3
<1>5. ASSUME NEW e \in t[n].items PROVE \E i \in I : e \in u[i].items
  <2>1. PICK j \in 1 .. l : e \in ToSet(parts[j])
    BY DEF PartsOf
  <2> QED
    BY <1>1, <2>1
<1>6. ASSUME NEW i \in I, NEW k \in I, i # k
      PROVE  InOrder(u[i].items, u[k].items) \/ InOrder(u[k].items, u[i].items)
  <2>1. PICK x \in 1 .. l : i = ids[x]
    BY <1>2
  <2>2. PICK y \in 1 .. l : k = ids[y]
    BY <1>2
  <2>3. x < y \/ y < x
    BY <1>6, <2>1, <2>2
  <2>4. InOrder(ToSet(parts[x]), ToSet(parts[y])) \/ InOrder(ToSet(parts[y]), ToSet(parts[x]))
    BY <2>3 DEF PartsOf
  <2> QED
    BY <1>1, <2>1, <2>2, <2>4
<1>7. Parted(t, u, n, I)
  BY <1>3, <1>4, <1>5, <1>6 DEF Parted
<1> QED
  BY <1>1, <1>7

\* The parts of n take its place among the elements of p, and are not alone there.
Inserted(ns, ns2, n, p, l, parts, ids) ==
  /\ ns[n].parent = p
  /\ HasParts(ns2[p].inodes, ns[p].inodes, n, l, parts, ids)
  /\ \A m \in DOMAIN ns : m # n /\ m # p => ns2[m].inodes = ns[m].inodes
  /\ (\E e \in ToSet(ns[p].inodes) : e.val # n) \/ l > 1

\* A node under p is written to its parts.
LEMMA PartsSpill ==
  ASSUME NEW pages, NEW ns, NEW gone, NEW pages2, NEW ns2, NEW gone2, NEW n, NEW I,
         Writes(pages, ns, gone, pages2, ns2, gone2, n, I),
         Typed(pages, ns), Typed(pages2, ns2), gone \subseteq DOMAIN pages, ns # <<>>, ns2 # <<>>,
         NEW rt, NEW top, NEW h, NEW d, Spilling(pages, ns, gone, rt, top, h, d), ~ns[top].spilled,
         NEW p, n # top, Full(TreeOf(pages, ns, gone), p),
         NEW parts, NEW l, NEW ids, PartsOf(parts, l, ns[n].inodes),
         PagesOf(ids, l, I, pages2, ns[n].leaf, parts),
         Inserted(ns, ns2, n, p, l, parts, ids)
  PROVE  /\ \E h2, d2 : Spilling(pages2, ns2, gone2, rt, top, h2, d2)
         /\ Full(TreeOf(pages2, ns2, gone2), 0)
         /\ LeafItems(TreeOf(pages2, ns2, gone2)) = LeafItems(TreeOf(pages, ns, gone))
<1> USE DEF Inserted
<1> DEFINE t == TreeOf(pages, ns, gone)
           u == TreeOf(pages2, ns2, gone2)
           S == ToSet(ns[n].inodes)
<1>1. /\ Shape(t, top, h, d) /\ \A v \in DOMAIN t \ {top} : t[v].items # {}
      /\ rt \in DOMAIN ns /\ Links(ns, top) /\ Steep(ns, top, h) /\ Stands(pages, ns, gone)
  BY DEF Spilling, TreeTop
<1>2. Rewritten(t, u, pages2, ns, ns2, n, I)
  BY <1>1, WritesTree
<1>3. Full(t, p)
  OBVIOUS
<1> HIDE DEF t, u
<1>4. /\ n \in DOMAIN ns /\ ~ns[n].spilled /\ DOMAIN ns2 = DOMAIN ns
      /\ t[n].leaf = ns[n].leaf /\ t[n].items = S /\ n \in DOMAIN t
  <2>1. n \in DOMAIN ns /\ ~ns[n].spilled /\ DOMAIN ns2 = DOMAIN ns
    BY DEF Writes
  <2>2. n \in DOMAIN t /\ t[n] = OfNode(ns[n])
    BY <1>2 DEF Rewritten
  <2> QED
    BY <2>1, <2>2, TypedRecords
<1>5. /\ p \in DOMAIN ns /\ ~ns[p].spilled /\ ~ns[p].leaf /\ p # n
      /\ \E e \in ToSet(ns[p].inodes) : e.val = n
  <2>1. /\ p \in DOMAIN ns /\ ~ns[p].spilled /\ ~ns[p].leaf
        /\ \E e \in ToSet(ns[p].inodes) : e.val = n
    BY <1>1, <1>4 DEF Links
  <2>2. h[n] < h[p] /\ h[n] \in Nat
    BY <1>1, <1>4 DEF Steep
  <2> QED
    BY <2>1, <2>2
<1>6. /\ p \in DOMAIN t /\ t[p] = OfNode(ns[p]) /\ u[p] = OfNode(ns2[p]) /\ p \in DOMAIN u
      /\ t[p].leaf = ns[p].leaf /\ t[p].items = ToSet(ns[p].inodes)
      /\ u[p].leaf = t[p].leaf /\ u[p].key = t[p].key /\ u[p].items = ToSet(ns2[p].inodes)
  <2>1. Unwritten(ns, p) /\ p \in DOMAIN t
    <3>1. Unwritten(ns, p)
      BY <1>5 DEF Unwritten
    <3> QED
      BY <3>1 DEF t, TreeOf, Live, Unwritten
  <2>2. t[p] = OfNode(ns[p]) /\ u[p] = OfNode(ns2[p]) /\ p \in DOMAIN u
    BY <1>2, <1>5, <2>1 DEF Rewritten
  <2>3. ns2[p].leaf = ns[p].leaf /\ ns2[p].key = ns[p].key
    BY <1>5 DEF Writes
  <2> QED
    BY <1>4, <1>5, <2>1, <2>2, <2>3 DEF OfNode
<1>7. /\ Parted(t, u, n, I)
      /\ \A j \in 1 .. l : /\ ids[j] \in I /\ u[ids[j]].leaf = ns[n].leaf /\ u[ids[j]].items = ToSet(parts[j])
                           /\ u[ids[j]].key = FirstKey(parts[j])
  <2>1. Holds(t, n, ns[n].leaf, ns[n].inodes)
    BY <1>4 DEF Holds
  <2> QED
    BY <1>2, <2>1, PartedTree
<1>8. PICK a \in t[p].items : a.val = n
  BY <1>5, <1>6
<1>9. p \in Branches(t)
  BY <1>5, <1>6 DEF Branches
<1>10. /\ \A i \in I : i \notin DOMAIN t /\ i \notin DOMAIN ns
       /\ \A x : x \in DOMAIN u <=> (x \in DOMAIN t /\ x # n) \/ x \in I
  BY <1>2 DEF Rewritten
<1>11. DOMAIN u = (DOMAIN t \ {n}) \cup I
  BY <1>10
<1>12. \A v \in DOMAIN t : v # n /\ v # p => u[v] = t[v]
  <2>1. SUFFICES ASSUME NEW v \in DOMAIN t, v # n, v # p PROVE u[v] = t[v]
    OBVIOUS
  <2>2. CASE Unwritten(ns, v)
    <3>1. t[v] = OfNode(ns[v]) /\ u[v] = OfNode(ns2[v])
      BY <1>2, <2>1, <2>2 DEF Rewritten
    <3>2. v \in DOMAIN ns
      BY <2>2 DEF Unwritten
    <3>3. ns2[v].leaf = ns[v].leaf /\ ns2[v].key = ns[v].key /\ ns2[v].inodes = ns[v].inodes
      BY <2>1, <3>2 DEF Writes
    <3> QED
      BY <3>1, <3>3 DEF OfNode
  <2>3. CASE ~Unwritten(ns, v)
    BY <1>2, <2>1, <2>3 DEF Rewritten
  <2> QED
    BY <2>2, <2>3
<1>13. u[p].items = {e \in t[p].items : e.val # n} \cup {Element(u[i].key, i) : i \in I}
  <2>1. ASSUME NEW x
        PROVE  x \in u[p].items <=> (x \in t[p].items /\ x.val # n) \/ \E i \in I : x = Element(u[i].key, i)
    <3>1. (\E j \in 1 .. l : x = Element(FirstKey(parts[j]), ids[j]))
            <=> \E i \in I : x = Element(u[i].key, i)
      <4>1. \A i \in I : \E j \in 1 .. l : i = ids[j]
        BY DEF PagesOf
      <4> QED
        BY <1>7, <4>1
    <3> QED
      BY <1>6, <3>1 DEF HasParts
  <2> QED
    BY <2>1
<1> DEFINE h2 == [v \in DOMAIN u \cup DOMAIN ns |-> IF v \in I THEN h[n] ELSE h[v]]
           d2 == [v \in DOMAIN u |-> IF v \in I THEN KeysBelow(u[v].items, u[v].leaf, d) ELSE d[v]]
<1>14. /\ \A v \in DOMAIN u : h2[v] = IF v \in I THEN h[n] ELSE h[v]
       /\ \A v \in DOMAIN ns : h2[v] = h[v]
       /\ \A v \in DOMAIN u : d2[v] = IF v \in I THEN KeysBelow(u[v].items, u[v].leaf, d) ELSE d[v]
  BY <1>10
<1>15. PartsHeights(u, h, h2, n, I) /\ PartsDomains(u, d, d2, I)
  BY <1>14 DEF PartsHeights, PartsDomains
<1>16. Replaced(t, u, n, p, I)
  BY <1>6, <1>11, <1>12, <1>13 DEF Replaced
<1> HIDE DEF h2, d2
<1>17. Shape(u, top, h2, d2)
  BY <1>1, <1>7, <1>8, <1>9, <1>15, <1>16, PartsShape
<1>18. Links(ns2, top) /\ Steep(ns2, top, h2)
  BY <1>1, <1>14, WritesLinks
<1>19. Stands(pages2, ns2, gone2)
  BY <1>1, WritesStands
<1>20. l \in Nat \ {0} /\ 1 \in 1 .. l /\ \A i \in I : \E j \in 1 .. l : i = ids[j]
  BY DEF PagesOf
<1>21. Element(FirstKey(parts[1]), ids[1]) \in u[p].items
  BY <1>6, <1>20 DEF HasParts
<1>22. \A v \in DOMAIN u : v # top => u[v].items # {}
  <2>1. SUFFICES ASSUME NEW v \in DOMAIN u, v # top PROVE u[v].items # {}
    OBVIOUS
  <2>2. CASE v \in I
    <3>1. PICK j \in 1 .. l : v = ids[j]
      BY <1>20, <2>2
    <3>2. Row(parts[j]) /\ parts[j] # <<>>
      BY DEF PartsOf
    <3>3. ToSet(parts[j]) # {}
      BY <3>2, RowSize
    <3> QED
      BY <1>7, <3>1, <3>3
  <2>3. CASE v = p
    BY <1>21, <2>3
  <2>4. CASE v \notin I /\ v # p
    BY <1>1, <1>10, <1>12, <2>1, <2>4
  <2> QED
    BY <2>2, <2>3, <2>4
<1>23. ~ns2[top].spilled
  <2>1. top \in DOMAIN ns
    BY <1>1 DEF Links
  <2> QED
    BY <2>1 DEF Writes
<1>24. TreeTop(ns2, top, rt) = top
  BY <1>23 DEF TreeTop
<1>25. Spilling(pages2, ns2, gone2, rt, top, h2, d2)
  BY <1>1, <1>4, <1>17, <1>18, <1>19, <1>22, <1>24 DEF Spilling, u
<1>26. ASSUME NEW v \in Branches(u) PROVE u[v].items # {} /\ \E e, f \in u[v].items : e # f
  <2>1. v \in DOMAIN u /\ ~u[v].leaf
    BY <1>26 DEF Branches
  <2>2. CASE v \in I
    <3>1. PICK j \in 1 .. l : v = ids[j]
      BY <1>20, <2>2
    <3>2. n \in Branches(t)
      BY <1>4, <1>7, <2>1, <3>1 DEF Branches
    <3>3. \E e, f \in S : e # f
      BY <1>3, <1>4, <1>5, <3>2 DEF Full
    <3>4. \E e, f \in ToSet(parts[j]) : e # f
      BY <3>3 DEF PartsOf
    <3> QED
      BY <1>7, <3>1, <3>4
  <2>3. CASE v = p
    <3> DEFINE x == Element(FirstKey(parts[1]), ids[1])
    <3>1. x.val = ids[1] /\ x \in u[p].items /\ ids[1] \in I
      BY <1>7, <1>20, <1>21 DEF Element
    <3>2. CASE \E e \in ToSet(ns[p].inodes) : e.val # n
      <4>1. PICK e \in ToSet(ns[p].inodes) : e.val # n
        BY <3>2
      <4>2. e \in u[p].items
        BY <1>6, <4>1 DEF HasParts
      <4>3. e.val \in DOMAIN t
        BY <1>1, <1>6, <1>9, ChildFacts
      <4>4. e # x
        BY <1>10, <3>1, <4>3
      <4> QED
        BY <2>3, <3>1, <4>2, <4>4
    <3>3. CASE l > 1
      <4>1. 2 \in 1 .. l
        BY <1>20, <3>3
      <4> DEFINE y == Element(FirstKey(parts[2]), ids[2])
      <4>2. y.val = ids[2] /\ y \in u[p].items
        BY <1>6, <4>1 DEF HasParts, Element
      <4>3. ids[1] # ids[2]
        BY <1>20, <4>1 DEF PagesOf
      <4> QED
        BY <2>3, <3>1, <4>2, <4>3
    <3> QED
      BY <3>2, <3>3
  <2>4. CASE v \notin I /\ v # p
    <3>1. v \in DOMAIN t /\ v # n /\ u[v] = t[v]
      BY <1>10, <1>12, <2>1, <2>4
    <3>2. v \in Branches(t)
      BY <2>1, <3>1 DEF Branches
    <3> QED
      BY <1>3, <2>4, <3>1, <3>2 DEF Full
  <2> QED
    BY <2>2, <2>3, <2>4
<1>27. Full(u, 0)
  BY <1>26 DEF Full
<1>28. LeafItems(u) = LeafItems(t)
  BY <1>4, <1>5, <1>6, <1>7, <1>16, PartsLeaves
<1> QED
  BY <1>25, <1>27, <1>28 DEF t, u

\* The root is written to one page.
LEMMA RootSpill ==
  ASSUME NEW pages, NEW ns, NEW gone, NEW pages2, NEW ns2, NEW gone2, NEW top, NEW I,
         Writes(pages, ns, gone, pages2, ns2, gone2, top, I),
         Typed(pages, ns), Typed(pages2, ns2), gone \subseteq DOMAIN pages, ns # <<>>, ns2 # <<>>,
         NEW rt, NEW h, NEW d, Spilling(pages, ns, gone, rt, top, h, d), ~ns[top].spilled,
         Full(TreeOf(pages, ns, gone), 0),
         NEW i, \A x : x \in I <=> x = i, NEW s1, Row(s1),
         \A x : x \in ToSet(s1) <=> x \in ToSet(ns[top].inodes),
         pages2[i] = Write(ns[top].leaf, s1), ns2[top].pgid = i,
         \A m \in DOMAIN ns : m # top => ns2[m].inodes = ns[m].inodes
  PROVE  /\ \E h2, d2 : Spilling(pages2, ns2, gone2, rt, top, h2, d2)
         /\ Full(TreeOf(pages2, ns2, gone2), 0)
         /\ LeafItems(TreeOf(pages2, ns2, gone2)) = LeafItems(TreeOf(pages, ns, gone))
<1> DEFINE t == TreeOf(pages, ns, gone)
           u == TreeOf(pages2, ns2, gone2)
<1>1. /\ Shape(t, top, h, d) /\ \A v \in DOMAIN t \ {top} : t[v].items # {}
      /\ rt \in DOMAIN ns /\ Links(ns, top) /\ Steep(ns, top, h) /\ Stands(pages, ns, gone)
  BY DEF Spilling, TreeTop
<1>2. Rewritten(t, u, pages2, ns, ns2, top, I)
  BY <1>1, WritesTree
<1>3. Full(t, 0)
  OBVIOUS
<1> HIDE DEF t, u
<1>4. /\ top \in DOMAIN ns /\ ~ns[top].spilled /\ DOMAIN ns2 = DOMAIN ns
      /\ t[top].leaf = ns[top].leaf /\ t[top].items = ToSet(ns[top].inodes) /\ top \in DOMAIN t
  <2>1. top \in DOMAIN ns /\ ~ns[top].spilled /\ DOMAIN ns2 = DOMAIN ns
    BY DEF Writes
  <2>2. top \in DOMAIN t /\ t[top] = OfNode(ns[top])
    BY <1>2 DEF Rewritten
  <2> QED
    BY <2>1, <2>2, TypedRecords
<1>5. /\ i \in I /\ u[i].leaf = t[top].leaf /\ u[i].items = t[top].items /\ u[i].key \in Nat
  <2>1. u[i] = OfPage(pages2[i]) /\ i \in I
    BY <1>2 DEF Rewritten
  <2>2. FirstKey(s1) \in Nat
    BY RowFirst
  <2>3. u[i].leaf = ns[top].leaf /\ u[i].items = ToSet(s1) /\ u[i].key = FirstKey(s1)
    BY <2>1 DEF OfPage, Write
  <2>4. ToSet(s1) = ToSet(ns[top].inodes)
    OBVIOUS
  <2> QED
    BY <1>4, <2>1, <2>2, <2>3, <2>4
<1>6. /\ i \notin DOMAIN t /\ i \notin DOMAIN ns
      /\ \A x : x \in DOMAIN u <=> (x \in DOMAIN t /\ x # top) \/ x = i
  BY <1>2, <1>5 DEF Rewritten
<1>7. DOMAIN u = (DOMAIN t \ {top}) \cup {i}
  BY <1>6
<1>8. \A v \in DOMAIN t : v # top => u[v] = t[v]
  <2>1. SUFFICES ASSUME NEW v \in DOMAIN t, v # top PROVE u[v] = t[v]
    OBVIOUS
  <2>2. CASE Unwritten(ns, v)
    <3>1. t[v] = OfNode(ns[v]) /\ u[v] = OfNode(ns2[v])
      BY <1>2, <2>1, <2>2 DEF Rewritten
    <3>2. v \in DOMAIN ns
      BY <2>2 DEF Unwritten
    <3>3. ns2[v].leaf = ns[v].leaf /\ ns2[v].key = ns[v].key /\ ns2[v].inodes = ns[v].inodes
      BY <2>1, <3>2 DEF Writes
    <3> QED
      BY <3>1, <3>3 DEF OfNode
  <2>3. CASE ~Unwritten(ns, v)
    BY <1>2, <2>1, <2>3 DEF Rewritten
  <2> QED
    BY <2>2, <2>3
<1>9. \A v \in DOMAIN t \ {top} : u[v] = t[v]
  BY <1>8
<1> DEFINE h2 == [v \in DOMAIN u \cup DOMAIN ns |-> IF v = i THEN h[top] ELSE h[v]]
           d2 == [v \in DOMAIN u |-> IF v = i THEN d[top] ELSE d[v]]
<1>10. /\ \A v \in DOMAIN u : h2[v] = IF v = i THEN h[top] ELSE h[v]
       /\ \A v \in DOMAIN ns : h2[v] = h[v]
       /\ \A v \in DOMAIN u : d2[v] = IF v = i THEN d[top] ELSE d[v]
  BY <1>6
<1> HIDE DEF h2, d2
<1>18. Renamed(t, u, top, i)
  BY <1>5, <1>7, <1>9 DEF Renamed
<1>11. Shape(u, i, h2, d2)
  <2>1. Inherits(u, h, h2, top, i) /\ Inherits(u, d, d2, top, i)
    BY <1>10 DEF Inherits
  <2> QED
    BY <1>1, <1>6, <1>18, <2>1, RenameShape
<1>12. Links(ns2, top) /\ Steep(ns2, top, h2)
  BY <1>1, <1>10, WritesLinks
<1>13. Stands(pages2, ns2, gone2)
  BY <1>1, WritesStands
<1>14. TreeTop(ns2, top, rt) = i
  <2>1. ns2[top].spilled
    BY DEF Writes
  <2> QED
    BY <2>1 DEF TreeTop
<1>15. \A v \in DOMAIN u \ {i} : u[v].items # {}
  BY <1>1, <1>6, <1>8
<1>16. Spilling(pages2, ns2, gone2, rt, top, h2, d2)
  BY <1>1, <1>4, <1>11, <1>12, <1>13, <1>14, <1>15 DEF Spilling, u
<1>17. Full(u, 0)
  <2>1. ASSUME NEW v \in Branches(u) PROVE u[v].items # {} /\ \E e, f \in u[v].items : e # f
    <3>1. v \in DOMAIN u /\ ~u[v].leaf
      BY <2>1 DEF Branches
    <3> DEFINE x == IF v = i THEN top ELSE v
    <3>2. x \in DOMAIN t /\ u[v].leaf = t[x].leaf /\ u[v].items = t[x].items
      BY <1>4, <1>5, <1>6, <1>8, <3>1
    <3>3. x # 0
      <4>1. top # 0
        BY <1>1, <1>4, StandsNames
      <4>2. x \in DOMAIN ns \/ x \in DOMAIN pages
        BY <1>4, <3>2 DEF t, TreeOf, Live
      <4>3. \A y \in DOMAIN ns : y # 0
        BY <1>1, StandsNames
      <4>4. \A y \in DOMAIN pages : y # 0
        BY TypedRecords
      <4> QED
        BY <4>2, <4>3, <4>4
    <3> HIDE DEF x
    <3>4. x \in Branches(t)
      BY <3>1, <3>2 DEF Branches
    <3> QED
      BY <1>3, <3>2, <3>3, <3>4 DEF Full
  <2> QED
    BY <2>1 DEF Full
<1>19. LeafItems(u) = LeafItems(t)
  BY <1>4, <1>6, <1>18, RenameLeaves
<1> QED
  BY <1>16, <1>17, <1>19 DEF t, u

\* The root is known to a new node p.
IsAbove(ns, ns1, top, p, k) ==
  /\ k = FirstKey(ns[top].inodes)
  /\ DOMAIN ns1 = DOMAIN ns \cup {p}
  /\ ns1[p] = [NewRoot EXCEPT !.inodes = <<Element(k, top)>>, !.children = {top}]
  /\ ns1[top] = [ns[top] EXCEPT !.key = k, !.parent = p]
  /\ \A m \in DOMAIN ns \ {top} : ns1[m] = ns[m]

\* The root that is split gets a parent.
LEMMA RootAbove ==
  ASSUME NEW pages, NEW ns, NEW gone, Typed(pages, ns), ns # <<>>,
         NEW rt, NEW top, NEW h, NEW d, Spilling(pages, ns, gone, rt, top, h, d), ~ns[top].spilled,
         Full(TreeOf(pages, ns, gone), 0), ns[top].inodes # <<>>,
         NEW p \in Int, p < 0, p \notin DOMAIN ns,
         NEW k, NEW ns1, IsAbove(ns, ns1, top, p, k)
  PROVE  /\ Typed(pages, ns1) /\ \E h1, d1 : Spilling(pages, ns1, gone, rt, p, h1, d1)
         /\ Full(TreeOf(pages, ns1, gone), p) /\ ns1 # <<>>
         /\ LeafItems(TreeOf(pages, ns1, gone)) = LeafItems(TreeOf(pages, ns, gone))
<1> USE DEF IsAbove
<1> DEFINE t == TreeOf(pages, ns, gone)
           u == TreeOf(pages, ns1, gone)
           s == <<Element(k, top)>>
<1>1. /\ Shape(t, top, h, d) /\ \A v \in DOMAIN t \ {top} : t[v].items # {}
      /\ rt \in DOMAIN ns /\ Links(ns, top) /\ Steep(ns, top, h) /\ Stands(pages, ns, gone)
  BY DEF Spilling, TreeTop
<1>2. Full(t, 0)
  OBVIOUS
<1> HIDE DEF s
<1>3. /\ top \in DOMAIN ns /\ top \in Int /\ top # 0 /\ p # top
      /\ Row(ns[top].inodes) /\ ns[top].leaf \in BOOLEAN
  <2>1. top \in DOMAIN ns
    BY <1>1 DEF Links
  <2> QED
    BY <1>1, <2>1, StandsNames, TypedRecords
<1>4. k \in Key /\ k \in Nat /\ \E e \in ToSet(ns[top].inodes) : e.key = k
  <2>1. FirstKey(ns[top].inodes) \in Nat /\ FirstKey(ns[top].inodes) # 0
        /\ \E e \in ToSet(ns[top].inodes) : e.key = FirstKey(ns[top].inodes)
    BY <1>3, RowFirst
  <2> QED
    BY <2>1 DEF Key
<1>5. Row(s) /\ \A x : x \in ToSet(s) <=> x = Element(k, top)
  <2>1. Element(k, top) \in Elem
    BY <1>3, <1>4 DEF Element, Elem
  <2> QED
    BY <2>1, RowOne DEF s
<1>6. /\ ns1[p].pgid = 0 /\ ~ns1[p].leaf /\ ns1[p].leaf = FALSE /\ ns1[p].inodes = s /\ ns1[p].key = 0 /\ ns1[p].parent = 0
      /\ ns1[p].children = {top} /\ ns1[p].unbalanced = FALSE /\ ns1[p].spilled = FALSE
  BY DEF NewRoot, s
<1>7. /\ ns1[top].pgid = ns[top].pgid /\ ns1[top].leaf = ns[top].leaf /\ ns1[top].inodes = ns[top].inodes
      /\ ns1[top].key = k /\ ns1[top].parent = p /\ ns1[top].children = ns[top].children
      /\ ns1[top].spilled = ns[top].spilled
  <2>1. ns[top] \in NodeType
    BY <1>3 DEF Typed
  <2> QED
    BY <2>1 DEF NodeType
<1>8. Typed(pages, ns1)
  <2>1. ns1[p] \in NodeType
    <3> DEFINE R == {x \in Seq(Elem) : Row(x)}
               C == {top}
    <3>1. ns1[p] = [pgid |-> 0, leaf |-> FALSE, inodes |-> s, key |-> 0, parent |-> 0,
                    children |-> C, unbalanced |-> FALSE, spilled |-> FALSE]
      BY DEF NewRoot, s
    <3>2. s \in R /\ C \in SUBSET Int
      BY <1>3, <1>5 DEF Row
    <3>3. NodeType = [pgid : Nat, leaf : BOOLEAN, inodes : R, key : Nat, parent : Int,
                      children : SUBSET Int, unbalanced : BOOLEAN, spilled : BOOLEAN]
      BY DEF NodeType
    <3> HIDE DEF R, C
    <3> DEFINE rec == [pgid |-> 0, leaf |-> FALSE, inodes |-> s, key |-> 0, parent |-> 0,
                       children |-> C, unbalanced |-> FALSE, spilled |-> FALSE]
    <3>4. rec \in NodeType
      BY <3>2, <3>3
    <3> HIDE DEF rec
    <3> QED
      BY <3>1, <3>4 DEF rec
  <2>2. ns1[top] \in NodeType
    <3> DEFINE R == {x \in Seq(Elem) : Row(x)}
               n == ns[top]
    <3>1. n \in NodeType
      BY <1>3 DEF Typed
    <3>2. ns1[top] = [n EXCEPT !.key = k, !.parent = p]
      OBVIOUS
    <3>3. NodeType = [pgid : Nat, leaf : BOOLEAN, inodes : R, key : Nat, parent : Int,
                      children : SUBSET Int, unbalanced : BOOLEAN, spilled : BOOLEAN]
      BY DEF NodeType
    <3> HIDE DEF R, n
    <3> QED
      BY <1>4, <3>1, <3>2, <3>3, Zenon
  <2>3. \A m \in DOMAIN ns1 : ns1[m] \in NodeType
    BY <2>1, <2>2 DEF Typed
  <2>4. IsFiniteSet(DOMAIN ns1)
    BY FS_AddElement DEF Typed
  <2>5. DOMAIN ns1 \subseteq Int
    BY DEF Typed
  <2> QED
    BY <2>3, <2>4, <2>5 DEF Typed
<1>9. \A m \in DOMAIN ns1 : m = p \/ m \in DOMAIN ns
  OBVIOUS
<1>10. p \notin DOMAIN t
  <2>1. p \notin DOMAIN pages
    BY TypedRecords
  <2> QED
    BY <2>1 DEF TreeOf, Live
<1>11. /\ \A v \in DOMAIN t : t[v] = IF Unwritten(ns, v) THEN OfNode(ns[v]) ELSE OfPage(pages[v])
       /\ \A v \in DOMAIN u : u[v] = IF Unwritten(ns1, v) THEN OfNode(ns1[v]) ELSE OfPage(pages[v])
       /\ \A v : v \in DOMAIN t <=> (v \in DOMAIN pages /\ v \notin gone) \/ Unwritten(ns, v)
       /\ \A v : v \in DOMAIN u <=> (v \in DOMAIN pages /\ v \notin gone) \/ Unwritten(ns1, v)
  BY DEF TreeOf, Live, Unwritten
<1> HIDE DEF t, u
<1>12. \A v : v # p => (Unwritten(ns1, v) <=> Unwritten(ns, v))
  BY <1>3, <1>7 DEF Unwritten
<1>13. Unwritten(ns1, p) /\ Unwritten(ns, top) /\ Unwritten(ns1, top)
  BY <1>3, <1>6, <1>7 DEF Unwritten
<1>14. DOMAIN u = DOMAIN t \cup {p}
  <2>1. \A v : v \in DOMAIN u <=> v \in DOMAIN t \/ v = p
    BY <1>11, <1>12, <1>13
  <2> QED
    BY <2>1
<1>15. u[p].leaf = FALSE /\ u[p].key \in Nat /\ u[p].items = {Element(k, top)}
  <2>1. u[p] = OfNode(ns1[p])
    BY <1>11, <1>13, <1>14
  <2>2. ToSet(s) = {Element(k, top)}
    BY <1>5
  <2> QED
    BY <1>6, <2>1, <2>2 DEF OfNode
<1>16. /\ top \in DOMAIN t /\ u[top].leaf = t[top].leaf /\ u[top].items = t[top].items /\ u[top].key = k
       /\ t[top].items = ToSet(ns[top].inodes)
  <2>1. top \in DOMAIN t /\ top \in DOMAIN u /\ u[top] = OfNode(ns1[top]) /\ t[top] = OfNode(ns[top])
    BY <1>11, <1>13, <1>14
  <2> QED
    BY <1>7, <2>1 DEF OfNode
<1>17. \A v \in DOMAIN t \ {top} : u[v] = t[v]
  <2>1. SUFFICES ASSUME NEW v \in DOMAIN t, v # top PROVE u[v] = t[v]
    OBVIOUS
  <2>2. v # p /\ v \in DOMAIN u /\ (Unwritten(ns1, v) <=> Unwritten(ns, v))
    BY <1>10, <1>12, <1>14, <2>1
  <2>3. Unwritten(ns, v) => ns1[v] = ns[v]
    BY <2>1 DEF Unwritten
  <2> QED
    BY <1>11, <2>1, <2>2, <2>3
<1>18. k \in d[top]
  BY <1>1, <1>4, <1>16, ChildFacts
<1> DEFINE h1 == [v \in DOMAIN u \cup DOMAIN ns1 |-> IF v = p THEN h[top] + 1 ELSE h[v]]
           d1 == [v \in DOMAIN u |-> IF v = p THEN d[top] ELSE d[v]]
<1>19. /\ \A v \in DOMAIN u : h1[v] = IF v = p THEN h[top] + 1 ELSE h[v]
       /\ \A v \in DOMAIN ns1 : h1[v] = IF v = p THEN h[top] + 1 ELSE h[v]
       /\ \A v \in DOMAIN u : d1[v] = IF v = p THEN d[top] ELSE d[v]
  OBVIOUS
<1> HIDE DEF h1, d1
<1>30. Above(t, u, top, p, k)
  BY <1>14, <1>15, <1>16, <1>17 DEF Above
<1>20. Shape(u, p, h1, d1)
  <2>1. AboveHeights(u, h, h1, top, p) /\ Inherits(u, d, d1, top, p)
    BY <1>19 DEF AboveHeights, Inherits
  <2> QED
    BY <1>1, <1>3, <1>4, <1>10, <1>18, <1>30, <2>1, RootAboveShape
<1>21. \A m \in DOMAIN ns : m # top => ns1[m] = ns[m]
  OBVIOUS
<1>22. Links(ns1, p)
  <2>1. ASSUME NEW m \in DOMAIN ns1, NEW c \in ns1[m].children PROVE c \in DOMAIN ns1 /\ ns1[c].parent = m
    <3>1. CASE m = p
      BY <1>3, <1>6, <1>7, <2>1, <3>1
    <3>2. CASE m # p
      <4>1. m \in DOMAIN ns /\ c \in ns[m].children
        BY <1>7, <1>9, <1>21, <2>1, <3>2
      <4>2. c \in DOMAIN ns /\ ns[c].parent = m
        BY <1>1, <4>1 DEF Links
      <4>3. c # top
        <5>1. m # 0
          BY <1>1, <4>1, StandsNames
        <5>2. ns[top].parent = 0
          BY <1>1 DEF Links
        <5> QED
          BY <4>2, <5>1, <5>2
      <4> QED
        BY <1>21, <4>2, <4>3
    <3> QED
      BY <3>1, <3>2
  <2>2. ASSUME NEW m \in DOMAIN ns1 \ {p}
        PROVE  /\ ns1[m].parent \in DOMAIN ns1
               /\ ~ns1[m].spilled => LET q == ns1[m].parent IN
                                     /\ ~ns1[q].spilled /\ m \in ns1[q].children
                                     /\ ~ns1[q].leaf /\ \E e \in ToSet(ns1[q].inodes) : e.val = m
    <3>1. CASE m = top
      <4>1. ns1[m].parent = p /\ p \in DOMAIN ns1
        BY <1>7, <3>1
      <4>2. Element(k, top) \in ToSet(s) /\ Element(k, top).val = top
        BY <1>5 DEF Element
      <4> QED
        BY <1>6, <3>1, <4>1, <4>2
    <3>2. CASE m # top
      <4> DEFINE q == ns[m].parent
      <4>1. m \in DOMAIN ns /\ ns1[m] = ns[m]
        BY <1>9, <1>21, <2>2, <3>2
      <4>2. /\ q \in DOMAIN ns
            /\ ~ns[m].spilled => /\ ~ns[q].spilled /\ m \in ns[q].children
                                 /\ ~ns[q].leaf /\ \E e \in ToSet(ns[q].inodes) : e.val = m
        BY <1>1, <3>2, <4>1 DEF Links
      <4>3. ns1[m].parent = q
        BY <4>1
      <4> HIDE DEF q
      <4>4. ns1[q].spilled = ns[q].spilled /\ ns1[q].children = ns[q].children /\ ns1[q].leaf = ns[q].leaf
            /\ ns1[q].inodes = ns[q].inodes
        BY <1>7, <1>21, <4>2
      <4> QED
        BY <4>1, <4>2, <4>3, <4>4
    <3> QED
      BY <3>1, <3>2
  <2> QED
    BY <1>6, <2>1, <2>2 DEF Links
<1>23. Steep(ns1, p, h1)
  <2>1. \A m \in DOMAIN ns : h1[m] = h[m]
    BY <1>19
  <2>2. h1[p] = h[top] + 1 /\ h[top] \in Nat
    BY <1>1, <1>19 DEF Steep
  <2>3. ASSUME NEW m \in DOMAIN ns1 \ {p}
        PROVE  h1[m] \in Nat /\ h1[m] < h1[ns1[m].parent] /\ h1[m] < h1[p]
    <3>1. m \in DOMAIN ns /\ h1[m] = h[m]
      BY <1>9, <2>1, <2>3
    <3>2. CASE m = top
      <4>1. h1[m] = h[top] /\ ns1[m].parent = p
        BY <1>7, <3>1, <3>2
      <4> QED
        BY <2>2, <4>1
    <3>3. CASE m # top
      <4>1. h[m] \in Nat /\ h[m] < h[ns[m].parent] /\ h[m] < h[top] /\ ns[m].parent \in DOMAIN ns
        BY <1>1, <3>1, <3>3 DEF Steep, Links
      <4>2. ns1[m].parent = ns[m].parent /\ h1[ns[m].parent] = h[ns[m].parent]
        BY <1>21, <2>1, <3>1, <3>3, <4>1
      <4> QED
        BY <2>2, <3>1, <4>1, <4>2
    <3> QED
      BY <3>2, <3>3
  <2> QED
    BY <2>2, <2>3 DEF Steep
<1>24. Stands(pages, ns1, gone)
  <2>1. ASSUME NEW m \in DOMAIN ns1
        PROVE  /\ m \in DOMAIN pages \/ m < 0
               /\ IF ns1[m].spilled THEN m \notin DOMAIN pages \ gone
                  ELSE \/ m \in DOMAIN pages \ gone /\ ns1[m].pgid = m
                       \/ m < 0 /\ ns1[m].pgid = 0
    <3>1. CASE m = p
      BY <1>6, <3>1
    <3>2. CASE m # p
      <4>1. m \in DOMAIN ns /\ ns1[m].spilled = ns[m].spilled /\ ns1[m].pgid = ns[m].pgid
        BY <1>7, <1>9, <1>21, <2>1, <3>2
      <4>2. /\ m \in DOMAIN pages \/ m < 0
            /\ IF ns[m].spilled THEN m \notin DOMAIN pages \ gone
               ELSE \/ m \in DOMAIN pages \ gone /\ ns[m].pgid = m
                    \/ m < 0 /\ ns[m].pgid = 0
        BY <1>1, <4>1 DEF Stands
      <4> QED
        BY <4>1, <4>2
    <3> QED
      BY <3>1, <3>2
  <2> QED
    BY <2>1 DEF Stands
<1>25. TreeTop(ns1, p, rt) = p /\ ns1 # <<>>
  <2>1. ns1 # <<>>
    <3>1. p \in DOMAIN ns1
      OBVIOUS
    <3>2. DOMAIN (<<>>) = {}
      OBVIOUS
    <3> QED
      BY <3>1, <3>2
  <2> QED
    BY <1>6, <2>1 DEF TreeTop
<1>26. \A v \in DOMAIN u \ {p} : u[v].items # {}
  <2>1. t[top].items # {}
    BY <1>4, <1>16
  <2> QED
    BY <1>1, <1>14, <1>16, <1>17, <2>1
<1>27. rt \in DOMAIN ns1
  BY <1>1
<1>28. Spilling(pages, ns1, gone, rt, p, h1, d1)
  BY <1>20, <1>22, <1>23, <1>24, <1>25, <1>26, <1>27 DEF Spilling, u
<1>29. Full(u, p)
  <2>1. ASSUME NEW v \in Branches(u)
        PROVE  u[v].items # {} /\ (v # p => \E e, f \in u[v].items : e # f)
    <3>1. v \in DOMAIN u /\ ~u[v].leaf
      BY <2>1 DEF Branches
    <3>2. CASE v = p
      BY <1>15, <3>2
    <3>3. CASE v # p
      <4>1. v \in DOMAIN t /\ u[v].leaf = t[v].leaf /\ u[v].items = t[v].items
        BY <1>14, <1>16, <1>17, <3>1, <3>3
      <4>2. v # 0
        <5>1. v \in DOMAIN pages \/ v \in DOMAIN ns
          BY <1>11, <4>1 DEF Unwritten
        <5>2. \A y \in DOMAIN ns : y # 0
          BY <1>1, StandsNames
        <5>3. \A y \in DOMAIN pages : y # 0
          BY TypedRecords
        <5> QED
          BY <5>1, <5>2, <5>3
      <4>3. v \in Branches(t)
        BY <3>1, <4>1 DEF Branches
      <4> QED
        BY <1>2, <4>1, <4>2, <4>3 DEF Full
    <3> QED
      BY <3>2, <3>3
  <2> QED
    BY <2>1 DEF Full
<1>31. LeafItems(u) = LeafItems(t)
  BY <1>10, <1>16, <1>30, AboveLeaves
<1> QED
  BY <1>8, <1>25, <1>28, <1>29, <1>31 DEF t, u

-----------------------------------------------------------------------------
(***************************************************************************)
(* Spill.                                                                  *)
(***************************************************************************)
\* What Spill does: node n, known to p, is split into l parts and written to the pages I.
Spills(n, parts, l, ids, I, p) ==
  /\ n \in DOMAIN node /\ ~node[n].spilled
  /\ \A c \in node[n].children : c \in DOMAIN node /\ node[c].spilled
  /\ AreParts(parts, node[n].inodes) /\ Len(parts) = l
  /\ \A j \in 1 .. l : Fits(node[n].leaf, parts[j])
  /\ PagesOf(ids, l, I, page', node[n].leaf, parts)
  /\ \A x \in I : x \in Pgids /\ x \notin DOMAIN page
  /\ \A x : x \in DOMAIN page' <=> x \in DOMAIN page \/ x \in I
  /\ \A x \in DOMAIN page : page'[x] = page[x]
  /\ \A x : x \in freed' <=> x \in freed \/ (x = n /\ n \in DOMAIN page)
  /\ written' = written \cup I
  /\ p # 0 => \A j \in 1 .. l : parts[j] # <<>>
  /\ node'[n] = [node[n] EXCEPT !.pgid = ids[1], !.inodes = parts[1], !.parent = p,
                                !.children = {}, !.spilled = TRUE]
  /\ \A m \in DOMAIN node : m # n /\ m # p => node'[m] = node[m]

SpillsUnder(n, parts, ids, p) ==
  /\ p \in DOMAIN node /\ DOMAIN node' = DOMAIN node
  /\ node'[p] = [node[p] EXCEPT !.inodes = PutParts(@, n, parts, ids), !.children = @ \cup {n}]

SpillsNewRoot(n, parts, ids, p) ==
  /\ p \in Int /\ p < 0 /\ p \notin DOMAIN node /\ DOMAIN node' = DOMAIN node \cup {p}
  /\ node'[p] = [NewRoot EXCEPT !.inodes = PutParts(@, n, parts, ids), !.children = @ \cup {n}]

LEMMA FreshRoot ==
  ASSUME NEW S, S \subseteq Int, IsFiniteSet(S)
  PROVE  Min(S \cup {0}) - 1 \in Int /\ Min(S \cup {0}) - 1 < 0 /\ Min(S \cup {0}) - 1 \notin S
<1> DEFINE R == S \cup {0}
<1>1. R \subseteq Int /\ IsFiniteSet(R) /\ 0 \in R
  BY FS_AddElement
<1> HIDE DEF R
<1>2. Cardinality(R) \in Nat /\ Cardinality(R) # 0
  BY <1>1, FS_CardinalityType, FS_EmptySet
<1>3. 1 \in 1 .. Cardinality(R) /\ 1 - 1 = 0
  BY <1>2
<1>4. PICK x \in R : RankOf(R, x) = 0
  <2>1. \E y \in R : RankOf(R, y) = 1 - 1
    BY <1>1, <1>3, RankTaken
  <2> QED
    BY <1>3, <2>1
<1>5. Below(R, x) = {}
  <2>1. IsFiniteSet(Below(R, x))
    BY <1>1, RankRange
  <2> QED
    BY <1>4, <2>1, FS_EmptySet DEF RankOf
<1>6. \A y \in R : x <= y
  <2>1. \A y \in R : ~(y < x)
    BY <1>5 DEF Below
  <2>2. x \in Int /\ \A y \in R : y \in Int
    BY <1>1
  <2> QED
    BY <2>1, <2>2
<1> DEFINE m == Min(R)
<1>7. m \in R /\ \A y \in R : m <= y
  <2>1. \E y \in R : \A z \in R : y <= z
    BY <1>6
  <2> QED
    BY <2>1 DEF Min
<1> HIDE DEF m
<1>8. m \in Int /\ m <= 0
  BY <1>1, <1>7
<1>9. \A y \in S : m <= y /\ y \in Int
  BY <1>7 DEF R
<1>10. m - 1 \notin S
  <2>1. ~(m <= m - 1)
    BY <1>8
  <2> QED
    BY <1>9, <2>1
<1> QED
  BY <1>8, <1>10 DEF m, R

LEMMA SpillFacts ==
  ASSUME TreeInv, Spill
  PROVE  /\ phase = "spill" /\ phase' = "spill" /\ cur = 0 /\ cur' = 0 /\ root' = root /\ node # <<>>
         /\ \E top, h, d : Spilling(page, node, freed, root, top, h, d) /\ ~node[top].spilled
         /\ \E n, parts, l, ids, I, p :
              /\ Spills(n, parts, l, ids, I, p)
              /\ \/ p = node[n].parent /\ SpillsUnder(n, parts, ids, p)
                 \/ node[n].parent = 0 /\ l > 1 /\ SpillsNewRoot(n, parts, ids, p)
                 \/ p = 0 /\ node[n].parent = 0 /\ l = 1 /\ DOMAIN node' = DOMAIN node
<1>1. phase = "spill" /\ phase' = "spill" /\ cur' = cur /\ root' = root /\ ~AllSpilled
  BY Zenon DEF Spill
<1>2. cur = 0
  BY <1>1 DEF TreeInv, Progress
<1>3. Typed(page, node)
  BY DEF TreeInv
<1>4. PICK top, h, d : Spilling(page, node, freed, root, top, h, d)
  BY <1>1 DEF TreeInv
<1>5. node # <<>> /\ ~node[Top].spilled
  BY <1>1 DEF AllSpilled
<1>6. root \in DOMAIN node /\ Links(node, top) /\ Steep(node, top, h) /\ Stands(page, node, freed)
  BY <1>4, <1>5 DEF Spilling
<1>7. 0 \notin DOMAIN node
  BY <1>3, <1>6, StandsNames
<1>8. Top = top
  BY <1>6, <1>7, TopIs
<1> DEFINE n == NextToSpill
           parts == Split(node[n].leaf, node[n].inodes)
           l == Len(parts)
           ids == [i \in DOMAIN parts |-> Unused(i)]
           p == IF node[n].parent = 0 /\ l > 1 THEN Min(DOMAIN node \cup {0}) - 1
                ELSE node[n].parent
           ns == IF p \in DOMAIN node \/ p = 0 THEN node
                 ELSE [m \in DOMAIN node \cup {p} |-> IF m = p THEN NewRoot ELSE node[m]]
           I == ToSet(ids)
<1>9. /\ n \in DOMAIN node /\ ~node[n].spilled
      /\ \A c \in node[n].children : c \in DOMAIN node /\ node[c].spilled
  BY <1>3, <1>5, <1>6, <1>7, <1>8, NextIs
<1>10. /\ l <= Cardinality(Pgids \ DOMAIN page)
       /\ IF node[n].pgid = 0 THEN freed' = freed ELSE freed' = freed \cup {node[n].pgid}
       /\ p # 0 => \A i \in DOMAIN parts : parts[i] # <<>>
       /\ page' = [id \in DOMAIN page \cup I |->
                     IF id \in DOMAIN page THEN page[id]
                     ELSE Write(node[n].leaf, parts[CHOOSE i \in DOMAIN ids : ids[i] = id])]
       /\ written' = written \cup I
       /\ node' = [m \in DOMAIN ns |->
                     IF m = n THEN [ns[n] EXCEPT !.pgid = ids[1], !.inodes = parts[1], !.parent = p,
                                                 !.children = {}, !.spilled = TRUE]
                     ELSE IF m = p THEN [ns[p] EXCEPT !.inodes = PutParts(@, n, parts, ids),
                                                      !.children = @ \cup {n}]
                     ELSE ns[m]]
  BY Zenon DEF Spill, Free
<1> HIDE DEF n
<1>11. Row(node[n].inodes) /\ node[n].leaf \in BOOLEAN
  BY <1>3, <1>9, TypedRecords
<1>12. AreParts(parts, node[n].inodes) /\ \A j \in DOMAIN parts : Fits(node[n].leaf, parts[j])
  BY <1>11, SplitParts, SplitFits
<1> HIDE DEF parts
<1>13. l \in Nat \ {0} /\ DOMAIN parts = 1 .. l
  BY <1>12 DEF AreParts
<1>14. DOMAIN ids = 1 .. l /\ \A j \in 1 .. l : ids[j] = Unused(j)
  BY <1>13
<1> DEFINE c == Cardinality(Pgids \ DOMAIN page)
<1>15. \A j \in 1 .. c : Unused(j) \in Pgids \ DOMAIN page /\ \A i \in 1 .. c : i # j => Unused(i) # Unused(j)
  <2>1. DOMAIN page \subseteq Pgids
    BY <1>3 DEF Typed
  <2> QED
    BY <2>1, UnusedIds
<1>16. c \in Nat
  <2>1. IsFiniteSet(Pgids \ DOMAIN page)
    BY TreeAssumption, FS_Subset
  <2> QED
    BY <2>1, FS_CardinalityType
<1> HIDE DEF ids, c, l
<1>17. l <= c
  BY <1>10, Zenon DEF c
<1>18. \A j \in 1 .. l : j \in 1 .. c
  BY <1>13, <1>16, <1>17
<1>19. /\ \A j \in 1 .. l : ids[j] \in Pgids /\ ids[j] \notin DOMAIN page
       /\ \A i, j \in 1 .. l : ids[i] = ids[j] => i = j
  BY <1>14, <1>15, <1>18
<1>20. \A x : x \in I <=> \E j \in 1 .. l : x = ids[j]
  BY <1>14 DEF ToSet
<1> HIDE DEF I
<1>21. /\ \A x : x \in DOMAIN page' <=> x \in DOMAIN page \/ x \in I
       /\ \A x \in DOMAIN page : page'[x] = page[x]
  BY <1>10, Zenon
<1>22. \A x \in I : x \in Pgids /\ x \notin DOMAIN page
  BY <1>19, <1>20
<1>23. ASSUME NEW j \in 1 .. l PROVE page'[ids[j]] = Write(node[n].leaf, parts[j])
  <2>1. (CHOOSE i \in DOMAIN ids : ids[i] = ids[j]) = j
    BY <1>14, <1>19
  <2>2. ids[j] \in I /\ ids[j] \notin DOMAIN page
    BY <1>19, <1>20
  <2> QED
    BY <1>10, <2>1, <2>2, Zenon
<1>24. PagesOf(ids, l, I, page', node[n].leaf, parts)
  BY <1>13, <1>19, <1>20, <1>23 DEF PagesOf
<1>25. \A x : x \in freed' <=> x \in freed \/ (x = n /\ n \in DOMAIN page)
  <2>1. (n \in DOMAIN page \ freed /\ node[n].pgid = n) \/ (n < 0 /\ node[n].pgid = 0)
    BY <1>6, <1>9 DEF Stands
  <2>2. n \in Int /\ n # 0
    BY <1>3, <1>6, <1>9, StandsNames
  <2>3. n < 0 => n \notin DOMAIN page
    BY <1>3, <2>2, TypedRecords
  <2>4. IF node[n].pgid = 0 THEN freed' = freed ELSE freed' = freed \cup {node[n].pgid}
    BY <1>10, Zenon
  <2> DEFINE pg == node[n].pgid
  <2>5. IF pg = 0 THEN freed' = freed ELSE freed' = freed \cup {pg}
    BY <2>4
  <2>6. (n \in DOMAIN page /\ pg = n) \/ (n \notin DOMAIN page /\ pg = 0)
    BY <2>1, <2>3
  <2> HIDE DEF pg
  <2> QED
    BY <2>2, <2>5, <2>6
<1>26. p # 0 => \A j \in 1 .. l : parts[j] # <<>>
  BY <1>10, <1>13, Zenon
<1>27. Len(parts) = l
  BY DEF l
<1>28. n # p
  <2>1. n # top => h[n] < h[node[n].parent] /\ h[n] \in Nat
    BY <1>6, <1>9 DEF Steep
  <2>2. n = top => node[n].parent = 0
    BY <1>6 DEF Links
  <2>3. node[n].parent # n
    BY <1>7, <1>9, <2>1, <2>2
  <2>4. Min(DOMAIN node \cup {0}) - 1 \notin DOMAIN node
    BY <1>3, FreshRoot DEF Typed
  <2> HIDE DEF ns
  <2> QED
    BY <1>9, <2>3, <2>4
<1>29. DOMAIN node \subseteq DOMAIN ns /\ \A m \in DOMAIN node : m # p => ns[m] = node[m]
  BY DEF ns
<1>30. DOMAIN node' = DOMAIN ns /\ n \in DOMAIN ns /\ ns[n] = node[n]
  <2> HIDE DEF ns, p
  <2>1. DOMAIN node' = DOMAIN ns
    BY <1>10
  <2> QED
    BY <1>9, <1>28, <1>29, <2>1
<1>31. Spills(n, parts, l, ids, I, p)
  <2> HIDE DEF ns, p
  <2>1. node'[n] = [node[n] EXCEPT !.pgid = ids[1], !.inodes = parts[1], !.parent = p,
                                   !.children = {}, !.spilled = TRUE]
    BY <1>10, <1>30
  <2>2. \A m \in DOMAIN node : m # n /\ m # p => node'[m] = node[m]
    BY <1>10, <1>29
  <2> QED
    BY <1>9, <1>10, <1>12, <1>13, <1>21, <1>22, <1>24, <1>25, <1>26, <1>27, <2>1, <2>2 DEF Spills
<1>32. node[n].parent = 0 \/ node[n].parent \in DOMAIN node
  BY <1>6, <1>9 DEF Links
<1>33. CASE p \in DOMAIN node
  <2>1. ns = node
    BY <1>33
  <2>2. p = node[n].parent
    <3>1. Min(DOMAIN node \cup {0}) - 1 \notin DOMAIN node
      BY <1>3, FreshRoot DEF Typed
    <3> HIDE DEF ns
    <3> QED
      BY <1>33, <3>1
  <2> HIDE DEF ns, p
  <2>3. node'[p] = [node[p] EXCEPT !.inodes = PutParts(@, n, parts, ids), !.children = @ \cup {n}]
    BY <1>10, <1>28, <1>33, <2>1
  <2>4. SpillsUnder(n, parts, ids, p)
    BY <1>30, <1>33, <2>1, <2>3 DEF SpillsUnder
  <2> QED
    BY <1>1, <1>2, <1>4, <1>5, <1>8, <1>31, <2>2, <2>4
<1>34. CASE p # 0 /\ p \notin DOMAIN node
  <2>1. ns = [m \in DOMAIN node \cup {p} |-> IF m = p THEN NewRoot ELSE node[m]]
    BY <1>34
  <2>2. node[n].parent = 0 /\ l > 1 /\ p = Min(DOMAIN node \cup {0}) - 1
    <3> HIDE DEF ns
    <3> QED
      BY <1>32, <1>34
  <2>3. p \in Int /\ p < 0
    <3>1. Min(DOMAIN node \cup {0}) - 1 \in Int /\ Min(DOMAIN node \cup {0}) - 1 < 0
      BY <1>3, FreshRoot DEF Typed
    <3> HIDE DEF ns, p
    <3> QED
      BY <2>2, <3>1
  <2> HIDE DEF ns, p
  <2>4. DOMAIN ns = DOMAIN node \cup {p} /\ ns[p] = NewRoot
    BY <2>1
  <2>5. node'[p] = [NewRoot EXCEPT !.inodes = PutParts(@, n, parts, ids), !.children = @ \cup {n}]
    BY <1>10, <1>28, <2>4
  <2>6. SpillsNewRoot(n, parts, ids, p)
    BY <1>30, <1>34, <2>3, <2>4, <2>5 DEF SpillsNewRoot
  <2> QED
    BY <1>1, <1>2, <1>4, <1>5, <1>8, <1>31, <2>2, <2>6
<1>35. CASE p = 0
  <2>1. ns = node
    BY <1>35
  <2>2. node[n].parent = 0 /\ ~(l > 1)
    <3>1. Min(DOMAIN node \cup {0}) - 1 \in Int /\ Min(DOMAIN node \cup {0}) - 1 < 0
      BY <1>3, FreshRoot DEF Typed
    <3> DEFINE m == Min(DOMAIN node \cup {0}) - 1
    <3>2. m # 0
      <4> HIDE DEF m
      <4>1. m \in Int /\ m < 0
        BY <3>1 DEF m
      <4> QED
        BY <4>1
    <3> HIDE DEF ns
    <3> QED
      BY <1>35, <3>2
  <2> HIDE DEF ns, p
  <2>3. l = 1
    BY <1>13, <2>2
  <2>4. DOMAIN node' = DOMAIN node
    BY <1>30, <2>1
  <2> QED
    BY <1>1, <1>2, <1>4, <1>5, <1>8, <1>31, <1>35, <2>2, <2>3, <2>4
<1> QED
  BY <1>33, <1>34, <1>35

LEMMA PgidsInt == \A x \in Pgids : x \in Int /\ x # 0
BY TreeAssumption DEF TreeAssumption

\* The records of the node that was written and of its pages.
LEMMA SpillsTyped ==
  ASSUME Typed(page, node), NEW n, NEW parts, NEW l, NEW ids, NEW I, NEW p \in Int,
         Spills(n, parts, l, ids, I, p)
  PROVE  /\ DOMAIN page' \subseteq Pgids /\ \A id \in DOMAIN page' : page'[id] \in PageType
         /\ node'[n] \in NodeType
         /\ node'[n].pgid = ids[1] /\ node'[n].children = {} /\ node'[n].parent = p /\ node'[n].spilled
         /\ node'[n].unbalanced = node[n].unbalanced /\ node'[n].inodes = parts[1]
         /\ l \in Nat \ {0} /\ 1 \in 1 .. l /\ \A j \in 1 .. l : Row(parts[j]) /\ ids[j] \in Pgids
<1> DEFINE R == {x \in Seq(Elem) : Row(x)}
           m == node[n]
<1>1. /\ \A x : x \in DOMAIN page' <=> x \in DOMAIN page \/ x \in I
      /\ \A x \in DOMAIN page : page'[x] = page[x]
      /\ \A x \in I : x \in Pgids /\ x \notin DOMAIN page
      /\ n \in DOMAIN node
  BY DEF Spills
<1>2. l \in Nat \ {0} /\ 1 \in 1 .. l /\ \A j \in 1 .. l : Row(parts[j]) /\ ids[j] \in I
  <2>1. l \in Nat \ {0} /\ \A j \in 1 .. l : ids[j] \in I
    BY DEF Spills, PagesOf
  <2>2. \A j \in 1 .. Len(parts) : Row(parts[j])
    BY DEF Spills, AreParts
  <2>3. Len(parts) = l
    BY DEF Spills
  <2> QED
    BY <2>1, <2>2, <2>3
<1>3. m \in NodeType
  BY <1>1 DEF Typed
<1>4. \A j \in 1 .. l : parts[j] \in R
  BY <1>2 DEF Row
<1>5. NodeType = [pgid : Nat, leaf : BOOLEAN, inodes : R, key : Nat, parent : Int,
                  children : SUBSET Int, unbalanced : BOOLEAN, spilled : BOOLEAN]
  BY DEF NodeType
<1>6. PageType = [leaf : BOOLEAN, inodes : R]
  BY DEF PageType
<1>7. node'[n] = [m EXCEPT !.pgid = ids[1], !.inodes = parts[1], !.parent = p,
                           !.children = {}, !.spilled = TRUE]
  BY DEF Spills
<1>8. ids[1] \in Nat
  BY <1>1, <1>2, TreeAssumption DEF TreeAssumption
<1> HIDE DEF R
<1>9. m.leaf \in BOOLEAN
  BY <1>3, <1>5
<1>10. \A id \in DOMAIN page' : page'[id] \in PageType
  <2>1. SUFFICES ASSUME NEW id \in DOMAIN page' PROVE page'[id] \in PageType
    OBVIOUS
  <2>2. CASE id \in DOMAIN page
    BY <1>1, <2>2 DEF Typed
  <2>3. CASE id \in I
    <3>1. PICK j \in 1 .. l : id = ids[j]
      BY <2>3 DEF Spills, PagesOf
    <3>2. page'[id] = Write(m.leaf, parts[j])
      BY <3>1 DEF Spills, PagesOf
    <3> HIDE DEF m
    <3>3. page'[id] = [leaf |-> m.leaf, inodes |-> parts[j]]
      BY <3>2 DEF Write
    <3> QED
      BY <1>4, <1>6, <1>9, <3>3
  <2> QED
    BY <1>1, <2>2, <2>3
<1>11. DOMAIN page' \subseteq Pgids
  BY <1>1 DEF Typed
<1>12. /\ node'[n] \in NodeType
       /\ node'[n].pgid = ids[1] /\ node'[n].children = {} /\ node'[n].parent = p /\ node'[n].spilled
       /\ node'[n].unbalanced = m.unbalanced /\ node'[n].inodes = parts[1]
  <2> HIDE DEF m
  <2>1. parts[1] \in R
    BY <1>2, <1>4
  <2> DEFINE x == [m EXCEPT !.pgid = ids[1], !.inodes = parts[1], !.parent = p,
                            !.children = {}, !.spilled = TRUE]
  <2>2. x \in NodeType
    BY <1>3, <1>5, <1>8, <2>1
  <2>3. /\ x.pgid = ids[1] /\ x.children = {} /\ x.parent = p /\ x.spilled = TRUE
        /\ x.unbalanced = m.unbalanced /\ x.inodes = parts[1]
    BY <1>3, <1>5
  <2> HIDE DEF x
  <2>4. node'[n] = x
    BY <1>7 DEF x
  <2> QED
    BY <2>2, <2>3, <2>4
<1> QED
  BY <1>1, <1>2, <1>10, <1>11, <1>12

SpillsAlone(n, l, p) == p = 0 /\ node[n].parent = 0 /\ l = 1 /\ DOMAIN node' = DOMAIN node

\* The root is written to one page.
LEMMA SpillRootStep ==
  ASSUME Typed(page, node), freed \subseteq DOMAIN page, node # <<>>,
         NEW top, NEW h, NEW d, Spilling(page, node, freed, root, top, h, d), ~node[top].spilled,
         Full(TreeOf(page, node, freed), 0),
         NEW n, NEW parts, NEW l, NEW ids, NEW I, NEW p, Spills(n, parts, l, ids, I, p),
         SpillsAlone(n, l, p),
         \A m \in DOMAIN node : ~node[m].unbalanced
  PROVE  /\ Typed(page', node')
         /\ \E top2, h2, d2 : Spilling(page', node', freed', root, top2, h2, d2)
         /\ Full(TreeOf(page', node', freed'), 0)
         /\ \A m \in DOMAIN node' : ~node'[m].unbalanced
         /\ LeafItems(TreeOf(page', node', freed')) = LeafItems(TreeOf(page, node, freed))
<1>1. root \in DOMAIN node /\ Links(node, top) /\ Steep(node, top, h) /\ Stands(page, node, freed)
  BY DEF Spilling
<1>2. /\ DOMAIN page' \subseteq Pgids /\ \A id \in DOMAIN page' : page'[id] \in PageType
      /\ node'[n] \in NodeType
      /\ node'[n].pgid = ids[1] /\ node'[n].children = {} /\ node'[n].parent = 0 /\ node'[n].spilled
      /\ node'[n].unbalanced = node[n].unbalanced /\ node'[n].inodes = parts[1]
      /\ Row(parts[1])
  <2>1. p \in Int /\ Spills(n, parts, l, ids, I, p)
    BY DEF SpillsAlone
  <2>2. /\ DOMAIN page' \subseteq Pgids /\ \A id \in DOMAIN page' : page'[id] \in PageType
        /\ node'[n] \in NodeType
        /\ node'[n].pgid = ids[1] /\ node'[n].children = {} /\ node'[n].parent = p /\ node'[n].spilled
        /\ node'[n].unbalanced = node[n].unbalanced /\ node'[n].inodes = parts[1]
        /\ 1 \in 1 .. l /\ \A j \in 1 .. l : Row(parts[j])
    BY <2>1, SpillsTyped
  <2> QED
    BY <2>2 DEF SpillsAlone
<1>3. p = 0 /\ node[n].parent = 0 /\ l = 1 /\ DOMAIN node' = DOMAIN node
  BY DEF SpillsAlone
<1>4. n \in DOMAIN node /\ \A m \in DOMAIN node : m # 0
  BY <1>1, StandsNames DEF Spills
<1>5. \A m \in DOMAIN node : m # n => node'[m] = node[m]
  BY <1>4, <1>3 DEF Spills
<1>6. n = top
  BY <1>1, <1>4, <1>3 DEF Links
<1>7. Typed(page', node')
  <2>1. \A m \in DOMAIN node' : node'[m] \in NodeType
    BY <1>2, <1>5, <1>3 DEF Typed
  <2> QED
    BY <1>2, <1>3, <2>1 DEF Typed
<1>8. Writes(page, node, freed, page', node', freed', n, I)
  <2>1. \A m \in DOMAIN node : m # n =>
          \A e \in ToSet(node[m].inodes) : e.val # n => e \in ToSet(node'[m].inodes)
    BY <1>5
  <2>2. \A m \in DOMAIN node : m # n =>
         /\ node'[m].leaf = node[m].leaf /\ node'[m].key = node[m].key /\ node'[m].pgid = node[m].pgid
         /\ node'[m].parent = node[m].parent /\ node'[m].children = node[m].children
         /\ node'[m].spilled = node[m].spilled
    BY <1>5
  <2>3. I \subseteq Pgids /\ \A x \in I : x \notin DOMAIN page
    BY DEF Spills
  <2>4. \A c \in node[n].children : node[c].spilled
    BY DEF Spills
  <2>5. ~node[n].spilled
    BY DEF Spills
  <2>6. /\ \A x : x \in DOMAIN page' <=> x \in DOMAIN page \/ x \in I
        /\ \A x \in DOMAIN page : page'[x] = page[x]
        /\ \A x : x \in freed' <=> x \in freed \/ (x = n /\ n \in DOMAIN page)
    BY DEF Spills
  <2> QED
    BY <1>2, <1>4, <1>3, <2>1, <2>2, <2>3, <2>4, <2>5, <2>6 DEF Writes
<1> DEFINE i == ids[1]
           s1 == parts[1]
<1>9. (\A x : x \in I <=> x = i) /\ page'[i] = Write(node[n].leaf, s1)
  <2>1. /\ \A x : x \in I <=> \E j \in 1 .. 1 : x = ids[j]
        /\ \A j \in 1 .. 1 : page'[ids[j]] = Write(node[n].leaf, parts[j])
    BY <1>3 DEF Spills, PagesOf
  <2> QED
    BY <2>1
<1>10. \A x : x \in ToSet(s1) <=> x \in ToSet(node[n].inodes)
  <2>1. ToSet(parts[1]) = ToSet(node[n].inodes)
    BY <1>3 DEF Spills, AreParts
  <2> QED
    BY <2>1
<1>11. node' # <<>>
  <2>1. n \in DOMAIN node' /\ DOMAIN (<<>>) = {}
    BY <1>4, <1>3
  <2> QED
    BY <2>1
<1>12. \A m \in DOMAIN node : m # n => node'[m].inodes = node[m].inodes
  BY <1>5
<1>13. Row(s1) /\ node'[n].pgid = i
  BY <1>2
<1> HIDE DEF i, s1
<1>14. /\ \E h2, d2 : Spilling(page', node', freed', root, n, h2, d2)
       /\ Full(TreeOf(page', node', freed'), 0)
       /\ LeafItems(TreeOf(page', node', freed')) = LeafItems(TreeOf(page, node, freed))
  <2>1. Spilling(page, node, freed, root, n, h, d) /\ ~node[n].spilled
    BY <1>6
  <2> QED
    BY <1>7, <1>8, <1>9, <1>10, <1>11, <1>12, <1>13, <2>1, RootSpill
<1>15. \A m \in DOMAIN node' : ~node'[m].unbalanced
  BY <1>2, <1>4, <1>5, <1>3
<1> QED
  BY <1>7, <1>14, <1>15

\* The puts for the parts leave the elements of the other nodes.
LEMMA PutsUnder ==
  ASSUME NEW t, NEW r, NEW h, NEW d, Shape(t, r, h, d),
         NEW n, NEW p \in Branches(t), NEW a \in t[p].items, a.val = n,
         NEW s, Row(s), NEW q, Row(q), NEW leaf, Holds(t, n, leaf, s), t[p].items = ToSet(q),
         t[n].key = node[n].key,
         NEW parts, NEW l \in Nat \ {0}, Len(parts) = l, PartsOf(parts, l, s),
         NEW ids, \A j \in 1 .. l : ids[j] \in Int
  PROVE  Row(PutParts(q, n, parts, ids)) /\ HasParts(PutParts(q, n, parts, ids), q, n, l, parts, ids)
<1> DEFINE old == a.key
           K == [j \in 1 .. l |-> FirstKey(parts[j])]
<1>1. n \in DOMAIN t /\ a.key \in Nat /\ a.key # 0 /\ t[n].key = a.key
  <2>1. n \in DOMAIN t /\ t[n].key = a.key /\ a \in Elem
    BY ChildFacts DEF Branches
  <2> QED
    BY <2>1 DEF Elem, Key
<1>2. \A j \in 1 .. l : /\ K[j] = FirstKey(parts[j]) /\ K[j] \in Key
                        /\ K[j] \in d[n] /\ ids[j] \in Int
  <2>1. SUFFICES ASSUME NEW j \in 1 .. l PROVE FirstKey(parts[j]) \in Key /\ FirstKey(parts[j]) \in d[n]
    OBVIOUS
  <2>2. Row(parts[j]) /\ parts[j] # <<>> /\ ToSet(parts[j]) \subseteq ToSet(s)
    BY DEF PartsOf
  <2>3. /\ parts[j][1] \in ToSet(parts[j]) /\ FirstKey(parts[j]) = parts[j][1].key
        /\ FirstKey(parts[j]) \in Nat /\ FirstKey(parts[j]) # 0
    BY <2>2, RowFirst
  <2>4. parts[j][1] \in t[n].items
    BY <2>2, <2>3 DEF Holds
  <2>5. parts[j][1].key \in d[n]
    BY <1>1, <2>4, ChildFacts
  <2> QED
    BY <2>3, <2>5 DEF Key
<1>3. \A i, j \in 1 .. l : i < j => K[i] < K[j]
  BY DEF PartsOf
<1>4. \A f \in ToSet(q) : /\ f.key \in Nat /\ f \in t[p].items
                          /\ f.val = n <=> f.key = a.key
  <2>1. SUFFICES ASSUME NEW f \in ToSet(q)
                 PROVE  f.key \in Nat /\ f \in t[p].items /\ (f.val = n <=> f.key = a.key)
    OBVIOUS
  <2>2. f \in t[p].items /\ a \in ToSet(q)
    OBVIOUS
  <2>3. f.key \in Nat
    BY <2>2, ChildFacts
  <2>4. f.val = a.val => f = a
    BY <2>2, TheParent
  <2>5. f.key = a.key => f = a
    BY <2>2, RowKeys
  <2> QED
    BY <2>2, <2>3, <2>4, <2>5
<1> HIDE DEF K
<1>5. Clear(ToSet(q), old, K, l)
  <2>1. SUFFICES ASSUME NEW f \in ToSet(q), f.key # old
                 PROVE  \/ f.key < old /\ \A j \in 1 .. l : f.key < K[j]
                        \/ old < f.key /\ \A j \in 1 .. l : K[j] < f.key
    BY DEF Clear
  <2>2. f \in t[p].items /\ f.key \in Nat /\ f.key \in d[f.val]
    BY <1>4, ChildFacts
  <2>3. CASE f.key < old
    <3>1. Apart(d[f.val], d[a.val])
      BY <2>2, <2>3 DEF Shape, Children
    <3>2. \A j \in 1 .. l : f.key < K[j]
      BY <1>2, <2>2, <3>1 DEF Apart
    <3> QED
      BY <2>3, <3>2
  <2>4. CASE old < f.key
    <3>1. Apart(d[a.val], d[f.val])
      BY <2>2, <2>4 DEF Shape, Children
    <3>2. \A j \in 1 .. l : K[j] < f.key
      BY <1>2, <2>2, <3>1 DEF Apart
    <3> QED
      BY <2>4, <3>2
  <2>5. f.key < old \/ old < f.key
    BY <1>1, <2>1, <2>2
  <2> QED
    BY <2>3, <2>4, <2>5
<1>6. OldKey(n, parts[1], 1) = old
  <2>1. node[n].key = a.key
    BY <1>1
  <2> QED
    BY <1>1, <2>1 DEF OldKey
<1>7. old \in Nat
  BY <1>1
<1> HIDE DEF old
<1>8. ArePut(PutParts(q, n, parts, ids), q, old, K, ids, l)
  <2>1. \A j \in 1 .. l : K[j] = FirstKey(parts[j]) /\ K[j] \in Key /\ ids[j] \in Int
    BY <1>2
  <2> QED
    BY <1>3, <1>5, <1>6, <1>7, <2>1, PutPartsRow
<1> DEFINE s2 == PutParts(q, n, parts, ids)
<1> HIDE DEF s2
<1>9. Row(s2) /\ \A x : x \in ToSet(s2) <=> \/ x \in ToSet(q) /\ x.key # old
                                            \/ \E j \in 1 .. l : x = Element(K[j], ids[j])
  BY <1>8 DEF ArePut, s2
<1>10. HasParts(s2, q, n, l, parts, ids)
  <2>1. ASSUME NEW x
        PROVE  x \in ToSet(s2) <=> \/ x \in ToSet(q) /\ x.val # n
                                   \/ \E j \in 1 .. l : x = Element(FirstKey(parts[j]), ids[j])
    <3>1. x \in ToSet(q) => (x.val = n <=> x.key = old)
      BY <1>4 DEF old
    <3>2. (\E j \in 1 .. l : x = Element(K[j], ids[j]))
            <=> (\E j \in 1 .. l : x = Element(FirstKey(parts[j]), ids[j]))
      BY <1>2
    <3> QED
      BY <1>9, <3>1, <3>2
  <2> QED
    BY <2>1 DEF HasParts
<1> QED
  BY <1>9, <1>10 DEF s2

\* Without other elements there are only those of the parts.
Alone(n, s, parts, l, ids, q) ==
  /\ Row(s) /\ l \in Nat \ {0} /\ Len(parts) = l /\ PartsOf(parts, l, s)
  /\ node[n].key \in Nat /\ Row(q)
  /\ \A j \in 1 .. l : ids[j] \in Int
  /\ \A x : x \notin ToSet(q)

LEMMA PutsAlone ==
  ASSUME NEW n, NEW s, NEW parts, NEW l, NEW ids, NEW q, Alone(n, s, parts, l, ids, q)
  PROVE  /\ Row(PutParts(q, n, parts, ids))
         /\ \A x : x \in ToSet(PutParts(q, n, parts, ids))
                     <=> \E j \in 1 .. l : x = Element(FirstKey(parts[j]), ids[j])
<1> USE DEF Alone
<1> DEFINE K == [j \in 1 .. l |-> FirstKey(parts[j])]
           old == OldKey(n, parts[1], 1)
           s2 == PutParts(q, n, parts, ids)
<1>1. Row(q) /\ ToSet(q) = {}
  OBVIOUS
<1>2. \A j \in 1 .. l : K[j] = FirstKey(parts[j]) /\ K[j] \in Key /\ ids[j] \in Int
  <2>1. SUFFICES ASSUME NEW j \in 1 .. l PROVE FirstKey(parts[j]) \in Key
    OBVIOUS
  <2>2. Row(parts[j]) /\ parts[j] # <<>>
    BY DEF PartsOf
  <2> QED
    BY <2>2, RowFirst DEF Key
<1>3. \A i, j \in 1 .. l : i < j => K[i] < K[j]
  BY DEF PartsOf
<1>4. Clear(ToSet(q), old, K, l)
  BY <1>1 DEF Clear
<1>5. old \in Nat
  <2>1. 1 \in 1 .. l /\ K[1] \in Key
    BY <1>2
  <2>2. FirstKey(parts[1]) \in Nat
    BY <1>2, <2>1 DEF Key
  <2> QED
    BY <2>2 DEF OldKey
<1> HIDE DEF K, old
<1>6. ArePut(PutParts(q, n, parts, ids), q, old, K, ids, l)
  <2>1. old = OldKey(n, parts[1], 1)
    BY DEF old
  <2> QED
    BY <1>1, <1>2, <1>3, <1>4, <1>5, <2>1, PutPartsRow
<1> HIDE DEF s2
<1>7. Row(s2) /\ \A x : x \in ToSet(s2) <=> \/ x \in ToSet(q) /\ x.key # old
                                            \/ \E j \in 1 .. l : x = Element(K[j], ids[j])
  BY <1>6 DEF ArePut, s2
<1>8. ASSUME NEW x
      PROVE  x \in ToSet(s2) <=> \E j \in 1 .. l : x = Element(FirstKey(parts[j]), ids[j])
  BY <1>1, <1>2, <1>7
<1> QED
  BY <1>7, <1>8 DEF s2

\* What Spill does to pages and to the freed ones, seen as Writes.
LEMMA SpillsWrites ==
  ASSUME NEW ns, NEW n, NEW parts, NEW l, NEW ids, NEW I, NEW p, Spills(n, parts, l, ids, I, p),
         n \in DOMAIN ns, ~ns[n].spilled, \A c \in ns[n].children : ns[c].spilled,
         DOMAIN node' = DOMAIN ns,
         node'[n].spilled, node'[n].children = {}, node'[n].parent = ns[n].parent,
         \A m \in DOMAIN ns : m # n =>
           /\ node'[m].leaf = ns[m].leaf /\ node'[m].key = ns[m].key /\ node'[m].pgid = ns[m].pgid
           /\ node'[m].parent = ns[m].parent /\ node'[m].children = ns[m].children
           /\ node'[m].spilled = ns[m].spilled
           /\ \A e \in ToSet(ns[m].inodes) : e.val # n => e \in ToSet(node'[m].inodes)
  PROVE  Writes(page, ns, freed, page', node', freed', n, I)
<1>1. /\ I \subseteq Pgids /\ \A x \in I : x \notin DOMAIN page
      /\ \A x : x \in DOMAIN page' <=> x \in DOMAIN page \/ x \in I
      /\ \A x \in DOMAIN page : page'[x] = page[x]
      /\ \A x : x \in freed' <=> x \in freed \/ (x = n /\ n \in DOMAIN page)
  BY DEF Spills
<1> QED
  BY <1>1 DEF Writes

SpillsBelow(n, parts, ids, p) == p = node[n].parent /\ SpillsUnder(n, parts, ids, p)

\* A node is written under its parent.
LEMMA SpillUnderStep ==
  ASSUME Typed(page, node), freed \subseteq DOMAIN page, node # <<>>,
         NEW top, NEW h, NEW d, Spilling(page, node, freed, root, top, h, d), ~node[top].spilled,
         Full(TreeOf(page, node, freed), 0),
         NEW n, NEW parts, NEW l, NEW ids, NEW I, NEW p, Spills(n, parts, l, ids, I, p),
         SpillsBelow(n, parts, ids, p),
         \A m \in DOMAIN node : ~node[m].unbalanced
  PROVE  /\ Typed(page', node')
         /\ \E top2, h2, d2 : Spilling(page', node', freed', root, top2, h2, d2)
         /\ Full(TreeOf(page', node', freed'), 0)
         /\ \A m \in DOMAIN node' : ~node'[m].unbalanced
         /\ LeafItems(TreeOf(page', node', freed')) = LeafItems(TreeOf(page, node, freed))
<1> DEFINE t == TreeOf(page, node, freed)
           q == node[p].inodes
           s == node[n].inodes
           q2 == PutParts(q, n, parts, ids)
<1>1. /\ root \in DOMAIN node /\ Links(node, top) /\ Steep(node, top, h) /\ Stands(page, node, freed)
      /\ Shape(t, top, h, d)
  BY DEF Spilling, TreeTop
<1>2. /\ p \in DOMAIN node /\ DOMAIN node' = DOMAIN node /\ p = node[n].parent
      /\ node'[p] = [node[p] EXCEPT !.inodes = q2, !.children = @ \cup {n}]
  BY DEF SpillsBelow, SpillsUnder
<1>3. n \in DOMAIN node /\ ~node[n].spilled /\ p # 0 /\ p \in Int
  <2>1. n \in DOMAIN node /\ ~node[n].spilled
    BY DEF Spills
  <2> QED
    BY <1>1, <1>2, <2>1, StandsNames
<1>4. n # top
  BY <1>1, <1>2, <1>3 DEF Links
<1>5. /\ ~node[p].spilled /\ n \in node[p].children /\ ~node[p].leaf
      /\ \E e \in ToSet(q) : e.val = n
  <2>1. node[n].parent = p
    BY <1>2
  <2> QED
    BY <1>1, <1>3, <1>4, <2>1 DEF Links
<1>6. p # n
  <2>1. h[n] < h[node[n].parent] /\ h[n] \in Nat
    BY <1>1, <1>3, <1>4 DEF Steep
  <2> QED
    BY <1>2, <2>1
<1>7. /\ Unwritten(node, n) /\ Unwritten(node, p) /\ n \in DOMAIN t /\ p \in DOMAIN t
      /\ t[n] = OfNode(node[n]) /\ t[p] = OfNode(node[p])
  <2>1. Unwritten(node, n) /\ Unwritten(node, p)
    BY <1>2, <1>3, <1>5 DEF Unwritten
  <2> QED
    BY <2>1 DEF TreeOf, Live, Unwritten
<1>8. Full(t, 0)
  OBVIOUS
<1> HIDE DEF t
<1>9. /\ Row(q) /\ Row(s) /\ t[p].items = ToSet(q) /\ ~t[p].leaf /\ p \in Branches(t)
      /\ t[n].key = node[n].key /\ Holds(t, n, node[n].leaf, s)
  <2>1. Row(q) /\ Row(s)
    BY <1>2, <1>3, TypedRecords
  <2>2. t[p].items = ToSet(q) /\ ~t[p].leaf /\ p \in Branches(t)
    BY <1>5, <1>7 DEF OfNode, Branches
  <2>3. t[n].key = node[n].key /\ Holds(t, n, node[n].leaf, s)
    BY <1>7 DEF OfNode, Holds
  <2> QED
    BY <2>1, <2>2, <2>3
<1>10. PICK a \in t[p].items : a.val = n
  BY <1>5, <1>9
<1>11. /\ DOMAIN page' \subseteq Pgids /\ \A id \in DOMAIN page' : page'[id] \in PageType
       /\ node'[n] \in NodeType
       /\ node'[n].pgid = ids[1] /\ node'[n].children = {} /\ node'[n].parent = p /\ node'[n].spilled
       /\ node'[n].unbalanced = node[n].unbalanced /\ node'[n].inodes = parts[1]
       /\ l \in Nat \ {0} /\ 1 \in 1 .. l /\ \A j \in 1 .. l : Row(parts[j]) /\ ids[j] \in Pgids
  BY <1>3, SpillsTyped
<1>12. Len(parts) = l /\ PartsOf(parts, l, s)
  <2>1. Len(parts) = l /\ AreParts(parts, s) /\ \A j \in 1 .. l : parts[j] # <<>>
    BY <1>3 DEF Spills
  <2>2. l = Len(parts)
    BY <2>1
  <2> QED
    BY <1>9, <2>1, <2>2, PartsFacts
<1>13. \A j \in 1 .. l : ids[j] \in Int
  <2>1. \A x \in Pgids : x \in Int
    BY PgidsInt
  <2> QED
    BY <1>11, <2>1
<1>14. Row(q2) /\ HasParts(q2, q, n, l, parts, ids)
  <2>1. l \in Nat \ {0}
    BY <1>11
  <2> HIDE DEF q, s
  <2> QED
    BY <1>1, <1>9, <1>10, <1>12, <1>13, <2>1, PutsUnder
<1> HIDE DEF q2
<1>15. /\ node'[p] \in NodeType /\ node'[p].inodes = q2 /\ node'[p].leaf = node[p].leaf
       /\ node'[p].key = node[p].key /\ node'[p].pgid = node[p].pgid /\ node'[p].parent = node[p].parent
       /\ node'[p].children = node[p].children /\ node'[p].unbalanced = node[p].unbalanced
       /\ node'[p].spilled = node[p].spilled
  <2> DEFINE R == {x \in Seq(Elem) : Row(x)}
             m == node[p]
             C == m.children \cup {n}
             x == [m EXCEPT !.inodes = q2, !.children = C]
  <2>1. q2 \in R
    BY <1>14 DEF Row
  <2>2. m \in NodeType
    BY <1>2 DEF Typed
  <2>3. NodeType = [pgid : Nat, leaf : BOOLEAN, inodes : R, key : Nat, parent : Int,
                    children : SUBSET Int, unbalanced : BOOLEAN, spilled : BOOLEAN]
    BY DEF NodeType
  <2>4. C = m.children
    BY <1>5
  <2>5. node'[p] = x
    BY <1>2
  <2> HIDE DEF R, C
  <2>6. C \in SUBSET Int
    BY <2>2, <2>3, <2>4
  <2> HIDE DEF m
  <2>7. x \in NodeType /\ x.inodes = q2 /\ x.leaf = m.leaf /\ x.key = m.key /\ x.pgid = m.pgid
        /\ x.parent = m.parent /\ x.children = C /\ x.unbalanced = m.unbalanced /\ x.spilled = m.spilled
    BY <2>1, <2>2, <2>3, <2>6
  <2> HIDE DEF x
  <2> QED
    BY <2>4, <2>5, <2>7 DEF m
<1>16. \A m \in DOMAIN node : m # n /\ m # p => node'[m] = node[m]
  BY DEF Spills
<1>17. Typed(page', node')
  <2>1. \A m \in DOMAIN node' : node'[m] \in NodeType
    BY <1>2, <1>11, <1>15, <1>16 DEF Typed
  <2> QED
    BY <1>2, <1>11, <2>1 DEF Typed
<1>18. \A e \in ToSet(q) : e.val # n => e \in ToSet(node'[p].inodes)
  BY <1>14, <1>15 DEF HasParts
<1>19. Writes(page, node, freed, page', node', freed', n, I)
  <2>1. \A m \in DOMAIN node : m # n =>
         /\ node'[m].leaf = node[m].leaf /\ node'[m].key = node[m].key /\ node'[m].pgid = node[m].pgid
         /\ node'[m].parent = node[m].parent /\ node'[m].children = node[m].children
         /\ node'[m].spilled = node[m].spilled
         /\ \A e \in ToSet(node[m].inodes) : e.val # n => e \in ToSet(node'[m].inodes)
    BY <1>15, <1>16, <1>18
  <2>2. \A c \in node[n].children : node[c].spilled
    BY DEF Spills
  <2>3. node'[n].parent = node[n].parent
    BY <1>2, <1>11
  <2> QED
    BY <1>2, <1>3, <1>11, <2>1, <2>2, <2>3, SpillsWrites
<1>20. node' # <<>>
  <2>1. n \in DOMAIN node' /\ DOMAIN (<<>>) = {}
    BY <1>2, <1>3
  <2> QED
    BY <2>1
<1>21. \E e \in ToSet(q) : e.val # n
  <2>1. PICK e \in t[p].items, f \in t[p].items : e # f
    BY <1>3, <1>8, <1>9 DEF Full
  <2>2. e.val = f.val => e = f
    BY <1>1, <1>9, <2>1, TheParent
  <2>3. e.val # n \/ f.val # n
    BY <2>1, <2>2
  <2> QED
    BY <1>9, <2>1, <2>3
<1>22. Full(t, p)
  <2>1. 0 \notin DOMAIN t
    BY <1>1, NoTreeAtZero DEF t
  <2> QED
    BY <1>8, <2>1 DEF Full, Branches
<1>23. PagesOf(ids, l, I, page', node[n].leaf, parts)
  BY DEF Spills
<1>24. HasParts(node'[p].inodes, node[p].inodes, n, l, parts, ids)
  BY <1>14, <1>15
<1>25. node[n].parent = p
  BY <1>2
<1>26. \A m \in DOMAIN node : m # n /\ m # p => node'[m].inodes = node[m].inodes
  BY <1>16
<1>27. Inserted(node, node', n, p, l, parts, ids)
  BY <1>21, <1>24, <1>25, <1>26 DEF Inserted
<1>28. /\ \E h2, d2 : Spilling(page', node', freed', root, top, h2, d2)
       /\ Full(TreeOf(page', node', freed'), 0)
       /\ LeafItems(TreeOf(page', node', freed')) = LeafItems(t)
  BY <1>4, <1>12, <1>17, <1>19, <1>20, <1>22, <1>23, <1>27, PartsSpill DEF t
<1>29. \A m \in DOMAIN node' : ~node'[m].unbalanced
  BY <1>2, <1>3, <1>11, <1>15, <1>16
<1> QED
  BY <1>17, <1>28, <1>29 DEF t

SpillsAbove(n, parts, l, ids, p) ==
  node[n].parent = 0 /\ l > 1 /\ SpillsNewRoot(n, parts, ids, p)

\* The root is split under a new root: as if it had been put there first.
LEMMA SpillNewRootStep ==
  ASSUME Typed(page, node), freed \subseteq DOMAIN page, node # <<>>,
         NEW top, NEW h, NEW d, Spilling(page, node, freed, root, top, h, d), ~node[top].spilled,
         Full(TreeOf(page, node, freed), 0),
         NEW n, NEW parts, NEW l, NEW ids, NEW I, NEW p, Spills(n, parts, l, ids, I, p),
         SpillsAbove(n, parts, l, ids, p),
         \A m \in DOMAIN node : ~node[m].unbalanced
  PROVE  /\ Typed(page', node')
         /\ \E top2, h2, d2 : Spilling(page', node', freed', root, top2, h2, d2)
         /\ Full(TreeOf(page', node', freed'), 0)
         /\ \A m \in DOMAIN node' : ~node'[m].unbalanced
         /\ LeafItems(TreeOf(page', node', freed')) = LeafItems(TreeOf(page, node, freed))
<1> DEFINE s == node[n].inodes
           q2 == PutParts(<<>>, n, parts, ids)
           k == FirstKey(s)
           ns1 == [m \in DOMAIN node \cup {p} |->
                     IF m = p THEN [NewRoot EXCEPT !.inodes = <<Element(k, n)>>, !.children = {n}]
                     ELSE IF m = n THEN [node[n] EXCEPT !.key = k, !.parent = p]
                     ELSE node[m]]
<1>1. root \in DOMAIN node /\ Links(node, top) /\ Steep(node, top, h) /\ Stands(page, node, freed)
  BY DEF Spilling
<1>2. /\ p \in Int /\ p < 0 /\ p # 0 /\ p \notin DOMAIN node /\ DOMAIN node' = DOMAIN node \cup {p}
      /\ node'[p] = [NewRoot EXCEPT !.inodes = PutParts(@, n, parts, ids), !.children = @ \cup {n}]
      /\ node[n].parent = 0 /\ l > 1
  BY DEF SpillsAbove, SpillsNewRoot
<1>3. /\ n \in DOMAIN node /\ ~node[n].spilled /\ n # 0 /\ n \in Int /\ n # p
      /\ \A m \in DOMAIN node : m # 0 /\ m # p
  <2>1. n \in DOMAIN node /\ ~node[n].spilled
    BY DEF Spills
  <2> QED
    BY <1>1, <1>2, <2>1, StandsNames
<1>4. n = top
  BY <1>1, <1>2, <1>3 DEF Links
<1>5. /\ DOMAIN page' \subseteq Pgids /\ \A id \in DOMAIN page' : page'[id] \in PageType
      /\ node'[n] \in NodeType
      /\ node'[n].pgid = ids[1] /\ node'[n].children = {} /\ node'[n].parent = p /\ node'[n].spilled
      /\ node'[n].unbalanced = node[n].unbalanced /\ node'[n].inodes = parts[1]
      /\ l \in Nat \ {0} /\ 1 \in 1 .. l /\ \A j \in 1 .. l : Row(parts[j]) /\ ids[j] \in Pgids
  BY <1>2, SpillsTyped
<1>6. Row(s) /\ node[n].key \in Nat /\ node[n] \in NodeType
  BY <1>3, TypedRecords DEF Typed
<1>7. Len(parts) = l /\ PartsOf(parts, l, s) /\ AreParts(parts, s)
  <2>1. Len(parts) = l /\ AreParts(parts, s) /\ \A j \in 1 .. l : parts[j] # <<>>
    BY <1>2 DEF Spills
  <2>2. l = Len(parts)
    BY <2>1
  <2> QED
    BY <1>6, <2>1, <2>2, PartsFacts
<1>8. \A j \in 1 .. l : ids[j] \in Int
  <2>1. \A x \in Pgids : x \in Int
    BY PgidsInt
  <2> QED
    BY <1>5, <2>1
<1>9. /\ Row(q2)
      /\ \A x : x \in ToSet(q2) <=> \E j \in 1 .. l : x = Element(FirstKey(parts[j]), ids[j])
  <2>1. l \in Nat \ {0}
    BY <1>5
  <2> DEFINE q == <<>>
  <2>2. Row(q) /\ \A x : x \notin ToSet(q)
    BY RowNone
  <2> HIDE DEF s, q
  <2>3. /\ Row(PutParts(q, n, parts, ids))
        /\ \A x : x \in ToSet(PutParts(q, n, parts, ids))
                    <=> \E j \in 1 .. l : x = Element(FirstKey(parts[j]), ids[j])
    <3>1. Row(s) /\ Len(parts) = l /\ PartsOf(parts, l, s) /\ node[n].key \in Nat
      BY <1>6, <1>7
    <3>2. Alone(n, s, parts, l, ids, q)
      BY <1>8, <2>1, <2>2, <3>1 DEF Alone
    <3> QED
      BY <3>2, PutsAlone
  <2> QED
    BY <2>3 DEF q
<1>10. s # <<>>
  <2>1. ToSet(s) # {}
    BY <1>2, <1>7 DEF PartsOf
  <2> QED
    BY <1>6, <2>1, RowSize
<1>11. /\ node'[p] \in NodeType /\ node'[p].inodes = q2 /\ ~node'[p].leaf /\ node'[p].key = 0
       /\ node'[p].pgid = 0 /\ node'[p].parent = 0 /\ \A x : x \in node'[p].children <=> x = n
       /\ ~node'[p].unbalanced /\ ~node'[p].spilled
  <2> DEFINE R == {x \in Seq(Elem) : Row(x)}
             C == {n}
  <2>1. node'[p] = [pgid |-> 0, leaf |-> FALSE, inodes |-> q2, key |-> 0, parent |-> 0,
                    children |-> C, unbalanced |-> FALSE, spilled |-> FALSE]
    <3> HIDE DEF q2
    <3>1. node'[p] = [NewRoot EXCEPT !.inodes = q2, !.children = {} \cup {n}]
      BY <1>2 DEF NewRoot, q2
    <3>2. {} \cup {n} = {n}
      OBVIOUS
    <3> QED
      BY <3>1, <3>2 DEF NewRoot
  <2> HIDE DEF q2
  <2>2. q2 \in R /\ C \in SUBSET Int
    BY <1>3, <1>9 DEF Row
  <2>3. NodeType = [pgid : Nat, leaf : BOOLEAN, inodes : R, key : Nat, parent : Int,
                    children : SUBSET Int, unbalanced : BOOLEAN, spilled : BOOLEAN]
    BY DEF NodeType
  <2> DEFINE rec == [pgid |-> 0, leaf |-> FALSE, inodes |-> q2, key |-> 0, parent |-> 0,
                     children |-> C, unbalanced |-> FALSE, spilled |-> FALSE]
  <2> HIDE DEF R
  <2>4. rec.children = C /\ \A x : x \in C <=> x = n
    OBVIOUS
  <2> HIDE DEF C
  <2>5. rec \in NodeType
    BY <2>2, <2>3
  <2>6. /\ rec.inodes = q2 /\ ~rec.leaf /\ rec.key = 0 /\ rec.pgid = 0 /\ rec.parent = 0
        /\ ~rec.unbalanced /\ ~rec.spilled
    OBVIOUS
  <2> HIDE DEF rec
  <2>7. node'[p] = rec
    BY <2>1 DEF rec
  <2> QED
    BY <2>4, <2>5, <2>6, <2>7
<1> HIDE DEF q2
<1>12. \A m \in DOMAIN node : m # n => node'[m] = node[m]
  BY <1>3 DEF Spills
<1>13. Typed(page', node')
  <2>1. \A m \in DOMAIN node' : node'[m] \in NodeType
    BY <1>2, <1>5, <1>11, <1>12 DEF Typed
  <2>2. IsFiniteSet(DOMAIN node')
    BY <1>2, FS_AddElement DEF Typed
  <2>3. DOMAIN node' \subseteq Int
    BY <1>2 DEF Typed
  <2> QED
    BY <1>5, <2>1, <2>2, <2>3 DEF Typed
<1>14. /\ DOMAIN ns1 = DOMAIN node \cup {p}
       /\ ns1[p] = [NewRoot EXCEPT !.inodes = <<Element(k, n)>>, !.children = {n}]
       /\ ns1[n] = [node[n] EXCEPT !.key = k, !.parent = p]
       /\ \A m \in DOMAIN node : m # n => ns1[m] = node[m]
  BY <1>2, <1>3
<1> HIDE DEF ns1
<1>15. /\ Typed(page, ns1) /\ \E h1, d1 : Spilling(page, ns1, freed, root, p, h1, d1)
       /\ Full(TreeOf(page, ns1, freed), p) /\ ns1 # <<>>
       /\ LeafItems(TreeOf(page, ns1, freed)) = LeafItems(TreeOf(page, node, freed))
  <2>1. Spilling(page, node, freed, root, n, h, d) /\ ~node[n].spilled
    BY <1>4
  <2>2. p \in Int /\ p < 0 /\ p \notin DOMAIN node
    BY <1>2
  <2>3. node[n].inodes # <<>> /\ k = FirstKey(node[n].inodes)
    BY <1>10
  <2>4. \A m \in DOMAIN node \ {n} : ns1[m] = node[m]
    BY <1>14
  <2> HIDE DEF k, s
  <2>5. IsAbove(node, ns1, n, p, k)
    BY <1>14, <2>3, <2>4 DEF IsAbove
  <2> QED
    BY <2>1, <2>2, <2>3, <2>5, RootAbove
<1>16. /\ ns1[p].children = {n} /\ ~ns1[p].leaf /\ ns1[p].key = 0 /\ ns1[p].pgid = 0 /\ ns1[p].parent = 0
       /\ ~ns1[p].spilled /\ ns1[p].inodes = <<Element(k, n)>>
  BY <1>14 DEF NewRoot
<1>17. /\ ns1[n].leaf = node[n].leaf /\ ns1[n].inodes = s /\ ns1[n].parent = p /\ ns1[n].children = node[n].children
       /\ ns1[n].spilled = node[n].spilled
  <2> DEFINE m == node[n]
  <2>1. m \in NodeType
    BY <1>6
  <2>2. ns1[n] = [m EXCEPT !.key = k, !.parent = p]
    BY <1>14
  <2> HIDE DEF m, k
  <2>3. /\ ns1[n].leaf = m.leaf /\ ns1[n].inodes = m.inodes /\ ns1[n].parent = p /\ ns1[n].children = m.children
        /\ ns1[n].spilled = m.spilled
    BY <2>1, <2>2 DEF NodeType
  <2> QED
    BY <2>3 DEF m
<1>18. \A x : x \in ToSet(ns1[p].inodes) => x.val = n
  <2> DEFINE e == Element(k, n)
  <2>1. ToSet(<<e>>) = {e}
    BY DEF ToSet
  <2>2. e.val = n
    BY DEF Element
  <2> HIDE DEF e
  <2> QED
    BY <1>16, <2>1, <2>2 DEF e
<1>19. Writes(page, ns1, freed, page', node', freed', n, I)
  <2>1. ASSUME NEW m \in DOMAIN ns1, m # n
        PROVE  /\ node'[m].leaf = ns1[m].leaf /\ node'[m].key = ns1[m].key /\ node'[m].pgid = ns1[m].pgid
               /\ node'[m].parent = ns1[m].parent /\ node'[m].children = ns1[m].children
               /\ node'[m].spilled = ns1[m].spilled
               /\ \A e \in ToSet(ns1[m].inodes) : e.val # n => e \in ToSet(node'[m].inodes)
    <3>1. CASE m = p
      <4>1. node'[p].children = ns1[p].children
        BY <1>11, <1>16
      <4>2. \A e \in ToSet(ns1[p].inodes) : e.val = n
        BY <1>18
      <4>3. /\ node'[p].leaf \in BOOLEAN /\ ns1[p].leaf \in BOOLEAN
            /\ node'[p].spilled \in BOOLEAN /\ ns1[p].spilled \in BOOLEAN
        BY <1>2, <1>13, <1>14, <1>15, TypedRecords
      <4> QED
        BY <1>11, <1>16, <3>1, <4>1, <4>2, <4>3
    <3>2. CASE m # p
      BY <1>12, <1>14, <2>1, <3>2
    <3> QED
      BY <3>1, <3>2
  <2>2. \A c \in ns1[n].children : ns1[c].spilled
    <3>1. \A c \in node[n].children : c \in DOMAIN node /\ node[c].spilled
      BY DEF Spills
    <3> QED
      BY <1>3, <1>14, <1>17, <3>1
  <2>3. n \in DOMAIN ns1 /\ ~ns1[n].spilled /\ DOMAIN node' = DOMAIN ns1 /\ node'[n].parent = ns1[n].parent
    BY <1>2, <1>3, <1>5, <1>14, <1>17
  <2> QED
    BY <1>5, <2>1, <2>2, <2>3, SpillsWrites
<1>20. node' # <<>>
  <2>1. n \in DOMAIN node' /\ DOMAIN (<<>>) = {}
    BY <1>2, <1>3
  <2> QED
    BY <2>1
<1>21. Inserted(ns1, node', n, p, l, parts, ids)
  <2>1. HasParts(node'[p].inodes, ns1[p].inodes, n, l, parts, ids)
    BY <1>9, <1>11, <1>18 DEF HasParts
  <2>2. \A m \in DOMAIN ns1 : m # n /\ m # p => node'[m].inodes = ns1[m].inodes
    BY <1>12, <1>14
  <2> QED
    BY <1>2, <1>17, <2>1, <2>2 DEF Inserted
<1>22. PagesOf(ids, l, I, page', ns1[n].leaf, parts) /\ PartsOf(parts, l, ns1[n].inodes)
  BY <1>7, <1>17 DEF Spills
<1>23. /\ \E h2, d2 : Spilling(page', node', freed', root, p, h2, d2)
       /\ Full(TreeOf(page', node', freed'), 0)
       /\ LeafItems(TreeOf(page', node', freed')) = LeafItems(TreeOf(page, ns1, freed))
  <2>1. PICK h1, d1 : Spilling(page, ns1, freed, root, p, h1, d1)
    BY <1>15
  <2>2. ~ns1[p].spilled
    BY <1>16
  <2> QED
    BY <1>3, <1>13, <1>15, <1>19, <1>20, <1>21, <1>22, <2>1, <2>2, PartsSpill
<1>24. \A m \in DOMAIN node' : ~node'[m].unbalanced
  BY <1>2, <1>3, <1>5, <1>11, <1>12
<1> QED
  BY <1>13, <1>15, <1>23, <1>24

LEMMA SpillStep ==
  ASSUME TreeInv, Spill
  PROVE  TreeInv' /\ Held' = Held /\ Saved' = Saved
<1>1. /\ phase = "spill" /\ phase' = "spill" /\ cur = 0 /\ cur' = 0 /\ root' = root /\ node # <<>>
      /\ \E top, h, d : Spilling(page, node, freed, root, top, h, d) /\ ~node[top].spilled
      /\ \E n, parts, l, ids, I, p :
           /\ Spills(n, parts, l, ids, I, p)
           /\ \/ p = node[n].parent /\ SpillsUnder(n, parts, ids, p)
              \/ node[n].parent = 0 /\ l > 1 /\ SpillsNewRoot(n, parts, ids, p)
              \/ p = 0 /\ node[n].parent = 0 /\ l = 1 /\ DOMAIN node' = DOMAIN node
  BY SpillFacts
<1>2. PICK top, h, d : Spilling(page, node, freed, root, top, h, d) /\ ~node[top].spilled
  BY <1>1
<1>3. PICK n, parts, l, ids, I, p :
        /\ Spills(n, parts, l, ids, I, p)
        /\ \/ SpillsBelow(n, parts, ids, p)
           \/ SpillsAbove(n, parts, l, ids, p)
           \/ SpillsAlone(n, l, p)
  BY <1>1 DEF SpillsBelow, SpillsAbove, SpillsAlone
<1>4. /\ Typed(page, node) /\ freed \subseteq DOMAIN page /\ written \subseteq DOMAIN page
      /\ Full(TreeOf(page, node, freed), 0) /\ SoundPages(page, DOMAIN page \ written, root)
      /\ \A m \in DOMAIN node : ~node[m].unbalanced
  BY <1>1 DEF TreeInv, Progress
<1>5. /\ Typed(page', node')
      /\ \E top2, h2, d2 : Spilling(page', node', freed', root, top2, h2, d2)
      /\ Full(TreeOf(page', node', freed'), 0)
      /\ \A m \in DOMAIN node' : ~node'[m].unbalanced
      /\ LeafItems(TreeOf(page', node', freed')) = LeafItems(TreeOf(page, node, freed))
  <2>1. CASE SpillsBelow(n, parts, ids, p)
    BY <1>1, <1>2, <1>3, <1>4, <2>1, SpillUnderStep
  <2>2. CASE SpillsAbove(n, parts, l, ids, p)
    BY <1>1, <1>2, <1>3, <1>4, <2>2, SpillNewRootStep
  <2>3. CASE SpillsAlone(n, l, p)
    BY <1>1, <1>2, <1>3, <1>4, <2>3, SpillRootStep
  <2> QED
    BY <1>3, <2>1, <2>2, <2>3
<1>6. /\ \A x : x \in DOMAIN page' <=> x \in DOMAIN page \/ x \in I
      /\ \A x \in DOMAIN page : page'[x] = page[x]
      /\ \A x \in I : x \notin DOMAIN page
      /\ \A x : x \in freed' <=> x \in freed \/ (x = n /\ n \in DOMAIN page)
      /\ written' = written \cup I
  BY <1>3 DEF Spills
<1>7. written' \subseteq DOMAIN page' /\ freed' \subseteq DOMAIN page'
  BY <1>4, <1>6
<1>8. Progress'
  BY <1>1, <1>5 DEF Progress
<1>9. SoundPages(page', DOMAIN page' \ written', root') /\ Saved' = Saved
  <2> DEFINE K == DOMAIN page \ written
  <2>1. DOMAIN page' \ written' = K
    BY <1>4, <1>6
  <2>2. \A v \in K : page'[v] = page[v]
    BY <1>6
  <2> HIDE DEF K
  <2>3. TreeOfPages(page', K) = TreeOfPages(page, K)
    BY <2>2 DEF TreeOfPages
  <2>4. SoundPages(page, K, root)
    BY <1>4 DEF K
  <2>5. SoundPages(page', K, root)
    BY <2>2, <2>3, <2>4 DEF SoundPages
  <2>6. Saved' = Saved
    BY <2>1, <2>3 DEF Saved, K
  <2> QED
    BY <1>1, <2>1, <2>5, <2>6
<1>10. \E top2, h2, d2 : Spilling(page', node', freed', root', top2, h2, d2)
  BY <1>1, <1>5
<1>11. Full(TreeOf(page', node', freed'), cur')
  BY <1>1, <1>5
<1>12. phase' # "spill" => \E h2, d2 : Loaded(page', node', freed', root', h2, d2)
  BY <1>1
<1>13. TreeInv'
  BY <1>1, <1>5, <1>7, <1>8, <1>9, <1>10, <1>11, <1>12 DEF TreeInv
<1>14. Held' = Held
  BY <1>5 DEF Held
<1> QED
  BY <1>9, <1>13, <1>14

\* No assertion of spill fails.
LEMMA SpillPanicsNot ==
  ASSUME TreeInv, SpillPanics
  PROVE  FALSE
<1> DEFINE t == TreeOf(page, node, freed)
           n == NextToSpill
<1>1. phase = "spill" /\ ~AllSpilled
  BY DEF SpillPanics
<1>2. Typed(page, node) /\ freed \subseteq DOMAIN page
  BY DEF TreeInv
<1>3. PICK top, h, d : Spilling(page, node, freed, root, top, h, d)
  BY <1>1 DEF TreeInv
<1>4. node # <<>> /\ ~node[Top].spilled
  BY <1>1 DEF AllSpilled
<1>5. root \in DOMAIN node /\ Links(node, top) /\ Steep(node, top, h) /\ Stands(page, node, freed)
  BY <1>3, <1>4 DEF Spilling
<1>6. 0 \notin DOMAIN node
  BY <1>2, <1>5, StandsNames
<1>7. Top = top
  BY <1>5, <1>6, TopIs
<1>8. n \in DOMAIN node /\ ~node[n].spilled
  BY <1>2, <1>4, <1>5, <1>6, <1>7, NextIs
<1>9. (node[n].parent # 0 /\ node[n].inodes = <<>>) \/ node[n].pgid \in freed
  BY DEF SpillPanics
<1> HIDE DEF n
<1>10. CASE node[n].parent # 0 /\ node[n].inodes = <<>>
  <2>1. n # top
    BY <1>5, <1>10 DEF Links
  <2>2. TreeTop(node, top, root) = top
    BY <1>4, <1>7 DEF TreeTop
  <2>3. Unwritten(node, n) /\ n \in DOMAIN t /\ t[n] = OfNode(node[n])
    BY <1>8 DEF TreeOf, Live, Unwritten
  <2>4. t[n].items # {}
    BY <1>3, <2>1, <2>2, <2>3 DEF Spilling
  <2>5. ToSet(node[n].inodes) = {}
    BY <1>10, RowNone
  <2> QED
    BY <2>3, <2>4, <2>5 DEF OfNode
<1>11. CASE node[n].pgid \in freed
  <2>1. (n \in DOMAIN page \ freed /\ node[n].pgid = n) \/ node[n].pgid = 0
    BY <1>5, <1>8 DEF Stands
  <2>2. 0 \notin freed
    BY <1>2, TypedRecords
  <2> QED
    BY <1>11, <2>1, <2>2
<1> QED
  BY <1>9, <1>10, <1>11

-----------------------------------------------------------------------------
(***************************************************************************)
(* The next transaction.                                                   *)
(***************************************************************************)
NoNodes(ns, gone) == ns = <<>> /\ DOMAIN ns = {} /\ gone = {}

\* Without nodes the tree is that of the pages.
LEMMA FreshTree ==
  ASSUME NEW pages, NEW ids, NEW r, SoundPages(pages, ids, r), Typed(pages, <<>>),
         ids \subseteq DOMAIN pages,
         NEW pages2, DOMAIN pages2 = ids, \A v \in ids : pages2[v] = pages[v],
         NEW ns, NEW gone, NoNodes(ns, gone)
  PROVE  /\ Typed(pages2, ns) /\ SoundPages(pages2, ids, r)
         /\ Full(TreeOf(pages2, ns, gone), 0)
         /\ \E h, d : Loaded(pages2, ns, gone, r, h, d) /\ Guided(TreeOf(pages2, ns, gone), d)
         /\ TreeOf(pages2, ns, gone) = TreeOfPages(pages, ids)
<1> DEFINE t == TreeOfPages(pages, ids)
<1>1. TreeOfPages(pages2, ids) = t
  BY DEF TreeOfPages
<1>2. TreeOf(pages2, ns, gone) = t
  <2>1. Live(pages2, ns, gone) = ids /\ \A v : ~Unwritten(ns, v)
    BY DEF Live, Unwritten, NoNodes
  <2>2. TreeOf(pages2, ns, gone) = [v \in ids |-> OfPage(pages2[v])]
    BY <2>1 DEF TreeOf
  <2> QED
    BY <1>1, <2>2 DEF TreeOfPages
<1>3. DOMAIN t = ids /\ \A v \in ids : t[v].items = ToSet(pages[v].inodes)
  BY DEF TreeOfPages, OfPage
<1> HIDE DEF t
<1>4. /\ \A v \in ids : v # r => pages[v].inodes # <<>>
      /\ Full(t, 0)
      /\ \E h, d : Shape(t, r, h, d) /\ Guided(t, d)
  BY DEF SoundPages, t
<1>5. \A v \in ids : Row(pages[v].inodes)
  BY TypedRecords
<1>6. SoundPages(pages2, ids, r)
  BY <1>1, <1>4 DEF SoundPages
<1>7. Typed(pages2, ns)
  <2>1. DOMAIN ns = {}
    BY DEF NoNodes
  <2>2. IsFiniteSet(DOMAIN ns) /\ DOMAIN ns \subseteq Int
    BY <2>1, FS_EmptySet
  <2>3. \A n \in DOMAIN ns : ns[n] \in NodeType
    BY <2>1
  <2>4. DOMAIN pages2 \subseteq Pgids /\ \A id \in DOMAIN pages2 : pages2[id] \in PageType
    BY DEF Typed
  <2> QED
    BY <2>2, <2>3, <2>4 DEF Typed
<1>8. PICK h, d : Shape(t, r, h, d) /\ Guided(t, d)
  BY <1>4
<1>9. Loaded(pages2, ns, gone, r, h, d)
  <2>1. DOMAIN ns = {} /\ ns = <<>> /\ DOMAIN pages2 \ gone = ids
    BY DEF NoNodes
  <2>2. \A v \in ids : v # r => t[v].items # {}
    BY <1>3, <1>4, <1>5, RowSize
  <2>3. \A n \in DOMAIN ns : n \in DOMAIN pages2 \ gone /\ ns[n].pgid = n /\ ~ns[n].spilled
    BY <2>1
  <2>4. \A v \in DOMAIN pages2 \ gone : ~(v # r /\ TreeOf(pages2, ns, gone)[v].items = {})
    BY <1>2, <2>1, <2>2
  <2>5. ~(ns # <<>>)
    BY <2>1
  <2>6. Shape(TreeOf(pages2, ns, gone), r, h, d)
    BY <1>2, <1>8
  <2> QED
    BY <2>3, <2>4, <2>5, <2>6 DEF Loaded
<1> QED
  BY <1>2, <1>4, <1>6, <1>7, <1>8, <1>9 DEF t

\* A transaction begins with a sound tree of pages.
LEMMA FreshInv ==
  ASSUME NEW pages, NEW ids, NEW r, SoundPages(pages, ids, r), Typed(pages, <<>>),
         ids \subseteq DOMAIN pages,
         DOMAIN page' = ids, \A v \in ids : page'[v] = pages[v], root' = r,
         node' = <<>>, freed' = {}, written' = {}, phase' = "open", cur' = 0
  PROVE  TreeInv' /\ Held' = LeafItems(TreeOfPages(pages, ids)) /\ Saved' = LeafItems(TreeOfPages(pages, ids))
<1> DEFINE ns == node'
           gone == freed'
<1>1. NoNodes(ns, gone)
  BY DEF NoNodes
<1> HIDE DEF ns, gone
<1>2. /\ Typed(page', ns) /\ SoundPages(page', ids, r)
      /\ Full(TreeOf(page', ns, gone), 0)
      /\ \E h, d : Loaded(page', ns, gone, r, h, d) /\ Guided(TreeOf(page', ns, gone), d)
      /\ TreeOf(page', ns, gone) = TreeOfPages(pages, ids)
  BY <1>1, FreshTree
<1>3. Progress'
  BY DEF Progress
<1>4. written' \subseteq DOMAIN page' /\ freed' \subseteq DOMAIN page' /\ DOMAIN page' \ written' = ids
  OBVIOUS
<1>5. SoundPages(page', DOMAIN page' \ written', root')
  BY <1>2, <1>4
<1>6. Typed(page', node') /\ Full(TreeOf(page', node', freed'), cur')
  BY <1>2 DEF ns, gone
<1>7. \E h, d : Loaded(page', node', freed', root', h, d) /\ Guided(TreeOf(page', node', freed'), d)
  BY <1>2 DEF ns, gone
<1>8. phase' # "spill"
  OBVIOUS
<1>9. TreeInv'
  BY <1>3, <1>4, <1>5, <1>6, <1>7, <1>8 DEF TreeInv
<1>10. Held' = LeafItems(TreeOfPages(pages, ids))
  BY <1>2 DEF Held, ns, gone
<1>11. Saved' = LeafItems(TreeOfPages(pages, ids))
  <2>1. TreeOfPages(page', ids) = TreeOfPages(pages, ids)
    BY DEF TreeOfPages
  <2> QED
    BY <1>4, <2>1 DEF Saved
<1> QED
  BY <1>9, <1>10, <1>11

\* A type of pages without nodes.
LEMMA TypedPages ==
  ASSUME NEW pages, NEW ns, Typed(pages, ns)
  PROVE  Typed(pages, <<>>)
<1>1. DOMAIN (<<>>) = {}
  OBVIOUS
<1>2. IsFiniteSet(DOMAIN (<<>>)) /\ DOMAIN (<<>>) \subseteq Int
  BY <1>1, FS_EmptySet
<1> QED
  BY <1>1, <1>2 DEF Typed

\* A rollback goes back to the pages of the last commit.
LEMMA RollbackStep ==
  ASSUME TreeInv, Rollback
  PROVE  TreeInv' /\ Held' = Saved /\ Saved' = Saved
<1> DEFINE ids == DOMAIN page \ written
<1>1. /\ page' = [id \in ids |-> page[id]] /\ root' = root
      /\ node' = <<>> /\ freed' = {} /\ written' = {} /\ phase' = "open" /\ cur' = 0
  BY DEF Rollback, Keep
<1>2. SoundPages(page, ids, root) /\ Typed(page, <<>>) /\ ids \subseteq DOMAIN page
  BY TypedPages DEF TreeInv
<1> HIDE DEF ids
<1>3. DOMAIN page' = ids /\ \A v \in ids : page'[v] = page[v]
  BY <1>1
<1>4. TreeInv' /\ Held' = LeafItems(TreeOfPages(page, ids)) /\ Saved' = LeafItems(TreeOfPages(page, ids))
  BY <1>1, <1>2, <1>3, FreshInv
<1> QED
  BY <1>4 DEF Saved, ids

\* When all nodes are written the pages are the tree.
LEMMA EndCommitStep ==
  ASSUME TreeInv, EndCommit
  PROVE  TreeInv' /\ Held' = Held /\ Saved' = Held
<1> DEFINE ids == DOMAIN page \ freed
           t == TreeOf(page, node, freed)
<1>1. /\ page' = [id \in ids |-> page[id]] /\ phase = "spill" /\ AllSpilled
      /\ root' = (IF node = <<>> THEN root ELSE node[Top].pgid)
      /\ node' = <<>> /\ freed' = {} /\ written' = {} /\ phase' = "open" /\ cur' = cur
  BY DEF EndCommit, Keep
<1>2. cur = 0 /\ Typed(page, node) /\ Full(t, 0)
  BY <1>1 DEF TreeInv, Progress
<1>3. PICK top, h, d : Spilling(page, node, freed, root, top, h, d)
  BY <1>1 DEF TreeInv
<1>4. Stands(page, node, freed)
  BY <1>3 DEF Spilling
<1>5. ASSUME node # <<>>
      PROVE  Top = top /\ node[top].spilled /\ Links(node, top) /\ Steep(node, top, h)
  <2>1. root \in DOMAIN node /\ Links(node, top) /\ Steep(node, top, h)
    BY <1>3, <1>5 DEF Spilling
  <2>2. 0 \notin DOMAIN node
    BY <1>2, <1>4, StandsNames
  <2>3. Top = top
    BY <2>1, <2>2, TopIs
  <2> QED
    BY <1>1, <1>5, <2>1, <2>3 DEF AllSpilled
<1> DEFINE r == TreeTop(node, top, root)
<1>6. root' = r
  BY <1>1, <1>5 DEF TreeTop
<1>7. \A n \in DOMAIN node : node[n].spilled
  <2>1. CASE node = <<>>
    <3>1. DOMAIN node = {}
      BY <2>1
    <3> QED
      BY <3>1
  <2>2. CASE node # <<>>
    <3> DEFINE bad == {n \in DOMAIN node : ~node[n].spilled}
               ranks == {h[top] - h[n] : n \in bad}
    <3>1. SUFFICES ASSUME bad # {} PROVE FALSE
      OBVIOUS
    <3>2. /\ \A n \in DOMAIN node : h[n] \in Nat /\ h[n] <= h[top]
          /\ \A n \in DOMAIN node : n # top => h[n] < h[node[n].parent]
          /\ h[top] \in Nat
      BY <1>5, <2>2 DEF Steep
    <3>3. ranks \in SUBSET Nat /\ ranks # {}
      <4>1. \A n \in bad : h[top] - h[n] \in Nat
        BY <3>2
      <4> QED
        BY <3>1, <4>1
    <3>4. PICK k \in ranks : \A x \in ranks : k <= x
      <4> HIDE DEF ranks
      <4> QED
        BY <3>3, LeastNumber
    <3>5. PICK n \in bad : k = h[top] - h[n]
      BY <3>4
    <3>6. n \in DOMAIN node /\ n # top
      BY <1>5, <2>2
    <3> DEFINE p == node[n].parent
    <3>7. p \in DOMAIN node /\ ~node[p].spilled
      BY <1>5, <2>2, <3>6 DEF Links
    <3>8. h[n] < h[p] /\ h[n] \in Nat /\ h[p] \in Nat /\ h[top] \in Nat
      BY <3>2, <3>6, <3>7
    <3> HIDE DEF p
    <3>9. h[top] - h[p] \in ranks
      BY <3>7
    <3>10. h[top] - h[n] <= h[top] - h[p]
      BY <3>4, <3>5, <3>9
    <3> QED
      BY <3>8, <3>10
  <2> QED
    BY <2>1, <2>2
<1>8. t = TreeOfPages(page, ids)
  <2>1. Live(page, node, freed) = ids /\ \A v : ~Unwritten(node, v)
    BY <1>7 DEF Live, Unwritten
  <2> QED
    BY <2>1 DEF TreeOf, TreeOfPages
<1>9. /\ Shape(t, r, h, d) /\ \A v \in DOMAIN t \ {r} : t[v].items # {}
  BY <1>3 DEF Spilling
<1>10. \A v \in ids : v \in DOMAIN page /\ Row(page[v].inodes)
  BY <1>2, TypedRecords
<1>11. DOMAIN t = ids /\ \A v \in ids : t[v].items = ToSet(page[v].inodes) /\ t[v].key = FirstKey(page[v].inodes)
  BY <1>8 DEF TreeOfPages, OfPage
<1> HIDE DEF t, ids, r
<1>12. ASSUME NEW v \in DOMAIN t, NEW e \in t[v].items PROVE t[v].key <= e.key
  <2> DEFINE s == page[v].inodes
  <2>1. Row(s) /\ e \in ToSet(s) /\ t[v].key = FirstKey(s)
    BY <1>10, <1>11
  <2> HIDE DEF s
  <2>2. s # <<>>
    BY <2>1, RowSize
  <2> QED
    BY <2>1, <2>2, RowFirst
<1> DEFINE d2 == [v \in DOMAIN t |-> {x \in d[v] : t[v].key <= x}]
<1>13. \A v \in DOMAIN t : d2[v] = {x \in d[v] : t[v].key <= x}
  OBVIOUS
<1> HIDE DEF d2
<1>14. Shape(t, r, h, d2) /\ Guided(t, d2)
  BY <1>9, <1>12, <1>13, TrimShape
<1>15. \A v \in ids : v # r => page[v].inodes # <<>>
  BY <1>9, <1>11, RowNone
<1>16. SoundPages(page, ids, r)
  BY <1>2, <1>8, <1>14, <1>15 DEF SoundPages
<1>17. Typed(page, <<>>) /\ ids \subseteq DOMAIN page
  BY <1>2, <1>10, TypedPages
<1>18. DOMAIN page' = ids /\ \A v \in ids : page'[v] = page[v]
  BY <1>1
<1>19. cur' = 0
  BY <1>1, <1>2
<1>20. TreeInv' /\ Held' = LeafItems(TreeOfPages(page, ids)) /\ Saved' = LeafItems(TreeOfPages(page, ids))
  BY <1>1, <1>6, <1>16, <1>17, <1>18, <1>19, FreshInv
<1> QED
  BY <1>8, <1>20 DEF Held, t

-----------------------------------------------------------------------------
(***************************************************************************)
(* The first transaction.                                                  *)
(***************************************************************************)
\* A sequence of members of S is one of members of T.
LEMMA WiderSeq ==
  ASSUME NEW S, NEW T, S \subseteq T, NEW s \in Seq(S)
  PROVE  s \in Seq(T)
<1>1. Len(s) \in Nat /\ s \in [1 .. Len(s) -> S]
  BY LenProperties
<1>2. s \in [1 .. Len(s) -> T]
  BY <1>1
<1> QED
  BY <1>1, <1>2

\* A tree that a transaction may find is a sound tree of pages.
LEMMA StartSound ==
  ASSUME NEW s, SoundTree(s)
  PROVE  Typed(s.page, <<>>) /\ SoundPages(s.page, DOMAIN s.page, s.root)
<1> DEFINE pages == s.page
           ids == DOMAIN pages
           r == s.root
           h == s.height
           first(v) == FirstKey(pages[v].inodes)
           d == [v \in ids |-> {x \in Nat : /\ first(v) <= x
                                            /\ \A w \in ids : h[w] = h[v] /\ first(v) < first(w)
                                                                => x < first(w)}]
           t == TreeOfPages(pages, ids)
<1>1. ids \subseteq Pgids /\ r \in ids
  BY DEF SoundTree
<1>2. \A v \in ids :
        /\ pages[v] \in [leaf : BOOLEAN, inodes : Seq([key : Keys, val : Nat])]
        /\ \A i, j \in DOMAIN pages[v].inodes : i < j => pages[v].inodes[i].key < pages[v].inodes[j].key
        /\ h[v] \in Nat /\ (pages[v].leaf <=> h[v] = 0)
  BY DEF SoundTree
<1>3. \A v \in ids : v # r =>
        /\ pages[v].inodes # <<>> /\ h[v] < h[r]
        /\ \E p \in ids : ~pages[p].leaf /\ \E e \in ToSet(pages[p].inodes) : e.val = v
  BY DEF SoundTree
<1>4. \A v \in ids : ~pages[v].leaf =>
        /\ Len(pages[v].inodes) >= 2
        /\ \A e \in ToSet(pages[v].inodes) :
             e.val \in ids \ {r} /\ h[e.val] + 1 = h[v] /\ first(e.val) = e.key
  BY DEF SoundTree
<1>5. \A p, q \in ids : ~pages[p].leaf /\ ~pages[q].leaf =>
        \A e \in ToSet(pages[p].inodes), f \in ToSet(pages[q].inodes) : e.val = f.val => p = q
  BY DEF SoundTree
<1>6. \A p, q \in ids : h[p] = h[q] /\ first(p) < first(q) =>
        \A e \in ToSet(pages[p].inodes) : e.key < first(q)
  BY DEF SoundTree
<1>7. \A v \in ids : d[v] = {x \in Nat : /\ first(v) <= x
                                         /\ \A w \in ids : h[w] = h[v] /\ first(v) < first(w)
                                                             => x < first(w)}
  OBVIOUS
<1>8. DOMAIN t = ids /\ \A v \in ids : /\ t[v].leaf = pages[v].leaf /\ t[v].key = first(v)
                                       /\ t[v].items = ToSet(pages[v].inodes)
  BY DEF TreeOfPages, OfPage
<1> HIDE DEF pages, ids, r, h, d, t
<1>9. \A v \in ids : Row(pages[v].inodes) /\ pages[v].leaf \in BOOLEAN
  <2>1. [key : Keys, val : Nat] \subseteq Elem
    <3>1. ASSUME NEW e \in [key : Keys, val : Nat] PROVE e \in Elem
      <4>1. Keys \subseteq Key
        BY TreeAssumption DEF TreeAssumption, Key
      <4>2. e.key \in Keys /\ e.val \in Nat /\ e \in [key : Keys, val : Nat]
        OBVIOUS
      <4> QED
        BY <4>1, <4>2 DEF Elem
    <3> QED
      BY <3>1
  <2>2. ASSUME NEW v \in ids PROVE Row(pages[v].inodes) /\ pages[v].leaf \in BOOLEAN
    <3>1. pages[v].inodes \in Seq([key : Keys, val : Nat]) /\ pages[v].leaf \in BOOLEAN
      BY <1>2
    <3> DEFINE S == [key : Keys, val : Nat]
    <3>2. pages[v].inodes \in Seq(Elem)
      BY <2>1, <3>1, WiderSeq
    <3> QED
      BY <1>2, <3>1, <3>2 DEF Row
  <2> QED
    BY <2>2
<1>10. ASSUME NEW v \in ids, pages[v].inodes # <<>>
       PROVE  /\ first(v) \in Nat
              /\ \A e \in ToSet(pages[v].inodes) : first(v) <= e.key
              /\ \E e \in ToSet(pages[v].inodes) : first(v) = e.key
  BY <1>9, <1>10, RowFirst
<1> HIDE DEF first
<1>11. \A v \in ids : first(v) \in Nat
  BY <1>9, RowFirst DEF first
<1>12. ASSUME NEW v \in ids PROVE d[v] \subseteq Nat /\ \A x \in d[v] : first(v) <= x
  BY <1>7
<1>13. ASSUME NEW v \in ids, NEW e \in ToSet(pages[v].inodes)
       PROVE  e.key \in d[v] /\ first(v) <= e.key /\ e \in Elem /\ e.key \in Nat
  <2>1. pages[v].inodes # <<>>
    BY <1>9, RowSize
  <2>2. first(v) <= e.key
    BY <1>10, <2>1
  <2>3. e \in Elem /\ e.key \in Nat
    <3>1. e \in Elem
      BY <1>9, RowType
    <3> QED
      BY <3>1 DEF Elem, Key
  <2>4. \A w \in ids : h[w] = h[v] /\ first(v) < first(w) => e.key < first(w)
    BY <1>6
  <2> QED
    BY <1>7, <2>2, <2>3, <2>4
<1>14. ASSUME NEW v \in ids, pages[v].inodes # <<>> PROVE first(v) \in d[v]
  BY <1>10, <1>13, <1>14
<1>15. ASSUME NEW v \in ids, ~pages[v].leaf, NEW e \in ToSet(pages[v].inodes)
       PROVE  /\ e.val \in ids \ {r} /\ h[e.val] + 1 = h[v] /\ first(e.val) = e.key
              /\ h[e.val] \in Nat /\ h[v] \in Nat
  BY <1>2, <1>4, <1>15
<1>16. ASSUME NEW v \in ids, ~pages[v].leaf, NEW e \in ToSet(pages[v].inodes)
       PROVE  d[e.val] \subseteq d[v]
  <2> DEFINE c == e.val
  <2>1. c \in ids /\ h[c] + 1 = h[v] /\ first(c) = e.key /\ h[c] \in Nat /\ h[v] \in Nat
    BY <1>15, <1>16
  <2> HIDE DEF c
  <2>2. ASSUME NEW x \in d[c] PROVE x \in d[v]
    <3>1. x \in Nat /\ first(c) <= x
      BY <1>12, <2>1, <2>2
    <3>2. first(v) <= x
      <4>1. first(v) <= e.key /\ e.key \in Nat
        BY <1>13
      <4> QED
        BY <1>11, <2>1, <3>1, <4>1
    <3>3. ASSUME NEW w \in ids, h[w] = h[v], first(v) < first(w) PROVE x < first(w)
      <4>1. ~pages[w].leaf
        BY <1>2, <2>1, <3>3
      <4>2. pages[w].inodes # <<>>
        BY <1>4, <1>9, <4>1, RowSize
      <4>3. PICK f \in ToSet(pages[w].inodes) : first(w) = f.key
        BY <1>10, <4>2
      <4>4. f.val \in ids /\ h[f.val] + 1 = h[w] /\ first(f.val) = f.key /\ h[f.val] \in Nat
        BY <1>15, <4>1
      <4>5. h[f.val] = h[c]
        BY <2>1, <3>3, <4>4
      <4>6. e.key < first(w)
        BY <1>6, <3>3
      <4>7. first(c) < first(f.val)
        BY <2>1, <4>3, <4>4, <4>6
      <4>8. x < first(f.val)
        BY <1>7, <2>1, <2>2, <4>4, <4>5, <4>7
      <4> QED
        BY <4>3, <4>4, <4>8
    <3> QED
      BY <1>7, <3>1, <3>2, <3>3
  <2> QED
    BY <2>2 DEF c
<1>17. ASSUME NEW v \in ids, ~pages[v].leaf,
              NEW e \in ToSet(pages[v].inodes), NEW f \in ToSet(pages[v].inodes), e.key < f.key
       PROVE  Apart(d[e.val], d[f.val]) /\ \A x \in d[f.val] : f.key <= x
  <2>1. /\ e.val \in ids /\ h[e.val] + 1 = h[v] /\ first(e.val) = e.key /\ h[e.val] \in Nat
        /\ f.val \in ids /\ h[f.val] + 1 = h[v] /\ first(f.val) = f.key /\ h[f.val] \in Nat
    BY <1>15, <1>17
  <2>2. h[f.val] = h[e.val] /\ first(e.val) < first(f.val)
    BY <1>17, <2>1
  <2>3. \A x \in d[e.val] : x \in Nat /\ x < first(f.val)
    BY <1>7, <2>1, <2>2
  <2>4. \A y \in d[f.val] : y \in Nat /\ first(f.val) <= y
    BY <1>12, <2>1
  <2>5. first(f.val) \in Nat
    BY <1>11, <2>1
  <2>6. ASSUME NEW x \in d[e.val], NEW y \in d[f.val] PROVE x < y
    <3>1. x \in Nat /\ y \in Nat /\ x < first(f.val) /\ first(f.val) <= y
      BY <2>3, <2>4
    <3> QED
      BY <2>5, <3>1
  <2> QED
    BY <2>1, <2>4, <2>6 DEF Apart
<1>18. Shape(t, r, h, d)
  <2>1. Kinds(t)
    BY <1>8, <1>9, <1>11, <1>13, RowKeys DEF Kinds
  <2>2. Heights(t, r, h)
    BY <1>2, <1>3, <1>8 DEF Heights
  <2>3. Domains(t, r, d)
    BY <1>3, <1>8, <1>12, <1>13, <1>14 DEF Domains
  <2>4. Children(t, r, h, d)
    <3>1. ASSUME NEW v \in Branches(t)
          PROVE  /\ v \in ids /\ ~pages[v].leaf /\ t[v].items = ToSet(pages[v].inodes)
      BY <1>8 DEF Branches
    <3>2. \A c \in ids : t[c].key = first(c)
      BY <1>8
    <3> QED
      BY <1>8, <1>15, <1>16, <1>17, <3>1, <3>2 DEF Children
  <2>5. OneParent(t)
    BY <1>5, <1>8 DEF OneParent, Branches
  <2>6. AllHaveParents(t, r)
    BY <1>3, <1>8 DEF AllHaveParents, Branches
  <2> QED
    BY <1>1, <1>8, <2>1, <2>2, <2>3, <2>4, <2>5, <2>6 DEF Shape
<1>19. Guided(t, d)
  BY <1>8, <1>17 DEF Guided, Branches
<1>20. Full(t, 0)
  <2>1. ASSUME NEW v \in Branches(t)
        PROVE  t[v].items # {} /\ \E e, f \in t[v].items : e # f
    <3>1. v \in ids /\ ~pages[v].leaf /\ t[v].items = ToSet(pages[v].inodes)
      BY <1>8 DEF Branches
    <3>2. Len(pages[v].inodes) >= 2
      BY <1>4, <3>1
    <3>3. \E e, f \in ToSet(pages[v].inodes) : e # f
      BY <1>9, <3>1, <3>2, RowSize
    <3> QED
      BY <3>1, <3>3
  <2> QED
    BY <2>1 DEF Full
<1>21. SoundPages(pages, ids, r)
  <2>1. t = TreeOfPages(pages, ids)
    BY DEF t
  <2> QED
    BY <1>3, <1>18, <1>19, <1>20, <2>1 DEF SoundPages
<1>22. Typed(pages, <<>>)
  <2>1. DOMAIN pages \subseteq Pgids
    BY <1>1 DEF ids
  <2>2. ASSUME NEW v \in DOMAIN pages PROVE pages[v] \in PageType
    <3> DEFINE R == {x \in Seq(Elem) : Row(x)}
    <3>1. pages[v] \in [leaf : BOOLEAN, inodes : Seq([key : Keys, val : Nat])]
      BY <1>2, <2>2 DEF ids
    <3>2. Row(pages[v].inodes) /\ pages[v].leaf \in BOOLEAN
      BY <1>9, <2>2 DEF ids
    <3>3. pages[v].inodes \in R
      BY <3>2 DEF Row
    <3>4. PageType = [leaf : BOOLEAN, inodes : R]
      BY DEF PageType
    <3> HIDE DEF R
    <3> QED
      BY <3>1, <3>2, <3>3, <3>4
  <2>3. DOMAIN (<<>>) = {}
    OBVIOUS
  <2>4. IsFiniteSet(DOMAIN (<<>>)) /\ DOMAIN (<<>>) \subseteq Int
    BY <2>3, FS_EmptySet
  <2> QED
    BY <2>1, <2>2, <2>3, <2>4 DEF Typed
<1> QED
  BY <1>21, <1>22 DEF pages, ids, r

LEMMA TreeInvInit ==
  ASSUME Init
  PROVE  TreeInv /\ Held = Saved
<1>1. PICK s \in Start : page = s.page /\ root = s.root
  BY DEF Init
<1>2. /\ node = <<>> /\ freed = {} /\ written = {}
      /\ phase = "open" /\ cur = 0
  BY DEF Init
<1>3. Typed(s.page, <<>>) /\ SoundPages(s.page, DOMAIN s.page, s.root)
  BY StartAssumption, StartSound
<1>4. NoNodes(node, freed)
  BY <1>2 DEF NoNodes
<1> DEFINE ids == DOMAIN page
<1>5. Typed(page, <<>>) /\ SoundPages(page, ids, root) /\ DOMAIN page = ids
  BY <1>1, <1>3
<1> HIDE DEF ids
<1>6. /\ Typed(page, node) /\ SoundPages(page, ids, root)
      /\ Full(TreeOf(page, node, freed), 0)
      /\ \E h, d : Loaded(page, node, freed, root, h, d) /\ Guided(TreeOf(page, node, freed), d)
      /\ TreeOf(page, node, freed) = TreeOfPages(page, ids)
  BY <1>4, <1>5, FreshTree
<1>7. Progress
  BY <1>2 DEF Progress
<1>8. written \subseteq DOMAIN page /\ freed \subseteq DOMAIN page /\ DOMAIN page \ written = ids
  BY <1>2, <1>5
<1>9. phase # "spill" /\ cur = 0
  BY <1>2
<1>10. Full(TreeOf(page, node, freed), cur)
  BY <1>6, <1>9
<1>11. SoundPages(page, DOMAIN page \ written, root)
  BY <1>6, <1>8
<1>12. Held = Saved
  BY <1>6, <1>8 DEF Held, Saved
<1> QED
  BY <1>6, <1>7, <1>8, <1>9, <1>10, <1>11, <1>12 DEF TreeInv

-----------------------------------------------------------------------------
(***************************************************************************)
(* Every step keeps the invariant, and none panics.                        *)
(***************************************************************************)
LEMMA TreeInvStep ==
  ASSUME TreeInv, [Next]_vars
  PROVE  TreeInv'
<1>1. CASE UNCHANGED vars
  <2>1. /\ page' = page /\ root' = root /\ node' = node /\ freed' = freed /\ written' = written
        /\ phase' = phase /\ cur' = cur
    BY <1>1 DEF vars, tree
  <2> QED
    BY <2>1 DEF TreeInv, Progress
<1>2. ASSUME NEW k \in Deletes, Delete(k) PROVE TreeInv'
  BY <1>2, DeleteStep, TreeAssumption DEF TreeAssumption
<1>3. ASSUME NEW e \in Puts, Put(e.key, e.val) PROVE TreeInv'
  BY <1>3, PutStep
<1>4. CASE Commit
  BY <1>4, CommitStep
<1>5. ASSUME NEW n \in DOMAIN node, Rebalance(n) \/ RebalancePanics(n) PROVE TreeInv'
  BY <1>5, RebalanceStep, RebalancePanicsNot
<1>6. CASE StartSpill
  BY <1>6, StartSpillStep
<1>7. CASE Spill
  BY <1>7, SpillStep
<1>8. CASE SpillPanics
  BY <1>8, SpillPanicsNot
<1>9. CASE EndCommit
  BY <1>9, EndCommitStep
<1>10. CASE Rollback
  BY <1>10, RollbackStep
<1> QED
  BY <1>1, <1>2, <1>3, <1>4, <1>5, <1>6, <1>7, <1>8, <1>9, <1>10 DEF Next

(* The invariant of the proofs: the pages of the last commit are a sound   *)
(* tree, and so are, at every point of a transaction and of its commit,    *)
(* the pages and the nodes together (Bucket.node, node.rebalance,          *)
(* node.spill).                                                            *)
THEOREM TreeInvHolds == Spec => []TreeInv
<1>1. Init => TreeInv
  BY TreeInvInit
<1>2. TreeInv /\ [Next]_vars => TreeInv'
  BY TreeInvStep
<1> QED
  BY <1>1, <1>2, PTL DEF Spec

LEMMA LinksOfInv ==
  ASSUME TreeInv
  PROVE  LinksAgree
<1>1. phase # "panic"
  BY DEF TreeInv, Progress
<1>2. ASSUME node = <<>> PROVE LinksAgree
  <2>1. DOMAIN (<<>>) = {}
    OBVIOUS
  <2>2. DOMAIN node = {}
    BY <1>2, <2>1
  <2> QED
    BY <1>1, <2>2 DEF LinksAgree
<1>3. CASE phase # "spill" /\ node # <<>>
  <2>1. PICK h, d : Loaded(page, node, freed, root, h, d)
    BY <1>3 DEF TreeInv
  <2>2. Links(node, root)
    BY <1>3, <2>1 DEF Loaded
  <2>3. \A n \in DOMAIN node : n \in DOMAIN page \ freed /\ node[n].pgid = n /\ ~node[n].spilled
    BY <2>1 DEF Loaded
  <2>4. ASSUME NEW n \in DOMAIN node
        PROVE  \/ node[n].parent = 0 /\ n = root
               \/ /\ node[n].parent \in DOMAIN node /\ n \in node[node[n].parent].children
                  /\ ~node[node[n].parent].leaf
                  /\ \E e \in ToSet(node[node[n].parent].inodes) : e.val = n
    BY <2>2, <2>3 DEF Links
  <2>5. \A n \in DOMAIN node : \A c \in node[n].children : c \in DOMAIN node /\ node[c].parent = n
    BY <2>2 DEF Links
  <2>6. \A n \in DOMAIN node : node[n].pgid \notin freed
    BY <2>3
  <2> QED
    BY <1>1, <2>4, <2>5, <2>6 DEF LinksAgree
<1>4. CASE phase = "spill" /\ node # <<>>
  <2>1. PICK top, h, d : Spilling(page, node, freed, root, top, h, d)
    BY <1>4 DEF TreeInv
  <2>2. Links(node, top) /\ Stands(page, node, freed)
    BY <1>4, <2>1 DEF Spilling
  <2>3. \A n \in DOMAIN node : \A c \in node[n].children : c \in DOMAIN node /\ node[c].parent = n
    BY <2>2 DEF Links
  <2>4. 0 \notin freed
    BY TypedRecords DEF TreeInv
  <2>5. ASSUME NEW n \in DOMAIN node, ~node[n].spilled PROVE node[n].pgid \notin freed
    BY <2>2, <2>4, <2>5 DEF Stands
  <2> QED
    BY <1>1, <1>4, <2>3, <2>5 DEF LinksAgree
<1> QED
  BY <1>2, <1>3, <1>4

(* Whatever is put and deleted, in whatever order the nodes are merged and *)
(* wherever they are split, nodes, parents and children agree, no node     *)
(* stands for a freed page, and none of the assertions of node.rebalance   *)
(* and node.spill fails.                                                   *)
THEOREM LinksAgreeHolds == Spec => []LinksAgree
<1>1. TreeInv => LinksAgree
  BY LinksOfInv
<1> QED
  BY <1>1, TreeInvHolds, PTL

(* The pages of the last commit, which a rollback returns to and a reader  *)
(* sees, are a sound tree at every moment: all leaves at one depth, a      *)
(* branch's key its child's first key, keys in order from page to page,    *)
(* every page with one parent, none empty but an empty root.               *)
CommittedSound == SoundPages(page, DOMAIN page \ written, root)

THEOREM CommittedSoundHolds == Spec => []CommittedSound
<1>1. TreeInv => CommittedSound
  BY DEF TreeInv, CommittedSound
<1> QED
  BY <1>1, TreeInvHolds, PTL

-----------------------------------------------------------------------------
\* The pages between transactions: the tree at r, by its levels.
Levels(pages, r, h, d) ==
  /\ r \in DOMAIN pages
  /\ \A v \in DOMAIN pages :
       /\ pages[v].leaf \in BOOLEAN /\ Row(pages[v].inodes)
       /\ h[v] \in Nat /\ (pages[v].leaf <=> h[v] = 0) /\ (v # r => h[v] < h[r])
       /\ \A e \in ToSet(pages[v].inodes) : e.key \in d[v]
  /\ \A v \in DOMAIN pages : ~pages[v].leaf =>
       /\ Len(pages[v].inodes) >= 2
       /\ \A e \in ToSet(pages[v].inodes) :
            /\ e.val \in DOMAIN pages /\ h[e.val] + 1 = h[v] /\ d[e.val] \subseteq d[v]
            /\ FirstKey(pages[e.val].inodes) = e.key
       /\ \A e, f \in ToSet(pages[v].inodes) : e.key < f.key => Apart(d[e.val], d[f.val])
  /\ \A v \in DOMAIN pages : v # r =>
       \E p \in DOMAIN pages : ~pages[p].leaf /\ \E e \in ToSet(pages[p].inodes) : e.val = v

LEMMA OpenLevels ==
  ASSUME TreeInv, phase = "open"
  PROVE  \E h, d : Levels(page, root, h, d)
<1> DEFINE ids == DOMAIN page
           t == TreeOfPages(page, ids)
<1>1. written = {} /\ DOMAIN page \ written = ids
  BY DEF TreeInv, Progress
<1>2. SoundPages(page, ids, root) /\ Typed(page, node)
  BY <1>1 DEF TreeInv
<1>3. PICK h, d : Shape(t, root, h, d)
  BY <1>2 DEF SoundPages
<1>4. Full(t, 0)
  BY <1>2 DEF SoundPages
<1>5. /\ DOMAIN t = ids
      /\ \A v \in ids : /\ t[v].items = ToSet(page[v].inodes) /\ t[v].leaf = page[v].leaf
                        /\ t[v].key = FirstKey(page[v].inodes)
  BY DEF TreeOfPages, OfPage
<1>6. \A v \in ids : Row(page[v].inodes) /\ page[v].leaf \in BOOLEAN /\ v # 0
  <2>1. \A v \in ids : page[v] \in PageType /\ v \in Pgids
    BY <1>2 DEF Typed
  <2>2. \A v \in Pgids : v # 0
    BY TreeAssumption DEF TreeAssumption
  <2> QED
    BY <2>1, <2>2 DEF PageType
<1> HIDE DEF t, ids
<1>7. /\ root \in ids
      /\ \A v \in ids : h[v] \in Nat /\ (page[v].leaf <=> h[v] = 0) /\ (v # root => h[v] < h[root])
      /\ \A v \in ids : \A e \in ToSet(page[v].inodes) : e.key \in d[v]
  BY <1>3, <1>5 DEF Shape, Heights, Domains
<1>8. ASSUME NEW v \in ids, ~page[v].leaf
      PROVE  /\ Len(page[v].inodes) >= 2
             /\ \A e \in ToSet(page[v].inodes) :
                  /\ e.val \in ids /\ h[e.val] + 1 = h[v] /\ d[e.val] \subseteq d[v]
                  /\ FirstKey(page[e.val].inodes) = e.key
             /\ \A e, f \in ToSet(page[v].inodes) : e.key < f.key => Apart(d[e.val], d[f.val])
  <2>1. v \in Branches(t)
    BY <1>5, <1>8 DEF Branches
  <2>2. Len(page[v].inodes) >= 2
    <3>1. \E e, f \in t[v].items : e # f
      BY <1>4, <1>6, <2>1 DEF Full
    <3> QED
      BY <1>5, <1>6, <3>1, RowSize
  <2>3. /\ \A e \in t[v].items : /\ e.val \in ids /\ h[e.val] + 1 = h[v]
                                 /\ t[e.val].key = e.key /\ d[e.val] \subseteq d[v]
        /\ \A e, f \in t[v].items : e.key < f.key => Apart(d[e.val], d[f.val])
    BY <1>3, <1>5, <2>1 DEF Shape, Children
  <2> QED
    BY <1>5, <2>2, <2>3
<1>9. ASSUME NEW v \in ids, v # root
      PROVE  \E p \in ids : ~page[p].leaf /\ \E e \in ToSet(page[p].inodes) : e.val = v
  <2>1. PICK p \in Branches(t) : \E e \in t[p].items : e.val = v
    BY <1>3, <1>5, <1>9 DEF Shape, AllHaveParents
  <2> QED
    BY <1>5, <2>1 DEF Branches
<1>10. \A v \in ids :
         /\ page[v].leaf \in BOOLEAN /\ Row(page[v].inodes)
         /\ h[v] \in Nat /\ (page[v].leaf <=> h[v] = 0) /\ (v # root => h[v] < h[root])
         /\ \A e \in ToSet(page[v].inodes) : e.key \in d[v]
  BY <1>6, <1>7
<1>11. Levels(page, root, h, d)
  BY <1>7, <1>8, <1>9, <1>10 DEF ids, Levels
<1> QED
  BY <1>11

-----------------------------------------------------------------------------
(***************************************************************************)
(* The depth of a page is one more than its height.                        *)
(***************************************************************************)
DepthFrom(g, p) ==
  LET s == page[p].inodes IN
  IF page[p].leaf THEN IF Fits(TRUE, s) THEN 1 ELSE 0
  ELSE LET ds == {IF e.val \in DOMAIN page /\ FirstKey(page[e.val].inodes) = e.key
                    THEN g[e.val] ELSE 0 : e \in ToSet(s)}
       IN IF Fits(FALSE, s) /\ Len(s) >= MinKeysPerPage /\ Cardinality(ds) = 1 /\ 0 \notin ds
          THEN 1 + Max(ds) ELSE 0

LEMMA DepthStep ==
  ASSUME NEW r, NEW h, NEW d, Levels(page, r, h, d),
         \A v \in DOMAIN page : Fits(page[v].leaf, page[v].inodes),
         NEW p \in DOMAIN page, NEW g,
         \A v \in DOMAIN page : h[v] < h[p] => g[v] = h[v] + 1
  PROVE  DepthFrom(g, p) = h[p] + 1
<1> DEFINE s == page[p].inodes
<1>1. h[p] \in Nat /\ (page[p].leaf <=> h[p] = 0) /\ page[p].leaf \in BOOLEAN /\ Fits(page[p].leaf, s)
  BY DEF Levels
<1>2. CASE page[p].leaf
  <2>1. page[p].leaf = TRUE
    BY <1>1, <1>2
  <2>2. Fits(TRUE, s)
    BY <1>1, <2>1
  <2>3. h[p] = 0
    BY <1>1, <1>2
  <2>4. DepthFrom(g, p) = 1
    BY <2>1, <2>2 DEF DepthFrom
  <2> QED
    BY <2>3, <2>4
<1>3. CASE ~page[p].leaf
  <2>1. page[p].leaf = FALSE /\ Fits(FALSE, s)
    <3>1. page[p].leaf = FALSE
      BY <1>1, <1>3
    <3> QED
      BY <1>1, <3>1
  <2> DEFINE ds == {IF e.val \in DOMAIN page /\ FirstKey(page[e.val].inodes) = e.key
                      THEN g[e.val] ELSE 0 : e \in ToSet(s)}
  <2>2. /\ Len(s) >= 2 /\ Row(s)
        /\ \A e \in ToSet(s) : e.val \in DOMAIN page /\ h[e.val] + 1 = h[p] /\ h[e.val] \in Nat
                               /\ FirstKey(page[e.val].inodes) = e.key
    BY <1>3 DEF Levels
  <2>3. \A e \in ToSet(s) : g[e.val] = h[p]
    BY <1>1, <2>2
  <2>4. \E e \in ToSet(s) : TRUE
    BY <2>2, RowSize
  <2>5. ds = {h[p]}
    BY <2>2, <2>3, <2>4
  <2>6. Cardinality(ds) = 1
    BY <2>5, FS_Singleton
  <2>7. h[p] # 0
    BY <1>1, <1>3
  <2>8. Max(ds) = h[p]
    BY <1>1, <2>5 DEF Max
  <2>9. DepthFrom(g, p) = 1 + Max(ds)
    <3>1. 0 \notin ds /\ Len(s) >= MinKeysPerPage
      BY <2>2, <2>5, <2>7 DEF MinKeysPerPage
    <3> QED
      BY <2>1, <2>6, <3>1 DEF DepthFrom
  <2> QED
    BY <1>1, <2>8, <2>9
<1> QED
  BY <1>2, <1>3

LEMMA DepthIs ==
  ASSUME NEW r, NEW h, NEW d, Levels(page, r, h, d),
         \A v \in DOMAIN page : Fits(page[v].leaf, page[v].inodes)
  PROVE  Depth(r) = h[r] + 1
<1> DEFINE Eq(f) == f = [p \in DOMAIN page |-> DepthFrom(f, p)]
           depth == CHOOSE f : Eq(f)
           way == [p \in DOMAIN page |-> h[p] + 1]
<1>1. Depth(r) = depth[r]
  BY DEF Depth, DepthFrom
<1>2. Eq(way)
  <2>1. \A p \in DOMAIN page : DepthFrom(way, p) = h[p] + 1
    <3>1. \A v \in DOMAIN page : way[v] = h[v] + 1
      OBVIOUS
    <3> HIDE DEF way
    <3> QED
      BY <3>1, DepthStep
  <2>2. way = [p \in DOMAIN page |-> way[p]] /\ \A p \in DOMAIN page : way[p] = h[p] + 1
    OBVIOUS
  <2> HIDE DEF way
  <2> QED
    BY <2>1, <2>2
<1>3. Eq(depth)
  <2> HIDE DEF way
  <2> QED
    BY <1>2
<1> HIDE DEF depth
<1>4. \A p \in DOMAIN page : depth[p] = DepthFrom(depth, p)
  BY <1>3
<1> DEFINE good == {p \in DOMAIN page : depth[p] = h[p] + 1}
<1>5. \A p \in DOMAIN page : h[p] \in Nat
  BY DEF Levels
<1>6. ASSUME NEW p \in DOMAIN page, \A v \in DOMAIN page : h[v] < h[p] => v \in good PROVE p \in good
  <2>1. DepthFrom(depth, p) = h[p] + 1
    BY <1>6, DepthStep
  <2> QED
    BY <1>4, <2>1
<1>7. DOMAIN page \subseteq good
  <2> DEFINE D == DOMAIN page
  <2>1. \A p \in D : (\A v \in D : h[v] < h[p] => v \in good) => p \in good
    BY <1>6
  <2>2. \A p \in D : h[p] \in Nat
    BY <1>5
  <2> HIDE DEF good, D
  <2>3. D \subseteq good
    BY <2>1, <2>2, LevelInduction
  <2> QED
    BY <2>3 DEF D
<1>8. r \in DOMAIN page
  BY DEF Levels
<1> QED
  BY <1>1, <1>7, <1>8

-----------------------------------------------------------------------------
(***************************************************************************)
(* Every page is reached.                                                  *)
(***************************************************************************)
ReachedFrom(g, p) ==
  IF page[p].leaf THEN {p}
  ELSE {p} \cup UNION {g[e.val] : e \in ToSet(page[p].inodes)}

LEMMA ReachedExists ==
  ASSUME NEW r, NEW h, NEW d, Levels(page, r, h, d)
  PROVE  \E f \in [DOMAIN page -> SUBSET DOMAIN page] :
           \A p \in DOMAIN page : f[p] = ReachedFrom(f, p)
<1> DEFINE D == DOMAIN page
           X == SUBSET D
           step == [x \in D \X [D -> X] |-> ReachedFrom(x[2], x[1])]
           K == h[r] + 1
<1>1. ASSUME NEW p \in D, ~page[p].leaf, NEW e \in ToSet(page[p].inodes)
      PROVE  e.val \in D /\ h[e.val] < h[p]
  <2>1. e.val \in D /\ h[e.val] + 1 = h[p] /\ h[e.val] \in Nat /\ h[p] \in Nat
    BY <1>1 DEF Levels
  <2> QED
    BY <2>1
<1>2. ASSUME NEW p \in D, NEW f \in [D -> X] PROVE ReachedFrom(f, p) \in X
  <2>1. CASE page[p].leaf
    BY <2>1 DEF ReachedFrom
  <2>2. CASE ~page[p].leaf
    BY <1>1, <2>2 DEF ReachedFrom
  <2> QED
    BY <2>1, <2>2
<1>3. step \in [D \X [D -> X] -> X] /\ \A p \in D, f \in [D -> X] : step[<<p, f>>] = ReachedFrom(f, p)
  BY <1>2
<1>4. ASSUME NEW p \in D, NEW f \in [D -> X], NEW g \in [D -> X],
             \A w \in D : h[w] < h[p] => f[w] = g[w]
      PROVE  step[<<p, f>>] = step[<<p, g>>]
  <2>1. ReachedFrom(f, p) = ReachedFrom(g, p)
    <3>1. CASE page[p].leaf
      BY <3>1 DEF ReachedFrom
    <3>2. CASE ~page[p].leaf
      <4>1. \A e \in ToSet(page[p].inodes) : f[e.val] = g[e.val]
        BY <1>1, <1>4, <3>2
      <4> QED
        BY <3>2, <4>1 DEF ReachedFrom
    <3> QED
      BY <3>1, <3>2
  <2> QED
    BY <1>3, <2>1
<1>5. K \in Nat /\ \A v \in D : h[v] \in Nat /\ h[v] < K
  BY DEF Levels
<1>6. X # {}
  OBVIOUS
<1> HIDE DEF step, X, K, D
<1>7. DependsBelow(D, h, X, step)
  BY <1>3, <1>4 DEF DependsBelow
<1>8. PICK f : IsFixed(D, X, step, f)
  BY <1>5, <1>6, <1>7, LevelRecursion
<1>9. f \in [D -> X] /\ \A p \in D : f[p] = ReachedFrom(f, p)
  BY <1>3, <1>8 DEF IsFixed
<1> QED
  BY <1>9 DEF D, X

LEMMA AllReached ==
  ASSUME NEW r, NEW h, NEW d, Levels(page, r, h, d)
  PROVE  Reached(r) = DOMAIN page
<1> DEFINE D == DOMAIN page
           Eq(f) == f = [p \in DOMAIN page |-> ReachedFrom(f, p)]
           reached == CHOOSE f : Eq(f)
<1>1. Reached(r) = reached[r]
  BY DEF Reached, ReachedFrom
<1>2. PICK f \in [D -> SUBSET D] : \A p \in D : f[p] = ReachedFrom(f, p)
  BY ReachedExists
<1>3. Eq(f)
  BY <1>2
<1>4. Eq(reached)
  BY <1>3
<1> HIDE DEF reached
<1>5. \A p \in D : reached[p] = ReachedFrom(reached, p)
  BY <1>4
<1>6. /\ \A p \in D : h[p] \in Nat
      /\ \A p \in D : ~page[p].leaf =>
           \A e \in ToSet(page[p].inodes) : e.val \in D /\ h[e.val] + 1 = h[p]
      /\ r \in D
  BY DEF Levels
<1> DEFINE good == {p \in D : /\ reached[p] \subseteq D
                              /\ \A w \in reached[p] : ~page[w].leaf =>
                                   \A e \in ToSet(page[w].inodes) : e.val \in reached[p]}
<1>7. ASSUME NEW p \in D, \A v \in D : h[v] < h[p] => v \in good PROVE p \in good
  <2>1. CASE page[p].leaf
    <3>1. reached[p] = {p}
      BY <1>5, <2>1 DEF ReachedFrom
    <3> QED
      BY <2>1, <3>1
  <2>2. CASE ~page[p].leaf
    <3>1. \A e \in ToSet(page[p].inodes) : e.val \in good
      <4>1. \A e \in ToSet(page[p].inodes) : e.val \in D /\ h[e.val] < h[p]
        BY <1>6, <2>2
      <4> HIDE DEF good
      <4> QED
        BY <1>7, <4>1
    <3>2. reached[p] = {p} \cup UNION {reached[e.val] : e \in ToSet(page[p].inodes)}
      BY <1>5, <2>2 DEF ReachedFrom
    <3>3. \A e \in ToSet(page[p].inodes) : reached[e.val] \subseteq reached[p] /\ e.val \in reached[e.val]
      <4>1. \A e \in ToSet(page[p].inodes) : reached[e.val] \subseteq reached[p]
        BY <3>2
      <4>2. \A v \in D : v \in reached[v]
        BY <1>5 DEF ReachedFrom
      <4> QED
        BY <1>6, <2>2, <4>1, <4>2
    <3>4. reached[p] \subseteq D
      BY <3>1, <3>2
    <3>5. ASSUME NEW w \in reached[p], ~page[w].leaf, NEW e \in ToSet(page[w].inodes)
          PROVE  e.val \in reached[p]
      <4>1. CASE w = p
        BY <3>3, <3>5, <4>1
      <4>2. CASE w # p
        <5>1. PICK f0 \in ToSet(page[p].inodes) : w \in reached[f0.val]
          BY <3>2, <4>2
        <5>2. e.val \in reached[f0.val]
          BY <3>1, <3>5, <5>1
        <5> QED
          BY <3>3, <5>1, <5>2
      <4> QED
        BY <4>1, <4>2
    <3> QED
      BY <3>4, <3>5
  <2> QED
    BY <2>1, <2>2
<1>8. r \in good
  <2> HIDE DEF good, D
  <2>1. \A p \in D : (\A v \in D : h[v] < h[p] => v \in good) => p \in good
    BY <1>7
  <2>2. D \subseteq good
    BY <1>6, <2>1, LevelInduction
  <2> QED
    BY <1>6, <2>2
<1>9. /\ reached[r] \subseteq D
      /\ \A w \in reached[r] : ~page[w].leaf => \A e \in ToSet(page[w].inodes) : e.val \in reached[r]
  BY <1>8
<1> HIDE DEF good
<1> DEFINE far == [v \in D |-> h[r] - h[v]]
           there == reached[r]
<1>10. \A v \in D : far[v] \in Nat
  <2>1. ASSUME NEW v \in D PROVE h[r] - h[v] \in Nat
    <3>1. v # r => h[v] < h[r]
      BY DEF Levels
    <3>2. h[v] \in Nat /\ h[r] \in Nat
      BY <1>6
    <3> QED
      BY <3>1, <3>2
  <2> QED
    BY <2>1
<1>11. ASSUME NEW v \in D, \A w \in D : far[w] < far[v] => w \in there PROVE v \in there
  <2>1. CASE v = r
    BY <1>5, <1>6, <2>1 DEF ReachedFrom
  <2>2. CASE v # r
    <3>1. PICK p \in D : ~page[p].leaf /\ \E e \in ToSet(page[p].inodes) : e.val = v
      BY <2>2 DEF Levels
    <3>2. h[v] + 1 = h[p] /\ h[v] \in Nat /\ h[p] \in Nat /\ h[r] \in Nat
      BY <1>6, <3>1
    <3>3. far[p] < far[v]
      BY <3>2
    <3>4. p \in there
      BY <1>11, <3>3
    <3> QED
      BY <1>9, <3>1, <3>4
  <2> QED
    BY <2>1, <2>2
<1>12. D \subseteq there
  <2> HIDE DEF there, far, D
  <2>1. \A v \in D : (\A w \in D : far[w] < far[v] => w \in there) => v \in there
    BY <1>11
  <2> QED
    BY <1>10, <2>1, LevelInduction, Zenon
<1> QED
  BY <1>1, <1>9, <1>12

-----------------------------------------------------------------------------
(***************************************************************************)
(* The maps: what the leaves of the tree hold.                             *)
(***************************************************************************)
LEMMA MapIs ==
  ASSUME TreeInv
  PROVE  Unique(Held) /\ map = MapOf(Held)
<1> DEFINE t == TreeOf(page, node, freed)
<1>1. Typed(page, node)
  BY DEF TreeInv
<1>2. \E h, d : Shape(t, ReadsFrom, h, d)
  <2>1. CASE phase # "spill"
    <3>1. PICK h, d : Loaded(page, node, freed, root, h, d)
      BY <2>1 DEF TreeInv
    <3>2. Shape(t, root, h, d)
      BY <3>1 DEF Loaded
    <3>3. ASSUME node # <<>> PROVE ReadsFrom = root
      <4>1. root \in DOMAIN node /\ ~node[root].spilled /\ Links(node, root) /\ Steep(node, root, h)
        BY <1>1, <3>1, <3>3, LoadedSteep
      <4>2. 0 \notin DOMAIN node
        BY <1>1, <3>1, TypedRecords DEF Loaded
      <4>3. Top = root
        BY <4>1, <4>2, TopIs
      <4> QED
        BY <3>3, <4>1, <4>3 DEF ReadsFrom
    <3>4. ReadsFrom = root
      BY <3>3 DEF ReadsFrom
    <3> QED
      BY <3>2, <3>4
  <2>2. CASE phase = "spill"
    <3>1. PICK top, h, d : Spilling(page, node, freed, root, top, h, d)
      BY <2>2 DEF TreeInv
    <3>2. Shape(t, TreeTop(node, top, root), h, d) /\ Stands(page, node, freed)
      BY <3>1 DEF Spilling
    <3>3. ASSUME node # <<>> PROVE ReadsFrom = TreeTop(node, top, root)
      <4>1. root \in DOMAIN node /\ Links(node, top) /\ Steep(node, top, h)
        BY <3>1, <3>3 DEF Spilling
      <4>2. 0 \notin DOMAIN node
        BY <1>1, <3>2, StandsNames
      <4>3. Top = top
        BY <4>1, <4>2, TopIs
      <4> QED
        BY <3>3, <4>3 DEF ReadsFrom, TreeTop
    <3>4. ReadsFrom = TreeTop(node, top, root)
      BY <3>3 DEF ReadsFrom, TreeTop
    <3> QED
      BY <3>2, <3>4
  <2> QED
    BY <2>1, <2>2
<1>3. PICK h, d : Shape(t, ReadsFrom, h, d)
  BY <1>2
<1>4. Sourced(Reads, t)
  <2>1. DOMAIN t = DOMAIN Reads
    BY DEF TreeOf, Live, Reads
  <2>2. ASSUME NEW v \in DOMAIN t
        PROVE  Row(Reads[v].inodes) /\ t[v].items = ToSet(Reads[v].inodes) /\ t[v].leaf = Reads[v].leaf
    <3>1. CASE Unwritten(node, v)
      <4>1. t[v] = OfNode(node[v]) /\ Reads[v] = node[v] /\ v \in DOMAIN node
        BY <2>1, <3>1 DEF TreeOf, Live, Reads, Unwritten
      <4> QED
        BY <1>1, <4>1, TypedRecords
    <3>2. CASE ~Unwritten(node, v)
      <4>1. t[v] = OfPage(page[v]) /\ Reads[v] = page[v] /\ v \in DOMAIN page
        BY <2>1, <3>2 DEF TreeOf, Live, Reads, Unwritten
      <4> QED
        BY <1>1, <4>1, TypedRecords
    <3> QED
      BY <3>1, <3>2
  <2> QED
    BY <2>1, <2>2 DEF Sourced
<1> HIDE DEF t
<1> DEFINE s == Contents(Reads, ReadsFrom)
<1>5. Row(s) /\ ToSet(s) = LeafItems(t)
  BY <1>3, <1>4, ContentsOf
<1>6. map = AsMap(s)
  BY DEF map
<1> HIDE DEF s
<1> QED
  BY <1>5, <1>6, AsMapOf DEF Held, t

\* The pages ids are the tree they are the pages of.
LEMMA PagesSourced ==
  ASSUME NEW pages, NEW ns, Typed(pages, ns), NEW ids, ids \subseteq DOMAIN pages,
         NEW t, DOMAIN t = ids, \A v \in ids : t[v] = pages[v]
  PROVE  Sourced(t, TreeOfPages(pages, ids))
<1>1. ASSUME NEW v \in ids
      PROVE  /\ TreeOfPages(pages, ids)[v] = OfPage(pages[v])
             /\ Row(t[v].inodes) /\ OfPage(pages[v]).items = ToSet(t[v].inodes)
             /\ OfPage(pages[v]).leaf = t[v].leaf
  <2>1. TreeOfPages(pages, ids)[v] = OfPage(pages[v])
    BY DEF TreeOfPages
  <2>2. v \in DOMAIN pages /\ t[v] = pages[v]
    OBVIOUS
  <2> QED
    BY <2>1, <2>2, TypedRecords
<1>2. DOMAIN TreeOfPages(pages, ids) = ids
  BY DEF TreeOfPages
<1> QED
  BY <1>1, <1>2 DEF Sourced

LEMMA SavedIs ==
  ASSUME TreeInv
  PROVE  Unique(Saved) /\ saved = MapOf(Saved)
<1> DEFINE ids == DOMAIN page \ written
           t == TreeOfPages(page, ids)
           s == Contents(Committed, root)
<1>1. Typed(page, node) /\ SoundPages(page, ids, root)
  BY DEF TreeInv
<1>2. PICK h, d : Shape(t, root, h, d)
  BY <1>1 DEF SoundPages
<1>3. DOMAIN Committed = ids /\ \A v \in ids : Committed[v] = page[v]
  BY DEF Committed
<1>4. Sourced(Committed, t)
  BY <1>1, <1>3, PagesSourced
<1> HIDE DEF t
<1>5. Row(s) /\ ToSet(s) = LeafItems(t)
  BY <1>2, <1>4, ContentsOf
<1>6. saved = AsMap(s)
  BY DEF saved
<1> HIDE DEF s
<1> QED
  BY <1>5, <1>6, AsMapOf DEF Saved, t

-----------------------------------------------------------------------------
(***************************************************************************)
(* Every page fits, or has too few elements to be split.                   *)
(***************************************************************************)
PagesFit == \A v \in DOMAIN page : Fits(page[v].leaf, page[v].inodes)

LEMMA PagesFitInit ==
  ASSUME Init
  PROVE  PagesFit
<1>1. PICK s \in Start : page = s.page /\ root = s.root
  BY DEF Init
<1>2. SoundTree(s)
  BY StartAssumption
<1> QED
  BY <1>1, <1>2 DEF SoundTree, PagesFit

LEMMA SpillFits ==
  ASSUME TreeInv, PagesFit, Spill
  PROVE  PagesFit'
<1>1. PICK n, parts, l, ids, I, p : Spills(n, parts, l, ids, I, p)
  BY SpillFacts
<1>2. /\ \A v \in DOMAIN page' : v \in DOMAIN page \/ v \in I
      /\ \A v \in DOMAIN page : page'[v] = page[v]
      /\ PagesOf(ids, l, I, page', node[n].leaf, parts)
      /\ \A j \in 1 .. l : Fits(node[n].leaf, parts[j])
  BY <1>1 DEF Spills
<1>3. ASSUME NEW v \in I PROVE Fits(page'[v].leaf, page'[v].inodes)
  <2>1. PICK j \in 1 .. l : v = ids[j]
    BY <1>2 DEF PagesOf
  <2>2. page'[v] = Write(node[n].leaf, parts[j])
    BY <1>2, <2>1 DEF PagesOf
  <2>3. page'[v].leaf = node[n].leaf /\ page'[v].inodes = parts[j]
    BY <2>2 DEF Write
  <2> QED
    BY <1>2, <2>3
<1>4. ASSUME NEW v \in DOMAIN page PROVE Fits(page'[v].leaf, page'[v].inodes)
  BY <1>2 DEF PagesFit
<1> QED
  BY <1>2, <1>3, <1>4 DEF PagesFit

LEMMA PagesFitStep ==
  ASSUME TreeInv, PagesFit, [Next]_vars
  PROVE  PagesFit'
<1>1. ASSUME page' = page PROVE PagesFit'
  BY <1>1 DEF PagesFit
<1>2. ASSUME NEW ids, ids \subseteq DOMAIN page, Keep(ids) PROVE PagesFit'
  BY <1>2 DEF PagesFit, Keep
<1>3. CASE UNCHANGED vars
  BY <1>1, <1>3 DEF vars, tree
<1>4. CASE (\E k \in Deletes : Delete(k)) \/ \E e \in Puts : Put(e.key, e.val)
  BY <1>1, <1>4 DEF Delete, Put, Change
<1>5. CASE Commit \/ StartSpill \/ SpillPanics
  BY <1>1, <1>5 DEF Commit, StartSpill, SpillPanics, Panic, tree
<1>6. ASSUME NEW n \in DOMAIN node, Rebalance(n) \/ RebalancePanics(n) PROVE PagesFit'
  <2>1. CASE Rebalance(n)
    <3>1. page' = page
      BY <2>1, Zenon DEF Rebalance, Rebalanced, Collapse, Merge
    <3> QED
      BY <1>1, <3>1
  <2>2. CASE RebalancePanics(n)
    BY <1>1, <2>2 DEF RebalancePanics, Panic, tree
  <2> QED
    BY <1>6, <2>1, <2>2
<1>7. CASE Spill
  BY <1>7, SpillFits
<1>8. CASE EndCommit
  BY <1>2, <1>8 DEF EndCommit
<1>9. CASE Rollback
  BY <1>2, <1>9 DEF Rollback
<1> QED
  BY <1>3, <1>4, <1>5, <1>6, <1>7, <1>8, <1>9 DEF Next

LEMMA PagesSoundOfInv ==
  ASSUME TreeInv, PagesFit
  PROVE  PagesSound
<1> SUFFICES ASSUME phase = "open" PROVE PagesSound
  BY DEF PagesSound
<1>1. PICK h, d : Levels(page, root, h, d)
  BY OpenLevels
<1>2. Depth(root) > 0
  <2>1. Depth(root) = h[root] + 1 /\ h[root] \in Nat
    <3>1. h[root] \in Nat
      BY <1>1 DEF Levels
    <3> QED
      BY <1>1, <3>1, DepthIs DEF PagesFit
  <2> QED
    BY <2>1
<1>3. DOMAIN page = Reached(root)
  BY <1>1, AllReached
<1>4. KeysInOrder(Contents(page, root))
  <2> DEFINE s == Contents(page, root)
             t == TreeOfPages(page, DOMAIN page)
  <2>1. Row(s)
    <3>1. written = {} /\ DOMAIN page \ written = DOMAIN page /\ Typed(page, node)
      BY DEF TreeInv, Progress
    <3>2. SoundPages(page, DOMAIN page, root)
      BY <3>1 DEF TreeInv
    <3>3. PICK h2, d2 : Shape(t, root, h2, d2)
      BY <3>2 DEF SoundPages
    <3>4. Sourced(page, t)
      BY <3>1, PagesSourced
    <3> HIDE DEF t
    <3> QED
      BY <3>3, <3>4, ContentsOf
  <2> HIDE DEF s
  <2>2. Len(s) \in Nat /\ \A i, j \in 1 .. Len(s) : i < j => s[i].key < s[j].key
    BY <2>1, RowType
  <2>3. KeysInOrder(s)
    BY <2>2 DEF KeysInOrder
  <2> QED
    BY <2>3 DEF s
<1> QED
  BY <1>2, <1>3, <1>4 DEF PagesSound

(* Between transactions the pages are exactly those of the tree, all       *)
(* leaves at one depth, keys in order in the whole tree, a branch's key    *)
(* its child's first key, no page but an empty root empty, and none that   *)
(* spill could have split is larger than a page.                           *)
THEOREM PagesSoundHolds == Spec => []PagesSound
<1>1. Init => PagesFit
  BY PagesFitInit
<1>2. TreeInv /\ PagesFit /\ [Next]_vars => PagesFit'
  BY PagesFitStep
<1>3. TreeInv /\ PagesFit => PagesSound
  BY PagesSoundOfInv
<1> QED
  BY <1>1, <1>2, <1>3, TreeInvHolds, PTL DEF Spec

-----------------------------------------------------------------------------
(***************************************************************************)
(* Every step is the step of the map that has its name.                    *)
(***************************************************************************)
Maps == /\ Unique(Held) /\ map = MapOf(Held)
        /\ Unique(Saved) /\ saved = MapOf(Saved)

LEMMA MapsNow ==
  ASSUME TreeInv
  PROVE  Maps
BY MapIs, SavedIs DEF Maps

LEMMA MapsNext == TreeInv' => Maps'
<1>1. TreeInv => Maps
  BY MapsNow
<1> QED
  BY <1>1, PTL

\* The maps are those of the elements, before the step and after it.
LEMMA MapsStep ==
  ASSUME TreeInv, TreeInv'
  PROVE  /\ Unique(Held) /\ map = MapOf(Held) /\ saved = MapOf(Saved)
         /\ map' = MapOf(Held') /\ saved' = MapOf(Saved')
<1>1. Maps /\ Maps'
  BY MapsNow, MapsNext
<1> QED
  BY <1>1 DEF Maps

\* What a map maps to is in the tree.
LEMMA MapInit ==
  ASSUME Init
  PROVE  OrderedMap!Init
<1>1. TreeInv /\ Held = Saved
  BY TreeInvInit
<1>2. Maps
  BY <1>1, MapsNow
<1>3. map = saved /\ saved = MapOf(Held) /\ Unique(Held)
  BY <1>1, <1>2 DEF Maps
<1>4. ASSUME NEW e \in Held PROVE e.key \in Keys /\ e.val \in Values
  <2>1. PICK s \in Start : page = s.page /\ root = s.root
    BY DEF Init
  <2>2. SoundTree(s)
    BY StartAssumption
  <2>3. node = <<>> /\ freed = {} /\ written = {}
    BY DEF Init
  <2>4. e \in Saved
    BY <1>1, <1>4
  <2>5. PICK v \in DOMAIN page : page[v].leaf /\ e \in ToSet(page[v].inodes)
    BY <2>4 DEF Saved, LeafItems, TreeOfPages, OfPage
  <2>6. /\ page[v] \in [leaf : BOOLEAN, inodes : Seq([key : Keys, val : Nat])]
        /\ \A f \in ToSet(page[v].inodes) : f.val \in Values
    BY <2>1, <2>2, <2>5 DEF SoundTree
  <2>7. e.val \in Values
    BY <2>5, <2>6
  <2> DEFINE q == page[v].inodes
             S == [key : Keys, val : Nat]
  <2>8. q \in Seq(S) /\ e \in ToSet(q)
    BY <2>5, <2>6
  <2> HIDE DEF q, S
  <2>9. PICK i \in 1 .. Len(q) : e = q[i]
    BY <2>8 DEF ToSet
  <2>10. e \in S
    BY <2>8, <2>9
  <2> QED
    BY <2>7, <2>10 DEF S
<1>5. MapOf(Held) \in [{e.key : e \in Held} -> Values]
  <2>1. ASSUME NEW k \in {e.key : e \in Held} PROVE MapOf(Held)[k] \in Values
    <3>1. PICK e \in Held : e.key = k
      OBVIOUS
    <3>2. MapOf(Held)[e.key] = e.val
      BY <1>3, MapOfIs
    <3> QED
      BY <1>4, <3>1, <3>2
  <2> QED
    BY <2>1 DEF MapOf
<1>6. {e.key : e \in Held} \in SUBSET Keys
  BY <1>4
<1>7. committing = FALSE
  BY DEF Init, committing
<1> QED
  BY <1>3, <1>5, <1>6, <1>7 DEF OrderedMap!Init

\* A step that keeps the elements keeps the maps.
LEMMA MapsKept ==
  ASSUME TreeInv, TreeInv', Held' = Held, Saved' = Saved
  PROVE  UNCHANGED <<map, saved>>
BY MapsStep

LEMMA MapPutStep ==
  ASSUME TreeInv, NEW e \in Puts, Put(e.key, e.val)
  PROVE  OrderedMap!Put(e.key, e.val)
<1>1. TreeInv' /\ Held' = {f \in Held : f.key # e.key} \cup {Element(e.key, e.val)}
  BY PutStep
<1>2. Saved' = Saved /\ phase = "open" /\ phase' = "open"
  BY DEF Put, Change, Saved
<1>3. /\ Unique(Held) /\ map = MapOf(Held) /\ saved = MapOf(Saved)
      /\ map' = MapOf(Held') /\ saved' = MapOf(Saved')
  BY <1>1, MapsStep
<1> DEFINE x == Element(e.key, e.val)
<1>4. x.key = e.key /\ x.val = e.val
  BY DEF Element
<1> HIDE DEF x
<1>5. Held' = {f \in Held : f.key # x.key} \cup {x}
  BY <1>1, <1>4 DEF x
<1>6. MapOf(Held') = [k \in DOMAIN map \cup {x.key} |-> IF k = x.key THEN x.val ELSE map[k]]
  BY <1>3, <1>5, MapPut
<1>7. map' = [k \in DOMAIN map \cup {e.key} |-> IF k = e.key THEN e.val ELSE map[k]]
  BY <1>3, <1>4, <1>6
<1>8. ~committing /\ UNCHANGED <<saved, committing>>
  BY <1>2, <1>3 DEF committing
<1> QED
  BY <1>7, <1>8 DEF OrderedMap!Put

LEMMA MapDeleteStep ==
  ASSUME TreeInv, NEW k \in Keys, Delete(k)
  PROVE  OrderedMap!Delete(k)
<1>1. TreeInv' /\ Held' = {f \in Held : f.key # k}
  BY DeleteStep
<1>2. Saved' = Saved /\ phase = "open" /\ phase' = "open"
  BY DEF Delete, Change, Saved
<1>3. /\ Unique(Held) /\ map = MapOf(Held) /\ saved = MapOf(Saved)
      /\ map' = MapOf(Held') /\ saved' = MapOf(Saved')
  BY <1>1, MapsStep
<1>4. MapOf(Held') = [x \in DOMAIN map \ {k} |-> map[x]]
  BY <1>1, <1>3, MapDelete
<1>5. map' = [x \in DOMAIN map \ {k} |-> map[x]]
  BY <1>3, <1>4
<1>6. ~committing /\ UNCHANGED <<saved, committing>>
  BY <1>2, <1>3 DEF committing
<1> QED
  BY <1>5, <1>6 DEF OrderedMap!Delete

LEMMA MapEndCommitStep ==
  ASSUME TreeInv, EndCommit
  PROVE  OrderedMap!EndCommit
<1>1. TreeInv' /\ Held' = Held /\ Saved' = Held
  BY EndCommitStep
<1>2. /\ map = MapOf(Held) /\ map' = MapOf(Held') /\ saved' = MapOf(Saved')
  BY <1>1, MapsStep
<1>3. map' = map /\ saved' = map
  BY <1>1, <1>2
<1>4. committing /\ ~committing'
  BY DEF EndCommit, committing
<1> QED
  BY <1>3, <1>4 DEF OrderedMap!EndCommit

LEMMA MapRollbackStep ==
  ASSUME TreeInv, Rollback
  PROVE  OrderedMap!Rollback
<1>1. TreeInv' /\ Held' = Saved /\ Saved' = Saved
  BY RollbackStep
<1>2. /\ saved = MapOf(Saved) /\ map' = MapOf(Held') /\ saved' = MapOf(Saved')
  BY <1>1, MapsStep
<1>3. map' = saved /\ saved' = saved
  BY <1>1, <1>2
<1>4. ~committing'
  BY DEF Rollback, committing
<1> QED
  BY <1>3, <1>4 DEF OrderedMap!Rollback

\* Every other step is one of the commit, which keeps what is held and saved.
LEMMA MapCommitStep ==
  ASSUME TreeInv, Next, committing'
  PROVE  OrderedMap!Commit
<1>1. phase' # "open"
  BY DEF committing
<1>2. ASSUME NEW k \in Deletes, Delete(k) PROVE FALSE
  BY <1>1, <1>2 DEF Delete, Change
<1>3. ASSUME NEW e \in Puts, Put(e.key, e.val) PROVE FALSE
  BY <1>1, <1>3 DEF Put, Change
<1>4. CASE EndCommit \/ Rollback
  BY <1>1, <1>4 DEF EndCommit, Rollback
<1>5. CASE SpillPanics
  BY <1>5, SpillPanicsNot
<1>6. ASSUME NEW n \in DOMAIN node, Rebalance(n) \/ RebalancePanics(n)
      PROVE  TreeInv' /\ Held' = Held /\ Saved' = Saved
  BY <1>6, RebalanceStep, RebalancePanicsNot
<1>7. ASSUME TreeInv', Held' = Held, Saved' = Saved PROVE OrderedMap!Commit
  BY <1>7, MapsKept DEF OrderedMap!Commit
<1>8. CASE Commit \/ StartSpill \/ Spill
  BY <1>7, <1>8, CommitStep, StartSpillStep, SpillStep
<1> QED
  BY <1>2, <1>3, <1>4, <1>5, <1>6, <1>7, <1>8 DEF Next

(* Whatever is put and deleted, in whatever order the nodes are merged and *)
(* wherever they are split, a Put or a Delete changes its own key and no   *)
(* other, no step of the commit changes what the transaction reads, the    *)
(* commit keeps exactly that, and a rollback is back at the last commit.   *)
THEOREM ImplementsMapHolds == Spec => ImplementsMap
<1> DEFINE Named ==
      /\ ops' > ops =>
           /\ \A e \in Puts : Put(e.key, e.val) => OrderedMap!Put(e.key, e.val)
           /\ \A k \in Keys : Delete(k) => OrderedMap!Delete(k)
      /\ committing' => OrderedMap!Commit
      /\ EndCommit => OrderedMap!EndCommit
      /\ Rollback => OrderedMap!Rollback
<1>1. Init => OrderedMap!Init
  BY MapInit
<1>2. TreeInv /\ [Next]_vars => [Named]_vars
  <2> SUFFICES ASSUME TreeInv, Next PROVE Named
    OBVIOUS
  <2>1. \A e \in Puts : Put(e.key, e.val) => OrderedMap!Put(e.key, e.val)
    BY MapPutStep
  <2>2. \A k \in Keys : Delete(k) => OrderedMap!Delete(k)
    BY MapDeleteStep
  <2>3. committing' => OrderedMap!Commit
    BY MapCommitStep
  <2>4. EndCommit => OrderedMap!EndCommit
    BY MapEndCommitStep
  <2>5. Rollback => OrderedMap!Rollback
    BY MapRollbackStep
  <2> QED
    BY <2>1, <2>2, <2>3, <2>4, <2>5
<1> QED
  BY <1>1, <1>2, TreeInvHolds, PTL DEF Spec, ImplementsMap
=============================================================================
