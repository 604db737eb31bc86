----------------------------- MODULE TreeLemmas -----------------------------
(***************************************************************************)
(* Lemmas on what Tree is made of: paths that Follow finds, rows of        *)
(* elements, and how the changes that put, delete, rebalance and spill     *)
(* make to a tree keep its shape; the parts a node is split into, the puts *)
(* in its parent, and functions defined from lower levels of a tree.       *)
(***************************************************************************)
EXTENDS TreeInv, SequenceTheorems, FiniteSetTheorems, WellFoundedInduction, NaturalsInduction, TLAPS

-----------------------------------------------------------------------------
(***************************************************************************)
(* Follow.                                                                 *)
(***************************************************************************)
\* A nonempty set of numbers has a least one.
LEMMA LeastNumber ==
  ASSUME NEW S \in SUBSET Nat, S # {}
  PROVE  \E n \in S : \A m \in S : n <= m
<1>1. PICK n \in S : \A m \in S : <<m, n>> \notin OpToRel(<, Nat)
  BY NatLessThanWellFounded, WFMin, Zenon
<1>2. \A m \in S : ~(m < n)
  BY <1>1 DEF OpToRel
<1> QED
  BY <1>2

\* A way from y by next, that ends where next stays.
IsWay(next, y, w) ==
  /\ w \in Seq(DOMAIN next) /\ Len(w) \in Nat \ {0}
  /\ w[1] = y /\ next[w[Len(w)]] = w[Len(w)]
  /\ \A i \in 1 .. Len(w) - 1 : w[i+1] = next[w[i]] /\ next[w[i]] # w[i]

Ranked(next, rank) ==
  /\ next \in [DOMAIN next -> DOMAIN next] /\ rank \in [DOMAIN next -> Nat]
  /\ \A y \in DOMAIN next : next[y] # y => rank[next[y]] < rank[y]

\* A way begins with its first node and goes on with a way from the next one.
LEMMA WayFrom ==
  ASSUME NEW next, NEW y \in DOMAIN next, NEW w, next[y] # y,
         IsWay(next, next[y], w)
  PROVE  IsWay(next, y, <<y>> \o w)
<1> DEFINE u == <<y>> \o w
<1>1. /\ u \in Seq(DOMAIN next) /\ Len(u) = Len(w) + 1 /\ Len(w) \in Nat \ {0}
      /\ u[1] = y /\ \A i \in 1 .. Len(w) : u[i+1] = w[i]
  BY DEF IsWay
<1>2. next[u[Len(u)]] = u[Len(u)]
  BY <1>1 DEF IsWay
<1>3. ASSUME NEW i \in 1 .. Len(u) - 1 PROVE u[i+1] = next[u[i]] /\ next[u[i]] # u[i]
  <2>1. CASE i = 1
    BY <1>1, <2>1 DEF IsWay
  <2>2. CASE i > 1
    <3>1. i - 1 \in 1 .. Len(w) - 1 /\ i \in 1 .. Len(w)
      BY <1>1, <2>2
    <3>2. u[i] = w[i-1] /\ u[i+1] = w[i]
      <4>1. i - 1 \in 1 .. Len(w) /\ (i - 1) + 1 = i
        BY <1>1, <3>1
      <4> QED
        BY <1>1, <3>1, <4>1
    <3>3. w[(i-1)+1] = next[w[i-1]] /\ next[w[i-1]] # w[i-1]
      BY <3>1 DEF IsWay
    <3> QED
      BY <3>1, <3>2, <3>3
  <2> QED
    BY <1>1, <2>1, <2>2
<1> HIDE DEF u
<1>4. IsWay(next, y, u)
  BY <1>1, <1>2, <1>3 DEF IsWay
<1> QED
  BY <1>4 DEF u

LEMMA WayStays ==
  ASSUME NEW next, NEW y \in DOMAIN next, next[y] = y
  PROVE  IsWay(next, y, <<y>>)
BY DEF IsWay

LEMMA WayRest ==
  ASSUME NEW next, NEW y \in DOMAIN next, NEW w, next[y] # y, IsWay(next, y, w)
  PROVE  Len(w) > 1 /\ IsWay(next, next[y], Tail(w)) /\ w = <<y>> \o Tail(w)
<1> DEFINE u == Tail(w)
<1>1. Len(w) > 1
  BY DEF IsWay
<1>2. /\ u \in Seq(DOMAIN next) /\ Len(u) = Len(w) - 1 /\ Len(w) \in Nat
      /\ \A i \in 1 .. Len(u) : u[i] = w[i+1]
  BY <1>1 DEF IsWay
<1>3. u[1] = next[y] /\ next[u[Len(u)]] = u[Len(u)]
  BY <1>1, <1>2 DEF IsWay
<1>4. ASSUME NEW i \in 1 .. Len(u) - 1 PROVE u[i+1] = next[u[i]] /\ next[u[i]] # u[i]
  <2>1. i + 1 \in 1 .. Len(w) - 1 /\ i \in 1 .. Len(u) /\ i + 1 \in 1 .. Len(u)
    BY <1>2
  <2> QED
    BY <1>2, <2>1 DEF IsWay
<1>5. w = <<y>> \o u
  BY <1>1 DEF IsWay
<1> HIDE DEF u
<1>6. IsWay(next, next[y], u)
  BY <1>1, <1>2, <1>3, <1>4 DEF IsWay
<1> QED
  BY <1>1, <1>5, <1>6 DEF u

\* From every node there is exactly one way.
LEMMA OneWay ==
  ASSUME NEW next, NEW rank, Ranked(next, rank), NEW y \in DOMAIN next
  PROVE  /\ \E w : IsWay(next, y, w)
         /\ \A u, w : IsWay(next, y, u) /\ IsWay(next, y, w) => u = w
<1> DEFINE Good(x) == /\ \E w : IsWay(next, x, w)
                      /\ \A u, w : IsWay(next, x, u) /\ IsWay(next, x, w) => u = w
           bad == {x \in DOMAIN next : ~Good(x)}
           ranks == {rank[x] : x \in bad}
<1>1. SUFFICES ASSUME bad # {} PROVE FALSE
  OBVIOUS
<1>2. PICK x \in bad : \A z \in bad : rank[x] <= rank[z]
  <2>1. ranks \in SUBSET Nat /\ ranks # {}
    BY <1>1 DEF Ranked
  <2> HIDE DEF ranks
  <2>2. PICK n \in ranks : \A m \in ranks : n <= m
    BY <2>1, LeastNumber
  <2> QED
    BY <2>2 DEF ranks
<1>3. CASE next[x] = x
  <2>1. \E w : IsWay(next, x, w)
    BY <1>3, WayStays
  <2>2. ASSUME NEW w, IsWay(next, x, w) PROVE w = <<x>>
    <3> DEFINE l == Len(w)
    <3>1. l = 1
      <4>1. \A i \in 1 .. Len(w) - 1 : next[w[i]] # w[i]
        BY <2>2 DEF IsWay
      <4>2. w[1] = x /\ w \in Seq(DOMAIN next)
        BY <2>2 DEF IsWay
      <4>3. l \in Nat /\ l # 0
        BY <2>2 DEF IsWay
      <4>4. ~(1 <= l - 1)
        BY <1>3, <4>1, <4>2, <4>3
      <4> HIDE DEF l
      <4> QED
        BY <4>3, <4>4
    <3> QED
      BY <2>2, <3>1 DEF IsWay
  <2> QED
    BY <2>1, <2>2
<1>4. CASE next[x] # x
  <2>1. next[x] \in DOMAIN next /\ rank[next[x]] < rank[x] /\ rank[next[x]] \in Nat /\ rank[x] \in Nat
    BY <1>4 DEF Ranked
  <2>2. Good(next[x])
    BY <1>2, <2>1
  <2>3. \E w : IsWay(next, x, w)
    <3>1. PICK w : IsWay(next, next[x], w)
      BY <2>2
    <3> QED
      BY <1>4, <3>1, WayFrom
  <2>4. ASSUME NEW u, NEW w, IsWay(next, x, u), IsWay(next, x, w) PROVE u = w
    <3>1. IsWay(next, next[x], Tail(u)) /\ u = <<x>> \o Tail(u)
      BY <1>4, <2>4, WayRest
    <3>2. IsWay(next, next[x], Tail(w)) /\ w = <<x>> \o Tail(w)
      BY <1>4, <2>4, WayRest
    <3>3. Tail(u) = Tail(w)
      BY <2>2, <3>1, <3>2, Zenon
    <3> QED
      BY <3>1, <3>2, <3>3, Zenon
  <2> QED
    BY <2>3, <2>4
<1> QED
  BY <1>3, <1>4

\* Follow is that way.
LEMMA FollowIsWay ==
  ASSUME NEW next, NEW rank, Ranked(next, rank), NEW x \in DOMAIN next
  PROVE  IsWay(next, x, Follow(next, x))
<1> DEFINE Eq(f) == f = [y \in DOMAIN next |-> IF next[y] = y THEN <<y>> ELSE <<y>> \o f[next[y]]]
           way == [y \in DOMAIN next |-> CHOOSE w : IsWay(next, y, w)]
           from == CHOOSE f : Eq(f)
<1>1. \A y \in DOMAIN next : IsWay(next, y, way[y])
  BY OneWay
<1>2. \A y \in DOMAIN next : \A w : IsWay(next, y, w) => w = way[y]
  BY <1>1, OneWay
<1>3. \A y \in DOMAIN next : next[y] \in DOMAIN next
  BY DEF Ranked
<1>4. ASSUME NEW y \in DOMAIN next
      PROVE  way[y] = IF next[y] = y THEN <<y>> ELSE <<y>> \o way[next[y]]
  <2> HIDE DEF way
  <2>1. CASE next[y] = y
    BY <1>2, <2>1, WayStays
  <2>2. CASE next[y] # y
    <3>1. IsWay(next, y, <<y>> \o way[next[y]])
      BY <1>1, <1>3, <2>2, WayFrom
    <3> QED
      BY <1>2, <2>2, <3>1
  <2> QED
    BY <2>1, <2>2
<1>5. Eq(way)
  <2> DEFINE rhs == [y \in DOMAIN next |-> IF next[y] = y THEN <<y>> ELSE <<y>> \o way[next[y]]]
  <2>1. DOMAIN way = DOMAIN next /\ way = [y \in DOMAIN next |-> way[y]]
    OBVIOUS
  <2> HIDE DEF way
  <2>2. way = rhs
    BY <1>4, <2>1
  <2> QED
    BY <2>2
<1>6. Eq(from)
  <2> HIDE DEF way
  <2> QED
    BY <1>5, Zenon
<1>7. Follow(next, x) = from[x]
  BY DEF Follow
<1> HIDE DEF from, way
<1>8. ASSUME NEW y \in DOMAIN next
      PROVE  from[y] = IF next[y] = y THEN <<y>> ELSE <<y>> \o from[next[y]]
  BY <1>6
<1> DEFINE bad == {y \in DOMAIN next : ~IsWay(next, y, from[y])}
           ranks == {rank[y] : y \in bad}
<1>9. bad = {}
  <2>1. SUFFICES ASSUME bad # {} PROVE FALSE
    OBVIOUS
  <2>2. PICK y \in bad : \A z \in bad : rank[y] <= rank[z]
    <3>1. ranks \in SUBSET Nat /\ ranks # {}
      BY <2>1 DEF Ranked
    <3> HIDE DEF ranks
    <3>2. PICK n \in ranks : \A m \in ranks : n <= m
      BY <3>1, LeastNumber
    <3> QED
      BY <3>2 DEF ranks
  <2>3. CASE next[y] = y
    <3>1. from[y] = <<y>>
      BY <1>8, <2>3
    <3> QED
      BY <2>3, <3>1, WayStays
  <2>4. CASE next[y] # y
    <3>1. next[y] \in DOMAIN next /\ rank[next[y]] < rank[y] /\ rank[next[y]] \in Nat /\ rank[y] \in Nat
      BY <2>4 DEF Ranked
    <3>2. IsWay(next, next[y], from[next[y]])
      BY <2>2, <3>1
    <3>3. from[y] = <<y>> \o from[next[y]]
      BY <1>8, <2>4
    <3>4. IsWay(next, y, from[y])
      BY <2>4, <3>2, <3>3, WayFrom
    <3> QED
      BY <3>4
  <2> QED
    BY <2>3, <2>4
<1> QED
  BY <1>7, <1>9

-----------------------------------------------------------------------------
(***************************************************************************)
(* Rows: the elements of a page or a node, in the order of their keys.     *)
(***************************************************************************)
LEMMA RowType ==
  ASSUME NEW s, Row(s)
  PROVE  /\ Len(s) \in Nat /\ DOMAIN s = 1 .. Len(s) /\ s \in [1 .. Len(s) -> Elem]
         /\ \A i \in 1 .. Len(s) : s[i] \in Elem /\ s[i].key \in Nat /\ s[i].key # 0 /\ s[i].val \in Int
         /\ \A i, j \in 1 .. Len(s) : i < j => s[i].key < s[j].key
         /\ ToSet(s) = {s[i] : i \in 1 .. Len(s)}
         /\ ToSet(s) \subseteq Elem
<1>1. s \in Seq(Elem) /\ \A i, j \in DOMAIN s : i < j => s[i].key < s[j].key
  BY DEF Row
<1>2. Len(s) \in Nat /\ DOMAIN s = 1 .. Len(s) /\ s \in [1 .. Len(s) -> Elem]
  BY <1>1, LenProperties
<1>3. \A i \in 1 .. Len(s) : s[i] \in Elem /\ s[i].key \in Nat /\ s[i].key # 0 /\ s[i].val \in Int
  <2>1. \A e \in Elem : e.key \in Nat /\ e.key # 0 /\ e.val \in Int
    BY DEF Elem, Key
  <2> QED
    BY <1>2, <2>1
<1>4. ToSet(s) = {s[i] : i \in 1 .. Len(s)}
  BY <1>2 DEF ToSet
<1> QED
  BY <1>1, <1>2, <1>3, <1>4

\* The elements of a row have different keys.
LEMMA RowKeys ==
  ASSUME NEW s, Row(s), NEW e \in ToSet(s), NEW f \in ToSet(s), e.key = f.key
  PROVE  e = f
<1>1. PICK i \in 1 .. Len(s) : e = s[i]
  BY RowType
<1>2. PICK j \in 1 .. Len(s) : f = s[j]
  BY RowType
<1>3. s[i].key \in Nat /\ s[j].key \in Nat /\ (i < j => s[i].key < s[j].key)
      /\ (j < i => s[j].key < s[i].key) /\ i \in Int /\ j \in Int
  BY RowType
<1> QED
  BY <1>1, <1>2, <1>3

LEMMA RowSize ==
  ASSUME NEW s, Row(s)
  PROVE  /\ s = <<>> <=> ToSet(s) = {}
         /\ s = <<>> <=> Len(s) = 0
         /\ Len(s) >= 2 <=> \E e, f \in ToSet(s) : e # f
<1>1. /\ Len(s) \in Nat /\ DOMAIN s = 1 .. Len(s) /\ ToSet(s) = {s[i] : i \in 1 .. Len(s)}
      /\ \A i \in 1 .. Len(s) : s[i].key \in Nat
      /\ \A i, j \in 1 .. Len(s) : i < j => s[i].key < s[j].key
  BY RowType
<1>2. s = <<>> <=> Len(s) = 0
  BY EmptySeq DEF Row
<1>3. s = <<>> <=> ToSet(s) = {}
  <2>1. Len(s) # 0 => 1 \in 1 .. Len(s)
    BY <1>1
  <2>2. Len(s) = 0 => 1 .. Len(s) = {}
    BY <1>1
  <2> QED
    BY <1>1, <1>2, <2>1, <2>2
<1>4. ASSUME Len(s) >= 2 PROVE \E e, f \in ToSet(s) : e # f
  <2>1. 1 \in 1 .. Len(s) /\ 2 \in 1 .. Len(s)
    BY <1>1, <1>4
  <2>2. s[1].key < s[2].key /\ s[1].key \in Nat
    BY <1>1, <2>1
  <2>3. s[1] # s[2]
    BY <2>2
  <2> QED
    BY <1>1, <2>1, <2>3
<1>5. ASSUME NEW e \in ToSet(s), NEW f \in ToSet(s), e # f PROVE Len(s) >= 2
  <2>1. PICK i \in 1 .. Len(s) : e = s[i]
    BY <1>1
  <2>2. PICK j \in 1 .. Len(s) : f = s[j]
    BY <1>1
  <2>3. i # j
    BY <1>5, <2>1, <2>2
  <2> QED
    BY <1>1, <2>3
<1> QED
  BY <1>2, <1>3, <1>4, <1>5

LEMMA RowFirst ==
  ASSUME NEW s, Row(s)
  PROVE  /\ FirstKey(s) \in Nat
         /\ s # <<>> => /\ s[1] \in ToSet(s) /\ FirstKey(s) = s[1].key /\ FirstKey(s) # 0
                        /\ \A e \in ToSet(s) : FirstKey(s) <= e.key
<1>1. /\ Len(s) \in Nat /\ ToSet(s) = {s[i] : i \in 1 .. Len(s)}
      /\ \A i \in 1 .. Len(s) : s[i].key \in Nat /\ s[i].key # 0
      /\ \A i, j \in 1 .. Len(s) : i < j => s[i].key < s[j].key
  BY RowType
<1>2. s # <<>> => 1 \in 1 .. Len(s)
  BY <1>1, RowSize
<1>3. \A i \in 1 .. Len(s) : s[1].key <= s[i].key
  <2>1. SUFFICES ASSUME NEW i \in 1 .. Len(s) PROVE s[1].key <= s[i].key
    OBVIOUS
  <2>2. 1 \in 1 .. Len(s) /\ (i = 1 \/ 1 < i)
    BY <1>1
  <2>3. s[1].key \in Nat /\ s[i].key \in Nat
    BY <1>1, <2>2
  <2> QED
    BY <1>1, <2>2, <2>3
<1> QED
  BY <1>1, <1>2, <1>3 DEF FirstKey

\* The elements with a smaller key are those before the index.
LEMMA IndexOf ==
  ASSUME NEW s, Row(s), NEW k \in Nat
  PROVE  /\ Index(s, k) \in 1 .. Len(s) + 1
         /\ \A i \in 1 .. Len(s) : i < Index(s, k) <=> s[i].key < k
<1> DEFINE above == {i \in 1 .. Len(s) + 1 : i = Len(s) + 1 \/ ~(s[i].key < k)}
<1>1. /\ Len(s) \in Nat /\ DOMAIN s = 1 .. Len(s)
      /\ \A i \in 1 .. Len(s) : s[i].key \in Nat
      /\ \A i, j \in 1 .. Len(s) : i < j => s[i].key < s[j].key
  BY RowType
<1>2. PICK m \in above : \A i \in above : m <= i
  <2>1. Len(s) + 1 \in above
    BY <1>1
  <2>2. above \in SUBSET Nat /\ above # {}
    BY <1>1, <2>1
  <2> HIDE DEF above
  <2> QED
    BY <2>2, LeastNumber
<1>3. m \in 1 .. Len(s) + 1 /\ (m = Len(s) + 1 \/ ~(s[m].key < k))
  BY <1>2
<1>4. ASSUME NEW i \in 1 .. Len(s) PROVE i < m <=> s[i].key < k
  <2>1. CASE i < m
    <3>1. i \notin above
      BY <1>1, <1>2, <1>3, <2>1
    <3> QED
      BY <1>1, <2>1, <3>1
  <2>2. CASE ~(i < m)
    <3>1. m \in 1 .. Len(s) /\ ~(s[m].key < k) /\ (m = i \/ m < i)
      BY <1>1, <1>3, <2>2
    <3>2. s[m].key <= s[i].key /\ s[m].key \in Nat /\ s[i].key \in Nat
      BY <1>1, <3>1
    <3> QED
      BY <2>2, <3>1, <3>2
  <2> QED
    BY <2>1, <2>2
<1> HIDE DEF above
<1>5. {i \in DOMAIN s : s[i].key < k} = 1 .. m - 1
  <2>1. \A i : i \in DOMAIN s /\ s[i].key < k <=> i \in 1 .. m - 1
    BY <1>1, <1>3, <1>4
  <2> QED
    BY <2>1
<1>6. Cardinality(1 .. m - 1) = m - 1
  <2>1. m - 1 \in Int /\ 1 \in Int /\ (1 > m - 1 => m - 1 = 0)
    BY <1>1, <1>3
  <2>2. Cardinality(1 .. m - 1) = IF 1 > m - 1 THEN 0 ELSE m - 1 - 1 + 1
    BY <2>1, FS_Interval
  <2> QED
    BY <1>3, <2>1, <2>2
<1>7. Index(s, k) = m
  <2>1. Index(s, k) = 1 + (m - 1)
    BY <1>5, <1>6 DEF Index
  <2> QED
    BY <1>1, <1>3, <2>1
<1> QED
  BY <1>3, <1>4, <1>7

LEMMA HasKey ==
  ASSUME NEW s, Row(s), NEW k \in Nat
  PROVE  /\ Has(s, k) <=> \E e \in ToSet(s) : e.key = k
         /\ Has(s, k) => Index(s, k) \in 1 .. Len(s) /\ s[Index(s, k)].key = k
         /\ ~Has(s, k) => \A i \in 1 .. Len(s) : s[i].key # k
<1> DEFINE m == Index(s, k)
<1>1. /\ Len(s) \in Nat /\ DOMAIN s = 1 .. Len(s) /\ ToSet(s) = {s[i] : i \in 1 .. Len(s)}
      /\ \A i \in 1 .. Len(s) : s[i].key \in Nat
      /\ \A i, j \in 1 .. Len(s) : i < j => s[i].key < s[j].key
  BY RowType
<1>2. /\ m \in 1 .. Len(s) + 1
      /\ \A i \in 1 .. Len(s) : i < m <=> s[i].key < k
  BY IndexOf
<1>3. Has(s, k) <=> m \in 1 .. Len(s) /\ s[m].key = k
  BY <1>1 DEF Has
<1> HIDE DEF m
<1>4. ASSUME NEW i \in 1 .. Len(s), s[i].key = k PROVE m = i
  <2>1. ~(i < m) /\ (m = i \/ m < i)
    BY <1>1, <1>2, <1>4
  <2>2. CASE m < i
    <3>1. m \in 1 .. Len(s) /\ s[m].key < s[i].key
      BY <1>1, <1>2, <2>2
    <3> QED
      BY <1>2, <1>4, <3>1, <2>2
  <2> QED
    BY <2>1, <2>2
<1> QED
  BY <1>1, <1>3, <1>4 DEF m

LEMMA RowSub ==
  ASSUME NEW s, Row(s), NEW a \in Nat \ {0}, NEW b \in Nat, b <= Len(s)
  PROVE  /\ Row(SubSeq(s, a, b)) /\ ToSet(SubSeq(s, a, b)) = {s[i] : i \in a .. b}
         /\ Len(SubSeq(s, a, b)) = IF a <= b THEN b - a + 1 ELSE 0
<1> DEFINE u == SubSeq(s, a, b)
           n == IF a <= b THEN b - a + 1 ELSE 0
<1>1. /\ Len(s) \in Nat /\ \A i \in 1 .. Len(s) : s[i] \in Elem /\ s[i].key \in Nat
      /\ \A i, j \in 1 .. Len(s) : i < j => s[i].key < s[j].key
  BY RowType
<1>2. \A i \in a .. b : s[i] \in Elem
  BY <1>1
<1>3. u \in Seq(Elem) /\ Len(u) = n /\ \A i \in 1 .. b - a + 1 : u[i] = s[a + i - 1]
  BY <1>2, SubSeqProperties
<1>4. n \in Nat /\ DOMAIN u = 1 .. n
  BY <1>3, LenProperties
<1>5. \A i \in 1 .. n : u[i] = s[a + i - 1] /\ a + i - 1 \in 1 .. Len(s) /\ a + i - 1 \in a .. b
  <2>1. \A i \in 1 .. n : i \in 1 .. b - a + 1 /\ a + i - 1 \in 1 .. Len(s) /\ a + i - 1 \in a .. b
    BY <1>1
  <2> QED
    BY <1>3, <2>1
<1>6. \A i \in a .. b : i - a + 1 \in 1 .. n /\ a + (i - a + 1) - 1 = i
  BY <1>1
<1> HIDE DEF u, n
<1>7. \A i, j \in DOMAIN u : i < j => u[i].key < u[j].key
  <2>1. SUFFICES ASSUME NEW i \in 1 .. n, NEW j \in 1 .. n, i < j PROVE u[i].key < u[j].key
    BY <1>4
  <2>2. a + i - 1 < a + j - 1
    BY <1>4, <2>1
  <2> QED
    BY <1>1, <1>5, <2>2
<1>8. ToSet(u) = {s[i] : i \in a .. b}
  <2>1. ToSet(u) = {u[i] : i \in 1 .. n}
    BY <1>4 DEF ToSet
  <2>2. ASSUME NEW e \in ToSet(u) PROVE e \in {s[i] : i \in a .. b}
    BY <1>5, <2>1
  <2>3. ASSUME NEW e \in {s[i] : i \in a .. b} PROVE e \in ToSet(u)
    <3>1. PICK i \in a .. b : e = s[i]
      OBVIOUS
    <3>2. i - a + 1 \in 1 .. n /\ u[i - a + 1] = s[i]
      BY <1>5, <1>6
    <3> QED
      BY <2>1, <3>1, <3>2
  <2> QED
    BY <2>2, <2>3
<1> QED
  BY <1>3, <1>7, <1>8 DEF u, n, Row

LEMMA RowConcat ==
  ASSUME NEW s, Row(s), NEW u, Row(u), \A e \in ToSet(s), f \in ToSet(u) : e.key < f.key
  PROVE  Row(s \o u) /\ ToSet(s \o u) = ToSet(s) \cup ToSet(u) /\ Len(s \o u) = Len(s) + Len(u)
<1> DEFINE w == s \o u
<1>1. /\ Len(s) \in Nat /\ ToSet(s) = {s[i] : i \in 1 .. Len(s)}
      /\ \A i, j \in 1 .. Len(s) : i < j => s[i].key < s[j].key
  BY RowType
<1>2. /\ Len(u) \in Nat /\ ToSet(u) = {u[i] : i \in 1 .. Len(u)}
      /\ \A i, j \in 1 .. Len(u) : i < j => u[i].key < u[j].key
  BY RowType
<1>3. /\ w \in Seq(Elem) /\ Len(w) = Len(s) + Len(u)
      /\ \A i \in 1 .. Len(s) + Len(u) : w[i] = IF i <= Len(s) THEN s[i] ELSE u[i - Len(s)]
  BY ConcatProperties DEF Row
<1>4. DOMAIN w = 1 .. Len(s) + Len(u)
  BY <1>3, LenProperties
<1> HIDE DEF w
<1>5. \A i \in 1 .. Len(s) : i \in DOMAIN w /\ w[i] = s[i]
  BY <1>1, <1>2, <1>3, <1>4
<1>6. \A i \in 1 .. Len(u) : Len(s) + i \in DOMAIN w /\ w[Len(s) + i] = u[i]
  <2>1. \A i \in 1 .. Len(u) : /\ Len(s) + i \in 1 .. Len(s) + Len(u) /\ ~(Len(s) + i <= Len(s))
                              /\ Len(s) + i - Len(s) = i
    BY <1>1, <1>2
  <2> QED
    BY <1>3, <1>4, <2>1
<1>7. \A i \in DOMAIN w : i \in 1 .. Len(s) \/ (i - Len(s) \in 1 .. Len(u) /\ i = Len(s) + (i - Len(s)))
  BY <1>1, <1>2, <1>4
<1>8. ToSet(w) = ToSet(s) \cup ToSet(u)
  <2>1. ToSet(w) = {w[i] : i \in DOMAIN w}
    BY DEF ToSet
  <2>2. ASSUME NEW e \in ToSet(w) PROVE e \in ToSet(s) \cup ToSet(u)
    <3>1. PICK i \in DOMAIN w : e = w[i]
      BY <2>1
    <3>2. CASE i \in 1 .. Len(s)
      BY <1>1, <1>5, <3>1, <3>2
    <3>3. CASE i - Len(s) \in 1 .. Len(u) /\ i = Len(s) + (i - Len(s))
      <4>1. w[Len(s) + (i - Len(s))] = u[i - Len(s)]
        BY <1>6, <3>3
      <4> QED
        BY <1>2, <3>1, <3>3, <4>1
    <3> QED
      BY <1>7, <3>2, <3>3
  <2>3. \A e \in ToSet(s) : e \in ToSet(w)
    BY <1>1, <1>5, <2>1
  <2>4. \A e \in ToSet(u) : e \in ToSet(w)
    BY <1>2, <1>6, <2>1
  <2> QED
    BY <2>2, <2>3, <2>4
<1>9. ASSUME NEW i \in DOMAIN w, NEW j \in DOMAIN w, i < j PROVE w[i].key < w[j].key
  <2>1. CASE j \in 1 .. Len(s)
    <3>1. i \in 1 .. Len(s)
      BY <1>4, <1>9, <2>1, <1>1
    <3> QED
      BY <1>1, <1>5, <1>9, <2>1, <3>1
  <2>2. CASE i \notin 1 .. Len(s)
    <3>1. j \notin 1 .. Len(s)
      BY <1>4, <1>9, <2>2, <1>1, <1>2
    <3> DEFINE x == i - Len(s)
               y == j - Len(s)
    <3>2. x \in 1 .. Len(u) /\ y \in 1 .. Len(u) /\ i = Len(s) + x /\ j = Len(s) + y
      BY <1>7, <2>2, <3>1
    <3>3. x < y
      BY <1>4, <1>1, <1>2, <1>9
    <3> HIDE DEF x, y
    <3>4. w[i] = u[x] /\ w[j] = u[y]
      BY <1>6, <3>2
    <3> QED
      BY <1>2, <3>2, <3>3, <3>4
  <2>3. CASE i \in 1 .. Len(s) /\ j \notin 1 .. Len(s)
    <3> DEFINE y == j - Len(s)
    <3>1. y \in 1 .. Len(u) /\ j = Len(s) + y
      BY <1>7, <2>3
    <3> HIDE DEF y
    <3>2. w[i] = s[i] /\ w[j] = u[y]
      BY <1>5, <1>6, <2>3, <3>1
    <3> QED
      BY <1>1, <1>2, <2>3, <3>1, <3>2
  <2> QED
    BY <2>1, <2>2, <2>3
<1> QED
  BY <1>3, <1>8, <1>9 DEF w, Row

LEMMA RowOne ==
  ASSUME NEW e \in Elem
  PROVE  Row(<<e>>) /\ ToSet(<<e>>) = {e} /\ Len(<<e>>) = 1
BY DEF Row, ToSet

LEMMA RowNone == Row(<<>>) /\ ToSet(<<>>) = {}
BY DEF Row, ToSet

\* parent.del
LEMMA RowDel ==
  ASSUME NEW s, Row(s), NEW k \in Nat
  PROVE  Row(DelElement(s, k)) /\ ToSet(DelElement(s, k)) = {e \in ToSet(s) : e.key # k}
<1> DEFINE m == Index(s, k)
<1>1. /\ Len(s) \in Nat /\ ToSet(s) = {s[i] : i \in 1 .. Len(s)}
      /\ \A i \in 1 .. Len(s) : s[i].key \in Nat
      /\ \A i, j \in 1 .. Len(s) : i < j => s[i].key < s[j].key
  BY RowType
<1>2. CASE ~Has(s, k)
  <2>1. \A e \in ToSet(s) : e.key # k
    BY <1>2, HasKey
  <2> QED
    BY <1>2, <2>1 DEF DelElement
<1>3. CASE Has(s, k)
  <2>1. m \in 1 .. Len(s) /\ s[m].key = k
    BY <1>3, HasKey
  <2>2. DelElement(s, k) = SubSeq(s, 1, m - 1) \o SubSeq(s, m + 1, Len(s))
    BY <1>3 DEF DelElement, RemoveAt
  <2> HIDE DEF m
  <2> DEFINE a == SubSeq(s, 1, m - 1)
             b == SubSeq(s, m + 1, Len(s))
             Sub(x, y) == /\ Row(SubSeq(s, x, y))
                          /\ ToSet(SubSeq(s, x, y)) = {s[i] : i \in x .. y}
  <2>3. \A x \in Nat \ {0}, y \in Nat : y <= Len(s) => Sub(x, y)
    BY RowSub
  <2>4. Row(a) /\ ToSet(a) = {s[i] : i \in 1 .. m - 1}
    <3>1. 1 \in Nat \ {0} /\ m - 1 \in Nat /\ m - 1 <= Len(s)
      BY <1>1, <2>1
    <3> HIDE DEF Sub
    <3>2. Sub(1, m - 1)
      BY <2>3, <3>1
    <3> QED
      BY <3>2 DEF Sub
  <2>5. Row(b) /\ ToSet(b) = {s[i] : i \in m + 1 .. Len(s)}
    <3>1. m + 1 \in Nat \ {0} /\ Len(s) \in Nat /\ Len(s) <= Len(s)
      BY <1>1, <2>1
    <3> HIDE DEF Sub
    <3>2. Sub(m + 1, Len(s))
      BY <2>3, <3>1
    <3> QED
      BY <3>2 DEF Sub
  <2>6. DelElement(s, k) = a \o b
    BY <2>2
  <2> HIDE DEF a, b
  <2>7. \A i \in 1 .. m - 1, j \in m + 1 .. Len(s) : i \in 1 .. Len(s) /\ j \in 1 .. Len(s) /\ i < j
    BY <1>1, <2>1
  <2>8. \A e \in ToSet(a), f \in ToSet(b) : e.key < f.key
    BY <1>1, <2>4, <2>5, <2>7
  <2>9. Row(a \o b) /\ ToSet(a \o b) = ToSet(a) \cup ToSet(b)
    BY <2>4, <2>5, <2>8, RowConcat
  <2>10. ToSet(a) \cup ToSet(b) = {e \in ToSet(s) : e.key # k}
    <3>1. \A i \in 1 .. Len(s) : i \in 1 .. m - 1 \/ i = m \/ i \in m + 1 .. Len(s)
      BY <1>1, <2>1
    <3>2. \A i \in 1 .. m - 1 : i \in 1 .. Len(s) /\ i < m
      BY <1>1, <2>1
    <3>3. \A i \in m + 1 .. Len(s) : i \in 1 .. Len(s) /\ m < i
      BY <1>1, <2>1
    <3>4. ASSUME NEW e \in ToSet(a) PROVE e \in ToSet(s) /\ e.key # k
      <4>1. PICK i \in 1 .. m - 1 : e = s[i]
        BY <2>4
      <4>2. i \in 1 .. Len(s) /\ s[i].key < s[m].key /\ s[i].key \in Nat /\ s[m].key \in Nat
        BY <1>1, <2>1, <3>2
      <4> QED
        BY <1>1, <2>1, <4>1, <4>2
    <3>5. ASSUME NEW e \in ToSet(b) PROVE e \in ToSet(s) /\ e.key # k
      <4>1. PICK i \in m + 1 .. Len(s) : e = s[i]
        BY <2>5
      <4>2. i \in 1 .. Len(s) /\ s[m].key < s[i].key /\ s[i].key \in Nat /\ s[m].key \in Nat
        BY <1>1, <2>1, <3>3
      <4> QED
        BY <1>1, <2>1, <4>1, <4>2
    <3>6. ASSUME NEW e \in ToSet(s), e.key # k PROVE e \in ToSet(a) \cup ToSet(b)
      <4>1. PICK i \in 1 .. Len(s) : e = s[i]
        BY <1>1
      <4>2. i # m
        BY <2>1, <3>6, <4>1
      <4> QED
        BY <2>4, <2>5, <3>1, <4>1, <4>2
    <3> QED
      BY <3>4, <3>5, <3>6
  <2> QED
    BY <2>6, <2>9, <2>10
<1> QED
  BY <1>2, <1>3

\* node.put: the element of key old is replaced, or one is added where old belongs.
LEMMA RowPut ==
  ASSUME NEW s, Row(s), NEW old \in Nat, NEW e \in Elem,
         \A f \in ToSet(s) : /\ f.key < old => f.key < e.key
                             /\ old < f.key => e.key < f.key
  PROVE  /\ Row(PutElement(s, old, e))
         /\ ToSet(PutElement(s, old, e)) = {f \in ToSet(s) : f.key # old} \cup {e}
<1> DEFINE m == Index(s, old)
           a == SubSeq(s, 1, m - 1)
           n == IF Has(s, old) THEN m + 1 ELSE m
           b == SubSeq(s, n, Len(s))
           u == PutElement(s, old, e)
<1>1. /\ Len(s) \in Nat /\ ToSet(s) = {s[i] : i \in 1 .. Len(s)} /\ s \in Seq(Elem)
      /\ \A i \in 1 .. Len(s) : s[i].key \in Nat
      /\ \A i, j \in 1 .. Len(s) : i < j => s[i].key < s[j].key
  BY RowType DEF Row
<1>2. /\ m \in 1 .. Len(s) + 1
      /\ \A i \in 1 .. Len(s) : i < m <=> s[i].key < old
  BY IndexOf
<1>3. /\ Has(s, old) => m \in 1 .. Len(s) /\ s[m].key = old
      /\ ~Has(s, old) => \A i \in 1 .. Len(s) : s[i].key # old
  BY HasKey
<1>4. u = (a \o <<e>>) \o b
  <2>1. CASE Has(s, old)
    <3>1. u = [s EXCEPT ![m] = e]
      BY <2>1 DEF PutElement
    <3>2. m \in 1 .. Len(s)
      BY <1>3, <2>1
    <3> DEFINE w == [s EXCEPT ![m] = e]
    <3> HIDE DEF m
    <3>3. /\ w \in Seq(Elem) /\ Len(w) = Len(s)
          /\ \A j \in 1 .. Len(s) : w[j] = IF j = m THEN e ELSE s[j]
      BY <1>1, <3>2, ExceptSeq
    <3>4. a \in Seq(Elem) /\ Len(a) = m - 1 /\ \A i \in 1 .. m - 1 : a[i] = s[i]
      <4>1. \A i \in 1 .. m - 1 : s[i] \in Elem /\ 1 + i - 1 = i
        BY <1>1, <3>2
      <4>2. /\ a \in Seq(Elem) /\ Len(a) = IF 1 <= m - 1 THEN m - 1 - 1 + 1 ELSE 0
            /\ \A i \in 1 .. m - 1 - 1 + 1 : a[i] = s[1 + i - 1]
        BY <3>2, <4>1, SubSeqProperties
      <4> QED
        BY <1>1, <3>2, <4>1, <4>2
    <3>5. b \in Seq(Elem) /\ Len(b) = Len(s) - m /\ \A i \in 1 .. Len(s) - m : b[i] = s[m + i]
      <4>1. b = SubSeq(s, m + 1, Len(s)) /\ \A i \in m + 1 .. Len(s) : s[i] \in Elem
        BY <1>1, <2>1, <3>2
      <4>2. /\ b \in Seq(Elem) /\ Len(b) = IF m + 1 <= Len(s) THEN Len(s) - (m + 1) + 1 ELSE 0
            /\ \A i \in 1 .. Len(s) - (m + 1) + 1 : b[i] = s[(m + 1) + i - 1]
        BY <1>1, <3>2, <4>1, SubSeqProperties
      <4>3. \A i \in 1 .. Len(s) - m : i \in 1 .. Len(s) - (m + 1) + 1 /\ (m + 1) + i - 1 = m + i
        BY <1>1, <3>2
      <4>4. Len(b) = Len(s) - m
        BY <1>1, <3>2, <4>2
      <4> QED
        BY <4>2, <4>3, <4>4
    <3> HIDE DEF a, b, w, n
    <3> DEFINE c == a \o <<e>>
    <3>6. <<e>> \in Seq(Elem) /\ Len(<<e>>) = 1 /\ <<e>>[1] = e
      OBVIOUS
    <3>7. /\ c \in Seq(Elem) /\ Len(c) = m
          /\ \A i \in 1 .. m : c[i] = IF i <= m - 1 THEN a[i] ELSE e
      <4> DEFINE one == <<e>>
      <4>1. one \in Seq(Elem) /\ Len(one) = 1 /\ one[1] = e
        OBVIOUS
      <4> HIDE DEF one
      <4>2. /\ a \o one \in Seq(Elem) /\ Len(a \o one) = Len(a) + Len(one)
            /\ \A i \in 1 .. Len(a) + Len(one) : (a \o one)[i] = IF i <= Len(a) THEN a[i] ELSE one[i - Len(a)]
        BY <3>4, <4>1, ConcatProperties
      <4>3. \A i \in 1 .. m : (a \o one)[i] = IF i <= m - 1 THEN a[i] ELSE e
        BY <3>2, <3>4, <4>1, <4>2, <1>1
      <4>4. Len(a \o one) = m
        BY <1>1, <3>2, <3>4, <4>1, <4>2
      <4> QED
        BY <4>2, <4>3, <4>4 DEF one
    <3> HIDE DEF c
    <3>8. /\ c \o b \in Seq(Elem) /\ Len(c \o b) = Len(s)
          /\ \A i \in 1 .. Len(s) : (c \o b)[i] = IF i <= m THEN c[i] ELSE b[i - m]
      <4>1. /\ c \o b \in Seq(Elem) /\ Len(c \o b) = Len(c) + Len(b)
            /\ \A i \in 1 .. Len(c) + Len(b) : (c \o b)[i] = IF i <= Len(c) THEN c[i] ELSE b[i - Len(c)]
        BY <3>5, <3>7, ConcatProperties
      <4>2. Len(c) + Len(b) = Len(s)
        BY <1>1, <3>2, <3>5, <3>7
      <4> QED
        BY <3>7, <4>1, <4>2
    <3>9. ASSUME NEW i \in 1 .. Len(s) PROVE w[i] = (c \o b)[i]
      <4>1. CASE i < m
        BY <1>1, <3>2, <3>3, <3>4, <3>7, <3>8, <4>1
      <4>2. CASE i = m
        BY <1>1, <3>2, <3>3, <3>7, <3>8, <4>2
      <4>3. CASE i > m
        <5>1. i - m \in 1 .. Len(s) - m /\ m + (i - m) = i
          BY <1>1, <3>2, <4>3
        <5>2. (c \o b)[i] = b[i - m] /\ b[i - m] = s[m + (i - m)]
          BY <1>1, <3>2, <3>5, <3>8, <4>3, <5>1
        <5> QED
          BY <3>2, <3>3, <4>3, <5>1, <5>2
      <4>4. i < m \/ i = m \/ i > m
        BY <1>1, <3>2
      <4> QED
        BY <4>1, <4>2, <4>3, <4>4
    <3>10. w = c \o b
      BY <3>3, <3>8, <3>9, SeqEqual
    <3> QED
      BY <3>1, <3>10 DEF w, c, m
  <2>2. CASE ~Has(s, old)
    BY <2>2 DEF PutElement, InsertAt
  <2> QED
    BY <2>1, <2>2
<1>5. Row(a) /\ ToSet(a) = {s[i] : i \in 1 .. m - 1}
  <2>1. 1 \in Nat \ {0} /\ m - 1 \in Nat /\ m - 1 <= Len(s)
    BY <1>1, <1>2
  <2> QED
    BY <2>1, RowSub
<1>6. Row(b) /\ ToSet(b) = {s[i] : i \in n .. Len(s)}
  <2>1. n \in Nat \ {0} /\ Len(s) \in Nat /\ Len(s) <= Len(s)
    BY <1>1, <1>2
  <2> QED
    BY <2>1, RowSub
<1>7. Row(<<e>>) /\ ToSet(<<e>>) = {e} /\ e.key \in Nat
  BY RowOne DEF Elem, Key
<1>8. \A i \in 1 .. Len(s) : i \in 1 .. m - 1 \/ s[i].key = old \/ i \in n .. Len(s)
  BY <1>1, <1>2, <1>3
<1>9. \A i \in 1 .. m - 1 : i \in 1 .. Len(s) /\ s[i].key < old /\ s[i].key < e.key /\ s[i].key \in Nat
  BY <1>1, <1>2
<1>10. ASSUME NEW i \in n .. Len(s)
       PROVE  i \in 1 .. Len(s) /\ old < s[i].key /\ e.key < s[i].key /\ s[i].key \in Nat
  <2>1. i \in 1 .. Len(s) /\ ~(i < m) /\ n \in Nat /\ (Has(s, old) => m < i)
    BY <1>1, <1>2
  <2>2. s[i].key # old
    BY <1>1, <1>3, <2>1
  <2>3. old < s[i].key
    BY <1>1, <1>2, <2>1, <2>2
  <2> QED
    BY <1>1, <2>1, <2>3
<1>11. \A i \in 1 .. m - 1, j \in n .. Len(s) : s[i].key < s[j].key
  BY <1>9, <1>10, <1>7
<1> HIDE DEF a, b, n, m, u
<1>12. Row(a \o <<e>>) /\ ToSet(a \o <<e>>) = ToSet(a) \cup {e}
  <2>1. \A f \in ToSet(a), g \in ToSet(<<e>>) : f.key < g.key
    BY <1>5, <1>7, <1>9
  <2> QED
    BY <1>5, <1>7, <2>1, RowConcat
<1>13. Row(u) /\ ToSet(u) = ToSet(a) \cup {e} \cup ToSet(b)
  <2>1. \A f \in ToSet(a \o <<e>>), g \in ToSet(b) : f.key < g.key
    BY <1>5, <1>6, <1>10, <1>11, <1>12
  <2> QED
    BY <1>4, <1>6, <1>12, <2>1, RowConcat
<1>14. ToSet(a) \cup ToSet(b) = {f \in ToSet(s) : f.key # old}
  <2>1. ASSUME NEW f \in ToSet(a) \cup ToSet(b) PROVE f \in ToSet(s) /\ f.key # old
    <3>1. CASE f \in ToSet(a)
      <4>1. PICK i \in 1 .. m - 1 : f = s[i]
        BY <1>5, <3>1
      <4> QED
        BY <1>1, <1>9, <4>1
    <3>2. CASE f \in ToSet(b)
      <4>1. PICK i \in n .. Len(s) : f = s[i]
        BY <1>6, <3>2
      <4> QED
        BY <1>1, <1>10, <4>1
    <3> QED
      BY <3>1, <3>2
  <2>2. ASSUME NEW f \in ToSet(s), f.key # old PROVE f \in ToSet(a) \cup ToSet(b)
    <3>1. PICK i \in 1 .. Len(s) : f = s[i]
      BY <1>1
    <3> QED
      BY <1>5, <1>6, <1>8, <2>2, <3>1
  <2> QED
    BY <2>1, <2>2
<1> QED
  BY <1>13, <1>14 DEF u

\* The child in which k belongs: k is less than the keys after it, and not less
\* than its own unless it is the first.
LEMMA RowChild ==
  ASSUME NEW s, Row(s), s # <<>>, NEW k \in Nat
  PROVE  /\ ChildFor(s, k) \in 1 .. Len(s)
         /\ \A f \in ToSet(s) : s[ChildFor(s, k)].key < f.key => k < f.key
         /\ \A f \in ToSet(s) : f.key < s[ChildFor(s, k)].key => s[ChildFor(s, k)].key <= k
<1> DEFINE m == Index(s, k)
           c == ChildFor(s, k)
<1>1. /\ Len(s) \in Nat /\ DOMAIN s = 1 .. Len(s) /\ Len(s) # 0
      /\ ToSet(s) = {s[i] : i \in 1 .. Len(s)}
      /\ \A i \in 1 .. Len(s) : s[i].key \in Nat
      /\ \A i, j \in 1 .. Len(s) : i < j => s[i].key < s[j].key
  BY RowType, RowSize
<1>2. /\ m \in 1 .. Len(s) + 1
      /\ \A i \in 1 .. Len(s) : i < m <=> s[i].key < k
  BY IndexOf
<1>3. /\ Has(s, k) => m \in 1 .. Len(s) /\ s[m].key = k
      /\ ~Has(s, k) => \A i \in 1 .. Len(s) : s[i].key # k
  BY HasKey
<1>4. c = IF Has(s, k) \/ m = 1 THEN m ELSE m - 1
  BY DEF ChildFor
<1> HIDE DEF c, m
<1>5. c \in 1 .. Len(s)
  BY <1>1, <1>2, <1>3, <1>4
<1>6. ASSUME NEW j \in 1 .. Len(s), s[c].key < s[j].key PROVE k < s[j].key
  <2>1. c < j
    BY <1>1, <1>5, <1>6
  <2>2. CASE Has(s, k)
    BY <1>1, <1>3, <1>4, <1>6, <2>2
  <2>3. CASE ~Has(s, k)
    <3>1. ~(j < m)
      BY <1>2, <1>4, <1>5, <2>1, <2>3, <1>1
    <3> QED
      BY <1>1, <1>2, <1>3, <2>3, <3>1
  <2> QED
    BY <2>2, <2>3
<1>7. ASSUME NEW j \in 1 .. Len(s), s[j].key < s[c].key PROVE s[c].key <= k
  <2>1. j < c
    BY <1>1, <1>5, <1>7
  <2>2. CASE Has(s, k)
    BY <1>1, <1>3, <1>4, <2>2
  <2>3. CASE ~Has(s, k)
    <3>1. c < m
      BY <1>1, <1>2, <1>4, <1>5, <2>1, <2>3
    <3> QED
      BY <1>1, <1>2, <1>5, <3>1
  <2> QED
    BY <2>2, <2>3
<1> QED
  BY <1>1, <1>5, <1>6, <1>7 DEF c

-----------------------------------------------------------------------------
(***************************************************************************)
(* Changes of the tree.                                                    *)
(***************************************************************************)
\* e leads from an element of S to where k belongs.
Leads(S, e, k) == \A f \in S : /\ e.key < f.key => k < f.key
                               /\ f.key < e.key => e.key <= k

\* P is the way from the root to where k belongs.
Way(t, r, P, k) ==
  /\ P \subseteq DOMAIN t /\ r \in P
  /\ \A v \in P \ {r} : \E q \in P \cap Branches(t) : \E e \in t[q].items :
       e.val = v /\ Leads(t[q].items, e, k)

\* t becomes u by other elements in S.
OnlyItems(t, u, z) ==
  /\ DOMAIN u = DOMAIN t
  /\ \A v \in DOMAIN t : /\ u[v].leaf = t[v].leaf /\ u[v].key = t[v].key
                         /\ v # z => u[v].items = t[v].items

PutItem(t, u, z, k, e) == u[z].items = {f \in t[z].items : f.key # k} \cup {e}
Widened(t, d, d2, P, k) == \A v \in DOMAIN t : d2[v] = IF v \in P THEN d[v] \cup {k} ELSE d[v]

\* Only the element of a key leads to a child.
LEMMA TheParent ==
  ASSUME NEW t, NEW r, NEW h, NEW d, Shape(t, r, h, d),
         NEW v \in Branches(t), NEW w \in Branches(t), NEW e \in t[v].items, NEW f \in t[w].items,
         e.val = f.val
  PROVE  v = w /\ e = f
<1>1. v = w
  BY DEF Shape, OneParent
<1>2. t[e.val].key = e.key /\ t[f.val].key = f.key /\ v \in DOMAIN t
  BY DEF Shape, Children, Branches
<1> QED
  BY <1>1, <1>2 DEF Shape, Kinds

LEMMA ChildFacts ==
  ASSUME NEW t, NEW r, NEW h, NEW d, Shape(t, r, h, d)
  PROVE  /\ \A v \in Branches(t) : \A f \in t[v].items :
              /\ f.val \in DOMAIN t \ {r} /\ h[f.val] + 1 = h[v] /\ t[f.val].key = f.key
              /\ d[f.val] \subseteq d[v] /\ f.key \in d[f.val] /\ f.key \in Nat
              /\ d[f.val] \subseteq Nat /\ f.val # v
         /\ \A v \in DOMAIN t : /\ h[v] \in Nat /\ d[v] \subseteq Nat
                                /\ \A e \in t[v].items : e \in Elem /\ e.key \in d[v]
<1>1. \A v \in DOMAIN t : h[v] \in Nat /\ d[v] \subseteq Nat
  BY DEF Shape, Heights, Domains
<1>2. \A v \in DOMAIN t : \A e \in t[v].items : e \in Elem /\ e.key \in d[v]
  BY DEF Shape, Kinds, Domains
<1>3. ASSUME NEW v \in Branches(t), NEW f \in t[v].items
      PROVE  /\ f.val \in DOMAIN t \ {r} /\ h[f.val] + 1 = h[v] /\ t[f.val].key = f.key
             /\ d[f.val] \subseteq d[v] /\ f.key \in d[f.val] /\ f.key \in Nat
             /\ d[f.val] \subseteq Nat /\ f.val # v
  <2>1. f.val \in DOMAIN t \ {r} /\ h[f.val] + 1 = h[v] /\ t[f.val].key = f.key /\ d[f.val] \subseteq d[v]
    BY DEF Shape, Children
  <2>2. v \in DOMAIN t /\ h[v] \in Nat
    BY <1>1 DEF Branches
  <2>3. f.val # v
    BY <2>1, <2>2
  <2>4. f.key \in d[f.val]
    BY <2>1 DEF Shape, Domains
  <2> QED
    BY <1>1, <2>1, <2>3, <2>4
<1> QED
  BY <1>1, <1>2, <1>3

\* An element is put in the leaf at the end of its key's way.
LEMMA PutShape ==
  ASSUME NEW t, NEW r, NEW h, NEW d, Shape(t, r, h, d), Guided(t, d),
         NEW k \in Key, NEW P, Way(t, r, P, k), NEW z \in P, t[z].leaf,
         NEW e \in Elem, e.key = k,
         NEW u, OnlyItems(t, u, z), PutItem(t, u, z, k, e),
         NEW d2, Widened(t, d, d2, P, k)
  PROVE  Shape(u, r, h, d2) /\ Guided(u, d2)
<1> USE DEF PutItem, Widened
<1>1. /\ DOMAIN u = DOMAIN t /\ z \in DOMAIN t /\ r \in DOMAIN t /\ k \in Nat
      /\ \A v \in DOMAIN t : /\ u[v].leaf = t[v].leaf /\ u[v].key = t[v].key
                             /\ v # z => u[v].items = t[v].items
  BY DEF OnlyItems, Way, Key
<1>2. Branches(u) = Branches(t) /\ \A v \in Branches(t) : v \in DOMAIN t /\ u[v].items = t[v].items
  BY <1>1 DEF Branches
<1>3. Kinds(u)
  <2>1. \A v \in DOMAIN t : u[v].leaf \in BOOLEAN /\ u[v].key \in Nat
    BY <1>1 DEF Shape, Kinds
  <2>2. ASSUME NEW v \in DOMAIN t
        PROVE  u[v].items \subseteq Elem /\ \A f, g \in u[v].items : f.key = g.key => f = g
    <3>1. CASE v = z
      BY <1>1, <3>1 DEF Shape, Kinds
    <3>2. CASE v # z
      BY <1>1, <3>2 DEF Shape, Kinds
    <3> QED
      BY <3>1, <3>2
  <2> QED
    BY <1>1, <2>1, <2>2 DEF Kinds
<1>4. Heights(u, r, h)
  BY <1>1 DEF Shape, Heights
<1>5. Domains(u, r, d2)
  <2>1. SUFFICES ASSUME NEW v \in DOMAIN t
                 PROVE  /\ d2[v] \subseteq Nat /\ \A f \in u[v].items : f.key \in d2[v]
                        /\ v # r => u[v].key \in d2[v]
    BY <1>1 DEF Domains
  <2>2. /\ d[v] \subseteq Nat /\ \A f \in t[v].items : f.key \in d[v]
        /\ v # r => t[v].key \in d[v]
    BY DEF Shape, Domains
  <2>3. CASE v = z
    BY <1>1, <2>2, <2>3, Zenon
  <2>4. CASE v # z
    BY <1>1, <2>2, <2>4
  <2> QED
    BY <2>3, <2>4
<1>6. ASSUME NEW v \in Branches(t), NEW f \in t[v].items, f.val \in P
      PROVE  v \in P /\ Leads(t[v].items, f, k)
  <2>1. f.val # r
    BY DEF Shape, Children
  <2>2. PICK q \in P \cap Branches(t) :
               \E g \in t[q].items : g.val = f.val /\ Leads(t[q].items, g, k)
    BY <1>6, <2>1 DEF Way
  <2>3. PICK g \in t[q].items : g.val = f.val /\ Leads(t[q].items, g, k)
    BY <2>2
  <2>4. q = v /\ g = f
    BY <2>3, TheParent
  <2> QED
    BY <2>3, <2>4
<1>7. \A v \in Branches(t) : \A f \in t[v].items :
        /\ f.val \in DOMAIN t \ {r} /\ h[f.val] + 1 = h[v] /\ t[f.val].key = f.key
        /\ d[f.val] \subseteq d[v] /\ f.key \in d[f.val] /\ f.key \in Nat /\ d[f.val] \subseteq Nat
  BY ChildFacts
<1>8. Children(u, r, h, d2)
  <2>1. SUFFICES ASSUME NEW v \in Branches(t)
                 PROVE  /\ \A f \in t[v].items :
                             /\ f.val \in DOMAIN t \ {r} /\ h[f.val] + 1 = h[v]
                             /\ u[f.val].key = f.key /\ d2[f.val] \subseteq d2[v]
                        /\ \A f, g \in t[v].items : f.key < g.key => Apart(d2[f.val], d2[g.val])
    BY <1>1, <1>2 DEF Children
  <2>2. ASSUME NEW f \in t[v].items PROVE d2[f.val] \subseteq d2[v]
    <3>1. f.val \in DOMAIN t /\ v \in DOMAIN t /\ d[f.val] \subseteq d[v]
      BY <1>2, <1>7
    <3>2. CASE f.val \in P
      <4>1. v \in P
        BY <1>6, <3>2
      <4>2. d2[f.val] = d[f.val] \cup {k} /\ d2[v] = d[v] \cup {k}
        BY <3>1, <3>2, <4>1
      <4> QED
        BY <3>1, <4>2
    <3>3. CASE f.val \notin P
      BY <3>1, <3>3
    <3> QED
      BY <3>2, <3>3
  <2>3. ASSUME NEW f \in t[v].items, NEW g \in t[v].items, f.key < g.key
        PROVE  Apart(d2[f.val], d2[g.val])
    <3>1. Apart(d[f.val], d[g.val]) /\ \A x \in d[g.val] : g.key <= x
      BY <2>3 DEF Shape, Children, Guided
    <3>2. /\ f.val \in DOMAIN t /\ g.val \in DOMAIN t /\ f.key \in d[f.val] /\ g.key \in d[g.val]
          /\ f.key \in Nat /\ g.key \in Nat /\ d[f.val] \subseteq Nat /\ d[g.val] \subseteq Nat
      BY <1>7
    <3>3. \A x \in d[f.val] : x < g.key
      BY <3>1, <3>2 DEF Apart
    <3>4. f.val \in P => k < g.key
      BY <1>6, <2>3 DEF Leads
    <3>5. g.val \in P => g.key <= k
      BY <1>6, <2>3 DEF Leads
    <3>6. SUFFICES ASSUME NEW x \in d2[f.val], NEW y \in d2[g.val] PROVE x < y
      BY DEF Apart
    <3>7. x \in d[f.val] \/ (f.val \in P /\ x = k)
      BY <3>2, Zenon
    <3>8. y \in d[g.val] \/ (g.val \in P /\ y = k)
      BY <3>2
    <3>9. x < g.key /\ x \in Nat
      BY <1>1, <3>2, <3>3, <3>4, <3>7
    <3>10. g.key <= y /\ y \in Nat
      BY <1>1, <3>1, <3>2, <3>5, <3>8
    <3> QED
      BY <3>2, <3>9, <3>10
  <2> QED
    BY <1>1, <1>7, <2>2, <2>3
<1>9. OneParent(u)
  BY <1>2 DEF Shape, OneParent
<1>10. AllHaveParents(u, r)
  BY <1>1, <1>2 DEF Shape, AllHaveParents
<1>11. Guided(u, d2)
  <2>1. SUFFICES ASSUME NEW v \in Branches(t), NEW f \in t[v].items, NEW g \in t[v].items,
                        f.key < g.key, NEW x \in d2[g.val]
                 PROVE  g.key <= x
    BY <1>2 DEF Guided
  <2>2. g.val \in DOMAIN t /\ \A y \in d[g.val] : g.key <= y
    BY <1>7, <2>1 DEF Guided
  <2>3. g.val \in P => g.key <= k
    BY <1>6, <2>1 DEF Leads
  <2> QED
    BY <2>2, <2>3, Zenon
<1> QED
  BY <1>1, <1>3, <1>4, <1>5, <1>8, <1>9, <1>10, <1>11 DEF Shape

\* Elements are taken from a leaf.
LEMMA LeafShape ==
  ASSUME NEW t, NEW r, NEW h, NEW d, Shape(t, r, h, d),
         NEW z \in DOMAIN t, t[z].leaf,
         NEW u, OnlyItems(t, u, z), u[z].items \subseteq t[z].items
  PROVE  Shape(u, r, h, d) /\ (Guided(t, d) => Guided(u, d))
<1>1. /\ DOMAIN u = DOMAIN t
      /\ \A v \in DOMAIN t : /\ u[v].leaf = t[v].leaf /\ u[v].key = t[v].key
                             /\ u[v].items \subseteq t[v].items
                             /\ v # z => u[v].items = t[v].items
  BY DEF OnlyItems
<1>2. Branches(u) = Branches(t) /\ \A v \in Branches(t) : v \in DOMAIN t /\ u[v].items = t[v].items
  BY <1>1 DEF Branches
<1>3. Kinds(u)
  <2>1. SUFFICES ASSUME NEW v \in DOMAIN t
                 PROVE  /\ u[v].leaf \in BOOLEAN /\ u[v].key \in Nat /\ u[v].items \subseteq Elem
                        /\ \A e, f \in u[v].items : e.key = f.key => e = f
    BY <1>1 DEF Kinds
  <2>2. /\ t[v].leaf \in BOOLEAN /\ t[v].key \in Nat /\ t[v].items \subseteq Elem
        /\ \A e, f \in t[v].items : e.key = f.key => e = f
    BY DEF Shape, Kinds
  <2>3. u[v].leaf = t[v].leaf /\ u[v].key = t[v].key /\ u[v].items \subseteq t[v].items
    BY <1>1
  <2> QED
    BY <2>2, <2>3
<1>4. Heights(u, r, h)
  BY <1>1 DEF Shape, Heights
<1>5. Domains(u, r, d)
  BY <1>1 DEF Shape, Domains
<1>6. Children(u, r, h, d)
  <2>1. SUFFICES ASSUME NEW v \in Branches(t)
                 PROVE  /\ \A f \in t[v].items :
                             /\ f.val \in DOMAIN t \ {r} /\ h[f.val] + 1 = h[v]
                             /\ u[f.val].key = f.key /\ d[f.val] \subseteq d[v]
                        /\ \A f, g \in t[v].items : f.key < g.key => Apart(d[f.val], d[g.val])
    BY <1>1, <1>2 DEF Children
  <2> QED
    BY <1>1, ChildFacts DEF Shape, Children
<1>7. OneParent(u)
  BY <1>2 DEF Shape, OneParent
<1>8. AllHaveParents(u, r)
  BY <1>1, <1>2 DEF Shape, AllHaveParents
<1>9. Guided(t, d) => Guided(u, d)
  BY <1>2 DEF Guided
<1> QED
  BY <1>1, <1>3, <1>4, <1>5, <1>6, <1>7, <1>8, <1>9 DEF Shape

\* t without n, and without the element that led to n; l may get other elements.
Without(t, u, n, l) ==
  /\ DOMAIN u = DOMAIN t \ {n}
  /\ \A v \in DOMAIN u :
       /\ u[v].leaf = t[v].leaf /\ u[v].key = t[v].key
       /\ v # l => u[v].items = IF t[v].leaf THEN t[v].items ELSE {e \in t[v].items : e.val # n}

\* A leaf is dropped.
LEMMA DropShape ==
  ASSUME NEW t, NEW r, NEW h, NEW d, Shape(t, r, h, d),
         NEW n \in DOMAIN t, n # r, t[n].leaf, NEW u, Without(t, u, n, n)
  PROVE  Shape(u, r, h, d)
<1>1. /\ DOMAIN u = DOMAIN t \ {n} /\ r \in DOMAIN u
      /\ \A v \in DOMAIN u : /\ u[v].leaf = t[v].leaf /\ u[v].key = t[v].key
                             /\ u[v].items \subseteq t[v].items
  BY DEF Without, Shape
<1>2. /\ Branches(u) = Branches(t)
      /\ \A v \in Branches(t) : v \in DOMAIN u /\ u[v].items = {e \in t[v].items : e.val # n}
  BY <1>1 DEF Without, Branches
<1>3. Kinds(u)
  <2>1. SUFFICES ASSUME NEW v \in DOMAIN u
                 PROVE  /\ u[v].leaf \in BOOLEAN /\ u[v].key \in Nat /\ u[v].items \subseteq Elem
                        /\ \A e, f \in u[v].items : e.key = f.key => e = f
    BY DEF Kinds
  <2>2. /\ t[v].leaf \in BOOLEAN /\ t[v].key \in Nat /\ t[v].items \subseteq Elem
        /\ \A e, f \in t[v].items : e.key = f.key => e = f
    BY <1>1 DEF Shape, Kinds
  <2>3. u[v].leaf = t[v].leaf /\ u[v].key = t[v].key /\ u[v].items \subseteq t[v].items
    BY <1>1
  <2> QED
    BY <2>2, <2>3
<1>4. Heights(u, r, h)
  BY <1>1 DEF Shape, Heights
<1>5. Domains(u, r, d)
  BY <1>1 DEF Shape, Domains
<1>6. Children(u, r, h, d)
  <2>1. SUFFICES ASSUME NEW v \in Branches(t)
                 PROVE  /\ \A f \in u[v].items :
                             /\ f.val \in DOMAIN u \ {r} /\ h[f.val] + 1 = h[v]
                             /\ u[f.val].key = f.key /\ d[f.val] \subseteq d[v]
                        /\ \A f, g \in u[v].items : f.key < g.key => Apart(d[f.val], d[g.val])
    BY <1>2 DEF Children
  <2>2. \A f \in u[v].items : f \in t[v].items /\ f.val # n
    BY <1>2
  <2>3. \A f, g \in t[v].items : f.key < g.key => Apart(d[f.val], d[g.val])
    BY DEF Shape, Children
  <2> QED
    BY <1>1, <2>2, <2>3, ChildFacts
<1>7. OneParent(u)
  BY <1>2 DEF Shape, OneParent
<1>8. AllHaveParents(u, r)
  BY <1>1, <1>2 DEF Shape, AllHaveParents
<1> QED
  BY <1>1, <1>3, <1>4, <1>5, <1>6, <1>7, <1>8 DEF Shape

Neighbours(S, a, b) == \A f \in S : f.key <= a.key \/ b.key <= f.key
Joined(t, u, left, right) == u[left].items = t[left].items \cup t[right].items
DomainsJoined(t, d, d2, left, right) ==
  \A v \in DOMAIN t : d2[v] = IF v = left THEN d[left] \cup d[right] ELSE d[v]

\* Two neighbours under p are merged: the right one's elements go to the left one.
LEMMA MergeShape ==
  ASSUME NEW t, NEW r, NEW h, NEW d, Shape(t, r, h, d),
         NEW p \in Branches(t), NEW a \in t[p].items, NEW b \in t[p].items, a.key < b.key,
         Neighbours(t[p].items, a, b), NEW left, NEW right, left = a.val, right = b.val,
         NEW u, Without(t, u, right, left), Joined(t, u, left, right),
         NEW d2, DomainsJoined(t, d, d2, left, right)
  PROVE  Shape(u, r, h, d2)
<1> USE DEF Neighbours, Joined, DomainsJoined
<1>1. /\ left \in DOMAIN t /\ right \in DOMAIN t /\ left # r /\ right # r /\ p # left /\ p # right
      /\ h[left] + 1 = h[p] /\ h[right] + 1 = h[p] /\ p \in DOMAIN t /\ r \in DOMAIN t
      /\ d[left] \subseteq d[p] /\ d[right] \subseteq d[p]
      /\ h[left] \in Nat /\ h[right] \in Nat /\ h[p] \in Nat
  BY ChildFacts DEF Branches, Shape
<1>2. /\ Apart(d[left], d[right]) /\ left # right
  <2>1. Apart(d[left], d[right])
    BY DEF Shape, Children
  <2>2. a.key \in d[left] /\ a.key \in Nat
    BY ChildFacts
  <2> QED
    BY <2>1, <2>2 DEF Apart
<1>3. /\ DOMAIN u = DOMAIN t \ {right} /\ r \in DOMAIN u /\ left \in DOMAIN u
      /\ \A v \in DOMAIN u : /\ u[v].leaf = t[v].leaf /\ u[v].key = t[v].key
                             /\ v # left => u[v].items \subseteq t[v].items
  BY <1>1, <1>2 DEF Without
<1>4. t[left].leaf <=> t[right].leaf
  <2>1. h[left] = h[right]
    BY <1>1
  <2>2. (t[left].leaf <=> h[left] = 0) /\ (t[right].leaf <=> h[right] = 0)
    BY <1>1 DEF Shape, Heights
  <2> QED
    BY <2>1, <2>2
<1>5. /\ Branches(u) = Branches(t) \ {right}
      /\ \A v \in Branches(u) : v # left => u[v].items = {e \in t[v].items : e.val # right}
  <2>1. \A v : v \in Branches(u) <=> v \in Branches(t) /\ v # right
    BY <1>3 DEF Branches
  <2>2. \A v \in Branches(u) : v \in DOMAIN u /\ ~t[v].leaf
    BY <1>3 DEF Branches
  <2> QED
    BY <2>1, <2>2 DEF Without
<1>6. /\ \A e \in t[left].items : e.key \in d[left] /\ e \in Elem /\ e.key \in Nat
      /\ \A e \in t[right].items : e.key \in d[right] /\ e \in Elem /\ e.key \in Nat
      /\ \A e \in t[left].items, f \in t[right].items : e.key < f.key
      /\ d[left] \subseteq Nat /\ d[right] \subseteq Nat
  <2>1. /\ \A e \in t[left].items : e.key \in d[left] /\ e \in Elem
        /\ \A e \in t[right].items : e.key \in d[right] /\ e \in Elem
        /\ d[left] \subseteq Nat /\ d[right] \subseteq Nat
    BY <1>1, ChildFacts
  <2> QED
    BY <1>2, <2>1 DEF Apart
\* Whose child an element's node was.
<1>7. \A v \in Branches(u) : \A e \in u[v].items :
        \E w \in Branches(t) : e \in t[w].items /\ v = (IF w = right THEN left ELSE w)
  <2>1. SUFFICES ASSUME NEW v \in Branches(u), NEW e \in u[v].items
                 PROVE  \E w \in Branches(t) : e \in t[w].items /\ v = (IF w = right THEN left ELSE w)
    OBVIOUS
  <2>2. CASE v # left
    BY <1>5, <2>2
  <2>3. CASE v = left /\ e \in t[left].items
    BY <1>2, <1>5, <2>3
  <2>4. CASE v = left /\ e \in t[right].items
    <3>1. right \in Branches(t)
      BY <1>1, <1>3, <1>4, <2>4 DEF Branches
    <3> QED
      BY <2>4, <3>1
  <2> QED
    BY <2>2, <2>3, <2>4
<1>8. Kinds(u)
  <2>1. SUFFICES ASSUME NEW v \in DOMAIN u
                 PROVE  /\ u[v].leaf \in BOOLEAN /\ u[v].key \in Nat /\ u[v].items \subseteq Elem
                        /\ \A e, f \in u[v].items : e.key = f.key => e = f
    BY DEF Kinds
  <2>2. \A w \in DOMAIN t : /\ t[w].leaf \in BOOLEAN /\ t[w].key \in Nat /\ t[w].items \subseteq Elem
                            /\ \A e, f \in t[w].items : e.key = f.key => e = f
    BY DEF Shape, Kinds
  <2>3. u[v].leaf = t[v].leaf /\ u[v].key = t[v].key /\ v \in DOMAIN t
    BY <1>3
  <2>4. CASE v # left
    BY <1>3, <2>2, <2>3, <2>4
  <2>5. CASE v = left
    <3>1. u[v].items \subseteq Elem
      BY <1>6, <2>5
    <3>2. ASSUME NEW e \in u[v].items, NEW f \in u[v].items, e.key = f.key PROVE e = f
      <4>1. (e \in t[left].items \/ e \in t[right].items) /\ (f \in t[left].items \/ f \in t[right].items)
        BY <2>5
      <4>2. CASE e \in t[left].items /\ f \in t[left].items
        BY <1>1, <2>2, <3>2, <4>2
      <4>3. CASE e \in t[right].items /\ f \in t[right].items
        BY <1>1, <2>2, <3>2, <4>3
      <4>4. CASE e \in t[left].items /\ f \in t[right].items
        BY <1>6, <3>2, <4>4
      <4>5. CASE e \in t[right].items /\ f \in t[left].items
        BY <1>6, <3>2, <4>5
      <4> QED
        BY <4>1, <4>2, <4>3, <4>4, <4>5
    <3> QED
      BY <2>2, <2>3, <3>1, <3>2
  <2> QED
    BY <2>4, <2>5
<1>9. Heights(u, r, h)
  BY <1>3 DEF Shape, Heights
<1>10. Domains(u, r, d2)
  <2>1. SUFFICES ASSUME NEW v \in DOMAIN u
                 PROVE  /\ d2[v] \subseteq Nat /\ \A f \in u[v].items : f.key \in d2[v]
                        /\ v # r => u[v].key \in d2[v]
    BY DEF Domains
  <2>2. /\ d[v] \subseteq Nat /\ \A f \in t[v].items : f.key \in d[v]
        /\ v # r => t[v].key \in d[v]
    BY <1>3 DEF Shape, Domains
  <2>3. CASE v = left
    BY <1>1, <1>3, <1>6, <2>2, <2>3
  <2>4. CASE v # left
    BY <1>3, <2>2, <2>4
  <2> QED
    BY <2>3, <2>4
<1>11. \A v \in Branches(u) : \A e \in u[v].items :
         /\ e.val \in DOMAIN u \ {r} /\ h[e.val] + 1 = h[v] /\ t[e.val].key = e.key
         /\ d2[e.val] \subseteq d2[v]
  <2>1. SUFFICES ASSUME NEW v \in Branches(u), NEW e \in u[v].items
                 PROVE  /\ e.val \in DOMAIN u \ {r} /\ h[e.val] + 1 = h[v] /\ t[e.val].key = e.key
                        /\ d2[e.val] \subseteq d2[v]
    OBVIOUS
  <2>2. PICK w \in Branches(t) : e \in t[w].items /\ v = (IF w = right THEN left ELSE w)
    BY <1>7
  <2>3. /\ e.val \in DOMAIN t \ {r} /\ h[e.val] + 1 = h[w] /\ t[e.val].key = e.key
        /\ d[e.val] \subseteq d[w] /\ h[e.val] \in Nat /\ w \in DOMAIN t
    BY <2>2, ChildFacts DEF Branches
  <2>4. h[w] = h[v]
    BY <1>1, <2>2
  <2>5. e.val # right
    <3>1. CASE v # left
      BY <1>5, <3>1
    <3>2. CASE v = left
      BY <1>1, <2>3, <2>4, <3>2
    <3> QED
      BY <3>1, <3>2
  <2>6. d2[e.val] \subseteq d2[v]
    <3>1. CASE e.val = left
      <4>1. w = p
        BY <2>2, <3>1, TheParent
      <4>2. v = p /\ d2[v] = d[p]
        BY <1>1, <2>2, <4>1
      <4> QED
        BY <1>1, <3>1, <4>2
    <3>2. CASE e.val # left
      <4>1. d2[e.val] = d[e.val]
        BY <2>3, <3>2
      <4>2. CASE v = left
        <5>1. d2[v] = d[left] \cup d[right] /\ (w = left \/ w = right)
          BY <1>1, <2>2, <4>2
        <5> QED
          BY <2>3, <4>1, <5>1
      <4>3. CASE v # left
        <5>1. w = v /\ d2[v] = d[v]
          BY <1>3, <2>2, <2>3, <4>3
        <5> QED
          BY <2>3, <4>1, <5>1
      <4> QED
        BY <4>2, <4>3
    <3> QED
      BY <3>1, <3>2
  <2> QED
    BY <1>3, <2>3, <2>4, <2>5, <2>6
<1>12. ASSUME NEW v \in Branches(u), NEW e \in u[v].items, NEW f \in u[v].items, e.key < f.key
       PROVE  Apart(d2[e.val], d2[f.val])
  <2>1. \A w \in Branches(t) : \A x, y \in t[w].items : x.key < y.key => Apart(d[x.val], d[y.val])
    BY DEF Shape, Children
  <2>2. CASE v = left
    <3>1. e.val # left /\ f.val # left /\ e.val \in DOMAIN t /\ f.val \in DOMAIN t
      BY <1>1, <1>3, <1>11, <2>2
    <3>2. d2[e.val] = d[e.val] /\ d2[f.val] = d[f.val]
      BY <3>1
    <3>3. left \in Branches(t) /\ right \in Branches(t)
      BY <1>1, <1>3, <1>4, <2>2 DEF Branches
    <3>4. (e \in t[left].items \/ e \in t[right].items) /\ (f \in t[left].items \/ f \in t[right].items)
      BY <2>2
    <3>5. CASE e \in t[left].items /\ f \in t[left].items
      BY <1>12, <2>1, <3>2, <3>3, <3>5
    <3>6. CASE e \in t[right].items /\ f \in t[right].items
      BY <1>12, <2>1, <3>2, <3>3, <3>6
    <3>7. CASE e \in t[left].items /\ f \in t[right].items
      <4>1. d[e.val] \subseteq d[left] /\ d[f.val] \subseteq d[right]
        BY <3>3, <3>7, ChildFacts
      <4> QED
        BY <1>2, <3>2, <4>1 DEF Apart
    <3>8. CASE e \in t[right].items /\ f \in t[left].items
      BY <1>6, <1>12, <3>8
    <3> QED
      BY <3>4, <3>5, <3>6, <3>7, <3>8
  <2>3. CASE v # left
    <3>1. v \in Branches(t) /\ e \in t[v].items /\ f \in t[v].items /\ e.val # right /\ f.val # right
      BY <1>5, <2>3
    <3>2. e.val \in DOMAIN t /\ f.val \in DOMAIN t /\ Apart(d[e.val], d[f.val])
      BY <1>12, <2>1, <3>1, ChildFacts
    <3>3. CASE e.val = left
      <4>1. v = p /\ e = a
        BY <3>1, <3>3, TheParent
      <4>2. f # b /\ f # a /\ f.val # left
        <5>1. f # b /\ f # a
          BY <3>1, <4>1, <1>12, ChildFacts
        <5>2. f.val = left => f = a
          BY <3>1, <4>1, TheParent
        <5> QED
          BY <5>1, <5>2
      <4>3. b.key < f.key
        <5>1. b.key <= f.key /\ b.key \in Nat /\ f.key \in Nat
          BY <1>12, <3>1, <4>1, ChildFacts
        <5>2. b.key # f.key
          BY <3>1, <4>1, <4>2, <1>1 DEF Shape, Kinds
        <5> QED
          BY <5>1, <5>2
      <4>4. Apart(d[right], d[f.val])
        BY <2>1, <3>1, <4>1, <4>3
      <4>5. d2[e.val] = d[left] \cup d[right] /\ d2[f.val] = d[f.val]
        BY <1>1, <3>2, <3>3, <4>2
      <4> QED
        BY <3>2, <3>3, <4>4, <4>5 DEF Apart
    <3>4. CASE f.val = left
      <4>1. v = p /\ f = a
        BY <3>1, <3>4, TheParent
      <4>2. e.val # left
        <5>1. e # a
          BY <3>1, <4>1, <1>12, ChildFacts
        <5>2. e.val = left => e = a
          BY <3>1, <4>1, TheParent
        <5> QED
          BY <5>1, <5>2
      <4>3. e.key < b.key
        BY <1>12, <3>1, <4>1, ChildFacts
      <4>4. Apart(d[e.val], d[right])
        BY <2>1, <3>1, <4>1, <4>3
      <4>5. d2[f.val] = d[left] \cup d[right] /\ d2[e.val] = d[e.val]
        BY <1>1, <3>2, <3>4, <4>2
      <4> QED
        BY <3>2, <3>4, <4>4, <4>5 DEF Apart
    <3>5. CASE e.val # left /\ f.val # left
      BY <3>2, <3>5
    <3> QED
      BY <3>3, <3>4, <3>5
  <2> QED
    BY <2>2, <2>3
<1>13. Children(u, r, h, d2)
  <2>1. \A v \in Branches(u) : \A e \in u[v].items : u[e.val].key = e.key
    BY <1>3, <1>11
  <2> QED
    BY <1>11, <1>12, <2>1 DEF Children
<1>14. OneParent(u)
  <2>1. SUFFICES ASSUME NEW v \in Branches(u), NEW w \in Branches(u),
                        NEW e \in u[v].items, NEW f \in u[w].items, e.val = f.val
                 PROVE  v = w
    BY DEF OneParent
  <2>2. PICK x \in Branches(t) : e \in t[x].items /\ v = (IF x = right THEN left ELSE x)
    BY <1>7
  <2>3. PICK y \in Branches(t) : f \in t[y].items /\ w = (IF y = right THEN left ELSE y)
    BY <1>7
  <2>4. x = y
    BY <2>1, <2>2, <2>3, TheParent
  <2> QED
    BY <2>2, <2>3, <2>4
<1>15. AllHaveParents(u, r)
  <2>1. SUFFICES ASSUME NEW v \in DOMAIN u \ {r}
                 PROVE  \E q \in Branches(u) : \E e \in u[q].items : e.val = v
    BY DEF AllHaveParents
  <2>2. PICK q \in Branches(t) : \E e \in t[q].items : e.val = v
    BY <1>3 DEF Shape, AllHaveParents
  <2>3. PICK e \in t[q].items : e.val = v
    BY <2>2
  <2>4. e.val # right
    BY <1>3, <2>3
  <2>5. CASE q = right
    <3>1. left \in Branches(u) /\ e \in u[left].items
      BY <1>2, <1>1, <1>4, <1>5, <2>3, <2>5 DEF Branches
    <3> QED
      BY <2>3, <3>1
  <2>6. CASE q = left
    <3>1. left \in Branches(u) /\ e \in u[left].items
      BY <1>2, <1>5, <2>3, <2>6
    <3> QED
      BY <2>3, <3>1
  <2>7. CASE q # right /\ q # left
    <3>1. q \in Branches(u) /\ e \in u[q].items
      BY <1>5, <2>3, <2>4, <2>7
    <3> QED
      BY <2>3, <3>1
  <2> QED
    BY <2>5, <2>6, <2>7
<1> QED
  BY <1>3, <1>8, <1>9, <1>10, <1>13, <1>14, <1>15 DEF Shape

\* Only the root's child is one less high than the root, if it has only one.
LEMMA OnlyChild ==
  ASSUME NEW t, NEW r, NEW h, NEW d, Shape(t, r, h, d),
         NEW c, r \in Branches(t), t[r].items # {}, \A e \in t[r].items : e.val = c
  PROVE  \A v \in DOMAIN t \ {r, c} : h[v] < h[c]
<1> DEFINE bad == {v \in DOMAIN t \ {r, c} : ~(h[v] < h[c])}
           depths == {h[r] - h[v] : v \in bad}
<1>1. SUFFICES ASSUME bad # {} PROVE FALSE
  OBVIOUS
<1>2. \A v \in DOMAIN t : h[v] \in Nat /\ (v # r => h[v] < h[r])
  BY DEF Shape, Heights
<1>3. r \in DOMAIN t
  BY DEF Shape
<1>4. PICK v \in bad : \A w \in bad : h[w] <= h[v]
  <2>1. depths \in SUBSET Nat /\ depths # {}
    BY <1>1, <1>2, <1>3
  <2> HIDE DEF depths
  <2>2. PICK n \in depths : \A m \in depths : n <= m
    BY <2>1, LeastNumber
  <2>3. PICK v \in bad : n = h[r] - h[v]
    BY <2>2 DEF depths
  <2>4. \A w \in bad : h[r] - h[v] <= h[r] - h[w]
    BY <2>2, <2>3 DEF depths
  <2>5. ASSUME NEW w \in bad PROVE h[w] <= h[v]
    <3>1. h[r] - h[v] <= h[r] - h[w] /\ h[r] \in Nat /\ h[v] \in Nat /\ h[w] \in Nat
      BY <1>2, <1>3, <2>4
    <3> QED
      BY <3>1
  <2> QED
    BY <2>5
<1>5. v \in DOMAIN t \ {r, c} /\ ~(h[v] < h[c])
  BY <1>4
<1>6. PICK q \in Branches(t) : \E e \in t[q].items : e.val = v
  BY <1>5 DEF Shape, AllHaveParents
<1>7. PICK e \in t[q].items : e.val = v
  BY <1>6
<1>8. q # r /\ h[v] + 1 = h[q] /\ q \in DOMAIN t
  BY <1>5, <1>7, ChildFacts DEF Branches
<1>9. h[v] \in Nat /\ h[q] \in Nat
  BY <1>2, <1>5, <1>8
<1>10. CASE q = c
  BY <1>5, <1>8, <1>9, <1>10
<1>11. CASE q # c
  <2>1. c \in DOMAIN t
    BY ChildFacts
  <2>2. h[c] \in Nat
    BY <1>2, <2>1
  <2>3. q \in bad
    BY <1>5, <1>8, <1>9, <1>11, <2>2
  <2>4. h[q] <= h[v]
    BY <1>4, <2>3
  <2> QED
    BY <1>8, <1>9, <2>4
<1> QED
  BY <1>10, <1>11

OnlyBelow(t, r, c) == r \in Branches(t) /\ t[r].items # {} /\ \A e \in t[r].items : e.val = c
Collapsed(t, u, r, c) ==
  /\ DOMAIN u = DOMAIN t \ {c}
  /\ u[r].leaf = t[c].leaf /\ u[r].key = t[r].key /\ u[r].items = t[c].items
  /\ \A v \in DOMAIN u \ {r} : u[v] = t[v]
NewHeight(t, h, h2, r, x) == \A v \in DOMAIN t : h2[v] = IF v = r THEN x ELSE h[v]

\* The root takes the place of its only child.
LEMMA CollapseShape ==
  ASSUME NEW t, NEW r, NEW h, NEW d, Shape(t, r, h, d),
         NEW c, OnlyBelow(t, r, c), NEW u, Collapsed(t, u, r, c), NEW h2, NewHeight(t, h, h2, r, h[c])
  PROVE  Shape(u, r, h2, d)
<1> USE DEF OnlyBelow, Collapsed, NewHeight
<1>1. PICK e0 \in t[r].items : e0.val = c
  OBVIOUS
<1>2. /\ c \in DOMAIN t /\ c # r /\ h[c] + 1 = h[r] /\ d[c] \subseteq d[r] /\ r \in DOMAIN t
      /\ h[c] \in Nat /\ h[r] \in Nat
  BY <1>1, ChildFacts DEF Shape
<1>3. \A v \in DOMAIN t \ {r, c} : h[v] < h[c]
  BY OnlyChild
<1>4. /\ r \in DOMAIN u /\ h2[r] = h[c]
      /\ \A v \in DOMAIN u \ {r} : v \in DOMAIN t /\ v # c /\ u[v] = t[v] /\ h2[v] = h[v]
  BY <1>2
\* Where an element was.
<1>5. \A v \in Branches(u) : /\ v = r => c \in Branches(t) /\ u[v].items = t[c].items
                             /\ v # r => v \in Branches(t) /\ u[v].items = t[v].items
  BY <1>2, <1>4 DEF Branches
<1>6. \A v \in Branches(u) : \A e \in u[v].items :
        /\ e.val \in DOMAIN u \ {r} /\ h2[e.val] + 1 = h2[v] /\ u[e.val].key = e.key
        /\ d[e.val] \subseteq d[v]
  <2>1. SUFFICES ASSUME NEW v \in Branches(u), NEW e \in u[v].items
                 PROVE  /\ e.val \in DOMAIN u \ {r} /\ h2[e.val] + 1 = h2[v]
                        /\ u[e.val].key = e.key /\ d[e.val] \subseteq d[v]
    OBVIOUS
  <2> DEFINE w == IF v = r THEN c ELSE v
  <2>2. w \in Branches(t) /\ e \in t[w].items
    BY <1>5
  <2>3. /\ e.val \in DOMAIN t \ {r} /\ h[e.val] + 1 = h[w] /\ t[e.val].key = e.key
        /\ d[e.val] \subseteq d[w] /\ h[e.val] \in Nat
    BY <2>2, ChildFacts
  <2>4. e.val # c
    <3>1. SUFFICES ASSUME e.val = c PROVE FALSE
      OBVIOUS
    <3>2. w = r
      BY <1>1, <2>2, <3>1, TheParent
    <3> QED
      BY <1>2, <3>2
  <2>5. e.val \in DOMAIN u \ {r} /\ h2[e.val] = h[e.val] /\ u[e.val].key = t[e.val].key
    BY <1>4, <2>3, <2>4
  <2>6. h2[v] = h[w] /\ d[w] \subseteq d[v]
    <3>1. v \in DOMAIN u
      BY DEF Branches
    <3> QED
      BY <1>2, <1>4, <3>1
  <2> QED
    BY <2>3, <2>5, <2>6
<1>7. Kinds(u)
  <2>1. SUFFICES ASSUME NEW v \in DOMAIN u
                 PROVE  /\ u[v].leaf \in BOOLEAN /\ u[v].key \in Nat /\ u[v].items \subseteq Elem
                        /\ \A e, f \in u[v].items : e.key = f.key => e = f
    BY DEF Kinds
  <2>2. \A w \in DOMAIN t : /\ t[w].leaf \in BOOLEAN /\ t[w].key \in Nat /\ t[w].items \subseteq Elem
                            /\ \A e, f \in t[w].items : e.key = f.key => e = f
    BY DEF Shape, Kinds
  <2>3. CASE v = r
    BY <1>2, <2>2, <2>3
  <2>4. CASE v # r
    BY <1>4, <2>2, <2>4
  <2> QED
    BY <2>3, <2>4
<1>8. Heights(u, r, h2)
  <2>1. SUFFICES ASSUME NEW v \in DOMAIN u
                 PROVE  h2[v] \in Nat /\ (u[v].leaf <=> h2[v] = 0) /\ (v # r => h2[v] < h2[r])
    BY DEF Heights
  <2>2. \A w \in DOMAIN t : h[w] \in Nat /\ (t[w].leaf <=> h[w] = 0)
    BY DEF Shape, Heights
  <2>3. CASE v = r
    BY <1>2, <1>4, <2>2, <2>3
  <2>4. CASE v # r
    BY <1>3, <1>4, <2>2, <2>4
  <2> QED
    BY <2>3, <2>4
<1>9. Domains(u, r, d)
  <2>1. SUFFICES ASSUME NEW v \in DOMAIN u
                 PROVE  /\ d[v] \subseteq Nat /\ \A f \in u[v].items : f.key \in d[v]
                        /\ v # r => u[v].key \in d[v]
    BY DEF Domains
  <2>2. \A w \in DOMAIN t : /\ d[w] \subseteq Nat /\ \A f \in t[w].items : f.key \in d[w]
                            /\ w # r => t[w].key \in d[w]
    BY DEF Shape, Domains
  <2>3. CASE v = r
    BY <1>2, <2>2, <2>3
  <2>4. CASE v # r
    BY <1>4, <2>2, <2>4
  <2> QED
    BY <2>3, <2>4
<1>10. ASSUME NEW v \in Branches(u), NEW e \in u[v].items, NEW f \in u[v].items, e.key < f.key
       PROVE  Apart(d[e.val], d[f.val])
  BY <1>5, <1>10 DEF Shape, Children
<1>11. Children(u, r, h2, d)
  BY <1>6, <1>10 DEF Children
<1>12. OneParent(u)
  <2>1. SUFFICES ASSUME NEW v \in Branches(u), NEW w \in Branches(u),
                        NEW e \in u[v].items, NEW f \in u[w].items, e.val = f.val
                 PROVE  v = w
    BY DEF OneParent
  <2> DEFINE x == IF v = r THEN c ELSE v
             y == IF w = r THEN c ELSE w
  <2>2. x \in Branches(t) /\ e \in t[x].items /\ y \in Branches(t) /\ f \in t[y].items
    BY <1>5
  <2>3. x = y
    BY <2>1, <2>2, TheParent
  <2>4. v # c /\ w # c
    BY DEF Branches
  <2> QED
    BY <2>3, <2>4
<1>13. AllHaveParents(u, r)
  <2>1. SUFFICES ASSUME NEW v \in DOMAIN u \ {r}
                 PROVE  \E q \in Branches(u) : \E e \in u[q].items : e.val = v
    BY DEF AllHaveParents
  <2>2. v \in DOMAIN t \ {r} /\ v # c
    BY <1>4
  <2>3. PICK q \in Branches(t) : \E e \in t[q].items : e.val = v
    BY <2>2 DEF Shape, AllHaveParents
  <2>4. q # r
    BY <2>2, <2>3
  <2>5. CASE q = c
    <3>1. r \in Branches(u) /\ u[r].items = t[q].items
      BY <1>4, <2>5 DEF Branches
    <3> QED
      BY <2>3, <3>1
  <2>6. CASE q # c
    <3>1. q \in Branches(u) /\ u[q].items = t[q].items
      <4>1. q \in DOMAIN u \ {r}
        BY <2>4, <2>6 DEF Branches
      <4> QED
        BY <1>4, <4>1 DEF Branches
    <3> QED
      BY <2>3, <3>1
  <2> QED
    BY <2>5, <2>6
<1> QED
  BY <1>4, <1>7, <1>8, <1>9, <1>11, <1>12, <1>13 DEF Shape

InOrder(A, B) == \A e \in A, f \in B : e.key < f.key

\* The keys at or below the elements in S.
KeysBelow(S, leaf, d) ==
  IF leaf THEN {e.key : e \in S} ELSE {x \in Nat : \E e \in S : x \in d[e.val]}

\* The parts of u, known as the ids in I, that the elements of n are split into.
Parted(t, u, n, I) ==
  /\ I \subseteq Nat \ {0} /\ I \cap DOMAIN t = {}
  /\ \A i \in I : /\ u[i].leaf = t[n].leaf /\ u[i].items \subseteq t[n].items
                  /\ \E e \in u[i].items : e.key = u[i].key
  /\ \A e \in t[n].items : \E i \in I : e \in u[i].items
  /\ \A i, j \in I : i # j => InOrder(u[i].items, u[j].items) \/ InOrder(u[j].items, u[i].items)

\* n is replaced by the nodes in I, which its parent p knows.
Replaced(t, u, n, p, I) ==
  /\ DOMAIN u = (DOMAIN t \ {n}) \cup I
  /\ \A v \in DOMAIN t \ {n, p} : u[v] = t[v]
  /\ u[p].leaf = t[p].leaf /\ u[p].key = t[p].key
  /\ u[p].items = {e \in t[p].items : e.val # n} \cup {Element(u[i].key, i) : i \in I}

PartsHeights(u, h, h2, n, I) == \A v \in DOMAIN u : h2[v] = IF v \in I THEN h[n] ELSE h[v]
PartsDomains(u, d, d2, I) ==
  \A v \in DOMAIN u : d2[v] = IF v \in I THEN KeysBelow(u[v].items, u[v].leaf, d) ELSE d[v]

\* A node under p is replaced by its parts.
LEMMA PartsShape ==
  ASSUME NEW t, NEW r, NEW h, NEW d, Shape(t, r, h, d),
         NEW n, NEW p \in Branches(t), NEW a \in t[p].items, a.val = n,
         NEW I, NEW u, Parted(t, u, n, I), Replaced(t, u, n, p, I),
         NEW h2, PartsHeights(u, h, h2, n, I),
         NEW d2, PartsDomains(u, d, d2, I)
  PROVE  Shape(u, r, h2, d2)
<1> USE DEF Replaced, PartsHeights, PartsDomains
<1>1. /\ n \in DOMAIN t /\ n # r /\ p \in DOMAIN t /\ p # n /\ h[n] + 1 = h[p] /\ ~t[p].leaf
      /\ r \in DOMAIN u /\ d[n] \subseteq d[p] /\ d[n] \subseteq Nat /\ h[n] \in Nat /\ h[p] \in Nat
      /\ a.key \in d[n] /\ r \in DOMAIN t
  BY ChildFacts DEF Branches, Shape
<1>2. /\ I \subseteq Int /\ I \cap DOMAIN t = {} /\ p \notin I /\ n \notin I
      /\ \A i \in I : /\ u[i].leaf = t[n].leaf /\ u[i].items \subseteq t[n].items
                      /\ \E e \in u[i].items : e.key = u[i].key
      /\ \A e \in t[n].items : \E i \in I : e \in u[i].items
      /\ \A i, j \in I : i # j => InOrder(u[i].items, u[j].items) \/ InOrder(u[j].items, u[i].items)
  <2>1. I \subseteq Nat \ {0} /\ I \cap DOMAIN t = {}
    BY DEF Parted
  <2>2. p \notin I /\ n \notin I /\ I \subseteq Int
    BY <1>1, <2>1
  <2> QED
    BY <2>1, <2>2 DEF Parted
<1>3. \A v \in DOMAIN u \ I : /\ v \in DOMAIN t /\ v # n /\ u[v].leaf = t[v].leaf /\ u[v].key = t[v].key
                              /\ v # p => u[v].items = t[v].items
                              /\ h2[v] = h[v] /\ d2[v] = d[v]
  OBVIOUS
<1>4. \A i \in I : /\ i \in DOMAIN u /\ h2[i] = h[n] /\ d2[i] = KeysBelow(u[i].items, t[n].leaf, d)
                   /\ u[i].key \in d2[i] /\ d2[i] \subseteq d[n]
                   /\ \A e \in u[i].items : e.key \in d2[i]
  <2>1. SUFFICES ASSUME NEW i \in I
                 PROVE  /\ h2[i] = h[n] /\ d2[i] = KeysBelow(u[i].items, t[n].leaf, d)
                        /\ u[i].key \in d2[i] /\ d2[i] \subseteq d[n]
                        /\ \A e \in u[i].items : e.key \in d2[i]
    OBVIOUS
  <2>2. h2[i] = h[n] /\ d2[i] = KeysBelow(u[i].items, t[n].leaf, d)
    BY <1>2
  <2>3. \A e \in t[n].items : e.key \in d[n]
    BY <1>1 DEF Shape, Domains
  <2>4. u[i].items \subseteq t[n].items
    BY <1>2
  <2>5. \A e \in u[i].items : e.key \in d2[i]
    <3>1. CASE t[n].leaf
      BY <2>2, <3>1 DEF KeysBelow
    <3>2. CASE ~t[n].leaf
      <4>1. \A e \in t[n].items : e.key \in d[e.val] /\ e.key \in Nat
        BY <1>1, <3>2, ChildFacts DEF Branches
      <4> QED
        BY <2>2, <2>4, <3>2, <4>1 DEF KeysBelow
    <3> QED
      BY <3>1, <3>2
  <2>6. d2[i] \subseteq d[n]
    <3>1. CASE t[n].leaf
      BY <2>2, <2>3, <2>4, <3>1 DEF KeysBelow
    <3>2. CASE ~t[n].leaf
      <4>1. \A e \in t[n].items : d[e.val] \subseteq d[n]
        BY <1>1, <3>2, ChildFacts DEF Branches
      <4> QED
        BY <2>2, <2>4, <3>2, <4>1 DEF KeysBelow
    <3> QED
      BY <3>1, <3>2
  <2>7. u[i].key \in d2[i]
    BY <1>2, <2>5
  <2> QED
    BY <2>2, <2>5, <2>6, <2>7
<1>5. ASSUME NEW i \in I, NEW j \in I, InOrder(u[i].items, u[j].items)
      PROVE  u[i].key < u[j].key /\ Apart(d2[i], d2[j])
  <2>1. u[i].items \subseteq t[n].items /\ u[j].items \subseteq t[n].items
    BY <1>2
  <2>2. \A e \in t[n].items : e \in Elem /\ e.key \in Nat
    BY <1>1 DEF Shape, Kinds, Elem, Key
  <2>3. \A e \in u[i].items, f \in u[j].items : e.key < f.key
    BY <1>5 DEF InOrder
  <2>4. CASE t[n].leaf
    BY <1>2, <1>4, <2>3, <2>4 DEF KeysBelow, Apart
  <2>5. CASE ~t[n].leaf
    <3>1. \A e, f \in t[n].items : e.key < f.key => Apart(d[e.val], d[f.val])
      BY <1>1, <2>5 DEF Shape, Children, Branches
    <3>2. Apart(d2[i], d2[j])
      <4>1. SUFFICES ASSUME NEW x \in d2[i], NEW y \in d2[j] PROVE x < y
        BY DEF Apart
      <4>2. PICK e \in u[i].items : x \in d[e.val]
        BY <1>4, <2>5 DEF KeysBelow
      <4>3. PICK f \in u[j].items : y \in d[f.val]
        BY <1>4, <2>5 DEF KeysBelow
      <4>4. Apart(d[e.val], d[f.val])
        BY <2>1, <2>3, <3>1
      <4> QED
        BY <4>2, <4>3, <4>4 DEF Apart
    <3> QED
      BY <1>2, <2>3, <3>2
  <2> QED
    BY <2>4, <2>5
<1>6. \A i, j \in I : u[i].key = u[j].key => i = j
  <2>1. SUFFICES ASSUME NEW i \in I, NEW j \in I, u[i].key = u[j].key, i # j PROVE FALSE
    OBVIOUS
  <2>2. u[i].key < u[j].key \/ u[j].key < u[i].key
    BY <1>2, <1>5, <2>1
  <2>3. u[i].key \in Nat
    BY <1>1, <1>4
  <2> QED
    BY <2>1, <2>2, <2>3
<1>7. \A i \in I : /\ Element(u[i].key, i) \in Elem /\ Element(u[i].key, i).key = u[i].key
                   /\ Element(u[i].key, i).val = i /\ u[i].key \in Nat
  <2>1. SUFFICES ASSUME NEW i \in I PROVE u[i].key \in Key /\ i \in Int
    BY DEF Element, Elem, Key
  <2>2. PICK e \in t[n].items : e.key = u[i].key
    BY <1>2
  <2> QED
    BY <1>1, <1>2, <2>2 DEF Shape, Kinds, Elem
\* An element of p that stays is on one side of n.
<1>8. ASSUME NEW e \in t[p].items, e.val # n
      PROVE  /\ e.key \in Nat /\ e.val \in DOMAIN t /\ e.val # p /\ e.key \in d[e.val]
             /\ e.key # a.key
             /\ e.key < a.key => Apart(d[e.val], d[n]) /\ \A i \in I : e.key < u[i].key
             /\ a.key < e.key => Apart(d[n], d[e.val]) /\ \A i \in I : u[i].key < e.key
             /\ a.key \in Nat
  <2>1. /\ e.key \in Nat /\ e.val \in DOMAIN t /\ e.val # p /\ e.key \in d[e.val] /\ a.key \in Nat
    BY ChildFacts
  <2>2. e.key # a.key
    BY <1>1, <1>8 DEF Shape, Kinds
  <2>3. /\ e.key < a.key => Apart(d[e.val], d[n])
        /\ a.key < e.key => Apart(d[n], d[e.val])
    BY DEF Shape, Children
  <2>4. \A i \in I : u[i].key \in d[n]
    BY <1>4
  <2> QED
    BY <2>1, <2>2, <2>3, <2>4 DEF Apart
<1>9. \A e \in u[p].items : \/ e \in t[p].items /\ e.val # n
                           \/ \E i \in I : e = Element(u[i].key, i)
  OBVIOUS
<1>10. Branches(u) = (Branches(t) \ {n}) \cup {i \in I : ~t[n].leaf}
  <2>1. \A v \in I : v \in Branches(u) <=> ~t[n].leaf
    BY <1>2, <1>4 DEF Branches
  <2>2. \A v \in DOMAIN u \ I : v \in Branches(u) <=> v \in Branches(t) /\ v # n
    BY <1>3 DEF Branches
  <2>3. \A v \in Branches(t) \ {n} : v \in DOMAIN u \ I
    BY <1>2 DEF Branches
  <2>4. \A v \in I : v \notin Branches(t)
    BY <1>2 DEF Branches
  <2>5. Branches(u) \subseteq DOMAIN u
    BY DEF Branches
  <2>6. \A v \in I : v \in DOMAIN u
    BY <1>4
  <2> QED
    BY <2>1, <2>2, <2>3, <2>4, <2>5, <2>6
<1>11. Kinds(u)
  <2>1. SUFFICES ASSUME NEW v \in DOMAIN u
                 PROVE  /\ u[v].leaf \in BOOLEAN /\ u[v].key \in Nat /\ u[v].items \subseteq Elem
                        /\ \A e, f \in u[v].items : e.key = f.key => e = f
    BY DEF Kinds
  <2>2. \A w \in DOMAIN t : /\ t[w].leaf \in BOOLEAN /\ t[w].key \in Nat /\ t[w].items \subseteq Elem
                            /\ \A e, f \in t[w].items : e.key = f.key => e = f
    BY DEF Shape, Kinds
  <2>3. CASE v \in I
    <3>1. u[v].leaf = t[n].leaf /\ u[v].items \subseteq t[n].items /\ u[v].key \in Nat
      BY <1>2, <1>7, <2>3
    <3> QED
      BY <1>1, <2>2, <3>1
  <2>4. CASE v \notin I /\ v # p
    BY <1>3, <2>2, <2>4
  <2>5. CASE v = p
    <3>1. u[p].items \subseteq Elem
      BY <1>1, <1>7, <1>9, <2>2
    <3>2. ASSUME NEW e \in u[p].items, NEW f \in u[p].items, e.key = f.key PROVE e = f
      <4>1. CASE e \in t[p].items /\ e.val # n /\ f \in t[p].items /\ f.val # n
        BY <1>1, <2>2, <3>2, <4>1
      <4>2. ASSUME NEW i \in I, e = Element(u[i].key, i), NEW j \in I, f = Element(u[j].key, j)
            PROVE  e = f
        <5>1. u[i].key = u[j].key
          BY <1>7, <3>2, <4>2
        <5> QED
          BY <1>6, <4>2, <5>1
      <4>3. ASSUME NEW x \in t[p].items, x.val # n, NEW i \in I, x.key = u[i].key PROVE FALSE
        <5>1. /\ x.key \in Nat /\ a.key \in Nat /\ x.key # a.key /\ u[i].key \in Nat
              /\ x.key < a.key => x.key < u[i].key
              /\ a.key < x.key => u[i].key < x.key
          BY <1>7, <1>8, <4>3
        <5> QED
          BY <4>3, <5>1
      <4>4. ASSUME e \in t[p].items, e.val # n, NEW i \in I, f = Element(u[i].key, i) PROVE FALSE
        BY <1>7, <3>2, <4>3, <4>4
      <4>5. ASSUME f \in t[p].items, f.val # n, NEW i \in I, e = Element(u[i].key, i) PROVE FALSE
        BY <1>7, <3>2, <4>3, <4>5
      <4> QED
        BY <1>9, <4>1, <4>2, <4>4, <4>5
    <3> QED
      BY <1>1, <2>2, <2>5, <3>1, <3>2
  <2> QED
    BY <2>3, <2>4, <2>5
<1>12. Heights(u, r, h2)
  <2>1. SUFFICES ASSUME NEW v \in DOMAIN u
                 PROVE  h2[v] \in Nat /\ (u[v].leaf <=> h2[v] = 0) /\ (v # r => h2[v] < h2[r])
    BY DEF Heights
  <2>2. \A w \in DOMAIN t : h[w] \in Nat /\ (t[w].leaf <=> h[w] = 0) /\ (w # r => h[w] < h[r])
    BY DEF Shape, Heights
  <2>3. h2[r] = h[r]
    BY <1>1, <1>2
  <2>4. CASE v \in I
    <3>1. u[v].leaf = t[n].leaf /\ h2[v] = h[n]
      BY <1>2, <1>4, <2>4
    <3> QED
      BY <1>1, <2>2, <2>3, <3>1
  <2>5. CASE v \notin I
    BY <1>3, <2>2, <2>3, <2>5
  <2> QED
    BY <2>4, <2>5
<1>13. Domains(u, r, d2)
  <2>1. SUFFICES ASSUME NEW v \in DOMAIN u
                 PROVE  /\ d2[v] \subseteq Nat /\ \A f \in u[v].items : f.key \in d2[v]
                        /\ v # r => u[v].key \in d2[v]
    BY DEF Domains
  <2>2. \A w \in DOMAIN t : /\ d[w] \subseteq Nat /\ \A f \in t[w].items : f.key \in d[w]
                            /\ w # r => t[w].key \in d[w]
    BY DEF Shape, Domains
  <2>3. CASE v \in I
    BY <1>1, <1>4, <2>3
  <2>4. CASE v \notin I /\ v # p
    BY <1>3, <2>2, <2>4
  <2>5. CASE v = p
    <3>1. d2[p] = d[p]
      BY <1>1, <1>2, <1>3
    <3>2. \A f \in u[p].items : f.key \in d[p]
      BY <1>1, <1>4, <1>7, <1>9, <2>2
    <3> QED
      BY <1>1, <2>2, <2>5, <3>1, <3>2
  <2> QED
    BY <2>3, <2>4, <2>5
\* Below n's parts, and in every other branch but p, the elements are those of t.
<1>14. ASSUME NEW v \in Branches(u), v # p
       PROVE  \E w \in Branches(t) : /\ u[v].items \subseteq t[w].items /\ w # p
                                     /\ w = (IF v \in I THEN n ELSE v) /\ h2[v] = h[w]
  <2>1. CASE v \in I
    BY <1>1, <1>2, <1>4, <1>10, <2>1 DEF Branches
  <2>2. CASE v \notin I
    BY <1>3, <1>10, <1>14, <2>2 DEF Branches
  <2> QED
    BY <2>1, <2>2
<1>15. ASSUME NEW v \in Branches(u), v # p, NEW e \in u[v].items
       PROVE  /\ e.val \in DOMAIN t \ {r, n} /\ e.val \in DOMAIN u \ I /\ h2[e.val] + 1 = h2[v]
              /\ u[e.val].key = e.key /\ d2[e.val] = d[e.val] /\ d[e.val] \subseteq d2[v]
  <2>1. PICK w \in Branches(t) : /\ u[v].items \subseteq t[w].items /\ w # p
                                 /\ w = (IF v \in I THEN n ELSE v) /\ h2[v] = h[w]
    BY <1>14, <1>15
  <2>2. /\ e.val \in DOMAIN t \ {r} /\ h[e.val] + 1 = h[w] /\ t[e.val].key = e.key
        /\ d[e.val] \subseteq d[w] /\ d[e.val] \subseteq Nat
    BY <2>1, ChildFacts
  <2>3. e.val # n
    BY <2>1, TheParent
  <2>4. e.val \in DOMAIN u \ I
    BY <1>2, <2>2, <2>3
  <2>5. d[e.val] \subseteq d2[v]
    <3>1. CASE v \in I
      <4>1. ~t[n].leaf /\ d2[v] = KeysBelow(u[v].items, t[n].leaf, d)
        BY <1>4, <2>1, <3>1 DEF Branches
      <4> QED
        BY <2>2, <4>1 DEF KeysBelow
    <3>2. CASE v \notin I
      BY <1>3, <2>1, <2>2, <3>2 DEF Branches
    <3> QED
      BY <3>1, <3>2
  <2> QED
    BY <1>3, <2>1, <2>2, <2>3, <2>4, <2>5
<1>16. ASSUME NEW e \in u[p].items
       PROVE  /\ e.val \in DOMAIN u \ {r} /\ h2[e.val] + 1 = h2[p]
              /\ u[e.val].key = e.key /\ d2[e.val] \subseteq d2[p]
  <2>1. h2[p] = h[p] /\ d2[p] = d[p]
    BY <1>1, <1>2, <1>3
  <2>2. CASE e \in t[p].items /\ e.val # n
    <3>1. /\ e.val \in DOMAIN t \ {r} /\ h[e.val] + 1 = h[p] /\ t[e.val].key = e.key
          /\ d[e.val] \subseteq d[p]
      BY <2>2, ChildFacts
    <3>2. e.val \in DOMAIN u \ I
      BY <1>2, <2>2, <3>1
    <3> QED
      BY <1>3, <2>1, <3>1, <3>2
  <2>3. ASSUME NEW i \in I, e = Element(u[i].key, i)
        PROVE  /\ e.val \in DOMAIN u \ {r} /\ h2[e.val] + 1 = h2[p]
               /\ u[e.val].key = e.key /\ d2[e.val] \subseteq d2[p]
    <3>1. e.val = i /\ e.key = u[i].key /\ i # r
      BY <1>1, <1>2, <1>7, <2>3
    <3> QED
      BY <1>1, <1>4, <2>1, <3>1
  <2> QED
    BY <1>9, <2>2, <2>3
<1>17. ASSUME NEW e \in u[p].items, NEW f \in u[p].items, e.key < f.key
       PROVE  Apart(d2[e.val], d2[f.val])
  <2>1. \A x \in t[p].items : x.val # n => d2[x.val] = d[x.val]
    BY <1>2, <1>3, <1>8
  <2>2. CASE e \in t[p].items /\ e.val # n /\ f \in t[p].items /\ f.val # n
    <3>1. Apart(d[e.val], d[f.val])
      BY <1>17, <2>2 DEF Shape, Children
    <3> QED
      BY <2>1, <2>2, <3>1
  <2>3. ASSUME e \in t[p].items, e.val # n, NEW i \in I, f = Element(u[i].key, i)
        PROVE  Apart(d2[e.val], d2[f.val])
    <3>1. e.key < u[i].key /\ u[i].key \in Nat /\ f.val = i
      BY <1>7, <1>17, <2>3
    <3>2. e.key < a.key
      <4>1. a.key < e.key => u[i].key < e.key
        BY <1>8, <2>3
      <4>2. e.key \in Nat /\ a.key \in Nat /\ e.key # a.key
        BY <1>8, <2>3
      <4>3. ~(u[i].key < e.key)
        BY <3>1, <4>2
      <4>4. ~(a.key < e.key)
        BY <4>1, <4>3
      <4> QED
        BY <4>2, <4>4
    <3>3. Apart(d[e.val], d[n])
      BY <1>8, <2>3, <3>2
    <3> QED
      BY <1>4, <2>1, <2>3, <3>1, <3>3 DEF Apart
  <2>4. ASSUME f \in t[p].items, f.val # n, NEW i \in I, e = Element(u[i].key, i)
        PROVE  Apart(d2[e.val], d2[f.val])
    <3>1. u[i].key < f.key /\ u[i].key \in Nat /\ e.val = i
      BY <1>7, <1>17, <2>4
    <3>2. a.key < f.key
      <4>1. f.key < a.key => f.key < u[i].key
        BY <1>8, <2>4
      <4>2. f.key \in Nat /\ a.key \in Nat /\ f.key # a.key
        BY <1>8, <2>4
      <4>3. ~(f.key < u[i].key)
        BY <3>1, <4>2
      <4>4. ~(f.key < a.key)
        BY <4>1, <4>3
      <4> QED
        BY <4>2, <4>4
    <3>3. Apart(d[n], d[f.val])
      BY <1>8, <2>4, <3>2
    <3> QED
      BY <1>4, <2>1, <2>4, <3>1, <3>3 DEF Apart
  <2>5. ASSUME NEW i \in I, e = Element(u[i].key, i), NEW j \in I, f = Element(u[j].key, j)
        PROVE  Apart(d2[e.val], d2[f.val])
    <3>1. u[i].key < u[j].key /\ e.val = i /\ f.val = j /\ u[i].key \in Nat /\ u[j].key \in Nat
      BY <1>7, <1>17, <2>5
    <3>2. ~InOrder(u[j].items, u[i].items)
      BY <1>5, <3>1
    <3>3. InOrder(u[i].items, u[j].items)
      BY <1>2, <3>1, <3>2
    <3> QED
      BY <1>5, <3>1, <3>3
  <2> QED
    BY <1>9, <2>2, <2>3, <2>4, <2>5
<1>18. Children(u, r, h2, d2)
  <2>1. ASSUME NEW v \in Branches(u), v # p, NEW e \in u[v].items, NEW f \in u[v].items, e.key < f.key
        PROVE  Apart(d2[e.val], d2[f.val])
    <3>1. PICK w \in Branches(t) : u[v].items \subseteq t[w].items
      BY <1>14, <2>1
    <3>2. Apart(d[e.val], d[f.val])
      BY <2>1, <3>1 DEF Shape, Children
    <3> QED
      BY <1>15, <2>1, <3>2
  <2> QED
    BY <1>15, <1>16, <1>17, <2>1 DEF Children
<1>19. OneParent(u)
  <2>1. SUFFICES ASSUME NEW v \in Branches(u), NEW w \in Branches(u),
                        NEW e \in u[v].items, NEW f \in u[w].items, e.val = f.val
                 PROVE  v = w
    BY DEF OneParent
  <2>2. ASSUME NEW y \in Branches(u), y # p, NEW x \in u[y].items, NEW z \in u[p].items, x.val = z.val
        PROVE  FALSE
    <3>1. x.val \in DOMAIN t \ {n} /\ x.val \notin I
      BY <1>15, <2>2
    <3>2. z \in t[p].items
      BY <1>7, <1>9, <2>2, <3>1
    <3>3. PICK q \in Branches(t) : u[y].items \subseteq t[q].items /\ q # p
      BY <1>14, <2>2
    <3> QED
      BY <2>2, <3>2, <3>3, TheParent
  <2>3. CASE v = p \/ w = p
    BY <2>1, <2>2, <2>3
  <2>4. CASE v # p /\ w # p
    <3>1. PICK x \in Branches(t) : u[v].items \subseteq t[x].items /\ x = (IF v \in I THEN n ELSE v)
      BY <1>14, <2>4
    <3>2. PICK y \in Branches(t) : u[w].items \subseteq t[y].items /\ y = (IF w \in I THEN n ELSE w)
      BY <1>14, <2>4
    <3>3. x = y /\ e = f
      BY <2>1, <3>1, <3>2, TheParent
    <3>4. v # n /\ w # n
      BY <1>2 DEF Branches
    <3>5. CASE v \in I /\ w \in I
      <4>1. v # w => e.key < e.key
        BY <1>2, <3>3, <3>5 DEF InOrder
      <4>2. e \in Elem
        BY <3>1, ChildFacts DEF Branches
      <4>3. e.key \in Nat
        BY <4>2 DEF Elem, Key
      <4> QED
        BY <4>1, <4>3
    <3>6. CASE v \notin I \/ w \notin I
      BY <3>1, <3>2, <3>3, <3>4, <3>6
    <3> QED
      BY <3>5, <3>6
  <2> QED
    BY <2>3, <2>4
<1>20. AllHaveParents(u, r)
  <2>1. SUFFICES ASSUME NEW v \in DOMAIN u \ {r}
                 PROVE  \E q \in Branches(u) : \E e \in u[q].items : e.val = v
    BY DEF AllHaveParents
  <2>2. p \in Branches(u)
    BY <1>1, <1>10
  <2>3. CASE v \in I
    <3>1. Element(u[v].key, v) \in u[p].items
      BY <2>3
    <3> QED
      BY <1>7, <2>2, <2>3, <3>1
  <2>4. CASE v \notin I
    <3>1. v \in DOMAIN t \ {r} /\ v # n
      BY <1>3, <2>4
    <3>2. PICK q \in Branches(t) : \E e \in t[q].items : e.val = v
      BY <3>1 DEF Shape, AllHaveParents
    <3>3. PICK e \in t[q].items : e.val = v
      BY <3>2
    <3>4. CASE q = p
      BY <2>2, <3>1, <3>3, <3>4
    <3>5. CASE q = n
      <4>1. PICK i \in I : e \in u[i].items
        BY <1>2, <3>3, <3>5
      <4>2. i \in Branches(u)
        BY <1>10, <3>2, <3>5 DEF Branches
      <4> QED
        BY <3>3, <4>1, <4>2
    <3>6. CASE q # p /\ q # n
      <4>1. q \in Branches(u) /\ u[q] = t[q]
        BY <1>10, <3>6 DEF Branches
      <4> QED
        BY <3>3, <4>1
    <3> QED
      BY <3>4, <3>5, <3>6
  <2> QED
    BY <2>3, <2>4
<1> QED
  BY <1>1, <1>11, <1>12, <1>13, <1>18, <1>19, <1>20 DEF Shape

\* r is below the new node p, which knows it by key k.
Above(t, u, r, p, k) ==
  /\ DOMAIN u = DOMAIN t \cup {p}
  /\ u[p].leaf = FALSE /\ u[p].key \in Nat /\ u[p].items = {Element(k, r)}
  /\ u[r].leaf = t[r].leaf /\ u[r].items = t[r].items /\ u[r].key = k
  /\ \A v \in DOMAIN t \ {r} : u[v] = t[v]

AboveHeights(u, h, h2, r, p) == \A v \in DOMAIN u : h2[v] = IF v = p THEN h[r] + 1 ELSE h[v]

\* i has what r had.
Inherits(u, d, d2, r, i) == \A v \in DOMAIN u : d2[v] = IF v = i THEN d[r] ELSE d[v]

\* The root gets a parent.
LEMMA RootAboveShape ==
  ASSUME NEW t, NEW r, NEW h, NEW d, Shape(t, r, h, d), r \in Int,
         NEW p, p \notin DOMAIN t, NEW k \in Key, k \in d[r],
         NEW u, Above(t, u, r, p, k),
         NEW h2, AboveHeights(u, h, h2, r, p), NEW d2, Inherits(u, d, d2, r, p)
  PROVE  Shape(u, p, h2, d2)
<1> USE DEF Above, AboveHeights, Inherits
<1>1. /\ r \in DOMAIN t /\ r # p /\ p \in DOMAIN u /\ r \in DOMAIN u /\ k \in Nat
      /\ h2[p] = h[r] + 1 /\ d2[p] = d[r] /\ h[r] \in Nat /\ d[r] \subseteq Nat
      /\ h2[r] = h[r] /\ d2[r] = d[r]
  <2>1. r \in DOMAIN t /\ h[r] \in Nat /\ d[r] \subseteq Nat
    BY ChildFacts DEF Shape
  <2> QED
    BY <2>1 DEF Key
<1>2. \A v \in DOMAIN t : /\ v # p /\ v \in DOMAIN u /\ u[v].leaf = t[v].leaf /\ u[v].items = t[v].items
                          /\ v # r => u[v].key = t[v].key
                          /\ h2[v] = h[v] /\ d2[v] = d[v]
  BY <1>1
<1>3. Element(k, r) \in Elem /\ Element(k, r).key = k /\ Element(k, r).val = r
  BY DEF Element, Elem
<1>4. \A v \in DOMAIN u : v = p \/ v \in DOMAIN t
  OBVIOUS
<1>5. Branches(u) = Branches(t) \cup {p}
  <2>1. \A v \in DOMAIN t : v \in Branches(u) <=> v \in Branches(t)
    BY <1>2 DEF Branches
  <2>2. p \in Branches(u)
    BY <1>1 DEF Branches
  <2> QED
    BY <1>4, <2>1, <2>2 DEF Branches
<1>6. Kinds(u)
  <2>1. \A w \in DOMAIN t : /\ t[w].leaf \in BOOLEAN /\ t[w].key \in Nat /\ t[w].items \subseteq Elem
                            /\ \A e, f \in t[w].items : e.key = f.key => e = f
    BY DEF Shape, Kinds
  <2>2. \A w \in DOMAIN t : /\ u[w].leaf \in BOOLEAN /\ u[w].key \in Nat /\ u[w].items \subseteq Elem
                            /\ \A e, f \in u[w].items : e.key = f.key => e = f
    BY <1>1, <1>2, <2>1
  <2>3. /\ u[p].leaf \in BOOLEAN /\ u[p].key \in Nat /\ u[p].items \subseteq Elem
        /\ \A e, f \in u[p].items : e.key = f.key => e = f
    BY <1>3
  <2> QED
    BY <1>4, <2>2, <2>3 DEF Kinds
<1>7. Heights(u, p, h2)
  <2>1. \A w \in DOMAIN t : h[w] \in Nat /\ (t[w].leaf <=> h[w] = 0) /\ (w # r => h[w] < h[r])
    BY DEF Shape, Heights
  <2>2. \A w \in DOMAIN t : h2[w] \in Nat /\ (u[w].leaf <=> h2[w] = 0) /\ h2[w] < h2[p]
    BY <1>1, <1>2, <2>1
  <2>3. h2[p] \in Nat /\ (u[p].leaf <=> h2[p] = 0)
    BY <1>1
  <2> QED
    BY <1>4, <2>2, <2>3 DEF Heights
<1>8. Domains(u, p, d2)
  <2>1. \A w \in DOMAIN t : /\ d[w] \subseteq Nat /\ \A f \in t[w].items : f.key \in d[w]
                            /\ w # r => t[w].key \in d[w]
    BY DEF Shape, Domains
  <2>2. \A w \in DOMAIN t : /\ d2[w] \subseteq Nat /\ \A f \in u[w].items : f.key \in d2[w]
                            /\ u[w].key \in d2[w]
    BY <1>1, <1>2, <2>1
  <2>3. d2[p] \subseteq Nat /\ \A f \in u[p].items : f.key \in d2[p]
    BY <1>1, <1>3
  <2> QED
    BY <1>4, <2>2, <2>3 DEF Domains
<1>9. Children(u, p, h2, d2)
  <2>1. ASSUME NEW v \in Branches(t)
        PROVE  /\ \A e \in u[v].items : /\ e.val \in DOMAIN u \ {p} /\ h2[e.val] + 1 = h2[v]
                                        /\ u[e.val].key = e.key /\ d2[e.val] \subseteq d2[v]
               /\ \A e, f \in u[v].items : e.key < f.key => Apart(d2[e.val], d2[f.val])
    <3>1. v \in DOMAIN t /\ u[v].items = t[v].items
      BY <1>2 DEF Branches
    <3>2. \A e \in t[v].items : /\ e.val \in DOMAIN t \ {r} /\ h[e.val] + 1 = h[v]
                                /\ t[e.val].key = e.key /\ d[e.val] \subseteq d[v]
      BY ChildFacts
    <3>3. \A e, f \in t[v].items : e.key < f.key => Apart(d[e.val], d[f.val])
      BY DEF Shape, Children
    <3> QED
      BY <1>2, <3>1, <3>2, <3>3
  <2>2. /\ \A e \in u[p].items : /\ e.val \in DOMAIN u \ {p} /\ h2[e.val] + 1 = h2[p]
                                 /\ u[e.val].key = e.key /\ d2[e.val] \subseteq d2[p]
        /\ \A e, f \in u[p].items : ~(e.key < f.key)
    BY <1>1, <1>3
  <2> QED
    BY <1>5, <2>1, <2>2 DEF Children
<1>10. OneParent(u)
  <2>1. SUFFICES ASSUME NEW v \in Branches(u), NEW w \in Branches(u),
                        NEW e \in u[v].items, NEW f \in u[w].items, e.val = f.val
                 PROVE  v = w
    BY DEF OneParent
  <2>2. \A y \in Branches(t) : \A x \in u[y].items : x.val # r /\ u[y].items = t[y].items
    <3>1. \A y \in Branches(t) : u[y].items = t[y].items
      BY <1>2 DEF Branches
    <3> QED
      BY <3>1, ChildFacts
  <2>3. \A x \in u[p].items : x.val = r
    BY <1>3
  <2> QED
    BY <1>5, <2>1, <2>2, <2>3, TheParent
<1>11. AllHaveParents(u, p)
  <2>1. SUFFICES ASSUME NEW v \in DOMAIN t PROVE \E q \in Branches(u) : \E e \in u[q].items : e.val = v
    BY <1>4 DEF AllHaveParents
  <2>2. CASE v = r
    BY <1>3, <1>5, <2>2
  <2>3. CASE v # r
    <3>1. PICK q \in Branches(t) : \E e \in t[q].items : e.val = v
      BY <2>3 DEF Shape, AllHaveParents
    <3>2. q \in Branches(u) /\ u[q].items = t[q].items
      BY <1>2, <1>5 DEF Branches
    <3> QED
      BY <3>1, <3>2
  <2> QED
    BY <2>2, <2>3
<1> QED
  BY <1>1, <1>6, <1>7, <1>8, <1>9, <1>10, <1>11 DEF Shape

\* r is known as i.
Renamed(t, u, r, i) ==
  /\ DOMAIN u = (DOMAIN t \ {r}) \cup {i}
  /\ u[i].leaf = t[r].leaf /\ u[i].key \in Nat /\ u[i].items = t[r].items
  /\ \A v \in DOMAIN t \ {r} : u[v] = t[v]

\* The root gets another name.
LEMMA RenameShape ==
  ASSUME NEW t, NEW r, NEW h, NEW d, Shape(t, r, h, d),
         NEW i, i \notin DOMAIN t, NEW u, Renamed(t, u, r, i),
         NEW h2, Inherits(u, h, h2, r, i), NEW d2, Inherits(u, d, d2, r, i)
  PROVE  Shape(u, i, h2, d2)
<1> USE DEF Renamed, Inherits
<1> DEFINE was(v) == IF v = i THEN r ELSE v
<1>1. r \in DOMAIN t /\ r # i /\ i \in DOMAIN u
  BY DEF Shape
<1>2. ASSUME NEW v \in DOMAIN u
      PROVE  /\ was(v) \in DOMAIN t /\ u[v].leaf = t[was(v)].leaf /\ u[v].items = t[was(v)].items
             /\ v # i => u[v].key = t[was(v)].key /\ was(v) = v /\ v # r
             /\ u[v].leaf = FALSE => was(v) \in Branches(t)
             /\ h2[v] = h[was(v)] /\ d2[v] = d[was(v)]
  <2>1. CASE v = i
    BY <1>1, <2>1 DEF Branches
  <2>2. CASE v # i
    BY <1>1, <2>2 DEF Branches
  <2> QED
    BY <2>1, <2>2
<1>3. \A v, w \in DOMAIN u : was(v) = was(w) => v = w
  BY <1>1
<1>4. \A v \in Branches(u) : v \in DOMAIN u /\ was(v) \in Branches(t) /\ u[v].items = t[was(v)].items
  BY <1>2 DEF Branches
<1>5. \A v \in DOMAIN t \ {r} : v \in DOMAIN u /\ v # i /\ was(v) = v
  OBVIOUS
<1>6. Kinds(u)
  <2>1. \A w \in DOMAIN t : /\ t[w].leaf \in BOOLEAN /\ t[w].key \in Nat /\ t[w].items \subseteq Elem
                            /\ \A e, f \in t[w].items : e.key = f.key => e = f
    BY DEF Shape, Kinds
  <2>2. SUFFICES ASSUME NEW v \in DOMAIN u
                 PROVE  /\ u[v].leaf \in BOOLEAN /\ u[v].key \in Nat /\ u[v].items \subseteq Elem
                        /\ \A e, f \in u[v].items : e.key = f.key => e = f
    BY DEF Kinds
  <2>3. u[v].key \in Nat
    BY <1>2, <2>1
  <2>4. was(v) \in DOMAIN t /\ u[v].leaf = t[was(v)].leaf /\ u[v].items = t[was(v)].items
    BY <1>2
  <2> HIDE DEF was
  <2>5. /\ t[was(v)].leaf \in BOOLEAN /\ t[was(v)].items \subseteq Elem
        /\ \A e, f \in t[was(v)].items : e.key = f.key => e = f
    BY <2>1, <2>4
  <2> QED
    BY <2>3, <2>4, <2>5
<1>7. Heights(u, i, h2)
  <2>1. \A w \in DOMAIN t : h[w] \in Nat /\ (t[w].leaf <=> h[w] = 0) /\ (w # r => h[w] < h[r])
    BY DEF Shape, Heights
  <2>2. h2[i] = h[r]
    BY <1>1
  <2>3. SUFFICES ASSUME NEW v \in DOMAIN u
                 PROVE  h2[v] \in Nat /\ (u[v].leaf <=> h2[v] = 0) /\ (v # i => h2[v] < h2[i])
    BY DEF Heights
  <2>4. v # i => was(v) # r
    BY <1>2
  <2>5. was(v) \in DOMAIN t /\ u[v].leaf = t[was(v)].leaf /\ h2[v] = h[was(v)]
    BY <1>2
  <2> HIDE DEF was
  <2>6. /\ h[was(v)] \in Nat /\ (t[was(v)].leaf <=> h[was(v)] = 0)
        /\ was(v) # r => h[was(v)] < h[r]
    BY <2>1, <2>5
  <2> QED
    BY <2>2, <2>4, <2>5, <2>6
<1>8. Domains(u, i, d2)
  <2>1. \A w \in DOMAIN t : /\ d[w] \subseteq Nat /\ \A f \in t[w].items : f.key \in d[w]
                            /\ w # r => t[w].key \in d[w]
    BY DEF Shape, Domains
  <2>2. SUFFICES ASSUME NEW v \in DOMAIN u
                 PROVE  /\ d2[v] \subseteq Nat /\ \A f \in u[v].items : f.key \in d2[v]
                        /\ v # i => u[v].key \in d2[v]
    BY DEF Domains
  <2>3. v # i => was(v) # r
    BY <1>2
  <2> HIDE DEF was
  <2> QED
    BY <1>2, <2>1, <2>3
<1>9. Children(u, i, h2, d2)
  <2>1. SUFFICES ASSUME NEW v \in Branches(u)
                 PROVE  /\ \A e \in u[v].items : /\ e.val \in DOMAIN u \ {i} /\ h2[e.val] + 1 = h2[v]
                                                 /\ u[e.val].key = e.key /\ d2[e.val] \subseteq d2[v]
                        /\ \A e, f \in u[v].items : e.key < f.key => Apart(d2[e.val], d2[f.val])
    BY DEF Children
  <2>2. was(v) \in Branches(t) /\ u[v].items = t[was(v)].items /\ h2[v] = h[was(v)] /\ d2[v] = d[was(v)]
    BY <1>2, <1>4
  <2> HIDE DEF was
  <2>3. \A e \in t[was(v)].items : /\ e.val \in DOMAIN t \ {r} /\ h[e.val] + 1 = h[was(v)]
                              /\ t[e.val].key = e.key /\ d[e.val] \subseteq d[was(v)]
    BY <2>2, ChildFacts
  <2>4. \A e, f \in t[was(v)].items : e.key < f.key => Apart(d[e.val], d[f.val])
    BY <2>2 DEF Shape, Children
  <2>5. \A w \in DOMAIN t \ {r} : w \in DOMAIN u \ {i} /\ u[w].key = t[w].key /\ h2[w] = h[w] /\ d2[w] = d[w]
    OBVIOUS
  <2> QED
    BY <2>2, <2>3, <2>4, <2>5
<1>10. OneParent(u)
  <2>1. SUFFICES ASSUME NEW v \in Branches(u), NEW w \in Branches(u),
                        NEW e \in u[v].items, NEW f \in u[w].items, e.val = f.val
                 PROVE  v = w
    BY DEF OneParent
  <2>2. /\ was(v) \in Branches(t) /\ was(w) \in Branches(t) /\ e \in t[was(v)].items
        /\ f \in t[was(w)].items /\ v \in DOMAIN u /\ w \in DOMAIN u
    BY <1>4
  <2> HIDE DEF was
  <2>3. was(v) = was(w)
    BY <2>1, <2>2, TheParent
  <2> QED
    BY <1>3, <2>2, <2>3
<1>11. AllHaveParents(u, i)
  <2>1. SUFFICES ASSUME NEW v \in DOMAIN t \ {r}
                 PROVE  \E q \in Branches(u) : \E e \in u[q].items : e.val = v
    BY DEF AllHaveParents
  <2>2. PICK q \in Branches(t) : \E e \in t[q].items : e.val = v
    BY DEF Shape, AllHaveParents
  <2>3. CASE q = r
    <3>1. i \in Branches(u) /\ u[i].items = t[q].items
      BY <1>1, <2>2, <2>3 DEF Branches
    <3> QED
      BY <2>2, <3>1
  <2>4. CASE q # r
    <3>1. q \in Branches(u) /\ u[q].items = t[q].items
      BY <2>4 DEF Branches
    <3> QED
      BY <2>2, <3>1
  <2> QED
    BY <2>3, <2>4
<1> QED
  BY <1>1, <1>6, <1>7, <1>8, <1>9, <1>10, <1>11 DEF Shape

\* When every node's key is its first key, it guides.
LEMMA TrimShape ==
  ASSUME NEW t, NEW r, NEW h, NEW d, Shape(t, r, h, d),
         \A v \in DOMAIN t : \A e \in t[v].items : t[v].key <= e.key,
         NEW d2, \A v \in DOMAIN t : d2[v] = {x \in d[v] : t[v].key <= x}
  PROVE  Shape(t, r, h, d2) /\ Guided(t, d2)
<1>1. \A v \in DOMAIN t : /\ d[v] \subseteq Nat /\ \A f \in t[v].items : f.key \in d[v]
                          /\ v # r => t[v].key \in d[v]
                          /\ t[v].key \in Nat
  BY DEF Shape, Domains, Kinds
<1>2. Domains(t, r, d2)
  <2>1. SUFFICES ASSUME NEW v \in DOMAIN t
                 PROVE  /\ d2[v] \subseteq Nat /\ \A f \in t[v].items : f.key \in d2[v]
                        /\ v # r => t[v].key \in d2[v]
    BY DEF Domains
  <2> QED
    BY <1>1
<1>3. \A v \in Branches(t) : \A e \in t[v].items :
        /\ e.val \in DOMAIN t \ {r} /\ t[e.val].key = e.key /\ v \in DOMAIN t
        /\ \A x \in d2[e.val] : x \in d[e.val] /\ e.key <= x /\ x \in Nat /\ x \in d2[v]
  <2>1. SUFFICES ASSUME NEW v \in Branches(t), NEW e \in t[v].items
                 PROVE  /\ e.val \in DOMAIN t \ {r} /\ t[e.val].key = e.key /\ v \in DOMAIN t
                        /\ \A x \in d2[e.val] : x \in d[e.val] /\ e.key <= x /\ x \in Nat /\ x \in d2[v]
    OBVIOUS
  <2>2. /\ e.val \in DOMAIN t \ {r} /\ t[e.val].key = e.key /\ d[e.val] \subseteq d[v] /\ e.key \in Nat
        /\ v \in DOMAIN t
    BY ChildFacts DEF Branches
  <2>3. t[v].key <= e.key /\ t[v].key \in Nat
    BY <1>1, <2>2
  <2>4. \A x \in d2[e.val] : x \in d[e.val] /\ e.key <= x /\ x \in Nat
    BY <1>1, <2>2
  <2>5. \A x \in d2[e.val] : x \in d2[v]
    BY <2>2, <2>3, <2>4
  <2> QED
    BY <2>2, <2>4, <2>5
<1>4. Children(t, r, h, d2)
  <2>1. \A v \in Branches(t) : \A e \in t[v].items : h[e.val] + 1 = h[v] /\ d2[e.val] \subseteq d2[v]
    BY <1>3, ChildFacts
  <2>2. ASSUME NEW v \in Branches(t), NEW e \in t[v].items, NEW f \in t[v].items, e.key < f.key
        PROVE  Apart(d2[e.val], d2[f.val])
    <3>1. Apart(d[e.val], d[f.val])
      BY <2>2 DEF Shape, Children
    <3> QED
      BY <1>3, <3>1 DEF Apart
  <2> QED
    BY <1>3, <2>1, <2>2 DEF Children
<1>5. Guided(t, d2)
  BY <1>3 DEF Guided
<1> QED
  BY <1>2, <1>4, <1>5 DEF Shape

-----------------------------------------------------------------------------
\* Two elements in a row that follow each other.
LEMMA RowNext ==
  ASSUME NEW s, Row(s), NEW j \in 1 .. Len(s) - 1
  PROVE  /\ j \in 1 .. Len(s) /\ j + 1 \in 1 .. Len(s)
         /\ s[j] \in ToSet(s) /\ s[j+1] \in ToSet(s) /\ s[j].key < s[j+1].key
         /\ Neighbours(ToSet(s), s[j], s[j+1])
<1>1. /\ Len(s) \in Nat /\ ToSet(s) = {s[i] : i \in 1 .. Len(s)}
      /\ \A i \in 1 .. Len(s) : s[i].key \in Nat
      /\ \A i, m \in 1 .. Len(s) : i < m => s[i].key < s[m].key
  BY RowType
<1>2. j \in 1 .. Len(s) /\ j + 1 \in 1 .. Len(s)
  BY <1>1
<1>3. s[j] \in ToSet(s) /\ s[j+1] \in ToSet(s) /\ s[j].key < s[j+1].key
  BY <1>1, <1>2
<1>4. ASSUME NEW f \in ToSet(s) PROVE f.key <= s[j].key \/ s[j+1].key <= f.key
  <2>1. PICK m \in 1 .. Len(s) : f = s[m]
    BY <1>1
  <2>2. CASE m = j \/ m = j + 1
    BY <1>1, <1>2, <2>1, <2>2
  <2>3. CASE m < j
    <3>1. s[m].key < s[j].key
      BY <1>1, <1>2, <2>3
    <3> QED
      BY <1>1, <1>2, <2>1, <3>1
  <2>4. CASE j + 1 < m
    <3>1. s[j+1].key < s[m].key
      BY <1>1, <1>2, <2>4
    <3> QED
      BY <1>1, <1>2, <2>1, <3>1
  <2> QED
    BY <1>2, <2>2, <2>3, <2>4
<1> QED
  BY <1>2, <1>3, <1>4 DEF Neighbours

-----------------------------------------------------------------------------
(***************************************************************************)
(* Ids for the parts of a node that is split.                              *)
(***************************************************************************)
Below(S, x) == {y \in S : y < x}
RankOf(S, x) == Cardinality(Below(S, x))

LEMMA RankRange ==
  ASSUME NEW S, S \subseteq Int, IsFiniteSet(S), NEW x \in S
  PROVE  /\ IsFiniteSet(Below(S, x)) /\ Cardinality(S) \in Nat
         /\ RankOf(S, x) \in Nat /\ RankOf(S, x) \in 0 .. (Cardinality(S) - 1)
<1>1. IsFiniteSet(S \ {x}) /\ Cardinality(S \ {x}) = Cardinality(S) - 1 /\ Cardinality(S) \in Nat
  BY FS_RemoveElement, FS_CardinalityType
<1>2. Below(S, x) \in SUBSET (S \ {x})
  BY DEF Below
<1>3. IsFiniteSet(Below(S, x)) /\ RankOf(S, x) <= Cardinality(S) - 1
  BY <1>1, <1>2, FS_Subset DEF RankOf
<1>4. RankOf(S, x) \in Nat
  BY <1>3, FS_CardinalityType DEF RankOf
<1> QED
  BY <1>1, <1>3, <1>4

LEMMA RankGrows ==
  ASSUME NEW S, S \subseteq Int, IsFiniteSet(S), NEW x \in S, NEW y \in S, x < y
  PROVE  RankOf(S, x) < RankOf(S, y)
<1>1. /\ IsFiniteSet(Below(S, x)) /\ IsFiniteSet(Below(S, y))
      /\ RankOf(S, x) \in Nat /\ RankOf(S, y) \in Nat
  BY RankRange
<1>2. Below(S, x) \in SUBSET Below(S, y)
  <2>1. \A z \in S : z < x => z < y
    <3>1. x \in Int /\ y \in Int /\ \A z \in S : z \in Int
      OBVIOUS
    <3> QED
      BY <3>1
  <2> QED
    BY <2>1 DEF Below
<1>3. x \in Below(S, y) /\ x \notin Below(S, x)
  BY DEF Below
<1>4. RankOf(S, x) <= RankOf(S, y) /\ (RankOf(S, x) = RankOf(S, y) => Below(S, x) = Below(S, y))
  BY <1>1, <1>2, FS_Subset DEF RankOf
<1> QED
  BY <1>1, <1>3, <1>4

\* In a finite set of numbers every rank is taken.
LEMMA RankTaken ==
  ASSUME NEW S, S \subseteq Int, IsFiniteSet(S), NEW i \in 1 .. Cardinality(S)
  PROVE  \E x \in S : RankOf(S, x) = i - 1
<1> DEFINE n == Cardinality(S)
           f == [x \in S |-> RankOf(S, x)]
           R == 0 .. (n - 1)
<1>1. n \in Nat
  BY FS_CardinalityType
<1>2. f \in [S -> R]
  BY RankRange
<1>3. \A x, y \in S : x # y => RankOf(S, x) # RankOf(S, y)
  <2> SUFFICES ASSUME NEW x \in S, NEW y \in S, x # y PROVE RankOf(S, x) # RankOf(S, y)
    OBVIOUS
  <2>1. x < y \/ y < x
    OBVIOUS
  <2>2. RankOf(S, x) \in Nat /\ RankOf(S, y) \in Nat
    BY RankRange
  <2>3. x < y => RankOf(S, x) < RankOf(S, y)
    BY RankGrows
  <2>4. y < x => RankOf(S, y) < RankOf(S, x)
    BY RankGrows
  <2> QED
    BY <2>1, <2>2, <2>3, <2>4
<1>4. f \in Injection(S, R)
  BY <1>2, <1>3 DEF Injection, IsInjective
<1>5. IsFiniteSet(R) /\ Cardinality(R) = n
  <2> HIDE DEF n
  <2>1. 0 \in Int /\ n - 1 \in Int /\ (n - 1) - 0 + 1 = n /\ (0 <= n - 1 \/ n = 0)
    BY <1>1
  <2> QED
    BY <2>1, FS_Interval
<1>6. f \in Surjection(S, R)
  BY <1>4, <1>5, FS_Injection
<1>7. i - 1 \in R
  BY <1>1
<1> HIDE DEF R
<1> QED
  BY <1>6, <1>7 DEF Surjection

-----------------------------------------------------------------------------
(***************************************************************************)
(* The parts.                                                              *)
(***************************************************************************)
\* s is cut into parts, in order; none is empty, or s is.
AreParts(parts, s) ==
  /\ Len(parts) \in Nat \ {0} /\ DOMAIN parts = 1 .. Len(parts)
  /\ \A j \in 1 .. Len(parts) : /\ Row(parts[j]) /\ ToSet(parts[j]) \subseteq ToSet(s)
                                /\ Len(s) >= 2 => Len(parts[j]) >= 2
  /\ \A e \in ToSet(s) : \E j \in 1 .. Len(parts) : e \in ToSet(parts[j])
  /\ \A i, j \in 1 .. Len(parts) : i < j => InOrder(ToSet(parts[i]), ToSet(parts[j]))
  /\ Len(parts) = 1 => ToSet(parts[1]) = ToSet(s)
  /\ Len(parts) > 1 => Len(s) >= 2

\* Where the next part starts.
LEMMA NextStartStep ==
  ASSUME NEW leaf \in BOOLEAN, NEW s, Row(s), NEW i \in 1 .. Len(s) + 1
  PROVE  /\ NextStart(leaf, s)[i] \in 1 .. Len(s) + 1
         /\ \/ NextStart(leaf, s)[i] = i
            \/ i + 2 <= NextStart(leaf, s)[i] /\ NextStart(leaf, s)[i] + 2 <= Len(s)
<1> DEFINE rest == SubSeq(s, i, Len(s))
           n == Len(rest)
           I == {n - 3} \cup {x \in 2 .. n - 3 : Size(leaf, SubSeq(rest, 1, x + 1)) > Threshold}
<1>1. Len(s) \in Nat
  BY RowType
<1>2. n = Len(s) - i + 1 /\ n \in Nat
  BY <1>1, RowSub
<1>3. NextStart(leaf, s)[i] = IF Fits(leaf, rest) THEN i ELSE i + SplitIndex(leaf, rest)
  BY DEF NextStart
<1>4. SplitIndex(leaf, rest) = Min(I)
  <2>1. I = {n - MinKeysPerPage - 1} \cup
            {x \in MinKeysPerPage .. n - MinKeysPerPage - 1 : Size(leaf, SubSeq(rest, 1, x + 1)) > Threshold}
    BY <1>2 DEF MinKeysPerPage
  <2> QED
    BY <2>1 DEF SplitIndex
<1>5. ~Fits(leaf, rest) => n > 4
  BY <1>2 DEF Fits, MinKeysPerPage
<1> HIDE DEF rest, n
<1>6. CASE Fits(leaf, rest)
  BY <1>3, <1>6
<1>7. CASE ~Fits(leaf, rest)
  <2>1. \A x \in I : x \in 2 .. n - 3
    BY <1>2, <1>5, <1>7
  <2>2. I # {} /\ I \in SUBSET Nat
    <3>1. n - 3 \in I
      OBVIOUS
    <3>2. \A x \in 2 .. n - 3 : x \in Nat
      BY <1>2
    <3> HIDE DEF I
    <3> QED
      BY <2>1, <3>1, <3>2
  <2> HIDE DEF I
  <2>3. Min(I) \in I
    <3>1. \E x \in I : \A y \in I : x <= y
      BY <2>2, LeastNumber
    <3> QED
      BY <3>1 DEF Min
  <2>4. Min(I) \in 2 .. n - 3
    BY <2>1, <2>3
  <2> DEFINE m == Min(I)
  <2>5. m \in 2 .. n - 3 /\ NextStart(leaf, s)[i] = i + m
    BY <1>3, <1>4, <1>7, <2>4
  <2> HIDE DEF m
  <2> QED
    BY <1>1, <1>2, <2>5
<1> QED
  BY <1>6, <1>7

\* The starts are the way of NextStart.
LEMMA StartsWay ==
  ASSUME NEW leaf \in BOOLEAN, NEW s, Row(s)
  PROVE  IsWay(NextStart(leaf, s), 1, Follow(NextStart(leaf, s), 1))
<1> DEFINE next == NextStart(leaf, s)
           n == Len(s)
           rank == [i \in 1 .. n + 1 |-> n + 1 - i]
<1>1. n \in Nat /\ DOMAIN next = 1 .. n + 1 /\ next = [i \in 1 .. n + 1 |-> next[i]]
  BY RowType DEF NextStart
<1>2. \A i \in 1 .. n + 1 : /\ next[i] \in 1 .. n + 1
                            /\ next[i] = i \/ (i + 2 <= next[i] /\ next[i] + 2 <= n)
  BY NextStartStep
<1> HIDE DEF next, n
<1>3. Ranked(next, rank)
  <2>1. next \in [1 .. n + 1 -> 1 .. n + 1]
    BY <1>1, <1>2
  <2>2. rank \in [1 .. n + 1 -> Nat]
    BY <1>1
  <2>3. \A i \in 1 .. n + 1 : next[i] # i => rank[next[i]] < rank[i]
    BY <1>1, <1>2
  <2> QED
    BY <1>1, <2>1, <2>2, <2>3 DEF Ranked
<1> HIDE DEF rank
<1> QED
  <2>1. 1 \in DOMAIN next
    BY <1>1
  <2> QED
    BY <1>3, <2>1, FollowIsWay DEF next

\* The starts grow, and a start that is not the last leaves two elements before the next.
LEMMA Starts ==
  ASSUME NEW leaf \in BOOLEAN, NEW s, Row(s), NEW w, w = Follow(NextStart(leaf, s), 1)
  PROVE  /\ Len(w) \in Nat \ {0} /\ DOMAIN w = 1 .. Len(w) /\ w[1] = 1
         /\ \A j \in 1 .. Len(w) : w[j] \in 1 .. Len(s) + 1
         /\ \A j \in 1 .. Len(w) - 1 : w[j] + 2 <= w[j+1] /\ w[j+1] + 2 <= Len(s)
         /\ \A i, j \in 1 .. Len(w) : i < j => w[i] < w[j]
<1> DEFINE next == NextStart(leaf, s)
           n == Len(s)
<1>1. n \in Nat /\ DOMAIN next = 1 .. n + 1 /\ next = [i \in 1 .. n + 1 |-> next[i]]
  BY RowType DEF NextStart
<1>2. \A i \in 1 .. n + 1 : /\ next[i] \in 1 .. n + 1
                            /\ next[i] = i \/ (i + 2 <= next[i] /\ next[i] + 2 <= n)
  BY NextStartStep
<1> HIDE DEF next, n
<1>3. IsWay(next, 1, w)
  BY StartsWay DEF next
<1>4. /\ w \in Seq(1 .. n + 1) /\ Len(w) \in Nat \ {0} /\ w[1] = 1
      /\ \A i \in 1 .. Len(w) - 1 : w[i+1] = next[w[i]] /\ next[w[i]] # w[i]
  BY <1>1, <1>3 DEF IsWay
<1>5. DOMAIN w = 1 .. Len(w) /\ \A j \in 1 .. Len(w) : w[j] \in 1 .. n + 1
  <2> DEFINE D == 1 .. n + 1
  <2>1. w \in Seq(D)
    BY <1>4
  <2> HIDE DEF D
  <2>2. DOMAIN w = 1 .. Len(w) /\ \A j \in 1 .. Len(w) : w[j] \in D
    BY <2>1
  <2> QED
    BY <2>2 DEF D
<1> DEFINE l == Len(w)
<1>6. ASSUME NEW j \in 1 .. l - 1 PROVE w[j] + 2 <= w[j+1] /\ w[j+1] + 2 <= n
  <2>1. j \in 1 .. l /\ w[j] \in 1 .. n + 1
    BY <1>4, <1>5
  <2> QED
    BY <1>2, <1>4, <2>1
<1>7. ASSUME NEW i \in 1 .. l, NEW j \in 1 .. l, i < j PROVE w[i] < w[j]
  <2> DEFINE bad == {b \in 1 .. l : i < b /\ ~(w[i] < w[b])}
  <2>1. SUFFICES ASSUME bad # {} PROVE FALSE
    BY <1>7
  <2>2. PICK b \in bad : \A c \in bad : b <= c
    <3>1. bad \in SUBSET Nat
      BY <1>4
    <3> HIDE DEF bad
    <3> QED
      BY <2>1, <3>1, LeastNumber
  <2>3. b \in 1 .. l /\ i < b /\ ~(w[i] < w[b]) /\ b - 1 \in 1 .. l - 1 /\ b - 1 \in 1 .. l
    BY <1>4, <2>2
  <2>4. w[b-1] + 2 <= w[(b-1)+1] /\ (b-1)+1 = b
    BY <1>6, <2>3
  <2>5. w[i] \in Nat /\ w[b] \in Nat /\ w[b-1] \in Nat
    BY <1>1, <1>5, <2>3
  <2>6. b - 1 \notin bad
    <3>1. ~(b <= b - 1)
      BY <2>3
    <3> QED
      BY <2>2, <3>1
  <2>7. i = b - 1 \/ w[i] < w[b-1]
    BY <2>3, <2>6
  <2> QED
    BY <2>3, <2>4, <2>5, <2>7
<1> HIDE DEF l
<1>8. Len(w) = l /\ Len(s) = n
  BY DEF l, n
<1> QED
  BY <1>4, <1>5, <1>6, <1>7, <1>8 DEF l, n

LEMMA SplitParts ==
  ASSUME NEW leaf \in BOOLEAN, NEW s, Row(s)
  PROVE  AreParts(Split(leaf, s), s)
<1> DEFINE w == Follow(NextStart(leaf, s), 1)
           l == Len(w)
           n == Len(s)
           parts == Split(leaf, s)
           end(j) == IF j = l THEN n ELSE w[j+1] - 1
<1>1. /\ l \in Nat \ {0} /\ DOMAIN w = 1 .. l /\ w[1] = 1
      /\ \A j \in 1 .. l : w[j] \in 1 .. n + 1
      /\ \A j \in 1 .. l - 1 : w[j] + 2 <= w[j+1] /\ w[j+1] + 2 <= n
      /\ \A i, j \in 1 .. l : i < j => w[i] < w[j]
  BY Starts
<1>2. parts = [j \in 1 .. l |-> SubSeq(s, w[j], end(j))]
  BY <1>1 DEF Split
<1>3. /\ n \in Nat /\ DOMAIN s = 1 .. n /\ ToSet(s) = {s[i] : i \in 1 .. n}
      /\ \A i \in 1 .. n : s[i].key \in Nat
      /\ \A i, j \in 1 .. n : i < j => s[i].key < s[j].key
  BY RowType
<1> HIDE DEF w, l, n, parts
<1>4. DOMAIN parts = 1 .. l /\ Len(parts) = l
  <2>1. DOMAIN parts = 1 .. l
    BY <1>2
  <2> DEFINE X == {SubSeq(s, w[j], end(j)) : j \in 1 .. l}
  <2>2. parts \in [1 .. l -> X]
    BY <1>2
  <2> HIDE DEF X
  <2>3. parts \in Seq(X)
    BY <1>1, <2>2 DEF Seq
  <2> QED
    BY <1>1, <2>1, <2>3
<1>5. ASSUME NEW j \in 1 .. l
      PROVE  /\ w[j] \in Nat \ {0} /\ end(j) \in Nat /\ end(j) <= n
             /\ w[j] <= end(j) + 1
             /\ l # 1 => w[j] + 1 <= end(j)
             /\ l = 1 => w[j] = 1 /\ end(j) = n
  <2>1. CASE j # l
    <3>1. j \in 1 .. l - 1 /\ j + 1 \in 1 .. l
      BY <1>1, <2>1
    <3>2. w[j] + 2 <= w[j+1] /\ w[j+1] \in 1 .. n + 1 /\ w[j] \in 1 .. n + 1
      BY <1>1, <3>1
    <3> QED
      BY <1>1, <1>3, <2>1, <3>2
  <2>2. CASE j = l /\ l # 1
    <3>1. j - 1 \in 1 .. l - 1 /\ (j - 1) + 1 = j
      BY <1>1, <2>2
    <3>2. w[(j-1)+1] + 2 <= n
      BY <1>1, <3>1
    <3>3. w[j] + 2 <= n /\ w[j] \in 1 .. n + 1
      BY <1>1, <3>1, <3>2
    <3> QED
      BY <1>3, <2>2, <3>3
  <2>3. CASE j = l /\ l = 1
    BY <1>1, <1>3, <2>3
  <2> QED
    BY <2>1, <2>2, <2>3
<1>6. ASSUME NEW j \in 1 .. l
      PROVE  /\ Row(parts[j]) /\ ToSet(parts[j]) = {s[i] : i \in w[j] .. end(j)}
             /\ Len(parts[j]) = IF w[j] <= end(j) THEN end(j) - w[j] + 1 ELSE 0
  <2>1. parts[j] = SubSeq(s, w[j], end(j))
    BY <1>2
  <2>2. end(j) <= Len(s)
    BY <1>5 DEF n
  <2> DEFINE a == w[j]
             b == end(j)
  <2>3. a \in Nat \ {0} /\ b \in Nat /\ b <= Len(s)
    BY <1>5, <2>2
  <2> HIDE DEF a, b
  <2>4. /\ Row(SubSeq(s, a, b)) /\ ToSet(SubSeq(s, a, b)) = {s[i] : i \in a .. b}
        /\ Len(SubSeq(s, a, b)) = IF a <= b THEN b - a + 1 ELSE 0
    BY <2>3, RowSub
  <2> QED
    BY <2>1, <2>4 DEF a, b
<1> HIDE DEF end
<1>7. ASSUME NEW j \in 1 .. l
      PROVE  ToSet(parts[j]) \subseteq ToSet(s) /\ (n >= 2 => Len(parts[j]) >= 2)
  <2>1. \A i \in w[j] .. end(j) : i \in 1 .. n
    BY <1>3, <1>5
  <2>2. ToSet(parts[j]) \subseteq ToSet(s)
    <3>1. SUFFICES ASSUME NEW e \in ToSet(parts[j]) PROVE e \in ToSet(s)
      OBVIOUS
    <3>2. PICK i \in w[j] .. end(j) : e = s[i]
      BY <1>6
    <3> QED
      BY <1>3, <2>1, <3>2
  <2>3. n >= 2 => Len(parts[j]) >= 2
    <3> DEFINE m == Len(parts[j])
    <3>1. m = IF w[j] <= end(j) THEN end(j) - w[j] + 1 ELSE 0
      BY <1>6
    <3> HIDE DEF m
    <3>2. n >= 2 => m >= 2
      BY <1>3, <1>5, <3>1
    <3> QED
      BY <3>2 DEF m
  <2> QED
    BY <2>2, <2>3
<1>8. ASSUME NEW e \in ToSet(s) PROVE \E j \in 1 .. l : e \in ToSet(parts[j])
  <2>1. PICK i \in 1 .. n : e = s[i]
    BY <1>3
  <2> DEFINE later == {j \in 1 .. l : i < w[j]}
  <2>2. CASE later = {}
    <3>1. l \in 1 .. l /\ ~(i < w[l])
      <4>1. \A j \in 1 .. l : ~(i < w[j])
        BY <2>2
      <4>2. l \in 1 .. l
        BY <1>1
      <4> QED
        BY <4>1, <4>2
    <3>2. i \in w[l] .. end(l)
      BY <1>1, <1>3, <3>1 DEF end
    <3> QED
      BY <1>6, <2>1, <3>1, <3>2
  <2>3. CASE later # {}
    <3>1. PICK j \in later : \A k \in later : j <= k
      <4>1. later \in SUBSET Nat
        BY <1>1
      <4> HIDE DEF later
      <4> QED
        BY <2>3, <4>1, LeastNumber
    <3>2. j \in 1 .. l /\ i < w[j] /\ j # 1
      BY <1>1, <3>1
    <3>3. j - 1 \in 1 .. l /\ (j - 1) + 1 = j /\ j - 1 # l
      BY <1>1, <3>2
    <3>4. ~(i < w[j-1])
      <4>1. ~(j <= j - 1)
        BY <3>2
      <4> QED
        BY <3>1, <3>3, <4>1
    <3>5. i \in w[j-1] .. end(j-1)
      <4>1. end(j-1) = w[j] - 1
        BY <3>3 DEF end
      <4>2. w[j] \in Nat /\ w[j-1] \in Nat
        BY <1>5, <3>2, <3>3
      <4> QED
        BY <1>3, <3>2, <3>4, <4>1, <4>2
    <3> QED
      BY <1>6, <2>1, <3>3, <3>5
  <2> QED
    BY <2>2, <2>3
<1>9. ASSUME NEW i \in 1 .. l, NEW j \in 1 .. l, i < j
      PROVE  InOrder(ToSet(parts[i]), ToSet(parts[j]))
  <2>1. i # l /\ i + 1 \in 1 .. l /\ (i + 1 = j \/ i + 1 < j)
    BY <1>1, <1>9
  <2>2. w[i+1] <= w[j] /\ w[i+1] \in Nat
    <3>1. w[i+1] \in Nat /\ w[j] \in Nat
      BY <1>5, <2>1
    <3>2. i + 1 < j => w[i+1] < w[j]
      BY <1>1, <2>1
    <3> QED
      BY <2>1, <3>1, <3>2
  <2>3. end(i) < w[j]
    BY <1>5, <2>1, <2>2 DEF end
  <2>4. ASSUME NEW x \in w[i] .. end(i), NEW y \in w[j] .. end(j) PROVE s[x].key < s[y].key
    <3>1. x \in 1 .. n /\ y \in 1 .. n /\ x < y
      BY <1>3, <1>5, <2>3
    <3> QED
      BY <1>3, <3>1
  <2>5. \A e \in ToSet(parts[i]) : \E x \in w[i] .. end(i) : e = s[x]
    BY <1>6
  <2>6. \A f \in ToSet(parts[j]) : \E y \in w[j] .. end(j) : f = s[y]
    BY <1>6
  <2> QED
    BY <2>4, <2>5, <2>6 DEF InOrder
<1>10. l = 1 => ToSet(parts[1]) = ToSet(s)
  <2>1. ASSUME l = 1 PROVE ToSet(parts[1]) = {s[i] : i \in 1 .. n}
    <3>1. 1 \in 1 .. l /\ w[1] = 1 /\ end(1) = n
      BY <1>1, <1>5, <2>1
    <3> QED
      BY <1>6, <3>1
  <2> QED
    BY <1>3, <2>1
<1>11. Len(s) = n
  BY DEF n
<1>12. l > 1 => n >= 2
  <2>1. SUFFICES ASSUME l > 1 PROVE n >= 2
    OBVIOUS
  <2>2. 1 \in 1 .. l - 1 /\ 1 + 1 = 2 /\ 2 \in 1 .. l
    BY <1>1, <2>1
  <2>3. w[2] \in 1 .. n + 1 /\ w[1+1] + 2 <= n
    BY <1>1, <2>2
  <2> QED
    BY <1>3, <2>2, <2>3
<1>13. AreParts(parts, s)
  BY <1>1, <1>4, <1>6, <1>7, <1>8, <1>9, <1>10, <1>11, <1>12 DEF AreParts
<1> QED
  BY <1>13 DEF parts

-----------------------------------------------------------------------------
(***************************************************************************)
(* FoldLeft.  What it chooses, f, is defined on the sets of indices: op is *)
(* applied to the rest of the set and its greatest member.                 *)
(***************************************************************************)
Folds(f, n, base, op) ==
  /\ DOMAIN f = SUBSET (1 .. n) /\ f[{}] = base
  /\ \A s \in SUBSET (1 .. n) : s # {} => f[s] = op[<<f[s \ {Max(s)}], Max(s)>>]

LEMMA MaxIs ==
  ASSUME NEW n \in Nat, NEW s \in SUBSET (1 .. n), s # {}
  PROVE  Max(s) \in s /\ \A x \in s : x <= Max(s)
<1> DEFINE below == {n - x : x \in s}
<1>1. below \in SUBSET Nat /\ below # {}
  <2>1. \A x \in s : x \in 1 .. n /\ n - x \in Nat
    OBVIOUS
  <2> QED
    BY <2>1
<1>2. PICK m \in below : \A y \in below : m <= y
  <2> HIDE DEF below
  <2> QED
    BY <1>1, LeastNumber
<1>3. PICK x \in s : m = n - x
  BY <1>2
<1>4. \A y \in s : y \in 1 .. n /\ n - x <= n - y
  BY <1>2, <1>3
<1>5. \A y \in s : x >= y
  BY <1>4
<1>6. Max(s) \in s /\ \A y \in s : Max(s) >= y
  <2>1. \E z \in s : \A y \in s : z >= y
    BY <1>5
  <2> QED
    BY <2>1 DEF Max
<1> QED
  BY <1>6

LEMMA MaxRange ==
  ASSUME NEW j \in Nat \ {0}
  PROVE  Max(1 .. j) = j /\ (1 .. j) \ {Max(1 .. j)} = 1 .. j - 1
<1>1. 1 .. j \in SUBSET (1 .. j) /\ j \in 1 .. j
  OBVIOUS
<1>2. Max(1 .. j) \in 1 .. j /\ \A x \in 1 .. j : x <= Max(1 .. j)
  BY <1>1, MaxIs
<1>3. Max(1 .. j) = j
  <2> DEFINE m == Max(1 .. j)
  <2>1. m \in 1 .. j /\ j <= m
    BY <1>1, <1>2
  <2> HIDE DEF m
  <2>2. m = j
    BY <2>1
  <2> QED
    BY <2>2 DEF m
<1> QED
  BY <1>3

\* There is such a function.
LEMMA FoldExists ==
  ASSUME NEW n \in Nat, NEW X, NEW base \in X, NEW op \in [X \X (1 .. n) -> X]
  PROVE  \E f \in [SUBSET (1 .. n) -> X] : Folds(f, n, base, op)
<1> DEFINE Upto(f, k) == /\ f \in [SUBSET (1 .. k) -> X] /\ f[{}] = base
                         /\ \A s \in SUBSET (1 .. k) :
                              s # {} => f[s] = op[<<f[s \ {Max(s)}], Max(s)>>]
           bad == {k \in 0 .. n : ~\E f : Upto(f, k)}
<1>1. SUFFICES ASSUME bad # {} PROVE FALSE
  <2>1. n \in 0 .. n
    OBVIOUS
  <2>2. ASSUME bad = {} PROVE \E f : Upto(f, n)
    BY <2>1, <2>2
  <2>3. ASSUME NEW f, Upto(f, n) PROVE f \in [SUBSET (1 .. n) -> X] /\ Folds(f, n, base, op)
    BY <2>3 DEF Folds
  <2> QED
    BY <2>2, <2>3
<1>2. PICK k \in bad : \A m \in bad : k <= m
  <2>1. bad \in SUBSET Nat
    OBVIOUS
  <2> HIDE DEF bad
  <2> QED
    BY <1>1, <2>1, LeastNumber
<1>3. k # 0
  <2> DEFINE f == [s \in SUBSET (1 .. 0) |-> base]
  <2>1. 1 .. 0 = {} /\ \A s \in SUBSET (1 .. 0) : s = {}
    OBVIOUS
  <2>2. f \in [SUBSET (1 .. 0) -> X] /\ f[{}] = base
    OBVIOUS
  <2>3. Upto(f, 0)
    BY <2>1, <2>2
  <2> QED
    BY <1>2, <2>3
<1>4. k \in 1 .. n /\ k - 1 \in 0 .. n /\ k - 1 \notin bad
  <2>1. k \in 0 .. n /\ \A m \in bad : k <= m
    BY <1>2
  <2> HIDE DEF bad
  <2>2. k \in 1 .. n /\ k - 1 \in 0 .. n /\ ~(k <= k - 1)
    BY <1>3, <2>1
  <2> QED
    BY <2>1, <2>2
<1>5. PICK f : Upto(f, k - 1)
  BY <1>4
<1> DEFINE g == [s \in SUBSET (1 .. k) |-> IF k \in s THEN op[<<f[s \ {k}], k>>] ELSE f[s]]
<1>6. \A s \in SUBSET (1 .. k) : s \ {k} \in SUBSET (1 .. k - 1) /\ (k \notin s => s \in SUBSET (1 .. k - 1))
  BY <1>4
<1>7. \A s \in SUBSET (1 .. k - 1) : f[s] \in X
  BY <1>5
<1>8. g \in [SUBSET (1 .. k) -> X]
  <2>1. ASSUME NEW s \in SUBSET (1 .. k)
        PROVE  (IF k \in s THEN op[<<f[s \ {k}], k>>] ELSE f[s]) \in X
    <3>1. f[s \ {k}] \in X /\ (k \notin s => f[s] \in X)
      BY <1>6, <1>7
    <3> QED
      BY <1>4, <3>1
  <2> QED
    BY <2>1
<1>9. g[{}] = base
  <2>1. {} \in SUBSET (1 .. k) /\ k \notin {}
    OBVIOUS
  <2> QED
    BY <1>5, <2>1
<1>10. ASSUME NEW s \in SUBSET (1 .. k), s # {} PROVE g[s] = op[<<g[s \ {Max(s)}], Max(s)>>]
  <2>1. Max(s) \in s /\ (\A x \in s : x <= Max(s)) /\ Max(s) \in 1 .. k
    <3>1. k \in Nat
      BY <1>4
    <3>2. Max(s) \in s /\ \A x \in s : x <= Max(s)
      BY <1>10, <3>1, MaxIs
    <3> QED
      BY <3>2
  <2> DEFINE m == Max(s)
             u == s \ {m}
  <2>2. CASE k \in s
    <3>1. m = k
      <4>1. m \in 1 .. k /\ k <= m
        BY <2>1, <2>2
      <4> HIDE DEF m
      <4> QED
        BY <1>4, <4>1
    <3>2. g[s \ {k}] = f[s \ {k}]
      <4>1. s \ {k} \in SUBSET (1 .. k) /\ k \notin s \ {k}
        OBVIOUS
      <4> QED
        BY <4>1
    <3>3. g[s] = op[<<f[s \ {k}], k>>]
      BY <2>2
    <3> HIDE DEF g
    <3> QED
      BY <3>1, <3>2, <3>3
  <2>3. CASE k \notin s
    <3>1. g[s] = f[s]
      BY <2>3
    <3>2. u \in SUBSET (1 .. k) /\ k \notin u
      BY <2>3
    <3>3. g[u] = f[u]
      BY <3>2
    <3>4. f[s] = op[<<f[u], m>>]
      BY <1>5, <1>6, <1>10, <2>3
    <3> HIDE DEF g
    <3> QED
      BY <3>1, <3>3, <3>4
  <2> QED
    BY <2>2, <2>3
<1> HIDE DEF g
<1>11. Upto(g, k)
  BY <1>8, <1>9, <1>10
<1> QED
  BY <1>2, <1>11

\* Sizes are numbers.
LEMMA SizeInt ==
  ASSUME NEW leaf \in BOOLEAN, NEW s, Row(s)
  PROVE  Size(leaf, s) \in Int
<1> DEFINE n == Len(s)
           Eq(f) == f = [x \in SUBSET DOMAIN s |->
                           IF x = {} THEN 0 ELSE f[x \ {Max(x)}] + ElementSize(leaf, s[Max(x)])]
           iter == CHOOSE f : Eq(f)
           op == [p \in Int \X (1 .. n) |-> p[1] + ElementSize(leaf, s[p[2]])]
<1>1. Size(leaf, s) = 2 + iter[DOMAIN s]
  BY DEF Size, FoldLeft, MapThenFoldSet, HeaderSize
<1>2. n \in Nat /\ DOMAIN s = 1 .. n /\ \A i \in 1 .. n : s[i].val \in Int
  BY RowType
<1>3. \A i \in 1 .. n : ElementSize(leaf, s[i]) \in Int
  BY <1>2 DEF ElementSize
<1> HIDE DEF n
<1>4. op \in [Int \X (1 .. n) -> Int]
  BY <1>3
<1>5. \A a \in Int, i \in 1 .. n : op[<<a, i>>] = a + ElementSize(leaf, s[i])
  OBVIOUS
<1> HIDE DEF op
<1>6. PICK f \in [SUBSET (1 .. n) -> Int] : Folds(f, n, 0, op)
  <2>1. 0 \in Int
    OBVIOUS
  <2> QED
    BY <1>2, <1>4, <2>1, FoldExists
<1>7. Eq(f)
  <2>1. ASSUME NEW x \in SUBSET (1 .. n)
        PROVE  f[x] = IF x = {} THEN 0 ELSE f[x \ {Max(x)}] + ElementSize(leaf, s[Max(x)])
    <3>1. CASE x = {}
      BY <1>6, <3>1 DEF Folds
    <3>2. CASE x # {}
      <4>1. Max(x) \in 1 .. n
        BY <1>2, <3>2, MaxIs
      <4>2. f[x] = op[<<f[x \ {Max(x)}], Max(x)>>]
        BY <1>6, <3>2 DEF Folds
      <4>3. f[x \ {Max(x)}] \in Int
        BY <1>6
      <4> QED
        BY <1>5, <3>2, <4>1, <4>2, <4>3
    <3> QED
      BY <3>1, <3>2
  <2>2. f = [x \in SUBSET (1 .. n) |-> f[x]]
    BY <1>6
  <2> QED
    BY <1>2, <2>1, <2>2
<1>8. Eq(iter)
  BY <1>7
<1> HIDE DEF iter
<1>9. ASSUME NEW x \in SUBSET (1 .. n)
      PROVE  iter[x] = IF x = {} THEN 0 ELSE iter[x \ {Max(x)}] + ElementSize(leaf, s[Max(x)])
  BY <1>2, <1>8
<1>10. iter[1 .. 0] = 0
  <2>1. 1 .. 0 = {}
    OBVIOUS
  <2> QED
    BY <1>9, <2>1
<1>11. ASSUME NEW j \in 1 .. n PROVE iter[1 .. j] = iter[1 .. j - 1] + ElementSize(leaf, s[j])
  <2>1. 1 .. j \in SUBSET (1 .. n) /\ 1 .. j # {} /\ j \in Nat \ {0}
    BY <1>2
  <2>2. Max(1 .. j) = j /\ (1 .. j) \ {Max(1 .. j)} = 1 .. j - 1
    BY <2>1, MaxRange
  <2> QED
    BY <1>9, <2>1, <2>2
<1> DEFINE bad == {j \in 0 .. n : iter[1 .. j] \notin Int}
<1>12. bad = {}
  <2>1. SUFFICES ASSUME bad # {} PROVE FALSE
    OBVIOUS
  <2>2. PICK j \in bad : \A m \in bad : j <= m
    <3>1. bad \in SUBSET Nat
      BY <1>2
    <3> HIDE DEF bad
    <3> QED
      BY <2>1, <3>1, LeastNumber
  <2>3. j # 0
    BY <1>10, <2>2
  <2>4. j \in 1 .. n /\ j - 1 \in 0 .. n /\ ~(j <= j - 1)
    BY <1>2, <2>2, <2>3
  <2>5. iter[1 .. j - 1] \in Int
    BY <2>2, <2>4
  <2> QED
    BY <1>3, <1>11, <2>2, <2>4, <2>5
<1>13. iter[DOMAIN s] \in Int
  <2>1. n \in 0 .. n
    BY <1>2
  <2> QED
    BY <1>2, <1>12, <2>1
<1> QED
  BY <1>1, <1>13

\* What follows a start that is not the last fits: splitIndex stops before a part grows too large.
LEMMA PartFits ==
  ASSUME NEW leaf \in BOOLEAN, NEW s, Row(s), NEW i \in 1 .. Len(s) + 1, NEW k,
         k = NextStart(leaf, s)[i]
  PROVE  /\ k = i => Fits(leaf, SubSeq(s, i, Len(s)))
         /\ k # i => Fits(leaf, SubSeq(s, i, k - 1))
<1> DEFINE rest == SubSeq(s, i, Len(s))
           n == Len(rest)
           part(x) == SubSeq(rest, 1, x)
           I == {n - 3} \cup {x \in 2 .. n - 3 : Size(leaf, part(x + 1)) > Threshold}
<1>1. Len(s) \in Nat
  BY RowType
<1>2. n = Len(s) - i + 1 /\ n \in Nat /\ Row(rest)
  BY <1>1, RowSub
<1>3. k = IF Fits(leaf, rest) THEN i ELSE i + SplitIndex(leaf, rest)
  BY DEF NextStart
<1>4. SplitIndex(leaf, rest) = Min(I)
  <2>1. I = {n - MinKeysPerPage - 1} \cup
            {x \in MinKeysPerPage .. n - MinKeysPerPage - 1 : Size(leaf, SubSeq(rest, 1, x + 1)) > Threshold}
    BY <1>2 DEF MinKeysPerPage
  <2> QED
    BY <2>1 DEF SplitIndex
<1>5. ~Fits(leaf, rest) => n > 4
  BY <1>2 DEF Fits, MinKeysPerPage
<1>6. \A x \in 0 .. n : Row(part(x)) /\ Len(part(x)) = x /\ Size(leaf, part(x)) \in Int
  <2>1. ASSUME NEW x \in 0 .. n
        PROVE  Row(part(x)) /\ Len(part(x)) = x
    <3>1. 1 \in Nat \ {0} /\ x \in Nat /\ x <= Len(rest)
      BY <1>2
    <3> DEFINE y == part(x)
    <3>2. Row(y) /\ Len(y) = IF 1 <= x THEN x - 1 + 1 ELSE 0
      BY <1>2, <3>1, RowSub
    <3>3. Len(y) = x
      BY <3>1, <3>2
    <3> QED
      BY <3>2, <3>3
  <2> QED
    BY <2>1, SizeInt
<1>7. ASSUME NEW x \in 0 .. n PROVE part(x) = SubSeq(s, i, i + x - 1)
  <2> DEFINE a == SubSeq(s, i, i + x - 1)
             b == part(x)
  <2>1. Row(b) /\ Len(b) = x
    BY <1>6
  <2>2. Row(a) /\ Len(a) = x
    <3>1. i \in Nat \ {0} /\ i + x - 1 \in Nat /\ i + x - 1 <= Len(s)
      BY <1>1, <1>2
    <3>2. Row(a) /\ Len(a) = IF i <= i + x - 1 THEN (i + x - 1) - i + 1 ELSE 0
      BY <3>1, RowSub
    <3>3. Len(a) = x
      BY <3>1, <3>2
    <3> QED
      BY <3>2, <3>3
  <2>3. \A j \in 1 .. x : a[j] = b[j]
    <3>1. SUFFICES ASSUME NEW j \in 1 .. x PROVE a[j] = b[j]
      OBVIOUS
    <3>2. /\ \A m \in 1 .. Len(s) : s[m] \in Elem
          /\ \A m \in 1 .. n : rest[m] \in Elem
      BY <1>2, RowType
    <3>3. a[j] = s[i + j - 1]
      <4>1. \A m \in i .. i + x - 1 : s[m] \in Elem
        BY <1>1, <1>2, <3>2
      <4> QED
        BY <4>1, SubSeqProperties
    <3>4. b[j] = rest[j]
      <4>1. \A m \in 1 .. x : rest[m] \in Elem
        BY <1>2, <3>2
      <4>2. \A m \in 1 .. x - 1 + 1 : b[m] = rest[1 + m - 1]
        BY <4>1, SubSeqProperties
      <4> QED
        BY <4>2
    <3>5. rest[j] = s[i + j - 1]
      <4>1. \A m \in i .. Len(s) : s[m] \in Elem
        BY <1>1, <3>2
      <4>2. \A m \in 1 .. Len(s) - i + 1 : rest[m] = s[i + m - 1]
        BY <1>1, <4>1, SubSeqProperties
      <4>3. j \in 1 .. Len(s) - i + 1
        BY <1>1, <1>2
      <4> QED
        BY <4>2, <4>3
    <3> QED
      BY <3>3, <3>4, <3>5
  <2>4. a \in Seq(Elem) /\ b \in Seq(Elem)
    BY <2>1, <2>2 DEF Row
  <2> HIDE DEF a, b
  <2>5. a = b
    BY <2>1, <2>2, <2>3, <2>4, SeqEqual
  <2> QED
    BY <2>5 DEF a, b
<1> HIDE DEF rest, n, part
<1>8. CASE Fits(leaf, rest)
  BY <1>3, <1>8 DEF rest
<1>9. CASE ~Fits(leaf, rest)
  <2>1. \A x \in I : x \in 2 .. n - 3
    BY <1>2, <1>5, <1>9
  <2>2. \E x \in I : \A y \in I : x <= y
    <3>1. n - 3 \in I
      OBVIOUS
    <3>2. I \in SUBSET Nat
      <4>1. \A x \in 2 .. n - 3 : x \in Nat
        BY <1>2
      <4> HIDE DEF I
      <4> QED
        BY <2>1, <4>1
    <3> HIDE DEF I
    <3> QED
      BY <3>1, <3>2, LeastNumber
  <2> DEFINE m == Min(I)
  <2>3. m \in I /\ \A y \in I : m <= y
    BY <2>2 DEF Min
  <2>4. m \in 2 .. n - 3 /\ k = i + m
    BY <1>3, <1>4, <1>9, <2>1, <2>3
  <2>5. ASSUME m > 4 PROVE Size(leaf, part(m)) <= Threshold
    <3>1. m - 1 \in 2 .. n - 3 /\ ~(m <= m - 1) /\ (m - 1) + 1 = m
      BY <1>2, <2>4, <2>5
    <3>2. m - 1 \notin I
      BY <2>3, <3>1
    <3>3. ~(Size(leaf, part((m - 1) + 1)) > Threshold)
      BY <3>1, <3>2
    <3>4. Size(leaf, part(m)) \in Int
      BY <1>2, <1>6, <2>4
    <3>5. Threshold \in Int
      BY TreeAssumption DEF TreeAssumption, Threshold, FillPercent
    <3> DEFINE z == Size(leaf, part(m))
    <3>6. z \in Int /\ ~(z > Threshold)
      BY <3>1, <3>3, <3>4
    <3> HIDE DEF z
    <3>7. z <= Threshold
      BY <3>5, <3>6
    <3> QED
      BY <3>7 DEF z
  <2> HIDE DEF m, I
  <2>6. Threshold < PageSize /\ Threshold \in Int /\ PageSize \in Nat
    BY TreeAssumption DEF TreeAssumption, Threshold, FillPercent
  <2>7. m \in 0 .. n /\ m \in Nat
    BY <1>2, <2>4
  <2> DEFINE p == part(m)
             z == Size(leaf, p)
             l == Len(p)
  <2>8. l = m /\ z \in Int /\ (m > 4 => z <= Threshold)
    BY <1>6, <2>5, <2>7
  <2>9. Fits(leaf, p)
    <3> HIDE DEF p, z, l
    <3>1. l <= 4 \/ z < PageSize
      BY <2>6, <2>7, <2>8
    <3>2. MinKeysPerPage = 2
      BY DEF MinKeysPerPage
    <3> QED
      BY <3>1, <3>2 DEF Fits, z, l
  <2>10. p = SubSeq(s, i, k - 1)
    <3>1. i + m - 1 = k - 1
      BY <2>4, <2>7
    <3> QED
      BY <1>7, <2>7, <3>1
  <2>11. k # i
    BY <2>4
  <2> QED
    BY <2>9, <2>10, <2>11
<1> QED
  BY <1>8, <1>9

\* The parts fit.
LEMMA SplitFits ==
  ASSUME NEW leaf \in BOOLEAN, NEW s, Row(s)
  PROVE  \A j \in DOMAIN Split(leaf, s) : Fits(leaf, Split(leaf, s)[j])
<1> DEFINE next == NextStart(leaf, s)
           w == Follow(next, 1)
           l == Len(w)
           n == Len(s)
<1>1. /\ l \in Nat \ {0} /\ DOMAIN w = 1 .. l
      /\ \A j \in 1 .. l : w[j] \in 1 .. n + 1
  BY Starts
<1>2. IsWay(next, 1, w)
  BY StartsWay
<1>3. Split(leaf, s) = [j \in 1 .. l |-> SubSeq(s, w[j], IF j = l THEN n ELSE w[j+1] - 1)]
  BY <1>1 DEF Split
<1>4. next[w[l]] = w[l] /\ \A j \in 1 .. l - 1 : w[j+1] = next[w[j]] /\ next[w[j]] # w[j]
  BY <1>2 DEF IsWay
<1> HIDE DEF w, l
<1>5. ASSUME NEW j \in 1 .. l
      PROVE  Fits(leaf, SubSeq(s, w[j], IF j = l THEN n ELSE w[j+1] - 1))
  <2>1. w[j] \in 1 .. n + 1
    BY <1>1
  <2>2. CASE j = l
    BY <1>4, <2>1, <2>2, PartFits
  <2>3. CASE j # l
    <3>1. j \in 1 .. l - 1
      BY <1>1, <2>3
    <3>2. w[j+1] = next[w[j]] /\ next[w[j]] # w[j]
      BY <1>4, <3>1
    <3> QED
      BY <2>1, <2>3, <3>2, PartFits
  <2> QED
    BY <2>2, <2>3
<1> QED
  BY <1>3, <1>5

-----------------------------------------------------------------------------
(***************************************************************************)
(* The puts in a parent.                                                   *)
(***************************************************************************)
\* The keys of the elements in S, but for the one that is replaced, are not among
\* the new keys, nor between them.
Clear(S, old, K, l) ==
  \A f \in S : \/ f.key = old
               \/ f.key < old /\ \A j \in 1 .. l : f.key < K[j]
               \/ old < f.key /\ \A j \in 1 .. l : K[j] < f.key

\* The elements of a parent after the first m parts are put there.
ArePut(s2, s, old, K, ids, m) ==
  /\ Row(s2)
  /\ \A x : x \in ToSet(s2) <=> \/ x \in ToSet(s) /\ x.key # old
                                \/ \E j \in 1 .. m : x = Element(K[j], ids[j])

LEMMA PutNext ==
  ASSUME NEW s, Row(s), NEW old \in Nat, NEW l \in Nat, NEW K, NEW ids,
         \A j \in 1 .. l : K[j] \in Key /\ ids[j] \in Int,
         \A i, j \in 1 .. l : i < j => K[i] < K[j],
         Clear(ToSet(s), old, K, l),
         NEW i \in 1 .. l - 1, NEW s1, ArePut(s1, s, old, K, ids, i)
  PROVE  ArePut(PutElement(s1, K[i+1], Element(K[i+1], ids[i+1])), s, old, K, ids, i + 1)
<1> DEFINE k == K[i+1]
           e == Element(k, ids[i+1])
           s2 == PutElement(s1, k, e)
<1>1. i + 1 \in 1 .. l /\ k \in Nat /\ k \in Key /\ ids[i+1] \in Int
  BY DEF Key
<1>2. e \in Elem /\ e.key = k
  BY <1>1 DEF Element, Elem
<1>3. Row(s1) /\ \A x : x \in ToSet(s1) <=> \/ x \in ToSet(s) /\ x.key # old
                                            \/ \E j \in 1 .. i : x = Element(K[j], ids[j])
  BY DEF ArePut
<1> HIDE DEF k
<1>4. \A f \in ToSet(s1) : f.key # k
  <2>1. SUFFICES ASSUME NEW f \in ToSet(s1) PROVE f.key # k
    OBVIOUS
  <2>2. CASE f \in ToSet(s) /\ f.key # old
    <3>1. f.key < k \/ k < f.key
      BY <1>1, <2>2 DEF Clear, k
    <3>2. f.key \in Nat
      BY <1>3, RowType, <2>1 DEF Elem, Key
    <3> QED
      BY <1>1, <3>1, <3>2
  <2>3. CASE \E j \in 1 .. i : f = Element(K[j], ids[j])
    <3>1. PICK j \in 1 .. i : f = Element(K[j], ids[j])
      BY <2>3
    <3>2. j \in 1 .. l /\ j < i + 1
      OBVIOUS
    <3>3. K[j] < k /\ K[j] \in Nat
      BY <1>1, <3>2 DEF k, Key
    <3>4. f.key = K[j]
      BY <3>1 DEF Element
    <3> QED
      BY <1>1, <3>3, <3>4
  <2> QED
    BY <1>3, <2>2, <2>3
<1> HIDE DEF e
<1>5. Row(s2) /\ ToSet(s2) = {f \in ToSet(s1) : f.key # k} \cup {e}
  <2>1. \A f \in ToSet(s1) : (f.key < k => f.key < e.key) /\ (k < f.key => e.key < f.key)
    BY <1>2
  <2> QED
    BY <1>1, <1>2, <1>3, <2>1, RowPut
<1> HIDE DEF s2
<1>6. \A x : x \in ToSet(s2) <=> x \in ToSet(s1) \/ x = e
  BY <1>4, <1>5
<1>7. ASSUME NEW x
      PROVE  x \in ToSet(s2) <=> \/ x \in ToSet(s) /\ x.key # old
                                 \/ \E j \in 1 .. i + 1 : x = Element(K[j], ids[j])
  <2>1. x = e <=> x = Element(K[i+1], ids[i+1])
    BY DEF e, k
  <2>2. (\E j \in 1 .. i + 1 : x = Element(K[j], ids[j]))
          <=> (\E j \in 1 .. i : x = Element(K[j], ids[j])) \/ x = Element(K[i+1], ids[i+1])
    <3>1. \A j : j \in 1 .. i + 1 <=> j \in 1 .. i \/ j = i + 1
      OBVIOUS
    <3> QED
      BY <3>1
  <2> QED
    BY <1>3, <1>6, <2>1, <2>2
<1>8. ArePut(s2, s, old, K, ids, i + 1)
  BY <1>5, <1>7 DEF ArePut
<1> QED
  BY <1>8 DEF s2, e, k

LEMMA PutFirst ==
  ASSUME NEW s, Row(s), NEW old \in Nat, NEW l \in Nat \ {0}, NEW K, NEW ids,
         \A j \in 1 .. l : K[j] \in Key /\ ids[j] \in Int,
         Clear(ToSet(s), old, K, l)
  PROVE  ArePut(PutElement(s, old, Element(K[1], ids[1])), s, old, K, ids, 1)
<1> DEFINE e == Element(K[1], ids[1])
           s2 == PutElement(s, old, e)
<1>1. 1 \in 1 .. l /\ K[1] \in Key /\ K[1] \in Nat /\ ids[1] \in Int
  BY DEF Key
<1>2. e \in Elem /\ e.key = K[1]
  BY <1>1 DEF Element, Elem
<1> HIDE DEF e
<1>3. \A f \in ToSet(s) : (f.key < old => f.key < e.key) /\ (old < f.key => e.key < f.key)
  <2>1. SUFFICES ASSUME NEW f \in ToSet(s)
                 PROVE  (f.key < old => f.key < e.key) /\ (old < f.key => e.key < f.key)
    OBVIOUS
  <2>2. f.key \in Nat
    BY RowType, <2>1 DEF Elem, Key
  <2>3. f.key = old \/ (f.key < old /\ f.key < K[1]) \/ (old < f.key /\ K[1] < f.key)
    BY <1>1, <2>1 DEF Clear
  <2> QED
    BY <1>2, <2>2, <2>3
<1>4. Row(s2) /\ ToSet(s2) = {f \in ToSet(s) : f.key # old} \cup {e}
  BY <1>2, <1>3, RowPut
<1> HIDE DEF s2
<1>5. \A x : (\E j \in 1 .. 1 : x = Element(K[j], ids[j])) <=> x = e
  BY DEF e
<1>6. ArePut(s2, s, old, K, ids, 1)
  BY <1>4, <1>5 DEF ArePut
<1> QED
  BY <1>6 DEF s2, e

\* Spill's puts.
LEMMA PutPartsRow ==
  ASSUME NEW s, Row(s), NEW n, NEW parts, NEW l \in Nat \ {0}, Len(parts) = l, NEW ids, NEW K,
         \A j \in 1 .. l : K[j] = FirstKey(parts[j]) /\ K[j] \in Key /\ ids[j] \in Int,
         \A i, j \in 1 .. l : i < j => K[i] < K[j],
         NEW old \in Nat, old = OldKey(n, parts[1], 1), Clear(ToSet(s), old, K, l)
  PROVE  ArePut(PutParts(s, n, parts, ids), s, old, K, ids, l)
<1> DEFINE next(f, i) == PutElement(f[i-1], OldKey(n, parts[i], i), Element(FirstKey(parts[i]), ids[i]))
           Eq(f, m) == f = [i \in 0 .. m |-> IF i = 0 THEN s ELSE next(f, i)]
           put == CHOOSE f : Eq(f, Len(parts))
           bad == {m \in Nat : ~ \E f : Eq(f, m)}
<1>1. PutParts(s, n, parts, ids) = put[Len(parts)]
  BY DEF PutParts
<1>2. bad = {}
  <2>1. SUFFICES ASSUME bad # {} PROVE FALSE
    OBVIOUS
  <2>2. PICK m \in bad : \A x \in bad : m <= x
    <3>1. bad \in SUBSET Nat
      OBVIOUS
    <3> HIDE DEF bad
    <3> QED
      BY <2>1, <3>1, LeastNumber
  <2>3. CASE m = 0
    <3> DEFINE f == [i \in 0 .. 0 |-> s]
    <3>1. \A i \in 0 .. 0 : i = 0
      OBVIOUS
    <3>2. f = [i \in 0 .. 0 |-> IF i = 0 THEN s ELSE next(f, i)]
      BY <3>1
    <3> QED
      BY <2>2, <2>3, <3>2
  <2>4. CASE m # 0
    <3>1. m - 1 \in Nat /\ m \in Nat /\ m - 1 \notin bad
      <4>1. m \in Nat
        OBVIOUS
      <4>2. m - 1 \in Nat /\ ~(m <= m - 1)
        BY <2>4, <4>1
      <4> QED
        BY <2>2, <4>1, <4>2
    <3>2. PICK f : Eq(f, m - 1)
      BY <3>1
    <3> DEFINE g == [i \in 0 .. m |-> IF i = m THEN next(f, i) ELSE f[i]]
    <3>3. ASSUME NEW i \in 0 .. m PROVE g[i] = IF i = 0 THEN s ELSE next(g, i)
      <4>1. CASE i = 0
        BY <2>4, <3>1, <3>2, <4>1
      <4>2. CASE i # 0
        <5>1. i - 1 \in 0 .. m /\ i - 1 # m /\ i - 1 \in 0 .. m - 1
          BY <3>1, <4>2
        <5>2. g[i-1] = f[i-1]
          BY <5>1
        <5>3. next(g, i) = next(f, i)
          BY <5>2
        <5>4. g[i] = next(f, i)
          <6>1. CASE i = m
            BY <6>1
          <6>2. CASE i # m
            <7>1. i \in 0 .. m - 1
              BY <3>1, <6>2
            <7>2. f[i] = next(f, i)
              <8> HIDE DEF next
              <8> QED
                BY <3>2, <4>2, <7>1
            <7> QED
              BY <6>2, <7>2
          <6> QED
            BY <6>1, <6>2
        <5> QED
          BY <4>2, <5>3, <5>4
      <4> QED
        BY <4>1, <4>2
    <3>4. Eq(g, m)
      <4>1. g = [i \in 0 .. m |-> g[i]]
        OBVIOUS
      <4> HIDE DEF g, next
      <4>2. [i \in 0 .. m |-> g[i]] = [i \in 0 .. m |-> IF i = 0 THEN s ELSE next(g, i)]
        BY <3>3
      <4> QED
        BY <4>1, <4>2
    <3> QED
      BY <2>2, <3>4
  <2> QED
    BY <2>3, <2>4
<1>3. Eq(put, l)
  <2>1. \E f : Eq(f, l)
    <3>1. l \in Nat /\ l \notin bad
      BY <1>2
    <3> HIDE DEF next
    <3> QED
      BY <3>1
  <2> QED
    BY <2>1
<1> HIDE DEF put
<1>4. put[0] = s /\ \A i \in 1 .. l : put[i] = next(put, i)
  <2> HIDE DEF next
  <2>1. \A i \in 0 .. l : put[i] = IF i = 0 THEN s ELSE next(put, i)
    BY <1>3
  <2> QED
    BY <2>1
<1>5. \A i \in 1 .. l : put[i] = PutElement(put[i-1], OldKey(n, parts[i], i), Element(K[i], ids[i]))
  BY <1>4
<1>6. \A i \in 1 .. l : i # 1 => OldKey(n, parts[i], i) = K[i]
  BY DEF OldKey
<1>7. ArePut(put[1], s, old, K, ids, 1)
  <2>1. put[1] = PutElement(s, old, Element(K[1], ids[1]))
    <3>1. 1 \in 1 .. l /\ 1 - 1 = 0
      OBVIOUS
    <3>2. put[1] = PutElement(put[1-1], OldKey(n, parts[1], 1), Element(K[1], ids[1]))
      BY <1>5, <3>1
    <3> QED
      BY <1>4, <3>1, <3>2
  <2> QED
    BY <2>1, PutFirst
<1>8. ASSUME NEW i \in 1 .. l - 1, ArePut(put[i], s, old, K, ids, i)
      PROVE  ArePut(put[i+1], s, old, K, ids, i + 1)
  <2>1. i + 1 \in 1 .. l /\ i + 1 # 1 /\ (i + 1) - 1 = i
    OBVIOUS
  <2>2. put[i+1] = PutElement(put[i], K[i+1], Element(K[i+1], ids[i+1]))
    <3>1. put[i+1] = PutElement(put[(i+1)-1], OldKey(n, parts[i+1], i+1), Element(K[i+1], ids[i+1]))
      BY <1>5, <2>1
    <3> QED
      BY <1>6, <2>1, <3>1
  <2>3. ArePut(PutElement(put[i], K[i+1], Element(K[i+1], ids[i+1])), s, old, K, ids, i + 1)
    BY <1>8, PutNext
  <2> QED
    BY <2>2, <2>3
<1> DEFINE missed == {i \in 1 .. l : ~ArePut(put[i], s, old, K, ids, i)}
<1>9. missed = {}
  <2>1. SUFFICES ASSUME missed # {} PROVE FALSE
    OBVIOUS
  <2>2. PICK m \in missed : \A x \in missed : m <= x
    <3>1. missed \in SUBSET Nat
      OBVIOUS
    <3> HIDE DEF missed
    <3> QED
      BY <2>1, <3>1, LeastNumber
  <2>3. m # 1 /\ m \in 1 .. l
    BY <1>7, <2>2
  <2>4. m - 1 \in 1 .. l - 1 /\ m - 1 \in 1 .. l /\ ~(m <= m - 1) /\ (m - 1) + 1 = m
    BY <2>3
  <2>5. m - 1 \notin missed
    BY <2>2, <2>4
  <2>6. ArePut(put[m-1], s, old, K, ids, m - 1)
    BY <2>4, <2>5
  <2>7. ArePut(put[(m-1)+1], s, old, K, ids, (m - 1) + 1)
    BY <1>8, <2>4, <2>6
  <2> QED
    BY <2>2, <2>4, <2>7
<1>10. l \in 1 .. l
  OBVIOUS
<1>11. ArePut(put[l], s, old, K, ids, l)
  BY <1>9, <1>10
<1> QED
  BY <1>1, <1>11

-----------------------------------------------------------------------------
(***************************************************************************)
(* What the recursive functions of PagesSound choose, by the levels of the *)
(* tree.                                                                   *)
(***************************************************************************)
\* What holds of a page when it holds of all lower ones holds of all.
LEMMA LevelInduction ==
  ASSUME NEW D, NEW h, \A v \in D : h[v] \in Nat,
         NEW good, \A v \in D : (\A w \in D : h[w] < h[v] => w \in good) => v \in good
  PROVE  D \subseteq good
<1> DEFINE levels == {h[v] : v \in D \ good}
<1>1. SUFFICES ASSUME levels # {} PROVE FALSE
  OBVIOUS
<1>2. levels \in SUBSET Nat
  OBVIOUS
<1>3. PICK k \in levels : \A m \in levels : k <= m
  <2> HIDE DEF levels
  <2> QED
    BY <1>1, <1>2, LeastNumber
<1>4. PICK v \in D \ good : k = h[v]
  BY <1>3
<1>5. PICK w \in D : h[w] < h[v] /\ w \notin good
  BY <1>4
<1>6. h[w] \in levels
  BY <1>5
<1>7. h[v] <= h[w]
  BY <1>3, <1>4, <1>6
<1> QED
  BY <1>5, <1>7

\* A function whose value at a page depends on the values at lower pages.
DependsBelow(D, h, X, step) ==
  /\ step \in [D \X [D -> X] -> X]
  /\ \A v \in D : \A f, g \in [D -> X] :
       (\A w \in D : h[w] < h[v] => f[w] = g[w]) => step[<<v, f>>] = step[<<v, g>>]

IsFixed(D, X, step, f) == f \in [D -> X] /\ \A v \in D : f[v] = step[<<v, f>>]

LEMMA LevelRecursion ==
  ASSUME NEW D, NEW h, NEW K \in Nat, \A v \in D : h[v] \in Nat /\ h[v] < K,
         NEW X, X # {}, NEW step, DependsBelow(D, h, X, step)
  PROVE  \E f : IsFixed(D, X, step, f)
<1> DEFINE Upto(f, k) == \A v \in D : h[v] < k => f[v] = step[<<v, f>>]
           bad == {k \in 0 .. K : ~\E f \in [D -> X] : Upto(f, k)}
<1> USE DEF DependsBelow
<1>1. SUFFICES ASSUME bad # {} PROVE FALSE
  <2>1. K \in 0 .. K
    OBVIOUS
  <2>2. CASE bad = {}
    <3>1. PICK f \in [D -> X] : Upto(f, K)
      BY <2>1, <2>2
    <3>2. IsFixed(D, X, step, f)
      BY <3>1 DEF IsFixed
    <3> QED
      BY <3>2
  <2> QED
    BY <1>1, <2>2
<1>2. PICK k \in bad : \A m \in bad : k <= m
  <2>1. bad \in SUBSET Nat
    OBVIOUS
  <2> HIDE DEF bad
  <2> QED
    BY <1>1, <2>1, LeastNumber
<1>3. k # 0
  <2>1. PICK x : x \in X
    OBVIOUS
  <2> DEFINE f == [v \in D |-> x]
  <2>2. f \in [D -> X]
    BY <2>1
  <2>3. Upto(f, 0)
    OBVIOUS
  <2>4. 0 \notin bad
    BY <2>2, <2>3
  <2> QED
    BY <1>2, <2>4
<1>4. k \in Nat /\ k - 1 \in 0 .. K /\ k - 1 \notin bad
  <2>1. k \in 0 .. K /\ \A m \in bad : k <= m
    BY <1>2
  <2> HIDE DEF bad
  <2>2. k - 1 \in 0 .. K /\ ~(k <= k - 1)
    BY <1>3, <2>1
  <2> QED
    BY <2>1, <2>2
<1>5. PICK f \in [D -> X] : Upto(f, k - 1)
  BY <1>4
<1> DEFINE g == [v \in D |-> step[<<v, f>>]]
<1>6. g \in [D -> X]
  OBVIOUS
<1>7. ASSUME NEW v \in D, h[v] < k PROVE g[v] = step[<<v, g>>]
  <2>1. ASSUME NEW w \in D, h[w] < h[v] PROVE f[w] = g[w]
    <3>1. h[w] < k - 1
      BY <1>4, <1>7, <2>1
    <3> QED
      BY <1>5, <3>1
  <2> HIDE DEF g
  <2>2. step[<<v, f>>] = step[<<v, g>>]
    BY <1>6, <2>1
  <2> QED
    BY <2>2 DEF g
<1> HIDE DEF g
<1>8. Upto(g, k)
  BY <1>7
<1> QED
  BY <1>2, <1>6, <1>8

\* Rows with the same elements are the same.
LEMMA RowPrefix ==
  ASSUME NEW s, Row(s), NEW u, Row(u), ToSet(s) = ToSet(u), NEW i \in 1 .. Len(s)
  PROVE  i <= Len(u) /\ u[i] = s[i]
<1> DEFINE ok(x) == x <= Len(u) /\ u[x] = s[x]
           bad == {x \in 1 .. Len(s) : ~ok(x)}
<1>1. /\ Len(s) \in Nat /\ ToSet(s) = {s[x] : x \in 1 .. Len(s)}
      /\ \A x \in 1 .. Len(s) : s[x].key \in Nat
      /\ \A x, y \in 1 .. Len(s) : x < y => s[x].key < s[y].key
  BY RowType
<1>2. /\ Len(u) \in Nat /\ ToSet(u) = {u[x] : x \in 1 .. Len(u)}
      /\ \A x \in 1 .. Len(u) : u[x].key \in Nat
      /\ \A x, y \in 1 .. Len(u) : x < y => u[x].key < u[y].key
  BY RowType
<1>3. SUFFICES ASSUME bad # {} PROVE FALSE
  OBVIOUS
<1>4. PICK k \in bad : \A m \in bad : k <= m
  <2>1. bad \in SUBSET Nat
    OBVIOUS
  <2> HIDE DEF bad
  <2> QED
    BY <1>3, <2>1, LeastNumber
<1>5. k \in 1 .. Len(s) /\ ~ok(k)
  BY <1>4
<1>6. \A x \in 1 .. Len(s) : x < k => x \in 1 .. Len(u) /\ u[x] = s[x]
  <2>1. \A x \in 1 .. Len(s) : x < k => x \notin bad
    BY <1>4
  <2> QED
    BY <1>1, <1>2, <2>1
<1> HIDE DEF bad
<1>7. PICK j \in 1 .. Len(u) : u[j] = s[k]
  BY <1>1, <1>2, <1>5
<1>8. ~(j < k)
  <2>1. ASSUME j < k PROVE FALSE
    <3>1. j \in 1 .. Len(s)
      BY <1>1, <1>2, <1>5, <2>1
    <3>2. s[j] = s[k] /\ s[j].key < s[k].key /\ s[k].key \in Nat
      BY <1>1, <1>5, <1>6, <1>7, <2>1, <3>1
    <3> QED
      BY <3>2
  <2> QED
    BY <2>1
<1>9. k \in 1 .. Len(u) /\ k < j
  BY <1>1, <1>2, <1>5, <1>7, <1>8
<1>10. PICK m \in 1 .. Len(s) : s[m] = u[k]
  BY <1>1, <1>2, <1>9
<1>11. s[m].key < s[k].key /\ s[m].key \in Nat /\ s[k].key \in Nat
  BY <1>2, <1>5, <1>1, <1>7, <1>9, <1>10
<1>12. m < k
  BY <1>1, <1>5, <1>11
<1>13. m \in 1 .. Len(u) /\ u[m] = s[m] /\ u[m].key < u[k].key /\ u[k].key \in Nat
  BY <1>2, <1>6, <1>9, <1>12
<1> QED
  BY <1>10, <1>13

LEMMA RowSame ==
  ASSUME NEW s, Row(s), NEW u, Row(u), ToSet(s) = ToSet(u)
  PROVE  s = u
<1>1. s \in Seq(Elem) /\ u \in Seq(Elem) /\ Len(s) \in Nat /\ Len(u) \in Nat
  BY RowType DEF Row
<1>2. \A i \in 1 .. Len(s) : i <= Len(u) /\ u[i] = s[i]
  BY RowPrefix
<1>3. \A i \in 1 .. Len(u) : i <= Len(s)
  BY RowPrefix
<1>4. Len(s) = Len(u)
  <2>1. CASE Len(s) = 0
    BY <1>1, <1>3, <2>1
  <2>2. CASE Len(u) = 0
    BY <1>1, <1>2, <2>2
  <2>3. CASE Len(s) # 0 /\ Len(u) # 0
    <3>1. Len(s) \in 1 .. Len(s) /\ Len(u) \in 1 .. Len(u)
      BY <1>1, <2>3
    <3> QED
      BY <1>1, <1>2, <1>3, <3>1
  <2> QED
    BY <2>1, <2>2, <2>3
<1> QED
  BY <1>1, <1>2, <1>4, SeqEqual

\* FoldLeft, as Contents uses it.
At(D, f, v) == IF v \in D THEN f[v] ELSE <<>>
Concat(D, f, s) == FoldLeft(LAMBDA x, e : x \o At(D, f, e.val), <<>>, s)

\* The rows of children in the order of their keys make one row.
LEMMA ConcatRow ==
  ASSUME NEW s, Row(s), NEW D, NEW f, \A e \in ToSet(s) : Row(At(D, f, e.val)),
         \A e, g \in ToSet(s) : e.key < g.key => InOrder(ToSet(At(D, f, e.val)), ToSet(At(D, f, g.val)))
  PROVE  Row(Concat(D, f, s)) /\ ToSet(Concat(D, f, s)) = UNION {ToSet(At(D, f, e.val)) : e \in ToSet(s)}
<1> DEFINE n == Len(s)
           Eq(c) == c = [x \in SUBSET DOMAIN s |->
                           IF x = {} THEN <<>> ELSE c[x \ {Max(x)}] \o At(D, f, s[Max(x)].val)]
           iter == CHOOSE c : Eq(c)
           X == Seq(Elem)
           op == [p \in X \X (1 .. n) |-> p[1] \o At(D, f, s[p[2]].val)]
           upto(j) == UNION {ToSet(At(D, f, s[i].val)) : i \in 1 .. j}
<1>1. Concat(D, f, s) = iter[DOMAIN s]
  BY DEF Concat, FoldLeft, MapThenFoldSet
<1>2. /\ n \in Nat /\ DOMAIN s = 1 .. n /\ ToSet(s) = {s[i] : i \in 1 .. n}
      /\ \A i, j \in 1 .. n : i < j => s[i].key < s[j].key
  BY RowType
<1>3. \A i \in 1 .. n : Row(At(D, f, s[i].val)) /\ At(D, f, s[i].val) \in X
  BY <1>2 DEF Row
<1>4. <<>> \in X /\ op \in [X \X (1 .. n) -> X]
  <2>1. \A x \in X, i \in 1 .. n : x \o At(D, f, s[i].val) \in X
    BY <1>3, ConcatProperties
  <2>2. ASSUME NEW p \in X \X (1 .. n) PROVE p[1] \o At(D, f, s[p[2]].val) \in X
    BY <2>1
  <2>3. <<>> \in X
    BY EmptySeq
  <2> HIDE DEF X
  <2> QED
    BY <2>2, <2>3
<1>5. PICK c \in [SUBSET (1 .. n) -> X] : Folds(c, n, <<>>, op)
  <2> HIDE DEF X, op, n
  <2> QED
    BY <1>2, <1>4, FoldExists
<1>6. \A x \in SUBSET (1 .. n) : x # {} => Max(x) \in 1 .. n
  BY <1>2, MaxIs, Zenon
<1>7. \A x \in X, i \in 1 .. n : op[<<x, i>>] = x \o At(D, f, s[i].val)
  OBVIOUS
<1> HIDE DEF X, op, n
<1>8. Eq(c)
  <2>1. /\ DOMAIN c = SUBSET (1 .. n) /\ c[{}] = <<>>
        /\ \A x \in SUBSET (1 .. n) : x # {} => c[x] = op[<<c[x \ {Max(x)}], Max(x)>>]
    BY <1>5 DEF Folds
  <2>2. ASSUME NEW x \in SUBSET (1 .. n)
        PROVE  c[x] = IF x = {} THEN <<>> ELSE c[x \ {Max(x)}] \o At(D, f, s[Max(x)].val)
    <3>1. CASE x # {}
      <4>1. Max(x) \in 1 .. n /\ c[x \ {Max(x)}] \in X
        BY <1>5, <1>6, <3>1
      <4> QED
        BY <1>7, <2>1, <3>1, <4>1
    <3> QED
      BY <2>1, <3>1
  <2>3. c = [x \in SUBSET (1 .. n) |-> c[x]]
    BY <2>1
  <2>4. c = [x \in SUBSET (1 .. n) |->
               IF x = {} THEN <<>> ELSE c[x \ {Max(x)}] \o At(D, f, s[Max(x)].val)]
    BY <2>2, <2>3
  <2> QED
    BY <1>2, <2>4
<1>9. Eq(iter)
  BY <1>8, Zenon
<1> HIDE DEF iter
<1>10. /\ iter[{}] = <<>>
       /\ \A x \in SUBSET (1 .. n) : x # {} => iter[x] = iter[x \ {Max(x)}] \o At(D, f, s[Max(x)].val)
  BY <1>2, <1>9, Zenon
<1> DEFINE ok(j) == Row(iter[1 .. j]) /\ ToSet(iter[1 .. j]) = upto(j)
           bad == {j \in 0 .. n : ~ok(j)}
<1>11. bad = {}
  <2>1. SUFFICES ASSUME bad # {} PROVE FALSE
    OBVIOUS
  <2>2. PICK j \in bad : \A m \in bad : j <= m
    <3>1. bad \in SUBSET Nat
      BY <1>2
    <3> HIDE DEF bad
    <3> QED
      BY <2>1, <3>1, LeastNumber
  <2>3. j \in 0 .. n /\ ~ok(j)
    BY <2>2
  <2>4. j # 0
    <3>1. 1 .. 0 = {}
      OBVIOUS
    <3>2. upto(0) = {}
      BY <3>1
    <3> HIDE DEF upto
    <3>3. iter[1 .. 0] = <<>>
      BY <1>10, <3>1
    <3> QED
      BY <2>3, <3>2, <3>3, RowNone
  <2>5. j \in 1 .. n /\ j - 1 \in 0 .. n /\ ~(j <= j - 1)
    BY <1>2, <2>3, <2>4
  <2>6. ok(j - 1)
    BY <2>2, <2>5
  <2> HIDE DEF bad
  <2>7. iter[1 .. j] = iter[1 .. j - 1] \o At(D, f, s[j].val)
    <3>1. Max(1 .. j) = j /\ (1 .. j) \ {Max(1 .. j)} = 1 .. j - 1
      BY <2>5, MaxRange
    <3>2. 1 .. j \in SUBSET (1 .. n) /\ 1 .. j # {}
      BY <1>2, <2>5
    <3> QED
      BY <1>10, <3>1, <3>2
  <2>8. \A e \in ToSet(iter[1 .. j - 1]), g \in ToSet(At(D, f, s[j].val)) : e.key < g.key
    <3>1. SUFFICES ASSUME NEW i \in 1 .. j - 1, NEW e \in ToSet(At(D, f, s[i].val)),
                          NEW g \in ToSet(At(D, f, s[j].val))
                   PROVE  e.key < g.key
      BY <2>6
    <3>2. i \in 1 .. n /\ i < j /\ s[i] \in ToSet(s) /\ s[j] \in ToSet(s)
      BY <1>2, <2>5
    <3>3. s[i].key < s[j].key
      BY <1>2, <2>5, <3>2
    <3> QED
      BY <3>2, <3>3 DEF InOrder
  <2>9. Row(At(D, f, s[j].val))
    BY <1>3, <2>5
  <2> DEFINE a == iter[1 .. j - 1]
             b == At(D, f, s[j].val)
  <2>10. Row(a) /\ Row(b) /\ \A e \in ToSet(a), g \in ToSet(b) : e.key < g.key
    BY <2>6, <2>8, <2>9
  <2>11. Row(a \o b) /\ ToSet(a \o b) = ToSet(a) \cup ToSet(b)
    <3> HIDE DEF a, b
    <3> QED
      BY <2>10, RowConcat
  <2>12. upto(j) = upto(j - 1) \cup ToSet(b)
    <3>1. 1 .. j = (1 .. j - 1) \cup {j}
      BY <2>5
    <3> QED
      BY <3>1
  <2>13. ok(j)
    <3>1. ToSet(a) = upto(j - 1)
      BY <2>6
    <3> HIDE DEF upto
    <3> QED
      BY <2>7, <2>11, <2>12, <3>1
  <2> QED
    BY <2>3, <2>13
<1>12. ok(n)
  <2>1. n \in 0 .. n
    BY <1>2
  <2> HIDE DEF ok
  <2> QED
    BY <1>11, <2>1
<1>13. upto(n) = UNION {ToSet(At(D, f, e.val)) : e \in ToSet(s)}
  BY <1>2
<1> HIDE DEF upto
<1> QED
  BY <1>1, <1>2, <1>12, <1>13

-----------------------------------------------------------------------------
(***************************************************************************)
(* What the leaves of a tree hold, and what its changes do to that.        *)
(***************************************************************************)
LeafItems(t) == {e \in Elem : \E v \in DOMAIN t : t[v].leaf /\ e \in t[v].items}

\* Nodes of one height have no keys in common.
LEMMA LevelApart ==
  ASSUME NEW t, NEW r, NEW h, NEW d, Shape(t, r, h, d)
  PROVE  \A v, w \in DOMAIN t : h[v] = h[w] /\ v # w => d[v] \cap d[w] = {}
<1> DEFINE D == DOMAIN t
           up == [v \in D |-> h[r] - h[v]]
           good == {v \in D : \A w \in D : h[v] = h[w] /\ v # w => d[v] \cap d[w] = {}}
<1>1. r \in D /\ \A v \in D : h[v] \in Nat /\ (v # r => h[v] < h[r])
  BY DEF Shape, Heights
<1>2. \A v \in D : up[v] \in Nat
  BY <1>1
<1>3. ASSUME NEW v \in D, \A w \in D : up[w] < up[v] => w \in good, NEW w \in D, h[v] = h[w], v # w
      PROVE  d[v] \cap d[w] = {}
  <2>1. v # r /\ w # r
    BY <1>1, <1>3
  <2>2. PICK p \in Branches(t) : \E e \in t[p].items : e.val = v
    BY <2>1 DEF Shape, AllHaveParents
  <2>3. PICK q \in Branches(t) : \E f \in t[q].items : f.val = w
    BY <2>1 DEF Shape, AllHaveParents
  <2>4. PICK e \in t[p].items : e.val = v
    BY <2>2
  <2>5. PICK f \in t[q].items : f.val = w
    BY <2>3
  <2>6. /\ p \in D /\ q \in D /\ h[v] + 1 = h[p] /\ h[w] + 1 = h[q]
        /\ d[v] \subseteq d[p] /\ d[w] \subseteq d[q]
    BY <2>2, <2>3, <2>4, <2>5 DEF Shape, Children, Branches
  <2>7. CASE p = q
    <3>1. e.key \in Nat /\ f.key \in Nat /\ e.key # f.key
      <4>1. e \in Elem /\ f \in Elem /\ (e.key = f.key => e = f)
        BY <2>4, <2>5, <2>6, <2>7 DEF Shape, Kinds
      <4> QED
        BY <1>3, <2>4, <2>5, <4>1 DEF Elem, Key
    <3>2. Apart(d[v], d[w]) \/ Apart(d[w], d[v])
      <4>1. e.key < f.key \/ f.key < e.key
        BY <3>1
      <4> QED
        BY <2>2, <2>4, <2>5, <2>7, <4>1 DEF Shape, Children
    <3>3. d[v] \subseteq Nat /\ d[w] \subseteq Nat
      BY DEF Shape, Domains
    <3>4. ASSUME NEW x \in d[v], x \in d[w] PROVE FALSE
      <4>1. x < x /\ x \in Nat
        BY <3>2, <3>3, <3>4 DEF Apart
      <4> QED
        BY <4>1
    <3> QED
      BY <3>4
  <2>8. CASE p # q
    <3>1. up[p] < up[v] /\ h[p] = h[q]
      BY <1>1, <1>3, <2>6
    <3>2. p \in good
      BY <1>3, <2>6, <3>1
    <3> QED
      BY <2>6, <2>8, <3>1, <3>2
  <2> QED
    BY <2>7, <2>8
<1>4. D \subseteq good
  <2> HIDE DEF D, up
  <2>1. \A v \in D : (\A w \in D : up[w] < up[v] => w \in good) => v \in good
    BY <1>3
  <2> HIDE DEF good
  <2> QED
    BY <1>2, <2>1, LevelInduction
<1> QED
  BY <1>4

\* Two elements with one key are one element.
LEMMA LeafItemsUnique ==
  ASSUME NEW t, NEW r, NEW h, NEW d, Shape(t, r, h, d)
  PROVE  \A e, f \in LeafItems(t) : e.key = f.key => e = f
<1> SUFFICES ASSUME NEW e \in LeafItems(t), NEW f \in LeafItems(t), e.key = f.key PROVE e = f
  OBVIOUS
<1>1. PICK v \in DOMAIN t : t[v].leaf /\ e \in t[v].items
  BY DEF LeafItems
<1>2. PICK w \in DOMAIN t : t[w].leaf /\ f \in t[w].items
  BY DEF LeafItems
<1>3. e.key \in d[v] /\ e.key \in d[w] /\ h[v] = h[w]
  BY <1>1, <1>2 DEF Shape, Domains, Heights
<1>4. v = w
  BY <1>3, LevelApart
<1> QED
  BY <1>1, <1>2, <1>4 DEF Shape, Kinds

\* A key is put in its leaf.
LEMMA PutLeaves ==
  ASSUME NEW t, NEW u, NEW z \in DOMAIN t, t[z].leaf, OnlyItems(t, u, z),
         NEW e \in Elem, PutItem(t, u, z, e.key, e),
         NEW r, NEW h, NEW d, Shape(u, r, h, d)
  PROVE  LeafItems(u) = {f \in LeafItems(t) : f.key # e.key} \cup {e}
<1>1. DOMAIN u = DOMAIN t /\ u[z].leaf
  BY DEF OnlyItems
<1>2. e \in u[z].items /\ e.key \in d[z]
  BY <1>1 DEF PutItem, Shape, Domains
<1>3. ASSUME NEW v \in DOMAIN t, v # z, t[v].leaf PROVE \A f \in t[v].items : f.key # e.key
  <2>1. u[v].items = t[v].items /\ u[v].leaf
    BY <1>3 DEF OnlyItems
  <2>2. h[v] = h[z]
    BY <1>1, <2>1 DEF Shape, Heights
  <2>3. d[v] \cap d[z] = {}
    BY <1>1, <1>3, <2>2, LevelApart
  <2>4. \A f \in t[v].items : f.key \in d[v]
    BY <1>1, <2>1 DEF Shape, Domains
  <2> QED
    BY <1>2, <2>3, <2>4
<1>4. ASSUME NEW f \in LeafItems(u) PROVE f = e \/ (f \in LeafItems(t) /\ f.key # e.key)
  <2>1. PICK v \in DOMAIN t : u[v].leaf /\ f \in u[v].items
    BY <1>1 DEF LeafItems
  <2>2. f \in Elem /\ t[v].leaf
    BY <2>1 DEF LeafItems, OnlyItems
  <2>3. CASE v = z
    BY <2>1, <2>2, <2>3 DEF PutItem, LeafItems
  <2>4. CASE v # z
    <3>1. f \in t[v].items
      BY <2>1, <2>4 DEF OnlyItems
    <3> QED
      BY <1>3, <2>2, <2>4, <3>1 DEF LeafItems
  <2> QED
    BY <2>3, <2>4
<1>5. ASSUME NEW f \in LeafItems(t), f.key # e.key PROVE f \in LeafItems(u)
  <2>1. PICK v \in DOMAIN t : t[v].leaf /\ f \in t[v].items
    BY DEF LeafItems
  <2>2. f \in u[v].items /\ u[v].leaf
    BY <1>5, <2>1 DEF PutItem, OnlyItems
  <2> QED
    BY <1>1, <2>1, <2>2 DEF LeafItems
<1>6. e \in LeafItems(u)
  BY <1>1, <1>2 DEF LeafItems
<1> QED
  BY <1>4, <1>5, <1>6

\* A key is taken from its leaf.
TakeItem(t, u, z, k) ==
  (\E f \in t[z].items : f.key = k) /\ u[z].items = {f \in t[z].items : f.key # k}

LEMMA DeleteLeaves ==
  ASSUME NEW t, NEW r, NEW h, NEW d, Shape(t, r, h, d),
         NEW z \in DOMAIN t, t[z].leaf, NEW u, OnlyItems(t, u, z), NEW k, TakeItem(t, u, z, k)
  PROVE  LeafItems(u) = {f \in LeafItems(t) : f.key # k}
<1> USE DEF TakeItem
<1>1. DOMAIN u = DOMAIN t /\ u[z].leaf
  BY DEF OnlyItems
<1>2. k \in d[z]
  BY DEF Shape, Domains
<1>3. ASSUME NEW v \in DOMAIN t, v # z, t[v].leaf PROVE \A f \in t[v].items : f.key # k
  <2>1. h[v] = h[z]
    BY <1>3 DEF Shape, Heights
  <2>2. d[v] \cap d[z] = {}
    BY <1>3, <2>1, LevelApart
  <2>3. \A f \in t[v].items : f.key \in d[v]
    BY DEF Shape, Domains
  <2> QED
    BY <1>2, <2>2, <2>3
<1>4. ASSUME NEW f \in LeafItems(u) PROVE f \in LeafItems(t) /\ f.key # k
  <2>1. PICK v \in DOMAIN t : u[v].leaf /\ f \in u[v].items
    BY <1>1 DEF LeafItems
  <2>2. f \in Elem /\ t[v].leaf
    BY <2>1 DEF LeafItems, OnlyItems
  <2>3. CASE v = z
    BY <2>1, <2>2, <2>3 DEF LeafItems
  <2>4. CASE v # z
    <3>1. f \in t[v].items
      BY <2>1, <2>4 DEF OnlyItems
    <3> QED
      BY <1>3, <2>2, <2>4, <3>1 DEF LeafItems
  <2> QED
    BY <2>3, <2>4
<1>5. ASSUME NEW f \in LeafItems(t), f.key # k PROVE f \in LeafItems(u)
  <2>1. PICK v \in DOMAIN t : t[v].leaf /\ f \in t[v].items
    BY DEF LeafItems
  <2>2. f \in u[v].items /\ u[v].leaf
    BY <1>5, <2>1 DEF OnlyItems
  <2> QED
    BY <1>1, <2>1, <2>2 DEF LeafItems
<1> QED
  BY <1>4, <1>5

\* Trees of which every leaf's element is in a leaf of the other hold the same.
LEMMA SameLeaves ==
  ASSUME NEW t, NEW u,
         \A v \in DOMAIN t : t[v].leaf =>
           \A e \in t[v].items : \E w \in DOMAIN u : u[w].leaf /\ e \in u[w].items,
         \A w \in DOMAIN u : u[w].leaf =>
           \A e \in u[w].items : \E v \in DOMAIN t : t[v].leaf /\ e \in t[v].items
  PROVE  LeafItems(u) = LeafItems(t)
<1>1. \A e \in Elem : e \in LeafItems(t) => e \in LeafItems(u)
  BY DEF LeafItems
<1>2. \A e \in Elem : e \in LeafItems(u) => e \in LeafItems(t)
  BY DEF LeafItems
<1>3. LeafItems(t) \subseteq Elem /\ LeafItems(u) \subseteq Elem
  BY DEF LeafItems
<1> QED
  BY <1>1, <1>2, <1>3

\* An empty leaf is dropped.
LEMMA DropLeaves ==
  ASSUME NEW t, NEW n \in DOMAIN t, t[n].items = {}, NEW u, Without(t, u, n, n)
  PROVE  LeafItems(u) = LeafItems(t)
<1>1. /\ DOMAIN u = DOMAIN t \ {n}
      /\ \A v \in DOMAIN u : u[v].leaf = t[v].leaf /\ (t[v].leaf => u[v].items = t[v].items)
  BY DEF Without
<1>2. ASSUME NEW v \in DOMAIN t, t[v].leaf, NEW e \in t[v].items PROVE v \in DOMAIN u /\ u[v].leaf /\ e \in u[v].items
  BY <1>1, <1>2
<1>3. ASSUME NEW w \in DOMAIN u, u[w].leaf, NEW e \in u[w].items PROVE w \in DOMAIN t /\ t[w].leaf /\ e \in t[w].items
  BY <1>1, <1>3
<1> QED
  BY <1>2, <1>3, SameLeaves

\* A node takes the elements of the next one, leaves those of a leaf.
LEMMA MergeLeaves ==
  ASSUME NEW t, NEW left \in DOMAIN t, NEW right \in DOMAIN t, left # right,
         t[left].leaf = t[right].leaf,
         NEW u, Without(t, u, right, left), Joined(t, u, left, right)
  PROVE  LeafItems(u) = LeafItems(t)
<1>1. /\ DOMAIN u = DOMAIN t \ {right} /\ left \in DOMAIN u
      /\ \A v \in DOMAIN u : u[v].leaf = t[v].leaf
      /\ \A v \in DOMAIN u : v # left /\ t[v].leaf => u[v].items = t[v].items
      /\ u[left].items = t[left].items \cup t[right].items
  BY DEF Without, Joined
<1>2. ASSUME NEW v \in DOMAIN t, t[v].leaf, NEW e \in t[v].items
      PROVE  \E w \in DOMAIN u : u[w].leaf /\ e \in u[w].items
  <2>1. CASE v = left \/ v = right
    BY <1>1, <1>2, <2>1
  <2>2. CASE v # left /\ v # right
    BY <1>1, <1>2, <2>2
  <2> QED
    BY <2>1, <2>2
<1>3. ASSUME NEW w \in DOMAIN u, u[w].leaf, NEW e \in u[w].items
      PROVE  \E v \in DOMAIN t : t[v].leaf /\ e \in t[v].items
  <2>1. CASE w = left
    BY <1>1, <1>3, <2>1
  <2>2. CASE w # left
    BY <1>1, <1>3, <2>2
  <2> QED
    BY <2>1, <2>2
<1> QED
  BY <1>2, <1>3, SameLeaves

\* The root takes the place of its only child.
LEMMA CollapseLeaves ==
  ASSUME NEW t, NEW r \in DOMAIN t, ~t[r].leaf, NEW c \in DOMAIN t, r # c,
         NEW u, Collapsed(t, u, r, c)
  PROVE  LeafItems(u) = LeafItems(t)
<1>1. /\ DOMAIN u = DOMAIN t \ {c} /\ r \in DOMAIN u
      /\ u[r].leaf = t[c].leaf /\ u[r].items = t[c].items
      /\ \A v \in DOMAIN u : v # r => u[v] = t[v]
  BY DEF Collapsed
<1>2. ASSUME NEW v \in DOMAIN t, t[v].leaf, NEW e \in t[v].items
      PROVE  \E w \in DOMAIN u : u[w].leaf /\ e \in u[w].items
  <2>1. CASE v = c
    BY <1>1, <1>2, <2>1
  <2>2. CASE v # c
    <3>1. v \in DOMAIN u /\ u[v] = t[v]
      BY <1>1, <1>2, <2>2
    <3> QED
      BY <1>2, <3>1
  <2> QED
    BY <2>1, <2>2
<1>3. ASSUME NEW w \in DOMAIN u, u[w].leaf, NEW e \in u[w].items
      PROVE  \E v \in DOMAIN t : t[v].leaf /\ e \in t[v].items
  <2>1. CASE w = r
    BY <1>1, <1>3, <2>1
  <2>2. CASE w # r
    <3>1. w \in DOMAIN t /\ u[w] = t[w]
      BY <1>1, <2>2
    <3> QED
      BY <1>3, <3>1
  <2> QED
    BY <2>1, <2>2
<1> QED
  BY <1>2, <1>3, SameLeaves

\* A node is cut into parts under its parent.
LEMMA PartsLeaves ==
  ASSUME NEW t, NEW n \in DOMAIN t, NEW p \in DOMAIN t, p # n, ~t[p].leaf,
         NEW u, NEW I, Parted(t, u, n, I), Replaced(t, u, n, p, I)
  PROVE  LeafItems(u) = LeafItems(t)
<1>1. /\ DOMAIN u = (DOMAIN t \ {n}) \cup I
      /\ \A v \in DOMAIN t : v # n /\ v # p => u[v] = t[v]
      /\ u[p].leaf = t[p].leaf
  BY DEF Replaced
<1>2. /\ \A i \in I : u[i].leaf = t[n].leaf /\ u[i].items \subseteq t[n].items
      /\ \A e \in t[n].items : \E i \in I : e \in u[i].items
  BY DEF Parted
<1>3. ASSUME NEW v \in DOMAIN t, t[v].leaf, NEW e \in t[v].items
      PROVE  \E w \in DOMAIN u : u[w].leaf /\ e \in u[w].items
  <2>1. CASE v = n
    <3>1. PICK i \in I : e \in u[i].items
      BY <1>2, <1>3, <2>1
    <3>2. i \in DOMAIN u /\ u[i].leaf
      BY <1>1, <1>2, <1>3, <2>1, <3>1
    <3> QED
      BY <3>1, <3>2
  <2>2. CASE v # n
    <3>1. v # p
      BY <1>3
    <3>2. v \in DOMAIN u /\ u[v] = t[v]
      BY <1>1, <1>3, <2>2, <3>1
    <3> QED
      BY <1>3, <3>2
  <2> QED
    BY <2>1, <2>2
<1>4. ASSUME NEW w \in DOMAIN u, u[w].leaf, NEW e \in u[w].items
      PROVE  \E v \in DOMAIN t : t[v].leaf /\ e \in t[v].items
  <2>1. CASE w \in I
    BY <1>2, <1>4, <2>1
  <2>2. CASE w \notin I
    <3>1. w \in DOMAIN t /\ w # n /\ w # p
      BY <1>1, <1>4, <2>2
    <3>2. u[w] = t[w]
      BY <1>1, <3>1
    <3> QED
      BY <1>4, <3>1, <3>2
  <2> QED
    BY <2>1, <2>2
<1> QED
  BY <1>3, <1>4, SameLeaves

\* The root gets a parent.
LEMMA AboveLeaves ==
  ASSUME NEW t, NEW r \in DOMAIN t, NEW p, p \notin DOMAIN t, NEW u, NEW k, Above(t, u, r, p, k)
  PROVE  LeafItems(u) = LeafItems(t)
<1>1. /\ DOMAIN u = DOMAIN t \cup {p} /\ ~u[p].leaf
      /\ \A v \in DOMAIN t : u[v].leaf = t[v].leaf /\ u[v].items = t[v].items
  BY DEF Above
<1>2. ASSUME NEW v \in DOMAIN t, t[v].leaf, NEW e \in t[v].items
      PROVE  \E w \in DOMAIN u : u[w].leaf /\ e \in u[w].items
  BY <1>1, <1>2
<1>3. ASSUME NEW w \in DOMAIN u, u[w].leaf, NEW e \in u[w].items
      PROVE  \E v \in DOMAIN t : t[v].leaf /\ e \in t[v].items
  <2>1. w \in DOMAIN t
    BY <1>1, <1>3
  <2> QED
    BY <1>1, <1>3, <2>1
<1> QED
  BY <1>2, <1>3, SameLeaves

\* A node gets another name.
LEMMA RenameLeaves ==
  ASSUME NEW t, NEW r \in DOMAIN t, NEW i, i \notin DOMAIN t, NEW u, Renamed(t, u, r, i)
  PROVE  LeafItems(u) = LeafItems(t)
<1>1. /\ DOMAIN u = (DOMAIN t \ {r}) \cup {i}
      /\ u[i].leaf = t[r].leaf /\ u[i].items = t[r].items
      /\ \A v \in DOMAIN t : v # r => u[v] = t[v]
  BY DEF Renamed
<1>2. ASSUME NEW v \in DOMAIN t, t[v].leaf, NEW e \in t[v].items
      PROVE  \E w \in DOMAIN u : u[w].leaf /\ e \in u[w].items
  <2>1. CASE v = r
    BY <1>1, <1>2, <2>1
  <2>2. CASE v # r
    <3>1. v \in DOMAIN u /\ u[v] = t[v]
      BY <1>1, <1>2, <2>2
    <3> QED
      BY <1>2, <3>1
  <2> QED
    BY <2>1, <2>2
<1>3. ASSUME NEW w \in DOMAIN u, u[w].leaf, NEW e \in u[w].items
      PROVE  \E v \in DOMAIN t : t[v].leaf /\ e \in t[v].items
  <2>1. CASE w = i
    BY <1>1, <1>3, <2>1
  <2>2. CASE w # i
    <3>1. w \in DOMAIN t /\ u[w] = t[w]
      BY <1>1, <2>2
    <3> QED
      BY <1>3, <3>1
  <2> QED
    BY <2>1, <2>2
<1> QED
  BY <1>2, <1>3, SameLeaves

-----------------------------------------------------------------------------
(***************************************************************************)
(* Contents is the row of what the leaves hold.                            *)
(***************************************************************************)
\* The leaf elements below p.
Under(t, d, p) == {e \in LeafItems(t) : e.key \in d[p]}

\* Every leaf element has a node above it at every height.
LEMMA LevelCover ==
  ASSUME NEW t, NEW r, NEW h, NEW d, Shape(t, r, h, d), NEW e \in LeafItems(t)
  PROVE  \A k \in 0 .. h[r] : \E v \in DOMAIN t : h[v] = k /\ e.key \in d[v]
<1> DEFINE D == DOMAIN t
           bare == {k \in 0 .. h[r] : ~\E v \in D : h[v] = k /\ e.key \in d[v]}
<1>1. r \in D /\ \A v \in D : h[v] \in Nat /\ (v # r => h[v] < h[r])
  BY DEF Shape, Heights
<1>2. SUFFICES ASSUME bare # {} PROVE FALSE
  OBVIOUS
<1>3. PICK k \in bare : \A m \in bare : k <= m
  <2>1. bare \in SUBSET Nat
    OBVIOUS
  <2> HIDE DEF bare
  <2> QED
    BY <1>2, <2>1, LeastNumber
<1>4. PICK v \in D : t[v].leaf /\ e \in t[v].items
  BY DEF LeafItems
<1>5. h[v] = 0 /\ e.key \in d[v]
  BY <1>4 DEF Shape, Heights, Domains
<1>6. k \in 0 .. h[r] /\ k # 0 /\ k - 1 \in 0 .. h[r] /\ ~(k <= k - 1)
  <2>1. k \in 0 .. h[r] /\ h[r] \in Nat
    BY <1>1, <1>3
  <2>2. k # 0
    BY <1>3, <1>5
  <2> HIDE DEF bare
  <2> QED
    BY <2>1, <2>2
<1>7. k - 1 \notin bare
  <2> HIDE DEF bare
  <2> QED
    BY <1>3, <1>6
<1>8. PICK w \in D : h[w] = k - 1 /\ e.key \in d[w]
  BY <1>6, <1>7
<1>9. w # r
  BY <1>1, <1>6, <1>8
<1>10. PICK p \in Branches(t) : \E f \in t[p].items : f.val = w
  BY <1>9 DEF Shape, AllHaveParents
<1>11. p \in D /\ h[w] + 1 = h[p] /\ d[w] \subseteq d[p]
  BY <1>10 DEF Shape, Children, Branches
<1>12. h[p] = k /\ e.key \in d[p]
  <2>1. k \in Int
    BY <1>6
  <2> QED
    BY <1>8, <1>11, <2>1
<1> QED
  BY <1>3, <1>11, <1>12

\* What is below a branch is below its children.
LEMMA UnderOf ==
  ASSUME NEW t, NEW r, NEW h, NEW d, Shape(t, r, h, d)
  PROVE  /\ Under(t, d, r) = LeafItems(t)
         /\ \A p \in DOMAIN t : t[p].leaf => Under(t, d, p) = t[p].items
         /\ \A p \in DOMAIN t : ~t[p].leaf =>
              Under(t, d, p) = UNION {Under(t, d, e.val) : e \in t[p].items}
<1> DEFINE D == DOMAIN t
<1>1. r \in D /\ \A v \in D : h[v] \in Nat /\ (v # r => h[v] < h[r])
  BY DEF Shape, Heights
<1>2. ASSUME NEW e \in LeafItems(t) PROVE e.key \in d[r]
  <2>1. h[r] \in 0 .. h[r]
    BY <1>1
  <2>2. PICK v \in D : h[v] = h[r] /\ e.key \in d[v]
    BY <2>1, LevelCover
  <2>3. v = r
    BY <1>1, <2>2
  <2> QED
    BY <2>2, <2>3
<1>3. ASSUME NEW p \in D, t[p].leaf PROVE Under(t, d, p) = t[p].items
  <2>1. ASSUME NEW e \in t[p].items PROVE e \in Under(t, d, p)
    <3>1. e \in Elem /\ e.key \in d[p]
      BY DEF Shape, Kinds, Domains
    <3> QED
      BY <1>3, <3>1 DEF Under, LeafItems
  <2>2. ASSUME NEW e \in Under(t, d, p) PROVE e \in t[p].items
    <3>1. PICK v \in D : t[v].leaf /\ e \in t[v].items
      BY DEF Under, LeafItems
    <3>2. e.key \in d[v] /\ e.key \in d[p] /\ h[v] = h[p]
      BY <1>3, <3>1 DEF Under, Shape, Domains, Heights
    <3>3. v = p
      BY <3>2, LevelApart
    <3> QED
      BY <3>1, <3>3
  <2> QED
    BY <2>1, <2>2
<1>4. ASSUME NEW p \in D, ~t[p].leaf
      PROVE  Under(t, d, p) = UNION {Under(t, d, e.val) : e \in t[p].items}
  <2>0. p \in Branches(t)
    BY <1>4 DEF Branches
  <2>1. ASSUME NEW f \in t[p].items, NEW e \in Under(t, d, f.val) PROVE e \in Under(t, d, p)
    <3>1. d[f.val] \subseteq d[p]
      BY <2>0 DEF Shape, Children
    <3> QED
      BY <3>1 DEF Under
  <2>2. ASSUME NEW e \in Under(t, d, p) PROVE \E f \in t[p].items : e \in Under(t, d, f.val)
    <3>1. h[p] - 1 \in 0 .. h[r] /\ h[p] \in Nat
      <4>1. h[p] # 0 /\ h[p] \in Nat /\ h[r] \in Nat /\ (p # r => h[p] < h[r])
        BY <1>1, <1>4 DEF Shape, Heights
      <4>2. h[p] <= h[r]
        BY <4>1
      <4> QED
        BY <4>1, <4>2
    <3>2. PICK v \in D : h[v] = h[p] - 1 /\ e.key \in d[v]
      BY <3>1, LevelCover DEF Under
    <3>3. v # r
      <4>1. h[p] <= h[r] /\ h[r] \in Nat
        BY <1>1
      <4> QED
        BY <3>1, <3>2, <4>1
    <3>4. PICK q \in Branches(t) : \E f \in t[q].items : f.val = v
      BY <3>3 DEF Shape, AllHaveParents
    <3>5. PICK f \in t[q].items : f.val = v
      BY <3>4
    <3>6. q \in D /\ h[v] + 1 = h[q] /\ d[v] \subseteq d[q]
      BY <3>5 DEF Shape, Children, Branches
    <3>7. h[q] = h[p]
      BY <3>1, <3>2, <3>6
    <3>8. e.key \in d[q] /\ e.key \in d[p]
      BY <3>2, <3>6 DEF Under
    <3>9. q = p
      BY <3>6, <3>7, <3>8, LevelApart
    <3> QED
      BY <3>2, <3>5, <3>9 DEF Under
  <2> QED
    BY <2>1, <2>2
<1> QED
  BY <1>2, <1>3, <1>4 DEF Under

\* The elements of t are the items of u.
Sourced(t, u) ==
  /\ DOMAIN t = DOMAIN u
  /\ \A v \in DOMAIN u : /\ Row(t[v].inodes) /\ u[v].items = ToSet(t[v].inodes)
                         /\ u[v].leaf = t[v].leaf

ContentsFrom(t, g, p) ==
  IF t[p].leaf THEN t[p].inodes ELSE Concat(DOMAIN t, g, t[p].inodes)

\* The rows of the children make the row of a node.
LEMMA ContentsStep ==
  ASSUME NEW u, NEW r, NEW h, NEW d, Shape(u, r, h, d), NEW t, Sourced(t, u),
         NEW p \in DOMAIN u, NEW g,
         \A v \in DOMAIN u : h[v] < h[p] => Row(g[v]) /\ ToSet(g[v]) = Under(u, d, v)
  PROVE  Row(ContentsFrom(t, g, p)) /\ ToSet(ContentsFrom(t, g, p)) = Under(u, d, p)
<1> DEFINE s == t[p].inodes
           D == DOMAIN t
<1>1. D = DOMAIN u /\ Row(s) /\ u[p].items = ToSet(s) /\ u[p].leaf = t[p].leaf
  BY DEF Sourced
<1>2. CASE t[p].leaf
  <2>1. Under(u, d, p) = u[p].items
    <3>1. \A v \in DOMAIN u : u[v].leaf => Under(u, d, v) = u[v].items
      BY UnderOf
    <3> QED
      BY <1>1, <1>2, <3>1
  <2> QED
    BY <1>1, <1>2, <2>1 DEF ContentsFrom
<1>3. CASE ~t[p].leaf
  <2>0. p \in Branches(u)
    BY <1>1, <1>3 DEF Branches
  <2>1. ASSUME NEW e \in ToSet(s)
        PROVE  /\ At(D, g, e.val) = g[e.val]
               /\ Row(g[e.val]) /\ ToSet(g[e.val]) = Under(u, d, e.val)
    <3>1. e.val \in DOMAIN u /\ h[e.val] + 1 = h[p]
      BY <1>1, <2>0 DEF Shape, Children
    <3>2. h[e.val] < h[p]
      <4>1. h[e.val] \in Nat /\ h[p] \in Nat
        BY <3>1 DEF Shape, Heights
      <4> QED
        BY <3>1, <4>1
    <3> QED
      BY <1>1, <3>1, <3>2 DEF At
  <2>2. \A e, f \in ToSet(s) : e.key < f.key => Apart(d[e.val], d[f.val])
    BY <1>1, <2>0 DEF Shape, Children
  <2>3. \A e \in ToSet(s) : \A x \in ToSet(At(D, g, e.val)) : x.key \in d[e.val]
    BY <2>1 DEF Under
  <2>4. \A e, f \in ToSet(s) : e.key < f.key => InOrder(ToSet(At(D, g, e.val)), ToSet(At(D, g, f.val)))
    BY <2>2, <2>3 DEF InOrder, Apart
  <2>5. /\ Row(Concat(D, g, s))
        /\ ToSet(Concat(D, g, s)) = UNION {ToSet(At(D, g, e.val)) : e \in ToSet(s)}
    <3>1. \A e \in ToSet(s) : Row(At(D, g, e.val))
      BY <2>1
    <3> HIDE DEF s, D
    <3> QED
      BY <1>1, <2>4, <3>1, ConcatRow
  <2>6. Under(u, d, p) = UNION {Under(u, d, e.val) : e \in ToSet(s)}
    BY <1>1, <1>3, UnderOf
  <2>7. UNION {ToSet(At(D, g, e.val)) : e \in ToSet(s)} = UNION {Under(u, d, e.val) : e \in ToSet(s)}
    BY <2>1
  <2> QED
    BY <1>3, <2>5, <2>6, <2>7 DEF ContentsFrom
<1> QED
  BY <1>2, <1>3

LEMMA ContentsOf ==
  ASSUME NEW u, NEW r, NEW h, NEW d, Shape(u, r, h, d), NEW t, Sourced(t, u)
  PROVE  Row(Contents(t, r)) /\ ToSet(Contents(t, r)) = LeafItems(u)
<1> DEFINE D == DOMAIN t
           Eq(f) == f = [p \in D |-> ContentsFrom(t, f, p)]
           below == CHOOSE f : Eq(f)
<1>1. D = DOMAIN u
  BY DEF Sourced
<1>2. \A p \in D : h[p] \in Nat
  BY <1>1 DEF Shape, Heights
<1> DEFINE way == [p \in D |-> CHOOSE w : Row(w) /\ ToSet(w) = Under(u, d, p)]
           good(f) == {p \in D : Row(f[p]) /\ ToSet(f[p]) = Under(u, d, p)}
<1>3. \A p \in D : Row(ContentsFrom(t, way, p)) /\ ToSet(ContentsFrom(t, way, p)) = Under(u, d, p)
  <2> DEFINE all == good(way)
  <2>1. ASSUME NEW p \in D, \A v \in D : h[v] < h[p] => v \in all
        PROVE  /\ p \in all
               /\ Row(ContentsFrom(t, way, p)) /\ ToSet(ContentsFrom(t, way, p)) = Under(u, d, p)
    <3>1. Row(ContentsFrom(t, way, p)) /\ ToSet(ContentsFrom(t, way, p)) = Under(u, d, p)
      <4>1. \A v \in DOMAIN u : h[v] < h[p] => Row(way[v]) /\ ToSet(way[v]) = Under(u, d, v)
        BY <1>1, <2>1
      <4>2. p \in DOMAIN u
        BY <1>1
      <4> HIDE DEF way, all
      <4> QED
        BY <4>1, <4>2, ContentsStep
    <3>2. Row(way[p]) /\ ToSet(way[p]) = Under(u, d, p)
      <4>1. \E w : Row(w) /\ ToSet(w) = Under(u, d, p)
        BY <3>1
      <4>2. way[p] = CHOOSE w : Row(w) /\ ToSet(w) = Under(u, d, p)
        OBVIOUS
      <4> HIDE DEF way
      <4> QED
        BY <4>1, <4>2
    <3> QED
      BY <3>1, <3>2
  <2>2. D \subseteq all
    <3> HIDE DEF all, D, way
    <3>1. \A p \in D : (\A v \in D : h[v] < h[p] => v \in all) => p \in all
      BY <2>1
    <3> QED
      BY <1>2, <3>1, LevelInduction
  <2> HIDE DEF all
  <2> QED
    BY <2>1, <2>2
<1>4. Eq(way)
  <2>1. ASSUME NEW p \in D PROVE way[p] = ContentsFrom(t, way, p)
    <3> DEFINE w == ContentsFrom(t, way, p)
    <3>1. Row(w) /\ ToSet(w) = Under(u, d, p)
      BY <1>3
    <3>2. way[p] = CHOOSE x : Row(x) /\ ToSet(x) = Under(u, d, p)
      OBVIOUS
    <3> HIDE DEF w, way
    <3>3. Row(way[p]) /\ ToSet(way[p]) = Under(u, d, p)
      BY <3>1, <3>2
    <3>4. way[p] = w
      BY <3>1, <3>3, RowSame
    <3> QED
      BY <3>4 DEF w
  <2>2. way = [p \in D |-> way[p]]
    OBVIOUS
  <2> HIDE DEF way
  <2> QED
    BY <2>1, <2>2
<1>5. Eq(below)
  <2> HIDE DEF way
  <2> QED
    BY <1>4
<1>6. Contents(t, r) = below[r]
  BY DEF Contents, ContentsFrom, Concat, At
<1> HIDE DEF below
<1>7. \A p \in D : below[p] = ContentsFrom(t, below, p)
  BY <1>5
<1> DEFINE all == good(below)
<1>8. ASSUME NEW p \in D, \A v \in D : h[v] < h[p] => v \in all PROVE p \in all
  <2>1. \A v \in DOMAIN u : h[v] < h[p] => Row(below[v]) /\ ToSet(below[v]) = Under(u, d, v)
    BY <1>1, <1>8
  <2>2. Row(ContentsFrom(t, below, p)) /\ ToSet(ContentsFrom(t, below, p)) = Under(u, d, p)
    BY <1>1, <2>1, ContentsStep
  <2> QED
    BY <1>7, <2>2
<1>9. D \subseteq all
  <2> HIDE DEF all, D
  <2>1. \A p \in D : (\A v \in D : h[v] < h[p] => v \in all) => p \in all
    BY <1>8
  <2> QED
    BY <1>2, <2>1, LevelInduction
<1>10. r \in D
  BY <1>1 DEF Shape
<1>11. Row(below[r]) /\ ToSet(below[r]) = Under(u, d, r)
  BY <1>9, <1>10
<1>12. Under(u, d, r) = LeafItems(u)
  BY UnderOf
<1> QED
  BY <1>6, <1>11, <1>12

-----------------------------------------------------------------------------
(***************************************************************************)
(* The map of a set of elements with different keys.                       *)
(***************************************************************************)
MapOf(S) == [k \in {e.key : e \in S} |-> (CHOOSE e \in S : e.key = k).val]
Unique(S) == \A e, f \in S : e.key = f.key => e = f

LEMMA MapOfIs ==
  ASSUME NEW S, Unique(S)
  PROVE  /\ DOMAIN MapOf(S) = {e.key : e \in S}
         /\ \A e \in S : MapOf(S)[e.key] = e.val
<1> SUFFICES ASSUME NEW e \in S PROVE MapOf(S)[e.key] = e.val
  BY DEF MapOf
<1> DEFINE c == CHOOSE f \in S : f.key = e.key
<1>1. c \in S /\ c.key = e.key
  OBVIOUS
<1>2. c = e
  BY <1>1 DEF Unique
<1>3. MapOf(S)[e.key] = c.val
  BY DEF MapOf
<1> QED
  BY <1>2, <1>3

\* A function with the keys and the values of S is its map.
IsMap(m, S) ==
  /\ m = [k \in {e.key : e \in S} |-> m[k]]
  /\ \A e \in S : m[e.key] = e.val

LEMMA MapOfOnly ==
  ASSUME NEW S, Unique(S), NEW m, IsMap(m, S)
  PROVE  m = MapOf(S)
<1> DEFINE K == {e.key : e \in S}
<1>1. DOMAIN MapOf(S) = K /\ MapOf(S) = [k \in K |-> MapOf(S)[k]] /\ m = [k \in K |-> m[k]]
  BY DEF MapOf, IsMap
<1>2. ASSUME NEW k \in K PROVE m[k] = MapOf(S)[k]
  <2>1. PICK e \in S : e.key = k
    OBVIOUS
  <2> QED
    BY <2>1, MapOfIs DEF IsMap
<1> HIDE DEF K
<1> QED
  BY <1>1, <1>2

LEMMA AsMapOf ==
  ASSUME NEW s, Row(s)
  PROVE  Unique(ToSet(s)) /\ AsMap(s) = MapOf(ToSet(s))
<1> DEFINE K == {e.key : e \in ToSet(s)}
           value == [k \in K |-> s[Index(s, k)].val]
<1>1. Unique(ToSet(s))
  BY RowKeys DEF Unique
<1>2. AsMap(s) = value
  <2>1. {[k \in {x[i].key : i \in DOMAIN x} |-> x[Index(x, k)].val] : x \in {s}} = {value}
    <3>1. K = {s[i].key : i \in DOMAIN s}
      BY DEF ToSet
    <3> HIDE DEF K
    <3> QED
      BY <3>1
  <2> HIDE DEF value, K
  <2>2. \A m : (CHOOSE x \in {m} : TRUE) = m
    OBVIOUS
  <2> QED
    BY <2>1, <2>2 DEF AsMap
<1>3. ASSUME NEW e \in ToSet(s) PROVE value[e.key] = e.val
  <2>1. e.key \in Nat /\ e.key \in K
    <3>1. \A i \in 1 .. Len(s) : s[i].key \in Nat
      BY RowType
    <3>2. PICK i \in 1 .. Len(s) : e = s[i]
      BY RowType
    <3> QED
      BY <3>1, <3>2
  <2>2. Has(s, e.key)
    BY <2>1, HasKey
  <2>3. Index(s, e.key) \in 1 .. Len(s) /\ s[Index(s, e.key)].key = e.key
    BY <2>1, <2>2, HasKey
  <2>4. s[Index(s, e.key)] \in ToSet(s)
    BY <2>3, RowType
  <2>5. s[Index(s, e.key)] = e
    BY <2>3, <2>4, RowKeys
  <2> QED
    BY <2>1, <2>5
<1>4. IsMap(value, ToSet(s))
  <2>1. value = [k \in K |-> value[k]]
    OBVIOUS
  <2> HIDE DEF value
  <2> QED
    BY <1>3, <2>1 DEF IsMap
<1>5. value = MapOf(ToSet(s))
  <2> HIDE DEF value
  <2> QED
    BY <1>1, <1>4, MapOfOnly
<1> QED
  BY <1>1, <1>2, <1>5

\* What putting or deleting an element does to the map.
LEMMA MapPut ==
  ASSUME NEW S, Unique(S), NEW e
  PROVE  MapOf({f \in S : f.key # e.key} \cup {e})
           = [k \in DOMAIN MapOf(S) \cup {e.key} |-> IF k = e.key THEN e.val ELSE MapOf(S)[k]]
<1> DEFINE T == {f \in S : f.key # e.key} \cup {e}
           K == {f.key : f \in S} \cup {e.key}
           value == [k \in K |-> IF k = e.key THEN e.val ELSE MapOf(S)[k]]
<1>1. DOMAIN MapOf(S) = {f.key : f \in S} /\ \A f \in S : MapOf(S)[f.key] = f.val
  BY MapOfIs
<1>2. Unique(T) /\ K = {f.key : f \in T}
  BY DEF Unique
<1>3. \A f \in T : value[f.key] = f.val
  BY <1>1
<1>4. IsMap(value, T)
  <2>1. value = [k \in K |-> value[k]]
    OBVIOUS
  <2> HIDE DEF value, T, K
  <2> QED
    BY <1>2, <1>3, <2>1 DEF IsMap
<1>5. value = MapOf(T)
  <2> HIDE DEF value, T
  <2> QED
    BY <1>2, <1>4, MapOfOnly
<1> QED
  BY <1>1, <1>5

LEMMA MapDelete ==
  ASSUME NEW S, Unique(S), NEW x
  PROVE  MapOf({f \in S : f.key # x}) = [k \in DOMAIN MapOf(S) \ {x} |-> MapOf(S)[k]]
<1> DEFINE T == {f \in S : f.key # x}
           K == {f.key : f \in S} \ {x}
           value == [k \in K |-> MapOf(S)[k]]
<1>1. DOMAIN MapOf(S) = {f.key : f \in S} /\ \A f \in S : MapOf(S)[f.key] = f.val
  BY MapOfIs
<1>2. Unique(T) /\ K = {f.key : f \in T}
  BY DEF Unique
<1>3. \A f \in T : value[f.key] = f.val
  BY <1>1
<1>4. IsMap(value, T)
  <2>1. value = [k \in K |-> value[k]]
    OBVIOUS
  <2> HIDE DEF value, T, K
  <2> QED
    BY <1>2, <1>3, <2>1 DEF IsMap
<1>5. value = MapOf(T)
  <2> HIDE DEF value, T
  <2> QED
    BY <1>2, <1>4, MapOfOnly
<1> QED
  BY <1>1, <1>5

=============================================================================
