--------------------------- MODULE AllocatorProofs ---------------------------
(***************************************************************************)
(* Proofs about the two allocators.  The three maps of the hashmap always  *)
(* describe the same, separate spans; the array's slice stays sorted; and  *)
(* both implement PageSet.                                                 *)
(***************************************************************************)
EXTENDS MCFreelists, Sequences, FiniteSetTheorems, WellFoundedInduction, TLAPS

Valid(m) ==
  /\ Typed(m) /\ Agree(m) /\ Apart(m)
  /\ m.freePagesCount = Cardinality(FreeIds(m))

HInv ==
  /\ Valid(spans)
  /\ ids \subseteq PageIds \ FreeIds(spans)
  /\ ret \in {0} \cup PageIds

\* The ids of a span are page ids, and there are finitely many free ids.
LEMMA FreeIdsFinite ==
  ASSUME NEW m, Typed(m)
  PROVE  FreeIds(m) \subseteq PageIds /\ IsFiniteSet(FreeIds(m))
<1>1. FreeIds(m) \subseteq PageIds
  BY MaxIdAssumption DEF Typed, FreeIds, PageIds
<1>2. IsFiniteSet(PageIds)
  BY FS_Interval, MaxIdAssumption DEF PageIds
<1> QED
  BY <1>1, <1>2, FS_Subset

\* An id is free iff it lies in a span.
LEMMA FreeIdsElement ==
  ASSUME NEW m, NEW i
  PROVE  i \in FreeIds(m) <=>
           \E s \in DOMAIN m.forwardMap : i \in s .. (s + m.forwardMap[s] - 1)
BY DEF FreeIds

\* addSpan, called with a span that touches no other, keeps the maps valid.
LEMMA AddSpanValid ==
  ASSUME NEW m, Valid(m), NEW start \in PageIds, NEW size \in Nat \ {0},
         start + size - 1 \in PageIds,
         \A s \in DOMAIN m.forwardMap : s + m.forwardMap[s] < start \/ start + size < s
  PROVE  LET g == AddSpan(m, start, size) IN
         /\ Valid(g)
         /\ FreeIds(g) = FreeIds(m) \cup (start .. (start + size - 1))
<1> DEFINE g == AddSpan(m, start, size)
           F == m.forwardMap
           G == g.forwardMap
<1>1. /\ DOMAIN G = DOMAIN F \cup {start}
      /\ G[start] = size
      /\ start \notin DOMAIN F
      /\ \A s \in DOMAIN F : G[s] = F[s]
  BY MaxIdAssumption DEF AddSpan, With, Valid, Typed, PageIds
<1>2. Typed(g)
  BY <1>1, MaxIdAssumption DEF Valid, Typed, PageIds
<1>3. Apart(g)
  BY <1>1, MaxIdAssumption DEF Valid, Typed, Apart, PageIds
<1>4. Agree(g)
  <2>1. /\ DOMAIN g.backwardMap = DOMAIN m.backwardMap \cup {start + size - 1}
        /\ \A e \in DOMAIN g.backwardMap :
             g.backwardMap[e] = IF e = start + size - 1 THEN size ELSE m.backwardMap[e]
    BY DEF AddSpan, With
  <2>2. /\ DOMAIN g.freemaps = DOMAIN m.freemaps \cup {size}
        /\ \A n \in DOMAIN m.freemaps : n # size => g.freemaps[n] = m.freemaps[n]
        /\ g.freemaps[size] = (IF size \in DOMAIN m.freemaps THEN m.freemaps[size] ELSE {}) \cup {start}
    BY DEF AddSpan, With, Get
  <2>3. DOMAIN g.backwardMap = {s + G[s] - 1 : s \in DOMAIN G}
    BY <1>1, <2>1 DEF Valid, Agree
  <2>4. \A s \in DOMAIN G : g.backwardMap[s + G[s] - 1] = G[s]
    <3> TAKE s \in DOMAIN G
    <3>1. CASE s = start
      BY <3>1, <1>1, <2>1
    <3>2. CASE s # start
      <4>1. s \in DOMAIN F /\ s + F[s] - 1 # start + size - 1
        BY <3>2, <1>1, MaxIdAssumption DEF Valid, Typed, PageIds
      <4>2. s + F[s] - 1 \in DOMAIN g.backwardMap
        BY <4>1, <1>1, <2>3
      <4> QED
        BY <4>1, <4>2, <1>1, <2>1 DEF Valid, Agree
    <3> QED
      BY <3>1, <3>2
  <2>5. DOMAIN g.freemaps = {G[s] : s \in DOMAIN G}
    BY <1>1, <2>2 DEF Valid, Agree
  <2>6. \A n \in DOMAIN g.freemaps : g.freemaps[n] = {s \in DOMAIN G : G[s] = n}
    <3> TAKE n \in DOMAIN g.freemaps
    <3>1. CASE n = size
      <4>1. (IF size \in DOMAIN m.freemaps THEN m.freemaps[size] ELSE {}) = {s \in DOMAIN F : F[s] = size}
        BY DEF Valid, Agree
      <4> QED
        BY <4>1, <3>1, <2>2, <1>1
    <3>2. CASE n # size
      BY <3>2, <2>2, <1>1 DEF Valid, Agree
    <3> QED
      BY <3>1, <3>2
  <2> QED
    BY <2>3, <2>4, <2>5, <2>6 DEF Agree
<1>5. FreeIds(g) = FreeIds(m) \cup (start .. (start + size - 1))
  <2>1. \A i : i \in FreeIds(g) <=> i \in FreeIds(m) \/ i \in start .. (start + size - 1)
    BY <1>1, FreeIdsElement
  <2> QED
    BY <2>1
<1>6. g.freePagesCount = Cardinality(FreeIds(g))
  <2> DEFINE I == start .. (start + size - 1)
  <2>1. FreeIds(m) \cap I = {}
    BY FreeIdsElement, MaxIdAssumption DEF Valid, Typed, PageIds
  <2>2. IsFiniteSet(I) /\ Cardinality(I) = size
    <3>1. start \in Int /\ start + size - 1 \in Int /\ ~(start > start + size - 1)
      BY MaxIdAssumption DEF PageIds
    <3>2. IsFiniteSet(I) /\ Cardinality(I) = (start + size - 1) - start + 1
      BY <3>1, FS_Interval
    <3> QED
      BY <3>1, <3>2
  <2>3. IsFiniteSet(FreeIds(m)) /\ Cardinality(FreeIds(m)) \in Nat
    BY FreeIdsFinite, FS_CardinalityType DEF Valid
  <2> HIDE DEF I
  <2>4. Cardinality(FreeIds(m) \cup I) = Cardinality(FreeIds(m)) + Cardinality(I) - Cardinality({})
    BY <2>1, <2>2, <2>3, FS_Union
  <2>5. Cardinality(FreeIds(m) \cup I) = Cardinality(FreeIds(m)) + size
    BY <2>4, <2>2, <2>3, FS_EmptySet
  <2>6. g.freePagesCount = m.freePagesCount + size
    BY DEF AddSpan
  <2> QED
    BY <2>5, <2>6, <1>5 DEF Valid, I
<1> QED
  BY <1>2, <1>3, <1>4, <1>5, <1>6 DEF Valid

\* delSpan, called with a span that is there, keeps the maps valid.
LEMMA DelSpanValid ==
  ASSUME NEW m, Valid(m), NEW start \in DOMAIN m.forwardMap
  PROVE  LET g == DelSpan(m, start, m.forwardMap[start]) IN
         /\ Valid(g)
         /\ FreeIds(g) = FreeIds(m) \ (start .. (start + m.forwardMap[start] - 1))
         /\ DOMAIN g.forwardMap = DOMAIN m.forwardMap \ {start}
         /\ \A s \in DOMAIN g.forwardMap : g.forwardMap[s] = m.forwardMap[s]
<1> DEFINE F == m.forwardMap
           size == F[start]
           g == DelSpan(m, start, size)
           G == g.forwardMap
<1>1. /\ DOMAIN G = DOMAIN F \ {start}
      /\ \A s \in DOMAIN G : G[s] = F[s]
  BY DEF DelSpan, Without
<1>2. Typed(g) /\ Apart(g)
  BY <1>1 DEF Valid, Typed, Apart
<1>3. \A s \in DOMAIN G : s + F[s] - 1 # start + size - 1
  BY <1>1, MaxIdAssumption DEF Valid, Typed, Apart, PageIds
<1>4. Agree(g)
  <2>1. /\ DOMAIN g.backwardMap = DOMAIN m.backwardMap \ {start + size - 1}
        /\ \A e \in DOMAIN g.backwardMap : g.backwardMap[e] = m.backwardMap[e]
    BY DEF DelSpan, Without
  <2>2. size \in DOMAIN m.freemaps /\ m.freemaps[size] = {s \in DOMAIN F : F[s] = size}
    BY DEF Valid, Agree
  <2> DEFINE left == {s \in DOMAIN F : F[s] = size} \ {start}
  <2>3. left = {s \in DOMAIN G : G[s] = size}
    BY <1>1
  <2>4. g.freemaps = IF left = {} THEN Without(m.freemaps, size) ELSE With(m.freemaps, size, left)
    BY <2>2 DEF DelSpan, Get
  <2>5. DOMAIN g.backwardMap = {s + G[s] - 1 : s \in DOMAIN G}
    BY <1>1, <1>3, <2>1 DEF Valid, Agree
  <2>6. \A s \in DOMAIN G : g.backwardMap[s + G[s] - 1] = G[s]
    BY <1>1, <2>1, <2>5 DEF Valid, Agree
  <2> HIDE DEF left
  <2>7. DOMAIN g.freemaps = {G[s] : s \in DOMAIN G}
    <3>1. DOMAIN g.freemaps = IF left = {} THEN DOMAIN m.freemaps \ {size} ELSE DOMAIN m.freemaps
      BY <2>4, <2>2 DEF With, Without
    <3>2. CASE left = {}
      BY <3>1, <3>2, <2>3, <1>1 DEF Valid, Agree
    <3>3. CASE left # {}
      BY <3>1, <3>3, <2>3, <1>1 DEF Valid, Agree
    <3> QED
      BY <3>2, <3>3
  <2>8. \A n \in DOMAIN g.freemaps : g.freemaps[n] = {s \in DOMAIN G : G[s] = n}
    <3> TAKE n \in DOMAIN g.freemaps
    <3>1. CASE n = size
      <4>1. left # {}
        BY <3>1, <2>4 DEF Without
      <4> QED
        BY <4>1, <3>1, <2>3, <2>4 DEF With
    <3>2. CASE n # size
      <4>1. n \in DOMAIN m.freemaps /\ g.freemaps[n] = m.freemaps[n]
        BY <3>2, <2>4 DEF With, Without
      <4> QED
        BY <4>1, <3>2, <1>1 DEF Valid, Agree
    <3> QED
      BY <3>1, <3>2
  <2> QED
    BY <2>5, <2>6, <2>7, <2>8 DEF Agree
<1> DEFINE I == start .. (start + size - 1)
<1>5. FreeIds(g) = FreeIds(m) \ I
  <2>1. \A i : i \in FreeIds(g) <=> i \in FreeIds(m) /\ i \notin I
    BY <1>1, FreeIdsElement, MaxIdAssumption DEF Valid, Typed, Apart, PageIds
  <2> QED
    BY <2>1
<1>6. g.freePagesCount = Cardinality(FreeIds(g))
  <2>1. I \subseteq FreeIds(m)
    BY FreeIdsElement
  <2>2. IsFiniteSet(I) /\ Cardinality(I) = size
    BY FS_Interval, MaxIdAssumption DEF Valid, Typed, PageIds
  <2>3. IsFiniteSet(FreeIds(m)) /\ Cardinality(FreeIds(m)) \in Nat
    BY FreeIdsFinite, FS_CardinalityType DEF Valid
  <2>4. g.freePagesCount = m.freePagesCount - size
    BY DEF DelSpan
  <2> HIDE DEF I
  <2>5. Cardinality(FreeIds(m) \ I) = Cardinality(FreeIds(m)) - Cardinality(FreeIds(m) \cap I)
    BY <2>2, <2>3, FS_Difference
  <2>6. FreeIds(m) \cap I = I
    BY <2>1
  <2> QED
    BY <2>2, <2>4, <2>5, <2>6, <1>5 DEF Valid
<1> QED
  BY <1>1, <1>2, <1>4, <1>5, <1>6 DEF Valid

-----------------------------------------------------------------------------
(* Init. *)

\* The run that starts at i ends somewhere: EndOf is well defined.
LEMMA EndOfRun ==
  ASSUME NEW S \in SUBSET PageIds, NEW i \in S
  PROVE  /\ EndOf(S, i) \in S
         /\ i <= EndOf(S, i) /\ i .. EndOf(S, i) \subseteq S /\ EndOf(S, i) + 1 \notin S
<1> DEFINE T == {j \in Nat : i <= j /\ j + 1 \notin S}
<1>1. MaxId \in T
  BY MaxIdAssumption DEF PageIds
<1>2. PICK j \in T : \A k \in T : j <= k
  <2>1. PICK j \in T : \A k \in T : <<k, j>> \notin OpToRel(<, Nat)
    BY <1>1, NatLessThanWellFounded, WFMin, Zenon
  <2>2. \A k \in T : ~(k < j)
    BY <2>1 DEF OpToRel
  <2> QED
    BY <2>2
<1> DEFINE D == i .. j \ S
<1>3. i .. j \subseteq S
  <2> SUFFICES ASSUME D # {} PROVE FALSE
    OBVIOUS
  <2>1. PICK k \in D : \A l \in D : k <= l
    <3>1. D \subseteq Nat
      BY DEF PageIds
    <3>2. PICK k \in D : \A l \in D : <<l, k>> \notin OpToRel(<, Nat)
      BY <3>1, NatLessThanWellFounded, WFMin, Zenon
    <3>3. \A l \in D : ~(l < k)
      BY <3>1, <3>2 DEF OpToRel
    <3> QED
      BY <3>1, <3>3
  <2>2. i < k /\ k <= j /\ k - 1 \in Nat
    BY <2>1 DEF PageIds
  <2>3. k - 1 \in T
    BY <2>1, <2>2 DEF PageIds
  <2> QED
    BY <1>2, <2>2, <2>3
<1>4. j \in S
  BY <1>2, <1>3 DEF PageIds
<1> DEFINE P(y) == i <= y /\ i .. y \subseteq S /\ y + 1 \notin S
<1>5. (CHOOSE y \in S : P(y)) \in S /\ P(CHOOSE y \in S : P(y))
  BY <1>2, <1>3, <1>4
<1> QED
  BY <1>5 DEF EndOf

\* hashMap.Init builds maps that agree, of maximal runs.
LEMMA LoadedValid ==
  ASSUME NEW S \in SUBSET PageIds
  PROVE  Valid(Loaded(S)) /\ FreeIds(Loaded(S)) = S
<1> DEFINE m == Loaded(S)
           F == m.forwardMap
<1>1. DOMAIN F = Starts(S) /\ \A s \in Starts(S) : F[s] = Size(S, s)
  BY DEF Loaded
<1>2. \A s \in Starts(S) : /\ s \in S /\ s - 1 \notin S
                           /\ EndOf(S, s) = s + F[s] - 1
                           /\ s + F[s] - 1 \in S /\ s <= s + F[s] - 1
                           /\ s .. (s + F[s] - 1) \subseteq S /\ s + F[s] \notin S
                           /\ F[s] \in 1 .. MaxId
  <2> TAKE s \in Starts(S)
  <2>1. s \in S /\ s - 1 \notin S
    BY DEF Starts
  <2>2. F[s] = EndOf(S, s) - s + 1
    BY <1>1 DEF Size
  <2>3. /\ EndOf(S, s) \in S /\ s <= EndOf(S, s)
        /\ s .. EndOf(S, s) \subseteq S /\ EndOf(S, s) + 1 \notin S
    BY <2>1, EndOfRun
  <2> HIDE DEF m
  <2>a. \A e, t, f \in Int : (2 <= t /\ t <= e /\ e <= MaxId /\ f = e - t + 1)
            => (e = t + f - 1 /\ 1 <= f /\ f <= MaxId /\ t + f = e + 1 /\ t + f - 1 = e)
    BY MaxIdAssumption
  <2>b. /\ EndOf(S, s) \in 2 .. MaxId /\ s \in 2 .. MaxId
    BY <2>1, <2>3 DEF PageIds
  <2>c. /\ EndOf(S, s) \in Int /\ EndOf(S, s) <= MaxId
        /\ s \in Int /\ 2 <= s
    BY <2>b, MaxIdAssumption
  <2>d. F[s] \in Int
    BY <2>c, <2>2
  <2>e. /\ EndOf(S, s) = s + F[s] - 1 /\ 1 <= F[s] /\ F[s] <= MaxId
        /\ s + F[s] = EndOf(S, s) + 1 /\ s + F[s] - 1 = EndOf(S, s)
    BY <2>a, <2>c, <2>d, <2>2, <2>3
  <2>4. EndOf(S, s) = s + F[s] - 1
    BY <2>e
  <2>5. F[s] \in 1 .. MaxId
    BY <2>e, <2>d, MaxIdAssumption
  <2>6. s + F[s] = EndOf(S, s) + 1 /\ s + F[s] - 1 = EndOf(S, s)
    BY <2>e
  <2> QED
    BY <2>1, <2>3, <2>4, <2>5, <2>6
<1>3. Typed(m)
  BY <1>1, <1>2 DEF Typed
<1>4. Apart(m)
  <2> SUFFICES ASSUME NEW s \in Starts(S), NEW t \in Starts(S), s < t PROVE s + F[s] < t
    BY <1>1 DEF Apart
  <2> QED
    BY <1>2 DEF PageIds
<1>5. Agree(m)
  <2>1. DOMAIN m.backwardMap = {EndOf(S, s) : s \in Starts(S)}
    BY DEF Loaded
  <2>2. \A j \in DOMAIN m.backwardMap :
          m.backwardMap[j] = Size(S, CHOOSE i \in Starts(S) : EndOf(S, i) = j)
    BY DEF Loaded
  <2>3. /\ DOMAIN m.freemaps = {Size(S, s) : s \in Starts(S)}
        /\ \A n \in DOMAIN m.freemaps : m.freemaps[n] = {s \in Starts(S) : Size(S, s) = n}
    BY DEF Loaded
  <2> HIDE DEF m
  <2>4. DOMAIN m.backwardMap = {s + F[s] - 1 : s \in DOMAIN F}
    BY <1>1, <1>2, <2>1
  <2>5. \A s \in DOMAIN F : m.backwardMap[s + F[s] - 1] = F[s]
    <3> TAKE s \in DOMAIN F
    <3> DEFINE i == CHOOSE i \in Starts(S) : EndOf(S, i) = s + F[s] - 1
    <3>1. i \in Starts(S) /\ EndOf(S, i) = EndOf(S, s)
      BY <1>1, <1>2
    <3>2. i + F[i] = s + F[s]
      BY <3>1, <1>1, <1>2 DEF PageIds
    <3>3. i = s
      BY <3>1, <3>2, <1>1, <1>2, <1>4 DEF Apart, PageIds
    <3>4. m.backwardMap[s + F[s] - 1] = Size(S, i)
      BY <2>2, <2>4
    <3> QED
      BY <3>3, <3>4, <1>1
  <2> QED
    BY <2>3, <2>4, <2>5, <1>1 DEF Agree
<1>6. FreeIds(m) = S
  <2>1. FreeIds(m) \subseteq S
    BY <1>1, <1>2, FreeIdsElement
  <2>2. ASSUME NEW p \in S PROVE p \in FreeIds(m)
    <3> DEFINE B == {n \in Nat : n <= p /\ n .. p \subseteq S}
    <3>1. p \in B /\ B \subseteq Nat
      BY DEF PageIds
    <3>2. PICK s \in B : \A k \in B : s <= k
      <4>1. PICK s \in B : \A k \in B : <<k, s>> \notin OpToRel(<, Nat)
        BY <3>1, NatLessThanWellFounded, WFMin, Zenon
      <4>2. \A k \in B : ~(k < s)
        BY <3>1, <4>1 DEF OpToRel
      <4> QED
        BY <3>1, <4>2
    <3>3. s \in S
      BY <3>1, <3>2
    <3>4. s - 1 \notin S
      <4> SUFFICES ASSUME s - 1 \in S PROVE FALSE
        OBVIOUS
      <4>1. s - 1 \in B
        BY <3>2, <3>3 DEF PageIds
      <4> QED
        BY <4>1, <3>2
    <3>5. s \in Starts(S)
      BY <3>3, <3>4 DEF Starts
    <3> HIDE DEF m
    <3>6. p <= s + F[s] - 1
      <4> SUFFICES ASSUME s + F[s] <= p PROVE FALSE
        BY <3>5, <1>2 DEF PageIds
      <4> QED
        BY <3>2, <3>5, <1>2 DEF PageIds
    <3>7. p \in s .. (s + F[s] - 1)
      BY <3>2, <3>5, <3>6, <1>2 DEF PageIds
    <3> QED
      BY <3>5, <3>7, <1>1, FreeIdsElement
  <2> QED
    BY <2>1, <2>2
<1>7. m.freePagesCount = Cardinality(FreeIds(m))
  BY <1>6 DEF Loaded
<1> QED
  BY <1>3, <1>4, <1>5, <1>6, <1>7 DEF Valid

-----------------------------------------------------------------------------
(* Allocate. *)

\* A run of free ids lies inside one span.
LEMMA RunInSpan ==
  ASSUME NEW m, Valid(m), NEW i \in Int, NEW n \in Nat \ {0},
         i .. (i + n - 1) \subseteq FreeIds(m)
  PROVE  \E s \in DOMAIN m.forwardMap : s <= i /\ i + n <= s + m.forwardMap[s]
<1> DEFINE F == m.forwardMap
<1>1. PICK s \in DOMAIN F : i \in s .. (s + F[s] - 1)
  BY FreeIdsElement
<1>2. ASSUME s + F[s] < i + n PROVE FALSE
  <2>1. s + F[s] \in FreeIds(m)
    BY <1>1, <1>2, MaxIdAssumption DEF Valid, Typed, PageIds
  <2>2. PICK t \in DOMAIN F : s + F[s] \in t .. (t + F[t] - 1)
    BY <2>1, FreeIdsElement
  <2> QED
    BY <1>1, <2>2, MaxIdAssumption DEF Valid, Typed, Apart, PageIds
<1> QED
  BY <1>1, <1>2, MaxIdAssumption DEF Valid, Typed, PageIds

\* Taking a span of exactly n ids.
LEMMA TakeExactStep ==
  ASSUME Valid(spans), NEW n \in Nat \ {0}, n \in DOMAIN spans.freemaps, TakeExact(n)
  PROVE  /\ Valid(spans') /\ ret' \in PageIds
         /\ ret' .. (ret' + n - 1) \subseteq FreeIds(spans)
         /\ FreeIds(spans') = FreeIds(spans) \ (ret' .. (ret' + n - 1))
<1>1. PICK pid \in spans.freemaps[n] : spans' = DelSpan(spans, pid, n) /\ ret' = pid
  BY DEF TakeExact
<1>2. pid \in DOMAIN spans.forwardMap /\ spans.forwardMap[pid] = n
  BY DEF Valid, Agree
<1> QED
  BY <1>1, <1>2, DelSpanValid, FreeIdsElement DEF Valid, Typed

\* Taking n ids off a larger span, and putting the rest back.
LEMMA TakeLargerStep ==
  ASSUME Valid(spans), NEW n \in Nat \ {0}, TakeLarger(n)
  PROVE  /\ Valid(spans') /\ ret' \in PageIds
         /\ ret' .. (ret' + n - 1) \subseteq FreeIds(spans)
         /\ FreeIds(spans') = FreeIds(spans) \ (ret' .. (ret' + n - 1))
<1>0. PICK size \in {s \in DOMAIN spans.freemaps : s > n} :
        \E pid \in spans.freemaps[size] :
          /\ spans' = AddSpan(DelSpan(spans, pid, size), pid + n, size - n)
          /\ ret' = pid
  BY DEF TakeLarger
<1>1. PICK pid \in spans.freemaps[size] :
        /\ size > n
        /\ spans' = AddSpan(DelSpan(spans, pid, size), pid + n, size - n)
        /\ ret' = pid
  BY <1>0
<1>2. pid \in DOMAIN spans.forwardMap /\ spans.forwardMap[pid] = size
  BY <1>0 DEF Valid, Agree
<1> DEFINE g == DelSpan(spans, pid, size)
<1>3. /\ Valid(g)
      /\ FreeIds(g) = FreeIds(spans) \ (pid .. (pid + size - 1))
      /\ DOMAIN g.forwardMap = DOMAIN spans.forwardMap \ {pid}
      /\ \A s \in DOMAIN g.forwardMap : g.forwardMap[s] = spans.forwardMap[s]
  BY <1>2, DelSpanValid
<1>4. /\ pid \in PageIds /\ size \in Nat /\ pid + size - 1 \in PageIds
      /\ pid .. (pid + size - 1) \subseteq FreeIds(spans)
  BY <1>2, FreeIdsElement, MaxIdAssumption DEF Valid, Typed, PageIds
<1>5. pid + n \in PageIds /\ size - n \in Nat \ {0} /\ (pid + n) + (size - n) - 1 \in PageIds
  <2>1. size > n /\ size \in Nat /\ n \in Nat /\ pid \in Nat /\ 2 <= pid
    BY <1>1, <1>4 DEF PageIds
  <2>2. (pid + n) + (size - n) - 1 = pid + size - 1
    BY <2>1
  <2>3. pid + n <= pid + size - 1
    BY <2>1
  <2> QED
    BY <2>1, <2>2, <2>3, <1>4, MaxIdAssumption DEF PageIds
<1>6. \A s \in DOMAIN g.forwardMap :
        s + g.forwardMap[s] < pid + n \/ (pid + n) + (size - n) < s
  <2> TAKE s \in DOMAIN g.forwardMap
  <2>1. s + spans.forwardMap[s] < pid \/ pid + size < s
    BY <1>2, <1>3, MaxIdAssumption DEF Valid, Typed, Apart, PageIds
  <2>2. s \in Int /\ spans.forwardMap[s] \in Int
    BY <1>3, MaxIdAssumption DEF Valid, Typed, PageIds
  <2>3. g.forwardMap[s] = spans.forwardMap[s]
    BY <1>3
  <2> QED
    BY <2>1, <2>2, <2>3, <1>4, <1>5 DEF PageIds
<1> HIDE DEF g
<1>7. /\ Valid(AddSpan(g, pid + n, size - n))
      /\ FreeIds(AddSpan(g, pid + n, size - n)) =
           FreeIds(g) \cup ((pid + n) .. ((pid + n) + (size - n) - 1))
  BY <1>3, <1>5, <1>6, AddSpanValid
<1>8. FreeIds(spans') = FreeIds(spans) \ (pid .. (pid + n - 1))
  <2>1. FreeIds(spans') = (FreeIds(spans) \ (pid .. (pid + size - 1)))
                             \cup ((pid + n) .. (pid + size - 1))
    BY <1>1, <1>3, <1>4, <1>7 DEF g, PageIds
  <2> QED
    BY <2>1, <1>1, <1>4 DEF PageIds
<1> QED
  BY <1>1, <1>4, <1>7, <1>8 DEF g, PageIds

\* If no span has n ids, no n contiguous ids are free.
LEMMA NoRun ==
  ASSUME Valid(spans), NEW n \in Nat \ {0}, Fits(n) = {}
  PROVE  {i \in FreeIds(spans) : i .. (i + n - 1) \subseteq FreeIds(spans)} = {}
<1> SUFFICES ASSUME NEW i \in FreeIds(spans), i .. (i + n - 1) \subseteq FreeIds(spans)
             PROVE  FALSE
  OBVIOUS
<1>1. i \in Int
  BY FreeIdsFinite DEF Valid, PageIds
<1>2. PICK s \in DOMAIN spans.forwardMap : s <= i /\ i + n <= s + spans.forwardMap[s]
  BY <1>1, RunInSpan
<1>3. spans.forwardMap[s] \in DOMAIN spans.freemaps
  BY DEF Valid, Agree
<1>4. spans.forwardMap[s] >= n
  BY <1>1, <1>2, MaxIdAssumption DEF Valid, Typed, PageIds
<1> QED
  BY <1>3, <1>4 DEF Fits

-----------------------------------------------------------------------------
(* mergeSpans. *)

\* A run that touches no span before the merge is in the maps after it, together
\* with the spans before and after it.
LEMMA MergeValid ==
  ASSUME NEW m, Valid(m), NEW start \in PageIds, NEW end \in PageIds, start <= end,
         (start .. end) \cap FreeIds(m) = {}
  PROVE  LET g == MergeWithExistingSpan(m, start, end) IN
         /\ Valid(g)
         /\ FreeIds(g) = FreeIds(m) \cup (start .. end)
<1> DEFINE F == m.forwardMap
           before == start - 1 \in DOMAIN m.backwardMap
           after == end + 1 \in DOMAIN F
           preSize == Get(m.backwardMap, start - 1, 0)
           nextSize == Get(F, end + 1, 0)
           a == start - preSize
           m1 == IF before THEN DelSpan(m, a, preSize) ELSE m
           m2 == IF after THEN DelSpan(m1, end + 1, nextSize) ELSE m1
           size == (end - start + 1) + preSize + nextSize
<1>1. \A s \in DOMAIN F : /\ s \in PageIds /\ F[s] \in 1 .. MaxId
                          /\ s + F[s] - 1 \in PageIds
                          /\ s + F[s] <= start \/ end < s
  <2> TAKE s \in DOMAIN F
  <2>1. s \in PageIds /\ F[s] \in 1 .. MaxId /\ s + F[s] - 1 \in PageIds
    BY DEF Valid, Typed
  <2>2. s .. (s + F[s] - 1) \subseteq FreeIds(m)
    BY FreeIdsElement
  <2>3. CASE s + F[s] > start /\ s <= end
    <3>1. s \in start .. end \/ start \in s .. (s + F[s] - 1)
      BY <2>1, <2>3, MaxIdAssumption DEF PageIds
    <3>2. s \in s .. (s + F[s] - 1) /\ start \in start .. end
      BY <2>1, MaxIdAssumption DEF PageIds
    <3> QED
      BY <3>1, <3>2, <2>2
  <2> QED
    BY <2>1, <2>3, MaxIdAssumption DEF PageIds
<1>2. before => a \in DOMAIN F /\ F[a] = preSize
  <2> SUFFICES ASSUME before PROVE a \in DOMAIN F /\ F[a] = preSize
    OBVIOUS
  <2>1. PICK s \in DOMAIN F : start - 1 = s + F[s] - 1
    BY DEF Valid, Agree
  <2>2. preSize = F[s]
    BY <2>1 DEF Valid, Agree, Get
  <2>3. a = s
    BY <2>1, <2>2, <1>1, MaxIdAssumption DEF PageIds
  <2> QED
    BY <2>2, <2>3
<1>3. ~before => preSize = 0
  BY DEF Get
<1>4. preSize \in Nat /\ nextSize \in Nat
  BY <1>1, <1>2, <1>3, MaxIdAssumption DEF Get
<1>5. after => nextSize = F[end + 1]
  BY DEF Get
<1>6. ~after => nextSize = 0
  BY DEF Get
<1> HIDE DEF preSize, nextSize
<1>7. /\ Valid(m1)
      /\ FreeIds(m1) = FreeIds(m) \ (a .. (a + preSize - 1))
      /\ DOMAIN m1.forwardMap = DOMAIN F \ (IF before THEN {a} ELSE {})
      /\ \A s \in DOMAIN m1.forwardMap : m1.forwardMap[s] = F[s]
  <2>1. CASE before
    BY <2>1, <1>2, DelSpanValid
  <2>2. CASE ~before
    <3>1. a .. (a + preSize - 1) = {}
      BY <2>2, <1>3 DEF PageIds
    <3> QED
      BY <2>2, <3>1
  <2> QED
    BY <2>1, <2>2
<1>8. after => end + 1 \in DOMAIN m1.forwardMap /\ m1.forwardMap[end + 1] = nextSize
  BY <1>4, <1>5, <1>7 DEF PageIds
<1> HIDE DEF m1
<1>9. /\ Valid(m2)
      /\ FreeIds(m2) = FreeIds(m1) \ ((end + 1) .. (end + nextSize))
      /\ DOMAIN m2.forwardMap = DOMAIN m1.forwardMap \ (IF after THEN {end + 1} ELSE {})
      /\ \A s \in DOMAIN m2.forwardMap : m2.forwardMap[s] = m1.forwardMap[s]
  <2>1. CASE after
    <3>1. (end + 1) + nextSize - 1 = end + nextSize
      BY <1>4 DEF PageIds
    <3> QED
      BY <2>1, <3>1, <1>7, <1>8, DelSpanValid
  <2>2. CASE ~after
    <3>1. (end + 1) .. (end + nextSize) = {}
      BY <2>2, <1>6 DEF PageIds
    <3> QED
      BY <2>2, <3>1, <1>7
  <2> QED
    BY <2>1, <2>2
<1>10. /\ a \in PageIds /\ size \in Nat \ {0} /\ a + size - 1 \in PageIds
       /\ a + size = end + 1 + nextSize /\ a <= start
  <2>1. CASE before
    BY <2>1, <1>1, <1>2, <1>4, <1>5, <1>6, MaxIdAssumption DEF PageIds
  <2>2. CASE ~before
    BY <2>2, <1>1, <1>3, <1>4, <1>5, <1>6, MaxIdAssumption DEF PageIds
  <2> QED
    BY <2>1, <2>2
<1>11. \A s \in DOMAIN m2.forwardMap :
         s + m2.forwardMap[s] < a \/ a + size < s
  <2> TAKE s \in DOMAIN m2.forwardMap
  <2>1. /\ s \in DOMAIN F /\ m2.forwardMap[s] = F[s]
        /\ before => s # a
        /\ after => s # end + 1
    BY <1>7, <1>9
  <2>2. s \in Nat /\ F[s] \in Nat /\ F[s] >= 1 /\ start \in Nat /\ end \in Nat /\ a \in Nat
    BY <2>1, <1>1, <1>10, MaxIdAssumption DEF PageIds
  <2>3. CASE s + F[s] <= start
    <3>1. CASE before
      BY <3>1, <2>1, <2>2, <2>3, <1>2, <1>4 DEF Valid, Apart
    <3>2. CASE ~before
      <4>1. s + F[s] - 1 # start - 1
        BY <3>2, <2>1 DEF Valid, Agree
      <4> QED
        BY <4>1, <2>1, <2>2, <2>3, <3>2, <1>3
    <3> QED
      BY <3>1, <3>2
  <2>4. CASE end < s
    <3>1. CASE after
      BY <3>1, <2>1, <2>2, <2>4, <1>4, <1>5, <1>10 DEF Valid, Apart
    <3>2. CASE ~after
      BY <3>2, <2>1, <2>2, <2>4, <1>6, <1>10
    <3> QED
      BY <3>1, <3>2
  <2> QED
    BY <2>1, <2>3, <2>4, <1>1
<1> HIDE DEF m2, a, size
<1>12. /\ Valid(AddSpan(m2, a, size))
       /\ FreeIds(AddSpan(m2, a, size)) = FreeIds(m2) \cup (a .. (a + size - 1))
  BY <1>9, <1>10, <1>11, AddSpanValid
<1>13. FreeIds(m2) \cup (a .. (a + size - 1)) = FreeIds(m) \cup (start .. end)
  <2>1. a + preSize = start
    BY <1>4 DEF a, PageIds
  <2>2. a .. (a + preSize - 1) \subseteq FreeIds(m)
    BY <2>1, <1>2, <1>3, <1>4, <1>10, FreeIdsElement DEF PageIds
  <2>3. (end + 1) .. (end + nextSize) \subseteq FreeIds(m)
    BY <1>4, <1>5, <1>6, FreeIdsElement DEF PageIds
  <2>4. a .. (a + size - 1) = (a .. (start - 1)) \cup (start .. end) \cup ((end + 1) .. (end + nextSize))
    BY <1>4, <1>10 DEF PageIds
  <2>5. FreeIds(m) \subseteq Int
    BY FreeIdsFinite DEF Valid, PageIds
  <2>6. a + preSize - 1 = start - 1
    BY <2>1, <1>4, <1>10 DEF PageIds
  <2> QED
    BY <2>2, <2>3, <2>4, <2>5, <2>6, <1>7, <1>9
<1>14. MergeWithExistingSpan(m, start, end) = AddSpan(m2, a, size)
  BY DEF MergeWithExistingSpan, m2, m1, a, size, preSize, nextSize
<1> QED
  BY <1>12, <1>13, <1>14

-----------------------------------------------------------------------------
(* Theorems. *)

\* Init establishes the invariant.
LEMMA HInit == Init => HInv
BY LoadedValid DEF Init, HInv

\* Allocate keeps the invariant, and is an Allocate of PageSet.
LEMMA AllocateStep ==
  ASSUME HInv, NEW n \in 0 .. MaxId, Allocate(n)
  PROVE  HInv' /\ Set!Allocate(n)
<1>1. ids = {} /\ ids' = {} /\ n \in Nat
  BY DEF Allocate
<1>2. CASE n > 0 /\ ((n \in DOMAIN spans.freemaps /\ TakeExact(n)) \/ TakeLarger(n))
  <2>1. /\ Valid(spans') /\ ret' \in PageIds
        /\ ret' .. (ret' + n - 1) \subseteq FreeIds(spans)
        /\ FreeIds(spans') = FreeIds(spans) \ (ret' .. (ret' + n - 1))
    BY <1>1, <1>2, TakeExactStep, TakeLargerStep DEF HInv
  <2>2. ret' \in FreeIds(spans)
    <3>1. ret' \in Int /\ n \in Int /\ n >= 1
      BY <2>1, <1>1, <1>2 DEF PageIds
    <3>2. \A r, k \in Int : k >= 1 => r \in r .. (r + k - 1)
      OBVIOUS
    <3>3. ret' \in ret' .. (ret' + n - 1)
      BY <3>1, <3>2
    <3> QED
      BY <3>3, <2>1
  <2> QED
    BY <1>1, <1>2, <2>1, <2>2 DEF HInv, Set!Allocate, Set!Runs
<1>3. CASE (n = 0 \/ Fits(n) = {}) /\ ret' = 0 /\ UNCHANGED spans
  <2>1. n = 0 \/ {i \in FreeIds(spans) : i .. (i + n - 1) \subseteq FreeIds(spans)} = {}
    BY <1>1, <1>3, NoRun DEF HInv
  <2> QED
    BY <1>1, <1>3, <2>1 DEF HInv, Set!Allocate, Set!Runs
<1>4. \/ n > 0 /\ ((n \in DOMAIN spans.freemaps /\ TakeExact(n)) \/ TakeLarger(n))
      \/ (n = 0 \/ Fits(n) = {}) /\ ret' = 0 /\ UNCHANGED spans
  BY DEF Allocate
<1> QED
  BY <1>2, <1>3, <1>4

\* mergeSpans takes ids that are not free, and adds all of them.
LEMMA MergeStep ==
  ASSUME HInv, BeginMergeSpans \/ MergeRun
  PROVE  HInv' /\ Set!Merge /\ (ids # {} => Set!vars' = Set!vars)
<1>1. CASE BeginMergeSpans
  BY <1>1, FreeIdsFinite DEF BeginMergeSpans, HInv, Valid, Set!Merge, Set!PageIds, PageIds
<1>2. CASE MergeRun
  <2>1. PICK start \in ids, end \in ids :
          /\ start <= end /\ start .. end \subseteq ids
          /\ spans' = MergeWithExistingSpan(spans, start, end)
          /\ ids' = ids \ (start .. end)
          /\ ret' = ret
    BY <1>2 DEF MergeRun
  <2>2. Valid(spans') /\ FreeIds(spans') = FreeIds(spans) \cup (start .. end)
    BY <2>1, MergeValid DEF HInv
  <2>3. FreeIds(spans) \subseteq PageIds
    BY FreeIdsFinite DEF HInv, Valid
  <2> QED
    BY <2>1, <2>2, <2>3 DEF HInv, Set!Merge, Set!PageIds, PageIds, Set!vars
<1> QED
  BY <1>1, <1>2

\* Every step keeps the invariant, and is a step of PageSet.
LEMMA HNext ==
  ASSUME HInv, [Next]_vars
  PROVE  HInv' /\ [Set!Next]_(Set!vars) /\ (ids # {} => Set!vars' = Set!vars)
<1>1. CASE UNCHANGED vars
  BY <1>1 DEF vars, HInv, Set!vars
<1>2. CASE Next
  BY <1>2, AllocateStep, MergeStep DEF Next, Set!Next, Allocate
<1> QED
  BY <1>1, <1>2

\* The maps of the hashmap allocator are always valid.
THEOREM HashMapInvariance == Spec => []HInv
<1>1. HInv /\ [Next]_vars => HInv'
  BY HNext
<1> QED
  BY HInit, <1>1, PTL DEF Spec

\* The three maps always describe the same spans.
THEOREM HashMapAgrees == Spec => []SpansAgree
<1>1. HInv => SpansAgree
  BY DEF HInv, Valid, SpansAgree
<1> QED
  BY HashMapInvariance, <1>1, PTL

\* Spans never touch, so that no run of free ids is split over two spans.
THEOREM HashMapCoalesced == Spec => []SpansApart
<1>1. HInv => SpansApart
  BY DEF HInv, Valid, SpansApart
<1> QED
  BY HashMapInvariance, <1>1, PTL

\* FreeCount's counter is exact.
THEOREM HashMapCounts == Spec => []CountExact
<1>1. HInv => CountExact
  BY DEF HInv, Valid, CountExact
<1> QED
  BY HashMapInvariance, <1>1, PTL

\* For every number of pages the hashmap allocator implements PageSet: Allocate
\* finds a run whenever there is one, takes exactly it, and mergeSpans, once it
\* has begun, neither loses nor adds an id.
THEOREM HashMapRefinement == Spec => ImplementsPageSet
<1>1. Init => Set!Init
  <2>1. FreeIds(spans) \subseteq PageIds /\ ids = {} /\ ret = 0 => Set!Init
    BY DEF Set!Init, Set!PageIds, PageIds
  <2>2. Init => FreeIds(spans) \subseteq PageIds /\ ids = {} /\ ret = 0
    BY LoadedValid DEF Init
  <2> QED
    BY <2>1, <2>2
<1>2. HInv /\ [Next]_vars => [Set!Next]_(Set!vars) /\ [ids # {} => Set!vars' = Set!vars]_vars
  BY HNext
<1> QED
  BY HashMapInvariance, <1>1, <1>2, PTL DEF Spec, ImplementsPageSet, Set!Spec
-----------------------------------------------------------------------------
(***************************************************************************)
(* The array allocator.  First, sorted slices.                             *)
(***************************************************************************)
Elements(s) == {s[i] : i \in 1 .. Len(s)}
Ascending(s) == \A i, j \in 1 .. Len(s) : i < j => s[i] < s[j]
Slice(s) == s \in Seq(PageIds) /\ Ascending(s)

LEMMA ElementsOfSlice ==
  ASSUME NEW s \in Seq(PageIds)
  PROVE  /\ Len(s) \in Nat /\ DOMAIN s = 1 .. Len(s)
         /\ array!ToSet(s) = Elements(s)
         /\ \A i \in 1 .. Len(s) : s[i] \in PageIds /\ s[i] \in Int
         /\ s = <<>> <=> Len(s) = 0
         /\ s = <<>> <=> Elements(s) = {}
<1>1. Len(s) \in Nat /\ DOMAIN s = 1 .. Len(s) /\ (s = <<>> <=> Len(s) = 0)
  OBVIOUS
<1>2. \A i \in 1 .. Len(s) : s[i] \in PageIds /\ s[i] \in Int
  <2>1. PageIds \subseteq Int
    BY DEF PageIds
  <2>2. \A i \in 1 .. Len(s) : s[i] \in PageIds
    OBVIOUS
  <2> QED
    BY <2>1, <2>2
<1>3. array!ToSet(s) = Elements(s)
  BY <1>1 DEF array!ToSet, Elements
<1>4. Len(s) # 0 => s[1] \in Elements(s)
  BY <1>1 DEF Elements
<1>5. Len(s) = 0 => Elements(s) = {}
  BY DEF Elements
<1> QED
  BY <1>1, <1>2, <1>3, <1>4, <1>5

\* A set of numbers has a least element, and if it is bounded a greatest one.
LEMMA LeastOf ==
  ASSUME NEW T, T \subseteq Nat, T # {}
  PROVE  \E x \in T : \A y \in T : x <= y
<1>1. PICK x \in T : \A y \in T : <<y, x>> \notin OpToRel(<, Nat)
  BY NatLessThanWellFounded, WFMin, Zenon
<1>2. \A y \in T : ~(y < x)
  BY <1>1 DEF OpToRel
<1> QED
  BY <1>2

LEMMA GreatestOf ==
  ASSUME NEW n \in Nat, NEW T, T \subseteq 0 .. n, T # {}
  PROVE  \E x \in T : \A y \in T : x >= y
<1> DEFINE U == {n - y : y \in T}
<1>1. U \subseteq Nat /\ U # {}
  <2>1. \A y \in T : n - y \in Nat
    OBVIOUS
  <2> QED
    BY <2>1
<1>2. PICK u \in U : \A v \in U : u <= v
  <2> HIDE DEF U
  <2> QED
    BY <1>1, LeastOf
<1>3. PICK x \in T : u = n - x
  BY <1>2
<1>4. \A y \in T : n - x <= n - y
  BY <1>2, <1>3
<1> QED
  BY <1>3, <1>4

\* Parts of a slice, and one slice after another.
LEMMA PartOfSlice ==
  ASSUME NEW s, Slice(s), NEW a \in Nat \ {0}, NEW b \in Nat, b <= Len(s), a <= b + 1
  PROVE  /\ Slice(SubSeq(s, a, b)) /\ Len(SubSeq(s, a, b)) = b - a + 1
         /\ \A i \in 1 .. (b - a + 1) : SubSeq(s, a, b)[i] = s[a + i - 1]
         /\ Elements(SubSeq(s, a, b)) = {s[i] : i \in a .. b}
<1> DEFINE t == SubSeq(s, a, b)
<1>1. s \in Seq(PageIds) /\ Len(s) \in Nat
  BY DEF Slice
<1>2. Len(t) = b - a + 1 /\ \A i \in 1 .. (b - a + 1) : t[i] = s[a + i - 1]
  BY <1>1
<1>3. t \in Seq(PageIds)
  BY <1>1
<1> HIDE DEF t
<1>4. \A i \in 1 .. Len(t) : a + i - 1 \in a .. b /\ a + i - 1 \in 1 .. Len(s)
  BY <1>1, <1>2
<1>5. Ascending(t)
  <2> SUFFICES ASSUME NEW i \in 1 .. Len(t), NEW j \in 1 .. Len(t), i < j PROVE t[i] < t[j]
    BY DEF Ascending
  <2>1. a + i - 1 < a + j - 1
    BY <1>2
  <2>2. s[a + i - 1] < s[a + j - 1]
    BY <1>4, <2>1 DEF Slice, Ascending
  <2> QED
    BY <1>2, <2>2
<1>6. Elements(t) \subseteq {s[i] : i \in a .. b}
  BY <1>2, <1>4 DEF Elements
<1>7. ASSUME NEW i \in a .. b PROVE s[i] \in Elements(t)
  <2>1. i - a + 1 \in 1 .. Len(t) /\ a + (i - a + 1) - 1 = i
    BY <1>2
  <2>2. t[i - a + 1] = s[i]
    BY <1>2, <2>1
  <2> QED
    BY <2>1, <2>2 DEF Elements
<1> QED
  BY <1>2, <1>3, <1>5, <1>6, <1>7 DEF Slice, t

LEMMA SlicesJoined ==
  ASSUME NEW s, NEW t, Slice(s), Slice(t),
         \A x \in Elements(s), y \in Elements(t) : x < y
  PROVE  Slice(s \o t) /\ Elements(s \o t) = Elements(s) \cup Elements(t)
<1> DEFINE r == s \o t
<1>1. s \in Seq(PageIds) /\ t \in Seq(PageIds) /\ Len(s) \in Nat /\ Len(t) \in Nat
  BY DEF Slice
<1>2. /\ r \in Seq(PageIds) /\ Len(r) = Len(s) + Len(t)
      /\ \A i \in 1 .. Len(s) : r[i] = s[i]
      /\ \A i \in 1 .. Len(t) : r[Len(s) + i] = t[i]
  BY <1>1
<1> HIDE DEF r
<1>3. \A i \in 1 .. Len(r) : i \in 1 .. Len(s) \/ (i - Len(s) \in 1 .. Len(t) /\ r[i] = t[i - Len(s)])
  <2> SUFFICES ASSUME NEW i \in 1 .. Len(r), i \notin 1 .. Len(s)
               PROVE  i - Len(s) \in 1 .. Len(t) /\ r[i] = t[i - Len(s)]
    OBVIOUS
  <2>1. i - Len(s) \in 1 .. Len(t) /\ Len(s) + (i - Len(s)) = i
    BY <1>1, <1>2
  <2> QED
    BY <1>2, <2>1
<1>4. Ascending(r)
  <2> SUFFICES ASSUME NEW i \in 1 .. Len(r), NEW j \in 1 .. Len(r), i < j PROVE r[i] < r[j]
    BY DEF Ascending
  <2>1. CASE j \in 1 .. Len(s)
    <3>1. i \in 1 .. Len(s)
      BY <1>1, <1>2, <2>1
    <3> QED
      BY <1>2, <2>1, <3>1 DEF Slice, Ascending
  <2>2. CASE i \in 1 .. Len(s) /\ j \notin 1 .. Len(s)
    <3>1. r[i] \in Elements(s) /\ r[j] \in Elements(t)
      BY <1>2, <1>3, <2>2 DEF Elements
    <3> QED
      BY <3>1
  <2>3. CASE i \notin 1 .. Len(s) /\ j \notin 1 .. Len(s)
    <3>1. i - Len(s) < j - Len(s)
      BY <1>1, <1>2
    <3> QED
      BY <1>3, <2>3, <3>1 DEF Slice, Ascending
  <2> QED
    BY <2>1, <2>2, <2>3
<1>5. Elements(r) \subseteq Elements(s) \cup Elements(t)
  BY <1>2, <1>3 DEF Elements
<1>6. Elements(s) \subseteq Elements(r)
  BY <1>1, <1>2 DEF Elements
<1>7. ASSUME NEW i \in 1 .. Len(t) PROVE t[i] \in Elements(r)
  <2>1. Len(s) + i \in 1 .. Len(r)
    BY <1>1, <1>2
  <2> QED
    BY <1>2, <2>1 DEF Elements
<1> QED
  BY <1>2, <1>4, <1>5, <1>6, <1>7 DEF Slice, Elements, r

-----------------------------------------------------------------------------
(***************************************************************************)
(* Sorted makes a slice of a set: the rank of an id is the number of       *)
(* smaller ones.                                                           *)
(***************************************************************************)
Smaller(S, x) == {y \in S : y < x}
RankIn(S, x) == array!Cardinality(Smaller(S, x))

\* (The instance has its own copy of the FiniteSets operator.)
LEMMA SameCardinality == \A S : array!Cardinality(S) = Cardinality(S)
BY DEF array!Cardinality, Cardinality

LEMMA RankInRange ==
  ASSUME NEW S, S \subseteq Int, IsFiniteSet(S), NEW x \in S
  PROVE  /\ IsFiniteSet(Smaller(S, x)) /\ Cardinality(S) \in Nat
         /\ RankIn(S, x) \in Nat /\ RankIn(S, x) \in 0 .. (Cardinality(S) - 1)
<1>1. IsFiniteSet(S \ {x}) /\ Cardinality(S \ {x}) = Cardinality(S) - 1 /\ Cardinality(S) \in Nat
  BY FS_RemoveElement, FS_CardinalityType
<1>2. Smaller(S, x) \in SUBSET (S \ {x})
  BY DEF Smaller
<1>3. IsFiniteSet(Smaller(S, x)) /\ RankIn(S, x) <= Cardinality(S) - 1
  BY <1>1, <1>2, FS_Subset, SameCardinality DEF RankIn
<1>4. RankIn(S, x) \in Nat
  BY <1>3, FS_CardinalityType, SameCardinality DEF RankIn
<1> QED
  BY <1>1, <1>3, <1>4

LEMMA RankInGrows ==
  ASSUME NEW S, S \subseteq Int, IsFiniteSet(S), NEW x \in S, NEW y \in S, x < y
  PROVE  RankIn(S, x) < RankIn(S, y)
<1>1. /\ IsFiniteSet(Smaller(S, x)) /\ IsFiniteSet(Smaller(S, y))
      /\ RankIn(S, x) \in Nat /\ RankIn(S, y) \in Nat
  BY RankInRange
<1>2. Smaller(S, x) \in SUBSET Smaller(S, y)
  <2>1. \A z \in S : z < x => z < y
    <3>1. x \in Int /\ y \in Int /\ \A z \in S : z \in Int
      OBVIOUS
    <3> QED
      BY <3>1
  <2> QED
    BY <2>1 DEF Smaller
<1>3. x \in Smaller(S, y) /\ x \notin Smaller(S, x)
  BY DEF Smaller
<1>4. RankIn(S, x) <= RankIn(S, y) /\ (RankIn(S, x) = RankIn(S, y) => Smaller(S, x) = Smaller(S, y))
  BY <1>1, <1>2, FS_Subset, SameCardinality DEF RankIn
<1> QED
  BY <1>1, <1>3, <1>4

LEMMA SortedSlice ==
  ASSUME NEW S \in SUBSET PageIds
  PROVE  Slice(array!Sorted(S)) /\ Elements(array!Sorted(S)) = S
<1> DEFINE n == Cardinality(S)
           s == array!Sorted(S)
           f == [x \in S |-> RankIn(S, x)]
           Ranks == 0 .. (n - 1)
<1>1. S \subseteq Int /\ IsFiniteSet(S) /\ n \in Nat
  <2>1. IsFiniteSet(PageIds)
    BY FS_Interval, MaxIdAssumption DEF PageIds
  <2>2. IsFiniteSet(S)
    BY <2>1, FS_Subset
  <2> QED
    BY <2>2, FS_CardinalityType DEF PageIds
<1>2. f \in [S -> Ranks]
  BY <1>1, RankInRange
<1>3. \A x, y \in S : x # y => RankIn(S, x) # RankIn(S, y)
  <2> SUFFICES ASSUME NEW x \in S, NEW y \in S, x # y PROVE RankIn(S, x) # RankIn(S, y)
    OBVIOUS
  <2>1. x < y \/ y < x
    BY <1>1
  <2>2. RankIn(S, x) \in Nat /\ RankIn(S, y) \in Nat
    BY <1>1, RankInRange
  <2>3. x < y => RankIn(S, x) < RankIn(S, y)
    BY <1>1, RankInGrows
  <2>4. y < x => RankIn(S, y) < RankIn(S, x)
    BY <1>1, RankInGrows
  <2> QED
    BY <2>1, <2>2, <2>3, <2>4
<1>4. f \in Injection(S, Ranks)
  BY <1>2, <1>3 DEF Injection, IsInjective
<1>5. IsFiniteSet(Ranks) /\ Cardinality(Ranks) = n
  BY <1>1, FS_Interval
<1>6. f \in Surjection(S, Ranks)
  BY <1>4, <1>5, FS_Injection
<1>7. s = [i \in 1 .. n |-> CHOOSE x \in S : RankIn(S, x) = i - 1]
  BY SameCardinality DEF array!Sorted, RankIn, Smaller
<1>8. ASSUME NEW i \in 1 .. n PROVE s[i] \in S /\ RankIn(S, s[i]) = i - 1
  <2>1. i - 1 \in Ranks
    BY <1>1
  <2>2. PICK x \in S : RankIn(S, x) = i - 1
    BY <2>1, <1>6 DEF Surjection
  <2>3. s[i] = CHOOSE y \in S : RankIn(S, y) = i - 1
    BY <1>7
  <2> QED
    BY <2>2, <2>3
<1>9. s \in [1 .. n -> S]
  BY <1>7, <1>8
<1>10. s \in Seq(PageIds) /\ Len(s) = n
  <2> HIDE DEF s, n
  <2>1. s \in [1 .. n -> PageIds]
    BY <1>9
  <2> QED
    BY <1>1, <2>1
<1>11. Ascending(s)
  <2> SUFFICES ASSUME NEW i \in 1 .. n, NEW j \in 1 .. n, i < j PROVE s[i] < s[j]
    BY <1>10 DEF Ascending
  <2>1. ~(s[j] < s[i])
    <3>1. s[j] < s[i] => RankIn(S, s[j]) < RankIn(S, s[i])
      BY <1>1, <1>8, RankInGrows
    <3> QED
      BY <1>1, <1>8, <3>1
  <2>2. s[i] \in S /\ s[j] \in S /\ s[i] # s[j]
    <3>1. i - 1 # j - 1
      BY <1>1
    <3> QED
      BY <1>8, <3>1
  <2>3. s[i] \in Int /\ s[j] \in Int
    BY <1>1, <2>2
  <2> QED
    BY <2>1, <2>2, <2>3
<1>12. ASSUME NEW x \in S PROVE x \in Elements(s)
  <2>1. RankIn(S, x) + 1 \in 1 .. n /\ (RankIn(S, x) + 1) - 1 = RankIn(S, x)
    <3>1. RankIn(S, x) \in Nat /\ RankIn(S, x) \in 0 .. (n - 1)
      BY <1>1, RankInRange
    <3> HIDE DEF n
    <3> QED
      BY <1>1, <3>1
  <2>2. s[RankIn(S, x) + 1] = x
    BY <1>3, <1>8, <2>1
  <2> QED
    BY <1>10, <2>1, <2>2 DEF Elements
<1>13. Elements(s) \subseteq S
  BY <1>8, <1>10 DEF Elements
<1> QED
  BY <1>10, <1>11, <1>12, <1>13 DEF Slice

-----------------------------------------------------------------------------
(***************************************************************************)
(* The loop of Allocate.                                                   *)
(***************************************************************************)
\* Positions of neighbours hold contiguous ids as long as there is no gap.
LEMMA Contiguous ==
  ASSUME NEW s, Slice(s), NEW j \in 1 .. Len(s), NEW i \in j .. Len(s),
         \A k \in (j + 1) .. i : s[k] - s[k - 1] = 1
  PROVE  \A k \in j .. i : s[k] = s[j] + (k - j)
<1>1. s \in Seq(PageIds) /\ Len(s) \in Nat /\ \A k \in 1 .. Len(s) : s[k] \in Int
  BY ElementsOfSlice DEF Slice
<1> DEFINE Wrong == {k \in j .. i : s[k] # s[j] + (k - j)}
<1>2. Wrong \subseteq Nat
  BY <1>1
<1>3. SUFFICES ASSUME Wrong # {} PROVE FALSE
  OBVIOUS
<1>4. PICK k \in Wrong : \A l \in Wrong : k <= l
  <2> HIDE DEF Wrong
  <2> QED
    BY <1>2, <1>3, LeastOf
<1>5. k # j
  BY <1>1, <1>4
<1>6. k - 1 \in j .. i /\ k - 1 \notin Wrong /\ k \in (j + 1) .. i /\ {k, j, k - 1} \subseteq 1 .. Len(s)
  BY <1>1, <1>4, <1>5
<1>7. s[k - 1] = s[j] + (k - 1 - j)
  BY <1>6
<1>8. s[k] - s[k - 1] = 1
  BY <1>6
<1>9. s[k] \in Int /\ s[j] \in Int /\ s[k - 1] \in Int /\ k \in Int /\ j \in Int
  BY <1>1, <1>6
<1>10. s[k] = s[j] + (k - j)
  <2>1. ASSUME NEW x \in Int, NEW y \in Int, NEW z \in Int, NEW u \in Int, NEW v \in Int,
               y = z + (u - 1 - v), x - y = 1
        PROVE  x = z + (u - v)
    BY <2>1
  <2> HIDE DEF Wrong
  <2> QED
    BY <1>7, <1>8, <1>9, <2>1, SMTT(30)
<1> QED
  BY <1>4, <1>10

\* `initial' is the id after the last gap.
LEMMA InitialAfterGap ==
  ASSUME NEW s, Slice(s), NEW i \in 1 .. Len(s)
  PROVE  \E j \in 1 .. i :
           /\ array!Initial(s)[i] = s[j]
           /\ j = 1 \/ s[j] - s[j - 1] # 1
           /\ \A k \in j .. i : s[k] = s[j] + (k - j)
<1>1. s \in Seq(PageIds) /\ Len(s) \in Nat /\ DOMAIN s = 1 .. Len(s)
  BY ElementsOfSlice DEF Slice
<1> DEFINE Gaps == {j \in 1 .. i : j = 1 \/ s[j] - s[j - 1] # 1}
<1>2. 1 \in Gaps /\ Gaps \subseteq 0 .. i /\ i \in Nat
  BY <1>1
<1>3. array!Initial(s)[i] = s[array!Max(Gaps)]
  BY <1>1 DEF array!Initial
<1>4. array!Max(Gaps) \in Gaps /\ \A k \in Gaps : array!Max(Gaps) >= k
  <2> HIDE DEF Gaps
  <2>1. \E x \in Gaps : \A y \in Gaps : x >= y
    BY <1>2, GreatestOf
  <2> QED
    BY <2>1 DEF array!Max
<1> DEFINE j == array!Max(Gaps)
<1>5. j \in 1 .. i /\ (j = 1 \/ s[j] - s[j - 1] # 1)
  BY <1>4
<1>6. \A k \in (j + 1) .. i : s[k] - s[k - 1] = 1
  <2> SUFFICES ASSUME NEW k \in (j + 1) .. i PROVE s[k] - s[k - 1] = 1
    OBVIOUS
  <2>1. k \in 1 .. i /\ k # 1 /\ ~(j >= k)
    BY <1>1, <1>5
  <2>2. k \notin Gaps
    BY <1>4, <2>1
  <2> QED
    BY <2>1, <2>2
<1> HIDE DEF j
<1>7. \A k \in j .. i : s[k] = s[j] + (k - j)
  <2>1. j \in 1 .. Len(s) /\ i \in j .. Len(s)
    BY <1>1, <1>5
  <2> QED
    BY <1>6, <2>1, Contiguous
<1> QED
  BY <1>3, <1>5, <1>7 DEF j

\* Contiguous ids of a slice are at neighbouring positions.
LEMMA RunPositions ==
  ASSUME NEW s, Slice(s), NEW j \in 1 .. Len(s), NEW m \in Nat,
         s[j] .. (s[j] + m) \subseteq Elements(s)
  PROVE  \A d \in 0 .. m : j + d \in 1 .. Len(s) /\ s[j + d] = s[j] + d
<1>1. s \in Seq(PageIds) /\ Len(s) \in Nat /\ \A k \in 1 .. Len(s) : s[k] \in Int
  BY ElementsOfSlice DEF Slice
<1> DEFINE Wrong == {d \in 0 .. m : ~(j + d \in 1 .. Len(s) /\ s[j + d] = s[j] + d)}
<1>2. Wrong \subseteq Nat
  OBVIOUS
<1>3. SUFFICES ASSUME Wrong # {} PROVE FALSE
  OBVIOUS
<1>4. PICK d \in Wrong : \A e \in Wrong : d <= e
  <2> HIDE DEF Wrong
  <2> QED
    BY <1>2, <1>3, LeastOf
<1>5. d # 0
  BY <1>1, <1>4
<1>6. d - 1 \in 0 .. m /\ d - 1 \notin Wrong
  BY <1>4, <1>5
<1>7. j + (d - 1) \in 1 .. Len(s) /\ s[j + (d - 1)] = s[j] + (d - 1)
  BY <1>6
<1>8. s[j] + d \in s[j] .. (s[j] + m)
  BY <1>1, <1>4
<1>9. PICK l \in 1 .. Len(s) : s[l] = s[j] + d
  BY <1>8 DEF Elements
<1>10. j + (d - 1) < l
  <2> SUFFICES ASSUME l <= j + (d - 1) PROVE FALSE
    BY <1>7
  <2>1. s[l] <= s[j + (d - 1)]
    BY <1>1, <1>7, <1>9 DEF Slice, Ascending
  <2> QED
    BY <1>1, <1>4, <1>7, <1>9, <2>1
<1>11. j + d \in 1 .. Len(s) /\ j + d <= l
  BY <1>1, <1>4, <1>9, <1>10
<1>12. s[j + d] <= s[l] /\ s[j + (d - 1)] < s[j + d] /\ s[j + d] \in Int
  <2>1. j + (d - 1) < j + d
    BY <1>4
  <2>2. s[j + (d - 1)] < s[j + d]
    BY <1>7, <1>11, <2>1 DEF Slice, Ascending
  <2>3. j + d = l \/ s[j + d] < s[l]
    BY <1>9, <1>11 DEF Slice, Ascending
  <2> QED
    BY <1>1, <1>9, <1>11, <2>2, <2>3
<1>13. s[j + d] = s[j] + d
  BY <1>1, <1>4, <1>7, <1>9, <1>12
<1> QED
  BY <1>4, <1>11, <1>13

\* Allocate cuts a run of n ids out of the slice.
LEMMA RunCut ==
  ASSUME NEW s, Slice(s), NEW n \in Nat, NEW i \in 1 .. Len(s),
         s[i] - array!Initial(s)[i] + 1 = n
  PROVE  LET r == array!Initial(s)[i] IN
         /\ n > 0 /\ r \in PageIds /\ r .. (r + n - 1) \subseteq Elements(s)
         /\ Slice(array!Cut(s, i, n))
         /\ Elements(array!Cut(s, i, n)) = Elements(s) \ (r .. (r + n - 1))
<1> DEFINE r == array!Initial(s)[i]
           front(j) == SubSeq(s, 1, j - 1)
           rest == SubSeq(s, i + 1, Len(s))
<1>1. s \in Seq(PageIds) /\ Len(s) \in Nat /\ \A k \in 1 .. Len(s) : s[k] \in PageIds /\ s[k] \in Int
  BY ElementsOfSlice DEF Slice
<1>2. PICK j \in 1 .. i : r = s[j] /\ \A k \in j .. i : s[k] = s[j] + (k - j)
  BY InitialAfterGap
<1> HIDE DEF r
<1>3. /\ j \in 1 .. Len(s) /\ i \in j .. Len(s) /\ r \in Int /\ r \in PageIds
      /\ i \in Int /\ j \in Int
  BY <1>1, <1>2
<1>4. s[i] = r + (i - j)
  BY <1>2, <1>3
<1>5. n = i - j + 1 /\ i - n = j - 1 /\ n > 0 /\ r + n - 1 = r + (i - j)
  BY <1>3, <1>4 DEF r
<1>6. r .. (r + n - 1) = {s[k] : k \in j .. i}
  <2>1. ASSUME NEW x \in r .. (r + n - 1) PROVE \E k \in j .. i : x = s[k]
    <3>1. j + (x - r) \in j .. i
      BY <1>3, <1>5
    <3>2. s[j + (x - r)] = r + ((j + (x - r)) - j)
      BY <1>2, <3>1
    <3>3. s[j + (x - r)] = x
      BY <1>3, <3>2
    <3> QED
      BY <3>1, <3>3
  <2>2. ASSUME NEW k \in j .. i PROVE s[k] \in r .. (r + n - 1)
    <3>1. s[k] = r + (k - j)
      BY <1>2
    <3> QED
      BY <1>3, <1>5, <3>1
  <2> QED
    BY <2>1, <2>2
<1>7. Slice(front(j)) /\ Elements(front(j)) = {s[k] : k \in 1 .. (j - 1)}
  <2>1. j - 1 \in Nat /\ j - 1 <= Len(s) /\ 1 <= (j - 1) + 1
    BY <1>3
  <2> QED
    BY <2>1, PartOfSlice
<1>8. Slice(rest) /\ Elements(rest) = {s[k] : k \in (i + 1) .. Len(s)}
  <2>1. i + 1 \in Nat \ {0} /\ i + 1 <= Len(s) + 1
    BY <1>1, <1>3
  <2> QED
    BY <1>1, <2>1, PartOfSlice
<1>9. \A x \in Elements(front(j)), y \in Elements(rest) : x < y
  <2> SUFFICES ASSUME NEW k \in 1 .. (j - 1), NEW l \in (i + 1) .. Len(s) PROVE s[k] < s[l]
    BY <1>7, <1>8
  <2>1. k \in 1 .. Len(s) /\ l \in 1 .. Len(s) /\ k < l
    BY <1>1, <1>3
  <2> QED
    BY <2>1 DEF Slice, Ascending
<1>10. /\ Slice(array!Cut(s, i, n))
       /\ Elements(array!Cut(s, i, n)) = {s[k] : k \in 1 .. (j - 1)} \cup {s[k] : k \in (i + 1) .. Len(s)}
  <2>1. array!Cut(s, i, n) = front(j) \o rest
    BY <1>5 DEF array!Cut
  <2> HIDE DEF front, rest
  <2> QED
    BY <2>1, <1>7, <1>8, <1>9, SlicesJoined
<1>11. Elements(array!Cut(s, i, n)) = Elements(s) \ {s[k] : k \in j .. i}
  <2>1. \A k \in 1 .. Len(s) : k \in 1 .. (j - 1) \/ k \in j .. i \/ k \in (i + 1) .. Len(s)
    BY <1>1, <1>3
  <2>2. \A k \in 1 .. (j - 1) : k \in 1 .. Len(s) /\ \A l \in j .. i : s[k] # s[l]
    <3> SUFFICES ASSUME NEW k \in 1 .. (j - 1) PROVE k \in 1 .. Len(s) /\ \A l \in j .. i : s[k] # s[l]
      OBVIOUS
    <3>1. k \in 1 .. Len(s) /\ \A l \in j .. i : l \in 1 .. Len(s) /\ k < l
      BY <1>1, <1>3
    <3>2. \A l \in j .. i : s[k] < s[l]
      BY <3>1 DEF Slice, Ascending
    <3> QED
      BY <1>1, <3>1, <3>2
  <2>3. \A k \in (i + 1) .. Len(s) : k \in 1 .. Len(s) /\ \A l \in j .. i : s[k] # s[l]
    <3> SUFFICES ASSUME NEW k \in (i + 1) .. Len(s) PROVE k \in 1 .. Len(s) /\ \A l \in j .. i : s[k] # s[l]
      OBVIOUS
    <3>1. k \in 1 .. Len(s) /\ \A l \in j .. i : l \in 1 .. Len(s) /\ l < k
      BY <1>1, <1>3
    <3>2. \A l \in j .. i : s[l] < s[k]
      BY <3>1 DEF Slice, Ascending
    <3> QED
      BY <1>1, <3>1, <3>2
  <2> QED
    BY <1>10, <2>1, <2>2, <2>3 DEF Elements
<1>12. {s[k] : k \in j .. i} \subseteq Elements(s)
  BY <1>1, <1>3 DEF Elements
<1> QED
  BY <1>3, <1>5, <1>6, <1>10, <1>11, <1>12 DEF r

\* A run of n ids, wherever it lies, is found.
LEMMA RunFound ==
  ASSUME NEW s, Slice(s), NEW n \in Nat \ {0}, NEW r \in Elements(s),
         r .. (r + n - 1) \subseteq Elements(s)
  PROVE  array!Found(s, n) # {}
<1>1. /\ s \in Seq(PageIds) /\ Len(s) \in Nat /\ DOMAIN s = 1 .. Len(s)
      /\ \A k \in 1 .. Len(s) : s[k] \in Int
  BY ElementsOfSlice DEF Slice
<1>2. PICK a \in 1 .. Len(s) : r = s[a]
  BY DEF Elements
<1>3. PICK j \in 1 .. a :
        /\ j = 1 \/ s[j] - s[j - 1] # 1
        /\ \A k \in j .. a : s[k] = s[j] + (k - j)
  BY InitialAfterGap
<1>4. /\ j \in 1 .. Len(s) /\ s[j] \in Int /\ r \in Int /\ a \in Int /\ j \in Int
      /\ r = s[j] + (a - j) /\ n - 1 \in Nat
  BY <1>1, <1>2, <1>3
<1>5. s[j] .. (s[j] + (n - 1)) \subseteq Elements(s)
  <2> SUFFICES ASSUME NEW x \in s[j] .. (s[j] + (n - 1)) PROVE x \in Elements(s)
    OBVIOUS
  <2>1. CASE x < r
    <3>1. j + (x - s[j]) \in j .. a /\ j + (x - s[j]) \in 1 .. Len(s)
      BY <1>1, <1>4, <2>1
    <3>2. s[j + (x - s[j])] = s[j] + ((j + (x - s[j])) - j)
      BY <1>3, <3>1
    <3>3. s[j + (x - s[j])] = x
      BY <1>4, <3>2
    <3> QED
      BY <3>1, <3>3 DEF Elements
  <2>2. CASE x >= r
    <3>1. x \in r .. (r + n - 1)
      BY <1>4, <2>2
    <3> QED
      BY <3>1
  <2> QED
    BY <1>4, <2>1, <2>2
<1>6. \A d \in 0 .. (n - 1) : j + d \in 1 .. Len(s) /\ s[j + d] = s[j] + d
  BY <1>4, <1>5, RunPositions
<1> DEFINE i == j + (n - 1)
<1>7. i \in 1 .. Len(s) /\ s[i] = s[j] + (n - 1)
  BY <1>4, <1>6
<1>8. PICK h \in 1 .. i :
        /\ array!Initial(s)[i] = s[h]
        /\ h = 1 \/ s[h] - s[h - 1] # 1
        /\ \A k \in h .. i : s[k] = s[h] + (k - h)
  BY <1>7, InitialAfterGap
<1>9. i \in Int /\ h \in Int /\ j \in 1 .. i /\ s[h] \in Int
  BY <1>1, <1>4, <1>7, <1>8
<1>10. ~(h < j)
  <2> SUFFICES ASSUME h < j PROVE FALSE
    OBVIOUS
  <2>1. j \in h .. i /\ j - 1 \in h .. i /\ j # 1
    BY <1>8, <1>9
  <2>2. s[j] = s[h] + (j - h) /\ s[j - 1] = s[h] + ((j - 1) - h)
    BY <1>8, <2>1
  <2>3. s[j] - s[j - 1] = 1
    BY <1>4, <1>9, <2>2
  <2> QED
    BY <1>3, <2>1, <2>3
<1>11. ~(j < h)
  <2> SUFFICES ASSUME j < h PROVE FALSE
    OBVIOUS
  <2>1. h - j \in 0 .. (n - 1) /\ (h - j) - 1 \in 0 .. (n - 1) /\ h # 1
    BY <1>4, <1>8, <1>9
  <2>2. s[j + (h - j)] = s[j] + (h - j) /\ s[j + ((h - j) - 1)] = s[j] + ((h - j) - 1)
    BY <1>6, <2>1
  <2>3. j + (h - j) = h /\ j + ((h - j) - 1) = h - 1
    BY <1>4, <1>9
  <2>4. s[h] - s[h - 1] = 1
    BY <1>4, <1>9, <2>2, <2>3
  <2> QED
    BY <1>8, <2>1, <2>4
<1>12. array!Initial(s)[i] = s[j]
  BY <1>4, <1>8, <1>9, <1>10, <1>11
<1>13. s[i] - array!Initial(s)[i] + 1 = n
  BY <1>4, <1>7, <1>12
<1> QED
  BY <1>1, <1>7, <1>13 DEF array!Found

-----------------------------------------------------------------------------
(***************************************************************************)
(* The steps of the array allocator.                                       *)
(***************************************************************************)
Held == Elements(slice) \cup Elements(merged) \cup Elements(lead) \cup Elements(follow)

\* What is merged lies below what is not, the two slices share nothing, and
\* together they have what the old slice has.
ArrayInv ==
  /\ Slice(slice) /\ Slice(merged) /\ Slice(lead) /\ Slice(follow)
  /\ sliceRet \in {0} \cup PageIds
  /\ lead = <<>> => merged = <<>> /\ follow = <<>>
  /\ lead # <<>> => follow # <<>>
  /\ \A x \in Elements(merged), y \in Elements(lead) \cup Elements(follow) : x < y
  /\ Elements(lead) \cap Elements(follow) = {}
  /\ lead # <<>> =>
       Elements(slice) \subseteq Elements(merged) \cup Elements(lead) \cup Elements(follow)

LEMMA EmptySlice == Slice(<<>>) /\ Elements(<<>>) = {}
BY DEF Slice, Ascending, Elements

\* PageSet sees the free ids and those under merge, before and after a step.
LEMMA SliceSet ==
  ASSUME NEW s, Slice(s)
  PROVE  array!ToSet(s) = Elements(s) /\ Elements(s) \subseteq PageIds
BY ElementsOfSlice DEF Slice, Elements

LEMMA HeldIsFree ==
  ASSUME ArrayInv
  PROVE  /\ array!ToSet(slice) \cup array!ToSet(merged) \cup array!ToSet(lead) \cup array!ToSet(follow) = Held
         /\ Held \subseteq PageIds
BY SliceSet DEF Held, ArrayInv

LEMMA HeldIsFreeNext ==
  ASSUME ArrayInv'
  PROVE  /\ array!ToSet(slice') \cup array!ToSet(merged') \cup array!ToSet(lead') \cup array!ToSet(follow') = Held'
         /\ Held' \subseteq PageIds
BY SliceSet DEF Held, ArrayInv

LEMMA ArrayInitInv ==
  ASSUME array!Init
  PROVE  ArrayInv /\ array!Set!Init
<1>1. PICK S \in SUBSET PageIds : slice = array!Sorted(S)
  BY DEF array!Init, array!PageIds, PageIds
<1>2. Slice(slice) /\ lead = <<>> /\ merged = <<>> /\ follow = <<>> /\ sliceRet = 0
  BY <1>1, SortedSlice DEF array!Init
<1>3. ArrayInv
  BY <1>2, EmptySlice DEF ArrayInv
<1> QED
  BY <1>2, <1>3, HeldIsFree DEF array!Set!Init, array!Set!PageIds, PageIds

\* Allocate cuts the first run there is out of the slice, or there is none.
LEMMA ArrayAllocateStep ==
  ASSUME ArrayInv, NEW n \in 0 .. MaxId, array!Allocate(n)
  PROVE  ArrayInv' /\ array!Set!Allocate(n)
<1> DEFINE found == array!Found(slice, n)
<1>1. /\ n \in Nat /\ Slice(slice) /\ Len(slice) \in Nat /\ DOMAIN slice = 1 .. Len(slice)
  BY MaxIdAssumption, ElementsOfSlice DEF ArrayInv, Slice
<1>2. /\ lead = <<>> /\ merged = <<>> /\ follow = <<>>
      /\ lead' = <<>> /\ merged' = <<>> /\ follow' = <<>>
  BY DEF ArrayInv, array!Allocate, array!merge
<1>3. Held = Elements(slice)
  BY <1>2, EmptySlice DEF Held
<1>4. CASE found # {}
  <2> DEFINE i == array!Min(found)
  <2>1. sliceRet' = array!Initial(slice)[i] /\ slice' = array!Cut(slice, i, n)
    BY <1>4 DEF array!Allocate
  <2>2. found \subseteq Nat
    BY <1>1 DEF array!Found
  <2>3. i \in found
    <3> HIDE DEF found
    <3>1. \E x \in found : \A y \in found : x <= y
      BY <1>4, <2>2, LeastOf
    <3> QED
      BY <3>1 DEF array!Min
  <2> HIDE DEF i
  <2>4. i \in 1 .. Len(slice) /\ slice[i] - array!Initial(slice)[i] + 1 = n
    BY <1>1, <2>3 DEF array!Found
  <2>5. /\ n > 0 /\ sliceRet' \in PageIds /\ sliceRet' .. (sliceRet' + n - 1) \subseteq Elements(slice)
        /\ Slice(slice')
        /\ Elements(slice') = Elements(slice) \ (sliceRet' .. (sliceRet' + n - 1))
    BY <1>1, <2>1, <2>4, RunCut
  <2>6. ArrayInv'
    BY <1>2, <2>5, EmptySlice DEF ArrayInv
  <2>7. Held' = Held \ (sliceRet' .. (sliceRet' + n - 1))
    BY <1>2, <1>3, <2>5, EmptySlice DEF Held
  <2>8. sliceRet' \in Held
    <3>1. sliceRet' \in Int
      BY <2>5 DEF PageIds
    <3>2. \A r, k \in Int : k > 0 => r \in r .. (r + k - 1)
      OBVIOUS
    <3>3. sliceRet' \in sliceRet' .. (sliceRet' + n - 1)
      <4>1. n \in Int /\ n > 0
        BY <1>1, <2>5
      <4> QED
        BY <3>1, <3>2, <4>1
    <3> QED
      BY <1>3, <2>5, <3>3
  <2>9. sliceRet' .. (sliceRet' + n - 1) \subseteq Held
    BY <1>3, <2>5
  <2> QED
    BY <2>5, <2>6, <2>7, <2>8, <2>9, HeldIsFree, HeldIsFreeNext DEF array!Set!Allocate, array!Set!Runs
<1>5. CASE found = {}
  <2>1. sliceRet' = 0 /\ slice' = slice
    BY <1>5 DEF array!Allocate
  <2>2. ArrayInv'
    BY <1>2, <2>1 DEF ArrayInv
  <2>3. Held' = Held
    BY <1>2, <2>1 DEF Held
  <2>4. n = 0 \/ {r \in Held : r .. (r + n - 1) \subseteq Held} = {}
    BY <1>1, <1>3, <1>5, RunFound
  <2> QED
    BY <2>1, <2>2, <2>3, <2>4, HeldIsFree, HeldIsFreeNext DEF array!Set!Allocate, array!Set!Runs
<1> QED
  BY <1>4, <1>5

\* mergeSpans puts two slices with no id in common beside one another.
LEMMA ArrayMergeSpansStep ==
  ASSUME ArrayInv, array!MergeSpans
  PROVE  ArrayInv' /\ array!Set!Merge
<1>1. PICK S \in SUBSET (PageIds \ Elements(slice)) : array!Merge(array!Sorted(S))
  <2>1. array!ToSet(slice) = Elements(slice)
    BY ElementsOfSlice DEF ArrayInv, Slice
  <2> QED
    BY <2>1 DEF array!MergeSpans, array!PageIds, PageIds
<1> DEFINE b == array!Sorted(S)
<1>2. Slice(b) /\ Elements(b) = S
  BY SortedSlice
<1> HIDE DEF b
<1>3. lead = <<>> /\ merged = <<>> /\ follow = <<>> /\ sliceRet' = sliceRet /\ Slice(slice)
  BY DEF ArrayInv, array!MergeSpans
<1>4. /\ b \in Seq(PageIds) /\ slice \in Seq(PageIds)
      /\ b = <<>> <=> S = {}
  BY <1>2, <1>3, ElementsOfSlice DEF Slice
<1>5. CASE slice = <<>> \/ b = <<>>
  <2>1. slice' = slice \o b /\ lead' = <<>> /\ merged' = <<>> /\ follow' = <<>>
    BY <1>1, <1>3, <1>5 DEF array!Merge, array!merge, b
  <2>2. Slice(slice') /\ Elements(slice') = Elements(slice) \cup S
    <3>1. Elements(slice) = {} \/ Elements(b) = {}
      BY <1>5, EmptySlice
    <3> QED
      BY <1>2, <1>3, <2>1, <3>1, SlicesJoined
  <2>3. ArrayInv'
    BY <1>3, <2>1, <2>2, EmptySlice DEF ArrayInv
  <2>4. Held \subseteq Held'
    BY <1>3, <2>1, <2>2, EmptySlice DEF Held
  <2>5. Held' \subseteq PageIds
    BY <2>3, HeldIsFreeNext
  <2> QED
    BY <1>3, <2>3, <2>4, <2>5, HeldIsFree, HeldIsFreeNext DEF array!Set!Merge, array!Set!PageIds, PageIds
<1>6. CASE slice # <<>> /\ b # <<>>
  <2>1. /\ (lead' = b /\ follow' = slice) \/ (lead' = slice /\ follow' = b)
        /\ slice' = slice /\ merged' = <<>>
    BY <1>1, <1>3, <1>6 DEF array!Merge, b
  <2>2. ArrayInv'
    BY <1>2, <1>3, <1>6, <2>1, EmptySlice DEF ArrayInv
  <2>3. Held \subseteq Held'
    BY <1>3, <2>1, EmptySlice DEF Held
  <2>4. Held' \subseteq PageIds
    BY <2>2, HeldIsFreeNext
  <2> QED
    BY <1>3, <2>2, <2>3, <2>4, HeldIsFree, HeldIsFreeNext DEF array!Set!Merge, array!Set!PageIds, PageIds
<1> QED
  BY <1>5, <1>6

\* sort.Search tells the elements up to an id from those above it.
LEMMA SearchSplits ==
  ASSUME NEW s, Slice(s), NEW id \in Int
  PROVE  /\ array!Search(s, id) \in 0 .. Len(s)
         /\ \A k \in 1 .. array!Search(s, id) : s[k] <= id
         /\ \A k \in (array!Search(s, id) + 1) .. Len(s) : id < s[k]
<1>1. s \in Seq(PageIds) /\ Len(s) \in Nat /\ \A k \in 1 .. Len(s) : s[k] \in Int
  BY ElementsOfSlice DEF Slice
<1> DEFINE T == {n \in 0 .. Len(s) : n = Len(s) \/ s[n + 1] > id}
           m == array!Min(T)
<1>2. m \in T /\ \A n \in T : m <= n
  <2>1. Len(s) \in T /\ T \subseteq Nat
    BY <1>1
  <2> HIDE DEF T
  <2>2. \E x \in T : \A y \in T : x <= y
    BY <2>1, LeastOf
  <2> QED
    BY <2>2 DEF array!Min
<1>3. array!Search(s, id) = m
  BY DEF array!Search
<1> HIDE DEF m
<1>4. \A k \in 1 .. m : s[k] <= id
  <2> SUFFICES ASSUME NEW k \in 1 .. m PROVE s[k] <= id
    OBVIOUS
  <2>1. k - 1 \in 0 .. Len(s) /\ ~(m <= k - 1) /\ k \in 1 .. Len(s) /\ (k - 1) + 1 = k
    BY <1>1, <1>2
  <2>2. k - 1 \notin T
    BY <1>2, <2>1
  <2>3. ~(s[k] > id)
    BY <2>1, <2>2
  <2> QED
    BY <1>1, <2>1, <2>3
<1>5. \A k \in (m + 1) .. Len(s) : id < s[k]
  <2> SUFFICES ASSUME NEW k \in (m + 1) .. Len(s) PROVE id < s[k]
    OBVIOUS
  <2>1. m # Len(s) /\ m + 1 \in 1 .. Len(s) /\ k \in 1 .. Len(s)
    BY <1>1, <1>2
  <2>2. id < s[m + 1]
    BY <1>1, <1>2, <2>1
  <2>3. k = m + 1 \/ s[m + 1] < s[k]
    BY <1>1, <2>1 DEF Slice, Ascending
  <2> QED
    BY <1>1, <2>1, <2>2, <2>3
<1> QED
  BY <1>2, <1>3, <1>4, <1>5

\* A turn of Mergepgids' loop appends what is below the rest, and loses nothing.
LEMMA ArrayMergeLeadStep ==
  ASSUME ArrayInv, array!MergeLead
  PROVE  ArrayInv' /\ array!Set!Merge /\ array!Set!vars' = array!Set!vars
<1> DEFINE n == array!Search(lead, follow[1])
           prefix == SubSeq(lead, 1, n)
           rest == SubSeq(lead, n + 1, Len(lead))
<1>1. /\ lead # <<>> /\ follow # <<>> /\ sliceRet' = sliceRet
      /\ Slice(lead) /\ Slice(follow) /\ Slice(merged) /\ Slice(slice)
  BY DEF ArrayInv, array!MergeLead
<1>2. /\ Len(lead) \in Nat /\ Len(follow) \in Nat \ {0}
      /\ \A k \in 1 .. Len(lead) : lead[k] \in Int
      /\ \A k \in 1 .. Len(follow) : follow[k] \in Int
  BY <1>1, ElementsOfSlice DEF Slice
<1>3. follow[1] \in Int /\ follow[1] \in Elements(follow) /\ \A y \in Elements(follow) : follow[1] <= y
  BY <1>1, <1>2 DEF Slice, Ascending, Elements
<1>4. /\ n \in 0 .. Len(lead)
      /\ \A k \in 1 .. n : lead[k] <= follow[1]
      /\ \A k \in (n + 1) .. Len(lead) : follow[1] < lead[k]
  BY <1>1, <1>3, SearchSplits
<1> HIDE DEF n
<1>5. Slice(prefix) /\ Elements(prefix) = {lead[k] : k \in 1 .. n}
  <2>1. n \in Nat /\ n <= Len(lead) /\ 1 <= n + 1
    BY <1>2, <1>4
  <2> QED
    BY <1>1, <2>1, PartOfSlice
<1>6. /\ Slice(rest) /\ Elements(rest) = {lead[k] : k \in (n + 1) .. Len(lead)}
      /\ Len(rest) = Len(lead) - n
  <2>1. n + 1 \in Nat \ {0} /\ n + 1 <= Len(lead) + 1 /\ Len(lead) - (n + 1) + 1 = Len(lead) - n
    BY <1>2, <1>4
  <2>2. Len(lead) \in Nat /\ Len(lead) <= Len(lead)
    BY <1>2
  <2>3. ASSUME NEW a \in Nat \ {0}, NEW c \in Nat, c <= Len(lead), a <= c + 1
        PROVE  /\ Slice(SubSeq(lead, a, c)) /\ Len(SubSeq(lead, a, c)) = c - a + 1
               /\ Elements(SubSeq(lead, a, c)) = {lead[k] : k \in a .. c}
    BY <1>1, <2>3, PartOfSlice
  <2> QED
    BY <2>1, <2>2, <2>3
<1> HIDE DEF prefix, rest
<1>7. /\ Elements(lead) = Elements(prefix) \cup Elements(rest)
      /\ \A x \in Elements(prefix), y \in Elements(rest) : x < y
  <2>1. 1 .. Len(lead) = (1 .. n) \cup ((n + 1) .. Len(lead))
    BY <1>2, <1>4
  <2>2. Elements(lead) = Elements(prefix) \cup Elements(rest)
    BY <1>5, <1>6, <2>1 DEF Elements
  <2>3. ASSUME NEW k \in 1 .. n, NEW l \in (n + 1) .. Len(lead) PROVE lead[k] < lead[l]
    <3>1. k \in 1 .. Len(lead) /\ l \in 1 .. Len(lead) /\ k < l
      BY <1>2, <1>4
    <3> QED
      BY <1>1, <3>1 DEF Slice, Ascending
  <2> QED
    BY <1>5, <1>6, <2>2, <2>3
<1>8. \A x \in Elements(prefix), y \in Elements(follow) : x < y
  <2> SUFFICES ASSUME NEW x \in Elements(prefix), NEW y \in Elements(follow) PROVE x < y
    OBVIOUS
  <2>1. PICK k \in 1 .. n : x = lead[k]
    BY <1>5
  <2>2. x \in Int /\ x <= follow[1]
    BY <1>2, <1>4, <2>1
  <2>3. x \in Elements(lead) /\ x # y
    BY <1>7 DEF ArrayInv
  <2>4. y \in Int /\ follow[1] <= y
    BY <1>2, <1>3 DEF Elements
  <2> QED
    BY <1>3, <2>2, <2>3, <2>4
<1>9. Slice(merged \o prefix) /\ Elements(merged \o prefix) = Elements(merged) \cup Elements(prefix)
  <2>1. \A x \in Elements(merged), y \in Elements(prefix) : x < y
    BY <1>7 DEF ArrayInv
  <2> QED
    BY <1>1, <1>5, <2>1, SlicesJoined
<1>10. CASE n >= Len(lead)
  <2>1. /\ slice' = merged \o lead \o follow
        /\ merged' = <<>> /\ lead' = <<>> /\ follow' = <<>>
    BY <1>10, <1>2, <1>4 DEF array!MergeLead, n
  <2>2. Elements(rest) = {}
    BY <1>2, <1>4, <1>6, <1>10
  <2>3. Slice(merged \o lead) /\ Elements(merged \o lead) = Elements(merged) \cup Elements(lead)
    BY <1>1, SlicesJoined DEF ArrayInv
  <2>4. \A x \in Elements(merged \o lead), y \in Elements(follow) : x < y
    BY <1>7, <1>8, <2>2, <2>3 DEF ArrayInv
  <2>5. Slice(slice') /\ Elements(slice') = Elements(merged) \cup Elements(lead) \cup Elements(follow)
    BY <1>1, <2>1, <2>3, <2>4, SlicesJoined
  <2>6. ArrayInv'
    BY <1>1, <2>1, <2>5, EmptySlice DEF ArrayInv
  <2>7. Held' = Held
    BY <1>1, <2>1, <2>5, EmptySlice DEF Held, ArrayInv
  <2> QED
    BY <1>1, <2>6, <2>7, HeldIsFree, HeldIsFreeNext DEF array!Set!Merge, array!Set!PageIds, PageIds,
         array!Set!vars
<1>11. CASE n < Len(lead)
  <2>1. /\ merged' = merged \o prefix /\ lead' = follow /\ follow' = rest /\ slice' = slice
    <3>1. ~(n >= Len(lead))
      BY <1>11, <1>2, <1>4
    <3> QED
      BY <3>1 DEF array!MergeLead, n, prefix, rest
  <2>2. rest # <<>>
    BY <1>2, <1>4, <1>6, <1>11, ElementsOfSlice DEF Slice
  <2>3. \A x \in Elements(merged'), y \in Elements(follow) \cup Elements(rest) : x < y
    BY <1>7, <1>8, <1>9, <2>1 DEF ArrayInv
  <2>4. ArrayInv'
    BY <1>1, <1>6, <1>7, <1>9, <2>1, <2>2, <2>3 DEF ArrayInv
  <2>5. Held' = Held
    BY <1>7, <1>9, <2>1 DEF Held
  <2> QED
    BY <1>1, <2>4, <2>5, HeldIsFree, HeldIsFreeNext DEF array!Set!Merge, array!Set!PageIds, PageIds,
         array!Set!vars
<1> QED
  BY <1>2, <1>4, <1>10, <1>11

LEMMA ArrayStep ==
  ASSUME ArrayInv, [array!Next]_(array!vars)
  PROVE  /\ ArrayInv' /\ [array!Set!Next]_(array!Set!vars)
         /\ lead # <<>> => array!Set!vars' = array!Set!vars
<1>1. CASE UNCHANGED array!vars
  <2>1. ArrayInv'
    BY <1>1 DEF array!vars, array!merge, ArrayInv
  <2> QED
    BY <1>1, <2>1 DEF array!vars, array!merge, array!Set!vars
<1>2. CASE array!Next
  <2>1. array!MergeLead \/ lead = <<>>
    BY <1>2 DEF array!Next, array!Allocate, array!MergeSpans
  <2> QED
    BY <1>2, <2>1, ArrayAllocateStep, ArrayMergeSpansStep, ArrayMergeLeadStep DEF array!Next, array!Set!Next
<1> QED
  BY <1>1, <1>2

\* The slice is sorted and has no id twice, however merges and allocations
\* follow one another (ArraySorted).
THEOREM ArrayStaysSorted == array!Spec => []ArraySorted
<1>1. ArrayInv => ArraySorted
  BY ElementsOfSlice DEF ArrayInv, ArraySorted, array!TypeOK, array!PageIds, PageIds, Slice, Ascending
<1>2. array!Init => ArrayInv
  BY ArrayInitInv
<1>3. ArrayInv /\ [array!Next]_(array!vars) => ArrayInv'
  BY ArrayStep
<1> QED
  BY <1>1, <1>2, <1>3, PTL DEF array!Spec

\* For every number of pages the array allocator implements PageSet: the single
\* pass of Allocate finds a run whenever there is one and takes exactly it, and the
\* merge of the two slices neither loses nor adds an id (ArrayImplementsPageSet).
THEOREM ArrayRefinement == array!Spec => ArrayImplementsPageSet
<1>1. array!Init => ArrayInv /\ array!Set!Init
  BY ArrayInitInv
<1>2. ArrayInv /\ [array!Next]_(array!vars)
        => /\ ArrayInv' /\ [array!Set!Next]_(array!Set!vars)
           /\ [lead # <<>> => array!Set!vars' = array!Set!vars]_(array!vars)
  BY ArrayStep
<1> QED
  BY <1>1, <1>2, PTL DEF array!Spec, ArrayImplementsPageSet, array!ImplementsPageSet, array!Set!Spec
=============================================================================
