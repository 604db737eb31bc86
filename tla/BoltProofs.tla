----------------------------- MODULE BoltProofs -----------------------------
(***************************************************************************)
(* Proofs about Bolt: IInv is inductive, and implies the safety properties *)
(* the runs check.  First lemmas on the operators of Freelist, then what   *)
(* Free, Allocate, Rollback and ReleasePendingPages preserve, then one     *)
(* lemma per action, the theorems, the refinement of Store, and at the end *)
(* what becomes of the pages no tree uses.                                 *)
(***************************************************************************)
EXTENDS BoltInv, FiniteSetTheorems, WellFoundedInduction, TLAPS

USE DEF NoTxid

\* The page ids of a block lie in the file, its own id among them.
LEMMA IdsOfBlock ==
  ASSUME NEW b \in Block
  PROVE  /\ b.id \in Pgids /\ b.overflow \in Nat
         /\ b.id \in Ids(b)
         /\ Ids(b) \subseteq Pgids
BY BoundsAssumption DEF Block, Ids, Pgids

\* A page is covered by a set of blocks iff one of them covers it.
LEMMA SpanElement ==
  ASSUME NEW S, NEW p
  PROVE  p \in Span(S) <=> \E b \in S : p \in Ids(b)
BY DEF Span

\* A page is used by a meta iff a block of its tree or freelist covers it.
LEMMA UsedElement ==
  ASSUME NEW m, NEW p
  PROVE  p \in Used(m) <=> \E b \in Blocks(m) : p \in Ids(b)
BY DEF Used, Span

\* What goes to the freelist page is what is free or pending.
LEMMA CopyallElement ==
  ASSUME NEW f, NEW p
  PROVE  p \in Copyall(f) <=> p \in f.free \/ \E e \in f.pending : e.id = p
BY DEF Copyall, EntryIds

\* A freelist that was read or rebuilt has ids that are free, and nothing else.
LEMMA LoadedFields ==
  ASSUME NEW ids \in SUBSET Pgids
  PROVE  /\ Loaded(ids) \in FreelistType
         /\ Loaded(ids).free = ids /\ Loaded(ids).cache = ids
         /\ Loaded(ids).pending = {}
         /\ \A p \in Pgids : Loaded(ids).allocs[p] = 0
         /\ \A r \in Readers : Loaded(ids).readonlyTXIDs[r] = 0
BY BoundsAssumption DEF Loaded, FreelistType, Txids

\* What shared.Free changes: the ids of the block become pending and cached.
LEMMA FreeFields ==
  ASSUME NEW f \in FreelistType, NEW T \in Txids, NEW b \in Block
  PROVE  LET g == Free(f, T, b) IN
         /\ g \in FreelistType
         /\ g.free = f.free
         /\ g.cache = f.cache \cup Ids(b)
         /\ g.pending = f.pending \cup {[tx |-> T, id |-> i, alloctx |-> f.allocs[b.id]] : i \in Ids(b)}
         /\ \A p \in Pgids : g.allocs[p] = IF p = b.id THEN 0 ELSE f.allocs[p]
         /\ g.readonlyTXIDs = f.readonlyTXIDs
<1> DEFINE N == {[tx |-> T, id |-> i, alloctx |-> f.allocs[b.id]] : i \in Ids(b)}
<1>1. f.allocs[b.id] \in Txids
  BY IdsOfBlock DEF FreelistType
<1>2. N \subseteq Entry
  BY <1>1, IdsOfBlock DEF Entry
<1> HIDE DEF N
<1>3. 0 \in Txids
  BY BoundsAssumption DEF Txids
<1>4. Free(f, T, b) = [f EXCEPT !.allocs = [f.allocs EXCEPT ![b.id] = 0],
                               !.pending = f.pending \cup N, !.cache = f.cache \cup Ids(b)]
  BY DEF Free, N, FreelistType
<1>5. [f.allocs EXCEPT ![b.id] = 0] \in [Pgids -> Txids]
  BY <1>3 DEF FreelistType
<1>6. Free(f, T, b) \in FreelistType
  BY <1>2, <1>4, <1>5, IdsOfBlock DEF FreelistType
<1> QED
  BY <1>4, <1>6, IdsOfBlock DEF FreelistType, N

\* shared.Free adds the ids of the block to those of the freelist page.
LEMMA FreeCopyall ==
  ASSUME NEW f \in FreelistType, NEW T \in Txids, NEW b \in Block
  PROVE  LET g == Free(f, T, b) IN
         /\ EntryIds(g.pending) = EntryIds(f.pending) \cup Ids(b)
         /\ Copyall(g) = Copyall(f) \cup Ids(b)
<1> DEFINE g == Free(f, T, b)
           N == {[tx |-> T, id |-> i, alloctx |-> f.allocs[b.id]] : i \in Ids(b)}
<1>1. g.pending = f.pending \cup N /\ g.free = f.free
  BY FreeFields
<1> HIDE DEF g
<1>2. EntryIds(N) = Ids(b)
  <2>1. ASSUME NEW i \in Ids(b) PROVE \E e \in N : e.id = i
    <3> DEFINE e == [tx |-> T, id |-> i, alloctx |-> f.allocs[b.id]]
    <3>1. e \in N /\ e.id = i
      OBVIOUS
    <3> QED
      BY <3>1
  <2>2. \A e \in N : e.id \in Ids(b)
    OBVIOUS
  <2> HIDE DEF N
  <2> QED
    BY <2>1, <2>2 DEF EntryIds
<1> HIDE DEF N
<1>3. EntryIds(g.pending) = EntryIds(f.pending) \cup EntryIds(N)
  BY <1>1 DEF EntryIds
<1> QED
  BY <1>1, <1>2, <1>3 DEF Copyall, g

\* What Allocate changes: the run leaves the free ids and the cache.
LEMMA AllocateFields ==
  ASSUME NEW f \in FreelistType, NEW T \in Txids, NEW n \in Nat \ {0}, NEW i \in FreeRuns(f, n)
  PROVE  LET g == Allocate(f, T, i, n)
             b == [id |-> i, overflow |-> n - 1] IN
         /\ b \in Block /\ Ids(b) \subseteq f.free /\ Ids(b) = i .. (i + n - 1)
         /\ g \in FreelistType
         /\ g.free = f.free \ Ids(b)
         /\ g.cache = f.cache \ Ids(b)
         /\ g.pending = f.pending
         /\ \A p \in Pgids : g.allocs[p] = IF p = i THEN T ELSE f.allocs[p]
         /\ g.readonlyTXIDs = f.readonlyTXIDs
<1> DEFINE b == [id |-> i, overflow |-> n - 1]
<1>1. i \in f.free /\ i .. (i + n - 1) \subseteq f.free
  BY DEF FreeRuns
<1>2. i \in Pgids /\ i .. (i + n - 1) \subseteq Pgids
  BY <1>1 DEF FreelistType
<1>3. i + n - 1 \in Pgids
  <2>1. i + n - 1 \in i .. (i + n - 1)
    BY <1>2, BoundsAssumption DEF Pgids
  <2> QED
    BY <2>1, <1>2
<1>4. b \in Block
  BY <1>2, <1>3, BoundsAssumption DEF Block, Pgids
<1>5. Ids(b) = i .. (i + n - 1)
  BY <1>2, BoundsAssumption DEF Ids, Pgids
<1>6. Allocate(f, T, i, n) = [f EXCEPT !.free = f.free \ Ids(b), !.cache = f.cache \ Ids(b),
                                       !.allocs = [f.allocs EXCEPT ![i] = T]]
  BY <1>5 DEF Allocate, FreelistType
<1>7. [f.allocs EXCEPT ![i] = T] \in [Pgids -> Txids]
  BY DEF FreelistType
<1>8. Allocate(f, T, i, n) \in FreelistType
  BY <1>6, <1>7 DEF FreelistType
<1> QED
  BY <1>1, <1>2, <1>4, <1>5, <1>6, <1>8 DEF FreelistType

\* What shared.Rollback changes: the pages freed by txid are not pending any more.
LEMMA RollbackFields ==
  ASSUME NEW f \in FreelistType, NEW T \in Txids, PendingOf(f, T) # {}
  PROVE  LET g == Rollback(f, T) IN
         /\ g \in FreelistType
         /\ g.free = f.free
         /\ g.cache = f.cache \ EntryIds(PendingOf(f, T))
         /\ g.pending = {e \in f.pending : e.tx # T}
         /\ \A p \in Pgids : \/ g.allocs[p] = 0 \/ g.allocs[p] = f.allocs[p]
                             \/ \E e \in f.pending : e.id = p /\ e.alloctx = g.allocs[p]
         /\ g.readonlyTXIDs = f.readonlyTXIDs
<1>1. RestoredAllocs(f, T) \in [Pgids -> Txids]
      /\ \A p \in Pgids : \/ RestoredAllocs(f, T)[p] = 0 \/ RestoredAllocs(f, T)[p] = f.allocs[p]
                          \/ \E e \in f.pending : e.id = p /\ e.alloctx = RestoredAllocs(f, T)[p]
  <2>1. 0 \in Txids
    BY BoundsAssumption DEF Txids
  <2>2. ASSUME NEW p \in Pgids
        PROVE  /\ RestoredAllocs(f, T)[p] \in Txids
               /\ \/ RestoredAllocs(f, T)[p] = 0 \/ RestoredAllocs(f, T)[p] = f.allocs[p]
                  \/ \E e \in f.pending : e.id = p /\ e.alloctx = RestoredAllocs(f, T)[p]
    <3> DEFINE back == {e \in PendingOf(f, T) : e.id = p /\ e.alloctx # NoTxid}
               a == IF back = {} THEN f.allocs[p] ELSE (CHOOSE e \in back : TRUE).alloctx
    <3>1. RestoredAllocs(f, T)[p] = IF a = T THEN 0 ELSE a
      BY DEF RestoredAllocs
    <3>2. CASE back = {}
      BY <2>1, <3>1, <3>2 DEF FreelistType
    <3>3. CASE back # {}
      <4>1. PICK e \in back : e = CHOOSE x \in back : TRUE
        BY <3>3
      <4>2. e \in f.pending /\ e.id = p
        BY DEF PendingOf
      <4>3. e.alloctx \in Txids
        BY <4>2 DEF FreelistType, Entry
      <4>4. a = e.alloctx
        BY <4>1, <3>3
      <4> HIDE DEF a, back
      <4> QED
        BY <2>1, <3>1, <4>2, <4>3, <4>4
    <3> QED
      BY <3>2, <3>3
  <2>3. RestoredAllocs(f, T) = [p \in Pgids |-> RestoredAllocs(f, T)[p]]
    BY DEF RestoredAllocs
  <2> QED
    BY <2>2, <2>3
<1>2. Rollback(f, T) = [f EXCEPT !.cache = f.cache \ EntryIds(PendingOf(f, T)),
                                 !.allocs = RestoredAllocs(f, T),
                                 !.pending = f.pending \ PendingOf(f, T),
                                 !.lastReleaseBegin = [f.lastReleaseBegin EXCEPT ![T] = 0]]
  BY DEF Rollback, FreelistType
<1>3. [f.lastReleaseBegin EXCEPT ![T] = 0] \in [Txids -> 0 .. (MaxTxid + 1)]
  BY BoundsAssumption DEF FreelistType
<1>4. Rollback(f, T) \in FreelistType
  <2> DEFINE C == f.cache \ EntryIds(PendingOf(f, T))
             A == RestoredAllocs(f, T)
             P == f.pending \ PendingOf(f, T)
             L == [f.lastReleaseBegin EXCEPT ![T] = 0]
  <2>1. C \in SUBSET Pgids /\ P \in SUBSET Entry
    BY DEF FreelistType
  <2>2. A \in [Pgids -> Txids] /\ L \in [Txids -> 0 .. (MaxTxid + 1)]
    BY <1>1, <1>3
  <2>3. Rollback(f, T) = [f EXCEPT !.cache = C, !.allocs = A, !.pending = P, !.lastReleaseBegin = L]
    BY <1>2
  <2> HIDE DEF C, A, P, L
  <2> QED
    BY <2>1, <2>2, <2>3 DEF FreelistType
<1>5. f.pending \ PendingOf(f, T) = {e \in f.pending : e.tx # T}
  BY DEF PendingOf
<1> HIDE DEF Rollback
<1> QED
  BY <1>1, <1>2, <1>4, <1>5 DEF FreelistType

\* Among the txids of open readers below t there is a largest one.
LEMMA MaxOfTxids ==
  ASSUME NEW S \in SUBSET Txids, S # {}
  PROVE  Max(S) \in S /\ \A t \in S : t <= Max(S)
<1> DEFINE N == {MaxTxid - t : t \in S}
<1>1. N \subseteq Nat /\ N # {}
  <2>1. \A t \in S : MaxTxid - t \in Nat
    BY BoundsAssumption DEF Txids
  <2> QED
    BY <2>1
<1>2. PICK n \in N : \A m \in N : n <= m
  <2>1. PICK n \in N : \A m \in N : <<m, n>> \notin OpToRel(<, Nat)
    BY <1>1, NatLessThanWellFounded, WFMin, Zenon
  <2>2. \A m \in N : ~(m < n)
    BY <1>1, <2>1 DEF OpToRel
  <2> HIDE DEF N
  <2> QED
    BY <1>1, <2>2
<1>3. PICK x \in S : n = MaxTxid - x
  OBVIOUS
<1>4. \A t \in S : x >= t
  <2> TAKE t \in S
  <2>1. n <= MaxTxid - t
    BY <1>2
  <2> QED
    BY <1>3, <2>1, BoundsAssumption DEF Txids
<1>5. Max(S) \in S /\ \A t \in S : Max(S) >= t
  <2> DEFINE P(y) == \A t \in S : y >= t
  <2>1. \E y \in S : P(y)
    BY <1>4
  <2>2. (CHOOSE y \in S : P(y)) \in S /\ P(CHOOSE y \in S : P(y))
    BY <2>1
  <2>3. Max(S) = CHOOSE y \in S : P(y)
    BY DEF Max
  <2> QED
    BY <2>2, <2>3
<1> QED
  BY <1>5, BoundsAssumption DEF Txids

\* An extent begins after a reader, and no reader is inside it.
LEMMA ExtentBeginBounds ==
  ASSUME NEW f \in FreelistType, NEW t \in Txids, Below(f, t) # {}
  PROVE  /\ ExtentBegin(f, t) \in 0 .. (MaxTxid + 1)
         /\ \A r \in OpenTxids(f) : r < t => r < ExtentBegin(f, t)
<1>1. Below(f, t) \in SUBSET Txids
  BY DEF Below, OpenTxids, FreelistType
<1>2. Max(Below(f, t)) \in Below(f, t) /\ \A r \in Below(f, t) : r <= Max(Below(f, t))
  BY <1>1, MaxOfTxids
<1>3. OpenTxids(f) \subseteq Txids
  BY DEF OpenTxids, FreelistType
<1> QED
  BY <1>1, <1>2, <1>3, BoundsAssumption DEF ExtentBegin, Below, Txids

\* What ReleasePendingPages changes: ids move from pending to free.
LEMMA ReleaseFields ==
  ASSUME NEW f \in FreelistType
  PROVE  LET g == ReleasePendingPages(f) IN
         /\ g \in FreelistType
         /\ g.free = f.free \cup EntryIds(Released(f))
         /\ g.cache = f.cache
         /\ g.pending = f.pending \ Released(f)
         /\ g.allocs = f.allocs
         /\ g.readonlyTXIDs = f.readonlyTXIDs
<1> DEFINE kept == f.pending \ Released(f)
           F == f.free \cup EntryIds(Released(f))
           L == [t \in Txids |-> IF \A e \in kept : e.tx # t THEN 0
                                 ELSE IF InExtent(f, t) THEN ExtentBegin(f, t)
                                 ELSE f.lastReleaseBegin[t]]
<1>1. L \in [Txids -> 0 .. (MaxTxid + 1)]
  <2> SUFFICES ASSUME NEW t \in Txids PROVE L[t] \in 0 .. (MaxTxid + 1)
    OBVIOUS
  <2>1. InExtent(f, t) => ExtentBegin(f, t) \in 0 .. (MaxTxid + 1)
    BY ExtentBeginBounds DEF InExtent
  <2>2. f.lastReleaseBegin[t] \in 0 .. (MaxTxid + 1)
    BY DEF FreelistType
  <2>3. 0 \in 0 .. (MaxTxid + 1)
    BY BoundsAssumption
  <2> HIDE DEF kept
  <2> QED
    BY <2>1, <2>2, <2>3
<1>2. F \in SUBSET Pgids
  BY DEF EntryIds, Released, FreelistType, Entry
<1>3. kept \in SUBSET Entry
  BY DEF FreelistType
<1>4. ReleasePendingPages(f) = [f EXCEPT !.free = F, !.pending = kept, !.lastReleaseBegin = L]
  BY DEF ReleasePendingPages, FreelistType
<1> HIDE DEF F, L, kept
<1>5. ReleasePendingPages(f) \in FreelistType
  BY <1>1, <1>2, <1>3, <1>4 DEF FreelistType
<1> QED
  BY <1>4, <1>5 DEF FreelistType, F, kept

\* Releasing is safe for a snapshot of a registered reader: a page leaves the
\* pending list only when no open reader's txid lies between the transaction
\* that allocated it and the one that freed it.
LEMMA ReleasedNotSeen ==
  ASSUME NEW f \in FreelistType, NEW e \in Released(f), NEW t \in OpenTxids(f)
  PROVE  ~(e.alloctx <= t /\ t < e.tx)
<1>1. t \in Txids /\ e \in Entry
  BY DEF OpenTxids, Released, FreelistType
<1>2. e.tx \in Txids /\ e.alloctx \in Txids
  BY <1>1 DEF Entry
<1>3. CASE ByRelease(f, e)
  BY <1>1, <1>2, <1>3 DEF ByRelease, Txids
<1>4. CASE ByReleaseRange(f, e)
  <2>1. ExtentBegin(f, e.tx) \in 0 .. (MaxTxid + 1) /\ (t < e.tx => t < ExtentBegin(f, e.tx))
    BY <1>2, <1>4, ExtentBeginBounds DEF ByReleaseRange, Examined, InExtent
  <2>2. ExtentBegin(f, e.tx) <= e.alloctx
    BY <1>4 DEF ByReleaseRange
  <2> QED
    BY <1>1, <1>2, <2>1, <2>2, BoundsAssumption DEF Txids
<1> QED
  BY <1>3, <1>4 DEF Released

-----------------------------------------------------------------------------
(***************************************************************************)
(* The freelist operations keep the freelist's part of the invariant.      *)
(* Base says it of a freelist f, with cur the current meta, V the visible  *)
(* and R the recoverable metas, and T the running transaction.             *)
(***************************************************************************)
Base(f, cur, V, R, T) ==
  /\ f \in FreelistType /\ T \in Txids
  /\ cur \in R /\ R \subseteq V /\ V \subseteq Meta
  /\ \A m \in V : /\ 1 <= m.txid /\ m.txid <= cur.txid /\ m.pgid <= cur.pgid
                  /\ WellFormed(m)
                  /\ Shares(cur, m)
  /\ \A m \in V : Protects(f, m)
  /\ FreelistOK(f, cur)
  /\ PendingOK(f, R, T)

\* The fields of a meta page are within their bounds.
LEMMA MetaFields ==
  ASSUME NEW m \in Meta
  PROVE  /\ m.txid \in Txids /\ m.txid \in Nat /\ m.pgid \in Nat
         /\ m.tree \subseteq Block /\ m.freelist \subseteq Block /\ m.ids \subseteq Pgids
         /\ Blocks(m) \subseteq Block /\ Used(m) \subseteq Pgids
<1>1. /\ m.txid \in Txids /\ m.txid \in Nat /\ m.pgid \in Nat
      /\ m.tree \subseteq Block /\ m.freelist \subseteq Block /\ m.ids \subseteq Pgids
  BY BoundsAssumption DEF Meta, Txids
<1>2. Blocks(m) \subseteq Block
  BY <1>1 DEF Blocks
<1>3. Used(m) \subseteq Pgids
  BY <1>2, IdsOfBlock, UsedElement
<1> QED
  BY <1>1, <1>2, <1>3

\* A page of the current tree that the writer has not freed yet can be freed:
\* Free does not panic, and every snapshot stays protected.
LEMMA FreeKeepsBase ==
  ASSUME NEW f, NEW cur, NEW V, NEW R, NEW T, NEW b \in Blocks(cur),
         Base(f, cur, V, R, T), T = cur.txid + 1, Ids(b) \cap Copyall(f) = {}
  PROVE  ~FreePanics(f, b) /\ Base(Free(f, T, b), cur, V, R, T)
<1> DEFINE g == Free(f, T, b)
<1>1. cur \in Meta /\ cur \in V /\ f \in FreelistType /\ T \in Txids /\ FreelistOK(f, cur)
      /\ \A m \in V : Protects(f, m) /\ Shares(cur, m) /\ m \in Meta /\ m.txid <= cur.txid
  BY DEF Base
<1>2. b \in Block
  BY <1>1, MetaFields
<1>3. ~FreePanics(f, b)
  BY <1>1, <1>2, IdsOfBlock DEF FreePanics, FreelistOK, Pgids
<1>4. /\ g \in FreelistType
      /\ g.free = f.free
      /\ g.cache = f.cache \cup Ids(b)
      /\ g.pending = f.pending \cup {[tx |-> T, id |-> i, alloctx |-> f.allocs[b.id]] : i \in Ids(b)}
      /\ \A p \in Pgids : g.allocs[p] = IF p = b.id THEN 0 ELSE f.allocs[p]
      /\ g.readonlyTXIDs = f.readonlyTXIDs
  BY <1>1, <1>2, FreeFields
<1>5. \A e \in g.pending : e \in f.pending \/ (e.tx = T /\ e.id \in Ids(b) /\ e.alloctx = f.allocs[b.id])
  BY <1>4
<1>6. f.allocs[b.id] \in Txids /\ b.id \in Ids(b) /\ b.id \in Pgids
  BY <1>1, <1>2, IdsOfBlock DEF FreelistType
<1> HIDE DEF g
<1>7. ASSUME NEW m \in V PROVE Protects(g, m)
  <2>1. Used(m) \cap g.free = {}
    BY <1>1, <1>4 DEF Protects
  <2>2. ASSUME NEW e \in g.pending, e.id \in Used(m)
        PROVE  e.alloctx <= m.txid /\ m.txid < e.tx
    <3>1. CASE e \in f.pending
      BY <1>1, <2>2, <3>1 DEF Protects
    <3>2. CASE e.tx = T /\ e.id \in Ids(b) /\ e.alloctx = f.allocs[b.id]
      <4>1. b \in Blocks(m)
        BY <1>1, <2>2, <3>2 DEF Shares
      <4>2. b.id \in Used(m)
        BY <1>6, <4>1, UsedElement
      <4>3. f.allocs[b.id] <= m.txid
        BY <1>1, <4>2 DEF Protects
      <4>4. m.txid \in Nat /\ cur.txid \in Nat /\ m.txid <= cur.txid
        BY <1>1, MetaFields
      <4> QED
        BY <3>2, <4>3, <4>4
    <3> QED
      BY <1>5, <3>1, <3>2
  <2>3. ASSUME NEW p \in Used(m) PROVE g.allocs[p] <= m.txid
    <3>1. p \in Pgids /\ m.txid \in Nat
      BY <1>1, MetaFields
    <3> QED
      BY <1>1, <1>4, <3>1 DEF Protects
  <2> QED
    BY <2>1, <2>2, <2>3 DEF Protects
<1>8. FreelistOK(g, cur)
  <2>1. Copyall(g) = Copyall(f) \cup Ids(b) /\ EntryIds(g.pending) = EntryIds(f.pending) \cup Ids(b)
    BY <1>1, <1>2, FreeCopyall DEF g
  <2>3. g.cache = Copyall(g) /\ g.free \cap EntryIds(g.pending) = {}
    BY <1>1, <1>4, <2>1 DEF FreelistOK, Copyall
  <2>4. \A e, h \in g.pending : e.id = h.id => e = h
    <3> SUFFICES ASSUME NEW e \in g.pending, NEW h \in g.pending, e.id = h.id PROVE e = h
      OBVIOUS
    <3>1. \A x \in f.pending : x.id \notin Ids(b)
      BY CopyallElement
    <3>2. CASE e \in f.pending /\ h \in f.pending
      BY <1>1, <3>2 DEF FreelistOK
    <3>3. CASE e \notin f.pending /\ h \notin f.pending
      BY <1>4, <3>3
    <3> QED
      BY <1>5, <3>1, <3>2, <3>3
  <2>5. Copyall(g) \subseteq 2 .. (cur.pgid - 1)
    <3>1. Ids(b) \subseteq Used(cur)
      BY UsedElement
    <3>2. Used(cur) \subseteq 2 .. (cur.pgid - 1)
      BY <1>1 DEF Base, WellFormed
    <3> QED
      BY <1>1, <2>1, <3>1, <3>2 DEF FreelistOK
  <2>6. \A p \in Pgids : g.allocs[p] <= cur.txid + 1
    BY <1>1, <1>4, MetaFields DEF FreelistOK
  <2>7. \A e \in g.pending : e.alloctx < e.tx
    <3>1. b.id \in Used(cur)
      BY <1>6, UsedElement
    <3>2. f.allocs[b.id] <= cur.txid
      BY <1>1, <3>1 DEF Protects
    <3>3. f.allocs[b.id] < T
      BY <1>1, <1>6, <3>2, MetaFields DEF Txids
    <3> QED
      BY <1>1, <1>5, <3>3 DEF FreelistOK
  <2> QED
    BY <2>3, <2>4, <2>5, <2>6, <2>7 DEF FreelistOK
<1>9. PendingOK(g, R, T)
  BY <1>5 DEF Base, PendingOK
<1> QED
  BY <1>3, <1>4, <1>7, <1>8, <1>9 DEF Base, g

\* A run of free pages can be allocated: no snapshot uses any of them.
LEMMA AllocateKeepsBase ==
  ASSUME NEW f, NEW cur, NEW V, NEW R, NEW T, NEW n \in Nat \ {0}, NEW i \in FreeRuns(f, n),
         Base(f, cur, V, R, T), T = cur.txid + 1
  PROVE  Base(Allocate(f, T, i, n), cur, V, R, T)
<1> DEFINE g == Allocate(f, T, i, n)
           b == [id |-> i, overflow |-> n - 1]
<1>1. cur \in Meta /\ cur \in V /\ f \in FreelistType /\ T \in Txids /\ FreelistOK(f, cur)
      /\ \A m \in V : Protects(f, m) /\ m \in Meta
  BY DEF Base
<1>2. /\ b \in Block /\ Ids(b) \subseteq f.free
      /\ g \in FreelistType
      /\ g.free = f.free \ Ids(b)
      /\ g.cache = f.cache \ Ids(b)
      /\ g.pending = f.pending
      /\ \A p \in Pgids : g.allocs[p] = IF p = i THEN T ELSE f.allocs[p]
      /\ i \in Ids(b)
  BY <1>1, AllocateFields, IdsOfBlock
<1> HIDE DEF g, b
<1>3. ASSUME NEW m \in V PROVE Protects(g, m)
  <2>1. i \notin Used(m)
    BY <1>1, <1>2 DEF Protects
  <2>2. Used(m) \subseteq Pgids
    BY <1>1, MetaFields
  <2> QED
    BY <1>1, <1>2, <2>1, <2>2 DEF Protects
<1>4. FreelistOK(g, cur)
  <2>1. Copyall(g) = Copyall(f) \ Ids(b)
    BY <1>1, <1>2 DEF Copyall, FreelistOK
  <2>2. cur.txid \in Nat
    BY <1>1, MetaFields
  <2>3. \A p \in Pgids : g.allocs[p] <= cur.txid + 1
    BY <1>1, <1>2, <2>2 DEF FreelistOK
  <2> QED
    BY <1>1, <1>2, <2>1, <2>3 DEF FreelistOK
<1> QED
  BY <1>2, <1>3, <1>4 DEF Base, PendingOK, g

\* Rollback cannot panic, and gives back what the transaction had freed.
LEMMA RollbackKeepsBase ==
  ASSUME NEW f, NEW cur, NEW V, NEW R, NEW T,
         Base(f, cur, V, R, T), T <= cur.txid + 1
  PROVE  ~RollbackPanics(f, T) /\ Base(Rollback(f, T), cur, V, R, NilMeta.txid)
<1>1. cur \in Meta /\ cur \in V /\ f \in FreelistType /\ T \in Txids /\ FreelistOK(f, cur)
      /\ \A m \in V : Protects(f, m) /\ m \in Meta
  BY DEF Base
<1>0. \A e \in f.pending : e.tx \in Nat /\ e.alloctx \in Nat /\ e \in Entry
  BY <1>1, BoundsAssumption DEF FreelistType, Entry, Txids
<1>2. ~RollbackPanics(f, T)
  BY <1>0, <1>1 DEF RollbackPanics, PendingOf, FreelistOK
<1>3. 0 \in Txids /\ NilMeta.txid = 0
  BY BoundsAssumption DEF Txids, NilMeta
<1>4. CASE PendingOf(f, T) = {}
  <2>1. PendingOK(f, R, 0)
    BY <1>4 DEF Base, PendingOK, PendingOf
  <2> QED
    BY <1>2, <1>3, <1>4, <2>1 DEF Rollback, Base
<1>5. CASE PendingOf(f, T) # {}
  <2> DEFINE g == Rollback(f, T)
  <2>1. /\ g \in FreelistType
        /\ g.free = f.free
        /\ g.cache = f.cache \ EntryIds(PendingOf(f, T))
        /\ g.pending = {e \in f.pending : e.tx # T}
        /\ \A p \in Pgids : \/ g.allocs[p] = 0 \/ g.allocs[p] = f.allocs[p]
                            \/ \E e \in f.pending : e.id = p /\ e.alloctx = g.allocs[p]
    BY <1>1, <1>5, RollbackFields
  <2> HIDE DEF g
  <2>2. ASSUME NEW m \in V PROVE Protects(g, m)
    <3>1. Used(m) \subseteq Pgids /\ m.txid \in Nat
      BY <1>1, MetaFields
    <3> QED
      BY <1>1, <2>1, <3>1 DEF Protects
  <2>3. FreelistOK(g, cur)
    <3>1. EntryIds(g.pending) = EntryIds(f.pending) \ EntryIds(PendingOf(f, T))
      BY <1>1, <2>1 DEF FreelistOK, EntryIds, PendingOf
    <3>2. Copyall(g) = Copyall(f) \ EntryIds(PendingOf(f, T))
      BY <1>1, <2>1, <3>1 DEF FreelistOK, Copyall, EntryIds, PendingOf
    <3>3. cur.txid \in Nat
      BY <1>1, MetaFields
    <3>4. \A e \in f.pending : e.alloctx <= cur.txid + 1
      <4> TAKE e \in f.pending
      <4>1. e.tx <= cur.txid \/ e.tx = T
        BY DEF Base, PendingOK
      <4>2. e.alloctx < e.tx
        BY <1>1 DEF FreelistOK
      <4> QED
        BY <1>0, <1>1, <3>3, <4>1, <4>2 DEF Txids
    <3>5. \A p \in Pgids : g.allocs[p] <= cur.txid + 1
      BY <1>1, <2>1, <3>3, <3>4 DEF FreelistOK
    <3> QED
      BY <1>1, <2>1, <3>1, <3>2, <3>5 DEF FreelistOK
  <2>4. PendingOK(g, R, 0)
    BY <2>1 DEF Base, PendingOK
  <2> QED
    BY <1>2, <1>3, <2>1, <2>2, <2>3, <2>4 DEF Base, g
<1> QED
  BY <1>4, <1>5

\* ReleasePendingPages frees no page of a snapshot, provided every snapshot is
\* recoverable or registered.
LEMMA ReleaseKeepsBase ==
  ASSUME NEW f, NEW cur, NEW V, NEW R, NEW T \in Txids,
         Base(f, cur, V, R, 0),
         \A m \in V : m \in R \/ m.txid \in OpenTxids(f)
  PROVE  Base(ReleasePendingPages(f), cur, V, R, T)
<1> DEFINE g == ReleasePendingPages(f)
<1>1. cur \in Meta /\ cur \in V /\ f \in FreelistType /\ FreelistOK(f, cur)
      /\ \A m \in V : Protects(f, m) /\ m \in Meta /\ 1 <= m.txid
  BY DEF Base
<1>2. /\ g \in FreelistType
      /\ g.free = f.free \cup EntryIds(Released(f))
      /\ g.cache = f.cache
      /\ g.pending = f.pending \ Released(f)
      /\ g.allocs = f.allocs
  BY <1>1, ReleaseFields
<1>3. Released(f) \subseteq f.pending
  BY DEF Released
<1>4. \A e \in f.pending : e.tx \in Nat /\ e.alloctx \in Nat
  BY <1>1, BoundsAssumption DEF FreelistType, Entry, Txids
<1> HIDE DEF g
<1>5. ASSUME NEW m \in V PROVE Protects(g, m)
  <2>1. ASSUME NEW e \in Released(f) PROVE e.id \notin Used(m)
    <3> SUFFICES ASSUME e.id \in Used(m) PROVE FALSE
      OBVIOUS
    <3>1. e.alloctx <= m.txid /\ m.txid < e.tx
      BY <1>1, <1>3 DEF Protects
    <3>2. CASE m \in R
      <4>1. e.tx <= m.txid \/ e.tx = 0
        BY <1>3, <3>2 DEF Base, PendingOK
      <4> QED
        BY <1>1, <1>3, <1>4, <3>1, <4>1, MetaFields
    <3>3. CASE m.txid \in OpenTxids(f)
      BY <1>1, <3>1, <3>3, ReleasedNotSeen
    <3> QED
      BY <3>2, <3>3
  <2> QED
    BY <1>1, <1>2, <2>1 DEF Protects, EntryIds
<1>6. FreelistOK(g, cur)
  <2>1. Copyall(g) = Copyall(f)
    BY <1>2, <1>3 DEF Copyall, EntryIds
  <2>2. g.free \cap EntryIds(g.pending) = {}
    BY <1>1, <1>2, <1>3 DEF FreelistOK, EntryIds
  <2> QED
    BY <1>1, <1>2, <2>1, <2>2 DEF FreelistOK
<1>7. PendingOK(g, R, T)
  <2> SUFFICES ASSUME NEW e \in f.pending, NEW m \in R PROVE e.tx <= m.txid
    BY <1>2 DEF PendingOK
  <2>1. e.tx <= m.txid \/ e.tx = 0
    BY DEF Base, PendingOK
  <2>2. m \in V
    BY DEF Base
  <2> QED
    BY <1>1, <2>1, <2>2, MetaFields
<1> QED
  BY <1>2, <1>5, <1>6, <1>7 DEF Base, g

-----------------------------------------------------------------------------
(***************************************************************************)
(* The same operations keep the writer's part, WriterOK.                   *)
(***************************************************************************)

\* Taking block b out of the writer's tree, and freeing it.
LEMMA FreeKeepsWriter ==
  ASSUME NEW f, NEW cur, NEW V, NEW R, NEW w \in Meta, NEW d, NEW b \in Blocks(w) \cap Blocks(cur),
         NEW v \in Meta, Blocks(v) = Blocks(w) \ {b}, v.tree \subseteq w.tree, v.freelist \subseteq w.freelist,
         v.txid = w.txid, v.pgid = w.pgid,
         Base(f, cur, V, R, w.txid), WriterOK(f, w, d, cur, V)
  PROVE  /\ ~FreePanics(f, b)
         /\ Base(Free(f, w.txid, b), cur, V, R, v.txid)
         /\ WriterOK(Free(f, w.txid, b), v, d, cur, V)
<1> DEFINE g == Free(f, w.txid, b)
<1>1. b \in Block /\ f \in FreelistType /\ w.txid \in Txids
  BY MetaFields DEF Base
<1>2. Ids(b) \subseteq Used(w)
  BY UsedElement
<1>3. ~FreePanics(f, b) /\ Base(g, cur, V, R, v.txid)
  BY <1>2, FreeKeepsBase DEF WriterOK
<1>4. Copyall(g) = Copyall(f) \cup Ids(b)
  BY <1>1, FreeCopyall
<1> HIDE DEF g
<1>5. Used(v) \subseteq Used(w) /\ Used(v) \cap Ids(b) = {}
  BY UsedElement DEF WriterOK, WellFormed
<1>6. WellFormed(v)
  BY <1>5 DEF WriterOK, WellFormed
<1>7. Used(v) \cap Copyall(g) = {}
  BY <1>4, <1>5 DEF WriterOK
<1>8. \A m \in V : Shares(v, m) /\ Used(m) \cap Span(d) = {}
  BY DEF WriterOK, Shares
<1>9. WriterOK(g, v, d, cur, V)
  BY <1>6, <1>7, <1>8 DEF WriterOK
<1> QED
  BY <1>3, <1>9 DEF g

\* Adding a block that nobody uses.
LEMMA AddKeepsWriter ==
  ASSUME NEW f, NEW g, NEW cur, NEW V, NEW w \in Meta, NEW d, NEW b \in Block,
         NEW v \in Meta, Blocks(v) = Blocks(w) \cup {b}, v.tree \cap v.freelist = {},
         \A x, y \in v.freelist : x = y,
         v.txid = w.txid, w.pgid <= v.pgid, cur \in Meta,
         WriterOK(f, w, d, cur, V),
         Copyall(g) \subseteq Copyall(f), Ids(b) \cap Copyall(g) = {},
         Ids(b) \subseteq 2 .. (v.pgid - 1), Ids(b) \cap Used(w) = {},
         \A m \in V : Ids(b) \cap Used(m) = {}
  PROVE  WriterOK(g, v, d \cup {b}, cur, V)
<1>1. Used(v) = Used(w) \cup Ids(b)
  BY UsedElement
<1>2. w.pgid \in Nat /\ v.pgid \in Nat /\ cur.pgid \in Nat
  BY MetaFields
<1>3. Used(v) \subseteq 2 .. (v.pgid - 1)
  BY <1>1, <1>2 DEF WriterOK, WellFormed
<1>4. \A x \in Blocks(w) : Ids(x) \cap Ids(b) = {}
  BY UsedElement
<1>5. WellFormed(v)
  BY <1>3, <1>4 DEF WriterOK, WellFormed
<1>6. Used(v) \cap Copyall(g) = {}
  BY <1>1 DEF WriterOK
<1>7. \A m \in V : Shares(v, m)
  BY DEF WriterOK, Shares
<1>8. Span(d \cup {b}) = Span(d) \cup Ids(b)
  BY SpanElement
<1>9. \A m \in V : Used(m) \cap Span(d \cup {b}) = {}
  BY <1>8 DEF WriterOK
<1>10. v.txid = cur.txid + 1 /\ cur.pgid <= v.pgid
  BY <1>2 DEF WriterOK
<1>11. Blocks(v) \subseteq Blocks(cur) \cup (d \cup {b})
  BY DEF WriterOK
<1> QED
  BY <1>5, <1>6, <1>7, <1>9, <1>10, <1>11, Zenon DEF WriterOK

(***************************************************************************)
(* What db.allocate is called with: the transaction's meta w, and v, w     *)
(* without the blocks it is about to replace.                              *)
(***************************************************************************)
Prepared(f, cur, V, R, w, v, d) ==
  /\ w \in Meta /\ v \in Meta /\ v.txid = w.txid /\ v.pgid = w.pgid
  /\ Base(f, cur, V, R, w.txid)
  /\ WriterOK(f, v, d, cur, V)

\* The block that db.allocate returns is used by no visible meta and by no part
\* of the writer's new tree, and is not in the freelist any more.
LEMMA AllocationsFresh ==
  ASSUME NEW f, NEW cur, NEW V, NEW R, NEW w, NEW v, NEW d, Prepared(f, cur, V, R, w, v, d),
         NEW n \in Nat \ {0}, NEW a \in Allocations(f, w, n)
  PROVE  /\ a.block \in Block /\ a.meta = [w EXCEPT !.pgid = a.meta.pgid]
         /\ a.meta.pgid \in 2 .. (MaxPgid + 1) /\ v.pgid <= a.meta.pgid
         /\ a.fl \in FreelistType /\ a.fl.readonlyTXIDs = f.readonlyTXIDs
         /\ Base(a.fl, cur, V, R, w.txid)
         /\ Copyall(a.fl) \subseteq Copyall(f) /\ Ids(a.block) \cap Copyall(a.fl) = {}
         /\ Ids(a.block) \subseteq 2 .. (a.meta.pgid - 1)
         /\ Ids(a.block) \cap Used(v) = {}
         /\ \A m \in V : Ids(a.block) \cap Used(m) = {}
<1>1. /\ f \in FreelistType /\ cur \in Meta /\ cur \in V /\ V \subseteq Meta /\ w.txid \in Txids
      /\ FreelistOK(f, cur) /\ w.txid = cur.txid + 1
      /\ w \in Meta /\ v \in Meta /\ v.pgid = w.pgid
      /\ Base(f, cur, V, R, w.txid) /\ WriterOK(f, v, d, cur, V)
  BY DEF Prepared, Base, WriterOK
<1>2. cur.pgid \in Nat /\ w.pgid \in Nat /\ cur.pgid <= w.pgid /\ \A m \in V : m.pgid \in Nat /\ m.pgid <= cur.pgid
  BY <1>1, MetaFields DEF Base, WriterOK
<1>3. CASE FreeRuns(f, n) # {}
  <2>1. PICK i \in FreeRuns(f, n) : a = [fl |-> Allocate(f, w.txid, i, n), meta |-> w,
                                         block |-> [id |-> i, overflow |-> n - 1]]
    BY <1>3 DEF Allocations
  <2>2. a.fl = Allocate(f, w.txid, i, n) /\ a.meta = w /\ a.block = [id |-> i, overflow |-> n - 1]
    BY <2>1
  <2>3. /\ a.block \in Block /\ Ids(a.block) \subseteq f.free
        /\ a.fl.free = f.free \ Ids(a.block)
        /\ a.fl.pending = f.pending
        /\ a.fl \in FreelistType /\ a.fl.readonlyTXIDs = f.readonlyTXIDs
    BY <1>1, <2>2, AllocateFields
  <2>4. Base(a.fl, cur, V, R, w.txid)
    BY <1>1, <2>2, AllocateKeepsBase
  <2>5. Copyall(a.fl) = Copyall(f) \ Ids(a.block) /\ Ids(a.block) \subseteq Copyall(f)
    BY <1>1, <2>3 DEF Copyall, FreelistOK
  <2>6. Ids(a.block) \subseteq 2 .. (a.meta.pgid - 1)
    BY <1>1, <1>2, <2>2, <2>5 DEF FreelistOK
  <2>7. Ids(a.block) \cap Used(v) = {}
    BY <1>1, <2>5 DEF WriterOK
  <2>8. \A m \in V : Ids(a.block) \cap Used(m) = {}
    BY <1>1, <2>3 DEF Base, Protects
  <2>9. a.meta = [w EXCEPT !.pgid = a.meta.pgid]
    BY <1>1, <2>2 DEF Meta
  <2>10. a.meta.pgid \in 2 .. (MaxPgid + 1) /\ v.pgid <= a.meta.pgid
    BY <1>1, <1>2, <2>2 DEF Meta
  <2> QED
    BY <2>10, <2>3, <2>4, <2>5, <2>6, <2>7, <2>8, <2>9
<1>4. CASE FreeRuns(f, n) = {}
  <2>1. /\ w.pgid + n - 1 <= MaxPgid
        /\ a = [fl |-> f, meta |-> [w EXCEPT !.pgid = @ + n],
                block |-> [id |-> w.pgid, overflow |-> n - 1]]
    BY <1>4 DEF Allocations
  <2>2. a.fl = f /\ a.meta = [w EXCEPT !.pgid = w.pgid + n] /\ a.block = [id |-> w.pgid, overflow |-> n - 1]
    BY <2>1
  <2>3. w.pgid \in 2 .. (MaxPgid + 1) /\ w.pgid >= 2
    BY <1>1 DEF Meta
  <2>4. w.pgid + n \in 2 .. (MaxPgid + 1)
    BY <2>1, <2>3, BoundsAssumption
  <2>5. a.meta \in Meta /\ a.meta.pgid = w.pgid + n
    BY <1>1, <2>2, <2>4 DEF Meta
  <2>6. a.block \in Block /\ Ids(a.block) = w.pgid .. (w.pgid + n - 1)
    BY <2>1, <2>2, <2>3, BoundsAssumption DEF Block, Ids, Pgids
  <2>7. a.meta = [w EXCEPT !.pgid = a.meta.pgid]
    BY <2>2, <2>5
  <2>8. Ids(a.block) \cap Copyall(f) = {}
    BY <1>1, <1>2, <2>3, <2>6 DEF FreelistOK
  <2>9. Ids(a.block) \cap Used(v) = {}
    BY <1>1, <2>3, <2>6 DEF WriterOK, WellFormed
  <2>10. \A m \in V : Ids(a.block) \cap Used(m) = {}
    <3> TAKE m \in V
    <3>1. Used(m) \subseteq 2 .. (m.pgid - 1)
      BY <1>1 DEF Base, WellFormed
    <3> QED
      BY <1>2, <2>3, <2>6, <3>1
  <2>11. Ids(a.block) \subseteq 2 .. (a.meta.pgid - 1)
    BY <2>3, <2>5, <2>6
  <2>12. v.pgid <= a.meta.pgid /\ a.meta.pgid \in 2 .. (MaxPgid + 1)
    BY <1>1, <1>2, <2>4, <2>5
  <2> QED
    BY <1>1, <2>2, <2>6, <2>7, <2>8, <2>9, <2>10, <2>11, <2>12
<1> QED
  BY <1>3, <1>4

-----------------------------------------------------------------------------
(* Facts about the state, from the invariant. *)

\* The meta that db.meta() picks is one a crash may bring back.
LEMMA CurrentIsRecoverable ==
  ASSUME TypeOK, MetasInv
  PROVE  /\ CurrentMeta \in Recoverable /\ CurrentMeta \in Meta
         /\ Recoverable \subseteq Visible /\ Visible \subseteq Meta
<1>1. meta[0] \in disk[0] /\ meta[1] \in disk[1]
  BY DEF MetasInv, Slots
<1>2. CurrentMeta \in Recoverable
  BY <1>1 DEF CurrentMeta, Recoverable
<1>3. Recoverable \subseteq disk[0] \cup disk[1]
  BY DEF Recoverable, Newer
<1>4. disk[0] \subseteq Meta /\ disk[1] \subseteq Meta /\ \A r \in Readers : rtx[r] \subseteq Meta
  BY DEF TypeOK, Slots
<1> QED
  BY <1>2, <1>3, <1>4 DEF Visible

\* The part of the invariant that speaks of the freelist and the visible metas.
LEMMA BaseOfInvariant ==
  ASSUME IInv
  PROVE  Base(fl, CurrentMeta, Visible, Recoverable, wmeta.txid)
<1>1. fl \in FreelistType /\ wmeta \in Meta
  BY DEF IInv, TypeOK
<1>2. wmeta.txid \in Txids
  BY <1>1, MetaFields
<1>3. /\ CurrentMeta \in Recoverable /\ Recoverable \subseteq Visible /\ Visible \subseteq Meta
  BY CurrentIsRecoverable DEF IInv
<1> QED
  BY <1>1, <1>2, <1>3 DEF IInv, Base, VisibleInv, ProtectInv

\* A step that leaves the meta pages and the readers alone changes neither the
\* current meta nor the visible and recoverable ones.
LEMMA SameMetas ==
  ASSUME UNCHANGED <<meta, disk, rtx>>
  PROVE  CurrentMeta' = CurrentMeta /\ Recoverable' = Recoverable /\ Visible' = Visible
BY DEF CurrentMeta, Recoverable, Visible

\* What a step of the writer that touches neither meta pages nor readers has to
\* establish.
LEMMA WriterStep ==
  ASSUME IInv, UNCHANGED <<meta, disk, metalock, rtx, acked>>, TypeOK',
         Base(fl', CurrentMeta, Visible, Recoverable, wmeta'.txid),
         fl'.readonlyTXIDs = fl.readonlyTXIDs,
         \A m \in Recoverable : Used(m) \cap unsynced' = {},
         WriterInv'
  PROVE  IInv'
<1>1. CurrentMeta' = CurrentMeta /\ Recoverable' = Recoverable /\ Visible' = Visible
  BY SameMetas
<1>2. MetasInv'
  BY <1>1 DEF IInv, MetasInv
<1>3. ReadersInv'
  BY DEF IInv, ReadersInv
<1>4. VisibleInv'
  BY <1>1 DEF IInv, VisibleInv
<1>5. ProtectInv'
  BY <1>1 DEF ProtectInv, Base
<1>6. FreelistOK(fl', CurrentMeta')
  BY <1>1 DEF Base
<1>7. PendingOK(fl', Recoverable', wmeta'.txid)
  BY <1>1 DEF Base
<1>8. RecoverInv'
  BY <1>1 DEF IInv, RecoverInv
<1> QED
  BY <1>2, <1>3, <1>4, <1>5, <1>6, <1>7, <1>8 DEF IInv

\* The meta of a closed transaction is a meta.
LEMMA NilMetaType == NilMeta \in Meta
BY BoundsAssumption, ConstantsAssumption DEF NilMeta, Meta, Txids

\* Every failure of Commit, and the user's Rollback, end in this step.
LEMMA RollbackStep ==
  ASSUME IInv, NEW f, RollbackFrom(f), wpc # "idle",
         Base(f, CurrentMeta, Visible, Recoverable, wmeta.txid),
         f.readonlyTXIDs = fl.readonlyTXIDs,
         UNCHANGED <<meta, disk, metalock, rtx, acked>>,
         mem' \in [Pgids -> Txids], unsynced' \subseteq Pgids,
         \A m \in Recoverable : Used(m) \cap unsynced' = {}
  PROVE  IInv'
<1>1. wmeta.txid <= CurrentMeta.txid + 1
  <2>1. wpc \in {"body", "spill", "write", "sync", "meta", "syncMeta"}
    BY DEF IInv, TypeOK, WriterInv
  <2>2. CurrentMeta.txid \in Nat
    BY CurrentIsRecoverable, MetaFields DEF IInv
  <2> QED
    BY <2>1, <2>2 DEF IInv, WriterInv, Preparing, WriterOK
<1>2. ~RollbackPanics(f, wmeta.txid) /\ Base(Rollback(f, wmeta.txid), CurrentMeta, Visible, Recoverable, NilMeta.txid)
  BY <1>1, RollbackKeepsBase
<1>3. fl' = Rollback(f, wmeta.txid) /\ wpc' = "idle" /\ wmeta' = NilMeta /\ dirty' = {}
  BY <1>2 DEF RollbackFrom, Close
<1>4. fl'.readonlyTXIDs = fl.readonlyTXIDs
  <2>1. f \in FreelistType /\ wmeta.txid \in Txids
    BY DEF Base
  <2> QED
    BY <1>3, <2>1, RollbackFields DEF Rollback
<1>5. TypeOK'
  <2>1. fl' \in FreelistType
    BY <1>2, <1>3 DEF Base
  <2> QED
    BY <1>3, <2>1, NilMetaType DEF IInv, TypeOK
<1>6. WriterInv'
  BY <1>3 DEF WriterInv, Preparing
<1> QED
  BY <1>2, <1>3, <1>4, <1>5, <1>6, WriterStep

-----------------------------------------------------------------------------
(* One lemma per action. *)

\* A database that db.init has just created satisfies the invariant.
LEMMA InitInvariant == Init => IInv
<1> SUFFICES ASSUME Init PROVE IInv
  OBVIOUS
<1> DEFINE lo == InitMeta(0)
           hi == InitMeta(1)
<1>1. lo \in Meta /\ hi \in Meta
  BY BoundsAssumption, ConstantsAssumption DEF InitMeta, Meta, Block, Pgids, Txids
<1>2. /\ lo.txid = 0 /\ hi.txid = 1 /\ lo.pgid = 4 /\ hi.pgid = 4 /\ lo.ids = {} /\ hi.ids = {}
      /\ lo.tree = {[id |-> 3, overflow |-> 0]} /\ hi.tree = lo.tree
      /\ lo.freelist = {[id |-> 2, overflow |-> 0]} /\ hi.freelist = lo.freelist
  BY DEF InitMeta
<1> HIDE DEF lo, hi
<1>3. CurrentMeta = hi
  BY <1>2 DEF Init, CurrentMeta, Newer, Slots, lo, hi
<1>4. Recoverable = {hi} /\ Visible = {hi}
  <2>1. disk[0] = {lo} /\ disk[1] = {hi} /\ Newer(lo, hi) = hi
    BY <1>2 DEF Init, Slots, Newer, lo, hi
  <2>2. Recoverable = {hi}
    BY <2>1 DEF Recoverable
  <2> QED
    BY <2>2 DEF Visible, Init
<1>5. Used(hi) = {2, 3} /\ WellFormed(hi)
  <2>1. Ids([id |-> 3, overflow |-> 0]) = {3} /\ Ids([id |-> 2, overflow |-> 0]) = {2}
    BY DEF Ids
  <2>2. Blocks(hi) = {[id |-> 3, overflow |-> 0], [id |-> 2, overflow |-> 0]}
    BY <1>2 DEF Blocks
  <2>3. Used(hi) = {2, 3}
    BY <2>1, <2>2, UsedElement
  <2> QED
    BY <1>2, <2>1, <2>2, <2>3 DEF WellFormed
<1>6. /\ fl \in FreelistType /\ fl.free = {} /\ fl.cache = {} /\ fl.pending = {}
      /\ \A p \in Pgids : fl.allocs[p] = 0
  BY LoadedFields DEF Init
<1>7. TypeOK
  BY <1>1, <1>6, NilMetaType, BoundsAssumption DEF Init, TypeOK, Slots, Txids, lo, hi
<1>8. MetasInv
  BY <1>2, <1>3 DEF Init, MetasInv, Slots, lo, hi
<1>9. ReadersInv
  BY DEF Init, ReadersInv
<1>10. VisibleInv
  BY <1>2, <1>3, <1>4, <1>5 DEF VisibleInv, Shares
<1>11. ProtectInv
  BY <1>1, <1>2, <1>4, <1>6, MetaFields DEF ProtectInv, Protects
<1>12. FreelistOK(fl, CurrentMeta)
  BY <1>2, <1>3, <1>6 DEF FreelistOK, Copyall, EntryIds
<1>13. PendingOK(fl, Recoverable, wmeta.txid)
  BY <1>6 DEF PendingOK
<1>14. RecoverInv
  BY <1>2, <1>4 DEF Init, RecoverInv, ListOK
<1>15. WriterInv
  BY DEF Init, WriterInv, Preparing
<1> QED
  BY <1>7, <1>8, <1>9, <1>10, <1>11, <1>12, <1>13, <1>14, <1>15 DEF IInv

\* A reader that copies the current meta keeps the invariant.
LEMMA BeginTxStep == ASSUME IInv, NEW r \in Readers, BeginTx(r) PROVE IInv'
<1>1. CurrentMeta \in Meta /\ CurrentMeta \in Visible /\ Recoverable \subseteq Visible
  BY CurrentIsRecoverable DEF IInv
<1>2. CurrentMeta' = CurrentMeta /\ Recoverable' = Recoverable
  BY DEF BeginTx, diskVars, CurrentMeta, Recoverable
<1>3. Visible' \subseteq Visible
  <2>1. \A q \in Readers : rtx'[q] \subseteq rtx[q] \cup {CurrentMeta}
    BY DEF BeginTx, IInv, TypeOK
  <2> QED
    BY <1>1, <1>2, <2>1 DEF Visible
<1>4. TypeOK'
  BY <1>1 DEF BeginTx, diskVars, txVars, IInv, TypeOK
<1>5. MetasInv'
  BY <1>2 DEF BeginTx, diskVars, IInv, MetasInv
<1>6. ReadersInv'
  BY DEF BeginTx, IInv, ReadersInv, TypeOK
<1>7. VisibleInv'
  BY <1>2, <1>3 DEF IInv, VisibleInv
<1>8. ProtectInv'
  BY <1>3 DEF BeginTx, IInv, ProtectInv
<1>9. FreelistOK(fl', CurrentMeta') /\ PendingOK(fl', Recoverable', wmeta'.txid)
  BY <1>2 DEF BeginTx, txVars, IInv
<1>10. RecoverInv'
  BY <1>2 DEF BeginTx, diskVars, IInv, RecoverInv
<1>11. WriterInv'
  BY <1>2, <1>3 DEF BeginTx, diskVars, txVars, IInv, WriterInv, Preparing, WriterOK
<1> QED
  BY <1>4, <1>5, <1>6, <1>7, <1>8, <1>9, <1>10, <1>11 DEF IInv

\* A step of a reader that only registers or deregisters it, and forgets at
\* most its own snapshot.
LEMMA ReaderStep ==
  ASSUME IInv, UNCHANGED <<diskVars, txVars, acked>>, TypeOK', ReadersInv',
         Visible' \subseteq Visible,
         fl'.free = fl.free, fl'.cache = fl.cache, fl'.pending = fl.pending, fl'.allocs = fl.allocs
  PROVE  IInv'
<1>1. CurrentMeta' = CurrentMeta /\ Recoverable' = Recoverable
  BY DEF diskVars, CurrentMeta, Recoverable
<1>2. MetasInv'
  BY <1>1 DEF diskVars, IInv, MetasInv
<1>3. VisibleInv'
  BY <1>1 DEF IInv, VisibleInv
<1>4. ProtectInv'
  BY DEF IInv, ProtectInv, Protects
<1>5. Copyall(fl') = Copyall(fl)
  BY DEF Copyall
<1>6. FreelistOK(fl', CurrentMeta')
  BY <1>1, <1>5 DEF IInv, FreelistOK
<1>7. PendingOK(fl', Recoverable', wmeta'.txid)
  BY <1>1 DEF txVars, IInv, PendingOK
<1>8. RecoverInv'
  BY <1>1 DEF diskVars, IInv, RecoverInv
<1>9. WriterInv'
  BY <1>1, <1>5 DEF diskVars, txVars, IInv, WriterInv, Preparing, WriterOK
<1> QED
  BY <1>2, <1>3, <1>4, <1>6, <1>7, <1>8, <1>9 DEF IInv

\* A reader that registers its txid keeps the invariant.
LEMMA RegisterTxStep == ASSUME IInv, NEW r \in Readers, RegisterTx(r) PROVE IInv'
<1>1. PICK m \in rtx[r] : fl' = [fl EXCEPT !.readonlyTXIDs = [fl.readonlyTXIDs EXCEPT ![r] = m.txid]]
  BY DEF RegisterTx, AddReadonlyTXID
<1>2. fl \in FreelistType /\ m \in Meta
  BY DEF IInv, TypeOK
<1>3. m.txid \in Txids
  BY <1>2, MetaFields
<1>4. /\ fl' \in FreelistType
      /\ fl'.free = fl.free /\ fl'.cache = fl.cache /\ fl'.pending = fl.pending /\ fl'.allocs = fl.allocs
      /\ fl'.readonlyTXIDs = [fl.readonlyTXIDs EXCEPT ![r] = m.txid]
  BY <1>1, <1>2, <1>3 DEF FreelistType
<1>5. TypeOK'
  BY <1>4 DEF RegisterTx, diskVars, txVars, IInv, TypeOK
<1>6. ReadersInv'
  BY <1>2, <1>4 DEF RegisterTx, IInv, ReadersInv, FreelistType
<1>7. Visible' \subseteq Visible
  BY DEF RegisterTx, diskVars, Visible, Recoverable
<1> QED
  BY <1>4, <1>5, <1>6, <1>7, ReaderStep DEF RegisterTx

\* A reader that leaves keeps the invariant.
LEMMA RemoveTxStep == ASSUME IInv, NEW r \in Readers, RemoveTx(r) PROVE IInv'
<1>1. fl' = [fl EXCEPT !.readonlyTXIDs = [fl.readonlyTXIDs EXCEPT ![r] = 0]]
  BY DEF RemoveTx, RemoveReadonlyTXID
<1>2. fl \in FreelistType /\ 0 \in Txids
  BY BoundsAssumption DEF IInv, TypeOK, Txids
<1>3. /\ fl' \in FreelistType
      /\ fl'.free = fl.free /\ fl'.cache = fl.cache /\ fl'.pending = fl.pending /\ fl'.allocs = fl.allocs
      /\ fl'.readonlyTXIDs = [fl.readonlyTXIDs EXCEPT ![r] = 0]
  BY <1>1, <1>2 DEF FreelistType
<1>4. TypeOK'
  BY <1>3 DEF RemoveTx, diskVars, txVars, IInv, TypeOK
<1>5. ReadersInv'
  BY <1>2, <1>3 DEF RemoveTx, IInv, TypeOK, ReadersInv, FreelistType
<1>6. Visible' \subseteq Visible
  <2>1. \A q \in Readers : rtx'[q] \subseteq rtx[q]
    BY DEF RemoveTx, IInv, TypeOK
  <2> QED
    BY <2>1 DEF RemoveTx, diskVars, Visible, Recoverable
<1> QED
  BY <1>3, <1>4, <1>5, <1>6, ReaderStep DEF RemoveTx

\* Beginning a write transaction, which releases pending pages, keeps the invariant.
LEMMA BeginRWTxStep == ASSUME IInv, BeginRWTx PROVE IInv'
<1> DEFINE cur == CurrentMeta
<1>1. /\ cur \in Meta /\ cur \in Recoverable /\ cur \in Visible /\ Recoverable \subseteq Visible /\ Visible \subseteq Meta
      /\ fl \in FreelistType
  BY CurrentIsRecoverable DEF IInv, TypeOK
<1>2. Base(fl, cur, Visible, Recoverable, 0)
  BY BaseOfInvariant DEF BeginRWTx, IInv, WriterInv, NilMeta
<1>3. \A m \in Visible : m \in Recoverable \/ m.txid \in OpenTxids(fl)
  <2> SUFFICES ASSUME NEW r \in Readers, NEW m \in rtx[r] PROVE m.txid \in OpenTxids(fl)
    BY DEF Visible
  <2>1. fl.readonlyTXIDs[r] = m.txid
    BY DEF BeginRWTx, IInv, ReadersInv
  <2>2. m \in Visible
    BY DEF Visible
  <2>3. m.txid # 0
    BY <1>1, <2>2, MetaFields DEF IInv, VisibleInv
  <2> QED
    BY <2>1, <2>3 DEF OpenTxids
<1>4. wmeta' = [cur EXCEPT !.txid = cur.txid + 1] /\ fl' = ReleasePendingPages(fl)
  BY DEF BeginRWTx
<1>5. cur.txid + 1 \in Txids /\ 0 \in Txids
  BY <1>1, MetaFields, BoundsAssumption DEF BeginRWTx, Txids
<1>6. wmeta' \in Meta /\ wmeta'.txid = cur.txid + 1 /\ wmeta'.pgid = cur.pgid
      /\ wmeta'.tree = cur.tree /\ wmeta'.freelist = cur.freelist
  BY <1>1, <1>4, <1>5 DEF Meta
<1>7. Base(fl', cur, Visible, Recoverable, wmeta'.txid) /\ Base(fl', cur, Visible, Recoverable, 0)
  BY <1>2, <1>3, <1>4, <1>5, <1>6, ReleaseKeepsBase
<1>8. fl' \in FreelistType /\ fl'.readonlyTXIDs = fl.readonlyTXIDs
  BY <1>1, <1>4, ReleaseFields
<1>9. WriterOK(fl', wmeta', {}, cur, Visible)
  <2>1. Blocks(wmeta') = Blocks(cur) /\ Used(wmeta') = Used(cur)
    BY <1>6 DEF Blocks, Used
  <2>2. WellFormed(cur) /\ \A m \in Visible : Shares(cur, m)
    BY <1>1 DEF IInv, VisibleInv
  <2>3. WellFormed(wmeta')
    BY <1>6, <2>1, <2>2 DEF WellFormed
  <2>4. Used(cur) \cap Copyall(fl') = {}
    <3>1. Protects(fl', cur)
      BY <1>1, <1>7 DEF Base
    <3>2. ASSUME NEW e \in fl'.pending PROVE e.id \notin Used(cur)
      <4>1. e.tx <= cur.txid \/ e.tx = 0
        BY <1>1, <1>7 DEF Base, PendingOK
      <4>2. e.tx \in Nat /\ cur.txid \in Nat
        BY <1>1, <1>8, MetaFields, BoundsAssumption DEF FreelistType, Entry, Txids
      <4> QED
        BY <3>1, <4>1, <4>2 DEF Protects
    <3> QED
      BY <3>1, <3>2, CopyallElement DEF Protects
  <2>5. Span({}) = {}
    BY DEF Span
  <2>6. \A m \in Visible : Shares(wmeta', m)
    BY <2>1, <2>2 DEF Shares
  <2>7. cur.pgid <= wmeta'.pgid
    BY <1>1, <1>6, MetaFields
  <2> QED
    BY <1>6, <2>1, <2>3, <2>4, <2>5, <2>6, <2>7 DEF WriterOK
<1>10. dirty = {}
  BY DEF BeginRWTx, IInv, WriterInv
<1>11. TypeOK'
  BY <1>6, <1>8 DEF BeginRWTx, diskVars, readVars, IInv, TypeOK
<1>12. CurrentMeta' = CurrentMeta /\ Visible' = Visible
  BY SameMetas DEF BeginRWTx, diskVars, readVars
<1>13. WriterInv'
  BY <1>6, <1>9, <1>10, <1>12 DEF BeginRWTx, WriterInv, Preparing
<1>14. \A m \in Recoverable : Used(m) \cap unsynced' = {}
  BY DEF BeginRWTx, diskVars, IInv, RecoverInv
<1> QED
  BY <1>7, <1>8, <1>11, <1>13, <1>14, WriterStep DEF BeginRWTx, diskVars, readVars

\* The part of the invariant that every action of the writer starts from.
LEMMA WriterState ==
  ASSUME IInv
  PROVE  /\ Base(fl, CurrentMeta, Visible, Recoverable, wmeta.txid)
         /\ CurrentMeta \in Meta /\ CurrentMeta \in Visible /\ fl \in FreelistType /\ wmeta \in Meta
         /\ wmeta.txid \in Txids
         /\ \A m \in Recoverable : Used(m) \cap unsynced = {}
         /\ Preparing => WriterOK(fl, wmeta, dirty, CurrentMeta, Visible)
BY BaseOfInvariant, CurrentIsRecoverable, MetaFields DEF IInv, TypeOK, RecoverInv, WriterInv

\* The user's Rollback keeps the invariant.
LEMMA UserRollbackStep == ASSUME IInv, UserRollback PROVE IInv'
<1>1. mem' \in [Pgids -> Txids] /\ unsynced' \subseteq Pgids /\ unsynced' = unsynced
  BY DEF UserRollback, diskVars, IInv, TypeOK
<1> QED
  BY <1>1, WriterState, RollbackStep DEF UserRollback, diskVars, readVars

\* Freeing a page of the tree keeps the invariant.
LEMMA FreePageStep == ASSUME IInv, FreePage PROVE IInv'
<1>1. PICK b \in wmeta.tree :
        IF FreePanics(fl, b) THEN Panic
        ELSE /\ fl' = Free(fl, wmeta.txid, b)
             /\ wmeta' = [wmeta EXCEPT !.tree = wmeta.tree \ {b}]
             /\ UNCHANGED <<wpc, dirty>>
  BY DEF FreePage
<1>2. wpc = "body" /\ Preparing /\ dirty = {} /\ wmeta.freelist = CurrentMeta.freelist
  BY DEF FreePage, Preparing, IInv, WriterInv
<1> DEFINE v == [wmeta EXCEPT !.tree = wmeta.tree \ {b}]
<1>3. /\ v \in Meta /\ v.tree = wmeta.tree \ {b} /\ v.freelist = wmeta.freelist
      /\ v.txid = wmeta.txid /\ v.pgid = wmeta.pgid
  BY WriterState DEF Meta
<1>4. WriterOK(fl, wmeta, dirty, CurrentMeta, Visible)
  BY <1>2, WriterState
<1> HIDE DEF v
<1>5. b \in Blocks(wmeta) \cap Blocks(CurrentMeta)
  BY <1>2, <1>4 DEF WriterOK, Blocks
<1>6. Blocks(v) = Blocks(wmeta) \ {b}
  BY <1>3, <1>4 DEF WriterOK, WellFormed, Blocks
<1>7. /\ ~FreePanics(fl, b)
      /\ Base(Free(fl, wmeta.txid, b), CurrentMeta, Visible, Recoverable, v.txid)
      /\ WriterOK(Free(fl, wmeta.txid, b), v, dirty, CurrentMeta, Visible)
  BY <1>3, <1>4, <1>5, <1>6, WriterState, FreeKeepsWriter
<1>8. fl' = Free(fl, wmeta.txid, b) /\ wmeta' = v /\ UNCHANGED <<wpc, dirty>>
  BY <1>1, <1>7 DEF v
<1>9. b \in Block
  BY WriterState, MetaFields
<1>10. fl' \in FreelistType /\ fl'.readonlyTXIDs = fl.readonlyTXIDs
  BY <1>8, <1>9, WriterState, FreeFields
<1>11. TypeOK'
  BY <1>3, <1>8, <1>10 DEF FreePage, diskVars, readVars, IInv, TypeOK
<1>12. CurrentMeta' = CurrentMeta /\ Visible' = Visible
  BY SameMetas DEF FreePage, diskVars, readVars
<1>13. WriterInv'
  BY <1>2, <1>3, <1>7, <1>8, <1>12 DEF WriterInv, Preparing
<1>14. \A m \in Recoverable : Used(m) \cap unsynced' = {}
  BY WriterState DEF FreePage, diskVars
<1> QED
  BY <1>7, <1>8, <1>10, <1>11, <1>13, <1>14, WriterStep DEF FreePage, diskVars, readVars

\* Entering spill keeps the invariant.
LEMMA StartSpillStep == ASSUME IInv, StartSpill PROVE IInv'
<1>1. TypeOK'
  BY DEF StartSpill, diskVars, readVars, IInv, TypeOK
<1>2. CurrentMeta' = CurrentMeta /\ Visible' = Visible
  BY SameMetas DEF StartSpill, diskVars, readVars
<1>3. WriterInv'
  BY <1>2 DEF StartSpill, IInv, WriterInv, Preparing
<1>4. \A m \in Recoverable : Used(m) \cap unsynced' = {}
  BY WriterState DEF StartSpill, diskVars
<1> QED
  BY <1>1, <1>3, <1>4, WriterState, WriterStep DEF StartSpill, diskVars, readVars

\* Free for at most one block of the writer's tree.
MayFree(f, cur, V, R, w, v, d, S) ==
  /\ w \in Meta /\ v \in Meta /\ v.txid = w.txid /\ v.pgid = w.pgid
  /\ S \subseteq Blocks(w) \cap Blocks(cur) /\ \A x, y \in S : x = y
  /\ Blocks(v) = Blocks(w) \ S /\ v.tree \subseteq w.tree /\ v.freelist \subseteq w.freelist
  /\ Base(f, cur, V, R, w.txid)
  /\ WriterOK(f, w, d, cur, V)

\* Freeing at most one block of the writer's tree or freelist keeps its state.
LEMMA FreeAnyKeepsWriter ==
  ASSUME NEW f, NEW cur, NEW V, NEW R, NEW w, NEW v, NEW d, NEW S, MayFree(f, cur, V, R, w, v, d, S)
  PROVE  /\ ~FreeAnyPanics(f, S)
         /\ FreeAny(f, w.txid, S) \in FreelistType
         /\ FreeAny(f, w.txid, S).readonlyTXIDs = f.readonlyTXIDs
         /\ Prepared(FreeAny(f, w.txid, S), cur, V, R, w, v, d)
<1> USE DEF MayFree, Prepared
<1>1. f \in FreelistType /\ w.txid \in Txids
  BY DEF Base
<1>2. CASE S = {}
  <2>1. FreeAny(f, w.txid, S) = f /\ ~FreeAnyPanics(f, S)
    BY <1>2 DEF FreeAny, FreeAnyPanics
  <2>2. Blocks(v) = Blocks(w) /\ Used(v) = Used(w)
    BY <1>2 DEF Used
  <2>3. WellFormed(v)
    BY <2>2 DEF WriterOK, WellFormed
  <2>4. WriterOK(f, v, d, cur, V)
    BY <2>2, <2>3 DEF WriterOK, Shares
  <2> QED
    BY <1>1, <2>1, <2>4
<1>3. CASE S # {}
  <2>1. PICK b \in S : b = CHOOSE x \in S : TRUE
    BY <1>3
  <2>2. S = {b} /\ FreeAny(f, w.txid, S) = Free(f, w.txid, b)
    BY <1>3, <2>1 DEF FreeAny
  <2>3. b \in Blocks(w) \cap Blocks(cur) /\ Blocks(v) = Blocks(w) \ {b} /\ b \in Block
    BY <2>2, MetaFields
  <2>4. /\ ~FreePanics(f, b)
        /\ Base(Free(f, w.txid, b), cur, V, R, v.txid)
        /\ WriterOK(Free(f, w.txid, b), v, d, cur, V)
    BY <2>3, FreeKeepsWriter
  <2>5. Free(f, w.txid, b) \in FreelistType /\ Free(f, w.txid, b).readonlyTXIDs = f.readonlyTXIDs
    BY <1>1, <2>3, FreeFields
  <2>6. ~FreeAnyPanics(f, S)
    BY <2>2, <2>4 DEF FreeAnyPanics
  <2> QED
    BY <2>2, <2>4, <2>5, <2>6
<1> QED
  BY <1>2, <1>3

\* Writing a node to new pages keeps the invariant, whether or not allocation fails.
LEMMA SpillNodeStep == ASSUME IInv, SpillNode PROVE IInv'
<1>1. PICK old \in {{}} \cup {{b} : b \in wmeta.tree \ dirty}, n \in 1 .. MaxRun :
        LET f == FreeAny(fl, wmeta.txid, old)
        IN  \/ FreeAnyPanics(fl, old) /\ Panic
            \/ /\ ~FreeAnyPanics(fl, old)
               /\ Cardinality(wmeta.tree \ old) < MaxNodes
               /\ \E a \in Allocations(f, wmeta, n) :
                    /\ fl' = a.fl
                    /\ wmeta' = [a.meta EXCEPT !.tree = (a.meta.tree \ old) \cup {a.block}]
                    /\ dirty' = dirty \cup {a.block}
               /\ UNCHANGED wpc
            \/ ~FreeAnyPanics(fl, old) /\ AllocationFails(f, n) /\ RollbackFrom(f)
  BY DEF SpillNode
<1>2. /\ wpc = "spill" /\ Preparing /\ wmeta.freelist = CurrentMeta.freelist
      /\ UNCHANGED <<diskVars, readVars, acked>>
  BY DEF SpillNode, Preparing, IInv, WriterInv
<1>3. n \in Nat \ {0}
  BY ConstantsAssumption
<1>4. WriterOK(fl, wmeta, dirty, CurrentMeta, Visible)
  BY <1>2, WriterState
<1>5. old \subseteq wmeta.tree \ dirty /\ \A x, y \in old : x = y
  OBVIOUS
<1> DEFINE f == FreeAny(fl, wmeta.txid, old)
           v == [wmeta EXCEPT !.tree = wmeta.tree \ old]
<1>6. /\ v \in Meta /\ v.tree = wmeta.tree \ old /\ v.freelist = wmeta.freelist
      /\ v.txid = wmeta.txid /\ v.pgid = wmeta.pgid
  BY WriterState DEF Meta
<1> HIDE DEF f, v
<1>7. old \subseteq Blocks(wmeta) \cap Blocks(CurrentMeta)
  BY <1>4, <1>5 DEF WriterOK, Blocks
<1>8. Blocks(v) = Blocks(wmeta) \ old
  BY <1>4, <1>5, <1>6 DEF WriterOK, WellFormed, Blocks
<1>9. /\ ~FreeAnyPanics(fl, old)
      /\ f \in FreelistType /\ f.readonlyTXIDs = fl.readonlyTXIDs
      /\ Prepared(f, CurrentMeta, Visible, Recoverable, wmeta, v, dirty)
  <2>1. wmeta \in Meta /\ Base(fl, CurrentMeta, Visible, Recoverable, wmeta.txid)
    BY WriterState
  <2>2. MayFree(fl, CurrentMeta, Visible, Recoverable, wmeta, v, dirty, old)
    BY <1>4, <1>5, <1>6, <1>7, <1>8, <2>1 DEF MayFree
  <2> QED
    BY <2>2, FreeAnyKeepsWriter DEF f
<1>10. CASE \E a \in Allocations(f, wmeta, n) :
              /\ fl' = a.fl
              /\ wmeta' = [a.meta EXCEPT !.tree = (a.meta.tree \ old) \cup {a.block}]
              /\ dirty' = dirty \cup {a.block}
              /\ UNCHANGED wpc
  <2>1. PICK a \in Allocations(f, wmeta, n) :
              /\ fl' = a.fl
              /\ wmeta' = [a.meta EXCEPT !.tree = (a.meta.tree \ old) \cup {a.block}]
              /\ dirty' = dirty \cup {a.block}
              /\ UNCHANGED wpc
    BY <1>10
  <2>2. /\ a.block \in Block /\ a.meta = [wmeta EXCEPT !.pgid = a.meta.pgid]
        /\ a.meta.pgid \in 2 .. (MaxPgid + 1) /\ v.pgid <= a.meta.pgid
        /\ a.fl \in FreelistType /\ a.fl.readonlyTXIDs = f.readonlyTXIDs
        /\ Base(a.fl, CurrentMeta, Visible, Recoverable, wmeta.txid)
        /\ Copyall(a.fl) \subseteq Copyall(f) /\ Ids(a.block) \cap Copyall(a.fl) = {}
        /\ Ids(a.block) \subseteq 2 .. (a.meta.pgid - 1)
        /\ Ids(a.block) \cap Used(v) = {}
        /\ \A m \in Visible : Ids(a.block) \cap Used(m) = {}
    BY <1>3, <1>9, AllocationsFresh
  <2>3. wmeta \in Meta /\ CurrentMeta \in Meta
    BY WriterState
  <2>4. wmeta' = [wmeta EXCEPT !.pgid = a.meta.pgid, !.tree = v.tree \cup {a.block}]
    <3>1. a.meta.tree = wmeta.tree
      BY <2>2, <2>3 DEF Meta
    <3> QED
      BY <1>6, <2>1, <2>2, <2>3, <3>1 DEF Meta
  <2>5. /\ wmeta' \in Meta /\ wmeta'.txid = v.txid /\ wmeta'.pgid = a.meta.pgid
        /\ wmeta'.tree = v.tree \cup {a.block} /\ wmeta'.freelist = v.freelist
    BY <1>6, <2>2, <2>3, <2>4 DEF Meta
  <2>6. Blocks(wmeta') = Blocks(v) \cup {a.block}
    BY <2>5 DEF Blocks
  <2>7. a.block \notin Blocks(v)
    <3>1. a.block.id \in Ids(a.block)
      BY <2>2, IdsOfBlock
    <3> QED
      BY <2>2, <3>1, UsedElement
  <2>8. WriterOK(f, v, dirty, CurrentMeta, Visible)
    BY <1>9 DEF Prepared
  <2>9. wmeta'.tree \cap wmeta'.freelist = {} /\ \A x, y \in wmeta'.freelist : x = y
    BY <2>5, <2>7, <2>8 DEF WriterOK, WellFormed, Blocks
  <2>10. WriterOK(a.fl, wmeta', dirty \cup {a.block}, CurrentMeta, Visible)
    BY <1>6, <2>2, <2>3, <2>5, <2>6, <2>8, <2>9, AddKeepsWriter
  <2>11. TypeOK'
    BY <1>2, <2>1, <2>2, <2>5 DEF diskVars, readVars, IInv, TypeOK
  <2>12. CurrentMeta' = CurrentMeta /\ Visible' = Visible
    BY <1>2, SameMetas DEF diskVars, readVars
  <2>13. WriterInv'
    BY <1>2, <1>6, <2>1, <2>5, <2>10, <2>12 DEF WriterInv, Preparing
  <2>14. \A m \in Recoverable : Used(m) \cap unsynced' = {}
    BY <1>2, WriterState DEF diskVars
  <2>15. Base(fl', CurrentMeta, Visible, Recoverable, wmeta'.txid)
    BY <1>6, <2>1, <2>2, <2>5
  <2>16. fl'.readonlyTXIDs = fl.readonlyTXIDs
    BY <1>9, <2>1, <2>2
  <2> QED
    BY <1>2, <2>11, <2>13, <2>14, <2>15, <2>16, WriterStep DEF diskVars, readVars
<1>11. CASE RollbackFrom(f)
  <2>1. mem' \in [Pgids -> Txids] /\ unsynced' \subseteq Pgids /\ \A m \in Recoverable : Used(m) \cap unsynced' = {}
    BY <1>2, WriterState DEF diskVars, IInv, TypeOK
  <2>2. Base(f, CurrentMeta, Visible, Recoverable, wmeta.txid)
    BY <1>9 DEF Prepared
  <2> QED
    BY <1>2, <1>9, <1>11, <2>1, <2>2, RollbackStep DEF diskVars, readVars
<1> QED
  BY <1>1, <1>9, <1>10, <1>11 DEF f

\* The estimate for the freelist is at least one page.
LEMMA EstimatedPagesPositive ==
  ASSUME NEW f \in FreelistType, NEW cur, FreelistOK(f, cur)
  PROVE  EstimatedPages(f) \in Nat \ {0}
<1>1. IsFiniteSet(Pgids)
  BY FS_Interval, BoundsAssumption DEF Pgids
<1>2. Cardinality(f.free) \in Nat
  BY <1>1, FS_Subset, FS_CardinalityType DEF FreelistType
<1> DEFINE idOf == [e \in f.pending |-> e.id]
<1>3. idOf \in Injection(f.pending, Pgids)
  <2>1. idOf \in [f.pending -> Pgids]
    BY DEF FreelistType, Entry
  <2>2. \A e, g \in f.pending : idOf[e] = idOf[g] => e = g
    BY DEF FreelistOK
  <2> HIDE DEF idOf
  <2> QED
    BY <2>1, <2>2 DEF Injection, IsInjective
<1> HIDE DEF idOf
<1>4. IsFiniteSet(f.pending)
  BY <1>1, <1>3, FS_Injection
<1>5. Cardinality(f.pending) \in Nat
  BY <1>4, FS_CardinalityType
<1>6. Words(Count(f)) \in Nat
  BY <1>2, <1>5, ConstantsAssumption DEF Count, Words
<1>7. IdsPerPage \in Nat \ {0}
  BY ConstantsAssumption
<1>8. Words(Count(f)) \div IdsPerPage \in Nat
  BY <1>6, <1>7
<1> QED
  BY <1>8 DEF EstimatedPages

\* Replacing the freelist page keeps the invariant.
LEMMA CommitFreelistStep == ASSUME IInv, CommitFreelist PROVE IInv'
<1> DEFINE old == wmeta.freelist
           f == FreeAny(fl, wmeta.txid, old)
           n == EstimatedPages(f)
           v == [wmeta EXCEPT !.freelist = {}]
<1>1. \/ FreeAnyPanics(fl, old) /\ Panic
      \/ /\ fl' = f /\ wmeta' = [wmeta EXCEPT !.freelist = {}, !.ids = {}]
         /\ wpc' = "write" /\ UNCHANGED dirty
      \/ \E a \in Allocations(f, wmeta, n) :
           /\ fl' = a.fl
           /\ wmeta' = [a.meta EXCEPT !.freelist = {a.block}, !.ids = Copyall(a.fl)]
           /\ dirty' = dirty \cup {a.block}
           /\ wpc' = "write"
      \/ \E a \in Allocations(f, wmeta, n) : RollbackFrom(a.fl)
      \/ RollbackFrom(f)
  BY DEF CommitFreelist
<1>2. /\ wpc = "spill" /\ Preparing /\ wmeta.freelist = CurrentMeta.freelist
      /\ UNCHANGED <<diskVars, readVars, acked>>
  BY DEF CommitFreelist, Preparing, IInv, WriterInv
<1>3. WriterOK(fl, wmeta, dirty, CurrentMeta, Visible)
  BY <1>2, WriterState
<1>4. wmeta \in Meta /\ Base(fl, CurrentMeta, Visible, Recoverable, wmeta.txid)
  BY WriterState
<1>5. /\ v \in Meta /\ v.tree = wmeta.tree /\ v.freelist = {}
      /\ v.txid = wmeta.txid /\ v.pgid = wmeta.pgid
  BY <1>4 DEF Meta
<1>6. old \subseteq Blocks(wmeta) \cap Blocks(CurrentMeta) /\ \A x, y \in old : x = y
  BY <1>2, <1>3 DEF WriterOK, WellFormed, Blocks
<1> HIDE DEF v
<1>7. Blocks(v) = Blocks(wmeta) \ old
  BY <1>3, <1>5 DEF WriterOK, WellFormed, Blocks
<1> HIDE DEF old
<1> HIDE DEF f, n
<1>8. MayFree(fl, CurrentMeta, Visible, Recoverable, wmeta, v, dirty, old)
  BY <1>3, <1>4, <1>5, <1>6, <1>7 DEF MayFree
<1>9. /\ ~FreeAnyPanics(fl, old)
      /\ f \in FreelistType /\ f.readonlyTXIDs = fl.readonlyTXIDs
      /\ Prepared(f, CurrentMeta, Visible, Recoverable, wmeta, v, dirty)
      /\ Base(f, CurrentMeta, Visible, Recoverable, wmeta.txid)
      /\ WriterOK(f, v, dirty, CurrentMeta, Visible)
  BY <1>8, FreeAnyKeepsWriter DEF f, Prepared
<1>10. n \in Nat \ {0}
  <2>1. FreelistOK(f, CurrentMeta)
    BY <1>9 DEF Base
  <2> QED
    BY <1>9, <2>1, EstimatedPagesPositive DEF n
<1>11. CurrentMeta' = CurrentMeta /\ Visible' = Visible
  BY <1>2, SameMetas DEF diskVars, readVars
<1>12. /\ mem' \in [Pgids -> Txids] /\ unsynced' \subseteq Pgids
       /\ \A m \in Recoverable : Used(m) \cap unsynced' = {}
  BY <1>2, WriterState DEF diskVars, IInv, TypeOK
<1>13. ASSUME fl' = f, wmeta' = [wmeta EXCEPT !.freelist = {}, !.ids = {}], wpc' = "write", UNCHANGED dirty
       PROVE  IInv'
  <2>1. /\ wmeta' \in Meta /\ wmeta'.txid = v.txid /\ wmeta'.pgid = v.pgid
        /\ wmeta'.tree = v.tree /\ wmeta'.freelist = v.freelist /\ wmeta'.ids = {}
    BY <1>4, <1>5, <1>13 DEF Meta
  <2>2. Blocks(wmeta') = Blocks(v) /\ Used(wmeta') = Used(v)
    BY <2>1 DEF Blocks, Used
  <2>3. WriterOK(f, wmeta', dirty, CurrentMeta, Visible)
    BY <1>9, <2>1, <2>2 DEF WriterOK, WellFormed, Shares
  <2>4. TypeOK'
    BY <1>2, <1>9, <1>13, <2>1 DEF diskVars, readVars, IInv, TypeOK
  <2>5. ListOK(wmeta')
    BY <2>1 DEF ListOK
  <2>6. WriterInv'
    BY <1>11, <1>13, <2>3, <2>5 DEF WriterInv, Preparing
  <2>7. Base(fl', CurrentMeta, Visible, Recoverable, wmeta'.txid)
    BY <1>5, <1>9, <1>13, <2>1
  <2> QED
    BY <1>2, <1>9, <1>12, <1>13, <2>4, <2>6, <2>7, WriterStep DEF diskVars, readVars
<1>14. ASSUME NEW a \in Allocations(f, wmeta, n)
       PROVE  /\ a.fl \in FreelistType /\ a.fl.readonlyTXIDs = fl.readonlyTXIDs
              /\ a.block \in Block /\ a.meta.pgid \in 2 .. (MaxPgid + 1) /\ v.pgid <= a.meta.pgid
              /\ a.meta = [wmeta EXCEPT !.pgid = a.meta.pgid]
              /\ Base(a.fl, CurrentMeta, Visible, Recoverable, wmeta.txid)
              /\ Copyall(a.fl) \subseteq Copyall(f) /\ Ids(a.block) \cap Copyall(a.fl) = {}
              /\ Ids(a.block) \subseteq 2 .. (a.meta.pgid - 1)
              /\ Ids(a.block) \cap Used(v) = {}
              /\ \A m \in Visible : Ids(a.block) \cap Used(m) = {}
  BY <1>9, <1>10, AllocationsFresh
<1>15. ASSUME NEW a \in Allocations(f, wmeta, n),
              fl' = a.fl,
              wmeta' = [a.meta EXCEPT !.freelist = {a.block}, !.ids = Copyall(a.fl)],
              dirty' = dirty \cup {a.block}, wpc' = "write"
       PROVE  IInv'
  <2>1. Copyall(a.fl) \subseteq Pgids
    <3>1. a.fl \in FreelistType
      BY <1>14
    <3> QED
      BY <3>1 DEF FreelistType, Copyall, EntryIds, Entry
  <2>2. wmeta' = [wmeta EXCEPT !.pgid = a.meta.pgid, !.freelist = {a.block}, !.ids = Copyall(a.fl)]
    BY <1>4, <1>14, <1>15 DEF Meta
  <2>3. /\ wmeta' \in Meta /\ wmeta'.txid = v.txid /\ wmeta'.pgid = a.meta.pgid
        /\ wmeta'.tree = v.tree /\ wmeta'.freelist = {a.block} /\ wmeta'.ids = Copyall(a.fl)
    BY <1>4, <1>5, <1>14, <2>1, <2>2 DEF Meta
  <2>4. Blocks(wmeta') = Blocks(v) \cup {a.block}
    BY <1>5, <2>3 DEF Blocks
  <2>5. a.block \notin Blocks(v)
    <3>1. a.block.id \in Ids(a.block)
      BY <1>14, IdsOfBlock
    <3> QED
      BY <1>14, <3>1, UsedElement
  <2>6. wmeta'.tree \cap wmeta'.freelist = {} /\ \A x, y \in wmeta'.freelist : x = y
    BY <2>3, <2>5 DEF Blocks
  <2>7. CurrentMeta \in Meta
    BY WriterState
  <2>8. WriterOK(a.fl, wmeta', dirty \cup {a.block}, CurrentMeta, Visible)
    BY <1>5, <1>9, <1>14, <2>3, <2>4, <2>6, <2>7, AddKeepsWriter
  <2>9. TypeOK'
    BY <1>2, <1>14, <1>15, <2>3 DEF diskVars, readVars, IInv, TypeOK
  <2>10. ListOK(wmeta')
    <3>1. Used(wmeta') \cap Copyall(a.fl) = {}
      BY <2>8 DEF WriterOK
    <3>2. Copyall(a.fl) \subseteq 2 .. (CurrentMeta.pgid - 1)
      BY <1>14 DEF Base, FreelistOK
    <3>3. CurrentMeta.pgid <= wmeta'.pgid /\ CurrentMeta.pgid \in Nat /\ wmeta'.pgid \in Nat
      BY <2>3, <2>7, <2>8, MetaFields DEF WriterOK
    <3>4. Copyall(a.fl) \subseteq 2 .. (wmeta'.pgid - 1)
      BY <3>2, <3>3
    <3> QED
      BY <2>3, <3>1, <3>4 DEF ListOK
  <2>11. WriterInv'
    BY <1>11, <1>15, <2>8, <2>10 DEF WriterInv, Preparing
  <2>12. Base(fl', CurrentMeta, Visible, Recoverable, wmeta'.txid)
    BY <1>5, <1>14, <1>15, <2>3
  <2> QED
    BY <1>2, <1>12, <1>14, <1>15, <2>9, <2>11, <2>12, WriterStep DEF diskVars, readVars
<1>16. ASSUME NEW a \in Allocations(f, wmeta, n), RollbackFrom(a.fl) PROVE IInv'
  BY <1>2, <1>12, <1>14, <1>16, RollbackStep DEF diskVars, readVars
<1>17. ASSUME RollbackFrom(f) PROVE IInv'
  BY <1>2, <1>9, <1>12, <1>17, RollbackStep DEF diskVars, readVars
<1> QED
  BY <1>1, <1>9, <1>13, <1>15, <1>16, <1>17

\* Writing the dirty pages, or some of them, keeps the invariant.
LEMMA WriteDataStep == ASSUME IInv, WriteData PROVE IInv'
<1>1. PICK blocks \in SUBSET dirty :
        /\ Written(blocks)
        /\ \/ wpc' = "sync" /\ UNCHANGED <<fl, wmeta, dirty>>
           \/ RollbackFrom(fl)
  <2>1. CASE Written(dirty) /\ wpc' = "sync" /\ UNCHANGED <<fl, wmeta, dirty>>
    BY <2>1
  <2>2. CASE /\ \E b \in dirty : Written({d \in dirty : d.id <= b.id})
             /\ RollbackFrom(fl)
    <3>1. PICK b \in dirty : Written({d \in dirty : d.id <= b.id})
      BY <2>2
    <3>2. {d \in dirty : d.id <= b.id} \in SUBSET dirty
      OBVIOUS
    <3> QED
      BY <2>2, <3>1, <3>2
  <2> QED
    BY <2>1, <2>2 DEF WriteData
<1>2. /\ wpc = "write" /\ Preparing /\ ListOK(wmeta)
      /\ UNCHANGED <<meta, disk, readVars, acked>>
  BY DEF WriteData, Preparing, IInv, WriterInv
<1>3. WriterOK(fl, wmeta, dirty, CurrentMeta, Visible)
  BY <1>2, WriterState
<1>4. Span(blocks) \subseteq Span(dirty) /\ Span(blocks) \subseteq Pgids
  <2>1. blocks \subseteq dirty /\ dirty \subseteq Block
    BY DEF IInv, TypeOK
  <2> QED
    BY <2>1, SpanElement, IdsOfBlock
<1>5. mem' \in [Pgids -> Txids] /\ unsynced' \subseteq Pgids
  BY <1>1, <1>4, WriterState DEF Written, IInv, TypeOK
<1>6. \A m \in Recoverable : Used(m) \cap unsynced' = {}
  <2>1. \A m \in Recoverable : m \in Visible /\ Used(m) \cap unsynced = {}
    BY WriterState DEF Base
  <2>2. \A m \in Visible : Used(m) \cap Span(dirty) = {}
    BY <1>3 DEF WriterOK
  <2> QED
    BY <1>1, <1>4, <2>1, <2>2 DEF Written
<1>7. CASE wpc' = "sync" /\ UNCHANGED <<fl, wmeta, dirty>>
  <2>1. TypeOK'
    BY <1>2, <1>5, <1>7 DEF readVars, IInv, TypeOK
  <2>2. CurrentMeta' = CurrentMeta /\ Visible' = Visible
    BY <1>2, SameMetas DEF readVars
  <2>3. WriterInv'
    BY <1>2, <1>3, <1>7, <2>2 DEF WriterInv, Preparing
  <2> QED
    BY <1>2, <1>6, <1>7, <2>1, <2>3, WriterState, WriterStep DEF readVars
<1>8. CASE RollbackFrom(fl)
  BY <1>2, <1>5, <1>6, <1>8, WriterState, RollbackStep DEF readVars
<1> QED
  BY <1>1, <1>7, <1>8

\* The fdatasync of the dirty pages keeps the invariant.
LEMMA SyncDataStep == ASSUME IInv, SyncData PROVE IInv'
<1>1. /\ wpc = "sync" /\ Preparing /\ ListOK(wmeta)
      /\ UNCHANGED <<meta, disk, mem, readVars, acked>>
  BY DEF SyncData, Preparing, IInv, WriterInv
<1>2. WriterOK(fl, wmeta, dirty, CurrentMeta, Visible)
  BY <1>1, WriterState
<1>3. unsynced' \subseteq unsynced
  BY DEF SyncData
<1>4. /\ mem' \in [Pgids -> Txids] /\ unsynced' \subseteq Pgids
      /\ \A m \in Recoverable : Used(m) \cap unsynced' = {}
  BY <1>1, <1>3, WriterState DEF IInv, TypeOK
<1>5. CASE unsynced' = unsynced \ Span(dirty) /\ wpc' = "meta" /\ UNCHANGED <<fl, wmeta, dirty>>
  <2>1. TypeOK'
    BY <1>1, <1>4, <1>5 DEF readVars, IInv, TypeOK
  <2>2. CurrentMeta' = CurrentMeta /\ Visible' = Visible
    BY <1>1, SameMetas DEF readVars
  <2>3. Span(dirty') \cap unsynced' = {}
    BY <1>5
  <2>4. WriterInv'
    BY <1>1, <1>2, <1>5, <2>2, <2>3 DEF WriterInv, Preparing
  <2> QED
    BY <1>1, <1>4, <1>5, <2>1, <2>4, WriterState, WriterStep DEF readVars
<1>6. CASE RollbackFrom(fl)
  BY <1>1, <1>4, <1>6, WriterState, RollbackStep DEF readVars
<1> QED
  BY <1>5, <1>6 DEF SyncData

\* Writing the meta page keeps the invariant.
LEMMA WriteMetaStep == ASSUME IInv, WriteMeta PROVE IInv'
<1> DEFINE s == Slot(wmeta.txid)
<1>1. /\ wpc = "meta" /\ Preparing /\ ListOK(wmeta) /\ Span(dirty) \cap unsynced = {}
      /\ UNCHANGED <<mem, unsynced, readVars, acked>>
  BY DEF WriteMeta, Preparing, IInv, WriterInv
<1>2. WriterOK(fl, wmeta, dirty, CurrentMeta, Visible)
  BY <1>1, WriterState
<1>3. /\ wmeta \in Meta /\ CurrentMeta \in Meta /\ CurrentMeta \in Visible /\ CurrentMeta \in Recoverable
      /\ Recoverable \subseteq Visible /\ Visible \subseteq Meta /\ fl \in FreelistType
  BY WriterState DEF Base
<1>4. wmeta.txid \in Nat /\ CurrentMeta.txid \in Nat /\ wmeta.txid = CurrentMeta.txid + 1
  BY <1>2, <1>3, MetaFields DEF WriterOK
<1>5. s \in Slots /\ Slots = {0, 1}
  BY <1>4 DEF Slots, Slot
<1> HIDE DEF s
<1>6. ASSUME meta' = [meta EXCEPT ![s] = wmeta], disk' = [disk EXCEPT ![s] = disk[s] \cup {wmeta}],
             wpc' = "syncMeta", UNCHANGED <<fl, wmeta, dirty>>
      PROVE  IInv'
  <2>1. \A t \in Slots : \A m \in disk[t] : m \in Meta /\ m.txid \in Nat /\ m.txid < wmeta.txid
    <3> SUFFICES ASSUME NEW t \in Slots, NEW m \in disk[t]
                 PROVE  m \in Meta /\ m.txid \in Nat /\ m.txid < wmeta.txid
      OBVIOUS
    <3>1. m \in Meta /\ m.txid <= CurrentMeta.txid
      BY DEF IInv, TypeOK, MetasInv
    <3>2. m.txid \in Nat
      BY <3>1, MetaFields
    <3> QED
      BY <1>4, <3>1, <3>2
  <2>2. meta \in [Slots -> Meta] /\ disk \in [Slots -> SUBSET Meta] /\ \A t \in Slots : meta[t] \in disk[t]
    BY DEF IInv, TypeOK, MetasInv
  <2>3. /\ meta'[s] = wmeta /\ disk'[s] = disk[s] \cup {wmeta}
        /\ \A t \in Slots : t # s => meta'[t] = meta[t] /\ disk'[t] = disk[t]
    BY <1>5, <1>6, <2>2
  <2>4. CurrentMeta' = wmeta
    <3>1. CASE s = 0
      <4>1. meta'[0] = wmeta /\ meta'[1] = meta[1] /\ meta[1].txid < wmeta.txid /\ meta[1].txid \in Nat
        BY <1>5, <2>1, <2>2, <2>3, <3>1
      <4> QED
        BY <1>4, <4>1 DEF CurrentMeta, Newer
    <3>2. CASE s = 1
      <4>1. meta'[1] = wmeta /\ meta'[0] = meta[0] /\ meta[0].txid < wmeta.txid /\ meta[0].txid \in Nat
        BY <1>5, <2>1, <2>2, <2>3, <3>2
      <4> QED
        BY <1>4, <4>1 DEF CurrentMeta, Newer
    <3> QED
      BY <1>5, <3>1, <3>2
  <2>5. Recoverable' \subseteq Recoverable \cup {wmeta}
    <3> SUFFICES ASSUME NEW m0 \in disk'[0], NEW m1 \in disk'[1]
                 PROVE  Newer(m0, m1) \in Recoverable \cup {wmeta}
      BY DEF Recoverable
    <3>1. CASE m0 \in disk[0] /\ m1 \in disk[1]
      BY <3>1 DEF Recoverable
    <3>2. CASE m0 = wmeta /\ m1 \in disk[1]
      <4>1. m1.txid < wmeta.txid /\ m1.txid \in Nat
        BY <1>5, <2>1, <3>2
      <4> QED
        BY <1>4, <3>2, <4>1 DEF Newer
    <3>3. CASE m1 = wmeta /\ m0 \in disk[0]
      <4>1. m0.txid < wmeta.txid /\ m0.txid \in Nat
        BY <1>5, <2>1, <3>3
      <4> QED
        BY <1>4, <3>3, <4>1 DEF Newer
    <3>4. \/ m0 \in disk[0] /\ m1 \in disk[1]
          \/ m0 = wmeta /\ m1 \in disk[1]
          \/ m1 = wmeta /\ m0 \in disk[0]
      BY <1>5, <2>3
    <3> QED
      BY <3>1, <3>2, <3>3, <3>4
  <2>6. Visible' \subseteq Visible \cup {wmeta}
    BY <1>1, <2>5 DEF Visible, readVars
  <2>7. CurrentMeta.pgid \in Nat /\ wmeta.pgid \in Nat /\ CurrentMeta.pgid <= wmeta.pgid
    BY <1>2, <1>3, MetaFields DEF WriterOK
  <2>8. TypeOK'
    BY <1>1, <1>3, <1>6 DEF readVars, IInv, TypeOK
  <2>9. MetasInv'
    <3>1. \A t \in Slots : meta'[t] \in disk'[t]
      BY <2>2, <2>3
    <3>2. \A t \in Slots : \A m \in disk'[t] : m.txid <= wmeta.txid
      BY <1>4, <2>1, <2>3
    <3> QED
      BY <2>4, <3>1, <3>2 DEF MetasInv
  <2>10. ReadersInv'
    BY <1>1, <1>6 DEF readVars, IInv, ReadersInv
  <2>11. VisibleInv'
    <3> SUFFICES ASSUME NEW m \in Visible \cup {wmeta}
                 PROVE  /\ 1 <= m.txid /\ m.txid <= wmeta.txid /\ m.pgid <= wmeta.pgid
                        /\ WellFormed(m) /\ Shares(wmeta, m)
      BY <2>4, <2>6 DEF VisibleInv
    <3>1. CASE m = wmeta
      <4>1. 1 <= wmeta.txid
        BY <1>4
      <4> QED
        BY <1>2, <1>4, <2>7, <3>1, <4>1 DEF WriterOK, Shares
    <3>2. CASE m \in Visible
      <4>1. /\ 1 <= m.txid /\ m.txid <= CurrentMeta.txid /\ m.pgid <= CurrentMeta.pgid
            /\ WellFormed(m) /\ Shares(wmeta, m)
        BY <1>2, <3>2 DEF IInv, VisibleInv, WriterOK
      <4>2. m.txid \in Nat /\ m.pgid \in Nat
        BY <1>3, <3>2, MetaFields
      <4> QED
        BY <1>4, <2>7, <4>1, <4>2
    <3> QED
      BY <3>1, <3>2
  <2>12. ProtectInv'
    <3>1. \A m \in Visible : Protects(fl, m)
      BY DEF IInv, ProtectInv
    <3>2. Protects(fl, wmeta)
      <4>1. Used(wmeta) \cap fl.free = {} /\ \A e \in fl.pending : e.id \notin Used(wmeta)
        BY <1>2, CopyallElement DEF WriterOK
      <4>2. \A p \in Used(wmeta) : fl.allocs[p] <= wmeta.txid
        BY <1>3, <1>4, MetaFields DEF IInv, FreelistOK
      <4> QED
        BY <4>1, <4>2 DEF Protects
    <3> QED
      BY <1>6, <2>6, <3>1, <3>2 DEF ProtectInv
  <2>13. FreelistOK(fl', CurrentMeta')
    <3>1. FreelistOK(fl, CurrentMeta)
      BY DEF IInv
    <3>2. Copyall(fl) \subseteq 2 .. (wmeta.pgid - 1)
      BY <2>7, <3>1 DEF FreelistOK
    <3>3. \A p \in Pgids : fl.allocs[p] <= wmeta.txid + 1
      <4> SUFFICES ASSUME NEW p \in Pgids PROVE fl.allocs[p] <= wmeta.txid + 1
        OBVIOUS
      <4>1. fl.allocs[p] \in Nat
        BY <1>3, BoundsAssumption DEF FreelistType, Txids
      <4>2. fl.allocs[p] <= CurrentMeta.txid + 1
        BY <3>1 DEF FreelistOK
      <4> QED
        BY <1>4, <4>1, <4>2
    <3> QED
      BY <1>6, <2>4, <3>1, <3>2, <3>3 DEF FreelistOK
  <2>14. PendingOK(fl', Recoverable', wmeta'.txid)
    <3> SUFFICES ASSUME NEW e \in fl.pending, NEW m \in Recoverable \cup {wmeta}
                 PROVE  e.tx <= m.txid \/ e.tx = wmeta.txid
      BY <1>6, <2>5 DEF PendingOK
    <3>1. \A k \in Recoverable : e.tx <= k.txid \/ e.tx = wmeta.txid
      BY DEF IInv, PendingOK
    <3>2. e.tx \in Nat
      BY <1>3, BoundsAssumption DEF FreelistType, Entry, Txids
    <3>3. e.tx <= CurrentMeta.txid \/ e.tx = wmeta.txid
      BY <1>3, <3>1
    <3> QED
      BY <1>4, <3>1, <3>2, <3>3
  <2>15. RecoverInv'
    <3>1. Used(wmeta) \cap unsynced = {}
      <4> SUFFICES ASSUME NEW b \in Blocks(wmeta), NEW p \in Ids(b) PROVE p \notin unsynced
        BY UsedElement
      <4>1. CASE b \in Blocks(CurrentMeta)
        <5>1. p \in Used(CurrentMeta)
          BY <4>1, UsedElement
        <5> QED
          BY <1>3, <5>1, WriterState
      <4>2. CASE b \in dirty
        BY <1>1, <4>2, SpanElement
      <4> QED
        BY <1>2, <4>1, <4>2 DEF WriterOK
    <3>2. acked <= wmeta.txid
      <4>1. acked <= CurrentMeta.txid /\ acked \in Nat
        BY <1>3, BoundsAssumption DEF IInv, TypeOK, RecoverInv, Txids
      <4> QED
        BY <1>4, <4>1
    <3>3. \A m \in Recoverable : Used(m) \cap unsynced = {} /\ ListOK(m) /\ acked <= m.txid
      BY DEF IInv, RecoverInv
    <3> QED
      BY <1>1, <2>5, <3>1, <3>2, <3>3 DEF RecoverInv
  <2>16. WriterInv'
    <3>1. \A t \in Slots : t # s => \A m \in disk'[t] : m.txid < wmeta.txid
      BY <2>1, <2>3
    <3> QED
      BY <1>6, <2>4, <3>1 DEF WriterInv, Preparing, s
  <2> QED
    BY <2>8, <2>9, <2>10, <2>11, <2>12, <2>13, <2>14, <2>15, <2>16 DEF IInv
<1>7. ASSUME UNCHANGED <<meta, disk>>, RollbackFrom(fl) PROVE IInv'
  <2>1. /\ mem' \in [Pgids -> Txids] /\ unsynced' \subseteq Pgids
        /\ \A m \in Recoverable : Used(m) \cap unsynced' = {}
    BY <1>1, WriterState DEF IInv, TypeOK
  <2> QED
    BY <1>1, <1>7, <2>1, WriterState, RollbackStep DEF readVars
<1> QED
  BY <1>6, <1>7 DEF WriteMeta, s

\* The fdatasync of the meta page keeps the invariant.
LEMMA SyncMetaStep == ASSUME IInv, SyncMeta PROVE IInv'
<1> DEFINE s == Slot(wmeta.txid)
<1>1. /\ wpc = "syncMeta" /\ CurrentMeta = wmeta
      /\ \A t \in Slots : t # s => \A m \in disk[t] : m.txid < wmeta.txid
      /\ UNCHANGED <<meta, mem, unsynced, readVars>>
  BY DEF SyncMeta, IInv, WriterInv
<1>2. /\ wmeta \in Meta /\ CurrentMeta \in Recoverable /\ Recoverable \subseteq Visible /\ fl \in FreelistType
  BY WriterState DEF Base
<1>3. wmeta.txid \in Nat /\ wmeta.txid \in Txids
  BY <1>2, MetaFields
<1>4. s \in Slots /\ Slots = {0, 1}
  BY <1>3 DEF Slots, Slot
<1> HIDE DEF s
<1>5. ASSUME disk' = [disk EXCEPT ![s] = {wmeta}], acked' = wmeta.txid, Close, UNCHANGED fl
      PROVE  IInv'
  <2>1. wpc' = "idle" /\ wmeta' = NilMeta /\ dirty' = {}
    BY <1>5 DEF Close
  <2>2. disk \in [Slots -> SUBSET Meta] /\ \A t \in Slots : meta[t] \in disk[t]
    BY DEF IInv, TypeOK, MetasInv
  <2>3. disk'[s] = {wmeta} /\ \A t \in Slots : t # s => disk'[t] = disk[t]
    BY <1>4, <1>5, <2>2
  <2>4. meta[s] = wmeta
    <3>1. CurrentMeta \in {meta[0], meta[1]}
      BY DEF CurrentMeta, Newer
    <3>2. PICK t \in Slots : meta[t] = wmeta
      BY <1>1, <1>4, <3>1
    <3>3. t = s
      BY <1>1, <1>3, <2>2, <3>2
    <3> QED
      BY <3>2, <3>3
  <2>5. CurrentMeta' = wmeta
    BY <1>1 DEF CurrentMeta
  <2>6. \A t \in Slots : \A m \in disk[t] : m.txid \in Nat
    BY <2>2, MetaFields
  <2>7. Recoverable' \subseteq {wmeta}
    <3> SUFFICES ASSUME NEW m0 \in disk'[0], NEW m1 \in disk'[1] PROVE Newer(m0, m1) = wmeta
      BY DEF Recoverable
    <3>1. CASE s = 0
      <4>1. m0 = wmeta /\ m1.txid < wmeta.txid /\ m1.txid \in Nat
        BY <1>1, <1>4, <2>3, <2>6, <3>1
      <4> QED
        BY <1>3, <4>1 DEF Newer
    <3>2. CASE s = 1
      <4>1. m1 = wmeta /\ m0.txid < wmeta.txid /\ m0.txid \in Nat
        BY <1>1, <1>4, <2>3, <2>6, <3>2
      <4> QED
        BY <1>3, <4>1 DEF Newer
    <3> QED
      BY <1>4, <3>1, <3>2
  <2>8. wmeta \in Recoverable
    BY <1>1, <1>2
  <2>9. Visible' \subseteq Visible
    BY <1>1, <1>2, <2>7, <2>8 DEF Visible, readVars
  <2>10. TypeOK'
    BY <1>1, <1>2, <1>3, <1>5, <2>1, NilMetaType DEF readVars, IInv, TypeOK
  <2>11. MetasInv'
    <3>1. \A t \in Slots : meta'[t] \in disk'[t]
      BY <1>1, <2>2, <2>3, <2>4
    <3>2. \A t \in Slots : \A m \in disk'[t] : m.txid <= wmeta.txid
      BY <1>1, <1>3, <2>3 DEF IInv, MetasInv
    <3> QED
      BY <2>5, <3>1, <3>2 DEF MetasInv
  <2>12. ReadersInv'
    BY <1>1, <1>5 DEF readVars, IInv, ReadersInv
  <2>13. VisibleInv'
    BY <1>1, <2>5, <2>9 DEF IInv, VisibleInv
  <2>14. ProtectInv'
    BY <1>5, <2>9 DEF IInv, ProtectInv
  <2>15. FreelistOK(fl', CurrentMeta')
    BY <1>1, <1>5, <2>5 DEF IInv
  <2>16. PendingOK(fl', Recoverable', wmeta'.txid)
    <3> SUFFICES ASSUME NEW e \in fl.pending PROVE e.tx <= wmeta.txid
      BY <1>5, <2>7 DEF PendingOK
    <3>1. e.tx <= wmeta.txid \/ e.tx = wmeta.txid
      BY <2>8 DEF IInv, PendingOK
    <3> QED
      BY <1>3, <3>1
  <2>17. RecoverInv'
    <3>1. Used(wmeta) \cap unsynced = {} /\ ListOK(wmeta)
      BY <2>8 DEF IInv, RecoverInv
    <3>2. acked' <= wmeta.txid
      BY <1>3, <1>5
    <3> QED
      BY <1>1, <2>7, <3>1, <3>2 DEF RecoverInv
  <2>18. WriterInv'
    BY <2>1 DEF WriterInv, Preparing
  <2> QED
    BY <2>10, <2>11, <2>12, <2>13, <2>14, <2>15, <2>16, <2>17, <2>18 DEF IInv
<1>6. ASSUME UNCHANGED <<disk, acked>>, RollbackFrom(fl) PROVE IInv'
  <2>1. /\ mem' \in [Pgids -> Txids] /\ unsynced' \subseteq Pgids
        /\ \A m \in Recoverable : Used(m) \cap unsynced' = {}
    BY <1>1, WriterState DEF IInv, TypeOK
  <2> QED
    BY <1>1, <1>6, <2>1, WriterState, RollbackStep DEF readVars
<1> QED
  BY <1>5, <1>6 DEF SyncMeta, s

\* A crash and the Open that follows keep the invariant.
LEMMA RestartStep == ASSUME IInv, Restart PROVE IInv'
<1>1. PICK m0 \in disk[0], m1 \in disk[1] :
        /\ meta' = [s \in Slots |-> IF s = 0 THEN m0 ELSE m1]
        /\ disk' = [s \in Slots |-> IF s = 0 THEN {m0} ELSE {m1}]
        /\ fl' = OpenFreelist(Newer(m0, m1))
  BY DEF Restart
<1> DEFINE c == Newer(m0, m1)
<1>2. /\ unsynced' = {} /\ metalock' = {} /\ rtx' = [r \in Readers |-> {}]
      /\ wpc' = "idle" /\ wmeta' = NilMeta /\ dirty' = {}
      /\ UNCHANGED <<mem, acked>>
  BY DEF Restart, Close
<1>3. c \in Recoverable /\ c \in Visible /\ c \in Meta
  <2>1. c \in Recoverable
    BY DEF Recoverable
  <2> QED
    BY <2>1, WriterState DEF Base
<1>4. m0 \in Meta /\ m1 \in Meta
  BY DEF IInv, TypeOK, Slots
<1>5. meta'[0] = m0 /\ meta'[1] = m1 /\ disk'[0] = {m0} /\ disk'[1] = {m1}
  BY <1>1 DEF Slots
<1>6. CurrentMeta' = c /\ Recoverable' = {c} /\ Visible' = {c}
  BY <1>2, <1>5 DEF CurrentMeta, Recoverable, Visible
<1>7. c.txid \in Nat /\ m0.txid \in Nat /\ m1.txid \in Nat /\ m0.txid <= c.txid /\ m1.txid <= c.txid
  BY <1>3, <1>4, MetaFields DEF Newer
<1> HIDE DEF c
<1>8. /\ 1 <= c.txid /\ WellFormed(c) /\ ListOK(c) /\ acked <= c.txid
  BY <1>3 DEF IInv, VisibleInv, RecoverInv
<1>9. PICK ids \in SUBSET Pgids :
        /\ fl' = Loaded(ids)
        /\ ids \cap Used(c) = {} /\ ids \subseteq 2 .. (c.pgid - 1)
  <2>1. CASE c.freelist # {}
    <3>1. c.ids \in SUBSET Pgids
      BY <1>3, MetaFields
    <3> QED
      BY <1>1, <1>8, <2>1, <3>1 DEF c, OpenFreelist, ListOK
  <2>2. CASE c.freelist = {}
    <3>1. (2 .. (c.pgid - 1)) \ Span(c.tree) \in SUBSET Pgids
      BY <1>3, BoundsAssumption DEF Meta, Pgids
    <3>2. Used(c) = Span(c.tree)
      BY <2>2 DEF Used, Blocks
    <3>3. fl' = Loaded((2 .. (c.pgid - 1)) \ Span(c.tree))
      BY <1>1, <2>2 DEF c, OpenFreelist
    <3> QED
      BY <3>1, <3>2, <3>3
  <2> QED
    BY <2>1, <2>2
<1>10. /\ fl' \in FreelistType /\ fl'.free = ids /\ fl'.cache = ids /\ fl'.pending = {}
       /\ \A p \in Pgids : fl'.allocs[p] = 0
  BY <1>9, LoadedFields
<1>11. TypeOK'
  BY <1>1, <1>2, <1>4, <1>10, NilMetaType DEF IInv, TypeOK, Slots
<1>12. MetasInv'
  BY <1>5, <1>6, <1>7 DEF MetasInv, Slots
<1>13. ReadersInv'
  BY <1>2 DEF ReadersInv
<1>14. VisibleInv'
  <2>1. c.pgid \in Nat
    BY <1>3, MetaFields
  <2> QED
    BY <1>6, <1>7, <1>8, <2>1 DEF VisibleInv, Shares
<1>15. ProtectInv'
  <2>1. \A p \in Used(c) : p \in Pgids
    BY <1>3, MetaFields
  <2>2. Used(c) \cap fl'.free = {} /\ \A e \in fl'.pending : FALSE
    BY <1>9, <1>10
  <2>3. \A p \in Used(c) : fl'.allocs[p] <= c.txid
    BY <1>7, <1>10, <2>1
  <2> QED
    BY <1>6, <2>2, <2>3 DEF ProtectInv, Protects
<1>16. FreelistOK(fl', CurrentMeta')
  <2>1. EntryIds(fl'.pending) = {} /\ Copyall(fl') = ids
    BY <1>10 DEF EntryIds, Copyall
  <2> QED
    BY <1>6, <1>7, <1>9, <1>10, <2>1 DEF FreelistOK
<1>17. PendingOK(fl', Recoverable', wmeta'.txid)
  BY <1>10 DEF PendingOK
<1>18. RecoverInv'
  BY <1>2, <1>6, <1>8 DEF RecoverInv
<1>19. WriterInv'
  BY <1>2 DEF WriterInv, Preparing
<1> QED
  BY <1>11, <1>12, <1>13, <1>14, <1>15, <1>16, <1>17, <1>18, <1>19 DEF IInv

-----------------------------------------------------------------------------
(***************************************************************************)
(* The theorems.                                                           *)
(***************************************************************************)

\* Every step keeps the invariant.
LEMMA Inductive == ASSUME IInv, [Next]_vars PROVE IInv'
<1>1. ASSUME NEW r \in Readers, Reader(r) PROVE IInv'
  BY <1>1, BeginTxStep, RegisterTxStep, RemoveTxStep DEF Reader
<1>2. CASE Writer
  BY <1>2, BeginRWTxStep, UserRollbackStep, FreePageStep, StartSpillStep, SpillNodeStep,
     CommitFreelistStep, WriteDataStep, SyncDataStep, WriteMetaStep, SyncMetaStep DEF Writer
<1>3. CASE Restart
  BY <1>3, RestartStep
<1>4. CASE UNCHANGED vars
  <2>1. CurrentMeta' = CurrentMeta /\ Recoverable' = Recoverable /\ Visible' = Visible
    BY <1>4, SameMetas DEF vars, diskVars, readVars
  <2> QED
    BY <1>4, <2>1 DEF vars, diskVars, readVars, txVars, IInv, TypeOK, MetasInv, ReadersInv,
       VisibleInv, ProtectInv, RecoverInv, WriterInv, Preparing
<1> QED
  BY <1>1, <1>2, <1>3, <1>4 DEF Next

\* In every reachable state the inductive invariant holds: the accounting of
\* pages between the trees readers see, the trees a crash may bring back, the
\* writer's new tree, the free list and the pending lists is consistent.
THEOREM Invariance == Spec => []IInv
<1>1. Init => IInv
  BY InitInvariant
<1>2. IInv /\ [Next]_vars => IInv'
  BY Inductive
<1> QED
  BY <1>1, <1>2, PTL DEF Spec

\* Every state is type correct; in particular page ids never leave the file and
\* the high water mark never passes its end.
THEOREM TypeCorrect == Spec => []TypeOK
<1>1. IInv => TypeOK
  BY DEF IInv
<1> QED
  BY <1>1, Invariance, PTL

\* A page that an open reader, the current meta or a meta that a crash may bring
\* back can reach is never in the free list.
THEOREM NotFree == Spec => []VisibleNotFree
<1>1. IInv => VisibleNotFree
  BY DEF IInv, ProtectInv, Protects, VisibleNotFree
<1> QED
  BY <1>1, Invariance, PTL

\* The dirty pages of the write transaction belong to nobody else until its meta
\* page is written.
THEOREM PrivateDirty == Spec => []DirtyIsPrivate
<1>1. IInv => DirtyIsPrivate
  <2> SUFFICES ASSUME IInv, wpc # "syncMeta", NEW m \in Visible PROVE Used(m) \cap Span(dirty) = {}
    BY DEF DirtyIsPrivate
  <2>1. CASE Preparing
    BY <2>1 DEF IInv, WriterInv, WriterOK
  <2>2. CASE ~Preparing
    <3>1. dirty = {}
      BY <2>2 DEF IInv, TypeOK, WriterInv, Preparing
    <3> QED
      BY <3>1, SpanElement
  <2> QED
    BY <2>1, <2>2
<1> QED
  BY <1>1, Invariance, PTL

\* The panics of freelist.Free and freelist.Rollback are unreachable, whatever
\* fails and whenever a commit is rolled back.
THEOREM NoPanic == Spec => []NeverPanics
<1>1. IInv => NeverPanics
  BY DEF IInv, WriterInv, NeverPanics
<1> QED
  BY <1>1, Invariance, PTL

\* The freelist's double-free cache is exactly the free and the pending ids.
THEOREM ExactCache == Spec => []CacheExact
<1>1. IInv => CacheExact
  BY DEF IInv, FreelistOK, CacheExact
<1> QED
  BY <1>1, Invariance, PTL

\* Whichever meta page a crash leaves current, its pages are on disk and none of
\* them is on its free list.
THEOREM IntactAfterCrash == Spec => []RecoverableIntact
<1>1. IInv => RecoverableIntact
  BY DEF IInv, RecoverInv, ListOK, RecoverableIntact
<1> QED
  BY <1>1, Invariance, PTL

\* A crash never goes back behind an acknowledged commit.
THEOREM Durable == Spec => []AckedSurvives
<1>1. IInv => AckedSurvives
  <2> SUFFICES ASSUME IInv, NEW m \in Recoverable PROVE m.txid >= acked
    BY DEF AckedSurvives
  <2>1. acked <= m.txid
    BY DEF IInv, RecoverInv
  <2>2. acked \in Nat /\ m \in Meta
    BY WriterState, BoundsAssumption DEF IInv, TypeOK, Txids, Base
  <2> QED
    BY <2>1, <2>2, MetaFields
<1> QED
  BY <1>1, Invariance, PTL

\* No step rewrites a page that a visible meta uses.
LEMMA PagesKept ==
  ASSUME IInv, [Next]_vars, NEW m \in Visible, NEW p \in Used(m)
  PROVE  mem'[p] = mem[p]
<1>1. p \in Pgids
  <2>1. m \in Meta
    BY WriterState DEF Base
  <2> QED
    BY <2>1, MetaFields
<1>2. CASE WriteData
  <2>1. p \notin Span(dirty)
    BY <1>2 DEF WriteData, Preparing, IInv, WriterInv, WriterOK
  <2>2. PICK blocks \in SUBSET dirty : Written(blocks)
    <3>1. \A b \in dirty : {d \in dirty : d.id <= b.id} \in SUBSET dirty
      OBVIOUS
    <3> QED
      BY <1>2, <3>1 DEF WriteData
  <2>3. p \notin Span(blocks)
    BY <2>1, SpanElement
  <2> QED
    BY <1>1, <2>2, <2>3 DEF Written
<1>3. CASE UNCHANGED mem
  BY <1>3
<1>4. WriteData \/ UNCHANGED mem
  BY DEF Next, Reader, BeginTx, RegisterTx, RemoveTx, Writer, BeginRWTx, UserRollback, FreePage,
     StartSpill, SpillNode, CommitFreelist, SyncData, WriteMeta, SyncMeta, Restart, vars, diskVars
<1> QED
  BY <1>2, <1>3, <1>4

\* No step rewrites a page of the snapshot of a transaction that stays open.
THEOREM Isolation == Spec => SnapshotIsolation
<1> DEFINE Kept == \A r \in Readers : rtx'[r] = rtx[r] =>
                     \A m \in rtx[r] : \A p \in Span(m.tree) : mem'[p] = mem[p]
<1>1. ASSUME IInv, [Next]_vars PROVE [Kept]_vars
  <2> SUFFICES ASSUME NEW r \in Readers, NEW m \in rtx[r], NEW p \in Span(m.tree) PROVE mem'[p] = mem[p]
    OBVIOUS
  <2>1. m \in Visible
    BY DEF Visible
  <2>2. p \in Used(m)
    BY SpanElement, UsedElement DEF Blocks
  <2> QED
    BY <1>1, <2>1, <2>2, PagesKept
<1>2. Spec => [][Kept]_vars
  BY <1>1, Invariance, PTL DEF Spec
<1> QED
  BY <1>2 DEF SnapshotIsolation
-----------------------------------------------------------------------------
(***************************************************************************)
(* Bolt implements Store: the initial states map to initial states and     *)
(* every step maps to a step of Store or changes nothing it sees.          *)
(***************************************************************************)
\* What a visible meta reads is not changed by any step.
LEMMA SameView ==
  ASSUME IInv, [Next]_vars, NEW m \in Visible
  PROVE  View(m, mem') = View(m, mem)
<1>1. \A p \in Span(m.tree) : mem'[p] = mem[p]
  BY PagesKept, SpanElement, UsedElement DEF Blocks
<1> QED
  BY <1>1 DEF View

\* Nor is what the metas of a set read.
LEMMA SameViews ==
  ASSUME IInv, [Next]_vars, NEW R, R \subseteq Visible
  PROVE  {View(m, mem') : m \in R} = {View(m, mem) : m \in R}
BY SameView

\* A snapshot that stays open reads the same version after a step.
LEMMA SameSnapshot ==
  ASSUME IInv, [Next]_vars, NEW r \in Readers, rtx'[r] = rtx[r]
  PROVE  StoreSnap'[r] = StoreSnap[r]
<1>1. CASE rtx[r] = {}
  BY <1>1 DEF StoreSnap
<1>2. CASE rtx[r] # {}
  <2> DEFINE c == CHOOSE m \in rtx[r] : TRUE
  <2>1. c \in rtx[r]
    BY <1>2
  <2>2. c \in Visible
    BY <2>1 DEF Visible
  <2>3. StoreSnap[r] = View(c, mem) /\ StoreSnap'[r] = View(c, mem')
    BY <1>2 DEF StoreSnap
  <2> HIDE DEF c
  <2> QED
    BY <2>2, <2>3, SameView
<1> QED
  BY <1>1, <1>2

\* A step that touches neither meta pages nor readers changes no version.
LEMMA SameStore ==
  ASSUME IInv, [Next]_vars, UNCHANGED <<meta, disk, rtx>>
  PROVE  UNCHANGED <<StoreCur, StoreAlts, StoreSnap>>
<1>1. CurrentMeta' = CurrentMeta /\ Recoverable' = Recoverable
  BY SameMetas
<1>2. CurrentMeta \in Visible /\ Recoverable \subseteq Visible
  BY WriterState DEF Base
<1>3. StoreCur' = StoreCur
  BY <1>1, <1>2, SameView DEF StoreCur
<1>4. StoreAlts' = StoreAlts
  BY <1>1, <1>2, SameViews DEF StoreAlts
<1>5. \A r \in Readers : StoreSnap'[r] = StoreSnap[r]
  BY SameSnapshot
<1>6. StoreSnap' = StoreSnap
  BY <1>5 DEF StoreSnap
<1> QED
  BY <1>3, <1>4, <1>6

\* Every reader has a version or none.
LEMMA SnapDomain ==
  /\ StoreSnap = [r \in Readers |-> StoreSnap[r]]
  /\ StoreSnap' = [r \in Readers |-> StoreSnap'[r]]
BY DEF StoreSnap

\* A reader's version is never mistaken for no version.
LEMMA OpenSnapshot ==
  ASSUME IInv, NEW r \in Readers
  PROVE  StoreSnap[r] = NoView <=> rtx[r] = {}
<1>1. ASSUME NEW m \in rtx[r] PROVE View(m, mem) # NoView
  <2>1. ASSUME View(m, mem) = NoView PROVE FALSE
    <3>1. <<0, 0>> \in View(m, mem)
      BY <2>1 DEF NoView
    <3>2. PICK p \in Span(m.tree) : <<0, 0>> = <<p, mem[p]>>
      BY <3>1 DEF View
    <3>3. p = 0
      BY <3>2
    <3>4. m \in Meta
      BY DEF IInv, TypeOK
    <3>5. p \in Pgids
      BY <3>2, <3>4, MetaFields, SpanElement, UsedElement DEF Blocks
    <3> QED
      BY <3>3, <3>5 DEF Pgids
  <2> QED
    BY <2>1
<1> QED
  BY <1>1 DEF StoreSnap

\* A reader that begins takes the current version.
LEMMA BeginStep ==
  ASSUME IInv, [Next]_vars, NEW r \in Readers, BeginTx(r)
  PROVE  Abstract!Begin(r)
<1>1. rtx[r] = {} /\ rtx' = [rtx EXCEPT ![r] = {CurrentMeta}] /\ UNCHANGED diskVars
  BY DEF BeginTx
<1>2. CurrentMeta' = CurrentMeta /\ Recoverable' = Recoverable /\ mem' = mem
  BY <1>1 DEF diskVars, CurrentMeta, Recoverable
<1>3. StoreCur' = StoreCur /\ StoreAlts' = StoreAlts
  BY <1>2 DEF StoreCur, StoreAlts
<1>4. rtx'[r] = {CurrentMeta} /\ \A q \in Readers : q # r => rtx'[q] = rtx[q]
  BY <1>1 DEF IInv, TypeOK
<1>5. StoreSnap'[r] = StoreCur
  <2>1. (CHOOSE m \in rtx'[r] : TRUE) = CurrentMeta
    BY <1>4
  <2> QED
    BY <1>2, <1>4, <2>1 DEF StoreSnap, StoreCur
<1>6. \A q \in Readers : q # r => StoreSnap'[q] = StoreSnap[q]
  BY <1>4, SameSnapshot
<1>7. StoreSnap' = [StoreSnap EXCEPT ![r] = StoreCur]
  BY <1>5, <1>6, SnapDomain
<1>8. StoreSnap[r] = NoView
  BY <1>1, OpenSnapshot
<1> QED
  BY <1>3, <1>7, <1>8 DEF Abstract!Begin

\* Rollback of a reader ends its version.
LEMMA EndStep ==
  ASSUME IInv, [Next]_vars, NEW r \in Readers, RemoveTx(r)
  PROVE  Abstract!End(r)
<1>1. rtx[r] # {} /\ rtx' = [rtx EXCEPT ![r] = {}] /\ UNCHANGED diskVars
  BY DEF RemoveTx
<1>2. CurrentMeta' = CurrentMeta /\ Recoverable' = Recoverable /\ mem' = mem
  BY <1>1 DEF diskVars, CurrentMeta, Recoverable
<1>3. StoreCur' = StoreCur /\ StoreAlts' = StoreAlts
  BY <1>2 DEF StoreCur, StoreAlts
<1>4. rtx'[r] = {} /\ \A q \in Readers : q # r => rtx'[q] = rtx[q]
  BY <1>1 DEF IInv, TypeOK
<1>5. StoreSnap'[r] = NoView
  BY <1>4 DEF StoreSnap
<1>6. \A q \in Readers : q # r => StoreSnap'[q] = StoreSnap[q]
  BY <1>4, SameSnapshot
<1>7. StoreSnap' = [StoreSnap EXCEPT ![r] = NoView]
  BY <1>5, <1>6, SnapDomain
<1>8. StoreSnap[r] # NoView
  BY <1>1, OpenSnapshot
<1> QED
  BY <1>3, <1>7, <1>8 DEF Abstract!End

\* Writing the meta page publishes the writer's tree as a whole.
LEMMA PublishStep ==
  ASSUME IInv, [Next]_vars, WriteMeta, ~UNCHANGED <<meta, disk>>
  PROVE  Abstract!Publish
<1> DEFINE s == Slot(wmeta.txid)
<1>1. /\ disk' = [disk EXCEPT ![s] = disk[s] \cup {wmeta}]
      /\ wpc = "meta" /\ wpc' = "syncMeta" /\ wmeta' = wmeta
      /\ UNCHANGED <<mem, readVars>>
  BY DEF WriteMeta
<1>2. IInv'
  BY Inductive
<1>3. CurrentMeta' = wmeta
  BY <1>1, <1>2 DEF IInv, WriterInv
<1>4. /\ wmeta \in Meta /\ wmeta.txid \in Nat
      /\ wmeta.txid = CurrentMeta.txid + 1 /\ CurrentMeta.txid \in Nat
  <2>1. wmeta \in Meta /\ CurrentMeta \in Meta /\ WriterOK(fl, wmeta, dirty, CurrentMeta, Visible)
    BY <1>1, WriterState DEF Preparing
  <2> QED
    BY <2>1, MetaFields DEF WriterOK
<1>5. s \in Slots /\ Slots = {0, 1}
  BY <1>4 DEF Slots, Slot
<1>6. disk \in [Slots -> SUBSET Meta] /\ \A t \in Slots : meta[t] \in disk[t]
  BY DEF IInv, TypeOK, MetasInv
<1> HIDE DEF s
<1>7. disk'[s] = disk[s] \cup {wmeta} /\ \A t \in Slots : t # s => disk'[t] = disk[t]
  BY <1>1, <1>5, <1>6
<1>8. ASSUME NEW t \in Slots, NEW m \in disk[t] PROVE m.txid \in Nat /\ m.txid < wmeta.txid
  <2>1. m \in Meta /\ m.txid <= CurrentMeta.txid
    BY DEF IInv, TypeOK, MetasInv
  <2>2. m.txid \in Nat
    BY <2>1, MetaFields
  <2> QED
    BY <1>4, <2>1, <2>2
<1>9. Recoverable' = Recoverable \cup {wmeta}
  <2>1. ASSUME NEW m0 \in disk'[0], NEW m1 \in disk'[1] PROVE Newer(m0, m1) \in Recoverable \cup {wmeta}
    <3>1. CASE m0 \in disk[0] /\ m1 \in disk[1]
      BY <3>1 DEF Recoverable
    <3>2. CASE m0 = wmeta /\ m1 \in disk[1]
      BY <1>4, <1>5, <1>8, <3>2 DEF Newer
    <3>3. CASE m1 = wmeta /\ m0 \in disk[0]
      <4>1. m0.txid < wmeta.txid /\ m0.txid \in Nat
        BY <1>5, <1>8, <3>3
      <4> QED
        BY <1>4, <3>3, <4>1 DEF Newer
    <3>4. \/ m0 \in disk[0] /\ m1 \in disk[1]
          \/ m0 = wmeta /\ m1 \in disk[1]
          \/ m1 = wmeta /\ m0 \in disk[0]
      BY <1>5, <1>7, <2>1
    <3> QED
      BY <3>1, <3>2, <3>3, <3>4
  <2>2. Recoverable \subseteq Recoverable'
    <3>1. disk[0] \subseteq disk'[0] /\ disk[1] \subseteq disk'[1]
      BY <1>5, <1>7
    <3> QED
      BY <3>1 DEF Recoverable
  <2>3. wmeta \in Recoverable'
    <3>1. meta'[0] \in disk'[0] /\ meta'[1] \in disk'[1]
      BY <1>2 DEF IInv, MetasInv, Slots
    <3> QED
      BY <1>3, <3>1 DEF CurrentMeta, Recoverable
  <2> QED
    BY <2>1, <2>2, <2>3 DEF Recoverable
<1>10. StoreAlts' = StoreAlts \cup {StoreCur'}
  BY <1>1, <1>3, <1>9 DEF StoreAlts, StoreCur
<1>11. StoreSnap' = StoreSnap
  <2>1. \A r \in Readers : StoreSnap'[r] = StoreSnap[r]
    BY <1>1, SameSnapshot DEF readVars
  <2> QED
    BY <2>1, SnapDomain
<1> QED
  BY <1>10, <1>11 DEF Abstract!Publish

\* Syncing the meta page acknowledges the current version.
LEMMA AcknowledgeStep ==
  ASSUME IInv, [Next]_vars, SyncMeta, ~UNCHANGED disk
  PROVE  Abstract!Acknowledge
<1> DEFINE s == Slot(wmeta.txid)
<1>1. /\ disk' = [disk EXCEPT ![s] = {wmeta}]
      /\ UNCHANGED <<meta, mem, unsynced, readVars>>
  BY DEF SyncMeta
<1>2. /\ wpc = "syncMeta" /\ CurrentMeta = wmeta
      /\ \A t \in Slots : t # s => \A m \in disk[t] : m.txid < wmeta.txid
  BY DEF SyncMeta, IInv, WriterInv
<1>3. IInv'
  BY Inductive
<1>4. wmeta \in Meta /\ wmeta.txid \in Nat
  BY WriterState, MetaFields
<1>5. s \in Slots /\ Slots = {0, 1}
  BY <1>4 DEF Slots, Slot
<1>6. disk \in [Slots -> SUBSET Meta]
  BY DEF IInv, TypeOK
<1>7. CurrentMeta' = wmeta
  BY <1>1, <1>2 DEF CurrentMeta
<1> HIDE DEF s
<1>8. disk'[s] = {wmeta} /\ \A t \in Slots : t # s => disk'[t] = disk[t]
  BY <1>1, <1>5, <1>6
<1>9. ASSUME NEW t \in Slots, t # s, NEW m \in disk'[t] PROVE m.txid \in Nat /\ m.txid < wmeta.txid
  BY <1>2, <1>6, <1>8, <1>9, MetaFields
<1>10. Recoverable' = {wmeta}
  <2>1. ASSUME NEW m0 \in disk'[0], NEW m1 \in disk'[1] PROVE Newer(m0, m1) = wmeta
    <3>1. CASE s = 0
      <4>1. m0 = wmeta /\ m1.txid < wmeta.txid /\ m1.txid \in Nat
        BY <1>5, <1>8, <1>9, <3>1
      <4> QED
        BY <1>4, <4>1 DEF Newer
    <3>2. CASE s = 1
      <4>1. m1 = wmeta /\ m0.txid < wmeta.txid /\ m0.txid \in Nat
        BY <1>5, <1>8, <1>9, <3>2
      <4> QED
        BY <1>4, <4>1 DEF Newer
    <3> QED
      BY <1>5, <3>1, <3>2
  <2>2. meta'[0] \in disk'[0] /\ meta'[1] \in disk'[1]
    BY <1>3 DEF IInv, MetasInv, Slots
  <2> QED
    BY <2>1, <2>2 DEF Recoverable
<1>11. StoreCur' = StoreCur
  BY <1>1, <1>2, <1>7 DEF StoreCur
<1>12. StoreAlts' = {StoreCur}
  BY <1>1, <1>2, <1>10 DEF StoreAlts, StoreCur
<1>13. StoreSnap' = StoreSnap
  <2>1. \A r \in Readers : StoreSnap'[r] = StoreSnap[r]
    BY <1>1, SameSnapshot DEF readVars
  <2> QED
    BY <2>1, SnapDomain
<1> QED
  BY <1>11, <1>12, <1>13 DEF Abstract!Acknowledge

\* A crash falls back to a version that was recoverable.
LEMMA CrashStep ==
  ASSUME IInv, [Next]_vars, Restart
  PROVE  Abstract!Crash
<1>1. PICK m0 \in disk[0], m1 \in disk[1] :
        /\ meta' = [s \in Slots |-> IF s = 0 THEN m0 ELSE m1]
        /\ disk' = [s \in Slots |-> IF s = 0 THEN {m0} ELSE {m1}]
  BY DEF Restart
<1>2. rtx' = [r \in Readers |-> {}] /\ mem' = mem
  BY DEF Restart
<1>3. meta'[0] = m0 /\ meta'[1] = m1 /\ disk'[0] = {m0} /\ disk'[1] = {m1}
  BY <1>1 DEF Slots
<1>4. CurrentMeta' = Newer(m0, m1) /\ Recoverable' = {Newer(m0, m1)}
  BY <1>3 DEF CurrentMeta, Recoverable
<1>5. Newer(m0, m1) \in Recoverable
  BY DEF Recoverable
<1>6. StoreCur' \in StoreAlts
  BY <1>2, <1>4, <1>5 DEF StoreCur, StoreAlts
<1>7. StoreAlts' = {StoreCur'}
  BY <1>4 DEF StoreCur, StoreAlts
<1>8. StoreSnap' = [r \in Readers |-> NoView]
  BY <1>2 DEF StoreSnap
<1> QED
  BY <1>6, <1>7, <1>8 DEF Abstract!Crash

\* Every step of Bolt is a step of Store or changes no version.
LEMMA StepRefines ==
  ASSUME IInv, [Next]_vars
  PROVE  [Abstract!Next]_(Abstract!vars)
<1> USE DEF Abstract!Next, Abstract!vars
<1>1. ASSUME UNCHANGED <<meta, disk, rtx>> PROVE UNCHANGED Abstract!vars
  BY <1>1, SameStore
<1>2. ASSUME NEW r \in Readers, Reader(r) PROVE [Abstract!Next]_(Abstract!vars)
  <2>1. CASE BeginTx(r)
    BY <2>1, BeginStep
  <2>2. CASE RegisterTx(r)
    BY <2>2, <1>1 DEF RegisterTx, diskVars
  <2>3. CASE RemoveTx(r)
    BY <2>3, EndStep
  <2> QED
    BY <1>2, <2>1, <2>2, <2>3 DEF Reader
<1>3. CASE Writer
  <2>1. CASE WriteMeta
    <3>1. CASE UNCHANGED <<meta, disk>>
      BY <1>1, <2>1, <3>1 DEF WriteMeta, readVars
    <3>2. CASE ~UNCHANGED <<meta, disk>>
      BY <2>1, <3>2, PublishStep
    <3> QED
      BY <3>1, <3>2
  <2>2. CASE SyncMeta
    <3>1. CASE UNCHANGED disk
      BY <1>1, <2>2, <3>1 DEF SyncMeta, readVars
    <3>2. CASE ~UNCHANGED disk
      BY <2>2, <3>2, AcknowledgeStep
    <3> QED
      BY <3>1, <3>2
  <2>3. CASE ~WriteMeta /\ ~SyncMeta
    BY <1>1, <1>3, <2>3 DEF Writer, BeginRWTx, UserRollback, FreePage, StartSpill, SpillNode,
       CommitFreelist, WriteData, SyncData, diskVars, readVars
  <2> QED
    BY <2>1, <2>2, <2>3
<1>4. CASE Restart
  BY <1>4, CrashStep
<1>5. CASE UNCHANGED vars
  BY <1>1, <1>5 DEF vars, diskVars, readVars
<1> QED
  BY <1>2, <1>3, <1>4, <1>5 DEF Next

\* The database implements Store: readers keep the version they began with, a
\* commit replaces the version at one instant, and a crash falls back to a version
\* not older than the last acknowledged one.
THEOREM Refinement == Spec => ImplementsStore
<1>1. Init => Abstract!Init
  <2> SUFFICES ASSUME Init PROVE Abstract!Init
    OBVIOUS
  <2>1. Recoverable = {CurrentMeta}
    BY DEF Init, Recoverable, CurrentMeta, Slots
  <2>2. StoreAlts = {StoreCur}
    BY <2>1 DEF StoreAlts, StoreCur
  <2>3. StoreSnap = [r \in Readers |-> NoView]
    BY DEF StoreSnap, Init
  <2> QED
    BY <2>2, <2>3 DEF Abstract!Init
<1>2. IInv /\ [Next]_vars => [Abstract!Next]_(Abstract!vars)
  BY StepRefines
<1> QED
  BY <1>1, <1>2, Invariance, PTL DEF Spec, ImplementsStore, Abstract!Spec

-----------------------------------------------------------------------------
(***************************************************************************)
(* The space Bolt accounts for: the page allocated for the freelist holds  *)
(* it, no page is lost when no operation fails, and a beginning write      *)
(* transaction leaves no page pending without a reader.                    *)
(***************************************************************************)

\* The metas that are written, read or ready to be written.
Committing == {m \in {wmeta} : wpc \in {"write", "sync", "meta", "syncMeta"}}
Known == disk[0] \cup disk[1] \cup Committing \cup UNION {rtx[r] : r \in Readers}

\* The page allocated for the freelist holds the ids of m.
Fits(m) == \A b \in m.freelist : Words(Cardinality(m.ids)) <= IdsPerPage * (b.overflow + 1)

FitsInv == \A m \in Known : Fits(m)

\* Every page below the mark of m is used by m or among ids.
Accounts(m, ids) == 2 .. (m.pgid - 1) \subseteq Used(m) \cup ids

\* Every page is accounted for, of the current tree between transactions and of
\* the writer's own while it works, and by every freelist on file.  What a
\* transaction has freed before Commit belongs to the current tree.
LeakInv ==
  /\ \A m \in Known : m.freelist # {} => Accounts(m, m.ids)
  /\ wpc \in {"idle", "body"} => Accounts(CurrentMeta, Copyall(fl))
  /\ wpc # "idle" => Accounts(wmeta, Copyall(fl))
  /\ wpc = "body" => EntryIds(PendingOf(fl, wmeta.txid)) \subseteq Used(CurrentMeta)

\* lastReleaseBegin of a transaction is after the allocation of each page it
\* freed that is still pending, and is forgotten with the last one.
Looked(f) ==
  /\ \A e \in f.pending : f.lastReleaseBegin[e.tx] = 0 \/ e.alloctx < f.lastReleaseBegin[e.tx]
  /\ \A t \in Txids : f.lastReleaseBegin[t] # 0 => \E e \in f.pending : e.tx = t

\* No extent has been looked at for the running transaction.
ReleaseInv == Looked(fl) /\ (wpc # "idle" => fl.lastReleaseBegin[wmeta.txid] = 0)

-----------------------------------------------------------------------------
\* No step but commitFreelist adds a meta to those that are written, read or
\* ready to be written.
LEMMA KnownMetas ==
  ASSUME IInv, [Next]_vars, NEW m \in Known'
  PROVE  m \in Known \/ (CommitFreelist /\ wpc' = "write" /\ m = wmeta')
<1> USE DEF Committing
<1>1. \/ m \in disk'[0] \cup disk'[1] \/ \E r \in Readers : m \in rtx'[r]
      \/ wpc' \in {"write", "sync", "meta", "syncMeta"} /\ m = wmeta'
  BY DEF Known
<1>2. /\ \A x \in disk[0] \cup disk[1] : x \in Known
      /\ \A r \in Readers : \A x \in rtx[r] : x \in Known
      /\ wpc \in {"write", "sync", "meta", "syncMeta"} => wmeta \in Known
  BY DEF Known
<1>3. CurrentMeta \in disk[0] \cup disk[1]
  BY DEF IInv, MetasInv, CurrentMeta, Newer, Slots
<1>4. CASE \E r \in Readers : Reader(r)
  <2>1. PICK r \in Readers : Reader(r)
    BY <1>4
  <2>2. UNCHANGED <<disk, wpc, wmeta>>
    BY <2>1 DEF Reader, BeginTx, RegisterTx, RemoveTx, diskVars, txVars
  <2>3. \A q \in Readers : rtx'[q] \subseteq rtx[q] \cup {CurrentMeta}
    BY <2>1 DEF Reader, BeginTx, RegisterTx, RemoveTx, IInv, TypeOK
  <2> QED
    BY <1>1, <1>2, <1>3, <2>2, <2>3
<1>5. CASE BeginRWTx \/ StartSpill \/ FreePage \/ SpillNode
  <2>1. disk' = disk /\ rtx' = rtx /\ wpc \in {"idle", "body", "spill"}
    BY <1>5 DEF BeginRWTx, StartSpill, FreePage, SpillNode, diskVars, readVars
  <2>2. wpc' \in {"idle", "panic", "body", "spill"}
    BY <1>5 DEF BeginRWTx, StartSpill, FreePage, SpillNode, Panic, RollbackFrom, Close
  <2> QED
    BY <1>1, <1>2, <2>1, <2>2
<1>6. CASE UserRollback \/ CommitFreelist
  <2>1. disk' = disk /\ rtx' = rtx /\ wpc \in {"body", "spill"}
    BY <1>6 DEF UserRollback, CommitFreelist, diskVars, readVars
  <2>2. wpc' \in {"idle", "panic"} \/ (CommitFreelist /\ wpc' = "write")
    BY <1>6 DEF UserRollback, CommitFreelist, Panic, RollbackFrom, Close
  <2> QED
    BY <1>1, <1>2, <2>1, <2>2
<1>7. CASE WriteData \/ SyncData
  <2>1. disk' = disk /\ rtx' = rtx /\ wpc \in {"write", "sync"}
    BY <1>7 DEF WriteData, SyncData, diskVars, readVars
  <2>2. wpc' \in {"idle", "panic"} \/ wmeta' = wmeta
    BY <1>7 DEF WriteData, SyncData, Panic, RollbackFrom, Close
  <2> QED
    BY <1>1, <1>2, <2>1, <2>2
<1>8. CASE WriteMeta
  <2>1. rtx' = rtx /\ wpc = "meta" /\ (wpc' \in {"idle", "panic"} \/ wmeta' = wmeta)
    BY <1>8 DEF WriteMeta, readVars, Panic, RollbackFrom, Close
  <2>2. \A s \in Slots : disk'[s] \subseteq disk[s] \cup {wmeta}
    BY <1>8 DEF WriteMeta, IInv, TypeOK, Slot
  <2> QED
    BY <1>1, <1>2, <2>1, <2>2 DEF Slots
<1>9. CASE SyncMeta
  <2>1. rtx' = rtx /\ wpc = "syncMeta" /\ wpc' \in {"idle", "panic"}
    BY <1>9 DEF SyncMeta, readVars, Panic, RollbackFrom, Close
  <2>2. \A s \in Slots : disk'[s] \subseteq disk[s] \cup {wmeta}
    BY <1>9 DEF SyncMeta, IInv, TypeOK, Slot
  <2> QED
    BY <1>1, <1>2, <2>1, <2>2 DEF Slots
<1>10. CASE Restart
  <2>1. wpc' = "idle" /\ \A r \in Readers : rtx'[r] = {}
    BY <1>10 DEF Restart, Close
  <2>2. \A s \in Slots : disk'[s] \subseteq disk[s]
    BY <1>10 DEF Restart, Slots
  <2> QED
    BY <1>1, <1>2, <2>1, <2>2 DEF Slots
<1>11. CASE UNCHANGED vars
  BY <1>11, <1>1, <1>2 DEF vars, diskVars, readVars, txVars
<1> QED
  BY <1>4, <1>5, <1>6, <1>7, <1>8, <1>9, <1>10, <1>11 DEF Next, Writer

\* What db.allocate does with f and the transaction's meta w: the block has the
\* size asked for, and what leaves the freelist, or was past the mark, is in it.
LEMMA AllocationsShape ==
  ASSUME NEW f \in FreelistType, NEW w \in Meta, NEW n \in Nat \ {0}, NEW a \in Allocations(f, w, n)
  PROVE  /\ a.block.overflow = n - 1 /\ a.block.id \in Int /\ a.fl \in FreelistType
         /\ a.meta = [w EXCEPT !.pgid = a.meta.pgid]
         /\ a.fl.pending = f.pending /\ a.fl.lastReleaseBegin = f.lastReleaseBegin
         /\ Copyall(f) \subseteq Copyall(a.fl) \cup Ids(a.block)
         /\ Copyall(a.fl) \subseteq Copyall(f)
         /\ w.pgid .. (a.meta.pgid - 1) \subseteq Ids(a.block)
<1>1. CASE FreeRuns(f, n) # {}
  <2>1. PICK i \in FreeRuns(f, n) : a = [fl |-> Allocate(f, w.txid, i, n), meta |-> w,
                                         block |-> [id |-> i, overflow |-> n - 1]]
    BY <1>1 DEF Allocations
  <2>2. w.txid \in Txids /\ w.pgid \in Nat /\ w = [w EXCEPT !.pgid = w.pgid]
    BY DEF Meta
  <2>3. /\ a.fl.free = f.free \ Ids(a.block) /\ a.fl.pending = f.pending
        /\ a.block.id = i /\ i \in Int /\ a.fl \in FreelistType
    <3>1. a.fl = Allocate(f, w.txid, i, n) /\ a.block = [id |-> i, overflow |-> n - 1]
      BY <2>1
    <3>2. i \in Pgids
      BY DEF FreeRuns, FreelistType
    <3>3. i \in Int
      BY <3>2 DEF Pgids
    <3>4. /\ Allocate(f, w.txid, i, n).free = f.free \ Ids([id |-> i, overflow |-> n - 1])
          /\ Allocate(f, w.txid, i, n).pending = f.pending
          /\ Allocate(f, w.txid, i, n) \in FreelistType
      BY <2>2, AllocateFields
    <3> QED
      BY <3>1, <3>3, <3>4
  <2>4. a.fl.lastReleaseBegin = f.lastReleaseBegin
    BY <2>1 DEF Allocate, FreelistType
  <2>5. /\ Copyall(f) \subseteq Copyall(a.fl) \cup Ids(a.block)
        /\ Copyall(a.fl) \subseteq Copyall(f)
    BY <2>3 DEF Copyall
  <2>6. w.pgid .. (a.meta.pgid - 1) = {}
    BY <2>1, <2>2
  <2> QED
    BY <2>1, <2>2, <2>3, <2>4, <2>5, <2>6
<1>2. CASE FreeRuns(f, n) = {}
  <2>1. a = [fl |-> f, meta |-> [w EXCEPT !.pgid = w.pgid + n],
             block |-> [id |-> w.pgid, overflow |-> n - 1]]
    BY <1>2 DEF Allocations
  <2>2. w.pgid \in Nat /\ a.meta.pgid = w.pgid + n /\ a.meta = [w EXCEPT !.pgid = a.meta.pgid]
    BY <2>1 DEF Meta
  <2>3. Ids(a.block) = w.pgid .. (w.pgid + (n - 1))
    BY <2>1 DEF Ids
  <2> QED
    BY <2>1, <2>2, <2>3
<1> QED
  BY <1>1, <1>2

\* Free, for at most one block, makes its ids pending and forgets no extent.
LEMMA FreeAnyShape ==
  ASSUME NEW f \in FreelistType, NEW T \in Txids, NEW S \in SUBSET Block, \A x, y \in S : x = y
  PROVE  LET g == FreeAny(f, T, S) IN
         /\ g.lastReleaseBegin = f.lastReleaseBegin
         /\ f.pending \subseteq g.pending /\ \A e \in g.pending \ f.pending : e.tx = T
         /\ Copyall(g) = Copyall(f) \cup Span(S)
         /\ EntryIds(PendingOf(g, T)) \subseteq EntryIds(PendingOf(f, T)) \cup Span(S)
<1>1. CASE S = {}
  BY <1>1 DEF FreeAny, Span
<1>2. CASE S # {}
  <2>1. PICK b \in S : S = {b} /\ FreeAny(f, T, S) = Free(f, T, b)
    BY <1>2 DEF FreeAny
  <2> DEFINE g == Free(f, T, b)
  <2>2. g.lastReleaseBegin = f.lastReleaseBegin
    BY DEF Free, FreelistType
  <2>3. g.pending = f.pending \cup {[tx |-> T, id |-> i, alloctx |-> f.allocs[b.id]] : i \in Ids(b)}
    BY FreeFields
  <2>4. Copyall(g) = Copyall(f) \cup Ids(b)
    BY FreeCopyall
  <2>5. Span(S) = Ids(b)
    BY <2>1 DEF Span
  <2>6. EntryIds(PendingOf(g, T)) \subseteq EntryIds(PendingOf(f, T)) \cup Ids(b)
    BY <2>3 DEF EntryIds, PendingOf
  <2> HIDE DEF g
  <2> QED
    BY <2>1, <2>2, <2>3, <2>4, <2>5, <2>6 DEF g
<1> QED
  BY <1>1, <1>2

-----------------------------------------------------------------------------
(***************************************************************************)
(* The freelist fits in the page allocated for it.                         *)
(***************************************************************************)
\* A number is below the multiple that follows it.
LEMMA NextMultiple ==
  ASSUME NEW a \in Nat, NEW m \in Nat \ {0}
  PROVE  a <= m * (a \div m + 1)
<1> DEFINE q == a \div m
<1>1. q \in Int /\ a <= m * q + m
  OBVIOUS
<1> HIDE DEF q
<1>2. m * (q + 1) = m * q + m
  BY <1>1
<1> QED
  BY <1>1, <1>2 DEF q

\* The estimate covers every freelist that has no more ids than were free or
\* pending: allocating the page itself can only remove some.
LEMMA EstimateCovers ==
  ASSUME NEW f \in FreelistType, NEW cur, FreelistOK(f, cur), NEW ids \in SUBSET Copyall(f)
  PROVE  Words(Cardinality(ids)) <= IdsPerPage * EstimatedPages(f)
<1> DEFINE E == EntryIds(f.pending)
           idOf == [e \in f.pending |-> e.id]
<1>1. IsFiniteSet(Pgids)
  BY FS_Interval, BoundsAssumption DEF Pgids
<1>2. IsFiniteSet(f.free) /\ IsFiniteSet(E)
  BY <1>1, FS_Subset DEF FreelistType, EntryIds, Entry
<1>3. idOf \in Injection(f.pending, Pgids)
  <2>1. idOf \in [f.pending -> Pgids]
    BY DEF FreelistType, Entry
  <2>2. \A e, g \in f.pending : idOf[e] = idOf[g] => e = g
    BY DEF FreelistOK
  <2> HIDE DEF idOf
  <2> QED
    BY <2>1, <2>2 DEF Injection, IsInjective
<1>4. idOf \in Surjection(f.pending, E)
  BY DEF EntryIds, Surjection
<1> HIDE DEF idOf
<1>5. IsFiniteSet(f.pending)
  BY <1>1, <1>3, FS_Injection
<1>6. Cardinality(E) <= Cardinality(f.pending)
  BY <1>4, <1>5, FS_Surjection
<1>7. /\ IsFiniteSet(Copyall(f))
      /\ Cardinality(Copyall(f)) = Cardinality(f.free) + Cardinality(E) - Cardinality(f.free \cap E)
  BY <1>2, FS_Union DEF Copyall
<1>8. Cardinality(ids) <= Cardinality(Copyall(f)) /\ IsFiniteSet(ids) /\ IsFiniteSet(f.free \cap E)
  BY <1>2, <1>7, FS_Subset, FS_Intersection
<1>9. {Cardinality(ids), Cardinality(f.free), Cardinality(E), Cardinality(f.pending),
       Cardinality(f.free \cap E), Cardinality(Copyall(f))} \subseteq Nat
  BY <1>2, <1>5, <1>7, <1>8, FS_CardinalityType
<1>10. Cardinality(ids) <= Count(f) /\ Count(f) \in Nat
  BY <1>6, <1>7, <1>8, <1>9 DEF Count
<1>14. Words(Cardinality(ids)) <= Words(Count(f)) /\ {Words(Cardinality(ids)), Words(Count(f))} \subseteq Nat
  BY <1>9, <1>10, ConstantsAssumption DEF Words
<1>11. IdsPerPage \in Nat \ {0}
  BY ConstantsAssumption
<1>12. Words(Count(f)) <= IdsPerPage * EstimatedPages(f) /\ EstimatedPages(f) \in Int
  <2>1. Words(Count(f)) \in Nat
    BY <1>14
  <2>2. Words(Count(f)) <= IdsPerPage * (Words(Count(f)) \div IdsPerPage + 1)
    BY <2>1, <1>11, NextMultiple
  <2>3. Words(Count(f)) \div IdsPerPage \in Int
    BY <2>1, <1>11
  <2> QED
    BY <2>2, <2>3 DEF EstimatedPages
<1>13. IdsPerPage * EstimatedPages(f) \in Int
  BY <1>11, <1>12
<1> QED
  BY <1>12, <1>13, <1>14

-----------------------------------------------------------------------------
(***************************************************************************)
(* What the two steps that free a block and then allocate do, once the     *)
(* panics are known to be unreachable.                                     *)
(***************************************************************************)
\* f can be allocated from, and is the freelist after blocks S were freed.
Freed(f, S) ==
  /\ S \in SUBSET Block /\ S \subseteq Blocks(CurrentMeta) /\ \A x, y \in S : x = y
  /\ f = FreeAny(fl, wmeta.txid, S) /\ f \in FreelistType
  /\ FreelistOK(f, CurrentMeta)

\* node.spill frees the old page of a node, and allocates or is rolled back.
LEMMA SpillShape ==
  ASSUME IInv, SpillNode
  PROVE  \E S \in SUBSET wmeta.tree, f \in FreelistType, n \in Nat \ {0} :
           /\ Freed(f, S)
           /\ \/ \E a \in Allocations(f, wmeta, n) :
                   /\ fl' = a.fl
                   /\ wmeta' = [a.meta EXCEPT !.tree = (a.meta.tree \ S) \cup {a.block}]
                   /\ wpc' = wpc
              \/ "alloc" \in Faults /\ RollbackFrom(f)
<1>1. PICK old \in {{}} \cup {{b} : b \in wmeta.tree \ dirty}, n \in 1 .. MaxRun :
        LET f == FreeAny(fl, wmeta.txid, old)
        IN  \/ FreeAnyPanics(fl, old) /\ Panic
            \/ /\ ~FreeAnyPanics(fl, old)
               /\ Cardinality(wmeta.tree \ old) < MaxNodes
               /\ \E a \in Allocations(f, wmeta, n) :
                    /\ fl' = a.fl
                    /\ wmeta' = [a.meta EXCEPT !.tree = (a.meta.tree \ old) \cup {a.block}]
                    /\ dirty' = dirty \cup {a.block}
               /\ UNCHANGED wpc
            \/ ~FreeAnyPanics(fl, old) /\ AllocationFails(f, n) /\ RollbackFrom(f)
  BY DEF SpillNode
<1>2. wpc = "spill" /\ Preparing
  BY DEF SpillNode, Preparing
<1>3. n \in Nat \ {0}
  BY ConstantsAssumption
<1>4. /\ WriterOK(fl, wmeta, dirty, CurrentMeta, Visible) /\ wmeta \in Meta
      /\ Base(fl, CurrentMeta, Visible, Recoverable, wmeta.txid)
  BY <1>2, WriterState
<1>5. old \subseteq wmeta.tree \ dirty /\ \A x, y \in old : x = y
  OBVIOUS
<1>6. old \subseteq Block
  BY <1>4, <1>5, MetaFields
<1> DEFINE f == FreeAny(fl, wmeta.txid, old)
           v == [wmeta EXCEPT !.tree = wmeta.tree \ old]
<1>7. /\ v \in Meta /\ v.tree = wmeta.tree \ old /\ v.freelist = wmeta.freelist
      /\ v.txid = wmeta.txid /\ v.pgid = wmeta.pgid
  BY <1>4 DEF Meta
<1> HIDE DEF f, v
<1>8. old \subseteq Blocks(wmeta) \cap Blocks(CurrentMeta)
  BY <1>4, <1>5 DEF WriterOK, Blocks
<1>9. Blocks(v) = Blocks(wmeta) \ old
  BY <1>4, <1>5, <1>7 DEF WriterOK, WellFormed, Blocks
<1>10. MayFree(fl, CurrentMeta, Visible, Recoverable, wmeta, v, dirty, old)
  BY <1>4, <1>5, <1>7, <1>8, <1>9 DEF MayFree
<1>11. /\ ~FreeAnyPanics(fl, old) /\ f \in FreelistType
       /\ Prepared(f, CurrentMeta, Visible, Recoverable, wmeta, v, dirty)
  BY <1>10, FreeAnyKeepsWriter DEF f
<1>12. FreelistOK(f, CurrentMeta)
  BY <1>11 DEF Prepared, Base
<1>13. Freed(f, old)
  BY <1>5, <1>6, <1>8, <1>11, <1>12 DEF Freed, f
<1>14. \/ \E a \in Allocations(f, wmeta, n) :
            /\ fl' = a.fl
            /\ wmeta' = [a.meta EXCEPT !.tree = (a.meta.tree \ old) \cup {a.block}]
            /\ wpc' = wpc
       \/ "alloc" \in Faults /\ RollbackFrom(f)
  BY <1>1, <1>11 DEF f, AllocationFails
<1> QED
  BY <1>3, <1>5, <1>11, <1>13, <1>14

\* Commit frees the freelist page, and allocates a new one, does without, or is
\* rolled back.
LEMMA CommitShape ==
  ASSUME IInv, CommitFreelist
  PROVE  \E f \in FreelistType :
           /\ Freed(f, wmeta.freelist) /\ EstimatedPages(f) \in Nat \ {0}
           /\ \/ /\ fl' = f /\ wmeta' = [wmeta EXCEPT !.freelist = {}, !.ids = {}]
                 /\ wpc' = "write"
              \/ \E a \in Allocations(f, wmeta, EstimatedPages(f)) :
                   /\ fl' = a.fl
                   /\ wmeta' = [a.meta EXCEPT !.freelist = {a.block}, !.ids = Copyall(a.fl)]
                   /\ wpc' = "write"
              \/ \E a \in Allocations(f, wmeta, EstimatedPages(f)) :
                   "grow" \in Faults /\ RollbackFrom(a.fl)
              \/ "alloc" \in Faults /\ RollbackFrom(f)
<1> DEFINE old == wmeta.freelist
           f == FreeAny(fl, wmeta.txid, old)
           n == EstimatedPages(f)
           v == [wmeta EXCEPT !.freelist = {}]
<1>1. \/ FreeAnyPanics(fl, old) /\ Panic
      \/ /\ fl' = f /\ wmeta' = [wmeta EXCEPT !.freelist = {}, !.ids = {}]
         /\ wpc' = "write"
      \/ \E a \in Allocations(f, wmeta, n) :
           /\ fl' = a.fl
           /\ wmeta' = [a.meta EXCEPT !.freelist = {a.block}, !.ids = Copyall(a.fl)]
           /\ wpc' = "write"
      \/ \E a \in Allocations(f, wmeta, n) : "grow" \in Faults /\ RollbackFrom(a.fl)
      \/ "alloc" \in Faults /\ RollbackFrom(f)
  BY DEF CommitFreelist, AllocationFails
<1>2. wpc = "spill" /\ Preparing /\ wmeta.freelist = CurrentMeta.freelist
  BY DEF CommitFreelist, Preparing, IInv, WriterInv
<1>3. /\ WriterOK(fl, wmeta, dirty, CurrentMeta, Visible) /\ wmeta \in Meta
      /\ Base(fl, CurrentMeta, Visible, Recoverable, wmeta.txid)
  BY <1>2, WriterState
<1>4. /\ v \in Meta /\ v.tree = wmeta.tree /\ v.freelist = {}
      /\ v.txid = wmeta.txid /\ v.pgid = wmeta.pgid
  BY <1>3 DEF Meta
<1>5. old \subseteq Blocks(wmeta) \cap Blocks(CurrentMeta) /\ \A x, y \in old : x = y
  BY <1>2, <1>3 DEF WriterOK, WellFormed, Blocks
<1>6. old \subseteq Block
  BY <1>3, MetaFields
<1> HIDE DEF v
<1>7. Blocks(v) = Blocks(wmeta) \ old
  BY <1>3, <1>4 DEF WriterOK, WellFormed, Blocks
<1> HIDE DEF old, f, n
<1>8. MayFree(fl, CurrentMeta, Visible, Recoverable, wmeta, v, dirty, old)
  BY <1>3, <1>4, <1>5, <1>7 DEF MayFree
<1>9. /\ ~FreeAnyPanics(fl, old) /\ f \in FreelistType
      /\ Prepared(f, CurrentMeta, Visible, Recoverable, wmeta, v, dirty)
  BY <1>8, FreeAnyKeepsWriter DEF f
<1>10. FreelistOK(f, CurrentMeta)
  BY <1>9 DEF Prepared, Base
<1>11. Freed(f, old)
  BY <1>5, <1>6, <1>9, <1>10 DEF Freed, f
<1>12. n \in Nat \ {0}
  BY <1>9, <1>10, EstimatedPagesPositive DEF n
<1> QED
  BY <1>1, <1>9, <1>11, <1>12 DEF n, old

\* A commit writes only what fits.
LEMMA CommitFits ==
  ASSUME IInv, CommitFreelist, wpc' = "write"
  PROVE  Fits(wmeta')
<1>1. PICK f \in FreelistType :
        /\ Freed(f, wmeta.freelist) /\ EstimatedPages(f) \in Nat \ {0}
        /\ \/ wmeta' = [wmeta EXCEPT !.freelist = {}, !.ids = {}]
           \/ \E a \in Allocations(f, wmeta, EstimatedPages(f)) :
                wmeta' = [a.meta EXCEPT !.freelist = {a.block}, !.ids = Copyall(a.fl)]
           \/ \E a \in Allocations(f, wmeta, EstimatedPages(f)) : RollbackFrom(a.fl)
           \/ RollbackFrom(f)
  BY CommitShape
<1>2. wmeta \in Meta
  BY WriterState
<1>3. ASSUME NEW g, RollbackFrom(g) PROVE FALSE
  BY <1>3 DEF RollbackFrom, Panic, Close
<1>4. CASE wmeta' = [wmeta EXCEPT !.freelist = {}, !.ids = {}]
  BY <1>2, <1>4 DEF Meta, Fits
<1>5. ASSUME NEW a \in Allocations(f, wmeta, EstimatedPages(f)),
             wmeta' = [a.meta EXCEPT !.freelist = {a.block}, !.ids = Copyall(a.fl)]
      PROVE  Fits(wmeta')
  <2> DEFINE n == EstimatedPages(f)
  <2>1. f \in FreelistType /\ n \in Nat \ {0} /\ a \in Allocations(f, wmeta, n) /\ Freed(f, wmeta.freelist)
    BY <1>1
  <2> HIDE DEF n
  <2>2. /\ a.block.overflow = n - 1
        /\ a.meta = [wmeta EXCEPT !.pgid = a.meta.pgid]
        /\ Copyall(a.fl) \subseteq Copyall(f)
    BY <1>2, <2>1, AllocationsShape
  <2>3. Words(Cardinality(Copyall(a.fl))) <= IdsPerPage * n
    BY <2>2, <2>1, EstimateCovers DEF Freed, n
  <2>4. wmeta'.freelist = {a.block} /\ wmeta'.ids = Copyall(a.fl)
    BY <1>2, <1>5, <2>2 DEF Meta
  <2>5. a.block.overflow + 1 = n
    BY <2>2, <2>1
  <2> QED
    BY <2>3, <2>4, <2>5 DEF Fits
<1> QED
  BY <1>1, <1>3, <1>4, <1>5

\* The invariant about the freelist page is inductive.
LEMMA FitsInductive == ASSUME IInv, FitsInv, [Next]_vars PROVE FitsInv'
<1> SUFFICES ASSUME NEW m \in Known' PROVE Fits(m)
  BY DEF FitsInv, Fits
<1>1. m \in Known \/ (CommitFreelist /\ wpc' = "write" /\ m = wmeta')
  BY KnownMetas
<1>2. CASE m \in Known
  BY <1>2 DEF FitsInv
<1> QED
  BY <1>1, <1>2, CommitFits

LEMMA FitsInit == Init => FitsInv
<1> SUFFICES ASSUME Init, NEW m \in Known PROVE Fits(m)
  BY DEF FitsInv
<1>1. m \in {InitMeta(0), InitMeta(1)}
  BY DEF Init, Known, Committing, Slots
<1>2. m.ids = {} /\ m.freelist = {[id |-> 2, overflow |-> 0]}
  BY <1>1 DEF InitMeta
<1>3. Cardinality(m.ids) = 0
  BY <1>2, FS_EmptySet
<1> QED
  BY <1>2, <1>3, ConstantsAssumption DEF Fits, Words

\* The page that Commit allocates for the freelist, before the freelist has its
\* final contents, holds them: on every meta page that a reader or a crash can
\* make use of.
THEOREM FreelistAlwaysFits == Spec => []FreelistFits
<1>1. FitsInv => FreelistFits
  BY DEF FitsInv, FreelistFits, Fits, Visible, Known, Recoverable, Newer
<1>2. IInv /\ FitsInv /\ [Next]_vars => FitsInv'
  BY FitsInductive
<1> QED
  BY <1>1, <1>2, FitsInit, Invariance, PTL DEF Spec

-----------------------------------------------------------------------------
(***************************************************************************)
(* A beginning write transaction leaves no page pending without a reader.  *)
(***************************************************************************)
\* A page that stays pending for a transaction between two readers, or after the
\* last one, was allocated before that extent began: either that has just been
\* looked at, or it was when the extent was looked at.
LEMMA KeptInExtent ==
  ASSUME NEW f \in FreelistType, Looked(f), NEW e \in f.pending \ Released(f),
         e.alloctx < e.tx, InExtent(f, e.tx)
  PROVE  e.alloctx < ExtentBegin(f, e.tx)
<1>1. e \in Entry /\ e.tx \in Txids /\ e.tx \in Nat /\ e.alloctx \in Nat
  BY BoundsAssumption DEF FreelistType, Entry, Txids
<1>2. ExtentBegin(f, e.tx) \in Nat
  BY <1>1, ExtentBeginBounds DEF InExtent
<1>3. Max(Below(f, e.tx)) \in Nat /\ ExtentBegin(f, e.tx) = Max(Below(f, e.tx)) + 1
  <2>1. Below(f, e.tx) \in SUBSET Txids /\ Below(f, e.tx) # {}
    BY DEF Below, OpenTxids, FreelistType, InExtent
  <2>2. Max(Below(f, e.tx)) \in Txids
    BY <2>1, MaxOfTxids
  <2> QED
    BY <2>2, BoundsAssumption DEF Txids, ExtentBegin
<1>4. CASE f.lastReleaseBegin[e.tx] = ExtentBegin(f, e.tx)
  BY <1>3, <1>4 DEF Looked
<1>5. CASE f.lastReleaseBegin[e.tx] # ExtentBegin(f, e.tx)
  <2>1. ~ByReleaseRange(f, e)
    BY DEF Released
  <2>2. \A r \in OpenTxids(f) : r \in Nat
    BY BoundsAssumption DEF OpenTxids, FreelistType, Txids
  <2>3. \A r \in OpenTxids(f) : e.tx < r => e.alloctx < r
    BY <1>1, <2>2
  <2>4. ~(ExtentBegin(f, e.tx) <= e.alloctx)
    BY <1>5, <2>1, <2>3 DEF ByReleaseRange, Examined
  <2> QED
    BY <1>1, <1>2, <2>4
<1> QED
  BY <1>4, <1>5

\* What ReleasePendingPages does to lastReleaseBegin.
LEMMA ReleaseForgets ==
  ASSUME NEW f \in FreelistType, NEW t \in Txids
  PROVE  LET g == ReleasePendingPages(f) IN
         /\ (\A e \in g.pending : e.tx # t) => g.lastReleaseBegin[t] = 0
         /\ (\E e \in g.pending : e.tx = t) =>
              g.lastReleaseBegin[t] = IF InExtent(f, t) THEN ExtentBegin(f, t)
                                      ELSE f.lastReleaseBegin[t]
<1> DEFINE kept == f.pending \ Released(f)
<1>1. ReleasePendingPages(f).pending = kept
  BY ReleaseFields
<1>2. ReleasePendingPages(f).lastReleaseBegin[t] =
        IF \A e \in kept : e.tx # t THEN 0
        ELSE IF InExtent(f, t) THEN ExtentBegin(f, t) ELSE f.lastReleaseBegin[t]
  BY DEF ReleasePendingPages, FreelistType
<1> HIDE DEF kept
<1> QED
  BY <1>1, <1>2

LEMMA ReleaseLooked ==
  ASSUME NEW f \in FreelistType, Looked(f), \A e \in f.pending : e.alloctx < e.tx
  PROVE  Looked(ReleasePendingPages(f))
<1> DEFINE g == ReleasePendingPages(f)
<1>1. g.pending = f.pending \ Released(f) /\ g.pending \subseteq f.pending
  BY ReleaseFields
<1> HIDE DEF g
<1>2. ASSUME NEW e \in g.pending PROVE g.lastReleaseBegin[e.tx] = 0 \/ e.alloctx < g.lastReleaseBegin[e.tx]
  <2>1. e.tx \in Txids
    BY <1>1, <1>2 DEF FreelistType, Entry
  <2>2. g.lastReleaseBegin[e.tx] = IF InExtent(f, e.tx) THEN ExtentBegin(f, e.tx)
                                   ELSE f.lastReleaseBegin[e.tx]
    BY <1>2, <2>1, ReleaseForgets DEF g
  <2>3. CASE InExtent(f, e.tx)
    BY <1>1, <1>2, <2>2, <2>3, KeptInExtent
  <2>4. CASE ~InExtent(f, e.tx)
    BY <1>1, <1>2, <2>2, <2>4 DEF Looked
  <2> QED
    BY <2>3, <2>4
<1>3. ASSUME NEW t \in Txids, g.lastReleaseBegin[t] # 0 PROVE \E e \in g.pending : e.tx = t
  BY <1>3, ReleaseForgets DEF g
<1> QED
  BY <1>2, <1>3 DEF Looked, g

\* Free adds pages for a transaction no extent has been looked at for.
LEMMA FreeLooked ==
  ASSUME NEW f \in FreelistType, NEW T \in Txids, NEW S \in SUBSET Block, \A x, y \in S : x = y,
         Looked(f), f.lastReleaseBegin[T] = 0
  PROVE  Looked(FreeAny(f, T, S)) /\ FreeAny(f, T, S).lastReleaseBegin[T] = 0
<1> DEFINE g == FreeAny(f, T, S)
<1>1. /\ g.lastReleaseBegin = f.lastReleaseBegin
      /\ f.pending \subseteq g.pending /\ \A e \in g.pending \ f.pending : e.tx = T
  BY FreeAnyShape
<1> HIDE DEF g
<1>2. Looked(g) /\ g.lastReleaseBegin[T] = 0
  BY <1>1 DEF Looked
<1> QED
  BY <1>2 DEF g

\* Rollback forgets all of a transaction.
LEMMA RollbackLooked ==
  ASSUME NEW f \in FreelistType, NEW T \in Txids, Looked(f)
  PROVE  Looked(Rollback(f, T))
<1>1. CASE PendingOf(f, T) = {}
  BY <1>1 DEF Rollback
<1>2. CASE PendingOf(f, T) # {}
  <2> DEFINE g == Rollback(f, T)
  <2>1. g.pending = {e \in f.pending : e.tx # T}
    BY <1>2, RollbackFields
  <2>2. g.lastReleaseBegin = [f.lastReleaseBegin EXCEPT ![T] = 0]
    BY <1>2 DEF Rollback, FreelistType
  <2>3. \A t \in Txids : g.lastReleaseBegin[t] = IF t = T THEN 0 ELSE f.lastReleaseBegin[t]
    BY <2>2 DEF FreelistType
  <2> HIDE DEF g
  <2>4. \A e \in g.pending : e.tx \in Txids /\ e \in f.pending /\ e.tx # T
    BY <2>1 DEF FreelistType, Entry
  <2>5. Looked(g)
    BY <2>1, <2>3, <2>4 DEF Looked
  <2> QED
    BY <2>5 DEF g
<1> QED
  BY <1>1, <1>2

\* When a write transaction begins, its txid is that of nothing pending.
LEMMA NothingPending ==
  ASSUME IInv, wpc = "idle"
  PROVE  \A e \in fl.pending : e.tx # CurrentMeta.txid + 1 /\ e.alloctx < e.tx
<1> SUFFICES ASSUME NEW e \in fl.pending
             PROVE  e.tx # CurrentMeta.txid + 1 /\ e.alloctx < e.tx
  OBVIOUS
<1>1. e.alloctx < e.tx /\ e.tx \in Nat /\ e.alloctx \in Nat
  BY WriterState, BoundsAssumption DEF IInv, FreelistOK, FreelistType, Entry, Txids
<1>2. CurrentMeta \in Recoverable /\ CurrentMeta.txid \in Nat
  BY WriterState, MetaFields DEF Base
<1>3. e.tx <= CurrentMeta.txid \/ e.tx = 0
  BY <1>2 DEF IInv, PendingOK, WriterInv, NilMeta
<1> QED
  BY <1>1, <1>2, <1>3

\* A step that gives up the transaction forgets what it freed.
LEMMA GiveUpLooked ==
  ASSUME IInv, IInv', NEW f \in FreelistType, RollbackFrom(f), Looked(f)
  PROVE  ReleaseInv'
<1>1. wpc' # "panic"
  BY DEF IInv, WriterInv
<1>2. fl' = Rollback(f, wmeta.txid) /\ wpc' = "idle"
  BY <1>1 DEF RollbackFrom, Panic, Close
<1>3. wmeta.txid \in Txids
  BY WriterState
<1> QED
  BY <1>2, <1>3, RollbackLooked DEF ReleaseInv

\* What is remembered of extents is invariant.
LEMMA ReleaseInductive == ASSUME IInv, IInv', ReleaseInv, [Next]_vars PROVE ReleaseInv'
<1>1. fl \in FreelistType /\ wmeta.txid \in Txids /\ wmeta \in Meta
  BY WriterState
<1>2. ASSUME UNCHANGED <<fl, wmeta>>, wpc # "idle" PROVE ReleaseInv'
  BY <1>2 DEF ReleaseInv, Looked
<1>3. ASSUME RollbackFrom(fl) PROVE ReleaseInv'
  BY <1>1, <1>3, GiveUpLooked DEF ReleaseInv
<1>4. CASE \E r \in Readers : Reader(r)
  <2>1. /\ fl'.pending = fl.pending /\ fl'.lastReleaseBegin = fl.lastReleaseBegin
        /\ UNCHANGED <<wpc, wmeta>>
    BY <1>1, <1>4 DEF Reader, BeginTx, RegisterTx, RemoveTx, txVars, AddReadonlyTXID,
       RemoveReadonlyTXID, FreelistType
  <2> QED
    BY <2>1 DEF ReleaseInv, Looked
<1>5. CASE BeginRWTx
  <2>1. wpc = "idle" /\ fl' = ReleasePendingPages(fl) /\ wmeta' = [CurrentMeta EXCEPT !.txid = CurrentMeta.txid + 1]
    BY <1>5 DEF BeginRWTx
  <2>2. \A e \in fl.pending : e.tx # CurrentMeta.txid + 1 /\ e.alloctx < e.tx
    BY <2>1, NothingPending
  <2>3. Looked(fl')
    BY <1>1, <2>1, <2>2, ReleaseLooked DEF ReleaseInv
  <2>4. wmeta'.txid = CurrentMeta.txid + 1
    BY <2>1, WriterState DEF Meta
  <2>5. wmeta'.txid \in Txids
    BY WriterState, MetaFields DEF IInv, TypeOK
  <2>6. fl'.pending \subseteq fl.pending
    BY <1>1, <2>1, ReleaseFields
  <2>7. fl'.lastReleaseBegin[wmeta'.txid] = 0
    BY <2>2, <2>3, <2>4, <2>5, <2>6 DEF Looked
  <2> QED
    BY <2>3, <2>7 DEF ReleaseInv
<1>6. CASE UserRollback
  BY <1>3, <1>6 DEF UserRollback
<1>7. CASE FreePage
  <2>1. PICK b \in wmeta.tree :
          IF FreePanics(fl, b) THEN Panic
          ELSE /\ fl' = Free(fl, wmeta.txid, b)
               /\ wmeta' = [wmeta EXCEPT !.tree = wmeta.tree \ {b}]
               /\ UNCHANGED <<wpc, dirty>>
    BY <1>7 DEF FreePage
  <2>2. ~Panic
    BY DEF Panic, IInv, WriterInv
  <2>3. fl' = FreeAny(fl, wmeta.txid, {b}) /\ wmeta'.txid = wmeta.txid /\ wpc = "body"
    BY <1>1, <1>7, <2>1, <2>2 DEF FreeAny, FreePage, Meta
  <2>4. {b} \in SUBSET Block /\ \A x, y \in {b} : x = y
    BY <1>1 DEF Meta
  <2>5. fl.lastReleaseBegin[wmeta.txid] = 0
    BY <2>3 DEF ReleaseInv
  <2> QED
    BY <1>1, <2>3, <2>4, <2>5, FreeLooked DEF ReleaseInv
<1>8. CASE StartSpill
  BY <1>2, <1>8 DEF StartSpill
<1>9. CASE SpillNode
  <2>1. PICK S \in SUBSET wmeta.tree, f \in FreelistType, n \in Nat \ {0} :
           /\ Freed(f, S)
           /\ \/ \E a \in Allocations(f, wmeta, n) :
                   /\ fl' = a.fl
                   /\ wmeta' = [a.meta EXCEPT !.tree = (a.meta.tree \ S) \cup {a.block}]
                   /\ wpc' = wpc
              \/ "alloc" \in Faults /\ RollbackFrom(f)
    BY <1>9, SpillShape
  <2>2. wpc = "spill" /\ fl.lastReleaseBegin[wmeta.txid] = 0
    BY <1>9 DEF SpillNode, ReleaseInv
  <2>3. Looked(f) /\ f.lastReleaseBegin[wmeta.txid] = 0
    BY <1>1, <2>1, <2>2, FreeLooked DEF Freed, ReleaseInv
  <2>4. ASSUME NEW a \in Allocations(f, wmeta, n), fl' = a.fl,
               wmeta' = [a.meta EXCEPT !.tree = (a.meta.tree \ S) \cup {a.block}]
        PROVE  ReleaseInv'
    <3>1. /\ a.meta = [wmeta EXCEPT !.pgid = a.meta.pgid]
          /\ a.fl.pending = f.pending /\ a.fl.lastReleaseBegin = f.lastReleaseBegin
      BY <1>1, AllocationsShape
    <3>2. wmeta'.txid = wmeta.txid
      BY <1>1, <2>4, <3>1 DEF Meta
    <3> QED
      BY <2>3, <2>4, <3>1, <3>2 DEF ReleaseInv, Looked
  <2> QED
    BY <2>1, <2>3, <2>4, GiveUpLooked
<1>10. CASE CommitFreelist
  <2>1. PICK f \in FreelistType :
           /\ Freed(f, wmeta.freelist) /\ EstimatedPages(f) \in Nat \ {0}
           /\ \/ /\ fl' = f /\ wmeta' = [wmeta EXCEPT !.freelist = {}, !.ids = {}]
                 /\ wpc' = "write"
              \/ \E a \in Allocations(f, wmeta, EstimatedPages(f)) :
                   /\ fl' = a.fl
                   /\ wmeta' = [a.meta EXCEPT !.freelist = {a.block}, !.ids = Copyall(a.fl)]
                   /\ wpc' = "write"
              \/ \E a \in Allocations(f, wmeta, EstimatedPages(f)) :
                   "grow" \in Faults /\ RollbackFrom(a.fl)
              \/ "alloc" \in Faults /\ RollbackFrom(f)
    BY <1>10, CommitShape
  <2>2. wpc = "spill" /\ fl.lastReleaseBegin[wmeta.txid] = 0
    BY <1>10 DEF CommitFreelist, ReleaseInv
  <2>3. Looked(f) /\ f.lastReleaseBegin[wmeta.txid] = 0
    BY <1>1, <2>1, <2>2, FreeLooked DEF Freed, ReleaseInv
  <2>4. CASE fl' = f /\ wmeta' = [wmeta EXCEPT !.freelist = {}, !.ids = {}]
    <3>1. wmeta'.txid = wmeta.txid
      BY <1>1, <2>4 DEF Meta
    <3> QED
      BY <2>3, <2>4, <3>1 DEF ReleaseInv
  <2> DEFINE n == EstimatedPages(f)
  <2> HIDE DEF n
  <2>5. n \in Nat \ {0}
    BY <2>1 DEF n
  <2>6. ASSUME NEW a \in Allocations(f, wmeta, n)
        PROVE  /\ a.meta = [wmeta EXCEPT !.pgid = a.meta.pgid]
               /\ Looked(a.fl) /\ a.fl.lastReleaseBegin[wmeta.txid] = 0
    <3>1. /\ a.meta = [wmeta EXCEPT !.pgid = a.meta.pgid]
          /\ a.fl.pending = f.pending /\ a.fl.lastReleaseBegin = f.lastReleaseBegin
      BY <1>1, <2>5, AllocationsShape
    <3> QED
      BY <2>3, <3>1 DEF Looked
  <2>7. ASSUME NEW a \in Allocations(f, wmeta, n), fl' = a.fl,
               wmeta' = [a.meta EXCEPT !.freelist = {a.block}, !.ids = Copyall(a.fl)]
        PROVE  ReleaseInv'
    <3>1. wmeta'.txid = wmeta.txid
      BY <1>1, <2>6, <2>7 DEF Meta
    <3> QED
      BY <2>6, <2>7, <3>1 DEF ReleaseInv
  <2>8. ASSUME NEW a \in Allocations(f, wmeta, n), RollbackFrom(a.fl) PROVE ReleaseInv'
    <3>1. a.fl \in FreelistType
      BY <1>1, <2>5, AllocationsShape
    <3> QED
      BY <2>6, <2>8, <3>1, GiveUpLooked
  <2> QED
    BY <2>1, <2>3, <2>4, <2>7, <2>8, GiveUpLooked DEF n
<1>11. CASE WriteData \/ SyncData \/ WriteMeta
  BY <1>2, <1>3, <1>11 DEF WriteData, SyncData, WriteMeta
<1>12. CASE SyncMeta
  <2>1. RollbackFrom(fl) \/ (UNCHANGED fl /\ wpc' = "idle")
    BY <1>12 DEF SyncMeta, Close
  <2> QED
    BY <1>3, <2>1 DEF ReleaseInv
<1>13. CASE Restart
  <2>1. PICK ids : fl' = Loaded(ids)
    BY <1>13 DEF Restart, OpenFreelist
  <2>2. wpc' = "idle"
    BY <1>13 DEF Restart, Close
  <2> QED
    BY <2>1, <2>2 DEF ReleaseInv, Looked, Loaded
<1>14. CASE UNCHANGED vars
  BY <1>14 DEF vars, txVars, ReleaseInv, Looked
<1> QED
  BY <1>4, <1>5, <1>6, <1>7, <1>8, <1>9, <1>10, <1>11, <1>12, <1>13, <1>14 DEF Next, Writer

\* Whatever ReleasePendingPages leaves pending when a write transaction begins
\* stays for an open reader whose txid lies between the page's allocation and the
\* txid that freed it, both included: remembering in lastReleaseBegin which extents
\* have been looked at never makes it overlook another.  At the freeing txid itself
\* the code keeps the page although that reader cannot see it, and so does this.
THEOREM NothingOverlooked == Spec => ReleaseComplete
<1> DEFINE Complete == wpc = "idle" /\ wpc' = "body" =>
             \A e \in fl'.pending : \E r \in OpenTxids(fl) : e.alloctx <= r /\ r <= e.tx
<1>1. ASSUME IInv, ReleaseInv, [Next]_vars PROVE [Complete]_vars
  <2> SUFFICES ASSUME wpc = "idle", wpc' = "body", NEW e \in fl'.pending
               PROVE  \E r \in OpenTxids(fl) : e.alloctx <= r /\ r <= e.tx
    OBVIOUS
  <2>1. BeginRWTx
    BY <1>1 DEF Next, Reader, BeginTx, RegisterTx, RemoveTx, Writer, UserRollback, FreePage, StartSpill,
       SpillNode, CommitFreelist, WriteData, SyncData, WriteMeta, SyncMeta, Restart, Close, vars, txVars
  <2>2. fl \in FreelistType /\ fl' = ReleasePendingPages(fl)
    BY <1>1, <2>1, WriterState DEF BeginRWTx
  <2>3. e \in fl.pending \ Released(fl)
    BY <2>2, ReleaseFields
  <2>4. e.alloctx < e.tx
    BY <1>1, <2>3, NothingPending
  <2>5. e.tx \in Txids /\ e.tx \in Nat /\ e.alloctx \in Nat
    BY <2>2, <2>3, BoundsAssumption DEF FreelistType, Entry, Txids
  <2>6. OpenTxids(fl) \subseteq Txids /\ \A r \in OpenTxids(fl) : r \in Nat
    BY <2>2, BoundsAssumption DEF OpenTxids, FreelistType, Txids
  <2>7. CASE e.tx \in OpenTxids(fl)
    BY <2>4, <2>5, <2>7
  <2>8. CASE e.tx \notin OpenTxids(fl)
    <3>1. PICK r \in OpenTxids(fl) : ~(e.tx < r)
      BY <2>3 DEF Released, ByRelease
    <3>2. r \in Below(fl, e.tx)
      BY <2>5, <2>6, <2>8 , <3>1 DEF Below
    <3>3. InExtent(fl, e.tx)
      BY <2>8, <3>2 DEF InExtent
    <3>4. e.alloctx < ExtentBegin(fl, e.tx)
      BY <1>1, <2>2, <2>3, <2>4, <3>3, KeptInExtent DEF ReleaseInv
    <3> DEFINE M == Max(Below(fl, e.tx))
    <3>5. M \in Below(fl, e.tx)
      BY <2>6, <3>2, MaxOfTxids DEF Below
    <3>6. M \in OpenTxids(fl) /\ M < e.tx
      BY <3>5 DEF Below
    <3>7. e.alloctx < M + 1
      BY <3>4 DEF ExtentBegin
    <3> HIDE DEF M
    <3>8. e.alloctx <= M /\ M <= e.tx
      BY <2>5, <2>6, <3>6, <3>7
    <3> QED
      BY <3>6, <3>8
  <2> QED
    BY <2>7, <2>8
<1>2. Init => ReleaseInv
  BY DEF Init, ReleaseInv, Looked, Loaded
<1>3. IInv /\ IInv' /\ ReleaseInv /\ [Next]_vars => ReleaseInv'
  BY ReleaseInductive
<1>4. Spec => [][Complete]_vars
  BY <1>1, <1>2, <1>3, Invariance, PTL DEF Spec
<1> QED
  BY <1>4 DEF ReleaseComplete

-----------------------------------------------------------------------------
(***************************************************************************)
(* No page is lost while no operation of the environment fails.            *)
(***************************************************************************)
\* A new tree or freelist page accounts for what the old one did, if what it
\* gave up is in the new freelist, and so is or it uses what lies past the mark.
LEMMA AccountsMove ==
  ASSUME NEW w \in Meta, NEW v \in Meta, NEW ids, NEW jds, Accounts(w, ids),
         Used(w) \cup ids \subseteq Used(v) \cup jds,
         w.pgid .. (v.pgid - 1) \subseteq Used(v) \cup jds
  PROVE  Accounts(v, jds)
<1> SUFFICES ASSUME NEW p \in 2 .. (v.pgid - 1) PROVE p \in Used(v) \cup jds
  BY DEF Accounts
<1>1. p \in 2 .. (w.pgid - 1) \/ p \in w.pgid .. (v.pgid - 1)
  BY MetaFields
<1> QED
  BY <1>1 DEF Accounts

\* A page that a meta uses is used by the meta that has its blocks but those in
\* S, or is in S.
LEMMA UsedWithout ==
  ASSUME NEW w, NEW v, NEW S, Blocks(w) \subseteq Blocks(v) \cup S
  PROVE  Used(w) \subseteq Used(v) \cup Span(S)
BY UsedElement, SpanElement

\* The operations of the environment cannot fail, so no transaction is given up
\* once Commit has begun.
NothingFails == Faults \subseteq {"crash"}

\* What spilling a node allocates and frees stays accounted for.
LEMMA SpillLeak ==
  ASSUME IInv, IInv', LeakInv, NothingFails, SpillNode
  PROVE  Accounts(wmeta', Copyall(fl')) /\ wpc' = "spill"
<1>1. PICK S \in SUBSET wmeta.tree, f \in FreelistType, n \in Nat \ {0} :
         /\ Freed(f, S)
         /\ \/ \E a \in Allocations(f, wmeta, n) :
                 /\ fl' = a.fl
                 /\ wmeta' = [a.meta EXCEPT !.tree = (a.meta.tree \ S) \cup {a.block}]
                 /\ wpc' = wpc
            \/ "alloc" \in Faults /\ RollbackFrom(f)
  BY SpillShape
<1>2. PICK a \in Allocations(f, wmeta, n) :
         /\ fl' = a.fl
         /\ wmeta' = [a.meta EXCEPT !.tree = (a.meta.tree \ S) \cup {a.block}]
         /\ wpc' = wpc
  BY <1>1 DEF NothingFails
<1>3. wpc = "spill" /\ Accounts(wmeta, Copyall(fl)) /\ wmeta \in Meta /\ wmeta' \in Meta
      /\ wmeta.txid \in Txids /\ fl \in FreelistType
  BY WriterState DEF SpillNode, LeakInv, IInv, TypeOK
<1>4. /\ a.meta = [wmeta EXCEPT !.pgid = a.meta.pgid]
      /\ Copyall(f) \subseteq Copyall(a.fl) \cup Ids(a.block)
      /\ wmeta.pgid .. (a.meta.pgid - 1) \subseteq Ids(a.block)
  BY <1>3, AllocationsShape
<1>5. Copyall(f) = Copyall(fl) \cup Span(S)
  BY <1>1, <1>3, FreeAnyShape DEF Freed
<1>6. /\ wmeta'.tree = (wmeta.tree \ S) \cup {a.block} /\ wmeta'.freelist = wmeta.freelist
      /\ wmeta'.pgid = a.meta.pgid
  BY <1>2, <1>3, <1>4 DEF Meta
<1>7. Blocks(wmeta) \subseteq Blocks(wmeta') \cup S /\ a.block \in Blocks(wmeta')
  BY <1>6 DEF Blocks
<1>8. Used(wmeta) \subseteq Used(wmeta') \cup Span(S) /\ Ids(a.block) \subseteq Used(wmeta')
  BY <1>7, UsedWithout, UsedElement
<1>9. /\ Used(wmeta) \cup Copyall(fl) \subseteq Used(wmeta') \cup Copyall(fl')
      /\ wmeta.pgid .. (wmeta'.pgid - 1) \subseteq Used(wmeta') \cup Copyall(fl')
  BY <1>2, <1>4, <1>5, <1>6, <1>8
<1> QED
  BY <1>2, <1>3, <1>9, AccountsMove

\* So does what Commit frees and allocates for the freelist.
LEMMA CommitLeak ==
  ASSUME IInv, IInv', LeakInv, NothingFails, CommitFreelist
  PROVE  /\ Accounts(wmeta', Copyall(fl')) /\ wpc' = "write"
         /\ wmeta'.freelist # {} => wmeta'.ids = Copyall(fl')
<1>1. PICK f \in FreelistType :
         /\ Freed(f, wmeta.freelist) /\ EstimatedPages(f) \in Nat \ {0}
         /\ \/ /\ fl' = f /\ wmeta' = [wmeta EXCEPT !.freelist = {}, !.ids = {}]
               /\ wpc' = "write"
            \/ \E a \in Allocations(f, wmeta, EstimatedPages(f)) :
                 /\ fl' = a.fl
                 /\ wmeta' = [a.meta EXCEPT !.freelist = {a.block}, !.ids = Copyall(a.fl)]
                 /\ wpc' = "write"
            \/ \E a \in Allocations(f, wmeta, EstimatedPages(f)) :
                 "grow" \in Faults /\ RollbackFrom(a.fl)
            \/ "alloc" \in Faults /\ RollbackFrom(f)
  BY CommitShape
<1>2. wpc = "spill" /\ Accounts(wmeta, Copyall(fl)) /\ wmeta \in Meta /\ wmeta' \in Meta
      /\ wmeta.txid \in Txids /\ fl \in FreelistType
  BY WriterState DEF CommitFreelist, LeakInv, IInv, TypeOK
<1>3. Copyall(f) = Copyall(fl) \cup Span(wmeta.freelist)
  BY <1>1, <1>2, FreeAnyShape DEF Freed
<1>4. CASE fl' = f /\ wmeta' = [wmeta EXCEPT !.freelist = {}, !.ids = {}] /\ wpc' = "write"
  <2>1. wmeta'.tree = wmeta.tree /\ wmeta'.freelist = {} /\ wmeta'.pgid = wmeta.pgid
    BY <1>2, <1>4 DEF Meta
  <2>2. Blocks(wmeta) \subseteq Blocks(wmeta') \cup wmeta.freelist
    BY <2>1 DEF Blocks
  <2>3. Used(wmeta) \subseteq Used(wmeta') \cup Span(wmeta.freelist)
    BY <2>2, UsedWithout
  <2>4. wmeta.pgid .. (wmeta'.pgid - 1) = {}
    BY <1>2, <2>1, MetaFields
  <2>5. Used(wmeta) \cup Copyall(fl) \subseteq Used(wmeta') \cup Copyall(fl')
    BY <1>3, <1>4, <2>3
  <2> QED
    BY <1>2, <1>4, <2>1, <2>4, <2>5, AccountsMove
<1> DEFINE n == EstimatedPages(f)
<1> HIDE DEF n
<1>5. ASSUME NEW a \in Allocations(f, wmeta, n), fl' = a.fl,
             wmeta' = [a.meta EXCEPT !.freelist = {a.block}, !.ids = Copyall(a.fl)]
      PROVE  Accounts(wmeta', Copyall(fl')) /\ wmeta'.ids = Copyall(fl')
  <2>1. n \in Nat \ {0}
    BY <1>1 DEF n
  <2>2. /\ a.meta = [wmeta EXCEPT !.pgid = a.meta.pgid]
        /\ Copyall(f) \subseteq Copyall(a.fl) \cup Ids(a.block)
        /\ wmeta.pgid .. (a.meta.pgid - 1) \subseteq Ids(a.block)
    BY <1>2, <2>1, AllocationsShape
  <2>3. /\ wmeta'.tree = wmeta.tree /\ wmeta'.freelist = {a.block}
        /\ wmeta'.pgid = a.meta.pgid /\ wmeta'.ids = Copyall(fl')
    BY <1>2, <1>5, <2>2 DEF Meta
  <2>4. Blocks(wmeta) \subseteq Blocks(wmeta') \cup wmeta.freelist /\ a.block \in Blocks(wmeta')
    BY <2>3 DEF Blocks
  <2>5. Used(wmeta) \subseteq Used(wmeta') \cup Span(wmeta.freelist) /\ Ids(a.block) \subseteq Used(wmeta')
    BY <2>4, UsedWithout, UsedElement
  <2>6. /\ Used(wmeta) \cup Copyall(fl) \subseteq Used(wmeta') \cup Copyall(fl')
        /\ wmeta.pgid .. (wmeta'.pgid - 1) \subseteq Used(wmeta') \cup Copyall(fl')
    BY <1>3, <1>5, <2>2, <2>3, <2>5
  <2> QED
    BY <1>2, <2>3, <2>6, AccountsMove
<1> QED
  BY <1>1, <1>4, <1>5 DEF n, NothingFails

\* The accounting of pages is inductive.
LEMMA LeakInductive ==
  ASSUME IInv, IInv', LeakInv, NothingFails, [Next]_vars
  PROVE  LeakInv'
<1>1. /\ fl \in FreelistType /\ wmeta.txid \in Txids /\ wmeta \in Meta /\ CurrentMeta \in Meta
      /\ wmeta' \in Meta
  BY WriterState DEF IInv, TypeOK
<1> DEFINE ListsKept == \A m \in Known' : m.freelist # {} => Accounts(m, m.ids)
<1>2. CASE CommitFreelist
  <2>1. /\ Accounts(wmeta', Copyall(fl')) /\ wpc' = "write"
        /\ wmeta'.freelist # {} => wmeta'.ids = Copyall(fl')
    BY <1>2, CommitLeak
  <2>2. ASSUME NEW m \in Known', m.freelist # {} PROVE Accounts(m, m.ids)
    BY <2>1, <2>2, KnownMetas DEF LeakInv
  <2> QED
    BY <2>1, <2>2 DEF LeakInv, Accounts
<1>3. ASSUME ~(wpc = "spill" /\ wpc' = "write") PROVE ListsKept
  BY <1>3, KnownMetas DEF LeakInv, CommitFreelist
<1>4. ASSUME CurrentMeta' = CurrentMeta, Copyall(fl') = Copyall(fl), UNCHANGED <<wpc, wmeta>>,
             PendingOf(fl', wmeta.txid) = PendingOf(fl, wmeta.txid)
      PROVE  LeakInv'
  BY <1>3, <1>4 DEF LeakInv, Accounts
<1>5. CASE \E r \in Readers : Reader(r)
  <2>1. /\ fl'.pending = fl.pending /\ fl'.free = fl.free
        /\ UNCHANGED <<wpc, wmeta, meta>>
    BY <1>1, <1>5 DEF Reader, BeginTx, RegisterTx, RemoveTx, txVars, diskVars, AddReadonlyTXID,
       RemoveReadonlyTXID, FreelistType
  <2>2. CurrentMeta' = CurrentMeta /\ Copyall(fl') = Copyall(fl)
        /\ PendingOf(fl', wmeta.txid) = PendingOf(fl, wmeta.txid)
    BY <2>1 DEF CurrentMeta, Copyall, PendingOf
  <2> QED
    BY <1>4, <2>1, <2>2
<1>6. CASE BeginRWTx
  <2>1. /\ wpc = "idle" /\ wpc' = "body" /\ fl' = ReleasePendingPages(fl) /\ meta' = meta
        /\ wmeta' = [CurrentMeta EXCEPT !.txid = CurrentMeta.txid + 1]
    BY <1>6 DEF BeginRWTx, diskVars
  <2>2. fl'.free = fl.free \cup EntryIds(Released(fl)) /\ fl'.pending = fl.pending \ Released(fl)
    BY <1>1, <2>1, ReleaseFields
  <2>3. Copyall(fl) \subseteq Copyall(fl')
    BY <2>2 DEF Copyall, EntryIds
  <2>4. CurrentMeta' = CurrentMeta
    BY <2>1 DEF CurrentMeta
  <2>5. /\ Used(wmeta') = Used(CurrentMeta) /\ wmeta'.pgid = CurrentMeta.pgid
        /\ wmeta'.txid = CurrentMeta.txid + 1
    BY <1>1, <2>1 DEF Meta, Used, Blocks
  <2>6. PendingOf(fl', wmeta'.txid) = {}
    BY <2>1, <2>2, <2>5, NothingPending DEF PendingOf
  <2>7. EntryIds(PendingOf(fl', wmeta'.txid)) = {}
    BY <2>6 DEF EntryIds
  <2>8. Accounts(CurrentMeta, Copyall(fl')) /\ Accounts(wmeta', Copyall(fl'))
    BY <2>1, <2>3, <2>5 DEF LeakInv, Accounts
  <2> QED
    BY <1>3, <2>1, <2>4, <2>7, <2>8 DEF LeakInv
<1>7. CASE UserRollback
  <2>1. wpc = "body" /\ RollbackFrom(fl) /\ meta' = meta
    BY <1>7 DEF UserRollback, diskVars
  <2>2. fl' = Rollback(fl, wmeta.txid) /\ wpc' = "idle"
    BY <2>1 DEF RollbackFrom, Panic, Close, IInv, WriterInv
  <2>3. CurrentMeta' = CurrentMeta
    BY <2>1 DEF CurrentMeta
  <2>4. Copyall(fl) \subseteq Copyall(fl') \cup EntryIds(PendingOf(fl, wmeta.txid))
    <3>1. CASE PendingOf(fl, wmeta.txid) = {}
      BY <2>2, <3>1 DEF Rollback
    <3>2. CASE PendingOf(fl, wmeta.txid) # {}
      <4>1. fl'.free = fl.free /\ fl'.pending = {e \in fl.pending : e.tx # wmeta.txid}
        BY <1>1, <2>2, <3>2, RollbackFields
      <4> QED
        BY <4>1 DEF Copyall, EntryIds, PendingOf
    <3> QED
      BY <3>1, <3>2
  <2>5. Accounts(CurrentMeta, Copyall(fl'))
    BY <2>1, <2>4 DEF LeakInv, Accounts
  <2> QED
    BY <1>3, <2>2, <2>3, <2>5 DEF LeakInv
<1>8. CASE FreePage
  <2>1. PICK b \in wmeta.tree :
          IF FreePanics(fl, b) THEN Panic
          ELSE /\ fl' = Free(fl, wmeta.txid, b)
               /\ wmeta' = [wmeta EXCEPT !.tree = wmeta.tree \ {b}]
               /\ UNCHANGED <<wpc, dirty>>
    BY <1>8 DEF FreePage
  <2>2. ~Panic
    BY DEF Panic, IInv, WriterInv
  <2>3. /\ fl' = FreeAny(fl, wmeta.txid, {b}) /\ wpc = "body" /\ wpc' = "body" /\ meta' = meta
        /\ wmeta'.txid = wmeta.txid /\ wmeta'.pgid = wmeta.pgid
        /\ wmeta'.tree = wmeta.tree \ {b} /\ wmeta'.freelist = wmeta.freelist
    BY <1>1, <1>8, <2>1, <2>2 DEF FreeAny, FreePage, Meta, diskVars
  <2>4. {b} \in SUBSET Block /\ \A x, y \in {b} : x = y
    BY <1>1 DEF Meta
  <2>5. /\ Copyall(fl') = Copyall(fl) \cup Span({b})
        /\ EntryIds(PendingOf(fl', wmeta.txid)) \subseteq EntryIds(PendingOf(fl, wmeta.txid)) \cup Span({b})
    BY <1>1, <2>3, <2>4, FreeAnyShape
  <2>6. CurrentMeta' = CurrentMeta
    BY <2>3 DEF CurrentMeta
  <2>7. b \in Blocks(CurrentMeta)
    <3>1. WriterOK(fl, wmeta, dirty, CurrentMeta, Visible) /\ dirty = {}
      BY <2>3, WriterState DEF Preparing, IInv, WriterInv
    <3> QED
      BY <3>1 DEF WriterOK, Blocks
  <2>8. Span({b}) \subseteq Used(CurrentMeta)
    BY <2>7, UsedElement, SpanElement
  <2>9. EntryIds(PendingOf(fl', wmeta'.txid)) \subseteq Used(CurrentMeta)
    BY <2>3, <2>5, <2>8 DEF LeakInv
  <2>10. Accounts(CurrentMeta, Copyall(fl'))
    BY <2>3, <2>5 DEF LeakInv, Accounts
  <2>11. Accounts(wmeta', Copyall(fl'))
    <3>1. Blocks(wmeta) \subseteq Blocks(wmeta') \cup {b}
      BY <2>3 DEF Blocks
    <3>2. Used(wmeta) \cup Copyall(fl) \subseteq Used(wmeta') \cup Copyall(fl')
      BY <2>5, <3>1, UsedWithout
    <3>3. wmeta.pgid .. (wmeta'.pgid - 1) = {}
      BY <1>1, <2>3, MetaFields
    <3>4. Accounts(wmeta, Copyall(fl))
      BY <2>3 DEF LeakInv
    <3> QED
      BY <1>1, <3>2, <3>3, <3>4, AccountsMove
  <2> QED
    BY <1>3, <2>3, <2>6, <2>9, <2>10, <2>11 DEF LeakInv
<1>9. CASE StartSpill
  BY <1>3, <1>9 DEF StartSpill, LeakInv, Accounts
<1>10. CASE SpillNode
  <2>1. Accounts(wmeta', Copyall(fl')) /\ wpc' = "spill"
    BY <1>10, SpillLeak
  <2> QED
    BY <1>3, <2>1 DEF LeakInv
<1>11. CASE WriteData \/ SyncData \/ WriteMeta
  <2>1. /\ UNCHANGED <<fl, wmeta>> /\ wpc \in {"write", "sync", "meta"}
        /\ wpc' \in {"sync", "meta", "syncMeta"}
    BY <1>11 DEF WriteData, SyncData, WriteMeta, NothingFails
  <2> QED
    BY <1>3, <2>1 DEF LeakInv, Accounts
<1>12. CASE SyncMeta
  <2>1. wpc = "syncMeta" /\ wpc' = "idle" /\ fl' = fl /\ meta' = meta
    BY <1>12 DEF SyncMeta, Close, NothingFails
  <2>2. CurrentMeta' = wmeta
    BY <2>1 DEF CurrentMeta, IInv, WriterInv
  <2> QED
    BY <1>3, <2>1, <2>2 DEF LeakInv
<1>13. CASE Restart
  <2>1. PICK m0 \in disk[0], m1 \in disk[1] :
          /\ meta' = [s \in Slots |-> IF s = 0 THEN m0 ELSE m1]
          /\ fl' = OpenFreelist(Newer(m0, m1))
    BY <1>13 DEF Restart
  <2> DEFINE c == Newer(m0, m1)
  <2>2. wpc' = "idle" /\ CurrentMeta' = c
    BY <1>13, <2>1 DEF Restart, Close, CurrentMeta, Slots
  <2>3. c \in Known
    BY DEF Known, Newer
  <2> HIDE DEF c
  <2>4. Accounts(c, Copyall(fl'))
    <3>1. CASE c.freelist # {}
      <4>1. Accounts(c, c.ids) /\ fl' = Loaded(c.ids)
        BY <2>1, <2>3, <3>1 DEF LeakInv, OpenFreelist, c
      <4> QED
        BY <4>1 DEF Loaded, Copyall, Accounts
    <3>2. CASE c.freelist = {}
      <4>1. fl' = Loaded((2 .. (c.pgid - 1)) \ Span(c.tree))
        BY <2>1, <3>2 DEF OpenFreelist, c
      <4>2. Span(c.tree) \subseteq Used(c)
        BY UsedElement, SpanElement DEF Blocks
      <4> QED
        BY <4>1, <4>2 DEF Loaded, Copyall, Accounts
    <3> QED
      BY <3>1, <3>2
  <2> QED
    BY <1>3, <2>2, <2>4 DEF LeakInv
<1>14. CASE UNCHANGED vars
  <2>1. CurrentMeta' = CurrentMeta /\ UNCHANGED <<fl, wpc, wmeta>>
    BY <1>14 DEF vars, diskVars, txVars, CurrentMeta
  <2> QED
    BY <1>4, <2>1
<1> QED
  BY <1>2, <1>5, <1>6, <1>7, <1>8, <1>9, <1>10, <1>11, <1>12, <1>13, <1>14 DEF Next, Writer

\* A database that db.init has just created has all of its pages accounted for.
LEMMA LeakInit == Init => LeakInv
<1> SUFFICES ASSUME Init PROVE LeakInv
  OBVIOUS
<1>1. /\ \A m \in Known : m = InitMeta(0) \/ m = InitMeta(1)
      /\ CurrentMeta = InitMeta(1) /\ wpc = "idle"
  BY DEF Init, Known, Committing, Slots, CurrentMeta, Newer, InitMeta
<1>2. ASSUME NEW m, m = InitMeta(0) \/ m = InitMeta(1), NEW ids PROVE Accounts(m, ids)
  <2>1. m.pgid = 4 /\ [id |-> 2, overflow |-> 0] \in Blocks(m) /\ [id |-> 3, overflow |-> 0] \in Blocks(m)
    BY <1>2 DEF InitMeta, Blocks
  <2>2. 2 \in Ids([id |-> 2, overflow |-> 0]) /\ 3 \in Ids([id |-> 3, overflow |-> 0])
    BY DEF Ids
  <2>3. 2 \in Used(m) /\ 3 \in Used(m)
    BY <2>1, <2>2, UsedElement
  <2>4. 2 .. (m.pgid - 1) \subseteq {2, 3}
    BY <2>1
  <2> QED
    BY <2>3, <2>4 DEF Accounts
<1> QED
  BY <1>1, <1>2 DEF LeakInv

\* If no operation of the environment fails, though the process may crash at any
\* point, every page below the high water mark is used by the current meta, free
\* or pending between write transactions: Tx.Check reports no page as unreachable
\* and unfreed.
THEOREM NoLeakWithoutFailures == NothingFails => (Spec => []NoLeak)
<1> SUFFICES ASSUME NothingFails PROVE Spec => []NoLeak
  OBVIOUS
<1>1. LeakInv => NoLeak
  BY DEF LeakInv, NoLeak, Accounts
<1>2. IInv /\ IInv' /\ LeakInv /\ [Next]_vars => LeakInv'
  BY LeakInductive
<1> QED
  BY <1>1, <1>2, LeakInit, Invariance, PTL DEF Spec
=============================================================================
