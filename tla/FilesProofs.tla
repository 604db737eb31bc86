----------------------------- MODULE FilesProofs -----------------------------
(***************************************************************************)
(* Proofs about files as a whole.  DataFile, for every size of map steps   *)
(* and allocations, every set of options and files of any size: the map    *)
(* and the file have every page in use.  Compact: the walk meets every     *)
(* name of the source once and in order, so that the destination is always *)
(* a beginning of the source, and no transaction is given more than        *)
(* txMaxSize allows.                                                       *)
(***************************************************************************)
EXTENDS DataFile, Compact, FiniteSetTheorems, FunctionTheorems, NaturalsInduction,
        WellFoundedInduction, TLAPS

\* A nonempty set of numbers has its Min.
LEMMA MinOfNaturals ==
  ASSUME NEW S \in SUBSET Nat, S # {}
  PROVE  Min(S) \in S /\ \A x \in S : Min(S) <= x
<1>1. PICK n \in S : \A m \in S : n <= m
  <2>1. PICK n \in S : \A m \in S : <<m, n>> \notin OpToRel(<, Nat)
    BY NatLessThanWellFounded, WFMin, Zenon
  <2>2. \A m \in S : ~(m < n)
    BY <2>1 DEF OpToRel
  <2> QED
    BY <2>2
<1> DEFINE P(x) == \A y \in S : x <= y
<1>2. \E x \in S : P(x)
  BY <1>1
<1> HIDE DEF P
<1>3. (CHOOSE x \in S : P(x)) \in S /\ P(CHOOSE x \in S : P(x))
  BY <1>2
<1> USE DEF P
<1>4. QED
  BY <1>3 DEF Min

\* Rounding up to a multiple, as mmapSize does above the step.
LEMMA RoundedUp ==
  ASSUME NEW a \in Nat, NEW m \in Nat, m > 0
  PROVE  (a \div m) * m \in Nat /\ a - m + 1 <= (a \div m) * m
<1>1. a \div m \in Int /\ a \div m >= 0
  OBVIOUS
<1>2. a - m + 1 <= m * (a \div m)
  OBVIOUS
<1> DEFINE q == a \div m
<1>3. q \in Nat /\ a - m + 1 <= m * q
  BY <1>1, <1>2
<1> HIDE DEF q
<1>4. q * m \in Nat /\ q * m = m * q
  BY <1>3
<1> QED
  BY <1>3, <1>4 DEF q

\* A map is at least as large as it has to be, unless mmapSize fails.
LEMMA MmapSizeCovers ==
  ASSUME NEW n \in Nat
  PROVE  MmapSize(n) \in Nat /\ (MmapSize(n) # 0 => n <= MmapSize(n))
<1> DEFINE doubled == {m \in MinMap .. MmapStep :
                         n <= m /\ \E d \in 0 .. MmapStep : m = MinMap * 2^d}
           steps == ((n + MmapStep - 1) \div MmapStep) * MmapStep
<1> USE SizesAssumption
<1>1. CASE doubled # {}
  <2>1. doubled \in SUBSET Nat
    OBVIOUS
  <2>2. Min(doubled) \in doubled
    BY <1>1, <2>1, MinOfNaturals
  <2> QED
    BY <1>1, <2>1, <2>2 DEF MmapSize
<1>2. CASE doubled = {} /\ n > MaxMapSize
  BY <1>2 DEF MmapSize
<1>3. CASE doubled = {} /\ n <= MaxMapSize
  <2>1. steps \in Nat /\ n <= steps
    <3>1. MmapStep \in Nat /\ MmapStep > 0 /\ n + MmapStep - 1 \in Nat
      OBVIOUS
    <3> QED
      BY <3>1, RoundedUp
  <2> HIDE DEF steps
  <2>2. {steps, MaxMapSize} \in SUBSET Nat
    BY <2>1
  <2>3. Min({steps, MaxMapSize}) \in {steps, MaxMapSize}
    BY <2>2, MinOfNaturals
  <2>4. MmapSize(n) = Min({steps, MaxMapSize})
    BY <1>3 DEF MmapSize, steps
  <2> QED
    BY <1>3, <2>1, <2>3, <2>4
<1> QED
  BY <1>1, <1>2, <1>3

-----------------------------------------------------------------------------
FileTypes ==
  /\ options \in OptionSet
  /\ phase \in {"closed", "idle", "flush", "begun", "listed"}
  /\ {fileSize, datasz, hwm, mark, reader, copy} \subseteq Nat

\* A transaction, and the commit of Open, works at or behind the current mark.
MarkCovered ==
  phase \in {"begun", "listed", "flush"} => datasz # 0 /\ hwm <= mark /\ mark <= datasz

\* A reader's snapshot is not newer than the current one; Open has none.
ReaderCovered == reader <= hwm /\ (phase \in {"closed", "flush"} => reader = 0)

FileInv == FileTypes /\ MmapCovers /\ FileCovers /\ MarkCovered /\ ReaderCovered

-----------------------------------------------------------------------------
\* The size that grow truncates to is not below the one it is asked for.
LEMMA GrowSizeCovers ==
  ASSUME NEW d \in Nat, NEW s \in Nat, s <= d
  PROVE  GrowSize(d, s) \in Nat /\ s <= GrowSize(d, s)
<1>1. AllocSize \in Nat
  BY SizesAssumption
<1> QED
  BY <1>1 DEF GrowSize

\* After allocate has remapped, or not, the map has room for the new mark.
LEMMA RemappedCovers ==
  ASSUME FileInv, NEW n \in Counts, phase \in {"begun", "flush"}, Remapped(n)
  PROVE  /\ datasz' \in Nat /\ mark + n + 1 <= datasz' /\ datasz' # 0
         /\ reader <= datasz' /\ hwm <= datasz'
<1>1. n \in Nat /\ {mark, hwm, fileSize, datasz, reader} \subseteq Nat /\ hwm <= mark
  BY SizesAssumption DEF FileInv, FileTypes, MarkCovered
<1>2. reader <= hwm
  BY DEF FileInv, ReaderCovered
<1>3. CASE MinSize(n) < datasz /\ datasz' = datasz
  BY <1>1, <1>2, <1>3 DEF MinSize
<1>4. CASE datasz' = MmapSize(Bigger(fileSize, MinSize(n))) /\ datasz' # 0
  <2>1. Bigger(fileSize, MinSize(n)) \in Nat /\ mark + n + 1 <= Bigger(fileSize, MinSize(n))
    BY <1>1 DEF Bigger, MinSize
  <2> QED
    BY <1>1, <1>2, <1>4, <2>1, MmapSizeCovers
<1> QED
  BY <1>3, <1>4 DEF Remapped

LEMMA InitFileInv == Init => FileInv
  BY SizesAssumption
     DEF Init, FileInv, FileTypes, MmapCovers, FileCovers, MarkCovered, ReaderCovered

\* Opening, closing, and the transactions that move no mark.
LEMMA OpenKeeps == ASSUME FileInv, NEW o \in OptionSet, Open(o) PROVE FileInv'
<1>1. /\ Bigger(fileSize, o.initialMmapSize) \in Nat
      /\ fileSize <= Bigger(fileSize, o.initialMmapSize)
  BY SizesAssumption DEF FileInv, FileTypes, Bigger
<1>2. datasz' \in Nat /\ fileSize <= datasz'
  BY <1>1, MmapSizeCovers DEF Open, FileInv, FileTypes
<1> QED
  BY <1>2 DEF Open, copying, FileInv, FileTypes, MmapCovers, FileCovers, MarkCovered,
              ReaderCovered

LEMMA IdleKeeps ==
  ASSUME FileInv, Close \/ Begin \/ Rollback \/ NoFreelist PROVE FileInv'
  BY DEF Close, Begin, Rollback, NoFreelist, Aborted, file, copying, FileInv, FileTypes,
         MmapCovers, FileCovers, MarkCovered, ReaderCovered

\* Allocations, the ones that fail included.
LEMMA AllocateKeeps ==
  ASSUME FileInv, NEW n \in Counts, Allocate(n) \/ AllocateFails(n) \/ RemapFails(n)
  PROVE  FileInv'
<1>1. CASE Allocate(n)
  <2>1. /\ datasz' \in Nat /\ mark + n + 1 <= datasz' /\ datasz' # 0
        /\ reader <= datasz' /\ hwm <= datasz'
    BY <1>1, RemappedCovers DEF Allocate, AtMark
  <2> QED
    BY <1>1, <2>1, SizesAssumption
       DEF Allocate, AtMark, copying, FileInv, FileTypes, MmapCovers, FileCovers,
           MarkCovered, ReaderCovered
<1>2. CASE AllocateFails(n)
  BY <1>2 DEF AllocateFails, Aborted, file, copying, FileInv, FileTypes, MmapCovers,
              FileCovers, MarkCovered, ReaderCovered
<1>3. CASE RemapFails(n)
  BY <1>3 DEF RemapFails, Aborted, file, copying, FileInv, FileTypes, MmapCovers,
              FileCovers, MarkCovered, ReaderCovered
<1> QED
  BY <1>1, <1>2, <1>3

\* The file grows to no less than what it has and the mark needs.
LEMMA CommitFreelistKeeps == ASSUME FileInv, CommitFreelist PROVE FileInv'
<1>1. CASE UNCHANGED <<fileSize, datasz, mark>>
  BY <1>1 DEF CommitFreelist, copying, FileInv, FileTypes, MmapCovers, FileCovers,
              MarkCovered, ReaderCovered
<1>2. CASE \E n \in Counts : AtMark(n) /\ fileSize' = Grown
  <2>1. PICK n \in Counts : AtMark(n) /\ fileSize' = Grown
    BY <1>2
  <2>2. /\ datasz' \in Nat /\ mark + n + 1 <= datasz' /\ datasz' # 0
        /\ reader <= datasz' /\ hwm <= datasz'
    BY <2>1, RemappedCovers DEF CommitFreelist, AtMark
  <2>3. n \in Nat /\ {mark, fileSize} \subseteq Nat /\ mark' = mark + n
    BY <2>1, SizesAssumption DEF AtMark, FileInv, FileTypes
  <2>4. fileSize' \in Nat /\ fileSize <= fileSize'
    <3>1. /\ GrowSize(datasz', mark + n + 1) \in Nat
          /\ mark + n + 1 <= GrowSize(datasz', mark + n + 1)
      BY <2>2, <2>3, GrowSizeCovers
    <3> QED
      BY <2>1, <2>3, <3>1 DEF Grown
  <2> QED
    BY <2>2, <2>3, <2>4
       DEF CommitFreelist, copying, FileInv, FileTypes, MmapCovers, FileCovers,
           MarkCovered, ReaderCovered
<1> QED
  BY <1>1, <1>2 DEF CommitFreelist

LEMMA GrowFailsKeeps == ASSUME FileInv, GrowFails PROVE FileInv'
<1>1. PICK n \in Counts :
        /\ mark + n + 1 > fileSize /\ Remapped(n)
        /\ fileSize' \in {fileSize, GrowSize(datasz', mark + n + 1)}
  BY DEF GrowFails
<1>2. /\ datasz' \in Nat /\ mark + n + 1 <= datasz' /\ datasz' # 0
      /\ reader <= datasz' /\ hwm <= datasz'
  BY <1>1, RemappedCovers DEF GrowFails
<1>3. n \in Nat /\ {mark, fileSize} \subseteq Nat
  BY SizesAssumption DEF FileInv, FileTypes
<1>4. /\ GrowSize(datasz', mark + n + 1) \in Nat
      /\ mark + n + 1 <= GrowSize(datasz', mark + n + 1)
  BY <1>2, <1>3, GrowSizeCovers
<1>5. fileSize' \in Nat /\ fileSize <= fileSize'
  BY <1>1, <1>3, <1>4
<1> QED
  BY <1>2, <1>5 DEF GrowFails, Aborted, copying, FileInv, FileTypes, MmapCovers,
                    FileCovers, MarkCovered, ReaderCovered

\* Writing extends the file as far as the mark.
LEMMA WriteKeeps == ASSUME FileInv, WriteAndPublish \/ WriteFails PROVE FileInv'
<1>1. Extended \in Nat /\ fileSize <= Extended /\ mark <= Extended
  BY DEF FileInv, FileTypes, Extended, Bigger
<1>2. CASE WriteAndPublish
  BY <1>1, <1>2 DEF WriteAndPublish, copying, FileInv, FileTypes, MmapCovers, FileCovers,
                    MarkCovered, ReaderCovered
<1>3. CASE WriteFails
  BY <1>1, <1>3 DEF WriteFails, copying, FileInv, FileTypes, MmapCovers, FileCovers,
                    MarkCovered, ReaderCovered
<1> QED
  BY <1>2, <1>3

\* Readers and their copies.
LEMMA ReadKeeps ==
  ASSUME FileInv, BeginRead \/ EndRead \/ WriteTo \/ WriteToEnds \/ Rename
  PROVE  FileInv'
  BY DEF BeginRead, EndRead, WriteTo, WriteToEnds, Rename, file, tx, copying, FileInv,
         FileTypes, MmapCovers, FileCovers, MarkCovered, ReaderCovered

LEMMA FileInvariance == Spec => []FileInv
<1>1. FileInv /\ [Next]_vars => FileInv'
  <2> SUFFICES ASSUME FileInv, [Next]_vars PROVE FileInv'
    OBVIOUS
  <2>1. CASE Next
    BY <2>1, OpenKeeps, IdleKeeps, AllocateKeeps, CommitFreelistKeeps, GrowFailsKeeps,
       WriteKeeps, ReadKeeps DEF Next
  <2>2. CASE UNCHANGED vars
    BY <2>2 DEF vars, file, tx, copying, FileInv, FileTypes, MmapCovers, FileCovers,
                MarkCovered, ReaderCovered
  <2> QED
    BY <2>1, <2>2
<1> QED
  BY <1>1, InitFileInv, PTL DEF Spec

(* For every map step, allocation size and option: whatever is read        *)
(* through the map lies inside it, after failed remaps too.                *)
THEOREM MapCoversPages == Spec => []MmapCovers
  BY FileInvariance, PTL DEF FileInv

(* The file holds every page of the last commit and of a running copy,     *)
(* whether growing it was skipped, failed or went half way.                *)
THEOREM FileCoversPages == Spec => []FileCovers
  BY FileInvariance, PTL DEF FileInv

-----------------------------------------------------------------------------
(***************************************************************************)
(* MaxSize.  The check in allocate computes what the file would grow to    *)
(* from the map that the new mark needs; grow uses the map there is, which *)
(* may be larger.                                                          *)
(***************************************************************************)
\* allocate lets the mark reach s.
Allowed(o, s) == MmapSize(s) # 0 /\ GrowSize(MmapSize(s), s) <= o.maxSize

\* Where grow is called with the map as it is, what is allowed is what it does.
MapAllows ==
  options.maxSize > 0 /\ datasz # 0 =>
    \A s \in Nat : fileSize < s /\ s < datasz /\ Allowed(options, s) =>
      GrowSize(datasz, s) <= options.maxSize

\* Pages that are written behind the end of the file are allowed.
MarkAllowed ==
  options.maxSize > 0 /\ phase # "closed" => mark <= fileSize \/ mark <= options.maxSize

SizeInv == FileInv /\ MapAllows /\ MarkAllowed

\* Options whose initial map is larger than MaxSize allows keep no limit.
LimitKept == FileInv /\ (InitialMapOverMaxSize(options) \/ SizeInv)

\* The map needs as many steps for s as for u, if s is between u and that map.
LEMMA SameSteps ==
  ASSUME NEW m \in Nat \ {0}, NEW u \in Nat, NEW s \in Nat, u <= s,
         s <= ((u + m - 1) \div m) * m
  PROVE  (s + m - 1) \div m = (u + m - 1) \div m
<1> DEFINE a == (u + m - 1) \div m
           b == (s + m - 1) \div m
<1>1. /\ a \in Int /\ m * a <= u + m - 1 /\ u + m - 1 < m * a + m
      /\ b \in Int /\ m * b <= s + m - 1 /\ s + m - 1 < m * b + m
  OBVIOUS
<1> HIDE DEF a, b
<1>2. a * m = m * a /\ m * (a + 1) = m * a + m /\ m * (b + 1) = m * b + m
  BY <1>1
<1>3. s <= m * a
  BY <1>2 DEF a
<1>4. ASSUME NEW x \in Int, NEW y \in Int, m * x < m * y PROVE x < y
  <2> SUFFICES ASSUME y <= x PROVE FALSE
    BY <1>4
  <2>1. PICK k \in Nat : x = y + k
    <3>1. x - y \in Nat /\ x = y + (x - y)
      OBVIOUS
    <3> QED
      BY <3>1
  <2>2. m * x = m * y + m * k /\ m * k \in Nat
    BY <2>1
  <2>3. m * y \in Int
    OBVIOUS
  <2> QED
    BY <1>4, <2>2, <2>3
<1>5. m * a \in Int /\ m * b \in Int
  BY <1>1
<1>6. m * b < m * (a + 1) /\ m * a < m * (b + 1)
  BY <1>1, <1>2, <1>3, <1>5
<1>7. b < a + 1 /\ a < b + 1
  BY <1>1, <1>4, <1>6
<1> QED
  BY <1>1, <1>7 DEF a, b

\* A map that is there for u is the one that any s up to it needs.
LEMMA SameMap ==
  ASSUME NEW u \in Nat, NEW s \in Nat, u <= s, s <= MmapSize(u), MmapSize(u) # 0
  PROVE  MmapSize(s) = MmapSize(u)
<1> DEFINE doubled(x) == {m \in MinMap .. MmapStep :
                            x <= m /\ \E d \in 0 .. MmapStep : m = MinMap * 2^d}
           steps(x) == ((x + MmapStep - 1) \div MmapStep) * MmapStep
<1>1. {MinMap, MmapStep, MaxMapSize} \subseteq Nat /\ MmapStep > 0
  BY SizesAssumption
<1>2. ASSUME NEW x \in Nat
      PROVE  /\ doubled(x) # {} => MmapSize(x) = Min(doubled(x))
             /\ doubled(x) = {} => MmapSize(x) = IF x > MaxMapSize THEN 0 ELSE Min({steps(x), MaxMapSize})
             /\ doubled(x) \in SUBSET Nat /\ \A m \in doubled(x) : x <= m
  BY <1>1 DEF MmapSize
<1>3. doubled(s) \subseteq doubled(u) /\ \A m \in doubled(u) : s <= m => m \in doubled(s)
  BY <1>1
<1>4. CASE doubled(u) # {}
  <2> HIDE DEF doubled
  <2> DEFINE D == doubled(u)
             E == doubled(s)
  <2>1. MmapSize(u) = Min(D) /\ D \in SUBSET Nat /\ D # {}
    BY <1>2, <1>4
  <2>2. E # {} => MmapSize(s) = Min(E)
    BY <1>2
  <2>3. E \subseteq D /\ \A m \in D : s <= m => m \in E
    BY <1>3
  <2> HIDE DEF D, E
  <2>4. MmapSize(u) \in D /\ \A x \in D : MmapSize(u) <= x
    BY <2>1, MinOfNaturals
  <2>5. MmapSize(u) \in E
    BY <2>3, <2>4
  <2>6. MmapSize(s) \in E /\ \A x \in E : MmapSize(s) <= x
    BY <2>1, <2>2, <2>3, <2>5, MinOfNaturals
  <2>7. MmapSize(s) <= MmapSize(u) /\ MmapSize(u) <= MmapSize(s)
    BY <2>3, <2>4, <2>5, <2>6
  <2>8. MmapSize(s) \in Nat /\ MmapSize(u) \in Nat
    BY <2>1, <2>3, <2>4, <2>6
  <2> QED
    BY <2>7, <2>8
<1>5. CASE doubled(u) = {}
  <2>1. doubled(s) = {} /\ u <= MaxMapSize
    <3> HIDE DEF doubled, steps
    <3>1. MmapSize(u) = IF u > MaxMapSize THEN 0 ELSE Min({steps(u), MaxMapSize})
      BY <1>2, <1>5
    <3>2. u <= MaxMapSize
      BY <1>1, <3>1
    <3>3. doubled(s) = {}
      BY <1>3, <1>5
    <3> QED
      BY <3>2, <3>3
  <2>2. (u + MmapStep - 1) \div MmapStep \in Nat /\ steps(u) \in Nat
    <3>1. u + MmapStep - 1 \in Nat
      BY <1>1
    <3> QED
      BY <1>1, <3>1, RoundedUp
  <2> HIDE DEF doubled
  <2>3. MmapSize(u) = Min({steps(u), MaxMapSize})
    BY <1>2, <1>5, <2>1
  <2>4. {steps(u), MaxMapSize} \in SUBSET Nat
    BY <1>1, <2>2
  <2>5. Min({steps(u), MaxMapSize}) <= steps(u) /\ Min({steps(u), MaxMapSize}) <= MaxMapSize
        /\ Min({steps(u), MaxMapSize}) \in Nat
    BY <2>4, MinOfNaturals
  <2>6. s <= steps(u) /\ s <= MaxMapSize
    <3> HIDE DEF steps
    <3> QED
      BY <1>1, <2>2, <2>3, <2>5
  <2>7. steps(s) = steps(u)
    BY <1>1, <2>6, SameSteps
  <2> HIDE DEF steps
  <2>8. MmapSize(s) = Min({steps(s), MaxMapSize})
    BY <1>1, <1>2, <2>1, <2>6
  <2> QED
    BY <2>3, <2>7, <2>8
<1> QED
  BY <1>4, <1>5

\* The map for u allows what is behind u, and what is before u if u is allowed.
LEMMA AllowedByMap ==
  ASSUME NEW o, o.maxSize \in Nat, NEW u \in Nat, NEW s \in Nat, s <= MmapSize(u), MmapSize(u) # 0,
         Allowed(o, s), s < u => Allowed(o, u)
  PROVE  GrowSize(MmapSize(u), s) <= o.maxSize
<1>1. CASE u <= s
  BY <1>1, SameMap DEF Allowed
<1>2. CASE s < u
  <2>1. MmapSize(u) \in Nat /\ AllocSize \in Nat
    BY MmapSizeCovers, SizesAssumption
  <2> QED
    BY <1>2, <2>1 DEF Allowed, GrowSize
<1> QED
  BY <1>1, <1>2

\* What a remap, or none, makes of the file grown to the new mark is allowed.
LEMMA GrownAllowed ==
  ASSUME SizeInv, options.maxSize > 0, NEW n \in Counts, phase \in {"begun", "flush"},
         ~MaxSizeReached(n), Remapped(n)
  PROVE  /\ mark + n + 1 > fileSize => GrowSize(datasz', mark + n + 1) <= options.maxSize
         /\ mark + n <= options.maxSize /\ Allowed(options, MinSize(n))
<1> DEFINE s == mark + n + 1
<1>1. /\ {mark, n, fileSize, datasz, options.maxSize} \subseteq Nat /\ s \in Nat /\ MinSize(n) = s
      /\ datasz # 0
  BY SizesAssumption DEF SizeInv, FileInv, FileTypes, MarkCovered, MinSize
<1> HIDE DEF s
<1>2. Allowed(options, s)
  <2>1. MmapSize(s) \in Nat /\ AllocSize \in Nat
    BY <1>1, MmapSizeCovers, SizesAssumption
  <2>2. GrowSize(MmapSize(s), s) \in Nat
    BY <1>1, <2>1 DEF GrowSize
  <2> QED
    BY <1>1, <2>2 DEF MaxSizeReached, Allowed
<1>3. mark + n <= options.maxSize
  <2>1. MmapSize(s) \in Nat /\ s <= MmapSize(s)
    BY <1>1, <1>2, MmapSizeCovers DEF Allowed
  <2>2. s <= GrowSize(MmapSize(s), s) /\ GrowSize(MmapSize(s), s) \in Nat
    BY <1>1, <2>1, GrowSizeCovers
  <2> QED
    BY <1>1, <1>2, <2>2 DEF Allowed, s
<1>4. ASSUME s > fileSize PROVE GrowSize(datasz', s) <= options.maxSize
  <2>1. CASE s < datasz /\ datasz' = datasz
    BY <1>1, <1>2, <1>4, <2>1 DEF SizeInv, MapAllows
  <2>2. CASE datasz' = MmapSize(Bigger(fileSize, s))
    <3>1. Bigger(fileSize, s) = s
      BY <1>1, <1>4 DEF Bigger
    <3> QED
      BY <1>2, <2>2, <3>1 DEF Allowed
  <2> QED
    BY <1>1, <2>1, <2>2 DEF Remapped
<1> QED
  BY <1>1, <1>2, <1>3, <1>4 DEF s

\* A remap, or none, leaves a map that allows no more than allocate does.
LEMMA RemappedAllows ==
  ASSUME SizeInv, NEW n \in Counts, phase \in {"begun", "flush"},
         ~MaxSizeReached(n), Remapped(n), options' = options, fileSize' \in Nat, fileSize <= fileSize'
  PROVE  MapAllows'
<1> SUFFICES ASSUME options.maxSize > 0, datasz' # 0,
                    NEW s \in Nat, fileSize' < s, s < datasz', Allowed(options, s)
             PROVE  GrowSize(datasz', s) <= options.maxSize
  BY DEF MapAllows, Allowed
<1>1. {mark, n, fileSize, datasz, options.maxSize} \subseteq Nat /\ MinSize(n) \in Nat
  BY SizesAssumption DEF SizeInv, FileInv, FileTypes, MinSize
<1>2. CASE datasz' = datasz
  BY <1>1, <1>2 DEF SizeInv, MapAllows
<1>3. CASE datasz' = MmapSize(Bigger(fileSize, MinSize(n)))
  <2> DEFINE u == Bigger(fileSize, MinSize(n))
  <2>1. u \in Nat /\ (s < u => u = MinSize(n))
    BY <1>1 DEF Bigger
  <2>2. Allowed(options, MinSize(n))
    BY GrownAllowed
  <2> HIDE DEF u
  <2>3. datasz' = MmapSize(u) /\ MmapSize(u) \in Nat
    BY <1>3, <2>1, MmapSizeCovers DEF u
  <2> QED
    BY <1>1, <2>1, <2>2, <2>3, AllowedByMap
<1> QED
  BY <1>2, <1>3 DEF Remapped

\* Open maps the file, or what InitialMmapSize asks for if that is allowed.
LEMMA OpenSizes ==
  ASSUME FileInv, FileInv', NEW o \in OptionSet, Open(o), ~InitialMapOverMaxSize(o)
  PROVE  SizeInv'
<1>1. {fileSize, datasz, hwm, mark} \subseteq Nat /\ hwm <= fileSize /\ {fileSize', datasz'} \subseteq Nat
  BY DEF FileInv, FileTypes, FileCovers
<1>2. /\ options' = o /\ fileSize' = fileSize /\ mark' = hwm
      /\ datasz' = MmapSize(Bigger(fileSize, o.initialMmapSize))
  BY DEF Open
<1>3. o.maxSize \in Nat /\ o.initialMmapSize \in Nat
  BY SizesAssumption
<1>4. MapAllows'
  <2> SUFFICES ASSUME o.maxSize > 0, datasz' # 0,
                      NEW s \in Nat, fileSize < s, s < datasz', Allowed(o, s)
               PROVE  GrowSize(datasz', s) <= o.maxSize
    BY <1>2 DEF MapAllows, Allowed
  <2> DEFINE u == Bigger(fileSize, o.initialMmapSize)
  <2>1. u \in Nat /\ (s < u => u = o.initialMmapSize /\ o.initialMmapSize > 0)
    BY <1>1, <1>3 DEF Bigger
  <2> HIDE DEF u
  <2>2. datasz' = MmapSize(u)
    BY <1>2 DEF u
  <2>3. GrowSize(MmapSize(u), u) \in Nat
    <3>1. MmapSize(u) \in Nat /\ AllocSize \in Nat
      BY <2>1, MmapSizeCovers, SizesAssumption
    <3> QED
      BY <2>1, <3>1 DEF GrowSize
  <2>4. s < u => Allowed(o, u)
    BY <1>3, <2>1, <2>2, <2>3 DEF InitialMapOverMaxSize, Allowed
  <2>5. s <= MmapSize(u) /\ MmapSize(u) # 0
    BY <1>1, <2>2
  <2> QED
    BY <1>3, <2>1, <2>2, <2>4, <2>5, AllowedByMap
<1>5. MarkAllowed'
  BY <1>1, <1>2 DEF MarkAllowed
<1> QED
  BY <1>4, <1>5 DEF SizeInv

\* What is allowed is kept by every other step, and none makes the file larger
\* than MaxSize.
LEMMA SizeStep ==
  ASSUME SizeInv, FileInv', [Next]_vars, ~(\E o \in OptionSet : Open(o))
  PROVE  /\ SizeInv'
         /\ fileSize' > fileSize => options.maxSize = 0 \/ fileSize' <= options.maxSize
<1>1. /\ options \in OptionSet /\ options.maxSize \in Nat
      /\ {fileSize, datasz, hwm, mark} \subseteq Nat /\ hwm <= fileSize
      /\ {fileSize', datasz'} \subseteq Nat
  BY SizesAssumption DEF SizeInv, FileInv, FileTypes, FileCovers
<1>2. ASSUME options' = options, fileSize' = fileSize, datasz' \in {datasz, 0} PROVE MapAllows'
  BY <1>2 DEF SizeInv, MapAllows, Allowed
<1>4. CASE Close \/ Begin \/ Rollback \/ NoFreelist
  <2>1. /\ options' = options /\ fileSize' = fileSize /\ datasz' \in {datasz, 0}
        /\ mark' \in {0, mark, hwm} /\ (phase = "closed" => phase' = "closed")
    BY <1>4 DEF Close, Begin, Rollback, NoFreelist, Aborted, file
  <2>2. MapAllows'
    BY <1>2, <2>1
  <2>3. MarkAllowed'
    BY <1>1, <2>1 DEF SizeInv, MarkAllowed
  <2> QED
    BY <1>1, <2>1, <2>2, <2>3 DEF SizeInv
<1>5. ASSUME NEW n \in Counts, Allocate(n)
      PROVE  SizeInv' /\ ~(fileSize' > fileSize)
  <2>1. /\ phase = "begun" /\ ~MaxSizeReached(n) /\ Remapped(n) /\ mark' = mark + n
        /\ options' = options /\ fileSize' = fileSize
    BY <1>5 DEF Allocate, AtMark
  <2>2. MapAllows'
    BY <1>1, <2>1, RemappedAllows
  <2>3. options.maxSize > 0 => mark + n <= options.maxSize
    BY <2>1, GrownAllowed
  <2>4. MarkAllowed'
    BY <2>1, <2>3 DEF MarkAllowed
  <2> QED
    BY <1>1, <2>1, <2>2, <2>4 DEF SizeInv
<1>6. ASSUME NEW n \in Counts, AllocateFails(n) \/ RemapFails(n)
      PROVE  SizeInv' /\ ~(fileSize' > fileSize)
  <2>1. options' = options /\ fileSize' = fileSize /\ datasz' \in {datasz, 0} /\ mark' = 0
    BY <1>6 DEF AllocateFails, RemapFails, Aborted, file
  <2>2. MapAllows'
    BY <1>2, <2>1
  <2>3. MarkAllowed'
    BY <1>1, <2>1 DEF MarkAllowed
  <2> QED
    BY <1>1, <2>1, <2>2, <2>3 DEF SizeInv
<1>7. CASE CommitFreelist
  <2>1. phase \in {"begun", "flush"} /\ phase' = "listed" /\ options' = options
    BY <1>7 DEF CommitFreelist
  <2>2. CASE UNCHANGED <<fileSize, datasz, mark>>
    <3>1. MapAllows'
      BY <1>2, <2>1, <2>2
    <3>2. MarkAllowed'
      BY <2>1, <2>2 DEF SizeInv, MarkAllowed
    <3> QED
      BY <1>1, <2>2, <3>1, <3>2 DEF SizeInv
  <2>3. CASE \E n \in Counts : AtMark(n) /\ fileSize' = Grown
    <3>1. PICK n \in Counts : AtMark(n) /\ fileSize' = Grown
      BY <2>3
    <3>2. ~MaxSizeReached(n) /\ Remapped(n) /\ mark' = mark + n /\ n \in Nat
      BY <3>1, SizesAssumption DEF AtMark
    <3>3. /\ fileSize' = IF mark + n + 1 > fileSize /\ ~options.noGrowSync
                         THEN GrowSize(datasz', mark + n + 1) ELSE fileSize
      BY <3>1, <3>2 DEF Grown
    <3>4. mark + n + 1 <= datasz'
      BY <2>1, <3>2, RemappedCovers DEF SizeInv
    <3>5. mark + n + 1 <= GrowSize(datasz', mark + n + 1)
      BY <1>1, <3>2, <3>4, GrowSizeCovers
    <3>6. fileSize <= fileSize'
      BY <1>1, <3>2, <3>3, <3>5
    <3>7. MapAllows'
      BY <1>1, <2>1, <3>2, <3>6, RemappedAllows
    <3>8. options.maxSize > 0 =>
            /\ mark + n + 1 > fileSize => GrowSize(datasz', mark + n + 1) <= options.maxSize
            /\ mark + n <= options.maxSize
      BY <2>1, <3>2, GrownAllowed
    <3>9. MarkAllowed'
      BY <2>1, <3>2, <3>8 DEF MarkAllowed
    <3> QED
      BY <1>1, <3>3, <3>7, <3>8, <3>9 DEF SizeInv
  <2> QED
    BY <1>7, <2>2, <2>3 DEF CommitFreelist
<1>8. CASE GrowFails
  <2>1. PICK n \in Counts :
          /\ ~MaxSizeReached(n) /\ mark + n + 1 > fileSize /\ Remapped(n)
          /\ fileSize' \in {fileSize, GrowSize(datasz', mark + n + 1)}
    BY <1>8 DEF GrowFails
  <2>2. phase \in {"begun", "flush"} /\ options' = options /\ mark' = 0 /\ n \in Nat
    BY <1>8, SizesAssumption DEF GrowFails, Aborted
  <2>3. mark + n + 1 <= datasz'
    BY <2>1, <2>2, RemappedCovers DEF SizeInv
  <2>4. mark + n + 1 <= GrowSize(datasz', mark + n + 1)
    BY <1>1, <2>2, <2>3, GrowSizeCovers
  <2>5. fileSize <= fileSize'
    BY <1>1, <2>1, <2>2, <2>4
  <2>6. MapAllows'
    BY <1>1, <2>1, <2>2, <2>5, RemappedAllows
  <2>7. options.maxSize > 0 => GrowSize(datasz', mark + n + 1) <= options.maxSize
    BY <2>1, <2>2, GrownAllowed
  <2>8. MarkAllowed'
    BY <1>1, <2>2 DEF MarkAllowed
  <2> QED
    BY <1>1, <2>1, <2>6, <2>7, <2>8 DEF SizeInv
<1>9. CASE WriteAndPublish \/ WriteFails
  <2>1. /\ phase = "listed" /\ mark' = 0 /\ UNCHANGED <<options, datasz>>
        /\ fileSize' \in fileSize .. Extended /\ phase' = "idle"
    BY <1>1, <1>9 DEF WriteAndPublish, WriteFails, Extended, Bigger
  <2>2. fileSize' <= Bigger(fileSize, mark) /\ fileSize <= fileSize'
    BY <1>1, <2>1 DEF Extended
  <2>3. MapAllows'
    BY <1>1, <2>1, <2>2 DEF SizeInv, MapAllows, Allowed
  <2>4. MarkAllowed'
    BY <1>1, <2>1 DEF MarkAllowed
  <2>5. fileSize' > fileSize => options.maxSize = 0 \/ fileSize' <= options.maxSize
    BY <1>1, <2>1, <2>2 DEF SizeInv, MarkAllowed, Bigger
  <2> QED
    BY <2>3, <2>4, <2>5 DEF SizeInv
<1>10. CASE BeginRead \/ EndRead \/ WriteTo \/ WriteToEnds \/ Rename \/ UNCHANGED vars
  <2>1. UNCHANGED <<options, fileSize, datasz, mark, phase>>
    BY <1>10 DEF BeginRead, EndRead, WriteTo, WriteToEnds, Rename, vars, file, tx
  <2>2. MapAllows' /\ MarkAllowed'
    BY <1>2, <2>1 DEF SizeInv, MarkAllowed
  <2> QED
    BY <1>1, <2>1, <2>2 DEF SizeInv
<1> QED
  BY <1>4, <1>5, <1>6, <1>7, <1>8, <1>9, <1>10 DEF Next

\* Open alone changes the options.
LEMMA OptionsKept ==
  ASSUME [Next]_vars, ~(\E o \in OptionSet : Open(o))
  PROVE  options' = options
BY DEF Next, vars, Close, Begin, Rollback, Allocate, AllocateFails, RemapFails, CommitFreelist,
       NoFreelist, GrowFails, WriteAndPublish, WriteFails, BeginRead, EndRead, WriteTo, WriteToEnds,
       Rename, Aborted

(* For any sizes and options, and whatever fails, no step makes the file    *)
(* larger than MaxSize unless the initial map that the options in force ask *)
(* for does: what allocate has checked is what grow and the writes do, also *)
(* when the map is larger than the new mark needs.                          *)
THEOREM NeverOverMaxSize == Spec => WithinMaxSize
<1> DEFINE Kept == fileSize' > fileSize =>
                     \/ options.maxSize = 0 \/ fileSize' <= options.maxSize
                     \/ InitialMapOverMaxSize(options)
<1>1. Init => LimitKept
  BY InitFileInv DEF Init, LimitKept, SizeInv, MapAllows, MarkAllowed
<1>2. ASSUME LimitKept, FileInv', [Next]_vars PROVE LimitKept' /\ Kept
  <2>1. CASE \E o \in OptionSet : Open(o)
    <3>1. PICK o \in OptionSet : Open(o)
      BY <2>1
    <3>2. options' = o /\ fileSize' = fileSize /\ fileSize \in Nat
      BY <1>2, <3>1 DEF Open, LimitKept, FileInv, FileTypes
    <3>3. SizeInv' \/ InitialMapOverMaxSize(options)'
      BY <1>2, <3>1, <3>2, OpenSizes DEF LimitKept, InitialMapOverMaxSize
    <3> QED
      BY <1>2, <3>2, <3>3 DEF LimitKept
  <2>2. CASE ~(\E o \in OptionSet : Open(o)) /\ InitialMapOverMaxSize(options)
    <3>1. InitialMapOverMaxSize(options)'
      BY <1>2, <2>2, OptionsKept DEF InitialMapOverMaxSize
    <3> QED
      BY <1>2, <2>2, <3>1 DEF LimitKept
  <2>3. CASE ~(\E o \in OptionSet : Open(o)) /\ SizeInv
    BY <1>2, <2>3, SizeStep DEF LimitKept
  <2> QED
    BY <1>2, <2>1, <2>2, <2>3 DEF LimitKept
<1>3. LimitKept /\ FileInv' /\ [Next]_vars => LimitKept' /\ [Kept]_vars
  BY <1>2
<1>4. Spec => [][Kept]_vars
  BY <1>1, <1>3, FileInvariance, PTL DEF Spec
<1> QED
  BY <1>4 DEF WithinMaxSize

-----------------------------------------------------------------------------
(***************************************************************************)
(* Compact.                                                                *)
(***************************************************************************)
Names == DOMAIN src
Paths == Seq(Nat)

\* p and q have the first n names in common.
Agree(p, q, n) == n \in 0 .. Len(p) /\ n <= Len(q) /\ \A j \in 1 .. n : p[j] = q[j]

\* After n common names p ends, or has the smaller name.
Forks(p, q, n) ==
  /\ Agree(p, q, n) /\ n < Len(q)
  /\ n = Len(p) \/ (n < Len(p) /\ p[n+1] < q[n+1])

-----------------------------------------------------------------------------
\* What two paths have in common begins both.
LEMMA SameBeginning ==
  ASSUME NEW p \in Paths, NEW q \in Paths, NEW n \in 0 .. Len(p), n <= Len(q)
  PROVE  SubSeq(q, 1, n) = SubSeq(p, 1, n) <=> \A j \in 1 .. n : p[j] = q[j]
<1>1. /\ SubSeq(p, 1, n) = [j \in 1 .. n |-> p[j]]
      /\ SubSeq(q, 1, n) = [j \in 1 .. n |-> q[j]]
  BY DEF Paths
<1> QED
  BY <1>1

\* The order of the walk is decided where two paths fork.
LEMMA BeforeForks ==
  ASSUME NEW p \in Paths, NEW q \in Paths
  PROVE  Before(p, q) <=> \E n \in Nat : Forks(p, q, n)
<1>1. Len(p) \in Nat /\ Len(q) \in Nat
  BY DEF Paths
<1>2. /\ Min({Len(p), Len(q)}) \in {Len(p), Len(q)}
      /\ Min({Len(p), Len(q)}) <= Len(p) /\ Min({Len(p), Len(q)}) <= Len(q)
  <2>1. \E x \in {Len(p), Len(q)} : \A y \in {Len(p), Len(q)} : x <= y
    BY <1>1
  <2> QED
    BY <2>1, Zenon DEF Min
<1>3. SubSeq(p, 1, Len(p)) = p
  BY DEF Paths
<1>4. ASSUME NEW n \in Nat, Forks(p, q, n) PROVE Before(p, q)
  <2>1. CASE n = Len(p)
    BY <1>1, <1>3, <1>4, <2>1, SameBeginning DEF Before, Forks, Agree
  <2>2. CASE n < Len(p) /\ p[n+1] < q[n+1]
    <3>1. n + 1 \in 1 .. Min({Len(p), Len(q)}) /\ (n + 1) - 1 = n
      BY <1>1, <1>2, <1>4, <2>2 DEF Forks
    <3>2. SubSeq(p, 1, n) = SubSeq(q, 1, n)
      BY <1>4, SameBeginning DEF Forks, Agree
    <3> QED
      BY <2>2, <3>1, <3>2 DEF Before
  <2> QED
    BY <1>4, <2>1, <2>2 DEF Forks
<1>5. ASSUME Before(p, q) PROVE \E n \in Nat : Forks(p, q, n)
  <2>1. CASE Len(p) < Len(q) /\ SubSeq(q, 1, Len(p)) = p
    <3>1. \A j \in 1 .. Len(p) : p[j] = q[j]
      BY <1>1, <1>3, <2>1, SameBeginning
    <3>2. Forks(p, q, Len(p))
      BY <1>1, <2>1, <3>1 DEF Forks, Agree
    <3> QED
      BY <1>1, <3>2
  <2>2. CASE \E i \in 1 .. Min({Len(p), Len(q)}) :
               p[i] < q[i] /\ SubSeq(p, 1, i - 1) = SubSeq(q, 1, i - 1)
    <3>1. PICK i \in 1 .. Min({Len(p), Len(q)}) :
            p[i] < q[i] /\ SubSeq(p, 1, i - 1) = SubSeq(q, 1, i - 1)
      BY <2>2
    <3>2. i - 1 \in Nat /\ i - 1 < Len(p) /\ i - 1 < Len(q) /\ (i - 1) + 1 = i
      BY <1>1, <1>2, <3>1
    <3>3. \A j \in 1 .. i - 1 : p[j] = q[j]
      BY <1>1, <3>1, <3>2, SameBeginning
    <3> QED
      BY <1>1, <3>1, <3>2, <3>3 DEF Forks, Agree
  <2> QED
    BY <1>5, <2>1, <2>2 DEF Before
<1> QED
  BY <1>4, <1>5

\* No path is before itself.
LEMMA BeforeIrreflexive ==
  ASSUME NEW p \in Paths
  PROVE  ~Before(p, p)
<1>1. Len(p) \in Nat /\ \A i \in 1 .. Len(p) : p[i] \in Nat
  BY DEF Paths
<1>2. ASSUME NEW n \in Nat, Forks(p, p, n) PROVE FALSE
  BY <1>1, <1>2 DEF Forks
<1> QED
  BY <1>2, BeforeForks

LEMMA BeforeTransitive ==
  ASSUME NEW p \in Paths, NEW q \in Paths, NEW r \in Paths, Before(p, q), Before(q, r)
  PROVE  Before(p, r)
<1>1. PICK m \in Nat : Forks(p, q, m)
  BY BeforeForks
<1>2. PICK n \in Nat : Forks(q, r, n)
  BY BeforeForks
<1>3. /\ Len(p) \in Nat /\ Len(q) \in Nat /\ Len(r) \in Nat
      /\ \A i \in 1 .. Len(p) : p[i] \in Nat
      /\ \A i \in 1 .. Len(q) : q[i] \in Nat
      /\ \A i \in 1 .. Len(r) : r[i] \in Nat
  BY DEF Paths
<1>4. CASE m <= n
  <2>1. Agree(p, r, m) /\ m < Len(r)
    BY <1>1, <1>2, <1>3, <1>4 DEF Forks, Agree
  <2>2. m < Len(p) => p[m+1] < r[m+1]
    BY <1>1, <1>2, <1>3, <1>4 DEF Forks, Agree
  <2>3. m = Len(p) \/ m < Len(p)
    BY <1>1 DEF Forks
  <2> QED
    BY <2>1, <2>2, <2>3, BeforeForks DEF Forks
<1>5. CASE n < m
  <2>1. Agree(p, r, n) /\ n < Len(r) /\ n < Len(p) /\ n < Len(q)
    BY <1>1, <1>2, <1>3, <1>5 DEF Forks, Agree
  <2>2. p[n+1] < r[n+1]
    BY <1>1, <1>2, <1>3, <1>5, <2>1 DEF Forks, Agree
  <2> QED
    BY <2>1, <2>2, BeforeForks DEF Forks
<1> QED
  BY <1>4, <1>5

\* Of two paths one is before the other.
LEMMA BeforeTotal ==
  ASSUME NEW p \in Paths, NEW q \in Paths, p # q
  PROVE  Before(p, q) \/ Before(q, p)
<1> DEFINE Apart == {n \in Nat : n >= Len(p) \/ n >= Len(q) \/ p[n+1] # q[n+1]}
<1>1. /\ Len(p) \in Nat /\ Len(q) \in Nat
      /\ \A i \in 1 .. Len(p) : p[i] \in Nat
      /\ \A i \in 1 .. Len(q) : q[i] \in Nat
  BY DEF Paths
<1>2. Len(p) \in Apart /\ Apart \subseteq Nat
  BY <1>1
<1>3. PICK n \in Apart : \A m \in Apart : n <= m
  <2> HIDE DEF Apart
  <2>1. PICK n \in Apart : \A m \in Apart : <<m, n>> \notin OpToRel(<, Nat)
    BY <1>2, NatLessThanWellFounded, WFMin, Zenon
  <2>2. \A m \in Apart : ~(m < n)
    BY <1>2, <2>1 DEF OpToRel
  <2> QED
    BY <1>2, <2>2
<1>4. \A m \in Nat : m < n => m < Len(p) /\ m < Len(q) /\ p[m+1] = q[m+1]
  <2> SUFFICES ASSUME NEW m \in Nat, m < n PROVE m < Len(p) /\ m < Len(q) /\ p[m+1] = q[m+1]
    OBVIOUS
  <2>1. n \in Nat
    BY <1>3
  <2>2. m \notin Apart
    <3> HIDE DEF Apart
    <3> QED
      BY <1>3, <2>1
  <2> QED
    BY <1>1, <2>2
<1>5. n \in Nat /\ n <= Len(p) /\ n <= Len(q)
  BY <1>1, <1>2, <1>4
<1>6. \A j \in 1 .. n : p[j] = q[j]
  <2> SUFFICES ASSUME NEW j \in 1 .. n PROVE p[j] = q[j]
    OBVIOUS
  <2>1. j - 1 \in Nat /\ j - 1 < n /\ (j - 1) + 1 = j
    BY <1>5
  <2> QED
    BY <1>4, <2>1
<1>7. Agree(p, q, n) /\ Agree(q, p, n)
  BY <1>1, <1>5, <1>6 DEF Agree
<1>8. ~(n = Len(p) /\ n = Len(q))
  BY <1>6 DEF Paths
<1>9. n < Len(p) /\ n < Len(q) => p[n+1] < q[n+1] \/ q[n+1] < p[n+1]
  <2> SUFFICES ASSUME n < Len(p) /\ n < Len(q) PROVE p[n+1] < q[n+1] \/ q[n+1] < p[n+1]
    OBVIOUS
  <2>1. p[n+1] # q[n+1]
    BY <1>1, <1>3, <1>5
  <2>2. p[n+1] \in Nat /\ q[n+1] \in Nat
    BY <1>1, <1>5
  <2> QED
    BY <2>1, <2>2
<1> HIDE DEF Apart
<1>10. Forks(p, q, n) \/ Forks(q, p, n)
  <2> DEFINE l == Len(p) m == Len(q)
  <2>0. l \in Nat /\ m \in Nat /\ n \in Nat /\ n <= l /\ n <= m /\ ~(n = l /\ n = m)
    BY <1>1, <1>5, <1>8
  <2> HIDE DEF l, m
  <2>1. /\ n = l \/ n = m \/ (n < l /\ n < m)
        /\ n = l => n < m
        /\ n = m => n < l
    BY <2>0
  <2>2. CASE n = Len(p)
    BY <1>7, <2>1, <2>2, Zenon DEF Forks, l, m
  <2>3. CASE n = Len(q)
    BY <1>7, <2>1, <2>3, Zenon DEF Forks, l, m
  <2>4. CASE n < Len(p) /\ n < Len(q)
    BY <1>7, <1>9, <2>4, Zenon DEF Forks
  <2> QED
    BY <2>1, <2>2, <2>3, <2>4, Zenon DEF l, m
<1> QED
  BY <1>5, <1>10, BeforeForks
-----------------------------------------------------------------------------
(***************************************************************************)
(* The rank of a name is the number of names before it; the walk is the    *)
(* inverse of the rank.                                                    *)
(***************************************************************************)
Below(p) == {q \in Names : Before(q, p)}
Rank(p) == Cardinality(Below(p))
Count == Cardinality(Names)

\* What the lemmas on the walk need of the source.
Ordered == Names \subseteq Paths /\ IsFiniteSet(Names)

LEMMA RankRange ==
  ASSUME Ordered, NEW p \in Names
  PROVE  Count \in Nat /\ IsFiniteSet(Below(p)) /\ Rank(p) \in 0 .. (Count - 1)
<1>1. p \notin Below(p)
  BY BeforeIrreflexive DEF Below, Ordered
<1>2. IsFiniteSet(Names \ {p}) /\ Cardinality(Names \ {p}) = Count - 1 /\ Count \in Nat
  BY FS_RemoveElement, FS_CardinalityType DEF Ordered, Count
<1>3. Below(p) \in SUBSET (Names \ {p})
  BY <1>1 DEF Below
<1>4. IsFiniteSet(Below(p)) /\ Cardinality(Below(p)) <= Count - 1
  BY <1>2, <1>3, FS_Subset
<1>5. Cardinality(Below(p)) \in Nat
  BY <1>4, FS_CardinalityType
<1> QED
  BY <1>2, <1>4, <1>5 DEF Rank

\* The rank grows along the order.
LEMMA RankGrows ==
  ASSUME Ordered, NEW p \in Names, NEW q \in Names, Before(p, q)
  PROVE  Rank(p) < Rank(q)
<1>1. IsFiniteSet(Below(p)) /\ IsFiniteSet(Below(q)) /\ Rank(p) \in Nat /\ Rank(q) \in Nat
  BY RankRange
<1>2. p \in Below(q) /\ p \notin Below(p)
  BY BeforeIrreflexive DEF Below, Ordered
<1>3. Below(p) \in SUBSET Below(q)
  BY BeforeTransitive DEF Below, Ordered
<1>4. Rank(p) <= Rank(q) /\ (Rank(p) = Rank(q) => Below(p) = Below(q))
  BY <1>1, <1>3, FS_Subset DEF Rank
<1> QED
  BY <1>1, <1>2, <1>4

\* So two names never have the same rank, and the order is that of the ranks.
LEMMA RankDecides ==
  ASSUME Ordered, NEW p \in Names, NEW q \in Names
  PROVE  /\ Rank(p) = Rank(q) => p = q
         /\ Before(p, q) <=> Rank(p) < Rank(q)
<1>1. Rank(p) \in Nat /\ Rank(q) \in Nat
  BY RankRange
<1>2. p # q => Before(p, q) \/ Before(q, p)
  BY BeforeTotal DEF Ordered
<1>3. Before(p, q) => Rank(p) < Rank(q)
  BY RankGrows
<1>4. Before(q, p) => Rank(q) < Rank(p)
  BY RankGrows
<1> QED
  BY <1>1, <1>2, <1>3, <1>4

\* Every rank below the number of names is taken.
LEMMA RankTaken ==
  ASSUME Ordered, NEW i \in 0 .. (Count - 1)
  PROVE  \E p \in Names : Rank(p) = i
<1> DEFINE f == [p \in Names |-> Rank(p)]
           Ranks == 0 .. (Count - 1)
<1>1. f \in [Names -> Ranks]
  BY RankRange
<1>2. f \in Injection(Names, Ranks)
  BY <1>1, RankDecides DEF Injection, IsInjective
<1>3. Count \in Nat /\ IsFiniteSet(Ranks) /\ Cardinality(Ranks) = Count
  <2>1. Count \in Nat
    BY FS_CardinalityType DEF Ordered, Count
  <2> QED
    BY <2>1, FS_Interval
<1>4. f \in Surjection(Names, Ranks)
  BY <1>2, <1>3, FS_Injection DEF Count
<1> QED
  BY <1>4 DEF Surjection

\* The walk meets every name once, in the order.
LEMMA WalkOrder ==
  ASSUME Ordered
  PROVE  /\ Count \in Nat /\ Len(Walk) = Count
         /\ \A i \in 1 .. Count : Walk[i] \in Names /\ Rank(Walk[i]) = i - 1
         /\ \A p \in Names : Rank(p) + 1 \in 1 .. Count /\ Walk[Rank(p) + 1] = p
<1>1. Count \in Nat
  BY FS_CardinalityType DEF Ordered, Count
<1>2. Walk = [i \in 1 .. Count |-> CHOOSE p \in Names : Rank(p) = i - 1]
  BY DEF Walk, Ranked, Rank, Below, Names, Count
<1>3. ASSUME NEW i \in 1 .. Count PROVE Walk[i] \in Names /\ Rank(Walk[i]) = i - 1
  <2>1. i - 1 \in 0 .. (Count - 1)
    BY <1>1
  <2>2. PICK p \in Names : Rank(p) = i - 1
    BY <2>1, RankTaken
  <2>3. Walk[i] = CHOOSE q \in Names : Rank(q) = i - 1
    BY <1>2
  <2> QED
    BY <2>2, <2>3
<1>4. ASSUME NEW p \in Names PROVE Rank(p) + 1 \in 1 .. Count /\ Walk[Rank(p) + 1] = p
  <2>1. Rank(p) \in Nat /\ Rank(p) + 1 \in 1 .. Count /\ (Rank(p) + 1) - 1 = Rank(p)
    BY <1>1, RankRange
  <2>2. Walk[Rank(p) + 1] \in Names /\ Rank(Walk[Rank(p) + 1]) = Rank(p)
    BY <1>3, <2>1
  <2> QED
    BY <2>1, <2>2, RankDecides
<1>5. Walk \in [1 .. Count -> Names]
  BY <1>2, <1>3
<1>6. Walk \in Seq(Names)
  BY <1>1, <1>5
<1> QED
  BY <1>1, <1>3, <1>4, <1>5, <1>6

-----------------------------------------------------------------------------
\* d is the beginning of the source up to item k of the walk.
UpTo(d, k) ==
  /\ DOMAIN d = {Walk[i] : i \in 1 .. k}
  /\ \A p \in DOMAIN d : d[p] = src[p]
Part(d) == \E k \in 0 .. Count : UpTo(d, k)

CompactInv ==
  /\ src \in Sources /\ txMaxSize \in TxMaxSizes
  /\ at \in 1 .. (Count + 1) /\ size \in Nat /\ given \in Nat
  /\ state \in {"running", "flushed", "failed", "done"}
  /\ Part(dst) /\ Part(pending)
  /\ state \in {"running", "flushed"} => \A i \in 1 .. (at - 1) : Walk[i] \in DOMAIN pending
  /\ state = "done" => DOMAIN dst = Names
  /\ state = "flushed" => size = 0 /\ given = 0
  /\ TxBounded

LEMMA SourceOrdered ==
  ASSUME src \in Sources
  PROVE  Ordered /\ \A p \in Names : ItemSize(p) \in Nat
<1>1. \A p \in Names : src[p] \in [kind : {"bucket", "value"}, val : Nat]
  BY SourcesAssumption DEF Names
<1>2. Ordered
  BY SourcesAssumption DEF Names, Paths, Ordered
<1> QED
  BY <1>1, <1>2, SourcesAssumption DEF ItemSize

\* The walk is of the source, which does not change.
LEMMA SameWalk ==
  ASSUME src' = src
  PROVE  Walk' = Walk /\ Count' = Count /\ Names' = Names
<1>1. Walk' = Walk
  BY DEF Walk, Ranked
<1> QED
  BY <1>1 DEF Count, Names

LEMMA PartKept ==
  ASSUME src' = src
  PROVE  /\ dst' = dst => (Part(dst)' <=> Part(dst))
         /\ dst' = pending => (Part(dst)' <=> Part(pending))
         /\ pending' = pending => (Part(pending)' <=> Part(pending))
         /\ pending' = dst => (Part(pending)' <=> Part(dst))
BY SameWalk DEF Part, UpTo

\* A beginning of the source that has everything before an item is still one
\* with that item.
LEMMA PartGrows ==
  ASSUME Ordered, NEW d, Part(d), NEW i \in 1 .. Count,
         \A j \in 1 .. (i - 1) : Walk[j] \in DOMAIN d,
         NEW e, DOMAIN e = DOMAIN d \cup {Walk[i]},
         \A p \in DOMAIN e : e[p] = IF p = Walk[i] THEN src[Walk[i]] ELSE d[p]
  PROVE  Part(e)
<1>1. Count \in Nat /\ \A j \in 1 .. Count : Walk[j] \in Names /\ Rank(Walk[j]) = j - 1
  BY WalkOrder
<1>2. PICK k \in 0 .. Count : UpTo(d, k)
  BY DEF Part
<1>3. \A p \in DOMAIN e : e[p] = src[p]
  BY <1>2 DEF UpTo
<1>4. CASE i <= k
  <2>1. DOMAIN e = {Walk[j] : j \in 1 .. k}
    BY <1>1, <1>2, <1>4 DEF UpTo
  <2> QED
    BY <1>2, <1>3, <2>1 DEF Part, UpTo
<1>5. CASE k < i
  <2>1. k = i - 1
    <3> SUFFICES ASSUME k < i - 1 PROVE FALSE
      BY <1>1, <1>2, <1>5
    <3>1. i - 1 \in 1 .. (i - 1) /\ i - 1 \in 1 .. Count
      BY <1>1, <1>2
    <3>2. PICK j \in 1 .. k : Walk[j] = Walk[i - 1]
      BY <1>2, <3>1 DEF UpTo
    <3>3. j \in 1 .. Count
      BY <1>1, <1>2
    <3> QED
      BY <1>1, <1>2, <3>1, <3>2, <3>3
  <2>2. i \in 0 .. Count /\ 1 .. i = (1 .. k) \cup {i}
    BY <1>1, <1>2, <2>1
  <2>3. DOMAIN e = {Walk[j] : j \in 1 .. i}
    BY <1>2, <2>2 DEF UpTo
  <2> QED
    BY <1>3, <2>2, <2>3 DEF Part, UpTo
<1> QED
  BY <1>1, <1>2, <1>4, <1>5

\* With every item it is the source.
LEMMA PartWhole ==
  ASSUME Ordered, NEW d, Part(d), \A i \in 1 .. Count : Walk[i] \in DOMAIN d
  PROVE  DOMAIN d = Names
<1>1. PICK k \in 0 .. Count : UpTo(d, k)
  BY DEF Part
<1>2. /\ Count \in Nat
      /\ \A i \in 1 .. Count : Walk[i] \in Names
      /\ \A p \in Names : Rank(p) + 1 \in 1 .. Count /\ Walk[Rank(p) + 1] = p
  BY WalkOrder
<1>3. DOMAIN d \subseteq Names
  BY <1>1, <1>2 DEF UpTo
<1>4. Names \subseteq DOMAIN d
  BY <1>2
<1> QED
  BY <1>3, <1>4

-----------------------------------------------------------------------------
LEMMA InitCompactInv ==
  ASSUME CompactInit
  PROVE  CompactInv
<1>1. Ordered
  BY SourceOrdered DEF CompactInit
<1>2. Count \in Nat
  BY <1>1, WalkOrder
<1>3. \A d : d = <<>> => Part(d)
  <2> SUFFICES ASSUME NEW d, d = <<>> PROVE Part(d)
    OBVIOUS
  <2>1. DOMAIN d = {}
    OBVIOUS
  <2>2. UpTo(d, 0) /\ 0 \in 0 .. Count
    BY <1>2, <2>1 DEF UpTo
  <2> QED
    BY <2>2 DEF Part
<1>4. at \in 1 .. (Count + 1) /\ 1 .. (at - 1) = {}
  BY <1>2 DEF CompactInit
<1>5. TxBounded
  <2>1. txMaxSize \in Nat /\ size = 0
    BY SourcesAssumption DEF CompactInit
  <2> QED
    BY <2>1 DEF TxBounded
<1> QED
  BY <1>3, <1>4, <1>5 DEF CompactInit, CompactInv

LEMMA FlushInv ==
  ASSUME CompactInv, Flush
  PROVE  CompactInv'
<1>1. src' = src /\ Walk' = Walk /\ Count' = Count /\ Names' = Names
  BY SameWalk DEF Flush, Running
<1>2. Part(dst)' /\ Part(pending)'
  BY <1>1, PartKept DEF Flush, CompactInv
<1>3. TxBounded'
  <2>1. txMaxSize' \in Nat /\ size' = 0
    BY SourcesAssumption DEF Flush, Running, CompactInv
  <2> QED
    BY <2>1 DEF TxBounded
<1> QED
  BY <1>1, <1>2, <1>3 DEF Flush, Running, CompactInv

LEMMA CopyInv ==
  ASSUME CompactInv, Copy
  PROVE  CompactInv'
<1> DEFINE p == Walk[at]
<1>1. src' = src /\ Walk' = Walk /\ Count' = Count /\ Names' = Names
  BY SameWalk DEF Copy, Running
<1>2. Ordered /\ \A q \in Names : ItemSize(q) \in Nat
  BY SourceOrdered DEF CompactInv
<1>3. Count \in Nat /\ Len(Walk) = Count
  BY <1>2, WalkOrder
<1>4. at \in 1 .. Count /\ p \in Names
  BY <1>2, <1>3, WalkOrder DEF Copy, Running, CompactInv
<1>5. /\ DOMAIN pending' = DOMAIN pending \cup {p}
      /\ \A q \in DOMAIN pending' : pending'[q] = IF q = p THEN src[p] ELSE pending[q]
      /\ at' = at + 1 /\ dst' = dst /\ state' = "running" /\ txMaxSize' = txMaxSize
      /\ size' = size + ItemSize(p) /\ given' = given + 1
      /\ state = "flushed" \/ (state = "running" /\ ~Exceeds(p))
  BY DEF Copy, Running
<1> HIDE DEF p
<1>6. Part(dst)'
  BY <1>1, <1>5, PartKept DEF CompactInv
<1>7. \A i \in 1 .. (at - 1) : Walk[i] \in DOMAIN pending
  BY <1>5 DEF CompactInv
<1>8. Part(pending)'
  <2>1. \A e : DOMAIN e = DOMAIN pending' /\ (\A q \in DOMAIN e : e[q] = pending'[q]) => Part(e)
    <3> SUFFICES ASSUME NEW e, DOMAIN e = DOMAIN pending',
                        \A q \in DOMAIN e : e[q] = pending'[q]
                 PROVE  Part(e)
      OBVIOUS
    <3> QED
      BY <1>2, <1>4, <1>5, <1>7, PartGrows DEF CompactInv, p
  <2>2. PICK k \in 0 .. Count : UpTo(pending', k)
    BY <2>1 DEF Part
  <2> QED
    BY <1>1, <2>2 DEF Part, UpTo
<1>9. \A i \in 1 .. (at' - 1) : Walk'[i] \in DOMAIN pending'
  BY <1>1, <1>4, <1>5, <1>7 DEF p
<1>10. size' \in Nat /\ given' \in Nat /\ at' \in 1 .. (Count + 1)
  BY <1>2, <1>3, <1>4, <1>5 DEF CompactInv
<1>11. TxBounded'
  <2>1. txMaxSize \in Nat /\ ItemSize(p) \in Nat /\ size \in Nat
    BY <1>2, <1>4, SourcesAssumption DEF CompactInv
  <2>2. CASE state = "flushed"
    <3>1. given' = 1
      BY <1>5, <2>2 DEF CompactInv
    <3> QED
      BY <3>1 DEF TxBounded
  <2>3. CASE ~Exceeds(p)
    <3>1. txMaxSize # 0 => size' <= txMaxSize
      BY <1>5, <2>1, <2>3 DEF Exceeds
    <3> QED
      BY <1>5, <3>1 DEF TxBounded
  <2> QED
    BY <1>5, <2>2, <2>3
<1> QED
  BY <1>1, <1>5, <1>6, <1>8, <1>9, <1>10, <1>11 DEF CompactInv

LEMMA FinishInv ==
  ASSUME CompactInv, Finish
  PROVE  CompactInv'
<1>1. src' = src /\ Walk' = Walk /\ Count' = Count /\ Names' = Names
  BY SameWalk DEF Finish
<1>2. Part(dst)' /\ Part(pending)'
  BY <1>1, PartKept DEF Finish, CompactInv
<1>3. Ordered
  BY SourceOrdered DEF CompactInv
<1>4. DOMAIN pending = Names
  <2>1. \A i \in 1 .. Count : Walk[i] \in DOMAIN pending
    BY <1>3, WalkOrder DEF Finish, CompactInv
  <2> QED
    BY <1>3, <2>1, PartWhole DEF CompactInv
<1>5. TxBounded'
  BY DEF Finish, TxBounded, CompactInv
<1> QED
  BY <1>1, <1>2, <1>4, <1>5 DEF Finish, CompactInv

LEMMA FailInv ==
  ASSUME CompactInv, Fail
  PROVE  CompactInv'
<1>1. src' = src /\ Walk' = Walk /\ Count' = Count /\ Names' = Names
  BY SameWalk DEF Fail
<1>2. Part(dst)' /\ Part(pending)'
  BY <1>1, PartKept DEF Fail, CompactInv
<1>3. TxBounded'
  BY DEF Fail, TxBounded, CompactInv
<1> QED
  BY <1>1, <1>2, <1>3 DEF Fail, CompactInv

LEMMA AgainInv ==
  ASSUME CompactInv, Again
  PROVE  CompactInv'
<1>1. src' = src /\ Walk' = Walk /\ Count' = Count /\ Names' = Names
  BY SameWalk DEF Again
<1>2. Part(dst)' /\ Part(pending)'
  BY <1>1, PartKept DEF Again, CompactInv
<1>3. Count \in Nat
  BY SourceOrdered, WalkOrder DEF CompactInv
<1>4. at' \in 1 .. (Count' + 1) /\ 1 .. (at' - 1) = {} /\ size' \in Nat /\ given' \in Nat
  BY <1>1, <1>3 DEF Again
<1>5. TxBounded'
  BY SourcesAssumption DEF Again, TxBounded, CompactInv
<1> QED
  BY <1>1, <1>2, <1>4, <1>5 DEF Again, CompactInv

LEMMA CompactStep ==
  ASSUME CompactInv, [CompactNext]_compactVars
  PROVE  CompactInv'
<1>1. CASE UNCHANGED compactVars
  <2>1. src' = src /\ Walk' = Walk /\ Count' = Count /\ Names' = Names
    BY <1>1, SameWalk DEF compactVars
  <2>2. Part(dst)' /\ Part(pending)'
    BY <1>1, PartKept DEF compactVars, progress, CompactInv
  <2>3. TxBounded'
    BY <1>1 DEF compactVars, progress, TxBounded, CompactInv
  <2> QED
    BY <1>1, <2>1, <2>2, <2>3 DEF compactVars, progress, CompactInv
<1> QED
  BY <1>1, FlushInv, CopyInv, FinishInv, FailInv, AgainInv DEF CompactNext

\* The destination holds a beginning of the walk and the transaction is bounded,
\* in every reachable state.
THEOREM CompactInvariance == CompactSpec => []CompactInv
<1>1. CompactInit => CompactInv
  BY InitCompactInv
<1>2. CompactInv /\ [CompactNext]_compactVars => CompactInv'
  BY CompactStep
<1> QED
  BY <1>1, <1>2, PTL DEF CompactSpec

\* Whenever Compact stops, the destination is a beginning of the source, and the
\* whole of it when it reports success (DstIsPrefix).
THEOREM DstAlwaysPrefix == CompactSpec => []DstIsPrefix
<1>1. ASSUME CompactInv PROVE DstIsPrefix
  <2>1. Ordered
    BY <1>1, SourceOrdered DEF CompactInv
  <2>2. /\ Count \in Nat
        /\ \A i \in 1 .. Count : Walk[i] \in Names /\ Rank(Walk[i]) = i - 1
        /\ \A p \in Names : Rank(p) + 1 \in 1 .. Count /\ Walk[Rank(p) + 1] = p
    BY <2>1, WalkOrder
  <2>3. PICK k \in 0 .. Count : UpTo(dst, k)
    BY <1>1 DEF CompactInv, Part
  <2>4. DOMAIN dst \subseteq Names
    BY <2>2, <2>3 DEF UpTo
  <2>5. ASSUME NEW p \in DOMAIN dst, NEW q \in Names, q = p \/ Before(q, p)
        PROVE  q \in DOMAIN dst /\ dst[q] = src[q]
    <3>1. PICK i \in 1 .. k : p = Walk[i]
      BY <2>3 DEF UpTo
    <3>2. p \in Names /\ Rank(p) = i - 1
      BY <2>2, <2>3, <3>1
    <3>3. q = p \/ Rank(q) < Rank(p)
      BY <2>1, <2>5, <3>2, RankDecides
    <3>4. Rank(q) + 1 \in 1 .. k /\ Walk[Rank(q) + 1] = q
      BY <2>2, <2>3, <3>2, <3>3
    <3> QED
      BY <2>3, <3>4 DEF UpTo
  <2> QED
    BY <1>1, <2>4, <2>5 DEF DstIsPrefix, CompactInv, Names
<1> QED
  BY <1>1, CompactInvariance, PTL

\* No transaction of the destination is given more than txMaxSize bytes, unless a
\* single item is larger (TxBounded).
THEOREM TxAlwaysBounded == CompactSpec => []TxBounded
<1>1. CompactInv => TxBounded
  BY DEF CompactInv
<1> QED
  BY <1>1, CompactInvariance, PTL
==============================================================================
