--------------------------- MODULE HashMapFreelist ---------------------------
(***************************************************************************)
(* The hashmap allocator (internal/freelist/hashmap.go).  The free ids are *)
(* kept as spans in three maps: by their start, by their end, and by their *)
(* size.  A Go map is a function whose domain is the set of its keys.      *)
(***************************************************************************)
EXTENDS Integers, FiniteSets

CONSTANT MaxId      \* last page id

ASSUME MaxIdAssumption == MaxId \in Nat

PageIds == 2 .. MaxId

VARIABLES
  spans,    \* [forwardMap, backwardMap, freemaps, freePagesCount]
  ids,      \* what the running mergeSpans has not merged yet
  ret       \* what the last Allocate returned

vars == <<spans, ids, ret>>

With(f, x, v) == [y \in DOMAIN f \cup {x} |-> IF y = x THEN v ELSE f[y]]
Without(f, x) == [y \in DOMAIN f \ {x} |-> f[y]]
Get(f, x, default) == IF x \in DOMAIN f THEN f[x] ELSE default

\* Variant: the span is not entered under its end.
AddSpanForwardOnly(m, start, size) ==
  [forwardMap |-> With(m.forwardMap, start, size),
   backwardMap |-> m.backwardMap,
   freemaps |-> With(m.freemaps, size, Get(m.freemaps, size, {}) \cup {start}),
   freePagesCount |-> m.freePagesCount + size]

AddSpan(m, start, size) ==
  [forwardMap |-> With(m.forwardMap, start, size),
   backwardMap |-> With(m.backwardMap, start + size - 1, size),
   freemaps |-> With(m.freemaps, size, Get(m.freemaps, size, {}) \cup {start}),
   freePagesCount |-> m.freePagesCount + size]

\* Variant: freePagesCount is not decreased.
DelSpanKeepingCount(m, start, size) ==
  LET left == Get(m.freemaps, size, {}) \ {start}
  IN  [forwardMap |-> Without(m.forwardMap, start),
       backwardMap |-> Without(m.backwardMap, start + size - 1),
       freemaps |-> IF left = {} THEN Without(m.freemaps, size)
                                 ELSE With(m.freemaps, size, left),
       freePagesCount |-> m.freePagesCount]

DelSpan(m, start, size) ==
  LET left == Get(m.freemaps, size, {}) \ {start}
  IN  [forwardMap |-> Without(m.forwardMap, start),
       backwardMap |-> Without(m.backwardMap, start + size - 1),
       freemaps |-> IF left = {} THEN Without(m.freemaps, size)
                                 ELSE With(m.freemaps, size, left),
       freePagesCount |-> m.freePagesCount - size]

(***************************************************************************)
(* hashMap.Init: one span for each maximal run of the ids it is given.     *)
(***************************************************************************)
Starts(S) == {i \in S : i - 1 \notin S}
EndOf(S, i) == CHOOSE j \in S : i <= j /\ i .. j \subseteq S /\ j + 1 \notin S
Size(S, i) == EndOf(S, i) - i + 1

Loaded(S) ==
  [forwardMap |-> [i \in Starts(S) |-> Size(S, i)],
   backwardMap |-> [j \in {EndOf(S, i) : i \in Starts(S)} |->
                      Size(S, CHOOSE i \in Starts(S) : EndOf(S, i) = j)],
   freemaps |-> [n \in {Size(S, i) : i \in Starts(S)} |->
                      {i \in Starts(S) : Size(S, i) = n}],
   freePagesCount |-> Cardinality(S)]

Init ==
  /\ \E S \in SUBSET PageIds : spans = Loaded(S)
  /\ ids = {}
  /\ ret = 0

(***************************************************************************)
(* Allocate.  Go ranges over a map in no order: any span of size n, and if *)
(* there is none any larger one, whose rest goes back.                     *)
(***************************************************************************)
\* Variant: the rest of a larger span starts one page too early.
TakeLargerShifted(n) ==
  \E size \in {s \in DOMAIN spans.freemaps : s > n} : \E pid \in spans.freemaps[size] :
    /\ spans' = AddSpan(DelSpan(spans, pid, size), pid + n - 1, size - n)
    /\ ret' = pid

TakeExact(n) ==
  \E pid \in spans.freemaps[n] : spans' = DelSpan(spans, pid, n) /\ ret' = pid

TakeLarger(n) ==
  \E size \in {s \in DOMAIN spans.freemaps : s > n} : \E pid \in spans.freemaps[size] :
    /\ spans' = AddSpan(DelSpan(spans, pid, size), pid + n, size - n)
    /\ ret' = pid

Fits(n) == {s \in DOMAIN spans.freemaps : s >= n}

Allocate(n) ==
  /\ ids = {}
  /\ \/ n > 0 /\ n \in DOMAIN spans.freemaps /\ TakeExact(n)
     \/ n > 0 /\ n \notin DOMAIN spans.freemaps /\ TakeLarger(n)
     \/ (n = 0 \/ Fits(n) = {}) /\ ret' = 0 /\ UNCHANGED spans
  /\ UNCHANGED ids

(***************************************************************************)
(* mergeSpans, called with ids that are not free: run by run from the      *)
(* lowest id on, each run with the spans before and after it.              *)
(***************************************************************************)
FreeIds(m) == UNION {s .. (s + m.forwardMap[s] - 1) : s \in DOMAIN m.forwardMap}

BeginMergeSpans ==
  /\ ids = {}
  /\ ids' \in SUBSET (PageIds \ FreeIds(spans))
  /\ UNCHANGED <<spans, ret>>

\* Variant: the span after the run is not merged.
MergeWithPreviousSpan(m, start, end) ==
  LET prev == start - 1
      preSize == Get(m.backwardMap, prev, 0)
      m1 == IF prev \in DOMAIN m.backwardMap THEN DelSpan(m, start - preSize, preSize) ELSE m
  IN  AddSpan(m1, start - preSize, (end - start + 1) + preSize)

MergeWithExistingSpan(m, start, end) ==
  LET prev == start - 1
      next == end + 1
      preSize == Get(m.backwardMap, prev, 0)
      nextSize == Get(m.forwardMap, next, 0)
      m1 == IF prev \in DOMAIN m.backwardMap THEN DelSpan(m, start - preSize, preSize) ELSE m
      m2 == IF next \in DOMAIN m.forwardMap THEN DelSpan(m1, next, nextSize) ELSE m1
  IN  AddSpan(m2, start - preSize, (end - start + 1) + preSize + nextSize)

\* Variant: the next run begins inside the one just merged.
MergeRunAgain ==
  \E start, end \in ids :
    /\ \A i \in ids : start <= i
    /\ start <= end /\ start .. end \subseteq ids /\ end + 1 \notin ids
    /\ spans' = MergeWithExistingSpan(spans, start, end)
    /\ ids' = ids \ {start}
    /\ UNCHANGED ret

MergeRun ==
  \E start, end \in ids :
    /\ \A i \in ids : start <= i
    /\ start <= end /\ start .. end \subseteq ids /\ end + 1 \notin ids
    /\ spans' = MergeWithExistingSpan(spans, start, end)
    /\ ids' = ids \ (start .. end)
    /\ UNCHANGED ret

Next == (\E n \in 0 .. MaxId : Allocate(n)) \/ BeginMergeSpans \/ MergeRun

Spec == Init /\ [][Next]_vars

-----------------------------------------------------------------------------
(***************************************************************************)
(* What holds of the three maps m.                                         *)
(***************************************************************************)
Typed(m) ==
  /\ DOMAIN m.forwardMap \subseteq PageIds
  /\ \A s \in DOMAIN m.forwardMap :
       m.forwardMap[s] \in 1 .. MaxId /\ s + m.forwardMap[s] - 1 \in PageIds

Agree(m) ==
  LET F == m.forwardMap
  IN  /\ DOMAIN m.backwardMap = {s + F[s] - 1 : s \in DOMAIN F}
      /\ \A s \in DOMAIN F : m.backwardMap[s + F[s] - 1] = F[s]
      /\ DOMAIN m.freemaps = {F[s] : s \in DOMAIN F}
      /\ \A n \in DOMAIN m.freemaps : m.freemaps[n] = {s \in DOMAIN F : F[s] = n}

Apart(m) ==
  \A s, t \in DOMAIN m.forwardMap : s < t => s + m.forwardMap[s] < t

TypeOK ==
  /\ Typed(spans)
  /\ ids \subseteq PageIds \ FreeIds(spans)
  /\ ret \in {0} \cup PageIds

\* The three maps describe the same spans (what mergeSpans verifies when
\* BBOLT_VERIFY is set).
SpansAgree == Agree(spans)

\* Spans neither overlap nor touch: a run of free ids lies in one span, so that
\* Allocate, which looks at one span at a time, finds it.
SpansApart == Apart(spans)

\* FreeCount's counter is the number of free ids.
CountExact == spans.freePagesCount = Cardinality(FreeIds(spans))

Set == INSTANCE PageSet WITH free <- FreeIds(spans) \cup ids, ret <- ret

\* Allocate returns a run of free ids whenever there is one and takes exactly
\* that run, and mergeSpans, once it has begun, neither loses nor adds an id.
ImplementsPageSet == Set!Spec /\ [][ids # {} => Set!vars' = Set!vars]_vars
=============================================================================
