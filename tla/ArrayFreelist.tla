---------------------------- MODULE ArrayFreelist ----------------------------
(***************************************************************************)
(* The array allocator (internal/freelist/array.go): the free ids are a    *)
(* sorted slice.  Allocate takes the first run that is long enough;        *)
(* mergeSpans merges two sorted slices (internal/common/page.go).          *)
(***************************************************************************)
EXTENDS Integers, Sequences, SequencesExt, FiniteSetsExt

CONSTANT MaxId      \* last page id

PageIds == 2 .. MaxId

VARIABLES
  ids,                      \* array.ids
  merged, lead, follow,     \* of the running Mergepgids, empty without one
  ret                       \* what the last Allocate returned

merge == <<merged, lead, follow>>
vars == <<ids, merge, ret>>

Sorted(S) ==
  [i \in 1 .. Cardinality(S) |-> CHOOSE x \in S : Cardinality({y \in S : y < x}) = i - 1]

Init ==
  /\ \E S \in SUBSET PageIds : ids = Sorted(S)
  /\ merged = <<>> /\ lead = <<>> /\ follow = <<>>
  /\ ret = 0

(***************************************************************************)
(* The loop of Allocate: `initial' after the loop body has seen s[i].      *)
(***************************************************************************)
\* Variant: the run is not restarted after a gap.
InitialOfFirst(s) == [i \in DOMAIN s |-> s[1]]

Initial(s) ==
  [i \in DOMAIN s |-> s[Max({j \in 1 .. i : j = 1 \/ s[j] - s[j - 1] # 1})]]

Found(s, n) == {i \in DOMAIN s : s[i] - Initial(s)[i] + 1 = n}

\* The block of n ids that ends at position i is cut out.
Cut(s, i, n) == SubSeq(s, 1, i - n) \o SubSeq(s, i + 1, Len(s))

Allocate(n) ==
  /\ lead = <<>>
  /\ \/ /\ Found(ids, n) # {}
        /\ LET i == Min(Found(ids, n))
           IN  ret' = Initial(ids)[i] /\ ids' = Cut(ids, i, n)
     \/ /\ Found(ids, n) = {}
        /\ ret' = 0 /\ UNCHANGED ids
  /\ UNCHANGED merge

(***************************************************************************)
(* mergeSpans, called with ids S that are not free.                        *)
(***************************************************************************)
\* Pgids.Merge, and Mergepgids before its loop.
Merge(b) ==
  IF ids = <<>> \/ b = <<>>
  THEN ids' = ids \o b /\ UNCHANGED merge
  ELSE /\ IF b[1] < ids[1] THEN lead' = b /\ follow' = ids
                           ELSE lead' = ids /\ follow' = b
       /\ UNCHANGED <<ids, merged>>

MergeSpans ==
  /\ lead = <<>>
  /\ \E S \in SUBSET (PageIds \ ToSet(ids)) : Merge(Sorted(S))
  /\ UNCHANGED ret

\* sort.Search for the first element of s above id.
Search(s, id) == Min({n \in 0 .. Len(s) : n = Len(s) \/ s[n + 1] > id})

\* One turn of the loop: the prefix of lead that is not above follow's first
\* id is appended, then the two change places.
MergeLead ==
  LET n == Search(lead, follow[1]) IN
  /\ lead # <<>>
  /\ \/ /\ n >= Len(lead)
        /\ ids' = merged \o lead \o follow
        /\ merged' = <<>> /\ lead' = <<>> /\ follow' = <<>>
     \/ /\ n < Len(lead)
        /\ merged' = merged \o SubSeq(lead, 1, n)
        /\ lead' = follow /\ follow' = SubSeq(lead, n + 1, Len(lead))
        /\ UNCHANGED ids
  /\ UNCHANGED ret

Next == (\E n \in 0 .. MaxId : Allocate(n)) \/ MergeSpans \/ MergeLead

Spec == Init /\ [][Next]_vars

-----------------------------------------------------------------------------
\* The slice is sorted and has no id twice: what Allocate's single pass and the
\* merge rely on.
TypeOK ==
  /\ ids \in Seq(PageIds)
  /\ \A i, j \in DOMAIN ids : i < j => ids[i] < ids[j]
  /\ ret \in {0} \cup PageIds

Set == INSTANCE PageSet
         WITH free <- ToSet(ids) \cup ToSet(merged) \cup ToSet(lead) \cup ToSet(follow),
              ret <- ret

\* Allocate returns a run of free ids whenever there is one and takes exactly
\* that run, and mergeSpans, once it has begun, neither loses nor adds an id.
ImplementsPageSet == Set!Spec /\ [][lead # <<>> => Set!vars' = Set!vars]_vars
=============================================================================
