------------------------------ MODULE PageSet -------------------------------
(***************************************************************************)
(* What shared.go asks of an allocator (freelist.go's allocator): a set of *)
(* free page ids, from which Allocate takes a run of contiguous ids        *)
(* whenever there is one, and to which mergeSpans returns ids.             *)
(***************************************************************************)
EXTENDS Integers

CONSTANT MaxId      \* last page id

PageIds == 2 .. MaxId

VARIABLES free,     \* the free page ids
          ret       \* what the last Allocate returned, 0 for none

vars == <<free, ret>>

Runs(n) == {i \in free : i .. (i + n - 1) \subseteq free}

Init == free \subseteq PageIds /\ ret = 0

Allocate(n) ==
  \/ /\ n > 0
     /\ ret' \in Runs(n)
     /\ free' = free \ (ret' .. (ret' + n - 1))
  \/ /\ n = 0 \/ Runs(n) = {}
     /\ ret' = 0
     /\ UNCHANGED free

\* Merge is called with any ids; the allocators add those they are given as it
\* begins and say for themselves that they add none after that.
Merge ==
  /\ free \subseteq free' /\ free' \subseteq PageIds
  /\ UNCHANGED ret

Next == (\E n \in 0 .. MaxId : Allocate(n)) \/ Merge

Spec == Init /\ [][Next]_vars
=============================================================================
