------------------------------ MODULE MCFiles ------------------------------
(***************************************************************************)
(* Growth of the file, surgery and compaction side by side: in a behaviour *)
(* one of them takes steps and the others stay where they begin.           *)
(***************************************************************************)
EXTENDS DataFile, Compact, TLC

CONSTANTS Pgids, Start, MetaFields, Commands, Copied, SeedKeys

VARIABLES part,
          page, meta, warned, unnested, commands

S == INSTANCE Surgery

-----------------------------------------------------------------------------
Opts(max, initial, noSync, noGrow) ==
  [maxSize |-> max, initialMmapSize |-> initial,
   noFreelistSync |-> noSync, noGrowSync |-> noGrow]

\* Every mode.  MaxSize allows maps below AllocSize only, or files somewhat larger
\* than AllocSize; initial maps within it, over it, and without it.
Modes == {Opts(m, 0, ns, ng) : m \in {0, 9, 22}, ns \in BOOLEAN, ng \in BOOLEAN}
         \cup {Opts(m, 10, ns, FALSE) : m \in {0, 9, 22}, ns \in BOOLEAN}
         \cup {Opts(9, 3, FALSE, TRUE)}

-----------------------------------------------------------------------------
Elem(key, kind, to) == [key |-> key, kind |-> kind, to |-> to, keys |-> {}, big |-> FALSE]
Page(id, type, elems) == [id |-> id, type |-> type, elems |-> elems, over |-> 0, free |-> {}, stale |-> 0]
Value(k) == Elem(k, "value", 0)
Big(k) == [Value(k) EXCEPT !.big = TRUE]
Nested(k, p) == Elem(k, "bucket", p)
InlineBucket(k, keys) == [Nested(k, 0) EXCEPT !.keys = keys]
Child(k, p) == Elem(k, "child", p)
Free(p, ids) == [Page(p, "freelist", <<>>) EXCEPT !.free = ids]

\* A bucket of three pages, the second transaction has put one with an
\* overflow page beside it; the root and the freelist of the first one are free.
TwoBuckets ==
  [page |-> 2 :> Free(2, {9, 10})
         @@ 3 :> Page(3, "leaf", <<Nested(1, 4), Nested(2, 7), InlineBucket(3, {5})>>)
         @@ 4 :> Page(4, "branch", <<Child(1, 5), Child(3, 6)>>)
         @@ 5 :> Page(5, "leaf", <<Value(1), Value(2)>>)
         @@ 6 :> Page(6, "leaf", <<Value(3), Value(5)>>)
         @@ 7 :> [Page(7, "leaf", <<Value(1), Big(4)>>) EXCEPT !.over = 1]
         @@ 8 :> Page(0, "raw", <<>>)
         @@ 9 :> Page(9, "leaf", <<Nested(1, 4)>>)
         @@ 10 :> Free(10, {2, 3, 7, 8}),
   meta |-> 0 :> [txid |-> 2, root |-> 3, freelist |-> 2, hwm |-> 11]
         @@ 1 :> [txid |-> 1, root |-> 9, freelist |-> 10, hwm |-> 11]]
OneFile == {TwoBuckets}

-----------------------------------------------------------------------------
B(seq) == [kind |-> "bucket", val |-> seq]
V(n) == [kind |-> "value", val |-> n]

\* Two buckets three deep with values after the nested ones, a bucket alone,
\* and nothing.
Deep == <<1>> :> B(2) @@ <<1, 1>> :> B(1) @@ <<1, 1, 2>> :> V(5) @@ <<1, 2>> :> V(1)
        @@ <<2>> :> B(0) @@ <<2, 1>> :> V(2) @@ <<2, 2>> :> V(0) @@ <<2, 3>> :> B(4)
Trees == {Deep, <<1>> :> B(3), <<>>}

-----------------------------------------------------------------------------
fileVars == vars
pageVars == <<page, meta, warned, unnested, commands>>

FilesInit ==
  /\ part \in {"growth", "surgery", "compaction"}
  /\ Init /\ S!Init /\ CompactInit
  /\ part # "growth" => options = CHOOSE o \in OptionSet : TRUE
  /\ part # "compaction" => src = <<>> /\ txMaxSize = 0

Growth == part = "growth" /\ Next /\ UNCHANGED <<part, pageVars, compactVars>>
Operation == part = "surgery" /\ S!Next /\ UNCHANGED <<part, fileVars, compactVars>>
Compaction == part = "compaction" /\ CompactNext /\ UNCHANGED <<part, fileVars, pageVars>>

FilesNext == Growth \/ Operation \/ Compaction

FilesSpec == FilesInit /\ [][FilesNext]_<<part, fileVars, pageVars, compactVars>>

\* The properties of Surgery.
CheckFinds == part = "surgery" => S!CheckFinds
QuietlySound == part = "surgery" => S!QuietlySound
XRayFinds == part = "surgery" => S!XRayFinds
=============================================================================
