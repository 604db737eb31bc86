------------------------------- MODULE Surgery -------------------------------
(***************************************************************************)
(* A closed database file under the surgery commands, which rewrite pages  *)
(* without a transaction, and the tools that walk its pages: Check, XRay   *)
(* and the scan that rebuilds a freelist (tx_check.go, internal/surgeon,   *)
(* internal/guts_cli, command_surgery*.go).  A command copies the file and *)
(* changes the copy; the next command takes the copy.                      *)
(***************************************************************************)
EXTENDS Integers, Sequences, FiniteSets, SequencesExt, FiniteSetsExt

CONSTANTS Pgids,        \* the pages of the file, from 2 on
          Start,        \* the files a series of commands begins with
          MetaFields,   \* of surgery meta update: "root", "freelist", "pgid"
          Commands,     \* how many (bound)
          Copied,       \* pages that are copied or become a root (bound)
          SeedKeys      \* the keys asked of XRay (bound)

NoFreelist == 0         \* PgidNoFreelist

VARIABLES
  page,         \* page[p]: its header and elements, "raw" inside another page
  meta,         \* the two meta pages
  warned,       \* the user was told to abandon the freelist, or writes at will
  unnested,     \* elements with the root of a bucket were cleared
  commands

vars == <<page, meta, warned, unnested, commands>>

\* An element leads to a child page or to a bucket's root; an inline bucket
\* (to = 0) has keys.  A big one makes its page overflow.  stale: where the first
\* element of an emptied branch page led, which stays in the page.
Elem(key, kind, to) == [key |-> key, kind |-> kind, to |-> to, keys |-> {}, big |-> FALSE]
Page(id, type, elems) ==
  [id |-> id, type |-> type, elems |-> elems, over |-> 0, free |-> {}, stale |-> 0]
Raw == Page(0, "raw", <<>>)

(***************************************************************************)
(* guts_cli: reading a file page by page.                                  *)
(***************************************************************************)
\* guts_cli.GetActiveMetaPage
ActiveSlot(m) == IF m[0].txid < m[1].txid THEN 1 ELSE 0
Active == meta[ActiveSlot(meta)]

\* DB.meta, of a database that is opened, takes the second of two equals.
CurrentSlot(m) == IF m[0].txid > m[1].txid THEN 0 ELSE 1
Current == meta[CurrentSlot(meta)]

\* guts_cli.ReadPage: the id is the page's own, the overflow is below the mark.
Readable(p) ==
  p \in Pgids /\ page[p].id = p /\ page[p].over < meta[0].hwm - 3

Extent(p) == p .. p + page[p].over

\* guts_cli.WritePage of a page with its overflow.
Write(pages, p, new) ==
  [q \in Pgids |-> IF q = p THEN new ELSE IF q \in p + 1 .. p + new.over THEN Raw ELSE pages[q]]

(***************************************************************************)
(* Walking pages.                                                          *)
(***************************************************************************)
Children(p) == {e.to : e \in {e \in ToSet(page[p].elems) : e.kind = "child"}}
Roots(p) == {e.to : e \in {e \in ToSet(page[p].elems) : e.kind = "bucket" /\ e.to # 0}}
Below(p) == IF page[p].type \in {"branch", "leaf"} THEN Children(p) \cup Roots(p) ELSE {}

\* What a walk reaches that steps from p to each of Step(p), and whether it
\* comes round: it does when it goes on for more steps than there are pages.
Reached(from, Step(_)) ==
  LET within[n \in 0 .. Cardinality(Pgids)] ==
        IF n = 0 THEN [all |-> {from}, last |-> {from}]
        ELSE LET near == within[n-1]
                 new == UNION {Step(p) : p \in near.last \cap Pgids} \ near.all
             IN [all |-> near.all \cup new, last |-> new]
  IN within[Cardinality(Pgids)].all
Loops(from, Step(_)) ==
  LET after[n \in 0 .. Cardinality(Pgids)] ==
        IF n = 0 THEN {from} ELSE UNION {Step(p) : p \in after[n-1] \cap Pgids}
  IN after[Cardinality(Pgids)] \cap Pgids # {}

Reach(root) == Reached(root, Below)
Cyclic(root) == Loops(root, Below)

\* Tx.forEachPage of a bucket: its pages, once for every reference.
BucketPages(root) ==
  LET from[p \in Pgids] ==
        IF page[p].type # "branch" THEN <<p>>
        ELSE FoldLeft(LAMBDA s, e : s \o from[e.to], <<p>>, page[p].elems)
  IN from[root]

(***************************************************************************)
(* The cursor, on pages.                                                   *)
(***************************************************************************)
\* Where Cursor.first and next go from a page.  goToFirstElementOnTheStack reads
\* element 0 of a branch page that has none.
Descents(p) ==
  IF page[p].type # "branch" THEN <<>>
  ELSE IF page[p].elems = <<>> THEN <<page[p].stale>>
  ELSE [i \in DOMAIN page[p].elems |-> page[p].elems[i].to]
Led(p) == ToSet(Descents(p))

\* Tx.page fails on a page that is not there or of another id.  (A freelist page,
\* whose ids would be read as elements, counts as one that it fails on.)
Walkable(root) ==
  /\ \A p \in Reached(root, Led) :
       p \in Pgids /\ page[p].id = p /\ page[p].type \in {"branch", "leaf"}
  /\ ~Loops(root, Led)

\* The elements that first and next give of a bucket.
Listed(root) ==
  LET from[p \in Pgids] ==
        IF page[p].type = "leaf" THEN page[p].elems
        ELSE FoldLeft(LAMBDA s, q : s \o from[q], <<>>, Descents(p))
  IN from[root]

\* The leaf where Cursor.seek looks for key k; 0 when it meets a branch page
\* without elements, where searchPage panics.
SeekLeaf(root, k) ==
  LET from[p \in Pgids] ==
        LET s == page[p].elems
            below == {i \in DOMAIN s : s[i].key <= k} IN
        IF page[p].type = "leaf" THEN p
        ELSE IF s = <<>> THEN 0
        ELSE from[s[IF below = {} THEN 1 ELSE Max(below)].to]
  IN from[root]

(***************************************************************************)
(* recursivelyCheckBucket: ForEachBucket lists the nested buckets, Bucket  *)
(* seeks each of them.                                                     *)
(***************************************************************************)
ListedBuckets(r) == SelectSeq(Listed(r), LAMBDA e : e.kind = "bucket")

BucketCrashes(r) ==
  IF Walkable(r) THEN \E e \in ToSet(ListedBuckets(r)) : SeekLeaf(r, e.key) = 0 ELSE TRUE

\* Bucket.Bucket: the root it finds for k, 0 for none and for an inline bucket.
Opened(r, k) ==
  LET at == {e \in ToSet(page[SeekLeaf(r, k)].elems) : e.key = k /\ e.kind = "bucket"}
  IN IF at = {} THEN 0 ELSE (CHOOSE e \in at : TRUE).to
Subbuckets(r) ==
  IF BucketCrashes(r) THEN {} ELSE {Opened(r, e.key) : e \in ToSet(ListedBuckets(r))} \ {0}
BucketRoots(root) == Reached(root, Subbuckets)

\* The pages of a bucket, then those of its buckets.  (A bucket that two
\* leaves share is walked twice, as in the code.)
Visits(root) ==
  LET of[r \in Pgids] ==
        FoldLeft(LAMBDA s, e : IF Opened(r, e.key) = 0 THEN s ELSE s \o of[Opened(r, e.key)],
                 BucketPages(r), ListedBuckets(r))
  IN of[root]

(***************************************************************************)
(* Tx.Check: what it reports.                                              *)
(***************************************************************************)
References(visits, id) == Cardinality({i \in DOMAIN visits : id \in Extent(visits[i])})
FreelistPages(m) == IF m.freelist = NoFreelist THEN {} ELSE Extent(m.freelist)

\* verifyPageReachable, for every visit.
PageReports(m, freed, visits) ==
  UNION {{<<p, "out of bounds">> : x \in {x \in {0} : p > m.hwm}}
         \cup {<<id, "multiple references">> :
                 id \in {id \in Extent(p) : \/ References(visits, id) > 1
                                            \/ id \in {0, 1} \cup FreelistPages(m)}}
         \cup {<<p, "reachable freed">> : x \in {x \in {0} : p \in freed}}
         \cup {<<p, "invalid type">> :
                 x \in {x \in {0} : p \notin freed /\ page[p].type \notin {"branch", "leaf"}}}
         : p \in ToSet(visits)}

\* Variant: the bounds that the branch gives are not checked.
MisplacedInPage(i, key, previous, max) == i > 1 /\ previous >= key

\* verifyKeyOrder of element i after key previous, below max; 0 for none.
Misplaced(i, key, previous, max) ==
  \/ i = 1 /\ previous # 0 /\ previous > key
  \/ i > 1 /\ previous >= key
  \/ max # 0 /\ key >= max

\* recursivelyCheckPageKeyOrder: whether a key of p is misplaced, and the
\* greatest key of p.
RECURSIVE KeyOrder(_, _, _)
KeyOrder(p, min, max) ==
  LET s == page[p].elems
      next(i) == IF i < Len(s) THEN s[i+1].key ELSE max
      upTo[i \in 0 .. Len(s)] ==
        IF i = 0 THEN [bad |-> FALSE, last |-> min]
        ELSE LET sub == IF page[p].type = "leaf" THEN [bad |-> FALSE, last |-> s[i].key]
                        ELSE KeyOrder(s[i].to, s[i].key, next(i))
             IN [bad |-> upTo[i-1].bad \/ sub.bad \/ Misplaced(i, s[i].key, upTo[i-1].last, max),
                 last |-> sub.last]
  IN IF page[p].type \notin {"branch", "leaf"} THEN [bad |-> TRUE, last |-> 0]
     ELSE IF s = <<>> THEN [bad |-> FALSE, last |-> 0]
     ELSE upTo[Len(s)]

OrderReports(root) ==
  {<<r, "key order">> : r \in {r \in BucketRoots(root) : KeyOrder(r, 0, 0).bad}}

Unreachable(m) ==
  (2 .. m.hwm - 1) \ (UNION {Extent(p) : p \in ToSet(Visits(m.root))} \cup FreelistPages(m))
Freed(m) == IF m.freelist = NoFreelist THEN Unreachable(m) ELSE page[m.freelist].free

\* Tx.check from the root bucket, of a database that can be opened.
CheckReports(m) ==
  PageReports(m, Freed(m), Visits(m.root)) \cup OrderReports(m.root)
  \cup {<<p, "unreachable unfreed">> : p \in Unreachable(m) \ Freed(m)}

\* Reading the freelist panics, a cursor does or has no end, a page cannot be
\* read, or the stack overflows.
CheckCrashes(m) ==
  \/ m.freelist # NoFreelist
     /\ (m.freelist \notin Pgids \/ page[m.freelist].type # "freelist"
                                 \/ page[m.freelist].id # m.freelist)
  \/ \E r \in BucketRoots(m.root) : r \notin Pgids \/ (r \in Pgids /\ BucketCrashes(r))
  \/ Loops(m.root, Subbuckets)

Silent(m) == IF CheckCrashes(m) THEN FALSE ELSE CheckReports(m) = {}

(***************************************************************************)
(* XRay.FindPathsToKey: traverse remembers every page it has visited.      *)
(***************************************************************************)
\* Variant: buckets are not descended into.
ChildrenOnly(p) == SelectSeq(page[p].elems, LAMBDA e : e.kind = "child")

\* The key, or the key in an inline bucket, is on the leaf p.
HasKey(p, key) ==
  page[p].type = "leaf" /\ \E e \in ToSet(page[p].elems) : e.key = key \/ key \in e.keys

Followed(p) == SelectSeq(page[p].elems, LAMBDA e : e.to # 0)
Stopped(st) == st.err # "none"
RECURSIVE Traverse(_, _, _)
Traverse(stack, st, key) ==
  LET p == Last(stack)
      here == [st EXCEPT !.visited = @ \cup {p},
                         !.found = @ \cup {s \in {stack} : p \in Pgids /\ HasKey(p, key)}] IN
  IF Stopped(st) THEN st
  ELSE IF p \in st.visited THEN [st EXCEPT !.err = "cycle"]
  ELSE IF ~Readable(p) THEN [st EXCEPT !.err = "unreadable"]
  ELSE IF page[p].type \notin {"branch", "leaf"} THEN here
  ELSE FoldLeft(LAMBDA s, e : Traverse(Append(stack, e.to), s, key), here, Followed(p))

FindPathsToKey(key) ==
  Traverse(<<Active.root>>, [visited |-> {}, found |-> {}, err |-> "none"], key)

(***************************************************************************)
(* The surgery commands.                                                   *)
(***************************************************************************)
Init ==
  /\ \E f \in Start : page = f.page /\ meta = f.meta
  /\ warned = FALSE /\ unnested = FALSE /\ commands = 0

Command(pages, metas, warning) ==
  /\ commands < Commands /\ commands' = commands + 1
  /\ page' = pages /\ meta' = metas
  /\ warned' = warning

Overflow(elems) == Cardinality({i \in DOMAIN elems : elems[i].big})

\* surgeon.ClearPageElements: elements from .. to - 1, counted from 0.
Cleared(p, from, to) ==
  LET kept == SubSeq(page[p].elems, 1, from) \o SubSeq(page[p].elems, to + 1, Len(page[p].elems))
  IN [page[p] EXCEPT !.elems = kept, !.over = Overflow(kept),
                     !.stale = IF kept = <<>> /\ page[p].type = "branch"
                               THEN Head(page[p].elems).to ELSE 0]

\* Variant: only overflow pages are taken to be abandoned.
AbandonsOverflow(p, new) == new.over # page[p].over

\* Pages are abandoned that no freelist has, and the user is warned.
Abandons(p, new) == new.over # page[p].over \/ page[p].type = "branch"

\* clear-page-elements, and clear-page for all of them.
ClearPageElements(p, from, to) ==
  /\ Readable(p) /\ page[p].type \in {"branch", "leaf"} /\ page[p].elems # <<>>
  /\ LET new == Cleared(p, from, to)
         gone == SubSeq(page[p].elems, from + 1, to) IN
       /\ Command(Write(page, p, new), meta, warned \/ Abandons(p, new))
       /\ unnested' = (unnested \/ \E e \in ToSet(gone) : e.kind = "bucket" /\ e.to # 0)

\* copy-page, which always warns when there is a freelist.
CopyPage(source, target) ==
  /\ Readable(source) /\ source # target /\ target + page[source].over \in Pgids
  /\ Command(Write(page, target, [page[source] EXCEPT !.id = target]), meta, TRUE)
  /\ UNCHANGED unnested

\* revert-meta-page
RevertMetaPage ==
  /\ Command(page, [meta EXCEPT ![ActiveSlot(meta)] = meta[1 - ActiveSlot(meta)]], warned)
  /\ UNCHANGED unnested

\* freelist abandon
ClearFreelist ==
  /\ Command(page, [s \in {0, 1} |-> [meta[s] EXCEPT !.freelist = NoFreelist]], warned)
  /\ UNCHANGED unnested

\* meta update of the root, the freelist or the mark, of either page.
MetaUpdate(slot, field, to) ==
  /\ Command(page, [meta EXCEPT ![slot] = CASE field = "root" -> [@ EXCEPT !.root = to]
                                            [] field = "freelist" -> [@ EXCEPT !.freelist = to]
                                            [] OTHER -> [@ EXCEPT !.hwm = to]], TRUE)
  /\ UNCHANGED unnested

(***************************************************************************)
(* freelist rebuild: Open finds no freelist, frees what it cannot reach    *)
(* (freepages) and commits a freelist, at a free page or at the mark.      *)
(***************************************************************************)
\* command_surgery.go's readMetaPage chooses as DB.meta does.
RebuildAllowed == Current.freelist = NoFreelist

\* freepages panics when the walk reports anything.
ScanSucceeds(m) ==
  /\ ~CheckCrashes(m)
  /\ PageReports(m, {}, Visits(m.root)) \cup OrderReports(m.root) = {}

Rest(free, at) == free \ {at}

Rebuild ==
  LET m == Current
      free == Unreachable(m)
      at == IF free = {} THEN m.hwm ELSE Min(free)
      new == [m EXCEPT !.txid = @ + 1, !.freelist = at, !.hwm = IF at < @ THEN @ ELSE at + 1] IN
  /\ RebuildAllowed /\ ScanSucceeds(m) /\ at \in Pgids
  /\ Command(Write(page, at, [Page(at, "freelist", <<>>) EXCEPT !.free = Rest(free, at)]),
             [meta EXCEPT ![new.txid % 2] = new], FALSE)
  /\ unnested' = FALSE

Next ==
  \/ \E p \in Pgids : \E from \in 0 .. Len(page[p].elems) - 1 :
       \E to \in from + 1 .. Len(page[p].elems) : ClearPageElements(p, from, to)
  \/ \E p \in Copied, q \in Pgids : CopyPage(p, q)
  \/ RevertMetaPage \/ ClearFreelist \/ Rebuild
  \/ \E s \in {0, 1}, f \in MetaFields, p \in Copied : MetaUpdate(s, f, p)

Spec == Init /\ [][Next]_vars

-----------------------------------------------------------------------------
\* Every key of every bucket is found where it is listed, in order.
Searchable(m) ==
  \A r \in BucketRoots(m.root) :
    LET s == Listed(r) IN
    /\ \A i \in 1 .. Len(s) - 1 : s[i].key < s[i+1].key
    /\ \A i \in DOMAIN s : s[i] \in ToSet(page[SeekLeaf(r, s[i].key)].elems)

\* A branch page that the database reaches has lost all its elements.
Emptied(m) ==
  \E p \in ToSet(Visits(m.root)) : page[p].type = "branch" /\ page[p].elems = <<>>

\* How often page id is used.
Uses(m, freed, visits, id) ==
  References(visits, id) + (IF id \in FreelistPages(m) THEN 1 ELSE 0)
                         + (IF id \in freed THEN 1 ELSE 0)
Overflowing(visits) == UNION {Extent(p) \ {p} : p \in ToSet(visits)}

(* When Check has nothing to report every page of the database has exactly *)
(* one use, as a page of a bucket, of the freelist or as a free one,       *)
(* whatever the file was put together from.  (Of overflow pages Check does *)
(* not ask whether they are free.)  And the cursor lists every bucket in   *)
(* order and finds every key where it lists it, unless a branch page has   *)
(* been emptied: Check does not see that the cursor reads an element that  *)
(* is not there and that a search panics.                                  *)
CheckFinds ==
  Silent(Current) =>
    LET visits == Visits(Current.root)
        freed == Freed(Current)
        over == Overflowing(visits) IN
    /\ Emptied(Current) \/ Searchable(Current)
    /\ \A id \in (2 .. Current.hwm - 1) \ over : Uses(Current, freed, visits, id) = 1
    /\ \A id \in over : References(visits, id) = 1

(* When Check has nothing to report no page in use is in the freelist.     *)
CheckFindsFreed ==
  Silent(Current) => \A p \in ToSet(Visits(Current.root)) : Extent(p) \cap Freed(Current) = {}

(* When Check has nothing to report no branch page is without elements.    *)
(* The code does not check it.                                             *)
CheckFindsEmptied == Silent(Current) => ~Emptied(Current)

(* The surgery commands keep the database sound, at the current state or   *)
(* at the one they revert to, unless they warn the user (or bucket         *)
(* elements are cleared); a rebuilt freelist mends what they warned of.    *)
QuietlySound == ~warned /\ ~unnested => Silent(Current)

PathsTo(key) ==
  LET from[p \in Pgids] ==
        (IF HasKey(p, key) THEN {<<p>>} ELSE {})
        \cup UNION {{<<p>> \o path : path \in from[q]} : q \in Below(p)}
  IN from[Active.root]

\* Every page that is reached is reached in one way: as many elements lead to
\* pages as there are pages below the root.
Leading(p) == Cardinality({i \in DOMAIN page[p].elems : page[p].elems[i].to # 0})
IsTree ==
  LET reached == Reach(Active.root)
  IN MapThenSumSet(Leading, reached \cap Pgids) + 1 = Cardinality(reached)

(* XRay ends on every file.  A chain of pages that comes round is an error *)
(* to it; when it gives no error it gives exactly the paths by which the   *)
(* key is reached; and it gives none on a tree of pages that can be read.  *)
XRayFinds ==
  \A k \in SeedKeys :
    LET x == FindPathsToKey(k) IN
    /\ x.err = "none" => IF Cyclic(Active.root) THEN FALSE ELSE x.found = PathsTo(k)
    /\ x.err = "cycle" => ~IsTree
    /\ x.err = "unreadable" => \E p \in Reach(Active.root) : ~Readable(p)

(* XRay calls a cycle only what is one.  The code does not: any page met   *)
(* twice is one to it.                                                     *)
XRayCycles == \A k \in SeedKeys : FindPathsToKey(k).err = "cycle" => Cyclic(Active.root)
=============================================================================
