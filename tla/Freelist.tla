------------------------------ MODULE Freelist ------------------------------
(***************************************************************************)
(* The freelist of internal/freelist: which page ids may be reused, which  *)
(* are freed but may still be read by an older snapshot, and by which      *)
(* transaction each page was allocated.  shared.go is modelled operation   *)
(* by operation; of the two implementations of Allocate (array.go and      *)
(* hashmap.go) only what they have in common is kept: some run of n        *)
(* contiguous free ids is taken.                                           *)
(*                                                                         *)
(* A freelist is a value, a record, and an operation an operator on that   *)
(* value, so that a step of the database can compose several of them.      *)
(***************************************************************************)
EXTENDS Integers, FiniteSets, FiniteSetsExt

CONSTANTS Readers,      \* identities of concurrent read transactions
          MaxPgid,      \* last page id the file may use (bound)
          MaxTxid       \* last transaction id handed out (bound)

ASSUME BoundsAssumption == MaxPgid \in Nat /\ MaxTxid \in Nat

Pgids == 2 .. MaxPgid       \* 0 and 1 are the meta pages
Txids == 0 .. MaxTxid
NoTxid == 0                 \* what a Go map returns for a missing Txid

(***************************************************************************)
(* A page header: a page with `overflow' more pages after it.              *)
(***************************************************************************)
Block == {b \in [id : Pgids, overflow : 0 .. MaxPgid] : b.id + b.overflow <= MaxPgid}
Ids(b) == b.id .. (b.id + b.overflow)
Span(blocks) == UNION {Ids(b) : b \in blocks}

(***************************************************************************)
(* The entries of pending[tx].ids and .alloctx, zipped and tagged with the *)
(* freeing transaction; lastReleaseBegin is indexed by that transaction.   *)
(* readonlyTXIDs is a multiset of txids: reader r contributes its own.     *)
(***************************************************************************)
Entry == [tx : Txids, id : Pgids, alloctx : Txids]

FreelistType ==
  [free : SUBSET Pgids,
   cache : SUBSET Pgids,
   allocs : [Pgids -> Txids],
   pending : SUBSET Entry,
   lastReleaseBegin : [Txids -> 0 .. (MaxTxid + 1)],
   readonlyTXIDs : [Readers -> Txids]]

\* Read (or Init after a scan): a freelist that knows only the free ids.
Loaded(ids) ==
  [free |-> ids, cache |-> ids,
   allocs |-> [p \in Pgids |-> NoTxid],
   pending |-> {},
   lastReleaseBegin |-> [t \in Txids |-> 0],
   readonlyTXIDs |-> [r \in Readers |-> NoTxid]]

EntryIds(entries) == {e.id : e \in entries}
PendingOf(f, txid) == {e \in f.pending : e.tx = txid}

\* freePageIds merged with the pending ids: what Copyall puts on disk.
Copyall(f) == f.free \cup EntryIds(f.pending)
Count(f) == Cardinality(f.free) + Cardinality(f.pending)

(***************************************************************************)
(* Free: page p and its overflow become pending for txid.  FreePanics is   *)
(* when the code panics instead.                                           *)
(***************************************************************************)
FreePanics(f, p) == p.id <= 1 \/ Ids(p) \cap f.cache # {}

Free(f, txid, p) ==
  [f EXCEPT !.allocs[p.id] = NoTxid,
            !.pending = @ \cup {[tx |-> txid, id |-> i, alloctx |-> f.allocs[p.id]] : i \in Ids(p)},
            !.cache = @ \cup Ids(p)]

(***************************************************************************)
(* Allocate: any run of n free ids may be the one that is found.           *)
(***************************************************************************)
FreeRuns(f, n) == {i \in f.free : i .. (i + n - 1) \subseteq f.free}

\* Variant: the ids taken stay in the double-free cache.
AllocateKeepingCache(f, txid, i, n) ==
  [f EXCEPT !.free = @ \ (i .. (i + n - 1)),
            !.allocs[i] = txid]

Allocate(f, txid, i, n) ==
  [f EXCEPT !.free = @ \ (i .. (i + n - 1)),
            !.cache = @ \ (i .. (i + n - 1)),
            !.allocs[i] = txid]

(***************************************************************************)
(* Rollback: what txid freed is not free any more, and txid has allocated  *)
(* nothing.  Nothing is done for a transaction that freed no page.         *)
(***************************************************************************)
RollbackPanics(f, txid) == \E e \in PendingOf(f, txid) : e.alloctx # NoTxid /\ e.alloctx = txid

RestoredAllocs(f, txid) ==
  [p \in Pgids |->
     LET back == {e \in PendingOf(f, txid) : e.id = p /\ e.alloctx # NoTxid}
         a == IF back = {} THEN f.allocs[p] ELSE (CHOOSE e \in back : TRUE).alloctx
     IN  IF a = txid THEN NoTxid ELSE a]

\* Variant: what txid freed stays in the double-free cache.
RollbackKeepingCache(f, txid) ==
  IF PendingOf(f, txid) = {} THEN f
  ELSE [f EXCEPT !.allocs = RestoredAllocs(f, txid),
                 !.pending = @ \ PendingOf(f, txid),
                 !.lastReleaseBegin[txid] = 0]

Rollback(f, txid) ==
  IF PendingOf(f, txid) = {} THEN f
  ELSE [f EXCEPT !.cache = @ \ EntryIds(PendingOf(f, txid)),
                 !.allocs = RestoredAllocs(f, txid),
                 !.pending = @ \ PendingOf(f, txid),
                 !.lastReleaseBegin[txid] = 0]

AddReadonlyTXID(f, r, txid) == [f EXCEPT !.readonlyTXIDs[r] = txid]
RemoveReadonlyTXID(f, r) == [f EXCEPT !.readonlyTXIDs[r] = NoTxid]

(***************************************************************************)
(* ReleasePendingPages.  The open readers cut the txids into extents:      *)
(* below the first reader (release), between two readers and after the     *)
(* last one (releaseRange).  A pending page leaves when no reader can see  *)
(* it: freed before every reader, or allocated and freed in one extent.    *)
(* releaseRange skips a transaction whose extent begins where it did when  *)
(* it was last looked at.                                                  *)
(***************************************************************************)
OpenTxids(f) == {f.readonlyTXIDs[r] : r \in Readers} \ {NoTxid}
Below(f, t) == {r \in OpenTxids(f) : r < t}

InExtent(f, t) == Below(f, t) # {} /\ t \notin OpenTxids(f)
\* Variant: the extent after a reader begins at the reader's own txid.
ExtentBeginAtReader(f, t) == Max(Below(f, t))

ExtentBegin(f, t) == Max(Below(f, t)) + 1
\* Variant: a transaction is examined once, whatever extent it is in later.
ExaminedOnce(f, t) == InExtent(f, t) /\ f.lastReleaseBegin[t] = 0

Examined(f, t) == InExtent(f, t) /\ f.lastReleaseBegin[t] # ExtentBegin(f, t)

ByRelease(f, e) == \A r \in OpenTxids(f) : e.tx < r
ByReleaseRange(f, e) ==
  /\ Examined(f, e.tx)
  /\ ExtentBegin(f, e.tx) <= e.alloctx
  /\ \A r \in OpenTxids(f) : e.tx < r => e.alloctx < r
Released(f) == {e \in f.pending : ByRelease(f, e) \/ ByReleaseRange(f, e)}

\* Variant: what releaseRange takes from the pending lists is not merged into
\* the free ids.
ReleaseForgettingRanges(f) ==
  LET kept == f.pending \ Released(f)
  IN  [f EXCEPT !.free = @ \cup EntryIds({e \in f.pending : ByRelease(f, e)}),
                !.pending = kept,
                !.lastReleaseBegin =
                   [t \in Txids |-> IF \A e \in kept : e.tx # t THEN 0
                                    ELSE IF InExtent(f, t) THEN ExtentBegin(f, t)
                                    ELSE @[t]]]

ReleasePendingPages(f) ==
  LET kept == f.pending \ Released(f)
  IN  [f EXCEPT !.free = @ \cup EntryIds(Released(f)),
                !.pending = kept,
                !.lastReleaseBegin =
                   [t \in Txids |-> IF \A e \in kept : e.tx # t THEN 0
                                    ELSE IF InExtent(f, t) THEN ExtentBegin(f, t)
                                    ELSE @[t]]]
=============================================================================
