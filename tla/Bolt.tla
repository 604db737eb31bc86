-------------------------------- MODULE Bolt --------------------------------
(***************************************************************************)
(* Transactions of an open database: read transactions that copy a meta    *)
(* page and read the pages it points to through the mmap, and one write    *)
(* transaction that frees pages, writes copies to other pages, and commits *)
(* by writing the other meta page (tx.go, db.go, node.go's spill and free).*)
(*                                                                         *)
(* A tree is abstracted to the set of blocks (page with overflow) that are *)
(* reachable from its root, and a page to the txid that last wrote it.     *)
(***************************************************************************)
EXTENDS Freelist

CONSTANTS MaxRun,           \* pages of the largest node (bound)
          MaxNodes,         \* nodes of the largest tree (bound)
          IdsPerPage,       \* page ids that fit in a page, header included
          MaxCount,         \* 0xFFFF: from this many ids on, the count is an id too
          NoFreelistSync,   \* the option: no freelist page is written
          Faults            \* which operations of the environment may fail

AllFaults == {"alloc", "grow", "write", "sync", "writeMeta", "syncMeta", "crash"}

ASSUME ConstantsAssumption ==
  /\ MaxPgid >= 3 /\ MaxTxid >= 1
  /\ MaxRun \in Nat /\ MaxNodes \in Nat
  /\ IdsPerPage \in Nat \ {0, 1}
  /\ MaxCount \in Nat \ {0}
  /\ NoFreelistSync \in BOOLEAN
  /\ Faults \subseteq AllFaults

VARIABLES
  meta,         \* meta[s]: meta page s as the mmap shows it
  disk,         \* disk[s]: the contents a crash may leave in meta page s
  mem,          \* mem[p]: txid that last wrote page p, as the mmap shows it
  unsynced,     \* pages whose last write no successful fdatasync has covered
  fl,           \* db.freelist
  metalock,     \* db.metalock: {r} while reader r is in beginTx
  rtx,          \* rtx[r]: {copy of the meta page} of reader r's Tx, or {}
  wpc,          \* where the write transaction is, "idle" when there is none
  wmeta,        \* its tx.meta
  dirty,        \* its tx.pages: the blocks it has allocated
  acked         \* txid of the last Commit that returned nil

readVars == <<metalock, rtx>>
diskVars == <<meta, disk, mem, unsynced>>
txVars == <<wpc, wmeta, dirty>>
vars == <<diskVars, fl, readVars, txVars, acked>>

(***************************************************************************)
(* Meta pages.  `tree' and `freelist' are sets of blocks; freelist is {}   *)
(* for PgidNoFreelist.  `ids' is what the freelist page contains.          *)
(***************************************************************************)
Slots == {0, 1}
Meta == [txid : Txids, tree : SUBSET Block, freelist : SUBSET Block,
         ids : SUBSET Pgids, pgid : 2 .. (MaxPgid + 1)]
NilMeta == [txid |-> 0, tree |-> {}, freelist |-> {}, ids |-> {}, pgid |-> 2]

Slot(txid) == txid % 2
Blocks(m) == m.tree \cup m.freelist
Used(m) == Span(Blocks(m))
Newer(m0, m1) == IF m0.txid > m1.txid THEN m0 ELSE m1
CurrentMeta == Newer(meta[0], meta[1])                  \* db.meta()

\* The metas a crash may make current, and every meta somebody relies on.
Recoverable == {Newer(m0, m1) : m0 \in disk[0], m1 \in disk[1]}
Visible == Recoverable \cup UNION {rtx[r] : r \in Readers}

\* db.init: metas 0 and 1, an empty freelist page, an empty leaf page.
InitMeta(txid) ==
  [txid |-> txid, tree |-> {[id |-> 3, overflow |-> 0]},
   freelist |-> {[id |-> 2, overflow |-> 0]}, ids |-> {}, pgid |-> 4]

Init ==
  /\ meta = [s \in Slots |-> InitMeta(s)]
  /\ disk = [s \in Slots |-> {InitMeta(s)}]
  /\ mem = [p \in Pgids |-> 0]
  /\ unsynced = {}
  /\ fl = Loaded({})
  /\ metalock = {}
  /\ rtx = [r \in Readers |-> {}]
  /\ wpc = "idle" /\ wmeta = NilMeta /\ dirty = {}
  /\ acked = 0

-----------------------------------------------------------------------------
(* Read transactions. *)

\* Variant: the snapshot is always taken from meta page 0.
BeginTxAtMeta0(r) ==
  /\ metalock = {} /\ rtx[r] = {}
  /\ metalock' = {r}
  /\ rtx' = [rtx EXCEPT ![r] = {meta[0]}]
  /\ UNCHANGED <<diskVars, fl, txVars, acked>>

\* db.beginTx up to and including tx.init: under metalock, copy the meta page.
BeginTx(r) ==
  /\ metalock = {} /\ rtx[r] = {}
  /\ metalock' = {r}
  /\ rtx' = [rtx EXCEPT ![r] = {CurrentMeta}]
  /\ UNCHANGED <<diskVars, fl, txVars, acked>>

\* The rest of db.beginTx: register with the freelist, unlock metalock.
RegisterTx(r) ==
  /\ metalock = {r}
  /\ \E m \in rtx[r] : fl' = AddReadonlyTXID(fl, r, m.txid)
  /\ metalock' = {}
  /\ UNCHANGED <<diskVars, rtx, txVars, acked>>

\* Rollback of a read transaction: close and removeTx.
RemoveTx(r) ==
  /\ metalock = {} /\ rtx[r] # {}
  /\ fl' = RemoveReadonlyTXID(fl, r)
  /\ rtx' = [rtx EXCEPT ![r] = {}]
  /\ UNCHANGED <<diskVars, metalock, txVars, acked>>

-----------------------------------------------------------------------------
(* The write transaction. *)

Close == wpc' = "idle" /\ wmeta' = NilMeta /\ dirty' = {}

Panic == wpc' = "panic" /\ UNCHANGED <<fl, wmeta, dirty>>

\* tx.rollback (and nonPhysicalRollback), entered with freelist f.
RollbackFrom(f) ==
  IF RollbackPanics(f, wmeta.txid) THEN Panic
  ELSE fl' = Rollback(f, wmeta.txid) /\ Close

\* Variant: the writer does not take the metalock, so that it may release pages
\* between a reader's copy of the meta page and its registration.
BeginRWTxWithoutMetalock ==
  /\ wpc = "idle"
  /\ CurrentMeta.txid < MaxTxid
  /\ wmeta' = [CurrentMeta EXCEPT !.txid = @ + 1]
  /\ fl' = ReleasePendingPages(fl)
  /\ wpc' = "body"
  /\ UNCHANGED <<diskVars, readVars, dirty, acked>>

BeginRWTx ==
  /\ wpc = "idle" /\ metalock = {}
  /\ CurrentMeta.txid < MaxTxid
  /\ wmeta' = [CurrentMeta EXCEPT !.txid = @ + 1]
  /\ fl' = ReleasePendingPages(fl)
  /\ wpc' = "body"
  /\ UNCHANGED <<diskVars, readVars, dirty, acked>>

\* The user's Rollback, before Commit is called.
UserRollback ==
  /\ wpc = "body"
  /\ RollbackFrom(fl)
  /\ UNCHANGED <<diskVars, readVars, acked>>

\* Bucket.free and node.free: a page of the tree goes (deletion, rebalance).
FreePage ==
  /\ wpc = "body"
  /\ \E b \in wmeta.tree :
       IF FreePanics(fl, b) THEN Panic
       ELSE /\ fl' = Free(fl, wmeta.txid, b)
            /\ wmeta' = [wmeta EXCEPT !.tree = @ \ {b}]
            /\ UNCHANGED <<wpc, dirty>>
  /\ UNCHANGED <<diskVars, readVars, acked>>

StartSpill ==
  /\ wpc = "body"
  /\ wpc' = "spill"
  /\ UNCHANGED <<diskVars, fl, readVars, wmeta, dirty, acked>>

\* Variant: the high water mark does not move.
AllocationsKeepingMark(f, m, n) ==
  IF FreeRuns(f, n) # {}
  THEN {[fl |-> Allocate(f, m.txid, i, n), meta |-> m,
         block |-> [id |-> i, overflow |-> n - 1]] : i \in FreeRuns(f, n)}
  ELSE IF m.pgid + n - 1 <= MaxPgid
  THEN {[fl |-> f, meta |-> m, block |-> [id |-> m.pgid, overflow |-> n - 1]]}
  ELSE {}

\* Variant: the end of the file is checked against the first new page only.
AllocationsPastEnd(f, m, n) ==
  IF FreeRuns(f, n) # {}
  THEN {[fl |-> Allocate(f, m.txid, i, n), meta |-> m,
         block |-> [id |-> i, overflow |-> n - 1]] : i \in FreeRuns(f, n)}
  ELSE IF m.pgid <= MaxPgid
  THEN {[fl |-> f, meta |-> [m EXCEPT !.pgid = @ + n],
         block |-> [id |-> m.pgid, overflow |-> n - 1]]}
  ELSE {}

(***************************************************************************)
(* db.allocate for the transaction with meta m: from the freelist if it    *)
(* has a run of n ids, otherwise at the high water mark.                   *)
(***************************************************************************)
Allocations(f, m, n) ==
  IF FreeRuns(f, n) # {}
  THEN {[fl |-> Allocate(f, m.txid, i, n), meta |-> m,
         block |-> [id |-> i, overflow |-> n - 1]] : i \in FreeRuns(f, n)}
  ELSE IF m.pgid + n - 1 <= MaxPgid
  THEN {[fl |-> f, meta |-> [m EXCEPT !.pgid = @ + n],
         block |-> [id |-> m.pgid, overflow |-> n - 1]]}
  ELSE {}

\* ErrMaxSizeReached, or a remap that fails.
AllocationFails(f, n) == "alloc" \in Faults /\ FreeRuns(f, n) = {}

\* Free for at most one block.
FreeAnyPanics(f, blocks) == \E b \in blocks : FreePanics(f, b)
FreeAny(f, txid, blocks) ==
  IF blocks = {} THEN f ELSE Free(f, txid, CHOOSE b \in blocks : TRUE)

\* node.spill, for one of the nodes it writes: free the node's old page, if it
\* has one, and allocate n pages for the new one.
SpillNode ==
  /\ wpc = "spill"
  /\ \E old \in {{}} \cup {{b} : b \in wmeta.tree \ dirty}, n \in 1 .. MaxRun :
       LET f == FreeAny(fl, wmeta.txid, old)
       IN  \/ FreeAnyPanics(fl, old) /\ Panic
           \/ /\ ~FreeAnyPanics(fl, old)
              /\ Cardinality(wmeta.tree \ old) < MaxNodes
              /\ \E a \in Allocations(f, wmeta, n) :
                   /\ fl' = a.fl
                   /\ wmeta' = [a.meta EXCEPT !.tree = (@ \ old) \cup {a.block}]
                   /\ dirty' = dirty \cup {a.block}
              /\ UNCHANGED wpc
           \/ ~FreeAnyPanics(fl, old) /\ AllocationFails(f, n) /\ RollbackFrom(f)
  /\ UNCHANGED <<diskVars, readVars, acked>>

\* What a freelist page of n ids takes, in ids: the header, the ids, and the
\* count where the 16 bits of the header cannot hold it.
Words(n) == n + 2 + (IF n >= MaxCount THEN 1 ELSE 0)

\* Variant: the pending ids, which Copyall adds, are not counted.
EstimatedPagesOfFree(f) == Words(Cardinality(f.free)) \div IdsPerPage + 1

(***************************************************************************)
(* The rest of Commit before the writes: free the old freelist page, and   *)
(* commitFreelist unless NoFreelistSync.  The size is estimated before the *)
(* allocation; ids are those left after it.  grow is called when the       *)
(* high water mark has moved.                                              *)
(***************************************************************************)
EstimatedPages(f) == Words(Count(f)) \div IdsPerPage + 1

CommitFreelist ==
  /\ wpc = "spill" /\ wmeta.tree # {}
  /\ LET f == FreeAny(fl, wmeta.txid, wmeta.freelist)
         n == EstimatedPages(f)
     IN  \/ FreeAnyPanics(fl, wmeta.freelist) /\ Panic
         \/ /\ ~FreeAnyPanics(fl, wmeta.freelist) /\ NoFreelistSync
            /\ fl' = f
            /\ wmeta' = [wmeta EXCEPT !.freelist = {}, !.ids = {}]
            /\ wpc' = "write"
            /\ UNCHANGED dirty
         \/ /\ ~FreeAnyPanics(fl, wmeta.freelist) /\ ~NoFreelistSync
            /\ \E a \in Allocations(f, wmeta, n) :
                 \/ /\ fl' = a.fl
                    /\ wmeta' = [a.meta EXCEPT !.freelist = {a.block}, !.ids = Copyall(a.fl)]
                    /\ dirty' = dirty \cup {a.block}
                    /\ wpc' = "write"
                 \/ /\ "grow" \in Faults /\ a.meta.pgid > wmeta.pgid
                    /\ RollbackFrom(a.fl)
         \/ /\ ~FreeAnyPanics(fl, wmeta.freelist) /\ ~NoFreelistSync
            /\ AllocationFails(f, n) /\ RollbackFrom(f)
  /\ UNCHANGED <<diskVars, readVars, acked>>

\* tx.write: the dirty pages in order of their ids, all of them, or up to one
\* whose write fails and may be partly done.
Written(blocks) ==
  /\ mem' = [p \in Pgids |-> IF p \in Span(blocks) THEN wmeta.txid ELSE mem[p]]
  /\ unsynced' = unsynced \cup Span(blocks)

WriteData ==
  /\ wpc = "write"
  /\ \/ Written(dirty) /\ wpc' = "sync" /\ UNCHANGED <<fl, wmeta, dirty>>
     \/ /\ "write" \in Faults
        /\ \E b \in dirty : Written({d \in dirty : d.id <= b.id})
        /\ RollbackFrom(fl)
  /\ UNCHANGED <<meta, disk, readVars, acked>>

\* Variant: the fdatasync before the meta page is skipped.
SyncDataSkipped ==
  /\ wpc = "sync" /\ wpc' = "meta"
  /\ UNCHANGED <<diskVars, fl, readVars, wmeta, dirty, acked>>

SyncData ==
  /\ wpc = "sync"
  /\ \/ /\ unsynced' = unsynced \ Span(dirty)
        /\ wpc' = "meta"
        /\ UNCHANGED <<fl, wmeta, dirty>>
     \/ /\ "sync" \in Faults /\ UNCHANGED unsynced /\ RollbackFrom(fl)
  /\ UNCHANGED <<meta, disk, mem, readVars, acked>>

\* Variant: the meta page of the current version is overwritten.
WriteMetaOverCurrent ==
  /\ wpc = "meta"
  /\ LET s == Slot(wmeta.txid + 1)
     IN  /\ meta' = [meta EXCEPT ![s] = wmeta]
         /\ disk' = [disk EXCEPT ![s] = @ \cup {wmeta}]
         /\ wpc' = "syncMeta"
  /\ UNCHANGED <<mem, unsynced, fl, readVars, wmeta, dirty, acked>>

\* tx.writeMeta: the write makes the new meta visible, the sync durable.
WriteMeta ==
  /\ wpc = "meta"
  /\ LET s == Slot(wmeta.txid)
     IN  \/ /\ meta' = [meta EXCEPT ![s] = wmeta]
            /\ disk' = [disk EXCEPT ![s] = @ \cup {wmeta}]
            /\ wpc' = "syncMeta"
            /\ UNCHANGED <<fl, wmeta, dirty>>
         \/ "writeMeta" \in Faults /\ UNCHANGED <<meta, disk>> /\ RollbackFrom(fl)
  /\ UNCHANGED <<mem, unsynced, readVars, acked>>

\* Variant: the commit is acknowledged without the fdatasync of its meta page.
SyncMetaSkipped ==
  /\ wpc = "syncMeta"
  /\ acked' = wmeta.txid
  /\ Close
  /\ UNCHANGED <<diskVars, fl, readVars>>

SyncMeta ==
  /\ wpc = "syncMeta"
  /\ \/ /\ disk' = [disk EXCEPT ![Slot(wmeta.txid)] = {wmeta}]
        /\ acked' = wmeta.txid
        /\ Close
        /\ UNCHANGED fl
     \/ "syncMeta" \in Faults /\ UNCHANGED <<disk, acked>> /\ RollbackFrom(fl)
  /\ UNCHANGED <<meta, mem, unsynced, readVars>>

-----------------------------------------------------------------------------
(***************************************************************************)
(* The process ends, by Close or by a crash, and the file is opened again: *)
(* a meta page that was not synced has its old or its new contents.  The   *)
(* freelist is read from its page, or rebuilt by scanning the tree.        *)
(***************************************************************************)
\* Variant: the scan stops one page before the high water mark.
OpenFreelistShort(m) ==
  Loaded(IF m.freelist # {} THEN m.ids ELSE (2 .. (m.pgid - 2)) \ Span(m.tree))

OpenFreelist(m) ==
  Loaded(IF m.freelist # {} THEN m.ids ELSE (2 .. (m.pgid - 1)) \ Span(m.tree))

Restart ==
  /\ "crash" \in Faults
  /\ \E m0 \in disk[0], m1 \in disk[1] :
       /\ meta' = [s \in Slots |-> IF s = 0 THEN m0 ELSE m1]
       /\ disk' = [s \in Slots |-> IF s = 0 THEN {m0} ELSE {m1}]
       /\ fl' = OpenFreelist(Newer(m0, m1))
  /\ unsynced' = {}
  /\ metalock' = {}
  /\ rtx' = [r \in Readers |-> {}]
  /\ Close
  /\ UNCHANGED <<mem, acked>>

-----------------------------------------------------------------------------
Reader(r) == BeginTx(r) \/ RegisterTx(r) \/ RemoveTx(r)
Writer ==
  \/ BeginRWTx \/ UserRollback \/ FreePage \/ StartSpill \/ SpillNode
  \/ CommitFreelist \/ WriteData \/ SyncData \/ WriteMeta \/ SyncMeta

Next == (\E r \in Readers : Reader(r)) \/ Writer \/ Restart

Spec == Init /\ [][Next]_vars

-----------------------------------------------------------------------------
(* Properties. *)

TypeOK ==
  /\ meta \in [Slots -> Meta]
  /\ disk \in [Slots -> SUBSET Meta]
  /\ mem \in [Pgids -> Txids]
  /\ unsynced \subseteq Pgids
  /\ fl \in FreelistType
  /\ metalock \subseteq Readers
  /\ rtx \in [Readers -> SUBSET Meta]
  /\ wpc \in {"idle", "body", "spill", "write", "sync", "meta", "syncMeta", "panic"}
  /\ wmeta \in Meta
  /\ dirty \subseteq Block
  /\ acked \in Txids

\* A page that an open reader, the current meta or a meta that a crash may
\* bring back can reach is never in the free list: freelist.Allocate could hand
\* it to the writer.
VisibleNotFree == \A m \in Visible : Used(m) \cap fl.free = {}

\* The pages the writer has allocated and is about to write (tx.pages) belong
\* to nobody else until the meta page that publishes them is written.
DirtyIsPrivate ==
  wpc # "syncMeta" => \A m \in Visible : Used(m) \cap Span(dirty) = {}

\* Free never meets a page that is already free, and Rollback never meets a
\* page that its transaction both allocated and freed: the panics of shared.go
\* are unreachable.
NeverPanics == wpc # "panic"

\* The cache that Free's double-free check consults is exactly the free and the
\* pending ids, no id is both, and none is pending twice.
CacheExact ==
  /\ fl.cache = Copyall(fl)
  /\ fl.free \cap EntryIds(fl.pending) = {}
  /\ \A e, g \in fl.pending : e.id = g.id => e = g

\* Whichever meta page a crash leaves current, all the pages it uses are on
\* disk, and the free ids its freelist page lists are not among them.
RecoverableIntact ==
  \A m \in Recoverable : Used(m) \cap unsynced = {} /\ Used(m) \cap m.ids = {}

\* A crash never goes back behind a commit that was acknowledged.
AckedSurvives == \A m \in Recoverable : m.txid >= acked

\* The page allocated for the freelist before its contents are known holds them.
FreelistFits ==
  \A m \in Visible : \A b \in m.freelist :
    Words(Cardinality(m.ids)) <= IdsPerPage * (b.overflow + 1)

\* Between write transactions every page below the high water mark is used by
\* the current meta, free, or pending (the invariant that Tx.Check verifies:
\* no page is "unreachable unfreed").
NoLeak ==
  wpc = "idle" =>
    2 .. (CurrentMeta.pgid - 1) \subseteq Used(CurrentMeta) \cup Copyall(fl)

\* While a reader's transaction is open, no page of its snapshot is rewritten.
SnapshotIsolation ==
  [][\A r \in Readers : rtx'[r] = rtx[r] =>
       \A m \in rtx[r] : \A p \in Span(m.tree) : mem'[p] = mem[p]]_vars

\* When a write transaction begins, every page that stays pending stays for an
\* open reader whose txid lies between the page's allocation and the txid that
\* freed it, both included: lastReleaseBegin never makes releaseRange overlook
\* another.  (The upper end is the code's: a reader at the freeing txid does not
\* see the page, yet releaseRange keeps it while that reader is open.)
ReleaseComplete ==
  [][wpc = "idle" /\ wpc' = "body" =>
       \A e \in fl'.pending : \E r \in OpenTxids(fl) : e.alloctx <= r /\ r <= e.tx]_vars

\* A write transaction that fails before its meta page is written gives back the
\* pages it took from the freelist, as the comment of tx.rollback promises.
RollbackReleasesAllocations ==
  [][wpc # "syncMeta" /\ wpc # "idle" /\ wpc' = "idle" =>
       Span(dirty) \cap (2 .. (CurrentMeta.pgid - 1)) \subseteq fl'.free]_vars

(***************************************************************************)
(* The database implements Store: a version is what a transaction reads,   *)
(* the pages of its tree with their contents.                              *)
(***************************************************************************)
View(m, pages) == {<<p, pages[p]>> : p \in Span(m.tree)}
NoView == {<<0, 0>>}

StoreCur == View(CurrentMeta, mem)
StoreAlts == {View(m, mem) : m \in Recoverable}
StoreSnap == [r \in Readers |-> IF rtx[r] = {} THEN NoView
                                ELSE View(CHOOSE m \in rtx[r] : TRUE, mem)]

Abstract == INSTANCE Store WITH
  None <- NoView, cur <- StoreCur, alts <- StoreAlts, snap <- StoreSnap

\* Readers keep the version they began with, a commit replaces the version at
\* one instant, and a crash falls back to a version not older than the last
\* acknowledged one.
ImplementsStore == Abstract!Spec
=============================================================================
