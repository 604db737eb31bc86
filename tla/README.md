# A TLA+ model of bbolt

This directory models the embedded key/value store under
`src/environment/bbolt/`: a single file of pages, a copy-on-write B+tree, one
writer and any number of readers, two meta pages that are written in turn, and a
freelist that decides when a page may be reused. The modules are checked with
TLC on small instances; what matters most is proved with TLAPS for every value
of the constants. Paths below are relative to `src/environment/bbolt/`.

## 1. The system

| Component | State it keeps | Operations | What makes it correct |
|---|---|---|---|
| freelist, shared part (`internal/freelist/shared.go`) | free ids, `pending` per txid with the allocating txid of each page, `allocs`, the double-free `cache`, open read txids | `Free`, `Rollback`, `ReleasePendingPages`, `AddReadonlyTXID`/`RemoveReadonlyTXID`, `Read`/`Write`/`Copyall`, `Init` | a page that a snapshot can reach is never free; no page is lost; the panics are unreachable |
| freelist allocators (`hashmap.go`, `array.go`) | span maps, or a sorted id list | `Allocate`, `mergeSpans` | hands out exactly free runs, and finds one whenever there is one |
| transactions (`tx.go`, `db.go`) | meta copy, dirty pages, position in the commit | `Begin`, `Commit`, `Rollback`, `allocate`, `write`, `writeMeta` | snapshot isolation, atomic and durable commits, clean failure |
| meta pages, open (`internal/common/meta.go`, `db.go`) | two checksummed pages | `Validate`, `Write`, `meta()`, `mmap`, `getPageSize`, `init` | one valid meta survives any crash |
| locks and lifecycle (`db.go`, `tx.go`) | `rwlock`, `metalock`, `mmaplock`, `opened` | `Begin`, `Update`, `View`, `Close`, remap | no deadlock, no lock leaked, `Close` waits |
| batching (`db.go`) | current batch, its calls, timer | `Batch`, `trigger`, `run` | every call is answered once with its own result |
| file growth (`db.go`, `tx.go`) | file size, map size, high-water mark | `mmapSize`, `growSize`, `grow`, `allocate`, `mmap` | what is read through the map or copied is there; never beyond `MaxSize` |
| B+tree nodes (`node.go`) | materialised nodes of a transaction, their parents and children | `put`, `del`, `rebalance`, `split`, `spill` | an ordered map, sizes, no lost child, no leaked page |
| cursor (`cursor.go`) | a stack of page positions | `First`, `Last`, `Next`, `Prev`, `Seek`, `Delete` | the right key from wherever it stands |
| buckets (`bucket.go`) | cached child buckets, headers, sequences | `CreateBucket`, `DeleteBucket`, `MoveBucket`, `Put`, `spill` | a tree of names; each page in one bucket |
| consistency check (`tx_check.go`) | reachable and freed page sets | `Check` | silent only on a sound file |
| compact, backup (`compact.go`, `tx.go`) | destination, size of its transaction | `Compact`, `WriteTo` | a beginning of the source at any time, all of it at the end |
| surgery, X-ray (`internal/surgeon/`, `internal/guts_cli/`, `cmd/bbolt/command/command_surgery*.go`) | the pages of a closed file | page copies and clears, meta changes, freelist abandon and rebuild, path search | the file stays sound or the user is told |
| the other commands, page layout, platform layer, logger, test support | - | - | not modelled, see section 8 |

Interactions: `Begin` copies a meta page under `metalock` and holds `mmaplock`
for reading; the writer holds `rwlock` for its whole life, takes `metalock` to
begin, frees and allocates through the freelist, writes data pages, syncs, writes
the other meta page and syncs again. Readers and the writer meet only in the meta
pages, the pages in the mmap and the freelist's list of open read transactions.

A transaction's cursors work on the pages and nodes of a bucket's tree, a bucket's
header is a value in its parent's tree, and spilling goes from the innermost node of
the innermost bucket outwards, allocating from the freelist or at the mark. The
check, the X-ray and the surgery commands read pages and headers as these leave them.

## 2. Plan

Done, in this order: the freelist and the transactions over it, with the abstract
store they implement; the two allocators and the page set they implement; meta
pages field by field; locks; batching; the B+tree of a bucket and the cursor over it,
against an ordered map; nested buckets, against a tree of names; the size of the
file; surgery, check and X-ray over a graph of pages; compaction.

Each part is exact about its own state and abstracts its neighbours to what their
modules show: `Bolt` takes a tree as a set of blocks and an allocator as `PageSet`,
`Tree` takes an unlimited supply of pages, `Buckets` takes a bucket's tree as one
leaf, `DataFile` takes an allocation as a number of pages at the mark, `Batch` takes
`Update` as atomic.

Left: `getPageSize`; the check from a given page; proofs about `Buckets`, `Surgery` and
`Cursor`, whose recursive operators would have to become functions first.

## 3. Modules

* `Freelist`: a freelist as a value (a record) and each operation of `shared.go`
  as an operator on it. `pending` is a set of entries `[tx, id, alloctx]`, the two
  parallel slices of `txPending` zipped. The allocators are abstracted to what they
  share: some run of `n` contiguous free ids (`FreeRuns`).
* `Store`: the abstract specification. A current version, readers that keep the
  version they began with, commits that replace it at one instant (`Publish`), are
  acknowledged later (`Acknowledge`), and crashes that fall back to one of `alts`.
* `Bolt`: the transactions. A tree is the set of blocks (a page with overflow)
  reachable from the root; a page's content is the txid that last wrote it. One
  action per step that another process, a fault or a crash can separate:
  `BeginTx`/`RegisterTx`/`RemoveTx` for readers; `BeginRWTx`, `FreePage`,
  `StartSpill`, `SpillNode`, `CommitFreelist`, `WriteData`, `SyncData`,
  `WriteMeta`, `SyncMeta`, `UserRollback` for the writer; `Restart` for the end of
  the process at any point and the `Open` after it. `wpc` is the writer's position
  in `Commit`. `disk[s]` holds the contents meta page `s` may have after a crash:
  a written but unsynced meta page may be old or new. `BoltInv` is its inductive
  invariant, `MCBolt` the module TLC runs, `BoltProofs` the proofs.
* `PageSet`: what `freelist.go` asks of an allocator, as a set of free ids.
  `HashMapFreelist` keeps spans in the three maps of `hashmap.go` and their counter;
  `Allocate` may meet any span of the right size, as Go ranges over a map in no
  order, and `mergeSpans` works run by run. `ArrayFreelist` is the sorted slice of
  `array.go` with the single pass of `Allocate` and the loop of `Mergepgids`, one turn
  a step (`MergeLead`), with its slices `merged`, `lead` and `follow`.
  `MCFreelists` makes one of the two, as `newFreelist` does. `AllocatorProofs` has the
  proofs of both, for every number of pages.
* `MetaPages`: the two meta pages, written field by field without `metalock`, read
  under it; a field's content is the txid that wrote it, so that a page is valid
  when its fields agree. A crash leaves any mixture of what was not synced.
  `torn` remembers that a `writeAt` failed half way; `since` and `amid` remember, for a
  reader, which commits had been acknowledged when it chose its page, and whether that
  page was half written then. `MetaPagesProofs` has its proofs.
* `Locks`: `rwlock`, `metalock` and `mmaplock` with the goroutines of `View`,
  `Update` (with remaps in its commit that may fail before or after the old map is
  gone) and `Close`, one action for each lock operation. `LocksProofs` has its
  proofs.
* `Batch`: `DB.Batch`, `batch.trigger` and `batch.run`. `stage[b]` is where the run
  of batch `b` is; `Update` is exclusive and atomic here, which is what `Locks` and
  `Bolt` show of it. `BatchProofs` has its proofs.

* `OrderedMap`, `Tree`, `Cursor`: a bucket's tree under a write transaction. A node
  read from page `p` is known as `p` (`Bucket.nodes`). `Put` and `Delete` materialise
  the path to a leaf; `Rebalance` takes the nodes in any order, as `Bucket.rebalance`
  ranges over a Go map, and recurses into the parent (`cur`); `Spill` writes one node:
  it frees its page, splits it, and tells the parent under the key the parent knows it
  by. `OrderedMap` is the map that a transaction reads, also while it commits: the
  pages and nodes together give it at every step. `ImplementsMap` ties the two call by
  call: a `Put` or a `Delete` is the one of the map, with its key, and a step of the commit
  is the map's `Commit`, which changes nothing. `Cursor` moves a stack of references
  over the same pages and nodes; a change invalidates its position. What the code does by
  walking (`Cursor.seek` down to a leaf, `node.root` up to the root, the spill of children
  before their parent, the parts `node.split` makes one after the other) is a function
  from each place to the next one, and `Follow` is the walk. `MCTree`
  starts with an empty tree and with trees of two and three levels that a
  transaction can leave, each with the height of its pages; `SoundTree` says what such a
  tree is, and `StartAssumption`, that the trees of `Start` are, is evaluated by TLC.
  `TreeInv` is its inductive invariant, `TreeLemmas` has what is proved of the operators
  and of changes to a tree, `TreeProofs` the proofs of the module.
* `Namespace`, `Buckets`: the `Bucket` values a transaction has opened (`open`, by
  path), the leaves they have read or changed, and the headers and inline buckets
  stored in their parents. `Commit` spills the cached buckets, children first.
  `Namespace` is a tree of names with values and sequences; each call of `Buckets` has to be
  the call of `Namespace` by that name, with the same path and key. `Careless` is what the
  user does not avoid: `"delete changed"`, `"move changed"`, `"move inside"` (section 5).
* `DataFile`: the sizes of file and map in pages, with `fileSize`, `datasz`, the
  marks of the current meta (`hwm`), of the writer (`mark`) and of one reader; `copy`
  is what a `WriteTo` has still to copy. `FilesProofs` has its proofs.
* `Surgery`: a file's pages with their own ids, types, elements and overflow, the two
  meta pages, and the commands that rewrite them. `CheckReports`, `Traverse` and
  `ScanSucceeds` are functions of the file: what `Tx.Check`, the X-ray and `freepages`
  answer. `Check` walks pages in two ways, and so does the model: `forEachPage` by the
  elements a page has (`BucketPages`), the cursor behind `ForEachBucket` and `Bucket` by
  `goToFirstElementOnTheStack`, which takes element 0 of an emptied branch page for
  granted, and by `searchPage`, which panics there. `stale` is what that element still
  holds after `clear-page`. A library function takes the meta page that `DB.meta` chooses,
  the X-ray and `revert-meta-page` the one of `guts_cli`; the two differ when the txids are
  equal. `warned` is whether the user has been told to abandon the freelist (or has
  written at will, with `copy-page` and `meta update`).
* `Compact`: the walk of the source as a sequence of names and the position in it;
  `pending` is the destination's transaction. A source is finitely many names, each a
  sequence of numbers (`SourcesAssumption`). `FilesProofs` has the proofs.
* `MCFiles` puts the last three side by side for TLC: in a behaviour one of them takes
  steps and the others stay where they begin, so that a state of the run is a
  state of one of them. They do not interact.

Operators whose comment says "Variant:" are changed forms of a definition that
stand for a plausible bug; each is used to confirm that the property it is listed
with can fail.

## 4. Runs

| Run | Instance | Shows |
|---|---|---|
| `bolt_faults` | 1 reader, pages 2..7, 4 transactions, nodes of up to 2 pages, 4 ids per page, every fault | the safety invariants, and that `Bolt` implements `Store`, when any operation of the environment may fail and a crash may come between any two steps |
| `bolt_readers` | 2 readers, pages 2..6, 5 transactions, `NoFreelistSync`, crashes, symmetric readers | `NoLeak`, `SnapshotIsolation`, `ReleaseComplete` (a page stays pending only for a reader between its allocation and its freeing) with readers on both sides of several commits, so that `releaseRange` has extents between readers; the freelist rebuilt by scanning accounts for every page; the inductive invariant of the proofs holds |
| `bolt_rollback` | failing `writeMeta` | violation: `tx.rollback` keeps the pages the failed commit took from the free ids, although its comment says it "releases allocations from a failed writable transaction" (tx.go:321); they are unreachable and not free until the file is reopened |
| `freelists` | pages 2..9, every initial set of free ids | both allocators implement `PageSet`, with merges run by run and turn by turn that neither lose nor add an id; the three maps agree and spans are apart |
| `meta_crash` | 1 reader, meta pages in three fields, 6 transactions, failing writes and syncs, crashes | one meta page survives; a reader that did not choose a half-written page has copied one version whole, and no version copied whole is older than the last commit acknowledged when the reader began |
| `locks` | 2 readers, 2 writers, 1 closer, 2 remaps | no lock is kept or given back twice, nobody waits in a circle, transactions keep their map (readers: until `Close`), and every call returns if no callback panics |
| `locks_panic` | no closer | violation: a panic in a callback of `Update` or `View` leaves its lock taken (db.go:915), against `src/instruction.md` item 10 |
| `batch` | 3 callers, batches of 2 | every call of `Batch` returns, with an answer that agrees with what was committed, and none is lost |
| `trees` | an empty tree, one of 2 levels and one of 3; up to four changes, then a commit | a transaction reads at every step of its commit the map that its own puts and deletes made, and the commit keeps just that; afterwards the pages are a sound tree, none leaked or freed twice; nodes, parents and pages agree; the cursor finds the right key from every position |
| `buckets` | three databases with nested and inline buckets, any three calls, then a commit or rollback | a transaction reads and a commit keeps the tree of names its calls made; every page belongs to one bucket, and is not freed |
| `buckets_delete` | the same, `Careless` with `"delete changed"` | violation: `DeleteBucket` skips a nested bucket and leaks its pages (section 5) |
| `files` | growth: maps of 2, 4, 8, 16, 32, 40 pages, an allocation size of 12, marks of up to 10, every option; surgery: any three commands on a file with two buckets, one three pages large; compaction: a source three levels deep, four limits, two runs | the map and the file have every page in use, and the file stays below `MaxSize` (initial maps over it excepted); the commands leave the file sound or warn; a silent `Check` means that every page has one use and, if no branch page was emptied, that the cursor finds every key; the X-ray answers with exactly the paths to a key or with an error, with an error on every cycle and with none on a sound tree; the destination of `Compact` is a beginning of the source and its transactions are bounded |

Bounds. `MaxPgid` and `MaxTxid` end the exploration by making allocation past the
end and further write transactions impossible. Four transactions are enough for a
page to be allocated, freed, rolled back, released and allocated again; `IdsPerPage`
4 makes the freelist need a second page, and `MaxCount`, the 0xFFFF ids from which on the
count takes an id's place, is 2 or 3, so that freelists lie on both sides of it. Deadlock is not an error of these runs in
the sense that a database at `MaxTxid` only has readers left, who always can begin.
Eight page ids hold every way a freed run can lie before, after and between two
spans of different sizes. Six transactions write each meta page three times, one
more than a stale content needs to come back. Two goroutines of a kind are what
a lock handed to the wrong one needs; two remaps in a commit separate "during" from
"between". Three callers with batches of two have a full batch, a second batch
beside it, and a failure at the first, the middle and the last call. `locks` and
`batch` do not check deadlock: a leaked lock and the end of all calls are states in
which the system really stops, and `EveryCallReturns` and `EveryBatchReturns` say
who must not be left waiting.

Trees: a page of 12 units holds four small elements and splits at half of it, so that
`DeepTree` needs twelve keys. The four leftmost keys can be deleted, which empties a
leaf, merges with the left and the right sibling, and takes a root away in both larger
trees; a large value at an old or a new key makes splits at the left and the right
and a page with overflow. Buckets: three calls are one to open or
change, one to move or delete around it and one to change again; `MaxInline` 2 admits
one value of size 1 and rejects size 3. Sizes: an allocation size of 12 pages lies between two steps of the map, 8 and 16, so
that `growSize` takes its first branch with the maps below and its second with those
above. A `MaxSize` of 9 pages admits only the first branch, one of 22 the second one a
single time. An initial map of 3 pages is within a `MaxSize` of 9; one of 10 makes a map
of 16, so that `grow` is in the second branch while `allocate` computes in the first: it
is over 9 and within 22. An allocation of three pages is larger than the slack of
`allocate`. Surgery: three commands are the
destructive one, the abandon and the rebuild; the page that may be copied or
made a root are a branch, leaves with and without overflow and a freelist. Compaction:
sizes 0, 1, 4 and 7 are no limit, one below every item but the smallest, and two that
end transactions at different levels. `files` does not check deadlock: a series of
commands, and a compaction, end.

`torn` marks the limit of what the meta pages promise. After a `writeAt` that failed
half way, `meta()` (db.go:1127) compares txids without validating either page, so the
next transaction may begin from the damaged page; by README.md:952-954
its checksum should have invalidated it. `OneSurvives` is stated up to that event.

## 5. Where the code differs from what it promises

Three differences are runs that expect a violation: `bolt_rollback`, `locks_panic` and
`buckets_delete`. `DeleteBucket` (bucket.go:304-311) deletes the nested buckets from
within `ForEachBucket`, whose cursor walks the node that each deletion shortens, so a
nested bucket after a deleted one is skipped and its pages are leaked. This needs the
node in memory, that is, a change in the same transaction.

The others follow from one definition each, checked apart from the runs: put it in place
of the properties of the named configuration and TLC shows the behaviour. (`Surgery` is
reached through `S` in `MCFiles`: give its definitions a name there, as the ones at the
end of that module have.)

| Definition, configuration | What the code does |
|---|---|
| `Locks!CloseWaits`, `locks` | `Close` takes only a read lock on `mmaplock` (db.go:701): it unmaps the file under open readers, although it "will block waiting for any open transactions to finish" (db.go:691-693) |
| `MetaPages!SnapshotWhole`, `meta_crash` | `writeMeta` (tx.go:552) does not take `metalock`, which "Protects meta page access" (db.go:146): a reader that chooses a half-written page may copy the new txid with the old root. `SnapshotFresh` is about the others |
| `MetaPages!OpenRecovers`, `meta_crash` | a torn meta page makes `Open` fail while the other one is valid (db.go:544); README.md:952-954 says that partially written meta pages are invalidated by their checksum |
| `DataFile!WithinMaxSize` without `InitialMapOverMaxSize`, `files` | `allocate` computes the growth with the map that the new mark needs, `grow` with the map there is, and `Open` maps `InitialMmapSize` without asking for `MaxSize`: with an initial map of 16 pages and a `MaxSize` of 9 the first commit makes the file larger than 9 (db.go:1157, db.go:1205) |
| `DataFile!GrownBeforeWrite`, `files` | without a persisted freelist, or when only data pages moved the mark, the file is not grown before pages are written past its end (tx.go:217-225, tx.go:285) |
| `DataFile!CopiesOwnFile`, `files` | `WriteTo` opens the database's path (tx.go:380), which may name another file by then |
| `Cursor!PrevFinds`, `trees` | `Prev` moves into a leaf that deletions have emptied and returns nil in the middle of the bucket (cursor.go:104-105 promises nil at the beginning only) |
| `Buckets!ImplementsNamespace`, `buckets` with `Careless = {"move changed"}` | `MoveBucket` copies the stored header of a bucket and forgets the changes made to it in this transaction |
| `Buckets!PagesOwned`, `buckets` with `Careless = {"move inside"}` | a bucket moved into itself leaves the tree, as if it had been deleted, and its pages are leaked |
| `Surgery!CheckFindsFreed`, `files` | `Check` asks `freed` of a page's first id only (tx_check.go:165): an overflow page in use that is also free is not reported |
| `Surgery!CheckFindsEmptied`, `files` | `Check` is silent on a branch page without elements, as `clear-page` and a rebuild of the freelist leave it. A cursor that comes to it reads element 0 all the same (cursor.go:182), which is the one `clear-page` left behind (surgeon.go:74-81) and names a page that is free by now, and a search in it panics (cursor.go:335). `CheckFinds` has its second half only without such a page |
| `Surgery!XRayCycles`, `files` | `traverse` remembers every page it has met, not those on the way to the current one (xray.go:26): a page that two sibling routes share is reported as a cycle and the paths found are dropped, although an acyclic graph "in which sibling routes share one child page must not be mislabeled as a cycle" (`src/instruction.md` item 1) |
| `Surgery!CheckFinds`, `files` with `"pgid"` in `MetaFields` | the test for a page out of bounds is `p.Id() > hwm` (tx_check.go:151), so the page at the mark passes |
| `Surgery!QuietlySound` without `unnested`, `files` | clearing a leaf element that holds a bucket's root abandons its pages without the warning (surgeon.go:105 looks at branch pages and overflow only) |

Some have no definition: `Check` on a file for which
`CheckCrashes` holds panics in its goroutine, or overflows the stack on a cycle; `Stats`
of a branch page without elements indexes element 65535 (bucket.go:661); `Prev` at the
beginning empties the stack, so that `Next` does not continue (cursor.go:104-114);
`MoveBucket` accepts a bucket of another database; when `Begin` fails inside
`Compact`'s callback the deferred `Rollback` is called on a nil transaction, and the
error it assigns is not returned (compact.go:15-19).

## 6. Fairness

`Bolt` and `MetaPages` promise nothing about progress: a user may hold a transaction
for ever, so no fairness is assumed and only safety is stated.

`Locks`: strong fairness for each goroutine's steps within a call. A Go mutex in its
starvation mode hands itself to the waiter at the head of its queue and an `RWMutex`
lets an announced writer in when the readers it found have left, so a goroutine for
which a lock is free again and again gets it. Callbacks are assumed to return. Calls
themselves (`CallView`, ...) are not fair: nobody has to call.

`Batch`: weak fairness of the disjunction of all the steps after `Join`, that is, the
process goes on. Timers fire, functions return, and since each caller calls once the
steps come to an end, no fairness between goroutines is needed.

## 7. Proofs

Every theorem holds for all values of the constants that satisfy the named
assumptions in the modules: bounds are naturals, `IdsPerPage` is at least 2, the sets
of goroutines are disjoint, names of callers are no numbers, there is a transaction
after the two that `db.init` writes, what is compacted is a finite tree of names, and the
first transaction on a bucket finds a sound tree (`SoundTree`), whatever its size and
depth. No number of readers, pages, transactions, goroutines, callers, keys or levels is
fixed.

`BoltProofs`. `IInv` (in `BoltInv`) is inductive. The safety
invariants are not inductive by themselves: that a page used by a snapshot is not
free needs to know why the freelist did not release it (`Protects`: if the page is
pending then the snapshot lies between its allocation and its release, and `allocs`
never dates its allocation after the snapshot), that a reader in `beginTx` holds
`metalock` until it is registered (`ReadersInv`), that the pages a recoverable meta
uses are not released because what is pending was freed by a transaction that every
recoverable meta comes after, or by the running one (`PendingOK`), and that the
writer's new tree shares with each snapshot only whole blocks and owns its dirty
pages (`WriterOK`, `Shares`). `BoltProofs` first states what each freelist operator
does to its fields, then what `Free`, `Allocate`, `Rollback` and
`ReleasePendingPages` preserve of the part that concerns the metas, then one lemma per
action. Proved: `TypeOK`, `VisibleNotFree`, `DirtyIsPrivate`, `NeverPanics`,
`CacheExact`, `RecoverableIntact`, `AckedSurvives`, `SnapshotIsolation` and the
refinement `ImplementsStore`.

The last section of `BoltProofs` is, under the same invariant, about what becomes of the
pages. `FreelistFits`
is a fact about every meta that is written, read or ready to be written (`Known`): its
freelist page was sized by `EstimatedPages`, which counts free, pending and allocated
ids before the page is taken from them, and between that and the write nothing is
freed; every other step only passes metas on. `NoLeak` needs the same accounting for
the writer's tree at every point of its work and for every freelist on file (`LeakInv`),
since a crash makes one of these the current one; with `NoFreelistSync` the scan at
`Open` finds it again. Its hypothesis `NothingFails` leaves only crashes: after a commit
that failed pages do leak, as the run `bolt_rollback` shows. `ReleaseComplete` rests on
`lastReleaseBegin`: what is still pending of a transaction that an extent has been looked
at for was allocated before that extent began (`Looked`), which is why `releaseRange` may
skip a transaction it has looked at with the same beginning. Proved: the three.

`MetaPagesProofs`. A page is `Safe` when it is on disk as the map shows it and not older
than what is acknowledged. `PagesInv` says that the contents a page may have after a
crash are all of transactions that write this page and not the other (`InTurn`), that
between transactions one page is safe and, unless a meta write has failed half way, both
are valid (`QuietInv`), and that while one page is written the other one is safe and holds
the transaction before (`MetaInv`). A crash takes any of the contents not yet synced, so
`Open` finds that page or the one that was being written, whole; both keep the pages in
turn. For the readers (`SnapshotFresh`) the invariant adds that what they have copied so
far is of the page as it is: the writer only begins under `metalock`, so that the page
a reader has chosen is written by nobody while it copies, unless it was being written
when the reader chose it (`amid`). Proved: `OneSurvives` and that the current page is
valid (`CurrentIsValid`), up to a torn page, and `SnapshotFresh`.

`AllocatorProofs`. For the hashmap, `Valid` (types, `Agree`, `Apart`, exact count) is inductive together
with where the ids under merge are. Two lemmas say what `addSpan` and `delSpan` do to
a valid set of maps, and everything else follows from them: `Allocate` is one
`delSpan` and perhaps an `addSpan`, a merge up to two `delSpan`s and an `addSpan`.
That any free run lies in one span, which is why looking at single spans is enough,
follows from `Apart`; that every id of the initial set is in a run that ends, from the
least id that is missing. Proved: the three
invariants and the refinement `ImplementsPageSet`.
For the array, what the loop of `Allocate` carries in `initial` is the id after the last
gap (`Initial`), and from there to the current id the slice has every id: were there a
first one missing, there would be a later gap. So a match is a run, the cut takes just its
ids out, and a free run of `n` is met at its last id at the latest. `ArrayInv` says that
each of `ids`, `merged`, `lead` and `follow` is sorted, that what has been merged lies
below what is left, and that no id is in two of the slices. `Mergepgids` builds a new slice
and leaves the old one in place until it is done, so that the set the merge works for is
the union of the four. Proved: the slice stays sorted (`ArraySorted`) and the refinement
`ArrayImplementsPageSet`.

`LocksProofs`. `LockOwners` with `TypeOK` is inductive; that nothing is unmapped under
a writer adds what each position knows of `opened` and `mapped`. No circular wait:
in a set of goroutines that wait for one another nobody waits for `mmaplock` as a
writer, since the readers it waits for do not wait; hence nobody as a reader, nor for
`metalock`, nor for `rwlock`. Proved: all safety properties of the run.

`BatchProofs`. `WaitingIsQueued` needs the channels to agree with the callers'
positions (`CallersKnow`) and batches to exist before they are joined
(`BatchesMade`); `ExactlyOnce` needs that the open transaction holds just the calls its
run has made (`DirtyKnown`) and that there is only one (`WriterKnown`). Proved:
`ExactlyOnce` and `WaitingIsQueued`.

`FilesProofs`, first part: `DataFile`. `MmapCovers` and `FileCovers` need each other: `Open` maps what the file
has, so the map covers the pages because the file does. With them `FileInv` says that
the mark is never behind the current one and inside the map while a transaction works,
and that a reader's snapshot is not newer than the current one. One lemma is about
`mmapSize` (doubling, then rounding up) and one about `growSize`; the rest is one lemma
per group of actions. `WithinMaxSize` relates what `allocate` allowed to what `grow` does
later: `allocate` computes the growth of the file from the map it will need, `grow` from
the map there is. `MapAllows` says that the map there is, made for some earlier mark,
came with a size that was allowed, and `MarkAllowed` the same of the mark. Where the
options in force ask for an initial map over `MaxSize` nobody allowed the map, and the
property says nothing (section 5). Proved: all three, for any sizes, options and failures.

`FilesProofs`, second part: `Compact`. The walk is defined by ranks, so the first half is about
`Before`: where two names part decides their order (`BeforeForks`), hence it is strict,
transitive and total; ranks then grow with the order, no two names share one, and each
rank below the number of names is taken, for as many distinct ranks as there are names. So `Walk`
lists every name of the source once and in order (`WalkOrder`). `CompactInv` is then
short: what the destination has committed and what its transaction has are both all names
up to some position of the walk, with their values, and a running compaction has
everything before `at`. A later run starts from names that an earlier
one left; it may put values again, and stops at the first bucket it finds. Proved: `DstIsPrefix` and `TxBounded`, for every source, limit and
number of runs.

`TreeLemmas` and `TreeProofs`. The pages of the transaction that are not freed and the nodes that are not
written are seen as one tree (`TreeOf`): a node stands for its page until it is written, a
new page for its part of the node afterwards. `Shape` says of this tree, with a height `h`
for every node and a set `d` of the keys that are or were below it, that leaves are at
height 0 and a child is one lower than its parent, that the key a parent has for a child
is the one the child is known by, that a child's keys are among its parent's, and that
the keys under one element come before those under the next. The sets are what makes it
inductive: a deletion takes keys away but never a place, so a later put under the old key
still goes where a search would look. Nine lemmas say what a change does to such a tree,
with no word of pages or nodes: put at the right place (`PutShape`), a new leaf
(`LeafShape`), a child dropped, merged or put in its parent's place (`DropShape`,
`MergeShape`, `CollapseShape`), a node cut into parts under its parent (`PartsShape`), a
root above the root (`RootAboveShape`), a node under another name (`RenameShape`), and
sets cut back to what a reader may rely on (`TrimShape`). `TreeInv` adds how nodes and
pages represent the tree: until nodes are written every node stands for its page and is
known to its parent (`Loaded`); while they are written every node that is not written has
a parent that is not (`Links`, `Spilling`), and a node is lower than its parent (`Steep`),
so that `node.root` and the choice of the next node end; a branch has two children, but
for the parent whose rebalance is due (`Full`), which is why it always finds a sibling to
merge with; and the pages without those written by the transaction are the sound tree of
the last commit (`SoundPages`). Then there is one lemma for each action and, for merge,
collapse and spill, one for each thing it does. `Follow` is a recursive function; that it
is the one walk from a place to where the walk stays (`FollowIsWay`) is proved from a rank
that falls at each step. For the map, every one of these
lemmas also says what becomes of the elements in the leaves of the two trees (`Held`, and
`Saved` for the last commit): a put or a deletion changes the element of its key, nothing
else changes any. In-order contents are a recursive function; that they list just those
elements, in order, and that a sorted list is the map of its elements (`ContentsOf`,
`AsMapOf`) makes of this the steps of `OrderedMap`. Proved: `TreeInv` is inductive, hence
`LinksAgree`, which has that no assertion of `node.rebalance` and `node.spill` fails,
`CommittedSound` and `PagesSound`, and `ImplementsMap`: a transaction reads the map that
its puts and deletes made, whatever the rebalancing and spilling do, and commits just that.

Only model-checked. `Surgery`, `Buckets` and `Cursor` use recursive operators, which the
provers do not take. Liveness
(`EveryCallReturns`, `EveryBatchReturns`) is beyond the proof system.

## 8. Not modelled

In `Bolt`: the options `NoSync` and `NoGrowSync` (documented as unsafe), the panic of
`StrictMode`, statistics, commit handlers, calls on a closed transaction. In `Locks`:
`statlock`, transactions that are not managed, a reader and a writer in one goroutine
(which db.go:756-759 warns of), `File` locks. In `MetaPages`: `getPageSize`. In `Batch`:
panics of a function that runs alone. In `Tree`: node statistics, `dereference`, fill
percents other than the default. In `Buckets`: `Stats`, `ForEach` and `Inspect`, which
change nothing; `Tree` and `Buckets` abstract from one another, so no run has a bucket
that is both nested and several pages deep (in `Surgery` the file has). In `DataFile`:
`Mlock`, and the sizes Windows uses. In `Surgery`: damaged page contents other than by a
command, the check that starts at a page, page sizes.

The other commands of the tool parse arguments and print what calls of the library
return; the page layout is pointer arithmetic over buffers; the platform layer is
system calls that succeed or fail; the logger, error values and test support have no
state worth checking.
