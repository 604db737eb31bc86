------------------------------ MODULE DataFile ------------------------------
(***************************************************************************)
(* The size of the data file and of its memory map (db.go), counted in     *)
(* pages: allocate moves a transaction's high-water mark and remaps,       *)
(* commitFreelist grows the file, write extends it, and WriteTo copies as  *)
(* many pages as a reader's snapshot has.  Which pages a transaction uses  *)
(* is Bolt's matter; here an allocation is served from the freelist or at  *)
(* the mark.                                                               *)
(***************************************************************************)
EXTENDS Integers, FiniteSetsExt

CONSTANTS MinMap,       \* the smallest map, 32KB
          MmapStep,     \* maps double up to this size, 1GB, and then grow by it
          MaxMapSize,   \* 256TB
          AllocSize,    \* DB.AllocSize
          OptionSet,    \* the Options a database is opened with
          Counts,       \* pages asked for at once (bound)
          MaxPages      \* of the file (bound)

ASSUME SizesAssumption ==
  /\ {MinMap, MmapStep} \subseteq Nat \ {0}
  /\ {AllocSize, MaxMapSize} \cup Counts \subseteq Nat
  /\ \E d \in 0 .. MmapStep : MmapStep = MinMap * 2^d
  /\ \A o \in OptionSet : /\ o.maxSize \in Nat /\ o.initialMmapSize \in Nat
                          /\ o.noFreelistSync \in BOOLEAN /\ o.noGrowSync \in BOOLEAN

VARIABLES
  options,      \* the Options in force
  phase,        \* "closed", "idle", "flush" (Open's commit), "begun", "listed"
  fileSize, datasz,
  hwm,          \* Pgid of the current meta page
  synced,       \* whether the freelist is on a page
  mark,         \* Pgid of the transaction's meta
  reader,       \* pages of the open reader's snapshot, 0 without one
  copy,         \* pages a WriteTo has to copy, 0 without one
  copied,       \* the file it reads, "own" or "other"
  path          \* the file the path names

file == <<fileSize, datasz>>
tx == <<phase, hwm, synced, mark>>
copying == <<reader, copy, copied, path>>
vars == <<options, file, tx, copying>>

Bigger(a, b) == IF a > b THEN a ELSE b

\* DB.mmapSize; 0 stands for its error.
MmapSize(size) ==
  LET doubled == {m \in MinMap .. MmapStep :
                    size <= m /\ \E d \in 0 .. MmapStep : m = MinMap * 2^d}
      steps == ((size + MmapStep - 1) \div MmapStep) * MmapStep IN
  IF doubled # {} THEN Min(doubled)
  ELSE IF size > MaxMapSize THEN 0
  ELSE Min({steps, MaxMapSize})

\* DB.growSize
GrowSize(mmapSize, size) == IF mmapSize < AllocSize THEN mmapSize ELSE size + AllocSize

Init ==
  /\ options \in OptionSet
  /\ phase = "closed" /\ fileSize = 4 /\ datasz = 0         \* DB.init
  /\ hwm = 4 /\ synced = TRUE /\ mark = 0
  /\ reader = 0 /\ copy = 0 /\ copied = "own" /\ path = "own"

(***************************************************************************)
(* Open and Close.  A freelist that was left out is written by Open.       *)
(***************************************************************************)
Open(o) ==
  /\ phase = "closed" /\ path = "own"    \* else it opens another database
  /\ options' = o
  /\ datasz' = MmapSize(Bigger(fileSize, o.initialMmapSize)) /\ datasz' # 0
  /\ phase' = IF ~o.noFreelistSync /\ ~synced THEN "flush" ELSE "idle"
  /\ mark' = hwm
  /\ UNCHANGED <<fileSize, hwm, synced, copying>>

Close ==
  /\ phase = "idle" /\ phase' = "closed"
  /\ datasz' = 0 /\ mark' = 0
  /\ reader' = 0                     \* its db has no path any more
  /\ UNCHANGED <<options, fileSize, hwm, synced, copy, copied, path>>

Begin ==
  /\ phase = "idle" /\ datasz # 0    \* ErrInvalidMapping
  /\ phase' = "begun" /\ mark' = hwm
  /\ UNCHANGED <<options, file, hwm, synced, copying>>

\* Tx.rollback; an Open whose commit fails closes the database.
Aborted ==
  /\ phase' = IF phase = "flush" THEN "closed" ELSE "idle"
  /\ mark' = 0
  /\ UNCHANGED <<options, hwm, synced, copying>>

(***************************************************************************)
(* DB.allocate of n pages that the freelist does not have.                 *)
(***************************************************************************)
\* Variant: the pages asked for are not counted.
MinSizeWithoutCount(n) == mark + 1

MinSize(n) == mark + n + 1

\* Variant: what the file grows by is not counted.
NeedsMoreThanMaxSize(n) ==
  options.maxSize > 0 /\ (MmapSize(MinSize(n)) = 0 \/ MinSize(n) > options.maxSize)

\* mmapSize fails, or the file might have to grow over MaxSize.
MaxSizeReached(n) ==
  LET next == MmapSize(MinSize(n)) IN
  options.maxSize > 0 /\ (next = 0 \/ GrowSize(next, MinSize(n)) > options.maxSize)

\* DB.mmap waits for the readers.
Remapped(n) ==
  IF MinSize(n) < datasz THEN datasz' = datasz
  ELSE /\ reader = 0
       /\ datasz' = MmapSize(Bigger(fileSize, MinSize(n))) /\ datasz' # 0

AtMark(n) == ~MaxSizeReached(n) /\ Remapped(n) /\ mark' = mark + n

Allocate(n) ==
  /\ phase = "begun" /\ mark + n <= MaxPages
  /\ AtMark(n)
  /\ UNCHANGED <<options, fileSize, phase, hwm, synced, copying>>

AllocateFails(n) ==
  /\ phase \in {"begun", "flush"}
  /\ MaxSizeReached(n) /\ Aborted /\ UNCHANGED file

\* The old map is gone when the new one fails: the database has none then.
RemapFails(n) ==
  /\ phase \in {"begun", "flush"}
  /\ ~MaxSizeReached(n) /\ MinSize(n) >= datasz /\ reader = 0
  /\ datasz' \in {datasz, 0}
  /\ Aborted /\ UNCHANGED fileSize

Rollback == phase = "begun" /\ Aborted /\ UNCHANGED file

(***************************************************************************)
(* Commit: the freelist, the pages, the meta page.                         *)
(***************************************************************************)
\* DB.grow, with the map and the mark of the moment.
Grown ==
  IF mark' + 1 > fileSize /\ ~options.noGrowSync
  THEN GrowSize(datasz', mark' + 1) ELSE fileSize

CommitFreelist ==
  /\ phase \in {"begun", "flush"} /\ ~options.noFreelistSync
  /\ \/ UNCHANGED <<fileSize, datasz, mark>>            \* from the freelist
     \/ \E n \in Counts : mark + n <= MaxPages /\ AtMark(n) /\ fileSize' = Grown
  /\ phase' = "listed"
  /\ UNCHANGED <<options, hwm, synced, copying>>

NoFreelist ==
  /\ phase = "begun" /\ options.noFreelistSync
  /\ phase' = "listed"
  /\ UNCHANGED <<options, file, hwm, synced, mark, copying>>

\* Truncate or Sync fails, the file is longer or not.
GrowFails ==
  /\ phase \in {"begun", "flush"} /\ ~options.noFreelistSync /\ ~options.noGrowSync
  /\ \E n \in Counts :
       /\ ~MaxSizeReached(n) /\ mark + n <= MaxPages /\ mark + n + 1 > fileSize
       /\ Remapped(n)
       /\ fileSize' \in {fileSize, GrowSize(datasz', mark + n + 1)}
  /\ Aborted

\* Variant: nothing is written after the end of the file.
NotExtended == fileSize

\* Tx.write: all pages allocated at the mark.
Extended == Bigger(fileSize, mark)

\* Every page allocated at the mark is written, whatever the file's size is.
\* (The map shows the meta page even when its sync fails.)
WriteAndPublish ==
  /\ phase = "listed"
  /\ fileSize' = Extended
  /\ hwm' = mark /\ synced' = ~options.noFreelistSync
  /\ phase' = "idle" /\ mark' = 0
  /\ UNCHANGED <<options, datasz, copying>>

\* Pages are written in order; the meta page is not.
WriteFails ==
  /\ phase = "listed"
  /\ fileSize' \in fileSize .. Extended
  /\ phase' = "idle" /\ mark' = 0
  /\ UNCHANGED <<options, datasz, hwm, synced, copying>>

(***************************************************************************)
(* A reader, and its WriteTo, which opens the database's path again.       *)
(***************************************************************************)
BeginRead ==
  /\ phase \notin {"closed", "flush"} /\ datasz # 0 /\ reader = 0
  /\ reader' = hwm
  /\ UNCHANGED <<options, file, tx, copy, copied, path>>

EndRead == reader # 0 /\ reader' = 0 /\ UNCHANGED <<options, file, tx, copy, copied, path>>

WriteTo ==
  /\ reader # 0 /\ copy = 0
  /\ copy' = reader /\ copied' = path
  /\ UNCHANGED <<options, file, tx, reader, path>>

WriteToEnds ==
  /\ copy # 0 /\ copy' = 0 /\ copied' = "own"
  /\ UNCHANGED <<options, file, tx, reader, path>>

\* Another process renames a file of its own to the path.
Rename ==
  /\ path = "own" /\ phase # "closed" /\ path' = "other"
  /\ UNCHANGED <<options, file, tx, reader, copy, copied>>

Next ==
  \/ \E o \in OptionSet : Open(o)
  \/ Close \/ Begin \/ Rollback
  \/ \E n \in Counts : Allocate(n) \/ AllocateFails(n) \/ RemapFails(n)
  \/ CommitFreelist \/ NoFreelist \/ GrowFails \/ WriteAndPublish \/ WriteFails
  \/ BeginRead \/ EndRead \/ WriteTo \/ WriteToEnds \/ Rename

Spec == Init /\ [][Next]_vars

-----------------------------------------------------------------------------
(* Pages are read through the map: whatever remapping has failed and       *)
(* however the map was sized, the pages of the last commit, of a reader    *)
(* and of the transaction lie inside it, or there is no map and nobody     *)
(* begins.                                                                 *)
MmapCovers ==
  /\ datasz # 0 => hwm <= datasz /\ reader <= datasz
  /\ phase \in {"begun", "listed"} => mark <= datasz

(* The file holds every page of the last commit and of a running copy, so  *)
(* that WriteTo writes exactly tx.Size() bytes and never meets the end of  *)
(* the file early.                                                         *)
FileCovers ==
  /\ hwm <= fileSize
  /\ copied = "own" => copy <= fileSize

(* A copy is of the file its transaction was opened on.                    *)
CopiesOwnFile == copy # 0 => copied = "own"

(* A transaction that moves the mark grows the file before its pages are   *)
(* written, whether or not the freelist is persisted.                      *)
GrownBeforeWrite == phase = "listed" /\ ~options.noGrowSync => mark <= fileSize

(* InitialMmapSize asks for a map by which grow lets the file pass MaxSize: *)
(* Open maps it all the same, and allocate computes with a smaller map.    *)
InitialMapOverMaxSize(o) ==
  LET map == MmapSize(o.initialMmapSize) IN
  o.maxSize > 0 /\ o.initialMmapSize > 0 /\ map # 0 /\ GrowSize(map, o.initialMmapSize) > o.maxSize

(* No step makes the file larger than MaxSize, unless the map that Open was *)
(* asked for does: what allocate computes from the map that the new mark    *)
(* needs holds for what grow computes from the map there is, and for what   *)
(* the writes extend without grow.                                          *)
WithinMaxSize ==
  [][fileSize' > fileSize =>
       \/ options.maxSize = 0 \/ fileSize' <= options.maxSize
       \/ InitialMapOverMaxSize(options)]_vars
=============================================================================
