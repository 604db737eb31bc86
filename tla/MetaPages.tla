------------------------------ MODULE MetaPages ------------------------------
(***************************************************************************)
(* The two meta pages at the level of their fields.  A page is written     *)
(* field by field (a writeAt is not atomic for somebody who reads the      *)
(* mmap, nor for a crash), and its checksum tells whether the fields       *)
(* belong together.  A field's content is the txid that wrote it, so that  *)
(* Meta.Validate accepts a page iff all its fields are of one txid.        *)
(*                                                                         *)
(* With Fields = {"txid"} a page is written at one instant.                *)
(***************************************************************************)
EXTENDS Integers, FiniteSets

CONSTANTS Readers,
          Fields,       \* the separately written parts of a meta page
          MaxTxid,      \* last transaction id (bound)
          Faults        \* which operations of the environment may fail

ASSUME ConstantsAssumption ==
  /\ "txid" \in Fields
  /\ MaxTxid \in Nat \ {0}    \* db.init writes 0 and 1
  /\ Faults \subseteq {"write", "sync", "crash"}

VARIABLES
  page,         \* page[s]: meta page s as the mmap shows it
  disk,         \* disk[s][f]: the contents field f may have after a crash
  status,       \* "open", "closed", or "refused" when Open has failed
  metalock,     \* the reader that holds db.metalock, as a set
  rslot,        \* rslot[r]: the page reader r is copying, as a set
  rmeta,        \* rmeta[r]: the fields reader r has copied
  wpc,          \* where the write transaction is
  wmeta,        \* the meta page it copied when it began
  todo,         \* the fields of the new meta page not written yet
  acked,        \* txid of the last Commit that returned nil
  torn,         \* whether a meta write has failed half way
  since,        \* since[r]: acked when reader r chose its page (history)
  amid          \* amid[r]: that page was being written then (history)

readVars == <<metalock, rslot, rmeta, since, amid>>
txVars == <<wpc, wmeta, todo>>
vars == <<page, disk, status, readVars, txVars, acked, torn>>

Slots == {0, 1}
Txids == 0 .. MaxTxid
Slot(txid) == txid % 2

Validate(m) == \A f, g \in DOMAIN m : m[f] = m[g]

\* Variant: the older page is taken.
CurrentSlotOldest == IF page[0]["txid"] < page[1]["txid"] THEN 0 ELSE 1

\* db.meta(): the txid fields are compared, nothing is validated.
CurrentSlot == IF page[0]["txid"] > page[1]["txid"] THEN 0 ELSE 1

Synced(p) == [s \in Slots |-> [f \in Fields |-> {p[s][f]}]]

\* db.init
Init ==
  /\ page = [s \in Slots |-> [f \in Fields |-> s]]
  /\ disk = Synced(page)
  /\ status = "open"
  /\ metalock = {}
  /\ rslot = [r \in Readers |-> {}]
  /\ rmeta = [r \in Readers |-> <<>>]
  /\ since = [r \in Readers |-> 0]
  /\ amid = [r \in Readers |-> FALSE]
  /\ wpc = "idle" /\ wmeta = page[1] /\ todo = {}
  /\ acked = 1 /\ torn = FALSE

-----------------------------------------------------------------------------
(* db.beginTx: under metalock, choose a page and copy it. *)

\* Variant: the txid is incremented twice.
NewTxidTwice == wmeta["txid"] + 2

\* Meta.IncTxid
NewTxid == wmeta["txid"] + 1

\* The current page is one that the writer has written in part.
HalfWritten == todo \notin {{}, Fields} /\ CurrentSlot = Slot(NewTxid)

ChooseMeta(r) ==
  /\ status = "open" /\ metalock = {} /\ rslot[r] = {}
  /\ metalock' = {r}
  /\ rslot' = [rslot EXCEPT ![r] = {CurrentSlot}]
  /\ since' = [since EXCEPT ![r] = acked]
  /\ amid' = [amid EXCEPT ![r] = HalfWritten]
  /\ UNCHANGED <<page, disk, status, rmeta, txVars, acked, torn>>

CopyField(r, f) ==
  /\ metalock = {r} /\ f \notin DOMAIN rmeta[r]
  /\ \E s \in rslot[r] :
       rmeta' = [rmeta EXCEPT ![r] =
                   [g \in DOMAIN rmeta[r] \cup {f} |-> IF g = f THEN page[s][f] ELSE rmeta[r][g]]]
  /\ UNCHANGED <<page, disk, status, metalock, rslot, since, amid, txVars, acked, torn>>

UnlockMeta(r) ==
  /\ metalock = {r} /\ DOMAIN rmeta[r] = Fields
  /\ metalock' = {}
  /\ UNCHANGED <<page, disk, status, rslot, rmeta, since, amid, txVars, acked, torn>>

Rollback(r) ==
  /\ metalock = {} /\ rslot[r] # {}
  /\ rslot' = [rslot EXCEPT ![r] = {}]
  /\ rmeta' = [rmeta EXCEPT ![r] = <<>>]
  /\ since' = [since EXCEPT ![r] = 0]
  /\ amid' = [amid EXCEPT ![r] = FALSE]
  /\ UNCHANGED <<page, disk, status, metalock, txVars, acked, torn>>

-----------------------------------------------------------------------------
(* The write transaction. *)

\* Variant: the txid is incremented twice.
\* Variant: a writer may begin while a reader is in beginTx.
BeginRWTxWithoutMetalock ==
  /\ status = "open" /\ wpc = "idle"
  /\ page[CurrentSlot]["txid"] < MaxTxid
  /\ wmeta' = page[CurrentSlot]
  /\ wpc' = "data"
  /\ UNCHANGED <<page, disk, status, readVars, todo, acked, torn>>

\* db.beginRWTx: under metalock.
BeginRWTx ==
  /\ status = "open" /\ metalock = {} /\ wpc = "idle"
  /\ page[CurrentSlot]["txid"] < MaxTxid
  /\ wmeta' = page[CurrentSlot]
  /\ wpc' = "data"
  /\ UNCHANGED <<page, disk, status, readVars, todo, acked, torn>>

\* tx.rollback, or the end of a commit.
Close == wpc' = "idle" /\ todo' = {} /\ UNCHANGED wmeta

\* Variant: the data pages are not synced before the meta page is written.
SyncDataSkipped ==
  /\ wpc = "data"
  /\ wpc' = "meta" /\ todo' = Fields /\ UNCHANGED <<wmeta, disk>>
  /\ UNCHANGED <<page, status, readVars, acked, torn>>

\* tx.write: fdatasync covers the whole file, an older meta page included.
SyncData ==
  /\ wpc = "data"
  /\ \/ wpc' = "meta" /\ todo' = Fields /\ disk' = Synced(page) /\ UNCHANGED wmeta
     \/ "sync" \in Faults /\ Close /\ UNCHANGED disk
  /\ UNCHANGED <<page, status, readVars, acked, torn>>

\* tx.writeMeta: without metalock, in no particular order.
WriteField(f) ==
  /\ wpc = "meta" /\ f \in todo
  /\ LET s == Slot(NewTxid)
     IN  /\ page' = [page EXCEPT ![s][f] = NewTxid]
         /\ disk' = [disk EXCEPT ![s][f] = @ \cup {NewTxid}]
  /\ todo' = todo \ {f}
  /\ wpc' = IF todo' = {} THEN "syncMeta" ELSE "meta"
  /\ UNCHANGED <<status, readVars, wmeta, acked, torn>>

\* writeAt fails after it has written some of the fields.
WriteFails ==
  /\ "write" \in Faults /\ wpc = "meta"
  /\ Close
  /\ torn' = (torn \/ todo # Fields)
  /\ UNCHANGED <<page, disk, status, readVars, acked>>

\* Variant: Commit does not wait for the fdatasync of the meta page.
SyncMetaSkipped ==
  /\ wpc = "syncMeta"
  /\ acked' = NewTxid /\ UNCHANGED disk
  /\ Close
  /\ UNCHANGED <<page, status, readVars, torn>>

SyncMeta ==
  /\ wpc = "syncMeta"
  /\ \/ disk' = Synced(page) /\ acked' = NewTxid
     \/ "sync" \in Faults /\ UNCHANGED <<disk, acked>>
  /\ Close
  /\ UNCHANGED <<page, status, readVars, torn>>

-----------------------------------------------------------------------------
(* A crash, and Open. *)

\* What may be left of meta page s.
Remains(s) ==
  {m \in [Fields -> UNION {disk[s][f] : f \in Fields}] : \A f \in Fields : m[f] \in disk[s][f]}

Crash ==
  /\ "crash" \in Faults /\ status = "open"
  /\ \E m0 \in Remains(0), m1 \in Remains(1) :
       page' = [s \in Slots |-> IF s = 0 THEN m0 ELSE m1]
  /\ disk' = Synced(page')
  /\ status' = "closed"
  /\ metalock' = {}
  /\ rslot' = [r \in Readers |-> {}]
  /\ rmeta' = [r \in Readers |-> <<>>]
  /\ since' = [r \in Readers |-> 0]
  /\ amid' = [r \in Readers |-> FALSE]
  /\ Close
  /\ UNCHANGED <<acked, torn>>

\* db.mmap: both pages must be valid.
Open ==
  /\ status # "open"
  /\ status' = IF \A s \in Slots : Validate(page[s]) THEN "open" ELSE "refused"
  /\ UNCHANGED <<page, disk, readVars, txVars, acked, torn>>

Reader(r) == ChooseMeta(r) \/ (\E f \in Fields : CopyField(r, f)) \/ UnlockMeta(r) \/ Rollback(r)
Writer == BeginRWTx \/ SyncData \/ (\E f \in Fields : WriteField(f)) \/ WriteFails \/ SyncMeta

Next == (\E r \in Readers : Reader(r)) \/ Writer \/ Crash \/ Open

Spec == Init /\ [][Next]_vars

-----------------------------------------------------------------------------
TypeOK ==
  /\ page \in [Slots -> [Fields -> Txids]]
  /\ disk \in [Slots -> [Fields -> SUBSET Txids]]
  /\ status \in {"open", "closed", "refused"}
  /\ metalock \subseteq Readers
  /\ rslot \in [Readers -> SUBSET Slots]
  /\ rmeta \in [Readers -> UNION {[fields -> Txids] : fields \in SUBSET Fields}]
  /\ wpc \in {"idle", "data", "meta", "syncMeta"}
  /\ wmeta \in [Fields -> Txids]
  /\ todo \subseteq Fields
  /\ acked \in Txids
  /\ torn \in BOOLEAN
  /\ since \in [Readers -> Txids]
  /\ amid \in [Readers -> BOOLEAN]

(* Until a meta write fails half way, one meta page comes out of a crash   *)
(* valid and not older than the last acknowledged commit, whenever the     *)
(* crash comes: the two pages are never at risk together.                  *)
OneSurvives ==
  torn \/ \E s \in Slots :
            /\ \A f \in Fields : disk[s][f] = {page[s]["txid"]}
            /\ page[s]["txid"] >= acked

(* Until then, the meta page that an open database takes for the current   *)
(* one is valid, and not older than the last acknowledged commit, when no  *)
(* commit is under way.                                                    *)
CurrentIsValid ==
  ~torn /\ status = "open" /\ wpc \in {"idle", "data"} =>
    Validate(page[CurrentSlot]) /\ page[CurrentSlot]["txid"] >= acked

(* db.go:146, "Protects meta page access": a reader's copy of the meta     *)
(* page is one version.                                                    *)
SnapshotWhole == \A r \in Readers : Validate(rmeta[r])

(* A read transaction that did not choose a half-written page has copied    *)
(* one version whole, until a meta write fails half way: metalock keeps the *)
(* next writer out while it copies.  And a version that a transaction has   *)
(* copied whole is not older than the last commit acknowledged before it    *)
(* began, whatever has failed.                                              *)
SnapshotFresh ==
  \A r \in Readers : DOMAIN rmeta[r] = Fields =>
    /\ torn \/ amid[r] \/ Validate(rmeta[r])
    /\ Validate(rmeta[r]) => rmeta[r]["txid"] >= since[r]

(* README.md:952-954: a partially written meta page is invalidated by its   *)
(* checksum, so Open is refused only when no meta page is valid.           *)
OpenRecovers == status = "refused" => \A s \in Slots : ~Validate(page[s])
=============================================================================
