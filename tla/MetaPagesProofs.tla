--------------------------- MODULE MetaPagesProofs ---------------------------
(***************************************************************************)
(* Proofs about MetaPages, for any fields, readers, transactions and       *)
(* failures: a crash never puts both meta pages at risk.                   *)
(***************************************************************************)
EXTENDS MetaPages, TLAPS

Other(s) == 1 - s

\* The transaction has the current meta page and may still use its new txid.
Ahead(s) == page[s]["txid"] = wmeta["txid"] /\ wmeta["txid"] < MaxTxid

\* Page s is on disk as the mmap shows it: its txid always, and the whole page
\* unless a meta write has failed half way.  No acknowledged commit is newer.
Safe(s) ==
  /\ disk[s]["txid"] = {page[s]["txid"]} /\ acked <= page[s]["txid"]
  /\ torn \/ \A f \in Fields : disk[s][f] = {page[s]["txid"]}

\* Transactions take the two pages in turn.
InTurn ==
  \A s \in Slots : \A f \in Fields :
    page[s][f] \in disk[s][f] /\ \A v \in disk[s][f] : Slot(v) = s

\* Between transactions, and until tx.write has synced, some page is safe.
QuietInv ==
  wpc \in {"idle", "data"} =>
    /\ \E s \in Slots : Safe(s)
    /\ ~torn /\ status = "open" => \A s \in Slots : Validate(page[s])

DataInv == wpc = "data" => Ahead(CurrentSlot)

\* While a meta page is written, the other one is safe.
MetaInv ==
  wpc \in {"meta", "syncMeta"} => LET s == Slot(NewTxid) IN
    /\ Safe(Other(s)) /\ Ahead(Other(s))
    /\ \A f \in Fields \ todo : page[s][f] = NewTxid
    /\ ~torn => Validate(page[Other(s)]) /\ (todo = Fields => Validate(page[s]))

PagesInv ==
  /\ TypeOK
  /\ InTurn /\ QuietInv /\ DataInv /\ MetaInv
  /\ status # "open" => wpc = "idle"
  /\ wpc = "syncMeta" => todo = {}

-----------------------------------------------------------------------------
\* Txids that follow one another go to different pages.
LEMMA SlotsAlternate ==
  ASSUME NEW t \in Txids
  PROVE  /\ t \in Nat /\ Slot(t) \in Slots /\ Other(Slot(t)) \in Slots
         /\ Slot(t + 1) = Other(Slot(t)) /\ Other(Slot(t + 1)) = Slot(t)
         /\ Slot(t + 1) \in Slots /\ Slot(t + 1) # Slot(t)
BY ConstantsAssumption DEF Txids, Slot, Slots, Other

\* db.meta() returns the page with the greater txid.
LEMMA CurrentIsNewest ==
  ASSUME TypeOK
  PROVE  CurrentSlot \in Slots /\ \A s \in Slots : page[s]["txid"] <= page[CurrentSlot]["txid"]
<1>1. \A s \in Slots : page[s]["txid"] \in Int
  BY ConstantsAssumption DEF TypeOK, Txids
<1> QED
  BY <1>1 DEF CurrentSlot, Slots

\* Some page is safe at every point.
LEMMA SomeSafe ==
  ASSUME PagesInv
  PROVE  \E s \in Slots : Safe(s)
<1>1. CASE wpc \in {"idle", "data"}
  BY <1>1 DEF PagesInv, QuietInv
<1>2. CASE wpc \in {"meta", "syncMeta"}
  <2>1. wmeta["txid"] \in Txids
    BY ConstantsAssumption DEF PagesInv, TypeOK
  <2> QED
    BY <1>2, <2>1, SlotsAlternate DEF PagesInv, MetaInv, NewTxid
<1> QED
  BY <1>1, <1>2 DEF PagesInv, TypeOK

\* The current page is not older than what has been acknowledged, whatever failed.
LEMMA CurrentAcked ==
  ASSUME PagesInv
  PROVE  acked <= page[CurrentSlot]["txid"]
<1>1. PICK s \in Slots : Safe(s)
  BY SomeSafe
<1>2. page[s]["txid"] <= page[CurrentSlot]["txid"] /\ CurrentSlot \in Slots
  BY CurrentIsNewest DEF PagesInv
<1>3. page[s]["txid"] \in Int /\ page[CurrentSlot]["txid"] \in Int /\ acked \in Int
  BY <1>2, ConstantsAssumption DEF PagesInv, TypeOK, Txids
<1> QED
  BY <1>1, <1>2, <1>3 DEF Safe

\* After a successful sync the contents of the pages are certain.
LEMMA SyncedPage ==
  ASSUME TypeOK, NEW s \in Slots
  PROVE  /\ Synced(page) \in [Slots -> [Fields -> SUBSET Txids]]
         /\ \A f \in Fields : Synced(page)[s][f] = {page[s][f]}
BY DEF TypeOK, Synced

\* A meta page is valid iff its fields are of the transaction of its txid.
LEMMA ValidPage ==
  ASSUME TypeOK, NEW s \in Slots
  PROVE  Validate(page[s]) <=> \A f \in Fields : page[s][f] = page[s]["txid"]
BY ConstantsAssumption DEF TypeOK, Validate

-----------------------------------------------------------------------------
\* db.init: both pages are synced and valid.
LEMMA InitInv == Init => PagesInv
<1> SUFFICES ASSUME Init PROVE PagesInv
  OBVIOUS
<1>1. 0 \in Txids /\ 1 \in Txids
  BY ConstantsAssumption DEF Txids, Init
<1>2. \A s \in Slots : \A f \in Fields : page[s][f] = s /\ disk[s][f] = {s}
  BY DEF Init, Synced
<1>3. TypeOK
  <2>1. page \in [Slots -> [Fields -> Txids]]
    BY <1>1 DEF Init, Slots
  <2>2. disk \in [Slots -> [Fields -> SUBSET Txids]]
    BY <1>1 DEF Init, Synced, Slots
  <2>3. rmeta \in [Readers -> UNION {[fields -> Txids] : fields \in SUBSET Fields}]
    <3>1. <<>> \in [{} -> Txids] /\ {} \in SUBSET Fields
      OBVIOUS
    <3>2. <<>> \in UNION {[fields -> Txids] : fields \in SUBSET Fields}
      BY <3>1
    <3> QED
      BY <3>2 DEF Init
  <2> QED
    BY <1>1, <2>1, <2>2, <2>3 DEF Init, TypeOK, Slots
<1>4. Safe(1) /\ \A s \in Slots : Validate(page[s])
  <2>1. Safe(1)
    <3>1. /\ page[1]["txid"] = 1 /\ acked = 1
          /\ \A f \in Fields : disk[1][f] = {1}
      BY <1>2, ConstantsAssumption DEF Init, Slots
    <3> QED
      BY <3>1, ConstantsAssumption DEF Safe
  <2>2. ASSUME NEW s \in Slots PROVE Validate(page[s])
    BY <1>2, <1>3, ValidPage, ConstantsAssumption
  <2> QED
    BY <2>1, <2>2
<1>5. InTurn
  BY <1>2 DEF InTurn, Slots, Slot
<1> QED
  BY <1>3, <1>4, <1>5 DEF Init, PagesInv, QuietInv, DataInv, MetaInv, Slots

\* The steps of readers concern no page.
LEMMA ReaderInv ==
  ASSUME PagesInv, NEW r \in Readers, Reader(r)
  PROVE  PagesInv'
<1>1. UNCHANGED <<page, disk, status, txVars, acked, torn>>
  BY DEF Reader, ChooseMeta, CopyField, UnlockMeta, Rollback
<1>2. TypeOK'
  <2>1. metalock' \subseteq Readers
    BY DEF PagesInv, TypeOK, Reader, ChooseMeta, CopyField, UnlockMeta, Rollback
  <2>2. rslot' \in [Readers -> SUBSET Slots]
    <3>1. {CurrentSlot} \in SUBSET Slots /\ {} \in SUBSET Slots
      BY CurrentIsNewest DEF PagesInv
    <3>2. rslot' = rslot \/ \E x \in SUBSET Slots : rslot' = [rslot EXCEPT ![r] = x]
      BY <3>1 DEF Reader, ChooseMeta, CopyField, UnlockMeta, Rollback
    <3> QED
      BY <3>2 DEF PagesInv, TypeOK
  <2>3. rmeta' \in [Readers -> UNION {[fields -> Txids] : fields \in SUBSET Fields}]
    <3>1. CASE \E f \in Fields : CopyField(r, f)
      <4>1. PICK f \in Fields : CopyField(r, f)
        BY <3>1
      <4>2. PICK s \in rslot[r] :
              rmeta' = [rmeta EXCEPT ![r] = [g \in DOMAIN rmeta[r] \cup {f} |->
                                               IF g = f THEN page[s][f] ELSE rmeta[r][g]]]
        BY <4>1 DEF CopyField
      <4>3. page[s][f] \in Txids
        BY DEF PagesInv, TypeOK
      <4>4. DOMAIN rmeta[r] \subseteq Fields /\ \A g \in DOMAIN rmeta[r] : rmeta[r][g] \in Txids
        BY DEF PagesInv, TypeOK
      <4> DEFINE copied == [g \in DOMAIN rmeta[r] \cup {f} |->
                              IF g = f THEN page[s][f] ELSE rmeta[r][g]]
      <4>5. copied \in [DOMAIN rmeta[r] \cup {f} -> Txids]
        BY <4>3, <4>4
      <4>6. DOMAIN rmeta[r] \cup {f} \in SUBSET Fields
        BY <4>4
      <4> HIDE DEF copied
      <4>7. copied \in UNION {[fields -> Txids] : fields \in SUBSET Fields}
        BY <4>5, <4>6
      <4> QED
        BY <4>2, <4>7 DEF PagesInv, TypeOK, copied
    <3>2. CASE Rollback(r)
      <4>1. <<>> \in [{} -> Txids] /\ {} \in SUBSET Fields
        OBVIOUS
      <4>2. <<>> \in UNION {[fields -> Txids] : fields \in SUBSET Fields}
        BY <4>1
      <4> QED
        BY <3>2, <4>2 DEF Rollback, PagesInv, TypeOK
    <3> QED
      BY <3>1, <3>2 DEF Reader, ChooseMeta, UnlockMeta, PagesInv, TypeOK
  <2>4. since' \in [Readers -> Txids] /\ amid' \in [Readers -> BOOLEAN]
    <3>1. 0 \in Txids /\ acked \in Txids /\ HalfWritten \in BOOLEAN
      BY ConstantsAssumption DEF Txids, PagesInv, TypeOK, HalfWritten
    <3>2. \/ UNCHANGED <<since, amid>>
          \/ \E a \in Txids, b \in BOOLEAN : since' = [since EXCEPT ![r] = a] /\ amid' = [amid EXCEPT ![r] = b]
      BY <3>1 DEF Reader, ChooseMeta, CopyField, UnlockMeta, Rollback
    <3> QED
      BY <3>2 DEF PagesInv, TypeOK
  <2> QED
    BY <1>1, <2>1, <2>2, <2>3, <2>4 DEF PagesInv, TypeOK, txVars
<1> QED
  BY <1>1, <1>2 DEF PagesInv, InTurn, QuietInv, DataInv, MetaInv, Safe, Ahead, CurrentSlot, NewTxid,
     txVars

\* db.beginRWTx copies the current page.
LEMMA BeginInv == ASSUME PagesInv, BeginRWTx PROVE PagesInv'
<1>1. CurrentSlot \in Slots
  BY CurrentIsNewest DEF PagesInv
<1>2. wmeta' \in [Fields -> Txids]
  BY <1>1 DEF BeginRWTx, PagesInv, TypeOK
<1>3. TypeOK'
  BY <1>2 DEF BeginRWTx, PagesInv, TypeOK, readVars
<1>4. UNCHANGED <<page, disk, status, acked, torn>> /\ wpc = "idle" /\ wpc' = "data"
      /\ status = "open" /\ wmeta' = page[CurrentSlot] /\ page[CurrentSlot]["txid"] < MaxTxid
  BY DEF BeginRWTx
<1> QED
  BY <1>3, <1>4 DEF PagesInv, InTurn, QuietInv, DataInv, MetaInv, Safe, Ahead, CurrentSlot

\* tx.write: from here on the other page may be written, and the current one is safe.
LEMMA SyncDataInv == ASSUME PagesInv, SyncData PROVE PagesInv'
<1>1. wpc = "data" /\ UNCHANGED <<page, status, readVars, wmeta, acked, torn>>
  BY DEF SyncData, Close
<1>2. CASE wpc' = "meta" /\ todo' = Fields /\ disk' = Synced(page)
  <2>0. PICK c \in Slots : c = CurrentSlot
    BY CurrentIsNewest DEF PagesInv
  <2>1. c \in Slots /\ Ahead(c) /\ acked <= page[c]["txid"]
    BY <1>1, <2>0, CurrentAcked DEF PagesInv, DataInv
  <2>2. TypeOK'
    <3>1. TypeOK
      BY DEF PagesInv
    <3>2. disk' \in [Slots -> [Fields -> SUBSET Txids]]
      BY <1>2, <3>1, SyncedPage DEF Slots
    <3> QED
      BY <1>1, <1>2, <3>1, <3>2 DEF TypeOK, readVars
  <2>3. \A s \in Slots : \A f \in Fields : disk'[s][f] = {page[s][f]}
    BY <1>2, SyncedPage DEF PagesInv
  <2>4. page[c]["txid"] \in Txids /\ Slot(page[c]["txid"]) = c
    BY <2>1, ConstantsAssumption DEF PagesInv, TypeOK, InTurn
  <2>5. Slot(NewTxid) \in Slots /\ Other(Slot(NewTxid)) = c
    BY <2>1, <2>4, SlotsAlternate DEF Ahead, NewTxid
  <2>6. ~torn => Validate(page[0]) /\ Validate(page[1])
    BY <1>1 DEF PagesInv, QuietInv, Slots
  <2>7. torn \/ \A f \in Fields : page[c][f] = page[c]["txid"]
    BY <2>1, <2>6, ValidPage DEF Slots, PagesInv
  <2>8. Safe(c)'
    <3>1. acked' = acked /\ page' = page /\ torn' = torn
      BY <1>1
    <3> QED
      BY <2>1, <2>3, <2>7, <3>1, ConstantsAssumption DEF Safe
  <2>9. InTurn'
    BY <1>1, <2>3 DEF PagesInv, InTurn
  <2>10. MetaInv'
    <3>1. Slot(NewTxid)' = Slot(NewTxid) /\ Ahead(c)' /\ page' = page /\ torn' = torn
      BY <1>1, <2>1 DEF NewTxid, Ahead
    <3> QED
      BY <1>2, <2>1, <2>5, <2>6, <2>8, <3>1 DEF MetaInv, Slots
  <2> QED
    BY <1>1, <1>2, <2>2, <2>9, <2>10 DEF PagesInv, QuietInv, DataInv
<1>3. CASE Close /\ UNCHANGED disk
  BY <1>1, <1>3 DEF Close, PagesInv, TypeOK, InTurn, QuietInv, DataInv, MetaInv, Safe, readVars
<1> QED
  BY <1>2, <1>3 DEF SyncData

\* While the meta page is written: what each step of tx.writeMeta starts from.
LEMMA Writing ==
  ASSUME PagesInv, wpc \in {"meta", "syncMeta"}
  PROVE  /\ NewTxid \in Txids /\ Slot(NewTxid) \in Slots /\ Other(Slot(NewTxid)) \in Slots
         /\ Slot(NewTxid) # Other(Slot(NewTxid))
         /\ acked <= NewTxid
         /\ page[Other(Slot(NewTxid))]["txid"] < NewTxid
<1>1. wmeta["txid"] \in Txids /\ wmeta["txid"] < MaxTxid /\ acked \in Txids
  BY ConstantsAssumption DEF PagesInv, TypeOK, MetaInv, Ahead
<1>2. page[Other(Slot(NewTxid))]["txid"] = wmeta["txid"] /\ acked <= wmeta["txid"]
  BY DEF PagesInv, MetaInv, Ahead, Safe
<1> QED
  BY <1>1, <1>2, SlotsAlternate, ConstantsAssumption DEF NewTxid, Txids

\* tx.writeMeta writes one field: the other page stays safe.
LEMMA WriteFieldInv == ASSUME PagesInv, NEW f \in Fields, WriteField(f) PROVE PagesInv'
<1> DEFINE s == Slot(NewTxid)
<1>1. wpc = "meta" /\ f \in todo /\ todo' = todo \ {f}
      /\ UNCHANGED <<status, readVars, wmeta, acked, torn>>
  BY DEF WriteField
<1>2. wpc' \in {"meta", "syncMeta"} /\ (wpc' = "syncMeta" => todo' = {})
  BY DEF WriteField
<1>3. page' = [page EXCEPT ![s][f] = NewTxid]
  BY DEF WriteField
<1>4. disk' = [disk EXCEPT ![s][f] = @ \cup {NewTxid}]
  BY DEF WriteField
<1>5. NewTxid \in Txids /\ s \in Slots /\ Other(s) \in Slots /\ s # Other(s)
  BY <1>1, Writing
<1>6. TypeOK
  BY DEF PagesInv
<1>7. MetaInv
  BY DEF PagesInv
<1>8. NewTxid' = NewTxid
  BY <1>1 DEF NewTxid
<1>9. PICK t \in Slots : t = s
  BY <1>5
<1>10. PICK n \in Txids : n = NewTxid
  BY <1>5
<1> HIDE DEF s
<1> DEFINE p == [page[t] EXCEPT ![f] = n]
           d == [disk[t] EXCEPT ![f] = disk[t][f] \cup {n}]
<1>11. page' = [page EXCEPT ![t] = p] /\ disk' = [disk EXCEPT ![t] = d]
  BY <1>3, <1>4, <1>9, <1>10
<1>12. page \in [Slots -> [Fields -> Txids]] /\ disk \in [Slots -> [Fields -> SUBSET Txids]]
  BY <1>6 DEF TypeOK
<1>13. /\ p \in [Fields -> Txids] /\ d \in [Fields -> SUBSET Txids]
       /\ \A g \in Fields : p[g] = IF g = f THEN n ELSE page[t][g]
       /\ \A g \in Fields : d[g] = IF g = f THEN disk[t][g] \cup {n} ELSE disk[t][g]
  BY <1>12
<1> HIDE DEF p, d
<1>14. Other(t) \in Slots /\ Other(t) # t
  BY <1>5, <1>9
<1>15. /\ \A g \in Fields : page'[t][g] = IF g = f THEN n ELSE page[t][g]
       /\ \A g \in Fields : disk'[t][g] = IF g = f THEN disk[t][g] \cup {n} ELSE disk[t][g]
       /\ page'[Other(t)] = page[Other(t)] /\ disk'[Other(t)] = disk[Other(t)]
  <2>1. page'[t] = p /\ page'[Other(t)] = page[Other(t)]
    BY <1>11, <1>12, <1>14
  <2>2. disk'[t] = d /\ disk'[Other(t)] = disk[Other(t)]
    BY <1>11, <1>12, <1>14
  <2> QED
    BY <1>13, <2>1, <2>2
<1>16. TypeOK'
  <2>1. page' \in [Slots -> [Fields -> Txids]] /\ disk' \in [Slots -> [Fields -> SUBSET Txids]]
    BY <1>11, <1>12, <1>13
  <2>2. UNCHANGED <<status, readVars, wmeta, acked, torn>>
        /\ wpc' \in {"meta", "syncMeta"} /\ todo' \subseteq todo
    BY <1>1, <1>2
  <2> QED
    BY <1>6, <2>1, <2>2 DEF TypeOK, readVars
<1>17. InTurn'
  <2>1. InTurn /\ Slot(n) = t
    BY <1>9, <1>10 DEF PagesInv, s
  <2>2. \A x \in Slots : x = t \/ x = Other(t)
    BY <1>5, <1>9 DEF Slots, Other
  <2>3. ASSUME NEW x \in Slots, NEW g \in Fields
        PROVE  page'[x][g] \in disk'[x][g] /\ \A v \in disk'[x][g] : Slot(v) = x
    <3>1. page[x][g] \in disk[x][g] /\ \A v \in disk[x][g] : Slot(v) = x
      BY <2>1 DEF InTurn
    <3>2. CASE x = Other(t)
      BY <1>15, <3>1, <3>2
    <3>3. CASE x = t
      BY <1>15, <2>1, <3>1, <3>3
    <3> QED
      BY <2>2, <3>2, <3>3
  <2> QED
    BY <2>3 DEF InTurn
<1>18. Safe(Other(t))' /\ Ahead(Other(t))'
  BY <1>1, <1>7, <1>9, <1>15 DEF MetaInv, Safe, Ahead, s
<1>19. ~torn' => Validate(page[Other(t)])'
  BY <1>1, <1>7, <1>9, <1>15 DEF MetaInv, s
<1>20. \A g \in Fields \ todo' : page'[t][g] = n
  BY <1>1, <1>7, <1>9, <1>10, <1>15 DEF MetaInv, s
<1>21. MetaInv'
  <2>1. Slot(NewTxid)' = t
    BY <1>8, <1>9 DEF s
  <2>2. todo' # Fields
    BY <1>1
  <2> QED
    BY <1>8, <1>10, <1>18, <1>19, <1>20, <2>1, <2>2 DEF MetaInv
<1> QED
  <2>1. wpc' \in {"meta", "syncMeta"} /\ status' = status /\ (wpc' = "syncMeta" => todo' = {})
    BY <1>1, <1>2
  <2>2. status = "open"
    BY <1>1 DEF PagesInv
  <2> QED
    BY <1>16, <1>17, <1>21, <2>1, <2>2 DEF PagesInv, QuietInv, DataInv

\* A write that fails leaves the page whole, or torn and known to be.
LEMMA WriteFailsInv == ASSUME PagesInv, WriteFails PROVE PagesInv'
<1> DEFINE s == Slot(NewTxid)
<1>1. wpc = "meta" /\ wpc' = "idle" /\ todo' = {}
      /\ UNCHANGED <<page, disk, status, readVars, wmeta, acked>>
      /\ torn' = (torn \/ todo # Fields)
  BY DEF WriteFails, Close
<1>2. TypeOK /\ MetaInv
  BY DEF PagesInv
<1>3. s \in Slots /\ Other(s) \in Slots /\ s # Other(s)
  BY <1>1, Writing
<1>4. TypeOK'
  <2>1. torn' \in BOOLEAN
    BY <1>1
  <2> QED
    BY <1>1, <1>2, <2>1 DEF TypeOK, readVars
<1>5. Safe(Other(s))'
  <2>1. Safe(Other(s))
    BY <1>1, <1>2 DEF MetaInv
  <2>2. PICK t \in Slots : t = Other(s)
    BY <1>3
  <2> HIDE DEF s
  <2>3. s' = s
    BY <1>1 DEF s, NewTxid
  <2> QED
    BY <1>1, <2>1, <2>2, <2>3 DEF Safe, Other
<1>6. ~torn' => \A x \in Slots : Validate(page[x])
  <2>1. \A x \in Slots : x = s \/ x = Other(s)
    BY <1>3 DEF Slots, Other
  <2> QED
    BY <1>1, <1>2, <2>1 DEF MetaInv
<1>7. QuietInv'
  <2>1. PICK t \in Slots : t = Other(s)
    BY <1>3
  <2>2. s' = s
    BY <1>1 DEF NewTxid
  <2>3. Safe(t)'
    BY <1>5, <2>1, <2>2 DEF Other
  <2> QED
    BY <1>1, <1>6, <2>3 DEF QuietInv
<1> QED
  BY <1>1, <1>4, <1>7 DEF PagesInv, InTurn, DataInv, MetaInv

\* The sync makes the new page the safe one; when it fails the old one is.
LEMMA SyncMetaInv == ASSUME PagesInv, SyncMeta PROVE PagesInv'
<1>1. wpc = "syncMeta" /\ todo = {} /\ wpc' = "idle" /\ todo' = {}
      /\ UNCHANGED <<page, status, readVars, wmeta, torn>>
  BY DEF SyncMeta, Close, PagesInv
<1>2. TypeOK /\ MetaInv /\ InTurn
  BY DEF PagesInv
<1>3. PICK s \in Slots : s = Slot(NewTxid)
  BY <1>1, Writing
<1>4. PICK o \in Slots : o = Other(s)
  BY <1>1, <1>3, Writing
<1>5. \A x \in Slots : x = s \/ x = o
  BY <1>4 DEF Slots, Other
<1>6. NewTxid \in Txids /\ \A f \in Fields : page[s][f] = NewTxid
  BY <1>1, <1>2, <1>3, Writing DEF MetaInv
<1>7. page[s]["txid"] = NewTxid /\ Validate(page[s])
  BY <1>2, <1>6, ValidPage, ConstantsAssumption
<1>8. ~torn => \A x \in Slots : Validate(page[x])
  BY <1>1, <1>2, <1>3, <1>4, <1>5, <1>7 DEF MetaInv
<1>9. CASE disk' = Synced(page) /\ acked' = NewTxid
  <2>1. \A x \in Slots : \A f \in Fields : disk'[x][f] = {page[x][f]}
    BY <1>2, <1>9, SyncedPage
  <2>2. TypeOK'
    <3>1. disk' \in [Slots -> [Fields -> SUBSET Txids]]
      BY <1>2, <1>3, <1>9, SyncedPage
    <3> QED
      BY <1>1, <1>2, <1>6, <1>9, <3>1 DEF TypeOK, readVars
  <2>3. Safe(s)'
    <3>1. page'[s]["txid"] = NewTxid /\ acked' <= NewTxid
      BY <1>1, <1>6, <1>7, <1>9, ConstantsAssumption DEF Txids
    <3> QED
      BY <1>1, <1>6, <1>7, <2>1, <3>1, ConstantsAssumption DEF Safe
  <2>4. InTurn'
    BY <1>1, <1>2, <2>1 DEF InTurn
  <2> QED
    BY <1>1, <1>8, <2>2, <2>3, <2>4 DEF PagesInv, QuietInv, DataInv, MetaInv
<1>10. CASE UNCHANGED <<disk, acked>>
  <2>1. Safe(o)
    BY <1>1, <1>2, <1>3, <1>4 DEF MetaInv
  <2>2. Safe(o)'
    BY <1>1, <1>10, <2>1 DEF Safe
  <2>3. TypeOK'
    BY <1>1, <1>2, <1>10 DEF TypeOK, readVars
  <2> QED
    BY <1>1, <1>2, <1>8, <1>10, <2>2, <2>3 DEF PagesInv, QuietInv, DataInv, MetaInv, InTurn
<1> QED
  BY <1>9, <1>10 DEF SyncMeta

\* A crash leaves of each page what the disk may have: all of the safe one.
LEMMA CrashInv == ASSUME PagesInv, Crash PROVE PagesInv'
<1>1. TypeOK /\ InTurn
  BY DEF PagesInv
<1>2. /\ status' = "closed" /\ wpc' = "idle" /\ todo' = {} /\ metalock' = {}
      /\ rslot' = [r \in Readers |-> {}] /\ rmeta' = [r \in Readers |-> <<>>]
      /\ since' = [r \in Readers |-> 0] /\ amid' = [r \in Readers |-> FALSE]
      /\ UNCHANGED <<wmeta, acked, torn>>
  BY DEF Crash, Close
<1>3. PICK m0 \in Remains(0), m1 \in Remains(1) : page' = [s \in Slots |-> IF s = 0 THEN m0 ELSE m1]
  BY DEF Crash
<1>4. ASSUME NEW s \in Slots, NEW f \in Fields
      PROVE  page'[s][f] \in disk[s][f] /\ page'[s][f] \in Txids
  <2>1. \A m \in Remains(s) : m[f] \in disk[s][f]
    BY DEF Remains
  <2>2. page'[s] \in Remains(s)
    BY <1>3 DEF Slots
  <2> QED
    BY <1>1, <2>1, <2>2 DEF TypeOK
<1>5. ASSUME NEW s \in Slots PROVE DOMAIN page'[s] = Fields /\ page'[s] = [f \in Fields |-> page'[s][f]]
  <2>1. \A m \in Remains(s) : DOMAIN m = Fields /\ m = [f \in Fields |-> m[f]]
    BY DEF Remains
  <2>2. page'[s] \in Remains(s)
    BY <1>3 DEF Slots
  <2> QED
    BY <2>1, <2>2
<1>6. page' \in [Slots -> [Fields -> Txids]]
  <2>1. \A s \in Slots : page'[s] \in [Fields -> Txids]
    BY <1>4, <1>5
  <2> QED
    BY <1>3, <2>1
<1>7. disk' = [s \in Slots |-> [f \in Fields |-> {page'[s][f]}]]
  BY DEF Crash, Synced
<1>8. TypeOK'
  <2>1. disk' \in [Slots -> [Fields -> SUBSET Txids]]
    BY <1>4, <1>7
  <2>2. rmeta' \in [Readers -> UNION {[fields -> Txids] : fields \in SUBSET Fields}]
    <3>1. <<>> \in [{} -> Txids] /\ {} \in SUBSET Fields
      OBVIOUS
    <3>2. <<>> \in UNION {[fields -> Txids] : fields \in SUBSET Fields}
      BY <3>1
    <3> QED
      BY <1>2, <3>2
  <2>3. 0 \in Txids
    BY ConstantsAssumption DEF Txids
  <2>4. since' \in [Readers -> Txids] /\ amid' \in [Readers -> BOOLEAN]
    BY <1>2, <2>3
  <2> QED
    BY <1>1, <1>2, <1>6, <2>1, <2>2, <2>4 DEF TypeOK
<1>9. InTurn'
  BY <1>1, <1>4, <1>7 DEF InTurn
<1>10. PICK s \in Slots : Safe(s)
  BY SomeSafe
<1>11. page'[s]["txid"] = page[s]["txid"]
  BY <1>4, <1>10, ConstantsAssumption DEF Safe
<1>12. torn \/ \A f \in Fields : page'[s][f] = page[s]["txid"]
  BY <1>4, <1>10 DEF Safe
<1>13. Safe(s)'
  <2>1. \A f \in Fields : disk'[s][f] = {page'[s][f]}
    BY <1>7
  <2>2. disk'[s]["txid"] = {page'[s]["txid"]}
    BY <2>1, ConstantsAssumption
  <2> QED
    BY <1>2, <1>10, <1>11, <1>12, <2>1, <2>2 DEF Safe
<1> QED
  BY <1>2, <1>8, <1>9, <1>13 DEF PagesInv, QuietInv, DataInv, MetaInv

\* Open succeeds only with two valid pages.
LEMMA OpenInv == ASSUME PagesInv, Open PROVE PagesInv'
<1>1. status # "open" /\ wpc = "idle" /\ UNCHANGED <<page, disk, readVars, txVars, acked, torn>>
      /\ status' = IF \A s \in Slots : Validate(page[s]) THEN "open" ELSE "refused"
  BY DEF Open, PagesInv
<1>2. TypeOK'
  BY <1>1 DEF PagesInv, TypeOK, readVars, txVars
<1> QED
  BY <1>1, <1>2 DEF PagesInv, InTurn, QuietInv, DataInv, MetaInv, Safe, txVars

\* Every step keeps PagesInv.
LEMMA NextInv == ASSUME PagesInv, [Next]_vars PROVE PagesInv'
<1>1. CASE UNCHANGED vars
  BY <1>1 DEF vars, readVars, txVars, PagesInv, TypeOK, InTurn, QuietInv, DataInv, MetaInv, Safe,
     Ahead, CurrentSlot, NewTxid
<1>2. CASE Next
  BY <1>2, ReaderInv, BeginInv, SyncDataInv, WriteFieldInv, WriteFailsInv, SyncMetaInv, CrashInv,
     OpenInv DEF Next, Writer
<1> QED
  BY <1>1, <1>2

-----------------------------------------------------------------------------
\* PagesInv holds in every reachable state.
THEOREM PagesInvariance == Spec => []PagesInv
<1>1. Init => PagesInv
  BY InitInv
<1>2. PagesInv /\ [Next]_vars => PagesInv'
  BY NextInv
<1> QED
  BY <1>1, <1>2, PTL DEF Spec

\* MetaPages is type correct.
THEOREM PagesType == Spec => []TypeOK
<1>1. PagesInv => TypeOK
  BY DEF PagesInv
<1> QED
  BY <1>1, PagesInvariance, PTL

\* Until a meta write fails half way, one meta page survives any crash (OneSurvives).
THEOREM PageSurvives == Spec => []OneSurvives
<1>1. PagesInv => OneSurvives
  <2> SUFFICES ASSUME PagesInv PROVE OneSurvives
    OBVIOUS
  <2>1. PICK s \in Slots : Safe(s)
    BY SomeSafe
  <2>2. page[s]["txid"] \in Int /\ acked \in Int
    BY ConstantsAssumption DEF PagesInv, TypeOK, Txids
  <2> QED
    BY <2>1, <2>2 DEF Safe, OneSurvives
<1> QED
  BY <1>1, PagesInvariance, PTL

\* Between commits the current meta page is valid, unless a meta write has
\* failed half way (CurrentIsValid).
THEOREM CurrentValid == Spec => []CurrentIsValid
<1>1. PagesInv => CurrentIsValid
  <2> SUFFICES ASSUME PagesInv PROVE CurrentIsValid
    OBVIOUS
  <2>1. CurrentSlot \in Slots
    BY CurrentIsNewest DEF PagesInv
  <2>2. page[CurrentSlot]["txid"] \in Int /\ acked \in Int
    BY <2>1, ConstantsAssumption DEF PagesInv, TypeOK, Txids
  <2> QED
    BY <2>1, <2>2, CurrentAcked DEF CurrentIsValid, PagesInv, QuietInv
<1> QED
  BY <1>1, PagesInvariance, PTL

-----------------------------------------------------------------------------
(***************************************************************************)
(* What a reader copies.                                                   *)
(***************************************************************************)
\* Reader r, in beginTx, copies page s, which nobody writes meanwhile.
Copying(r, s) ==
  /\ rslot[r] = {s} /\ since[r] <= page[s]["txid"]
  /\ \/ torn \/ amid[r]
     \/ /\ \A f \in Fields : page[s][f] = page[s]["txid"]
        /\ \A f \in DOMAIN rmeta[r] : rmeta[r][f] = page[s]["txid"]
        /\ wpc \in {"data", "meta"} => Slot(NewTxid) # s

\* The fields reader r has copied so far.
Copied(r) ==
  /\ rslot[r] = {} => rmeta[r] = <<>>
  /\ "txid" \in DOMAIN rmeta[r] => since[r] <= rmeta[r]["txid"]
  /\ torn \/ amid[r] \/ Validate(rmeta[r])

\* The page that is being written is the older one until its txid is written.
Overwritten ==
  wpc = "meta" =>
    /\ todo # {}
    /\ "txid" \in todo => page[Slot(NewTxid)]["txid"] < wmeta["txid"]

ReadInv ==
  /\ Overwritten
  /\ \A r \in Readers : Copied(r) /\ (metalock = {r} => \E s \in Slots : Copying(r, s))

\* The two pages never carry the same txid.
LEMMA TxidsDiffer ==
  ASSUME PagesInv, NEW s \in Slots, s # CurrentSlot
  PROVE  page[s]["txid"] < page[CurrentSlot]["txid"]
<1>1. CurrentSlot \in Slots /\ page[s]["txid"] <= page[CurrentSlot]["txid"]
  BY CurrentIsNewest DEF PagesInv
<1>2. page[s]["txid"] \in Nat /\ page[CurrentSlot]["txid"] \in Nat
  BY <1>1, ConstantsAssumption DEF PagesInv, TypeOK, Txids
<1>3. Slot(page[s]["txid"]) = s /\ Slot(page[CurrentSlot]["txid"]) = CurrentSlot
  BY <1>1, ConstantsAssumption DEF PagesInv, InTurn
<1>4. page[s]["txid"] # page[CurrentSlot]["txid"]
  BY <1>3
<1> QED
  BY <1>1, <1>2, <1>4

\* When a reader chooses a page that is not half written, the writer will not
\* write it in the transaction it is in.
LEMMA ChoiceIsQuiet ==
  ASSUME PagesInv, Overwritten, ~HalfWritten, ~torn, status = "open"
  PROVE  /\ Validate(page[CurrentSlot])
         /\ wpc \in {"data", "meta"} => Slot(NewTxid) # CurrentSlot
<1>1. CurrentSlot \in Slots
  BY CurrentIsNewest DEF PagesInv
<1>2. CASE wpc = "data"
  <2>1. wmeta["txid"] = page[CurrentSlot]["txid"] /\ wmeta["txid"] \in Txids
    BY <1>1, <1>2, ConstantsAssumption DEF PagesInv, DataInv, Ahead, TypeOK
  <2>2. Slot(wmeta["txid"]) = CurrentSlot
    BY <1>1, <2>1, ConstantsAssumption DEF PagesInv, InTurn
  <2>3. Slot(NewTxid) # CurrentSlot
    BY <2>1, <2>2, SlotsAlternate DEF NewTxid
  <2> QED
    BY <1>1, <1>2, <2>3 DEF PagesInv, QuietInv
<1>3. CASE wpc = "meta"
  <2>1. PICK s \in Slots : s = Slot(NewTxid)
    BY <1>3, Writing
  <2>2. PICK o \in Slots : o = Other(s) /\ o # s
    BY <1>3, <2>1, Writing
  <2>3. page[o]["txid"] = wmeta["txid"] /\ (todo = Fields => page[s]["txid"] < wmeta["txid"])
    BY <1>3, <2>1, <2>2, ConstantsAssumption DEF PagesInv, MetaInv, Ahead, Overwritten
  <2>4. Validate(page[o])
    BY <1>3, <2>1, <2>2 DEF PagesInv, MetaInv
  <2>5. CurrentSlot # s
    <3>1. CASE todo = Fields
      <4>1. page[o]["txid"] \in Int /\ page[s]["txid"] \in Int
        BY ConstantsAssumption DEF PagesInv, TypeOK, Txids
      <4>2. page[o]["txid"] <= page[CurrentSlot]["txid"]
        BY CurrentIsNewest DEF PagesInv
      <4> QED
        BY <2>3, <3>1, <4>1, <4>2
    <3>2. CASE todo # Fields /\ todo # {}
      BY <2>1, <3>2 DEF HalfWritten
    <3>3. CASE todo = {}
      BY <1>3, <3>3 DEF Overwritten
    <3> QED
      BY <3>1, <3>2, <3>3
  <2>6. CurrentSlot = o
    BY <1>1, <2>2, <2>5 DEF Slots, Other
  <2> QED
    BY <2>1, <2>4, <2>5, <2>6
<1>4. CASE wpc = "idle"
  BY <1>1, <1>4 DEF PagesInv, QuietInv
<1>5. CASE wpc = "syncMeta"
  <2>1. PICK s \in Slots : s = Slot(NewTxid)
    BY <1>5, Writing
  <2>2. PICK o \in Slots : o = Other(s)
    BY <1>5, <2>1, Writing
  <2>3. \A f \in Fields : page[s][f] = NewTxid
    BY <1>5, <2>1 DEF PagesInv, MetaInv
  <2>4. Validate(page[s])
    BY <2>3, ValidPage, ConstantsAssumption DEF PagesInv
  <2>5. Validate(page[o])
    BY <1>5, <2>1, <2>2 DEF PagesInv, MetaInv
  <2>6. CurrentSlot = s \/ CurrentSlot = o
    BY <1>1, <2>2 DEF Slots, Other
  <2> QED
    BY <1>5, <2>4, <2>5, <2>6
<1> QED
  BY <1>2, <1>3, <1>4, <1>5 DEF PagesInv, TypeOK

\* db.init, and a crash: nobody copies anything.
LEMMA NoReaders ==
  ASSUME wpc = "idle", metalock = {}, rmeta = [r \in Readers |-> <<>>]
  PROVE  ReadInv
<1>1. ASSUME NEW r \in Readers PROVE Copied(r)
  <2>1. rmeta[r] = <<>> /\ DOMAIN <<>> = {}
    OBVIOUS
  <2> QED
    BY <2>1 DEF Copied, Validate
<1>2. \A r \in Readers : metalock # {r}
  OBVIOUS
<1> QED
  BY <1>1, <1>2 DEF ReadInv, Overwritten

\* ChooseMeta: the page is the current one, and whole unless it is half written.
LEMMA ChooseRead == ASSUME PagesInv, ReadInv, NEW r \in Readers, ChooseMeta(r) PROVE ReadInv'
<1>1. /\ status = "open" /\ metalock = {} /\ rslot[r] = {} /\ metalock' = {r}
      /\ UNCHANGED <<page, disk, status, rmeta, txVars, acked, torn>>
  BY DEF ChooseMeta
<1>2. /\ rslot'[r] = {CurrentSlot} /\ since'[r] = acked /\ amid'[r] = HalfWritten
      /\ \A q \in Readers \ {r} : rslot'[q] = rslot[q] /\ since'[q] = since[q] /\ amid'[q] = amid[q]
  BY DEF ChooseMeta, PagesInv, TypeOK
<1>3. rmeta[r] = <<>> /\ DOMAIN rmeta[r] = {}
  <2>1. rmeta[r] = <<>>
    BY <1>1 DEF ReadInv, Copied
  <2> QED
    BY <2>1
<1>4. PICK c \in Slots : c = CurrentSlot
  BY CurrentIsNewest DEF PagesInv
<1>5. Copying(r, c)'
  <2>1. acked <= page[c]["txid"]
    BY <1>4, CurrentAcked
  <2>2. \/ torn \/ HalfWritten
        \/ /\ \A f \in Fields : page[c][f] = page[c]["txid"]
           /\ wpc \in {"data", "meta"} => Slot(NewTxid) # c
    <3> SUFFICES ASSUME ~torn, ~HalfWritten
                 PROVE  /\ \A f \in Fields : page[c][f] = page[c]["txid"]
                        /\ wpc \in {"data", "meta"} => Slot(NewTxid) # c
      OBVIOUS
    <3>1. Validate(page[c]) /\ (wpc \in {"data", "meta"} => Slot(NewTxid) # c)
      BY <1>1, <1>4, ChoiceIsQuiet DEF ReadInv
    <3> QED
      BY <3>1, ValidPage DEF PagesInv
  <2>3. page' = page /\ wpc' = wpc /\ NewTxid' = NewTxid /\ torn' = torn /\ rmeta' = rmeta
    BY <1>1 DEF txVars, NewTxid
  <2> QED
    BY <1>2, <1>3, <1>4, <2>1, <2>2, <2>3 DEF Copying
<1>6. ASSUME NEW q \in Readers PROVE Copied(q)'
  <2>1. CASE q = r
    BY <1>1, <1>3, <2>1 DEF Copied, Validate
  <2>2. CASE q # r
    BY <1>1, <1>2, <2>2 DEF Copied, ReadInv, Validate
  <2> QED
    BY <2>1, <2>2
<1>7. Overwritten'
  BY <1>1 DEF ReadInv, Overwritten, NewTxid, txVars
<1>8. \A q \in Readers : metalock' = {q} => q = r
  BY <1>1
<1> QED
  BY <1>4, <1>5, <1>6, <1>7, <1>8 DEF ReadInv

\* CopyField: the field is of the version that the other fields are of.
LEMMA CopyRead ==
  ASSUME PagesInv, ReadInv, NEW r \in Readers, NEW f \in Fields, CopyField(r, f)
  PROVE  ReadInv'
<1>1. metalock = {r} /\ UNCHANGED <<page, disk, status, metalock, rslot, since, amid, txVars, acked, torn>>
  BY DEF CopyField
<1>2. PICK s \in Slots : Copying(r, s)
  BY <1>1 DEF ReadInv
<1> DEFINE copied == [g \in DOMAIN rmeta[r] \cup {f} |-> IF g = f THEN page[s][f] ELSE rmeta[r][g]]
<1>3. rmeta' = [rmeta EXCEPT ![r] = copied]
  BY <1>2 DEF CopyField, Copying
<1>4. /\ DOMAIN copied = DOMAIN rmeta[r] \cup {f} /\ copied[f] = page[s][f]
      /\ \A g \in DOMAIN rmeta[r] \ {f} : copied[g] = rmeta[r][g]
  OBVIOUS
<1> HIDE DEF copied
<1>5. rmeta'[r] = copied /\ \A q \in Readers \ {r} : rmeta'[q] = rmeta[q]
  BY <1>3 DEF PagesInv, TypeOK
<1>6. NewTxid' = NewTxid /\ wpc' = wpc /\ todo' = todo /\ wmeta' = wmeta
  BY <1>1 DEF txVars, NewTxid
<1>7. torn \/ amid[r] \/ \A g \in DOMAIN copied : copied[g] = page[s]["txid"]
  BY <1>2, <1>4 DEF Copying
<1>8. "txid" \in DOMAIN copied => since[r] <= copied["txid"]
  <2>1. Copied(r)
    BY DEF ReadInv
  <2>2. CASE f = "txid"
    BY <1>2, <1>4, <2>2 DEF Copying
  <2>3. CASE f # "txid"
    BY <1>4, <2>1, <2>3 DEF Copied
  <2> QED
    BY <2>2, <2>3
<1>9. Copied(r)'
  <2>1. torn \/ amid[r] \/ Validate(copied)
    BY <1>7 DEF Validate
  <2>2. rslot[r] # {}
    BY <1>2 DEF Copying
  <2> QED
    BY <1>1, <1>5, <1>8, <2>1, <2>2 DEF Copied
<1>10. Copying(r, s)'
  BY <1>1, <1>2, <1>5, <1>6, <1>7 DEF Copying
<1>11. ASSUME NEW q \in Readers, q # r PROVE Copied(q)'
  BY <1>1, <1>5, <1>11 DEF ReadInv, Copied
<1>12. Overwritten'
  BY <1>1, <1>6 DEF ReadInv, Overwritten
<1> QED
  BY <1>1, <1>9, <1>10, <1>11, <1>12 DEF ReadInv

\* UnlockMeta and Rollback.
LEMMA EndRead ==
  ASSUME PagesInv, ReadInv, NEW r \in Readers, UnlockMeta(r) \/ Rollback(r)
  PROVE  ReadInv'
<1>1. metalock' = {} /\ UNCHANGED <<page, disk, status, txVars, acked, torn>>
  BY DEF UnlockMeta, Rollback
<1>2. Overwritten'
  BY <1>1 DEF ReadInv, Overwritten, NewTxid, txVars
<1>3. ASSUME NEW q \in Readers PROVE Copied(q)'
  <2>1. CASE UNCHANGED <<rslot, rmeta, since, amid>>
    BY <1>1, <2>1 DEF ReadInv, Copied
  <2>2. CASE Rollback(r) /\ q = r
    <3>1. rmeta'[r] = <<>> /\ DOMAIN <<>> = {}
      BY <2>2 DEF Rollback, PagesInv, TypeOK
    <3> QED
      BY <2>2, <3>1 DEF Copied, Validate
  <2>3. CASE Rollback(r) /\ q # r
    <3>1. rmeta'[q] = rmeta[q] /\ rslot'[q] = rslot[q] /\ since'[q] = since[q] /\ amid'[q] = amid[q]
      BY <2>3 DEF Rollback, PagesInv, TypeOK
    <3> QED
      BY <1>1, <3>1 DEF ReadInv, Copied
  <2> QED
    BY <2>1, <2>2, <2>3 DEF UnlockMeta
<1>4. \A q \in Readers : metalock' # {q}
  BY <1>1
<1> QED
  BY <1>2, <1>3, <1>4 DEF ReadInv

\* The steps that write no field: only beginRWTx and the sync before the meta
\* page decide which page will be written.
LEMMA QuietRead ==
  ASSUME PagesInv, ReadInv, BeginRWTx \/ SyncData \/ WriteFails \/ SyncMeta \/ Open \/ UNCHANGED vars
  PROVE  ReadInv'
<1>1. UNCHANGED <<page, readVars>> /\ (torn => torn')
  <2>1. UNCHANGED <<page, readVars>>
    BY DEF BeginRWTx, SyncData, WriteFails, SyncMeta, Open, vars
  <2>2. torn' = torn \/ torn' = (torn \/ todo # Fields)
    BY DEF BeginRWTx, SyncData, WriteFails, SyncMeta, Open, vars
  <2>3. torn => torn'
    <3>1. CASE torn' = torn
      BY <3>1
    <3>2. CASE torn' = (torn \/ todo # Fields)
      BY <3>2, Zenon
    <3> QED
      BY <2>2, <3>1, <3>2
  <2> QED
    BY <2>1, <2>3, Zenon
<1>2. /\ wpc' \in {"data", "meta"} => NewTxid' = NewTxid \/ (BeginRWTx /\ metalock = {})
      /\ wpc' \in {"data", "meta"} => wpc \in {"data", "meta"} \/ (BeginRWTx /\ metalock = {})
  BY DEF BeginRWTx, SyncData, WriteFails, SyncMeta, Open, vars, txVars, Close, NewTxid
<1>3. Overwritten'
  <2>1. CASE SyncData /\ wpc' = "meta"
    <3>1. wpc = "data" /\ todo' = Fields /\ wmeta' = wmeta
      BY <2>1 DEF SyncData, Close
    <3>2. PICK c \in Slots : c = CurrentSlot
      BY CurrentIsNewest DEF PagesInv
    <3>3. wmeta["txid"] = page[c]["txid"] /\ wmeta["txid"] \in Txids
      BY <3>1, <3>2, ConstantsAssumption DEF PagesInv, DataInv, Ahead, TypeOK
    <3>4. Slot(page[c]["txid"]) = c
      BY ConstantsAssumption DEF PagesInv, InTurn
    <3>5. Slot(NewTxid) \in Slots /\ Slot(NewTxid) # c
      BY <3>3, <3>4, SlotsAlternate DEF NewTxid
    <3>6. page[Slot(NewTxid)]["txid"] < wmeta["txid"]
      BY <3>2, <3>3, <3>5, TxidsDiffer
    <3>7. NewTxid' = NewTxid
      BY <3>1 DEF NewTxid
    <3> QED
      BY <1>1, <3>1, <3>6, <3>7, ConstantsAssumption DEF Overwritten
  <2>2. CASE wpc' # "meta"
    BY <2>2 DEF Overwritten
  <2>3. CASE UNCHANGED txVars
    BY <1>1, <2>3 DEF Overwritten, ReadInv, NewTxid, txVars
  <2> QED
    BY <2>1, <2>2, <2>3 DEF BeginRWTx, SyncData, WriteFails, SyncMeta, Open, vars, Close
<1>4. ASSUME NEW q \in Readers PROVE Copied(q)'
  BY <1>1 DEF ReadInv, Copied, readVars
<1>5. ASSUME NEW q \in Readers, metalock' = {q} PROVE \E s \in Slots : Copying(q, s)'
  <2>1. PICK s \in Slots : Copying(q, s)
    BY <1>1, <1>5 DEF ReadInv, readVars
  <2>2. wpc' \in {"data", "meta"} => NewTxid' = NewTxid /\ wpc \in {"data", "meta"}
    BY <1>1, <1>2, <1>5 DEF readVars
  <2> QED
    BY <1>1, <2>1, <2>2 DEF Copying, readVars
<1> QED
  BY <1>3, <1>4, <1>5 DEF ReadInv

\* WriteField never writes the page that a reader is copying, unless the reader
\* chose it half written or a write has been torn; and a page's txid only grows.
LEMMA WriteRead ==
  ASSUME PagesInv, ReadInv, NEW f \in Fields, WriteField(f)
  PROVE  ReadInv'
<1>1. /\ wpc = "meta" /\ f \in todo /\ todo' = todo \ {f} /\ UNCHANGED <<readVars, wmeta, torn>>
      /\ wpc' = IF todo' = {} THEN "syncMeta" ELSE "meta"
  BY DEF WriteField
<1>2. PICK t \in Slots : t = Slot(NewTxid)
  BY <1>1, Writing
<1>3. PICK n \in Txids : n = NewTxid
  BY <1>1, Writing
<1>4. page' = [page EXCEPT ![t][f] = n]
  BY <1>2, <1>3 DEF WriteField
<1>5. page'[t][f] = n /\ \A s \in Slots, g \in Fields : s # t \/ g # f => page'[s][g] = page[s][g]
  BY <1>4 DEF PagesInv, TypeOK
<1>6. NewTxid' = NewTxid
  BY <1>1 DEF NewTxid
<1>7. n = wmeta["txid"] + 1 /\ wmeta["txid"] \in Nat
  BY <1>3, ConstantsAssumption DEF NewTxid, PagesInv, TypeOK, Txids
<1>8. \A s \in Slots : page[s]["txid"] \in Nat /\ page[s]["txid"] <= page'[s]["txid"]
  <2>1. \A s \in Slots : page[s]["txid"] \in Nat
    BY ConstantsAssumption DEF PagesInv, TypeOK, Txids
  <2>2. CASE f = "txid"
    <3>1. page[t]["txid"] < wmeta["txid"]
      BY <1>1, <1>2, <2>2 DEF ReadInv, Overwritten
    <3>2. page[t]["txid"] <= n
      BY <2>1, <3>1, <1>7
    <3> QED
      BY <1>5, <2>1, <2>2, <3>2, ConstantsAssumption
  <2>3. CASE f # "txid"
    BY <1>5, <2>1, <2>3, ConstantsAssumption
  <2> QED
    BY <2>2, <2>3
<1>9. Overwritten'
  <2> SUFFICES ASSUME wpc' = "meta"
               PROVE  todo' # {} /\ ("txid" \in todo' => page'[Slot(NewTxid)']["txid"] < wmeta'["txid"])
    BY DEF Overwritten
  <2>1. todo' # {}
    BY <1>1
  <2>2. ASSUME "txid" \in todo' PROVE page'[t]["txid"] < wmeta["txid"]
    BY <1>1, <1>2, <1>5, <2>2, ConstantsAssumption DEF ReadInv, Overwritten
  <2>3. Slot(NewTxid)' = t
    BY <1>2, <1>6 DEF Slot
  <2> QED
    BY <1>1, <2>1, <2>2, <2>3
<1>10. ASSUME NEW q \in Readers PROVE Copied(q)'
  BY <1>1 DEF ReadInv, Copied, readVars
<1>11. ASSUME NEW q \in Readers, metalock' = {q} PROVE \E s \in Slots : Copying(q, s)'
  <2>1. PICK s \in Slots : Copying(q, s)
    BY <1>1, <1>11 DEF ReadInv, readVars
  <2>2. since[q] <= page'[s]["txid"]
    <3>1. since[q] \in Nat /\ since[q] <= page[s]["txid"] /\ page'[s]["txid"] \in Nat
      <4>1. page'[s]["txid"] \in Txids
        BY <1>5, <1>3, ConstantsAssumption DEF PagesInv, TypeOK
      <4> QED
        BY <2>1, <4>1, ConstantsAssumption DEF Copying, PagesInv, TypeOK, Txids
    <3> QED
      BY <1>8, <3>1
  <2>3. CASE torn \/ amid[q]
    BY <1>1, <2>1, <2>2, <2>3 DEF Copying, readVars
  <2>4. CASE ~torn /\ ~amid[q]
    <3>1. s # t
      BY <1>1, <1>2, <2>1, <2>4 DEF Copying
    <3>2. \A g \in Fields : page'[s][g] = page[s][g]
      BY <1>5, <3>1
    <3>3. Slot(NewTxid)' # s
      BY <1>2, <1>6, <3>1 DEF Slot
    <3>4. page'[s]["txid"] = page[s]["txid"]
      BY <3>2, ConstantsAssumption
    <3> QED
      BY <1>1, <2>1, <2>2, <3>2, <3>3, <3>4 DEF Copying, readVars
  <2> QED
    BY <2>3, <2>4
<1> QED
  BY <1>9, <1>10, <1>11 DEF ReadInv

LEMMA ReadInductive == ASSUME PagesInv, ReadInv, [Next]_vars PROVE ReadInv'
<1>1. CASE \E r \in Readers : Reader(r)
  BY <1>1, ChooseRead, CopyRead, EndRead DEF Reader
<1>2. CASE Writer \/ Open \/ UNCHANGED vars
  BY <1>2, QuietRead, WriteRead DEF Writer
<1>3. CASE Crash
  <2>1. wpc' = "idle" /\ metalock' = {} /\ rmeta' = [r \in Readers |-> <<>>]
    BY <1>3 DEF Crash, Close
  <2>2. Overwritten'
    BY <2>1 DEF Overwritten
  <2>3. ASSUME NEW r \in Readers PROVE Copied(r)' /\ metalock' # {r}
    <3>1. rmeta'[r] = <<>> /\ DOMAIN <<>> = {}
      BY <2>1
    <3> QED
      BY <2>1, <3>1 DEF Copied, Validate
  <2> QED
    BY <2>2, <2>3 DEF ReadInv
<1> QED
  BY <1>1, <1>2, <1>3 DEF Next

\* A read transaction that did not choose a half-written meta page has copied one
\* version whole, until a meta write fails half way; and a version copied whole is
\* not older than the last commit acknowledged before the transaction began
\* (SnapshotFresh).
THEOREM FreshSnapshots == Spec => []SnapshotFresh
<1>1. Init => ReadInv
  BY NoReaders DEF Init
<1>2. PagesInv /\ ReadInv /\ [Next]_vars => ReadInv'
  BY ReadInductive
<1>3. TypeOK /\ ReadInv => SnapshotFresh
  <2> SUFFICES ASSUME TypeOK, ReadInv, NEW r \in Readers, DOMAIN rmeta[r] = Fields
               PROVE  /\ torn \/ amid[r] \/ Validate(rmeta[r])
                      /\ rmeta[r]["txid"] >= since[r]
    BY DEF SnapshotFresh
  <2>1. Copied(r) /\ "txid" \in DOMAIN rmeta[r]
    BY ConstantsAssumption DEF ReadInv
  <2>2. rmeta[r]["txid"] \in Txids /\ since[r] \in Txids
    BY <2>1 DEF TypeOK
  <2> QED
    BY <2>1, <2>2, ConstantsAssumption DEF Copied, Txids
<1> QED
  BY <1>1, <1>2, <1>3, PagesInvariance, PagesType, PTL DEF Spec
=============================================================================
