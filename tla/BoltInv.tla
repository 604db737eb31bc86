------------------------------- MODULE BoltInv -------------------------------
(***************************************************************************)
(* The inductive invariant of Bolt.  Its parts are predicates of a         *)
(* freelist, a meta or a set of metas, so that one lemma about Free,       *)
(* Allocate or Rollback serves every action that is composed of them.      *)
(***************************************************************************)
EXTENDS Bolt

\* Pages of one tree do not overlap, and lie below its high water mark.
WellFormed(m) ==
  /\ \A b, c \in Blocks(m) : b # c => Ids(b) \cap Ids(c) = {}
  /\ m.tree \cap m.freelist = {}
  /\ \A b, c \in m.freelist : b = c
  /\ Used(m) \subseteq 2 .. (m.pgid - 1)

\* The freelist page of m lists no page m uses.
ListOK(m) == m.ids \subseteq 2 .. (m.pgid - 1) /\ m.ids \cap Used(m) = {}

\* Freelist f, seen from snapshot m: a page m uses is not free; if it is
\* pending, m lies between its allocation and its release; and allocs never
\* dates its allocation after m.
Protects(f, m) ==
  /\ Used(m) \cap f.free = {}
  /\ \A e \in f.pending : e.id \in Used(m) => e.alloctx <= m.txid /\ m.txid < e.tx
  /\ \A p \in Used(m) : f.allocs[p] <= m.txid

\* A block of w that meets the pages of snapshot m is a block of m.
Shares(w, m) == \A b \in Blocks(w) : Ids(b) \cap Used(m) # {} => b \in Blocks(m)

\* The freelist by itself, when cur is the current meta.
FreelistOK(f, cur) ==
  /\ f.cache = Copyall(f)
  /\ f.free \cap EntryIds(f.pending) = {}
  /\ \A e, g \in f.pending : e.id = g.id => e = g
  /\ Copyall(f) \subseteq 2 .. (cur.pgid - 1)
  /\ \A p \in Pgids : f.allocs[p] <= cur.txid + 1
  /\ \A e \in f.pending : e.alloctx < e.tx

\* What is pending was freed by a commit that every meta in R comes after, or
\* by the running transaction txid.
PendingOK(f, R, txid) == \A e \in f.pending, m \in R : e.tx <= m.txid \/ e.tx = txid

\* The write transaction with meta w and dirty blocks d, before it publishes w.
WriterOK(f, w, d, cur, V) ==
  /\ WellFormed(w)
  /\ w.txid = cur.txid + 1 /\ cur.pgid <= w.pgid
  /\ Used(w) \cap Copyall(f) = {}
  /\ Blocks(w) \subseteq Blocks(cur) \cup d
  /\ \A m \in V : Shares(w, m) /\ Used(m) \cap Span(d) = {}

-----------------------------------------------------------------------------
Preparing == wpc \in {"body", "spill", "write", "sync", "meta"}

MetasInv ==
  /\ \A s \in Slots : meta[s] \in disk[s]
  /\ \A s \in Slots : \A m \in disk[s] : m.txid <= CurrentMeta.txid

ReadersInv ==
  /\ \A r \in Readers : \A m, n \in rtx[r] : m = n
  /\ \A r, q \in metalock : r = q
  /\ \A r \in Readers : \A m \in rtx[r] : r \notin metalock => fl.readonlyTXIDs[r] = m.txid

VisibleInv ==
  \A m \in Visible :
    /\ 1 <= m.txid /\ m.txid <= CurrentMeta.txid /\ m.pgid <= CurrentMeta.pgid
    /\ WellFormed(m)
    /\ Shares(CurrentMeta, m)

ProtectInv == \A m \in Visible : Protects(fl, m)

RecoverInv ==
  \A m \in Recoverable : Used(m) \cap unsynced = {} /\ ListOK(m) /\ acked <= m.txid

WriterInv ==
  /\ wpc # "panic"
  /\ Preparing => WriterOK(fl, wmeta, dirty, CurrentMeta, Visible)
  /\ wpc \in {"idle", "body"} => dirty = {}
  /\ wpc = "idle" => wmeta = NilMeta
  /\ wpc \in {"body", "spill"} => wmeta.freelist = CurrentMeta.freelist
  /\ wpc \in {"write", "sync", "meta"} => ListOK(wmeta)
  /\ wpc = "meta" => Span(dirty) \cap unsynced = {}
  /\ wpc = "syncMeta" => /\ CurrentMeta = wmeta
                         /\ \A s \in Slots : s # Slot(wmeta.txid) =>
                              \A m \in disk[s] : m.txid < wmeta.txid

\* The conjunction that every step preserves; it implies every invariant that
\* the runs check, VisibleNotFree and NeverPanics among them.
IInv ==
  /\ TypeOK
  /\ MetasInv
  /\ ReadersInv
  /\ VisibleInv
  /\ ProtectInv
  /\ FreelistOK(fl, CurrentMeta)
  /\ PendingOK(fl, Recoverable, wmeta.txid)
  /\ RecoverInv
  /\ WriterInv
=============================================================================
