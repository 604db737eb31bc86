-------------------------------- MODULE Locks --------------------------------
(***************************************************************************)
(* The three locks of a DB and the goroutines that take them: View, Update *)
(* (with the remapping of the file inside Commit) and Close.  What a       *)
(* transaction reads and writes is left to Bolt; here it is open from the  *)
(* check in Begin to the release of its lock, and while it is open it uses *)
(* the memory map.                                                         *)
(*                                                                         *)
(* rwlock and metalock are Go mutexes.  mmaplock is a Go RWMutex: once a   *)
(* writer has announced itself no further reader is let in, and it holds   *)
(* the lock when the last reader has left.                                 *)
(***************************************************************************)
EXTENDS Naturals

CONSTANTS Readers,      \* goroutines that call View
          Writers,      \* goroutines that call Update
          Closers,      \* goroutines that call Close
          NoOne,
          MaxRemaps     \* remaps in one Commit (bound)

Procs == Readers \cup Writers \cup Closers

ASSUME ProcsAssumption ==
  /\ Readers \cap Writers = {}
  /\ Readers \cap Closers = {}
  /\ Writers \cap Closers = {}
  /\ NoOne \notin Procs

ASSUME BoundsAssumption == MaxRemaps \in Nat

VARIABLES
  pc,
  rwlock,       \* the goroutine that holds DB.rwlock, or NoOne
  metalock,     \* the goroutine that holds DB.metalock, or NoOne
  mmaplock,     \* DB.mmaplock: its readers, and the announced writer or NoOne
  opened,       \* DB.opened
  mapped,       \* DB.data # nil
  remaps        \* calls of DB.mmap in the current Commit

vars == <<pc, rwlock, metalock, mmaplock, opened, mapped, remaps>>

ReaderPCs == {"idle", "r_meta", "r_mmap", "r_check", "r_body", "r_end", "r_leave", "unwound"}
WriterPCs ==
  {"idle", "w_rw", "w_meta", "w_body", "w_commit", "w_wait", "w_map", "w_close", "unwound"}
CloserPCs == {"idle", "c_rw", "c_meta", "c_mmap", "c_close"}

Init ==
  /\ pc = [p \in Procs |-> "idle"]
  /\ rwlock = NoOne
  /\ metalock = NoOne
  /\ mmaplock = [readers |-> {}, writer |-> NoOne]
  /\ opened = TRUE
  /\ mapped = TRUE
  /\ remaps = 0

Goto(p, from, to) ==
  /\ pc[p] = from
  /\ pc' = [pc EXCEPT ![p] = to]

RLock(p) ==
  /\ mmaplock.writer = NoOne
  /\ mmaplock' = [mmaplock EXCEPT !.readers = @ \cup {p}]

RUnlock(p) == mmaplock' = [mmaplock EXCEPT !.readers = @ \ {p}]

-----------------------------------------------------------------------------
\* View(fn)

CallView(p) ==
  /\ Goto(p, "idle", "r_meta")
  /\ UNCHANGED <<rwlock, metalock, mmaplock, opened, mapped, remaps>>

LockMeta(p) ==
  /\ Goto(p, "r_meta", "r_mmap")
  /\ metalock = NoOne
  /\ metalock' = p
  /\ UNCHANGED <<rwlock, mmaplock, opened, mapped, remaps>>

RLockMmap(p) ==
  /\ Goto(p, "r_mmap", "r_check")
  /\ RLock(p)
  /\ UNCHANGED <<rwlock, metalock, opened, mapped, remaps>>

\* Variant: the mmap lock is not released when the database is not open.
BeginTxLeaking(p) ==
  /\ metalock' = NoOne
  /\ Goto(p, "r_check", IF opened /\ mapped THEN "r_body" ELSE "idle")
  /\ UNCHANGED <<rwlock, mmaplock, opened, mapped, remaps>>

\* Variant: the check is made before Close can be excluded.
BeginTxUnchecked(p) ==
  /\ metalock' = NoOne
  /\ Goto(p, "r_check", "r_body")
  /\ UNCHANGED <<rwlock, mmaplock, opened, mapped, remaps>>

\* The rest of beginTx: both locks are released when there is no map to read.
BeginTx(p) ==
  /\ metalock' = NoOne
  /\ \/ /\ opened /\ mapped
        /\ Goto(p, "r_check", "r_body")
        /\ UNCHANGED mmaplock
     \/ /\ ~(opened /\ mapped)
        /\ Goto(p, "r_check", "idle")
        /\ RUnlock(p)
  /\ UNCHANGED <<rwlock, opened, mapped, remaps>>

\* Variant: View ends like Update.
ViewBodyCommitting(p) ==
  /\ Goto(p, "r_body", "w_commit")
  /\ UNCHANGED <<rwlock, metalock, mmaplock, opened, mapped, remaps>>

\* The callback returns, with or without an error, or panics: View has no defer.
ViewBody(p) ==
  /\ \/ Goto(p, "r_body", "r_end")
     \/ Goto(p, "r_body", "unwound")
  /\ UNCHANGED <<rwlock, metalock, mmaplock, opened, mapped, remaps>>

\* Variant: the mmap lock is still held when the meta lock is asked for.
RemoveTxHolding(p) ==
  /\ Goto(p, "r_end", "r_leave")
  /\ UNCHANGED <<rwlock, metalock, mmaplock, opened, mapped, remaps>>

\* removeTx: the mmap lock is given back before the meta lock is asked for.
RemoveTx(p) ==
  /\ Goto(p, "r_end", "r_leave")
  /\ RUnlock(p)
  /\ UNCHANGED <<rwlock, metalock, opened, mapped, remaps>>

\* The reader is unregistered under the meta lock, which nothing can delay.
Unregister(p) ==
  /\ Goto(p, "r_leave", "idle")
  /\ metalock = NoOne
  /\ UNCHANGED <<rwlock, metalock, mmaplock, opened, mapped, remaps>>

-----------------------------------------------------------------------------
\* Update(fn)

CallUpdate(p) ==
  /\ Goto(p, "idle", "w_rw")
  /\ UNCHANGED <<rwlock, metalock, mmaplock, opened, mapped, remaps>>

LockRW(p) ==
  /\ Goto(p, "w_rw", "w_meta")
  /\ rwlock = NoOne
  /\ rwlock' = p
  /\ UNCHANGED <<metalock, mmaplock, opened, mapped, remaps>>

\* Variant: the early return leaves the writer lock taken.
BeginRWTxLeaking(p) ==
  /\ metalock = NoOne
  /\ Goto(p, "w_meta", IF opened /\ mapped THEN "w_body" ELSE "idle")
  /\ remaps' = 0
  /\ UNCHANGED <<rwlock, metalock, mmaplock, opened, mapped>>

\* The rest of beginRWTx, which keeps the meta lock to its end.
BeginRWTx(p) ==
  /\ metalock = NoOne
  /\ \/ /\ opened /\ mapped
        /\ Goto(p, "w_meta", "w_body")
        /\ UNCHANGED rwlock
     \/ /\ ~(opened /\ mapped)
        /\ Goto(p, "w_meta", "idle")
        /\ rwlock' = NoOne
  /\ remaps' = 0
  /\ UNCHANGED <<metalock, mmaplock, opened, mapped>>

\* The callback returns nil, returns an error, or panics: Update has no defer.
UpdateBody(p) ==
  /\ \/ Goto(p, "w_body", "w_commit")
     \/ Goto(p, "w_body", "w_close")
     \/ Goto(p, "w_body", "unwound")
  /\ UNCHANGED <<rwlock, metalock, mmaplock, opened, mapped, remaps>>

\* Variant: the file is remapped without the lock.
LockMmapUnheld(p) ==
  /\ Goto(p, "w_commit", "w_map")
  /\ mapped' = FALSE
  /\ remaps < MaxRemaps
  /\ remaps' = remaps + 1
  /\ UNCHANGED <<rwlock, metalock, mmaplock, opened>>

\* Commit allocates pages beyond the map: db.mmap asks for the write lock.
LockMmap(p) ==
  /\ Goto(p, "w_commit", "w_wait")
  /\ remaps < MaxRemaps
  /\ remaps' = remaps + 1
  /\ mmaplock.writer = NoOne
  /\ mmaplock' = [mmaplock EXCEPT !.writer = p]
  /\ UNCHANGED <<rwlock, metalock, opened, mapped>>

UnlockMmap == mmaplock' = [mmaplock EXCEPT !.writer = NoOne]

\* The readers have left; the file's size cannot be read, or the map is removed.
Munmap(p) ==
  /\ mmaplock.readers = {}
  /\ \/ /\ Goto(p, "w_wait", "w_close")
        /\ UnlockMmap
        /\ UNCHANGED mapped
     \/ /\ Goto(p, "w_wait", "w_map")
        /\ mapped' = FALSE
        /\ UNCHANGED mmaplock
  /\ UNCHANGED <<rwlock, metalock, opened, remaps>>

\* The new map is in place, or it cannot be made (or used) and there is none.
Mmap(p) ==
  /\ \/ Goto(p, "w_map", "w_commit") /\ mapped' = TRUE
     \/ Goto(p, "w_map", "w_close") /\ mapped' = FALSE
  /\ UnlockMmap
  /\ UNCHANGED <<rwlock, metalock, opened, remaps>>

\* The rest of Commit needs no lock, whether it succeeds or fails.
FinishCommit(p) ==
  /\ Goto(p, "w_commit", "w_close")
  /\ UNCHANGED <<rwlock, metalock, mmaplock, opened, mapped, remaps>>

\* tx.close: by Commit, by the rollback of a failed Commit, or by Rollback.
CloseTx(p) ==
  /\ Goto(p, "w_close", "idle")
  /\ rwlock' = NoOne
  /\ UNCHANGED <<metalock, mmaplock, opened, mapped, remaps>>

-----------------------------------------------------------------------------
\* Close()

CallClose(p) ==
  /\ Goto(p, "idle", "c_rw")
  /\ UNCHANGED <<rwlock, metalock, mmaplock, opened, mapped, remaps>>

\* Variant: Close takes the locks below rwlock only.
CloseLockRWSkipped(p) ==
  /\ Goto(p, "c_rw", "c_meta")
  /\ UNCHANGED <<rwlock, metalock, mmaplock, opened, mapped, remaps>>

CloseLockRW(p) ==
  /\ Goto(p, "c_rw", "c_meta")
  /\ rwlock = NoOne
  /\ rwlock' = p
  /\ UNCHANGED <<metalock, mmaplock, opened, mapped, remaps>>

CloseLockMeta(p) ==
  /\ Goto(p, "c_meta", "c_mmap")
  /\ metalock = NoOne
  /\ metalock' = p
  /\ UNCHANGED <<rwlock, mmaplock, opened, mapped, remaps>>

\* The mmap lock is taken for reading only.
CloseRLockMmap(p) ==
  /\ Goto(p, "c_mmap", "c_close")
  /\ RLock(p)
  /\ UNCHANGED <<rwlock, metalock, opened, mapped, remaps>>

\* close() and the deferred unlocks; a second Close finds it done.
CloseDB(p) ==
  /\ Goto(p, "c_close", "idle")
  /\ opened' = FALSE
  /\ mapped' = (mapped /\ ~opened)
  /\ rwlock' = NoOne
  /\ metalock' = NoOne
  /\ RUnlock(p)
  /\ UNCHANGED remaps

-----------------------------------------------------------------------------
Call ==
  \/ \E p \in Readers : CallView(p)
  \/ \E p \in Writers : CallUpdate(p)
  \/ \E p \in Closers : CallClose(p)

ViewStep(p) ==
  \/ LockMeta(p) \/ RLockMmap(p) \/ BeginTx(p)
  \/ ViewBody(p) \/ RemoveTx(p) \/ Unregister(p)

UpdateStep(p) ==
  \/ LockRW(p) \/ BeginRWTx(p) \/ UpdateBody(p)
  \/ LockMmap(p) \/ Munmap(p) \/ Mmap(p)
  \/ FinishCommit(p) \/ CloseTx(p)

CloseStep(p) ==
  CloseLockRW(p) \/ CloseLockMeta(p) \/ CloseRLockMmap(p) \/ CloseDB(p)

Next ==
  \/ Call
  \/ \E p \in Readers : ViewStep(p)
  \/ \E p \in Writers : UpdateStep(p)
  \/ \E p \in Closers : CloseStep(p)

Spec == Init /\ [][Next]_vars

\* A Go mutex hands itself to a waiter it keeps waiting, and callbacks return.
Fairness ==
  /\ \A p \in Readers : SF_vars(ViewStep(p))
  /\ \A p \in Writers : SF_vars(UpdateStep(p))
  /\ \A p \in Closers : SF_vars(CloseStep(p))

FairSpec == Spec /\ Fairness

-----------------------------------------------------------------------------
\* The goroutines that have a transaction open and use the memory map.
Reading == {p \in Readers : pc[p] \in {"r_body", "r_end"}}
Writing == {p \in Writers : pc[p] \in {"w_body", "w_commit"}}

\* Every variable has its type, and every goroutine is inside its own call.
TypeOK ==
  /\ pc \in [Procs -> ReaderPCs \cup WriterPCs \cup CloserPCs]
  /\ \A p \in Readers : pc[p] \in ReaderPCs
  /\ \A p \in Writers : pc[p] \in WriterPCs
  /\ \A p \in Closers : pc[p] \in CloserPCs
  /\ rwlock \in Procs \cup {NoOne}
  /\ metalock \in Procs \cup {NoOne}
  /\ mmaplock \in [readers : SUBSET Procs, writer : Procs \cup {NoOne}]
  /\ opened \in BOOLEAN
  /\ mapped \in BOOLEAN
  /\ remaps \in 0 .. MaxRemaps

HoldsRW(p) ==
  \/ pc[p] \in {"w_meta", "w_body", "w_commit", "w_wait", "w_map", "w_close"}
  \/ pc[p] \in {"c_meta", "c_mmap", "c_close"}
  \/ p \in Writers /\ pc[p] = "unwound"

HoldsMeta(p) == pc[p] \in {"r_mmap", "r_check", "c_mmap", "c_close"}

HoldsMmapR(p) ==
  \/ pc[p] \in {"r_check", "r_body", "r_end", "c_close"}
  \/ p \in Readers /\ pc[p] = "unwound"

(* No path through Begin, Commit, Rollback, Close or a failure gives a     *)
(* lock back twice, or keeps one it should have given back.                *)
LockOwners ==
  \A p \in Procs :
    /\ rwlock = p <=> HoldsRW(p)
    /\ metalock = p <=> HoldsMeta(p)
    /\ p \in mmaplock.readers <=> HoldsMmapR(p)
    /\ mmaplock.writer = p <=> pc[p] \in {"w_wait", "w_map"}

(* While View's callback runs the map stays where it is, however many      *)
(* remaps the writers make, as long as nobody has called Close.            *)
ReadersKeepTheMap == Reading # {} /\ opened => mapped

(* A write transaction works on an open and mapped database: Close waits   *)
(* for it, and a failed remap ends it.                                     *)
WritersKeepTheMap == Writing # {} => mapped /\ opened

\* Whom p is waiting for.
WaitsFor(p) ==
  {q \in Procs :
     \/ pc[p] \in {"w_rw", "c_rw"} /\ rwlock = q
     \/ pc[p] \in {"r_meta", "r_leave", "w_meta", "c_meta"} /\ metalock = q
     \/ pc[p] \in {"r_mmap", "c_mmap"} /\ mmaplock.writer = q
     \/ pc[p] = "w_wait" /\ q \in mmaplock.readers}

(* Goroutines never wait for one another in a circle: beginTx asks for     *)
(* mmaplock under metalock, a remap waits for the readers while new ones   *)
(* wait for it, and removeTx and Close need both locks as well.            *)
NoCircularWait ==
  \A S \in SUBSET Procs : S # {} => \E p \in S : WaitsFor(p) \cap S = {}

(* Once Close has begun to tear the database down no transaction begins:   *)
(* the check in Begin is made under the locks that Close takes.            *)
CloseIsFinal ==
  [][~opened => ~\E p \in Procs : /\ p \notin Reading \cup Writing
                                 /\ p \in (Reading \cup Writing)']_vars

(* If no callback panics, every call of View, Update and Close returns,    *)
(* whatever the others do, including when a remap has failed and the       *)
(* database is of no more use.                                             *)
EveryCallReturns ==
  [](\A p \in Procs : pc[p] # "unwound")
    => \A p \in Procs : pc[p] # "idle" ~> pc[p] = "idle"

(* db.go:691-693: Close "will block waiting for any open transactions to   *)
(* finish before closing the database and returning".                      *)
CloseWaits == Reading \cup Writing # {} => mapped /\ opened

(* instruction.md item 10: managed callbacks "must release their           *)
(* transaction on every panic path".                                       *)
PanicReleases ==
  \A p \in Procs : pc[p] = "unwound" => rwlock # p /\ p \notin mmaplock.readers
=============================================================================
