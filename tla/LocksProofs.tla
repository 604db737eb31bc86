----------------------------- MODULE LocksProofs -----------------------------
(***************************************************************************)
(* Proofs about Locks for any number of goroutines and remaps.  The        *)
(* inductive invariant is LockOwners (which lock a goroutine holds follows *)
(* from where it is) with two facts about the owner of the writer lock.    *)
(***************************************************************************)
EXTENDS Locks, TLAPS

\* From the check in beginRWTx to the end of Commit the database is open.
WriterOpened ==
  \A p \in Writers :
    pc[p] \in {"w_body", "w_commit", "w_wait", "w_map"} => opened

\* Between the removal of the map and its replacement there are no readers.
RemapAlone == \A p \in Procs : pc[p] = "w_map" => mmaplock.readers = {}

WriterMapped ==
  \A p \in Writers : pc[p] \in {"w_body", "w_commit"} => mapped

IInv == TypeOK /\ LockOwners /\ WriterOpened /\ RemapAlone /\ WriterMapped

\* A goroutine makes one kind of call only.
LEMMA ProcsDisjoint ==
  /\ \A p \in Readers : p \in Procs /\ p \notin Writers /\ p \notin Closers /\ p # NoOne
  /\ \A p \in Writers : p \in Procs /\ p \notin Readers /\ p \notin Closers /\ p # NoOne
  /\ \A p \in Closers : p \in Procs /\ p \notin Readers /\ p \notin Writers /\ p # NoOne
  BY ProcsAssumption DEF Procs

\* The invariant holds when the database has been opened.
LEMMA InitIInv == Init => IInv
  BY ProcsAssumption, BoundsAssumption
     DEF Init, IInv, TypeOK, LockOwners, WriterOpened, RemapAlone, WriterMapped,
         HoldsRW, HoldsMeta, HoldsMmapR, ReaderPCs, WriterPCs, CloserPCs, Procs

(* Every step of View keeps the invariant. *)
LEMMA ViewKeeps ==
  ASSUME IInv, NEW p \in Readers, CallView(p) \/ ViewStep(p) PROVE IInv'
<1> USE ProcsDisjoint, ProcsAssumption, BoundsAssumption
        DEF Goto, RLock, RUnlock, UnlockMmap, IInv, Procs
<1>1. CASE CallView(p)
  <2>1. TypeOK' BY <1>1 DEF CallView, TypeOK, ReaderPCs, WriterPCs, CloserPCs
  <2>2. LockOwners' BY <1>1 DEF CallView, TypeOK, LockOwners, HoldsRW, HoldsMeta, HoldsMmapR
  <2>3. WriterOpened' /\ RemapAlone' /\ WriterMapped'
    BY <1>1 DEF CallView, TypeOK, ReaderPCs, WriterPCs, CloserPCs, LockOwners, HoldsRW,
                HoldsMmapR, WriterOpened, RemapAlone, WriterMapped
  <2> QED BY <2>1, <2>2, <2>3
<1>2. CASE LockMeta(p)
  <2>1. TypeOK' BY <1>2 DEF LockMeta, TypeOK, ReaderPCs, WriterPCs, CloserPCs
  <2>2. LockOwners' BY <1>2 DEF LockMeta, TypeOK, LockOwners, HoldsRW, HoldsMeta, HoldsMmapR
  <2>3. WriterOpened' /\ RemapAlone' /\ WriterMapped'
    BY <1>2 DEF LockMeta, TypeOK, ReaderPCs, WriterPCs, CloserPCs, LockOwners, HoldsRW,
                HoldsMmapR, WriterOpened, RemapAlone, WriterMapped
  <2> QED BY <2>1, <2>2, <2>3
<1>3. CASE RLockMmap(p)
  <2>1. TypeOK' BY <1>3 DEF RLockMmap, TypeOK, ReaderPCs, WriterPCs, CloserPCs
  <2>2. LockOwners' BY <1>3 DEF RLockMmap, TypeOK, LockOwners, HoldsRW, HoldsMeta, HoldsMmapR
  <2>3. WriterOpened' /\ RemapAlone' /\ WriterMapped'
    BY <1>3 DEF RLockMmap, TypeOK, ReaderPCs, WriterPCs, CloserPCs, LockOwners, HoldsRW,
                HoldsMmapR, WriterOpened, RemapAlone, WriterMapped
  <2> QED BY <2>1, <2>2, <2>3
<1>4. CASE BeginTx(p)
  <2>1. TypeOK' BY <1>4 DEF BeginTx, TypeOK, ReaderPCs, WriterPCs, CloserPCs
  <2>2. LockOwners' BY <1>4 DEF BeginTx, TypeOK, LockOwners, HoldsRW, HoldsMeta, HoldsMmapR
  <2>3. WriterOpened' /\ RemapAlone' /\ WriterMapped'
    BY <1>4 DEF BeginTx, TypeOK, ReaderPCs, WriterPCs, CloserPCs, LockOwners, HoldsRW,
                HoldsMmapR, WriterOpened, RemapAlone, WriterMapped
  <2> QED BY <2>1, <2>2, <2>3
<1>5. CASE ViewBody(p)
  <2>1. TypeOK' BY <1>5 DEF ViewBody, TypeOK, ReaderPCs, WriterPCs, CloserPCs
  <2>2. LockOwners' BY <1>5 DEF ViewBody, TypeOK, LockOwners, HoldsRW, HoldsMeta, HoldsMmapR
  <2>3. WriterOpened' /\ RemapAlone' /\ WriterMapped'
    BY <1>5 DEF ViewBody, TypeOK, ReaderPCs, WriterPCs, CloserPCs, LockOwners, HoldsRW,
                HoldsMmapR, WriterOpened, RemapAlone, WriterMapped
  <2> QED BY <2>1, <2>2, <2>3
<1>6. CASE RemoveTx(p)
  <2>1. TypeOK' BY <1>6 DEF RemoveTx, TypeOK, ReaderPCs, WriterPCs, CloserPCs
  <2>2. LockOwners' BY <1>6 DEF RemoveTx, TypeOK, LockOwners, HoldsRW, HoldsMeta, HoldsMmapR
  <2>3. WriterOpened' /\ RemapAlone' /\ WriterMapped'
    BY <1>6 DEF RemoveTx, TypeOK, ReaderPCs, WriterPCs, CloserPCs, LockOwners, HoldsRW,
                HoldsMmapR, WriterOpened, RemapAlone, WriterMapped
  <2> QED BY <2>1, <2>2, <2>3
<1>7. CASE Unregister(p)
  <2>1. TypeOK' BY <1>7 DEF Unregister, TypeOK, ReaderPCs, WriterPCs, CloserPCs
  <2>2. LockOwners' BY <1>7 DEF Unregister, TypeOK, LockOwners, HoldsRW, HoldsMeta, HoldsMmapR
  <2>3. WriterOpened' /\ RemapAlone' /\ WriterMapped'
    BY <1>7 DEF Unregister, TypeOK, ReaderPCs, WriterPCs, CloserPCs, LockOwners, HoldsRW,
                HoldsMmapR, WriterOpened, RemapAlone, WriterMapped
  <2> QED BY <2>1, <2>2, <2>3
<1> QED BY <1>1, <1>2, <1>3, <1>4, <1>5, <1>6, <1>7 DEF ViewStep

(* Every step of Update keeps the invariant. *)
LEMMA UpdateKeeps ==
  ASSUME IInv, NEW p \in Writers, CallUpdate(p) \/ UpdateStep(p) PROVE IInv'
<1> USE ProcsDisjoint, ProcsAssumption, BoundsAssumption
        DEF Goto, RLock, RUnlock, UnlockMmap, IInv, Procs
<1>1. CASE CallUpdate(p)
  <2>1. TypeOK' BY <1>1 DEF CallUpdate, TypeOK, ReaderPCs, WriterPCs, CloserPCs
  <2>2. LockOwners' BY <1>1 DEF CallUpdate, TypeOK, LockOwners, HoldsRW, HoldsMeta, HoldsMmapR
  <2>3. WriterOpened' /\ RemapAlone' /\ WriterMapped'
    BY <1>1 DEF CallUpdate, TypeOK, ReaderPCs, WriterPCs, CloserPCs, LockOwners, HoldsRW,
                HoldsMmapR, WriterOpened, RemapAlone, WriterMapped
  <2> QED BY <2>1, <2>2, <2>3
<1>2. CASE LockRW(p)
  <2>1. TypeOK' BY <1>2 DEF LockRW, TypeOK, ReaderPCs, WriterPCs, CloserPCs
  <2>2. LockOwners' BY <1>2 DEF LockRW, TypeOK, LockOwners, HoldsRW, HoldsMeta, HoldsMmapR
  <2>3. WriterOpened' /\ RemapAlone' /\ WriterMapped'
    BY <1>2 DEF LockRW, TypeOK, ReaderPCs, WriterPCs, CloserPCs, LockOwners, HoldsRW,
                HoldsMmapR, WriterOpened, RemapAlone, WriterMapped
  <2> QED BY <2>1, <2>2, <2>3
<1>3. CASE BeginRWTx(p)
  <2>1. TypeOK' BY <1>3 DEF BeginRWTx, TypeOK, ReaderPCs, WriterPCs, CloserPCs
  <2>2. LockOwners' BY <1>3 DEF BeginRWTx, TypeOK, LockOwners, HoldsRW, HoldsMeta, HoldsMmapR
  <2>3. WriterOpened' /\ RemapAlone' /\ WriterMapped'
    BY <1>3 DEF BeginRWTx, TypeOK, ReaderPCs, WriterPCs, CloserPCs, LockOwners, HoldsRW,
                HoldsMmapR, WriterOpened, RemapAlone, WriterMapped
  <2> QED BY <2>1, <2>2, <2>3
<1>4. CASE UpdateBody(p)
  <2>1. TypeOK' BY <1>4 DEF UpdateBody, TypeOK, ReaderPCs, WriterPCs, CloserPCs
  <2>2. LockOwners' BY <1>4 DEF UpdateBody, TypeOK, LockOwners, HoldsRW, HoldsMeta, HoldsMmapR
  <2>3. WriterOpened' /\ RemapAlone' /\ WriterMapped'
    BY <1>4 DEF UpdateBody, TypeOK, ReaderPCs, WriterPCs, CloserPCs, LockOwners, HoldsRW,
                HoldsMmapR, WriterOpened, RemapAlone, WriterMapped
  <2> QED BY <2>1, <2>2, <2>3
<1>5. CASE LockMmap(p)
  <2>1. TypeOK' BY <1>5 DEF LockMmap, TypeOK, ReaderPCs, WriterPCs, CloserPCs
  <2>2. LockOwners' BY <1>5 DEF LockMmap, TypeOK, LockOwners, HoldsRW, HoldsMeta, HoldsMmapR
  <2>3. WriterOpened' /\ RemapAlone' /\ WriterMapped'
    BY <1>5 DEF LockMmap, TypeOK, ReaderPCs, WriterPCs, CloserPCs, LockOwners, HoldsRW,
                HoldsMmapR, WriterOpened, RemapAlone, WriterMapped
  <2> QED BY <2>1, <2>2, <2>3
<1>6. CASE Munmap(p)
  <2>a. mmaplock' \in [readers : SUBSET Procs, writer : Procs \cup {NoOne}]
    BY <1>6 DEF Munmap, TypeOK
  <2>b. mapped' = TRUE \/ mapped' = FALSE
    BY <1>6 DEF Munmap, TypeOK
  <2>c. /\ pc' \in [Procs -> ReaderPCs \cup WriterPCs \cup CloserPCs]
        /\ \A q \in Procs : pc'[q] = pc[q] \/ (q = p /\ pc'[q] \in WriterPCs)
    BY <1>6 DEF Munmap, TypeOK, WriterPCs
  <2>d. rwlock' = rwlock /\ metalock' = metalock /\ opened' = opened /\ remaps' = remaps
    BY <1>6 DEF Munmap
  <2>e. mapped' \in BOOLEAN
    BY <2>b
  <2>f. /\ \A q \in Readers : pc'[q] \in ReaderPCs
        /\ \A q \in Writers : pc'[q] \in WriterPCs
        /\ \A q \in Closers : pc'[q] \in CloserPCs
    BY <2>c DEF TypeOK
  <2>1. TypeOK'
    BY <2>a, <2>c, <2>d, <2>e, <2>f DEF TypeOK
  <2>2. LockOwners' BY <1>6 DEF Munmap, TypeOK, LockOwners, HoldsRW, HoldsMeta, HoldsMmapR
  <2>3. WriterOpened' /\ RemapAlone' /\ WriterMapped'
    BY <1>6 DEF Munmap, TypeOK, ReaderPCs, WriterPCs, CloserPCs, LockOwners, HoldsRW,
                HoldsMmapR, WriterOpened, RemapAlone, WriterMapped
  <2> QED BY <2>1, <2>2, <2>3
<1>7. CASE Mmap(p)
  <2>a. mmaplock' \in [readers : SUBSET Procs, writer : Procs \cup {NoOne}]
    BY <1>7 DEF Mmap, TypeOK
  <2>b. mapped' = TRUE \/ mapped' = FALSE
    BY <1>7 DEF Mmap, TypeOK
  <2>c. /\ pc' \in [Procs -> ReaderPCs \cup WriterPCs \cup CloserPCs]
        /\ \A q \in Procs : pc'[q] = pc[q] \/ (q = p /\ pc'[q] \in WriterPCs)
    BY <1>7 DEF Mmap, TypeOK, WriterPCs
  <2>d. rwlock' = rwlock /\ metalock' = metalock /\ opened' = opened /\ remaps' = remaps
    BY <1>7 DEF Mmap
  <2>e. mapped' \in BOOLEAN
    BY <2>b
  <2>f. /\ \A q \in Readers : pc'[q] \in ReaderPCs
        /\ \A q \in Writers : pc'[q] \in WriterPCs
        /\ \A q \in Closers : pc'[q] \in CloserPCs
    BY <2>c DEF TypeOK
  <2>1. TypeOK'
    BY <2>a, <2>c, <2>d, <2>e, <2>f DEF TypeOK
  <2>2. LockOwners' BY <1>7 DEF Mmap, TypeOK, LockOwners, HoldsRW, HoldsMeta, HoldsMmapR
  <2>3. WriterOpened' /\ RemapAlone' /\ WriterMapped'
    BY <1>7 DEF Mmap, TypeOK, ReaderPCs, WriterPCs, CloserPCs, LockOwners, HoldsRW,
                HoldsMmapR, WriterOpened, RemapAlone, WriterMapped
  <2> QED BY <2>1, <2>2, <2>3
<1>8. CASE FinishCommit(p)
  <2>1. TypeOK' BY <1>8 DEF FinishCommit, TypeOK, ReaderPCs, WriterPCs, CloserPCs
  <2>2. LockOwners' BY <1>8 DEF FinishCommit, TypeOK, LockOwners, HoldsRW, HoldsMeta, HoldsMmapR
  <2>3. WriterOpened' /\ RemapAlone' /\ WriterMapped'
    BY <1>8 DEF FinishCommit, TypeOK, ReaderPCs, WriterPCs, CloserPCs, LockOwners, HoldsRW,
                HoldsMmapR, WriterOpened, RemapAlone, WriterMapped
  <2> QED BY <2>1, <2>2, <2>3
<1>9. CASE CloseTx(p)
  <2>1. TypeOK' BY <1>9 DEF CloseTx, TypeOK, ReaderPCs, WriterPCs, CloserPCs
  <2>2. LockOwners' BY <1>9 DEF CloseTx, TypeOK, LockOwners, HoldsRW, HoldsMeta, HoldsMmapR
  <2>3. WriterOpened' /\ RemapAlone' /\ WriterMapped'
    BY <1>9 DEF CloseTx, TypeOK, ReaderPCs, WriterPCs, CloserPCs, LockOwners, HoldsRW,
                HoldsMmapR, WriterOpened, RemapAlone, WriterMapped
  <2> QED BY <2>1, <2>2, <2>3
<1> QED BY <1>1, <1>2, <1>3, <1>4, <1>5, <1>6, <1>7, <1>8, <1>9 DEF UpdateStep

(* Every step of Close keeps the invariant. *)
LEMMA CloseKeeps ==
  ASSUME IInv, NEW p \in Closers, CallClose(p) \/ CloseStep(p) PROVE IInv'
<1> USE ProcsDisjoint, ProcsAssumption, BoundsAssumption
        DEF Goto, RLock, RUnlock, UnlockMmap, IInv, Procs
<1>1. CASE CallClose(p)
  <2>1. TypeOK' BY <1>1 DEF CallClose, TypeOK, ReaderPCs, WriterPCs, CloserPCs
  <2>2. LockOwners' BY <1>1 DEF CallClose, TypeOK, LockOwners, HoldsRW, HoldsMeta, HoldsMmapR
  <2>3. WriterOpened' /\ RemapAlone' /\ WriterMapped'
    BY <1>1 DEF CallClose, TypeOK, ReaderPCs, WriterPCs, CloserPCs, LockOwners, HoldsRW,
                HoldsMmapR, WriterOpened, RemapAlone, WriterMapped
  <2> QED BY <2>1, <2>2, <2>3
<1>2. CASE CloseLockRW(p)
  <2>1. TypeOK' BY <1>2 DEF CloseLockRW, TypeOK, ReaderPCs, WriterPCs, CloserPCs
  <2>2. LockOwners' BY <1>2 DEF CloseLockRW, TypeOK, LockOwners, HoldsRW, HoldsMeta, HoldsMmapR
  <2>3. WriterOpened' /\ RemapAlone' /\ WriterMapped'
    BY <1>2 DEF CloseLockRW, TypeOK, ReaderPCs, WriterPCs, CloserPCs, LockOwners, HoldsRW,
                HoldsMmapR, WriterOpened, RemapAlone, WriterMapped
  <2> QED BY <2>1, <2>2, <2>3
<1>3. CASE CloseLockMeta(p)
  <2>1. TypeOK' BY <1>3 DEF CloseLockMeta, TypeOK, ReaderPCs, WriterPCs, CloserPCs
  <2>2. LockOwners' BY <1>3 DEF CloseLockMeta, TypeOK, LockOwners, HoldsRW, HoldsMeta, HoldsMmapR
  <2>3. WriterOpened' /\ RemapAlone' /\ WriterMapped'
    BY <1>3 DEF CloseLockMeta, TypeOK, ReaderPCs, WriterPCs, CloserPCs, LockOwners, HoldsRW,
                HoldsMmapR, WriterOpened, RemapAlone, WriterMapped
  <2> QED BY <2>1, <2>2, <2>3
<1>4. CASE CloseRLockMmap(p)
  <2>1. TypeOK' BY <1>4 DEF CloseRLockMmap, TypeOK, ReaderPCs, WriterPCs, CloserPCs
  <2>2. LockOwners' BY <1>4 DEF CloseRLockMmap, TypeOK, LockOwners, HoldsRW, HoldsMeta, HoldsMmapR
  <2>3. WriterOpened' /\ RemapAlone' /\ WriterMapped'
    BY <1>4 DEF CloseRLockMmap, TypeOK, ReaderPCs, WriterPCs, CloserPCs, LockOwners, HoldsRW,
                HoldsMmapR, WriterOpened, RemapAlone, WriterMapped
  <2> QED BY <2>1, <2>2, <2>3
<1>5. CASE CloseDB(p)
  <2>1. TypeOK' BY <1>5 DEF CloseDB, TypeOK, ReaderPCs, WriterPCs, CloserPCs
  <2>2. LockOwners' BY <1>5 DEF CloseDB, TypeOK, LockOwners, HoldsRW, HoldsMeta, HoldsMmapR
  <2>3. WriterOpened' /\ RemapAlone' /\ WriterMapped'
    BY <1>5 DEF CloseDB, TypeOK, ReaderPCs, WriterPCs, CloserPCs, LockOwners, HoldsRW,
                HoldsMmapR, WriterOpened, RemapAlone, WriterMapped
  <2> QED BY <2>1, <2>2, <2>3
<1> QED BY <1>1, <1>2, <1>3, <1>4, <1>5 DEF CloseStep

\* The invariant is inductive.
LEMMA StepKeeps == IInv /\ [Next]_vars => IInv'
<1> SUFFICES ASSUME IInv, [Next]_vars PROVE IInv'
  OBVIOUS
<1>1. CASE UNCHANGED vars
  BY <1>1 DEF vars, IInv, TypeOK, LockOwners, WriterOpened, RemapAlone, WriterMapped,
              HoldsRW, HoldsMeta, HoldsMmapR
<1>2. CASE Next
  BY <1>2, ViewKeeps, UpdateKeeps, CloseKeeps DEF Next, Call
<1> QED
  BY <1>1, <1>2

\* The inductive invariant holds in every reachable state.
LEMMA Invariance == Spec => []IInv
  BY InitIInv, StepKeeps, PTL DEF Spec

(* The variables have their types whatever the number of goroutines.       *)
THEOREM LocksType == Spec => []TypeOK
<1>1. IInv => TypeOK
  BY DEF IInv
<1> QED
  BY <1>1, Invariance, PTL

(* Each lock is held by exactly the goroutines between its Lock and its    *)
(* Unlock: Begin's early returns, failed commits and Close leak none.      *)
THEOREM LocksOwned == Spec => []LockOwners
<1>1. IInv => LockOwners
  BY DEF IInv
<1> QED
  BY <1>1, Invariance, PTL

(* A write transaction never works on a closed or unmapped database.       *)
THEOREM WritersSafe == Spec => []WritersKeepTheMap
<1>1. IInv => WritersKeepTheMap
  BY DEF IInv, WriterOpened, WriterMapped, WritersKeepTheMap, Writing
<1> QED
  BY <1>1, Invariance, PTL

-----------------------------------------------------------------------------
(* In a set of goroutines that all wait for one another nobody can wait    *)
(* for mmaplock as a writer (the readers it waits for do not wait), hence  *)
(* nobody as a reader, hence nobody for metalock, hence nobody for rwlock. *)
LEMMA NoCircle == IInv => NoCircularWait
<1> SUFFICES ASSUME IInv, NEW S \in SUBSET Procs, S # {},
                    \A p \in S : WaitsFor(p) \cap S # {}
             PROVE FALSE
  BY DEF NoCircularWait
<1>0. TypeOK /\ LockOwners
  BY DEF IInv
<1>1. \A p \in S : pc[p] # "w_wait"
  <2> SUFFICES ASSUME NEW p \in S, pc[p] = "w_wait" PROVE FALSE
    OBVIOUS
  <2>1. PICK q \in S : q \in mmaplock.readers
    BY DEF WaitsFor
  <2>2. HoldsMmapR(q)
    BY <1>0, <2>1 DEF LockOwners
  <2>3. WaitsFor(q) = {}
    BY <2>2 DEF WaitsFor, HoldsMmapR
  <2> QED
    BY <2>3
<1>2. \A p \in S : pc[p] \notin {"r_mmap", "c_mmap"}
  <2> SUFFICES ASSUME NEW p \in S, pc[p] \in {"r_mmap", "c_mmap"} PROVE FALSE
    OBVIOUS
  <2>1. PICK q \in S : mmaplock.writer = q
    BY DEF WaitsFor
  <2>2. pc[q] \in {"w_wait", "w_map"}
    BY <1>0, <2>1 DEF LockOwners
  <2> QED
    BY <1>1, <2>2 DEF WaitsFor
<1>3. \A p \in S : pc[p] \notin {"r_meta", "r_leave", "w_meta", "c_meta"}
  <2> SUFFICES ASSUME NEW p \in S, pc[p] \in {"r_meta", "r_leave", "w_meta", "c_meta"}
               PROVE FALSE
    OBVIOUS
  <2>1. PICK q \in S : metalock = q
    BY DEF WaitsFor
  <2>2. pc[q] \in {"r_mmap", "r_check", "c_mmap", "c_close"}
    BY <1>0, <2>1 DEF LockOwners, HoldsMeta
  <2> QED
    BY <1>2, <2>2 DEF WaitsFor
<1>4. PICK p \in S : pc[p] \in {"w_rw", "c_rw"}
  BY <1>1, <1>2, <1>3 DEF WaitsFor
<1>5. PICK q \in S : rwlock = q
  BY <1>4 DEF WaitsFor
<1>6. HoldsRW(q)
  BY <1>0, <1>5 DEF LockOwners
<1> QED
  BY <1>1, <1>2, <1>3, <1>6 DEF WaitsFor, HoldsRW

(* View, Update and Close never deadlock on the three locks.               *)
THEOREM NoDeadlock == Spec => []NoCircularWait
  BY NoCircle, Invariance, PTL

-----------------------------------------------------------------------------
(* No transaction begins on a closed database.                             *)
THEOREM NoBeginAfterClose == Spec => CloseIsFinal
<1> DEFINE A == ~opened => ~\E p \in Procs : /\ p \notin Reading \cup Writing
                                            /\ p \in (Reading \cup Writing)'
<1>1. IInv /\ [Next]_vars => [A]_vars
  <2> SUFFICES ASSUME IInv, Next, ~opened, NEW q \in Procs,
                      q \notin Reading \cup Writing, q \in (Reading \cup Writing)'
               PROVE FALSE
    OBVIOUS
  <2> USE ProcsDisjoint DEF Goto, Reading, Writing, IInv, TypeOK
  <2>1. ASSUME NEW p \in Readers, CallView(p) \/ ViewStep(p) PROVE FALSE
    BY <2>1 DEF CallView, ViewStep, LockMeta, RLockMmap, BeginTx, ViewBody, RemoveTx,
                Unregister
  <2>2. ASSUME NEW p \in Writers, CallUpdate(p) \/ UpdateStep(p) PROVE FALSE
    BY <2>2 DEF CallUpdate, UpdateStep, LockRW, BeginRWTx, UpdateBody, LockMmap, Munmap,
                Mmap, FinishCommit, CloseTx, WriterOpened
  <2>3. ASSUME NEW p \in Closers, CallClose(p) \/ CloseStep(p) PROVE FALSE
    BY <2>3 DEF CallClose, CloseStep, CloseLockRW, CloseLockMeta, CloseRLockMmap, CloseDB
  <2> QED
    BY <2>1, <2>2, <2>3 DEF Next, Call
<1>2. Spec => [][A]_vars
  BY <1>1, Invariance, PTL DEF Spec
<1> QED
  BY <1>2 DEF CloseIsFinal

-----------------------------------------------------------------------------
(* Before Close the map is missing only while no transaction reads it.     *)
MapMissing == mapped \/ Reading = {} \/ ~opened

\* A remap takes the map away only when there are no readers left.
LEMMA ReadersKeep == IInv /\ MapMissing /\ [Next]_vars => MapMissing'
<1> SUFFICES ASSUME IInv, MapMissing, [Next]_vars PROVE MapMissing'
  OBVIOUS
<1> USE ProcsDisjoint DEF Goto, Reading, IInv, TypeOK, MapMissing
<1>1. ASSUME NEW p \in Readers, CallView(p) \/ ViewStep(p) PROVE MapMissing'
  BY <1>1 DEF CallView, ViewStep, LockMeta, RLockMmap, BeginTx, ViewBody, RemoveTx, Unregister
<1>2. ASSUME NEW p \in Writers, Munmap(p) \/ Mmap(p) PROVE MapMissing'
  BY <1>2 DEF Munmap, Mmap, LockOwners, HoldsMmapR, RemapAlone
<1>3. ASSUME NEW p \in Writers,
             \/ CallUpdate(p) \/ LockRW(p) \/ BeginRWTx(p) \/ UpdateBody(p)
             \/ LockMmap(p) \/ FinishCommit(p) \/ CloseTx(p)
      PROVE MapMissing'
  BY <1>3 DEF CallUpdate, LockRW, BeginRWTx, UpdateBody, LockMmap, FinishCommit, CloseTx
<1>4. ASSUME NEW p \in Closers, CallClose(p) \/ CloseStep(p) PROVE MapMissing'
  BY <1>4 DEF CallClose, CloseStep, CloseLockRW, CloseLockMeta, CloseRLockMmap, CloseDB
<1>5. CASE UNCHANGED vars
  BY <1>5 DEF vars
<1> QED
  BY <1>1, <1>2, <1>3, <1>4, <1>5 DEF Next, Call, UpdateStep

(* Until Close, a reader's map is never taken away, however many remaps    *)
(* the writers make and whether they fail or not.                          *)
THEOREM ReadersSafe == Spec => []ReadersKeepTheMap
<1>1. Init => MapMissing
  BY DEF Init, MapMissing
<1>2. MapMissing => ReadersKeepTheMap
  BY DEF MapMissing, ReadersKeepTheMap
<1> QED
  BY <1>1, <1>2, ReadersKeep, Invariance, PTL DEF Spec
=============================================================================
