-------------------------------- MODULE Batch --------------------------------
(***************************************************************************)
(* DB.Batch: calls of many goroutines are gathered in a batch that runs in *)
(* one Update.  A function that fails is taken out, its caller runs it     *)
(* alone, and the batch is tried again without it.                         *)
(*                                                                         *)
(* Update is taken as Locks and Bolt give it: exclusive and atomic; a      *)
(* Commit that fails may have taken effect (its last sync failed).  A      *)
(* function that panics when its caller runs it alone leaves the writer    *)
(* lock taken (Locks): here such a function returns.  Every caller calls   *)
(* once, so no more batches are made than there are callers.               *)
(***************************************************************************)
EXTENDS Naturals, Sequences

CONSTANTS Callers,
          MaxBatchSize, \* DB.MaxBatchSize; 0 disables batching
          MaxBatches,   \* batches made in all (bound)
          NoOne

ASSUME BatchAssumption ==
  /\ MaxBatchSize \in Nat
  /\ MaxBatches \in Nat
  /\ NoOne \notin Callers \cup Nat
  /\ \A c \in Callers : c \notin Nat

BatchIds == 1 .. MaxBatches

VARIABLES
  pc,           \* pc[c]: where caller c is in Batch
  err,          \* err[c]: what c's channel holds, or what its call returned
  batch,        \* DB.batch, 0 for nil
  made,         \* number of batches made so far
  calls,        \* calls[b]: the callers in b, in order
  stage,        \* stage[b]: where b's run is
  i,            \* i[b]: the index of the call run is at
  writer,       \* the batch or caller whose Update has the writer lock
  dirty,        \* the callers whose effects are in the open transaction
  committed     \* committed[c]: how often c's effects have been committed

callVars == <<pc, err>>
batchVars == <<batch, made, calls>>
runVars == <<stage, i>>
dbVars == <<writer, dirty, committed>>
vars == <<callVars, batchVars, runVars, dbVars>>

Range(s) == {s[k] : k \in DOMAIN s}

Init ==
  /\ pc = [c \in Callers |-> "begin"]
  /\ err = [c \in Callers |-> "none"]
  /\ batch = 0
  /\ made = 0
  /\ calls = [b \in BatchIds |-> <<>>]
  /\ stage = [b \in BatchIds |-> "none"]
  /\ i = [b \in BatchIds |-> 0]
  /\ writer = NoOne
  /\ dirty = {}
  /\ committed = [c \in Callers |-> 0]

Goto(c, from, to) ==
  /\ pc[c] = from
  /\ pc' = [pc EXCEPT ![c] = to]

Stage(b, from, to) ==
  /\ stage[b] = from
  /\ stage' = [stage EXCEPT ![b] = to]

Send(cs, e) == err' = [c \in Callers |-> IF c \in cs THEN e ELSE err[c]]

Committed(cs) ==
  committed' = [c \in Callers |-> committed[c] + IF c \in cs THEN 1 ELSE 0]

-----------------------------------------------------------------------------
\* Batch, up to the wait for the channel: one critical section of batchMu.

Full(b) == Len(calls[b]) >= MaxBatchSize

\* Variant: a full batch that has not started yet is joined.
JoinFull(c) ==
  LET b == IF batch = 0 THEN made + 1 ELSE batch
  IN  /\ b \in BatchIds
      /\ Goto(c, "begin", "wait")
      /\ batch' = b
      /\ made' = IF batch = 0 THEN b ELSE made
      /\ calls' = [calls EXCEPT ![b] = Append(@, c)]
      /\ stage' = [stage EXCEPT ![b] = IF @ = "none" THEN "armed" ELSE @]
      /\ UNCHANGED <<err, i, dbVars>>

\* The batch starts by its timer, or by the call that fills it.
Join(c) ==
  LET b == IF batch = 0 \/ Full(batch) THEN made + 1 ELSE batch
  IN  /\ b \in BatchIds
      /\ Goto(c, "begin", "wait")
      /\ batch' = b
      /\ made' = IF b = batch THEN made ELSE b
      /\ calls' = [calls EXCEPT ![b] = Append(@, c)]
      /\ stage' = [stage EXCEPT ![b] = IF @ = "none" THEN "armed" ELSE @]
      /\ UNCHANGED <<err, i, dbVars>>

\* What was sent: the outcome, or the request to run alone.
Receive(c) ==
  /\ pc[c] = "wait" /\ err[c] # "none"
  /\ pc' = [pc EXCEPT ![c] = IF err[c] = "trySolo" THEN "solo" ELSE "returned"]
  /\ UNCHANGED <<err, batchVars, runVars, dbVars>>

\* Update(fn) by the caller itself: fn may succeed this time.
BeginSolo(c) ==
  /\ Goto(c, "solo", "soloTx")
  /\ writer = NoOne
  /\ writer' = c
  /\ UNCHANGED <<err, batchVars, runVars, dirty, committed>>

\* fn and Commit succeed; or one of them fails, Commit perhaps after the fact.
EndSolo(c) ==
  /\ Goto(c, "soloTx", "returned")
  /\ \/ Committed({c}) /\ Send({c}, "nil")
     \/ (Committed({c}) \/ Committed({})) /\ Send({c}, "error")
  /\ writer' = NoOne
  /\ UNCHANGED <<batchVars, runVars, dirty>>

-----------------------------------------------------------------------------
\* batch.run: once, by whichever of the timer and the full batch comes first.

\* Variant: calls may still be added to the batch that runs.
StartLeavingBatch(b) ==
  /\ Stage(b, "armed", "retry")
  /\ UNCHANGED <<callVars, batchVars, i, dbVars>>

Start(b) ==
  /\ Stage(b, "armed", "retry")
  /\ batch' = IF batch = b THEN 0 ELSE batch
  /\ UNCHANGED <<callVars, made, calls, i, dbVars>>

\* The retry loop ends when no call is left.
Finish(b) ==
  /\ calls[b] = <<>>
  /\ Stage(b, "retry", "done")
  /\ UNCHANGED <<callVars, batchVars, i, dbVars>>

\* Update begins its transaction, or fails to (the database is closed).
BeginUpdate(b) ==
  /\ calls[b] # <<>>
  /\ writer = NoOne
  /\ \/ /\ Stage(b, "retry", "calling")
        /\ i' = [i EXCEPT ![b] = 1]
        /\ writer' = b
        /\ UNCHANGED err
     \/ /\ Stage(b, "retry", "done")
        /\ Send(Range(calls[b]), "error")
        /\ UNCHANGED <<i, writer>>
  /\ UNCHANGED <<pc, batchVars, dirty, committed>>

\* safelyCall(fn): nil, or an error or a panic, which rolls the transaction back.
CallFn(b) ==
  /\ stage[b] = "calling" /\ i[b] <= Len(calls[b])
  /\ \/ /\ dirty' = dirty \cup {calls[b][i[b]]}
        /\ i' = [i EXCEPT ![b] = @ + 1]
        /\ UNCHANGED <<stage, writer>>
     \/ /\ Stage(b, "calling", "failed")
        /\ dirty' = {}
        /\ writer' = NoOne
        /\ UNCHANGED i
  /\ UNCHANGED <<callVars, batchVars, committed>>

\* Variant: the last call is dropped, not the failed one.
ShortenedAtEnd(s, k) == SubSeq(s, 1, Len(s) - 1)

Shortened(s, k) == [j \in 1 .. Len(s) - 1 |-> IF j = k THEN s[Len(s)] ELSE s[j]]

\* The failed call leaves the batch, its caller is told to run alone.
TrySolo(b) ==
  /\ Stage(b, "failed", "retry")
  /\ Send({calls[b][i[b]]}, "trySolo")
  /\ calls' = [calls EXCEPT ![b] = Shortened(@, i[b])]
  /\ UNCHANGED <<pc, batch, made, i, dbVars>>

\* Variant: Commit's error is not looked at.
CommitUnchecked(b) ==
  /\ i[b] > Len(calls[b])
  /\ Stage(b, "calling", "done")
  /\ Committed(dirty) \/ Committed({})
  /\ Send(Range(calls[b]), "nil")
  /\ dirty' = {}
  /\ writer' = NoOne
  /\ UNCHANGED <<pc, batchVars, i>>

\* Commit, whose outcome goes to every call that is left.
Commit(b) ==
  /\ i[b] > Len(calls[b])
  /\ Stage(b, "calling", "done")
  /\ \/ Committed(dirty) /\ Send(Range(calls[b]), "nil")
     \/ (Committed(dirty) \/ Committed({})) /\ Send(Range(calls[b]), "error")
  /\ dirty' = {}
  /\ writer' = NoOne
  /\ UNCHANGED <<pc, batchVars, i>>

-----------------------------------------------------------------------------
CallerStep(c) == Receive(c) \/ BeginSolo(c) \/ EndSolo(c)

Run(b) == Start(b) \/ Finish(b) \/ BeginUpdate(b) \/ CallFn(b) \/ TrySolo(b) \/ Commit(b)

Next ==
  \/ \E c \in Callers : Join(c) \/ CallerStep(c)
  \/ \E b \in BatchIds : Run(b)

Spec == Init /\ [][Next]_vars

\* The process does not stop: timers fire, functions return, and a lock that can
\* be had is taken.  Since every caller calls once this is all that is needed.
Fairness == WF_vars((\E c \in Callers : CallerStep(c)) \/ (\E b \in BatchIds : Run(b)))

FairSpec == Spec /\ Fairness

-----------------------------------------------------------------------------
TypeOK ==
  /\ pc \in [Callers -> {"begin", "wait", "solo", "soloTx", "returned"}]
  /\ err \in [Callers -> {"none", "trySolo", "nil", "error"}]
  /\ made \in 0 .. MaxBatches
  /\ batch \in 0 .. made
  /\ calls \in [BatchIds -> Seq(Callers)]
  /\ stage \in [BatchIds -> {"none", "armed", "retry", "calling", "failed", "done"}]
  /\ i \in [BatchIds -> Nat]
  /\ writer \in Callers \cup BatchIds \cup {NoOne}
  /\ dirty \subseteq Callers
  /\ committed \in [Callers -> Nat]

(* A batch never holds more calls than MaxBatchSize (a single one where    *)
(* batching is disabled).                                                  *)
BatchBounded == \A b \in BatchIds : Len(calls[b]) <= MaxBatchSize \/ Len(calls[b]) = 1

(* A caller that was told nil has its effects in the database exactly      *)
(* once, one that was told an error at most once and one that has no       *)
(* answer yet not at all, however often its function was run, in the batch *)
(* and alone, and whatever became of the others in its batch.              *)
ExactlyOnce ==
  \A c \in Callers :
    /\ err[c] = "nil" => committed[c] = 1
    /\ err[c] = "error" => committed[c] <= 1
    /\ err[c] \in {"none", "trySolo"} => committed[c] = 0

Waiting == {c \in Callers : pc[c] = "wait" /\ err[c] = "none"}

\* The batches whose run has not ended.
Live == {b \in BatchIds : stage[b] \notin {"none", "done"}}

IsDistinct(s) == \A k, l \in DOMAIN s : s[k] = s[l] => k = l

(* A caller that waits for an answer is in exactly one batch that has not  *)
(* ended, at one place in it, and no other caller is: nobody is forgotten  *)
(* when failed calls are taken out or when a full batch is replaced.       *)
WaitingIsQueued ==
  /\ Waiting = UNION {Range(calls[b]) : b \in Live}
  /\ \A b \in Live : IsDistinct(calls[b])
  /\ \A b, d \in Live : b # d => Range(calls[b]) \cap Range(calls[d]) = {}

(* Every call of Batch returns.                                            *)
EveryBatchReturns == \A c \in Callers : pc[c] # "begin" ~> pc[c] = "returned"
=============================================================================
