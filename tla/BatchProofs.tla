----------------------------- MODULE BatchProofs -----------------------------
(***************************************************************************)
(* Proofs about Batch for any number of callers and any batch size.  The   *)
(* inductive invariant is WaitingIsQueued with what ties the open          *)
(* transaction to the run that opened it.                                  *)
(***************************************************************************)
EXTENDS Batch, TLAPS

\* A batch exists from Join on, and only the one that has not started is joined.
BatchesMade ==
  /\ \A b \in BatchIds : b > made => stage[b] = "none"
  /\ \A b \in BatchIds : stage[b] = "none" => calls[b] = <<>>
  /\ batch # 0 => stage[batch] = "armed"

\* A caller's channel and count follow its position.
CallersKnow ==
  \A c \in Callers :
    /\ pc[c] = "begin" => err[c] = "none"
    /\ pc[c] \in {"solo", "soloTx"} => err[c] = "trySolo"

\* The writer is in its transaction.
WriterKnown ==
  /\ \A b \in BatchIds : stage[b] = "calling" <=> writer = b
  /\ \A c \in Callers : pc[c] = "soloTx" <=> writer = c

\* What the open transaction holds are the calls its run has made so far.
DirtyKnown ==
  /\ \A b \in BatchIds :
       stage[b] = "calling" =>
         /\ i[b] \in 1 .. Len(calls[b]) + 1
         /\ dirty = {calls[b][k] : k \in 1 .. i[b] - 1}
  /\ (\A b \in BatchIds : stage[b] # "calling") => dirty = {}
  /\ \A b \in BatchIds : stage[b] = "failed" => i[b] \in 1 .. Len(calls[b])

BInv ==
  /\ TypeOK /\ BatchesMade /\ CallersKnow /\ WriterKnown /\ DirtyKnown
  /\ WaitingIsQueued /\ ExactlyOnce

-----------------------------------------------------------------------------
\* A caller that joins is added at the end of the batch.
LEMMA AppendRange ==
  ASSUME NEW s \in Seq(Callers), NEW c \in Callers, IsDistinct(s), c \notin Range(s)
  PROVE  /\ Append(s, c) \in Seq(Callers)
         /\ Range(Append(s, c)) = Range(s) \cup {c}
         /\ IsDistinct(Append(s, c))
<1>1. /\ Append(s, c) \in Seq(Callers)
      /\ DOMAIN Append(s, c) = 1 .. Len(s) + 1
      /\ \A k \in 1 .. Len(s) : Append(s, c)[k] = s[k]
      /\ Append(s, c)[Len(s) + 1] = c
      /\ DOMAIN s = 1 .. Len(s) /\ Len(s) \in Nat
  OBVIOUS
<1>2. \A k \in 1 .. Len(s) + 1 : k \in 1 .. Len(s) \/ k = Len(s) + 1
  BY <1>1
<1>3. 1 .. Len(s) \subseteq 1 .. Len(s) + 1 /\ Len(s) + 1 \in 1 .. Len(s) + 1
  BY <1>1
<1>4. Range(Append(s, c)) = Range(s) \cup {c}
  BY <1>1, <1>2, <1>3 DEF Range
<1>5. \A k \in 1 .. Len(s) : s[k] # c
  BY <1>1 DEF Range
<1>6. IsDistinct(Append(s, c))
  BY <1>1, <1>2, <1>5 DEF IsDistinct
<1> QED
  BY <1>1, <1>4, <1>6

\* Taking out the failed call loses no other.
LEMMA ShortenedRange ==
  ASSUME NEW s \in Seq(Callers), NEW k \in 1 .. Len(s), IsDistinct(s)
  PROVE  /\ Shortened(s, k) \in Seq(Callers)
         /\ Range(Shortened(s, k)) = Range(s) \ {s[k]}
         /\ IsDistinct(Shortened(s, k))
         /\ s[k] \in Range(s) /\ s[k] \in Callers
<1> DEFINE t == Shortened(s, k)
           n == Len(s)
<1>1. /\ n \in Nat /\ DOMAIN s = 1 .. n /\ k \in Nat /\ 1 <= k /\ k <= n
      /\ \A j \in 1 .. n : s[j] \in Callers
  OBVIOUS
<1>a. \A m \in Nat : m >= 1 =>
        /\ m - 1 \in Nat /\ m \in 1 .. m
        /\ \A j \in 1 .. m - 1 : j \in 1 .. m /\ j # m
        /\ \A j \in 1 .. m : j = m \/ j \in 1 .. m - 1
  OBVIOUS
<1> HIDE DEF n
<1>b. n >= 1
  BY <1>1
<1>4. /\ n - 1 \in Nat /\ n \in 1 .. n
      /\ \A j \in 1 .. n - 1 : j \in 1 .. n /\ j # n
      /\ \A j \in 1 .. n : j = n \/ j \in 1 .. n - 1
  BY <1>a, <1>b, <1>1
<1>2. t = [j \in 1 .. n - 1 |-> IF j = k THEN s[n] ELSE s[j]]
  BY DEF Shortened, n
<1>c. DOMAIN t = 1 .. n - 1
  BY <1>2
<1>3. \A j \in 1 .. n - 1 : t[j] = IF j = k THEN s[n] ELSE s[j]
  BY <1>2
<1> HIDE DEF t
<1>5. t \in Seq(Callers)
  <2>1. \A j \in 1 .. n - 1 : t[j] \in Callers
    BY <1>1, <1>3, <1>4
  <2>2. t = [j \in 1 .. n - 1 |-> t[j]]
    BY <1>2, <1>c
  <2> QED
    BY <2>1, <2>2, <1>4
<1>6. \A x, y \in 1 .. n : s[x] = s[y] => x = y
  BY <1>1 DEF IsDistinct
<1>7. Range(t) \subseteq Range(s) \ {s[k]}
  BY <1>1, <1>c, <1>3, <1>4, <1>4, <1>6 DEF Range
<1>8. Range(s) \ {s[k]} \subseteq Range(t)
  <2> SUFFICES ASSUME NEW x \in 1 .. n, s[x] # s[k] PROVE \E j \in 1 .. n - 1 : t[j] = s[x]
    BY <1>1, <1>c DEF Range
  <2>1. CASE x = n
    BY <2>1, <1>3, <1>4, <1>1
  <2>2. CASE x # n
    BY <2>2, <1>3, <1>4
  <2> QED
    BY <2>1, <2>2
<1>9. IsDistinct(t)
  BY <1>1, <1>c, <1>3, <1>4, <1>4, <1>6 DEF IsDistinct
<1>10. s[k] \in Range(s) /\ s[k] \in Callers
  BY <1>1 DEF Range
<1> QED
  BY <1>5, <1>7, <1>8, <1>9, <1>10 DEF t

\* The invariant holds before the first call.
LEMMA InitBInv == Init => BInv
  BY BatchAssumption
     DEF Init, BInv, TypeOK, BatchesMade, CallersKnow, WriterKnown, DirtyKnown, WaitingIsQueued,
         ExactlyOnce, Waiting, Live, BatchIds, Range

\* Names of batches and of callers, and no name, are different things.
LEMMA NamesApart ==
  /\ \A b \in BatchIds : b \in Nat /\ b >= 1 /\ b # NoOne
  /\ \A c \in Callers, b \in BatchIds : c # b
  /\ \A c \in Callers : c # NoOne
  BY BatchAssumption DEF BatchIds

\* The queues when some batches end and their callers are answered.
LEMMA QueueKept ==
  ASSUME WaitingIsQueued, Live' \subseteq Live, \A b \in Live' : calls'[b] = calls[b],
         Waiting' = Waiting \ UNION {Range(calls[b]) : b \in Live \ Live'}
  PROVE  WaitingIsQueued'
<1>1. Waiting' = UNION {Range(calls'[b]) : b \in Live'}
  <2>1. ASSUME NEW c \in Waiting' PROVE \E b \in Live' : c \in Range(calls'[b])
    <3>1. PICK b \in Live : c \in Range(calls[b])
      BY <2>1 DEF WaitingIsQueued
    <3>2. b \in Live'
      BY <2>1, <3>1
    <3> QED
      BY <3>1, <3>2
  <2>2. ASSUME NEW b \in Live', NEW c \in Range(calls'[b]) PROVE c \in Waiting'
    <3>1. c \in Range(calls[b]) /\ b \in Live
      OBVIOUS
    <3>2. c \in Waiting
      BY <3>1 DEF WaitingIsQueued
    <3>3. ASSUME NEW d \in Live \ Live', c \in Range(calls[d]) PROVE FALSE
      BY <3>1, <3>3 DEF WaitingIsQueued
    <3> QED
      BY <3>2, <3>3
  <2> QED
    BY <2>1, <2>2
<1>2. /\ \A b \in Live' : IsDistinct(calls'[b])
      /\ \A b, d \in Live' : b # d => Range(calls'[b]) \cap Range(calls'[d]) = {}
  BY DEF WaitingIsQueued
<1> QED
  BY <1>1, <1>2 DEF WaitingIsQueued

\* A run that moves on stays live until it is done.
LEMMA LiveAfter ==
  ASSUME TypeOK, NEW b \in BatchIds, NEW from, NEW to, Stage(b, from, to),
         from \notin {"none", "done"}, to # "none"
  PROVE  /\ b \in Live
         /\ Live' = IF to = "done" THEN Live \ {b} ELSE Live
         /\ \A d \in BatchIds : stage'[d] = IF d = b THEN to ELSE stage[d]
<1>1. \A d \in BatchIds : stage'[d] = IF d = b THEN to ELSE stage[d]
  BY DEF TypeOK, Stage
<1> QED
  BY <1>1 DEF Stage, Live

\* Who is answered waits no longer.
LEMMA WaitingAfter ==
  ASSUME TypeOK, NEW cs, NEW e, Send(cs, e), UNCHANGED pc, e # "none"
  PROVE  Waiting' = Waiting \ cs
  BY DEF TypeOK, Send, Waiting

\* What sending does to the channels.
LEMMA SendTyped ==
  ASSUME TypeOK, NEW cs, NEW e \in {"nil", "error", "trySolo"}, Send(cs, e)
  PROVE  /\ err' \in [Callers -> {"none", "trySolo", "nil", "error"}]
         /\ \A c \in Callers : err'[c] = IF c \in cs THEN e ELSE err[c]
  BY DEF TypeOK, Send

\* What committing does to the counts.
LEMMA CommittedTyped ==
  ASSUME TypeOK, NEW cs, Committed(cs)
  PROVE  /\ committed' \in [Callers -> Nat]
         /\ \A c \in Callers : committed'[c] = IF c \in cs THEN committed[c] + 1 ELSE committed[c]
<1>1. \A c \in Callers : committed[c] \in Nat
  BY DEF TypeOK
<1>2. \A c \in Callers : committed'[c] = IF c \in cs THEN committed[c] + 1 ELSE committed[c]
  BY <1>1 DEF Committed
<1>3. \A c \in Callers : committed'[c] \in Nat
  BY <1>1, <1>2
<1> QED
  BY <1>2, <1>3 DEF Committed

\* The calls of a batch.
LEMMA CallsTyped ==
  ASSUME TypeOK, NEW b \in BatchIds
  PROVE  /\ calls[b] \in Seq(Callers) /\ Len(calls[b]) \in Nat /\ i[b] \in Nat
         /\ DOMAIN calls[b] = 1 .. Len(calls[b])
         /\ \A k \in 1 .. Len(calls[b]) : calls[b][k] \in Callers
         /\ Range(calls[b]) \subseteq Callers
<1>1. calls[b] \in Seq(Callers) /\ i[b] \in Nat
  BY DEF TypeOK
<1> QED
  BY <1>1 DEF Range

\* Joining puts the caller in one batch that has not started.
LEMMA JoinKeeps == ASSUME BInv, NEW c \in Callers, Join(c) PROVE BInv'
<1> USE NamesApart DEF BInv, callVars, batchVars, runVars, dbVars
<1> DEFINE b == IF batch = 0 \/ Full(batch) THEN made + 1 ELSE batch
<1>1. /\ b \in BatchIds /\ pc[c] = "begin" /\ pc' = [pc EXCEPT ![c] = "wait"]
      /\ batch' = b /\ made' = IF b = batch THEN made ELSE b
      /\ calls' = [calls EXCEPT ![b] = Append(@, c)]
      /\ stage' = [stage EXCEPT ![b] = IF @ = "none" THEN "armed" ELSE @]
      /\ UNCHANGED <<err, i, dbVars>>
  BY DEF Join, Goto
<1>2. /\ made \in Nat /\ made <= MaxBatches /\ batch \in Nat /\ batch <= made
      /\ made + 1 > made /\ MaxBatches \in Nat
      /\ b = made + 1 \/ (b = batch /\ batch # 0)
  BY BatchAssumption DEF TypeOK
<1>3. /\ stage[b] \in {"none", "armed"}
      /\ stage[b] = "none" => calls[b] = <<>>
  BY <1>1, <1>2 DEF BatchesMade
<1>4. made' \in 0 .. MaxBatches /\ batch' \in 0 .. made' /\ made <= made' /\ b <= made'
  BY <1>1, <1>2 DEF BatchIds
<1> HIDE DEF b
<1>5. \A d \in BatchIds : stage'[d] = IF d = b THEN "armed" ELSE stage[d]
  BY <1>1, <1>3 DEF TypeOK
<1>6. \A d \in BatchIds : calls'[d] = IF d = b THEN Append(calls[b], c) ELSE calls[d]
  BY <1>1 DEF TypeOK
<1>7. c \notin Waiting
  BY <1>1 DEF Waiting
<1>8. /\ IsDistinct(calls[b]) /\ c \notin Range(calls[b])
      /\ \A d \in Live : c \notin Range(calls[d])
  <2>1. \A d \in Live : c \notin Range(calls[d])
    BY <1>7 DEF WaitingIsQueued
  <2>2. CASE stage[b] = "none"
    BY <2>1, <2>2, <1>3 DEF IsDistinct, Range
  <2>3. CASE stage[b] = "armed"
    BY <2>1, <2>3, <1>1 DEF Live, WaitingIsQueued
  <2> QED
    BY <2>1, <2>2, <2>3, <1>3
<1>9. /\ Append(calls[b], c) \in Seq(Callers)
      /\ Range(Append(calls[b], c)) = Range(calls[b]) \cup {c}
      /\ IsDistinct(Append(calls[b], c))
  BY <1>1, <1>8, CallsTyped, AppendRange
<1>10. TypeOK'
  <2>1. calls' \in [BatchIds -> Seq(Callers)]
    BY <1>1, <1>6, <1>9 DEF TypeOK
  <2>2. stage' \in [BatchIds -> {"none", "armed", "retry", "calling", "failed", "done"}]
    BY <1>1, <1>5 DEF TypeOK
  <2> QED
    BY <2>1, <2>2, <1>1, <1>4 DEF TypeOK
<1>11. BatchesMade'
  <2>1. \A d \in BatchIds : d > made' => d > made /\ d # b
    BY <1>2, <1>4, <1>1
  <2> QED
    BY <2>1, <1>1, <1>5, <1>6 DEF BatchesMade
<1>12. CallersKnow'
  BY <1>1 DEF TypeOK, CallersKnow
<1>13. WriterKnown'
  BY <1>1, <1>3, <1>5 DEF TypeOK, WriterKnown
<1>14. DirtyKnown'
  <2>1. \A d \in BatchIds : stage'[d] \in {"calling", "failed"} => stage'[d] = stage[d] /\ d # b
    BY <1>5
  <2>2. \A d \in BatchIds : stage[d] = "calling" => stage'[d] = "calling"
    BY <1>3, <1>5
  <2> QED
    BY <2>1, <2>2, <1>1, <1>6 DEF DirtyKnown
<1>15. WaitingIsQueued'
  <2>1. Waiting' = Waiting \cup {c}
    BY <1>1 DEF TypeOK, Waiting, CallersKnow
  <2>2. Live' = Live \cup {b}
    BY <1>1, <1>5, <1>3 DEF Live
  <2>3. \A d \in Live' :
          Range(calls'[d]) = IF d = b THEN Range(calls[b]) \cup {c} ELSE Range(calls[d])
    <3> SUFFICES ASSUME NEW d \in Live'
                 PROVE  Range(calls'[d]) =
                          IF d = b THEN Range(calls[b]) \cup {c} ELSE Range(calls[d])
      OBVIOUS
    <3>1. d \in BatchIds
      BY DEF Live
    <3>2. CASE d = b
      BY <3>1, <3>2, <1>6, <1>9
    <3>3. CASE d # b
      BY <3>1, <3>3, <1>6
    <3> QED
      BY <3>2, <3>3
  <2>4. b \notin Live => Range(calls[b]) = {}
    BY <1>3, <1>1 DEF Live, Range
  <2>5. Waiting' = UNION {Range(calls'[d]) : d \in Live'}
    <3>1. c \in Range(calls'[b]) /\ b \in Live'
      BY <2>2, <2>3
    <3>2. ASSUME NEW x \in Waiting PROVE \E d \in Live' : x \in Range(calls'[d])
      <4>1. PICK d \in Live : x \in Range(calls[d])
        BY <3>2 DEF WaitingIsQueued
      <4> QED
        BY <4>1, <2>2, <2>3
    <3>3. ASSUME NEW d \in Live', NEW x \in Range(calls'[d]) PROVE x \in Waiting'
      <4>1. CASE x = c
        BY <4>1, <2>1
      <4>2. CASE x # c
        <5>1. x \in Range(calls[d])
          BY <4>2, <2>3, <3>3
        <5>2. d \in Live
          BY <5>1, <2>2, <2>4
        <5> QED
          BY <5>1, <5>2, <2>1 DEF WaitingIsQueued
      <4> QED
        BY <4>1, <4>2
    <3> QED
      BY <3>1, <3>2, <3>3, <2>1
  <2>6. \A d \in Live' : IsDistinct(calls'[d])
    BY <2>2, <1>6, <1>9, <1>1 DEF WaitingIsQueued, Live
  <2>7. ASSUME NEW d \in Live', NEW e \in Live', d # e
        PROVE  Range(calls'[d]) \cap Range(calls'[e]) = {}
    <3>1. CASE d # b /\ e # b
      BY <3>1, <2>7, <2>2, <2>3 DEF WaitingIsQueued
    <3>2. CASE d = b
      <4>1. Range(calls[b]) \cap Range(calls[e]) = {}
        BY <3>2, <2>7, <2>2, <2>4 DEF WaitingIsQueued
      <4> QED
        BY <4>1, <3>2, <2>7, <2>2, <2>3, <1>8
    <3>3. CASE e = b
      <4>1. Range(calls[d]) \cap Range(calls[b]) = {}
        BY <3>3, <2>7, <2>2, <2>4 DEF WaitingIsQueued
      <4> QED
        BY <4>1, <3>3, <2>7, <2>2, <2>3, <1>8
    <3> QED
      BY <3>1, <3>2, <3>3
  <2> QED
    BY <2>5, <2>6, <2>7 DEF WaitingIsQueued
<1>16. ExactlyOnce'
  BY <1>1 DEF TypeOK, ExactlyOnce
<1> QED
  BY <1>10, <1>11, <1>12, <1>13, <1>14, <1>15, <1>16

\* An answer is taken.
LEMMA ReceiveKeeps == ASSUME BInv, NEW c \in Callers, Receive(c) PROVE BInv'
<1> USE NamesApart DEF BInv, Goto, Stage, callVars, batchVars, runVars, dbVars
<1>1. TypeOK'
  BY DEF Receive, TypeOK
<1>2. BatchesMade'
  BY DEF Receive, TypeOK, BatchesMade
<1>3. CallersKnow'
  BY DEF Receive, TypeOK, CallersKnow
<1>4. WriterKnown'
  BY DEF Receive, TypeOK, WriterKnown
<1>5. DirtyKnown'
  BY DEF Receive, TypeOK, DirtyKnown, WriterKnown
<1>6. WaitingIsQueued'
  BY QueueKept DEF Receive, TypeOK, Waiting, Live
<1>7. ExactlyOnce'
  BY DEF Receive, TypeOK, ExactlyOnce, CallersKnow
<1> QED
  BY <1>1, <1>2, <1>3, <1>4, <1>5, <1>6, <1>7

\* A caller runs alone.
LEMMA BeginSoloKeeps == ASSUME BInv, NEW c \in Callers, BeginSolo(c) PROVE BInv'
<1> USE NamesApart DEF BInv, Goto, Stage, callVars, batchVars, runVars, dbVars
<1>1. TypeOK'
  BY DEF BeginSolo, TypeOK
<1>2. BatchesMade'
  BY DEF BeginSolo, TypeOK, BatchesMade
<1>3. CallersKnow'
  BY DEF BeginSolo, TypeOK, CallersKnow
<1>4. WriterKnown'
  BY DEF BeginSolo, TypeOK, WriterKnown
<1>5. DirtyKnown'
  BY DEF BeginSolo, TypeOK, DirtyKnown, WriterKnown
<1>6. WaitingIsQueued'
  BY QueueKept DEF BeginSolo, TypeOK, Waiting, Live
<1>7. ExactlyOnce'
  BY DEF BeginSolo, TypeOK, ExactlyOnce, CallersKnow
<1> QED
  BY <1>1, <1>2, <1>3, <1>4, <1>5, <1>6, <1>7

\* The caller's own Update ends.
LEMMA EndSoloKeeps == ASSUME BInv, NEW c \in Callers, EndSolo(c) PROVE BInv'
<1> USE NamesApart DEF BInv, Goto, Stage, callVars, batchVars, runVars, dbVars
<1>a. PICK e \in {"nil", "error"}, cs \in {{c}, {}} :
        Send({c}, e) /\ Committed(cs) /\ (e = "nil" => cs = {c})
  <2>1. \/ Committed({c}) /\ Send({c}, "nil")
        \/ Committed({c}) /\ Send({c}, "error")
        \/ Committed({}) /\ Send({c}, "error")
    BY DEF EndSolo
  <2> QED
    BY <2>1
<1>b. /\ err' \in [Callers -> {"none", "trySolo", "nil", "error"}]
      /\ \A d \in Callers : err'[d] = IF d = c THEN e ELSE err[d]
  BY <1>a, SendTyped
<1>c. /\ committed' \in [Callers -> Nat]
      /\ \A d \in Callers : committed'[d] = IF d \in cs THEN committed[d] + 1 ELSE committed[d]
  BY <1>a, CommittedTyped
<1>1. TypeOK'
  BY <1>b, <1>c DEF EndSolo, TypeOK
<1>2. BatchesMade'
  BY DEF EndSolo, TypeOK, BatchesMade
<1>3. CallersKnow'
  BY <1>b DEF EndSolo, TypeOK, CallersKnow
<1>4. WriterKnown'
  BY DEF EndSolo, TypeOK, WriterKnown
<1>5. DirtyKnown'
  BY DEF EndSolo, TypeOK, DirtyKnown, WriterKnown
<1>6. WaitingIsQueued'
  <2>1. Waiting' = Waiting
    BY <1>b DEF EndSolo, TypeOK, Waiting, CallersKnow
  <2>2. Live' = Live
    BY DEF EndSolo, Live
  <2> QED
    BY <2>1, <2>2, QueueKept DEF EndSolo
<1>7. ExactlyOnce'
  <2>1. err[c] = "trySolo" /\ committed[c] = 0
    BY DEF EndSolo, CallersKnow, ExactlyOnce
  <2>2. \A d \in Callers : d # c => err'[d] = err[d] /\ committed'[d] = committed[d]
    BY <1>b, <1>c
  <2>3. err'[c] = e /\ committed'[c] = IF c \in cs THEN 1 ELSE 0
    BY <1>b, <1>c, <2>1
  <2> QED
    BY <1>a, <2>2, <2>3 DEF ExactlyOnce
<1> QED
  BY <1>1, <1>2, <1>3, <1>4, <1>5, <1>6, <1>7

\* The batch is closed to further calls.
LEMMA StartKeeps == ASSUME BInv, NEW b \in BatchIds, Start(b) PROVE BInv'
<1> USE NamesApart DEF BInv, Goto, Stage, callVars, batchVars, runVars, dbVars
<1>a. /\ b \in Live /\ Live' = Live
      /\ \A d \in BatchIds : stage'[d] = IF d = b THEN "retry" ELSE stage[d]
  BY LiveAfter DEF Start
<1>1. TypeOK'
  BY DEF Start, TypeOK
<1>2. BatchesMade'
  BY <1>a DEF Start, TypeOK, BatchesMade
<1>3. CallersKnow'
  BY DEF Start, TypeOK, CallersKnow
<1>4. WriterKnown'
  BY DEF Start, TypeOK, WriterKnown
<1>5. DirtyKnown'
  BY <1>a DEF Start, TypeOK, DirtyKnown
<1>6. WaitingIsQueued'
  BY <1>a, QueueKept DEF Start, TypeOK, Waiting
<1>7. ExactlyOnce'
  BY DEF Start, TypeOK, ExactlyOnce, CallersKnow
<1> QED
  BY <1>1, <1>2, <1>3, <1>4, <1>5, <1>6, <1>7

\* The last calls were taken out.
LEMMA FinishKeeps == ASSUME BInv, NEW b \in BatchIds, Finish(b) PROVE BInv'
<1> USE NamesApart DEF BInv, Goto, Stage, callVars, batchVars, runVars, dbVars
<1>a. /\ b \in Live /\ Live' = Live \ {b}
      /\ \A d \in BatchIds : stage'[d] = IF d = b THEN "done" ELSE stage[d]
  BY LiveAfter DEF Finish
<1>1. TypeOK'
  BY DEF Finish, TypeOK
<1>2. BatchesMade'
  BY <1>a DEF Finish, TypeOK, BatchesMade
<1>3. CallersKnow'
  BY DEF Finish, TypeOK, CallersKnow
<1>4. WriterKnown'
  BY DEF Finish, TypeOK, WriterKnown
<1>5. DirtyKnown'
  BY <1>a DEF Finish, TypeOK, DirtyKnown
<1>6. WaitingIsQueued'
  <2>1. Range(calls[b]) = {}
    BY DEF Finish, Range
  <2> QED
    BY <1>a, <2>1, QueueKept DEF Finish, TypeOK, Waiting
<1>7. ExactlyOnce'
  BY DEF Finish, TypeOK, ExactlyOnce, CallersKnow
<1> QED
  BY <1>1, <1>2, <1>3, <1>4, <1>5, <1>6, <1>7

\* The run begins, or fails to begin, its transaction.
LEMMA BeginUpdateKeeps == ASSUME BInv, NEW b \in BatchIds, BeginUpdate(b) PROVE BInv'
<1> USE NamesApart DEF BInv, callVars, batchVars, runVars, dbVars
<1>a. CASE /\ Stage(b, "retry", "calling") /\ calls[b] # <<>>
           /\ i' = [i EXCEPT ![b] = 1] /\ writer = NoOne /\ writer' = b
           /\ UNCHANGED <<pc, err, batch, made, calls, dirty, committed>>
  <2>1. /\ stage[b] = "retry" /\ stage' = [stage EXCEPT ![b] = "calling"]
    BY <1>a DEF Stage
  <2>2. /\ b \in Live /\ Live' = Live
        /\ \A d \in BatchIds : stage'[d] = IF d = b THEN "calling" ELSE stage[d]
    BY <1>a, LiveAfter
  <2>3. /\ \A d \in BatchIds : i'[d] = IF d = b THEN 1 ELSE i[d]
        /\ i' \in [BatchIds -> Nat]
    BY <1>a DEF TypeOK
  <2>4. TypeOK'
    BY <1>a, <2>1, <2>3 DEF TypeOK
  <2>5. BatchesMade'
    BY <1>a, <2>1, <2>2 DEF BatchesMade, TypeOK
  <2>6. CallersKnow' /\ ExactlyOnce'
    BY <1>a DEF CallersKnow, ExactlyOnce
  <2>7. WriterKnown'
    BY <1>a, <2>1, <2>2 DEF WriterKnown
  <2>8. \A d \in BatchIds : stage[d] # "calling"
    BY <1>a DEF WriterKnown
  <2>9. dirty = {}
    BY <2>8 DEF DirtyKnown
  <2>10. 1 \in 1 .. Len(calls[b]) + 1 /\ 1 .. 1 - 1 = {}
    BY CallsTyped
  <2>11. DirtyKnown'
    <3>1. dirty' = {calls'[b][k] : k \in 1 .. i'[b] - 1} /\ i'[b] \in 1 .. Len(calls'[b]) + 1
      BY <1>a, <2>3, <2>9, <2>10
    <3>2. \A d \in BatchIds : stage'[d] = "calling" => d = b
      BY <2>2, <2>8
    <3>3. \A d \in BatchIds : stage'[d] = "failed" => d # b /\ stage[d] = "failed"
      BY <2>2
    <3>4. stage'[b] = "calling"
      BY <2>2
    <3> QED
      BY <3>1, <3>2, <3>3, <3>4, <2>3, <1>a DEF DirtyKnown
  <2>12. WaitingIsQueued'
    BY <1>a, <2>2, QueueKept DEF Waiting
  <2> QED
    BY <2>4, <2>5, <2>6, <2>7, <2>11, <2>12
<1>b. CASE /\ Stage(b, "retry", "done") /\ Send(Range(calls[b]), "error")
           /\ UNCHANGED <<pc, batch, made, calls, i, writer, dirty, committed>>
  <2>1. /\ stage[b] = "retry" /\ stage' = [stage EXCEPT ![b] = "done"]
    BY <1>b DEF Stage
  <2>2. /\ b \in Live /\ Live' = Live \ {b}
        /\ \A d \in BatchIds : stage'[d] = IF d = b THEN "done" ELSE stage[d]
    BY <1>b, LiveAfter
  <2>3. /\ err' \in [Callers -> {"none", "trySolo", "nil", "error"}]
        /\ \A c \in Callers : err'[c] = IF c \in Range(calls[b]) THEN "error" ELSE err[c]
    BY <1>b, SendTyped
  <2>4. \A c \in Range(calls[b]) : c \in Waiting
    BY <2>2 DEF WaitingIsQueued
  <2>5. TypeOK'
    BY <1>b, <2>1, <2>3 DEF TypeOK
  <2>6. BatchesMade'
    BY <1>b, <2>1, <2>2 DEF BatchesMade, TypeOK
  <2>7. CallersKnow' /\ ExactlyOnce'
    BY <1>b, <2>3, <2>4 DEF CallersKnow, ExactlyOnce, Waiting, TypeOK
  <2>8. WriterKnown'
    BY <1>b, <2>1, <2>2 DEF WriterKnown
  <2>9. DirtyKnown'
    BY <1>b, <2>1, <2>2 DEF DirtyKnown
  <2>10. WaitingIsQueued'
    <3>1. Waiting' = Waiting \ Range(calls[b])
      BY <1>b, WaitingAfter
    <3> QED
      BY <1>b, <2>2, <3>1, QueueKept
  <2> QED
    BY <2>5, <2>6, <2>7, <2>8, <2>9, <2>10
<1> QED
  BY <1>a, <1>b DEF BeginUpdate

\* One function is run.
LEMMA CallFnKeeps == ASSUME BInv, NEW b \in BatchIds, CallFn(b) PROVE BInv'
<1> USE NamesApart DEF BInv, callVars, batchVars, runVars, dbVars
<1> DEFINE n == Len(calls[b])
           x == calls[b][i[b]]
<1>1. /\ stage[b] = "calling" /\ i[b] <= n
      /\ UNCHANGED <<pc, err, batch, made, calls, committed>>
  BY DEF CallFn
<1>2. /\ n \in Nat /\ i[b] \in Nat /\ i[b] \in 1 .. n
      /\ dirty = {calls[b][k] : k \in 1 .. i[b] - 1}
      /\ x \in Callers
  BY <1>1, CallsTyped DEF DirtyKnown
<1>3. writer = b /\ \A d \in BatchIds : d # b => stage[d] # "calling"
  BY <1>1 DEF WriterKnown
<1>a. CASE /\ dirty' = dirty \cup {x}
           /\ i' = [i EXCEPT ![b] = @ + 1] /\ UNCHANGED <<stage, writer>>
  <2>1. /\ \A d \in BatchIds : i'[d] = IF d = b THEN i[b] + 1 ELSE i[d]
        /\ i' \in [BatchIds -> Nat]
    BY <1>a, <1>2 DEF TypeOK
  <2>2. TypeOK'
    BY <1>1, <1>2, <1>a, <2>1 DEF TypeOK
  <2>3. BatchesMade' /\ CallersKnow' /\ ExactlyOnce' /\ WriterKnown'
    BY <1>1, <1>a DEF BatchesMade, CallersKnow, ExactlyOnce, WriterKnown
  <2>4. DirtyKnown'
    <3>1. /\ i[b] + 1 \in 1 .. n + 1 /\ (i[b] + 1) - 1 = i[b]
          /\ 1 .. i[b] = (1 .. i[b] - 1) \cup {i[b]}
      BY <1>2
    <3>2. dirty' = {calls'[b][k] : k \in 1 .. i'[b] - 1} /\ i'[b] \in 1 .. Len(calls'[b]) + 1
      BY <1>1, <1>2, <1>a, <2>1, <3>1
    <3> QED
      BY <3>2, <1>1, <1>3, <1>a, <2>1 DEF DirtyKnown
  <2>5. WaitingIsQueued'
    BY <1>1, <1>a, QueueKept DEF Waiting, Live
  <2> QED
    BY <2>2, <2>3, <2>4, <2>5
<1>b. CASE /\ Stage(b, "calling", "failed") /\ dirty' = {} /\ writer' = NoOne /\ UNCHANGED i
  <2>1. stage' = [stage EXCEPT ![b] = "failed"]
    BY <1>b DEF Stage
  <2>2. /\ b \in Live /\ Live' = Live
        /\ \A d \in BatchIds : stage'[d] = IF d = b THEN "failed" ELSE stage[d]
    BY <1>b, LiveAfter
  <2>3. TypeOK'
    BY <1>1, <1>b, <2>1 DEF TypeOK
  <2>4. BatchesMade'
    BY <1>1, <2>1, <2>2 DEF BatchesMade, TypeOK
  <2>5. CallersKnow' /\ ExactlyOnce'
    BY <1>1 DEF CallersKnow, ExactlyOnce
  <2>6. WriterKnown'
    BY <1>1, <1>3, <1>b, <2>2 DEF WriterKnown
  <2>7. DirtyKnown'
    <3>1. \A d \in BatchIds : stage'[d] # "calling"
      BY <1>3, <2>2
    <3>2. \A d \in BatchIds : stage'[d] = "failed" => i'[d] \in 1 .. Len(calls'[d])
      BY <1>1, <1>2, <1>b, <2>2 DEF DirtyKnown
    <3> QED
      BY <3>1, <3>2, <1>b DEF DirtyKnown
  <2>8. WaitingIsQueued'
    BY <1>1, <2>2, QueueKept DEF Waiting
  <2> QED
    BY <2>3, <2>4, <2>5, <2>6, <2>7, <2>8
<1> QED
  BY <1>a, <1>b DEF CallFn

\* A failed call is taken out.
LEMMA TrySoloKeeps == ASSUME BInv, NEW b \in BatchIds, TrySolo(b) PROVE BInv'
<1> USE NamesApart DEF BInv, callVars, batchVars, runVars, dbVars
<1> DEFINE x == calls[b][i[b]]
           s == Shortened(calls[b], i[b])
<1>1. /\ Stage(b, "failed", "retry") /\ Send({x}, "trySolo")
      /\ calls' = [calls EXCEPT ![b] = s]
      /\ UNCHANGED <<pc, batch, made, i, writer, dirty, committed>>
  BY DEF TrySolo
<1>2. /\ stage[b] = "failed" /\ stage' = [stage EXCEPT ![b] = "retry"]
  BY <1>1 DEF Stage
<1>3. /\ b \in Live /\ Live' = Live
      /\ \A d \in BatchIds : stage'[d] = IF d = b THEN "retry" ELSE stage[d]
  BY <1>1, LiveAfter
<1>4. i[b] \in 1 .. Len(calls[b]) /\ calls[b] \in Seq(Callers) /\ IsDistinct(calls[b])
  BY <1>2, <1>3, CallsTyped DEF DirtyKnown, WaitingIsQueued
<1>5. /\ s \in Seq(Callers) /\ Range(s) = Range(calls[b]) \ {x} /\ IsDistinct(s)
      /\ x \in Range(calls[b]) /\ x \in Callers
  BY <1>4, ShortenedRange
<1> HIDE DEF x, s
<1>6. \A d \in BatchIds : calls'[d] = IF d = b THEN s ELSE calls[d]
  BY <1>1 DEF TypeOK
<1>7. /\ err' \in [Callers -> {"none", "trySolo", "nil", "error"}]
      /\ \A c \in Callers : err'[c] = IF c = x THEN "trySolo" ELSE err[c]
  BY <1>1, SendTyped
<1>8. x \in Waiting
  BY <1>3, <1>5 DEF WaitingIsQueued
<1>9. TypeOK'
  BY <1>1, <1>2, <1>5, <1>6, <1>7 DEF TypeOK
<1>10. BatchesMade'
  BY <1>1, <1>2, <1>3, <1>6 DEF BatchesMade, TypeOK
<1>11. CallersKnow' /\ ExactlyOnce'
  BY <1>1, <1>7, <1>8 DEF CallersKnow, ExactlyOnce, Waiting
<1>12. WriterKnown'
  BY <1>1, <1>2, <1>3 DEF WriterKnown
<1>13. DirtyKnown'
  <2>1. \A d \in BatchIds : stage'[d] \in {"calling", "failed"} => stage'[d] = stage[d] /\ d # b
    BY <1>3
  <2>2. \A d \in BatchIds : stage[d] = "calling" => stage'[d] = "calling"
    BY <1>2, <1>3
  <2> QED
    BY <2>1, <2>2, <1>1, <1>6 DEF DirtyKnown
<1>14. WaitingIsQueued'
  <2>1. Waiting' = Waiting \ {x}
    BY <1>1, WaitingAfter
  <2>2. \A d \in Live : Range(calls'[d]) = Range(calls[d]) \ {x}
    <3>1. ASSUME NEW d \in Live, d # b PROVE x \notin Range(calls[d])
      BY <3>1, <1>3, <1>5 DEF WaitingIsQueued
    <3> QED
      BY <3>1, <1>5, <1>6 DEF Live
  <2>3. UNION {Range(calls'[d]) : d \in Live'} = Waiting \ {x}
    <3>1. Waiting = UNION {Range(calls[d]) : d \in Live}
      BY DEF WaitingIsQueued
    <3> QED
      BY <3>1, <2>2, <1>3
  <2>4. \A d \in Live' : IsDistinct(calls'[d])
    BY <1>3, <1>5, <1>6 DEF WaitingIsQueued, Live
  <2>5. \A d, e \in Live' : d # e => Range(calls'[d]) \cap Range(calls'[e]) = {}
    BY <1>3, <2>2 DEF WaitingIsQueued
  <2> QED
    BY <2>1, <2>3, <2>4, <2>5 DEF WaitingIsQueued
<1> QED
  BY <1>9, <1>10, <1>11, <1>12, <1>13, <1>14

\* The transaction ends.
LEMMA CommitKeeps == ASSUME BInv, NEW b \in BatchIds, Commit(b) PROVE BInv'
<1> USE NamesApart DEF BInv, callVars, batchVars, runVars, dbVars
<1> DEFINE R == Range(calls[b])
<1>1. /\ i[b] > Len(calls[b]) /\ Stage(b, "calling", "done")
      /\ dirty' = {} /\ writer' = NoOne
      /\ UNCHANGED <<pc, batch, made, calls, i>>
  BY DEF Commit
<1>2. /\ stage[b] = "calling" /\ stage' = [stage EXCEPT ![b] = "done"]
  BY <1>1 DEF Stage
<1>3. /\ b \in Live /\ Live' = Live \ {b}
      /\ \A d \in BatchIds : stage'[d] = IF d = b THEN "done" ELSE stage[d]
  BY <1>1, LiveAfter
<1>4. dirty = R
  <2>1. /\ i[b] \in Nat /\ Len(calls[b]) \in Nat /\ i[b] \in 1 .. Len(calls[b]) + 1
        /\ DOMAIN calls[b] = 1 .. Len(calls[b])
        /\ dirty = {calls[b][k] : k \in 1 .. i[b] - 1}
    BY <1>2, CallsTyped DEF DirtyKnown
  <2>2. i[b] - 1 = Len(calls[b])
    BY <1>1, <2>1
  <2> QED
    BY <2>1, <2>2 DEF Range
<1> HIDE DEF R
<1>5. PICK e \in {"nil", "error"}, cs \in {R, {}} :
        Send(R, e) /\ Committed(cs) /\ (e = "nil" => cs = R)
  <2>1. \/ Committed(R) /\ Send(R, "nil")
        \/ Committed(R) /\ Send(R, "error")
        \/ Committed({}) /\ Send(R, "error")
    BY <1>4 DEF Commit, R
  <2> QED
    BY <2>1
<1>6. /\ err' \in [Callers -> {"none", "trySolo", "nil", "error"}]
      /\ \A c \in Callers : err'[c] = IF c \in R THEN e ELSE err[c]
  BY <1>5, SendTyped
<1>7. /\ committed' \in [Callers -> Nat]
      /\ \A c \in Callers : committed'[c] = IF c \in cs THEN committed[c] + 1 ELSE committed[c]
  BY <1>5, CommittedTyped
<1>8. \A c \in R : c \in Waiting
  BY <1>3 DEF WaitingIsQueued, R
<1>9. TypeOK'
  BY <1>1, <1>2, <1>6, <1>7 DEF TypeOK
<1>10. BatchesMade'
  BY <1>1, <1>2, <1>3 DEF BatchesMade, TypeOK
<1>11. CallersKnow'
  BY <1>1, <1>6, <1>8 DEF CallersKnow, Waiting
<1>12. WriterKnown'
  BY <1>1, <1>2, <1>3 DEF WriterKnown
<1>13. DirtyKnown'
  <2>1. \A d \in BatchIds : stage'[d] # "calling"
    BY <1>2, <1>3 DEF WriterKnown
  <2>2. \A d \in BatchIds : stage'[d] = "failed" => stage[d] = "failed"
    BY <1>3
  <2> QED
    BY <2>1, <2>2, <1>1 DEF DirtyKnown
<1>14. WaitingIsQueued'
  <2>1. Waiting' = Waiting \ R
    BY <1>1, <1>5, WaitingAfter
  <2>2. UNION {Range(calls[d]) : d \in Live \ Live'} = R
    BY <1>3 DEF R
  <2> QED
    BY <1>1, <1>3, <2>1, <2>2, QueueKept
<1>15. ExactlyOnce'
  <2>1. \A c \in Callers : c \notin R => err'[c] = err[c] /\ committed'[c] = committed[c]
    BY <1>6, <1>7
  <2>2. \A c \in Callers :
          c \in R => err'[c] = e /\ committed'[c] = IF c \in cs THEN 1 ELSE 0
    BY <1>6, <1>7, <1>8 DEF Waiting, ExactlyOnce
  <2> QED
    BY <2>1, <2>2, <1>5 DEF ExactlyOnce
<1> QED
  BY <1>9, <1>10, <1>11, <1>12, <1>13, <1>14, <1>15

-----------------------------------------------------------------------------
\* Every step keeps the invariant.
LEMMA StepKeeps == BInv /\ [Next]_vars => BInv'
<1> SUFFICES ASSUME BInv, [Next]_vars PROVE BInv'
  OBVIOUS
<1>1. CASE UNCHANGED vars
  BY <1>1 DEF vars, callVars, batchVars, runVars, dbVars, BInv, TypeOK, BatchesMade, CallersKnow,
         WriterKnown, DirtyKnown, WaitingIsQueued, ExactlyOnce, Waiting, Live
<1>2. ASSUME NEW c \in Callers, Join(c) \/ CallerStep(c) PROVE BInv'
  BY <1>2, JoinKeeps, ReceiveKeeps, BeginSoloKeeps, EndSoloKeeps DEF CallerStep
<1>3. ASSUME NEW b \in BatchIds, Run(b) PROVE BInv'
  BY <1>3, StartKeeps, FinishKeeps, BeginUpdateKeeps, CallFnKeeps, TrySoloKeeps, CommitKeeps
     DEF Run
<1> QED
  BY <1>1, <1>2, <1>3 DEF Next

\* The inductive invariant, from which the theorems follow.
LEMMA Invariance == Spec => []BInv
<1>1. BInv /\ [Next]_vars => BInv'
  BY StepKeeps
<1> QED
  BY InitBInv, <1>1, PTL DEF Spec

(* What a caller of Batch is told agrees with what was committed: nil with *)
(* exactly once, an error with at most once and no answer with not at all, *)
(* for any number of callers, any batch size and any failures of their     *)
(* functions (batch.run, and the run alone at the end of Batch).           *)
THEOREM BatchExactlyOnce == Spec => []ExactlyOnce
<1>1. BInv => ExactlyOnce
  BY DEF BInv
<1> QED
  BY Invariance, <1>1, PTL

(* The callers that wait are those in the batches that have not ended, each *)
(* in one place: nobody is lost by the replacement of a full batch or by   *)
(* the removal of a failed call (db.calls in batch.run).                   *)
THEOREM BatchForgetsNobody == Spec => []WaitingIsQueued
<1>1. BInv => WaitingIsQueued
  BY DEF BInv
<1> QED
  BY Invariance, <1>1, PTL
=============================================================================
