-------------------------- MODULE RtcmWriterProofs --------------------------
(***************************************************************************)
(* Proofs about RtcmWriter, for every limit and every set of corrections:  *)
(* its safety properties, and that it implements OrderedChannel.           *)
(***************************************************************************)
EXTENDS RtcmWriter, SequenceTheorems, TLAPS

(* How far the destructor is, seen by the mutex, the stop token and the worker. *)
OwnerInv ==
  /\ stopping <=> owner # "using"
  /\ stopRequested <=> owner \in {"joining", "destroyed"}
  /\ worker = "exited" => stopping
  /\ owner = "destroyed" => worker = "exited"

(* Only a requested stop cancels a write, and only a failure is reported. *)
ResultInv ==
  /\ result = "cancelled" => stopRequested
  /\ worker = "reporting" => result = "failed"

(* What was admitted is what was handed on and, in order, what still waits. *)
OrderInv ==
  /\ stopping => queue = <<>> /\ queuedBytes = 0
  /\ ~stopping => accepted = taken \o queue

(* The running totals of the queue end in the byte counter, and climb: what *)
(* is left of them without the first correction are totals again.          *)
Climbing(sums) == \A m, n \in 0 .. Len(queue) : m <= n => sums[m] <= sums[n]

BytesInv ==
  \E sums \in [0 .. Len(queue) -> 0 .. queuedBytes] :
    RunningTotal(sums) /\ Climbing(sums) /\ queuedBytes = sums[Len(queue)]

IInv == TypeOK /\ WithinLimits /\ OwnerInv /\ ResultInv /\ OrderInv /\ BytesInv

-----------------------------------------------------------------------------
(* Sequences.                                                              *)

(* A sequence of some elements of S is a sequence of elements of S. *)
LEMMA WiderSeq ==
  ASSUME NEW S, NEW T \in SUBSET S, NEW s \in Seq(T)
  PROVE  s \in Seq(S)
BY LenProperties, IsASeq

(* What is appended to the end of two sequences is appended to the second. *)
LEMMA AppendToSecond ==
  ASSUME NEW S, NEW s \in Seq(S), NEW t \in Seq(S), NEW e \in S
  PROVE  s \o Append(t, e) = Append(s \o t, e)
<1>1. s \o t \in Seq(S) /\ <<e>> \in Seq(S)
  BY ConcatProperties
<1>2. Append(s \o t, e) = (s \o t) \o <<e>>
  BY <1>1, AppendIsConcat
<1>3. Append(t, e) = t \o <<e>>
  BY AppendIsConcat
<1> QED
  BY <1>1, <1>2, <1>3, ConcatAssociative

(* Moving the head of the second sequence to the end of the first changes  *)
(* nothing in their concatenation, where it is the element after the first. *)
LEMMA MoveHead ==
  ASSUME NEW S, NEW s \in Seq(S), NEW t \in Seq(S), t # <<>>
  PROVE  /\ Append(s, Head(t)) \o Tail(t) = s \o t
         /\ Len(s) < Len(s \o t)
         /\ Head(t) = (s \o t)[Len(s) + 1]
<1>1. Head(t) \in S /\ Tail(t) \in Seq(S) /\ <<Head(t)>> \in Seq(S)
  BY HeadTailProperties
<1>2. Append(s, Head(t)) = s \o <<Head(t)>>
  BY <1>1, AppendIsConcat
<1>3. (s \o <<Head(t)>>) \o Tail(t) = s \o (<<Head(t)>> \o Tail(t))
  BY <1>1, ConcatAssociative
<1>4. <<Head(t)>> \o Tail(t) = t
  BY <1>1
<1>5. Len(s) \in Nat /\ Len(t) \in Nat \ {0} /\ Len(s \o t) = Len(s) + Len(t)
  BY LenProperties, EmptySeq, ConcatProperties
<1>6. (s \o t)[Len(s) + 1] = t[1]
  BY <1>5, ConcatProperties
<1> QED
  BY <1>2, <1>3, <1>4, <1>5, <1>6

-----------------------------------------------------------------------------
(* The writer starts in the invariant. *)
LEMMA InitIInv == Init => IInv
<1> SUFFICES ASSUME Init PROVE IInv
  OBVIOUS
<1> USE DEF Init
<1>1. TypeOK
  <2>1. <<>> \in Seq(Corrections \ {0}) /\ <<>> \in Seq(Corrections)
    BY EmptySeq
  <2>2. queue \in Seq(Corrections \ {0}) /\ accepted \in Seq(Corrections) /\ taken \in Seq(Corrections)
    BY <2>1, Zenon
  <2>3. queuedBytes \in Int
    OBVIOUS
  <2> QED
    BY <2>2, <2>3, Zenon DEF TypeOK
<1>2. WithinLimits
  BY LimitsAssumption DEF WithinLimits
<1>3. OwnerInv /\ ResultInv
  BY DEF OwnerInv, ResultInv
<1>4. OrderInv
  BY DEF OrderInv
<1>5. BytesInv
  <2> DEFINE none == [n \in 0 .. Len(queue) |-> 0]
  <2>1. Len(queue) = 0 /\ queuedBytes = 0
    OBVIOUS
  <2>2. none \in [0 .. Len(queue) -> 0 .. queuedBytes]
    BY <2>1
  <2>3. none[0] = 0
    BY <2>1
  <2>4. RunningTotal(none)
    BY <2>1, <2>3 DEF RunningTotal
  <2>5. Climbing(none)
    BY <2>1, <2>3 DEF Climbing
  <2> QED
    BY <2>1, <2>2, <2>3, <2>4, <2>5 DEF BytesInv
<1> QED
  BY <1>1, <1>2, <1>3, <1>4, <1>5 DEF IInv

(* Types are kept by every step. *)
LEMMA TypeNext == TypeOK /\ [Next]_vars => TypeOK'
<1> SUFFICES ASSUME TypeOK, [Next]_vars PROVE TypeOK'
  OBVIOUS
<1> USE LimitsAssumption DEF TypeOK, UnchangedByWorker
<1>1. ASSUME NEW data \in Corrections, Enqueue(data) PROVE TypeOK'
  <2>1. CASE NotAdmitted(data)
    BY <1>1, <2>1 DEF Enqueue
  <2>2. CASE ~NotAdmitted(data)
    <3>1. Admit(data) /\ data \in Corrections \ {0}
      BY <1>1, <2>2 DEF Enqueue, NotAdmitted
    <3>2. queue' \in Seq(Corrections \ {0}) /\ accepted' \in Seq(Corrections)
      BY <3>1 DEF Admit
    <3>3. queuedBytes' \in Int
      BY <3>1 DEF Admit
    <3> QED
      BY <1>1, <3>1, <3>2, <3>3 DEF Enqueue, Admit, Woken
  <2> QED
    BY <2>1, <2>2
<1>2. CASE Discard
  BY <1>2 DEF Discard
<1>3. CASE Destroy
  BY <1>3 DEF Destroy, RequestStop, Join, Woken
<1>4. CASE TakeFront
  BY <1>4 DEF TakeFront
<1>5. CASE Loop \/ Sleep \/ LeaveWait \/ SinkReturns \/ Judge \/ Reported
  BY <1>5 DEF Loop, Sleep, LeaveWait, SinkReturns, Judge, Reported
<1>6. CASE UNCHANGED vars
  BY <1>6 DEF vars
<1> QED
  BY <1>1, <1>2, <1>3, <1>4, <1>5, <1>6 DEF Next, Worker, Destroyed

(* Neither limit is exceeded by a step. *)
LEMMA LimitsNext == TypeOK /\ WithinLimits /\ [Next]_vars => WithinLimits'
<1> SUFFICES ASSUME TypeOK, WithinLimits, [Next]_vars PROVE WithinLimits'
  OBVIOUS
<1> USE LimitsAssumption DEF TypeOK, WithinLimits, UnchangedByWorker
<1>1. ASSUME NEW data \in Corrections, Enqueue(data) PROVE WithinLimits'
  BY <1>1 DEF Enqueue, NotAdmitted, HasRoom, Admit
<1>2. CASE Discard
  BY <1>2 DEF Discard
<1>3. CASE Destroy
  BY <1>3 DEF Destroy, RequestStop, Join
<1>4. CASE TakeFront
  <2>1. Head(queue) \in Nat /\ Len(Tail(queue)) = Len(queue) - 1
    BY <1>4, HeadTailProperties DEF TakeFront
  <2> QED
    BY <1>4, <2>1 DEF TakeFront
<1>5. CASE Loop \/ Sleep \/ LeaveWait \/ SinkReturns \/ Judge \/ Reported
  BY <1>5 DEF Loop, Sleep, LeaveWait, SinkReturns, Judge, Reported
<1>6. CASE UNCHANGED vars
  BY <1>6 DEF vars
<1> QED
  BY <1>1, <1>2, <1>3, <1>4, <1>5, <1>6 DEF Next, Worker, Destroyed

(* The destructor, the stop token and the worker stay in step. *)
LEMMA OwnerNext == TypeOK /\ OwnerInv /\ ResultInv /\ [Next]_vars => OwnerInv' /\ ResultInv'
<1> SUFFICES ASSUME TypeOK, OwnerInv, ResultInv, [Next]_vars PROVE OwnerInv' /\ ResultInv'
  OBVIOUS
<1> USE DEF TypeOK, OwnerInv, ResultInv, UnchangedByWorker
<1>1. ASSUME NEW data \in Corrections, Enqueue(data) PROVE OwnerInv' /\ ResultInv'
  BY <1>1 DEF Enqueue, Admit, Woken
<1>2. CASE Discard
  BY <1>2 DEF Discard
<1>3. CASE Destroy
  BY <1>3 DEF Destroy, RequestStop, Join, Woken
<1>4. CASE Worker
  BY <1>4 DEF Worker, Loop, Sleep, TakeFront, LeaveWait, SinkReturns, Judge, Reported
<1>5. CASE UNCHANGED vars
  BY <1>5 DEF vars
<1> QED
  BY <1>1, <1>2, <1>3, <1>4, <1>5 DEF Next, Destroyed

(* Corrections are neither lost, nor doubled, nor reordered by a step. *)
LEMMA OrderNext == TypeOK /\ OwnerInv /\ OrderInv /\ [Next]_vars => OrderInv'
<1> SUFFICES ASSUME TypeOK, OwnerInv, OrderInv, [Next]_vars PROVE OrderInv'
  OBVIOUS
<1> USE DEF OrderInv, UnchangedByWorker
<1>0. /\ queue \in Seq(Corrections) /\ taken \in Seq(Corrections)
      /\ stopping \in BOOLEAN
  BY WiderSeq DEF TypeOK
<1>1. ASSUME NEW data \in Corrections, Enqueue(data) PROVE OrderInv'
  <2>1. CASE NotAdmitted(data)
    BY <1>1, <2>1 DEF Enqueue
  <2>2. CASE ~NotAdmitted(data)
    <3>0. data \in Corrections
      BY <1>1
    <3>1. /\ accepted' = Append(accepted, data) /\ queue' = Append(queue, data)
          /\ taken' = taken /\ ~stopping /\ stopping' = stopping
      BY <1>1, <2>2 DEF Enqueue, NotAdmitted, Admit
    <3>2. taken \o Append(queue, data) = Append(taken \o queue, data)
      BY <1>0, <3>0, AppendToSecond
    <3>3. accepted' = taken' \o queue'
      BY <3>1, <3>2
    <3> QED
      BY <3>1, <3>3
  <2> QED
    BY <2>1, <2>2
<1>2. CASE Discard
  BY <1>2 DEF Discard
<1>3. CASE Destroy
  <2>1. UNCHANGED <<queue, queuedBytes, stopping, accepted, taken>>
    BY <1>3 DEF Destroy, RequestStop, Join
  <2> QED
    BY <2>1
<1>4. CASE TakeFront
  BY <1>0, <1>4, MoveHead DEF TakeFront
<1>5. CASE Loop \/ Sleep \/ LeaveWait \/ SinkReturns \/ Judge \/ Reported
  BY <1>5 DEF Loop, Sleep, LeaveWait, SinkReturns, Judge, Reported
<1>6. CASE UNCHANGED vars
  BY <1>6 DEF vars
<1> QED
  BY <1>1, <1>2, <1>3, <1>4, <1>5, <1>6 DEF Next, Worker, Destroyed

(* A correction that is admitted adds one total, above all others. *)
LEMMA BytesAdmitted ==
  ASSUME TypeOK, BytesInv, NEW data \in Corrections, Admit(data)
  PROVE  BytesInv'
<1> USE LimitsAssumption
<1> DEFINE len == Len(queue)
<1>1. PICK sums \in [0 .. len -> 0 .. queuedBytes] :
        RunningTotal(sums) /\ Climbing(sums) /\ queuedBytes = sums[len]
  BY DEF BytesInv
<1>2. len \in Nat /\ queuedBytes \in Int /\ data \in Nat
  BY DEF TypeOK
<1>3. /\ queuedBytes' = queuedBytes + data /\ Len(queue') = len + 1
      /\ queue'[len + 1] = data /\ \A n \in 1 .. len : queue'[n] = queue[n]
  BY DEF Admit, TypeOK
<1> DEFINE more == [n \in 0 .. len + 1 |-> IF n = len + 1 THEN queuedBytes + data ELSE sums[n]]
<1>4. more[len + 1] = queuedBytes + data /\ \A n \in 0 .. len : more[n] = sums[n]
  BY <1>2
<1>5. \A n \in 0 .. len : sums[n] \in Int /\ 0 <= sums[n] /\ sums[n] <= queuedBytes
  BY <1>1, <1>2
<1>6. more \in [0 .. len + 1 -> 0 .. queuedBytes + data]
  <2>1. ASSUME NEW n \in 0 .. len + 1 PROVE more[n] \in 0 .. queuedBytes + data
    <3>1. CASE n = len + 1
      <4>1. 0 <= queuedBytes
        BY <1>2, <1>5
      <4> QED
        BY <3>1, <4>1, <1>2, <1>4
    <3>2. CASE n \in 0 .. len
      BY <3>2, <1>2, <1>4, <1>5
    <3> QED
      BY <3>1, <3>2, <1>2
  <2> QED
    BY <2>1
<1> HIDE DEF more, len
<1>7. more[0] = 0 /\ \A n \in 1 .. len + 1 : more[n] = more[n - 1] + queue'[n]
  <2>1. more[0] = 0
    BY <1>1, <1>2, <1>4 DEF RunningTotal
  <2>2. ASSUME NEW n \in 1 .. len + 1 PROVE more[n] = more[n - 1] + queue'[n]
    <3>1. CASE n = len + 1
      BY <3>1, <1>1, <1>2, <1>3, <1>4
    <3>2. CASE n \in 1 .. len
      <4>1. sums[n] = sums[n - 1] + queue[n]
        BY <1>1, <3>2 DEF RunningTotal, len
      <4>2. n - 1 \in 0 .. len /\ n \in 0 .. len
        BY <3>2, <1>2
      <4> QED
        BY <4>1, <4>2, <3>2, <1>3, <1>4
    <3> QED
      BY <3>1, <3>2, <1>2
  <2> QED
    BY <2>1, <2>2
<1>8. ASSUME NEW m \in 0 .. len + 1, NEW n \in 0 .. len + 1, m <= n PROVE more[m] <= more[n]
  <2>1. CASE n \in 0 .. len
    <3>1. m \in 0 .. len
      BY <1>2, <1>8, <2>1
    <3>2. sums[m] <= sums[n]
      BY <1>1, <1>8, <2>1, <3>1 DEF Climbing, len
    <3> QED
      BY <1>4, <2>1, <3>1, <3>2
  <2>2. CASE n = len + 1
    <3>1. CASE m = len + 1
      BY <2>2, <3>1, <1>2, <1>4
    <3>2. CASE m \in 0 .. len
      BY <2>2, <3>2, <1>2, <1>4, <1>5
    <3> QED
      BY <3>1, <3>2, <1>2
  <2> QED
    BY <2>1, <2>2, <1>2
<1> QED
  BY <1>3, <1>4, <1>6, <1>7, <1>8 DEF BytesInv, RunningTotal, Climbing

(* Without the correction that is handed on every total is less by its bytes. *)
LEMMA BytesTaken ==
  ASSUME TypeOK, BytesInv, TakeFront
  PROVE  BytesInv'
<1> USE LimitsAssumption
<1> DEFINE len == Len(queue)
<1>1. PICK sums \in [0 .. len -> 0 .. queuedBytes] :
        RunningTotal(sums) /\ Climbing(sums) /\ queuedBytes = sums[len]
  BY DEF BytesInv
<1>2. len \in Nat /\ len > 0 /\ queuedBytes \in Int /\ queue[1] \in Nat
  <2>1. queue \in Seq(Corrections \ {0}) /\ queue # <<>> /\ queuedBytes \in Int
    BY DEF TypeOK, TakeFront
  <2>2. len \in Nat /\ len > 0
    BY <2>1, EmptySeq, LenProperties
  <2>3. queue[1] \in Corrections
    BY <2>1, <2>2, ElementOfSeq
  <2> QED
    BY <2>1, <2>2, <2>3
<1>3. /\ queuedBytes' = queuedBytes - queue[1] /\ Len(queue') = len - 1
      /\ \A n \in 1 .. len - 1 : queue'[n] = queue[n + 1]
  BY DEF TakeFront, TypeOK
<1> DEFINE rest == [n \in 0 .. len - 1 |-> sums[n + 1] - queue[1]]
<1>4. \A n \in 0 .. len - 1 : n + 1 \in 0 .. len /\ rest[n] = sums[n + 1] - queue[1]
  BY <1>2
<1>5. \A n \in 0 .. len : sums[n] \in Int /\ sums[n] <= queuedBytes
  BY <1>1, <1>2
<1> HIDE DEF rest, len
<1>6. sums[1] = queue[1]
  <2>1. sums[0] = 0 /\ sums[1] = sums[1 - 1] + queue[1]
    BY <1>1, <1>2 DEF RunningTotal, len
  <2> QED
    BY <2>1, <1>2
<1>7. ASSUME NEW m \in 0 .. len - 1, NEW n \in 0 .. len - 1, m <= n PROVE rest[m] <= rest[n]
  <2>1. m + 1 \in 0 .. len /\ n + 1 \in 0 .. len /\ m + 1 <= n + 1
    BY <1>2, <1>7
  <2>2. sums[m + 1] <= sums[n + 1]
    BY <1>1, <2>1 DEF Climbing, len
  <2> QED
    BY <2>1, <2>2, <1>2, <1>4, <1>5
<1>8. rest[0] = 0 /\ \A n \in 1 .. len - 1 : rest[n] = rest[n - 1] + queue'[n]
  <2>1. rest[0] = 0
    BY <1>2, <1>4, <1>6
  <2>2. ASSUME NEW n \in 1 .. len - 1 PROVE rest[n] = rest[n - 1] + queue'[n]
    <3>1. /\ n + 1 \in 1 .. len /\ n - 1 \in 0 .. len - 1 /\ n \in 0 .. len
          /\ n \in 0 .. len - 1 /\ (n + 1) - 1 = n /\ (n - 1) + 1 = n
      BY <1>2
    <3>2. sums[n + 1] = sums[n] + queue[n + 1]
      BY <1>1, <3>1 DEF RunningTotal, len
    <3>3. queue[n + 1] \in Nat /\ queue'[n] = queue[n + 1]
      <4>1. queue \in Seq(Corrections \ {0})
        BY DEF TypeOK
      <4>2. queue[n + 1] \in Corrections
        BY <3>1, <4>1, ElementOfSeq DEF len
      <4> QED
        BY <4>2, <1>3
    <3>4. rest[n] = sums[n + 1] - queue[1] /\ rest[n - 1] = sums[n] - queue[1]
      BY <1>4, <3>1
    <3>5. sums[n] \in Int /\ sums[n + 1] \in Int
      BY <3>1, <1>5
    <3> QED
      BY <3>2, <3>3, <3>4, <3>5, <1>2
  <2> QED
    BY <2>1, <2>2
<1>9. rest \in [0 .. len - 1 -> 0 .. queuedBytes - queue[1]]
  <2>1. ASSUME NEW n \in 0 .. len - 1 PROVE rest[n] \in 0 .. queuedBytes - queue[1]
    <3>1. 0 \in 0 .. len - 1 /\ rest[0] <= rest[n]
      BY <1>2, <1>7
    <3> QED
      BY <3>1, <1>2, <1>4, <1>5, <1>8
  <2> QED
    BY <2>1 DEF rest
<1>10. rest[len - 1] = queuedBytes - queue[1]
  BY <1>1, <1>2, <1>4
<1> QED
  BY <1>3, <1>7, <1>8, <1>9, <1>10 DEF BytesInv, RunningTotal, Climbing

(* The counter stays the sum of the queue. *)
LEMMA BytesNext == TypeOK /\ BytesInv /\ [Next]_vars => BytesInv'
<1> SUFFICES ASSUME TypeOK, BytesInv, [Next]_vars PROVE BytesInv'
  OBVIOUS
<1> USE DEF UnchangedByWorker
<1>0. UNCHANGED <<queue, queuedBytes>> => BytesInv'
  BY DEF BytesInv, RunningTotal, Climbing
<1>1. ASSUME NEW data \in Corrections, Enqueue(data) PROVE BytesInv'
  BY <1>0, <1>1, BytesAdmitted DEF Enqueue
<1>2. CASE Discard
  <2> DEFINE none == [n \in 0 .. 0 |-> 0]
  <2>1. Len(queue') = 0 /\ queuedBytes' = 0
    BY <1>2 DEF Discard
  <2>2. none \in [0 .. Len(queue') -> 0 .. queuedBytes'] /\ none[0] = 0
    BY <2>1
  <2> HIDE DEF none
  <2> QED
    BY <2>1, <2>2 DEF BytesInv, RunningTotal, Climbing
<1>3. CASE Destroy
  BY <1>0, <1>3 DEF Destroy, RequestStop, Join
<1>4. CASE TakeFront
  BY <1>4, BytesTaken
<1>5. CASE Loop \/ Sleep \/ LeaveWait \/ SinkReturns \/ Judge \/ Reported
  BY <1>0, <1>5 DEF Loop, Sleep, LeaveWait, SinkReturns, Judge, Reported
<1>6. CASE UNCHANGED vars
  BY <1>0, <1>6 DEF vars
<1> QED
  BY <1>1, <1>2, <1>3, <1>4, <1>5, <1>6 DEF Next, Worker, Destroyed

(* The invariant is inductive, and holds of every reachable state. *)
LEMMA NextIInv == IInv /\ [Next]_vars => IInv'
BY TypeNext, LimitsNext, OwnerNext, OrderNext, BytesNext DEF IInv

LEMMA Invariant == Spec => []IInv
BY InitIInv, NextIInv, PTL DEF Spec

-----------------------------------------------------------------------------
(* Every variable of the writer keeps its type. *)
THEOREM TypeCorrect == Spec => []TypeOK
<1>1. IInv => TypeOK
  BY DEF IInv
<1> QED
  BY <1>1, Invariant, PTL

(* The byte counter is always the sum of the corrections that wait. *)
THEOREM BytesNeverDrift == Spec => []BytesAccounted
<1>1. IInv => BytesAccounted
  BY DEF IInv, BytesInv, BytesAccounted
<1> QED
  BY <1>1, Invariant, PTL

(* Neither limit of the queue is ever exceeded. *)
THEOREM LimitsHold == Spec => []WithinLimits
<1>1. IInv => WithinLimits
  BY DEF IInv
<1> QED
  BY <1>1, Invariant, PTL

(* Nothing waits once the destructor has begun. *)
THEOREM NothingWaitsForALeavingWorker == Spec => []DiscardedForGood
<1>1. IInv => DiscardedForGood
  BY DEF IInv, OrderInv, DiscardedForGood
<1> QED
  BY <1>1, Invariant, PTL

(* When the destructor has returned the worker has left. *)
THEOREM WorkerIsJoined == Spec => []NothingRunsAfterDestruction
<1>1. IInv => NothingRunsAfterDestruction
  BY DEF IInv, OwnerInv, NothingRunsAfterDestruction
<1> QED
  BY <1>1, Invariant, PTL

(* A cancelled write is never reported. *)
THEOREM OnlyFailuresAreReported == Spec => []CancelIsSilent
<1>1. IInv => CancelIsSilent
  BY DEF IInv, ResultInv, CancelIsSilent
<1> QED
  BY <1>1, Invariant, PTL

(* Every step of the writer is a step of the channel, or none. *)
LEMMA StepKeepsChannel ==
  IInv /\ [Next]_vars
    => [Channel!Accept \/ Channel!Take \/ Channel!Close]_<<accepted, taken, ~stopping>>
<1> SUFFICES ASSUME IInv, [Next]_vars
             PROVE  [Channel!Accept \/ Channel!Take \/ Channel!Close]_<<accepted, taken, ~stopping>>
  OBVIOUS
<1> USE DEF UnchangedByWorker
<1>0. queue \in Seq(Corrections) /\ taken \in Seq(Corrections)
  BY WiderSeq DEF IInv, TypeOK
<1>1. ASSUME NEW data \in Corrections, Enqueue(data)
      PROVE  Channel!Accept \/ UNCHANGED <<accepted, taken, ~stopping>>
  BY <1>1 DEF Enqueue, NotAdmitted, Admit, Channel!Accept
<1>2. CASE Discard
  BY <1>2 DEF Discard, Channel!Close, IInv, OwnerInv
<1>3. CASE Destroy
  BY <1>3 DEF Destroy, RequestStop, Join
<1>4. CASE TakeFront
  BY <1>0, <1>4, MoveHead DEF TakeFront, Channel!Take, IInv, OrderInv
<1>5. CASE Loop \/ Sleep \/ LeaveWait \/ SinkReturns \/ Judge \/ Reported
  BY <1>5 DEF Loop, Sleep, LeaveWait, SinkReturns, Judge, Reported
<1>6. CASE UNCHANGED vars
  BY <1>6 DEF vars
<1> QED
  BY <1>1, <1>2, <1>3, <1>4, <1>5, <1>6 DEF Next, Worker, Destroyed

(* The writer implements OrderedChannel: corrections are handed to the     *)
(* device whole, once each, in order, and none after the destructor began. *)
THEOREM ImplementsChannel == Spec => ChannelSpec
<1>1. Init => Channel!Init
  BY DEF Init, Channel!Init
<1> QED
  BY <1>1, StepKeepsChannel, Invariant, PTL DEF Spec, ChannelSpec, Channel!Spec

=============================================================================
