----------------------------- MODULE RtcmWriter -----------------------------
(***************************************************************************)
(* RtcmWriter (sbg_driver_core/src/rtcm_writer.cpp): a bounded queue in    *)
(* front of a worker thread that writes corrections to the device.         *)
(*                                                                         *)
(* A correction is its number of bytes, which is all the writer looks at.  *)
(* Callers enqueue without blocking; the worker takes one correction at a  *)
(* time under the mutex and calls the sink (Device::write_rtcm) without    *)
(* it; the destructor empties the queue, requests the stop and joins.      *)
(***************************************************************************)
EXTENDS Integers, Sequences, SequencesExt

CONSTANTS
  Corrections,  \* the byte counts offered
  MaxMessages,  \* k_max_messages
  MaxBytes,     \* k_max_bytes
  MaxAccepted   \* bound: corrections admitted in a behaviour

ASSUME LimitsAssumption ==
  /\ Corrections \subseteq Nat
  /\ MaxMessages \in Nat /\ MaxBytes \in Nat /\ MaxAccepted \in Nat

VARIABLES
  queue, queuedBytes, stopping,  \* queue_, queued_bytes_, stopping_
  stopRequested,  \* the worker's stop token
  worker,         \* where run() is
  result,         \* what the last call of the sink returned
  owner,          \* whether the writer is in use, or how far its destructor is
  accepted,       \* history: every correction enqueue admitted
  taken           \* history: every correction handed to the sink

vars == <<queue, queuedBytes, stopping, stopRequested, worker, result, owner, accepted, taken>>

Init ==
  /\ queue = <<>> /\ queuedBytes = 0 /\ stopping = FALSE /\ stopRequested = FALSE
  /\ worker = "check" /\ result = "ok" /\ owner = "using"
  /\ accepted = <<>> /\ taken = <<>>

-----------------------------------------------------------------------------
(* The callers.                                                            *)

HasRoom(data) == data <= MaxBytes - queuedBytes /\ Len(queue) < MaxMessages

(* enqueue returns true for an empty correction, and false for the others  *)
(* it does not admit; neither changes anything.                            *)
NotAdmitted(data) == stopping \/ data = 0 \/ ~HasRoom(data)

(* notify_one, notify_all and a requested stop: who sleeps looks again. *)
Woken == IF worker = "asleep" THEN "waiting" ELSE worker

Admit(data) ==
  /\ queue' = Append(queue, data)
  /\ queuedBytes' = queuedBytes + data
  /\ accepted' = Append(accepted, data)
  /\ worker' = Woken

(* Mutant of Admit: the worker is not notified. *)
EnqueueQuietly(data) ==
  /\ owner # "destroyed" /\ Len(accepted) < MaxAccepted
  /\ IF NotAdmitted(data)
     THEN UNCHANGED <<queue, queuedBytes, worker, accepted>>
     ELSE /\ queue' = Append(queue, data)
          /\ queuedBytes' = queuedBytes + data
          /\ accepted' = Append(accepted, data)
          /\ UNCHANGED worker
  /\ UNCHANGED <<stopping, stopRequested, result, owner, taken>>

Enqueue(data) ==
  /\ owner # "destroyed" /\ Len(accepted) < MaxAccepted
  /\ IF NotAdmitted(data)
     THEN UNCHANGED <<queue, queuedBytes, worker, accepted>>
     ELSE Admit(data)
  /\ UNCHANGED <<stopping, stopRequested, result, owner, taken>>

-----------------------------------------------------------------------------
(* The destructor.                                                         *)

Discard ==
  /\ owner = "using" /\ owner' = "stopping"
  /\ stopping' = TRUE /\ queue' = <<>> /\ queuedBytes' = 0
  /\ UNCHANGED <<stopRequested, worker, result, accepted, taken>>

(* Mutant of RequestStop: a worker that sleeps is not told. *)
RequestStopQuietly ==
  /\ owner = "stopping" /\ owner' = "joining"
  /\ stopRequested' = TRUE
  /\ UNCHANGED <<queue, queuedBytes, stopping, worker, result, accepted, taken>>

RequestStop ==
  /\ owner = "stopping" /\ owner' = "joining"
  /\ stopRequested' = TRUE
  /\ worker' = Woken
  /\ UNCHANGED <<queue, queuedBytes, stopping, result, accepted, taken>>

(* Mutant of Join: the destructor does not wait for the worker. *)
Detach ==
  /\ owner = "joining" /\ owner' = "destroyed"
  /\ UNCHANGED <<queue, queuedBytes, stopping, stopRequested, worker, result, accepted, taken>>

Join ==
  /\ owner = "joining" /\ worker = "exited"
  /\ owner' = "destroyed"
  /\ UNCHANGED <<queue, queuedBytes, stopping, stopRequested, worker, result, accepted, taken>>

-----------------------------------------------------------------------------
(* The worker: run.                                                        *)

UnchangedByWorker == UNCHANGED <<stopping, stopRequested, owner, accepted>>

Loop ==
  /\ worker = "check"
  /\ worker' = IF stopRequested THEN "exited" ELSE "waiting"
  /\ UnchangedByWorker /\ UNCHANGED <<queue, queuedBytes, result, taken>>

(* Mutant of TakeFront: the newest correction is taken first. *)
TakeBack ==
  /\ worker = "waiting" /\ ~stopping /\ queue # <<>>
  /\ worker' = "sinking"
  /\ queue' = Front(queue) /\ queuedBytes' = queuedBytes - Last(queue)
  /\ taken' = Append(taken, Last(queue))
  /\ UnchangedByWorker /\ UNCHANGED result

(* Mutant of TakeFront: the bytes are still counted as queued. *)
TakeKeepingBytes ==
  /\ worker = "waiting" /\ ~stopping /\ queue # <<>>
  /\ worker' = "sinking"
  /\ queue' = Tail(queue)
  /\ taken' = Append(taken, Head(queue))
  /\ UnchangedByWorker /\ UNCHANGED <<queuedBytes, result>>

TakeFront ==
  /\ worker = "waiting" /\ ~stopping /\ queue # <<>>
  /\ worker' = "sinking"
  /\ queue' = Tail(queue) /\ queuedBytes' = queuedBytes - Head(queue)
  /\ taken' = Append(taken, Head(queue))
  /\ UnchangedByWorker /\ UNCHANGED result

(* The predicate of the wait is false: release the mutex and sleep. *)
Sleep ==
  /\ worker = "waiting" /\ ~stopping /\ queue = <<>>
  /\ worker' = "asleep"
  /\ UnchangedByWorker /\ UNCHANGED <<queue, queuedBytes, result, taken>>

(* The wait ends with the stop as well, and the worker leaves. *)
LeaveWait ==
  /\ worker = "waiting" /\ stopping
  /\ worker' = "exited"
  /\ UnchangedByWorker /\ UNCHANGED <<queue, queuedBytes, result, taken>>

(* The sink writes the correction, fails (or throws, which is a failure    *)
(* too), or gives up because the stop was requested.                       *)
SinkReturns ==
  /\ worker = "sinking" /\ worker' = "returned"
  /\ \/ result' \in {"ok", "failed"}
     \/ stopRequested /\ result' = "cancelled"
  /\ UnchangedByWorker /\ UNCHANGED <<queue, queuedBytes, taken>>

(* A failure is reported unless the writer is being destroyed. *)
Judge ==
  /\ worker = "returned"
  /\ worker' = IF result # "ok" /\ ~stopRequested THEN "reporting" ELSE "check"
  /\ UnchangedByWorker /\ UNCHANGED <<queue, queuedBytes, result, taken>>

Reported ==
  /\ worker = "reporting" /\ worker' = "check"
  /\ UnchangedByWorker /\ UNCHANGED <<queue, queuedBytes, result, taken>>

-----------------------------------------------------------------------------
Destroy == RequestStop \/ Join
Worker == Loop \/ Sleep \/ TakeFront \/ LeaveWait \/ SinkReturns \/ Judge \/ Reported
Destroyed == owner = "destroyed" /\ UNCHANGED vars

Next == (\E data \in Corrections : Enqueue(data)) \/ Discard \/ Destroy \/ Worker \/ Destroyed

Spec == Init /\ [][Next]_vars

(* The worker is scheduled, its sink returns (a write has a deadline, and  *)
(* honours the stop), and a destructor that has begun runs on.             *)
FairSpec == Spec /\ WF_vars(Worker) /\ WF_vars(Destroy)

-----------------------------------------------------------------------------
(* Properties.                                                             *)

TypeOK ==
  /\ queue \in Seq(Corrections \ {0}) /\ queuedBytes \in Int
  /\ stopping \in BOOLEAN /\ stopRequested \in BOOLEAN
  /\ worker \in {"check", "waiting", "asleep", "sinking", "returned", "reporting", "exited"}
  /\ result \in {"ok", "failed", "cancelled"}
  /\ owner \in {"using", "stopping", "joining", "destroyed"}
  /\ accepted \in Seq(Corrections) /\ taken \in Seq(Corrections)

(* The bytes in the first n corrections of the queue, for every n. *)
RunningTotal(sums) ==
  sums[0] = 0 /\ \A n \in 1 .. Len(queue) : sums[n] = sums[n - 1] + queue[n]

(* The byte count is that of the queue, whatever enqueue, the worker and   *)
(* the destructor do in between: it never drifts, so the queue is not      *)
(* refused or overrun for bytes that left it long ago.                     *)
BytesAccounted ==
  \E sums \in [0 .. Len(queue) -> 0 .. queuedBytes] :
    RunningTotal(sums) /\ queuedBytes = sums[Len(queue)]

(* Neither limit is exceeded, so k_max_bytes - queued_bytes_ does not wrap. *)
WithinLimits == queuedBytes <= MaxBytes /\ Len(queue) <= MaxMessages

(* Once the destructor has begun nothing waits, and nothing is admitted to *)
(* wait for a worker that is leaving.                                      *)
DiscardedForGood == stopping => queue = <<>> /\ queuedBytes = 0

(* When the destructor returns the worker is out of the sink and of the    *)
(* failure callback, whose device and logger may go away.                  *)
NothingRunsAfterDestruction == owner = "destroyed" => worker = "exited"

(* A write that was cut short by the destructor is not reported as a       *)
(* failure of the link.                                                    *)
CancelIsSilent == worker = "reporting" => result = "failed"

(* Corrections reach the sink whole, once each, in order, until the end. *)
Channel ==
  INSTANCE OrderedChannel WITH Items <- Corrections, open <- ~stopping
ChannelSpec == Channel!Spec

(* An admitted correction is handed to the sink unless the destructor      *)
(* begins first: the worker never sleeps on a queue that is not empty.     *)
HandedOn ==
  \A n \in 1 .. MaxAccepted : Len(accepted) >= n ~> Len(taken) >= n \/ stopping

(* The destructor returns, wherever it met the worker. *)
DestructionEnds == owner = "stopping" ~> owner = "destroyed"

=============================================================================
