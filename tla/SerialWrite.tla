---------------------------- MODULE SerialWrite ----------------------------
(***************************************************************************)
(* TransportImpl::write_serial (sbg_driver_core/src/transport.cpp): the    *)
(* writes of several threads on one serial line, each with a deadline, and *)
(* with a stop token where the caller has one.  The RTCM worker calls it   *)
(* through Transport::write, the SDK's commands through the interface.     *)
(*                                                                         *)
(* The program's own steps take no time; time passes while every thread in *)
(* a write sleeps in try_lock_for or in poll.  A moment is how many ticks  *)
(* are left until it, below zero once it has passed.  A byte is the frame  *)
(* it belongs to.                                                          *)
(***************************************************************************)
EXTENDS Integers, Sequences, FiniteSets

CONSTANTS
  Writers,      \* the threads that write,
  Stoppable,    \* and those of them that have a stop token
  Sizes,        \* the lengths of the frames, in bytes
  Timeout,      \* how long a write may take: 100 ms, in ticks
  LockSlice,    \* how long try_lock_for waits: 1 ms
  PollSlice,    \* how long poll waits at most: 10 ms
  Millisecond,  \* the unit of poll's timeout: 1 ms
  MaxFrames,    \* bound: frames per writer
  None          \* nobody holds the mutex

ASSUME WriteAssumption ==
  /\ Stoppable \subseteq Writers /\ None \notin Writers
  /\ Sizes \subseteq Nat
  /\ Timeout \in Nat /\ MaxFrames \in Nat
  /\ Millisecond \in Nat /\ LockSlice \in Nat /\ PollSlice \in Nat
  /\ Millisecond > 0 /\ LockSlice >= Millisecond /\ PollSlice >= Millisecond

VARIABLES
  mutex,     \* who holds write_mutex
  pc,        \* where each writer is
  length,    \* the bytes of its last frame,
  size,      \* and those it has still to write
  deadline,  \* the ticks to the deadline of its write
  nap,       \* the ticks to the end of its sleep
  stopped,   \* was its stop requested?
  frame,     \* the frames it has begun; the last is in the write
  result,    \* what its last write returned
  ignored,   \* history: the ticks its write went on after the stop
  line       \* history: the bytes the kernel took, each <<writer, frame>>

vars == <<mutex, pc, length, size, deadline, nap, stopped, frame, result, ignored, line>>

Init ==
  /\ mutex = None
  /\ pc = [w \in Writers |-> "idle"]
  /\ length = [w \in Writers |-> 0] /\ size = [w \in Writers |-> 0]
  /\ deadline = [w \in Writers |-> 0] /\ nap = [w \in Writers |-> 0]
  /\ stopped = [w \in Writers |-> FALSE] /\ ignored = [w \in Writers |-> 0]
  /\ frame = [w \in Writers |-> 0] /\ result = [w \in Writers |-> "ok"]
  /\ line = <<>>

Go(w, where) == pc' = [pc EXCEPT ![w] = where]

(* The write returns; the unique_lock gives back the mutex it owns. *)
Return(w, outcome) ==
  /\ Go(w, "idle")
  /\ result' = [result EXCEPT ![w] = outcome]
  /\ mutex' = IF mutex = w THEN None ELSE mutex
  /\ deadline' = [deadline EXCEPT ![w] = 0] /\ nap' = [nap EXCEPT ![w] = 0]

SleepFor(w, where, ticks) ==
  /\ Go(w, where)
  /\ nap' = [nap EXCEPT ![w] = ticks]

-----------------------------------------------------------------------------
(* The callers.                                                            *)

(* Transport::write refuses a caller that was stopped; an SDK command has  *)
(* no stop token.  An empty frame has nothing to write.                    *)
Begin(w, bytes) ==
  /\ pc[w] = "idle" /\ frame[w] < MaxFrames /\ ~stopped[w]
  /\ Go(w, "locking")
  /\ length' = [length EXCEPT ![w] = bytes] /\ size' = [size EXCEPT ![w] = bytes]
  /\ deadline' = [deadline EXCEPT ![w] = Timeout]
  /\ frame' = [frame EXCEPT ![w] = @ + 1]
  /\ UNCHANGED <<mutex, nap, stopped, result, ignored, line>>

(* request_stop, by the thread that destroys the worker. *)
RequestStop(w) ==
  /\ w \in Stoppable /\ ~stopped[w]
  /\ stopped' = [stopped EXCEPT ![w] = TRUE]
  /\ UNCHANGED <<mutex, pc, length, size, deadline, nap, frame, result, ignored, line>>

-----------------------------------------------------------------------------
(* Taking the mutex.                                                       *)

(* try_lock, or try_lock_for that succeeds before its time is over. *)
Lock(w) ==
  /\ pc[w] \in {"locking", "waiting"} /\ mutex = None
  /\ mutex' = w /\ Go(w, "writing")
  /\ UNCHANGED <<length, size, deadline, nap, stopped, frame, result, ignored, line>>

LockFails(w) ==
  /\ pc[w] = "locking" /\ mutex # None
  /\ IF stopped[w]
     THEN Return(w, "cancelled")
     ELSE IF deadline[w] <= 0
          THEN Return(w, "timeout")
          ELSE SleepFor(w, "waiting", LockSlice) /\ UNCHANGED <<mutex, deadline, result>>
  /\ UNCHANGED <<length, size, stopped, frame, ignored, line>>

LockAgain(w) ==
  /\ pc[w] = "waiting" /\ nap[w] <= 0
  /\ Go(w, "locking")
  /\ UNCHANGED <<mutex, length, size, deadline, nap, stopped, frame, result, ignored, line>>

-----------------------------------------------------------------------------
(* Writing, with the mutex held.                                           *)

(* Mutant of Check: the stop is looked at while waiting for the mutex only. *)
CheckDeadline(w) ==
  /\ pc[w] = "writing"
  /\ IF size[w] = 0
     THEN Return(w, "ok")
     ELSE IF deadline[w] <= 0
          THEN Return(w, "timeout")
          ELSE Go(w, "sending") /\ UNCHANGED <<mutex, deadline, nap, result>>
  /\ UNCHANGED <<length, size, stopped, frame, ignored, line>>

Check(w) ==
  /\ pc[w] = "writing"
  /\ IF size[w] = 0
     THEN Return(w, "ok")
     ELSE IF stopped[w]
          THEN Return(w, "cancelled")
          ELSE IF deadline[w] <= 0
               THEN Return(w, "timeout")
               ELSE Go(w, "sending") /\ UNCHANGED <<mutex, deadline, nap, result>>
  /\ UNCHANGED <<length, size, stopped, frame, ignored, line>>

(* Mutant of Send: what the kernel took of a frame passes for all of it. *)
SendOnce(w, bytes) ==
  /\ pc[w] = "sending" /\ bytes \in 1 .. size[w]
  /\ size' = [size EXCEPT ![w] = 0]
  /\ line' = line \o [i \in 1 .. bytes |-> <<w, frame[w]>>]
  /\ Go(w, "writing")
  /\ UNCHANGED <<mutex, length, deadline, nap, stopped, frame, result, ignored>>

(* Mutant of Send: the mutex is held for one call of write() at a time. *)
SendAndUnlock(w, bytes) ==
  /\ pc[w] = "sending" /\ bytes \in 1 .. size[w]
  /\ size' = [size EXCEPT ![w] = @ - bytes]
  /\ line' = line \o [i \in 1 .. bytes |-> <<w, frame[w]>>]
  /\ mutex' = None /\ Go(w, "locking")
  /\ UNCHANGED <<length, deadline, nap, stopped, frame, result, ignored>>

(* write(): the kernel takes some of the bytes. *)
Send(w, bytes) ==
  /\ pc[w] = "sending" /\ bytes \in 1 .. size[w]
  /\ size' = [size EXCEPT ![w] = @ - bytes]
  /\ line' = line \o [i \in 1 .. bytes |-> <<w, frame[w]>>]
  /\ Go(w, "writing")
  /\ UNCHANGED <<mutex, length, deadline, nap, stopped, frame, result, ignored>>

(* Mutant of PollTime: poll waits a slice whatever time is left. *)
PollFullSlice(w) == PollSlice

(* The time that is left, in milliseconds rounded up, and at most a slice. *)
PollTime(w) ==
  LET left == Millisecond * ((deadline[w] + Millisecond - 1) \div Millisecond)
  IN  IF left < PollSlice THEN left ELSE PollSlice

(* EAGAIN, EINTR or nothing written: wait until there is room. *)
NoRoom(w) ==
  /\ pc[w] = "sending" /\ SleepFor(w, "polling", PollTime(w))
  /\ UNCHANGED <<mutex, length, size, deadline, stopped, frame, result, ignored, line>>

(* poll returns: there is room, or a signal came, or its time is over. *)
PollReturns(w) ==
  /\ pc[w] = "polling" /\ Go(w, "writing")
  /\ UNCHANGED <<mutex, length, size, deadline, nap, stopped, frame, result, ignored, line>>

(* write() fails, or poll does, or the line was hung up. *)
LineFails(w) ==
  /\ pc[w] \in {"sending", "polling"}
  /\ Return(w, "error")
  /\ UNCHANGED <<length, size, stopped, frame, ignored, line>>

-----------------------------------------------------------------------------
Asleep(w) == pc[w] \in {"waiting", "polling"} /\ nap[w] > 0

(* A tick, while everybody in a write sleeps. *)
Tick ==
  /\ \A w \in Writers : pc[w] = "idle" \/ Asleep(w)
  /\ \E w \in Writers : Asleep(w)
  /\ deadline' = [w \in Writers |-> IF Asleep(w) THEN deadline[w] - 1 ELSE deadline[w]]
  /\ nap' = [w \in Writers |-> IF Asleep(w) THEN nap[w] - 1 ELSE nap[w]]
  /\ ignored' = [w \in Writers |->
                   IF Asleep(w) /\ stopped[w] THEN ignored[w] + 1 ELSE ignored[w]]
  /\ UNCHANGED <<mutex, pc, length, size, stopped, frame, result, line>>

Write(w) ==
  \/ Lock(w) \/ LockFails(w) \/ LockAgain(w)
  \/ Check(w) \/ (\E bytes \in 1 .. size[w] : Send(w, bytes))
  \/ NoRoom(w) \/ PollReturns(w) \/ LineFails(w)

Call(w) == \E bytes \in Sizes : Begin(w, bytes)

(* Nobody writes: only a writer in a write may not get stuck. *)
Quiet == (\A w \in Writers : pc[w] = "idle") /\ UNCHANGED vars

Next == Tick \/ Quiet \/ \E w \in Writers : Call(w) \/ RequestStop(w) \/ Write(w)

Spec == Init /\ [][Next]_vars

-----------------------------------------------------------------------------
(* Properties.                                                             *)

LongestSlice == IF PollSlice > LockSlice THEN PollSlice ELSE LockSlice

TypeOK ==
  /\ mutex \in Writers \cup {None}
  /\ pc \in [Writers -> {"idle", "locking", "waiting", "writing", "sending", "polling"}]
  /\ length \in [Writers -> Nat] /\ size \in [Writers -> Nat] /\ frame \in [Writers -> Nat]
  /\ deadline \in [Writers -> Int] /\ nap \in [Writers -> 0 .. LongestSlice]
  /\ stopped \in [Writers -> BOOLEAN] /\ ignored \in [Writers -> Nat]
  /\ result \in [Writers -> {"ok", "cancelled", "timeout", "error"}]
  /\ line \in Seq(Writers \X Nat)

(* The frames do not interleave: between two bytes of a frame there are    *)
(* only bytes of that frame, however often the kernel makes its writer     *)
(* wait, and whoever else waits for the line.                              *)
FramesUnbroken ==
  \A i, k \in DOMAIN line : line[i] = line[k] => \A j \in i .. k : line[j] = line[i]

(* A write reports success exactly if the line got the whole frame: one    *)
(* that was cut short by the stop, the deadline or the line says so, and   *)
(* one that is complete is not reported as cut short ("do not retry").     *)
Sent(w) == Cardinality({i \in DOMAIN line : line[i] = <<w, frame[w]>>})
SuccessIsWhole ==
  \A w \in Writers :
    pc[w] = "idle" /\ frame[w] > 0 => (result[w] = "ok" <=> Sent(w) = length[w])

(* "Serial writes time out": a write is over when its deadline is, or the  *)
(* slice it sleeps then, which ends within a millisecond of it, even if    *)
(* another writer holds the mutex or the line takes nothing.               *)
OnTime == \A w \in Writers : pc[w] # "idle" => deadline[w] > -LockSlice

(* "Cancellation is checked at most every 10 ms": a writer that is stopped *)
(* leaves within the longer of the slices, so that the destructor that     *)
(* joins it is not held up by a line that takes nothing.                   *)
StopObserved == \A w \in Writers : ignored[w] <= LongestSlice
=============================================================================
