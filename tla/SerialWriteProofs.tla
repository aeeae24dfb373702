------------------------- MODULE SerialWriteProofs -------------------------
(***************************************************************************)
(* Proofs about SerialWrite, for every set of writers, frame lengths,      *)
(* deadline and slices: frames do not interleave, a write ends in time     *)
(* after its deadline and after its stop, and what it reports is true of   *)
(* the line.                                                               *)
(***************************************************************************)
EXTENDS SerialWrite, SequenceTheorems, FiniteSetTheorems, TLAPS

(* Whoever is past the lock holds it, and nobody else does. *)
Holding(where) == where \in {"writing", "sending", "polling"}
LockInv == \A w \in Writers : Holding(pc[w]) <=> mutex = w

(* Bytes of frames begun; none yet of a frame whose writer waits for the   *)
(* mutex; and those of the frame being written are the end of the line.    *)
LineInv ==
  /\ \A i \in DOMAIN line : line[i][2] <= frame[line[i][1]]
  /\ \A w \in Writers :
       pc[w] \in {"locking", "waiting"} => \A i \in DOMAIN line : line[i] # <<w, frame[w]>>
  /\ \A w \in Writers :
       Holding(pc[w]) =>
         \A i \in DOMAIN line :
           line[i] = <<w, frame[w]>> => \A j \in i .. Len(line) : line[j] = line[i]

(* A sleep begins before the deadline and is a slice at most; a writer     *)
(* that is stopped finishes the one it is in, or one it is about to begin, *)
(* and does not begin another.                                             *)
Timely(w) ==
  /\ pc[w] \in {"locking", "writing"} => deadline[w] > -LockSlice
  /\ pc[w] = "sending" => deadline[w] > 0 /\ ignored[w] = 0
  /\ pc[w] \in {"waiting", "polling"} =>
       deadline[w] - nap[w] > -LockSlice /\ ignored[w] + nap[w] <= LongestSlice
  /\ ~stopped[w] => ignored[w] = 0
  /\ ignored[w] <= LongestSlice
TimeInv == \A w \in Writers : Timely(w)

IInv == TypeOK /\ LockInv /\ LineInv /\ FramesUnbroken /\ TimeInv


-----------------------------------------------------------------------------
(* The slices.                                                             *)

(* The longest slice is one of the two. *)
LEMMA Slices ==
  /\ LongestSlice \in Nat /\ PollSlice <= LongestSlice /\ LockSlice <= LongestSlice
  /\ LockSlice \in Nat /\ LockSlice > 0
BY WriteAssumption DEF LongestSlice

(* Rounded up to the unit, a time grows by less than the unit. *)
LEMMA RoundUp ==
  ASSUME NEW ticks \in Nat, ticks > 0
  PROVE  /\ Millisecond * ((ticks + Millisecond - 1) \div Millisecond) \in Nat
         /\ Millisecond * ((ticks + Millisecond - 1) \div Millisecond) < ticks + Millisecond
<1> DEFINE x == ticks + Millisecond - 1
<1>1. Millisecond \in Nat /\ Millisecond > 0 /\ x \in Nat
  BY WriteAssumption
<1>2. x = Millisecond * (x \div Millisecond) + (x % Millisecond)
  BY <1>1
<1>3. x \div Millisecond \in Nat /\ x % Millisecond \in Nat
  BY <1>1
<1>4. Millisecond * (x \div Millisecond) \in Nat
  BY <1>1, <1>3
<1> QED
  BY <1>1, <1>2, <1>3, <1>4

(* poll waits a slice at most, and less than a millisecond too long. *)
LEMMA PollTimeBound ==
  ASSUME TypeOK, NEW w \in Writers, deadline[w] > 0
  PROVE  /\ PollTime(w) \in 0 .. LongestSlice
         /\ deadline[w] - PollTime(w) > -LockSlice
<1> DEFINE left == Millisecond * ((deadline[w] + Millisecond - 1) \div Millisecond)
<1>1. deadline[w] \in Nat
  BY DEF TypeOK
<1>2. left \in Nat /\ left < deadline[w] + Millisecond
  BY <1>1, RoundUp
<1>3. PollTime(w) = IF left < PollSlice THEN left ELSE PollSlice
  BY DEF PollTime
<1> HIDE DEF left
<1> QED
  BY <1>1, <1>2, <1>3, Slices, WriteAssumption

-----------------------------------------------------------------------------
(* Types.                                                                  *)

(* The line starts empty and every writer idle. *)
LEMMA InitIInv == Init => IInv
<1> SUFFICES ASSUME Init PROVE IInv
  OBVIOUS
<1> USE DEF Init
<1>1. TypeOK
  <2>1. line \in Seq(Writers \X Nat)
    BY EmptySeq
  <2>2. 0 \in 0 .. LongestSlice
    BY Slices
  <2> QED
    BY <2>1, <2>2 DEF TypeOK
<1>2. LockInv
  BY WriteAssumption DEF LockInv, Holding
<1>3. DOMAIN line = {}
  OBVIOUS
<1>4. LineInv /\ FramesUnbroken
  BY <1>3 DEF LineInv, FramesUnbroken, Holding
<1>5. TimeInv
  BY Slices DEF TimeInv, Timely
<1> QED
  BY <1>1, <1>2, <1>4, <1>5 DEF IInv

(* What a step of a writer does to the line, if anything. *)
LEMMA SendLine ==
  ASSUME TypeOK, NEW w \in Writers, NEW bytes \in 1 .. size[w], Send(w, bytes)
  PROVE  /\ line' \in Seq(Writers \X Nat)
         /\ bytes \in Nat \ {0}
         /\ Len(line') = Len(line) + bytes
         /\ \A i \in 1 .. Len(line) : line'[i] = line[i]
         /\ \A i \in Len(line) + 1 .. Len(line) + bytes : line'[i] = <<w, frame[w]>>
<1> DEFINE more == [i \in 1 .. bytes |-> <<w, frame[w]>>]
<1>1. size[w] \in Nat /\ frame[w] \in Nat /\ line \in Seq(Writers \X Nat)
  BY DEF TypeOK
<1>2. bytes \in Nat \ {0}
  BY <1>1
<1>3. more \in Seq(Writers \X Nat) /\ Len(more) = bytes
  BY <1>1, <1>2, IsASeq
<1>4. line' = line \o more
  BY DEF Send
<1>5. /\ line \o more \in Seq(Writers \X Nat)
      /\ Len(line \o more) = Len(line) + Len(more)
      /\ \A i \in 1 .. Len(line) + Len(more) :
           (line \o more)[i] = IF i <= Len(line) THEN line[i] ELSE more[i - Len(line)]
  BY <1>1, <1>3, ConcatProperties
<1>6. Len(line) \in Nat
  BY <1>1, LenProperties
<1>7. ASSUME NEW i \in Len(line) + 1 .. Len(line) + bytes
      PROVE  more[i - Len(line)] = <<w, frame[w]>> /\ ~(i <= Len(line)) /\ i \in 1 .. Len(line) + bytes
  BY <1>2, <1>6, <1>7
<1> HIDE DEF more
<1> QED
  BY <1>2, <1>3, <1>4, <1>5, <1>6, <1>7

(* A write that returns leaves the types alone. *)
LEMMA ReturnType ==
  ASSUME TypeOK, NEW w \in Writers,
         NEW outcome \in {"ok", "cancelled", "timeout", "error"}, Return(w, outcome)
  PROVE  /\ mutex' \in Writers \cup {None}
         /\ pc' \in [Writers -> {"idle", "locking", "waiting", "writing", "sending", "polling"}]
         /\ result' \in [Writers -> {"ok", "cancelled", "timeout", "error"}]
         /\ deadline' \in [Writers -> Int] /\ nap' \in [Writers -> 0 .. LongestSlice]
BY Slices DEF TypeOK, Return, Go

(* A tick shortens the sleep and the time of every write, and counts for   *)
(* those that were stopped.                                                *)
LEMMA TickStep ==
  ASSUME Tick, TypeOK, NEW w \in Writers
  PROVE  /\ Asleep(w) => nap'[w] = nap[w] - 1 /\ deadline'[w] = deadline[w] - 1
         /\ ~Asleep(w) => nap'[w] = nap[w] /\ deadline'[w] = deadline[w]
         /\ Asleep(w) /\ stopped[w] => ignored'[w] = ignored[w] + 1
         /\ ~(Asleep(w) /\ stopped[w]) => ignored'[w] = ignored[w]
         /\ pc[w] # "idle" => Asleep(w)
<1>1. nap'[w] = IF Asleep(w) THEN nap[w] - 1 ELSE nap[w]
  BY Zenon DEF Tick
<1>2. deadline'[w] = IF Asleep(w) THEN deadline[w] - 1 ELSE deadline[w]
  BY Zenon DEF Tick
<1>3. ignored'[w] = IF Asleep(w) /\ stopped[w] THEN ignored[w] + 1 ELSE ignored[w]
  BY Zenon DEF Tick
<1>4. pc[w] # "idle" => Asleep(w)
  BY Zenon DEF Tick
<1> QED
  BY <1>1, <1>2, <1>3, <1>4, Zenon

(* Types are kept by a tick. *)
LEMMA TickType == TypeOK /\ Tick => TypeOK'
<1> SUFFICES ASSUME TypeOK, Tick PROVE TypeOK'
  OBVIOUS
<1>1. ASSUME NEW w \in Writers
      PROVE  nap'[w] \in 0 .. LongestSlice /\ deadline'[w] \in Int /\ ignored'[w] \in Nat
  <2>1. nap[w] \in 0 .. LongestSlice /\ deadline[w] \in Int /\ ignored[w] \in Nat
    BY <1>1 DEF TypeOK
  <2>2. Asleep(w) => nap[w] > 0
    BY DEF Asleep
  <2>3. /\ Asleep(w) => nap'[w] = nap[w] - 1 /\ deadline'[w] = deadline[w] - 1
        /\ ~Asleep(w) => nap'[w] = nap[w] /\ deadline'[w] = deadline[w]
        /\ ignored'[w] = ignored[w] + 1 \/ ignored'[w] = ignored[w]
    BY <1>1, TickStep, Zenon
  <2> QED
    BY <2>1, <2>2, <2>3, Slices
<1>2. /\ nap' = [w \in Writers |-> nap'[w]]
      /\ deadline' = [w \in Writers |-> deadline'[w]]
      /\ ignored' = [w \in Writers |-> ignored'[w]]
  BY Zenon DEF Tick
<1>3. /\ nap' \in [Writers -> 0 .. LongestSlice]
      /\ deadline' \in [Writers -> Int] /\ ignored' \in [Writers -> Nat]
  BY <1>1, <1>2, Zenon
<1>4. UNCHANGED <<mutex, pc, length, size, stopped, frame, result, line>>
  BY DEF Tick
<1> QED
  BY <1>3, <1>4 DEF TypeOK

(* Types are kept by every step. *)
LEMMA TypeNext == TypeOK /\ TimeInv /\ [Next]_vars => TypeOK'
<1> SUFFICES ASSUME TypeOK, TimeInv, [Next]_vars PROVE TypeOK'
  OBVIOUS
<1>1. CASE Tick
  BY <1>1, TickType
<1>2. CASE Quiet
  BY <1>2 DEF TypeOK, Quiet, vars
<1>3. ASSUME NEW w \in Writers, Call(w) PROVE TypeOK'
  <2>1. PICK bytes \in Sizes : Begin(w, bytes)
    BY <1>3 DEF Call
  <2>2. bytes \in Nat /\ Timeout \in Int
    BY <2>1, WriteAssumption
  <2>3. length' \in [Writers -> Nat] /\ size' \in [Writers -> Nat]
    BY <1>3, <2>1, <2>2 DEF TypeOK, Begin
  <2>4. deadline' \in [Writers -> Int] /\ frame' \in [Writers -> Nat]
    BY <1>3, <2>1, <2>2 DEF TypeOK, Begin
  <2> QED
    BY <1>3, <2>1, <2>3, <2>4 DEF TypeOK, Begin, Go
<1>4. ASSUME NEW w \in Writers, RequestStop(w) PROVE TypeOK'
  BY <1>4 DEF TypeOK, RequestStop
<1>5. ASSUME NEW w \in Writers, Write(w) PROVE TypeOK'
  <2>1. CASE Lock(w)
    BY <1>5, <2>1 DEF TypeOK, Lock, Go
  <2>2. CASE LockFails(w)
    <3>1. ASSUME NEW outcome \in {"cancelled", "timeout"}, Return(w, outcome) PROVE TypeOK'
      BY <1>5, <2>2, <3>1, ReturnType DEF TypeOK, LockFails
    <3>2. CASE SleepFor(w, "waiting", LockSlice) /\ UNCHANGED <<mutex, deadline, result>>
      <4>1. nap' \in [Writers -> 0 .. LongestSlice]
        BY <1>5, <3>2, Slices DEF TypeOK, SleepFor
      <4>2. UNCHANGED <<mutex, length, size, deadline, stopped, frame, result, ignored, line>>
        BY <2>2, <3>2 DEF LockFails
      <4> QED
        BY <1>5, <3>2, <4>1, <4>2 DEF TypeOK, SleepFor, Go
    <3> QED
      BY <2>2, <3>1, <3>2 DEF LockFails
  <2>3. CASE LockAgain(w)
    BY <1>5, <2>3 DEF TypeOK, LockAgain, Go
  <2>4. CASE Check(w)
    <3>1. CASE Return(w, "ok") \/ Return(w, "cancelled") \/ Return(w, "timeout")
      BY <1>5, <2>4, <3>1, ReturnType DEF TypeOK, Check
    <3>2. CASE Go(w, "sending") /\ UNCHANGED <<mutex, deadline, nap, result>>
      BY <1>5, <2>4, <3>2 DEF TypeOK, Check, Go
    <3> QED
      BY <2>4, <3>1, <3>2 DEF Check
  <2>5. ASSUME NEW bytes \in 1 .. size[w], Send(w, bytes) PROVE TypeOK'
    <3>1. line' \in Seq(Writers \X Nat)
      BY <1>5, <2>5, SendLine
    <3>2. size' \in [Writers -> Nat]
      BY <1>5, <2>5 DEF TypeOK, Send
    <3> QED
      BY <1>5, <2>5, <3>1, <3>2 DEF TypeOK, Send, Go
  <2>6. CASE NoRoom(w)
    <3>1. PollTime(w) \in 0 .. LongestSlice
      BY <1>5, <2>6, PollTimeBound DEF NoRoom, TimeInv, Timely
    <3> QED
      BY <1>5, <2>6, <3>1 DEF TypeOK, NoRoom, SleepFor, Go
  <2>7. CASE PollReturns(w)
    BY <1>5, <2>7 DEF TypeOK, PollReturns, Go
  <2>8. CASE LineFails(w)
    BY <1>5, <2>8, ReturnType DEF TypeOK, LineFails
  <2> QED
    BY <1>5, <2>1, <2>2, <2>3, <2>4, <2>5, <2>6, <2>7, <2>8 DEF Write
<1>6. CASE UNCHANGED vars
  BY <1>6 DEF TypeOK, vars
<1> QED
  BY <1>1, <1>2, <1>3, <1>4, <1>5, <1>6 DEF Next

-----------------------------------------------------------------------------
(* The mutex.                                                              *)

(* A write that returns gives the mutex back if it holds it. *)
LEMMA ReturnLock ==
  ASSUME TypeOK, LockInv, NEW w \in Writers, NEW outcome, Return(w, outcome)
  PROVE  LockInv'
<1>1. pc' = [pc EXCEPT ![w] = "idle"] /\ mutex' = IF mutex = w THEN None ELSE mutex
  BY DEF Return, Go
<1> QED
  BY <1>1, WriteAssumption DEF TypeOK, LockInv, Holding

(* Between taking the mutex and returning, a writer holds it. *)
LEMMA LockNext == TypeOK /\ LockInv /\ [Next]_vars => LockInv'
<1> SUFFICES ASSUME TypeOK, LockInv, [Next]_vars PROVE LockInv'
  OBVIOUS
<1>1. ASSUME UNCHANGED <<mutex, pc>> PROVE LockInv'
  BY <1>1 DEF LockInv
<1>2. CASE Tick \/ Quiet \/ UNCHANGED vars
  BY <1>1, <1>2 DEF Tick, Quiet, vars
<1>3. ASSUME NEW w \in Writers, Call(w) PROVE LockInv'
  BY <1>3 DEF Call, Begin, Go, TypeOK, LockInv, Holding
<1>4. ASSUME NEW w \in Writers, RequestStop(w) PROVE LockInv'
  BY <1>1, <1>4 DEF RequestStop
<1>5. ASSUME NEW w \in Writers, Write(w) PROVE LockInv'
  <2>1. CASE Lock(w)
    BY <1>5, <2>1, WriteAssumption DEF Lock, Go, TypeOK, LockInv, Holding
  <2>2. ASSUME NEW where \in {"locking", "waiting"}, Go(w, where), UNCHANGED mutex,
               pc[w] \in {"locking", "waiting"}
        PROVE  LockInv'
    BY <1>5, <2>2 DEF Go, TypeOK, LockInv, Holding
  <2>3. ASSUME NEW where \in {"writing", "sending", "polling"}, Go(w, where), UNCHANGED mutex,
               pc[w] \in {"writing", "sending", "polling"}
        PROVE  LockInv'
    BY <1>5, <2>3 DEF Go, TypeOK, LockInv, Holding
  <2>4. CASE LockFails(w)
    BY <1>5, <2>2, <2>4, ReturnLock DEF LockFails, SleepFor
  <2>5. CASE LockAgain(w)
    BY <2>2, <2>5 DEF LockAgain
  <2>6. CASE Check(w)
    BY <1>5, <2>3, <2>6, ReturnLock DEF Check
  <2>7. ASSUME NEW bytes \in 1 .. size[w], Send(w, bytes) PROVE LockInv'
    BY <2>3, <2>7 DEF Send
  <2>8. CASE NoRoom(w) \/ PollReturns(w)
    BY <2>3, <2>8 DEF NoRoom, PollReturns, SleepFor
  <2>9. CASE LineFails(w)
    BY <1>5, <2>9, ReturnLock DEF LineFails
  <2> QED
    BY <1>5, <2>1, <2>4, <2>5, <2>6, <2>7, <2>8, <2>9 DEF Write
<1> QED
  BY <1>2, <1>3, <1>4, <1>5 DEF Next

-----------------------------------------------------------------------------
(* Time.                                                                   *)

(* A writer that takes no part in a step is as timely as before. *)
LEMMA OthersTimely ==
  ASSUME NEW w \in Writers, Timely(w), pc'[w] = pc[w], deadline'[w] = deadline[w],
         nap'[w] = nap[w], stopped'[w] = stopped[w], ignored'[w] = ignored[w]
  PROVE  Timely(w)'
BY DEF Timely

(* A step of one writer is timely if it is for that writer. *)
LEMMA OneTimely ==
  ASSUME TypeOK, TimeInv, NEW w \in Writers,
         NEW where, NEW time, NEW sleep, NEW stop,
         pc' = [pc EXCEPT ![w] = where], deadline' = [deadline EXCEPT ![w] = time],
         nap' = [nap EXCEPT ![w] = sleep], stopped' = [stopped EXCEPT ![w] = stop],
         UNCHANGED ignored, Timely(w)'
  PROVE  TimeInv'
<1>1. ASSUME NEW v \in Writers, v # w PROVE Timely(v)'
  <2>1. /\ pc'[v] = pc[v] /\ deadline'[v] = deadline[v] /\ nap'[v] = nap[v]
        /\ stopped'[v] = stopped[v] /\ ignored'[v] = ignored[v]
    BY <1>1 DEF TypeOK
  <2> QED
    BY <2>1, OthersTimely DEF TimeInv
<1> QED
  BY <1>1 DEF TimeInv

(* A tick is in time: whoever sleeps had a tick left of its sleep. *)
LEMMA TickTimely == TypeOK /\ TimeInv /\ Tick => TimeInv'
<1> SUFFICES ASSUME TypeOK, TimeInv, Tick, NEW w \in Writers PROVE Timely(w)'
  BY DEF TimeInv
<1>1. /\ nap[w] \in 0 .. LongestSlice /\ deadline[w] \in Int /\ ignored[w] \in Nat
      /\ Timely(w) /\ pc' = pc /\ stopped' = stopped
  BY DEF TypeOK, TimeInv, Tick
<1>2. CASE Asleep(w)
  <2>1. /\ nap'[w] = nap[w] - 1 /\ deadline'[w] = deadline[w] - 1
        /\ ~stopped[w] => ignored'[w] = ignored[w]
        /\ stopped[w] => ignored'[w] = ignored[w] + 1
    BY <1>2, TickStep, Zenon
  <2>2. pc[w] \in {"waiting", "polling"} /\ nap[w] > 0
    BY <1>2 DEF Asleep
  <2> QED
    BY <1>1, <2>1, <2>2, Slices DEF Timely
<1>3. CASE ~Asleep(w)
  <2>1. pc[w] = "idle"
    BY <1>3, TickStep, Zenon
  <2>2. ignored'[w] = ignored[w]
    BY <1>3, TickStep, Zenon
  <2> QED
    BY <1>1, <2>1, <2>2 DEF Timely
<1> QED
  BY <1>2, <1>3

(* A write that returns is out of time's reach. *)
LEMMA ReturnTimely ==
  ASSUME TypeOK, TimeInv, NEW w \in Writers, NEW outcome, Return(w, outcome),
         UNCHANGED <<stopped, ignored>>
  PROVE  TimeInv'
<1>1. /\ pc' = [pc EXCEPT ![w] = "idle"] /\ deadline' = [deadline EXCEPT ![w] = 0]
      /\ nap' = [nap EXCEPT ![w] = 0] /\ stopped' = [stopped EXCEPT ![w] = stopped[w]]
  BY DEF Return, Go, TypeOK
<1>2. Timely(w)'
  BY <1>1 DEF TypeOK, TimeInv, Timely
<1> QED
  BY <1>1, <1>2, OneTimely

(* A writer that goes elsewhere within its write, without ending its sleep. *)
LEMMA GoTimely ==
  ASSUME TypeOK, TimeInv, NEW w \in Writers, NEW where, Go(w, where),
         UNCHANGED <<deadline, nap, stopped, ignored>>, Timely(w)'
  PROVE  TimeInv'
<1>1. /\ pc' = [pc EXCEPT ![w] = where] /\ deadline' = [deadline EXCEPT ![w] = deadline[w]]
      /\ nap' = [nap EXCEPT ![w] = nap[w]] /\ stopped' = [stopped EXCEPT ![w] = stopped[w]]
  BY DEF Go, TypeOK
<1> QED
  BY <1>1, OneTimely

(* A writer that begins a sleep. *)
LEMMA SleepTimely ==
  ASSUME TypeOK, TimeInv, NEW w \in Writers, NEW where, NEW ticks, SleepFor(w, where, ticks),
         UNCHANGED <<deadline, stopped, ignored>>, Timely(w)'
  PROVE  TimeInv'
<1>1. /\ pc' = [pc EXCEPT ![w] = where] /\ deadline' = [deadline EXCEPT ![w] = deadline[w]]
      /\ nap' = [nap EXCEPT ![w] = ticks] /\ stopped' = [stopped EXCEPT ![w] = stopped[w]]
  BY DEF SleepFor, Go, TypeOK
<1> QED
  BY <1>1, OneTimely

(* Every step is in time. *)
LEMMA TimeNext == TypeOK /\ TimeInv /\ [Next]_vars => TimeInv'
<1> SUFFICES ASSUME TypeOK, TimeInv, [Next]_vars PROVE TimeInv'
  OBVIOUS
<1>1. CASE Tick
  BY <1>1, TickTimely
<1>2. CASE Quiet \/ UNCHANGED vars
  BY <1>2 DEF Quiet, vars, TimeInv, Timely
<1>3. ASSUME NEW w \in Writers, Call(w) PROVE TimeInv'
  <2>1. PICK bytes \in Sizes : Begin(w, bytes)
    BY <1>3 DEF Call
  <2>2. /\ pc' = [pc EXCEPT ![w] = "locking"] /\ deadline' = [deadline EXCEPT ![w] = Timeout]
        /\ nap' = [nap EXCEPT ![w] = nap[w]] /\ stopped' = [stopped EXCEPT ![w] = stopped[w]]
        /\ UNCHANGED ignored
    BY <1>3, <2>1 DEF Begin, Go, TypeOK
  <2>3. Timely(w)'
    BY <1>3, <2>2, Slices, WriteAssumption DEF TypeOK, TimeInv, Timely
  <2> QED
    BY <1>3, <2>2, <2>3, OneTimely
<1>4. ASSUME NEW w \in Writers, RequestStop(w) PROVE TimeInv'
  <2>1. /\ pc' = [pc EXCEPT ![w] = pc[w]] /\ deadline' = [deadline EXCEPT ![w] = deadline[w]]
        /\ nap' = [nap EXCEPT ![w] = nap[w]] /\ stopped' = [stopped EXCEPT ![w] = TRUE]
        /\ UNCHANGED ignored
    BY <1>4 DEF RequestStop, TypeOK
  <2>2. Timely(w)'
    BY <1>4, <2>1 DEF TypeOK, TimeInv, Timely
  <2> QED
    BY <1>4, <2>1, <2>2, OneTimely
<1>5. ASSUME NEW w \in Writers, Write(w) PROVE TimeInv'
  <2> USE <1>5
  <2>1. /\ deadline[w] \in Int /\ nap[w] \in 0 .. LongestSlice /\ ignored[w] \in Nat
        /\ Timely(w) /\ w \in DOMAIN pc /\ w \in DOMAIN nap
    BY DEF TypeOK, TimeInv
  <2>2. CASE Lock(w)
    <3>1. pc'[w] = "writing" /\ UNCHANGED <<deadline, nap, stopped, ignored>>
      BY <2>1, <2>2 DEF Lock, Go
    <3>2. Timely(w)'
      BY <2>1, <2>2, <3>1, Slices DEF Lock, Timely
    <3> QED
      BY <2>2, <3>1, <3>2, GoTimely DEF Lock
  <2>3. CASE LockFails(w)
    <3>1. ASSUME NEW outcome, Return(w, outcome) PROVE TimeInv'
      BY <2>3, <3>1, ReturnTimely DEF LockFails
    <3>2. CASE /\ SleepFor(w, "waiting", LockSlice) /\ UNCHANGED deadline
               /\ ~(deadline[w] <= 0) /\ ~stopped[w]
      <4>1. pc'[w] = "waiting" /\ nap'[w] = LockSlice /\ UNCHANGED <<deadline, stopped, ignored>>
        BY <2>1, <2>3, <3>2 DEF LockFails, SleepFor, Go
      <4>2. Timely(w)'
        BY <2>1, <3>2, <4>1, Slices DEF Timely
      <4> QED
        BY <3>2, <4>1, <4>2, SleepTimely
    <3> QED
      BY <2>3, <3>1, <3>2 DEF LockFails
  <2>4. CASE LockAgain(w)
    <3>1. pc'[w] = "locking" /\ UNCHANGED <<deadline, nap, stopped, ignored>>
      BY <2>1, <2>4 DEF LockAgain, Go
    <3>2. Timely(w)'
      BY <2>1, <2>4, <3>1 DEF LockAgain, Timely
    <3> QED
      BY <2>4, <3>1, <3>2, GoTimely DEF LockAgain
  <2>5. CASE Check(w)
    <3>1. ASSUME NEW outcome, Return(w, outcome) PROVE TimeInv'
      BY <2>5, <3>1, ReturnTimely DEF Check
    <3>2. CASE /\ Go(w, "sending") /\ UNCHANGED <<deadline, nap>>
               /\ ~(deadline[w] <= 0) /\ ~stopped[w]
      <4>1. pc'[w] = "sending" /\ UNCHANGED <<deadline, nap, stopped, ignored>>
        BY <2>1, <2>5, <3>2 DEF Check, Go
      <4>2. Timely(w)'
        BY <2>1, <3>2, <4>1 DEF Timely
      <4> QED
        BY <3>2, <4>1, <4>2, GoTimely
    <3> QED
      BY <2>5, <3>1, <3>2 DEF Check
  <2>6. ASSUME NEW bytes \in 1 .. size[w], Send(w, bytes) PROVE TimeInv'
    <3>1. pc'[w] = "writing" /\ UNCHANGED <<deadline, nap, stopped, ignored>>
      BY <2>1, <2>6 DEF Send, Go
    <3>2. Timely(w)'
      BY <2>1, <2>6, <3>1, Slices DEF Send, Timely
    <3> QED
      BY <2>6, <3>1, <3>2, GoTimely DEF Send
  <2>7. CASE NoRoom(w)
    <3>1. PollTime(w) \in 0 .. LongestSlice /\ deadline[w] - PollTime(w) > -LockSlice
      BY <2>1, <2>7, PollTimeBound DEF NoRoom, Timely
    <3>2. /\ pc'[w] = "polling" /\ nap'[w] = PollTime(w)
          /\ UNCHANGED <<deadline, stopped, ignored>>
      BY <2>1, <2>7 DEF NoRoom, SleepFor, Go
    <3>3. Timely(w)'
      BY <2>1, <2>7, <3>1, <3>2 DEF NoRoom, Timely
    <3> QED
      BY <2>7, <3>2, <3>3, SleepTimely DEF NoRoom
  <2>8. CASE PollReturns(w)
    <3>1. pc'[w] = "writing" /\ UNCHANGED <<deadline, nap, stopped, ignored>>
      BY <2>1, <2>8 DEF PollReturns, Go
    <3>2. Timely(w)'
      BY <2>1, <2>8, <3>1, Slices DEF PollReturns, Timely
    <3> QED
      BY <2>8, <3>1, <3>2, GoTimely DEF PollReturns
  <2>9. CASE LineFails(w)
    BY <2>9, ReturnTimely DEF LineFails
  <2> QED
    BY <2>2, <2>3, <2>4, <2>5, <2>6, <2>7, <2>8, <2>9 DEF Write
<1> QED
  BY <1>1, <1>2, <1>3, <1>4, <1>5 DEF Next

-----------------------------------------------------------------------------
(* The line.                                                               *)

LinesOK == LineInv /\ FramesUnbroken

(* A step that writes nothing and begins no frame, of a writer that does   *)
(* not begin to wait for the mutex while its frame is on the line.         *)
LEMMA QuietLine ==
  ASSUME TypeOK, LinesOK, NEW w \in Writers, NEW where, Go(w, where), UNCHANGED <<frame, line>>,
         where \in {"locking", "waiting"} => pc[w] \in {"locking", "waiting"},
         Holding(where) => pc[w] \in {"locking", "waiting"} \/ Holding(pc[w])
  PROVE  LinesOK'
<1>1. pc' = [pc EXCEPT ![w] = where] /\ frame' = frame /\ line' = line
  BY DEF Go
<1>2. FramesUnbroken'
  BY <1>1 DEF LinesOK, FramesUnbroken
<1>3. \A i \in DOMAIN line' : line'[i][2] <= frame'[line'[i][1]]
  BY <1>1 DEF LinesOK, LineInv
<1>4. ASSUME NEW v \in Writers, pc'[v] \in {"locking", "waiting"}
      PROVE  \A i \in DOMAIN line' : line'[i] # <<v, frame'[v]>>
  <2>1. pc[v] \in {"locking", "waiting"}
    BY <1>1, <1>4 DEF TypeOK
  <2> QED
    BY <1>1, <1>4, <2>1 DEF LinesOK, LineInv
<1>5. ASSUME NEW v \in Writers, Holding(pc'[v])
      PROVE  \A i \in DOMAIN line' :
               line'[i] = <<v, frame'[v]>> => \A j \in i .. Len(line') : line'[j] = line'[i]
  <2>1. pc[v] \in {"locking", "waiting"} \/ Holding(pc[v])
    BY <1>1, <1>5 DEF TypeOK
  <2>2. CASE pc[v] \in {"locking", "waiting"}
    BY <1>1, <1>5, <2>2 DEF LinesOK, LineInv
  <2>3. CASE Holding(pc[v])
    BY <1>1, <1>5, <2>3 DEF LinesOK, LineInv
  <2> QED
    BY <2>1, <2>2, <2>3
<1> QED
  BY <1>2, <1>3, <1>4, <1>5 DEF LinesOK, LineInv

(* A frame that begins is not on the line. *)
LEMMA BeginLine ==
  ASSUME TypeOK, LinesOK, NEW w \in Writers, NEW bytes, Begin(w, bytes)
  PROVE  LinesOK'
<1>1. /\ pc' = [pc EXCEPT ![w] = "locking"] /\ frame' = [frame EXCEPT ![w] = frame[w] + 1]
      /\ line' = line /\ pc[w] = "idle"
  BY DEF Begin, Go
<1>2. FramesUnbroken'
  BY <1>1 DEF LinesOK, FramesUnbroken
<1>3. ASSUME NEW i \in DOMAIN line
      PROVE  line[i] = <<line[i][1], line[i][2]>> /\ line[i][1] \in Writers /\ line[i][2] \in Nat
  <2>1. line \in Seq(Writers \X Nat) /\ i \in 1 .. Len(line)
    BY <1>3, LenProperties DEF TypeOK
  <2>2. line[i] \in Writers \X Nat
    BY <2>1, ElementOfSeq
  <2> QED
    BY <2>2
<1>4. ASSUME NEW i \in DOMAIN line PROVE line[i][2] <= frame'[line[i][1]]
  <2>1. line[i][2] <= frame[line[i][1]]
    BY <1>4 DEF LinesOK, LineInv
  <2>2. \A v \in Writers : frame[v] \in Nat /\ (frame'[v] = frame[v] \/ frame'[v] = frame[v] + 1)
    BY <1>1 DEF TypeOK
  <2> QED
    BY <1>3, <1>4, <2>1, <2>2
<1>5. ASSUME NEW i \in DOMAIN line PROVE line[i] # <<w, frame'[w]>>
  <2>1. line[i][2] <= frame[line[i][1]]
    BY <1>5 DEF LinesOK, LineInv
  <2>2. frame[w] \in Nat /\ frame'[w] = frame[w] + 1
    BY <1>1 DEF TypeOK
  <2> QED
    BY <1>3, <1>5, <2>1, <2>2
<1>6. ASSUME NEW v \in Writers, pc'[v] \in {"locking", "waiting"}
      PROVE  \A i \in DOMAIN line : line[i] # <<v, frame'[v]>>
  <2>1. CASE v = w
    BY <1>5, <2>1
  <2>2. CASE v # w
    <3>1. pc[v] \in {"locking", "waiting"} /\ frame'[v] = frame[v]
      BY <1>1, <1>6, <2>2 DEF TypeOK
    <3> QED
      BY <1>6, <3>1 DEF LinesOK, LineInv
  <2> QED
    BY <2>1, <2>2
<1>7. ASSUME NEW v \in Writers, Holding(pc'[v])
      PROVE  \A i \in DOMAIN line :
               line[i] = <<v, frame'[v]>> => \A j \in i .. Len(line) : line[j] = line[i]
  <2>1. v # w /\ Holding(pc[v]) /\ frame'[v] = frame[v]
    BY <1>1, <1>7 DEF TypeOK, Holding
  <2> QED
    BY <1>7, <2>1 DEF LinesOK, LineInv
<1> QED
  BY <1>1, <1>2, <1>4, <1>6, <1>7 DEF LinesOK, LineInv

(* The bytes a writer sends continue its frame at the end of the line. *)
LEMMA SendKeepsLine ==
  ASSUME TypeOK, LockInv, LinesOK, NEW w \in Writers, NEW bytes \in 1 .. size[w], Send(w, bytes)
  PROVE  LinesOK'
<1> DEFINE n == Len(line)
           byte == <<w, frame[w]>>
<1>1. /\ bytes \in Nat \ {0} /\ Len(line') = n + bytes
      /\ \A i \in 1 .. n : line'[i] = line[i]
      /\ \A i \in n + 1 .. n + bytes : line'[i] = byte
      /\ line' \in Seq(Writers \X Nat)
  BY SendLine
<1>2. n \in Nat /\ DOMAIN line = 1 .. n /\ DOMAIN line' = 1 .. n + bytes
  BY <1>1, LenProperties DEF TypeOK
<1>3. /\ pc' = [pc EXCEPT ![w] = "writing"] /\ frame' = frame /\ pc[w] = "sending"
      /\ frame[w] \in Nat
  BY DEF Send, Go, TypeOK
<1>4. ASSUME NEW i \in 1 .. n, line[i] = byte PROVE \A j \in i .. n : line[j] = byte
  BY <1>2, <1>3, <1>4 DEF LinesOK, LineInv, Holding
<1>5. ASSUME NEW i \in 1 .. n + bytes, line'[i] = byte
      PROVE  \A j \in i .. n + bytes : line'[j] = byte
  <2> SUFFICES ASSUME NEW j \in i .. n + bytes PROVE line'[j] = byte
    OBVIOUS
  <2>1. CASE j > n
    <3>1. j \in n + 1 .. n + bytes
      BY <1>1, <1>2, <2>1
    <3> QED
      BY <1>1, <3>1
  <2>2. CASE ~(j > n)
    <3>1. i \in 1 .. n /\ j \in i .. n /\ j \in 1 .. n
      BY <1>1, <1>2, <2>2
    <3>2. line[i] = byte
      BY <1>1, <1>5, <3>1
    <3>3. line[j] = byte
      BY <1>4, <3>1, <3>2
    <3> QED
      BY <1>1, <3>1, <3>3
  <2> QED
    BY <2>1, <2>2
<1>6. ASSUME NEW i \in 1 .. n + bytes, line'[i] # byte PROVE i \in 1 .. n /\ line'[i] = line[i]
  <2>1. ~(i \in n + 1 .. n + bytes)
    BY <1>1, <1>6
  <2>2. i \in 1 .. n
    BY <1>1, <1>2, <2>1
  <2> QED
    BY <1>1, <2>2
<1> HIDE DEF n, byte
<1>7. FramesUnbroken'
  <2> SUFFICES ASSUME NEW i \in 1 .. n + bytes, NEW k \in 1 .. n + bytes, line'[i] = line'[k],
                      NEW j \in i .. k
               PROVE  line'[j] = line'[i]
    BY <1>2 DEF FramesUnbroken
  <2>1. CASE line'[i] = byte
    <3>1. j \in i .. n + bytes
      BY <1>1, <1>2
    <3> QED
      BY <1>5, <2>1, <3>1
  <2>2. CASE line'[i] # byte
    <3>1. i \in 1 .. n /\ k \in 1 .. n /\ line'[i] = line[i] /\ line'[k] = line[k]
      BY <1>6, <2>2
    <3>2. j \in 1 .. n
      BY <1>2, <3>1
    <3>3. line[j] = line[i]
      BY <1>2, <3>1 DEF LinesOK, FramesUnbroken
    <3> QED
      BY <1>1, <3>1, <3>2, <3>3
  <2> QED
    BY <2>1, <2>2
<1>8. ASSUME NEW i \in 1 .. n + bytes PROVE line'[i][2] <= frame'[line'[i][1]]
  <2>1. CASE line'[i] = byte
    BY <1>3, <2>1 DEF byte
  <2>2. CASE line'[i] # byte
    BY <1>2, <1>3, <1>6, <2>2 DEF LinesOK, LineInv
  <2> QED
    BY <2>1, <2>2
<1>9. ASSUME NEW v \in Writers, pc'[v] \in {"locking", "waiting"}, NEW i \in 1 .. n + bytes
      PROVE  line'[i] # <<v, frame'[v]>>
  <2>1. v # w /\ pc[v] \in {"locking", "waiting"}
    BY <1>3, <1>9 DEF TypeOK
  <2>2. byte # <<v, frame'[v]>>
    BY <2>1 DEF byte
  <2>3. CASE line'[i] = byte
    BY <2>2, <2>3
  <2>4. CASE line'[i] # byte
    BY <1>2, <1>3, <1>6, <1>9, <2>1, <2>4 DEF LinesOK, LineInv
  <2> QED
    BY <2>3, <2>4
<1>10. ASSUME NEW v \in Writers, Holding(pc'[v]) PROVE v = w
  <2>1. Holding(pc[v]) /\ Holding(pc[w])
    BY <1>3, <1>10 DEF TypeOK, Holding
  <2> QED
    BY <1>10, <2>1 DEF LockInv
<1>11. ASSUME NEW v \in Writers, Holding(pc'[v])
       PROVE  \A i \in 1 .. n + bytes :
                line'[i] = <<v, frame'[v]>> => \A j \in i .. Len(line') : line'[j] = line'[i]
  <2>1. <<v, frame'[v]>> = byte
    BY <1>3, <1>10, <1>11 DEF byte
  <2>2. Len(line') = n + bytes
    BY <1>1
  <2> QED
    BY <1>5, <2>1, <2>2
<1> QED
  BY <1>2, <1>7, <1>8, <1>9, <1>11 DEF LinesOK, LineInv

(* Every step keeps the frames on the line together. *)
LEMMA LineNext == TypeOK /\ LockInv /\ LinesOK /\ [Next]_vars => LinesOK'
<1> SUFFICES ASSUME TypeOK, LockInv, LinesOK, [Next]_vars PROVE LinesOK'
  OBVIOUS
<1>1. ASSUME UNCHANGED <<pc, frame, line>> PROVE LinesOK'
  BY <1>1 DEF LinesOK, LineInv, FramesUnbroken
<1>2. CASE Tick \/ Quiet \/ UNCHANGED vars
  BY <1>1, <1>2 DEF Tick, Quiet, vars
<1>3. ASSUME NEW w \in Writers, Call(w) PROVE LinesOK'
  BY <1>3, BeginLine DEF Call
<1>4. ASSUME NEW w \in Writers, RequestStop(w) PROVE LinesOK'
  BY <1>1, <1>4 DEF RequestStop
<1>5. ASSUME NEW w \in Writers, Write(w) PROVE LinesOK'
  <2>1. ASSUME NEW where, Go(w, where), where \in {"idle", "waiting", "locking"},
               UNCHANGED <<frame, line>>,
               where # "idle" => pc[w] \in {"locking", "waiting"}
        PROVE  LinesOK'
    BY <1>5, <2>1, QuietLine DEF Holding
  <2>2. ASSUME NEW where, Go(w, where), Holding(where), UNCHANGED <<frame, line>>,
               pc[w] # "idle"
        PROVE  LinesOK'
    <3>1. pc[w] \in {"locking", "waiting"} \/ Holding(pc[w])
      BY <1>5, <2>2 DEF TypeOK, Holding
    <3> QED
      BY <1>5, <2>2, <3>1, QuietLine DEF Holding
  <2>3. CASE Lock(w)
    BY <2>2, <2>3 DEF Lock, Holding
  <2>4. CASE LockFails(w)
    BY <2>1, <2>4 DEF LockFails, Return, SleepFor
  <2>5. CASE LockAgain(w)
    BY <2>1, <2>5 DEF LockAgain
  <2>6. CASE Check(w)
    BY <2>1, <2>2, <2>6 DEF Check, Return, Holding
  <2>7. ASSUME NEW bytes \in 1 .. size[w], Send(w, bytes) PROVE LinesOK'
    BY <1>5, <2>7, SendKeepsLine
  <2>8. CASE NoRoom(w) \/ PollReturns(w)
    BY <2>2, <2>8 DEF NoRoom, PollReturns, SleepFor, Holding
  <2>9. CASE LineFails(w)
    BY <2>1, <2>9 DEF LineFails, Return
  <2> QED
    BY <1>5, <2>3, <2>4, <2>5, <2>6, <2>7, <2>8, <2>9 DEF Write
<1> QED
  BY <1>2, <1>3, <1>4, <1>5 DEF Next

-----------------------------------------------------------------------------
(* The theorems.                                                           *)

(* IInv is inductive. *)
LEMMA Invariant == Spec => []IInv
<1>1. IInv /\ [Next]_vars => IInv'
  BY TypeNext, LockNext, LineNext, TimeNext DEF IInv, LinesOK
<1> QED
  BY InitIInv, <1>1, PTL DEF Spec

(* Every variable keeps its type, and nobody sleeps longer than a slice. *)
THEOREM TypeCorrect == Spec => []TypeOK
<1>1. IInv => TypeOK
  BY DEF IInv
<1> QED
  BY Invariant, <1>1, PTL

(* The writes of several threads do not interleave on the line, however    *)
(* often the kernel interrupts them, fails, or has no room (write_mutex).  *)
THEOREM FramesDoNotInterleave == Spec => []FramesUnbroken
<1>1. IInv => FramesUnbroken
  BY DEF IInv
<1> QED
  BY Invariant, <1>1, PTL

(* A write does not outlast its deadline by as much as the time it waits   *)
(* for the mutex at once, whatever the slices and the deadline are.        *)
THEOREM WritesEndOnTime == Spec => []OnTime
<1>1. IInv => OnTime
  <2> SUFFICES ASSUME IInv, NEW w \in Writers, pc[w] # "idle" PROVE deadline[w] > -LockSlice
    BY DEF OnTime
  <2>1. /\ Timely(w) /\ deadline[w] \in Int /\ nap[w] \in 0 .. LongestSlice
        /\ pc[w] \in {"idle", "locking", "waiting", "writing", "sending", "polling"}
    BY DEF IInv, TimeInv, TypeOK
  <2> QED
    BY <2>1, Slices DEF Timely
<1> QED
  BY Invariant, <1>1, PTL

(* A stopped writer gives up within a slice: joining it takes no longer. *)
THEOREM StopsAreObserved == Spec => []StopObserved
<1>1. IInv => StopObserved
  BY DEF IInv, TimeInv, Timely, StopObserved
<1> QED
  BY Invariant, <1>1, PTL

-----------------------------------------------------------------------------
(* What a write reports.                                                   *)

(* What is on the line of a writer's frame, and what is still to be        *)
(* written, make the frame; only a frame that is complete is not waited on. *)
Whole(w) ==
  /\ pc[w] # "idle" => Sent(w) + size[w] = length[w]
  /\ pc[w] \in {"locking", "waiting", "sending", "polling"} => size[w] > 0
  /\ pc[w] = "idle" /\ frame[w] > 0 => (result[w] = "ok" <=> Sent(w) = length[w])
WholeInv == \A w \in Writers : Whole(w)

(* The places of a frame on the line are finitely many. *)
LEMMA SentType ==
  ASSUME TypeOK, NEW byte
  PROVE  /\ IsFiniteSet({i \in DOMAIN line : line[i] = byte})
         /\ Cardinality({i \in DOMAIN line : line[i] = byte}) \in Nat
<1>1. DOMAIN line = 1 .. Len(line) /\ Len(line) \in Nat
  BY LenProperties DEF TypeOK
<1>2. IsFiniteSet(DOMAIN line)
  BY <1>1, FS_Interval
<1>3. {i \in DOMAIN line : line[i] = byte} \in SUBSET DOMAIN line
  OBVIOUS
<1>4. IsFiniteSet({i \in DOMAIN line : line[i] = byte})
  BY <1>2, <1>3, FS_Subset
<1> QED
  BY <1>4, FS_CardinalityType

(* None of them is taken by a frame that begins. *)
LEMMA SentBegin ==
  ASSUME TypeOK, LineInv, NEW w \in Writers, NEW bytes, Begin(w, bytes)
  PROVE  Sent(w)' = 0
<1>1. frame'[w] = frame[w] + 1 /\ line' = line /\ frame[w] \in Nat
  BY DEF Begin, TypeOK
<1>2. ASSUME NEW i \in DOMAIN line, line[i] = <<w, frame'[w]>> PROVE FALSE
  <2>1. line[i][2] <= frame[line[i][1]]
    BY <1>2 DEF LineInv
  <2>2. line[i][1] = w /\ line[i][2] = frame[w] + 1
    BY <1>1, <1>2
  <2> QED
    BY <1>1, <2>1, <2>2
<1>3. {i \in DOMAIN line' : line'[i] = <<w, frame'[w]>>} = {}
  BY <1>1, <1>2
<1> QED
  BY <1>3, FS_EmptySet DEF Sent

(* What is sent is added to the frame of its writer, and to no other. *)
LEMMA SentSend ==
  ASSUME TypeOK, NEW w \in Writers, NEW bytes \in 1 .. size[w], Send(w, bytes)
  PROVE  /\ Sent(w)' = Sent(w) + bytes
         /\ \A v \in Writers \ {w} : Sent(v)' = Sent(v)
<1> DEFINE n == Len(line)
           byte == <<w, frame[w]>>
           old == {i \in DOMAIN line : line[i] = byte}
           new == n + 1 .. n + bytes
<1>1. /\ bytes \in Nat \ {0} /\ Len(line') = n + bytes
      /\ \A i \in 1 .. n : line'[i] = line[i]
      /\ \A i \in new : line'[i] = byte
      /\ line' \in Seq(Writers \X Nat)
  BY SendLine
<1>2. n \in Nat /\ DOMAIN line = 1 .. n /\ DOMAIN line' = 1 .. n + bytes
  BY <1>1, LenProperties DEF TypeOK
<1>3. frame' = frame
  BY DEF Send
<1>4. \A i : i \in 1 .. n + bytes <=> i \in 1 .. n \/ i \in new
  BY <1>1, <1>2
<1>5. Sent(w)' = Sent(w) + bytes
  <2>1. {i \in DOMAIN line' : line'[i] = byte} = old \cup new
    <3> HIDE DEF n, byte, new
    <3> QED
      BY <1>1, <1>2, <1>4
  <2>2. IsFiniteSet(old) /\ IsFiniteSet(new) /\ Cardinality(new) = bytes
    <3>1. n + 1 \in Int /\ n + bytes \in Int /\ ~(n + 1 > n + bytes) /\ (n + bytes) - (n + 1) + 1 = bytes
      BY <1>1, <1>2
    <3>2. IsFiniteSet(new) /\ Cardinality(new) = bytes
      BY <3>1, FS_Interval
    <3> QED
      BY <3>2, SentType
  <2>3. old \cap new = {}
    BY <1>2
  <2> HIDE DEF old, new
  <2>4. Cardinality(old \cup new) = Cardinality(old) + Cardinality(new) - Cardinality(old \cap new)
    BY <2>2, FS_Union
  <2>5. Cardinality(old \cap new) = 0 /\ Cardinality(old) \in Nat
    BY <2>2, <2>3, FS_EmptySet, FS_CardinalityType
  <2>6. Cardinality(old \cup new) = Cardinality(old) + bytes
    BY <1>1, <2>2, <2>4, <2>5
  <2> QED
    BY <1>3, <2>1, <2>6 DEF Sent, old
<1>6. ASSUME NEW v \in Writers \ {w} PROVE Sent(v)' = Sent(v)
  <2>1. byte # <<v, frame[v]>>
    OBVIOUS
  <2>2. {i \in DOMAIN line' : line'[i] = <<v, frame[v]>>} = {i \in DOMAIN line : line[i] = <<v, frame[v]>>}
    <3> HIDE DEF n, byte, new
    <3> QED
      BY <1>1, <1>2, <1>4, <2>1
  <2> QED
    BY <1>3, <2>2 DEF Sent
<1> QED
  BY <1>5, <1>6

(* Where the line and the frames stay, so does what was sent. *)
LEMMA SentKept ==
  ASSUME NEW w, line' = line, frame'[w] = frame[w]
  PROVE  Sent(w)' = Sent(w)
BY DEF Sent

(* A step of one writer leaves the others' accounts alone. *)
LEMMA OthersWhole ==
  ASSUME WholeInv, NEW w \in Writers, Whole(w)',
         \A v \in Writers \ {w} :
           /\ pc'[v] = pc[v] /\ size'[v] = size[v] /\ length'[v] = length[v]
           /\ frame'[v] = frame[v] /\ result'[v] = result[v] /\ Sent(v)' = Sent(v)
  PROVE  WholeInv'
BY DEF WholeInv, Whole

(* A write that returns without writing says "ok" if nothing is left. *)
LEMMA ReturnWhole ==
  ASSUME TypeOK, WholeInv, NEW w \in Writers, pc[w] # "idle",
         NEW outcome \in {"ok", "cancelled", "timeout", "error"}, Return(w, outcome),
         UNCHANGED <<length, size, frame, line>>, outcome = "ok" <=> size[w] = 0
  PROVE  WholeInv'
<1>1. /\ pc' = [pc EXCEPT ![w] = "idle"] /\ result' = [result EXCEPT ![w] = outcome]
      /\ size' = size /\ length' = length /\ frame' = frame /\ line' = line
  BY DEF Return, Go
<1>2. \A v : Sent(v)' = Sent(v)
  BY <1>1, SentKept
<1>3. Sent(w) \in Nat /\ size[w] \in Nat /\ Sent(w) + size[w] = length[w]
  BY SentType DEF TypeOK, WholeInv, Whole, Sent
<1>4. pc'[w] = "idle" /\ result'[w] = outcome
  BY <1>1 DEF TypeOK
<1>5. Whole(w)'
  BY <1>1, <1>2, <1>3, <1>4 DEF Whole
<1>6. \A v \in Writers \ {w} : pc'[v] = pc[v] /\ result'[v] = result[v]
  BY <1>1 DEF TypeOK
<1> QED
  BY <1>1, <1>2, <1>5, <1>6, OthersWhole

(* A step that only moves a writer on. *)
LEMMA GoWhole ==
  ASSUME TypeOK, WholeInv, NEW w \in Writers, pc[w] # "idle", NEW where, Go(w, where),
         where # "idle", UNCHANGED <<length, size, frame, result, line>>,
         where # "writing" => size[w] > 0
  PROVE  WholeInv'
<1>1. pc' = [pc EXCEPT ![w] = where]
  BY DEF Go
<1>2. \A v : Sent(v)' = Sent(v)
  BY SentKept
<1>3. pc'[w] = where /\ Sent(w) + size[w] = length[w]
  BY <1>1 DEF TypeOK, WholeInv, Whole
<1>4. Whole(w)'
  BY <1>2, <1>3 DEF Whole
<1>5. \A v \in Writers \ {w} : pc'[v] = pc[v]
  BY <1>1 DEF TypeOK
<1> QED
  BY <1>2, <1>4, <1>5, OthersWhole

LEMMA WholeNext ==
  ASSUME 0 \notin Sizes, TypeOK, LineInv, WholeInv, [Next]_vars
  PROVE  WholeInv'
<1>1. ASSUME UNCHANGED <<pc, length, size, frame, result, line>> PROVE WholeInv'
  BY <1>1, SentKept DEF WholeInv, Whole
<1>2. CASE Tick \/ Quiet \/ UNCHANGED vars
  BY <1>1, <1>2 DEF Tick, Quiet, vars
<1>3. ASSUME NEW w \in Writers, RequestStop(w) PROVE WholeInv'
  BY <1>1, <1>3 DEF RequestStop
<1>4. ASSUME NEW w \in Writers, NEW bytes \in Sizes, Begin(w, bytes) PROVE WholeInv'
  <2>1. /\ pc' = [pc EXCEPT ![w] = "locking"] /\ length' = [length EXCEPT ![w] = bytes]
        /\ size' = [size EXCEPT ![w] = bytes] /\ frame' = [frame EXCEPT ![w] = @ + 1]
        /\ result' = result /\ line' = line
    BY <1>4 DEF Begin, Go
  <2>2. pc'[w] = "locking" /\ length'[w] = bytes /\ size'[w] = bytes
    BY <2>1 DEF TypeOK
  <2>3. bytes \in Nat /\ bytes > 0
    BY WriteAssumption
  <2>4. Sent(w)' = 0
    BY <1>4, SentBegin
  <2>5. Whole(w)'
    BY <2>2, <2>3, <2>4 DEF Whole
  <2>6. ASSUME NEW v \in Writers \ {w}
        PROVE  /\ pc'[v] = pc[v] /\ size'[v] = size[v] /\ length'[v] = length[v]
               /\ frame'[v] = frame[v] /\ result'[v] = result[v] /\ Sent(v)' = Sent(v)
    BY <2>1, SentKept DEF TypeOK
  <2> QED
    BY <2>5, <2>6, OthersWhole
<1>5. ASSUME NEW w \in Writers, NEW bytes \in 1 .. size[w], Send(w, bytes) PROVE WholeInv'
  <2>1. /\ pc' = [pc EXCEPT ![w] = "writing"] /\ size' = [size EXCEPT ![w] = @ - bytes]
        /\ length' = length /\ frame' = frame /\ result' = result /\ pc[w] = "sending"
    BY <1>5 DEF Send, Go
  <2>2. pc'[w] = "writing" /\ size'[w] = size[w] - bytes
    BY <2>1 DEF TypeOK
  <2>3. /\ size[w] \in Nat /\ bytes \in Nat /\ Sent(w) \in Nat
        /\ Sent(w) + size[w] = length[w]
    <3>1. Sent(w) \in Nat
      BY SentType DEF Sent
    <3>2. size[w] \in Nat /\ bytes \in Nat
      BY DEF TypeOK
    <3> QED
      BY <2>1, <3>1, <3>2 DEF WholeInv, Whole
  <2>4. Sent(w)' = Sent(w) + bytes /\ \A v \in Writers \ {w} : Sent(v)' = Sent(v)
    BY <1>5, SentSend
  <2>5. Whole(w)'
    BY <2>1, <2>2, <2>3, <2>4 DEF Whole
  <2>6. \A v \in Writers \ {w} : pc'[v] = pc[v] /\ size'[v] = size[v]
    BY <2>1 DEF TypeOK
  <2> QED
    BY <2>1, <2>4, <2>5, <2>6, OthersWhole
<1>6. ASSUME NEW w \in Writers, Write(w), ~(\E bytes \in 1 .. size[w] : Send(w, bytes))
      PROVE  WholeInv'
  <2>1. size[w] \in Nat /\ (pc[w] \in {"locking", "waiting", "sending", "polling"} => size[w] > 0)
    BY <1>6 DEF TypeOK, WholeInv, Whole
  <2>2. CASE Lock(w)
    BY <1>6, <2>2, GoWhole DEF Lock
  <2>3. CASE LockFails(w)
    <3>1. CASE stopped[w]
      BY <1>6, <2>1, <2>3, <3>1, ReturnWhole DEF LockFails
    <3>2. CASE ~stopped[w] /\ deadline[w] <= 0
      BY <1>6, <2>1, <2>3, <3>2, ReturnWhole DEF LockFails
    <3>3. CASE ~stopped[w] /\ ~(deadline[w] <= 0)
      BY <1>6, <2>1, <2>3, <3>3, GoWhole DEF LockFails, SleepFor
    <3> QED
      BY <3>1, <3>2, <3>3
  <2>4. CASE LockAgain(w)
    BY <1>6, <2>1, <2>4, GoWhole DEF LockAgain
  <2>5. CASE Check(w)
    <3>1. CASE size[w] = 0
      BY <1>6, <2>5, <3>1, ReturnWhole DEF Check
    <3>2. CASE size[w] # 0 /\ stopped[w]
      BY <1>6, <2>5, <3>2, ReturnWhole DEF Check
    <3>3. CASE size[w] # 0 /\ ~stopped[w] /\ deadline[w] <= 0
      BY <1>6, <2>5, <3>3, ReturnWhole DEF Check
    <3>4. CASE size[w] # 0 /\ ~stopped[w] /\ ~(deadline[w] <= 0)
      BY <1>6, <2>1, <2>5, <3>4, GoWhole DEF Check
    <3> QED
      BY <3>1, <3>2, <3>3, <3>4
  <2>6. CASE NoRoom(w)
    BY <1>6, <2>1, <2>6, GoWhole DEF NoRoom, SleepFor
  <2>7. CASE PollReturns(w)
    BY <1>6, <2>7, GoWhole DEF PollReturns
  <2>8. CASE LineFails(w)
    BY <1>6, <2>1, <2>8, ReturnWhole DEF LineFails
  <2> QED
    BY <1>6, <2>2, <2>3, <2>4, <2>5, <2>6, <2>7, <2>8 DEF Write
<1> QED
  BY <1>2, <1>3, <1>4, <1>5, <1>6 DEF Next, Call, Write

(* If no frame is empty, a write reports success exactly if the line got   *)
(* the whole frame, whatever interrupted it (write_serial).                *)
THEOREM SuccessMeansWhole == ASSUME 0 \notin Sizes PROVE Spec => []SuccessIsWhole
<1>1. Init => WholeInv
  BY DEF Init, WholeInv, Whole
<1>2. IInv /\ WholeInv /\ [Next]_vars => WholeInv'
  BY WholeNext DEF IInv
<1>3. WholeInv => SuccessIsWhole
  BY DEF WholeInv, Whole, SuccessIsWhole
<1> QED
  BY <1>1, <1>2, <1>3, Invariant, PTL DEF Spec

=============================================================================
