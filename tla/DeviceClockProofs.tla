------------------------- MODULE DeviceClockProofs -------------------------
(***************************************************************************)
(* Proofs about DeviceClock, for every wrap, lag and timeout that satisfy  *)
(* its assumptions: a restart of the device is noticed soon, no log of the *)
(* new run meets what is left of the old one, and no stamp rests on the    *)
(* old run's clock.                                                        *)
(***************************************************************************)
EXTENDS DeviceClock, TLAPS

-----------------------------------------------------------------------------
(* Timestamps.  The signed difference of two of them is the difference of  *)
(* the times they stand for, as long as these are less than half a wrap    *)
(* apart.                                                                  *)

(* A timestamp reduced modulo the wrap is a timestamp. *)
LEMMA Stamps == \A t \in Int : t % Wrap \in 0 .. (Wrap - 1)
BY WrapAssumption

(* Division with remainder, and its uniqueness. *)
LEMMA Division ==
  ASSUME NEW x \in Int
  PROVE  /\ x = Wrap * (x \div Wrap) + (x % Wrap)
         /\ x \div Wrap \in Int /\ x % Wrap \in 0 .. (Wrap - 1)
BY WrapAssumption

(* A number written as quotient and remainder has that remainder. *)
LEMMA Remainder ==
  ASSUME NEW q \in Int, NEW r \in 0 .. (Wrap - 1)
  PROVE  (Wrap * q + r) % Wrap = r
BY WrapAssumption

(* The difference of two numbers, from their quotients and remainders. *)
LEMMA Difference ==
  ASSUME NEW a \in Int, NEW b \in Int, NEW ra \in Int, NEW rb \in Int, NEW r \in Int,
         NEW p \in Int, NEW q \in Int, NEW k \in Int,
         a = Wrap * p + ra, b = Wrap * q + rb, ra - rb = Wrap * k + r
  PROVE  a - b = Wrap * (p - q + k) + r
<1>1. Wrap * (p - q + k) = Wrap * p - Wrap * q + Wrap * k
  BY WrapAssumption
<1> QED
  BY <1>1, WrapAssumption

(* Remainders may be subtracted in place of the numbers. *)
LEMMA SubtractRemainders ==
  ASSUME NEW a \in Int, NEW b \in Int
  PROVE  ((a % Wrap) - (b % Wrap)) % Wrap = (a - b) % Wrap
<1> DEFINE p == a \div Wrap
           q == b \div Wrap
           x == (a % Wrap) - (b % Wrap)
           k == x \div Wrap
<1>1. a = Wrap * p + (a % Wrap) /\ p \in Int /\ a % Wrap \in Int
  BY Division, WrapAssumption
<1>2. b = Wrap * q + (b % Wrap) /\ q \in Int /\ b % Wrap \in Int
  BY Division, WrapAssumption
<1>3. x = Wrap * k + (x % Wrap) /\ k \in Int /\ x % Wrap \in 0 .. (Wrap - 1)
  BY <1>1, <1>2, Division, WrapAssumption
<1> HIDE DEF p, q, k
<1>4. a - b = Wrap * (p - q + k) + (x % Wrap)
  <2> HIDE DEF x
  <2>1. x % Wrap \in Int
    BY <1>3, WrapAssumption
  <2>2. (a % Wrap) - (b % Wrap) = Wrap * k + (x % Wrap)
    BY <1>3, Zenon DEF x
  <2> QED
    BY <1>1, <1>2, <1>3, <2>1, <2>2, Difference
<1>5. p - q + k \in Int
  BY <1>1, <1>2, <1>3
<1>6. (Wrap * (p - q + k) + (x % Wrap)) % Wrap = x % Wrap
  BY <1>3, <1>5, Remainder
<1> QED
  BY <1>4, <1>6

(* The two cases of the signed difference: forwards, as it comes, *)
LEMMA DeltaForward ==
  ASSUME NEW x \in Int, NEW y \in Int, NEW d \in Int, (x - y) % Wrap = d, 2 * d < Wrap
  PROVE  SignedDelta(x, y) = d
BY WrapAssumption DEF SignedDelta

(* and backwards, where the difference comes out one wrap too large. *)
LEMMA DeltaBackward ==
  ASSUME NEW x \in Int, NEW y \in Int, NEW d \in Int,
         (x - y) % Wrap = d + Wrap, 2 * (d + Wrap) >= Wrap
  PROVE  SignedDelta(x, y) = d
BY WrapAssumption DEF SignedDelta

(* timestamps is the difference of the times.                              *)
LEMMA DeltaExact ==
  ASSUME NEW a \in Int, NEW b \in Int, 2 * (a - b) < Wrap, 2 * (b - a) < Wrap
  PROVE  SignedDelta(a % Wrap, b % Wrap) = a - b
<1>1. a % Wrap \in Int /\ b % Wrap \in Int /\ a - b \in Int
  BY Division, WrapAssumption
<1>2. ((a % Wrap) - (b % Wrap)) % Wrap = (a - b) % Wrap
  BY SubtractRemainders
<1>3. CASE a >= b
  <2>1. (Wrap * 0 + (a - b)) % Wrap = a - b
    BY <1>3, Remainder, WrapAssumption
  <2>2. (a - b) % Wrap = a - b
    BY <2>1, WrapAssumption
  <2>3. ((a % Wrap) - (b % Wrap)) % Wrap = a - b
    BY <1>2, <2>2
  <2>4. 2 * (a - b) < Wrap
    OBVIOUS
  <2> QED
    BY <1>1, <2>3, <2>4, DeltaForward, Zenon
<1>4. CASE a < b
  <2>1. (Wrap * (-1) + (a - b + Wrap)) % Wrap = a - b + Wrap
    BY <1>4, Remainder, WrapAssumption
  <2>2. (a - b) % Wrap = a - b + Wrap
    BY <2>1, WrapAssumption
  <2>3. ((a % Wrap) - (b % Wrap)) % Wrap = a - b + Wrap
    BY <1>2, <2>2
  <2>4. 2 * (a - b + Wrap) >= Wrap
    BY WrapAssumption
  <2> QED
    BY <1>1, <2>3, <2>4, DeltaBackward, Zenon
<1> QED
  BY <1>3, <1>4

-----------------------------------------------------------------------------

(* What becomes of a log's timestamp, if it tells the time at all. *)
VerdictOf(kind, ts) == IF Clocked(kind) THEN Verdict(ts) ELSE "unclocked"

(* While a restart is not noticed its clock stands at the time since, which *)
(* is short; the high water is far from either end of the old run; and as  *)
(* soon as a log was held, time passes only while the candidate is ahead.  *)
Unnoticed ==
  /\ up = time /\ receivedAge <= time + MaxSilence
  /\ highWater >= MinUptime - MaxLate - MaxSilence /\ highWater < Wrap - MinUptime
  /\ \/ time = silence
     \/ /\ candidate # None /\ candidate <= MaxSilence /\ candidate <= time
        /\ time - silence <= MaxSilence + MaxLag + (IF late THEN MaxSilence ELSE 0)

RestartInv == restarted => highWater # None /\ (~LongOutage => Unnoticed)

(* Otherwise the high water is a recent instant of this run, set by a log  *)
(* in order unless it was the one that gave the restart away.              *)
HighInv ==
  ~restarted /\ highWater # None /\ ~LongOutage =>
    \E lag \in 0 .. receivedAge + MaxLate :
      /\ highWater = (time - lag) % Wrap
      /\ lag <= receivedAge + MaxLag \/ highWater < MinUptime

(* Without a restart only a late log is held, and no second one comes until *)
(* the candidate is dropped.                                               *)
CandidateInv == candidate # None /\ ~restarted /\ ~LongOutage => late

(* An anchor in use stands for a recent instant, of this run unless the    *)
(* restart is not noticed.                                                 *)
AnchorInv ==
  anchor # None =>
    /\ highWater # None
    /\ anchor.lost => restarted
    /\ ~anchor.lost /\ anchorAge <= UtcTimeout =>
         anchor.age <= anchorAge + MaxLate /\ anchor.ts = (time - anchor.age) % Wrap

IInv == TypeOK /\ RestartInv /\ HighInv /\ CandidateInv /\ AnchorInv /\ StampsAreTrue

-----------------------------------------------------------------------------
(* What handling a log does, case by case.                                 *)

LEMMA Verdicts ==
  ASSUME NEW kind, NEW ts
  PROVE  /\ VerdictOf(kind, ts) \in {"unclocked", "outage", "follows", "restart", "held"}
         /\ VerdictOf(kind, ts) = "unclocked" <=> ~Clocked(kind)
         /\ Clocked(kind) => VerdictOf(kind, ts) = Verdict(ts)
         /\ Verdict(ts) = "outage" <=> LongOutage
         /\ Verdict(ts) \in {"restart", "held"} <=> OutOfPlace(ts)
         /\ Verdict(ts) = "restart" <=> OutOfPlace(ts) /\ Confirms(ts)
BY DEF VerdictOf, Verdict, OutOfPlace

(* The clock: a held log becomes the candidate, one that moves the high    *)
(* water ends the quarantine, any other changes nothing.                   *)
LEMMA FollowCases ==
  ASSUME NEW ts, NEW verdict, Follow(ts, verdict)
  PROVE  /\ verdict = "held" =>
              candidate' = ts /\ UNCHANGED <<highWater, receivedAge, restarted>>
         /\ verdict = "unclocked" \/ (verdict = "follows" /\ Behind(ts)) =>
              UNCHANGED <<highWater, receivedAge, candidate, restarted>>
         /\ verdict # "held" /\ verdict # "unclocked" /\ ~(verdict = "follows" /\ Behind(ts)) =>
              /\ highWater' = ts /\ receivedAge' = 0 /\ candidate' = None
              /\ restarted' = (restarted /\ verdict = "follows" /\ highWater # None)
         /\ cleared' = IF verdict \in {"outage", "restart"} THEN verdict ELSE "no"
<1>1. CASE verdict = "held"
      BY <1>1, Zenon DEF Follow
<1>2. CASE verdict = "unclocked" \/ (verdict = "follows" /\ Behind(ts))
      BY <1>2, Zenon DEF Follow
<1>3. CASE verdict # "held" /\ ~(verdict = "unclocked" \/ (verdict = "follows" /\ Behind(ts)))
      BY <1>3, Zenon DEF Follow
<1> QED
    BY <1>1, <1>2, <1>3, Zenon

(* The log as a whole. *)
LEMMA OnLogFollows ==
  ASSUME NEW kind, NEW lag, OnLog(kind, lag)
  PROVE  /\ Follow((time - lag) % Wrap, VerdictOf(kind, (time - lag) % Wrap))
         /\ currentSeen' = (currentSeen \/ kind \in CurrentKinds)
BY Zenon DEF OnLog, VerdictOf

LEMMA OnLogStamps ==
  ASSUME NEW kind, NEW lag, OnLog(kind, lag), NEW ts, ts = (time - lag) % Wrap,
         NEW verdict, verdict = VerdictOf(kind, ts),
         NEW reference, reference = Revoked(kind, verdict)
  PROVE  \/ verdict = "held" /\ stamp' = "held" /\ anchor' = reference /\ anchorAge' = anchorAge
         \/ /\ kind = "utc" /\ verdict # "held" /\ stamp' = "none"
            /\ anchor' = [ts |-> ts, age |-> lag, lost |-> FALSE] /\ anchorAge' = 0
         \/ /\ kind = "invalid_utc" /\ verdict # "held" /\ stamp' = "none"
            /\ anchor' = reference /\ anchorAge' = anchorAge
         \/ /\ verdict # "held" /\ anchorAge' = anchorAge
            /\ anchor' = Unexpired(reference)
            /\ stamp' = Stamped(Unexpired(reference), ts, lag, Clocked(kind))
<1>1. CASE verdict = "held"
      BY <1>1, Zenon DEF OnLog, VerdictOf
<1>2. CASE verdict # "held" /\ kind = "utc"
      BY <1>2, Zenon DEF OnLog, VerdictOf
<1>3. CASE verdict # "held" /\ kind = "invalid_utc"
      BY <1>3, Zenon DEF OnLog, VerdictOf
<1>4. CASE verdict # "held" /\ kind # "utc" /\ kind # "invalid_utc"
      BY <1>4, Zenon DEF OnLog, VerdictOf
<1> QED
    BY <1>1, <1>2, <1>3, <1>4, Zenon

-----------------------------------------------------------------------------
(* Types.                                                                  *)

LEMMA Constants ==
  /\ Slack \in Nat /\ Lead \in Nat /\ Outage \in Nat /\ UtcTimeout \in Nat /\ MaxLag \in Nat
  /\ MaxLate \in Nat /\ MaxSilence \in Nat /\ Patience \in Nat /\ MinUptime \in Nat
  /\ Start \in Nat /\ Start < Wrap
  /\ Outage + 1 \in 0 .. Outage + 1 /\ UtcTimeout + 1 \in 0 .. UtcTimeout + 1
BY ClockAssumption

LEMMA InitIInv == Init => IInv
<1> SUFFICES ASSUME Init PROVE IInv
    OBVIOUS
<1>1. TypeOK
  <2>1. time \in Timestamps /\ up \in 0 .. MinUptime /\ silence \in 0 .. MaxSilence
        BY Constants, WrapAssumption DEF Init, Timestamps
  <2>2. late \in BOOLEAN /\ currentSeen \in BOOLEAN /\ restarted \in BOOLEAN
        BY Zenon DEF Init
  <2>3. receivedAge \in 0 .. Outage + 1 /\ anchorAge \in 0 .. UtcTimeout + 1
        BY Constants DEF Init
  <2> QED
      BY <2>1, <2>2, <2>3 DEF Init, TypeOK
<1> QED
    BY <1>1 DEF Init, IInv, RestartInv, HighInv, CandidateInv, AnchorInv, StampsAreTrue

LEMMA StampTypes ==
  ASSUME NEW reference, NEW ts, NEW lag, NEW clocked
  PROVE  Stamped(reference, ts, lag, clocked) \in {"received", "unclocked", "true", "wrong"}
BY DEF Stamped

LEMMA ReceiveTypes ==
  ASSUME TypeOK, NEW kind \in Kinds, Receive(kind)
  PROVE  TypeOK'
<1>1. PICK lag \in 0 .. MaxLate :
        /\ late' = IF Clocked(kind) /\ lag \notin 1 .. MaxLag THEN lag # 0 ELSE late
        /\ OnLog(kind, lag)
      BY DEF Receive
<1> DEFINE ts == (time - lag) % Wrap
           verdict == VerdictOf(kind, ts)
           reference == Revoked(kind, verdict)
<1>2. ts \in Timestamps /\ lag \in 0 .. Wrap
  <2>1. time \in Int /\ lag \in Int /\ time - lag \in Int
        BY ClockAssumption, WrapAssumption DEF TypeOK, Timestamps
  <2> QED
      BY <2>1, Stamps, ClockAssumption, TimingAssumption, WrapAssumption DEF Timestamps
<1>3. Follow(ts, verdict) /\ currentSeen' = (currentSeen \/ kind \in CurrentKinds)
      BY <1>1, OnLogFollows
<1>4. \/ verdict = "held" /\ stamp' = "held" /\ anchor' = reference /\ anchorAge' = anchorAge
      \/ stamp' = "none" /\ anchor' = [ts |-> ts, age |-> lag, lost |-> FALSE] /\ anchorAge' = 0
      \/ stamp' = "none" /\ anchor' = reference /\ anchorAge' = anchorAge
      \/ /\ anchorAge' = anchorAge /\ anchor' = Unexpired(reference)
         /\ stamp' = Stamped(Unexpired(reference), ts, lag, Clocked(kind))
  <2> HIDE DEF ts, verdict, reference
  <2> QED
      BY <1>1, OnLogStamps DEF ts, verdict, reference
<1>5. verdict \in {"unclocked", "outage", "follows", "restart", "held"}
      BY Verdicts
<1>6. reference \in Utc \cup {None} /\ Unexpired(reference) \in Utc \cup {None}
      BY DEF TypeOK, Revoked, Unexpired
<1> HIDE DEF ts, verdict, reference
<1>7. /\ highWater' \in Timestamps \cup {None} /\ candidate' \in Timestamps \cup {None}
      /\ receivedAge' \in 0 .. Outage + 1
      /\ cleared' \in {"no", "outage", "restart"}
      BY <1>2, <1>3, <1>5, FollowCases, ClockAssumption DEF TypeOK
<1>8. restarted' \in BOOLEAN /\ currentSeen' \in BOOLEAN /\ late' \in BOOLEAN
  <2>1. restarted' = restarted \/ restarted' \in BOOLEAN
        BY <1>3, <1>5, FollowCases, Zenon
  <2> QED
      BY <1>1, <1>3, <2>1, Zenon DEF TypeOK
<1>9. stamp' \in {"held", "none", "received", "true", "wrong", "unclocked"}
      BY <1>4, StampTypes
<1>10. anchor' \in Utc \cup {None} /\ anchorAge' \in 0 .. UtcTimeout + 1
  <2>1. [ts |-> ts, age |-> lag, lost |-> FALSE] \in Utc
        BY <1>2 DEF Utc
  <2>2. 0 \in 0 .. UtcTimeout + 1 /\ anchorAge \in 0 .. UtcTimeout + 1
        BY Constants DEF TypeOK
  <2> QED
      BY <1>4, <1>6, <2>1, <2>2
<1>11. time' \in Timestamps /\ up' \in 0 .. MinUptime /\ silence' \in 0 .. MaxSilence
       BY ClockAssumption DEF TypeOK, Receive
<1> QED
    BY <1>7, <1>8, <1>9, <1>10, <1>11 DEF TypeOK

LEMMA OlderTypes ==
  ASSUME NEW limit \in Nat, NEW age \in 0 .. limit
  PROVE  /\ Older(age, limit) \in 0 .. limit
         /\ age < limit => Older(age, limit) = age + 1
         /\ Older(age, limit) <= age + 1
BY DEF Older

LEMMA TickTypes ==
  ASSUME TypeOK, Tick
  PROVE  TypeOK'
<1>1. time' \in Timestamps
  <2>1. time + 1 \in Int
        BY WrapAssumption DEF TypeOK, Timestamps
  <2> QED
      BY <2>1, Stamps DEF Tick, Timestamps
<1>2. up' \in 0 .. MinUptime /\ receivedAge' \in 0 .. Outage + 1 /\ anchorAge' \in 0 .. UtcTimeout + 1
  <2>1. Outage + 1 \in Nat /\ UtcTimeout + 1 \in Nat /\ MinUptime \in Nat
        BY Constants
  <2> QED
      BY <2>1, OlderTypes DEF TypeOK, Tick
<1>3. silence' \in 0 .. MaxSilence
      BY ClockAssumption DEF TypeOK, Tick
<1>4. anchor' \in Utc \cup {None}
  <2>1. CASE anchor = None
        BY <2>1 DEF Tick
  <2>2. CASE anchor # None
    <3>1. anchor \in Utc /\ anchor' = [anchor EXCEPT !.age = Older(@, Wrap)]
          BY <2>2 DEF TypeOK, Tick
    <3>2. Older(anchor.age, Wrap) \in 0 .. Wrap
          BY <3>1, OlderTypes, WrapAssumption DEF Utc
    <3> QED
        BY <3>1, <3>2 DEF Utc
  <2> QED
      BY <2>1, <2>2
<1> QED
    BY <1>1, <1>2, <1>3, <1>4 DEF TypeOK, Tick

LEMMA TypeNext == TypeOK /\ [Next]_vars => TypeOK'
<1> SUFFICES ASSUME TypeOK, [Next]_vars PROVE TypeOK'
    OBVIOUS
<1>1. CASE \E kind \in Kinds : Receive(kind)
      BY <1>1, ReceiveTypes
<1>2. CASE Tick
      BY <1>2, TickTypes
<1>3. CASE Restart
  <2>1. anchor' \in Utc \cup {None}
        BY <1>3 DEF TypeOK, Restart, Utc
  <2> QED
      BY <1>3, <2>1, ClockAssumption, WrapAssumption DEF TypeOK, Restart, Timestamps
<1>4. CASE Activate
  <2>1. currentSeen' \in BOOLEAN /\ restarted' \in BOOLEAN /\ late' \in BOOLEAN
        BY <1>4, Zenon DEF TypeOK, Activate
  <2> QED
      BY <1>4, <2>1, Constants DEF TypeOK, Activate
<1>5. CASE UNCHANGED vars
      BY <1>5 DEF TypeOK, vars, device, clock
<1> QED
    BY <1>1, <1>2, <1>3, <1>4, <1>5 DEF Next

(* Every variable keeps its type, for every wrap, lag and timeout. *)
THEOREM TypeCorrect == Spec => []TypeOK
<1>1. Init => TypeOK
      BY InitIInv DEF IInv
<1> QED
    BY <1>1, TypeNext, PTL DEF Spec

-----------------------------------------------------------------------------
(* While a restart is not noticed.                                         *)

(* A time within a wrap is its own timestamp. *)
LEMMA OwnStamp == ASSUME NEW t \in 0 .. Wrap - 1 PROVE t % Wrap = t
<1>1. (Wrap * 0 + t) % Wrap = t
      BY Remainder, WrapAssumption
<1> QED
    BY <1>1, WrapAssumption

LEMMA UnnoticedIsShort ==
  ASSUME TypeOK, Unnoticed
  PROVE  /\ time \in Nat /\ time <= 3 * MaxSilence + MaxLag
         /\ time < MinUptime /\ time < Wrap - 1
         /\ receivedAge \in Nat /\ receivedAge <= 4 * MaxSilence + MaxLag
<1>1. time \in Nat /\ silence \in 0 .. MaxSilence /\ receivedAge \in Nat
      BY Constants, WrapAssumption DEF TypeOK, Timestamps
<1>2. time <= 3 * MaxSilence + MaxLag
  <2>1. CASE time = silence
        BY <1>1, <2>1, Constants
  <2>2. CASE time # silence
    <3>1. candidate <= MaxSilence /\ time - silence <= MaxSilence + MaxLag + MaxSilence
          BY <1>1, <2>2, Constants DEF Unnoticed
    <3> QED
        BY <1>1, <3>1, Constants
  <2> QED
      BY <2>1, <2>2
<1>3. receivedAge <= time + MaxSilence
      BY DEF Unnoticed
<1> QED
    BY <1>1, <1>2, <1>3, Constants, TimingAssumption, WrapAssumption

LEMMA UnnoticedStamp ==
  ASSUME TypeOK, Unnoticed, NEW lag \in Nat, lag <= up
  PROVE  (time - lag) % Wrap = time - lag /\ time - lag \in Nat
<1>1. time - lag \in 0 .. Wrap - 1
      BY UnnoticedIsShort, WrapAssumption DEF Unnoticed
<1> QED
    BY <1>1, OwnStamp

(* A log of the new run never fits the high water of the old one.          *)
LEMMA NewRunOutOfPlace ==
  ASSUME TypeOK, RealTime, Unnoticed, highWater # None, ~LongOutage,
         NEW lag \in 0 .. MaxLate, lag <= up
  PROVE  OutOfPlace((time - lag) % Wrap)
<1> DEFINE ts == time - lag
           ahead == highWater - ts
<1>1. (time - lag) % Wrap = ts /\ ts \in Nat
      BY UnnoticedStamp, Constants
<1>2. highWater \in Int /\ lag \in Nat /\ lag <= MaxLate
      BY Constants, WrapAssumption DEF TypeOK, Timestamps
<1>3. /\ ahead \in Int /\ ahead > Slack /\ ahead < Wrap
      /\ Wrap - ahead > receivedAge + Slack
  <2>1. highWater >= MinUptime - MaxLate - MaxSilence /\ highWater < Wrap - MinUptime
        BY DEF Unnoticed
  <2>2. receivedAge <= time + MaxSilence
        BY DEF Unnoticed
  <2> QED
      BY <1>1, <1>2, <2>1, <2>2, UnnoticedIsShort, Constants, TimingAssumption, WrapAssumption
<1> HIDE DEF ahead
<1>4. (ts - highWater) % Wrap = Wrap - ahead
  <2>1. (Wrap * (-1) + (Wrap - ahead)) % Wrap = Wrap - ahead
        BY <1>3, Remainder, Constants, WrapAssumption
  <2>2. Wrap * (-1) + (Wrap - ahead) = ts - highWater
        BY <1>1, <1>2, WrapAssumption DEF ahead
  <2> QED
      BY <2>1, <2>2
<1> HIDE DEF ts
<1>5. CASE 2 * ahead <= Wrap
  <2>1. SignedDelta(ts, highWater) = -ahead
    <3>1. (ts - highWater) % Wrap = -ahead + Wrap /\ 2 * (-ahead + Wrap) >= Wrap
          BY <1>3, <1>4, <1>5, WrapAssumption
    <3> QED
        BY <1>1, <1>2, <1>3, <3>1, DeltaBackward
  <2> QED
      BY <1>1, <1>3, <2>1, Constants DEF OutOfPlace
<1>6. CASE 2 * ahead > Wrap
  <2>1. SignedDelta(ts, highWater) = Wrap - ahead
    <3>1. 2 * (Wrap - ahead) < Wrap /\ Wrap - ahead \in Int
          BY <1>3, <1>6, WrapAssumption
    <3> QED
        BY <1>1, <1>2, <1>4, <3>1, DeltaForward
  <2>2. ts < highWater
        BY <1>1, <1>2, <1>3, Constants DEF ahead
  <2>3. ImplausibleWrap((time - lag) % Wrap)
        BY <1>1, <1>3, <2>1, <2>2 DEF ImplausibleWrap
  <2> QED
      BY <2>3 DEF OutOfPlace
<1> QED
    BY <1>3, <1>5, <1>6, WrapAssumption

(* A held log becomes the candidate, and is not after the one before.      *)
LEMMA HeldLog ==
  ASSUME TypeOK, Unnoticed, NEW ts \in Nat, ts <= time, ~Confirms(ts)
  PROVE  ts <= MaxSilence
<1>1. /\ time \in Nat /\ silence \in 0 .. MaxSilence
      /\ time <= 3 * MaxSilence + MaxLag /\ time < MinUptime
      BY UnnoticedIsShort DEF TypeOK
<1>2. CASE time = silence
      BY <1>1, <1>2, Constants
<1>3. CASE time # silence
  <2>1. candidate # None /\ candidate \in Nat /\ candidate <= MaxSilence
        BY <1>3, WrapAssumption DEF Unnoticed, TypeOK, Timestamps
  <2>2. CASE ts > candidate
    <3> DEFINE d == ts - candidate
    <3>1. d \in 0 .. Wrap - 1 /\ 2 * d < Wrap /\ d > 0 /\ d <= Lead
          BY <1>1, <2>1, <2>2, Constants, TimingAssumption, WrapAssumption
    <3>2. (ts - candidate) % Wrap = d
          BY <3>1, OwnStamp
    <3>3. SignedDelta(ts, candidate) = d
          BY <2>1, <3>1, <3>2, DeltaForward
    <3> QED
        BY <2>1, <3>1, <3>3 DEF Confirms
  <2> QED
      BY <2>1, <2>2, Constants
<1> QED
    BY <1>2, <1>3

LEMMA RestartReceive ==
  ASSUME TypeOK, RestartInv, RealTime, NEW kind \in Kinds, Receive(kind)
  PROVE  RestartInv'
<1>1. PICK lag \in 0 .. MaxLate :
        /\ lag <= up
        /\ Clocked(kind) => lag <= MaxLag \/ (~late /\ Behind((time - lag) % Wrap))
        /\ late' = IF Clocked(kind) /\ lag \notin 1 .. MaxLag THEN lag # 0 ELSE late
        /\ OnLog(kind, lag)
      BY DEF Receive
<1> DEFINE ts == (time - lag) % Wrap
           verdict == VerdictOf(kind, ts)
<1>2. Follow(ts, verdict)
      BY <1>1, OnLogFollows
<1>3. UNCHANGED <<time, up>> /\ silence' = IF Clocked(kind) THEN 0 ELSE silence
      BY DEF Receive
<1>4. verdict \in {"unclocked", "outage", "follows", "restart", "held"}
      BY Verdicts
<1> SUFFICES ASSUME restarted' PROVE highWater' # None /\ (~LongOutage' => Unnoticed')
    BY DEF RestartInv
<1>5. restarted /\ highWater # None /\ (~LongOutage => Unnoticed)
  <2> HIDE DEF ts, verdict
  <2>1. restarted
        BY <1>2, <1>4, FollowCases, Zenon
  <2> QED
      BY <2>1 DEF RestartInv
<1>6. CASE ~Clocked(kind)
  <2>1. verdict = "unclocked"
        BY <1>6, Verdicts
  <2> HIDE DEF ts, verdict
  <2>2. UNCHANGED <<highWater, receivedAge, candidate>> /\ late' = late /\ silence' = silence
        BY <1>1, <1>2, <1>3, <1>6, <2>1, FollowCases
  <2> QED
      BY <1>3, <1>5, <2>2 DEF LongOutage, Unnoticed
<1>7. CASE Clocked(kind) /\ LongOutage
  <2>1. verdict = "outage"
        BY <1>7, Verdicts
  <2> HIDE DEF ts, verdict
  <2>2. ~restarted'
        BY <1>2, <2>1, FollowCases, Zenon
  <2> QED
      BY <2>2
<1>8. CASE Clocked(kind) /\ ~LongOutage
  <2>1. Unnoticed
        BY <1>5, <1>8
  <2>2. ts = time - lag /\ ts \in Nat /\ lag \in Nat
        BY <1>1, <2>1, UnnoticedStamp, Constants
  <2>3. verdict = Verdict(ts) /\ verdict \in {"restart", "held"} /\ (verdict = "restart" <=> Confirms(ts))
    <3>1. OutOfPlace(ts)
          BY <1>1, <1>5, <1>8, <2>1, NewRunOutOfPlace
    <3> QED
        BY <1>8, <3>1, Verdicts
  <2> HIDE DEF ts, verdict
  <2>4. verdict # "restart"
        BY <1>2, FollowCases, Zenon
  <2>5. candidate' = ts /\ UNCHANGED <<highWater, receivedAge>> /\ silence' = 0
        BY <1>2, <1>3, <1>8, <2>3, <2>4, FollowCases
  <2>6. time \in Nat /\ silence \in 0 .. MaxSilence
        BY <2>1, UnnoticedIsShort DEF TypeOK
  <2>7. ts <= time /\ ts <= MaxSilence
    <3>1. ts <= time
          BY <2>2, <2>6
    <3> QED
        BY <2>1, <2>2, <2>3, <2>4, <3>1, HeldLog
  <2>8. time <= MaxSilence + MaxLag + (IF late' THEN MaxSilence ELSE 0)
    <3>1. CASE lag <= MaxLag
          BY <2>2, <2>6, <2>7, <3>1, Constants
    <3>2. CASE ~(lag <= MaxLag)
      <4>1. ~late /\ late'
        <5>1. lag \notin 1 .. MaxLag /\ lag # 0
              BY <2>2, <3>2, Constants
        <5> QED
            BY <1>1, <1>8, <3>2, <5>1, Zenon
      <4>2. time - silence <= MaxSilence + MaxLag \/ time = silence
            BY <2>1, <2>6, <4>1, Constants DEF Unnoticed
      <4> QED
          BY <2>6, <4>1, <4>2, Constants
    <3> QED
        BY <3>1, <3>2
  <2>9. ts # None
        BY <2>2, ClockAssumption
  <2>10. /\ candidate' # None /\ candidate' <= MaxSilence /\ candidate' <= time'
         /\ time' - silence' <= MaxSilence + MaxLag + (IF late' THEN MaxSilence ELSE 0)
    <3>1. time - 0 = time
          BY <2>6
    <3> QED
        BY <1>3, <2>5, <2>7, <2>8, <2>9, <3>1
  <2> QED
      BY <1>3, <1>5, <2>1, <2>5, <2>10 DEF Unnoticed
<1> QED
    BY <1>6, <1>7, <1>8

LEMMA TickAge ==
  ASSUME TypeOK, Tick, highWater # None, ~LongOutage'
  PROVE  receivedAge \in Nat /\ receivedAge <= Outage /\ receivedAge' = receivedAge + 1
<1>1. Outage + 1 \in Nat /\ receivedAge \in 0 .. Outage + 1 /\ receivedAge' = Older(receivedAge, Outage + 1)
      BY Constants DEF TypeOK, Tick
<1>2. ~(receivedAge' > Outage)
      BY DEF LongOutage, Tick
<1> QED
    BY <1>1, <1>2, Constants DEF Older

LEMMA RestartTick == ASSUME TypeOK, RestartInv, Tick PROVE RestartInv'
<1> SUFFICES ASSUME restarted', ~LongOutage' PROVE highWater' # None /\ Unnoticed'
    BY DEF RestartInv, Tick
<1>1. UNCHANGED <<late, highWater, candidate, restarted>> /\ highWater # None
      BY DEF RestartInv, Tick
<1>2. receivedAge <= Outage /\ receivedAge' = receivedAge + 1
      BY <1>1, TickAge
<1>3. Unnoticed
      BY <1>1, <1>2, Constants DEF RestartInv, LongOutage, TypeOK
<1>4. time' = time + 1
  <2>1. time + 1 \in 0 .. Wrap - 1
        BY <1>3, UnnoticedIsShort, WrapAssumption
  <2> QED
      BY <2>1, OwnStamp DEF Tick
<1>5. up' = time + 1 /\ silence' = silence + 1
      BY <1>1, <1>3, UnnoticedIsShort, Constants DEF Tick, Older, Unnoticed
<1>6. time \in Nat /\ silence \in Nat /\ receivedAge \in Nat
      BY <1>3, UnnoticedIsShort DEF TypeOK
<1>7. \/ time' = silence'
      \/ /\ candidate' # None /\ candidate' <= MaxSilence /\ candidate' <= time'
         /\ time' - silence' <= MaxSilence + MaxLag + (IF late' THEN MaxSilence ELSE 0)
  <2>1. CASE time = silence
        BY <1>4, <1>5, <2>1
  <2>2. CASE time # silence
    <3>1. /\ candidate # None /\ candidate <= MaxSilence /\ candidate <= time
          /\ time - silence <= MaxSilence + MaxLag + (IF late THEN MaxSilence ELSE 0)
          BY <1>3, <2>2 DEF Unnoticed
    <3>2. candidate \in Int /\ time' - silence' = time - silence
          BY <1>4, <1>5, <1>6, <3>1, WrapAssumption DEF TypeOK, Timestamps
    <3>3. candidate <= time + 1
          BY <1>6, <3>1, <3>2
    <3> QED
        BY <1>1, <1>4, <3>1, <3>2, <3>3
  <2> QED
      BY <2>1, <2>2
<1>8. receivedAge' <= time' + MaxSilence
      BY <1>2, <1>3, <1>4, <1>6, Constants DEF Unnoticed
<1> QED
    BY <1>1, <1>3, <1>4, <1>5, <1>7, <1>8 DEF Unnoticed

LEMMA RestartRestart == ASSUME TypeOK, RestartInv, HighInv, Restart PROVE RestartInv'
<1>1. UNCHANGED <<highWater, receivedAge>> /\ time' = 0 /\ up' = 0 /\ silence' = 0
      BY DEF Restart
<1> SUFFICES ASSUME highWater # None, ~LongOutage PROVE Unnoticed'
    BY <1>1 DEF RestartInv, LongOutage, Restart
<1>2. /\ time \in Nat /\ time >= MinUptime /\ time < Wrap - MinUptime /\ up = MinUptime
      /\ receivedAge \in Nat /\ receivedAge <= MaxSilence
      BY Constants, WrapAssumption DEF Restart, TypeOK, Timestamps
<1>3. ~restarted
  <2>1. Unnoticed => up < MinUptime
        BY UnnoticedIsShort DEF Unnoticed
  <2> QED
      BY <1>2, <2>1, Constants DEF RestartInv
<1>4. PICK lag \in 0 .. receivedAge + MaxLate : highWater = (time - lag) % Wrap
      BY <1>3 DEF HighInv
<1>5. time - lag \in 0 .. Wrap - 1 /\ time - lag >= MinUptime - MaxLate - MaxSilence
      BY <1>2, Constants, TimingAssumption, WrapAssumption
<1>6. highWater = time - lag
      BY <1>4, <1>5, OwnStamp
<1>7. highWater >= MinUptime - MaxLate - MaxSilence /\ highWater < Wrap - MinUptime
      BY <1>2, <1>5, <1>6, Constants, WrapAssumption
<1> QED
    BY <1>1, <1>2, <1>7, Constants DEF Unnoticed

(* A restart that is not noticed was short ago. *)
LEMMA RestartNext ==
  ASSUME TypeOK, RestartInv, HighInv, RealTime, [Next]_vars
  PROVE  RestartInv'
<1>1. CASE \E kind \in Kinds : Receive(kind)
      BY <1>1, RestartReceive
<1>2. CASE Tick
      BY <1>2, RestartTick
<1>3. CASE Restart
      BY <1>3, RestartRestart
<1>4. CASE Activate
      BY <1>4 DEF Activate, RestartInv
<1>5. CASE UNCHANGED vars
      BY <1>5 DEF RestartInv, LongOutage, Unnoticed, vars, device, clock
<1> QED
    BY <1>1, <1>2, <1>3, <1>4, <1>5 DEF Next

-----------------------------------------------------------------------------
(* The high water.                                                         *)

(* A timestamp stands for its time in every difference. *)
LEMMA SubtractFromStamp ==
  ASSUME NEW t \in Int, NEW k \in Int
  PROVE  ((t % Wrap) - k) % Wrap = (t - k) % Wrap
<1> DEFINE s == t % Wrap
<1>1. s \in 0 .. Wrap - 1 /\ s \in Int
      BY Stamps, WrapAssumption
<1>2. s % Wrap = s
      BY <1>1, OwnStamp
<1>3. (s - (k % Wrap)) % Wrap = (t - k) % Wrap
      BY SubtractRemainders
<1> HIDE DEF s
<1>4. ((s % Wrap) - (k % Wrap)) % Wrap = (s - k) % Wrap
      BY <1>1, SubtractRemainders
<1> QED
    BY <1>2, <1>3, <1>4 DEF s

(* A log in order of this run is never out of place. *)
LEMMA InOrderInPlace ==
  ASSUME TypeOK, HighInv, ~restarted, NEW lag \in 0 .. MaxLag
  PROVE  ~OutOfPlace((time - lag) % Wrap)
<1> SUFFICES ASSUME highWater # None, ~LongOutage, OutOfPlace((time - lag) % Wrap) PROVE FALSE
    BY DEF OutOfPlace
<1> DEFINE ts == (time - lag) % Wrap
<1>1. PICK k \in 0 .. receivedAge + MaxLate :
        /\ highWater = (time - k) % Wrap
        /\ k <= receivedAge + MaxLag \/ highWater < MinUptime
      BY DEF HighInv
<1>2. /\ time \in Nat /\ receivedAge \in Nat /\ receivedAge <= Outage
      /\ k \in Nat /\ k <= receivedAge + MaxLate /\ lag \in Nat /\ lag <= MaxLag
      /\ highWater \in 0 .. Wrap - 1 /\ ts \in 0 .. Wrap - 1
  <2>1. time \in Nat /\ receivedAge \in Nat /\ receivedAge <= Outage /\ lag \in Nat /\ lag <= MaxLag
        BY Constants, WrapAssumption DEF TypeOK, Timestamps, LongOutage
  <2>2. time - lag \in Int
        BY <2>1
  <2>3. ts \in 0 .. Wrap - 1
        BY <2>2, Stamps
  <2> QED
      BY <1>1, <2>1, <2>3, Constants, WrapAssumption DEF TypeOK, Timestamps
<1>3. SignedDelta(ts, highWater) = k - lag
  <2>1. (time - lag) - (time - k) = k - lag /\ (time - k) - (time - lag) = lag - k
        BY <1>2
  <2>2. 2 * (k - lag) < Wrap /\ 2 * (lag - k) < Wrap
        BY <1>2, Constants, ClockAssumption, TimingAssumption, WrapAssumption
  <2>3. time - lag \in Int /\ time - k \in Int
        BY <1>2
  <2> HIDE DEF ts
  <2>4. SignedDelta((time - lag) % Wrap, (time - k) % Wrap) = k - lag
        BY <2>1, <2>2, <2>3, DeltaExact
  <2> QED
      BY <1>1, <2>4 DEF ts
<1> HIDE DEF ts
<1>4. ~(SignedDelta(ts, highWater) < -Slack)
      BY <1>2, <1>3, Constants, TimingAssumption
<1>5. ts < highWater /\ k - lag > receivedAge + Slack
      BY <1>3, <1>4 DEF ts, OutOfPlace, ImplausibleWrap
<1>6. highWater < MinUptime
      BY <1>1, <1>2, <1>5, Constants, TimingAssumption
<1>7. SignedDelta(ts, highWater) = ts - highWater
  <2> DEFINE d == ts - highWater
  <2>1. d + Wrap \in 0 .. Wrap - 1 /\ 2 * (d + Wrap) >= Wrap
        BY <1>2, <1>5, <1>6, Constants, TimingAssumption, WrapAssumption
  <2>2. (Wrap * (-1) + (d + Wrap)) % Wrap = d + Wrap
        BY <2>1, Remainder
  <2>3. Wrap * (-1) + (d + Wrap) = ts - highWater
        BY <1>2, WrapAssumption
  <2> QED
      BY <1>2, <2>1, <2>2, <2>3, DeltaBackward
<1> QED
    BY <1>2, <1>3, <1>5, <1>7, Constants

(* Nothing but a restart is taken for one. *)
LEMMA NoFalseRestart ==
  ASSUME TypeOK, HighInv, CandidateInv, ~restarted, NEW lag \in 0 .. MaxLate,
         lag <= MaxLag \/ (~late /\ Behind((time - lag) % Wrap))
  PROVE  Verdict((time - lag) % Wrap) # "restart"
<1> SUFFICES ASSUME OutOfPlace((time - lag) % Wrap), Confirms((time - lag) % Wrap) PROVE FALSE
    BY Verdicts
<1>1. late
      BY DEF OutOfPlace, Confirms, CandidateInv
<1>2. lag \in 0 .. MaxLag
      BY <1>1, Constants
<1> QED
    BY <1>2, InOrderInPlace

LEMMA HighReceive ==
  ASSUME TypeOK, RestartInv, HighInv, CandidateInv, NEW kind \in Kinds, Receive(kind)
  PROVE  HighInv'
<1>1. PICK lag \in 0 .. MaxLate :
        /\ lag <= up
        /\ Clocked(kind) => lag <= MaxLag \/ (~late /\ Behind((time - lag) % Wrap))
        /\ OnLog(kind, lag)
      BY DEF Receive
<1> DEFINE ts == (time - lag) % Wrap
           verdict == VerdictOf(kind, ts)
<1>2. Follow(ts, verdict)
      BY <1>1, OnLogFollows
<1>3. verdict \in {"unclocked", "outage", "follows", "restart", "held"}
      BY Verdicts
<1>4. time' = time
      BY DEF Receive
<1> SUFFICES ASSUME ~restarted', highWater' # None, ~LongOutage'
             PROVE  \E k \in 0 .. receivedAge' + MaxLate :
                      /\ highWater' = (time' - k) % Wrap
                      /\ k <= receivedAge' + MaxLag \/ highWater' < MinUptime
    BY DEF HighInv
<1>5. CASE verdict = "held" \/ verdict = "unclocked" \/ (verdict = "follows" /\ Behind(ts))
  <2> HIDE DEF ts, verdict
  <2>1. UNCHANGED <<highWater, receivedAge, restarted>>
        BY <1>2, <1>5, FollowCases
  <2>2. ~restarted /\ ~LongOutage /\ highWater # None
        BY <2>1 DEF LongOutage
  <2>3. PICK k \in 0 .. receivedAge + MaxLate :
          /\ highWater = (time - k) % Wrap
          /\ k <= receivedAge + MaxLag \/ highWater < MinUptime
        BY <2>2 DEF HighInv
  <2> QED
      BY <1>4, <2>1, <2>3
<1>6. CASE verdict # "held" /\ verdict # "unclocked" /\ ~(verdict = "follows" /\ Behind(ts))
  <2>1. highWater' = ts /\ receivedAge' = 0
    <3> HIDE DEF ts, verdict
    <3> QED
        BY <1>2, <1>6, FollowCases, Zenon
  <2>2. lag \in 0 .. receivedAge' + MaxLate /\ ts = (time' - lag) % Wrap
        BY <1>4, <2>1, Constants
  <2>3. lag <= MaxLag \/ ts < MinUptime
    <3>1. Clocked(kind)
          BY <1>6, Verdicts
    <3>2. CASE lag <= MaxLag
          BY <3>2
    <3>3. CASE Behind(ts)
      <4>1. ~LongOutage /\ highWater # None
            BY <3>3 DEF Behind
      <4>2. verdict = "restart" /\ Verdict(ts) = "restart"
            BY <1>3, <1>6, <3>1, <3>3, <4>1, Verdicts
      <4>3. restarted
            BY <1>1, <3>1, <4>2, NoFalseRestart
      <4> QED
          BY <1>1, <4>1, <4>3, UnnoticedIsShort, UnnoticedStamp, Constants DEF RestartInv
    <3> QED
        BY <1>1, <3>1, <3>2, <3>3
  <2> QED
      BY <2>1, <2>2, <2>3, Constants
<1> QED
    BY <1>3, <1>5, <1>6

LEMMA HighTick == ASSUME TypeOK, HighInv, Tick PROVE HighInv'
<1> SUFFICES ASSUME ~restarted', highWater' # None, ~LongOutage'
             PROVE  \E k \in 0 .. receivedAge' + MaxLate :
                      /\ highWater' = (time' - k) % Wrap
                      /\ k <= receivedAge' + MaxLag \/ highWater' < MinUptime
    BY DEF HighInv
<1>1. UNCHANGED <<highWater, restarted>> /\ time' = (time + 1) % Wrap
      BY DEF Tick
<1>2. receivedAge \in Nat /\ receivedAge <= Outage /\ receivedAge' = receivedAge + 1
      BY <1>1, TickAge
<1>3. PICK k \in 0 .. receivedAge + MaxLate :
        /\ highWater = (time - k) % Wrap
        /\ k <= receivedAge + MaxLag \/ highWater < MinUptime
      BY <1>1, <1>2, Constants DEF HighInv, LongOutage
<1>4. time \in Int /\ k \in Int /\ k + 1 \in 0 .. receivedAge' + MaxLate
      BY <1>2, Constants, WrapAssumption DEF TypeOK, Timestamps
<1>5. highWater' = (time' - (k + 1)) % Wrap
  <2>1. (((time + 1) % Wrap) - (k + 1)) % Wrap = ((time + 1) - (k + 1)) % Wrap
        BY <1>4, SubtractFromStamp
  <2>2. (time + 1) - (k + 1) = time - k
        BY <1>4
  <2> QED
      BY <1>1, <1>3, <2>1, <2>2
<1>6. k + 1 <= receivedAge' + MaxLag \/ highWater' < MinUptime
      BY <1>1, <1>2, <1>3, <1>4, Constants
<1> QED
    BY <1>4, <1>5, <1>6

LEMMA HighNext ==
  ASSUME TypeOK, RestartInv, HighInv, CandidateInv, [Next]_vars
  PROVE  HighInv'
<1>1. CASE \E kind \in Kinds : Receive(kind)
      BY <1>1, HighReceive
<1>2. CASE Tick
      BY <1>2, HighTick
<1>3. CASE Restart
      BY <1>3 DEF Restart, HighInv
<1>4. CASE Activate
      BY <1>4 DEF Activate, HighInv
<1>5. CASE UNCHANGED vars
      BY <1>5 DEF HighInv, LongOutage, vars, device, clock
<1> QED
    BY <1>1, <1>2, <1>3, <1>4, <1>5 DEF Next

LEMMA CandidateReceive ==
  ASSUME TypeOK, RestartInv, HighInv, CandidateInv, NEW kind \in Kinds, Receive(kind)
  PROVE  CandidateInv'
<1>1. PICK lag \in 0 .. MaxLate :
        /\ lag <= up
        /\ Clocked(kind) => lag <= MaxLag \/ (~late /\ Behind((time - lag) % Wrap))
        /\ late' = IF Clocked(kind) /\ lag \notin 1 .. MaxLag THEN lag # 0 ELSE late
        /\ OnLog(kind, lag)
      BY DEF Receive
<1> DEFINE ts == (time - lag) % Wrap
           verdict == VerdictOf(kind, ts)
<1>2. Follow(ts, verdict)
      BY <1>1, OnLogFollows
<1>3. verdict \in {"unclocked", "outage", "follows", "restart", "held"}
      BY Verdicts
<1> SUFFICES ASSUME candidate' # None, ~restarted', ~LongOutage' PROVE late'
    BY DEF CandidateInv
<1>4. /\ verdict = "held" \/ verdict = "unclocked" \/ (verdict = "follows" /\ Behind(ts))
      /\ UNCHANGED <<highWater, receivedAge, restarted>>
  <2> HIDE DEF ts, verdict
  <2> QED
      BY <1>2, <1>3, FollowCases, Zenon
<1>5. ~restarted /\ ~LongOutage
      BY <1>4 DEF LongOutage
<1>6. CASE verdict = "held"
  <2>1. Clocked(kind) /\ OutOfPlace(ts)
        BY <1>6, Verdicts
  <2>2. lag \notin 0 .. MaxLag
        BY <1>5, <2>1, InOrderInPlace
  <2>3. lag \notin 1 .. MaxLag /\ lag # 0
        BY <2>2, Constants
  <2> QED
      BY <1>1, <2>1, <2>3, Zenon
<1>7. CASE verdict = "unclocked"
  <2>1. ~Clocked(kind)
        BY <1>7, Verdicts
  <2> HIDE DEF ts, verdict
  <2>2. candidate' = candidate
        BY <1>2, <1>7, FollowCases, Zenon
  <2> QED
      BY <1>1, <1>5, <2>1, <2>2, Zenon DEF CandidateInv
<1>8. CASE verdict = "follows" /\ Behind(ts)
  <2>1. lag # 0
    <3> SUFFICES ASSUME lag = 0 PROVE FALSE
        OBVIOUS
    <3>1. highWater # None /\ SignedDelta(ts, highWater) < 0
          BY <1>8 DEF Behind
    <3>2. PICK k \in 0 .. receivedAge + MaxLate : highWater = (time - k) % Wrap
          BY <1>5, <3>1 DEF HighInv
    <3>3. /\ time \in Nat /\ k \in Nat /\ lag \in Int
          /\ 2 * k < Wrap /\ lag = 0 /\ k >= 0
          BY <1>5, <3>1, Constants, TimingAssumption, WrapAssumption DEF TypeOK, Timestamps, LongOutage
    <3>4. SignedDelta((time - lag) % Wrap, (time - k) % Wrap) = k
      <4>1. time - lag \in Int /\ time - k \in Int
            BY <3>3
      <4>2. (time - lag) - (time - k) = k /\ (time - k) - (time - lag) = -k
            BY <3>3
      <4>3. 2 * k < Wrap /\ 2 * (-k) < Wrap
            BY <3>3, WrapAssumption
      <4> QED
          BY <4>1, <4>2, <4>3, DeltaExact
    <3> QED
        BY <3>1, <3>2, <3>3, <3>4
  <2> HIDE DEF ts, verdict
  <2>2. candidate' = candidate
        BY <1>2, <1>8, FollowCases, Zenon
  <2> QED
      BY <1>1, <1>5, <2>1, <2>2, Zenon DEF CandidateInv
<1> QED
    BY <1>4, <1>6, <1>7, <1>8

LEMMA CandidateNext ==
  ASSUME TypeOK, RestartInv, HighInv, CandidateInv, [Next]_vars
  PROVE  CandidateInv'
<1>1. CASE \E kind \in Kinds : Receive(kind)
      BY <1>1, CandidateReceive
<1>2. CASE Tick
  <2>1. UNCHANGED <<late, highWater, candidate, restarted>>
        BY <1>2 DEF Tick
  <2>2. ~LongOutage' => ~LongOutage
        BY <1>2, <2>1, TickAge, Constants DEF LongOutage
  <2> QED
      BY <2>1, <2>2, Zenon DEF CandidateInv
<1>3. CASE Restart
  <2>1. UNCHANGED <<late, highWater, receivedAge, candidate>> /\ restarted' = (highWater # None)
        BY <1>3 DEF Restart
  <2>2. candidate # None /\ highWater = None => late
        BY DEF CandidateInv, RestartInv, LongOutage
  <2> QED
      BY <2>1, <2>2 DEF CandidateInv
<1>4. CASE Activate
      BY <1>4 DEF Activate, CandidateInv
<1>5. CASE UNCHANGED vars
      BY <1>5 DEF CandidateInv, LongOutage, vars, device, clock
<1> QED
    BY <1>1, <1>2, <1>3, <1>4, <1>5 DEF Next

-----------------------------------------------------------------------------
(* The UTC anchor.                                                         *)

(* What handling a log keeps: only an outage or a restart ends the quarantine, *)
(* and the clock always has a high water after a log that tells the time.  *)
LEMMA FollowKeeps ==
  ASSUME TypeOK, NEW ts \in Timestamps, NEW kind, Follow(ts, VerdictOf(kind, ts)),
         VerdictOf(kind, ts) \notin {"outage", "restart"}
  PROVE  /\ highWater # None => highWater' # None /\ restarted' = restarted
         /\ Clocked(kind) => highWater' # None
<1> DEFINE verdict == VerdictOf(kind, ts)
<1>1. verdict \in {"unclocked", "follows", "held"} /\ (verdict = "unclocked" <=> ~Clocked(kind))
      BY Verdicts
<1>2. verdict = "held" => highWater # None
      BY Verdicts DEF OutOfPlace
<1>3. Behind(ts) => highWater # None
      BY DEF Behind
<1>4. ts # None /\ restarted \in BOOLEAN
      BY ClockAssumption, WrapAssumption DEF Timestamps, TypeOK
<1> HIDE DEF verdict
<1>5. Follow(ts, verdict)
      BY DEF verdict
<1>6. CASE verdict = "held" \/ verdict = "unclocked" \/ (verdict = "follows" /\ Behind(ts))
  <2>1. UNCHANGED <<highWater, restarted>>
        BY <1>5, <1>6, FollowCases, Zenon
  <2> QED
      BY <1>1, <1>2, <1>3, <1>6, <2>1, Zenon
<1>7. CASE verdict = "follows" /\ ~Behind(ts)
  <2>1. highWater' = ts /\ restarted' = (restarted /\ verdict = "follows" /\ highWater # None)
    <3>1. verdict # "held" /\ verdict # "unclocked" /\ ~(verdict = "follows" /\ Behind(ts))
          BY <1>7
    <3> QED
        BY <1>5, <3>1, FollowCases, Zenon
  <2> QED
      BY <1>4, <1>7, <2>1, Zenon
<1> QED
    BY <1>1, <1>6, <1>7

LEMMA AnchorReceive ==
  ASSUME TypeOK, AnchorInv, NEW kind \in Kinds, Receive(kind)
  PROVE  AnchorInv'
<1>1. PICK lag \in 0 .. MaxLate : OnLog(kind, lag)
      BY DEF Receive
<1> DEFINE ts == (time - lag) % Wrap
           verdict == VerdictOf(kind, ts)
           reference == Revoked(kind, verdict)
<1>2. Follow(ts, verdict)
      BY <1>1, OnLogFollows
<1>3. ts \in Timestamps
  <2>1. time - lag \in Int
        BY Constants, WrapAssumption DEF TypeOK, Timestamps
  <2> QED
      BY <2>1, Stamps DEF Timestamps
<1>4. time' = time
      BY DEF Receive
<1> SUFFICES ASSUME anchor' # None
             PROVE  /\ highWater' # None
                    /\ anchor'.lost => restarted'
                    /\ ~anchor'.lost /\ anchorAge' <= UtcTimeout =>
                         /\ anchor'.age <= anchorAge' + MaxLate
                         /\ anchor'.ts = (time' - anchor'.age) % Wrap
    BY DEF AnchorInv
<1>5. \/ /\ kind = "utc" /\ verdict # "held"
         /\ anchor' = [ts |-> ts, age |-> lag, lost |-> FALSE] /\ anchorAge' = 0
      \/ anchor' = reference /\ anchorAge' = anchorAge
      \/ anchor' = Unexpired(reference) /\ anchorAge' = anchorAge
  <2> HIDE DEF ts, verdict, reference
  <2> QED
      BY <1>1, OnLogStamps DEF ts, verdict, reference
<1>6. CASE /\ kind = "utc"
           /\ anchor' = [ts |-> ts, age |-> lag, lost |-> FALSE] /\ anchorAge' = 0
  <2>1. highWater' # None
    <3>1. Clocked(kind)
          BY <1>6 DEF Clocked, CurrentKinds
    <3>2. CASE verdict \in {"outage", "restart"}
      <4>1. ts # None
            BY <1>3, ClockAssumption, WrapAssumption DEF Timestamps
      <4> HIDE DEF ts, verdict
      <4> QED
          BY <1>2, <3>2, <4>1, FollowCases
    <3>3. CASE verdict \notin {"outage", "restart"}
          BY <1>2, <1>3, <3>1, <3>3, FollowKeeps
    <3> QED
        BY <3>2, <3>3
  <2> QED
      BY <1>4, <1>6, <2>1, Constants
<1>7. CASE anchor' \in {reference, Unexpired(reference)} /\ anchorAge' = anchorAge
  <2>1. anchor' = anchor /\ verdict \notin {"outage", "restart"}
    <3> HIDE DEF ts, verdict
    <3> QED
        BY <1>7 DEF Revoked, Unexpired
  <2>2. highWater # None
        BY <2>1 DEF AnchorInv
  <2>3. highWater' # None /\ restarted' = restarted
        BY <1>2, <1>3, <2>1, <2>2, FollowKeeps
  <2> QED
      BY <1>4, <1>7, <2>1, <2>3 DEF AnchorInv
<1> QED
    BY <1>5, <1>6, <1>7

LEMMA AnchorTick == ASSUME TypeOK, AnchorInv, Tick PROVE AnchorInv'
<1> SUFFICES ASSUME anchor # None
             PROVE  /\ highWater' # None
                    /\ anchor'.lost => restarted'
                    /\ ~anchor'.lost /\ anchorAge' <= UtcTimeout =>
                         /\ anchor'.age <= anchorAge' + MaxLate
                         /\ anchor'.ts = (time' - anchor'.age) % Wrap
    BY DEF AnchorInv, Tick
<1>1. /\ anchor \in Utc /\ anchor' = [anchor EXCEPT !.age = Older(@, Wrap)]
      /\ UNCHANGED <<highWater, restarted>> /\ time' = (time + 1) % Wrap
      BY DEF TypeOK, Tick
<1>2. anchor'.lost = anchor.lost /\ anchor'.ts = anchor.ts /\ anchor'.age = Older(anchor.age, Wrap)
      BY <1>1 DEF Utc
<1>3. ASSUME ~anchor.lost, anchorAge' <= UtcTimeout
      PROVE  /\ anchor'.age <= anchorAge' + MaxLate
             /\ anchor'.ts = (time' - anchor'.age) % Wrap
  <2>1. anchorAge \in Nat /\ anchorAge <= UtcTimeout /\ anchorAge' = anchorAge + 1
    <3>1. anchorAge \in 0 .. UtcTimeout + 1 /\ anchorAge' = Older(anchorAge, UtcTimeout + 1)
          BY DEF TypeOK, Tick
    <3> QED
        BY <1>3, <3>1, Constants DEF Older
  <2>2. anchor.age <= anchorAge + MaxLate /\ anchor.ts = (time - anchor.age) % Wrap
        BY <1>3, <2>1 DEF AnchorInv
  <2>3. anchor.age \in Nat /\ anchor'.age = anchor.age + 1
    <3>1. anchor.age \in 0 .. Wrap /\ anchor.age < Wrap
          BY <1>1, <2>1, <2>2, Constants, TimingAssumption, WrapAssumption DEF Utc
    <3> QED
        BY <1>2, <3>1, WrapAssumption DEF Older
  <2>4. time \in Int /\ anchor.age + 1 \in Int /\ (time + 1) - (anchor.age + 1) = time - anchor.age
        BY <2>3, WrapAssumption DEF TypeOK, Timestamps
  <2>5. (((time + 1) % Wrap) - (anchor.age + 1)) % Wrap = ((time + 1) - (anchor.age + 1)) % Wrap
    <3> DEFINE t == time + 1
               k == anchor.age + 1
    <3>1. t \in Int /\ k \in Int
          BY <2>4
    <3> HIDE DEF t, k
    <3>2. ((t % Wrap) - k) % Wrap = (t - k) % Wrap
          BY <3>1, SubtractFromStamp
    <3> QED
        BY <3>2 DEF t, k
  <2> QED
      BY <1>1, <1>2, <2>1, <2>2, <2>3, <2>4, <2>5, Constants
<1> QED
    BY <1>1, <1>2, <1>3 DEF AnchorInv

LEMMA AnchorNext == ASSUME TypeOK, AnchorInv, [Next]_vars PROVE AnchorInv'
<1>1. CASE \E kind \in Kinds : Receive(kind)
      BY <1>1, AnchorReceive
<1>2. CASE Tick
      BY <1>2, AnchorTick
<1>3. CASE Restart
  <2>1. /\ anchor' = IF anchor = None THEN None ELSE [anchor EXCEPT !.lost = TRUE]
        /\ restarted' = (highWater # None) /\ highWater' = highWater
        BY <1>3 DEF Restart
  <2>2. anchor' # None => anchor'.lost /\ highWater # None
        BY <2>1 DEF TypeOK, Utc, AnchorInv
  <2> QED
      BY <2>1, <2>2 DEF AnchorInv
<1>4. CASE Activate
      BY <1>4 DEF Activate, AnchorInv
<1>5. CASE UNCHANGED vars
      BY <1>5 DEF AnchorInv, vars, device, clock
<1> QED
    BY <1>1, <1>2, <1>3, <1>4, <1>5 DEF Next

-----------------------------------------------------------------------------
(* What a log of the new run meets, and what the stamps rest on.           *)

LEMMA NewRunVerdict ==
  ASSUME TypeOK, RestartInv, RealTime, restarted, NEW kind, Clocked(kind),
         NEW lag \in 0 .. MaxLate, lag <= up
  PROVE  VerdictOf(kind, (time - lag) % Wrap) \in {"held", "restart", "outage"}
<1>1. CASE LongOutage
      BY <1>1, Verdicts
<1>2. CASE ~LongOutage
      BY <1>2, NewRunOutOfPlace, Verdicts DEF RestartInv
<1> QED
    BY <1>1, <1>2

LEMMA StampsNext ==
  ASSUME TypeOK, RestartInv, AnchorInv, StampsAreTrue, RealTime, [Next]_vars
  PROVE  StampsAreTrue'
<1>1. ASSUME NEW kind \in Kinds, Receive(kind) PROVE StampsAreTrue'
  <2>1. PICK lag \in 0 .. MaxLate : lag <= up /\ OnLog(kind, lag)
        BY <1>1 DEF Receive
  <2> DEFINE ts == (time - lag) % Wrap
             verdict == VerdictOf(kind, ts)
             usable == Unexpired(Revoked(kind, verdict))
  <2> SUFFICES ASSUME stamp' = "wrong" PROVE FALSE
      BY DEF StampsAreTrue
  <2>2. verdict # "held" /\ Stamped(usable, ts, lag, Clocked(kind)) = "wrong"
    <3> DEFINE reference == Revoked(kind, verdict)
    <3>1. usable = Unexpired(reference)
          OBVIOUS
    <3> HIDE DEF ts, verdict, reference, usable
    <3> QED
        BY <2>1, <3>1, OnLogStamps, Zenon DEF ts, verdict, reference
  <2>3. /\ usable # None /\ Clocked(kind)
        /\ DeviceStamp(usable, ts) # None
        /\ usable.lost \/ DeviceStamp(usable, ts) # usable.age - lag
    <3> HIDE DEF usable, ts
    <3> QED
        BY <2>2, Zenon DEF Stamped
  <2>4. usable = anchor /\ ~(anchorAge > UtcTimeout) /\ verdict \notin {"outage", "restart"}
    <3> HIDE DEF ts, verdict
    <3> QED
        BY <2>3 DEF Revoked, Unexpired
  <2>5. ~restarted
        BY <2>1, <2>2, <2>3, <2>4, NewRunVerdict
  <2>6. ~anchor.lost
        BY <2>3, <2>4, <2>5 DEF AnchorInv
  <2>7. /\ anchor \in Utc /\ anchorAge \in Nat /\ anchorAge <= UtcTimeout
        /\ time \in Int /\ lag \in Nat /\ lag <= MaxLate /\ anchor.age \in Nat
        BY <2>3, <2>4, Constants, WrapAssumption DEF TypeOK, Timestamps, Utc
  <2>8. anchor.age <= UtcTimeout + MaxLate /\ anchor.ts = (time - anchor.age) % Wrap
        BY <2>3, <2>4, <2>6, <2>7, Constants DEF AnchorInv
  <2>9. SignedDelta(ts, anchor.ts) = anchor.age - lag
    <3>1. time - lag \in Int /\ time - anchor.age \in Int
          BY <2>7
    <3>2. /\ (time - lag) - (time - anchor.age) = anchor.age - lag
          /\ (time - anchor.age) - (time - lag) = lag - anchor.age
          BY <2>7
    <3>3. 2 * (anchor.age - lag) < Wrap /\ 2 * (lag - anchor.age) < Wrap
          BY <2>7, <2>8, Constants, TimingAssumption, WrapAssumption
    <3>4. SignedDelta((time - lag) % Wrap, (time - anchor.age) % Wrap) = anchor.age - lag
          BY <3>1, <3>2, <3>3, DeltaExact
    <3> QED
        BY <2>8, <3>4
  <2>10. DeviceStamp(anchor, ts) \in {None, anchor.age - lag}
    <3> HIDE DEF ts
    <3> QED
        BY <2>9 DEF DeviceStamp
  <2> QED
      BY <2>3, <2>4, <2>6, <2>10
<1>2. CASE Tick \/ Restart \/ Activate \/ UNCHANGED vars
      BY <1>2 DEF Tick, Restart, Activate, vars, StampsAreTrue
<1> QED
    BY <1>1, <1>2 DEF Next

LEMMA IInvNext == ASSUME RealTime PROVE IInv /\ [Next]_vars => IInv'
<1> SUFFICES ASSUME IInv, [Next]_vars PROVE IInv'
    OBVIOUS
<1> QED
    BY TypeNext, RestartNext, HighNext, CandidateNext, AnchorNext, StampsNext DEF IInv

-----------------------------------------------------------------------------

(* Outside of an accelerated replay: no stamp from the UTC anchor is off,  *)
(* across wraps, outages and restarts (stamp_for, device_stamp_ns).        *)
THEOREM StampsHold == ASSUME RealTime PROVE Spec => []StampsAreTrue
<1>1. Init => IInv
      BY InitIInv
<1>2. IInv /\ [Next]_vars => IInv'
      BY IInvNext
<1>3. IInv => StampsAreTrue
      BY DEF IInv
<1> QED
    BY <1>1, <1>2, <1>3, PTL DEF Spec

(* A restart is noticed soon (observe_device_clock).                       *)
THEOREM RestartIsNoticed == ASSUME RealTime PROVE Spec => []NoticedSoon
<1>1. Init => IInv
      BY InitIInv
<1>2. IInv /\ [Next]_vars => IInv'
      BY IInvNext
<1>3. IInv => NoticedSoon
  <2> SUFFICES ASSUME IInv, restarted, ~LongOutage PROVE receivedAge <= Patience
      BY DEF NoticedSoon
  <2>1. receivedAge \in Nat /\ receivedAge <= 4 * MaxSilence + MaxLag
        BY UnnoticedIsShort DEF IInv, RestartInv
  <2> QED
      BY <2>1, Constants, TimingAssumption
<1> QED
    BY <1>1, <1>2, <1>3, PTL DEF Spec

(* No log of the new run passes the quarantine while the caches hold the   *)
(* old one (observe_device_clock).                                         *)
THEOREM RunsAreApart == ASSUME RealTime PROVE Spec => OneRun
<1>1. Init => IInv
      BY InitIInv
<1>2. IInv /\ [Next]_vars => IInv'
      BY IInvNext
<1>3. ASSUME IInv, NEW kind \in Kinds, Receive(kind), Clocked(kind), restarted
      PROVE  stamp' = "held" \/ cleared' # "no"
  <2>1. PICK lag \in 0 .. MaxLate : lag <= up /\ OnLog(kind, lag)
        BY <1>3 DEF Receive
  <2> DEFINE ts == (time - lag) % Wrap
             verdict == VerdictOf(kind, ts)
  <2>2. verdict \in {"held", "restart", "outage"}
        BY <1>3, <2>1, NewRunVerdict DEF IInv
  <2>3. Follow(ts, verdict)
        BY <2>1, OnLogFollows
  <2>4. verdict = "held" => stamp' = "held"
    <3> HIDE DEF ts, verdict
    <3> QED
        BY <2>1, OnLogStamps, Zenon DEF ts, verdict
  <2> HIDE DEF ts, verdict
  <2>5. verdict \in {"outage", "restart"} => cleared' = verdict
        BY <2>3, FollowCases, Zenon
  <2> QED
      BY <2>2, <2>4, <2>5
<1>4. IInv /\ [Next]_vars =>
        [ \A kind \in Kinds : Receive(kind) /\ Clocked(kind) /\ restarted =>
            stamp' = "held" \/ cleared' # "no" ]_vars
      BY <1>3
<1> QED
    BY <1>1, <1>2, <1>4, PTL DEF Spec, OneRun

(* Neither a late log nor a wrap is taken for a restart                    *)
(* (observe_device_clock).                                                 *)
THEOREM RestartsAreReal == ASSUME RealTime PROVE Spec => OnlyRestartsConfirm
<1>1. Init => IInv
      BY InitIInv
<1>2. IInv /\ [Next]_vars => IInv'
      BY IInvNext
<1>3. ASSUME IInv, NEW kind \in Kinds, Receive(kind), cleared' = "restart"
      PROVE  restarted
  <2>1. PICK lag \in 0 .. MaxLate :
          /\ Clocked(kind) => lag <= MaxLag \/ (~late /\ Behind((time - lag) % Wrap))
          /\ OnLog(kind, lag)
        BY <1>3 DEF Receive
  <2> DEFINE ts == (time - lag) % Wrap
             verdict == VerdictOf(kind, ts)
  <2>2. Follow(ts, verdict)
        BY <2>1, OnLogFollows
  <2>3. verdict = "restart"
    <3> HIDE DEF ts, verdict
    <3> QED
        BY <1>3, <2>2, FollowCases
  <2>4. Clocked(kind) /\ Verdict(ts) = "restart"
        BY <2>3, Verdicts
  <2> QED
      BY <1>3, <2>1, <2>4, NoFalseRestart DEF IInv
<1>4. IInv /\ [Next]_vars => [cleared' = "restart" /\ cleared # "restart" => restarted]_vars
  <2> SUFFICES ASSUME IInv, Next, cleared' = "restart", cleared # "restart" PROVE restarted
      OBVIOUS
  <2>1. ~Tick /\ ~Restart /\ ~Activate
        BY DEF Tick, Restart, Activate
  <2> QED
      BY <1>3, <2>1 DEF Next
<1> QED
    BY <1>1, <1>2, <1>4, PTL DEF Spec, OnlyRestartsConfirm

=============================================================================
