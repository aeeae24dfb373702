-------------------------- MODULE OutputRateProofs --------------------------
(***************************************************************************)
(* Proofs about OutputRate, for every wrap, period, early allowance and    *)
(* delay: the unwrapped timeline is exact, and a topic is published at its *)
(* rate.  The bounds on the rate hold of any sample times, so they do not  *)
(* rest on the timeline.                                                   *)
(***************************************************************************)
EXTENDS OutputRate, TLAPS

-----------------------------------------------------------------------------
(* Timestamps.  The signed difference of two of them is the difference of  *)
(* the times they stand for, as long as these are less than half a wrap    *)
(* apart.                                                                  *)

(* A timestamp reduced modulo the wrap is a timestamp. *)
LEMMA Stamps == \A t \in Int : t % Wrap \in 0 .. (Wrap - 1)
BY WrapAssumption

(* The signed difference of two timestamps is an integer. *)
LEMMA DeltaType == ASSUME NEW a \in Int, NEW b \in Int PROVE SignedDelta(a, b) \in Int
<1>1. (a - b) % Wrap \in Int
  BY Stamps, WrapAssumption
<1> QED
  BY <1>1, WrapAssumption DEF SignedDelta

(* Division with remainder, and its uniqueness. *)
LEMMA Division ==
  ASSUME NEW x \in Int
  PROVE  /\ x = Wrap * (x \div Wrap) + (x % Wrap)
         /\ x \div Wrap \in Int /\ x % Wrap \in 0 .. (Wrap - 1)
BY WrapAssumption

(* A number written as quotient and remainder has that remainder. *)
LEMMA Remainder ==
  ASSUME NEW q \in Int, NEW r \in 0 .. (Wrap - 1)
  PROVE  (Wrap * q + r) % Wrap = r
BY WrapAssumption

(* The difference of two numbers, from their quotients and remainders. *)
LEMMA Difference ==
  ASSUME NEW a \in Int, NEW b \in Int, NEW ra \in Int, NEW rb \in Int, NEW r \in Int,
         NEW p \in Int, NEW q \in Int, NEW k \in Int,
         a = Wrap * p + ra, b = Wrap * q + rb, ra - rb = Wrap * k + r
  PROVE  a - b = Wrap * (p - q + k) + r
<1>1. Wrap * (p - q + k) = Wrap * p - Wrap * q + Wrap * k
  BY WrapAssumption
<1> QED
  BY <1>1, WrapAssumption

(* Remainders may be subtracted in place of the numbers. *)
LEMMA SubtractRemainders ==
  ASSUME NEW a \in Int, NEW b \in Int
  PROVE  ((a % Wrap) - (b % Wrap)) % Wrap = (a - b) % Wrap
<1> DEFINE p == a \div Wrap
           q == b \div Wrap
           x == (a % Wrap) - (b % Wrap)
           k == x \div Wrap
<1>1. a = Wrap * p + (a % Wrap) /\ p \in Int /\ a % Wrap \in Int
  BY Division, WrapAssumption
<1>2. b = Wrap * q + (b % Wrap) /\ q \in Int /\ b % Wrap \in Int
  BY Division, WrapAssumption
<1>3. x = Wrap * k + (x % Wrap) /\ k \in Int /\ x % Wrap \in 0 .. (Wrap - 1)
  BY <1>1, <1>2, Division, WrapAssumption
<1> HIDE DEF p, q, k
<1>4. a - b = Wrap * (p - q + k) + (x % Wrap)
  <2> HIDE DEF x
  <2>1. x % Wrap \in Int
    BY <1>3, WrapAssumption
  <2>2. (a % Wrap) - (b % Wrap) = Wrap * k + (x % Wrap)
    BY <1>3, Zenon DEF x
  <2> QED
    BY <1>1, <1>2, <1>3, <2>1, <2>2, Difference
<1>5. p - q + k \in Int
  BY <1>1, <1>2, <1>3
<1>6. (Wrap * (p - q + k) + (x % Wrap)) % Wrap = x % Wrap
  BY <1>3, <1>5, Remainder
<1> QED
  BY <1>4, <1>6

(* The two cases of the signed difference: forwards, as it comes, *)
LEMMA DeltaForward ==
  ASSUME NEW x \in Int, NEW y \in Int, NEW d \in Int, (x - y) % Wrap = d, 2 * d < Wrap
  PROVE  SignedDelta(x, y) = d
BY WrapAssumption DEF SignedDelta

(* and backwards, where the difference comes out one wrap too large. *)
LEMMA DeltaBackward ==
  ASSUME NEW x \in Int, NEW y \in Int, NEW d \in Int,
         (x - y) % Wrap = d + Wrap, 2 * (d + Wrap) >= Wrap
  PROVE  SignedDelta(x, y) = d
BY WrapAssumption DEF SignedDelta

(* timestamps is the difference of the times.                              *)
LEMMA DeltaExact ==
  ASSUME NEW a \in Int, NEW b \in Int, 2 * (a - b) < Wrap, 2 * (b - a) < Wrap
  PROVE  SignedDelta(a % Wrap, b % Wrap) = a - b
<1>1. a % Wrap \in Int /\ b % Wrap \in Int /\ a - b \in Int
  BY Division, WrapAssumption
<1>2. ((a % Wrap) - (b % Wrap)) % Wrap = (a - b) % Wrap
  BY SubtractRemainders
<1>3. CASE a >= b
  <2>1. (Wrap * 0 + (a - b)) % Wrap = a - b
    BY <1>3, Remainder, WrapAssumption
  <2>2. (a - b) % Wrap = a - b
    BY <2>1, WrapAssumption
  <2>3. ((a % Wrap) - (b % Wrap)) % Wrap = a - b
    BY <1>2, <2>2
  <2>4. 2 * (a - b) < Wrap
    OBVIOUS
  <2> QED
    BY <1>1, <2>3, <2>4, DeltaForward, Zenon
<1>4. CASE a < b
  <2>1. (Wrap * (-1) + (a - b + Wrap)) % Wrap = a - b + Wrap
    BY <1>4, Remainder, WrapAssumption
  <2>2. (a - b) % Wrap = a - b + Wrap
    BY <2>1, WrapAssumption
  <2>3. ((a % Wrap) - (b % Wrap)) % Wrap = a - b + Wrap
    BY <1>2, <2>2
  <2>4. 2 * (a - b + Wrap) >= Wrap
    BY WrapAssumption
  <2> QED
    BY <1>1, <2>3, <2>4, DeltaBackward, Zenon
<1> QED
  BY <1>3, <1>4

-----------------------------------------------------------------------------

(* The limiter has a deadline as soon as it has published. *)
StartedInv == published = 0 <=> lastSeen = None
SentInv == published > 0 => first \in Int /\ lastSent \in Int

(* The timeline stands at the latest measurement, which is not far behind. *)
TimelineInv ==
  highWater # None =>
    /\ newest \in Int /\ newest <= now
    /\ \E delay \in Delays : now <= newest + delay
    /\ extended + base = newest
    /\ highWater = newest % Wrap

(* One step of the topic's limiter, for a sample anywhere on the timeline. *)
Limiter == (\E sample \in Int : Allow(sample)) \/ (UNCHANGED limiter /\ Refuse)

Bounds == StartedInv /\ SentInv /\ AverageRate /\ NeverHalved /\ NoCatchUp

IInv == TypeOK /\ TimelineInv /\ Bounds

-----------------------------------------------------------------------------
(* One more period. *)
LEMMA NextPeriod == \A n \in Nat : (n + 1) * Period = n * Period + Period
BY RateAssumption

LEMMA PeriodsType == \A n \in Nat : n * Period \in Nat
BY RateAssumption

(* Receiving a log leaves a well-formed timeline, and a sample time on it. *)
LEMMA ReceiveType ==
  ASSUME TypeOK, NEW time \in Nat, NEW delay \in Delays, Receive(time, delay)
  PROVE  /\ now' \in Nat
         /\ highWater' \in 0 .. (Wrap - 1) /\ extended' \in Int
         /\ base' \in Int /\ newest' \in Int
         /\ Resolve((time - delay) % Wrap) \in Int
<1> DEFINE stamp == (time - delay) % Wrap
<1>1. delay \in Nat /\ time - delay \in Int /\ now' \in Nat
  BY RateAssumption DEF Receive
<1>2. stamp \in 0 .. (Wrap - 1)
  BY <1>1, Stamps
<1>3. stamp \in Int
  BY <1>2, RateAssumption
<1>4. highWater' \in 0 .. (Wrap - 1) /\ extended' \in Int
  <2>1. Observe(stamp)
    BY DEF Receive
  <2>2. CASE highWater = None
    BY <1>2, <1>3, <2>1, <2>2 DEF Observe
  <2>3. CASE highWater # None
    <3>1. highWater \in 0 .. (Wrap - 1) /\ SignedDelta(stamp, highWater) \in Int
      BY <1>3, <2>3, DeltaType, RateAssumption DEF TypeOK
    <3> HIDE DEF stamp
    <3> QED
      BY <1>2, <2>1, <2>3, <3>1 DEF Observe, TypeOK, unwrapper
  <2> QED
    BY <2>2, <2>3
<1>5. base' \in Int
  BY <1>1, <1>3 DEF Receive, TypeOK
<1>6. newest' \in Int
  BY <1>1 DEF Receive, TypeOK
<1>7. SignedDelta(stamp, highWater') \in Int
  BY <1>3, <1>4, DeltaType, RateAssumption
<1> QED
  BY <1>1, <1>4, <1>5, <1>6, <1>7 DEF Resolve

(* Whatever the sample, the limiter's types are kept. *)
LEMMA AllowType ==
  ASSUME TypeOK, NEW sample \in Int, Allow(sample)
  PROVE  /\ lastSeen' \in Int \cup {None} /\ nextDue' \in Int
         /\ first' \in Int \cup {None} /\ published' \in Nat /\ lastSent' \in Int \cup {None}
<1> USE RateAssumption DEF TypeOK, Publish, Refuse, limiter
<1>1. CASE FirstSample(sample)
  BY <1>1 DEF FirstSample
<1>2. CASE NotNewer(sample)
  BY <1>2 DEF NotNewer
<1>3. CASE TooEarly(sample)
  BY <1>3 DEF TooEarly
<1>4. CASE Due(sample)
  BY <1>4 DEF Due
<1> QED
  BY <1>1, <1>2, <1>3, <1>4 DEF Allow

LEMMA InitIInv == Init => IInv
BY RateAssumption
   DEF Init, IInv, Bounds, TypeOK, TimelineInv, StartedInv, SentInv, AverageRate, NeverHalved, NoCatchUp

(* Types are kept by every step. *)
LEMMA TypeNext == TypeOK /\ [Next]_vars => TypeOK'
<1> SUFFICES ASSUME TypeOK, [Next]_vars PROVE TypeOK'
  OBVIOUS
<1>1. ASSUME NEW time \in now .. now + MaxGap, NEW delay \in Delays, OtherLog(time, delay)
      PROVE  TypeOK'
  <2>1. time \in Nat
    BY <1>1, RateAssumption DEF TypeOK
  <2>2. /\ now' \in Nat /\ highWater' \in 0 .. (Wrap - 1) /\ extended' \in Int
        /\ base' \in Int /\ newest' \in Int
    BY <1>1, <2>1, ReceiveType DEF OtherLog
  <2> QED
    BY <1>1, <2>2 DEF OtherLog, Refuse, limiter, TypeOK
<1>2. ASSUME NEW time \in now .. now + MaxGap, NEW delay \in Delays, TopicLog(time, delay)
      PROVE  TypeOK'
  <2>1. time \in Nat
    BY <1>2, RateAssumption DEF TypeOK
  <2>2. /\ now' \in Nat /\ highWater' \in 0 .. (Wrap - 1) /\ extended' \in Int
        /\ base' \in Int /\ newest' \in Int
        /\ Resolve((time - delay) % Wrap) \in Int
    BY <1>2, <2>1, ReceiveType DEF TopicLog
  <2>3. PICK sample \in Int : Allow(sample)
    BY <1>2, <2>2 DEF TopicLog
  <2>4. /\ lastSeen' \in Int \cup {None} /\ nextDue' \in Int
        /\ first' \in Int \cup {None} /\ published' \in Nat /\ lastSent' \in Int \cup {None}
    BY <2>3, AllowType
  <2> QED
    BY <2>2, <2>4 DEF TypeOK
<1>3. CASE Restart
  BY <1>3 DEF Restart, TypeOK
<1>4. CASE UNCHANGED vars
  BY <1>4 DEF vars, unwrapper, limiter, history, TypeOK
<1> QED
  BY <1>1, <1>2, <1>3, <1>4 DEF Next

(* The bounds are kept by the limiter, whatever the sample times. *)
LEMMA LimiterKeepsBounds == TypeOK /\ Bounds /\ Limiter => Bounds'
<1> SUFFICES ASSUME TypeOK, Bounds, Limiter PROVE Bounds'
  OBVIOUS
<1> USE RateAssumption
    DEF TypeOK, Bounds, StartedInv, SentInv, AverageRate, NeverHalved, NoCatchUp
<1>1. ASSUME NEW sample \in Int, FirstSample(sample) PROVE Bounds'
  BY <1>1 DEF FirstSample, Publish
<1>2. ASSUME NEW sample \in Int, NotNewer(sample) \/ TooEarly(sample) PROVE Bounds'
  BY <1>2 DEF NotNewer, TooEarly, Refuse, limiter
<1>3. ASSUME NEW sample \in Int, Due(sample) PROVE Bounds'
  <2>1. published > 0 /\ published' = published + 1 /\ first' = first /\ lastSent' = sample
    BY <1>3 DEF Due, Publish
  <2>2. nextDue' >= nextDue + Period /\ nextDue' > sample /\ nextDue' <= sample + Period + Early
    BY <1>3 DEF Due
  <2>3. (published + 1) * Period = published * Period + Period /\ published * Period \in Nat
    BY NextPeriod, PeriodsType
  <2>4. lastSeen' # None /\ nextDue' \in Int
    BY <1>3 DEF Due
  <2>5. AverageRate'
    BY <2>1, <2>2, <2>3, <2>4
  <2> QED
    BY <2>1, <2>2, <2>4, <2>5
<1>4. CASE UNCHANGED limiter /\ Refuse
  BY <1>4 DEF Refuse, limiter
<1> QED
  BY <1>1, <1>2, <1>3, <1>4 DEF Limiter, Allow

(* Every step is a step of the limiter, or forgets the epoch. *)
LEMMA BoundsNext == TypeOK /\ Bounds /\ [Next]_vars => Bounds'
<1> SUFFICES ASSUME TypeOK, Bounds, [Next]_vars PROVE Bounds'
  OBVIOUS
<1>1. ASSUME NEW time \in now .. now + MaxGap, NEW delay \in Delays, OtherLog(time, delay)
      PROVE  Limiter
  BY <1>1 DEF OtherLog, Limiter
<1>2. ASSUME NEW time \in now .. now + MaxGap, NEW delay \in Delays, TopicLog(time, delay)
      PROVE  Limiter
  <2>1. time \in Nat
    BY <1>2, RateAssumption DEF TypeOK
  <2>2. Resolve((time - delay) % Wrap) \in Int
    BY <1>2, <2>1, ReceiveType DEF TopicLog
  <2> QED
    BY <1>2, <2>2 DEF TopicLog, Limiter
<1>3. CASE Restart
  BY <1>3 DEF Restart, Bounds, StartedInv, SentInv, AverageRate, NeverHalved, NoCatchUp
<1>4. CASE UNCHANGED vars
  <2>1. UNCHANGED limiter /\ Refuse
    BY <1>4 DEF vars, limiter, history, Refuse
  <2> QED
    BY <2>1, LimiterKeepsBounds DEF Limiter
<1> QED
  BY <1>1, <1>2, <1>3, <1>4, LimiterKeepsBounds DEF Next

(* A log less than half a wrap from the latest one leaves the timeline exact. *)
LEMMA ReceiveKeepsTimeline ==
  ASSUME TypeOK, TimelineInv, NEW time \in now .. now + MaxGap, NEW delay \in Delays,
         Receive(time, delay)
  PROVE  TimelineInv'
<1> DEFINE measured == time - delay
<1>1. /\ now \in Nat /\ time \in Nat /\ delay \in Nat /\ measured \in Int
      /\ now <= time /\ time <= now + MaxGap /\ now' = time
  BY RateAssumption DEF TypeOK, Receive
<1>2. measured % Wrap \in 0 .. (Wrap - 1) /\ measured % Wrap \in Int
  BY <1>1, Stamps, RateAssumption
<1>3. Observe(measured % Wrap)
  BY DEF Receive
<1>4. CASE highWater = None
  <2>1. highWater' = measured % Wrap /\ extended' = measured % Wrap
    BY <1>3, <1>4 DEF Observe
  <2>2. base' = measured - (measured % Wrap) /\ newest' = measured
    BY <1>4 DEF Receive
  <2>3. newest' <= now' /\ now' <= newest' + delay
    BY <1>1, <2>2
  <2> HIDE DEF measured
  <2> QED
    BY <1>1, <1>2, <2>1, <2>2, <2>3 DEF TimelineInv
<1>5. CASE highWater # None
  <2>1. /\ newest \in Int /\ newest <= now /\ extended + base = newest
        /\ highWater = newest % Wrap /\ extended \in Int /\ base \in Int
    BY <1>5 DEF TimelineInv, TypeOK
  <2>2. PICK last \in Delays : now <= newest + last
    BY <1>5 DEF TimelineInv
  <2>3. last \in Nat /\ 2 * (MaxGap + last) < Wrap /\ 2 * (MaxGap + delay) < Wrap
    BY RateAssumption
  <2>4. 2 * (measured - newest) < Wrap /\ 2 * (newest - measured) < Wrap
    BY <1>1, <2>1, <2>2, <2>3, WrapAssumption, RateAssumption
  <2>5. SignedDelta(measured % Wrap, highWater) = measured - newest
    BY <1>1, <2>1, <2>4, DeltaExact
  <2>6. base' = base /\ newest' = IF newest > measured THEN newest ELSE measured
    BY <1>5 DEF Receive
  <2>7. time = measured + delay
    BY <1>1
  <2> HIDE DEF measured
  <2>8. newest' \in Int /\ newest' <= now' /\ now' <= newest' + delay
    BY <1>1, <2>1, <2>6, <2>7
  <2>9. CASE measured > newest
    <3>1. extended' = extended + (measured - newest) /\ highWater' = measured % Wrap
      BY <1>1, <1>3, <1>5, <2>1, <2>5, <2>9 DEF Observe
    <3> QED
      BY <1>1, <2>1, <2>6, <2>8, <2>9, <3>1 DEF TimelineInv
  <2>10. CASE measured <= newest
    <3>1. extended' = extended /\ highWater' = highWater
      BY <1>1, <1>3, <1>5, <2>1, <2>5, <2>10 DEF Observe, unwrapper
    <3>2. newest' = newest
      BY <1>1, <2>1, <2>6, <2>10
    <3> QED
      BY <2>1, <2>6, <2>8, <3>1, <3>2 DEF TimelineInv
  <2> QED
    BY <1>1, <2>1, <2>9, <2>10
<1> QED
  BY <1>4, <1>5

(* The timeline stays exact, over every log and restart. *)
LEMMA TimelineNext == TypeOK /\ TimelineInv /\ [Next]_vars => TimelineInv'
<1> SUFFICES ASSUME TypeOK, TimelineInv, [Next]_vars PROVE TimelineInv'
  OBVIOUS
<1>1. ASSUME NEW time \in now .. now + MaxGap, NEW delay \in Delays,
             OtherLog(time, delay) \/ TopicLog(time, delay)
      PROVE  TimelineInv'
  <2>1. Receive(time, delay)
    BY <1>1 DEF OtherLog, TopicLog
  <2> QED
    BY <1>1, <2>1, ReceiveKeepsTimeline
<1>2. CASE Restart
  BY <1>2 DEF Restart, TimelineInv
<1>3. CASE UNCHANGED vars
  BY <1>3 DEF vars, unwrapper, history, TimelineInv
<1> QED
  BY <1>1, <1>2, <1>3 DEF Next

LEMMA NextIInv == IInv /\ [Next]_vars => IInv'
BY TypeNext, TimelineNext, BoundsNext DEF IInv

LEMMA Invariant == Spec => []IInv
BY InitIInv, NextIInv, PTL DEF Spec

-----------------------------------------------------------------------------
(* Every variable keeps its type. *)
THEOREM TypeCorrect == Spec => []TypeOK
<1>1. IInv => TypeOK
  BY DEF IInv
<1> QED
  BY <1>1, Invariant, PTL

(* The timeline is exact, however often the timestamps wrap. *)
THEOREM TimelineIsExact == Spec => []TimelineExact
<1>1. IInv => TimelineExact
  BY DEF IInv, TimelineInv, TimelineExact
<1> QED
  BY <1>1, Invariant, PTL

(* A topic is published no faster than its configured rate on average. *)
THEOREM RateIsBounded == Spec => []AverageRate
<1>1. IInv => AverageRate
  BY DEF IInv, Bounds
<1> QED
  BY <1>1, Invariant, PTL

(* A sample a period and an early allowance after the last published one is due. *)
THEOREM RateIsReached == Spec => []NeverHalved
<1>1. IInv => NeverHalved
  BY DEF IInv, Bounds
<1> QED
  BY <1>1, Invariant, PTL

(* The deadline is always ahead of the last published sample. *)
THEOREM NoBurst == Spec => []NoCatchUp
<1>1. IInv => NoCatchUp
  BY DEF IInv, Bounds
<1> QED
  BY <1>1, Invariant, PTL

=============================================================================
