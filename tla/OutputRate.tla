----------------------------- MODULE OutputRate -----------------------------
(***************************************************************************)
(* SampleTimeUnwrapper and OutputRateLimiter                               *)
(* (sbg_driver/include/sbg_driver/output_rate_limiter.hpp): which samples  *)
(* of one topic are published, decided on the device's own timestamps.     *)
(*                                                                         *)
(* The device stamps a log with its clock modulo Wrap.  Logs of any topic  *)
(* move the shared unwrapper; a log of the topic is then resolved on it    *)
(* and offered to the topic's limiter.  Delayed measurements carry the     *)
(* time they were taken.  Publishers resets both after a restart of the    *)
(* device clock, and after 30 minutes without a log: a log is never half a *)
(* wrap (35.8 minutes) away from the latest one.  The period and the early *)
(* allowance (a twentieth of it) are in device clock ticks.                *)
(***************************************************************************)
EXTENDS Timestamps

CONSTANTS
  Period,   \* period_us_, positive: a limiter with period 0 allows everything
  Early,    \* period_us_ * 0.05
  MaxGap,   \* the device clock advances by at most this between two logs
  Delays,   \* how old a measurement is when it arrives
  MaxTime,  \* bound: the device clock stops here
  None      \* an empty optional

ASSUME RateAssumption ==
  /\ Period \in Nat /\ Period > 0
  /\ Early \in Nat /\ Early < Period
  /\ MaxGap \in Nat /\ Delays \subseteq Nat /\ MaxTime \in Nat
  /\ \A delay \in Delays : 2 * (MaxGap + delay) < Wrap
  /\ None \notin Int

VARIABLES
  now,        \* the device clock, which does not wrap
  highWater,  \* the unwrapper's high_water_, None before the first log
  extended,   \* extended_us_
  lastSeen,   \* the limiter's last_seen_, None before the first sample
  nextDue,    \* next_due_us_
  base,       \* history: device time of extended_us_ = 0 in this epoch
  newest,     \* history: the latest measurement of this epoch
  first,      \* history: the first published sample of this epoch
  published,  \* history: how many were published in this epoch
  lastSent    \* history: the last published sample

unwrapper == <<highWater, extended>>
limiter == <<lastSeen, nextDue>>
history == <<base, newest, first, published, lastSent>>
vars == <<now, unwrapper, limiter, history>>

Init ==
  /\ now = 0
  /\ highWater = None /\ extended = 0
  /\ lastSeen = None /\ nextDue = 0
  /\ base = 0 /\ newest = None /\ first = None /\ published = 0 /\ lastSent = None

-----------------------------------------------------------------------------
(* SampleTimeUnwrapper.                                                    *)

(* Mutant of Observe: every log moves the high-water mark, as if stamps only grew. *)
ObserveAny(stamp) ==
  IF highWater = None
  THEN highWater' = stamp /\ extended' = stamp
  ELSE extended' = extended + ((stamp - highWater) % Wrap) /\ highWater' = stamp

Observe(stamp) ==
  IF highWater = None
  THEN highWater' = stamp /\ extended' = stamp
  ELSE LET delta == SignedDelta(stamp, highWater)
       IN  IF delta > 0
           THEN extended' = extended + delta /\ highWater' = stamp
           ELSE UNCHANGED unwrapper

(* The position of a stamp on the extended timeline, after Observe. *)
Resolve(stamp) == extended' + SignedDelta(stamp, highWater')

-----------------------------------------------------------------------------
(* OutputRateLimiter::allow.                                               *)

Publish(sample) ==
  /\ lastSent' = sample
  /\ published' = published + 1
  /\ first' = IF published = 0 THEN sample ELSE first

Refuse == UNCHANGED <<first, published, lastSent>>

FirstSample(sample) ==
  /\ lastSeen = None
  /\ lastSeen' = sample /\ nextDue' = sample + Period
  /\ Publish(sample)

NotNewer(sample) ==
  /\ lastSeen # None /\ sample <= lastSeen
  /\ UNCHANGED limiter /\ Refuse

TooEarly(sample) ==
  /\ lastSeen # None /\ sample > lastSeen
  /\ sample + Early < nextDue
  /\ lastSeen' = sample /\ UNCHANGED nextDue
  /\ Refuse

(* Mutant of Due: the phase restarts at every published sample. *)
DueFromSample(sample) ==
  /\ lastSeen # None /\ sample > lastSeen
  /\ sample + Early >= nextDue
  /\ lastSeen' = sample
  /\ nextDue' = sample + Period
  /\ Publish(sample)

(* A sample on its phase keeps the phase; after a missing interval the *)
(* phase restarts from the sample.                                     *)
Due(sample) ==
  /\ lastSeen # None /\ sample > lastSeen
  /\ sample + Early >= nextDue
  /\ lastSeen' = sample
  /\ nextDue' = IF sample >= nextDue + Period THEN sample + Period ELSE nextDue + Period
  /\ Publish(sample)

Allow(sample) == FirstSample(sample) \/ NotNewer(sample) \/ TooEarly(sample) \/ Due(sample)

-----------------------------------------------------------------------------
(* A log taken `delay' before the device clock reads `time' arrives. *)
Receive(time, delay) ==
  /\ time <= MaxTime /\ delay <= time
  /\ now' = time
  /\ Observe((time - delay) % Wrap)
  /\ base' = IF highWater = None THEN (time - delay) - ((time - delay) % Wrap) ELSE base
  /\ newest' = IF highWater # None /\ newest > time - delay THEN newest ELSE time - delay

OtherLog(time, delay) == Receive(time, delay) /\ UNCHANGED limiter /\ Refuse

TopicLog(time, delay) ==
  /\ Receive(time, delay)
  /\ \E sample \in {Resolve((time - delay) % Wrap)} : Allow(sample)

(* Mutant of Restart: the limiters keep the deadlines of the old epoch. *)
RestartClockOnly ==
  /\ highWater # None
  /\ now' = 0
  /\ highWater' = None
  /\ UNCHANGED <<extended, limiter>>
  /\ base' = 0 /\ newest' = None /\ first' = None /\ published' = 0 /\ lastSent' = None

(* The device clock restarts, and reset_stream_state forgets the timeline. *)
Restart ==
  /\ highWater # None
  /\ now' = 0
  /\ highWater' = None /\ lastSeen' = None
  /\ UNCHANGED <<extended, nextDue>>
  /\ base' = 0 /\ newest' = None /\ first' = None /\ published' = 0 /\ lastSent' = None

Next ==
  \/ \E time \in now .. now + MaxGap, delay \in Delays :
       OtherLog(time, delay) \/ TopicLog(time, delay)
  \/ Restart

Spec == Init /\ [][Next]_vars

-----------------------------------------------------------------------------
(* Properties.                                                             *)

TypeOK ==
  /\ now \in Nat
  /\ highWater \in 0 .. (Wrap - 1) \cup {None} /\ extended \in Int
  /\ lastSeen \in Int \cup {None} /\ nextDue \in Int
  /\ base \in Int /\ newest \in Int \cup {None}
  /\ first \in Int \cup {None} /\ published \in Nat /\ lastSent \in Int \cup {None}

(* Wraps, reordering and delays do not distort the timeline: it stands at  *)
(* the latest measurement of the epoch, however often the stamps wrapped.  *)
TimelineExact ==
  highWater # None =>
    /\ extended + base = newest
    /\ highWater = newest % Wrap

(* On average no faster than configured: the n-th publication after the    *)
(* first of an epoch is due no earlier than n periods after it, whatever   *)
(* the jitter and the outages in between.                                  *)
AverageRate == published > 0 => nextDue >= first + published * Period

(* No slower than the stream: the first sample of an epoch is published,   *)
(* and one a full period after the last published one is never refused as  *)
(* early, so jitter cannot halve a rate.                                   *)
NeverHalved ==
  IF published = 0 THEN lastSeen = None ELSE nextDue <= lastSent + Period + Early

(* The phase stays ahead of what was published: there is no catch-up       *)
(* publication for intervals that went by without a sample.                *)
NoCatchUp == published > 0 => nextDue > lastSent

=============================================================================
