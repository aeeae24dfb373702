---------------------------- MODULE DeviceClock ----------------------------
(***************************************************************************)
(* How the publishers follow the device's clock (sbg_driver/src/           *)
(* publishers.cpp): the wrapping timestamps of its logs, the quarantine    *)
(* that tells a restart of the device from a late log, and the UTC anchor  *)
(* that turns timestamps into stamps.                                      *)
(*                                                                         *)
(* One tick stands for a stretch of real and of device time.  Timestamps   *)
(* are modulo Wrap; host instants are ages, counted up to where they stop  *)
(* to matter.  Between a restart and the next clock log no more than       *)
(* MaxSilence passes, and a device that restarts has been up for MinUptime *)
(* and is not about to wrap: a restart that puts the clock back where it   *)
(* was cannot be seen from timestamps.                                     *)
(***************************************************************************)
EXTENDS Timestamps

CONSTANTS
  Kinds,       \* the kinds of log the device streams
  Slack,       \* 1 s: how far a log may lie behind
  Lead,        \* 5 s: how far the log after a candidate may lie ahead of it
  Outage,      \* 30 min: beyond it timestamps cannot be compared
  UtcTimeout,  \* utc_timeout_s
  RealTime,    \* device_clock_real_time: not an accelerated replay
  MaxLag,      \* bound: a log in order is at most this old
  MaxLate,     \* bound: and a late one at most that
  MaxSilence,  \* bound: quiet ticks before a restart is noticed
  Patience,    \* ticks within which a restart is to be noticed
  MinUptime,   \* bound: the device does not restart sooner
  Start,       \* where the device's clock is at first
  None         \* an empty optional

(* Kinds that carry the current time; a fix is a delayed measurement, and a *)
(* log of the secondary receiver never tells the time.                     *)
CurrentKinds == {"stream", "utc", "invalid_utc"}

ASSUME ClockAssumption ==
  /\ Kinds \subseteq CurrentKinds \cup {"fix", "secondary"}
  /\ {Slack, Lead, Outage, UtcTimeout, MaxLag, MaxLate, MaxSilence, Patience, MinUptime, Start} \subseteq Nat
  /\ Wrap % 2 = 0 /\ Slack < Outage /\ Outage < Wrap \div 2
  /\ MaxLag <= MaxLate /\ Start < Wrap
  /\ RealTime \in BOOLEAN
  /\ None \notin Int

(* The logs after a restart are close together, compared with the seconds  *)
(* the code allows for, and the UTC log is frequent compared with a wrap.  *)
ASSUME TimingAssumption ==
  /\ MaxLag <= Slack
  /\ 3 * MaxSilence + MaxLag <= Lead
  /\ 4 * MaxSilence + MaxLag <= Patience
  /\ 4 * MaxSilence + MaxLag + MaxLate + Slack < MinUptime
  /\ 2 * MinUptime < Wrap
  /\ 2 * (UtcTimeout + MaxLate) < Wrap /\ 2 * (Outage + MaxLate) < Wrap

VARIABLES
  time,         \* the device's clock
  up,           \* ticks since the device started, up to MinUptime
  silence,      \* ticks since a clock log, until a restart is noticed
  late,         \* a current log was late, and none without lag came since
  highWater,    \* device_high_water_
  receivedAge,  \* since last_device_received_
  candidate,    \* restart_candidate_
  currentSeen,  \* current_clock_stream_seen_
  anchor,       \* utc_anchor_: the device timestamp of the last valid UTC
  anchorAge,    \* since utc_anchor_received_
  restarted,    \* history: the device restarted since the high water
  cleared,      \* history: what the last log cleared the caches for, if so
  stamp         \* history: how the last log was stamped

device == <<time, up, silence, late>>
clock == <<highWater, receivedAge, candidate, currentSeen, anchor, anchorAge>>
vars == <<device, clock, restarted, cleared, stamp>>

Timestamps == 0 .. Wrap - 1
Utc == [ts : Timestamps, age : 0 .. Wrap, lost : BOOLEAN]

TypeOK ==
  /\ time \in Timestamps /\ up \in 0 .. MinUptime /\ silence \in 0 .. MaxSilence
  /\ late \in BOOLEAN
  /\ highWater \in Timestamps \cup {None} /\ candidate \in Timestamps \cup {None}
  /\ receivedAge \in 0 .. Outage + 1
  /\ currentSeen \in BOOLEAN
  /\ anchor \in Utc \cup {None}
  /\ anchorAge \in 0 .. UtcTimeout + 1
  /\ restarted \in BOOLEAN
  /\ cleared \in {"no", "outage", "restart"}
  /\ stamp \in {"held", "none", "received", "true", "wrong", "unclocked"}

Init ==
  /\ time = Start /\ up = MinUptime /\ silence = 0 /\ late = FALSE
  /\ highWater = None /\ receivedAge = Outage + 1 /\ candidate = None
  /\ currentSeen = FALSE
  /\ anchor = None /\ anchorAge = UtcTimeout + 1
  /\ restarted = FALSE /\ cleared = "no" /\ stamp = "none"

-----------------------------------------------------------------------------
(* observe_device_clock: what becomes of a timestamp.                      *)

LongOutage == highWater # None /\ receivedAge > Outage

(* Mutant: no allowance for the lag of the log before. *)
ImplausibleWithoutSlack(ts) ==
  RealTime /\ ts < highWater /\ SignedDelta(ts, highWater) > receivedAge

(* A restart may look like a jump ahead; a genuine wrap advances no further *)
(* than real time does.                                                    *)
ImplausibleWrap(ts) ==
  /\ RealTime
  /\ ts < highWater
  /\ SignedDelta(ts, highWater) > receivedAge + Slack

(* Mutant: a timestamp ahead is always believed. *)
OutOfPlaceBehind(ts) ==
  highWater # None /\ ~LongOutage /\ SignedDelta(ts, highWater) < -Slack

OutOfPlace(ts) ==
  /\ highWater # None /\ ~LongOutage
  /\ SignedDelta(ts, highWater) < -Slack \/ ImplausibleWrap(ts)

(* Mutant: the log after a candidate must catch up with the high water. *)
ConfirmsAhead(ts) == candidate # None /\ SignedDelta(ts, highWater) > 0

Confirms(ts) ==
  candidate # None /\ SignedDelta(ts, candidate) > 0 /\ SignedDelta(ts, candidate) <= Lead

Behind(ts) == highWater # None /\ ~LongOutage /\ SignedDelta(ts, highWater) < 0

Verdict(ts) ==
  IF ~OutOfPlace(ts) THEN IF LongOutage THEN "outage" ELSE "follows"
  ELSE IF Confirms(ts) THEN "restart" ELSE "held"

-----------------------------------------------------------------------------
(* Handling a log: the prologue of on_log, the UTC case and stamp_for.     *)

(* Once a current stream exists, only such streams tell the time. *)
Clocked(kind) == kind \in CurrentKinds \/ (kind = "fix" /\ ~currentSeen)

(* observe_device_clock *)
Follow(ts, verdict) ==
  /\ cleared' = IF verdict \in {"outage", "restart"} THEN verdict ELSE "no"
  /\ CASE verdict = "held" ->
            candidate' = ts /\ UNCHANGED <<highWater, receivedAge, restarted>>
       [] verdict = "unclocked" \/ (verdict = "follows" /\ Behind(ts)) ->
            UNCHANGED <<highWater, receivedAge, candidate, restarted>>
       [] OTHER ->
            /\ highWater' = ts /\ receivedAge' = 0 /\ candidate' = None
            /\ restarted' = (restarted /\ verdict = "follows" /\ highWater # None)

(* Mutant: the UTC lock survives a restart. *)
RevokedByInvalid(kind, verdict) == IF kind = "invalid_utc" THEN None ELSE anchor

(* An invalid time revokes the lock even if its log is held. *)
Revoked(kind, verdict) ==
  IF kind = "invalid_utc" \/ verdict \in {"outage", "restart"} THEN None ELSE anchor

(* stamp_for *)
Unexpired(reference) == IF anchorAge > UtcTimeout THEN None ELSE reference

(* device_stamp_ns: an anchor too far away is no reference. *)
DeviceStamp(reference, ts) ==
  LET offset == SignedDelta(ts, reference.ts)
  IN  IF offset > Outage \/ offset < -Outage THEN None ELSE offset

Stamped(reference, ts, lag, clocked) ==
  IF reference = None THEN "received"
  ELSE IF DeviceStamp(reference, ts) = None THEN "received"
  ELSE IF ~clocked THEN "unclocked"
  ELSE IF ~reference.lost /\ DeviceStamp(reference, ts) = reference.age - lag THEN "true"
  ELSE "wrong"

OnLog(kind, lag) ==
  LET ts == (time - lag) % Wrap
      clocked == Clocked(kind)
      verdict == IF clocked THEN Verdict(ts) ELSE "unclocked"
      reference == Revoked(kind, verdict)
      usable == Unexpired(reference)
  IN  /\ currentSeen' = (currentSeen \/ kind \in CurrentKinds)
      /\ Follow(ts, verdict)
      /\ CASE verdict = "held" ->
                stamp' = "held" /\ anchor' = reference /\ UNCHANGED anchorAge
           [] kind = "utc" /\ verdict # "held" ->
                /\ anchor' = [ts |-> ts, age |-> lag, lost |-> FALSE] /\ anchorAge' = 0
                /\ stamp' = "none"
           [] kind = "invalid_utc" /\ verdict # "held" ->
                stamp' = "none" /\ anchor' = reference /\ UNCHANGED anchorAge
           [] OTHER ->
                /\ stamp' = Stamped(usable, ts, lag, clocked)
                /\ anchor' = usable /\ UNCHANGED anchorAge

(* Current logs lag by at most MaxLag; now and then a single one that others *)
(* overtook is late, and the next when one without lag came since.  A fix   *)
(* always lags.                                                             *)
Receive(kind) ==
  /\ \E lag \in 0 .. MaxLate :
       /\ lag <= up
       /\ Clocked(kind) => lag <= MaxLag \/ (~late /\ Behind((time - lag) % Wrap))
       /\ late' = IF Clocked(kind) /\ lag \notin 1 .. MaxLag THEN lag # 0 ELSE late
       /\ OnLog(kind, lag)
  /\ silence' = IF Clocked(kind) THEN 0 ELSE silence
  /\ UNCHANGED <<time, up>>

Older(age, limit) == IF age = limit THEN age ELSE age + 1

Tick ==
  /\ restarted => silence < MaxSilence
  /\ time' = (time + 1) % Wrap
  /\ up' = Older(up, MinUptime)
  /\ silence' = IF restarted THEN silence + 1 ELSE 0
  /\ receivedAge' = Older(receivedAge, Outage + 1)
  /\ anchorAge' = Older(anchorAge, UtcTimeout + 1)
  /\ anchor' = IF anchor = None THEN None ELSE [anchor EXCEPT !.age = Older(@, Wrap)]
  /\ UNCHANGED <<late, highWater, candidate, currentSeen, restarted, cleared, stamp>>

(* The device starts again, with its clock at zero. *)
Restart ==
  /\ up = MinUptime /\ time >= MinUptime /\ time < Wrap - MinUptime
  /\ receivedAge <= MaxSilence \/ highWater = None \/ LongOutage
  /\ time' = 0 /\ up' = 0 /\ silence' = 0
  /\ restarted' = (highWater # None)
  /\ anchor' = IF anchor = None THEN None ELSE [anchor EXCEPT !.lost = TRUE]
  /\ UNCHANGED <<late, highWater, receivedAge, candidate, currentSeen, anchorAge, cleared, stamp>>

(* activate: the session starts over *)
Activate ==
  /\ highWater' = None /\ candidate' = None /\ currentSeen' = FALSE /\ anchor' = None
  /\ restarted' = FALSE /\ cleared' = "no" /\ stamp' = "none" /\ silence' = 0
  /\ UNCHANGED <<time, up, late, receivedAge, anchorAge>>

Next == (\E kind \in Kinds : Receive(kind)) \/ Tick \/ Restart \/ Activate

Spec == Init /\ [][Next]_vars

-----------------------------------------------------------------------------
(* A log that passes the quarantine without clearing the caches is of the  *)
(* same run of the device as what is in them (observe_device_clock): no    *)
(* composition mixes two runs.                                             *)
OneRun ==
  [][ \A kind \in Kinds : Receive(kind) /\ Clocked(kind) /\ restarted =>
        stamp' = "held" \/ cleared' # "no" ]_vars

(* A stamp from the UTC anchor is the instant the log was taken at, across *)
(* wraps, restarts and outages (stamp_for, device_stamp_ns).               *)
StampsAreTrue == stamp # "wrong"

(* Only a restart is taken for one (observe_device_clock): neither a late  *)
(* log nor a wrap clears the caches and the UTC lock.                      *)
OnlyRestartsConfirm == [][ cleared' = "restart" /\ cleared # "restart" => restarted ]_vars

(* A restart is noticed soon, long before its clock catches up or the       *)
(* outage is a long one (observe_device_clock): the logs held until then,  *)
(* a repeated or an overtaken one among them, are those of a few ticks.    *)
NoticedSoon == restarted /\ ~LongOutage => receivedAge <= Patience

=============================================================================
