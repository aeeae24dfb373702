----------------------------- MODULE ImuPairing -----------------------------
(***************************************************************************)
(* How the publishers complete an IMU sample with an orientation and a     *)
(* GNSS heading with an IMU sample (sbg_driver/src/publishers.cpp).  Each  *)
(* is held until the stream of its partners has reached it or a deadline   *)
(* passes, and is then published with the nearest partner, or without one. *)
(*                                                                         *)
(* Everything runs on the I/O thread; logs arrive late and reordered.  A   *)
(* log is the time it was taken; the code sees it modulo Wrap.  One clock  *)
(* serves as the device clock and as the host's steady clock.  The rates   *)
(* of the topics are not limited here: OutputRate is about them.           *)
(***************************************************************************)
EXTENDS Timestamps, Queues, SequencesExt

CONSTANTS
  ImuSource,   \* imu.source: "Auto", "ImuData" or "ImuShort"
  Enabled,     \* the topics published: "imu" and "heading", or one of them
  Tolerance,   \* of each topic: epoch_tolerance_us, raw_orientation_imu_tolerance_us
  Wait,        \* k_odom_wait
  MaxHeld,     \* k_max_odom_epochs
  MaxHistory,  \* a history keeps 2048 samples
  MaxAge,      \* for two seconds
  MaxLag,      \* a log arrives at most this late
  Start,       \* the device clock at first
  MaxTime,     \* bound: the device clock stops here
  None         \* an empty optional

Topics == {"imu", "heading"}
ImuLogs == {"ImuData", "ImuShort"}
Kinds == ImuLogs \cup {"EkfQuat", "GnssHdt"}

(* The logs that are held or remembered, and what is published of them. *)
Entries == [kind : Kinds, time : Int, received : Int]

Messages ==
  [kind : Kinds, time : Int, early : BOOLEAN, short : BOOLEAN, partner : Entries \cup {None}]

ASSUME PairingAssumption ==
  /\ ImuSource \in {"Auto", "ImuData", "ImuShort"} /\ Enabled \subseteq Topics
  /\ Tolerance \in [Topics -> Nat]
  /\ {Wait, MaxHeld, MaxHistory, MaxAge, MaxLag, Start, MaxTime} \subseteq Nat
  /\ MaxHeld > 0 /\ MaxHistory > 0 /\ MaxLag <= Start
  /\ None \notin Int /\ None \notin Entries /\ None \notin Messages

VARIABLES
  clock,
  partners,     \* of an IMU sample quat_history_, of a heading raw_imu_history_
  held,         \* held_imus_ and held_headings_
  seen,         \* last_quat_ is set, and imu_seen_
  shortSeen,    \* imu_short_seen_
  lastHeading,  \* last_raw_heading_ts_
  sent          \* history: what was last published on each topic

pairing == <<partners, held, seen, shortSeen, lastHeading, sent>>
vars == <<clock, pairing>>

Entry(kind, time) == [kind |-> kind, time |-> time, received |-> clock]

Init ==
  /\ clock = Start
  /\ partners = [topic \in Topics |-> <<>>]
  /\ held = [topic \in Topics |-> <<>>]
  /\ seen = [topic \in Topics |-> FALSE]
  /\ shortSeen = FALSE /\ lastHeading = None
  /\ sent = [topic \in Topics |-> None]

-----------------------------------------------------------------------------
(* try_publish_imus and try_publish_raw_orientations: the same algorithm   *)
(* on two queues.  A state here is a record of the variables it changes.   *)

State == [partners |-> partners, held |-> held, sent |-> sent]

Becomes(state) ==
  partners' = state.partners /\ held' = state.held /\ sent' = state.sent

Reached(log, time) == \E i \in DOMAIN log : SignedDelta(log[i].time, time) >= 0

(* The nearest partner, the first of several; None if none is near enough. *)
Nearest(log, time, tolerance) ==
  LET near == {i \in DOMAIN log : Distance(log[i].time, time) <= tolerance}
      away(i) == Distance(log[i].time, time)
  IN  IF near = {} THEN None
      ELSE log[CHOOSE i \in near :
                 \A j \in near : away(i) < away(j) \/ (away(i) = away(j) /\ i <= j)]

(* Mutant of Expired: a sample waits for its partner as long as it takes. *)
NeverExpired(entry) == FALSE

Expired(entry) == clock - entry.received >= Wait

(* Mutant of Settled: the first partner near enough is taken. *)
SettledWhenNear(log, topic, entry) == Nearest(log, entry.time, Tolerance[topic]) # None

(* Nothing nearer can come, unless the partners are out of order. *)
Settled(log, topic, entry) == Reached(log, entry.time)

(* How many samples one call publishes: it stops at the first that must wait. *)
Publishing(state, topic, force) ==
  LET queue == state.held[topic]
  IN  Leading({i \in DOMAIN queue : \/ force /\ i = 1
                                   \/ Expired(queue[i])
                                   \/ Settled(state.partners[topic], topic, queue[i])},
              Len(queue))

(* A message, whether its partner was there to stay, and whether IMU_SHORT *)
(* had been seen when the call began.                                      *)
Message(log, topic, entry, early) ==
  [kind |-> entry.kind, time |-> entry.time, early |-> early, short |-> shortSeen,
   partner |-> Nearest(log, entry.time, Tolerance[topic])]

TryPublish(state, topic, force) ==
  LET n == Publishing(state, topic, force)
      queue == state.held[topic]
      early == ~Expired(queue[n]) /\ ~(force /\ n = 1)
  IN  [state EXCEPT
        !.held[topic] = SubSeq(@, n + 1, Len(@)),
        !.sent[topic] = IF n = 0 THEN @
                        ELSE Message(state.partners[topic], topic, queue[n], early)]

(* A full queue makes room by publishing its oldest. *)
Hold(state, topic, entry) ==
  LET room == IF Len(state.held[topic]) >= MaxHeld THEN TryPublish(state, topic, TRUE) ELSE state
  IN  TryPublish([room EXCEPT !.held[topic] = Append(@, entry)], topic, FALSE)

(* While no partner was ever seen, nothing is worth waiting for. *)
PublishOrHold(state, topic, entry) ==
  IF topic \notin Enabled THEN state
  ELSE IF ~seen[topic] THEN [state EXCEPT !.sent[topic] = Message(<<>>, topic, entry, FALSE)]
  ELSE Hold(state, topic, entry)

-----------------------------------------------------------------------------
(* flush_pending and on_log.                                               *)

Fresh(log) == DropFront(log, {i \in DOMAIN log : clock - log[i].received > MaxAge})

Flushed ==
  LET fresh == [State EXCEPT !.partners = [topic \in Topics |-> Fresh(@[topic])]]
  IN  TryPublish(TryPublish(fresh, "heading", FALSE), "imu", FALSE)

FlushPending ==
  /\ Becomes(Flushed)
  /\ UNCHANGED <<clock, seen, shortSeen, lastHeading>>

(* A partner is remembered, and may be the one that was waited for. *)
Remember(state, topic, entry) ==
  LET log == Append(state.partners[topic], entry)
      kept == IF Len(log) > MaxHistory THEN Tail(log) ELSE log
  IN  TryPublish([state EXCEPT !.partners[topic] = kept], topic, FALSE)

(* A device stamps one log of each kind in a tick. *)
NotYet(topic, kind, time) ==
  \A i \in DOMAIN partners[topic] :
    partners[topic][i].kind = kind => partners[topic][i].time # time

EkfQuat(lag) ==
  LET quat == Entry("EkfQuat", clock - lag)
  IN  /\ NotYet("imu", "EkfQuat", quat.time)
      /\ Becomes(Remember(Flushed, "imu", quat))
      /\ seen' = [seen EXCEPT !["imu"] = TRUE]
      /\ UNCHANGED <<clock, shortSeen, lastHeading>>

(* Mutant of SwitchSource: the samples of the other stream stay. *)
SwitchNothing(state) == state

(* The first IMU_SHORT: nothing of IMU_DATA is used or published any more. *)
SwitchSource(state) ==
  [state EXCEPT !.partners["heading"] = <<>>, !.held["imu"] = <<>>]

(* handle_imu *)
HandleImu(state, entry) ==
  PublishOrHold(Remember(state, "heading", entry), "imu", entry)

Accepted(kind) ==
  \/ kind = "ImuData" /\ (ImuSource = "ImuData" \/ (ImuSource = "Auto" /\ ~shortSeen))
  \/ kind = "ImuShort" /\ ImuSource # "ImuData"

ImuLog(kind, lag) ==
  LET imu == Entry(kind, clock - lag)
      switching == kind = "ImuShort" /\ ~shortSeen
  IN  /\ Accepted(kind)
      /\ NotYet("heading", kind, imu.time)
      /\ Becomes(HandleImu(IF switching THEN SwitchSource(Flushed) ELSE Flushed, imu))
      /\ shortSeen' = (shortSeen \/ kind = "ImuShort")
      /\ seen' = [seen EXCEPT !["heading"] = TRUE]
      /\ UNCHANGED <<clock, lastHeading>>

(* Mutant of NotAfter: the timestamps are compared as they are. *)
NotAfterUnsigned(time, last) == last # None /\ time % Wrap <= last % Wrap

NotAfter(time, last) == last # None /\ SignedDelta(time, last) <= 0

(* A heading log of the primary receiver; it repeats fixes, and may reorder *)
(* them.  IMU logs that are not accepted do no more than FlushPending.     *)
GnssHdt(lag) ==
  LET heading == Entry("GnssHdt", clock - lag)
      old == NotAfter(heading.time, lastHeading)
  IN  /\ "heading" \in Enabled
      /\ Becomes(IF old THEN Flushed ELSE PublishOrHold(Flushed, "heading", heading))
      /\ lastHeading' = IF old THEN lastHeading ELSE heading.time
      /\ UNCHANGED <<clock, seen, shortSeen>>

(* reset_stream_state: an activation, or a restart of the device clock *)
Reset ==
  /\ partners' = [topic \in Topics |-> <<>>]
  /\ held' = [topic \in Topics |-> <<>>]
  /\ seen' = [topic \in Topics |-> FALSE]
  /\ shortSeen' = FALSE /\ lastHeading' = None
  /\ sent' = [topic \in Topics |-> None]
  /\ UNCHANGED clock

Tick ==
  /\ clock < MaxTime
  /\ clock' = clock + 1
  /\ UNCHANGED pairing

Next ==
  \/ Tick \/ FlushPending \/ Reset
  \/ \E lag \in 0 .. MaxLag :
       EkfQuat(lag) \/ GnssHdt(lag) \/ (\E kind \in ImuLogs : ImuLog(kind, lag))

Spec == Init /\ [][Next]_vars

-----------------------------------------------------------------------------
(* Properties.                                                             *)

TypeOK ==
  /\ clock \in Nat
  /\ partners \in [Topics -> Seq(Entries)] /\ held \in [Topics -> Seq(Entries)]
  /\ \A topic \in Topics : Len(partners[topic]) <= MaxHistory /\ Len(held[topic]) <= MaxHeld
  /\ sent \in [Topics -> Messages \cup {None}]
  /\ seen \in [Topics -> BOOLEAN] /\ shortSeen \in BOOLEAN
  /\ lastHeading \in Int \cup {None}

(* /imu/data comes from one stream (ImuSource, on_log): after the first     *)
(* IMU_SHORT of a session no sample of IMU_DATA is published, and none     *)
(* orients a heading, whatever was queued or remembered before it.         *)
OneSource ==
  [][\A topic \in Topics :
       shortSeen /\ shortSeen' /\ sent'[topic] # sent[topic] =>
         /\ sent'[topic].kind # "ImuData"
         /\ sent'[topic].partner # None => sent'[topic].partner.kind # "ImuData"]_vars

InOrder(topic) ==
  LET log == partners'[topic]
  IN  /\ Len(log) > 0 /\ log[Len(log)] \notin ToSet(partners[topic])
      /\ \A i \in DOMAIN partners[topic] : partners[topic][i].time < Last(log).time

(* The partners of a heading are samples of two streams, one after the other. *)
SameStream(topic, message) == topic = "heading" => message.short = shortSeen

(* Published before its deadline, a sample has the best partner there will *)
(* be: no later partner of a stream in order lies closer to it.            *)
NothingCloserComes ==
  [][\A topic \in Topics :
       LET message == sent[topic]
           later == Distance(Last(partners'[topic]).time, message.time)
       IN  message # None /\ message.early /\ SameStream(topic, message) /\ InOrder(topic) =>
             IF message.partner = None THEN later > Tolerance[topic]
             ELSE later >= Distance(message.partner.time, message.time)]_vars

(* No sample outlives its deadline (k_odom_wait): after any log or poll,    *)
(* every held one still has time left.                                     *)
HeldInTime ==
  [][clock' = clock =>
       \A topic \in Topics : \A i \in DOMAIN held'[topic] :
         clock - held'[topic][i].received < Wait]_vars

(* on_log: "reordered old fixes must not turn the map back", nor repeat it. *)
HeadingsForward ==
  [][sent["heading"] # None /\ sent'["heading"] # None /\ sent'["heading"] # sent["heading"] =>
       sent'["heading"].time > sent["heading"].time]_vars

=============================================================================
