---------------------------- MODULE OdomComposer ----------------------------
(***************************************************************************)
(* Publishers' odometry composition (sbg_driver/src/publishers.cpp): a NAV *)
(* epoch waits for the nearest quaternion, body velocity and IMU sample    *)
(* around it, until every stream has reached the epoch or a deadline       *)
(* passes, and is then published or dropped.                               *)
(*                                                                         *)
(* Everything runs on the I/O thread; logs arrive late and reordered.  A   *)
(* log is the time it was taken; the code sees it modulo Wrap.  One clock  *)
(* serves as the device clock and as the host's steady clock, and the IMU  *)
(* stream is the one imu.source selected.                                  *)
(***************************************************************************)
EXTENDS Timestamps, Queues, FiniteSets, SequencesExt

CONSTANTS
  Members,     \* the streams an epoch is composed from
  Required,    \* those it cannot be published without: all but the IMU
  Tolerance,   \* epoch_tolerance_us
  Wait,        \* k_odom_wait
  MaxEpochs,   \* k_max_odom_epochs
  MaxHistory,  \* a history keeps 2048 samples
  MaxAge,      \* a history keeps a sample for two seconds
  MaxDelay,    \* a NAV log arrives at most this late,
  MaxLag,      \* and a log of another stream at most this
  Start,       \* the device clock at first
  MaxTime,     \* bound: the device clock stops here
  None         \* an empty optional

ASSUME ComposerAssumption ==
  /\ Required \subseteq Members
  /\ Tolerance \in Nat
  /\ Wait \in Nat /\ MaxEpochs \in Nat /\ MaxEpochs > 0
  /\ MaxHistory \in Nat /\ MaxHistory > 0 /\ MaxAge \in Nat
  /\ MaxDelay \in Nat /\ MaxLag \in Nat /\ Start \in Nat /\ MaxDelay <= Start /\ MaxLag <= Start
  /\ MaxTime \in Nat
  /\ 2 * MaxDelay < Wrap
  /\ IsFiniteSet(Members) /\ None \notin Int

VARIABLES
  clock,
  history,   \* quat_history_, vel_history_ and raw_imu_history_
  pending,   \* odom_epochs_
  lastOdom,  \* last_odom_ts_, None before the first retired epoch
  drops,     \* diag_composition_drops_
  lost,      \* history: epochs retired without being published
  sent,      \* history: the latest published epoch, None before the first
  refused    \* history: the epoch the last step refused as old, or None

composer == <<history, pending, lastOdom, drops, lost, sent, refused>>
vars == <<clock, composer>>

(* A log or an epoch, and when it was received. *)
Entry(time) == [time |-> time, received |-> clock]

Init ==
  /\ clock = Start
  /\ history = [member \in Members |-> <<>>]
  /\ pending = <<>> /\ lastOdom = None
  /\ drops = 0 /\ lost = 0 /\ sent = None /\ refused = None

-----------------------------------------------------------------------------
(* Mutant of NotAfter: the timestamps are compared as they are. *)
NotAfterUnsigned(time, last) == last # None /\ time % Wrap <= last % Wrap

NotAfter(time, last) == last # None /\ SignedDelta(time, last) <= 0

-----------------------------------------------------------------------------
(* try_compose_odometry.  A history is a sequence of logs; `histories' are *)
(* the three at the moment of the call.                                    *)

Reached(log, time) == \E i \in DOMAIN log : SignedDelta(log[i].time, time) >= 0

(* Is a sample nearer than `radius' to the epoch? *)
Within(log, time, radius) == \E i \in DOMAIN log : Distance(log[i].time, time) <= radius

(* How near the nearest member is, Tolerance + 1 if there is none. *)
Nearest(log, time) ==
  CHOOSE radius \in 0 .. (Tolerance + 1) :
    /\ radius <= Tolerance => Within(log, time, radius)
    /\ \A nearer \in 0 .. (radius - 1) : ~Within(log, time, nearer)

(* Mutant of Missing: an epoch without an IMU sample is dropped as well. *)
MissingAny(histories, epoch) ==
  {member \in Members : ~Within(histories[member], epoch.time, Tolerance)}

(* The members an epoch lacks, each counted as a drop. *)
Missing(histories, epoch) ==
  {member \in Required : ~Within(histories[member], epoch.time, Tolerance)}

Expired(epoch) == clock - epoch.received >= Wait

(* Nothing closer can come, unless a stream is out of order. *)
Settled(histories, epoch) ==
  \A member \in Members :
    /\ Reached(histories[member], epoch.time)
    /\ member \in Required => Within(histories[member], epoch.time, Tolerance)

(* Mutant of Ready: the first members within the tolerance are taken. *)
ReadyWhenPresent(histories, epoch) == Expired(epoch) \/ Missing(histories, epoch) = {}

(* Mutant of Ready: an epoch waits for its members as long as it takes. *)
ReadyWhenSettled(histories, epoch) == Settled(histories, epoch)

Ready(histories, epoch) == Expired(epoch) \/ Settled(histories, epoch)

State ==
  [pending |-> pending, lastOdom |-> lastOdom, drops |-> drops, lost |-> lost,
   sent |-> sent, refused |-> None]

Becomes(state) ==
  /\ pending' = state.pending /\ lastOdom' = state.lastOdom
  /\ drops' = state.drops /\ lost' = state.lost
  /\ sent' = state.sent /\ refused' = state.refused

(* How many epochs one call retires: it stops at the first that must wait. *)
Retiring(state, histories, force) ==
  Leading({i \in DOMAIN state.pending : (force /\ i = 1) \/ Ready(histories, state.pending[i])},
          Len(state.pending))

(* What is published, with how near each member was. *)
Odometry(histories, epoch, early) ==
  [time |-> epoch.time,
   early |-> early,
   distance |-> [member \in Required |-> Nearest(histories[member], epoch.time)]]

Compose(state, histories, force) ==
  LET n == Retiring(state, histories, force)
      missing(i) == Missing(histories, state.pending[i])
      whole == {i \in 1 .. n : missing(i) = {}}
      early(i) == ~Expired(state.pending[i]) /\ ~(force /\ i = 1)
  IN  [state EXCEPT
        !.pending = SubSeq(@, n + 1, Len(@)),
        !.lastOdom = IF n = 0 THEN @ ELSE state.pending[n].time,
        !.drops = @ + Cardinality({lack \in (1 .. n) \X Members : lack[2] \in missing(lack[1])}),
        !.lost = @ + n - Cardinality(whole),
        !.sent = IF whole = {} THEN @
                 ELSE Odometry(histories, state.pending[Max(whole)], early(Max(whole)))]

-----------------------------------------------------------------------------
(* odom_epoch: find the epoch of a NAV log, or insert it in order, after   *)
(* making room for it; the epoch may by then be too old.                   *)

Insert(state, time) ==
  LET earlier == {i \in DOMAIN state.pending : SignedDelta(time, state.pending[i].time) >= 0}
      at == IF earlier = DOMAIN state.pending THEN Len(state.pending) + 1
            ELSE Min(DOMAIN state.pending \ earlier)
  IN  [state EXCEPT !.pending = InsertAt(@, at, Entry(time))]

Refuse(state, time) == [state EXCEPT !.refused = time]

Known(state, time) ==
  \E i \in DOMAIN state.pending : state.pending[i].time % Wrap = time % Wrap

(* Mutant of OdomEpoch: the epoch is not looked at again once there is room. *)
OdomEpochUnchecked(state, histories, time) ==
  IF NotAfter(time, state.lastOdom) THEN Refuse(state, time)
  ELSE IF Known(state, time) THEN state
  ELSE IF Len(state.pending) < MaxEpochs THEN Insert(state, time)
  ELSE Insert(Compose(state, histories, TRUE), time)

OdomEpoch(state, histories, time) ==
  IF NotAfter(time, state.lastOdom) THEN Refuse(state, time)
  ELSE IF Known(state, time) THEN state
  ELSE IF Len(state.pending) < MaxEpochs THEN Insert(state, time)
  ELSE LET room == Compose(state, histories, TRUE)
       IN  IF NotAfter(time, room.lastOdom) THEN Refuse(room, time) ELSE Insert(room, time)

-----------------------------------------------------------------------------
(* on_log and flush_pending.                                               *)

Fresh(log) == DropFront(log, {i \in DOMAIN log : clock - log[i].received > MaxAge})

(* flush_pending: forget what is old, and compose what can be. *)
Histories == [member \in Members |-> Fresh(history[member])]
Flushed == Compose(State, Histories, FALSE)

FlushPending ==
  /\ history' = Histories
  /\ Becomes(Flushed)
  /\ UNCHANGED clock

(* The history of a member with one more log in it. *)
Remembering(member, time) ==
  LET log == Append(Histories[member], Entry(time))
  IN  [Histories EXCEPT
        ![member] = IF Len(log) > MaxHistory THEN Tail(log) ELSE log]

(* EkfQuat, EkfVelBody and IMU logs.  A device stamps one log of each in a tick. *)
MemberLog(member, lag) ==
  /\ \A i \in DOMAIN history[member] : history[member][i].time # clock - lag
  /\ history' = Remembering(member, clock - lag)
  /\ Becomes(Compose(Flushed, Remembering(member, clock - lag), FALSE))
  /\ UNCHANGED clock

(* A valid EkfNav log; one it repeats is ignored. *)
NavLog(delay) ==
  /\ history' = Histories
  /\ Becomes(Compose(OdomEpoch(Flushed, Histories, clock - delay), Histories, FALSE))
  /\ UNCHANGED clock

(* reset_stream_state: an activation, or a restart of the device clock. *)
Reset ==
  /\ history' = [member \in Members |-> <<>>]
  /\ pending' = <<>> /\ lastOdom' = None
  /\ drops' = 0 /\ lost' = 0 /\ sent' = None /\ refused' = None
  /\ UNCHANGED clock

Tick ==
  /\ clock < MaxTime
  /\ clock' = clock + 1
  /\ UNCHANGED <<history, pending, lastOdom, drops, lost, sent>> /\ refused' = None

Next ==
  \/ Tick \/ FlushPending \/ Reset
  \/ \E delay \in 0 .. MaxDelay : NavLog(delay)
  \/ \E member \in Members, lag \in 0 .. MaxLag : MemberLog(member, lag)

Spec == Init /\ [][Next]_vars

-----------------------------------------------------------------------------
(* Properties.                                                             *)

Entries == [time : Int, received : Int]

TypeOK ==
  /\ clock \in Nat
  /\ \A member \in Members :
       history[member] \in Seq(Entries) /\ Len(history[member]) <= MaxHistory
  /\ pending \in Seq(Entries) /\ Len(pending) <= MaxEpochs
  /\ lastOdom \in Int \cup {None} /\ refused \in Int \cup {None}
  /\ drops \in Nat /\ lost \in Nat

(* A NAV epoch is refused only if it, or a later one, was already retired, *)
(* as long as no two epochs are half a wrap of the timestamps apart.       *)
OnlyLateRefused == refused # None => lastOdom # None /\ refused <= lastOdom

(* The other streams never paused since: this is still the session of the  *)
(* latest retired epoch, with no outage to reset it.                       *)
Streaming ==
  \A time \in lastOdom .. clock, member \in Members :
    \E i \in DOMAIN history[member] : history[member][i].received = time

(* The same however long NAV was invalid in between: "duplicate and        *)
(* backward completed NAV epochs are ignored within a device session", and *)
(* no others.                                                              *)
NewEpochsTaken == refused # None /\ Streaming => OnlyLateRefused

(* The drop counter moves exactly when an epoch is lost, by at most one    *)
(* for each required stream.                                               *)
DropsSeen == lost <= drops /\ drops <= lost * Cardinality(Required)

(* DiagSnapshot: composition_drops counts "/odom epochs retired without    *)
(* composing".                                                             *)
DropsCountEpochs == drops = lost

(* Epochs are neither lost nor reordered: OrderedEpochs. *)
Queue ==
  INSTANCE OrderedEpochs WITH
    waiting <- {pending[i].time : i \in DOMAIN pending}, retired <- lastOdom, Never <- None
QueueSpec == Queue!Spec

(* Whatever arrives late in front of it, an epoch is retired by the first  *)
(* log or poll after its deadline and the latest delay of a log.           *)
RetiredInTime ==
  [][clock' = clock =>
       \A i \in DOMAIN pending' : clock - pending'[i].received < Wait + MaxDelay]_vars

(* An epoch published before its deadline used the best members there will *)
(* be: no later log of a stream in order lies closer to it.                *)
InOrder(member) ==
  LET log == history'[member]
  IN  /\ Len(log) > 0 /\ log[Len(log)] \notin ToSet(history[member])
      /\ \A i \in DOMAIN history[member] : history[member][i].time < log[Len(log)].time

NothingCloserComes ==
  [][\A member \in Required :
       sent # None /\ sent.early /\ InOrder(member) =>
         sent.distance[member] <= Distance(Last(history'[member]).time, sent.time)]_vars

=============================================================================
