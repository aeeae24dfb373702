------------------------ MODULE HealthReporterProofs ------------------------
(***************************************************************************)
(* Proofs about HealthReporter, for every set of logs, settings, faults,   *)
(* readings and counters.                                                  *)
(***************************************************************************)
EXTENDS HealthReporter, TLAPS

(* The conjuncts of TypeOK, grouped as the variables are. *)
NodeOK ==
  /\ state \in States
  /\ transition \in {"none", "activating", "opened", "entered", "deactivating"}
  /\ faulted \in BOOLEAN /\ released \in BOOLEAN /\ paused \in BOOLEAN
  /\ linked \in BOOLEAN /\ reporting \in BOOLEAN
  /\ settings \in {asked \in Settings : Valid(asked)} \cup {None}

CellsOK ==
  /\ seen \in [Cells -> Ages \cup {None}]
  /\ session \in [Cells -> BOOLEAN]
  /\ DOMAIN reading = Sources
  /\ \A source \in Sources : reading[source] = None \/ reading[source] \in Values[source]
  /\ readFailed \in BOOLEAN
  /\ known \subseteq Codes

AgesOK == sessionAge \in Ages /\ sinceAge \in Ages /\ quiet \in Ages

CountsOK ==
  /\ counter \in [{"drops", "exceptions"} -> 0 .. MaxCount]
  /\ growth \in [{"drops", "exceptions"} -> Growths]
  /\ lost \in Ages \cup {None} /\ alarmed \in BOOLEAN

LEMMA TypeParts == TypeOK <=> NodeOK /\ CellsOK /\ AgesOK /\ CountsOK
BY DEF TypeOK, NodeOK, CellsOK, AgesOK, CountsOK

LEMMA InitTypes == Init => TypeOK
<1> SUFFICES ASSUME Init PROVE TypeOK
    OBVIOUS
<1>1. NodeOK
      BY DEF Init, NodeOK, States
<1>2. Horizon \in Ages /\ 0 \in Ages
      BY ReporterAssumption DEF Ages
<1>3. AgesOK
      BY <1>2 DEF Init, AgesOK
<1>4. CellsOK
  <2>1. seen \in [Cells -> Ages \cup {None}] /\ session \in [Cells -> BOOLEAN]
        BY DEF Init
  <2>2. DOMAIN reading = Sources /\ \A source \in Sources : reading[source] = None
        BY DEF Init
  <2>3. readFailed \in BOOLEAN /\ known \subseteq Codes
        BY DEF Init
  <2> QED
      BY <2>1, <2>2, <2>3 DEF CellsOK
<1>5. CountsOK
  <2>1. 0 \in 0 .. MaxCount
        BY ReporterAssumption
  <2>2. [last |-> 0, grew |-> Horizon] \in Growths
        BY <1>2, <2>1 DEF Growths
  <2> QED
      BY <2>1, <2>2 DEF Init, CountsOK
<1> QED
    BY <1>1, <1>3, <1>4, <1>5, TypeParts

LEMMA NodeTypes ==
  ASSUME TypeOK, [Next]_vars
  PROVE  NodeOK'
<1> USE TypeParts DEF NodeOK, States, ChangeState
<1>1. CASE Configure
      BY <1>1 DEF Configure
<1>2. CASE BeginTransition
      BY <1>2 DEF BeginTransition
<1>3. CASE ActivatePublishers
      BY <1>3 DEF ActivatePublishers
<1>4. CASE EnterActive
      BY <1>4 DEF EnterActive
<1>5. CASE ActivationFailed
      BY <1>5 DEF ActivationFailed
<1>6. CASE Deactivated
      BY <1>6 DEF Deactivated
<1>7. CASE Cleanup
      BY <1>7 DEF Cleanup
<1>8. CASE LifecycleError
      BY <1>8 DEF LifecycleError
<1>9. CASE Shutdown
      BY <1>9 DEF Shutdown
<1>10. CASE StopPublisher
      BY <1>10 DEF StopPublisher
<1>11. CASE PauseStream
      BY <1>11 DEF PauseStream
<1>12. CASE Release
      BY <1>12 DEF Release
<1>13. CASE ResumeStream
      BY <1>13 DEF ResumeStream
<1>14. CASE StartIo
      BY <1>14 DEF StartIo
<1>15. CASE UNCHANGED node
      BY <1>15 DEF node
<1> QED
    BY <1>1, <1>2, <1>3, <1>4, <1>5, <1>6, <1>7, <1>8, <1>9, <1>10, <1>11, <1>12, <1>13, <1>14, <1>15
    DEF Next, NoteLog, CountUp, DeviceRestart, Publish, Tick, vars

(* A log's observations are among what its sources may say. *)
LEMMA ObservationsTyped ==
  ASSUME NEW kind \in Logs, NEW observed \in Observations(kind)
  PROVE  /\ DOMAIN observed \subseteq Sources
         /\ \A source \in DOMAIN observed : observed[source] \in Values[source]
<1>1. CASE kind = "Status"
  <2>1. observed \in [status : Values.status]
        BY <1>1, Zenon DEF Observations
  <2> QED
      BY <2>1, SMT DEF Sources
<1>2. CASE kind = "Imu"
  <2>1. observed \in [imu_status : Values.imu_status, imu : Values.imu]
        BY <1>2, Zenon DEF Observations
  <2> QED
      BY <2>1, SMT DEF Sources
<1>3. CASE kind = "EkfNav"
  <2>1. observed \in [ekf : Values.ekf]
        BY <1>3, Zenon DEF Observations
  <2> QED
      BY <2>1, SMT DEF Sources
<1>4. CASE kind = "GnssPos"
  <2>1. observed \in [gnss : Values.gnss]
        BY <1>4, Zenon DEF Observations
  <2> QED
      BY <2>1, SMT DEF Sources
<1>5. CASE kind = "GnssHdt"
  <2>1. observed \in [hdt : Values.hdt]
        BY <1>5, Zenon DEF Observations
  <2> QED
      BY <2>1, SMT DEF Sources
<1>6. CASE kind \notin {"Status", "Imu", "EkfNav", "GnssPos", "GnssHdt"}
  <2>1. observed = <<>>
        BY <1>6, Zenon DEF Observations
  <2> QED
      BY <2>1, SMT
<1> QED
    BY <1>1, <1>2, <1>3, <1>4, <1>5, <1>6

LEMMA AgesAge ==
  ASSUME NEW age \in Ages \cup {None}
  PROVE  /\ Older(age) \in Ages \cup {None}
         /\ age \in Ages => Older(age) \in Ages
BY ReporterAssumption DEF Older, Ages

LEMMA CellsTypes ==
  ASSUME TypeOK, [Next]_vars
  PROVE  CellsOK'
<1>1. CASE NoteLog
  <2>0. PICK kind \in Logs : \E observed \in Observations(kind) : Take(observed)
        BY <1>1 DEF NoteLog
  <2>1. PICK observed \in Observations(kind) : Take(observed)
        BY <2>0
  <2> USE <2>1 DEF Take
  <2> DEFINE taken == {source \in DOMAIN observed : observed[source] # NonFinite}
  <2>2. /\ DOMAIN observed \subseteq Sources
        /\ \A source \in DOMAIN observed : observed[source] \in Values[source]
        BY <2>0, ObservationsTyped
  <2>3. 0 \in Ages
        BY ReporterAssumption DEF Ages
  <2>4. seen' \in [Cells -> Ages \cup {None}]
        BY <2>1, <2>3, TypeParts DEF CellsOK
  <2>5. session' \in [Cells -> BOOLEAN]
        BY <2>1, Zenon
  <2>6. DOMAIN reading' = Sources
        BY <2>1
  <2>7. ASSUME NEW source \in Sources
        PROVE  reading'[source] = None \/ reading'[source] \in Values[source]
        BY <2>1, <2>2, TypeParts DEF CellsOK
  <2>8. readFailed' \in BOOLEAN
        BY <2>1, TypeParts, Zenon DEF CellsOK
  <2>9. known' \subseteq Codes
    <3>1. "status" \in taken => observed["status"] \subseteq Faults
          BY <2>2 DEF Values
    <3> QED
        BY <2>1, <3>1, TypeParts, ReporterAssumption DEF CellsOK
  <2> QED
      BY <2>4, <2>5, <2>6, <2>7, <2>8, <2>9 DEF CellsOK
<1>2. CASE Tick
  <2>1. seen' \in [Cells -> Ages \cup {None}]
        BY <1>2, AgesAge, TypeParts DEF Tick, CellsOK
  <2> QED
      BY <1>2, <2>1, TypeParts DEF Tick, CellsOK
<1>3. CASE EnterActive
  <2>1. session' \in [Cells -> BOOLEAN]
        BY <1>3 DEF EnterActive
  <2> QED
      BY <1>3, <2>1, TypeParts DEF EnterActive, CellsOK
<1>4. CASE UNCHANGED cells
      BY <1>4, TypeParts DEF cells, CellsOK
<1> QED
    BY <1>1, <1>2, <1>3, <1>4
    DEF Next, Configure, BeginTransition, ActivatePublishers, StartIo, ActivationFailed, Deactivated,
        Cleanup, LifecycleError, Shutdown, StopPublisher, PauseStream, Release, ResumeStream,
        CountUp, DeviceRestart, Publish, vars

LEMMA AgesTypes ==
  ASSUME TypeOK, [Next]_vars
  PROVE  AgesOK'
<1>1. 0 \in Ages
      BY ReporterAssumption DEF Ages
<1>2. CASE Tick
      BY <1>2, AgesAge, TypeParts DEF Tick, AgesOK
<1>3. CASE EnterActive
      BY <1>1, <1>3 DEF EnterActive, AgesOK
<1>4. CASE ResumeStream
      BY <1>1, <1>4, TypeParts DEF ResumeStream, AgesOK
<1>5. CASE NoteLog
      BY <1>1, <1>5, TypeParts DEF NoteLog, AgesOK
<1>6. CASE UNCHANGED ages
      BY <1>6, TypeParts DEF ages, AgesOK
<1> QED
    BY <1>2, <1>3, <1>4, <1>5, <1>6
    DEF Next, Configure, BeginTransition, ActivatePublishers, StartIo, ActivationFailed, Deactivated,
        Cleanup, LifecycleError, Shutdown, StopPublisher, PauseStream, Release,
        CountUp, DeviceRestart, Publish, vars

(* Growth::update leaves the counter's value behind and never a later date. *)
LEMMA GrowingTyped ==
  ASSUME NEW c, growth[c] \in Growths, NEW value \in 0 .. MaxCount
  PROVE  Growing(c, value) \in Growths /\ Growing(c, value).last = value
<1>1. 0 \in Ages
      BY ReporterAssumption DEF Ages
<1>2. CASE value > growth[c].last
  <2>1. Growing(c, value) = [last |-> value, grew |-> 0]
        BY <1>2 DEF Growing
  <2> QED
      BY <1>1, <2>1 DEF Growths
<1>3. CASE ~(value > growth[c].last)
  <2>1. Growing(c, value) = [growth[c] EXCEPT !.last = value]
        BY <1>3 DEF Growing
  <2> QED
      BY <2>1 DEF Growths
<1> QED
    BY <1>2, <1>3

LEMMA CountsTypes ==
  ASSUME TypeOK, [Next]_vars
  PROVE  CountsOK'
<1> USE TypeParts DEF CountsOK
<1>1. 0 \in 0 .. MaxCount
      BY ReporterAssumption
<1>2. ASSUME DropsStartOver, alarmed' = alarmed
      PROVE  CountsOK'
      BY <1>1, <1>2 DEF DropsStartOver
<1>3. CASE Configure \/ ActivatePublishers \/ DeviceRestart
      BY <1>2, <1>3 DEF Configure, ActivatePublishers, DeviceRestart
<1>4. ASSUME NEW c \in Counted, CountUp(c)
      PROVE  CountsOK'
  <2>1. c \in {"drops", "exceptions"} /\ counter[c] + 1 \in 0 .. MaxCount
        BY <1>4, ReporterAssumption DEF CountUp
  <2>2. counter' \in [{"drops", "exceptions"} -> 0 .. MaxCount]
        BY <1>4, <2>1 DEF CountUp
  <2>3. lost' \in Ages \cup {None}
        BY <1>4, ReporterAssumption DEF CountUp, Ages
  <2> QED
      BY <1>4, <2>2, <2>3 DEF CountUp
<1>5. CASE Publish
  <2>1. \A c \in DOMAIN growth : Growing(c, counter[c]) \in Growths
        BY GrowingTyped
  <2>2. growth' \in [{"drops", "exceptions"} -> Growths]
        BY <1>5, <2>1 DEF Publish
  <2>3. alarmed' \in BOOLEAN
        BY <1>5, Zenon DEF Publish
  <2> QED
      BY <1>5, <2>2, <2>3 DEF Publish
<1>6. CASE Tick
  <2>1. ASSUME NEW c \in {"drops", "exceptions"}
        PROVE  [growth[c] EXCEPT !.grew = Older(@)] \in Growths
        BY AgesAge DEF Growths
  <2>2. growth' \in [{"drops", "exceptions"} -> Growths]
        BY <1>6, <2>1 DEF Tick
  <2>3. lost' \in Ages \cup {None}
        BY <1>6, AgesAge DEF Tick
  <2> QED
      BY <1>6, <2>2, <2>3 DEF Tick
<1>7. CASE EnterActive \/ ResumeStream \/ NoteLog
      BY <1>7 DEF EnterActive, ResumeStream, NoteLog, counts
<1>8. CASE UNCHANGED <<counts, alarmed>>
      BY <1>8 DEF counts
<1> QED
    BY <1>3, <1>4, <1>5, <1>6, <1>7, <1>8
    DEF Next, BeginTransition, StartIo, ActivationFailed, Deactivated,
        Cleanup, LifecycleError, Shutdown, StopPublisher, PauseStream, Release, vars

(* Every variable keeps its type, whatever the device sends and the node   *)
(* is asked for.                                                           *)
THEOREM TypeCorrect == Spec => []TypeOK
<1>1. Init => TypeOK
      BY InitTypes
<1>2. TypeOK /\ [Next]_vars => TypeOK'
      BY NodeTypes, CellsTypes, AgesTypes, CountsTypes, TypeParts
      DEF TypeOK, NodeOK, CellsOK, AgesOK, CountsOK
<1> QED
    BY <1>1, <1>2, PTL DEF Spec

-----------------------------------------------------------------------------
(* What the verdicts rest on, by the variables each is about.              *)

(* An observation of this session is no older than the session, and its log *)
(* was counted.                                                            *)
SessionKept ==
  \A cell \in Cells :
    session[cell] => seen[cell] \in Ages /\ seen[cell] <= sessionAge /\ session["log"]

(* stream_at measures the silence that the device is to answer for. *)
SilenceMeasured == quiet = Silence

(* Drops that the counter counts and no snapshot does yet are on record. *)
DropsCounted == lost # None \/ counter["drops"] <= growth["drops"].last

(* alert_known_ remembers the alerts of the last status, too. *)
StatusKnown ==
  IF reading["status"] = None THEN known = {} ELSE reading["status"] \subseteq known

Inv == TypeOK /\ SessionKept /\ SilenceMeasured /\ DropsCounted /\ StatusKnown

LEMMA OlderKeepsOrder ==
  ASSUME NEW one \in Ages, NEW other \in Ages
  PROVE  /\ one <= other => Older(one) <= Older(other)
         /\ Older(one) < Older(other) => one < other
         /\ one < other => Older(one) < Older(other) \/ Older(one) = Older(other)
BY ReporterAssumption DEF Older, Ages

LEMMA SessionStep ==
  ASSUME TypeOK, SessionKept, [Next]_vars
  PROVE  SessionKept'
<1> USE TypeParts DEF CellsOK, AgesOK, SessionKept
<1>1. CASE NoteLog
  <2>0. PICK kind \in Logs : \E observed \in Observations(kind) : Take(observed)
        BY <1>1 DEF NoteLog
  <2>1. PICK observed \in Observations(kind) : Take(observed)
        BY <2>0
  <2> DEFINE touched == {source \in DOMAIN observed : observed[source] # NonFinite} \cup {"log"}
  <2>2. sessionAge' = sessionAge /\ 0 \in Ages /\ 0 <= sessionAge /\ "log" \in Cells
        BY <1>1, ReporterAssumption DEF NoteLog, Ages, Cells
  <2>3. session'["log"]
        BY <2>1, <2>2, Zenon DEF Take
  <2>4. ASSUME NEW cell \in Cells, cell \in touched
        PROVE  seen'[cell] = 0
        BY <2>1, <2>4 DEF Take
  <2>5. ASSUME NEW cell \in Cells, cell \notin touched
        PROVE  seen'[cell] = seen[cell] /\ (session'[cell] <=> session[cell])
        BY <2>1, <2>5, Zenon DEF Take
  <2> QED
      BY <2>2, <2>3, <2>4, <2>5
<1>2. CASE Tick
  <2>1. \A cell \in Cells : seen'[cell] = Older(seen[cell])
        BY <1>2 DEF Tick
  <2>2. sessionAge' = Older(sessionAge) /\ session' = session
        BY <1>2 DEF Tick
  <2> QED
      BY <2>1, <2>2, OlderKeepsOrder, AgesAge
<1>3. CASE EnterActive
      BY <1>3 DEF EnterActive
<1>4. CASE UNCHANGED <<seen, session, sessionAge>>
      BY <1>4
<1> QED
    BY <1>1, <1>2, <1>3, <1>4
    DEF Next, Configure, BeginTransition, ActivatePublishers, StartIo, ActivationFailed, Deactivated,
        Cleanup, LifecycleError, Shutdown, StopPublisher, PauseStream, Release, ResumeStream,
        CountUp, DeviceRestart, Publish, vars, cells, ages

LEMMA SilenceStep ==
  ASSUME TypeOK, SessionKept, SilenceMeasured, [Next]_vars
  PROVE  SilenceMeasured'
<1> USE TypeParts DEF CellsOK, AgesOK, SilenceMeasured, Silence, Heard
<1>0. "log" \in Cells
      BY DEF Cells
<1>1. CASE NoteLog
  <2>0. PICK kind \in Logs : \E observed \in Observations(kind) : Take(observed)
        BY <1>1 DEF NoteLog
  <2>1. PICK observed \in Observations(kind) : Take(observed)
        BY <2>0
  <2>2. session'["log"]
        BY <1>0, <2>1, Zenon DEF Take
  <2>3. seen'["log"] = 0
        BY <1>0, <2>1 DEF Take
  <2> QED
      BY <1>1, <2>2, <2>3, ReporterAssumption DEF NoteLog, Ages
<1>2. CASE Tick
  <2>1. seen'["log"] = Older(seen["log"])
        BY <1>0, <1>2 DEF Tick
  <2>2. sinceAge' = Older(sinceAge) /\ session' = session /\ quiet' = Older(quiet)
        BY <1>2 DEF Tick
  <2>3. session["log"] => seen["log"] \in Ages
        BY <1>0 DEF SessionKept
  <2>4. CASE Heard
        BY <2>1, <2>2, <2>3, <2>4, OlderKeepsOrder
  <2>5. CASE ~Heard
        BY <2>1, <2>2, <2>3, <2>5, OlderKeepsOrder
  <2> QED
      BY <2>4, <2>5
<1>3. CASE EnterActive
  <2>1. ~session'["log"] /\ sinceAge' = 0 /\ quiet' = 0
        BY <1>0, <1>3 DEF EnterActive
  <2> QED
      BY <2>1
<1>4. CASE ResumeStream
  <2>1. session["log"] => seen["log"] \in Ages
        BY <1>0 DEF SessionKept
  <2>2. seen' = seen /\ session' = session /\ sinceAge' = 0 /\ quiet' = 0
        BY <1>4 DEF ResumeStream, cells
  <2> QED
      BY <2>1, <2>2 DEF Ages
<1>5. CASE UNCHANGED <<seen, session, sinceAge, quiet>>
      BY <1>5
<1> QED
    BY <1>1, <1>2, <1>3, <1>4, <1>5
    DEF Next, Configure, BeginTransition, ActivatePublishers, StartIo, ActivationFailed, Deactivated,
        Cleanup, LifecycleError, Shutdown, StopPublisher, PauseStream, Release,
        CountUp, DeviceRestart, Publish, vars, cells, ages

LEMMA DropsStep ==
  ASSUME TypeOK, DropsCounted, [Next]_vars
  PROVE  DropsCounted'
<1> USE TypeParts DEF CountsOK, DropsCounted
<1>1. counter["drops"] \in 0 .. MaxCount /\ growth["drops"] \in Growths
      BY DEF CountsOK
<1>2. ASSUME DropsStartOver
      PROVE  DropsCounted'
      BY <1>1, <1>2 DEF DropsStartOver, Growths
<1>3. CASE Configure \/ ActivatePublishers \/ DeviceRestart
      BY <1>2, <1>3 DEF Configure, ActivatePublishers, DeviceRestart
<1>4. ASSUME NEW c \in Counted, CountUp(c)
      PROVE  DropsCounted'
  <2>1. CASE c = "drops"
        BY <1>4, <2>1, ReporterAssumption DEF CountUp
  <2>2. CASE c # "drops"
    <3>1. counter'["drops"] = counter["drops"] /\ growth' = growth
          BY <1>4, <2>2 DEF CountUp
    <3>2. lost' = lost
          BY <1>4, <2>2, Zenon DEF CountUp
    <3> QED
        BY <3>1, <3>2
  <2> QED
      BY <2>1, <2>2
<1>5. CASE Publish
  <2>1. growth'["drops"] = Growing("drops", counter["drops"])
        BY <1>5 DEF Publish
  <2>2. growth'["drops"].last = counter["drops"]
        BY <1>1, <2>1, GrowingTyped
  <2> QED
      BY <1>1, <1>5, <2>2 DEF Publish
<1>6. CASE Tick
  <2>1. growth'["drops"] = [growth["drops"] EXCEPT !.grew = Older(@)]
        BY <1>6 DEF Tick
  <2>2. growth'["drops"].last = growth["drops"].last
        BY <1>1, <2>1 DEF Growths
  <2>3. lost # None => lost' # None
        BY <1>6, AgesAge, ReporterAssumption DEF Tick, Older, Ages
  <2> QED
      BY <1>6, <2>2, <2>3 DEF Tick
<1>7. CASE UNCHANGED counts
      BY <1>7 DEF counts
<1> QED
    BY <1>3, <1>4, <1>5, <1>6, <1>7
    DEF Next, BeginTransition, EnterActive, StartIo, ActivationFailed, Deactivated, Cleanup,
        LifecycleError, Shutdown, StopPublisher, PauseStream, Release, ResumeStream, NoteLog, vars

LEMMA StatusStep ==
  ASSUME TypeOK, StatusKnown, [Next]_vars
  PROVE  StatusKnown'
<1>0. "status" \in Sources
      BY DEF Sources
<1>1. CASE NoteLog
  <2>0. PICK kind \in Logs : \E observed \in Observations(kind) : Take(observed)
        BY <1>1 DEF NoteLog
  <2>1. PICK observed \in Observations(kind) : Take(observed)
        BY <2>0
  <2>2. "status" \in DOMAIN observed => observed["status"] # None
        BY <2>0, <2>1, ObservationsTyped, ReporterAssumption DEF Values
  <2> QED
      BY <1>0, <2>1, <2>2 DEF Take, StatusKnown
<1>2. CASE UNCHANGED <<reading, known>>
      BY <1>2 DEF StatusKnown
<1> QED
    BY <1>1, <1>2
    DEF Next, Configure, BeginTransition, ActivatePublishers, EnterActive, StartIo,
        ActivationFailed, Deactivated, Cleanup, LifecycleError, Shutdown, StopPublisher, PauseStream, Release,
        ResumeStream, CountUp, DeviceRestart, Publish, Tick, vars, cells

(* The verdicts' footing holds in every reachable state. *)
LEMMA Invariance == Spec => []Inv
<1>1. Init => Inv
  <2> SUFFICES ASSUME Init PROVE Inv
      OBVIOUS
  <2>1. SessionKept /\ SilenceMeasured
        BY DEF Init, SessionKept, SilenceMeasured, Silence, Heard, Cells
  <2>2. DropsCounted
        BY DEF Init, DropsCounted
  <2>3. StatusKnown
        BY DEF Init, StatusKnown, Sources
  <2> QED
      BY <2>1, <2>2, <2>3, InitTypes DEF Inv
<1>2. Inv /\ [Next]_vars => Inv'
  <2>1. TypeOK /\ [Next]_vars => TypeOK'
        BY NodeTypes, CellsTypes, AgesTypes, CountsTypes, TypeParts
        DEF TypeOK, NodeOK, CellsOK, AgesOK, CountsOK
  <2> QED
      BY <2>1, SessionStep, SilenceStep, DropsStep, StatusStep DEF Inv
<1> QED
    BY <1>1, <1>2, PTL DEF Spec

(* A snapshot dates the drops to now only if one that is still counted came *)
(* after the snapshot before it: counters that start over are not growth.  *)
THEOREM RestartsAreNotGrowth == Spec => RestartIsNotGrowth
<1> DEFINE A == Publish /\ growth'["drops"].grew = 0 /\ growth["drops"].grew # 0 => lost # None
<1>1. Inv /\ [Next]_vars => [A]_vars
  <2> SUFFICES ASSUME Inv, Publish, growth'["drops"].grew = 0, growth["drops"].grew # 0
               PROVE  lost # None
      BY DEF Inv
  <2>1. counter["drops"] \in 0 .. MaxCount /\ growth["drops"] \in Growths
        BY TypeParts DEF Inv, CountsOK
  <2>2. growth'["drops"] = Growing("drops", counter["drops"])
        BY <2>1, TypeParts DEF Publish, Inv, CountsOK
  <2>3. counter["drops"] > growth["drops"].last
        BY <2>1, <2>2 DEF Growing, Growths
  <2> QED
      BY <2>1, <2>3 DEF Inv, DropsCounted, Growths
<1> QED
    BY <1>1, Invariance, PTL DEF Spec, RestartIsNotGrowth

-----------------------------------------------------------------------------
(* What a snapshot shows, component by component.                          *)

(* Only a stale component loses its level, and that travels with it. *)
LEMMA ComponentShows ==
  ASSUME NEW level, NEW fresh
  PROVE  /\ Component(level, fresh).availability = fresh.availability
         /\ Component(level, fresh).error = fresh.error
         /\ fresh.availability # "stale" => Component(level, fresh).level = level
         /\ level # None => Verdict(Component(level, fresh)) = level
BY DEF Component, Verdict

LEMMA StreamShows ==
  ASSUME NEW drops
  PROVE  /\ Report("stream", drops) = StreamComponent(drops)
         /\ StreamComponent(drops).level = Error <=> Silent
         /\ StreamComponent(drops).availability = IF Demanded THEN "current" ELSE "paused"
<1>1. Report("stream", drops) = StreamComponent(drops)
      BY Zenon DEF Report
<1>2. Silent => Demanded
      BY DEF Silent
<1> DEFINE fresh == [availability |-> IF Demanded THEN "current" ELSE "paused", error |-> FALSE]
           level == IF ~Demanded THEN Ok
                    ELSE IF Silent THEN Error
                    ELSE IF ~session["log"] THEN Warn
                    ELSE IF Recent("drops", drops) THEN Warn
                    ELSE Ok
<1>3. StreamComponent(drops) = Component(level, fresh)
      BY DEF StreamComponent
<1>4. fresh.availability # "stale"
      OBVIOUS
<1>5. level = Error <=> Silent
      BY <1>2 DEF Ok, Warn, Error
<1> HIDE DEF level
<1> QED
    BY <1>1, <1>3, <1>4, <1>5, ComponentShows

(* The stream's error is the device's silence, for every timeout: neither a *)
(* command's pause nor the time before an activation counts or hides it.   *)
THEOREM SilenceIsShown == Spec => []SilenceIsTheDevices
<1>1. Inv => SilenceIsTheDevices
  <2> SUFFICES ASSUME Inv, settings # None
               PROVE  Now("stream").level = Error <=> Demanded /\ quiet > settings.streamTimeout
      BY DEF SilenceIsTheDevices
  <2>1. Now("stream").level = Error <=> Silent
        BY StreamShows DEF Now
  <2> QED
      BY <2>1 DEF Silent, Inv, SilenceMeasured
<1> QED
    BY <1>1, Invariance, PTL

(* The freshness a component from the logs is shown with. *)
FreshnessOf(component) ==
  IF component = "temperature" THEN TemperatureFreshness ELSE Freshness(SourceOf(component))

LEMMA ReportShows ==
  ASSUME NEW component \in FromLogs, NEW drops
  PROVE  \E level : Report(component, drops) = Component(level, FreshnessOf(component))
<1>1. CASE component = "device"
      BY <1>1, Zenon DEF Report, Of, FreshnessOf, SourceOf
<1>2. CASE component = "sensor alerts"
      BY <1>2, Zenon DEF Report, Of, FreshnessOf, SourceOf
<1>3. CASE component = "imu"
      BY <1>3, Zenon DEF Report, Of, FreshnessOf, SourceOf
<1>4. CASE component = "temperature"
      BY <1>4, Zenon DEF Report, Temperature, FreshnessOf
<1>5. CASE component = "ekf"
      BY <1>5, Zenon DEF Report, Of, FreshnessOf, SourceOf
<1>6. CASE component = "gnss"
      BY <1>6, Zenon DEF Report, Of, FreshnessOf, SourceOf
<1>7. CASE component = "gnss heading"
      BY <1>7, Zenon DEF Report, Of, FreshnessOf, SourceOf
<1>8. CASE component \notin {"device", "sensor alerts", "imu", "temperature", "ekf",
                             "gnss", "gnss heading"}
  <2>1. component # "service" /\ component # "stream"
        BY DEF FromLogs
  <2> QED
      BY <1>8, <2>1, Zenon DEF Report, Alert, FreshnessOf, SourceOf
<1> QED
    BY <1>1, <1>2, <1>3, <1>4, <1>5, <1>6, <1>7, <1>8

LEMMA SourcesAreCells ==
  ASSUME NEW component
  PROVE  SourceOf(component) \in Cells
<1>1. CASE component = "imu"
      BY <1>1, Zenon DEF SourceOf, Cells, Sources
<1>2. CASE component = "temperature"
      BY <1>2, Zenon DEF SourceOf, Cells, Sources
<1>3. CASE component = "ekf"
      BY <1>3, Zenon DEF SourceOf, Cells, Sources
<1>4. CASE component = "gnss"
      BY <1>4, Zenon DEF SourceOf, Cells, Sources
<1>5. CASE component = "gnss heading"
      BY <1>5, Zenon DEF SourceOf, Cells, Sources
<1>6. CASE component \notin {"imu", "temperature", "ekf", "gnss", "gnss heading"}
      BY <1>6, Zenon DEF SourceOf, Cells, Sources
<1> QED
    BY <1>1, <1>2, <1>3, <1>4, <1>5, <1>6

LEMMA FreshnessShows ==
  ASSUME NEW cell \in Cells
  PROVE  LET fresh == Freshness(cell)
         IN  /\ fresh.availability = "current" =>
                  Demanded /\ session[cell] /\ ~(seen[cell] > settings.staleAfter) /\ ~Silent
             /\ fresh.availability = "paused" <=> ~Demanded
             /\ fresh.availability = "paused" => fresh.error = FALSE
             /\ fresh.availability \in {"current", "paused", "stale", "unavailable", "retrying"}
<1>1. CASE ~Demanded
      BY <1>1 DEF Freshness
<1>2. CASE Demanded /\ ~session[cell]
      BY <1>2 DEF Freshness
<1>3. CASE Demanded /\ session[cell] /\ seen[cell] > settings.staleAfter
      BY <1>3 DEF Freshness
<1>4. CASE Demanded /\ session[cell] /\ ~(seen[cell] > settings.staleAfter) /\ Silent
      BY <1>4 DEF Freshness
<1>5. CASE Demanded /\ session[cell] /\ ~(seen[cell] > settings.staleAfter) /\ ~Silent
      BY <1>5 DEF Freshness
<1> QED
    BY <1>1, <1>2, <1>3, <1>4, <1>5

(* A failed reading leaves the freshness of the temperature paused or not,  *)
(* but never current.                                                      *)
LEMMA FreshnessOfShows ==
  ASSUME NEW component
  PROVE  LET fresh == FreshnessOf(component)
             cell == SourceOf(component)
         IN  /\ fresh.availability = "current" =>
                  Demanded /\ session[cell] /\ ~(seen[cell] > settings.staleAfter) /\ ~Silent
             /\ fresh.availability = "paused" <=> ~Demanded
             /\ fresh.availability = "paused" =>
                  fresh.error = FALSE \/ (component = "temperature" /\ readFailed)
<1>1. CASE component # "temperature" \/ ~readFailed
  <2>1. SourceOf("temperature") = "imu"
        BY Zenon DEF SourceOf
  <2>2. FreshnessOf(component) = Freshness(SourceOf(component))
        BY <1>1, <2>1 DEF FreshnessOf, TemperatureFreshness
  <2> QED
      BY <2>2, SourcesAreCells, FreshnessShows
<1>2. CASE component = "temperature" /\ readFailed
  <2>1. "imu" \in Cells
        BY DEF Cells, Sources
  <2>2. FreshnessOf(component).availability =
          IF Freshness("imu").availability = "paused" THEN "paused"
          ELSE IF reading["imu"] # None THEN "stale" ELSE "unavailable"
        BY <1>2 DEF FreshnessOf, TemperatureFreshness
  <2>3. Freshness("imu").availability = "paused" <=> ~Demanded
        BY <2>1, FreshnessShows
  <2> QED
      BY <1>2, <2>2, <2>3
<1> QED
    BY <1>1, <1>2

(* One snapshot tells one story, for every configuration and device: what   *)
(* is current was heard in this session, in time and while the stream is   *)
(* not silent, and a pause is a pause of everything.                       *)
THEOREM StoryIsOne == Spec => []OneStory
<1>1. Inv => OneStory
  <2> SUFFICES ASSUME Inv, settings # None, NEW component \in FromLogs
               PROVE  LET told_of == Now(component)
                          source == SourceOf(component)
                      IN  /\ told_of.availability = "current" =>
                               /\ seen[source] <= sessionAge /\ seen[source] <= settings.staleAfter
                               /\ session["log"]
                               /\ Now("stream").level # Error
                          /\ told_of.availability = "paused" <=>
                               Now("stream").availability = "paused"
                          /\ told_of.availability = "paused" /\ told_of.error =>
                               component = "temperature" /\ readFailed
      BY DEF OneStory
  <2> DEFINE fresh == FreshnessOf(component)
             source == SourceOf(component)
  <2>1. Now(component).availability = fresh.availability /\ Now(component).error = fresh.error
        BY ReportShows, ComponentShows DEF Now
  <2>2. Now("stream").level = Error <=> Silent
        BY StreamShows DEF Now
  <2>3. Now("stream").availability = IF Demanded THEN "current" ELSE "paused"
        BY StreamShows DEF Now
  <2>4. ASSUME fresh.availability = "current"
        PROVE  /\ seen[source] <= sessionAge /\ seen[source] <= settings.staleAfter
               /\ session["log"] /\ ~Silent
    <3>1. session[source] /\ ~(seen[source] > settings.staleAfter) /\ ~Silent
          BY <2>4, FreshnessOfShows
    <3>2. seen[source] \in Ages /\ seen[source] <= sessionAge /\ session["log"]
          BY <3>1, SourcesAreCells DEF Inv, SessionKept
    <3>3. settings.staleAfter \in Int
          BY TypeParts, ReporterAssumption DEF Inv, NodeOK, SettingsType
    <3> QED
        BY <3>1, <3>2, <3>3, ReporterAssumption DEF Ages
  <2> HIDE DEF fresh
  <2>5. fresh.availability = "paused" <=> ~Demanded
        BY FreshnessOfShows DEF fresh
  <2>6. fresh.availability = "paused" =>
          fresh.error = FALSE \/ (component = "temperature" /\ readFailed)
        BY FreshnessOfShows DEF fresh
  <2> QED
      BY <2>1, <2>2, <2>3, <2>4, <2>5, <2>6
<1> QED
    BY <1>1, Invariance, PTL

-----------------------------------------------------------------------------
(* The level of a component depends on the last readings only.             *)

LevelOf(component, read, failed, raised, set) ==
  CASE component = "device"        -> Ok
    [] component = "sensor alerts" -> Worst(raised)
    [] component = "imu"           -> IF read["imu_status"] = TRUE THEN Ok ELSE Error
    [] component = "ekf"           -> IF read["ekf"] = None THEN Ok ELSE EkfLevel(read["ekf"])
    [] component = "gnss"          -> GnssLevel(read["gnss"], set.requiredFix)
    [] component = "gnss heading"  -> IF read["hdt"] = TRUE THEN Ok ELSE Warn
    [] component = "temperature"   -> IF read["imu"] # None
                                      THEN TemperatureLevel(set.limits, read["imu"])
                                      ELSE IF failed THEN Warn ELSE StaleLevel
    [] OTHER                       -> IF component \in raised THEN AlertLevel(component) ELSE Ok

Level(component) == LevelOf(component, reading, readFailed, Raised, settings)

Kinds == {"device", "sensor alerts", "imu", "ekf", "gnss", "gnss heading", "temperature"}

LEMMA ObservedShows ==
  \A component : component \in Observed =>
    Now(component) = Component(Level(component), FreshnessOf(component))
<1> SUFFICES ASSUME NEW component, component \in Observed
             PROVE  Now(component) = Component(Level(component), FreshnessOf(component))
    OBVIOUS
<1>0. seen[SourceOf(component)] # None /\ component # "service" /\ component # "stream"
      BY DEF Observed, FromLogs
<1>1. CASE component = "device"
      BY <1>0, <1>1, Zenon DEF Now, Report, Of, FreshnessOf, SourceOf, Level, LevelOf
<1>2. CASE component = "sensor alerts"
      BY <1>0, <1>2, Zenon DEF Now, Report, Of, FreshnessOf, SourceOf, Level, LevelOf
<1>3. CASE component = "imu"
      BY <1>0, <1>3, Zenon DEF Now, Report, Of, FreshnessOf, SourceOf, Level, LevelOf
<1>4. CASE component = "temperature"
      BY <1>4, Zenon DEF Now, Report, Temperature, FreshnessOf, Level, LevelOf
<1>5. CASE component = "ekf"
      BY <1>0, <1>5, Zenon DEF Now, Report, Of, FreshnessOf, SourceOf, Level, LevelOf
<1>6. CASE component = "gnss"
      BY <1>0, <1>6, Zenon DEF Now, Report, Of, FreshnessOf, SourceOf, Level, LevelOf
<1>7. CASE component = "gnss heading"
      BY <1>0, <1>7, Zenon DEF Now, Report, Of, FreshnessOf, SourceOf, Level, LevelOf
<1>8. CASE component \notin Kinds
      BY <1>0, <1>8, Zenon DEF Kinds, Now, Report, Alert, FreshnessOf, SourceOf, Level, LevelOf
<1> QED
    BY <1>1, <1>2, <1>3, <1>4, <1>5, <1>6, <1>7, <1>8 DEF Kinds

LEMMA LevelsAreLevels ==
  ASSUME NEW component, NEW read, NEW failed, NEW raised, NEW set
  PROVE  LevelOf(component, read, failed, raised, set) # None
<1>0. Ok # None /\ Warn # None /\ Error # None /\ StaleLevel # None
      BY ReporterAssumption DEF Ok, Warn, Error, StaleLevel
<1>1. Worst(raised) # None
  <2> DEFINE S == {AlertLevel(code) : code \in raised} \cup {Ok}
  <2>1. S \subseteq {0, 1, 2} /\ S # {}
        BY DEF AlertLevel, Ok, Warn, Error
  <2> HIDE DEF S
  <2>2. \E x \in S : \A y \in S : x >= y
    <3>1. CASE 2 \in S
          BY <2>1, <3>1
    <3>2. CASE 2 \notin S /\ 1 \in S
          BY <2>1, <3>2
    <3>3. CASE 2 \notin S /\ 1 \notin S
      <4>1. S = {0}
            BY <2>1, <3>3
      <4> QED
          BY <4>1
    <3> QED
        BY <3>1, <3>2, <3>3
  <2>3. Max(S) \in S
        BY <2>2 DEF Max
  <2> QED
      BY <2>1, <2>3, ReporterAssumption DEF Worst, S
<1>2. AlertLevel(component) # None
      BY <1>0 DEF AlertLevel
<1>3. EkfLevel(read["ekf"]) # None
      BY <1>0 DEF EkfLevel
<1>4. GnssLevel(read["gnss"], set.requiredFix) # None
      BY <1>0 DEF GnssLevel
<1>5. TemperatureLevel(set.limits, read["imu"]) # None
      BY <1>0 DEF TemperatureLevel
<1> QED
    BY <1>0, <1>1, <1>2, <1>3, <1>4, <1>5, Zenon DEF LevelOf

(* What was raised stays in the inventory, and what a component has been   *)
(* heard of stays heard.                                                   *)
LEMMA KnownGrows ==
  ASSUME Inv, [Next]_vars
  PROVE  known \subseteq known' /\ \A cell \in Cells : seen[cell] # None => seen'[cell] # None
<1>0. 0 # None /\ \A age : age # None /\ age \in Ages => Older(age) # None
      BY ReporterAssumption DEF Older, Ages
<1>0a. seen \in [Cells -> Ages \cup {None}]
       BY DEF Inv, TypeOK
<1>1. CASE NoteLog
  <2>1. PICK kind \in Logs : \E observed \in Observations(kind) : Take(observed)
        BY <1>1 DEF NoteLog
  <2>2. PICK observed \in Observations(kind) : Take(observed)
        BY <2>1
  <2> QED
      BY <1>0, <2>2 DEF Take
<1>2. CASE Tick
      BY <1>0, <1>0a, <1>2 DEF Tick
<1>3. CASE UNCHANGED <<seen, known>>
      BY <1>3
<1> QED
    BY <1>1, <1>2, <1>3
    DEF Next, Configure, BeginTransition, ActivatePublishers, EnterActive, StartIo,
        ActivationFailed, Deactivated, Cleanup, LifecycleError, Shutdown, StopPublisher, PauseStream, Release,
        ResumeStream, CountUp, DeviceRestart, Publish, vars, cells

LEMMA RaisedShows ==
  Inv => Raised = IF reading["status"] = None THEN {} ELSE reading["status"] \ settings.ignored
BY DEF Inv, StatusKnown, Raised, Shown

(* The verdict of an observed component is its level, fresh or stale. *)
LEMMA VerdictIsLevel ==
  \A component : component \in Observed => Verdict(Now(component)) = Level(component)
<1> SUFFICES ASSUME NEW component, component \in Observed
             PROVE  Verdict(Now(component)) = Level(component)
    OBVIOUS
<1>1. Now(component) = Component(Level(component), FreshnessOf(component))
      BY ObservedShows
<1>2. Level(component) # None
      BY LevelsAreLevels DEF Level
<1> QED
    BY <1>1, <1>2, ComponentShows

(* A verdict stands until something new is observed, for every             *)
(* configuration and device: neither silence nor a pause nor a new session *)
(* changes it or takes the component from the inventory.                   *)
THEOREM VerdictsStand == Spec => VerdictStands
<1> DEFINE Stands ==
      settings # None /\ settings' = settings =>
        /\ Inventory \subseteq Inventory'
        /\ <<reading, readFailed>>' = <<reading, readFailed>> =>
             \A component \in Observed :
               LET said == Now(component)
                   says == Now(component)'
               IN  Verdict(says) = Verdict(said)
<1>1. (\A component : component \in Observed => Verdict(Now(component)) = Level(component))'
      BY VerdictIsLevel, PTL
<1>2. (Inv => Raised = IF reading["status"] = None THEN {} ELSE reading["status"] \ settings.ignored)'
      BY RaisedShows, PTL
<1>3. Inv /\ Inv' /\ [Next]_vars => Stands
  <2> SUFFICES ASSUME Inv, Inv', [Next]_vars, settings # None, settings' = settings
               PROVE  /\ Inventory \subseteq Inventory'
                      /\ <<reading, readFailed>>' = <<reading, readFailed>> =>
                           \A component \in Observed :
                             Verdict(Now(component)') = Verdict(Now(component))
      BY Zenon
  <2>1. known \subseteq known' /\ \A cell \in Cells : seen[cell] # None => seen'[cell] # None
        BY KnownGrows
  <2>2. \A component : seen[SourceOf(component)] # None => seen'[SourceOf(component)] # None
        BY <2>1, SourcesAreCells
  <2>3. Inventory \subseteq Inventory'
        BY <2>1, <2>2 DEF Inventory, Shown
  <2>4. ASSUME reading' = reading, readFailed' = readFailed, NEW component \in Observed
        PROVE  Verdict(Now(component)') = Verdict(Now(component))
    <3>1. component \in Observed'
          BY <2>2, <2>3, <2>4 DEF Observed, FromLogs
    <3>2. Raised' = Raised
          BY <1>2, <2>4, RaisedShows
    <3>3. Level(component)' = Level(component)
          BY <2>4, <3>2 DEF Level
    <3>4. Verdict(Now(component)) = Level(component)
          BY <2>4, VerdictIsLevel
    <3>5. Verdict(Now(component)') = Level(component)'
          BY <1>1, <3>1
    <3> QED
        BY <3>3, <3>4, <3>5
  <2> QED
      BY <2>3, <2>4
<1> QED
    BY <1>3, Invariance, PTL DEF VerdictStands, Spec

=============================================================================
