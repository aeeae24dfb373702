--------------------------- MODULE HealthReporter ---------------------------
(***************************************************************************)
(* The health reporter (sbg_driver/src/health.cpp): observations of the    *)
(* device's logs and of the driver's own state, and the components a       *)
(* snapshot makes of them for /diagnostics.                                *)
(*                                                                         *)
(* Three threads call it, one at a time under its mutex: the executor      *)
(* (lifecycle callbacks and services), the thread that dispatches logs,    *)
(* and the health publisher's.  A log and what is observed of it are one   *)
(* step, and so are the reading of the drop counter and the snapshot it    *)
(* is for.  Instants are ages, in ticks, counted up to Horizon: no verdict *)
(* depends on how much older.                                              *)
(***************************************************************************)
EXTENDS Integers, FiniteSets, FiniteSetsExt

CONSTANTS
  Logs,          \* the kinds of log the device streams
  Settings,      \* the settings a configuration may ask for
  Faults,        \* the status flags the device may clear
  Temperatures,  \* the temperatures,
  EkfWords,      \* EKF status words,
  Positions,     \* and GNSS solutions it may report
  Counted,       \* the counters that may grow
  MaxCount,      \* bound: and how far
  Horizon,       \* bound: ages are counted up to here
  NonFinite,     \* a reading that is no number
  None           \* an empty optional

-----------------------------------------------------------------------------
(* Levels, alerts and settings.                                            *)

Ok == 0
Warn == 1
Error == 2
StaleLevel == 3
Levels == {Ok, Warn, Error, StaleLevel}

(* k_health_alerts: a status flag that is cleared raises its alert.        *)
WarnCodes == {"DATALOGGER", "CPU"}
ErrorCodes == {"MAIN_POWER", "IMU_POWER", "GPS_POWER", "SETTINGS", "TEMPERATURE"}
Codes == WarnCodes \cup ErrorCodes
AlertLevel(code) == IF code \in ErrorCodes THEN Error ELSE Warn

Fixes == {"none", "fix", "rtk_float", "rtk_fixed"}

(* Of two bounds on the same side the warning is the inner one. *)
Inner(warn, error) == IF warn # None THEN warn ELSE error

BoundsOrdered(limits) ==
  /\ NonFinite \notin
       {limits.warnAbove, limits.warnBelow, limits.errorAbove, limits.errorBelow}
  /\ limits.warnAbove # None /\ limits.errorAbove # None => limits.errorAbove >= limits.warnAbove
  /\ limits.warnBelow # None /\ limits.errorBelow # None => limits.errorBelow <= limits.warnBelow

(* ... and leave room between them. *)
ValidLimits(limits) ==
  LET upper == Inner(limits.warnAbove, limits.errorAbove)
      lower == Inner(limits.warnBelow, limits.errorBelow)
  IN  /\ BoundsOrdered(limits)
      /\ upper # None /\ lower # None => lower < upper

(* validate; whether the names are single path segments is all they matter for. *)
Valid(asked) ==
  /\ asked.named
  /\ asked.interval > 0 /\ asked.staleAfter > 0 /\ asked.streamTimeout > 0
  /\ asked.staleAfter >= 2 * asked.interval
  /\ ValidLimits(asked.limits)
  /\ asked.ignored \subseteq Codes

(* apply_limits: errors before warnings. *)
Above(value, bound) == bound # None /\ value > bound
Below(value, bound) == bound # None /\ value < bound

TemperatureLevel(limits, value) ==
  IF Above(value, limits.errorAbove) \/ Below(value, limits.errorBelow) THEN Error
  ELSE IF Above(value, limits.warnAbove) \/ Below(value, limits.warnBelow) THEN Warn
  ELSE Ok

-----------------------------------------------------------------------------
(* What a single reading says.                                             *)

(* A navigation mode cannot override an invalid estimate it depends on. *)
EkfInvalid(word) ==
  \/ word.mode # 0 /\ "attitude" \notin word.valid
  \/ word.mode = 4 /\ "position" \notin word.valid
  \/ word.mode \in 3 .. 4 /\ "velocity" \notin word.valid

EkfDegraded(word) == word.mode \notin 3 .. 4 \/ "heading" \notin word.valid

EkfLevel(word) ==
  IF word.mode = 0 \/ EkfInvalid(word) THEN Error ELSE IF EkfDegraded(word) THEN Warn ELSE Ok

Computed(position) == position.solved /\ position.type # "none"

(* Is the fix at least as good as the deployment expects? *)
FixMet(position, required) ==
  \/ required = "none"
  \/ required = "fix" /\ Computed(position)
  \/ required = "rtk_float" /\ Computed(position) /\ position.type \in {"rtk_float", "rtk_fixed"}
  \/ required = "rtk_fixed" /\ Computed(position) /\ position.type = "rtk_fixed"

GnssLevel(position, required) == IF FixMet(position, required) THEN Ok ELSE Warn

-----------------------------------------------------------------------------
(* The logs, and the observations each is taken for.                       *)

Sources == {"status", "imu_status", "imu", "ekf", "gnss", "hdt"}
Cells == Sources \cup {"log"}

(* What each source may say; an IMU status and a heading are told apart by *)
(* whether they are good.                                                  *)
Values ==
  [status |-> SUBSET Faults, imu_status |-> BOOLEAN, imu |-> Temperatures,
   ekf |-> EkfWords, gnss |-> Positions, hdt |-> BOOLEAN]

(* observe_log: what a log of each kind says, to the sources it feeds; a   *)
(* log of the secondary receiver is one of another kind.                   *)
Observations(kind) ==
  CASE kind = "Status"  -> [status : Values.status]
    [] kind = "Imu"     -> [imu_status : Values.imu_status, imu : Values.imu]
    [] kind = "EkfNav"  -> [ekf : Values.ekf]
    [] kind = "GnssPos" -> [gnss : Values.gnss]
    [] kind = "GnssHdt" -> [hdt : Values.hdt]
    [] OTHER            -> {<<>>}

Limits ==
  LET Bound == Int \cup {None, NonFinite}
  IN  [warnAbove : Bound, warnBelow : Bound, errorAbove : Bound, errorBelow : Bound]

SettingsType ==
  [named : BOOLEAN, interval : Int, staleAfter : Int, streamTimeout : Int,
   limits : Limits, requiredFix : Fixes, ignored : SUBSET STRING]

ASSUME ReporterAssumption ==
  /\ Settings \subseteq SettingsType
  /\ Faults \subseteq Codes
  /\ Temperatures \subseteq Int \cup {NonFinite}
  /\ EkfWords \subseteq [mode : 0 .. 15, valid : SUBSET {"attitude", "heading", "velocity", "position"}]
  /\ Positions \subseteq [solved : BOOLEAN, type : Fixes]
  /\ Counted \subseteq {"drops", "exceptions"}
  /\ MaxCount \in Nat
  /\ Horizon \in Nat
  /\ \A asked \in Settings : asked.staleAfter < Horizon /\ asked.streamTimeout < Horizon
  /\ None \notin Int /\ NonFinite \notin Int /\ None # NonFinite
  /\ None \notin EkfWords /\ None \notin Positions /\ None \notin BOOLEAN
  /\ None \notin Settings /\ \A faults \in SUBSET Faults : faults # None

-----------------------------------------------------------------------------
VARIABLES
  state,       \* the operational state the node declared
  transition,  \* how far a transition is
  faulted,     \* why the node fell back is on record
  released,    \* the link was dropped to let the unit reboot
  paused,      \* a device command owns the link
  linked,      \* the device is open and its logs are dispatched
  reporting,   \* the publisher's thread runs
  settings,    \* the settings in force
  sessionAge,  \* since session_started_
  sinceAge,    \* since stream_since_
  seen,        \* of each cell, since its last observation
  session,     \* is that observation of this session?
  reading,     \* the last value of each source
  readFailed,  \* the last temperature was no number
  known,       \* the alerts raised at least once: alert_known_
  counter,     \* the drops and the exceptions counted so far
  growth,      \* what the last snapshots made of them
  quiet,       \* history: since the last log, or since logs are demanded
  alarmed,     \* history: a snapshot has shown the stream in error since then
  lost         \* history: since the last drop still counted that no snapshot has seen

node == <<state, transition, faulted, released, paused, linked, reporting, settings>>
cells == <<seen, session, reading, readFailed, known>>
ages == <<sessionAge, sinceAge, quiet>>
counts == <<counter, growth, lost>>
vars == <<node, cells, ages, counts, alarmed>>

States == {"Unconfigured", "Standby", "Transitioning", "Active", "Shutdown"}
Ages == 0 .. Horizon
Growths == [last : 0 .. MaxCount, grew : Ages]

TypeOK ==
  /\ state \in States
  /\ transition \in {"none", "activating", "opened", "entered", "deactivating"}
  /\ faulted \in BOOLEAN /\ released \in BOOLEAN /\ paused \in BOOLEAN
  /\ linked \in BOOLEAN /\ reporting \in BOOLEAN
  /\ readFailed \in BOOLEAN /\ lost \in Ages \cup {None}
  /\ settings \in {asked \in Settings : Valid(asked)} \cup {None}
  /\ sessionAge \in Ages /\ sinceAge \in Ages /\ quiet \in Ages
  /\ seen \in [Cells -> Ages \cup {None}]
  /\ session \in [Cells -> BOOLEAN]
  /\ DOMAIN reading = Sources
  /\ \A source \in Sources : reading[source] = None \/ reading[source] \in Values[source]
  /\ known \subseteq Codes
  /\ counter \in [{"drops", "exceptions"} -> 0 .. MaxCount]
  /\ growth \in [{"drops", "exceptions"} -> Growths]
  /\ alarmed \in BOOLEAN

Init ==
  /\ state = "Unconfigured" /\ transition = "none"
  /\ faulted = FALSE /\ released = FALSE /\ paused = FALSE
  /\ linked = FALSE /\ reporting = FALSE
  /\ settings = None
  /\ sessionAge = Horizon /\ sinceAge = Horizon /\ quiet = Horizon
  /\ seen = [cell \in Cells |-> None]
  /\ session = [cell \in Cells |-> FALSE]
  /\ reading = [source \in Sources |-> None]
  /\ readFailed = FALSE /\ known = {}
  /\ counter = [c \in {"drops", "exceptions"} |-> 0]
  /\ growth = [c \in {"drops", "exceptions"} |-> [last |-> 0, grew |-> Horizon]]
  /\ lost = None /\ alarmed = FALSE

-----------------------------------------------------------------------------
(* A snapshot: the level of every component, the level it last had when it *)
(* is stale, how available it is, and whether that is an error.            *)

Demanded == state = "Active" /\ ~released /\ ~paused

(* stream_at: a log counts once it is newer than the demand *)
Heard == session["log"] /\ seen["log"] < sinceAge
(* Mutant: the log before a command counts against the time after it. *)
SilenceSinceLastLog == IF session["log"] THEN seen["log"] ELSE sinceAge

Silence == IF Heard THEN seen["log"] ELSE sinceAge
(* Mutant: silence is only measured from a first log on. *)
SilentOnceHeard == Demanded /\ session["log"] /\ Silence > settings.streamTimeout

Silent == Demanded /\ Silence > settings.streamTimeout

(* Mutant: an observation of the previous session is as good as one of this. *)
FreshnessOfAnySession(cell) ==
  IF ~Demanded THEN [availability |-> "paused", error |-> FALSE]
  ELSE IF seen[cell] = None THEN
    [availability |-> "unavailable", error |-> sessionAge > settings.staleAfter]
  ELSE IF seen[cell] > settings.staleAfter THEN [availability |-> "stale", error |-> TRUE]
  ELSE IF Silent THEN [availability |-> "retrying", error |-> TRUE]
  ELSE [availability |-> "current", error |-> FALSE]

Freshness(cell) ==
  IF ~Demanded THEN [availability |-> "paused", error |-> FALSE]
  ELSE IF ~session[cell] THEN
    [availability |-> IF seen[cell] # None THEN "stale" ELSE "unavailable",
     error |-> sessionAge > settings.staleAfter]
  ELSE IF seen[cell] > settings.staleAfter THEN [availability |-> "stale", error |-> TRUE]
  ELSE IF Silent THEN [availability |-> "retrying", error |-> TRUE]
  ELSE [availability |-> "current", error |-> FALSE]

(* Mutant: a stale component forgets what it last said. *)
ComponentForgets(level, fresh) ==
  [level |-> IF fresh.availability = "stale" THEN StaleLevel ELSE level, last |-> None,
   availability |-> fresh.availability, error |-> fresh.error]

(* make and finish: the last verdict travels with the stale level *)
Component(level, fresh) ==
  LET stale == fresh.availability = "stale" /\ level # StaleLevel
  IN  [level |-> IF stale THEN StaleLevel ELSE level,
       last |-> IF stale THEN level ELSE None,
       availability |-> fresh.availability, error |-> fresh.error]

(* Mutant: a counter that starts over counts as growth. *)
GrowingOnChange(c, value) ==
  IF value # growth[c].last THEN [last |-> value, grew |-> 0] ELSE growth[c]

(* Growth::update: a smaller value is its owner starting over, not growth. *)
Growing(c, value) ==
  IF value > growth[c].last THEN [last |-> value, grew |-> 0] ELSE [growth[c] EXCEPT !.last = value]

Recent(c, value) == Growing(c, value).grew <= settings.staleAfter

Service ==
  LET level == IF faulted THEN Error
               ELSE IF state = "Active" /\ released THEN Warn
               ELSE IF Recent("exceptions", counter["exceptions"]) THEN Warn
               ELSE Ok
  IN  Component(level, [availability |-> "current", error |-> FALSE])

StreamComponent(drops) ==
  LET level == IF ~Demanded THEN Ok
               ELSE IF Silent THEN Error
               ELSE IF ~session["log"] THEN Warn
               ELSE IF Recent("drops", drops) THEN Warn
               ELSE Ok
  IN  Component(level, [availability |-> IF Demanded THEN "current" ELSE "paused", error |-> FALSE])

(* A component that exists before its source is heard is stale until then. *)
Of(source, level) ==
  Component(IF seen[source] = None THEN StaleLevel ELSE level, Freshness(source))

Shown == known \ settings.ignored
Raised == {code \in Shown : code \in reading["status"]}

Worst(alerts) == Max({AlertLevel(code) : code \in alerts} \cup {Ok})

Alert(code) ==
  Component(IF code \in Raised THEN AlertLevel(code) ELSE Ok, Freshness("status"))

(* A read that failed leaves the last valid temperature standing. *)
TemperatureFreshness ==
  LET fresh == Freshness("imu")
  IN  IF ~readFailed THEN fresh
      ELSE [availability |-> IF fresh.availability = "paused" THEN "paused"
                             ELSE IF reading["imu"] # None THEN "stale" ELSE "unavailable",
            error |-> TRUE]

Temperature ==
  LET level == IF reading["imu"] # None THEN TemperatureLevel(settings.limits, reading["imu"])
               ELSE IF readFailed THEN Warn
               ELSE StaleLevel
  IN  Component(level, TemperatureFreshness)

SourceOf(component) ==
  CASE component = "imu"          -> "imu_status"
    [] component = "temperature"  -> "imu"
    [] component = "ekf"          -> "ekf"
    [] component = "gnss"         -> "gnss"
    [] component = "gnss heading" -> "hdt"
    [] OTHER                      -> "status"

(* The GNSS components exist from their first log on, an alert since it rose. *)
Inventory ==
  {"service", "stream", "device", "sensor alerts", "imu", "temperature", "ekf"}
    \cup {component \in {"gnss", "gnss heading"} : seen[SourceOf(component)] # None}
    \cup Shown

Report(component, drops) ==
  CASE component = "service"       -> Service
    [] component = "stream"        -> StreamComponent(drops)
    [] component = "device"        -> Of("status", Ok)
    [] component = "sensor alerts" -> Of("status", Worst(Raised))
    [] component = "imu"           -> Of("imu_status", IF reading["imu_status"] = TRUE THEN Ok ELSE Error)
    [] component = "temperature"   -> Temperature
    [] component = "ekf"           -> Of("ekf", IF reading["ekf"] = None THEN Ok ELSE EkfLevel(reading["ekf"]))
    [] component = "gnss"          -> Of("gnss", GnssLevel(reading["gnss"], settings.requiredFix))
    [] component = "gnss heading"  -> Of("hdt", IF reading["hdt"] = TRUE THEN Ok ELSE Warn)
    [] OTHER                       -> Alert(component)

-----------------------------------------------------------------------------
(* The lifecycle callbacks and the services, on the executor.              *)

ChangeState(next, fault) ==
  /\ state' = next /\ faulted' = fault
  /\ released' = FALSE /\ paused' = FALSE

(* reset_stream_state sets the drop counter to zero; health is not told. *)
DropsStartOver ==
  /\ counter' = [counter EXCEPT !["drops"] = 0]
  /\ lost' = None
  /\ UNCHANGED growth

Configure ==
  /\ state = "Unconfigured" /\ ~reporting
  /\ \E asked \in Settings : Valid(asked) /\ settings' = asked
  /\ ChangeState("Standby", FALSE)
  /\ reporting' = TRUE
  /\ DropsStartOver
  /\ UNCHANGED <<transition, linked, cells, ages, alarmed>>

BeginTransition ==
  /\ ~paused /\ transition = "none"
  /\ \/ state = "Standby" /\ transition' = "activating"
     \/ state = "Active" /\ transition' = "deactivating"
  /\ ChangeState("Transitioning", FALSE)
  /\ UNCHANGED <<linked, reporting, settings, cells, ages, counts, alarmed>>

(* publishers_->activate() *)
ActivatePublishers ==
  /\ transition = "activating" /\ transition' = "opened"
  /\ DropsStartOver
  /\ UNCHANGED <<state, faulted, released, paused, linked, reporting, settings,
                 cells, ages, alarmed>>

EnterActive ==
  /\ transition = "opened" /\ transition' = "entered"
  /\ ChangeState("Active", FALSE)
  /\ sessionAge' = 0 /\ sinceAge' = 0 /\ quiet' = 0
  /\ session' = [cell \in Cells |-> FALSE]
  /\ alarmed' = FALSE
  /\ UNCHANGED <<linked, reporting, settings, seen, reading, readFailed, known, counts>>

(* The thread that dispatches the logs starts after enter_active. *)
StartIo ==
  /\ transition = "entered" /\ transition' = "none"
  /\ linked' = TRUE
  /\ UNCHANGED <<state, faulted, released, paused, reporting, settings,
                 cells, ages, counts, alarmed>>

ActivationFailed ==
  /\ transition = "activating" /\ transition' = "none"
  /\ ChangeState("Standby", TRUE)
  /\ UNCHANGED <<linked, reporting, settings, cells, ages, counts, alarmed>>

(* stop_streaming has joined the thread that dispatches the logs *)
Deactivated ==
  /\ transition = "deactivating" /\ transition' = "none"
  /\ ChangeState("Standby", FALSE)
  /\ linked' = FALSE
  /\ UNCHANGED <<reporting, settings, cells, ages, counts, alarmed>>

Cleanup ==
  /\ state = "Standby"
  /\ ChangeState("Unconfigured", FALSE)
  /\ UNCHANGED <<transition, linked, reporting, settings, cells, ages, counts, alarmed>>

(* on_error, after a callback threw; on_activate still can in start_io, *)
(* when health already shows the node active.                           *)
LifecycleError ==
  /\ state \in {"Unconfigured", "Standby", "Transitioning"} \/ transition = "entered"
  /\ ChangeState("Unconfigured", TRUE)
  /\ transition' = "none" /\ linked' = FALSE
  /\ UNCHANGED <<reporting, settings, cells, ages, counts, alarmed>>

Shutdown ==
  /\ state \in {"Unconfigured", "Standby", "Active"} /\ ~paused /\ transition = "none"
  /\ ChangeState("Shutdown", FALSE)
  /\ linked' = FALSE
  /\ UNCHANGED <<transition, reporting, settings, cells, ages, counts, alarmed>>

(* release_resources, after the last snapshot *)
StopPublisher ==
  /\ state \in {"Unconfigured", "Shutdown"} /\ reporting
  /\ reporting' = FALSE
  /\ UNCHANGED <<state, transition, faulted, released, paused, linked, settings,
                 cells, ages, counts, alarmed>>

PauseStream ==
  /\ state = "Active" /\ linked /\ ~paused
  /\ paused' = TRUE
  /\ UNCHANGED <<state, transition, faulted, released, linked, reporting, settings,
                 cells, ages, counts, alarmed>>

(* A settings save reboots the unit: the link is dropped inside the pause. *)
Release ==
  /\ paused /\ linked
  /\ released' = TRUE /\ linked' = FALSE
  /\ UNCHANGED <<state, transition, faulted, paused, reporting, settings,
                 cells, ages, counts, alarmed>>

ResumeStream ==
  /\ paused
  /\ paused' = FALSE /\ sinceAge' = 0
  /\ quiet' = 0 /\ alarmed' = FALSE
  /\ UNCHANGED <<state, transition, faulted, released, linked, reporting, settings,
                 cells, sessionAge, counts>>

-----------------------------------------------------------------------------
(* The logs, on the thread that dispatches them.                           *)

(* The observations of a log: a reading that is no number leaves the       *)
(* temperature of before standing.                                         *)
Take(observed) ==
  LET taken == {source \in DOMAIN observed : observed[source] # NonFinite}
      touched == taken \cup {"log"}
  IN  /\ seen' = [cell \in Cells |-> IF cell \in touched THEN 0 ELSE seen[cell]]
      /\ session' = [cell \in Cells |-> cell \in touched \/ session[cell]]
      /\ reading' = [source \in Sources |->
                       IF source \in taken THEN observed[source] ELSE reading[source]]
      /\ readFailed' = IF "imu" \in DOMAIN observed THEN "imu" \notin taken ELSE readFailed
      /\ known' = IF "status" \in taken THEN known \cup observed["status"] ELSE known

(* note_log, then what observe_log takes from the log, all before on_log *)
NoteLog ==
  /\ linked
  /\ \E kind \in Logs : \E observed \in Observations(kind) : Take(observed)
  /\ quiet' = 0 /\ alarmed' = FALSE
  /\ UNCHANGED <<node, sessionAge, sinceAge, counts>>

(* The composer drops an epoch, or the handling of a log throws: there was *)
(* a log in this session, and observe_log came before on_log.              *)
CountUp(c) ==
  /\ linked /\ session["log"] /\ counter[c] < MaxCount
  /\ counter' = [counter EXCEPT ![c] = @ + 1]
  /\ lost' = IF c = "drops" THEN 0 ELSE lost
  /\ UNCHANGED <<node, cells, ages, growth, alarmed>>

(* reset_stream_state: the composer starts over with a device that did *)
DeviceRestart ==
  /\ linked /\ session["log"]
  /\ DropsStartOver
  /\ UNCHANGED <<node, cells, ages, alarmed>>

-----------------------------------------------------------------------------
(* The publisher's thread: publish_once, at every heartbeat or on demand.  *)

Publish ==
  /\ reporting
  /\ alarmed' = (alarmed \/ Report("stream", counter["drops"]).level = Error)
  /\ growth' = [c \in DOMAIN growth |-> Growing(c, counter[c])]
  /\ lost' = None
  /\ UNCHANGED <<node, cells, ages, counter>>

Older(age) == IF age = None \/ age = Horizon THEN age ELSE age + 1

Tick ==
  /\ seen' = [cell \in Cells |-> Older(seen[cell])]
  /\ growth' = [c \in DOMAIN growth |-> [growth[c] EXCEPT !.grew = Older(@)]]
  /\ sessionAge' = Older(sessionAge) /\ sinceAge' = Older(sinceAge) /\ quiet' = Older(quiet)
  /\ lost' = Older(lost)
  /\ UNCHANGED <<node, session, reading, readFailed, known, counter, alarmed>>

Next ==
  \/ Configure \/ BeginTransition \/ ActivatePublishers \/ EnterActive \/ StartIo \/ ActivationFailed
  \/ Deactivated \/ Cleanup \/ LifecycleError \/ Shutdown \/ StopPublisher
  \/ PauseStream \/ Release \/ ResumeStream
  \/ NoteLog \/ (\E c \in Counted : CountUp(c)) \/ DeviceRestart
  \/ Publish \/ Tick

(* Time passes and the heartbeats come; logs, commands and callbacks need not. *)
Fairness == WF_vars(Tick) /\ WF_vars(Publish)

Spec == Init /\ [][Next]_vars /\ Fairness

-----------------------------------------------------------------------------
(* Properties.                                                             *)

Now(component) == Report(component, counter["drops"])
Verdict(component) == IF component.last # None THEN component.last ELSE component.level
FromLogs == Inventory \ {"service", "stream"}
Observed == {component \in FromLogs : seen[SourceOf(component)] # None}

(* One snapshot tells one story (freshness, add_stream): a source is        *)
(* current only if it was heard in this session, within its validity, and  *)
(* the stream as a whole is not silent; nothing is current before the      *)
(* session's first log; and while nothing is asked of the device, every    *)
(* component is paused and none of them is missing anything but a          *)
(* temperature that could not be read.                                     *)
OneStory ==
  settings # None =>
    \A component \in FromLogs :
      LET told_of == Now(component)
          source == SourceOf(component)
      IN  /\ told_of.availability = "current" =>
               /\ seen[source] <= sessionAge /\ seen[source] <= settings.staleAfter
               /\ session["log"]
               /\ Now("stream").level # Error
          /\ told_of.availability = "paused" <=> Now("stream").availability = "paused"
          /\ told_of.availability = "paused" /\ told_of.error => component = "temperature" /\ readFailed

(* The stream's error is the device's silence (stream_at): it shows exactly *)
(* when no log has come for longer than the timeout although the device    *)
(* was asked for them all that time, so that neither a command's pause nor *)
(* the time before an activation counts as silence or hides it.            *)
SilenceIsTheDevices ==
  settings # None =>
    (Now("stream").level = Error <=> Demanded /\ quiet > settings.streamTimeout)

(* What a component last said stands until a new observation or new        *)
(* settings change it (finish, add_device, alert_known_): silence, pauses, *)
(* standby and a new session make it stale or paused, never better or      *)
(* worse, and never drop it from the inventory, so that a consumer does    *)
(* not take a fault for resolved because its entry is gone.                *)
VerdictStands ==
  [][ settings # None /\ settings' = settings =>
        /\ Inventory \subseteq Inventory'
        /\ <<reading, readFailed>>' = <<reading, readFailed>> =>
             \A component \in Observed :
               LET said == Now(component)
                   says == Now(component)'
               IN  Verdict(says) = Verdict(said) ]_vars

(* A counter that starts over is not growth (Growth::update): a snapshot   *)
(* dates the drops to now only if one that the counter still counts came   *)
(* after the snapshot before it.                                           *)
RestartIsNotGrowth ==
  [][ Publish /\ growth'["drops"].grew = 0 /\ growth["drops"].grew # 0 => lost # None ]_vars

(* A silent stream is reported (run, publish_once): once logs have been     *)
(* asked for, either one arrives, the demand ends, or a snapshot says      *)
(* that they are missing.                                                  *)
SilenceReported ==
  (Demanded /\ quiet > 0) ~> (~Demanded \/ quiet = 0 \/ alarmed)

(* doc/health.md:68: the stream is WARN when /odom epochs were dropped in   *)
(* the last stale_after_s.  Asked only of drops the counter still counts   *)
(* and no snapshot has seen: those a restart erased are left aside.        *)
DropsWarned ==
  [][ Publish /\ Demanded /\ lost # None /\ lost <= settings.staleAfter =>
        Now("stream").level # Ok ]_vars

=============================================================================
