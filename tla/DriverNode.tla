----------------------------- MODULE DriverNode -----------------------------
(***************************************************************************)
(* SbgDriverNode (sbg_driver/src/driver_node.cpp): the lifecycle node and  *)
(* the four threads that share its members.                                *)
(*                                                                         *)
(*  - the executor thread runs every lifecycle callback and every service, *)
(*    one at a time; `op' is the callback it is in and `pc' its next step; *)
(*  - the I/O thread polls the device (Device::run);                       *)
(*  - the RTCM writer thread sends queued corrections (RtcmWriter);        *)
(*  - the health thread publishes snapshots (HealthPublisher::run).        *)
(*                                                                         *)
(* A step of the executor ends where another thread can see the difference *)
(* or where the executor waits: joining a thread, or awaiting the ACK of a *)
(* command.  While a command awaits its ACK, the SDK dispatches the log    *)
(* frames it reads to the log callback, on the executor thread.            *)
(***************************************************************************)

VARIABLES
  lc,           \* lifecycle state of the node; "gone" once it is destroyed
  op,           \* the callback the executor is in, "none" between callbacks
  pc,           \* its next step, "idle" between callbacks
  built,        \* publishers_, the subscription and the services exist
  device,       \* device_ holds an open Device
  callbacks,    \* the Device has its log and poll callbacks
  runActive,    \* Device::Impl::run_active
  cmd,          \* the command awaiting its ACK, "none" if there is none
  dispatching,  \* the executor is inside the log callback (during cmd)
  calib,        \* Device::Impl::last_mag_calib: the verdict on the cached results
  io, ioStop,   \* io_thread_ and its stop token
  wr, wrStop,   \* rtcm_writer_'s thread and its stopping_ flag
  pending,      \* rtcm_writer_'s queue holds a correction
  health,       \* HealthReporter's operational state
  heard,        \* log_cell_.session: a log arrived in this session
  hp, hpStop,   \* health_publisher_'s thread and its stop token
  requested,    \* HealthPublisher::publish_requested_
  published,    \* the last snapshot handed to the /diagnostics publisher
  ram, nvram    \* the calibration the device runs with, and boots with

execVars   == <<lc, op, pc, built>>
deviceVars == <<device, callbacks, runActive, calib>>
cmdVars    == <<cmd, dispatching>>
ioVars     == <<io, ioStop>>
writerVars == <<wr, wrStop, pending>>
healthVars == <<health, heard>>
hpVars     == <<hp, hpStop, requested, published>>
unitVars   == <<ram, nvram>>
vars == <<execVars, deviceVars, cmdVars, ioVars, writerVars, healthVars, hpVars, unitVars>>

Commands == {"query", "provision", "start", "compute", "upload", "save"}
Services == {"start_cal", "save_cal", "save_settings"}
Verdicts == {"usable", "invalid"}

Steps == Commands \cup
  {"idle", "open", "abort", "failed", "install", "enter_active", "start_writer",
   "start_thread", "stop_writer", "join_writer", "stop_thread", "join_thread", "close",
   "report", "release", "join_health", "drop", "drop_link", "resume"}

-----------------------------------------------------------------------------
(* HealthReporter's operational state: what each lifecycle callback sets.  *)
(* change_state clears the released mark and the stream pause.             *)

HealthStates == {"unconfigured", "standby", "transitioning", "active", "shutdown"}
HealthReport == [state : HealthStates, fault : BOOLEAN, released : BOOLEAN, paused : BOOLEAN]
NoReport == [state |-> "none", fault |-> FALSE, released |-> FALSE, paused |-> FALSE]

Reported(s, f, r, p) == [state |-> s, fault |-> f, released |-> r, paused |-> p]
Entered(state, fault) == Reported(state, fault, FALSE, FALSE)
WithPause(paused) == Reported(health.state, health.fault, health.released, paused)
WithDeviceReleased == Reported(health.state, health.fault, TRUE, health.paused)

Init ==
  /\ lc = "unconfigured" /\ op = "none" /\ pc = "idle" /\ built = FALSE
  /\ device = FALSE /\ callbacks = FALSE /\ runActive = FALSE /\ calib = "none"
  /\ cmd = "none" /\ dispatching = FALSE
  /\ io = "none" /\ ioStop = FALSE
  /\ wr = "none" /\ wrStop = FALSE /\ pending = FALSE
  /\ health = Entered("unconfigured", FALSE) /\ heard = FALSE
  /\ hp = "none" /\ hpStop = FALSE /\ requested = FALSE /\ published = NoReport
  /\ ram = "usable" /\ nvram = "usable"

Goto(step) == pc' = step /\ UNCHANGED <<lc, op, built>>
Begin(callback, step) == pc = "idle" /\ op' = callback /\ pc' = step /\ UNCHANGED <<lc, built>>
Return(state) == pc' = "idle" /\ op' = "none" /\ lc' = state /\ UNCHANGED built

(* publish_health_soon: no effect unless the health publisher exists. *)
PublishSoon == requested' = (requested \/ hp # "none") /\ UNCHANGED <<hp, hpStop, published>>

(* Destroying the Device drops everything its Impl holds. *)
ReleaseDevice == device' = FALSE /\ callbacks' = FALSE /\ runActive' = FALSE /\ calib' = "none"

-----------------------------------------------------------------------------
(* on_configure.  A failure (parameters, health settings or rates refused) *)
(* leaves nothing behind that this module models.  An exception is caught  *)
(* by the lifecycle machinery, which then runs on_error.                   *)

Configure ==
  /\ lc = "unconfigured" /\ pc = "idle"
  /\ lc' = "inactive" /\ built' = TRUE
  /\ health' = Entered("standby", FALSE)
  /\ hp' = "check" /\ hpStop' = FALSE /\ requested' = FALSE
  /\ UNCHANGED <<op, pc, heard, published, deviceVars, cmdVars, ioVars, writerVars, unitVars>>

ConfigureThrows ==
  /\ lc = "unconfigured" /\ pc = "idle"
  /\ op' = "error" /\ pc' = "stop_writer" /\ built' \in BOOLEAN /\ UNCHANGED lc
  /\ UNCHANGED <<deviceVars, cmdVars, ioVars, writerVars, healthVars, hpVars, unitVars>>

-----------------------------------------------------------------------------
(* on_activate and activate_device.                                        *)

BeginActivate ==
  /\ lc = "inactive"
  /\ Begin("activate", "open")
  /\ health' = Entered("transitioning", FALSE)
  /\ UNCHANGED <<heard, deviceVars, cmdVars, ioVars, writerVars, hpVars, unitVars>>

(* A file replay has no responder to query and nothing to provision. *)
OpenDevice ==
  /\ pc = "open"
  /\ Goto("query") \/ Goto("install")
  /\ device' = TRUE
  /\ UNCHANGED <<callbacks, runActive, calib>>
  /\ UNCHANGED <<cmdVars, ioVars, writerVars, healthVars, hpVars, unitVars>>

OpenFails ==
  /\ pc = "open"
  /\ Goto("failed")
  /\ UNCHANGED <<deviceVars, cmdVars, ioVars, writerVars, healthVars, hpVars, unitVars>>

(* Identification is best effort.  Provisioning, when enabled, needs it to *)
(* have succeeded and runs on ELLIPSE hardware only.                       *)
Families == {"ellipse", "high_performance", "unknown", "unidentified"}

QueryDone ==
  /\ cmd = "query" /\ ~dispatching
  /\ cmd' = "none"
  /\ \E family \in Families, enable \in BOOLEAN :
       Goto(IF ~enable THEN "install"
            ELSE IF family = "unidentified" THEN "abort"
            ELSE IF family = "ellipse" THEN "provision" ELSE "install")
  /\ UNCHANGED <<dispatching, deviceVars, ioVars, writerVars, healthVars, hpVars, unitVars>>

ProvisionDone ==
  /\ cmd = "provision" /\ ~dispatching
  /\ cmd' = "none"
  /\ \E ok \in BOOLEAN : Goto(IF ok THEN "install" ELSE "abort")
  /\ UNCHANGED <<dispatching, deviceVars, ioVars, writerVars, healthVars, hpVars, unitVars>>

AbortActivation ==
  /\ pc = "abort"
  /\ Goto("failed")
  /\ ReleaseDevice
  /\ UNCHANGED <<cmdVars, ioVars, writerVars, healthVars, hpVars, unitVars>>

(* Mutant of ActivationFailed: the failed activation is not announced. *)
ActivationFailedSilently ==
  /\ pc = "failed"
  /\ Return("inactive")
  /\ health' = Entered("standby", TRUE)
  /\ UNCHANGED <<heard, hpVars, deviceVars, cmdVars, ioVars, writerVars, unitVars>>

ActivationFailed ==
  /\ pc = "failed"
  /\ Return("inactive")
  /\ health' = Entered("standby", TRUE)
  /\ PublishSoon
  /\ UNCHANGED <<heard, deviceVars, cmdVars, ioVars, writerVars, unitVars>>

(* set_epoch_tolerance_us, set_log_callback, set_poll_callback and *)
(* Publishers::activate: no other thread may be inside Publishers. *)
InstallCallbacks ==
  /\ pc = "install"
  /\ Goto("enter_active")
  /\ callbacks' = TRUE
  /\ UNCHANGED <<device, runActive, calib>>
  /\ UNCHANGED <<cmdVars, ioVars, writerVars, healthVars, hpVars, unitVars>>

EnterActive ==
  /\ pc = "enter_active"
  /\ Goto("start_writer")
  /\ health' = Entered("active", FALSE)
  /\ heard' = FALSE
  /\ UNCHANGED <<deviceVars, cmdVars, ioVars, writerVars, hpVars, unitVars>>

(* The callback threw: the lifecycle machinery runs on_error. *)
ActivateThrows ==
  /\ op = "activate" /\ pc \in {"open", "install", "start_writer", "start_thread"}
  /\ op' = "error" /\ pc' = "stop_writer"
  /\ UNCHANGED <<lc, built, deviceVars, cmdVars, ioVars, writerVars, healthVars, hpVars, unitVars>>

-----------------------------------------------------------------------------
(* start_io: the writer first, then the polling thread.                    *)

StartWriter ==
  /\ pc = "start_writer"
  /\ Goto("start_thread")
  /\ wr' = "idle" /\ wrStop' = FALSE /\ pending' = FALSE
  /\ UNCHANGED <<deviceVars, cmdVars, ioVars, healthVars, hpVars, unitVars>>

StartThread ==
  /\ pc = "start_thread"
  /\ IF op = "activate" THEN Return("active") ELSE Goto("resume")
  /\ io' = "starting" /\ ioStop' = FALSE
  /\ UNCHANGED <<deviceVars, cmdVars, writerVars, healthVars, hpVars, unitVars>>

(* stop_io: join the writer, then the polling thread. *)
AfterStop ==
  IF op = "start_cal" THEN "start"
  ELSE IF op = "save_cal" THEN "compute"
  ELSE IF op = "save_settings" THEN "save" ELSE "close"

(* Mutant of StopWriter: only the polling thread is stopped. *)
StopThreadOnly ==
  /\ pc = "stop_writer"
  /\ Goto("stop_thread")
  /\ UNCHANGED <<deviceVars, cmdVars, ioVars, writerVars, healthVars, hpVars, unitVars>>

StopWriter ==
  /\ pc = "stop_writer"
  /\ IF wr = "none"
     THEN Goto("stop_thread") /\ UNCHANGED writerVars
     ELSE Goto("join_writer") /\ wrStop' = TRUE /\ pending' = FALSE /\ UNCHANGED wr
  /\ UNCHANGED <<deviceVars, cmdVars, ioVars, healthVars, hpVars, unitVars>>

JoinWriter ==
  /\ pc = "join_writer" /\ wr = "exited"
  /\ Goto("stop_thread")
  /\ wr' = "none"
  /\ UNCHANGED <<wrStop, pending, deviceVars, cmdVars, ioVars, healthVars, hpVars, unitVars>>

StopThread ==
  /\ pc = "stop_thread"
  /\ IF io = "none"
     THEN Goto(AfterStop) /\ UNCHANGED ioVars
     ELSE Goto("join_thread") /\ ioStop' = TRUE /\ UNCHANGED io
  /\ UNCHANGED <<deviceVars, cmdVars, writerVars, healthVars, hpVars, unitVars>>

JoinThread ==
  /\ pc = "join_thread" /\ io = "exited"
  /\ Goto(AfterStop)
  /\ io' = "none"
  /\ UNCHANGED <<ioStop, deviceVars, cmdVars, writerVars, healthVars, hpVars, unitVars>>

-----------------------------------------------------------------------------
(* on_deactivate, on_shutdown, on_cleanup, on_error and the destructor.    *)

BeginDeactivate ==
  /\ lc = "active"
  /\ Begin("deactivate", "stop_writer")
  /\ health' = Entered("transitioning", FALSE)
  /\ UNCHANGED <<heard, deviceVars, cmdVars, ioVars, writerVars, hpVars, unitVars>>

BeginShutdown ==
  /\ lc \in {"unconfigured", "inactive", "active"}
  /\ Begin("shutdown", "stop_writer")
  /\ UNCHANGED <<deviceVars, cmdVars, ioVars, writerVars, healthVars, hpVars, unitVars>>

BeginCleanup ==
  /\ lc = "inactive"
  /\ Begin("cleanup", "report")
  /\ UNCHANGED <<deviceVars, cmdVars, ioVars, writerVars, healthVars, hpVars, unitVars>>

BeginDestroy ==
  /\ lc \in {"unconfigured", "inactive", "active", "finalized"}
  /\ Begin("destroy", "release")
  /\ UNCHANGED <<deviceVars, cmdVars, ioVars, writerVars, healthVars, hpVars, unitVars>>

(* The end of stop_streaming: Publishers::deactivate and device_.reset(). *)
Close ==
  /\ pc = "close"
  /\ IF op = "destroy" THEN Goto("drop") ELSE Goto("report")
  /\ ReleaseDevice
  /\ UNCHANGED <<cmdVars, ioVars, writerVars, healthVars, hpVars, unitVars>>

ReportStandby ==
  /\ pc = "report" /\ op = "deactivate"
  /\ Return("inactive")
  /\ health' = Entered("standby", FALSE)
  /\ PublishSoon
  /\ UNCHANGED <<heard, deviceVars, cmdVars, ioVars, writerVars, unitVars>>

(* enter_shutdown, or enter_unconfigured; the health publisher's last snapshot sends it. *)
ReportEnd ==
  /\ pc = "report" /\ op # "deactivate"
  /\ Goto("release")
  /\ health' = IF op = "shutdown" THEN Entered("shutdown", FALSE)
               ELSE Entered("unconfigured", op = "error")
  /\ UNCHANGED <<heard, hpVars, deviceVars, cmdVars, ioVars, writerVars, unitVars>>

(* What follows the health publisher: the destructor still has to stop streaming. *)
AfterRelease == IF op = "destroy" THEN "stop_writer" ELSE "drop"

(* Mutant of StopHealth: the resources are dropped while the thread still runs. *)
StopHealthUnjoined ==
  /\ pc = "release"
  /\ Goto(AfterRelease)
  /\ hpStop' = TRUE
  /\ UNCHANGED <<hp, requested, published>>
  /\ UNCHANGED <<deviceVars, cmdVars, ioVars, writerVars, healthVars, unitVars>>

(* ~HealthPublisher: request the stop, then join. *)
StopHealth ==
  /\ pc = "release"
  /\ IF hp = "none"
     THEN Goto(AfterRelease) /\ UNCHANGED hpVars
     ELSE Goto("join_health") /\ hpStop' = TRUE /\ UNCHANGED <<hp, requested, published>>
  /\ UNCHANGED <<deviceVars, cmdVars, ioVars, writerVars, healthVars, unitVars>>

JoinHealth ==
  /\ pc = "join_health" /\ hp = "exited"
  /\ Goto(AfterRelease)
  /\ hp' = "none"
  /\ UNCHANGED <<hpStop, requested, published>>
  /\ UNCHANGED <<deviceVars, cmdVars, ioVars, writerVars, healthVars, unitVars>>

(* The rest of release_resources: subscription, services, publishers_, params_. *)
Drop ==
  /\ pc = "drop"
  /\ pc' = "idle" /\ op' = "none" /\ built' = FALSE
  /\ lc' = IF op = "shutdown" THEN "finalized"
           ELSE IF op = "destroy" THEN "gone" ELSE "unconfigured"
  /\ UNCHANGED <<deviceVars, cmdVars, ioVars, writerVars, healthVars, hpVars, unitVars>>

-----------------------------------------------------------------------------
(* The three services.  Without a device they are refused, and nothing     *)
(* changes; with one, HealthStreamPause holds until the callback returns.  *)

(* Mutant of BeginService: the command is sent with the workers running. *)
BeginServiceUnstopped ==
  /\ built /\ device
  /\ Begin("save_settings", "save")
  /\ health' = WithPause(TRUE)
  /\ UNCHANGED <<heard, deviceVars, cmdVars, ioVars, writerVars, hpVars, unitVars>>

BeginService ==
  /\ built /\ device
  /\ \E service \in Services : Begin(service, "stop_writer")
  /\ health' = WithPause(TRUE)
  /\ UNCHANGED <<heard, deviceVars, cmdVars, ioVars, writerVars, hpVars, unitVars>>

(* Configurator::ready() refuses while run_active is set (DeviceBusy). *)
(* start_mag_calibration drops the cached results before it asks.      *)
BeginCommand ==
  /\ pc \in Commands /\ cmd = "none" /\ ~runActive
  /\ cmd' = pc
  /\ calib' = IF pc = "start" THEN "none" ELSE calib
  /\ UNCHANGED <<dispatching, device, callbacks, runActive>>
  /\ UNCHANGED <<execVars, ioVars, writerVars, healthVars, hpVars, unitVars>>

StartDone ==
  /\ cmd = "start" /\ ~dispatching
  /\ cmd' = "none"
  /\ Goto("start_writer")
  /\ UNCHANGED <<dispatching, deviceVars, ioVars, writerVars, healthVars, hpVars, unitVars>>

(* Mutant of ComputeDone: success is taken from the reply code alone. *)
ComputeDoneUnchecked ==
  /\ cmd = "compute" /\ ~dispatching
  /\ cmd' = "none"
  /\ \/ \E verdict \in Verdicts : calib' = verdict /\ Goto("upload")
     \/ Goto("start_writer") /\ UNCHANGED calib
  /\ UNCHANGED <<dispatching, device, callbacks, runActive>>
  /\ UNCHANGED <<ioVars, writerVars, healthVars, hpVars, unitVars>>

(* The device answers with its verdict on the samples, and the results are *)
(* cached whatever it is; only the service looks at it.                    *)
ComputeDone ==
  /\ cmd = "compute" /\ ~dispatching
  /\ cmd' = "none"
  /\ \/ \E verdict \in Verdicts :
          /\ calib' = verdict
          /\ Goto(IF verdict = "invalid" THEN "start_writer" ELSE "upload")
     \/ Goto("start_writer") /\ UNCHANGED calib
  /\ UNCHANGED <<dispatching, device, callbacks, runActive>>
  /\ UNCHANGED <<ioVars, writerVars, healthVars, hpVars, unitVars>>

(* The outcome of a command whose request changes the unit: done and       *)
(* acknowledged, done with the ACK lost, or not done.  The last two look   *)
(* alike here.                                                             *)
Outcomes == {"acked", "ack_lost", "not_done"}

UploadDone ==
  /\ cmd = "upload" /\ ~dispatching
  /\ cmd' = "none"
  /\ \E outcome \in Outcomes :
       /\ ram' = IF outcome = "not_done" THEN ram ELSE calib
       /\ Goto(IF outcome = "acked" THEN "save" ELSE "start_writer")
  /\ UNCHANGED <<dispatching, nvram, deviceVars, ioVars, writerVars, healthVars, hpVars>>

(* Mutant of SaveDone: the failure path returns without restarting I/O. *)
SaveDoneNoRestart ==
  /\ cmd = "save" /\ ~dispatching
  /\ cmd' = "none"
  /\ \E outcome \in Outcomes :
       /\ nvram' = IF outcome = "not_done" THEN nvram ELSE ram
       /\ Goto(IF outcome = "acked" THEN "drop_link" ELSE "resume")
  /\ UNCHANGED <<dispatching, ram, deviceVars, ioVars, writerVars, healthVars, hpVars>>

SaveDone ==
  /\ cmd = "save" /\ ~dispatching
  /\ cmd' = "none"
  /\ \E outcome \in Outcomes :
       /\ nvram' = IF outcome = "not_done" THEN nvram ELSE ram
       /\ Goto(IF outcome = "acked" THEN "drop_link" ELSE "start_writer")
  /\ UNCHANGED <<dispatching, ram, deviceVars, ioVars, writerVars, healthVars, hpVars>>

(* The unit reboots: release the device and say that reactivation is needed. *)
DropLink ==
  /\ pc = "drop_link"
  /\ Goto("resume")
  /\ ReleaseDevice
  /\ health' = WithDeviceReleased
  /\ PublishSoon
  /\ UNCHANGED <<heard, cmdVars, ioVars, writerVars, unitVars>>

(* Mutant of Resume: the stream stays paused after a service. *)
ResumeStillPaused ==
  /\ pc = "resume"
  /\ Return(lc)
  /\ UNCHANGED <<healthVars, deviceVars, cmdVars, ioVars, writerVars, hpVars, unitVars>>

(* Mutant of Resume: resuming the stream starts the session over. *)
ResumeNewSession ==
  /\ pc = "resume"
  /\ Return(lc)
  /\ health' = WithPause(FALSE)
  /\ heard' = FALSE
  /\ UNCHANGED <<deviceVars, cmdVars, ioVars, writerVars, hpVars, unitVars>>

Resume ==
  /\ pc = "resume"
  /\ Return(lc)
  /\ health' = WithPause(FALSE)
  /\ UNCHANGED <<heard, deviceVars, cmdVars, ioVars, writerVars, hpVars, unitVars>>

(* The SDK, waiting for the ACK, hands a log to the callback and comes back. *)
DispatchLog ==
  /\ cmd # "none" /\ callbacks /\ ~dispatching
  /\ dispatching' = TRUE /\ heard' = TRUE
  /\ UNCHANGED <<cmd, health, execVars, deviceVars, ioVars, writerVars, hpVars, unitVars>>

LogDispatched ==
  /\ dispatching /\ dispatching' = FALSE
  /\ UNCHANGED <<cmd, execVars, deviceVars, ioVars, writerVars, healthVars, hpVars, unitVars>>

(* The /rtcm callback. *)
QueueCorrection ==
  /\ pc = "idle" /\ built /\ wr # "none"
  /\ pending' = TRUE
  /\ UNCHANGED <<wr, wrStop, execVars, deviceVars, cmdVars, ioVars, healthVars, hpVars, unitVars>>

-----------------------------------------------------------------------------
(* The I/O thread: Device::run.                                            *)

UnchangedByIo ==
  UNCHANGED <<execVars, device, callbacks, calib, cmdVars, ioStop, writerVars, hpVars, unitVars>>

IoStart ==
  /\ io = "starting" /\ io' = "polling"
  /\ runActive' = TRUE
  /\ UnchangedByIo /\ UNCHANGED healthVars

(* A dispatched log, or flush_pending: the thread is inside Publishers. *)
IoCallback ==
  /\ io = "polling" /\ ~ioStop /\ callbacks
  /\ io' = "callback"
  /\ heard' \in {heard, TRUE}
  /\ UnchangedByIo /\ UNCHANGED <<health, runActive>>

IoReturn ==
  /\ io = "callback" /\ io' = "polling"
  /\ UnchangedByIo /\ UNCHANGED <<healthVars, runActive>>

IoExit ==
  /\ io = "polling" /\ ioStop
  /\ io' = "exited"
  /\ runActive' = FALSE
  /\ UnchangedByIo /\ UNCHANGED healthVars

(* The RTCM writer thread: RtcmWriter::run, through Device::write_rtcm.    *)

UnchangedByWriter ==
  UNCHANGED <<execVars, deviceVars, cmdVars, ioVars, wrStop, healthVars, hpVars, unitVars>>

WriterTake ==
  /\ wr = "idle" /\ ~wrStop /\ pending
  /\ wr' = "writing" /\ pending' \in BOOLEAN
  /\ UnchangedByWriter

WriterDone == wr = "writing" /\ wr' = "idle" /\ UNCHANGED pending /\ UnchangedByWriter

(* Mutant of WriterExit: the idle writer does not see the stop. *)
WriterNeverExits == wr = "idle" /\ wrStop /\ pending /\ wr' = "exited" /\ UNCHANGED pending /\ UnchangedByWriter

WriterExit == wr = "idle" /\ wrStop /\ wr' = "exited" /\ UNCHANGED pending /\ UnchangedByWriter

-----------------------------------------------------------------------------
(* The health thread: HealthPublisher::run.  A snapshot reads the stream   *)
(* counters out of publishers_ first, then the reporter under its mutex.   *)

UnchangedByHealth ==
  UNCHANGED <<execVars, deviceVars, cmdVars, ioVars, writerVars, healthVars, hpStop, unitVars>>

HpCheck ==
  /\ hp = "check"
  /\ hp' = IF hpStop THEN "last_counters" ELSE "counters"
  /\ UnchangedByHealth /\ UNCHANGED <<requested, published>>

HpCounters ==
  /\ hp \in {"counters", "last_counters"}
  /\ hp' = IF hp = "counters" THEN "snapshot" ELSE "last_snapshot"
  /\ UnchangedByHealth /\ UNCHANGED <<requested, published>>

HpSnapshot ==
  /\ hp = "snapshot" /\ hp' = "wait"
  /\ published' = health
  /\ UnchangedByHealth /\ UNCHANGED requested

(* Mutant of HpLastSnapshot: the thread leaves without a final report. *)
HpLeave ==
  /\ hp = "last_snapshot" /\ hp' = "exited"
  /\ UnchangedByHealth /\ UNCHANGED <<requested, published>>

HpLastSnapshot ==
  /\ hp = "last_snapshot" /\ hp' = "exited"
  /\ published' = health
  /\ UnchangedByHealth /\ UNCHANGED requested

(* wait_until ends early on a request or a stop; a request is consumed. *)
HpWake ==
  /\ hp = "wait" /\ (requested \/ hpStop)
  /\ hp' = "check" /\ requested' = FALSE
  /\ UnchangedByHealth /\ UNCHANGED published

HpHeartbeat ==
  /\ hp = "wait" /\ ~requested /\ ~hpStop
  /\ hp' = "check"
  /\ UnchangedByHealth /\ UNCHANGED <<requested, published>>

-----------------------------------------------------------------------------
(* The next-state relation.                                                *)

(* What may be asked of the node between callbacks. *)
Transition ==
  \/ Configure \/ ConfigureThrows \/ BeginActivate \/ BeginDeactivate \/ BeginCleanup
  \/ BeginShutdown \/ BeginDestroy

Request == Transition \/ BeginService \/ QueueCorrection

(* The executor's steps inside a callback. *)
ActivateStep ==
  \/ OpenDevice \/ OpenFails \/ AbortActivation \/ ActivationFailed \/ InstallCallbacks
  \/ EnterActive

StreamStep ==
  \/ StartWriter \/ StartThread \/ StopWriter \/ JoinWriter \/ StopThread \/ JoinThread

TeardownStep ==
  \/ Close \/ ReportStandby \/ ReportEnd \/ StopHealth \/ JoinHealth \/ Drop

ServiceStep == BeginCommand \/ DropLink \/ Resume \/ LogDispatched

CallbackStep == ActivateStep \/ StreamStep \/ TeardownStep \/ ServiceStep

CommandDone ==
  \/ QueryDone \/ ProvisionDone \/ StartDone \/ ComputeDone \/ UploadDone \/ SaveDone

IoStep == IoStart \/ IoReturn \/ IoExit
WriterStep == WriterTake \/ WriterDone \/ WriterExit
HealthStep == HpCheck \/ HpCounters \/ HpSnapshot \/ HpLastSnapshot \/ HpWake

(* A destroyed node stays destroyed. *)
Gone == lc = "gone" /\ pc = "idle" /\ UNCHANGED vars

Next ==
  \/ Request \/ CallbackStep \/ CommandDone \/ DispatchLog \/ ActivateThrows
  \/ IoStep \/ IoCallback
  \/ WriterStep
  \/ HealthStep \/ HpHeartbeat
  \/ Gone

(* Every thread is scheduled.  A command ends (ACK, error or the SDK's     *)
(* timeouts) however many logs it dispatches while it waits.  Requests,    *)
(* exceptions, logs and the heartbeat timer are not promised.              *)
Fairness ==
  /\ WF_vars(CallbackStep) /\ SF_vars(CommandDone)
  /\ WF_vars(IoStep) /\ WF_vars(WriterStep) /\ WF_vars(HealthStep)

Spec == Init /\ [][Next]_vars
FairSpec == Spec /\ Fairness

-----------------------------------------------------------------------------
(* Properties.                                                             *)

FlagsOK ==
  /\ built \in BOOLEAN /\ device \in BOOLEAN /\ callbacks \in BOOLEAN /\ runActive \in BOOLEAN
  /\ dispatching \in BOOLEAN /\ ioStop \in BOOLEAN /\ wrStop \in BOOLEAN /\ pending \in BOOLEAN
  /\ heard \in BOOLEAN /\ hpStop \in BOOLEAN /\ requested \in BOOLEAN

StatesOK ==
  /\ lc \in {"unconfigured", "inactive", "active", "finalized", "gone"}
  /\ op \in {"none", "activate", "deactivate", "cleanup", "shutdown", "error", "destroy"}
              \cup Services
  /\ pc \in Steps
  /\ calib \in Verdicts \cup {"none"}
  /\ cmd \in Commands \cup {"none"}
  /\ io \in {"none", "starting", "polling", "callback", "exited"}
  /\ wr \in {"none", "idle", "writing", "exited"}
  /\ hp \in {"none", "check", "counters", "snapshot", "wait",
             "last_counters", "last_snapshot", "exited"}
  /\ ram \in Verdicts /\ nvram \in Verdicts

ReportsOK == health \in HealthReport /\ published \in HealthReport \cup {NoReport}

TypeOK == FlagsOK /\ StatesOK /\ ReportsOK

(* While the executor holds the link for a command, from its readiness     *)
(* check to its ACK, neither worker exists: the polling thread cannot      *)
(* steal the reply, no correction is written into the request, and         *)
(* ready() never answers DeviceBusy.                                       *)
ExclusiveLink ==
  pc \in Commands \/ cmd # "none" => device /\ io = "none" /\ wr = "none" /\ ~runActive

(* Publishers is not synchronised: while the polling thread is inside one  *)
(* of its callbacks the executor neither dispatches a log, nor swaps the   *)
(* callbacks, nor tears Publishers down.                                   *)
OneDispatcher ==
  io = "callback" =>
    /\ ~dispatching
    /\ pc \notin {"install", "enter_active", "close"}

(* No thread outlives what it dereferences: both workers and a command in  *)
(* flight have a Device, the callbacks and the health thread's counters    *)
(* have the Publishers.                                                    *)
NoUseAfterFree ==
  /\ io \in {"starting", "polling", "callback"} \/ wr = "writing" \/ cmd # "none" => device
  /\ io = "callback" \/ dispatching \/ hp \in {"counters", "last_counters"} => built

(* Between callbacks an active node streams, with both workers running and *)
(* not told to stop, unless a settings save released the device; and only  *)
(* an active node holds the device or a worker.                            *)
StreamsWhenActive ==
  pc = "idle" /\ lc # "gone" =>
    /\ device <=> lc = "active" /\ ~health.released
    /\ IF device
       THEN /\ io \in {"starting", "polling", "callback"} /\ ~ioStop
            /\ wr \in {"idle", "writing"} /\ ~wrStop
       ELSE io = "none" /\ wr = "none"

(* Between callbacks the reported state is the lifecycle state, no pause   *)
(* is left behind, and a fault is only reported where a failed transition  *)
(* left the node.                                                          *)
HealthAgrees ==
  pc = "idle" /\ lc # "gone" =>
    /\ health.state = IF lc = "inactive" THEN "standby"
                      ELSE IF lc = "finalized" THEN "shutdown" ELSE lc
    /\ ~health.paused
    /\ health.fault => lc \in {"unconfigured", "inactive"}

(* Once a node was cleaned up or shut down, the last snapshot the fleet    *)
(* was sent says so: never a state that nothing will ever refresh.         *)
LastWord ==
  pc = "idle" /\ lc \in {"unconfigured", "finalized"} =>
    published.state \in {"none", "unconfigured", "shutdown"}

(* A calibration the device judged invalid is neither loaded into the unit *)
(* nor persisted, whichever commands fail or lose their ACK on the way.    *)
NeverPersistInvalid == ram = "usable" /\ nvram = "usable"

(* The comment on Device::Impl::last_mag_calib: the cached results are     *)
(* reset "when the cached results have been uploaded once".                *)
CacheSpentByUpload == op = "save_cal" /\ pc = "save" => calib = "none"

(* The marks of a session are discarded only while nothing can be marking: *)
(* the first logs of a session are never lost to its own start.            *)
SessionMarksKept == [][heard /\ ~heard' => io = "none" /\ ~dispatching]_vars

(* The link changes hands as LinkOwnership says. *)
LinkOwner ==
  IF cmd # "none" /\ (io # "none" \/ wr # "none") THEN "conflict"
  ELSE IF cmd # "none" THEN "command"
  ELSE IF io # "none" \/ wr # "none" THEN "stream"
  ELSE IF device THEN "free" ELSE "closed"

Link == INSTANCE LinkOwnership WITH owner <- LinkOwner
LinkSpec == Link!Spec

(* Every callback returns: no join waits for ever, even when the stop      *)
(* meets a thread in a log callback, a write or a publication.             *)
CallbacksReturn == pc # "idle" ~> pc = "idle"

(* What the service component of a snapshot says of the node. *)
ServiceView(report) == <<report.state, report.fault, report.released>>

(* A failed activation, a standby and a released device are published      *)
(* without waiting for the heartbeat: the request is not lost to a         *)
(* snapshot being taken at that moment.                                    *)
ReportedPromptly ==
  \A state \in {"standby", "active"}, fault \in BOOLEAN, released \in BOOLEAN :
    LET view == <<state, fault, released>>
    IN  state = "standby" \/ released =>
          (pc = "idle" /\ ServiceView(health) = view)
            ~> (ServiceView(published) = view \/ ServiceView(health) # view)

=============================================================================
