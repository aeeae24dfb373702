-------------------------- MODULE DriverNodeProofs --------------------------
(***************************************************************************)
(* Proofs about DriverNode: its safety properties, and that it implements  *)
(* LinkOwnership.  They all rest on one inductive invariant, IInv, whose   *)
(* parts say where the executor can be while something else is true.       *)
(***************************************************************************)
EXTENDS DriverNode, TLAPS

(* A callback's steps belong to that callback, which runs in one lifecycle state. *)
CallbackInv ==
  /\ pc \in {"open", "query", "provision", "abort", "failed", "install", "enter_active"}
       => op = "activate"
  /\ pc \in {"start", "compute", "upload", "save", "drop_link", "resume"} => op \in Services
  /\ pc \in {"start_writer", "start_thread"} => op \in Services \cup {"activate"}
  /\ pc \in {"close", "report", "release", "join_health", "drop"}
       => op \notin Services
  /\ op = "activate" => lc = "inactive"
  /\ op \in Services \cup {"deactivate"} => lc = "active"
  /\ op # "none" <=> pc # "idle"

(* Where the link is certainly free of the workers, and where it is closed. *)
QuietInv ==
  /\ pc \in Commands \cup {"abort", "install", "enter_active", "start_writer", "drop_link"}
       => device /\ io = "none" /\ wr = "none"
  /\ pc = "start_thread" => device /\ io = "none"
  /\ pc \in {"stop_thread", "join_thread"} => wr = "none"
  /\ pc = "close" => io = "none" /\ wr = "none"
  /\ op \in Services /\ pc # "resume" => device
  /\ pc \in {"open", "failed", "report", "drop"} => ~device
  /\ pc \in {"release", "join_health"} /\ op # "destroy" => ~device
  /\ pc = "idle" /\ lc = "inactive" => ~device

(* Who holds the link needs a device; who needs the Publishers has them. *)
HolderInv ==
  /\ cmd # "none" \/ io # "none" \/ wr # "none" => device
  /\ cmd # "none" => pc = cmd
  /\ dispatching => cmd # "none"
  /\ runActive => io \in {"polling", "callback"}
  /\ device \/ hp # "none" => lc \in {"inactive", "active"}
  /\ lc \in {"inactive", "active"} => built
  /\ op = "destroy" /\ pc \notin {"release", "join_health"} => hp = "none"
  /\ pc = "drop" => hp = "none"

(* Only a verdict that passed the service's check reaches the upload. *)
CalibInv ==
  /\ pc = "upload" => calib = "usable"
  /\ ram = "usable" /\ nvram = "usable"

IInv == TypeOK /\ CallbackInv /\ QuietInv /\ HolderInv /\ CalibInv

-----------------------------------------------------------------------------
(* What HealthReporter is told always makes a well-formed report.           *)

(* Any state, fault, released mark and pause make a report. *)
LEMMA ReportedType ==
  ASSUME NEW s \in HealthStates, NEW f \in BOOLEAN, NEW r \in BOOLEAN, NEW p \in BOOLEAN
  PROVE  Reported(s, f, r, p) \in HealthReport
BY DEF Reported, HealthReport

(* So does change_state, *)
LEMMA EnteredType ==
  ASSUME NEW s \in HealthStates, NEW f \in BOOLEAN
  PROVE  Entered(s, f) \in HealthReport
BY ReportedType DEF Entered

(* and so do the pause and the released mark on top of a report. *)
LEMMA WithType ==
  ASSUME health \in HealthReport
  PROVE  /\ WithPause(TRUE) \in HealthReport
         /\ WithPause(FALSE) \in HealthReport
         /\ WithDeviceReleased \in HealthReport
<1>1. health.state \in HealthStates /\ health.fault \in BOOLEAN
      /\ health.released \in BOOLEAN /\ health.paused \in BOOLEAN
  BY DEF HealthReport
<1> QED
  BY <1>1, ReportedType DEF WithPause, WithDeviceReleased

-----------------------------------------------------------------------------
(* IInv is inductive: one step per action of each thread.                  *)

(* The initial state is a state of the invariant: nothing exists yet. *)
LEMMA InitIInv == Init => IInv
<1> SUFFICES ASSUME Init PROVE IInv
  OBVIOUS
<1>1. FlagsOK
  BY Zenon DEF Init, FlagsOK
<1>2. StatesOK
  BY DEF Init, StatesOK, Steps, Commands, Services, Verdicts
<1>3. ReportsOK
  BY EnteredType DEF Init, ReportsOK, HealthStates
<1>4. CallbackInv /\ QuietInv /\ HolderInv /\ CalibInv
  BY DEF Init, CallbackInv, QuietInv, HolderInv, CalibInv, Commands, Services
<1> QED
  BY <1>1, <1>2, <1>3, <1>4 DEF IInv, TypeOK

(* Every step leaves every flag a Boolean. *)
LEMMA FlagsNext == IInv /\ [Next]_vars => FlagsOK'
<1> SUFFICES ASSUME IInv, [Next]_vars PROVE FlagsOK'
  OBVIOUS
<1> USE DEF IInv, TypeOK, FlagsOK, vars, execVars, deviceVars, cmdVars, ioVars, writerVars,
            healthVars, hpVars, unitVars
<1>1. CASE Transition
  <2>1. CASE Configure
    BY <2>1, Zenon DEF Configure
  <2>2. CASE ConfigureThrows
    BY <2>2, Zenon DEF ConfigureThrows
  <2>3. CASE BeginActivate
    BY <2>3, Zenon DEF BeginActivate, Begin
  <2>4. CASE BeginDeactivate
    BY <2>4, Zenon DEF BeginDeactivate, Begin
  <2>5. CASE BeginCleanup
    BY <2>5, Zenon DEF BeginCleanup, Begin
  <2>6. CASE BeginShutdown
    BY <2>6, Zenon DEF BeginShutdown, Begin
  <2>7. CASE BeginDestroy
    BY <2>7, Zenon DEF BeginDestroy, Begin
  <2> QED
    BY <1>1, <2>1, <2>2, <2>3, <2>4, <2>5, <2>6, <2>7 DEF Transition
<1>2. CASE ActivateStep
  <2>1. CASE OpenDevice
    BY <2>1, Zenon DEF OpenDevice, Goto
  <2>2. CASE OpenFails
    BY <2>2, Zenon DEF OpenFails, Goto
  <2>3. CASE AbortActivation
    BY <2>3, Zenon DEF AbortActivation, Goto, ReleaseDevice
  <2>4. CASE ActivationFailed
    BY <2>4, Zenon DEF ActivationFailed, Return, PublishSoon
  <2>5. CASE InstallCallbacks
    BY <2>5, Zenon DEF InstallCallbacks, Goto
  <2>6. CASE EnterActive
    BY <2>6, Zenon DEF EnterActive, Goto
  <2> QED
    BY <1>2, <2>1, <2>2, <2>3, <2>4, <2>5, <2>6 DEF ActivateStep
<1>3. CASE StreamStep
  <2>1. CASE StartWriter
    BY <2>1, Zenon DEF StartWriter, Goto
  <2>2. CASE StartThread
    BY <2>2, Zenon DEF StartThread, Goto, Return
  <2>3. CASE StopWriter
    BY <2>3, Zenon DEF StopWriter, Goto
  <2>4. CASE JoinWriter
    BY <2>4, Zenon DEF JoinWriter, Goto
  <2>5. CASE StopThread
    BY <2>5, Zenon DEF StopThread, Goto, AfterStop
  <2>6. CASE JoinThread
    BY <2>6, Zenon DEF JoinThread, Goto, AfterStop
  <2> QED
    BY <1>3, <2>1, <2>2, <2>3, <2>4, <2>5, <2>6 DEF StreamStep
<1>4. CASE TeardownStep
  <2>1. CASE Close
    BY <2>1, Zenon DEF Close, Goto, ReleaseDevice
  <2>2. CASE ReportStandby
    BY <2>2, Zenon DEF ReportStandby, Return, PublishSoon
  <2>3. CASE ReportEnd
    BY <2>3, Zenon DEF ReportEnd, Goto
  <2>4. CASE StopHealth
    BY <2>4, Zenon DEF StopHealth, Goto, AfterRelease
  <2>5. CASE JoinHealth
    BY <2>5, Zenon DEF JoinHealth, Goto, AfterRelease
  <2>6. CASE Drop
    BY <2>6, Zenon DEF Drop
  <2> QED
    BY <1>4, <2>1, <2>2, <2>3, <2>4, <2>5, <2>6 DEF TeardownStep
<1>5. CASE ServiceStep
  <2>1. CASE BeginCommand
    BY <2>1, Zenon DEF BeginCommand
  <2>2. CASE DropLink
    BY <2>2, Zenon DEF DropLink, Goto, PublishSoon, ReleaseDevice
  <2>3. CASE Resume
    BY <2>3, Zenon DEF Resume, Return
  <2>4. CASE LogDispatched
    BY <2>4, Zenon DEF LogDispatched
  <2> QED
    BY <1>5, <2>1, <2>2, <2>3, <2>4 DEF ServiceStep
<1>6. CASE CommandDone
  <2>1. CASE QueryDone
    BY <2>1, Zenon DEF QueryDone, Goto, Families
  <2>2. CASE ProvisionDone
    BY <2>2, Zenon DEF ProvisionDone, Goto
  <2>3. CASE StartDone
    BY <2>3, Zenon DEF StartDone, Goto
  <2>4. CASE ComputeDone
    BY <2>4, Zenon DEF ComputeDone, Goto
  <2>5. CASE UploadDone
    BY <2>5, Zenon DEF UploadDone, Goto, Outcomes
  <2>6. CASE SaveDone
    BY <2>6, Zenon DEF SaveDone, Goto, Outcomes
  <2> QED
    BY <1>6, <2>1, <2>2, <2>3, <2>4, <2>5, <2>6 DEF CommandDone
<1>7. CASE IoStep
  <2>1. CASE IoStart
    BY <2>1, Zenon DEF IoStart, UnchangedByIo
  <2>2. CASE IoReturn
    BY <2>2, Zenon DEF IoReturn, UnchangedByIo
  <2>3. CASE IoExit
    BY <2>3, Zenon DEF IoExit, UnchangedByIo
  <2> QED
    BY <1>7, <2>1, <2>2, <2>3 DEF IoStep
<1>8. CASE WriterStep
  <2>1. CASE WriterTake
    BY <2>1, Zenon DEF WriterTake, UnchangedByWriter
  <2>2. CASE WriterDone
    BY <2>2, Zenon DEF WriterDone, UnchangedByWriter
  <2>3. CASE WriterExit
    BY <2>3, Zenon DEF WriterExit, UnchangedByWriter
  <2> QED
    BY <1>8, <2>1, <2>2, <2>3 DEF WriterStep
<1>9. CASE HealthStep
  <2>1. CASE HpCheck
    BY <2>1, Zenon DEF HpCheck, UnchangedByHealth
  <2>2. CASE HpCounters
    BY <2>2, Zenon DEF HpCounters, UnchangedByHealth
  <2>3. CASE HpSnapshot
    BY <2>3, Zenon DEF HpSnapshot, UnchangedByHealth
  <2>4. CASE HpLastSnapshot
    BY <2>4, Zenon DEF HpLastSnapshot, UnchangedByHealth
  <2>5. CASE HpWake
    BY <2>5, Zenon DEF HpWake, UnchangedByHealth
  <2> QED
    BY <1>9, <2>1, <2>2, <2>3, <2>4, <2>5 DEF HealthStep
<1>10. CASE BeginService
  BY <1>10, Zenon DEF BeginService, Begin
<1>11. CASE QueueCorrection
  BY <1>11, Zenon DEF QueueCorrection
<1>12. CASE DispatchLog
  BY <1>12, Zenon DEF DispatchLog
<1>13. CASE ActivateThrows
  BY <1>13, Zenon DEF ActivateThrows
<1>14. CASE IoCallback
  BY <1>14, Zenon DEF IoCallback, UnchangedByIo
<1>15. CASE HpHeartbeat
  BY <1>15, Zenon DEF HpHeartbeat, UnchangedByHealth
<1>16. CASE Gone
  BY <1>16, Zenon DEF Gone
<1>17. CASE UNCHANGED vars
  BY <1>17, Zenon
<1> QED
  BY <1>1, <1>2, <1>3, <1>4, <1>5, <1>6, <1>7, <1>8, <1>9, <1>10, <1>11, <1>12, <1>13,
     <1>14, <1>15, <1>16, <1>17 DEF Next, Request, CallbackStep

(* Every step leaves the reported and the published health well formed. *)
LEMMA ReportsNext == IInv /\ [Next]_vars => ReportsOK'
<1> SUFFICES ASSUME IInv, [Next]_vars PROVE ReportsOK'
  OBVIOUS
<1> USE DEF IInv, TypeOK, ReportsOK, HealthStates, vars, execVars, deviceVars, cmdVars,
            ioVars, writerVars, healthVars, hpVars, unitVars
<1>1. CASE Transition
  BY <1>1, EnteredType, WithType, Zenon DEF Transition, Configure, ConfigureThrows,
     BeginActivate, Begin, BeginDeactivate, BeginCleanup, BeginShutdown, BeginDestroy
<1>2. CASE ActivateStep
  BY <1>2, EnteredType, WithType, Zenon DEF ActivateStep, OpenDevice, Goto, OpenFails,
     AbortActivation, ReleaseDevice, ActivationFailed, Return, PublishSoon,
     InstallCallbacks, EnterActive
<1>3. CASE StreamStep
  BY <1>3, EnteredType, WithType, Zenon DEF StreamStep, StartWriter, Goto, StartThread,
     Return, StopWriter, JoinWriter, StopThread, AfterStop, JoinThread
<1>4. CASE TeardownStep
  BY <1>4, EnteredType, WithType, Zenon DEF TeardownStep, Close, Goto, ReleaseDevice,
     ReportStandby, Return, PublishSoon, ReportEnd, StopHealth, AfterRelease, JoinHealth,
     Drop
<1>5. CASE ServiceStep
  BY <1>5, EnteredType, WithType, Zenon DEF ServiceStep, BeginCommand, DropLink, Goto,
     PublishSoon, ReleaseDevice, Resume, Return, LogDispatched
<1>6. CASE CommandDone
  BY <1>6, EnteredType, WithType, Zenon DEF CommandDone, QueryDone, Goto, Families,
     ProvisionDone, StartDone, ComputeDone, UploadDone, Outcomes, SaveDone
<1>7. CASE IoStep
  BY <1>7, EnteredType, WithType, Zenon DEF IoStep, IoStart, UnchangedByIo, IoReturn, IoExit
<1>8. CASE WriterStep
  BY <1>8, EnteredType, WithType, Zenon DEF WriterStep, WriterTake, UnchangedByWriter,
     WriterDone, WriterExit
<1>9. CASE HealthStep
  BY <1>9, EnteredType, WithType, Zenon DEF HealthStep, HpCheck, UnchangedByHealth,
     HpCounters, HpSnapshot, HpLastSnapshot, HpWake
<1>10. CASE BeginService
  BY <1>10, EnteredType, WithType, Zenon DEF BeginService, Begin
<1>11. CASE QueueCorrection
  BY <1>11, EnteredType, WithType, Zenon DEF QueueCorrection
<1>12. CASE DispatchLog
  BY <1>12, EnteredType, WithType, Zenon DEF DispatchLog
<1>13. CASE ActivateThrows
  BY <1>13, EnteredType, WithType, Zenon DEF ActivateThrows
<1>14. CASE IoCallback
  BY <1>14, EnteredType, WithType, Zenon DEF IoCallback, UnchangedByIo
<1>15. CASE HpHeartbeat
  BY <1>15, EnteredType, WithType, Zenon DEF HpHeartbeat, UnchangedByHealth
<1>16. CASE Gone
  BY <1>16, EnteredType, WithType, Zenon DEF Gone
<1>17. CASE UNCHANGED vars
  BY <1>17, EnteredType, WithType, Zenon
<1> QED
  BY <1>1, <1>2, <1>3, <1>4, <1>5, <1>6, <1>7, <1>8, <1>9, <1>10, <1>11, <1>12, <1>13,
     <1>14, <1>15, <1>16, <1>17 DEF Next, Request, CallbackStep

(* Every step keeps where the executor can be, and what it can rely on there. *)
LEMMA StepNext == IInv /\ [Next]_vars => StatesOK' /\ CallbackInv' /\ QuietInv' /\ HolderInv' /\ CalibInv'
<1> SUFFICES ASSUME IInv, [Next]_vars PROVE StatesOK' /\ CallbackInv' /\ QuietInv' /\ HolderInv' /\ CalibInv'
  OBVIOUS
<1> USE DEF IInv, TypeOK, FlagsOK, StatesOK, CallbackInv, QuietInv, HolderInv, CalibInv,
            Steps, Commands, Services, Verdicts, vars, execVars, deviceVars, cmdVars,
            ioVars, writerVars, healthVars, hpVars, unitVars
<1>1. CASE Transition
  <2>1. CASE Configure
    BY <2>1 DEF Configure
  <2>2. CASE ConfigureThrows
    BY <2>2 DEF ConfigureThrows
  <2>3. CASE BeginActivate
    BY <2>3 DEF BeginActivate, Begin
  <2>4. CASE BeginDeactivate
    BY <2>4 DEF BeginDeactivate, Begin
  <2>5. CASE BeginCleanup
    BY <2>5 DEF BeginCleanup, Begin
  <2>6. CASE BeginShutdown
    BY <2>6 DEF BeginShutdown, Begin
  <2>7. CASE BeginDestroy
    BY <2>7 DEF BeginDestroy, Begin
  <2> QED
    BY <1>1, <2>1, <2>2, <2>3, <2>4, <2>5, <2>6, <2>7 DEF Transition
<1>2. CASE ActivateStep
  <2>1. CASE OpenDevice
    BY <2>1 DEF OpenDevice, Goto
  <2>2. CASE OpenFails
    BY <2>2 DEF OpenFails, Goto
  <2>3. CASE AbortActivation
    BY <2>3 DEF AbortActivation, Goto, ReleaseDevice
  <2>4. CASE ActivationFailed
    BY <2>4 DEF ActivationFailed, Return, PublishSoon
  <2>5. CASE InstallCallbacks
    BY <2>5 DEF InstallCallbacks, Goto
  <2>6. CASE EnterActive
    BY <2>6 DEF EnterActive, Goto
  <2> QED
    BY <1>2, <2>1, <2>2, <2>3, <2>4, <2>5, <2>6 DEF ActivateStep
<1>3. CASE StreamStep
  <2>1. CASE StartWriter
    BY <2>1 DEF StartWriter, Goto
  <2>2. CASE StartThread
    BY <2>2 DEF StartThread, Goto, Return
  <2>3. CASE StopWriter
    BY <2>3 DEF StopWriter, Goto
  <2>4. CASE JoinWriter
    BY <2>4 DEF JoinWriter, Goto
  <2>5. CASE StopThread
    BY <2>5 DEF StopThread, Goto, AfterStop
  <2>6. CASE JoinThread
    BY <2>6 DEF JoinThread, Goto, AfterStop
  <2> QED
    BY <1>3, <2>1, <2>2, <2>3, <2>4, <2>5, <2>6 DEF StreamStep
<1>4. CASE TeardownStep
  <2>1. CASE Close
    BY <2>1 DEF Close, Goto, ReleaseDevice
  <2>2. CASE ReportStandby
    BY <2>2 DEF ReportStandby, Return, PublishSoon
  <2>3. CASE ReportEnd
    BY <2>3 DEF ReportEnd, Goto
  <2>4. CASE StopHealth
    BY <2>4 DEF StopHealth, Goto, AfterRelease
  <2>5. CASE JoinHealth
    BY <2>5 DEF JoinHealth, Goto, AfterRelease
  <2>6. CASE Drop
    BY <2>6 DEF Drop
  <2> QED
    BY <1>4, <2>1, <2>2, <2>3, <2>4, <2>5, <2>6 DEF TeardownStep
<1>5. CASE ServiceStep
  <2>1. CASE BeginCommand
    BY <2>1 DEF BeginCommand
  <2>2. CASE DropLink
    BY <2>2 DEF DropLink, Goto, PublishSoon, ReleaseDevice
  <2>3. CASE Resume
    BY <2>3 DEF Resume, Return
  <2>4. CASE LogDispatched
    BY <2>4 DEF LogDispatched
  <2> QED
    BY <1>5, <2>1, <2>2, <2>3, <2>4 DEF ServiceStep
<1>6. CASE CommandDone
  <2>1. CASE QueryDone
    BY <2>1 DEF QueryDone, Goto, Families
  <2>2. CASE ProvisionDone
    BY <2>2 DEF ProvisionDone, Goto
  <2>3. CASE StartDone
    BY <2>3 DEF StartDone, Goto
  <2>4. CASE ComputeDone
    BY <2>4 DEF ComputeDone, Goto
  <2>5. CASE UploadDone
    BY <2>5 DEF UploadDone, Goto, Outcomes
  <2>6. CASE SaveDone
    BY <2>6 DEF SaveDone, Goto, Outcomes
  <2> QED
    BY <1>6, <2>1, <2>2, <2>3, <2>4, <2>5, <2>6 DEF CommandDone
<1>7. CASE IoStep
  BY <1>7 DEF IoStep, IoStart, UnchangedByIo, IoReturn, IoExit
<1>8. CASE WriterStep
  BY <1>8 DEF WriterStep, WriterTake, UnchangedByWriter, WriterDone, WriterExit
<1>9. CASE HealthStep
  BY <1>9 DEF HealthStep, HpCheck, UnchangedByHealth, HpCounters, HpSnapshot,
     HpLastSnapshot, HpWake
<1>10. CASE BeginService
  BY <1>10 DEF BeginService, Begin
<1>11. CASE QueueCorrection
  BY <1>11 DEF QueueCorrection
<1>12. CASE DispatchLog
  BY <1>12 DEF DispatchLog
<1>13. CASE ActivateThrows
  BY <1>13 DEF ActivateThrows
<1>14. CASE IoCallback
  BY <1>14 DEF IoCallback, UnchangedByIo
<1>15. CASE HpHeartbeat
  BY <1>15 DEF HpHeartbeat, UnchangedByHealth
<1>16. CASE Gone
  BY <1>16 DEF Gone
<1>17. CASE UNCHANGED vars
  BY <1>17
<1> QED
  BY <1>1, <1>2, <1>3, <1>4, <1>5, <1>6, <1>7, <1>8, <1>9, <1>10, <1>11, <1>12, <1>13,
     <1>14, <1>15, <1>16, <1>17 DEF Next, Request, CallbackStep

(* Together: IInv is preserved by every step. *)
LEMMA NextIInv == IInv /\ [Next]_vars => IInv'
BY FlagsNext, ReportsNext, StepNext DEF IInv, TypeOK

(* The inductive invariant holds in every reachable state. *)
LEMMA Invariant == Spec => []IInv
BY InitIInv, NextIInv, PTL DEF Spec

-----------------------------------------------------------------------------
(* The safety properties.                                                  *)

(* Every variable keeps to its range, whatever is asked of the node. *)
THEOREM TypeCorrect == Spec => []TypeOK
<1>1. IInv => TypeOK
  BY DEF IInv
<1> QED
  BY <1>1, Invariant, PTL

(* A command never shares the link with the polling thread or the writer: *)
(* every service, and activation, stops both before it sends.             *)
THEOREM LinkIsExclusive == Spec => []ExclusiveLink
<1>1. IInv => ExclusiveLink
  BY DEF IInv, TypeOK, StatesOK, QuietInv, HolderInv, ExclusiveLink, Commands
<1> QED
  BY <1>1, Invariant, PTL

(* Publishers is entered by one thread at a time. *)
THEOREM DispatcherIsUnique == Spec => []OneDispatcher
<1>1. IInv => OneDispatcher
  BY DEF IInv, TypeOK, StatesOK, QuietInv, HolderInv, OneDispatcher, Commands
<1> QED
  BY <1>1, Invariant, PTL

(* No thread outlives the Device or the Publishers it dereferences. *)
THEOREM NothingDangles == Spec => []NoUseAfterFree
<1>1. IInv => NoUseAfterFree
  BY DEF IInv, TypeOK, StatesOK, HolderInv, NoUseAfterFree, Commands
<1> QED
  BY <1>1, Invariant, PTL

(* An invalid calibration never reaches the unit, let alone its flash. *)
THEOREM InvalidNeverPersisted == Spec => []NeverPersistInvalid
<1>1. IInv => NeverPersistInvalid
  BY DEF IInv, CalibInv, NeverPersistInvalid
<1> QED
  BY <1>1, Invariant, PTL

-----------------------------------------------------------------------------
(* The workers, the reported state and the last snapshot.  What holds      *)
(* between callbacks rests on what holds inside them.                      *)

Running ==
  /\ io \in {"starting", "polling", "callback"} /\ ~ioStop
  /\ wr \in {"idle", "writing"} /\ ~wrStop

(* The workers of an active node were started with their stops reset. *)
RunInv ==
  /\ pc = "start_thread" => wr \in {"idle", "writing"} /\ ~wrStop
  /\ lc = "active" /\ pc \in {"idle", "resume"} /\ device => Running

(* What the reporter was told on the way to the state it is to agree with. *)
ReportInv ==
  /\ op \in Services => health.state = "active" /\ ~health.fault
  /\ lc = "active" /\ op \in Services \cup {"none"} => (device <=> ~health.released)
  /\ pc \in {"start_writer", "start_thread"} /\ op = "activate" => health = Entered("active", FALSE)
  /\ pc \in {"release", "join_health", "drop"} /\ op # "destroy" =>
       health = IF op = "shutdown" THEN Entered("shutdown", FALSE)
                ELSE Entered("unconfigured", op = "error")
  /\ HealthAgrees

(* The health thread leaves with a report of the state it was stopped in, *)
(* and nothing is published between that and the next configuration.      *)
LastInv ==
  /\ lc = "gone" => pc = "idle"
  /\ hp # "none" /\ hpStop => pc = "join_health"
  /\ hp \in {"last_counters", "last_snapshot", "exited"} => hpStop
  /\ hp = "exited" => published = health
  /\ hp = "none" /\ op # "destroy" /\ lc # "gone" =>
       published.state \in {"none", "unconfigured", "shutdown"}

NodeInv == RunInv /\ ReportInv /\ LastInv

(* Every step keeps the workers of an active node running. *)
LEMMA RunNext == IInv /\ RunInv /\ [Next]_vars => RunInv'
<1> SUFFICES ASSUME IInv, RunInv, [Next]_vars PROVE RunInv'
  OBVIOUS
<1> USE DEF IInv, TypeOK, FlagsOK, StatesOK, CallbackInv, QuietInv, HolderInv, Commands, Services, RunInv,
            Running, vars, execVars, deviceVars, cmdVars,
            ioVars, writerVars, healthVars, hpVars, unitVars
<1>1. CASE Transition
  BY <1>1 DEF Transition, Configure, ConfigureThrows, BeginActivate, Begin, BeginDeactivate,
     BeginCleanup, BeginShutdown, BeginDestroy
<1>2. CASE ActivateStep
  BY <1>2 DEF ActivateStep, OpenDevice, Goto, OpenFails, AbortActivation, ReleaseDevice,
     ActivationFailed, Return, PublishSoon, InstallCallbacks, EnterActive
<1>3. CASE StreamStep
  BY <1>3 DEF StreamStep, StartWriter, Goto, StartThread, Return, StopWriter, JoinWriter,
     StopThread, AfterStop, JoinThread
<1>4. CASE TeardownStep
  BY <1>4 DEF TeardownStep, Close, Goto, ReleaseDevice, ReportStandby, Return, PublishSoon,
     ReportEnd, StopHealth, AfterRelease, JoinHealth, Drop
<1>5. CASE ServiceStep
  <2>1. CASE BeginCommand
    BY <2>1 DEF BeginCommand
  <2>2. CASE DropLink
    BY <2>2 DEF DropLink, Goto, PublishSoon, ReleaseDevice
  <2>3. CASE Resume
    BY <2>3 DEF Resume, Return
  <2>4. CASE LogDispatched
    BY <2>4 DEF LogDispatched
  <2> QED
    BY <1>5, <2>1, <2>2, <2>3, <2>4 DEF ServiceStep
<1>6. CASE CommandDone
  BY <1>6 DEF CommandDone, QueryDone, Goto, Families, ProvisionDone, StartDone, ComputeDone,
     UploadDone, Outcomes, SaveDone
<1>7. CASE BeginService \/ QueueCorrection
  <2>1. CASE BeginService
    BY <2>1 DEF BeginService, Begin
  <2>2. CASE QueueCorrection
    BY <2>2 DEF QueueCorrection
  <2> QED
    BY <1>7, <2>1, <2>2
<1>8. CASE DispatchLog \/ ActivateThrows
  BY <1>8 DEF DispatchLog, ActivateThrows
<1>9. CASE IoStep \/ IoCallback
  <2>1. CASE IoStart
    BY <2>1 DEF IoStart, UnchangedByIo
  <2>2. CASE IoReturn
    BY <2>2 DEF IoReturn, UnchangedByIo
  <2>3. CASE IoExit
    BY <2>3 DEF IoExit, UnchangedByIo
  <2>4. CASE IoCallback
    BY <2>4 DEF IoCallback, UnchangedByIo
  <2> QED
    BY <1>9, <2>1, <2>2, <2>3, <2>4 DEF IoStep
<1>10. CASE WriterStep
  BY <1>10 DEF WriterStep, WriterTake, UnchangedByWriter, WriterDone, WriterExit
<1>11. CASE HealthStep \/ HpHeartbeat
  BY <1>11 DEF HealthStep, HpCheck, UnchangedByHealth, HpCounters, HpSnapshot,
     HpLastSnapshot, HpWake, HpHeartbeat
<1>12. CASE Gone \/ UNCHANGED vars
  BY <1>12 DEF Gone
<1> QED
  BY <1>1, <1>2, <1>3, <1>4, <1>5, <1>6, <1>7, <1>8, <1>9, <1>10, <1>11, <1>12
  DEF Next, Request, CallbackStep

(* Every step keeps what the reporter was told. *)
LEMMA ReportNext == IInv /\ ReportInv /\ [Next]_vars => ReportInv'
<1> SUFFICES ASSUME IInv, ReportInv, [Next]_vars PROVE ReportInv'
  OBVIOUS
<1> USE DEF IInv, TypeOK, FlagsOK, StatesOK, CallbackInv, QuietInv, HolderInv, Commands, Services, ReportInv,
            HealthAgrees, Entered, Reported, WithPause, WithDeviceReleased, vars, execVars, deviceVars, cmdVars,
            ioVars, writerVars, healthVars, hpVars, unitVars
<1>1. CASE Transition
  BY <1>1 DEF Transition, Configure, ConfigureThrows, BeginActivate, Begin, BeginDeactivate,
     BeginCleanup, BeginShutdown, BeginDestroy
<1>2. CASE ActivateStep
  BY <1>2 DEF ActivateStep, OpenDevice, Goto, OpenFails, AbortActivation, ReleaseDevice,
     ActivationFailed, Return, PublishSoon, InstallCallbacks, EnterActive
<1>3. CASE StreamStep
  BY <1>3 DEF StreamStep, StartWriter, Goto, StartThread, Return, StopWriter, JoinWriter,
     StopThread, AfterStop, JoinThread
<1>4. CASE TeardownStep
  BY <1>4 DEF TeardownStep, Close, Goto, ReleaseDevice, ReportStandby, Return, PublishSoon,
     ReportEnd, StopHealth, AfterRelease, JoinHealth, Drop
<1>5. CASE ServiceStep
  BY <1>5 DEF ServiceStep, BeginCommand, DropLink, Goto, PublishSoon, ReleaseDevice, Resume,
     Return, LogDispatched
<1>6. CASE CommandDone
  BY <1>6 DEF CommandDone, QueryDone, Goto, Families, ProvisionDone, StartDone, ComputeDone,
     UploadDone, Outcomes, SaveDone
<1>7. CASE BeginService \/ QueueCorrection
  BY <1>7 DEF BeginService, Begin, QueueCorrection
<1>8. CASE DispatchLog \/ ActivateThrows
  BY <1>8 DEF DispatchLog, ActivateThrows
<1>9. CASE IoStep \/ IoCallback
  BY <1>9 DEF IoStep, IoStart, UnchangedByIo, IoReturn, IoExit, IoCallback
<1>10. CASE WriterStep
  BY <1>10 DEF WriterStep, WriterTake, UnchangedByWriter, WriterDone, WriterExit
<1>11. CASE HealthStep \/ HpHeartbeat
  BY <1>11 DEF HealthStep, HpCheck, UnchangedByHealth, HpCounters, HpSnapshot,
     HpLastSnapshot, HpWake, HpHeartbeat
<1>12. CASE Gone \/ UNCHANGED vars
  BY <1>12 DEF Gone
<1> QED
  BY <1>1, <1>2, <1>3, <1>4, <1>5, <1>6, <1>7, <1>8, <1>9, <1>10, <1>11, <1>12
  DEF Next, Request, CallbackStep

(* Every step keeps the last snapshot. *)
LEMMA LastNext == IInv /\ ReportInv /\ LastInv /\ [Next]_vars => LastInv'
<1> SUFFICES ASSUME IInv, ReportInv, LastInv, [Next]_vars PROVE LastInv'
  OBVIOUS
<1> USE DEF IInv, TypeOK, FlagsOK, StatesOK, CallbackInv, QuietInv, HolderInv, Commands, Services, LastInv,
            ReportInv, Entered, Reported, vars, execVars, deviceVars, cmdVars,
            ioVars, writerVars, healthVars, hpVars, unitVars
<1>1. CASE Transition
  BY <1>1 DEF Transition, Configure, ConfigureThrows, BeginActivate, Begin, BeginDeactivate,
     BeginCleanup, BeginShutdown, BeginDestroy
<1>2. CASE ActivateStep
  BY <1>2 DEF ActivateStep, OpenDevice, Goto, OpenFails, AbortActivation, ReleaseDevice,
     ActivationFailed, Return, PublishSoon, InstallCallbacks, EnterActive
<1>3. CASE StreamStep
  BY <1>3 DEF StreamStep, StartWriter, Goto, StartThread, Return, StopWriter, JoinWriter,
     StopThread, AfterStop, JoinThread
<1>4. CASE TeardownStep
  <2>1. CASE Close
    BY <2>1 DEF Close, Goto, ReleaseDevice
  <2>2. CASE ReportStandby
    BY <2>2 DEF ReportStandby, Return, PublishSoon
  <2>3. CASE ReportEnd
    BY <2>3 DEF ReportEnd, Goto
  <2>4. CASE StopHealth
    BY <2>4 DEF StopHealth, Goto, AfterRelease
  <2>5. CASE JoinHealth
    BY <2>5 DEF JoinHealth, Goto, AfterRelease
  <2>6. CASE Drop
    <3>1. hp = "none" /\ UNCHANGED <<hp, published>>
      BY <2>6 DEF Drop
    <3>2. op = "destroy" => lc' = "gone"
      BY <2>6 DEF Drop
    <3>3. op # "destroy" => lc # "gone"
      BY <2>6 DEF Drop
    <3>4. pc' = "idle"
      BY <2>6 DEF Drop
    <3>5. op # "destroy" => published.state \in {"none", "unconfigured", "shutdown"}
      BY <3>1, <3>3
    <3> QED
      BY <3>1, <3>2, <3>4, <3>5
  <2> QED
    BY <1>4, <2>1, <2>2, <2>3, <2>4, <2>5, <2>6 DEF TeardownStep
<1>5. CASE ServiceStep
  <2>1. CASE BeginCommand
    BY <2>1 DEF BeginCommand
  <2>2. CASE DropLink
    BY <2>2 DEF DropLink, Goto, PublishSoon, ReleaseDevice
  <2>3. CASE Resume
    BY <2>3 DEF Resume, Return
  <2>4. CASE LogDispatched
    BY <2>4 DEF LogDispatched
  <2> QED
    BY <1>5, <2>1, <2>2, <2>3, <2>4 DEF ServiceStep
<1>6. CASE CommandDone
  BY <1>6 DEF CommandDone, QueryDone, Goto, Families, ProvisionDone, StartDone, ComputeDone,
     UploadDone, Outcomes, SaveDone
<1>7. CASE BeginService \/ QueueCorrection
  <2>1. CASE BeginService
    BY <2>1 DEF BeginService, Begin
  <2>2. CASE QueueCorrection
    BY <2>2 DEF QueueCorrection
  <2> QED
    BY <1>7, <2>1, <2>2
<1>8. CASE DispatchLog \/ ActivateThrows
  BY <1>8 DEF DispatchLog, ActivateThrows
<1>9. CASE IoStep \/ IoCallback
  <2>1. CASE IoStart
    BY <2>1 DEF IoStart, UnchangedByIo
  <2>2. CASE IoReturn
    BY <2>2 DEF IoReturn, UnchangedByIo
  <2>3. CASE IoExit
    BY <2>3 DEF IoExit, UnchangedByIo
  <2>4. CASE IoCallback
    BY <2>4 DEF IoCallback, UnchangedByIo
  <2> QED
    BY <1>9, <2>1, <2>2, <2>3, <2>4 DEF IoStep
<1>10. CASE WriterStep
  BY <1>10 DEF WriterStep, WriterTake, UnchangedByWriter, WriterDone, WriterExit
<1>11. CASE HealthStep \/ HpHeartbeat
  BY <1>11 DEF HealthStep, HpCheck, UnchangedByHealth, HpCounters, HpSnapshot,
     HpLastSnapshot, HpWake, HpHeartbeat
<1>12. CASE Gone \/ UNCHANGED vars
  BY <1>12 DEF Gone
<1> QED
  BY <1>1, <1>2, <1>3, <1>4, <1>5, <1>6, <1>7, <1>8, <1>9, <1>10, <1>11, <1>12
  DEF Next, Request, CallbackStep

(* Together with IInv these hold in every reachable state. *)
LEMMA NodeInvariant == Spec => []NodeInv
<1>1. Init => NodeInv
  BY DEF Init, NodeInv, RunInv, ReportInv, LastInv, HealthAgrees, Entered, Reported, NoReport,
     Services
<1>2. IInv /\ NodeInv /\ [Next]_vars => NodeInv'
  BY RunNext, ReportNext, LastNext DEF NodeInv
<1> QED
  BY <1>1, <1>2, Invariant, PTL DEF Spec

(* An active node streams, with both workers running, unless a settings    *)
(* save released the device, and no other node holds device or worker.     *)
THEOREM ActiveNodesStream == Spec => []StreamsWhenActive
<1>1. IInv /\ NodeInv => StreamsWhenActive
  BY DEF IInv, TypeOK, FlagsOK, StatesOK, CallbackInv, QuietInv, HolderInv, NodeInv, RunInv,
     Running, ReportInv, StreamsWhenActive, Services
<1> QED
  BY <1>1, Invariant, NodeInvariant, PTL

(* Between callbacks the reported state is the lifecycle state. *)
THEOREM ReportsAgree == Spec => []HealthAgrees
<1>1. NodeInv => HealthAgrees
  BY DEF NodeInv, ReportInv
<1> QED
  BY <1>1, NodeInvariant, PTL

(* A node cleaned up or shut down has said so in its last snapshot. *)
THEOREM LastSnapshotIsTrue == Spec => []LastWord
<1>1. IInv /\ NodeInv => LastWord
  BY DEF IInv, TypeOK, StatesOK, CallbackInv, HolderInv, NodeInv, LastInv, LastWord
<1> QED
  BY <1>1, Invariant, NodeInvariant, PTL

-----------------------------------------------------------------------------
(* What a step may do.                                                     *)

(* Only EnterActive starts a session over, and nothing marks the session   *)
(* at that moment: the workers start later, and no command is in flight.   *)
LEMMA OnlyEnterActiveForgets == [Next]_vars /\ heard /\ ~heard' => pc = "enter_active"
<1> SUFFICES ASSUME [Next]_vars, heard, ~heard', pc # "enter_active" PROVE FALSE
  OBVIOUS
<1> USE DEF vars, healthVars
<1>1. CASE Request
  BY <1>1 DEF Request, Transition, Configure, ConfigureThrows, BeginActivate, BeginDeactivate,
     BeginCleanup, BeginShutdown, BeginDestroy, BeginService, QueueCorrection
<1>2. CASE CallbackStep
  BY <1>2 DEF CallbackStep, ActivateStep, StreamStep, TeardownStep, ServiceStep, OpenDevice,
     OpenFails, AbortActivation, ActivationFailed, InstallCallbacks, EnterActive, StartWriter,
     StartThread, StopWriter, JoinWriter, StopThread, JoinThread, Close, ReportStandby,
     ReportEnd, StopHealth, JoinHealth, Drop, BeginCommand, DropLink, Resume, LogDispatched
<1>3. CASE CommandDone
  BY <1>3 DEF CommandDone, QueryDone, ProvisionDone, StartDone, ComputeDone, UploadDone, SaveDone
<1>4. CASE DispatchLog \/ ActivateThrows \/ Gone \/ UNCHANGED vars
  BY <1>4 DEF DispatchLog, ActivateThrows, Gone
<1>5. CASE IoStep \/ IoCallback
  BY <1>5 DEF IoStep, IoStart, IoReturn, IoExit, IoCallback
<1>6. CASE WriterStep
  BY <1>6 DEF WriterStep, WriterTake, WriterDone, WriterExit, UnchangedByWriter
<1>7. CASE HealthStep \/ HpHeartbeat
  BY <1>7 DEF HealthStep, HpCheck, HpCounters, HpSnapshot, HpLastSnapshot, HpWake,
     HpHeartbeat, UnchangedByHealth
<1> QED
  BY <1>1, <1>2, <1>3, <1>4, <1>5, <1>6, <1>7 DEF Next

(* The first logs of a session are never lost to its own start. *)
THEOREM SessionMarksAreKept == Spec => SessionMarksKept
<1>1. IInv /\ pc = "enter_active" => io = "none" /\ ~dispatching
  BY DEF IInv, QuietInv, HolderInv, TypeOK, StatesOK, Commands
<1>2. IInv /\ [Next]_vars => [heard /\ ~heard' => io = "none" /\ ~dispatching]_vars
  BY <1>1, OnlyEnterActiveForgets
<1> QED
  BY <1>2, Invariant, PTL DEF Spec, SessionMarksKept

-----------------------------------------------------------------------------
(* DriverNode implements LinkOwnership.                                    *)

(* Steps after which the same owner has the link. *)
LinkUntouched ==
  UNCHANGED <<cmd, device>> /\ (io' = "none" <=> io = "none") /\ (wr' = "none" <=> wr = "none")

(* Such a step is a stutter of the link. *)
LEMMA UntouchedStutters == LinkUntouched => UNCHANGED LinkOwner
BY DEF LinkUntouched, LinkOwner

(* A step of the workers or of the health thread leaves the link to its owner. *)
LEMMA ThreadsKeepLink ==
  IoStep \/ IoCallback \/ WriterStep \/ HealthStep \/ HpHeartbeat => LinkUntouched
<1> USE DEF LinkUntouched, vars, cmdVars, ioVars, writerVars, deviceVars
<1>1. IoStep \/ IoCallback => LinkUntouched
  BY DEF IoStep, IoStart, IoReturn, IoExit, IoCallback, UnchangedByIo
<1>2. WriterStep => LinkUntouched
  BY DEF WriterStep, WriterTake, WriterDone, WriterExit, UnchangedByWriter
<1>3. HealthStep \/ HpHeartbeat => LinkUntouched
  BY DEF HealthStep, HpCheck, HpCounters, HpSnapshot, HpLastSnapshot, HpWake, HpHeartbeat,
     UnchangedByHealth
<1> QED
  BY <1>1, <1>2, <1>3

(* Neither does a request, an exception or a dispatched log. *)
LEMMA RequestsKeepLink ==
  Request \/ DispatchLog \/ ActivateThrows \/ Gone \/ UNCHANGED vars => LinkUntouched
BY DEF LinkUntouched, vars, cmdVars, ioVars, writerVars, deviceVars, Request, Transition,
   Configure, ConfigureThrows, BeginActivate, BeginDeactivate, BeginCleanup, BeginShutdown,
   BeginDestroy, BeginService, QueueCorrection, DispatchLog, ActivateThrows, Gone

(* A command that ends gives the link back. *)
LEMMA CommandReturnsLink == IInv /\ IInv' /\ CommandDone => Link!Next
<1> SUFFICES ASSUME IInv, IInv', CommandDone PROVE Link!Next
  OBVIOUS
<1>1. cmd # "none" /\ cmd' = "none" /\ UNCHANGED <<device, io, wr>>
  BY DEF CommandDone, QueryDone, ProvisionDone, StartDone, ComputeDone, UploadDone, SaveDone,
     deviceVars, ioVars, writerVars
<1>2. io = "none" /\ wr = "none" /\ device
  BY <1>1 DEF IInv, TypeOK, StatesOK, QuietInv, HolderInv, Commands
<1> QED
  BY <1>1, <1>2 DEF LinkOwner, Link!Next, Link!EndCommand, Link!Move

(* The steps of a callback that leave the link as it is. *)
UntouchedStep ==
  \/ OpenFails \/ ActivationFailed \/ InstallCallbacks \/ EnterActive
  \/ StopWriter \/ StopThread
  \/ ReportStandby \/ ReportEnd \/ StopHealth \/ JoinHealth \/ Drop
  \/ Resume \/ LogDispatched

(* None of them opens, closes, takes or returns it. *)
LEMMA CallbackKeepsLink == UntouchedStep => LinkUntouched
<1> USE DEF LinkUntouched, deviceVars, cmdVars, ioVars, writerVars
<1>1. OpenFails \/ ActivationFailed \/ InstallCallbacks \/ EnterActive => LinkUntouched
  BY Zenon DEF OpenFails, ActivationFailed, InstallCallbacks, EnterActive
<1>2. StopWriter \/ StopThread => LinkUntouched
  BY DEF StopWriter, StopThread
<1>3. ReportStandby \/ ReportEnd \/ StopHealth \/ JoinHealth \/ Drop => LinkUntouched
  BY Zenon DEF ReportStandby, ReportEnd, StopHealth, JoinHealth, Drop
<1>4. Resume \/ LogDispatched => LinkUntouched
  BY Zenon DEF Resume, LogDispatched
<1> QED
  BY <1>1, <1>2, <1>3, <1>4 DEF UntouchedStep

(* Inside a callback the executor opens, takes, returns or closes the link, *)
(* and only when the link is in a state to be opened, taken, ...            *)
LEMMA CallbackMovesLink ==
  IInv /\ IInv' /\ CallbackStep => Link!Next \/ UNCHANGED LinkOwner
<1> SUFFICES ASSUME IInv, IInv', CallbackStep PROVE Link!Next \/ UNCHANGED LinkOwner
  OBVIOUS
<1> USE DEF IInv, TypeOK, StatesOK, QuietInv, HolderInv, Commands, deviceVars, cmdVars, ioVars,
            writerVars
<1>1. CASE OpenDevice
  BY <1>1 DEF OpenDevice, LinkOwner, Link!Next, Link!Open, Link!Move
<1>2. CASE AbortActivation \/ DropLink
  BY <1>2 DEF AbortActivation, DropLink, ReleaseDevice, LinkOwner, Link!Next, Link!Close, Link!Move
<1>3. CASE Close
  BY <1>3 DEF Close, ReleaseDevice, LinkOwner, Link!Next, Link!Close, Link!Move
<1>4. CASE BeginCommand
  BY <1>4 DEF BeginCommand, LinkOwner, Link!Next, Link!BeginCommand, Link!Move
<1>5. CASE StartWriter
  BY <1>5 DEF StartWriter, Goto, LinkOwner, Link!Next, Link!StartStream, Link!Move
<1>6. CASE StartThread
  BY <1>6 DEF StartThread, LinkOwner, Link!Next, Link!StartStream, Link!Move
<1>7. CASE JoinWriter
  BY <1>7 DEF JoinWriter, LinkOwner, Link!Next, Link!StopStream, Link!Move
<1>8. CASE JoinThread
  BY <1>8 DEF JoinThread, LinkOwner, Link!Next, Link!StopStream, Link!Move
<1>9. CASE UntouchedStep
  BY <1>9, CallbackKeepsLink, UntouchedStutters
<1> QED
  BY <1>1, <1>2, <1>3, <1>4, <1>5, <1>6, <1>7, <1>8, <1>9
  DEF CallbackStep, ActivateStep, StreamStep, TeardownStep, ServiceStep, UntouchedStep

(* The node implements the promise: every step moves the link as           *)
(* LinkOwnership allows, or leaves it alone.                               *)
THEOREM ImplementsLink == Spec => LinkSpec
<1>1. Init => Link!Init
  BY DEF Init, Link!Init, LinkOwner
<1>2. IInv /\ IInv' /\ [Next]_vars => [Link!Next]_LinkOwner
  <2> SUFFICES ASSUME IInv, IInv', [Next]_vars PROVE Link!Next \/ UNCHANGED LinkOwner
    OBVIOUS
  <2>1. CASE CallbackStep
    BY <2>1, CallbackMovesLink
  <2>2. CASE CommandDone
    BY <2>2, CommandReturnsLink
  <2>3. CASE IoStep \/ IoCallback \/ WriterStep \/ HealthStep \/ HpHeartbeat
    BY <2>3, ThreadsKeepLink, UntouchedStutters
  <2>4. CASE Request \/ DispatchLog \/ ActivateThrows \/ Gone \/ UNCHANGED vars
    BY <2>4, RequestsKeepLink, UntouchedStutters
  <2> QED
    BY <2>1, <2>2, <2>3, <2>4 DEF Next
<1> QED
  BY <1>1, <1>2, Invariant, PTL DEF Spec, LinkSpec, Link!Spec

=============================================================================
