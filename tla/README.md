# TLA+ verification of sbg_driver

`sbg_driver` is a ROS 2 lifecycle node for SBG Systems inertial units. It opens one
connection to the unit, decodes the unit's logs, publishes them as ROS messages, forwards
RTCM corrections to the unit, offers three calibration services and reports its health.
This directory models the parts of it whose correctness depends on the order of events,
checks them with TLC on small instances, and proves the main results with TLAPS.

Paths below are relative to `src/src/` (so `sbg_driver/src/driver_node.cpp` is
`src/src/sbg_driver/src/driver_node.cpp` of the source tree).

## 1. Inventory

| component | source | state | operations |
|---|---|---|---|
| lifecycle node | `sbg_driver/src/driver_node.cpp` | device handle, publishers, two worker threads, health publisher, services | lifecycle callbacks, three services, `/rtcm` callback, destructor |
| device handle, configurator | `sbg_driver_core/src/device.cpp` | log and poll callbacks, `run_active`, cached magnetic calibration | `open`, `run`, `poll_once`, `write_rtcm`, request/response commands |
| RTCM writer | `sbg_driver_core/src/rtcm_writer.cpp` | bounded queue, byte count, stop flag and stop token | `enqueue`, worker `run`, destructor |
| output rates | `sbg_driver/include/sbg_driver/output_rate_limiter.hpp` | unwrapped device timeline; per topic the last sample and next deadline | `observe`, `resolve`, `allow`, `reset` |
| health publisher | `sbg_driver/src/health_publisher.cpp` | publish request, stop token | heartbeat thread, `publish_soon`, last report, `observe_log` |
| health reporter | `sbg_driver/src/health.cpp` | operational state, fault, pause, per-component freshness, counters, alerts | one setter per lifecycle event, `observe_*`, `snapshot` |
| publishers: device clock | `sbg_driver/src/publishers.cpp` 273-343, 621-649 | last device stamp, restart candidate, UTC anchor | `on_log`, restart and outage detection, `stamp_for` |
| publishers: composition | `sbg_driver/src/publishers.cpp` 366-619, 650-756 | pending odometry epochs, held IMU samples and headings, the histories they are paired with, drop counters | assembling odometry, IMU and heading messages, `flush_pending` |
| serial transport | `sbg_driver_core/src/transport.cpp` | file descriptor, write mutex | read, shared and cancellable write |
| replay timeline | `sbg_driver_core/include/sbg/replay_timeline.hpp` | first device stamp and wall time | pacing of a recorded file |
| conversions, parameters, log view, error mapping | `conversions.cpp`, `param_conversions.cpp`, `log_view.cpp`, `error.cpp` | none | pure functions |
| process, launch files, tools, containers | `main.cpp`, `launch/`, `tools/`, `docker/` | none of the driver's own | start-up and deployment |

### How they interact

Four threads share one `SbgDriverNode`:

* The **executor thread** runs every lifecycle callback, every service and the `/rtcm`
  callback, one at a time. It creates, stops and joins the others.
* The **polling thread** runs `Device::run`: it reads frames, hands each log to the log
  callback (`observe_log`, which tells the health reporter, then `Publishers::on_log`) and calls
  `Publishers::flush_pending` after each poll.
* The **RTCM writer thread** takes corrections from a queue the executor fills and
  writes them through `Device::write_rtcm`, on the same connection.
* The **health thread** reads the stream counters out of `Publishers` and a snapshot
  out of `HealthReporter`, publishes it, and waits for the heartbeat, a request or a stop.

A service command uses the same connection as both workers, so it must stop and join them
first and start them again on every path. While a command awaits its acknowledgement, the
SDK dispatches the logs it reads in between **on the executor thread**, into the same
callbacks.

### What is hard here, and what makes each part correct

* *Lifecycle node.* Ownership of the connection; destruction order against four threads;
  services that fail half-way; the reported state drifting from the real one; joins that
  never return. Correct when: one owner of the connection at a time, `Publishers` entered
  by one thread at a time, nothing dangling, an active node really streams, health agrees
  with the lifecycle, every callback returns.
* *RTCM writer.* Admission against a concurrent destructor, lost wake-ups, a counter kept
  apart from the queue it counts. Correct when: FIFO, at most once, limits respected,
  nothing left behind, nothing slept on, destruction ends.
* *Output rates.* Stamps that wrap, arrive late or reordered, or restart. Correct when: the
  timeline is exact and a rate is neither exceeded on average nor halved by jitter.
* *Health reporter.* Verdicts on silence that pauses, new sessions and commands interrupt;
  counters that may restart. Correct when: what a snapshot shows as current was heard in this
  session and in time, silence is the device's own, a verdict stands until something new is
  observed, and no restart reads as growth.
* *Device clock.* Distinguishing a restart from a late log and from a wrap. Correct when: no
  late log and no wrap is taken for a restart, a real one is noticed soon and before a log of
  the new run meets caches of the old, and no stamp rests on the clock of another run.
* *Composition.* Epochs in order, none composed twice, the nearest partner chosen although
  logs come late, bounded memory, deadlines honoured, one IMU source, every omission counted.
* *Serial transport.* Two writers, a deadline, a cancellation after part of a frame.
  Correct when frames never interleave and a half-written frame is reported.

`PROJECT.json` lists each hazard at its line with the properties that cover it.

## 2. Modules

| module | models | role |
|---|---|---|
| `LinkOwnership` | - | abstract: who may hold the connection, and how it changes hands |
| `DriverNode` | `driver_node.cpp`, `health_publisher.cpp` (thread), `device.cpp` (run, commands) | the node and its four threads |
| `DriverNodeProofs` | - | proofs about `DriverNode` |
| `OrderedChannel` | - | abstract: a channel that keeps order and may be closed |
| `RtcmWriter` | `rtcm_writer.cpp` | queue, worker, destructor |
| `RtcmWriterProofs` | - | proofs about `RtcmWriter` |
| `Timestamps` | the comparisons of wrapping stamps in `publishers.cpp`, `publishers.hpp` | signed difference and distance, shared by the modules below |
| `OutputRate` | `output_rate_limiter.hpp`, its use in `publishers.cpp` | timeline and rate of one topic |
| `OutputRateProofs` | - | proofs about `OutputRate` |
| `HealthReporter` | `health.cpp`, `health.hpp`, `health_publisher.cpp` (`observe_log`, `publish_once`) | observations, settings and the components of a snapshot |
| `MCHealthReporter` | - | its instance for TLC |
| `HealthReporterProofs` | - | proofs about `HealthReporter` |
| `DeviceClock` | `publishers.cpp` 273-343, 621-649, 787-815 | restarts of the device clock and the UTC anchor |
| `DeviceClockProofs` | - | proofs about `DeviceClock` |
| `Queues` | the loops that prune a history or empty a queue from its front | the front of a queue |
| `OrderedEpochs` | - | abstract: epochs retired in order, none lost |
| `OdomComposer` | `publishers.cpp` 492-619 and the log handlers that feed it | pending odometry epochs and their members |
| `OdomComposerProofs` | - | proofs about `OdomComposer` |
| `ImuPairing` | `publishers.cpp` 379-490, 650-756 | held IMU samples and headings, the switch of the IMU source |
| `MCImuPairing` | - | its instance for TLC |
| `ImuPairingProofs` | - | proofs about `ImuPairing` |
| `SerialWrite` | `transport.cpp` (`write_serial`, `write`) | the threads that share the serial line |
| `SerialWriteProofs` | - | proofs about `SerialWrite` |

Definitions whose comment starts with "Mutant of" are alternative bodies a plausible bug
would give; no specification uses them. Each property of a passing run fails under one of them.

### DriverNode

One variable per member the threads share. `op` is the callback the executor is in and
`pc` the next step of it; a step ends where another thread can see the difference or where
the executor waits. `io`, `wr`, `hp` say where the three threads are (`none` when the
`std::thread` does not exist, `exited` when it may be joined).

| code | actions |
|---|---|
| `on_configure` | `Configure`, `ConfigureThrows` |
| `on_activate`, `activate_device` | `BeginActivate`, `OpenDevice`, `OpenFails`, `QueryDone`, `ProvisionDone`, `AbortActivation`, `InstallCallbacks`, `EnterActive`, `ActivationFailed`, `ActivateThrows` |
| `start_io`, `stop_io` | `StartWriter`, `StartThread`, `StopWriter`, `JoinWriter`, `StopThread`, `JoinThread` |
| `on_deactivate`, `on_cleanup`, `on_shutdown`, `on_error`, the destructor | `Begin...`, `Close`, `ReportStandby`, `ReportEnd`, `StopHealth`, `JoinHealth`, `Drop` |
| the three services | `BeginService`, `BeginCommand`, `StartDone`, `ComputeDone`, `UploadDone`, `SaveDone`, `DropLink`, `Resume` |
| logs dispatched while a command waits | `DispatchLog`, `LogDispatched` |
| `Device::run` | `IoStart`, `IoCallback`, `IoReturn`, `IoExit` |
| `HealthPublisher::run` | `HpCheck`, `HpCounters`, `HpSnapshot`, `HpWake`, `HpHeartbeat`, `HpLastSnapshot` |

Abstractions. Provisioning is one command with two outcomes. The RTCM queue is one bit
(`RtcmWriter` has the queue). A refused configuration changes nothing and is not an action.
An exception in `on_configure` or `on_activate` is caught by the lifecycle machinery, which
runs `on_error`; an exception out of `start_io` inside a service would end the process and
is not modelled. `published` is the last snapshot handed to the `/diagnostics` publisher,
whose own exceptions the code swallows. Calibration quality is `usable` or `invalid`. A command
that changes the unit ends acknowledged, obeyed with the acknowledgement lost, or not obeyed;
the code cannot tell the last two apart.

### RtcmWriter

`enqueue` is one action, as it holds the mutex throughout. The destructor is three:
discarding under the mutex, requesting the stop, joining. The worker's wait is modelled
with its condition variable: it sleeps only after finding the predicate false, and only a
notification wakes it, so a missing notification shows. `accepted` and `taken` are history.

### OutputRate

`now` is the true device clock; a log carries it modulo `Wrap`, possibly less a delay.
`OtherLog` is a log of another topic (it moves the shared unwrapper), `TopicLog` one of the
topic whose limiter is modelled, `Restart` a restart of the device clock together with
`reset_stream_state`. Detecting the restart is `DeviceClock`. Two
consecutive logs are less than half a wrap apart: `Publishers` resets the timeline after
30 minutes without a log, and half a wrap is 35.8 minutes.

### HealthReporter

One action per setter of the class and per observation, each of them one step because the
reporter's mutex covers it. `Report` is one component of `snapshot()`: its level, its
availability (`current`, `paused`, `stale` or none), whether it is in error, and the level it
had before it went out of date. `Publish` is the snapshot of a heartbeat; it advances the growth
cells, which are the only state a snapshot changes.

* Instants are *ages* that `Tick` increases up to `Horizon`, so the model has no clock and runs
  for ever. `quiet` is the time since the last log during which the device was asked for
  logs all along, `lost` the time since the last drop that the counter still counts and no snapshot has seen, `alarmed` says that
  the last snapshot showed the silence; all three are history and the code never reads them.
* `Take` is what `observe_log` makes of a log, and `NoteLog` is the call: the reporter's mutex is taken for each
  observation, the first of which is `note_log`, and the model takes them in one step. `observe_log` runs before
  `Publishers::on_log`, so whatever the latter may add is a later step: `CountUp` (a dropped epoch, an exception), `DeviceRestart`.
* `Demanded`, `Silence` and `Silent` are `stream_at`: the stream is asked for while the node is
  active and no command has paused it; silence counts from the later of the last log and the
  end of the last pause. `Freshness` is the ladder of `freshness`.
* `DropsStartOver` is the part of `reset_stream_state` health can see. It comes with `DeviceRestart` and with a new session
  (`Configure`, where `Publishers` is new, and `ActivatePublishers`). `Growth` itself is never reset.
* The lifecycle callbacks are the orders of setters the node really calls (`Deactivated`,
  `ActivationFailed`, `LifecycleError`), so this model's `node` is `DriverNode`'s `health`. `EnterActive` precedes `StartIo`, from which
  `on_activate` can still throw: `LifecycleError` is then reported of a node health already shows active.
* Left out: the texts and key/value pairs of a component, the sample identifier, and readings
  that set no level.

### DeviceClock

`time` is the device's clock modulo `Wrap`, `up` how long it has been up, and a log arrives some
ticks after its stamp (`lag`). `Verdict` is `observe_device_clock`: a long outage, an
implausible wrap or a stamp behind the high water makes a *candidate*, a second stamp that
follows the candidate confirms the restart, and one that follows the high water drops it.
`OnLog` is the head of `on_log`: which kinds of log tell the time, the quarantine, the
reset, the anchor's revocation by an invalid UTC log, and the stamp. `anchor` carries, besides
the device timestamp the code keeps, two history fields: the age of that instant and
whether a restart has since detached it from the clock (`lost`).

What the design cannot see, and the model therefore excludes by its guards:

* a restart during a long silence, or one that puts the clock back close to where it was;
* a late log that sets the high water just before a wrap, after which the wrap can look implausible;
* logs that tell no time (fixes, once a current log was seen, and the secondary receiver) bypass
  the quarantine and are stamped with the anchor as it is: their verdict is `unclocked`, and
  the properties exclude them;
* with GNSS fixes as the only clock, two reordered ones can confirm a restart that was none;
* two late logs in a row: a log slightly behind the high water does not drop the candidate, so
  `late` admits the next one only after a log in order.

Hence the bounds: until a restart is noticed a clock log comes at least every `MaxSilence` ticks,
and a device restarts only after `MinUptime`, not about to wrap, and heard of recently.
`TimingAssumption` relates these to the code's 1 s, 5 s and 30 min.

### OdomComposer

A log is the time it was taken and the time it was received; the code sees the former modulo
`Wrap`. One action is one whole call of `on_log` or `flush_pending`, which first forgets old samples and
composes what is ready, then takes its log in, then composes again. `Compose` is the loop of
`try_compose_odometry`: the epochs it retires are the longest run of ready ones from the
front. A NAV log that finds the queue full goes through the forced composition and the second
look at its age. "Published" means handed to `publish_odometry`; whether the
rate lets it through is `OutputRate`. The device clock and the steady clock are one
variable, and the IMU source does not change within a behaviour. `lost`, `sent` and `refused` are history.

### ImuPairing

`try_publish_imus` and `try_publish_raw_orientations` are one loop over two queues, and the model
has it once, per topic: an IMU sample waits for the quaternion nearest to it, a heading for the nearest
IMU sample (`partners` are the samples a queue is paired with). Before the first partner of a session
both are published at once; later they are held, and a full queue makes room by publishing its oldest early (`Hold`). `ImuLog` is the IMU branch of `on_log` with the switch of `Auto`:
the first IMU_SHORT of a session discards queued and remembered IMU_DATA samples, and later ones are ignored
(`SwitchSource`, `Accepted`). `GnssHdt` refuses a heading not newer than the last (`NotAfter`). `sent` is history, and so is a
message's `short`, which says whether it was published before or after that switch.

### SerialWrite

A writer's `pc` follows `write_serial`: `locking` before `try_lock`, `waiting` inside
`try_lock_for`, `writing` at the head of the write loop, `sending` before `write()`, `polling`
inside `poll`. `write()` takes any part of what is left, nothing, or fails; `poll` returns at
any time up to its timeout, or fails. Only the two sleeps take time: `Tick` lets it pass while
every thread in a write sleeps. Deadlines and sleeps are kept as the ticks that remain, so time needs no bound. `frame`, `length`,
`result`, `ignored` and `line` are history. The driver joins the RTCM worker before
it sends commands, as `DriverNode` shows; the mutex is what the library promises its other callers.

## 3. Runs

| run | question | bounds | distinct states |
|---|---|---|---|
| `driver_node` | Is the node right under every interleaving of its threads and every order of requests? | none: the state space is finite | 101,800 |
| `rtcm_writer` | Does the queue keep its limits, order and promises against its own destructor? | corrections of 0, 1, 2 or 5 bytes, limits of 3 messages and 4 bytes, 5 admissions | 7,757 |
| `output_rate` | Is the timeline exact and the rate right? | wrap 24, period 20, allowance 1, gaps up to 5, delays 0 and 2, clock up to 52 | 220,425 |
| `health_reporter` | Does every snapshot tell one story, and is a silent device reported? | status and EKF logs, one fault, one drop, two configurations of which one is refused, ages up to 3 | 352,806 |
| `device_clock` | Are restarts told from late logs and wraps, and are stamps true? | wrap 24, outage 8, slack 1, lead 4, lags up to 1 or 2, start just before the wrap | 87,146 |
| `odom_composer` | Is odometry in order, complete, prompt, made of the nearest members, and every loss counted? | a quaternion and an IMU stream late by up to 1, NAV by up to 2, two pending epochs, four clock values around the wrap | 226,554 |
| `imu_pairing` | Is every sample paired with the best partner of one source, in time? | both topics, logs late by up to 1, queues and histories of 2, four clock values around the wrap | 357,325 |
| `serial_write` | Do frames stay whole, or are reported, and are deadline and stop kept? | two writers, one with a stop token, two frames of two bytes each, a millisecond of 2 ticks, slices of 2 and 4, a timeout of 8 | 1,252,148 |
| `odom_drops` | Does the counter count epochs, as a comment says? (It counts members.) | two required streams | stops at the violation |
| `odom_gap` | Are only duplicate and backward epochs ignored, as the migration guide says? (No.) | wrap 8, eight ticks | stops at the violation |
| `health_drops` | Is the stream WARN whenever epochs are dropped, as the health guide says? (Not after a restart of the device.) | one kind of log, the drop counter up to 1, ages up to 3 | stops at the violation |
| `cache_after_upload` | Does an upload reset the calibration cache, as a comment says? (It does not.) | none | stops at the violation |

Why the bounds are enough. *rtcm_writer*: three one-byte corrections meet the count limit,
two two-byte ones the byte limit, the five-byte one exceeds it alone, the empty one takes the
early return; five admissions let the queue fill, drain and fill again. Only admission is
bounded (`MaxAccepted`), so every behaviour may end and the liveness
properties are about complete behaviours. *output_rate*: the clock passes the wrap twice, a
period spans several logs, `Early` is the 5 % of the code, and delayed logs reorder stamps across the wrap.
*odom_composer*: with delays up to twice the distance between epochs and a queue of two, an epoch can come
late enough to fall in front of a full queue and be passed over while room is made for it; the clock range exceeds the
bound `RetiredInTime` allows an epoch to wait. Two streams, one of them required, are enough for everything
about one member; what counts members is proved for any number of them.
*imu_pairing*: as *odom_composer*; two held samples are where making room and waiting meet.
*health_reporter*: with a heartbeat of 1, a validity of 2 and a stream timeout of 1, ages up to 3 tell apart everything a verdict
can tell apart; a drop, a snapshot and a restart are what growth is made of. The run streams status and EKF logs only; that `OneStory` and
`VerdictStands` hold for the temperature, the IMU and the GNSS components too is known from their theorems, which are about every kind of log.
*device_clock*: the clock wraps and restarts any number of times, as nothing but ages is bounded; a lag
of 1 keeps logs in order, one of 2 makes a candidate, and the slack and lead are as far apart as the assumption demands.
*serial_write*: two ticks to the millisecond let a sleep end between milliseconds, which is where
rounding up overshoots the deadline; two bytes let a frame be cut; the timeout spans several slices of both kinds.

What the properties say:

* `OneDispatcher`, `NoUseAfterFree`: two ways the threads could collide. The third, a command that
  shares the link with a worker, is excluded by `LinkSpec`, and by itself as the theorem `LinkIsExclusive`.
* `StreamsWhenActive`: between callbacks an active node has both workers running, whatever
  failed on the way, unless a settings save released the device.
* `HealthAgrees`, `LastWord`, `ReportedPromptly`: health says what the node is, the fleet's
  last snapshot of a node that ended says so, and a failed activation, a standby and a
  released device are not lost between two heartbeats.
* `NeverPersistInvalid`: no lost acknowledgement lets a rejected calibration reach the unit.
* `SessionMarksKept`: starting a session never discards marks of its own first logs.
* `LinkSpec`: `DriverNode` refines `LinkOwnership` under the mapping `LinkOwner`.
* `CallbacksReturn`: every join returns.
* `BytesAccounted`: the byte counter never drifts from the queue, so the
  unsigned `k_max_bytes - queued_bytes_` never wraps.
* `NothingRunsAfterDestruction`, `DestructionEnds`: the
  destructor against callers and worker. `HandedOn`: no lost wake-up.
* `ChannelSpec`: `RtcmWriter` refines `OrderedChannel`.
* `TimelineExact`, `AverageRate`, `NeverHalved`: the output rate.
* `OneStory`: a component of a snapshot is current only if its source was heard in this session, within its
  validity, and the stream is not silent. `SilenceIsTheDevices`: the stream is in error exactly when the device was
  silent too long although asked. `VerdictStands`: neither silence nor a pause nor a new session changes a verdict.
  `RestartIsNotGrowth`: a counter that starts over is not growth. `SilenceReported`: silence ends in a
  snapshot that says so, unless a log comes or the demand ends.
* `StampsAreTrue`: no stamp rests on the clock of another run. `NoticedSoon`: a restart is noticed within `Patience`
  ticks of clock logs. `OneRun`: no log of the new run passes the quarantine before the caches of the old one are cleared.
  `OnlyRestartsConfirm`: neither late logs nor wraps confirm a restart.
* `QueueSpec`, `OnlyLateRefused`: odometry never goes back or repeats, no epoch is
  lost between arrival and retirement (`OdomComposer` refines `OrderedEpochs`), and only late ones are refused.
* `RetiredInTime`: however many late epochs come in front of it, an epoch is retired by its own
  deadline plus the latest delay. `NothingCloserComes`: an epoch published before its deadline used the members a
  patient composer would have used.
* `DropsSeen`: no lost epoch is missing from the drop counter.
* `OneSource`: after the first IMU_SHORT nothing of IMU_DATA is published or used. `NothingCloserComes` and
  `HeldInTime`: as for odometry, and to the tick, because an IMU sample in front cannot have come later than those behind it.
  `NothingCloserComes` compares partners of one stream: a heading oriented by IMU_DATA may have found a closer IMU_SHORT sample
  after the switch, which threw the samples it was oriented by away (`SameStream`).
  `HeadingsForward`: the headings published go forward in time.
* `FramesUnbroken`: no byte of another frame comes between two bytes of a frame. `SuccessIsWhole`: success
  is reported exactly for frames that went out whole. `OnTime`, `StopObserved`: a write ends less than a
  lock slice after its deadline, and at most the longest slice after its stop. The run also
  checks deadlock: the only states without a step are those in which nobody writes.

The type invariants, and some invariants the others rest on or imply (the limits of the RTCM queue, the silence of a
cancelled write, the absence of bursts), are proved and not run.

### Findings

`cache_after_upload` shows a divergence between a comment and the code. The comment on
`last_mag_calib` (`sbg_driver_core/src/device.cpp:58-60`) says the cache is reset "when the
cached results have been uploaded once". `save_mag_calibration_results` (line 618) keeps it.
The node is not affected, since `save_mag_calibration` always computes anew first.

`odom_drops`: `composition_drops` is described as epochs retired without composing
(`publishers.hpp:196`), but counts once for each missing member, so an epoch without quaternion and velocity counts twice.

`odom_gap`: `odom_epoch` decides "backward" modulo 2^32 against the last retired epoch, which only a new
session resets. After more than 35.8 minutes without a valid position, while the other
streams go on, new epochs look backward and are refused, uncounted, for up to as long again. In this run the histories are
kept long only so that the property can see that no stream paused. `OnlyLateRefused` is the
same statement within half a wrap, where it holds.

`health_drops`: `Growth::update` (`health.cpp:281`) takes a counter to grow only past its last value, and a device restart
sets that counter to zero without telling health. Epochs dropped between the restart and the next snapshot stay unseen unless they
outnumber those the snapshot before counted, although `doc/health.md:68` promises WARN for epochs dropped within `stale_after_s`. TLC's
counterexample is one drop that a snapshot reports, the restart, and one more drop before the next snapshot: once the growth the first
was reported for is older than `stale_after_s`, that snapshot shows the stream OK while the second drop is within it and the counter still counts it. (A drop that a restart erases before any snapshot
goes unreported too; `DropsWarned` leaves those aside, so that the run shows the masked one.) Nothing is invented, though:
`RestartIsNotGrowth` holds.

Smaller divergences met while modelling, of wording and not of a run: `doc/health.md:101` describes the stale state with `health.error`
set, but an observation from before the current activation is without error until `stale_after_s` has passed since; a temperature
that could not be read stays in error while the stream is paused; and after a command longer than `stale_after_s` every component is stale
until its next log, which is why `OneStory` has a clause of its own for pauses.

## 4. Fairness

* `DriverNode`: weak fairness of the executor's steps and of each thread's steps: the
  operating system schedules every thread. Strong fairness of `CommandDone`: the SDK's
  commands return at their own deadline, however many logs they dispatch while waiting, and
  each dispatch disables the return for its duration. Nothing is assumed of requests, logs,
  exceptions or the heartbeat timer, so `ReportedPromptly` does not rest on the heartbeat.
* `RtcmWriter`: weak fairness of the worker (its sink returns: a serial write has a
  deadline and honours the stop token) and of a destructor that has begun.
* `HealthReporter`: weak fairness of `Tick` and `Publish`: time passes, and the health thread's heartbeat comes.
  Nothing is assumed of the device.
* `OutputRate`, `DeviceClock`, `OdomComposer`, `ImuPairing`, `SerialWrite`: safety only. How long a write takes is stated in
  ticks; that time passes at all is not assumed.

## 5. Proofs

All theorems are proved for every value of the constants, under the modules' named
assumptions. `PROJECT.json` lists them with the property each states.

**DriverNodeProofs** needs no assumption: the module has no constants. The safety properties are
not inductive. "A command never meets a worker" holds of `BeginCommand` only because the
`pc` that leads to it lies behind both joins, and that is a fact about callbacks, not about the
link. So `IInv` adds to `TypeOK`:

* `CallbackInv`: which steps belong to which callback, and the lifecycle state it runs in;
* `QuietInv`: at which steps the workers are gone, and at which the device is closed;
* `HolderInv`: a worker or a command in flight implies a device, log dispatch implies a command,
  an existing device or health thread implies a configured node, hence `Publishers`;
* `CalibInv`: the cached results are usable at the step that uploads them.

`NodeInv` adds what the reported health rests on: `RunInv` (which workers run at each step of a callback, so that every
path out of a service has started both again or released the device), `ReportInv` (what health says at each
step) and `LastInv` (what the health thread has published once the stop was requested). From it follow
`ActiveNodesStream`, `ReportsAgree` and `LastSnapshotIsTrue`.

`FlagsNext`, `ReportsNext` and `StepNext` prove the parts preserved, one step per action. The
theorems `TypeCorrect`, `LinkIsExclusive`, `DispatcherIsUnique`, `NothingDangles` and
`InvalidNeverPersisted` follow; `SessionMarksAreKept` and `ImplementsLink` use `IInv` on each
step, the latter by showing each action is a step of `LinkOwnership` or leaves `LinkOwner` alone.

**RtcmWriterProofs** assumes `LimitsAssumption`: byte counts and limits are naturals. `IInv` is
`TypeOK`, `WithinLimits`, `OwnerInv` (where the destructor is, as the flags and the
worker show it), `ResultInv` (only a requested stop cancels) and `OrderInv`: while open,
`accepted = taken \o queue`. The last conjunct is what makes the refinement of `OrderedChannel` go through,
by three lemmas about concatenation. `BytesAccounted` says that the byte counter is the last of the running totals of the
queue. Stated so, instead of with a recursive sum, it needs no induction: an admission adds one total, a correction taken from
the front shifts the totals down by its size. `BytesInv` adds that the totals climb, so that what is left after the shift is
still natural and below the counter; from it follows `BytesNeverDrift`.

**OutputRateProofs** assumes `RateAssumption`: a positive wrap and period, an allowance shorter than
the period, and `2 * (MaxGap + delay) < Wrap`, the 30-minute rule above. `IInv` is `TypeOK`,
`TimelineInv` and `Bounds`. `TimelineInv` adds to `TimelineExact` that the latest measurement is at most one delay
behind the clock, without which the signed difference could be taken for the wrong side of the wrap.
`DeltaExact` is the arithmetic: stamps less than half a wrap apart differ by exactly the times' difference. It stands, as
`DeltaIs` in the two modules whose histories hold times and not stamps, with the facts about remainders it rests on, at the head of
each of the four modules that compare stamps. `Bounds`
holds for any sequence of sample times, so it does not rest on the timeline.

**SerialWriteProofs** assumes `WriteAssumption`: naturals, and slices of at least a millisecond. `IInv`
is `TypeOK`, `LockInv` (a writer past the lock holds it, and only it does), `LineInv`, `FramesUnbroken`
and `TimeInv`. `FramesUnbroken` alone is not inductive: the next byte of a frame could follow another frame. `LineInv` adds that the
bytes of the frame being written are the end of the line, that a frame whose writer waits for the mutex has none there, and
that no byte belongs to a frame not yet begun. `TimeInv` bounds what is left of a deadline by what
is left of the sleep, and the time since the stop by the sleep it may still finish; `RoundUp` is the arithmetic of `poll`'s timeout.

`WholeInv`, under `0 \notin Sizes` (`Transport::write` returns early on empty data, line 393), counts the bytes of a frame on
the line: it gives `SuccessMeansWhole`.

**HealthReporterProofs** assumes `ReporterAssumption` (what the settings and readings range over, and that no age that matters exceeds `Horizon`).
`Inv` is `TypeOK`, `SessionKept` (a source of this session was heard since it began, and so was a log),
`SilenceMeasured` (what the code computes as silence is the history variable `quiet`), `DropsCounted` (drops that the counter
counts and no snapshot does yet are on record as `lost`) and `StatusKnown` (an alert in
the inventory has a status behind it). `OneStory` and `SilenceIsTheDevices` are corollaries; `VerdictStands` and
`RestartIsNotGrowth` are proved step by step from it.

**DeviceClockProofs** assumes `ClockAssumption` and `TimingAssumption`, and `RealTime` for the four theorems about restarts: in an accelerated replay the
code's host-time rules do not apply. `IInv` is `TypeOK` and

* `RestartInv`: after an unnoticed restart, where the new run's clock, the high water and the candidate stand to each other, and
  that not enough time has passed to be noticed;
* `HighInv`: without one, the high water is a recent instant of this run;
* `CandidateInv`: without one, only a late log is ever held;
* `AnchorInv`: an anchor in use stands for a recent instant, of this run unless a restart is unnoticed;
* `StampsAreTrue` itself.

`RestartInv` is what makes it inductive: that the second log of the new run confirms the restart depends on how far the
first one can lie from the old high water in either direction round the wrap.

**OdomComposerProofs** assumes `ComposerAssumption`: naturals, a finite set of streams, and a NAV delay below half a wrap.
`LeadingIs` is the loop over the front of the queue, for which a set of naturals
must have a least element; without induction, that comes from the well-foundedness of strict inclusion on finite sets (`LeastOf`).
`ComposeIs`, `ComposeCounts`, `InsertIs` and `OdomEpochIs` say what a call of the code does to a
state, and `Reaches` carries everything below through the sequence of calls a log or a poll makes:

* `TypeCorrect` and `DropsAreSeen` hold in every behaviour;
* `EpochsInOrder`, `OnlyLateAreRefused` and `EpochsRetiredInTime` hold while `Recent` does: no epoch that waits, nor the latest
  retired one, is half a wrap old. `odom_gap` shows that the hypothesis is needed. `OrderInv` is their invariant: the queue
  in strict time order behind the latest retired epoch (`Ordered`), and each epoch received at most the latest delay after
  its time (`Timed`), which is what bounds the wait of an epoch behind one that is not due;
* `BestMembersUsed` states `NothingCloserComes` for the same behaviours, as long as the epoch last published, too, is less than
  half a wrap old (`SentRecent`), and under `LongHistories`: a history holds more samples than one can be late (`MaxLag < MaxHistory`, a tick
  being at least the time between two samples; the code keeps up to 2048), and no sample is late by more than the history's age.
  `NearInv` is the invariant. What it has to survive is pruning: a history may drop its newest *time*, not only its oldest,
  because it drops in the order of reception. But its samples are of different times, and more of them are kept than a
  sample can be late, so one of them is at least as far on as any that was dropped (`TailSucceeds`). A time that only
  samples dropped for their age had reached lies further back than any later log can (`FreshSucceeds`).

**ImuPairingProofs** assumes `PairingAssumption`: naturals, queues of at least one, and `None` no log and no message. An operation of the model is a function of the
three variables it changes (`partners`, `held`, `sent`), and one lemma each says what it does to them (`Carries`); `Moves` is what
a whole step does, `PairInv` the invariant. It says of every queue and history that its logs came in order, none later than `MaxLag`,
within its limit, and that all are of the one stream that the source and the flag `shortSeen` admit at the moment. That last part makes
`OneStream` inductive: after the first IMU_SHORT no IMU_DATA sample is left in any queue or history that a later message could be made of.

* `TypeCorrect`, `OneStream` and `NoneOverdue` (`HeldInTime`) hold in every behaviour, wrap or no wrap.
* `NoneTurnsBack` (`HeadingsForward`) holds while the heading last taken is less than half a wrap old (`Recent`); its invariant is that
  the headings held rise and lie between the one published and the one last taken.
* `BestPartnersUsed` (`NothingCloserComes`) holds while what was last published is less than half a wrap old, under `LongHistories` as for odometry.

Both modules show that their hypotheses are met. `ShortSession` is a behaviour that is over within half a wrap, 35.8 minutes of the code;
the clock of the model stops at `MaxTime`, so that is a condition on constants, and `ShortSessionsInOrder` and `ShortSessionsUseTheBest`
state the same properties under it with no hypothesis about the behaviour. The constants of the `imu_pairing` run satisfy all of them.

Model-checked only: liveness (`CallbacksReturn`, `ReportedPromptly`, `HandedOn`, `DestructionEnds`, `SilenceReported`), which rests on
fairness and is out of the prover's reach. Every other property of a passing run is the statement of a theorem.

## 6. Not modelled

* Conversions, parameters, log view and error mapping: stateless (floating-point or
  table lookups), unit-tested directly.
* Launch files, tools and containers: no state of the driver's own.
* The individual commands of provisioning (`driver_node.cpp` 483-600): one command with two outcomes in `DriverNode`. The
  driver cannot see which settings a failed sequence left in the unit, so there is no state of its own to be wrong.
* Opening and configuring the port, reading, UDP and files: system calls.
* `ReplayTimeline`: the pacing of a recorded file, a handful of lines without concurrency.
* The topics `Publishers` publishes log by log: no state beyond their rate.

## 7. Plan

1. `Provisioning`: the command sequence against a unit that may lose acknowledgements and restart.
2. `ReplayTimeline` (`replay_timeline.hpp` 25-57), and the clock of an accelerated replay in `DeviceClock` (`RealTime` false).
3. `HealthReporter` and `DriverNode` composed: the snapshot against the threads that feed it.
