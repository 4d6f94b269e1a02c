# TLA+ models of the Fast Feedback IOC

Fast Feedback is an EPICS IOC that closes beam feedback loops at up to 120 Hz.
For each beam pulse it reads beam position monitors and other measurements,
computes corrections, and sets magnets and RF actuators before the next pulse.
This directory has TLA+ models of its concurrent core, TLC configurations that
check them on small instances, and TLAPS proofs for every instance. Paths below
are relative to `src/fastFeedbackApp/src/framework/`.

## Inventory

| Component | State it keeps | Operations | Correct when |
|---|---|---|---|
| **PatternManager**, Timer, EventReceiver, EventGenerator | `_enabled`, `_mutex`, `_pattern`, masks and receivers, bounded queues | fiducial callback, timer callback, enable/disable, lock, add/remove receivers | each pulse reaches the loops that match it once and in order; a disabled window ends; removing one receiver keeps the others |
| **CollectorThread**, MeasurementCollector | `_state`, devices by mask, listeners | read all devices of a pulse, check their pulse ids, broadcast | data of one pulse is not taken for another's; back in step after lost events |
| **LoopThread / Loop**, calculation | `_state`, `_pattern`, queue, device buffers | PATTERN, MEASUREMENT, HEARTBEAT events; status check; algorithm; pending-events check; actuation | at most one calculation and actuation per pulse, from data of that pulse |
| **LoopThread**, control | STATE, MODE, previous values, `_configured`, `_mode`, registrations | checkMode, changeMode, reconfigure, disconnectDevices | a loop that is ON has all it needs, a failed start is retried, what is reported is what runs |
| Devices (Measurement, Actuator, State, Setpoint) | ring buffers and their indices, offset, last value | read/get/check, set/write, initial settings | a datum is used once; what an actuator remembers is what it was sent; a state is broadcast in its own calculation |
| Channels (Fcom, Ca, File, Null) | subscriptions, CA channels, files | constructors that fail and retry, destructors, read, write | nothing that is in use is released, subscriptions balance |
| LoopConfiguration, PatternMask, Pattern | masks, device maps, algorithms | configure, reconfigurePattern, compare | each pattern finds its devices and its algorithm; different masks differ in the order of the maps |
| TrajectoryFit family, InjectorLaunch | matrices and their copies, selected monitors | configure, reset, calculate, change of beam | a fit, its matrices and the collector agree on the monitors; kicks of the matrix loaded last |
| Longitudinal, LongitudinalChirp, chirp sequencers | states in use, FBCK cache, averages, CHIRP PVs | selectStates, calculate, chirp handshake | states from valid data; an actuator that was released is read before it is corrected; the chirp does not jump |
| MeasurementAverage | ring, sum, count | add, clear | the average of the last samples |
| ExecThread, ExecConfiguration, Thread, Commands | configurations, threads by loop, STATE PVs | ffStart, ffStopLoops, ffReboot | a start is complete; a reboot comes, and after the loops are off |
| Device support (devFfConfig), PvData | PVs by name, records | bind, write, scan, read | all PVs of a name are written, the record shows the PV |
| PatternGenerator, logs, time, displays | diagnostics | print, copy | (no control) |

How they interact. The EVR task calls `PatternManager::fiducialCallback` 360
times a second. If the modifier matches a mask, PATTERN_EVENTs go to the queues of
the LoopThreads registered for it, the Timer is started, and the CollectorThread
is told. When the delay ends the Timer thread sends a MEASUREMENT_EVENT to the
CollectorThread, which reads all devices of the pattern into their buffers and
broadcasts a MEASUREMENT_EVENT to all LoopThreads that are ON. A LoopThread takes
it if its pattern is that of the last PATTERN_EVENT, and calculates. HEARTBEAT_EVENTs
every two seconds make a LoopThread look at its STATE and MODE PVs. Threads share
the PatternManager's and the MeasurementCollector's mutexes; the device buffers are
shared by CollectorThread and LoopThread with no lock.

Hard behaviours: the timer races the EVR task and the next fiducial; `_pattern` is
copied with no lock; queues drop events when full and are cleared by their
reader; any LoopThread disables the PatternManager for all; the collector may read
the next pulse while a loop still calculates; each step of turning a loop ON can
fail half-way and is retried over what was left behind. `PROJECT.json` lists them
by line under "hazards".

## Modules

| Module | What it is |
|---|---|
| `PulsePipeline` | EVR task, Timer, CollectorThread and LoopThreads, one action per step between two points where another thread can interfere |
| `FeedbackContract` | what the pipeline promises each loop, with no threads, queues or buffers; `Spec` and the stronger `ExactSpec` |
| `PipelineRecovery` | `PulsePipeline` with a calm that begins at some time, to state that it recovers |
| `LoopControl` | STATE and MODE of the loops: registration, removal, failures, the two mutexes |
| `MeasurementBuffer`, `LatestSample` | the ring of a MeasurementDevice, and the abstract sample it implements |
| `ActuatorBuffer`, `StateBuffer` | the rings of an ActuatorDevice and of a StateDevice, with what is sent from them |
| `MeasurementAverage`, `SampleWindow` | the moving average, and the window of samples it implements |
| `DeviceChannels` | construction and destruction of the channels of devices |
| `TrajectoryFit` | monitors and matrices of the fits, InjectorLaunch with its change of beam |
| `Longitudinal`, `LongitudinalChirp` | the longitudinal feedback; the chirp handshake with the programs `chirpControl` and `chirpUpdate` |
| `PatternConfiguration` | masks, device maps and algorithms of the patterns of a loop |
| `Executive` | start of the controller, ffStopLoops and ffReboot |
| `RecordSupport` | the records of all types and the PVs behind them |
| `MCOneLoop`, `MCTwoLoops`, `MCRecovery`, `MCLoopControl`, `MCComponents` | instances for TLC |
| `PulsePipelineProofs`, `LoopControlProofs` | TLAPS proofs about `PulsePipeline` and `LoopControl` |
| `PipelineRecoveryProofs` | about `PipelineRecovery`, on top of `PulsePipelineProofs` |
| `DeviceBufferProofs` | about `MeasurementBuffer`, `ActuatorBuffer`, `StateBuffer` and `MeasurementAverage` |
| `DeviceChannelsProofs`, `PatternConfigurationProofs` | about the module of that name |
| `AlgorithmProofs` | about `Longitudinal`, `LongitudinalChirp` and `TrajectoryFit` |
| `ComponentsProofs` | about `Executive` and `RecordSupport`, and about the composition `MCComponents` |

### PulsePipeline

A pattern is its pulse number and a *kind*, which stands for the modifier words
up to what masks tell apart: `Matches[k]` are the loops with a POI for kind `k`,
`Beam` the kinds with the POCKCEL_PERM bit, `Heartbeat` those matched by the 0.5 Hz
mask. A buffer is the status and the pulse of its latest slot.

| Code | Actions |
|---|---|
| `PatternManager::fiducialCallback`, `process` | `Fiducial`, `Dispatch`, `StartTimer`, `SavePattern`, `NotifyCollector` |
| `Timer::processEvent`, `PatternManager::updateMeasurements` | `StartSleep`, `Expire` (with `SavedReads` for the unprotected read of `_pattern`) |
| `CollectorThread`, `MeasurementCollector::update`, `MeasurementDevice::read`, `checkPulseId` | `CollectorPattern`, `CollectorMeasurement`, `ReadDevice`, `CheckPulseId`, `Broadcast` |
| `LoopThread::processEvent`, `checkMode`, `changeMode` | `LoopPattern`, `LoopReceive`, `BeginChangeMode`, `EndChangeMode` |
| `LoopThread::processMeasurementEvent`, `Loop::calculate`, `MeasurementDevice::get`, `Loop::setDevices` | `Unexpected`, `Calculate`, `CheckMeasurement`, `BeginAlgorithm`, `Get`, `Skip`, `Actuate` |
| `EventReceiver::clear` | `BeginClear`, `EndClear` |

Sends to several queues are one step (`Dispatch`, `Broadcast`): each receiver sees
only its own queue, and the sender holds the mutex or is the only one to send that
event. An algorithm is the sequence of its `get`s in any order, then `Skip` or
`Actuate`; which one, apart from the pending events, depends on data and limits, and
so both are possible. `log`, `matched` and `actuated` are history; `log` is also
the clock, its length being the current pulse.

`Spec` lets the timer be arbitrarily late and the EVR task arbitrarily slow.
`PunctualSpec` and `TimelySpec` add what the IOC relies on: the delay ends after
the EVR task is done with the fiducial and before the next one (`Punctual`), and
the 100 places of a queue do not run out (`NoOverflow`); `TimelySpec` also excludes that
a mode change finds events to clear. They still let the CollectorThread and the
LoopThreads be late by any number of pulses.

### LoopControl

`seen` is `_previousState`/`_previousMode` (and ACT_STATE/ACT_MODE), `ready` is
`LoopThread::_configured`, `configured` is `LoopConfiguration::_configured`. A POI
`<<l, i>>` stands for the i-th Loop of a LoopThread with its devices: `selected`,
`connected` (they have channels) and `collected` (they are in the
MeasurementCollector). `CheckMode` decides, `Mode` is changeMode on its own, `off`
to `RemovePatterns` are the three critical sections of OFF, and `Configure`,
`Register`, `RegisterFails`, `UndoConfigure` are the way to ON and its failures.
Every section is one step after its mutexes are taken, the PatternManager's first;
`BeginUpdate` and `EndUpdate` are the CollectorThread's use of its mutex. A use of
a deleted algorithm is undefined: the step may crash, or find the memory as it was.

### The components

These modules take one component each, with everything around it (other threads,
operators, hardware) as actions that may come at any time. They share no variables
and `MCComponents` puts them side by side: a behaviour of it is one of a single
component.

- `MeasurementBuffer`: `Read` and `ReadFails` are `MeasurementDevice::read`, `CheckDatum`
  the pulse id or time check, `Get` what algorithms call, `Clear` the clear at a
  configuration. A datum is the pulse it was measured in. `Promise` maps the slot before
  `next` to a `LatestSample`.
- `ActuatorBuffer`: `Calculate` is `set` by an algorithm, `SetDevices` the write or its
  skip, `SetFromReference` what a fiducial without beam does, `ChangeOffset` the offset at a
  change of MODE, `GetInitialSetting` and `Configure` the reading back. `ChannelWrite` says
  how each kind of channel can fail. `sentValue` is history.
- `StateBuffer`: the two indices of a StateDevice and the FCOM blob, through calculations
  that fail between `set` and `write`. `slips` counts what moves one index alone.
- `MeasurementAverage`: `Add` and `ClearAverage`; `Window` maps the ring to the
  sequence of its last samples.
- `DeviceChannels`: one action for `configure`, with every step at which a constructor
  can throw, one for `disconnect`, and `ReadSetting`, the reading of an actuator's setting by a
  running loop; what each of them acquires and leaks is counted. `leftOpen` counts the .ini
  files that `getInitialSetting` leaves open.
- `TrajectoryFit`: `Start`, `ConfigureFails`, `DeviceFails` are the ways through
  `LoopConfiguration::configure`, `Loop::reconfigure` and the algorithm's configure; `CheckTmit`,
  `CalculateFit`, `CalculateThrows` a calculation. A matrix is its rows, each with its position and
  the monitor it belongs to, and the version of its PV. `SaveFMatrix` and `SaveReferenceOrbit`
  take rows by position, as InjectorLaunch does when it saves, at the configuration, what
  `SwitchTo` loads for each of the two beam configurations. M5 and M6 have to be used.
- `Longitudinal`: `CalculateLong` is one calculation, with one operator per section of
  `selectStates` and per energy and current. A pulse is the set of measurements that have
  beam. Reading an actuator may fail and throws, which leaves the later sections undone.
  Operators switch states and move actuators that the feedback does not control
  (`IsReleased`). While the chirp is controlled A5 follows CHIRPDES (`PhaseOfChirp`) and USEDBY of
  S5 is set though S5 is not selected. `blenEmpty` are the averages of a bunch length to which nothing
  was added since they were cleared; the M6 that the chirp declares VALID adds nothing
  (`BlenAfter`). `measured`, `moved`, `unseen` and `chirped` are history: the bunch
  lengths read with beam since their average was cleared, the actuators moved and not read since,
  the released ones that no selection met, and whether the chirp stood in for S5 since it was read.
- `LongitudinalChirp`: the states of `chirpControl` under their names, the asynchronous
  gets and puts of both programs, and the part of the loop that waits for CHIRPREADY. A chirp is
  the number of corrections that led to it.
- `PatternConfiguration`: `ConfigureLoop` goes through `configurePatterns`, `reconfigurePattern`
  for each of the four kinds of devices, and `configureAlgorithm`, each with its early
  returns. Masks are words of bits with an inclusion and an exclusion half; `MaskLess` is
  their order and `FoundIn` what a `std::map` finds with it.
- `Executive`: the shell thread and the ExecThread of ffStart with the wait of 30 seconds,
  then heartbeats, operators and the commands.
- `RecordSupport`: one record of any of the 13 types; an output record writes the PVs of
  its name one after the other while code assigns them, an input record is scanned later.

## Runs

| Run | Specification and bounds | Checks |
|---|---|---|
| `pipeline` | `Spec`, 1 loop, queues of 2, 2 fiducials, data up to 1 pulse old, 1 mode change | `TypeOK`; `PatternsInOrder`, the inductive invariant: no pulse is calculated or actuated twice or out of order; `ImplementsContract` |
| `two_loops` | `Spec`, 2 loops, 1 fiducial with heartbeat, queues of 3, 2 mode changes | `LockDisables`: disabled exactly while a LoopThread holds the mutex; `ThreadsReturn` (liveness) |
| `timely` | `TimelySpec`, 3 fiducials, room in queues | `ImplementsExactContract`: actuators only from data of the pulse calculated; `ActuatedFromLatest`: and only while none of a later pulse is there |
| `recovery` | `RecoverySpec`, 3 fiducials, queues of 3, no mode change | `RestMeansCalculated`: whenever the pipeline is at rest in the calm, every matching pulse since it began was calculated, from the first; `CalmPulsesCalculated` (liveness): each of them is, in the end |
| `mode_change` | `PunctualSpec`, 3 fiducials, 1 mode change | violation of `ActuatedFromLatest` |
| `control` | 2 loops that share a mask, one with 2 POIs; 3 requests, 2 failures | `TypeOK`; `ConfiguredLoopsServed`; `ReportsHold`; `TransitionsEnd` and `RetriedUntilConfigured` (liveness) |
| `control_mode` | 1 loop, 4 requests, 1 failure | violation of `ComputeDoesNotActuate` |
| `control_algorithm` | 1 loop, 3 requests, 2 failures | violation of `NoDeletedAlgorithm` |
| `components` | each component on its own, bounds below | types; 15 invariants and 10 action or temporal properties, listed below |
| `stale_selection` | `TrajectoryFit`, 2 monitors that operators switch | violation of `SelectedWereUsed` |
| `injector_launch` | the same with InjectorLaunch | violation of `LeftOut` |
| `phase_read` | `Longitudinal`, beam on all measurements, S2, S4 and S5 in use, S4 and S5 operated, no reading fails | violation of `PhaseRead` |

What `components` shows of each component:

| Component | Checked |
|---|---|
| `MeasurementBuffer` | `DatumHandedOnce`: it implements `LatestSample`; `StuckSeen`: equal time stamps of the last two reads, and nothing else, tell a stuck device |
| `ActuatorBuffer` | `WrittenIsSent`, `SentWithinLimits` |
| `StateBuffer` | `DriftHeals`: when what is broadcast is right, though the two indices drift apart |
| `MeasurementAverage` | `AveragesWindow`: it implements `SampleWindow` |
| `DeviceChannels` | `ResourcesCounted` |
| `Longitudinal` | `SourcesValid`, `CorrectedFromCurrent` |
| `LongitudinalChirp` | `ChirpHeld`; `ReadyFollows` (liveness) |
| `TrajectoryFit` | `CollectedWhileOn`, `FitRowsAgree`, `KicksOfLoadedG`, `AllRemoved` |
| `PatternConfiguration` | `SetsKept`, `PatternsFindTheirSets`, `AlgorithmOfPattern`, `NewMasksAccepted`, `SetpointsMatch` |
| `Executive` | `StartedComplete`, `OffBeforeReset`; `ResetComes` (liveness) |
| `RecordSupport` | `OutWritten`, `ReadbackCurrent` |

Some of these hold under a condition that says what the code does not promise:
`FitRowsAgree` speaks of InjectorLaunch, the only fit that chooses rows (of the others
`stale_selection` shows what they promise and do not keep); `PatternsFindTheirSets` excludes
patterns that were refused; `OffBeforeReset` a loop on its way ON; `ChirpHeld` excludes an operator who switches S5 again before the
programs settled; `DriftHeals` excludes slots that a failed calculation left;
`CorrectedFromCurrent` a state that no calculation looked at while it was released, and what
`phase_read` shows of A5; `NewMasksAccepted` says that a configuration is refused only if it
would leave two patterns with the same mask; `StartedComplete` excludes the timeout.

All runs have CHECK_DEADLOCK FALSE: fiducials and requests are bounded, and the
EVR and the operators may stop.

Why the bounds are enough. A race in the pipeline needs a pulse in work and the
next one: 2 fiducials let patterns, timer, collector and loop overlap in any way,
a third one lets a late loop see the pulse after. Queues of 2 overflow and queues
of 7 or 9 do not (3 fiducials send at most 3 events of each type). A datum one
pulse old is what FCOM delivers when a packet is late; older ones take the same
branch. In `two_loops` two LoopThreads compete for the mutex while one more event
is under way. In `recovery` the disturbance before the calm is late timers, torn patterns, dropped
events and cleared queues; mode changes before it leave the same behind (the proof allows any
number), so the run has none. In `control`, 3 requests turn both loops ON and one OFF again, or one
ON, OFF and ON; 2 failures cover a failure and another in what cleans up after it.

In `components` the rings have 2 to 4 slots, so that they wrap; values of actuators are
two within the limits (0, the one at the start, and 1), one outside and NaN; three devices
share an FCOM blob, and one .ini file may be left open; 5 sets of measurements with beam are
none, A-line, A-line and LTU at once, BYKIK without M9, and the recovery with M10, where M6 has
no beam and only the chirp can declare it VALID; of 4 monitors the first can be left out because it
is not used, two because they are after the spectrometer, and one after these is kept, so that rows
shift in both configurations; a loop has 2 patterns with 3 waveforms to
choose from, one short and two that differ in one word; 2 slots are started; a name has 2
PVs. In Longitudinal four of the six states are used at first, two are switched and one
actuator may be unreadable: the sections differ only in which measurements they look at.
The chirp is corrected once: an old and a new chirp are all that can differ.

Fairness. Weak fairness for the EVR task, the Timer, the CollectorThread and each
LoopThread: these are separate threads of a real-time system, and a thread that
can go on does. Fiducials and operators have none. In `LoopControl` each LoopThread
has strong fairness, because it waits for mutexes that others take and release
again and again; these hold them for a small part of each period, and an
EPICS mutex does not starve a waiter under that load. `CheckMode` being fair means that
heartbeats go on. In `components` the sequencer program chirpControl, which the IOC's
sequencer runs, heartbeats, which come from the fiducials, the LoopThreads and the shell that
polls every second in ffReboot are weakly fair; operators, beam and hardware are not.

## Findings

1. `mode_change`: the queue cleared by a change from COMPUTE to ENABLE takes
   away what the pending-events check looks for.
2. `control_mode`: a change to ENABLE that fails on a FBCK PV and is taken back
   by the operator leaves the loop in ENABLE while MODE and ACT_MODE are COMPUTE.
3. `control_algorithm`: a start that fails on a device, then in
   `LoopConfiguration::configure`, calls a deleted algorithm.
4. `stale_selection`: `Loop::selectUsedDevices` only inserts, and OFF does not clear the
   set. A monitor whose USED PV is turned off between OFF and ON stays selected; the fit is
   sized by the set, the matrix by the PVs.
5. `injector_launch`: `InjectorLaunch::calculate` restores all monitors after each
   calculation, and only a change of beam selects those of a configuration again.
6. `phase_read`: `LongitudinalChirp::resetActuators` forgets the value remembered for A5 only
   if S5 was just turned on, and with the chirp controlled USEDBY of S5 is set before that. If
   S4 is selected after operators moved A5, and no correction succeeds until S5 is selected,
   A5 is corrected from where it was before it was moved.

Not a disagreement with what the code says of itself, but worth knowing: each time a FILE
actuator is read at the setpoint it already has, its .ini file stays open
(`ActuatorDevice.cc:530`; `leftOpen` in `DeviceChannels`). And `timely` needs
`Punctual`. With `Spec` in MCOneLoopTimely.cfg (a timer that outlives the period) TLC finds
actuators set from data of another pulse: `Loop::calculate` compares the pulse ids and reads
the values later, and the pending-events check does not see that the buffers moved on.

## Proofs

`PulsePipelineProofs` proves for any set of loops, devices and kinds, any
matching, queue size and bounds (`PipelineAssumption` is all that is assumed):

- `TypeCorrect`: `Spec => []TypeOK`. The length of each queue is part of it.
- `LockCorrect`: `Spec => []LockDisables`, by itself inductive with `TypeOK`: `enable` is
  only called by the holder of the mutex.
- `PatternsCorrect`: `Spec => []PatternsInOrder`. This is the strengthening that
  makes "no pulse twice" inductive: a PATTERN_EVENT in a queue is of a fiducial of
  that loop, later than the pattern the loop works on and not later than the last
  dispatch (`QueuedInv`), the events of a queue are in order (`OrderInv`), a thread
  that waits for a measurement has not calculated for its pattern (`PatternInv`),
  and while it calculates it has not actuated for it (`CalculationInv`). One lemma
  each says what `Send` does to such a queue and what receiving from it does.
- `ContractImplemented`: `Spec => ImplementsContract`, step by step: `Calculate` is
  `Match`, `Actuate` is `Actuate`, `Fiducial` is `Fiducial`, and all else stutters.
- `ExactContractImplemented`: `TimelySpec => ImplementsExactContract`, from the inductive
  invariant `TimelyInv` (`TimelyCorrect`). Why an empty queue means that the data are of the pulse
  calculated takes five parts: the timer that runs is for the pulse dispatched last
  (`TimerInv`); devices are read in the order of the pulses, for the loops of the pattern
  alone (`UpdatesInv`); a MEASUREMENT_EVENT that reached a loop is of a pulse whose reads
  are done (`PastInv`), so what is read while it calculates is of a later
  pattern; a later pattern to be measured was announced first, and its PATTERN_EVENT is
  still in the queue (`AnnouncedInv`); hence data checked or used with an empty queue
  were not overwritten (`ExactInv`). `Punctual`, `NoOverflow` and `NothingToClear` are
  each used: the first by `TimerInv`, the others by `AnnouncedInv`. How late the CollectorThread
  and the LoopThreads are is not limited.

- `LatestActuated`: `TimelySpec => ActuatedFromLatest`, from the same invariant. The
  specification that `mode_change` refutes it for differs in one thing: it lets changeMode clear a
  queue. So that clear, and nothing else a late loop meets, breaks the pending-events check.

`PipelineRecoveryProofs` proves `PulsesCalculated`, `RecoverySpec => []RestMeansCalculated`, for any
number of loops, devices, kinds, pulses and mode changes before the calm (`RecoveryAssumption`:
queues have three places, for the three events of a pulse with heartbeat, and there is a
device: without any the CollectorThread broadcasts nothing). It is the
safety half of recovery: no event of the calm is lost, suppressed, or taken for an unexpected one,
whatever `_state`, `_pattern`, the stored pattern and the buffers were when the calm began. The
reason is that a PATTERN_EVENT sets all of that and is ahead of the MEASUREMENT_EVENT in every queue.
`RecoveryInv` follows one pulse through its stages (`StageInv`: with the EVR task, the timer it
started, the CollectorThread that was told, the update), says what each queue then holds
(`EventsInv`: the events of that pulse alone, ranked in the order they were sent) and what
follows for each loop that the pulse matches (`FateInv`: it has calculated, or both its events are
ahead of it). By `CalmInv` no loop finds events to clear after a calculation, so that none
disables the PatternManager, which would suppress the MEASUREMENT_EVENT of a pulse under way.

`LoopControlProofs` proves for any loops, masks and POIs, any sharing of masks between
loops and any bounds (`ControlAssumption`: every loop has a POI, and the two owners that are no
loops differ from loops):

- `TypeCorrect`: `Spec => []TypeOK`.
- `LoopsServed`: `Spec => []ConfiguredLoopsServed`. The inductive invariant adds what is
  known of a loop in the middle of a transition (`StateInv`: configured is "reported ON by
  a transition that succeeded", a thread on its way ON is not configured and was asked
  to be ON, one on its way OFF the opposite) and where in it a loop stops being
  served and being a listener (`ServedInv`). The argument has two halves:
  `OthersUntouched`, no step of one LoopThread takes anything from another loop, however
  they share masks; and `OwnServed`, what the loop's own steps do. That no other step comes
  between those of one critical section is in the model (see LoopControl above).
- `ReportsAreTrue`: `Spec => []ReportsHold`. `ReportsInv` adds to that invariant what the FBCK PVs are
  on the way from ON to OFF (`FeedbackExact`, `ModeExact`: what a write of them does when it
  succeeds, and that one that fails was counted or had no algorithm to go through). It is an equality where
  `mode` is `seen`: a change of MODE that failed after `_mode` was assigned makes them differ, which
  is finding 2, and only a change that succeeds makes them the same again. That a loop OFF holds
  nothing needs that no step failed: `disconnectDevices` gives up on the first FBCK PV.

`DeviceBufferProofs`, for rings of any size of at least 2 (`BufferAssumption`,
`ActuatorAssumption`, `StateAssumption`; the averages have their own), any values and limits and every kind of channel;
`RingAfter`, `RingBefore` and their like are the arithmetic of indices that wrap:

- `StuckIsSeen`: `StuckSeen`. The strengthening `RecentInv` says that the two slots before
  `next` hold the last two reads that succeeded, wherever the index wraps.
- `SampleImplemented`: `DatumHandedOnce`, step by step: `Read` is `Refresh` or, when it fails, `Fail` of
  `LatestSample`, `Get` is `Use`, a bad check `Reject`. `FreshInv`, that a slot with status READ was not handed out, is
  what it needs.
- `WrittenWasSent`, `LimitsRespected`: `WrittenIsSent` and `SentWithinLimits`, inductive together
  with `WaitsWithinLimits`: what is SET and waits for the write is within the limits.
- `DriftIsAccounted`: `DriftAccounted`, inductive by itself: each operation moves the difference of
  the two indices, modulo the size, by what it adds to `slips`. `DriftIsHealed` (`DriftHeals`) follows.
- `AverageOfWindow`: the ring of `MeasurementAverage` implements `SampleWindow`. `AvgInv`
  says where the tail is while the ring fills and when it is full, and that the sum kept is that of
  the samples between them. That a sum over a sequence gains what is appended and loses what leaves
  at the front needs induction, which the provers cannot instantiate: `LeastNumber` (a
  nonempty set of numbers has a least element, from the library's well-founded sets)
  stands for it, and a smallest counterexample refutes itself.

`DeviceChannelsProofs`, for any finite set of devices: `ResourcesAreCounted`. The counts of subscriptions, CA channels and files are cardinalities of what
the devices hold plus what failed constructors leaked and the .ini files left open; `CountOne` and `CountDevices` say how such a cardinality
changes with one device, `NewPays` and `OldPays` what each constructor and destructor costs.

`PatternConfigurationProofs`, for any number of patterns, words of a mask and waveforms:

- `SetsAreKept`: `SetsKept`. The invariant follows a configuration through its patterns: before
  each of them every set of devices is in its map once, under the mask its devices carry
  (`KindKept`), also after one that was refused half-way.
- `SetsAreFound`: `PatternsFindTheirSets`, and `AlgorithmsAreFound`. They rest on `MasksAreOrdered`:
  of two different masks of equal length exactly one is less, the fact that the
  `std::map`s of the code depend on.
- `OnlyEqualMasksRefused`: `NewMasksAccepted`, an action property; `SetpointsArePaired`:
  `SetpointsMatch`, by the numbers in the names.

`AlgorithmProofs`:

- `SourcesAreValid`, `ReleasedIsReadAgain` of `Longitudinal`. One lemma per section of
  `selectStates` says what it adds, whatever the others did; `SamplesIn` says that an average that is
  not empty has a bunch length measured since it was cleared; `NoneForgotten` ties
  USEDBY, the mode seen last and the history: a state in use whose actuator was moved, or
  whose USED PV is off again, was not met by a selection since, or the chirp stood in for it.
- `ChirpIsHeld`: with `TurningOn` and `TurningOff`, what the PVs say in each state of the two programs.
- `ReadIsCollected`, `RowsOfFitAgree`, `KicksAreOfLoadedG` and `LaunchIsRemoved` of the fits, by an
  invariant about what a configuration leaves behind when it fails at any point. Different monitors of
  a set have different places in it (`RankOfMonitor`), so the row found at a place is the one of
  the monitor looked for (`RowOfMonitor`), and what is saved agrees row by row (`SavedForKept`).

`ComponentsProofs`: `StartIsComplete` and `ResetAfterOff` for any finite set of slots
(`StartInv`: what the shell may rely on once it gave up waiting in time; `LoopsInv`:
a configured loop has a thread), `PutReachesAll` and `ReadbackIsCurrent` for
any number of PVs of one name (`PutInv`: a put has reached the PVs before the next one, but
those the code assigned since).

Every module of a component also has its type theorem. The last part of `ComponentsProofs` puts
them together: by `ComponentSteps` a step of `MCComponents` is one of a single component and
a stutter of the others, so `ComponentsImplemented`: its `Spec` implements the specification of
every component (of `LongitudinalChirp` without the fairness, which `MCComponents` states for the
steps of component chirp). What is proved of a component alone therefore holds in the
composition that run `components` checks, and `ComponentsTypeCorrect`, `Spec => []ComponentsTypeOK`,
is the conjunction of the type theorems.

Only model-checked: liveness (`ThreadsReturn`, `CalmPulsesCalculated`,
`TransitionsEnd`, `RetriedUntilConfigured`, `ReadyFollows`, `ResetComes`), which needs
fairness and ENABLED. Of `CalmPulsesCalculated` the proved
`RestMeansCalculated` leaves only that the pipeline comes to rest.

## Plan

Every safety invariant, action property and refinement of the passing runs has its theorem.
What could be added is in the hazards without a property (their notes in PROJECT.json) and below.

## Not modelled

- Floating point arithmetic of the algorithms, their filters and matrices: TLC has no doubles. What is
  modelled is which data goes into a result. The averages of the energies (with `setPaths`,
  which clears them) are left out: only their latest value is used.
- The wire formats and waits inside FCOM, Channel Access and files.
- Classes that no configuration creates (`TrajectoryFit` itself, `BunchCharge`), the
  `SineWave` test algorithm, and ExecThread::stop, which no command calls.
- Start-up glue (`ffRegister`, `fastFeedbackMain`), the XY fit subroutine, `limitUpdate.st`, the
  commands that print, log texts, statistics, displays (`devFfDeviceView`) and databases.
- In `PulsePipeline` the SC facility mode (in which statuses are not checked), CA and FILE devices.
- Two loops that use one PV name, which the code does not support; several POIs of one
  loop matched by one modifier; `_skipOnlyCompute`; the restart of a running timer, which
  no caller asks for.
- The record types' conversion of values (a long written through a 32-bit pointer, a text
  without its final NUL): a value is copied whole or, for texts, in two steps.

`PROJECT.json` says it for each component.
