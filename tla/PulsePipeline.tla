---------------------------- MODULE PulsePipeline ----------------------------
(***************************************************************************)
(* The 120 Hz event pipeline of the Fast Feedback IOC, from the EVR        *)
(* fiducial callback to the actuators:                                     *)
(*                                                                         *)
(*   EVR task --PATTERN--> LoopThread queues                               *)
(*      |  `----START----> Timer --MEASUREMENT--> CollectorThread          *)
(*      `------PATTERN----------------------------^      |                 *)
(*                        LoopThread queues <--MEASUREMENT (broadcast)     *)
(*                                                                         *)
(* Every thread runs concurrently: the EVR task executes                   *)
(* PatternManager::process, the Timer thread sleeps and then executes      *)
(* PatternManager::updateMeasurements, the CollectorThread reads the       *)
(* devices into their buffers, and each LoopThread calculates from those   *)
(* buffers.  They share the PatternManager (_enabled, _pattern, its        *)
(* mutex), the bounded event queues and the device buffers, which no lock  *)
(* protects between the CollectorThread and a LoopThread.                  *)
(*                                                                         *)
(* All loops are configured and ON in the NC facility mode, their devices  *)
(* are FCOM devices, every pattern matches at most one POI of a loop, and  *)
(* no loop actuates whatever is pending (_skipOnlyCompute).                *)
(* An operator may change MODE (LoopThread::changeMode); turning a loop    *)
(* OFF and ON again is not in this module.                                 *)
(***************************************************************************)
EXTENDS Integers, Sequences

CONSTANTS
  Loops,      \* the LoopThreads
  Devices,    \* the MeasurementDevices of all loops
  Owner,      \* Owner[d]: the loop that uses device d
  Kinds,      \* the modifier words of EVR patterns, up to what masks tell apart
  NoKind,     \* the modifier of a Pattern that was never assigned
  Matches,    \* Matches[k]: the loops with one POI matched by modifier k
  Beam,       \* the modifiers with the POCKCEL_PERM bit
  Heartbeat,  \* the modifiers matched by the 0.5 Hz heartbeat mask
  Free,       \* the owner of an unlocked mutex
  QueueSize,  \* EVENT_RECEIVER_QUEUE_SIZE
  MaxLag,     \* a datum read is at most this many pulses old
  MaxPulse,   \* bound: fiducials in a behavior
  MaxChanges  \* bound: runs of LoopThread::changeMode

ASSUME PipelineAssumption ==
  /\ Owner \in [Devices -> Loops]
  /\ Matches \in [Kinds -> SUBSET Loops]
  /\ Beam \subseteq Kinds
  /\ Heartbeat \subseteq Kinds
  /\ NoKind \notin Kinds
  /\ Free \notin Loops
  /\ QueueSize \in Nat \ {0}
  /\ MaxLag \in Nat
  /\ MaxPulse \in Nat
  /\ MaxChanges \in Nat

VARIABLES
  log,        \* modifiers of the fiducials so far: log[n] is that of pulse n
  evrPc,      \* where the EVR task is in PatternManager::process
  evrPattern, \* the evrPattern parameter of PatternManager::process
  enabled,    \* PatternManager::_enabled
  pmLock,     \* holder of PatternManager::_mutex
  saved,      \* PatternManager::_pattern
  timerQueue, \* START_TIMER_EVENTs pending in the Timer's queue
  timerPc,    \* whether the Timer thread sleeps
  cQueue,     \* queue of the CollectorThread
  cState,     \* CollectorThread::_state
  cPc,        \* whether the CollectorThread is inside MeasurementCollector::update
  cPattern,   \* pattern of the MEASUREMENT_EVENT being processed by the collector
  cTodo,      \* devices the running update has still to read
  cCheck,     \* the device whose pulse id is to be checked, if any
  buffer,     \* latest data point of each device
  lQueue,     \* queue of each LoopThread
  lState,     \* LoopThread::_state
  lPattern,   \* LoopThread::_pattern, whose pulse is also in _pulseIdPv
  lPc,        \* where each LoopThread is
  lEvent,     \* the event in processEvent
  lTodo,      \* devices a loop over the measurements has still to visit
  lUsed,      \* pulses of the data the running algorithm got
  lPending,   \* pendingEvents of EventReceiver::clear
  lEnabled,   \* patternEnabled of LoopThread::changeMode
  changes,    \* runs of changeMode so far
  matched,    \* history: pulse of the last MEASUREMENT_EVENT a loop accepted
  actuated    \* history: pulse of the last actuation of a loop, its data, their number

evrVars   == <<evrPc, evrPattern>>
pmVars    == <<enabled, pmLock, saved>>
timerVars == <<timerQueue, timerPc>>
cVars     == <<cQueue, cState, cPc, cPattern, cTodo, cCheck>>
lVars     == <<lQueue, lState, lPattern, lPc, lEvent, lTodo, lUsed, lPending, lEnabled>>
history   == <<changes, matched, actuated>>
vars      == <<log, evrVars, pmVars, timerVars, cVars, buffer, lVars, history>>

-----------------------------------------------------------------------------
(* Patterns, events and data points *)

pulse == Len(log)

Patterns == [kind : Kinds \cup {NoKind}, pulse : Nat]

NoPattern == [kind |-> NoKind, pulse |-> 0]

Event(type, pattern) == [type |-> type, pattern |-> pattern]

Events == [type : {"HEARTBEAT", "PATTERN", "MEASUREMENT"}, pattern : Patterns]

Statuses == {"EMPTY", "READ", "READ_INVALID", "READ_TSMISMATCH", "GET"}

DataPoints == [status : Statuses, pulse : Nat]

\* Mutation: the newest event is received first.
SendFirst(queue, event) ==
  IF Len(queue) < QueueSize THEN <<event>> \o queue ELSE queue

\* Mutation: a queue without a bound.
SendUnbounded(queue, event) == Append(queue, event)

\* EventReceiver::send: an event sent to a full queue is lost.
Send(queue, event) ==
  IF Len(queue) < QueueSize THEN Append(queue, event) ELSE queue

\* Mutation: the mutex does not exclude.
LockWithoutWaiting(l) == pmLock' = l

\* PatternManager::lock by LoopThread l.  The mutex is recursive; no caller
\* modelled here holds it already.
Lock(l) == pmLock = Free /\ pmLock' = l

\* Mutation: the mutex is not released.
KeepLock == UNCHANGED pmLock

\* PatternManager::unlock.
Unlock == pmLock' = Free

\* Mutation: pending events do not matter.
IgnorePending(l) == TRUE

\* EventReceiver::getPendingEvents is zero.
NonePending(l) == lQueue[l] = <<>>

DevicesOf(l) == {d \in Devices : Owner[d] = l}


-----------------------------------------------------------------------------
Init ==
  /\ log = <<>>
  /\ evrPc = "idle"
  /\ evrPattern = NoPattern
  /\ enabled = TRUE
  /\ pmLock = Free
  /\ saved = NoPattern
  /\ timerQueue = 0
  /\ timerPc = "receive"
  /\ cQueue = <<>>
  /\ cState = "WAITING_PATTERN"
  /\ cPc = "receive"
  /\ cPattern = NoPattern
  /\ cTodo = {}
  /\ cCheck = {}
  /\ buffer = [d \in Devices |-> [status |-> "EMPTY", pulse |-> 0]]
  /\ lQueue = [l \in Loops |-> <<>>]
  /\ lState = [l \in Loops |-> "WAITING_PATTERN"]
  /\ lPattern = [l \in Loops |-> NoPattern]
  /\ lPc = [l \in Loops |-> "receive"]
  /\ lEvent = [l \in Loops |-> Event("HEARTBEAT", NoPattern)]
  /\ lTodo = [l \in Loops |-> {}]
  /\ lUsed = [l \in Loops |-> {}]
  /\ lPending = [l \in Loops |-> 0]
  /\ lEnabled = [l \in Loops |-> TRUE]
  /\ changes = 0
  /\ matched = [l \in Loops |-> 0]
  /\ actuated = [l \in Loops |-> [pulse |-> 0, data |-> {}, count |-> 0]]

-----------------------------------------------------------------------------
(* EVR task: PatternManager::fiducialCallback and process *)

\* A fiducial with modifier k.  _enabled is read without the mutex; the
\* heartbeat is sent before the mutex is taken.
Fiducial(k) ==
  /\ evrPc = "idle"
  /\ pulse < MaxPulse
  /\ log' = Append(log, k)
  /\ IF enabled
     THEN LET p == [kind |-> k, pulse |-> pulse + 1] IN
          /\ evrPattern' = p
          /\ evrPc' = "dispatch"
          /\ lQueue' = IF k \in Heartbeat
                       THEN [l \in Loops |-> Send(lQueue[l], Event("HEARTBEAT", p))]
                       ELSE lQueue
     ELSE UNCHANGED <<evrPc, evrPattern, lQueue>>
  /\ UNCHANGED <<pmVars, timerVars, cVars, buffer, lState, lPattern, lPc,
                 lEvent, lTodo, lUsed, lPending, lEnabled, history>>

\* Under the mutex, PATTERN_EVENT to the receivers of every mask that matches.
Dispatch ==
  /\ evrPc = "dispatch"
  /\ pmLock = Free
  /\ lQueue' = [l \in Loops |->
                  IF l \in Matches[evrPattern.kind]
                  THEN Send(lQueue[l], Event("PATTERN", evrPattern))
                  ELSE lQueue[l]]
  /\ evrPc' = IF Matches[evrPattern.kind] = {} THEN "idle" ELSE "timer"
  /\ UNCHANGED <<log, evrPattern, pmVars, timerVars, cVars, buffer, lState,
                 lPattern, lPc, lEvent, lTodo, lUsed, lPending, lEnabled, history>>

\* The timer is started before _pattern is saved, unless disabled meanwhile.
StartTimer ==
  /\ evrPc = "timer"
  /\ IF enabled
     THEN /\ timerQueue' = IF timerQueue < QueueSize THEN timerQueue + 1
                                                     ELSE timerQueue
          /\ evrPc' = "save"
     ELSE evrPc' = "idle" /\ UNCHANGED timerQueue
  /\ UNCHANGED <<log, evrPattern, pmVars, timerPc, cVars, buffer, lVars, history>>

SavePattern ==
  /\ evrPc = "save"
  /\ saved' = evrPattern
  /\ evrPc' = "collector"
  /\ UNCHANGED <<log, evrPattern, enabled, pmLock, timerVars, cVars, buffer,
                 lVars, history>>

NotifyCollector ==
  /\ evrPc = "collector"
  /\ cQueue' = Send(cQueue, Event("PATTERN", evrPattern))
  /\ evrPc' = "idle"
  /\ UNCHANGED <<log, evrPattern, pmVars, timerVars, cState, cPc, cPattern,
                 cTodo, cCheck, buffer, lVars, history>>

-----------------------------------------------------------------------------
(* Timer thread: one sleep for each START_TIMER_EVENT, in turn *)

StartSleep ==
  /\ timerPc = "receive"
  /\ timerQueue > 0
  /\ timerQueue' = timerQueue - 1
  /\ timerPc' = "sleep"
  /\ UNCHANGED <<log, evrVars, pmVars, cVars, buffer, lVars, history>>

\* What a read of _pattern returns: the EVR task assigns it with no lock, and
\* a copy made meanwhile can mix the old and the new modifier and timestamp.
SavedReads ==
  IF evrPc = "save"
  THEN [kind : {saved.kind, evrPattern.kind}, pulse : {saved.pulse, evrPattern.pulse}]
  ELSE {saved}

\* PatternManager::updateMeasurements, the callback of the timer.
Expire ==
  /\ timerPc = "sleep"
  /\ timerPc' = "receive"
  /\ IF enabled
     THEN \E p \in SavedReads : cQueue' = Send(cQueue, Event("MEASUREMENT", p))
     ELSE UNCHANGED cQueue
  /\ UNCHANGED <<log, evrVars, pmVars, timerQueue, cState, cPc, cPattern, cTodo, cCheck,
                 buffer, lVars, history>>

-----------------------------------------------------------------------------
(* CollectorThread *)

\* CollectorThread::processPatternEvent.
CollectorPattern ==
  /\ cPc = "receive"
  /\ cQueue # <<>>
  /\ Head(cQueue).type = "PATTERN"
  /\ cQueue' = Tail(cQueue)
  /\ cState' = "WAITING_MEASUREMENT"
  /\ UNCHANGED <<log, evrVars, pmVars, timerVars, cPc, cPattern, cTodo, cCheck,
                 buffer, lVars, history>>

\* CollectorThread::processMeasurementEvent, up to the update of the devices.
\* The pulse ids of the two events are compared only to be counted.  An update
\* without devices fails.
CollectorMeasurement ==
  /\ cPc = "receive"
  /\ cQueue # <<>>
  /\ Head(cQueue).type = "MEASUREMENT"
  /\ cQueue' = Tail(cQueue)
  /\ LET p == Head(cQueue).pattern IN
     IF cState = "WAITING_MEASUREMENT" /\ enabled /\ Devices # {}
     THEN /\ cPc' = "update"
          /\ cPattern' = p
          /\ cTodo' = {d \in Devices : p.kind \in Beam /\ Owner[d] \in Matches[p.kind]}
          /\ UNCHANGED cState
     ELSE /\ cState' = "WAITING_PATTERN"
          /\ UNCHANGED <<cPc, cPattern, cTodo>>
  /\ UNCHANGED <<log, evrVars, pmVars, timerVars, cCheck, buffer, lVars, history>>

\* MeasurementDevice::read.  A read can fail, and leaves then a slot with an old
\* datum; the datum received last can be of a later or of an earlier pulse.
\* With a TMIT that is too low its pulse id is not going to be checked.
ReadDevice(d) ==
  /\ cPc = "update"
  /\ d \in cTodo
  /\ cCheck = {}
  /\ cTodo' = cTodo \ {d}
  /\ \/ /\ buffer' = [buffer EXCEPT ![d] = [status |-> "READ_INVALID", pulse |-> 0]]
        /\ UNCHANGED cCheck
     \/ \E n \in {i \in buffer[d].pulse .. pulse : i >= pulse - MaxLag}, lowTmit \in BOOLEAN :
          /\ buffer' = [buffer EXCEPT ![d] = [status |-> "READ", pulse |-> n]]
          /\ cCheck' = IF lowTmit THEN {} ELSE {d}
  /\ UNCHANGED <<log, evrVars, pmVars, timerVars, cQueue, cState, cPc, cPattern,
                 lVars, history>>

\* MeasurementDevice::checkPulseId, after the datum became visible to the loop.
CheckPulseId(d) ==
  /\ cPc = "update"
  /\ cCheck = {d}
  /\ cCheck' = {}
  /\ IF buffer[d].status = "READ" /\ buffer[d].pulse # cPattern.pulse
     THEN buffer' = [buffer EXCEPT ![d].status = "READ_TSMISMATCH"]
     ELSE UNCHANGED buffer
  /\ UNCHANGED <<log, evrVars, pmVars, timerVars, cQueue, cState, cPc, cPattern,
                 cTodo, lVars, history>>

\* Broadcast of the MEASUREMENT_EVENT to all LoopThreads.
Broadcast ==
  /\ cPc = "update"
  /\ cTodo = {} /\ cCheck = {}
  /\ lQueue' = [l \in Loops |-> Send(lQueue[l], Event("MEASUREMENT", cPattern))]
  /\ cState' = "WAITING_PATTERN"
  /\ cPc' = "receive"
  /\ UNCHANGED <<log, evrVars, pmVars, timerVars, cQueue, cPattern, cTodo, cCheck,
                 buffer, lState, lPattern, lPc, lEvent, lTodo, lUsed, lPending,
                 lEnabled, history>>

-----------------------------------------------------------------------------
(* LoopThread l *)

\* Mutation: a pattern that comes when a measurement is expected is dropped.
LoopPatternInTurn(l) ==
  /\ lPc[l] = "receive"
  /\ lQueue[l] # <<>>
  /\ Head(lQueue[l]).type = "PATTERN"
  /\ lQueue' = [lQueue EXCEPT ![l] = Tail(@)]
  /\ IF lState[l] = "WAITING_PATTERN"
     THEN /\ lPattern' = [lPattern EXCEPT ![l] = Head(lQueue[l]).pattern]
          /\ lState' = [lState EXCEPT ![l] = "WAITING_MEASUREMENT"]
     ELSE UNCHANGED <<lPattern, lState>>
  /\ UNCHANGED <<log, evrVars, pmVars, timerVars, cVars, buffer, lPc, lEvent,
                 lTodo, lUsed, lPending, lEnabled, history>>

\* LoopThread::processPatternEvent: the pattern replaces one whose
\* MEASUREMENT_EVENT never came.
LoopPattern(l) ==
  /\ lPc[l] = "receive"
  /\ lQueue[l] # <<>>
  /\ Head(lQueue[l]).type = "PATTERN"
  /\ lQueue' = [lQueue EXCEPT ![l] = Tail(@)]
  /\ lPattern' = [lPattern EXCEPT ![l] = Head(lQueue[l]).pattern]
  /\ lState' = [lState EXCEPT ![l] = "WAITING_MEASUREMENT"]
  /\ UNCHANGED <<log, evrVars, pmVars, timerVars, cVars, buffer, lPc, lEvent,
                 lTodo, lUsed, lPending, lEnabled, history>>

Continue(event) == IF event.type = "MEASUREMENT" THEN "measurement" ELSE "receive"

\* Any other event: LoopThread::checkMode runs first, and finds MODE unchanged
\* or calls changeMode.
LoopReceive(l) ==
  /\ lPc[l] = "receive"
  /\ lQueue[l] # <<>>
  /\ Head(lQueue[l]).type # "PATTERN"
  /\ lQueue' = [lQueue EXCEPT ![l] = Tail(@)]
  /\ lEvent' = [lEvent EXCEPT ![l] = Head(lQueue[l])]
  /\ \/ lPc' = [lPc EXCEPT ![l] = Continue(Head(lQueue[l]))]
     \/ changes < MaxChanges /\ lPc' = [lPc EXCEPT ![l] = "changeMode"]
  /\ UNCHANGED <<log, evrVars, pmVars, timerVars, cVars, buffer, lState, lPattern,
                 lTodo, lUsed, lPending, lEnabled, history>>

\* changeMode locks and disables the PatternManager.
BeginChangeMode(l) ==
  /\ lPc[l] = "changeMode"
  /\ Lock(l)
  /\ lEnabled' = [lEnabled EXCEPT ![l] = enabled]
  /\ enabled' = FALSE
  /\ changes' = changes + 1
  /\ lPc' = [lPc EXCEPT ![l] = "changing"]
  /\ UNCHANGED <<log, evrVars, saved, timerVars, cVars, buffer, lQueue, lState,
                 lPattern, lEvent, lTodo, lUsed, lPending, matched, actuated>>

\* From COMPUTE to ENABLE it clears the thread's queue.  It enables the
\* PatternManager only if it was enabled.
EndChangeMode(l) ==
  /\ lPc[l] = "changing"
  /\ \/ UNCHANGED lQueue
     \/ lQueue' = [lQueue EXCEPT ![l] = <<>>]
  /\ enabled' = (lEnabled[l] \/ enabled)
  /\ Unlock
  /\ lPc' = [lPc EXCEPT ![l] = Continue(lEvent[l])]
  /\ UNCHANGED <<log, evrVars, saved, timerVars, cVars, buffer, lState, lPattern,
                 lEvent, lTodo, lUsed, lPending, lEnabled, history>>

\* LoopThread::processMeasurementEvent returns before Loop::calculate: not
\* waiting for it, or it is not of the pattern waited for.
Unexpected(l) ==
  /\ lPc[l] = "measurement"
  /\ \/ lState[l] = "WAITING_PATTERN"
     \/ lPattern[l] # lEvent[l].pattern
  /\ lState' = [lState EXCEPT ![l] = "WAITING_PATTERN"]
  /\ lPc' = [lPc EXCEPT ![l] = "receive"]
  /\ UNCHANGED <<log, evrVars, pmVars, timerVars, cVars, buffer, lQueue, lPattern,
                 lEvent, lTodo, lUsed, lPending, lEnabled, history>>

\* Otherwise Loop::calculate runs.  Without beam it writes the reference values
\* and returns.  With a TMIT that is too low, it discards the measurements.
Calculate(l) ==
  /\ lPc[l] = "measurement"
  /\ lState[l] = "WAITING_MEASUREMENT"
  /\ lPattern[l] = lEvent[l].pattern
  /\ matched' = [matched EXCEPT ![l] = lPattern[l].pulse]
  /\ IF lPattern[l].kind \in Beam
     THEN /\ \E pc \in {"check", "lowTmit"} : lPc' = [lPc EXCEPT ![l] = pc]
          /\ lTodo' = [lTodo EXCEPT ![l] = DevicesOf(l)]
          /\ UNCHANGED lState
     ELSE /\ lPc' = [lPc EXCEPT ![l] = "receive"]
          /\ lState' = [lState EXCEPT ![l] = "WAITING_PATTERN"]
          /\ UNCHANGED lTodo
  /\ UNCHANGED <<log, evrVars, pmVars, timerVars, cVars, buffer, lQueue, lPattern,
                 lEvent, lUsed, lPending, lEnabled, changes, actuated>>

\* Loop::checkMeasurementStatus visits the devices until one is bad.
CheckMeasurement(l, d) ==
  /\ lPc[l] = "check"
  /\ d \in lTodo[l]
  /\ IF buffer[d] = [status |-> "READ", pulse |-> lPattern[l].pulse]
     THEN /\ lTodo' = [lTodo EXCEPT ![l] = @ \ {d}]
          /\ UNCHANGED lPc
     ELSE /\ lTodo' = [lTodo EXCEPT ![l] = DevicesOf(l)]
          /\ lPc' = [lPc EXCEPT ![l] = "discard"]
  /\ UNCHANGED <<log, evrVars, pmVars, timerVars, cVars, buffer, lQueue, lState,
                 lPattern, lEvent, lUsed, lPending, lEnabled, history>>

\* All are good: the algorithm starts.
BeginAlgorithm(l) ==
  /\ lPc[l] = "check"
  /\ lTodo[l] = {}
  /\ lPc' = [lPc EXCEPT ![l] = "algorithm"]
  /\ lTodo' = [lTodo EXCEPT ![l] = DevicesOf(l)]
  /\ lUsed' = [lUsed EXCEPT ![l] = {}]
  /\ UNCHANGED <<log, evrVars, pmVars, timerVars, cVars, buffer, lQueue, lState,
                 lPattern, lEvent, lPending, lEnabled, history>>

\* MeasurementDevice::get, by the algorithm or to discard, while the
\* CollectorThread may be reading newer data into the same buffer.
Get(l, d) ==
  /\ lPc[l] \in {"algorithm", "lowTmit", "discard"}
  /\ d \in lTodo[l]
  /\ lTodo' = [lTodo EXCEPT ![l] = @ \ {d}]
  /\ buffer' = IF buffer[d].status = "READ"
               THEN [buffer EXCEPT ![d].status = "GET"] ELSE buffer
  /\ lUsed' = IF lPc[l] = "algorithm"
              THEN [lUsed EXCEPT ![l] = @ \cup {buffer[d].pulse}] ELSE lUsed
  /\ UNCHANGED <<log, evrVars, pmVars, timerVars, cVars, lQueue, lState, lPattern,
                 lPc, lEvent, lPending, lEnabled, history>>

\* Mutation: LoopThread::_state is left as it was.
ReturnStillWaiting(l) ==
  IF lPc[l] # "lowTmit" /\ lQueue[l] # <<>>
  THEN lPc' = [lPc EXCEPT ![l] = "clear"] /\ UNCHANGED lState
  ELSE lPc' = [lPc EXCEPT ![l] = "receive"] /\ UNCHANGED lState

\* The thread waits for the next pattern.  After a calculation, or when the
\* pulse ids did not match, it clears its queue first if events are pending.
Return(l) ==
  IF lPc[l] = "lowTmit" \/ lQueue[l] = <<>>
  THEN /\ lPc' = [lPc EXCEPT ![l] = "receive"]
       /\ lState' = [lState EXCEPT ![l] = "WAITING_PATTERN"]
  ELSE lPc' = [lPc EXCEPT ![l] = "clear"] /\ UNCHANGED lState

\* The actuators are not written: the data was discarded or found bad by the
\* algorithm, a limit was hit, MODE is COMPUTE, or events are pending.
Skip(l) ==
  /\ lPc[l] \in {"algorithm", "lowTmit", "discard"}
  /\ lTodo[l] = {}
  /\ Return(l)
  /\ UNCHANGED <<log, evrVars, pmVars, timerVars, cVars, buffer, lQueue, lPattern,
                 lEvent, lTodo, lUsed, lPending, lEnabled, history>>

\* Loop::setDevices writes the actuators when no event is pending.
Actuate(l) ==
  /\ lPc[l] = "algorithm"
  /\ lTodo[l] = {}
  /\ NonePending(l)
  /\ actuated' = [actuated EXCEPT ![l] =
       [pulse |-> lPattern[l].pulse, data |-> lUsed[l], count |-> @.count + 1]]
  /\ Return(l)
  /\ UNCHANGED <<log, evrVars, pmVars, timerVars, cVars, buffer, lQueue, lPattern,
                 lEvent, lTodo, lUsed, lPending, lEnabled, changes, matched>>

\* EventReceiver::clear under the PatternManager's mutex, with it disabled.
BeginClear(l) ==
  /\ lPc[l] = "clear"
  /\ Lock(l)
  /\ enabled' = FALSE
  /\ lPending' = [lPending EXCEPT ![l] = Len(lQueue[l])]
  /\ lPc' = [lPc EXCEPT ![l] = "clearing"]
  /\ UNCHANGED <<log, evrVars, saved, timerVars, cVars, buffer, lQueue, lState,
                 lPattern, lEvent, lTodo, lUsed, lEnabled, history>>

\* Only the events counted at the start are discarded.
EndClear(l) ==
  /\ lPc[l] = "clearing"
  /\ lQueue' = [lQueue EXCEPT ![l] = SubSeq(@, lPending[l] + 1, Len(@))]
  /\ enabled' = TRUE
  /\ Unlock
  /\ lState' = [lState EXCEPT ![l] = "WAITING_PATTERN"]
  /\ lPc' = [lPc EXCEPT ![l] = "receive"]
  /\ UNCHANGED <<log, evrVars, saved, timerVars, cVars, buffer, lPattern, lEvent,
                 lTodo, lUsed, lPending, lEnabled, history>>

-----------------------------------------------------------------------------
Evr == Dispatch \/ StartTimer \/ SavePattern \/ NotifyCollector

TimerThread == StartSleep \/ Expire

Collector ==
  \/ CollectorPattern \/ CollectorMeasurement \/ Broadcast
  \/ \E d \in Devices : ReadDevice(d) \/ CheckPulseId(d)

LoopThread(l) ==
  \/ LoopPattern(l) \/ LoopReceive(l)
  \/ BeginChangeMode(l) \/ EndChangeMode(l)
  \/ Unexpected(l) \/ Calculate(l) \/ BeginAlgorithm(l)
  \/ \E d \in Devices : CheckMeasurement(l, d) \/ Get(l, d)
  \/ Skip(l) \/ Actuate(l)
  \/ BeginClear(l) \/ EndClear(l)

Next ==
  \/ \E k \in Kinds : Fiducial(k)
  \/ Evr \/ TimerThread \/ Collector
  \/ \E l \in Loops : LoopThread(l)

\* Every thread is scheduled; fiducials and operators may stop.
Fairness ==
  /\ WF_vars(Evr) /\ WF_vars(TimerThread) /\ WF_vars(Collector)
  /\ \A l \in Loops : WF_vars(LoopThread(l))

Spec == Init /\ [][Next]_vars /\ Fairness

\* What the IOC relies on.  The timer delay ends before the next fiducial, and
\* after the EVR task has finished with this one; and no queue overflows.  The
\* CollectorThread and the LoopThreads may be late.
Punctual ==
  /\ log' # log => timerQueue = 0 /\ timerPc = "receive"
  /\ timerPc = "sleep" /\ timerPc' = "receive" => evrPc = "idle"

NoOverflow == \A l \in Loops : Len(lQueue[l]) < QueueSize

PunctualSpec == Init /\ [][Next /\ Punctual /\ NoOverflow]_vars

\* Moreover a mode change finds no event to clear.
NothingToClear == \A l \in Loops : lPc[l] = "changing" => lPc'[l] = "changing" \/ lQueue' = lQueue

TimelySpec == Init /\ [][Next /\ Punctual /\ NoOverflow /\ NothingToClear]_vars

-----------------------------------------------------------------------------
(* Properties *)

EvrPcs == {"idle", "dispatch", "timer", "save", "collector"}

LoopPcs == {"receive", "changeMode", "changing", "measurement", "check",
            "algorithm", "lowTmit", "discard", "clear", "clearing"}

States == {"WAITING_PATTERN", "WAITING_MEASUREMENT"}

Queues == {q \in Seq(Events) : Len(q) <= QueueSize}

EvrTypeOK ==
  /\ log \in Seq(Kinds)
  /\ evrPc \in EvrPcs /\ evrPattern \in Patterns
  /\ enabled \in BOOLEAN /\ pmLock \in Loops \cup {Free} /\ saved \in Patterns
  /\ timerQueue \in 0 .. QueueSize /\ timerPc \in {"receive", "sleep"}

CollectorTypeOK ==
  /\ cQueue \in Queues /\ cState \in States /\ cPc \in {"receive", "update"}
  /\ cPattern \in Patterns /\ cTodo \subseteq Devices /\ cCheck \subseteq Devices
  /\ buffer \in [Devices -> DataPoints]

LoopTypeOK ==
  /\ lQueue \in [Loops -> Queues]
  /\ lState \in [Loops -> States]
  /\ lPattern \in [Loops -> Patterns]
  /\ lPc \in [Loops -> LoopPcs]
  /\ lEvent \in [Loops -> Events]
  /\ lTodo \in [Loops -> SUBSET Devices]
  /\ lUsed \in [Loops -> SUBSET Nat]
  /\ lPending \in [Loops -> Nat]
  /\ lEnabled \in [Loops -> BOOLEAN]

HistoryTypeOK ==
  /\ changes \in Nat
  /\ matched \in [Loops -> Nat]
  /\ actuated \in [Loops -> [pulse : Nat, data : SUBSET Nat, count : Nat]]

\* Every variable has its type; no queue is longer than its capacity.
TypeOK == EvrTypeOK /\ CollectorTypeOK /\ LoopTypeOK /\ HistoryTypeOK

-----------------------------------------------------------------------------
(* What the patterns in the pipeline are, and in which order *)

\* Pattern p is that of a fiducial.
OfFiducial(p) == p.pulse \in 1 .. Len(log) /\ log[p.pulse] = p.kind

\* The fiducials up to this one have been dispatched.
Dispatched == IF evrPc = "dispatch" THEN Len(log) - 1 ELSE Len(log)

EvrInv == evrPc # "idle" => evrPattern.pulse = Len(log) /\ OfFiducial(evrPattern)

\* A PATTERN_EVENT in the queue of l is later than the pattern l works on.
QueuedInv(l) ==
  \A i \in 1 .. Len(lQueue[l]) : LET p == lQueue[l][i].pattern IN
    lQueue[l][i].type = "PATTERN" =>
      /\ OfFiducial(p)
      /\ l \in Matches[p.kind]
      /\ lPattern[l].pulse < p.pulse /\ p.pulse <= Dispatched

\* The PATTERN_EVENTs of a queue are in the order of their pulses.
OrderInv(l) ==
  \A i, j \in 1 .. Len(lQueue[l]) :
    i < j /\ lQueue[l][i].type = "PATTERN" /\ lQueue[l][j].type = "PATTERN" =>
      lQueue[l][i].pattern.pulse < lQueue[l][j].pattern.pulse

\* A thread that waits for measurements has not calculated for its pattern.
PatternInv(l) ==
  /\ lPattern[l].pulse <= Dispatched
  /\ lPattern[l].pulse > 0 => OfFiducial(lPattern[l]) /\ l \in Matches[lPattern[l].kind]
  /\ matched[l] <= lPattern[l].pulse
  /\ lState[l] = "WAITING_MEASUREMENT"
       /\ lPc[l] \in {"receive", "changeMode", "changing", "measurement"} =>
         matched[l] < lPattern[l].pulse

\* During a calculation the actuators have not been set for its pulse.
CalculationInv(l) ==
  /\ actuated[l].pulse <= matched[l]
  /\ lPc[l] \in {"check", "algorithm", "lowTmit", "discard"} =>
       /\ matched[l] = lPattern[l].pulse
       /\ actuated[l].pulse < matched[l]
       /\ lPattern[l].kind \in Beam
  /\ lUsed[l] \subseteq 0 .. Len(log)

BufferInv == \A d \in Devices : buffer[d].pulse <= Len(log)

\* The patterns that reach a loop are those of its fiducials, each once and in
\* order, so that it neither calculates nor actuates twice for one of them.
PatternsInOrder ==
  /\ EvrInv
  /\ BufferInv
  /\ \A l \in Loops : QueuedInv(l) /\ OrderInv(l) /\ PatternInv(l) /\ CalculationInv(l)

-----------------------------------------------------------------------------
\* The PatternManager is disabled exactly while a LoopThread holds its mutex to
\* change mode or to clear its queue: the unconditional enable() of one thread
\* never lets the EVR task or the Timer through the critical section of another,
\* and no thread leaves the IOC disabled.
LockDisables ==
  /\ enabled <=> pmLock = Free
  /\ \A l \in Loops : lPc[l] \in {"changing", "clearing"} <=> pmLock = l

Contract == INSTANCE FeedbackContract

\* Whatever the threads, the queues and the timer do, a loop calculates and
\* actuates at most once for a pulse, in order, and only for its own patterns.
ImplementsContract == Contract!Spec

\* With TimelySpec it moreover actuates from data of that pulse alone, however
\* late the CollectorThread or a LoopThread is: a newer datum in its buffers
\* means that a newer pattern is in its queue.
ImplementsExactContract == Contract!ExactSpec

\* No thread is stuck waiting for the PatternManager's mutex or for another
\* thread: each of them returns to its queue.
ThreadsReturn ==
  /\ evrPc # "idle" ~> evrPc = "idle"
  /\ cPc = "update" ~> cPc = "receive"
  /\ \A l \in Loops : lPc[l] # "receive" ~> lPc[l] = "receive"

\* "Writing to actuators must be skipped in this case, otherwise they will receive
\* values based on measurements from some cycles in the past" (Loop::calculate,
\* of pending events): a loop whose devices already hold data of a later pulse
\* does not set its actuators for this one.
ActuatedFromLatest ==
  [][\A l \in Loops : actuated'[l] # actuated[l] =>
       \A d \in DevicesOf(l) : buffer[d].pulse <= actuated'[l].pulse]_vars
=============================================================================
