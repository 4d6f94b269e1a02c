-------------------------------- MODULE Executive --------------------------------
(***************************************************************************)
(* How the controller comes up and how it is stopped.  The shell thread    *)
(* runs ffStart (ExecThread::start): it starts the ExecThread, whose preRun*)
(* reads the slots and creates configurations and LoopThreads, waits for   *)
(* it, runs iocInit, which binds the records to the PVs, and starts the    *)
(* threads.  Later ffStopLoops and ffReboot turn the loops off through     *)
(* their STATE PVs and their event queues.                                 *)
(***************************************************************************)
EXTENDS Integers, Sequences, FiniteSets

CONSTANTS
  Slots,       \* the slots in /tmp/loops.txt
  MaxQueue     \* EVENT_RECEIVER_QUEUE_SIZE

ASSUME ExecAssumption == IsFiniteSet(Slots) /\ MaxQueue \in Nat \ {0}

VARIABLES
  shell,          \* where ExecThread::start is, or how it returned
  execThread,     \* where the ExecThread is
  execDone,       \* ExecThread's _done
  proceed,        \* _proceedWithIocInit
  timedOut,       \* history: after 30 seconds the ExecThread was still busy
  configurations, \* ExecConfiguration::_loopConfigurations
  loopThreads,    \* ExecThread::_loopThreads
  bound,          \* slots whose records found their PVs in iocInit
  startedThreads, \* LoopThreads that run
  fiducials,      \* the PatternManager is enabled and gets fiducials
  statePv,        \* STATE of each loop, LoopThread::_enabledPv
  previousState,  \* LoopThread::_previousState
  turning,        \* the STATE that LoopThread::reconfigure is busy with, or "none"
  loopConfigured, \* LoopConfiguration::_configured
  queue,          \* events of each loop
  reboot,         \* where ffReboot is
  wasOn           \* history: loops that were configured when ffReboot came and still are

execVars ==
  <<shell, execThread, execDone, proceed, timedOut, configurations, loopThreads, bound,
    startedThreads, fiducials, statePv, previousState, turning, loopConfigured, queue,
    reboot, wasOn>>

startVars ==
  <<shell, execThread, execDone, proceed, timedOut, configurations, loopThreads, bound,
    startedThreads, fiducials>>

controlVars == <<statePv, previousState, turning, loopConfigured, queue>>

ExecInit ==
  /\ shell = "prompt" /\ execThread = "none" /\ execDone = FALSE /\ proceed = FALSE
  /\ timedOut = FALSE
  /\ configurations = {} /\ loopThreads = {} /\ bound = {} /\ startedThreads = {}
  /\ fiducials = "disabled"
  /\ statePv = [l \in Slots |-> TRUE] /\ previousState = [l \in Slots |-> TRUE]
  /\ turning = [l \in Slots |-> "none"] /\ loopConfigured = [l \in Slots |-> FALSE]
  /\ queue = [l \in Slots |-> <<>>]
  /\ reboot = "no" /\ wasOn = {}

-----------------------------------------------------------------------------
(* The ExecThread: Thread::run, ExecThread::preRun *)

\* ExecConfiguration::initialize, one slot of getSlotNames at a time.
ConfigureSlot ==
  /\ execThread = "configuring" /\ configurations # Slots
  /\ \E l \in Slots \ configurations : configurations' = configurations \cup {l}
  /\ UNCHANGED <<shell, execThread, execDone, proceed, timedOut, loopThreads, bound,
                 startedThreads, fiducials, reboot, wasOn, controlVars>>

\* ExecThread::createLoopThreads, one loop at a time.
CreateLoopThread ==
  /\ execThread = "configuring" /\ configurations = Slots
  /\ \E l \in Slots \ loopThreads :
       /\ loopThreads' = loopThreads \cup {l}
       /\ execThread' = IF loopThreads' = Slots THEN "sleeping" ELSE "configuring"
  /\ UNCHANGED <<shell, execDone, proceed, timedOut, configurations, bound,
                 startedThreads, fiducials, reboot, wasOn, controlVars>>

\* The file is missing, or a pattern cannot be initialized: run leaves at once.
PreRunFails ==
  /\ execThread = "configuring"
  /\ execThread' = "exited" /\ execDone' = TRUE
  /\ UNCHANGED <<shell, proceed, timedOut, configurations, loopThreads, bound,
                 startedThreads, fiducials, reboot, wasOn, controlVars>>

\* Mutation: the shell may go on before the loops exist.
PreRunEndsEarly ==
  /\ execThread \in {"configuring", "sleeping"} /\ ~proceed /\ proceed' = TRUE
  /\ execThread' = IF execThread = "sleeping" THEN "running" ELSE execThread
  /\ fiducials' = IF fiducials = "disabled" THEN "enabled" ELSE fiducials
  /\ UNCHANGED <<shell, execDone, timedOut, configurations, loopThreads, bound,
                 startedThreads, reboot, wasOn, controlVars>>

\* It slept for 5 seconds, enables the PatternManager and lets the shell proceed.
PreRunEnds ==
  /\ execThread = "sleeping" /\ execThread' = "running"
  /\ proceed' = TRUE
  /\ fiducials' = IF fiducials = "disabled" THEN "enabled" ELSE fiducials
  /\ UNCHANGED <<shell, execDone, timedOut, configurations, loopThreads, bound,
                 startedThreads, reboot, wasOn, controlVars>>

-----------------------------------------------------------------------------
(* The shell: ExecThread::start *)

StartExec ==
  /\ shell = "prompt" /\ shell' = "waiting"
  /\ execThread' = "configuring" /\ execDone' = FALSE
  /\ UNCHANGED <<proceed, timedOut, configurations, loopThreads, bound, startedThreads,
                 fiducials, reboot, wasOn, controlVars>>

\* It waits for _proceedWithIocInit, for at most 30 seconds.
WaitEnds ==
  /\ shell = "waiting"
  /\ timedOut' = (~proceed /\ ~execDone)
  /\ shell' = IF execDone THEN "failed" ELSE "iocInit"
  /\ UNCHANGED <<execThread, execDone, proceed, configurations, loopThreads, bound,
                 startedThreads, fiducials, reboot, wasOn, controlVars>>

\* iocInit: the device support finds the PVs by name (RecordSupport); LoopThreads have
\* PVs too.
IocInit ==
  /\ shell = "iocInit"
  /\ \/ shell' = "starting" /\ bound' = loopThreads
     \/ shell' = "failed" /\ UNCHANGED bound
  /\ UNCHANGED <<execThread, execDone, proceed, timedOut, configurations, loopThreads,
                 startedThreads, fiducials, reboot, wasOn, controlVars>>

StartLoopThread ==
  /\ shell = "starting"
  /\ \E l \in loopThreads \ startedThreads : startedThreads' = startedThreads \cup {l}
  /\ UNCHANGED <<shell, execThread, execDone, proceed, timedOut, configurations,
                 loopThreads, bound, fiducials, reboot, wasOn, controlVars>>

\* All are started; the ones that appear in the map meanwhile may be passed over.  Then
\* the CollectorThread and PatternManager::configure.
StartEnds ==
  /\ shell = "starting" /\ (loopThreads \subseteq startedThreads \/ execThread = "configuring")
  /\ \/ shell' = "started" /\ fiducials' = IF fiducials = "enabled" THEN "coming" ELSE fiducials
     \/ shell' = "failed" /\ UNCHANGED fiducials
  /\ UNCHANGED <<execThread, execDone, proceed, timedOut, configurations, loopThreads,
                 bound, startedThreads, reboot, wasOn, controlVars>>

-----------------------------------------------------------------------------
(* Events of the loops *)

\* Mutation: the queue has one place more.
SentOverfull(events, event) ==
  IF Len(events) <= MaxQueue THEN Append(events, event) ELSE events

\* EventReceiver::send drops the event if the queue is full.
Sent(events, event) == IF Len(events) < MaxQueue THEN Append(events, event) ELSE events

\* The PatternManager sends HEARTBEAT_EVENT to all loops.
HeartBeat ==
  /\ fiducials = "coming"
  /\ queue' = [l \in Slots |-> IF l \in loopThreads THEN Sent(queue[l], "HEARTBEAT_EVENT")
                               ELSE queue[l]]
  /\ UNCHANGED <<startVars, statePv, previousState, turning, loopConfigured, reboot, wasOn>>

\* Mutation: only the RECONFIGURE_EVENT makes a loop look at its STATE.
ChecksModeWhenTold(event) == event = "RECONFIGURE_EVENT"

\* LoopThread::processEvent: a RECONFIGURE_EVENT is not handled.
ChecksMode(event) == event = "HEARTBEAT_EVENT"

\* LoopThread::checkMode
ReceiveEvent(l) ==
  /\ l \in startedThreads /\ queue[l] # <<>> /\ turning[l] = "none"
  /\ queue' = [queue EXCEPT ![l] = Tail(@)]
  /\ turning' = [turning EXCEPT ![l] =
       IF ChecksMode(Head(queue[l])) /\ statePv[l] # previousState[l]
       THEN IF statePv[l] THEN "ON" ELSE "OFF"
       ELSE "none"]
  /\ UNCHANGED <<startVars, statePv, previousState, loopConfigured, reboot, wasOn>>

\* LoopThread::reconfigure returns: turning ON may fail, it is tried again.
Reconfigured(l) ==
  /\ turning[l] # "none" /\ turning' = [turning EXCEPT ![l] = "none"]
  /\ \/ /\ previousState' = [previousState EXCEPT ![l] = turning[l] = "ON"]
        /\ loopConfigured' = [loopConfigured EXCEPT ![l] = turning[l] = "ON"]
     \/ turning[l] = "ON" /\ UNCHANGED <<previousState, loopConfigured>>
  /\ wasOn' = IF turning[l] = "OFF" THEN wasOn \ {l} ELSE wasOn
  /\ UNCHANGED <<startVars, statePv, queue, reboot>>

\* An operator turns a loop ON or OFF, if its record is connected, and not ON while the
\* shell waits to reboot.
OperatorSwitches(l) ==
  /\ l \in bound
  /\ statePv' = [statePv EXCEPT ![l] = ~@]
  /\ statePv[l] \/ reboot = "no"
  /\ UNCHANGED <<startVars, previousState, turning, loopConfigured, queue, reboot, wasOn>>

-----------------------------------------------------------------------------
(* Shell commands *)

\* ExecThread::stopLoops
StopLoops ==
  /\ statePv' = [l \in Slots |-> statePv[l] /\ l \notin loopThreads]
  /\ queue' = [l \in Slots |-> IF l \in loopThreads THEN Sent(queue[l], "RECONFIGURE_EVENT")
                               ELSE queue[l]]
  /\ UNCHANGED <<startVars, previousState, turning, loopConfigured>>

ffStopLoops ==
  /\ shell = "started" /\ reboot = "no"
  /\ StopLoops
  /\ UNCHANGED <<reboot, wasOn>>

\* ffReboot stops the loops, and waits until they are off.
ffReboot ==
  /\ shell \in {"started", "failed"} /\ reboot = "no" /\ reboot' = "waiting"
  /\ StopLoops
  /\ wasOn' = {l \in Slots : loopConfigured[l]}

\* Mutation: the flag is the one of the last loop.
IsAnyLoopOff == loopThreads = {} \/ \E l \in loopThreads : ~loopConfigured[l]

\* ExecThread::areLoopsOff
AreLoopsOff == \A l \in loopThreads : ~loopConfigured[l]

BspReset ==
  /\ reboot = "waiting" /\ AreLoopsOff /\ reboot' = "reset"
  /\ UNCHANGED <<startVars, controlVars, wasOn>>

ExecNext ==
  /\ reboot # "reset"
  /\ \/ ConfigureSlot \/ CreateLoopThread \/ PreRunFails \/ PreRunEnds
     \/ StartExec \/ WaitEnds \/ IocInit \/ StartLoopThread \/ StartEnds
     \/ HeartBeat \/ ffStopLoops \/ ffReboot \/ BspReset
     \/ \E l \in Slots : ReceiveEvent(l) \/ Reconfigured(l) \/ OperatorSwitches(l)

ExecSpec == ExecInit /\ [][ExecNext]_execVars

-----------------------------------------------------------------------------
(* Properties *)

ExecTypeOK ==
  /\ shell \in {"prompt", "waiting", "iocInit", "starting", "started", "failed"}
  /\ execThread \in {"none", "configuring", "sleeping", "running", "exited"}
  /\ fiducials \in {"disabled", "enabled", "coming"}
  /\ {execDone, proceed, timedOut} \subseteq BOOLEAN
  /\ loopThreads \subseteq configurations /\ configurations \subseteq Slots
  /\ bound \subseteq Slots /\ wasOn \subseteq Slots
  /\ {statePv, previousState, loopConfigured} \subseteq [Slots -> BOOLEAN]
  /\ turning \in [Slots -> {"none", "ON", "OFF"}] /\ reboot \in {"no", "waiting", "reset"}
  /\ queue \in [Slots -> Seq({"HEARTBEAT_EVENT", "RECONFIGURE_EVENT"})]
  /\ \A l \in Slots : Len(queue[l]) <= MaxQueue

\* If the ExecThread was not still busy when the shell gave up waiting, a start that
\* succeeds has bound the records of all slots and started all their LoopThreads, and
\* after an initialization that failed none is started.
StartedComplete ==
  ~timedOut =>
    /\ shell = "started" => bound = Slots /\ startedThreads = Slots
    /\ execDone => startedThreads = {}

\* "Stops all running loops and reboots the IOC" (Commands.cc): the loops that were ON
\* have been turned OFF when the IOC resets.
OffBeforeReset == reboot = "reset" => wasOn = {}

\* The reset comes, although stopLoops sends an event that no loop handles: it is the
\* next heartbeat that makes a loop look at its STATE.
ResetComes == reboot = "waiting" ~> reboot = "reset"
=============================================================================
