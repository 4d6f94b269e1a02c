----------------------------- MODULE LoopControl -----------------------------
(***************************************************************************)
(* How operators turn feedback loops ON and OFF and switch them between    *)
(* COMPUTE and ENABLE.  At heartbeats (and MEASUREMENT_EVENTs) each        *)
(* LoopThread compares the STATE and MODE PVs with those it handled last   *)
(* (LoopThread::checkMode) and then                                        *)
(*                                                                         *)
(*   STATE to ON   configures itself, then registers its devices, patterns *)
(*                 and queue under the mutexes of both singletons          *)
(*   STATE to OFF  undoes that in three critical sections                  *)
(*   MODE          rewrites the FBCK PVs under the PatternManager's mutex  *)
(*                                                                         *)
(* Every one of these can fail half-way, when a device does not connect,   *)
(* an algorithm rejects its configuration, or a PV cannot be written or    *)
(* read; what was done is then kept or undone as the code does, and the    *)
(* next heartbeat tries again.                                             *)
(*                                                                         *)
(* A critical section is one step once its mutexes are held, because all   *)
(* that it changes is protected by them or belongs to the LoopThread.      *)
(* POI PVs are constant ("pattern modifications are not allowed",          *)
(* LoopConfiguration::configurePatterns), PV names of the devices of one   *)
(* mask are distinct, and the devices of one POI stand or fall together.   *)
(***************************************************************************)
EXTENDS Integers, Sequences

CONSTANTS
  Loops,       \* the LoopThreads
  Masks,       \* pattern masks
  Pois,        \* Pois[l]: LoopConfiguration::_patternMasks, the POIs in use
  Broadcasts,  \* the loops with _bcastStatesPv set
  Free,        \* the owner of an unlocked mutex
  Collector,   \* the CollectorThread
  MaxRequests, \* bound: requests of operators
  MaxFailures  \* bound: failures of devices, PVs and algorithms

ASSUME ControlAssumption ==
  /\ Pois \in [Loops -> Seq(Masks) \ {<<>>}]
  /\ Broadcasts \subseteq Loops
  /\ Free \notin Loops /\ Collector \notin Loops /\ Free # Collector
  /\ MaxRequests \in Nat
  /\ MaxFailures \in Nat

VARIABLES
  statePv,    \* LoopThread::_enabledPv, STATE is ON
  modePv,     \* LoopThread::_modePv, MODE is ENABLE
  request,    \* the two as read by checkMode
  seen,       \* _previousState and _previousMode, ACT_STATE and ACT_MODE
  ready,      \* LoopThread::_configured
  configured, \* LoopConfiguration::_configured
  mode,       \* LoopConfiguration::_mode: actuators are written
  algorithm,  \* Loop::_algorithm of the first Loop: NULL, alive or deleted
  pc,         \* where each LoopThread is
  pmLock,     \* holder of PatternManager::_mutex
  mcLock,     \* holder of MeasurementCollector::_mutex
  receivers,  \* PatternManager::_generators: the receivers of each mask
  listeners,  \* the receivers of the CollectorThread
  selected,   \* the POIs whose Loop has a set of selected devices
  connected,  \* those whose devices have channels
  collected,  \* those whose devices are in the MeasurementCollector
  feedback,   \* the FBCK PVs of a loop's devices
  crashed,    \* a deleted algorithm was used, and the IOC is gone
  requests,   \* requests so far
  failures    \* failures so far

pvVars       == <<statePv, modePv, requests>>
threadVars   == <<request, seen, ready, configured, mode, algorithm>>
lockVars     == <<pmLock, mcLock>>
registryVars == <<receivers, listeners, collected>>
deviceVars   == <<selected, connected, feedback>>
vars == <<pvVars, threadVars, pc, lockVars, registryVars, deviceVars, crashed, failures>>

-----------------------------------------------------------------------------
PoisOf(l) == {<<l, i>> : i \in DOMAIN Pois[l]}

AllPois == UNION {PoisOf(l) : l \in Loops}

First(l) == <<l, 1>>

FbckOff == [measurements |-> FALSE, actuators |-> FALSE]

Init ==
  /\ statePv = [l \in Loops |-> FALSE]
  /\ modePv = [l \in Loops |-> TRUE]
  /\ request = [l \in Loops |-> [state |-> FALSE, mode |-> FALSE]]
  /\ seen = [l \in Loops |-> [state |-> TRUE, mode |-> FALSE]]
  /\ ready = [l \in Loops |-> FALSE]
  /\ configured = [l \in Loops |-> FALSE]
  /\ mode = [l \in Loops |-> FALSE]
  /\ algorithm = [l \in Loops |-> "none"]
  /\ pc = [l \in Loops |-> "idle"]
  /\ pmLock = Free /\ mcLock = Free
  /\ receivers = [m \in Masks |-> {}]
  /\ listeners = {}
  /\ selected = {} /\ connected = {} /\ collected = {}
  /\ feedback = [l \in Loops |-> FbckOff]
  /\ crashed = FALSE
  /\ requests = 0 /\ failures = 0

CanFail == failures < MaxFailures

Fail == CanFail /\ failures' = failures + 1

Succeed == UNCHANGED failures

-----------------------------------------------------------------------------
(* What operators and the CollectorThread do *)

SetState(l) ==
  /\ requests < MaxRequests
  /\ requests' = requests + 1
  /\ statePv' = [statePv EXCEPT ![l] = ~@]
  /\ UNCHANGED <<modePv, threadVars, pc, lockVars, registryVars, deviceVars, crashed, failures>>

SetMode(l) ==
  /\ requests < MaxRequests
  /\ requests' = requests + 1
  /\ modePv' = [modePv EXCEPT ![l] = ~@]
  /\ UNCHANGED <<statePv, threadVars, pc, lockVars, registryVars, deviceVars, crashed, failures>>

\* CollectorThread::processEvent holds the mutex while it reads the devices.
BeginUpdate ==
  /\ mcLock = Free
  /\ mcLock' = Collector
  /\ UNCHANGED <<pvVars, threadVars, pc, pmLock, registryVars, deviceVars, crashed, failures>>

EndUpdate ==
  /\ mcLock = Collector
  /\ mcLock' = Free
  /\ UNCHANGED <<pvVars, threadVars, pc, pmLock, registryVars, deviceVars, crashed, failures>>

-----------------------------------------------------------------------------
(* LoopThread::checkMode *)

\* Mutation: a failure is taken as done.
ReturnAlways(l, req, ok) == seen' = [seen EXCEPT ![l] = req]

\* The end of checkMode: previous and ACT values change only on success.
Return(l, req, ok) == seen' = [seen EXCEPT ![l] = IF ok THEN req ELSE @]

\* The end of a reconfigure.
Reconfigured(l, ok) ==
  /\ ready' = [ready EXCEPT ![l] = ok]
  /\ Return(l, request[l], ok)
  /\ pc' = [pc EXCEPT ![l] = "idle"]

\* A new STATE is handled by reconfigure, a new MODE alone by changeMode if the
\* last reconfigure succeeded.  A loop that is not configured has nothing to
\* undo, one that is needs no configuration.
CheckMode(l) ==
  LET req == [state |-> statePv[l], mode |-> modePv[l]] IN
  /\ pc[l] = "idle"
  /\ req # seen[l]
  /\ request' = [request EXCEPT ![l] = req]
  /\ IF req.state = seen[l].state
     THEN /\ UNCHANGED ready
          /\ IF ready[l]
             THEN pc' = [pc EXCEPT ![l] = "mode"] /\ UNCHANGED seen
             ELSE Return(l, req, TRUE) /\ UNCHANGED pc
     ELSE IF req.state = configured[l]
          THEN /\ ready' = [ready EXCEPT ![l] = TRUE]
               /\ Return(l, req, TRUE)
               /\ UNCHANGED pc
          ELSE /\ pc' = [pc EXCEPT ![l] = IF req.state THEN "configure" ELSE "off"]
               /\ UNCHANGED <<ready, seen>>
  /\ UNCHANGED <<pvVars, configured, mode, algorithm, lockVars, registryVars,
                 deviceVars, crashed, failures>>

-----------------------------------------------------------------------------
(* Algorithm::setFeedbackDevices and what is built from it *)

\* Writes the FBCK PVs of the actuators, then those of the measurements, of the
\* first Loop, until one write fails: the outcome is ok or not.  Devices with
\* no channel are skipped; without an algorithm it fails.  The call through a
\* deleted algorithm crashes, or finds the memory as it was.
SetFeedback(l, isConnected, alg, measurements, actuators, ok) ==
  IF alg = "none" THEN ~ok /\ Succeed /\ UNCHANGED <<feedback, crashed>>
  ELSE /\ \/ UNCHANGED crashed
          \/ alg = "deleted" /\ crashed' = TRUE
       /\ IF ok THEN Succeed ELSE isConnected /\ Fail
       /\ IF ~isConnected THEN UNCHANGED feedback
          ELSE \E fb \in [measurements : BOOLEAN, actuators : BOOLEAN] :
                 /\ feedback' = [feedback EXCEPT ![l] = fb]
                 /\ \/ ok /\ fb = [measurements |-> measurements, actuators |-> actuators]
                    \/ ~ok /\ fb = feedback[l]
                    \/ ~ok /\ fb = [feedback[l] EXCEPT !.actuators = actuators]

\* Mutation: _mode is assigned once the FBCK PVs are set.
ChangeModeLate(l, req, isConnected, alg, ok) ==
  \/ /\ req.state /\ req.mode /\ ~mode[l]
     /\ ~ok /\ Fail
     /\ UNCHANGED <<mode, feedback, crashed>>
  \/ /\ mode' = IF ok THEN [mode EXCEPT ![l] = req.mode] ELSE mode
     /\ SetFeedback(l, isConnected, alg, req.state, req.state /\ req.mode, ok)

\* LoopThread::changeMode with the devices isConnected.  From COMPUTE to ENABLE it
\* first reads the settings of the actuators, which can fail; _mode is set before
\* the FBCK PVs are.
ChangeMode(l, req, isConnected, alg, ok) ==
  \/ /\ req.state /\ req.mode /\ ~mode[l]
     /\ ~ok /\ Fail
     /\ UNCHANGED <<mode, feedback, crashed>>
  \/ /\ mode' = [mode EXCEPT ![l] = req.mode]
     /\ SetFeedback(l, isConnected, alg, req.state, req.state /\ req.mode, ok)

\* MODE has changed and STATE has not.
Mode(l) ==
  /\ pc[l] = "mode"
  /\ pmLock = Free
  /\ \E ok \in BOOLEAN :
       /\ ChangeMode(l, request[l], First(l) \in connected, algorithm[l], ok)
       /\ Return(l, request[l], ok)
  /\ pc' = [pc EXCEPT ![l] = "idle"]
  /\ UNCHANGED <<pvVars, request, ready, configured, algorithm, lockVars,
                 registryVars, selected, connected>>

-----------------------------------------------------------------------------
(* LoopThread::reconfigure to OFF *)

\* The mutex of the PatternManager is taken before that of the
\* MeasurementCollector wherever both are.
LockPatternManager(l) ==
  /\ pmLock = Free
  /\ pmLock' = l
  /\ \/ pc[l] = "off" /\ pc' = [pc EXCEPT ![l] = "disconnect"]
     \/ pc[l] = "on" /\ pc' = [pc EXCEPT ![l] = "register"]
     \/ pc[l] = "undo" /\ pc' = [pc EXCEPT ![l] = "disconnectUndo"]
  /\ UNCHANGED <<pvVars, threadVars, mcLock, registryVars, deviceVars, crashed, failures>>

\* LoopThread::disconnectDevices: if the FBCK PVs cannot be turned off, nothing is
\* disconnected.
Disconnect(l) ==
  \E ok \in BOOLEAN :
    /\ SetFeedback(l, First(l) \in connected, algorithm[l], FALSE, FALSE, ok)
    /\ LET gone == IF ok THEN PoisOf(l) \cap selected ELSE {} IN
       /\ connected' = connected \ gone
       /\ collected' = collected \ gone

DisconnectDevices(l) ==
  /\ pc[l] = "disconnect"
  /\ mcLock = Free
  /\ Disconnect(l)
  /\ pmLock' = Free
  /\ pc' = [pc EXCEPT ![l] = "removeListener"]
  /\ UNCHANGED <<pvVars, threadVars, mcLock, receivers, listeners, selected>>

\* Mutation: the MeasurementCollector stays locked.
RemoveListenerLocked(l) ==
  /\ pc[l] = "removeListener"
  /\ mcLock = Free
  /\ mcLock' = l
  /\ listeners' = listeners \ {l}
  /\ pc' = [pc EXCEPT ![l] = "removePatterns"]
  /\ UNCHANGED <<pvVars, threadVars, pmLock, receivers, collected, deviceVars, crashed, failures>>

RemoveListener(l) ==
  /\ pc[l] = "removeListener"
  /\ mcLock = Free
  /\ listeners' = listeners \ {l}
  /\ pc' = [pc EXCEPT ![l] = "removePatterns"]
  /\ UNCHANGED <<pvVars, threadVars, lockVars, receivers, collected, deviceVars, crashed, failures>>

MasksOf(l, pois) == {Pois[l][i] : i \in pois}

\* Mutation: the generator is removed whoever else receives from it.
WithoutGenerator(l) ==
  [m \in Masks |-> IF m \in MasksOf(l, DOMAIN Pois[l]) THEN {} ELSE receivers[m]]

\* PatternManager::remove, for all POIs.
WithoutReceiver(l) ==
  [m \in Masks |-> IF m \in MasksOf(l, DOMAIN Pois[l]) THEN receivers[m] \ {l} ELSE receivers[m]]

RemovePatterns(l) ==
  /\ pc[l] = "removePatterns"
  /\ pmLock = Free
  /\ receivers' = WithoutReceiver(l)
  /\ configured' = [configured EXCEPT ![l] = FALSE]
  /\ Reconfigured(l, TRUE)
  /\ UNCHANGED <<pvVars, request, mode, algorithm, lockVars, listeners, collected,
                 deviceVars, crashed, failures>>

-----------------------------------------------------------------------------
(* LoopThread::reconfigure to ON *)

\* The algorithms are deleted and created anew; Loop::_algorithm still points
\* to the old one.
Deleted(l) == IF algorithm[l] = "none" THEN "none" ELSE "deleted"

\* LoopConfiguration::configure.  It may fail before the algorithms are replaced
\* or, creating the channel for the states, after.
Configure(l) ==
  /\ pc[l] = "configure"
  /\ \/ /\ Succeed
        /\ algorithm' = [algorithm EXCEPT ![l] = Deleted(l)]
        /\ pc' = [pc EXCEPT ![l] = "on"]
     \/ /\ Fail
        /\ \/ UNCHANGED algorithm
           \/ l \in Broadcasts /\ algorithm' = [algorithm EXCEPT ![l] = Deleted(l)]
        /\ pc' = [pc EXCEPT ![l] = "undo"]
  /\ UNCHANGED <<pvVars, request, seen, ready, configured, mode, lockVars,
                 registryVars, deviceVars, crashed>>

\* The INSTALLED PV is NO: nothing is done.
NotInstalled(l) ==
  /\ pc[l] = "configure"
  /\ Fail
  /\ Reconfigured(l, FALSE)
  /\ UNCHANGED <<pvVars, request, configured, mode, algorithm, lockVars,
                 registryVars, deviceVars, crashed>>

\* A failed configure disconnects what may still be connected.
UndoConfigure(l) ==
  /\ pc[l] = "disconnectUndo"
  /\ mcLock = Free
  /\ Disconnect(l)
  /\ pmLock' = Free
  /\ Reconfigured(l, FALSE)
  /\ UNCHANGED <<pvVars, request, configured, mode, algorithm, mcLock, receivers,
                 listeners, selected>>

Registered(l, pois) ==
  receivers' = [m \in Masks |->
    IF m \in MasksOf(l, pois) THEN receivers[m] \cup {l} ELSE receivers[m]]

\* Mutation: POIs are counted from zero.
UptoFromZero(l, n) == {<<l, i>> : i \in 0 .. n}

Upto(l, n) == {<<l, i>> : i \in 1 .. n}

\* Loop::reconfigure fails for POI i.  If a device cannot be configured, the
\* devices of that POI are disconnected and forgotten; if the algorithm rejects
\* its configuration they stay.  The POIs before it stay registered.
RegisterFails(l) ==
  /\ pc[l] = "register"
  /\ mcLock = Free
  /\ Fail
  /\ \E i \in DOMAIN Pois[l], ofDevice \in BOOLEAN :
       LET done == IF ofDevice THEN i - 1 ELSE i IN
       /\ selected' = (selected \ {<<l, i>>}) \cup Upto(l, done)
       /\ connected' = (connected \ {<<l, i>>}) \cup Upto(l, done)
       /\ collected' = collected \cup Upto(l, done)
       /\ Registered(l, 1 .. i - 1)
       /\ algorithm' = [algorithm EXCEPT ![l] = IF done = 0 THEN @ ELSE "alive"]
  /\ pmLock' = Free
  /\ Reconfigured(l, FALSE)
  /\ UNCHANGED <<pvVars, request, configured, mode, mcLock, listeners, feedback, crashed>>

\* All POIs are reconfigured and registered, and changeMode is called.  If it
\* fails, the devices are disconnected and the patterns stay registered.
Register(l) ==
  /\ pc[l] = "register"
  /\ mcLock = Free
  /\ \E ok \in BOOLEAN :
       /\ ChangeMode(l, request[l], TRUE, "alive", ok)
       /\ selected' = selected \cup PoisOf(l)
       /\ connected' = IF ok THEN connected \cup PoisOf(l) ELSE connected \ PoisOf(l)
       /\ collected' = IF ok THEN collected \cup PoisOf(l) ELSE collected \ PoisOf(l)
       /\ configured' = [configured EXCEPT ![l] = ok]
       /\ listeners' = IF ok THEN listeners \cup {l} ELSE listeners
       /\ Reconfigured(l, ok)
  /\ Registered(l, DOMAIN Pois[l])
  /\ algorithm' = [algorithm EXCEPT ![l] = "alive"]
  /\ pmLock' = Free
  /\ UNCHANGED <<pvVars, request, mcLock>>

-----------------------------------------------------------------------------
LoopThread(l) ==
  \/ CheckMode(l) \/ Mode(l)
  \/ LockPatternManager(l)
  \/ DisconnectDevices(l) \/ RemoveListener(l) \/ RemovePatterns(l)
  \/ Configure(l) \/ NotInstalled(l) \/ UndoConfigure(l)
  \/ RegisterFails(l) \/ Register(l)

Next ==
  /\ ~crashed
  /\ \/ BeginUpdate \/ EndUpdate
     \/ \E l \in Loops : SetState(l) \/ SetMode(l) \/ LoopThread(l)

\* Heartbeats and threads go on.  The mutexes of EPICS are not fair, but the
\* CollectorThread holds its mutex for a short part of each fiducial period.
Fairness ==
  /\ WF_vars(~crashed /\ EndUpdate)
  /\ \A l \in Loops : SF_vars(~crashed /\ LoopThread(l))

Spec == Init /\ [][Next]_vars /\ Fairness

-----------------------------------------------------------------------------
(* Properties *)

Requests == [state : BOOLEAN, mode : BOOLEAN]

Pcs == {"idle", "mode", "off", "disconnect", "removeListener", "removePatterns",
        "configure", "undo", "disconnectUndo", "on", "register"}

\* Every variable has its type.
TypeOK ==
  /\ statePv \in [Loops -> BOOLEAN] /\ modePv \in [Loops -> BOOLEAN]
  /\ request \in [Loops -> Requests] /\ seen \in [Loops -> Requests]
  /\ ready \in [Loops -> BOOLEAN] /\ configured \in [Loops -> BOOLEAN]
  /\ mode \in [Loops -> BOOLEAN]
  /\ algorithm \in [Loops -> {"none", "alive", "deleted"}]
  /\ pc \in [Loops -> Pcs]
  /\ pmLock \in Loops \cup {Free} /\ mcLock \in Loops \cup {Free, Collector}
  /\ receivers \in [Masks -> SUBSET Loops] /\ listeners \subseteq Loops
  /\ selected \subseteq AllPois /\ connected \subseteq AllPois /\ collected \subseteq AllPois
  /\ feedback \in [Loops -> [measurements : BOOLEAN, actuators : BOOLEAN]]
  /\ crashed \in BOOLEAN
  /\ requests \in Nat /\ failures \in Nat

\* A loop that is configured, and not about to be turned off, gets every event
\* it needs and its devices are read, whatever other loops that share its
\* patterns are doing, whatever failed before.
Served(l) ==
  /\ PoisOf(l) \subseteq selected \cap connected \cap collected
  /\ \A i \in DOMAIN Pois[l] : l \in receivers[Pois[l][i]]
  /\ l \in listeners
  /\ algorithm[l] = "alive"
  /\ feedback[l].measurements

ConfiguredLoopsServed ==
  \A l \in Loops :
    /\ configured[l] /\ pc[l] \in {"idle", "mode", "off"} => Served(l)
    /\ ready[l] /\ seen[l].state /\ pc[l] = "idle" => configured[l]
    /\ ~configured[l] => l \notin listeners

\* Nothing of a loop is registered or connected, and its FBCK PVs are off.
Released(l) ==
  /\ PoisOf(l) \cap (connected \cup collected) = {}
  /\ \A i \in DOMAIN Pois[l] : l \notin receivers[Pois[l][i]]
  /\ l \notin listeners
  /\ feedback[l] = FbckOff

\* The table of FBCK PVs at LoopThread::changeMode, between transitions: a loop that works
\* in the mode it reports has them as STATE and MODE say, also if steps failed before.  A
\* loop that is not configured holds nothing as long as no step failed, and in any case
\* while it still reports the ON it starts with, before its first heartbeat.
ReportsHold ==
  \A l \in Loops : pc[l] = "idle" =>
    /\ configured[l] /\ mode[l] = seen[l].mode
         => feedback[l] = [measurements |-> TRUE, actuators |-> seen[l].mode]
    /\ ~configured[l] /\ (seen[l].state \/ failures = 0) => Released(l)

\* A LoopThread never stays in a transition: no deadlock between the two mutexes.
TransitionsEnd == \A l \in Loops : pc[l] # "idle" ~> pc[l] = "idle" \/ crashed

\* Nobody has to push "Start" to retry: while STATE is ON, a loop that was
\* reported OFF is configured sooner or later, whatever step of it fails first.
RetriedUntilConfigured ==
  \A l \in Loops :
    ~seen[l].state /\ statePv[l] ~> configured[l] \/ ~statePv[l] \/ crashed

\* "If STATE is ON and MODE is COMPUTE: ... do not set actuators" (LoopThread::
\* changeMode): once MODE is COMPUTE as requested and as reported, the loop is not
\* working in ENABLE.
ComputeDoesNotActuate ==
  \A l \in Loops :
    pc[l] = "idle" /\ configured[l] /\ ~modePv[l] /\ ~seen[l].mode => ~mode[l]

\* "The Algorithm used by this loop is retrieved from the LoopConfiguration"
\* (Loop::Loop): a Loop never calls an algorithm that its LoopConfiguration has
\* deleted.
NoDeletedAlgorithm == ~crashed
=============================================================================
