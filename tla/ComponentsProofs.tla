--------------------------- MODULE ComponentsProofs ---------------------------
(***************************************************************************)
(* Proofs about the controller around the loops: how it comes up and is    *)
(* stopped, with any slots, and what its records show and write, with any  *)
(* number of PVs of one name.  The last part puts the components together: *)
(* what is proved of each holds of their composition MCComponents.         *)
(***************************************************************************)
EXTENDS MCComponents, DeviceBufferProofs, DeviceChannelsProofs, AlgorithmProofs,
        PatternConfigurationProofs, SequenceTheorems, TLAPS

-----------------------------------------------------------------------------
(* Executive *)

\* What the shell may rely on once it gave up waiting in time.
StartInv ==
  /\ startedThreads \subseteq loopThreads
  /\ shell = "prompt" => execThread = "none"
  /\ proceed <=> execThread = "running"
  /\ execDone <=> execThread = "exited"
  /\ execThread \in {"sleeping", "running"} => loopThreads = Slots
  /\ shell \in {"prompt", "waiting", "iocInit"} => startedThreads = {}
  /\ shell \in {"prompt", "waiting"} => ~timedOut
  /\ ~timedOut =>
       /\ shell \in {"iocInit", "starting", "started"} => proceed
       /\ shell \in {"starting", "started"} => bound = Slots
       /\ shell = "started" => startedThreads = Slots
       /\ startedThreads # {} => proceed

\* A loop that is configured, or busy with it, has a LoopThread.
LoopsInv ==
  /\ \A l \in Slots : loopConfigured[l] \/ turning[l] # "none" => l \in startedThreads
  /\ \A l \in wasOn : loopConfigured[l]
  /\ reboot = "reset" => wasOn = {}

\* The types of what the loops have.
ControlTypes ==
  /\ {statePv, previousState, loopConfigured} \subseteq [Slots -> BOOLEAN]
  /\ turning \in [Slots -> {"none", "ON", "OFF"}] /\ reboot \in {"no", "waiting", "reset"}
  /\ wasOn \subseteq Slots
  /\ queue \in [Slots -> Seq({"HEARTBEAT_EVENT", "RECONFIGURE_EVENT"})]
  /\ \A l \in Slots : Len(queue[l]) <= MaxQueue

\* The types of what starts.
StartTypes ==
  /\ shell \in {"prompt", "waiting", "iocInit", "starting", "started", "failed"}
  /\ execThread \in {"none", "configuring", "sleeping", "running", "exited"}
  /\ fiducials \in {"disabled", "enabled", "coming"}
  /\ {execDone, proceed, timedOut} \subseteq BOOLEAN
  /\ loopThreads \subseteq configurations /\ configurations \subseteq Slots
  /\ bound \subseteq Slots

ExecInv == StartTypes /\ ControlTypes /\ StartInv /\ LoopsInv

LEMMA ExecTypes == ExecTypeOK <=> StartTypes /\ ControlTypes
  BY DEF ExecTypeOK, StartTypes, ControlTypes

LEMMA ExecInitInv == ExecInit => ExecInv
<1> SUFFICES ASSUME ExecInit PROVE ExecInv
  OBVIOUS
<1>1. queue \in [Slots -> Seq({"HEARTBEAT_EVENT", "RECONFIGURE_EVENT"})]
      /\ \A l \in Slots : Len(queue[l]) <= MaxQueue
  BY ExecAssumption DEF ExecInit
<1>2. ExecTypeOK
  BY <1>1 DEF ExecInit, ExecTypeOK
<1>3. StartInv
  BY DEF ExecInit, StartInv
<1>4. LoopsInv
  BY DEF ExecInit, LoopsInv
<1> QED  BY <1>2, <1>3, <1>4, ExecTypes DEF ExecInv

\* Sending leaves a queue of events within its size.
LEMMA SentBounded ==
  ASSUME NEW events \in Seq({"HEARTBEAT_EVENT", "RECONFIGURE_EVENT"}), Len(events) <= MaxQueue,
         NEW event \in {"HEARTBEAT_EVENT", "RECONFIGURE_EVENT"}
  PROVE  /\ Sent(events, event) \in Seq({"HEARTBEAT_EVENT", "RECONFIGURE_EVENT"})
         /\ Len(Sent(events, event)) <= MaxQueue
  BY ExecAssumption DEF Sent

\* The ExecThread and the shell: what they do leaves the loops alone.
StartStep ==
  \/ ConfigureSlot \/ CreateLoopThread \/ PreRunFails \/ PreRunEnds
  \/ StartExec \/ WaitEnds \/ IocInit \/ StartLoopThread \/ StartEnds

LEMMA StartStepInv ==
  ASSUME StartTypes, StartInv, StartStep
  PROVE  /\ StartTypes' /\ StartInv' /\ startedThreads \subseteq startedThreads'
         /\ UNCHANGED <<controlVars, reboot, wasOn>>
<1>1. CASE ConfigureSlot
  BY <1>1 DEF ConfigureSlot, StartTypes, StartInv
<1>2. CASE CreateLoopThread
  BY <1>2 DEF CreateLoopThread, StartTypes, StartInv
<1>3. CASE PreRunFails
  BY <1>3 DEF PreRunFails, StartTypes, StartInv
<1>4. CASE PreRunEnds
  BY <1>4 DEF PreRunEnds, StartTypes, StartInv
<1>5. CASE StartExec
  BY <1>5 DEF StartExec, StartTypes, StartInv
<1>6. CASE WaitEnds
  BY <1>6 DEF WaitEnds, StartTypes, StartInv
<1>7. CASE IocInit
  BY <1>7 DEF IocInit, StartTypes, StartInv
<1>8. CASE StartLoopThread
  BY <1>8 DEF StartLoopThread, StartTypes, StartInv
<1>9. CASE StartEnds
  BY <1>9 DEF StartEnds, StartTypes, StartInv
<1> QED  BY <1>1, <1>2, <1>3, <1>4, <1>5, <1>6, <1>7, <1>8, <1>9 DEF StartStep

\* What leaves the start alone keeps what is known of it.
LEMMA StartUnchanged ==
  ASSUME StartTypes, StartInv, UNCHANGED startVars
  PROVE  StartTypes' /\ StartInv' /\ UNCHANGED <<loopThreads, startedThreads>>
  BY DEF StartTypes, StartInv, startVars

LEMMA LoopsUnchanged ==
  ASSUME ControlTypes, LoopsInv, UNCHANGED <<controlVars, reboot, wasOn>>,
         startedThreads \subseteq startedThreads'
  PROVE  ControlTypes' /\ LoopsInv'
  BY DEF ControlTypes, LoopsInv, controlVars

\* The STATE of a loop is turned OFF, and its queue gets one more event.
LEMMA StopResult ==
  ASSUME ControlTypes, StopLoops
  PROVE  /\ statePv' \in [Slots -> BOOLEAN]
         /\ queue' \in [Slots -> Seq({"HEARTBEAT_EVENT", "RECONFIGURE_EVENT"})]
         /\ \A l \in Slots : Len(queue'[l]) <= MaxQueue
  BY SentBounded DEF ControlTypes, StopLoops

\* Events, records and commands: what they do leaves the start alone.
LoopStep ==
  \/ HeartBeat \/ ffStopLoops \/ ffReboot \/ BspReset
  \/ \E l \in Slots : ReceiveEvent(l) \/ Reconfigured(l) \/ OperatorSwitches(l)

LEMMA LoopStepInv ==
  ASSUME ControlTypes, StartInv, LoopsInv, reboot # "reset", LoopStep
  PROVE  ControlTypes' /\ LoopsInv' /\ UNCHANGED startVars
<1>1. CASE HeartBeat
  <2>1. /\ queue' \in [Slots -> Seq({"HEARTBEAT_EVENT", "RECONFIGURE_EVENT"})]
        /\ \A l \in Slots : Len(queue'[l]) <= MaxQueue
    BY <1>1, SentBounded DEF HeartBeat, ControlTypes
  <2> QED  BY <1>1, <2>1 DEF HeartBeat, ControlTypes, LoopsInv, startVars
<1>2. CASE ffStopLoops
  <2>1. UNCHANGED <<previousState, turning, loopConfigured, reboot, wasOn, startVars>> /\ StopLoops
    BY <1>2 DEF ffStopLoops, StopLoops
  <2> QED  BY <2>1, StopResult DEF ControlTypes, LoopsInv, startVars
<1>3. CASE ffReboot
  <2>1. /\ UNCHANGED <<previousState, turning, loopConfigured, startVars>> /\ StopLoops
        /\ reboot' = "waiting" /\ wasOn' = {l \in Slots : loopConfigured[l]}
    BY <1>3 DEF ffReboot, StopLoops
  <2> QED  BY <2>1, StopResult DEF ControlTypes, LoopsInv, startVars
<1>4. CASE BspReset
  <2>1. wasOn = {}
    BY <1>4 DEF BspReset, AreLoopsOff, LoopsInv, StartInv, ControlTypes
  <2> QED  BY <1>4, <2>1 DEF BspReset, ControlTypes, LoopsInv, controlVars, startVars
<1>5. ASSUME NEW l \in Slots, ReceiveEvent(l)
      PROVE  ControlTypes' /\ LoopsInv' /\ UNCHANGED startVars
  <2>1. /\ queue' \in [Slots -> Seq({"HEARTBEAT_EVENT", "RECONFIGURE_EVENT"})]
        /\ \A k \in Slots : Len(queue'[k]) <= MaxQueue
    <3>1. /\ Tail(queue[l]) \in Seq({"HEARTBEAT_EVENT", "RECONFIGURE_EVENT"})
          /\ Len(Tail(queue[l])) <= MaxQueue
      BY <1>5, ExecAssumption DEF ReceiveEvent, ControlTypes
    <3> QED  BY <1>5, <3>1 DEF ReceiveEvent, ControlTypes
  <2>2. /\ turning' \in [Slots -> {"none", "ON", "OFF"}]
        /\ \A k \in Slots \ {l} : turning'[k] = turning[k]
        /\ l \in startedThreads
    BY <1>5 DEF ReceiveEvent, ControlTypes
  <2> QED  BY <1>5, <2>1, <2>2 DEF ReceiveEvent, ControlTypes, LoopsInv, startVars
<1>6. ASSUME NEW l \in Slots, Reconfigured(l)
      PROVE  ControlTypes' /\ LoopsInv' /\ UNCHANGED startVars
  <2>1. l \in startedThreads
    BY <1>6 DEF Reconfigured, LoopsInv
  <2>2. /\ previousState' \in [Slots -> BOOLEAN] /\ loopConfigured' \in [Slots -> BOOLEAN]
        /\ turning' \in [Slots -> {"none", "ON", "OFF"}]
        /\ \A k \in Slots \ {l} : turning'[k] = turning[k] /\ loopConfigured'[k] = loopConfigured[k]
    BY <1>6 DEF Reconfigured, ControlTypes
  <2>3. turning[l] = "ON" => loopConfigured'[l] = loopConfigured[l] \/ loopConfigured'[l] = TRUE
    BY <1>6 DEF Reconfigured, ControlTypes
  <2>4. wasOn' = IF turning[l] = "OFF" THEN wasOn \ {l} ELSE wasOn
    BY <1>6 DEF Reconfigured
  <2>5. turning[l] \in {"ON", "OFF"}
    BY <1>6 DEF Reconfigured, ControlTypes
  <2>6. UNCHANGED <<startVars, statePv, queue, reboot>>
    BY <1>6 DEF Reconfigured
  <2>7. \A k \in wasOn' : loopConfigured'[k]
    BY <2>2, <2>3, <2>4, <2>5 DEF LoopsInv, ControlTypes
  <2>8. \A k \in Slots : loopConfigured'[k] \/ turning'[k] # "none" => k \in startedThreads'
    BY <2>1, <2>2, <2>6 DEF LoopsInv, startVars
  <2> QED  BY <2>2, <2>4, <2>6, <2>7, <2>8 DEF ControlTypes, LoopsInv
<1>7. ASSUME NEW l \in Slots, OperatorSwitches(l)
      PROVE  ControlTypes' /\ LoopsInv' /\ UNCHANGED startVars
  BY <1>7 DEF OperatorSwitches, ControlTypes, LoopsInv, startVars
<1> QED  BY <1>1, <1>2, <1>3, <1>4, <1>5, <1>6, <1>7 DEF LoopStep

LEMMA ExecInvariant == ExecSpec => []ExecInv
<1>1. ASSUME ExecInv, ExecNext
      PROVE  ExecInv'
  <2>1. CASE StartStep
    BY <1>1, <2>1, StartStepInv, LoopsUnchanged DEF ExecInv
  <2>2. CASE LoopStep
    BY <1>1, <2>2, LoopStepInv, StartUnchanged DEF ExecInv, ExecNext
  <2> QED  BY <1>1, <2>1, <2>2 DEF ExecNext, StartStep, LoopStep
<1>2. ExecInv /\ UNCHANGED execVars => ExecInv'
  BY StartUnchanged, LoopsUnchanged DEF ExecInv, execVars, startVars, controlVars
<1> QED  BY <1>1, <1>2, ExecInitInv, PTL DEF ExecSpec

\* Threads, loops and queues of events are what they can be, with no more events in a
\* queue than it holds (ExecTypeOK, a part of the types of run components).
THEOREM ExecTypeCorrect == ExecSpec => []ExecTypeOK
<1>1. ExecInv => ExecTypeOK
  BY ExecTypes DEF ExecInv
<1> QED  BY <1>1, ExecInvariant, PTL

\* A start that succeeds in time has bound the records and started the LoopThreads of all
\* slots, and one whose initialization failed none (ExecThread::start, StartedComplete of
\* run components).
THEOREM StartIsComplete == ExecSpec => []StartedComplete
<1>1. ExecInv => StartedComplete
  BY DEF ExecInv, StartInv, StartedComplete
<1> QED  BY <1>1, ExecInvariant, PTL

\* When the IOC resets, the loops that were ON have been turned OFF (ffReboot,
\* OffBeforeReset of run components).
THEOREM ResetAfterOff == ExecSpec => []OffBeforeReset
<1>1. ExecInv => OffBeforeReset
  BY DEF ExecInv, LoopsInv, OffBeforeReset
<1> QED  BY <1>1, ExecInvariant, PTL

-----------------------------------------------------------------------------
(* RecordSupport *)

\* Where a record, its PVs and the setter are in their lives.
BindingInv ==
  /\ recordType = "none" => dpvt = "unbound"
  /\ dpvt \in {"vector", "first"} => instances # <<>>
  /\ recordScan = "own" => recordType \in FirstInputs /\ dpvt = "first"
  /\ recordScan = "loop" => recordType = "longin" /\ dpvt = "vector"
  /\ fresh \/ scanRequested => recordScan \in {"own", "loop"}
  /\ putNext # 0 \/ lastPut # <<>> => recordType \in Outputs
  /\ putNext # 0 => lastPut # <<>>
  /\ setter.stage # "idle" => setter.instance \in DOMAIN instances
  /\ setter.stage = "assigning" => recordType \in TextTypes /\ (setter.instance = 1 => ~fresh)

\* A put has reached the instances before the next one, but those assigned since.
PutInv ==
  lastPut # <<>> =>
    \A i \in DOMAIN instances \ assigned :
      putNext = 0 \/ i < putNext => instances[i] = AsWritten(recordType, lastPut)

RecordInv == RecordTypeOK /\ BindingInv /\ PutInv /\ ReadbackCurrent

LEMMA RecordInitInv == RecordInit => RecordInv
<1> SUFFICES ASSUME RecordInit PROVE RecordInv
  OBVIOUS
<1>1. /\ instances = <<>> /\ instances \in Seq(Seq(Nat)) /\ DOMAIN instances = {}
      /\ recordVal \in Seq(Nat) /\ lastPut \in Seq(Nat)
      /\ setter \in [stage : {"idle", "assigning", "assigned"}, instance : Nat, value : Seq(Nat)]
  BY DEF RecordInit, NotSetting
<1>2. RecordTypeOK
  <2>1. {scanRequested, fresh} \subseteq BOOLEAN
    BY DEF RecordInit
  <2>2. putNext \in 0 .. Len(instances) /\ assigned \subseteq DOMAIN instances /\ pvScans \subseteq {1}
    BY <1>1 DEF RecordInit
  <2>3. /\ recordType \in RecordTypes \cup {"none"}
        /\ dpvt \in {"unbound", "vector", "first", "nothing"}
        /\ recordScan \in {"unset", "own", "loop", "null"}
    BY DEF RecordInit
  <2> QED  BY <1>1, <2>1, <2>2, <2>3 DEF RecordTypeOK
<1>3. BindingInv
  BY <1>1 DEF RecordInit, BindingInv, NotSetting
<1> QED  BY <1>2, <1>3 DEF RecordInv, RecordInit, PutInv, ReadbackCurrent

\* The kinds of steps, each for some types of records.
BindsStep ==
  \/ \E type \in RecordTypes \ FirstInputs : BindsVector(type)
  \/ \E type \in FirstInputs : BindsFirst(type)
  \/ InitWo

ScansStep == IointLongin \/ \E type \in FirstInputs : ScansOwn(type)

PutStep ==
  \/ \E v \in ValuesOf(recordType) : RecordPut(v)
  \/ \E type \in Outputs : WritesInstance(type)

CodeStep ==
  \/ \E i \in DOMAIN instances, v \in ValuesOf(recordType) \ {<<>>} : CodeAssigns(i, v)
  \/ CodeAssigned \/ CodeRequests \/ LoopRequests

ReadsStep ==
  \/ \E type \in {"ai", "bi", "wi", "longin"} : ReadsAs(type, FirstInstance)
  \/ ReadStringin \/ ReadMbbi

LEMMA RecordSteps ==
  RecordNext => LoadRecord \/ InsertInstance \/ BindsStep \/ ScansStep \/ PutStep \/ CodeStep
                \/ ReadsStep
<1>1. InitBo \/ InitAo \/ InitCalcout \/ InitStringout \/ InitLongout \/ InitMbbo \/ InitLongin
        => BindsStep
  BY DEF InitBo, InitAo, InitCalcout, InitStringout, InitLongout, InitMbbo, InitLongin,
         BindsStep, RecordTypes, Outputs, VectorInputs, FirstInputs
<1>2. InitAi \/ InitStringin \/ InitBi \/ InitMbbi \/ InitWi \/ InitWo => BindsStep
  BY DEF InitAi, InitStringin, InitBi, InitMbbi, InitWi, BindsStep, FirstInputs
<1>3. IointAi \/ IointStringin \/ IointBi \/ IointWi \/ IointMbbi \/ IointLongin => ScansStep
  BY DEF IointAi, IointStringin, IointBi, IointWi, IointMbbi, ScansStep, FirstInputs
<1>4. WriteBo \/ WriteAo \/ WriteCalcout \/ WriteStringout \/ WriteWo \/ WriteLongout \/ WriteMbbo
        => PutStep
  BY DEF WriteBo, WriteAo, WriteCalcout, WriteStringout, WriteWo, WriteLongout, WriteMbbo,
         PutStep, Outputs
<1>5. ReadAi \/ ReadBi \/ ReadWi \/ ReadLongin \/ ReadStringin \/ ReadMbbi => ReadsStep
  BY DEF ReadAi, ReadBi, ReadWi, ReadLongin, ReadsStep
<1> QED  BY <1>1, <1>2, <1>3, <1>4, <1>5 DEF RecordNext, PutStep, CodeStep

\* One instance is assigned.
LEMMA AssignInstance ==
  ASSUME NEW s \in Seq(Seq(Nat)), NEW i, NEW v \in Seq(Nat)
  PROVE  LET t == [s EXCEPT ![i] = v] IN
         /\ t \in Seq(Seq(Nat)) /\ DOMAIN t = DOMAIN s /\ Len(t) = Len(s)
         /\ \A j \in DOMAIN s : t[j] = IF j = i THEN v ELSE s[j]
<1>1. CASE i \in 1 .. Len(s)
  BY <1>1, ExceptSeq
<1>2. CASE i \notin 1 .. Len(s)
  <2>1. [s EXCEPT ![i] = v] = s
    BY <1>2
  <2> QED  BY <1>2, <2>1
<1> QED  BY <1>1, <1>2

LEMMA RecordValues ==
  ASSUME NEW v \in ValuesOf(recordType)
  PROVE  /\ v \in Seq(Nat) /\ \A type : AsWritten(type, v) \in Seq(Nat)
<1>1. <<0>> \in Seq(Nat) /\ <<1>> \in Seq(Nat) /\ <<2>> \in Seq(Nat)
  OBVIOUS
<1> QED  BY <1>1, RecordAssumption DEF ValuesOf, AsWritten

LEMMA BindsInv ==
  ASSUME RecordInv, BindsStep
  PROVE  RecordInv'
<1>1. recordType # "none" /\ dpvt = "unbound" /\ ~fresh /\ ~scanRequested /\ recordScan \notin {"own", "loop"}
  BY DEF RecordInv, BindingInv, BindsStep, BindsVector, BindsFirst, InitWo, RecordTypes, Outputs,
         VectorInputs, FirstInputs
<1>2. /\ dpvt' \in {"nothing", "vector", "first"} /\ (dpvt' # "nothing" => instances # <<>>)
      /\ pvScans' \subseteq {1}
      /\ UNCHANGED <<recordType, recordScan, recordVal, putNext, lastPut, setter,
                     scanRequested, fresh>>
  BY DEF BindsStep, BindsVector, BindsFirst, InitWo, BindFails, RecordInv, RecordTypeOK
<1>3. \/ UNCHANGED <<instances, assigned>>
      \/ /\ instances' \in {instances, [i \in DOMAIN instances |-> <<>>]}
         /\ assigned' = assigned \cup DOMAIN instances
  BY DEF BindsStep, BindsVector, BindsFirst, InitWo
<1>4. /\ instances' \in Seq(Seq(Nat)) /\ DOMAIN instances' = DOMAIN instances
      /\ Len(instances') = Len(instances) /\ assigned' \subseteq DOMAIN instances'
  <2>1. CASE instances' = [i \in DOMAIN instances |-> <<>>]
    <3>1. instances' \in [1 .. Len(instances) -> Seq(Nat)] /\ Len(instances) \in Nat
      BY <2>1 DEF RecordInv, RecordTypeOK
    <3>2. instances' \in Seq(Seq(Nat)) /\ Len(instances') = Len(instances)
      BY <3>1, SeqDef
    <3> QED  BY <1>3, <2>1, <3>2 DEF RecordInv, RecordTypeOK
  <2>2. CASE instances' = instances
    BY <1>3, <2>2 DEF RecordInv, RecordTypeOK
  <2> QED  BY <1>3, <2>1, <2>2
<1>5. RecordTypeOK'
  BY <1>2, <1>4 DEF RecordInv, RecordTypeOK
<1>6. BindingInv'
  BY <1>1, <1>2, <1>4 DEF RecordInv, RecordTypeOK, BindingInv
<1>7. PutInv'
  BY <1>2, <1>3, <1>4 DEF RecordInv, PutInv, RecordTypeOK
<1> QED  BY <1>1, <1>2, <1>5, <1>6, <1>7 DEF RecordInv, ReadbackCurrent

LEMMA ScansInv ==
  ASSUME RecordInv, ScansStep
  PROVE  RecordInv'
<1>1. /\ recordScan' \in {"own", "loop", "null"}
      /\ recordScan' = "own" => recordType \in FirstInputs /\ dpvt = "first"
      /\ recordScan' = "loop" => recordType = "longin" /\ dpvt = "vector"
      /\ recordScan = "unset"
      /\ UNCHANGED <<recordType, instances, pvScans, dpvt, recordVal, putNext, lastPut,
                     assigned, setter, scanRequested, fresh>>
  BY DEF ScansStep, IointLongin, ScansOwn
<1> QED  BY <1>1 DEF RecordInv, RecordTypeOK, BindingInv, PutInv, ReadbackCurrent

LEMMA PutsInv ==
  ASSUME RecordInv, PutStep
  PROVE  RecordInv'
<1>1. recordType \in Outputs
  BY DEF PutStep, RecordPut, WritesInstance
<1>2. ~fresh /\ ~scanRequested
  BY <1>1 DEF RecordInv, BindingInv, Outputs, FirstInputs
<1>3. ASSUME NEW v \in ValuesOf(recordType), RecordPut(v)
      PROVE  RecordInv'
  <2>1. v \in Seq(Nat)
    BY RecordValues
  <2>2. /\ recordVal' = v
        /\ \/ dpvt = "vector" /\ v # <<>> /\ putNext' = 1 /\ lastPut' = v
           \/ UNCHANGED <<putNext, lastPut>>
        /\ UNCHANGED <<recordType, instances, pvScans, dpvt, recordScan, assigned, setter,
                       scanRequested, fresh>>
    BY <1>3 DEF RecordPut
  <2>3. dpvt = "vector" => 1 \in 0 .. Len(instances)
    BY DEF RecordInv, RecordTypeOK, BindingInv
  <2>4. RecordTypeOK'
    BY <2>1, <2>2, <2>3 DEF RecordInv, RecordTypeOK
  <2>5. BindingInv'
    BY <1>1, <2>2 DEF RecordInv, BindingInv
  <2>6. PutInv'
    BY <2>2 DEF RecordInv, RecordTypeOK, PutInv
  <2> QED  BY <1>2, <2>2, <2>4, <2>5, <2>6 DEF RecordInv, ReadbackCurrent
<1>4. ASSUME NEW type \in Outputs, WritesInstance(type)
      PROVE  RecordInv'
  <2>1. /\ recordType = type /\ putNext # 0 /\ lastPut # <<>>
        /\ instances' = [instances EXCEPT ![putNext] = AsWritten(recordType, lastPut)]
        /\ assigned' = assigned \ {putNext}
        /\ putNext' = IF putNext < Len(instances) THEN putNext + 1 ELSE 0
        /\ UNCHANGED <<recordType, pvScans, dpvt, recordScan, recordVal, lastPut, setter,
                       scanRequested, fresh>>
    BY <1>4 DEF WritesInstance, RecordInv, BindingInv
  <2>2. AsWritten(recordType, lastPut) \in Seq(Nat)
    <3>1. lastPut \in Seq(Nat) /\ <<0>> \in Seq(Nat) /\ <<1>> \in Seq(Nat)
      BY DEF RecordInv, RecordTypeOK
    <3> QED  BY <3>1 DEF AsWritten
  <2>3. /\ instances' \in Seq(Seq(Nat)) /\ DOMAIN instances' = DOMAIN instances
        /\ Len(instances') = Len(instances)
        /\ \A j \in DOMAIN instances :
             instances'[j] = IF j = putNext THEN AsWritten(recordType, lastPut) ELSE instances[j]
    BY <2>1, <2>2, AssignInstance DEF RecordInv, RecordTypeOK
  <2>4. DOMAIN instances = 1 .. Len(instances) /\ Len(instances) \in Nat
    BY DEF RecordInv, RecordTypeOK
  <2>5. RecordTypeOK'
    BY <2>1, <2>3, <2>4 DEF RecordInv, RecordTypeOK
  <2>6. BindingInv'
    <3>1. instances # <<>> => instances' # <<>>
      BY <2>3, <2>4
    <3> QED  BY <1>1, <1>2, <2>1, <2>3, <3>1 DEF RecordInv, BindingInv
  <2>7. PutInv'
    <3>1. putNext \in 1 .. Len(instances)
      BY <2>1, <2>4 DEF RecordInv, RecordTypeOK
    <3>2. ASSUME NEW i \in DOMAIN instances' \ assigned', putNext' = 0 \/ i < putNext'
          PROVE  instances'[i] = AsWritten(recordType', lastPut')
      <4>1. CASE i = putNext
        BY <2>1, <2>3, <3>2, <4>1
      <4>2. CASE i # putNext
        <5>1. i \in DOMAIN instances \ assigned
          BY <2>1, <2>3, <3>2, <4>2
        <5>2. i < putNext
          BY <2>1, <2>4, <3>1, <3>2, <4>2, <5>1
        <5> QED  BY <2>1, <2>3, <4>2, <5>1, <5>2 DEF RecordInv, PutInv
      <4> QED  BY <4>1, <4>2
    <3> QED  BY <3>2 DEF PutInv
  <2> QED  BY <1>2, <2>1, <2>5, <2>6, <2>7 DEF RecordInv, ReadbackCurrent
<1> QED  BY <1>3, <1>4 DEF PutStep

\* Assigning an instance, as a put goes on.
LEMMA AssignsInv ==
  ASSUME RecordInv, NEW i \in DOMAIN instances, NEW v \in Seq(Nat),
         instances' = [instances EXCEPT ![i] = v], assigned' = assigned \cup {i},
         i = 1 => ~fresh', ~fresh => ~fresh',
         UNCHANGED <<recordType, pvScans, dpvt, recordScan, recordVal, putNext, lastPut,
                     scanRequested>>,
         setter' \in [stage : {"idle", "assigning", "assigned"}, instance : Nat, value : Seq(Nat)],
         setter'.instance = i, setter'.stage = "assigning" => recordType \in TextTypes,
         fresh' \in BOOLEAN
  PROVE  RecordInv'
<1>1. /\ instances' \in Seq(Seq(Nat)) /\ DOMAIN instances' = DOMAIN instances
      /\ Len(instances') = Len(instances)
      /\ \A j \in DOMAIN instances : instances'[j] = IF j = i THEN v ELSE instances[j]
  BY AssignInstance DEF RecordInv, RecordTypeOK
<1>2. DOMAIN instances = 1 .. Len(instances) /\ Len(instances) \in Nat
  BY DEF RecordInv, RecordTypeOK
<1>3. RecordTypeOK'
  BY <1>1, <1>2 DEF RecordInv, RecordTypeOK
<1>4. BindingInv'
  <2>1. instances # <<>> => instances' # <<>>
    BY <1>1, <1>2
  <2> QED  BY <1>1, <2>1 DEF RecordInv, BindingInv
<1>5. PutInv'
  BY <1>1 DEF RecordInv, PutInv
<1>6. ReadbackCurrent'
  <2>1. CASE fresh'
    <3>1. fresh /\ i # 1
      BY <2>1
    <3>2. instances # <<>>
      BY <3>1 DEF RecordInv, BindingInv
    <3>3. instances'[1] = instances[1]
      BY <1>1, <1>2, <3>1, <3>2
    <3> QED  BY <3>1, <3>3 DEF RecordInv, ReadbackCurrent
  <2> QED  BY <2>1 DEF ReadbackCurrent
<1> QED  BY <1>3, <1>4, <1>5, <1>6 DEF RecordInv

LEMMA CodeInv ==
  ASSUME RecordInv, CodeStep
  PROVE  RecordInv'
<1>1. ASSUME NEW i \in DOMAIN instances, NEW v \in ValuesOf(recordType), CodeAssigns(i, v)
      PROVE  RecordInv'
  <2> DEFINE text == recordType \in TextTypes
             w == IF text THEN <<0>> ELSE v
  <2>1. w \in Seq(Nat) /\ v \in Seq(Nat)
    <3>1. <<0>> \in Seq(Nat) /\ v \in Seq(Nat)
      BY RecordValues
    <3> QED  BY <3>1
  <2>2. /\ instances' = [instances EXCEPT ![i] = w]
        /\ setter' = [stage |-> IF text THEN "assigning" ELSE "assigned", instance |-> i, value |-> v]
        /\ assigned' = assigned \cup {i}
        /\ fresh' = (fresh /\ i # 1)
        /\ UNCHANGED <<recordType, pvScans, dpvt, recordScan, recordVal, putNext, lastPut,
                       scanRequested>>
    BY <1>1 DEF CodeAssigns
  <2>3. i \in Nat
    BY DEF RecordInv, RecordTypeOK
  <2>4. /\ setter' \in [stage : {"idle", "assigning", "assigned"}, instance : Nat, value : Seq(Nat)]
        /\ setter'.instance = i /\ (setter'.stage = "assigning" => text)
    BY <2>1, <2>2, <2>3
  <2>5. (i = 1 => ~fresh') /\ (~fresh => ~fresh') /\ fresh' \in BOOLEAN
    BY <2>2
  <2> HIDE DEF w, text
  <2> QED  BY <2>1, <2>2, <2>4, <2>5, AssignsInv DEF text
<1>2. CASE CodeAssigned
  <2>1. /\ setter.stage = "assigning" /\ setter.instance \in DOMAIN instances
        /\ recordType \in TextTypes /\ (setter.instance = 1 => ~fresh)
        /\ setter \in [stage : {"idle", "assigning", "assigned"}, instance : Nat, value : Seq(Nat)]
    BY <1>2 DEF CodeAssigned, RecordInv, BindingInv, RecordTypeOK
  <2>2. /\ setter' \in [stage : {"idle", "assigning", "assigned"}, instance : Nat, value : Seq(Nat)]
        /\ setter'.instance = setter.instance /\ setter'.stage = "assigned"
    BY <1>2, <2>1 DEF CodeAssigned
  <2>3. fresh' = fresh /\ fresh' \in BOOLEAN
    BY <1>2 DEF CodeAssigned, RecordInv, RecordTypeOK
  <2>4. /\ instances' = [instances EXCEPT ![setter.instance] = setter.value]
        /\ assigned' = assigned \cup {setter.instance}
        /\ UNCHANGED <<recordType, pvScans, dpvt, recordScan, recordVal, putNext, lastPut,
                       scanRequested>>
    BY <1>2 DEF CodeAssigned
  <2> DEFINE i == setter.instance
             v == setter.value
  <2>5. /\ i \in DOMAIN instances /\ v \in Seq(Nat) /\ setter'.instance = i
        /\ instances' = [instances EXCEPT ![i] = v] /\ assigned' = assigned \cup {i}
        /\ (i = 1 => ~fresh') /\ (~fresh => ~fresh') /\ setter'.stage # "assigning"
    BY <2>1, <2>2, <2>3, <2>4
  <2> HIDE DEF i, v
  <2> QED  BY <2>2, <2>3, <2>4, <2>5, AssignsInv
<1>3. CASE CodeRequests
  <2>1. /\ setter' = NotSetting
        /\ \/ scanRequested' = TRUE /\ fresh' = TRUE /\ recordScan = "own"
           \/ UNCHANGED <<scanRequested, fresh>>
        /\ UNCHANGED <<recordType, instances, pvScans, dpvt, recordScan, recordVal, putNext,
                       lastPut, assigned>>
    BY <1>3 DEF CodeRequests
  <2>2. setter' \in [stage : {"idle", "assigning", "assigned"}, instance : Nat, value : Seq(Nat)]
        /\ setter'.stage = "idle"
    BY <2>1 DEF NotSetting
  <2>3. RecordTypeOK'
    BY <2>1, <2>2 DEF RecordInv, RecordTypeOK
  <2> QED  BY <2>1, <2>2, <2>3 DEF RecordInv, BindingInv, PutInv, ReadbackCurrent
<1>4. CASE LoopRequests
  <2>1. recordType \notin TextTypes
    BY <1>4 DEF LoopRequests, RecordInv, BindingInv, TextTypes
  <2>2. /\ scanRequested' = TRUE /\ fresh' = TRUE /\ recordScan = "loop"
        /\ UNCHANGED <<recordType, instances, pvScans, dpvt, recordScan, recordVal, putNext,
                       lastPut, assigned, setter>>
    BY <1>4 DEF LoopRequests
  <2>3. RecordTypeOK'
    BY <2>2 DEF RecordInv, RecordTypeOK
  <2> QED  BY <2>1, <2>2, <2>3 DEF RecordInv, BindingInv, PutInv, ReadbackCurrent
<1> QED  BY <1>1, <1>2, <1>3, <1>4 DEF CodeStep

\* string::copy: the text, then what is longer in the record.
LEMMA CopiedText ==
  ASSUME NEW s \in Seq(Nat), NEW t \in Seq(Nat)
  PROVE  LET u == s \o SubSeq(t, Len(s) + 1, Len(t)) IN
         u \in Seq(Nat) /\ SubSeq(u, 1, Len(s)) = s
<1> DEFINE r == SubSeq(t, Len(s) + 1, Len(t))
<1>1. \A i \in Len(s) + 1 .. Len(t) : t[i] \in Nat
  OBVIOUS
<1>2. Len(s) + 1 \in Int /\ Len(t) \in Int
  OBVIOUS
<1>3. r \in Seq(Nat)
  BY <1>1, <1>2, SubSeqProperties
<1> HIDE DEF r
<1>4. s \o r \in Seq(Nat)
  BY <1>3
<1>5. SubSeq(s \o r, 1, Len(s)) = s
  <2>1. CASE Len(s) = 0
    <3>1. SubSeq(s \o r, 1, Len(s)) = <<>>
      BY <2>1, SubSeqEmpty
    <3> QED  BY <2>1, <3>1
  <2>2. CASE Len(s) # 0
    <3>1. 1 \in 1 .. Len(s) /\ Len(s) \in 1 .. Len(s)
      BY <2>2
    <3>2. SubSeq(s \o r, 1, Len(s)) = SubSeq(s, 1, Len(s))
      BY <1>3, <3>1, SubSeqOfConcat1
    <3> QED  BY <3>2, SubSeqFull
  <2> QED  BY <2>1, <2>2
<1> QED  BY <1>4, <1>5 DEF r

LEMMA ReadsInv ==
  ASSUME RecordInv, ReadsStep
  PROVE  RecordInv'
<1>1. /\ scanRequested /\ recordScan \in {"own", "loop"}
      /\ recordType \in FirstInputs \cup VectorInputs /\ instances # <<>>
      /\ UNCHANGED <<recordType, instances, pvScans, dpvt, recordScan, putNext, lastPut, assigned,
                     setter, fresh>>
      /\ scanRequested' = FALSE
  BY DEF ReadsStep, ReadStringin, ReadMbbi, ReadsAs, RecordInv, BindingInv, VectorInputs
<1>2. FirstInstance \in Seq(Nat) /\ FirstInstance = instances[1] /\ recordVal \in Seq(Nat)
  BY <1>1 DEF RecordInv, RecordTypeOK, FirstInstance
<1>3. /\ recordVal' \in Seq(Nat)
      /\ recordType # "mbbi" =>
           IF recordType = "stringin" THEN SubSeq(recordVal', 1, Len(FirstInstance)) = FirstInstance
           ELSE recordVal' = FirstInstance
  <2>1. CASE \E type \in {"ai", "bi", "wi", "longin"} : ReadsAs(type, FirstInstance)
    BY <1>2, <2>1 DEF ReadsAs
  <2>2. CASE ReadStringin
    BY <1>2, <2>2, CopiedText DEF ReadStringin, ReadsAs
  <2>3. CASE ReadMbbi
    BY <2>3 DEF ReadMbbi, ReadsAs
  <2> QED  BY <2>1, <2>2, <2>3 DEF ReadsStep
<1>4. RecordTypeOK'
  BY <1>1, <1>3 DEF RecordInv, RecordTypeOK
<1>5. BindingInv' /\ PutInv'
  BY <1>1 DEF RecordInv, BindingInv, PutInv
<1>6. ReadbackCurrent'
  BY <1>1, <1>2, <1>3 DEF ReadbackCurrent
<1> QED  BY <1>4, <1>5, <1>6 DEF RecordInv

LEMMA RecordInvariant == RecordSpec => []RecordInv
<1>1. ASSUME RecordInv, LoadRecord
      PROVE  RecordInv'
  <2>1. /\ recordType = "none" /\ recordType' \in RecordTypes
        /\ dpvt = "unbound" /\ lastPut = <<>> /\ putNext = 0 /\ setter.stage # "assigning"
        /\ ~fresh /\ ~scanRequested /\ recordScan \notin {"own", "loop"}
    BY <1>1 DEF LoadRecord, RecordInv, BindingInv, Outputs, FirstInputs, TextTypes
  <2> QED  BY <1>1, <2>1 DEF LoadRecord, RecordInv, RecordTypeOK, BindingInv, PutInv, ReadbackCurrent
<1>2. ASSUME RecordInv, InsertInstance
      PROVE  RecordInv'
  <2>1. /\ instances' = Append(instances, <<0>>) /\ assigned' = assigned \cup {Len(instances')}
        /\ UNCHANGED <<recordType, pvScans, dpvt, recordScan, recordVal, putNext, lastPut, setter,
                       scanRequested, fresh>>
    BY <1>2 DEF InsertInstance
  <2>2. instances \in Seq(Seq(Nat)) /\ <<0>> \in Seq(Nat)
    BY <1>2 DEF RecordInv, RecordTypeOK
  <2>3. /\ instances' \in Seq(Seq(Nat)) /\ Len(instances') = Len(instances) + 1
        /\ DOMAIN instances' = DOMAIN instances \cup {Len(instances')}
        /\ \A j \in DOMAIN instances : instances'[j] = instances[j]
        /\ instances' # <<>> /\ (instances # <<>> => instances'[1] = instances[1])
    BY <2>1, <2>2
  <2>4. RecordTypeOK'
    BY <1>2, <2>1, <2>2, <2>3 DEF RecordInv, RecordTypeOK
  <2>5. BindingInv'
    BY <1>2, <2>1, <2>3 DEF RecordInv, BindingInv
  <2>6. PutInv'
    BY <1>2, <2>1, <2>3 DEF RecordInv, PutInv
  <2>7. ReadbackCurrent'
    BY <1>2, <2>1, <2>3 DEF RecordInv, BindingInv, ReadbackCurrent
  <2> QED  BY <2>4, <2>5, <2>6, <2>7 DEF RecordInv
<1>3. RecordInv /\ UNCHANGED recordVars => RecordInv'
  BY DEF RecordInv, RecordTypeOK, BindingInv, PutInv, ReadbackCurrent, recordVars
<1>4. RecordInv /\ [RecordNext]_recordVars => RecordInv'
  BY <1>1, <1>2, <1>3, RecordSteps, BindsInv, ScansInv, PutsInv, CodeInv, ReadsInv
<1> QED  BY <1>4, RecordInitInv, PTL DEF RecordSpec

\* Records, their PVs and what they point to are what they can be (RecordTypeOK, a part of
\* the types of run components).
THEOREM RecordTypeCorrect == RecordSpec => []RecordTypeOK
<1>1. RecordInv => RecordTypeOK
  BY DEF RecordInv
<1> QED  BY <1>1, RecordInvariant, PTL

\* When a put is done, all PVs of the name have its value, but those that the code assigned
\* meanwhile, for any number of PVs (devFfConfig's write functions; OutWritten of run
\* components).
THEOREM PutReachesAll == RecordSpec => []OutWritten
<1>1. RecordInv => OutWritten
  BY DEF RecordInv, PutInv, OutWritten
<1> QED  BY <1>1, RecordInvariant, PTL

\* After the scan that was requested last, a record shows the first PV of its name
\* (PvData::scanIoRequest and the read functions; ReadbackCurrent of run components).
THEOREM ReadbackIsCurrent == RecordSpec => []ReadbackCurrent
<1>1. RecordInv => ReadbackCurrent
  BY DEF RecordInv
<1> QED  BY <1>1, RecordInvariant, PTL

-----------------------------------------------------------------------------
(* The composition *)

\* A step of the composition is one of a single component; for the others it is a stutter.
LEMMA ComponentSteps ==
  ASSUME [Next]_allVars
  PROVE
    /\ [MeasNext]_measVars
    /\ [ActNext]_actVars
    /\ [StateNext]_stateVars
    /\ [AvgNext]_avgVars
    /\ [ChanNext]_chanVars
    /\ [LongNext]_longVars
    /\ [ChirpNext]_chirpVars
    /\ [FitNext]_fitVars
    /\ [PatternNext]_patternVars
    /\ [ExecNext]_execVars
    /\ [RecordNext]_recordVars
<1>1. CASE component = "measurement" /\ MeasNext /\ Next
  BY <1>1 DEF Next
<1>2. CASE component = "actuator" /\ ActNext /\ Next
  BY <1>2 DEF Next
<1>3. CASE component = "state" /\ StateNext /\ Next
  BY <1>3 DEF Next
<1>4. CASE component = "average" /\ AvgNext /\ Next
  BY <1>4 DEF Next
<1>5. CASE component = "channels" /\ ChanNext /\ Next
  BY <1>5 DEF Next
<1>6. CASE component = "longitudinal" /\ LongNext /\ Next
  BY <1>6 DEF Next
<1>7. CASE component = "chirp" /\ ChirpNext /\ Next
  BY <1>7 DEF Next
<1>8. CASE component = "fit" /\ FitNext /\ Next
  BY <1>8 DEF Next
<1>9. CASE component = "patterns" /\ PatternNext /\ Next
  BY <1>9 DEF Next
<1>10. CASE component = "executive" /\ ExecNext /\ Next
  BY <1>10 DEF Next
<1>11. CASE component = "records" /\ RecordNext /\ Next
  BY <1>11 DEF Next
<1>12. CASE UNCHANGED allVars
  BY <1>12 DEF allVars
<1> QED
  BY <1>1, <1>2, <1>3, <1>4, <1>5, <1>6, <1>7, <1>8, <1>9, <1>10, <1>11, <1>12 DEF Next

\* The composition implements every component, so what is proved of a component alone
\* holds in it.  Its fairness of the chirp's programs is stated for the steps of component
\* chirp, so LongitudinalChirp is implemented here up to its fairness.
THEOREM ComponentsImplemented ==
  Spec =>
    /\ MeasSpec
    /\ ActSpec
    /\ StateSpec
    /\ AvgSpec
    /\ ChanSpec
    /\ LongSpec
    /\ (ChirpInit /\ [][ChirpNext]_chirpVars)
    /\ FitSpec
    /\ PatternSpec
    /\ ExecSpec
    /\ RecordSpec
<1>1. Init => MeasInit /\ ActInit /\ StateInit /\ AvgInit /\ ChanInit /\ LongInit
              /\ ChirpInit /\ FitInit /\ PatternInit /\ ExecInit /\ RecordInit
  BY DEF Init
<1>2. [Next]_allVars =>
        /\ [MeasNext]_measVars
        /\ [ActNext]_actVars
        /\ [StateNext]_stateVars
        /\ [AvgNext]_avgVars
        /\ [ChanNext]_chanVars
        /\ [LongNext]_longVars
        /\ [ChirpNext]_chirpVars
        /\ [FitNext]_fitVars
        /\ [PatternNext]_patternVars
        /\ [ExecNext]_execVars
        /\ [RecordNext]_recordVars
  BY ComponentSteps
<1> QED
  BY <1>1, <1>2, PTL DEF Spec, MeasSpec, ActSpec, StateSpec, AvgSpec, ChanSpec, LongSpec,
     FitSpec, PatternSpec, ExecSpec, RecordSpec

\* The state of every component keeps its type in the composition, whatever component
\* moves (ComponentsTypeOK of run components).
THEOREM ComponentsTypeCorrect == Spec => []ComponentsTypeOK
<1>1. ChirpInv => ChirpTypeOK
  BY DEF ChirpInv
<1>2. (ChirpInit /\ [][ChirpNext]_chirpVars) => []ChirpTypeOK
  BY <1>1, ChirpInvariant, PTL
<1>3. MeasTypeOK /\ ActTypeOK /\ StateTypeOK /\ AvgTypeOK /\ ChanTypeOK /\ LongTypeOK
      /\ ChirpTypeOK /\ FitTypeOK /\ PatternTypeOK /\ ExecTypeOK /\ RecordTypeOK => ComponentsTypeOK
  BY DEF ComponentsTypeOK
<1> QED
  BY <1>2, <1>3, ComponentsImplemented, MeasTypeCorrect, ActTypeCorrect, StateTypeCorrect,
     AverageTypeCorrect, ChanTypeCorrect, LongTypeCorrect, FitTypeCorrect, PatternTypeCorrect,
     ExecTypeCorrect, RecordTypeCorrect, PTL
=============================================================================
