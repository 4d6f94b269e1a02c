------------------------------ MODULE RecordSupport ------------------------------
(***************************************************************************)
(* The device support of the records (devFfConfig) and the PVs behind them *)
(* (PvData): one record of each type and the instances of its PV, which    *)
(* have one name (M1USED exists once for each pattern).  An output record  *)
(* writes all instances, one after the other, while the code assigns them; *)
(* an input record shows the first one when it is scanned.  A value is a   *)
(* sequence, of one element for the scalar types.  A mutex makes atomic    *)
(* what is one step here; texts have none, and are assigned in two steps.  *)
(***************************************************************************)
EXTENDS Integers, Sequences

CONSTANTS
  MaxInstances, \* bound: PVs of one name
  Texts         \* values of strings and waveforms

ASSUME RecordAssumption == MaxInstances \in Nat \ {0} /\ Texts \subseteq Seq(Nat)

VARIABLES
  recordType,   \* the type of the record
  instances,    \* the vector in PvData::_pvMap under the name
  pvScans,      \* the instances with a _scanlist
  dpvt,         \* what the record points to: "vector", "first" or "nothing"
  recordScan,   \* the scan list the record is on: "own", "loop", "null"
  recordVal,    \* VAL of the record
  putNext,      \* the instance that is written next, 0 if there is no put
  lastPut,      \* history: the value of the last put that was written, <<>> if none
  assigned,     \* history: instances assigned by the code since they were written
  setter,       \* the thread of the loop: what it assigns, and how far it got
  scanRequested,\* the callback of the scan list is queued
  fresh         \* history: the first instance was not assigned since a scan was requested

recordVars ==
  <<recordType, instances, pvScans, dpvt, recordScan, recordVal, putNext, lastPut,
    assigned, setter, scanRequested, fresh>>

VectorInputs == {"longin"}
FirstInputs == {"ai", "stringin", "bi", "mbbi", "wi"}
Outputs == {"bo", "ao", "calcout", "stringout", "wo", "longout", "mbbo"}
TextTypes == {"stringin", "stringout", "wi", "wo"}
RecordTypes == VectorInputs \cup FirstInputs \cup Outputs

ValuesOf(type) == IF type \in TextTypes THEN Texts ELSE {<<0>>, <<1>>, <<2>>}

NotSetting == [stage |-> "idle", instance |-> 0, value |-> <<>>]

RecordInit ==
  /\ recordType = "none" /\ instances = <<>> /\ pvScans = {}
  /\ dpvt = "unbound" /\ recordScan = "unset" /\ recordVal = <<0>>
  /\ putNext = 0 /\ lastPut = <<>> /\ assigned = {}
  /\ setter = NotSetting /\ scanRequested = FALSE /\ fresh = FALSE

\* The record that the database declares.
LoadRecord ==
  /\ recordType = "none" /\ recordType' \in RecordTypes
  /\ UNCHANGED <<instances, pvScans, dpvt, recordScan, recordVal, putNext, lastPut, assigned,
                 setter, scanRequested, fresh>>

\* PvData::insert; a second ffStart inserts again after iocInit.
InsertInstance ==
  /\ recordType # "none" /\ putNext = 0 /\ Len(instances) < MaxInstances
  /\ instances' = Append(instances, <<0>>)
  /\ assigned' = assigned \cup {Len(instances')}
  /\ UNCHANGED <<recordType, pvScans, dpvt, recordScan, recordVal, putNext, lastPut, setter,
                 scanRequested, fresh>>

-----------------------------------------------------------------------------
(* init_record: the name is looked for in the map, unless the link is no INST_IO *)

BindFails(link) == ~link \/ instances = <<>>

BindsVector(type) ==
  /\ recordType = type /\ dpvt = "unbound"
  /\ \E link \in BOOLEAN : dpvt' = IF BindFails(link) THEN "nothing" ELSE "vector"
  /\ UNCHANGED <<recordType, instances, pvScans, recordScan, recordVal, putNext, lastPut,
                 assigned, setter, scanRequested, fresh>>

\* Only the first instance gets a scan list.
BindsFirst(type) ==
  /\ recordType = type /\ dpvt = "unbound"
  /\ \E link \in BOOLEAN :
       /\ dpvt' = IF BindFails(link) THEN "nothing" ELSE "first"
       /\ pvScans' = IF BindFails(link) THEN pvScans ELSE {1}
  /\ UNCHANGED <<recordType, instances, recordScan, recordVal, putNext, lastPut, assigned,
                 setter, scanRequested, fresh>>

InitBo == BindsVector("bo")
InitAo == BindsVector("ao")
InitCalcout == BindsVector("calcout")
InitStringout == BindsVector("stringout")
InitLongout == BindsVector("longout")
InitMbbo == BindsVector("mbbo")
InitLongin == BindsVector("longin")
InitAi == BindsFirst("ai")
InitStringin == BindsFirst("stringin")
InitBi == BindsFirst("bi")
InitMbbi == BindsFirst("mbbi")

\* init_waveformin points to the vector; it is the first instance that is scanned.
InitWi == BindsFirst("wi")

\* init_waveformout leaves the waveforms empty: assign(0, nelm) is no element.
InitWo ==
  /\ recordType = "wo" /\ dpvt = "unbound"
  /\ \E link \in BOOLEAN :
       /\ dpvt' = IF BindFails(link) THEN "nothing" ELSE "vector"
       /\ instances' = IF BindFails(link) THEN instances ELSE [i \in DOMAIN instances |-> <<>>]
  /\ assigned' = assigned \cup DOMAIN instances
  /\ UNCHANGED <<recordType, pvScans, recordScan, recordVal, putNext, lastPut, setter,
                 scanRequested, fresh>>

-----------------------------------------------------------------------------
(* get_ioint_info, after all records are initialized *)

ScansOwn(type) ==
  /\ recordType = type /\ dpvt # "unbound" /\ recordScan = "unset"
  /\ recordScan' = IF dpvt = "first" /\ 1 \in pvScans THEN "own" ELSE "null"
  /\ UNCHANGED <<recordType, instances, pvScans, dpvt, recordVal, putNext, lastPut, assigned,
                 setter, scanRequested, fresh>>

IointAi == ScansOwn("ai")
IointStringin == ScansOwn("stringin")
IointBi == ScansOwn("bi")
IointWi == ScansOwn("wi")
IointMbbi == ScansOwn("mbbi")

\* The loop that the name of the PV starts with, if there is one, scans its longins.
IointLongin ==
  /\ recordType = "longin" /\ dpvt # "unbound" /\ recordScan = "unset"
  /\ \E loopConfig \in BOOLEAN :
       recordScan' = IF dpvt = "vector" /\ loopConfig THEN "loop" ELSE "null"
  /\ UNCHANGED <<recordType, instances, pvScans, dpvt, recordVal, putNext, lastPut, assigned,
                 setter, scanRequested, fresh>>

-----------------------------------------------------------------------------
(* Output records *)

\* What a record hands to PvData::write.
AsWritten(type, v) == IF type = "bo" THEN (IF v = <<0>> THEN <<0>> ELSE <<1>>) ELSE v

\* Channel Access puts a value; a waveform without elements is not written.
RecordPut(v) ==
  /\ recordType \in Outputs /\ dpvt # "unbound" /\ putNext = 0
  /\ recordVal' = v
  /\ IF dpvt = "vector" /\ v # <<>> THEN putNext' = 1 /\ lastPut' = v
                                    ELSE UNCHANGED <<putNext, lastPut>>
  /\ UNCHANGED <<recordType, instances, pvScans, dpvt, recordScan, assigned, setter,
                 scanRequested, fresh>>

\* Mutation: only the first instance is written.
WritesFirst(type) ==
  /\ recordType = type /\ putNext # 0
  /\ instances' = [instances EXCEPT ![1] = AsWritten(type, lastPut)]
  /\ assigned' = {} /\ putNext' = 0
  /\ UNCHANGED <<recordType, pvScans, dpvt, recordScan, recordVal, lastPut, setter,
                 scanRequested, fresh>>

\* One turn of the loop over the vector.
WritesInstance(type) ==
  /\ recordType = type /\ putNext # 0
  /\ instances' = [instances EXCEPT ![putNext] = AsWritten(type, lastPut)]
  /\ assigned' = assigned \ {putNext}
  /\ putNext' = IF putNext < Len(instances) THEN putNext + 1 ELSE 0
  /\ UNCHANGED <<recordType, pvScans, dpvt, recordScan, recordVal, lastPut, setter,
                 scanRequested, fresh>>

WriteBo == WritesInstance("bo")
WriteAo == WritesInstance("ao")
WriteCalcout == WritesInstance("calcout")
WriteStringout == WritesInstance("stringout")
WriteWo == WritesInstance("wo")
WriteLongout == WritesInstance("longout")
WriteMbbo == WritesInstance("mbbo")

-----------------------------------------------------------------------------
(* The loop's thread assigns a PV and asks for a scan *)

\* operator=; a text is half written in between.
CodeAssigns(i, v) ==
  /\ setter.stage = "idle" /\ recordType # "none"
  /\ LET text == recordType \in TextTypes IN
     /\ instances' = [instances EXCEPT ![i] = IF text THEN <<0>> ELSE v]
     /\ setter' = [stage |-> IF text THEN "assigning" ELSE "assigned", instance |-> i, value |-> v]
  /\ assigned' = assigned \cup {i}
  /\ fresh' = (fresh /\ i # 1)
  /\ UNCHANGED <<recordType, pvScans, dpvt, recordScan, recordVal, putNext, lastPut,
                 scanRequested>>

CodeAssigned ==
  /\ setter.stage = "assigning"
  /\ instances' = [instances EXCEPT ![setter.instance] = setter.value]
  /\ assigned' = assigned \cup {setter.instance}
  /\ setter' = [setter EXCEPT !.stage = "assigned"]
  /\ UNCHANGED <<recordType, pvScans, dpvt, recordScan, recordVal, putNext, lastPut,
                 scanRequested, fresh>>

\* PvData::scanIoRequest
CodeRequests ==
  /\ setter.stage = "assigned" /\ setter' = NotSetting
  /\ IF setter.instance \in pvScans /\ recordScan = "own"
     THEN scanRequested' = TRUE /\ fresh' = TRUE
     ELSE UNCHANGED <<scanRequested, fresh>>
  /\ UNCHANGED <<recordType, instances, pvScans, dpvt, recordScan, recordVal, putNext, lastPut,
                 assigned>>

\* LoopThread asks for the scan of its longins after a calculation.
LoopRequests ==
  /\ recordScan = "loop"
  /\ scanRequested' = TRUE /\ fresh' = TRUE
  /\ UNCHANGED <<recordType, instances, pvScans, dpvt, recordScan, recordVal, putNext, lastPut,
                 assigned, setter>>

-----------------------------------------------------------------------------
(* Input records: the callback of the scan list *)

\* Mutation: the instance that was made last is shown.
LastInstance == instances[Len(instances)]

FirstInstance == instances[1]

ReadsAs(type, v) ==
  /\ recordType = type /\ scanRequested
  /\ recordVal' = v
  /\ scanRequested' = FALSE
  /\ UNCHANGED <<recordType, instances, pvScans, dpvt, recordScan, putNext, lastPut, assigned,
                 setter, fresh>>

ReadAi == ReadsAs("ai", FirstInstance)
ReadBi == ReadsAs("bi", FirstInstance)
ReadWi == ReadsAs("wi", FirstInstance)
ReadLongin == ReadsAs("longin", FirstInstance)

\* string::copy adds no NUL: what is longer in the record remains.
ReadStringin ==
  ReadsAs("stringin",
          FirstInstance \o SubSeq(recordVal, Len(FirstInstance) + 1, Len(recordVal)))

\* The PvData<double> is read as a PvData<long> and cut to 16 bits, which are zero in
\* small integers.
ReadMbbi == ReadsAs("mbbi", <<0>>)

RecordNext ==
  \/ LoadRecord \/ InsertInstance
  \/ InitBo \/ InitAo \/ InitCalcout \/ InitStringout \/ InitLongout \/ InitMbbo \/ InitWo
  \/ InitLongin \/ InitAi \/ InitStringin \/ InitBi \/ InitMbbi \/ InitWi
  \/ IointAi \/ IointStringin \/ IointBi \/ IointWi \/ IointMbbi \/ IointLongin
  \/ \E v \in ValuesOf(recordType) : RecordPut(v)
  \/ WriteBo \/ WriteAo \/ WriteCalcout \/ WriteStringout \/ WriteWo \/ WriteLongout
  \/ WriteMbbo
  \/ \E i \in DOMAIN instances, v \in ValuesOf(recordType) \ {<<>>} : CodeAssigns(i, v)
  \/ CodeAssigned \/ CodeRequests \/ LoopRequests
  \/ ReadAi \/ ReadBi \/ ReadWi \/ ReadLongin \/ ReadStringin \/ ReadMbbi

RecordSpec == RecordInit /\ [][RecordNext]_recordVars

-----------------------------------------------------------------------------
(* Properties *)

RecordTypeOK ==
  /\ recordType \in RecordTypes \cup {"none"}
  /\ dpvt \in {"unbound", "vector", "first", "nothing"}
  /\ recordScan \in {"unset", "own", "loop", "null"}
  /\ instances \in Seq(Seq(Nat)) /\ {recordVal, lastPut} \subseteq Seq(Nat)
  /\ pvScans \subseteq {1} /\ assigned \subseteq DOMAIN instances
  /\ setter \in [stage : {"idle", "assigning", "assigned"}, instance : Nat, value : Seq(Nat)]
  /\ putNext \in 0 .. Len(instances) /\ {scanRequested, fresh} \subseteq BOOLEAN

\* When a put is done, all PVs of the name have its value (a monitor that is not used is
\* used in no pattern), but those that the code assigned while or after they were written.
OutWritten ==
  putNext = 0 /\ lastPut # <<>> =>
    \A i \in DOMAIN instances \ assigned : instances[i] = AsWritten(recordType, lastPut)

\* After the scan that was requested last, the record shows the first PV of its name; a
\* text may be followed by the rest of a longer one.
ReadbackCurrent ==
  fresh /\ ~scanRequested /\ recordType # "mbbi" =>
    IF recordType = "stringin" THEN SubSeq(recordVal, 1, Len(instances[1])) = instances[1]
    ELSE recordVal = instances[1]
=============================================================================
