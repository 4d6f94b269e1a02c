--------------------------- MODULE MeasurementBuffer ---------------------------
(***************************************************************************)
(* The circular buffer of a MeasurementDevice.  The CollectorThread reads  *)
(* the channel into it and checks the pulse or the time of the datum; the  *)
(* LoopThread checks, gets or discards it, and reconfiguration clears it.  *)
(* A value is abstracted to the pulse it was measured in, a time stamp is  *)
(* that pulse as well.  Both threads hold the mutex of the                 *)
(* MeasurementCollector or are ordered by the event queue, so that each    *)
(* call is one step.                                                       *)
(***************************************************************************)
EXTENDS Integers, Sequences

CONSTANTS
  BufferSize,   \* Device::_bufferSize
  MaxPulse,     \* bound: pulses
  MeasKind,     \* of channel: "fcom", "ca", "file" or "null"
  IsBlen,       \* MeasurementDevice::_isBlen
  HasTmit       \* there is a _tmitCommunicationChannel

ASSUME BufferAssumption ==
  /\ BufferSize \in Nat /\ BufferSize >= 2
  /\ MaxPulse \in Nat
  /\ MeasKind \in {"fcom", "ca", "file", "null"}
  /\ IsBlen \in BOOLEAN /\ HasTmit \in BOOLEAN

VARIABLES
  samples,     \* MeasurementDevice::_buffer, a status and a pulse per slot
  next,        \* Device::_next
  now,         \* the pulse of the accelerator
  measChannel, \* Device::_communicationChannel is there
  tmit,        \* the pulse of _tmit, or NoTmit
  handed,      \* successful calls of get since the last read; history
  lastReads    \* the outcomes of the last two reads, a pulse each if both succeeded

measVars == <<samples, next, now, measChannel, tmit, handed, lastReads>>

MeasSlots == 0 .. BufferSize - 1

MeasPulses == 0 .. MaxPulse

NoTmit == -1

\* CIRCULAR_INCREMENT and CIRCULAR_DECREMENT
Increment(i) == (i + 1) % BufferSize

\* Mutation: the size is not added first, and the index before 0 is 0.
DecrementToZero(i) == IF i = 0 THEN 0 ELSE i - 1

Decrement(i) == (BufferSize + i - 1) % BufferSize

Latest == samples[Decrement(next)]

MeasInit ==
  /\ samples = [i \in MeasSlots |-> [status |-> "EMPTY", pulse |-> 0]]
  /\ next = 0
  /\ now = 0 /\ measChannel = FALSE /\ tmit = NoTmit
  /\ handed = 0 /\ lastReads = <<>>

-----------------------------------------------------------------------------
\* The accelerator goes on.
NextPulse ==
  /\ now < MaxPulse
  /\ now' = now + 1
  /\ UNCHANGED <<samples, next, measChannel, tmit, handed, lastReads>>

(* What CommunicationChannel::read can return: a datum with its time stamp, or an
   error *)

Datum(p) == [ok |-> TRUE, pulse |-> p]

ReadError == [ok |-> FALSE, pulse |-> NoTmit]

\* FcomChannel::read returns the blob that is there, of this pulse or of the one
\* before, or the error of FCOM.
FcomRead == {Datum(p) : p \in {now, now - 1} \cap MeasPulses} \cup {ReadError}

\* CaChannel::read tries three times; the datum may come with any of them.
CaRead == {Datum(p) : p \in {now, now - 1} \cap MeasPulses} \cup {ReadError}

\* FileChannel::read starts again at the end; the time stamp is zero.
FileRead == {Datum(0), ReadError}

\* NullChannel::read never fails; the time stamp is zero.
NullRead == {Datum(0)}

ReadChannel ==
  CASE MeasKind = "fcom" -> FcomRead
    [] MeasKind = "ca" -> CaRead
    [] MeasKind = "file" -> FileRead
    [] MeasKind = "null" -> NullRead

TmitRead == IF HasTmit THEN ReadChannel ELSE {Datum(tmit)}

\* MeasurementDevice::read: the TMIT channel first, then the device's.  The slot
\* after the new datum is marked as empty.
Read ==
  /\ measChannel
  /\ \E t \in TmitRead, r \in ReadChannel :
       /\ t.ok /\ r.ok /\ t.pulse <= r.pulse
       /\ samples' = [samples EXCEPT ![next] = [status |-> "READ", pulse |-> r.pulse],
                                     ![Increment(next)].status = "EMPTY"]
       /\ lastReads' = <<r.pulse>> \o (IF lastReads = <<>> THEN <<>> ELSE <<Head(lastReads)>>)
       /\ tmit' = t.pulse
  /\ next' = Increment(next)
  /\ handed' = 0
  /\ UNCHANGED <<now, measChannel>>

\* The same when one of the two fails: the slot keeps its value and time stamp, the
\* one after it its status.
ReadFails ==
  /\ measChannel
  /\ \E t \in TmitRead :
       /\ t.ok => ReadError \in ReadChannel
       /\ tmit' = t.pulse
  /\ samples' = [samples EXCEPT ![next].status = "READ_INVALID"]
  /\ next' = Increment(next)
  /\ handed' = 0
  /\ lastReads' = <<>>
  /\ UNCHANGED <<now, measChannel>>

\* Mutation: get leaves the status.
GetAgain ==
  /\ Latest.status = "READ"
  /\ handed' = handed + 1
  /\ UNCHANGED <<samples, next, now, measChannel, tmit, lastReads>>

\* MeasurementDevice::get; it returns -1 and changes nothing unless READ.
Get ==
  /\ Latest.status = "READ"
  /\ samples' = [samples EXCEPT ![Decrement(next)].status = "GET"]
  /\ handed' = handed + 1
  /\ UNCHANGED <<next, now, measChannel, tmit, lastReads>>

\* checkPulseId marks a fresh datum from FCOM of another pulse than that of the
\* pattern; BLENs are not checked.
FailsPulseId ==
  MeasKind = "fcom" /\ ~IsBlen /\ Latest.status = "READ" /\ Latest.pulse # now

\* MeasurementDevice::getT0 of the first device of the set, read before this one.
T0 == {now, now - 1} \cap MeasPulses

\* checkTimestamp marks one from Channel Access of another time than t0.
FailsTimestamp ==
  MeasKind \in {"ca", "null"} /\ Latest.status = "READ" /\ \E t0 \in T0 : Latest.pulse # t0

CheckDatum ==
  /\ FailsPulseId \/ FailsTimestamp
  /\ samples' = [samples EXCEPT ![Decrement(next)].status = "READ_TSMISMATCH"]
  /\ UNCHANGED <<next, now, measChannel, tmit, handed, lastReads>>

\* MeasurementDevice::clear leaves values and time stamps.
Clear ==
  /\ samples' = [i \in MeasSlots |-> [samples[i] EXCEPT !.status = "EMPTY"]]
  /\ next' = 0
  /\ lastReads' = <<>>
  /\ UNCHANGED <<now, measChannel, tmit, handed>>

\* MeasurementDevice::configure and disconnect keep the buffer.
SetChannel ==
  /\ measChannel' = ~measChannel
  /\ UNCHANGED <<samples, next, now, tmit, handed, lastReads>>

MeasNext ==
  NextPulse \/ Read \/ ReadFails \/ Get \/ CheckDatum \/ Clear \/ SetChannel

MeasSpec == MeasInit /\ [][MeasNext]_measVars

-----------------------------------------------------------------------------
(* Properties *)

\* MeasurementDevice::checkTimestampChange
TimestampChanged == samples[Decrement(Decrement(next))].pulse # Latest.pulse

\* The superconducting mode takes a datum with the time stamp of the one before it
\* as a device that is stuck (Loop::checkTmit): after two reads that succeeded, it
\* does so exactly if the datum is the same, wherever the buffer has wrapped.
StuckSeen == Len(lastReads) = 2 => (TimestampChanged <=> lastReads[1] # lastReads[2])

\* The buffer keeps what the loop is promised of the latest datum: it is handed to
\* the algorithm at most once, and never after a failed read, a wrong pulse or a
\* clear, whatever older slots hold.
Promise == INSTANCE LatestSample WITH
  Pulses <- MeasPulses,
  pulse <- Latest.pulse,
  handed <- handed,
  outcome <- CASE Latest.status = "EMPTY" -> "none"
               [] Latest.status = "READ" -> "fresh"
               [] Latest.status = "GET" -> "used"
               [] Latest.status = "READ_INVALID" -> "failed"
               [] Latest.status = "READ_TSMISMATCH" -> "mismatch"

DatumHandedOnce == Promise!Spec

MeasTypeOK ==
  /\ samples \in [MeasSlots -> [status : {"EMPTY", "READ", "GET", "READ_INVALID", "READ_TSMISMATCH"},
                            pulse : MeasPulses]]
  /\ next \in MeasSlots /\ now \in MeasPulses /\ tmit \in MeasPulses \cup {NoTmit}
  /\ measChannel \in BOOLEAN
=============================================================================
