---------------------------- MODULE ActuatorBuffer ----------------------------
(***************************************************************************)
(* The circular buffer of an ActuatorDevice and what is sent from it.  An  *)
(* algorithm sets a value, Loop::setDevices then writes it or skips the    *)
(* write; fiducials without beam set it from the actuator of the first     *)
(* pattern plus an offset; a change of MODE and a configuration read the   *)
(* initial setting back.  All belongs to one LoopThread.                   *)
(***************************************************************************)
EXTENDS Integers

CONSTANTS
  ActSize,      \* Device::_bufferSize
  ActValues,    \* bound: values that are computed, found in the PV or set from the reference
  Low, High,    \* LOLO and HIHI
  ActKind,      \* of channel: "fcom", "ca", "file" or "null"
  HasReference, \* there is a _referenceActuator
  NaN           \* not a number

ASSUME ActuatorAssumption ==
  /\ ActSize \in Nat /\ ActSize >= 2
  /\ ActValues \subseteq Int /\ Low \in Int /\ High \in Int
  /\ ActKind \in {"fcom", "ca", "file", "null"}
  /\ HasReference \in BOOLEAN
  /\ NaN \notin Int

VARIABLES
  commands,      \* ActuatorDevice::_buffer, a status and a value per slot
  nextSet,       \* Device::_next
  lastSet,       \* _lastValueSet
  reference,     \* _lastValueSet of the _referenceActuator
  offset,        \* _referenceOffset
  actChannel,    \* _communicationChannel is there
  sentValue      \* the last value that was sent, {} before the first one; history

actVars == <<commands, nextSet, lastSet, reference, offset, actChannel, sentValue>>

ActSlots == 0 .. ActSize - 1

Inc(i) == (i + 1) % ActSize

Dec(i) == (ActSize + i - 1) % ActSize

Settings == ActValues \cup {NaN}

\* A difference of doubles is NaN if one of them is; Outside is false for NaN.
Minus(x, y) == IF NaN \in {x, y} THEN NaN ELSE x - y

Outside(x) == x # NaN /\ (x < Low \/ High < x)

ActInit ==
  /\ commands = [i \in ActSlots |-> [status |-> "EMPTY", value |-> 0]]
  /\ nextSet = 0
  /\ lastSet = 0 /\ offset = 0
  /\ reference = 0
  /\ actChannel = FALSE
  /\ sentValue = {}

-----------------------------------------------------------------------------
(* One call of the device each: a new record of what it changes *)

Device == [buf |-> commands, next |-> nextSet]

\* Mutation: a value outside of the limits is kept as one to be sent.
SetUnchecked(dev, v, status) ==
  [buf |-> [dev.buf EXCEPT ![dev.next] = [status |-> status, value |-> v]],
   next |-> Inc(dev.next)]

\* ActuatorDevice::set.  A value outside of the limits is marked by set(value);
\* set(value, status) replaces the mark.
Set(dev, v, status) ==
  [buf |-> [dev.buf EXCEPT ![dev.next] =
              [status |-> IF status = "SET" /\ Outside(v) THEN "SET_LIMIT" ELSE status,
               value |-> v]],
   next |-> Inc(dev.next)]

Written(dev, status) == [dev EXCEPT !.buf[Dec(dev.next)].status = status]

\* Mutation: a write that failed counts as one.
WriteIgnoringErrors(dev, send, ok) ==
  LET slot == dev.buf[Dec(dev.next)] IN
  IF slot.status = "SET"
  THEN Written(dev, IF ~send THEN "WRITE_SKIP" ELSE IF slot.value = NaN THEN "WRITE_NAN" ELSE "WRITE")
  ELSE IF slot.status \in {"SET_LIMIT", "SET_SKIP"} THEN Written(dev, "WRITE_SKIP") ELSE dev

\* ActuatorDevice::write(bool), ok if the channel could be written.
Write(dev, send, ok) ==
  LET slot == dev.buf[Dec(dev.next)] IN
  IF slot.status = "SET"
  THEN Written(dev, CASE ~send -> "WRITE_SKIP"
                      [] send /\ ok -> "WRITE"
                      [] OTHER -> IF slot.value = NaN THEN "WRITE_NAN" ELSE "WRITE_INVALID")
  ELSE IF slot.status \in {"SET_LIMIT", "SET_SKIP"} THEN Written(dev, "WRITE_SKIP")
  ELSE dev

\* ActuatorDevice::clear leaves the values.
Cleared == [buf |-> [i \in ActSlots |-> [commands[i] EXCEPT !.status = "EMPTY"]],
            next |-> 0]

Becomes(dev) ==
  commands' = dev.buf /\ nextSet' = dev.next

(* CommunicationChannel::write: did it succeed? *)

FcomWrite == BOOLEAN

\* CaChannel::write fails in ca_put or waiting for it.
CaWrite == BOOLEAN

FileWrite == BOOLEAN

NullWrite == {TRUE}

ChannelWrite ==
  CASE ActKind = "fcom" -> FcomWrite
    [] ActKind = "ca" -> CaWrite
    [] ActKind = "file" -> FileWrite
    [] ActKind = "null" -> NullWrite

\* The distance to the reference that a write of v leaves.
OffsetFor(v) == Minus(reference, v)

\* What a write of the device dev sends, and what it remembers: the last value
\* set is replaced before the channel is tried, and the offset to the reference
\* whether or not that fails.
Send(dev, send, ok) ==
  LET slot == dev.buf[Dec(dev.next)]
      tried == send /\ slot.status = "SET" IN
  /\ IF tried /\ actChannel /\ slot.value # NaN THEN ok \in ChannelWrite ELSE ~ok
  /\ lastSet' = IF tried THEN slot.value ELSE lastSet
  /\ offset' = IF tried /\ actChannel /\ slot.value # NaN /\ HasReference
               THEN OffsetFor(slot.value) ELSE offset
  /\ sentValue' = IF ok THEN {slot.value} ELSE sentValue

-----------------------------------------------------------------------------
(* What the LoopThread does *)

\* An algorithm sets the actuator; Longitudinal marks actuators it does not
\* control with SET_SKIP.  If another device fails the calculation, nothing is
\* written.
Calculate ==
  /\ actChannel
  /\ \E v \in Settings, status \in {"SET", "SET_SKIP"} : Becomes(Set(Device, v, status))
  /\ UNCHANGED <<lastSet, reference, offset, actChannel, sentValue>>

\* Loop::setDevices
SetDevices ==
  /\ actChannel
  /\ \E send, ok \in BOOLEAN :
       /\ Send(Device, send, ok)
       /\ Becomes(Write(Device, send, ok))
  /\ UNCHANGED <<reference, actChannel>>

\* ActuatorDevice::getInitialSettingFromReference, at a fiducial without beam.
\* The value is remembered as the last one set even if it was refused.
SetFromReference ==
  /\ actChannel /\ HasReference
  /\ LET v == Minus(reference, offset)
         dev == Set(Device, v, "SET") IN
     /\ v \in Settings
     /\ \E send, ok \in BOOLEAN :
       /\ IF send /\ ~Outside(v) /\ v # NaN THEN ok \in ChannelWrite ELSE ~ok
       /\ Becomes(Write(dev, send, ok))
       /\ sentValue' = IF ok THEN {v} ELSE sentValue
       /\ lastSet' = v
       /\ offset' = IF send /\ ~Outside(v) /\ v # NaN THEN OffsetFor(v) ELSE offset
  /\ UNCHANGED <<reference, actChannel>>

\* The first pattern's loop sets its own actuator; bound: to numbers.
ReferenceMoves ==
  /\ HasReference
  /\ reference' \in ActValues
  /\ UNCHANGED <<commands, nextSet, lastSet, offset, actChannel, sentValue>>

\* ActuatorDevice::setInitialOffset and zeroOffset
ChangeOffset ==
  /\ HasReference
  /\ \/ offset' = Minus(reference, lastSet)
     \/ offset' = 0
  /\ UNCHANGED <<commands, nextSet, lastSet, reference, actChannel, sentValue>>

\* ActuatorDevice::getInitialSetting: the setting is read, from the PV, which
\* operators and other programs set too, or the initial channel, entered in the
\* cleared buffer and marked as skipped.  It throws, with the buffer cleared, if it
\* cannot be read, and with the value entered if that is outside of the limits.
InitialSetting ==
  \/ Becomes(Cleared) /\ UNCHANGED lastSet
  \/ \E setting \in ActValues :
       LET dev == Set(Cleared, setting, "SET") IN
       \/ Outside(setting) /\ Becomes(dev) /\ UNCHANGED lastSet
       \/ ~Outside(setting) /\ Becomes(Write(dev, FALSE, FALSE)) /\ lastSet' = setting

GetInitialSetting ==
  /\ actChannel
  /\ InitialSetting
  /\ offset' = 0
  /\ UNCHANGED <<reference, actChannel, sentValue>>

\* ActuatorDevice::configure, with a channel that may not connect.
Configure ==
  /\ \/ actChannel' = FALSE /\ UNCHANGED <<commands, nextSet, lastSet, offset>>
     \/ actChannel' = TRUE /\ InitialSetting /\ offset' = 0
  /\ UNCHANGED <<reference, sentValue>>

\* Device::disconnect
Disconnect ==
  /\ actChannel
  /\ actChannel' = FALSE
  /\ UNCHANGED <<commands, nextSet, lastSet, reference, offset, sentValue>>

ActNext ==
  \/ Calculate \/ SetDevices \/ SetFromReference
  \/ ReferenceMoves \/ ChangeOffset \/ GetInitialSetting
  \/ Configure \/ Disconnect

ActSpec == ActInit /\ [][ActNext]_actVars

-----------------------------------------------------------------------------
(* Properties *)

LastStatus == commands[Dec(nextSet)].status

ActStatuses ==
  {"EMPTY", "SET", "SET_LIMIT", "SET_SKIP", "WRITE", "WRITE_SKIP", "WRITE_INVALID", "WRITE_NAN"}

Doubles == Int \cup {NaN}

ActTypeOK ==
  /\ commands \in [ActSlots -> [status : ActStatuses, value : Doubles]]
  /\ nextSet \in ActSlots
  /\ lastSet \in Doubles /\ offset \in Doubles /\ reference \in Int
  /\ actChannel \in BOOLEAN /\ sentValue \subseteq Doubles

\* Algorithms add corrections to the last value set, so it has to be what the
\* actuator got: it is, as long as the latest slot is WRITE.  Only a status that
\* tells of a failure, a skipped write or a clear goes with another value.
WrittenIsSent == LastStatus = "WRITE" => sentValue = {lastSet}

\* Neither NaN nor a value outside of the limits is ever sent, whether it was
\* computed, derived from the reference, or read back.
SentWithinLimits == \A v \in sentValue : v # NaN /\ ~Outside(v)
=============================================================================
