------------------------------ MODULE StateBuffer ------------------------------
(***************************************************************************)
(* The circular buffer of a StateDevice and the blob in which a loop       *)
(* broadcasts its states (FcomChannelStates).  A calculation sets the      *)
(* state; if it succeeds Loop::setDevices writes it, adding the offset,    *)
(* and sends the blob.  If it fails, because a state or an actuator is     *)
(* outside of its limits, nothing is written.  set and write advance one   *)
(* index each, and no configuration resets them.  A value is abstracted    *)
(* to the number of its calculation.                                       *)
(***************************************************************************)
EXTENDS Integers, FiniteSets

CONSTANTS
  StateSize,   \* Device::_bufferSize
  MaxCalc,     \* bound: calculations
  StateLimited \* states may be outside of their limits

ASSUME StateAssumption ==
  /\ StateSize \in Nat /\ StateSize >= 2
  /\ MaxCalc \in Nat
  /\ StateLimited \in BOOLEAN

VARIABLES
  states,         \* StateDevice::_buffer, a status and the calculation per slot
  nextState,      \* Device::_next
  nextStateWrite, \* ActuatorDevice::_nextWrite
  calc,           \* the latest calculation
  blobData,       \* FcomChannelStates::_blobData, this state's entry
  broadcast,      \* the blob as last sent
  succeeded,      \* the last calculation that set the state and succeeded; history
  slips           \* values refused less writes of nothing, modulo StateSize; history

stateVars ==
  <<states, nextState, nextStateWrite, calc, blobData, broadcast, succeeded, slips>>

StateSlots == 0 .. StateSize - 1

SlotAfter(i) == (i + 1) % StateSize

SlotBefore(i) == (StateSize + i - 1) % StateSize

StateInit ==
  /\ states = [i \in StateSlots |-> [status |-> "EMPTY", calc |-> 0]]
  /\ nextState = 0 /\ nextStateWrite = 0
  /\ calc = 0 /\ blobData = 0 /\ broadcast = 0 /\ succeeded = 0 /\ slips = 0

Untouched == [buf |-> states, next |-> nextState, write |-> nextStateWrite]

\* StateDevice::set, by way of ActuatorDevice::set: a value that was never written
\* is dropped.
SetState(status) ==
  [buf |-> [states EXCEPT ![nextState] = [status |-> status, calc |-> calc + 1]],
   next |-> SlotAfter(nextState),
   write |-> IF states[nextState].status = "SET" THEN SlotAfter(nextStateWrite) ELSE nextStateWrite]

\* Mutation: the blob gets the value after the one at the write index.
WriteStateNext(dev) ==
  [buf |-> [dev.buf EXCEPT ![SlotBefore(dev.next)].status = IF @ = "SET" THEN "WRITE" ELSE @],
   next |-> dev.next, write |-> SlotAfter(dev.write), value |-> dev.buf[SlotAfter(dev.write)].calc]

\* StateDevice::write(timestamp): the value at the write index goes to the blob and the
\* index advances; the slot set last becomes WRITE if it is SET.
WriteState(dev) ==
  [buf |-> [dev.buf EXCEPT ![SlotBefore(dev.next)].status = IF @ = "SET" THEN "WRITE" ELSE @],
   next |-> dev.next, write |-> SlotAfter(dev.write), value |-> dev.buf[dev.write].calc]

BecomesState(dev) ==
  states' = dev.buf /\ nextState' = dev.next /\ nextStateWrite' = dev.write

\* A calculation that fails after the state was set.
CalculationFails ==
  /\ calc < MaxCalc
  /\ \/ BecomesState(SetState("SET")) /\ UNCHANGED slips
     \/ StateLimited /\ BecomesState(SetState("SET_LIMIT")) /\ slips' = (slips + 1) % StateSize
  /\ calc' = calc + 1
  /\ UNCHANGED <<blobData, broadcast, succeeded>>

\* A calculation that succeeds: Loop::setDevices writes the state and sends the blob,
\* which may fail.
CalculationSucceeds ==
  /\ calc < MaxCalc
  /\ LET dev == WriteState(SetState("SET")) IN BecomesState(dev) /\ blobData' = dev.value
  /\ calc' = calc + 1
  /\ succeeded' = calc + 1
  /\ broadcast' \in {blobData', broadcast}
  /\ UNCHANGED slips

\* Loop::setDevices writes the states that the algorithm left alone too: those that
\* Longitudinal does not control, and all of them while it waits for the chirp.
WrittenUnset ==
  /\ calc < MaxCalc
  /\ LET dev == WriteState(Untouched) IN BecomesState(dev) /\ blobData' = dev.value
  /\ slips' = IF states[SlotBefore(nextState)].status = "SET"
              THEN slips ELSE (StateSize + slips - 1) % StateSize
  /\ calc' = calc + 1
  /\ broadcast' \in {blobData', broadcast}
  /\ UNCHANGED succeeded

StateNext == CalculationFails \/ CalculationSucceeds \/ WrittenUnset

StateSpec == StateInit /\ [][StateNext]_stateVars

-----------------------------------------------------------------------------
(* Properties *)

Unwritten == {i \in StateSlots : states[i].status = "SET"}

\* By how many slots the two indices have drifted apart.
Drift == (StateSize + nextState - nextStateWrite) % StateSize

\* The write index lags behind by the values never written that are still in the
\* buffer and by every value that was refused, and runs ahead by every write of
\* nothing: the first are made up for when the buffer wraps around, the others never.
DriftAccounted == Drift = (Cardinality(Unwritten) + slips) % StateSize

\* A calculation that succeeds publishes its own value whenever refusals and writes of
\* nothing cancel out and no value is left that was never written, however often
\* calculations failed before.
DriftHeals ==
  [][succeeded' # succeeded /\ slips = 0 /\ Unwritten' = {} => blobData' = succeeded']_stateVars

StateTypeOK ==
  /\ states \in [StateSlots -> [status : {"EMPTY", "SET", "SET_LIMIT", "WRITE"}, calc : 0 .. MaxCalc]]
  /\ nextState \in StateSlots /\ nextStateWrite \in StateSlots
  /\ {calc, blobData, broadcast, succeeded} \subseteq 0 .. MaxCalc
  /\ slips \in StateSlots
=============================================================================
