-------------------------- MODULE DeviceBufferProofs --------------------------
(***************************************************************************)
(* Proofs about the circular buffers of devices, for buffers of any size,  *)
(* any limits and values, and all kinds of channels, and about the moving  *)
(* average: for a ring of any size and any samples it is the average of a  *)
(* window of the last ones.                                                *)
(***************************************************************************)
EXTENDS MeasurementBuffer, ActuatorBuffer, StateBuffer, MeasurementAverage, FiniteSetTheorems,
        SequenceTheorems, WellFoundedInduction, NaturalsInduction, TLAPS

-----------------------------------------------------------------------------
(* Indices of a ring of size n *)

LEMMA RingAfter ==
  ASSUME NEW n \in Nat, NEW i \in 0 .. n - 1
  PROVE  (i + 1) % n = IF i = n - 1 THEN 0 ELSE i + 1
  OBVIOUS

LEMMA RingBefore ==
  ASSUME NEW n \in Nat, NEW i \in 0 .. n - 1
  PROVE  (n + i - 1) % n = IF i = 0 THEN n - 1 ELSE i - 1
  OBVIOUS

\* Less than two turns.
LEMMA RingTurn ==
  ASSUME NEW n \in Nat, NEW i \in 0 .. 2 * n - 1
  PROVE  i % n = IF i < n THEN i ELSE i - n
  OBVIOUS

LEMMA RingMeet ==
  ASSUME NEW n \in Nat, NEW i \in 0 .. n - 1, NEW j \in 0 .. n - 1, (n + i - j) % n = 0
  PROVE  i = j
<1>1. n + i - j \in 0 .. 2 * n - 1
  OBVIOUS
<1> QED  BY <1>1, RingTurn

-----------------------------------------------------------------------------
(* MeasurementBuffer *)

Statuses == {"EMPTY", "READ", "GET", "READ_INVALID", "READ_TSMISMATCH"}

Cells == [status : Statuses, pulse : MeasPulses]

\* The slot after one is another one, and the one before the slot after is itself.
LEMMA MeasRing ==
  ASSUME NEW i \in MeasSlots
  PROVE  /\ Increment(i) \in MeasSlots /\ Decrement(i) \in MeasSlots
         /\ Increment(i) # i /\ Decrement(i) # i
         /\ Decrement(Increment(i)) = i
<1>1. BufferSize \in Nat /\ BufferSize >= 2 /\ i \in 0 .. BufferSize - 1
  BY BufferAssumption DEF MeasSlots
<1>2. Increment(i) = IF i = BufferSize - 1 THEN 0 ELSE i + 1
  BY <1>1, RingAfter DEF Increment
<1>3. \A j \in 0 .. BufferSize - 1 :
        Decrement(j) = IF j = 0 THEN BufferSize - 1 ELSE j - 1
  BY <1>1, RingBefore DEF Decrement
<1> QED  BY <1>1, <1>2, <1>3 DEF MeasSlots

\* What any channel can return: a datum of a pulse, or an error.
LEMMA ReadsAreData ==
  ASSUME MeasTypeOK
  PROVE  /\ \A r \in ReadChannel : r = ReadError \/ (r.ok /\ r.pulse \in MeasPulses)
         /\ \A t \in TmitRead : t.pulse \in MeasPulses \cup {NoTmit}
<1>1. 0 \in MeasPulses
  BY BufferAssumption DEF MeasPulses
<1>2. \A r \in ReadChannel : r = ReadError \/ \E p \in MeasPulses : r = Datum(p)
  BY <1>1, BufferAssumption DEF ReadChannel, FcomRead, CaRead, FileRead, NullRead
<1>3. \A r \in ReadChannel : r = ReadError \/ (r.ok /\ r.pulse \in MeasPulses)
  BY <1>2 DEF Datum
<1>4. \A r \in ReadChannel : r.pulse \in MeasPulses \cup {NoTmit}
  BY <1>3 DEF ReadError
<1>5. Datum(tmit).pulse \in MeasPulses \cup {NoTmit}
  BY DEF Datum, MeasTypeOK
<1> QED  BY <1>3, <1>4, <1>5 DEF TmitRead

LEMMA MeasInitType == MeasInit => MeasTypeOK
<1>1. BufferSize \in Nat /\ BufferSize >= 2 /\ MaxPulse \in Nat
  BY BufferAssumption
<1> QED  BY <1>1 DEF MeasInit, MeasTypeOK, MeasSlots, MeasPulses, NoTmit

LEMMA MeasStepType == MeasTypeOK /\ [MeasNext]_measVars => MeasTypeOK'
<1> SUFFICES ASSUME MeasTypeOK, [MeasNext]_measVars PROVE MeasTypeOK'
  OBVIOUS
<1>1. /\ samples \in [MeasSlots -> Cells]
      /\ next \in MeasSlots /\ now \in MeasPulses /\ tmit \in MeasPulses \cup {NoTmit}
      /\ measChannel \in BOOLEAN
  BY DEF MeasTypeOK, Cells, Statuses
<1>2. Increment(next) \in MeasSlots /\ Decrement(next) \in MeasSlots
  BY <1>1, MeasRing
<1>3. CASE NextPulse
  BY <1>1, <1>3, BufferAssumption DEF NextPulse, MeasTypeOK, MeasPulses
<1>4. CASE Read
  <2>1. PICK t \in TmitRead, r \in ReadChannel :
          /\ r.ok
          /\ samples' = [samples EXCEPT ![next] = [status |-> "READ", pulse |-> r.pulse],
                                        ![Increment(next)].status = "EMPTY"]
          /\ tmit' = t.pulse
    BY <1>4 DEF Read
  <2>2. r.pulse \in MeasPulses /\ tmit' \in MeasPulses \cup {NoTmit}
    BY <2>1, ReadsAreData DEF ReadError
  <2>3. samples' \in [MeasSlots -> Cells]
    BY <1>1, <1>2, <2>1, <2>2 DEF Cells, Statuses
  <2> QED  BY <1>1, <1>2, <1>4, <2>2, <2>3 DEF Read, MeasTypeOK, Cells, Statuses
<1>5. CASE ReadFails
  <2>1. tmit' \in MeasPulses \cup {NoTmit}
    BY <1>5, ReadsAreData DEF ReadFails
  <2>2. samples' \in [MeasSlots -> Cells]
    BY <1>1, <1>5 DEF ReadFails, Cells, Statuses
  <2> QED  BY <1>1, <1>2, <1>5, <2>1, <2>2 DEF ReadFails, MeasTypeOK, Cells, Statuses
<1>6. CASE Get \/ CheckDatum
  <2>1. samples' \in [MeasSlots -> Cells]
    BY <1>1, <1>2, <1>6 DEF Get, CheckDatum, Cells, Statuses
  <2> QED  BY <1>1, <1>6, <2>1 DEF Get, CheckDatum, MeasTypeOK, Cells, Statuses
<1>7. CASE Clear
  <2>1. samples' \in [MeasSlots -> Cells]
    BY <1>1, <1>7 DEF Clear, Cells, Statuses
  <2>2. 0 \in MeasSlots
    BY BufferAssumption DEF MeasSlots
  <2> QED  BY <1>1, <1>7, <2>1, <2>2 DEF Clear, MeasTypeOK, Cells, Statuses
<1>8. CASE SetChannel \/ UNCHANGED measVars
  BY <1>1, <1>8 DEF SetChannel, measVars, MeasTypeOK
<1> QED  BY <1>3, <1>4, <1>5, <1>6, <1>7, <1>8 DEF MeasNext

\* The ring of a measurement holds slots with a status and a pulse, and its index stays
\* in it (MeasTypeOK, a part of the types of run components).
THEOREM MeasTypeCorrect == MeasSpec => []MeasTypeOK
  BY MeasInitType, MeasStepType, PTL DEF MeasSpec

LEMMA PairOf ==
  ASSUME NEW S, NEW a \in S, NEW b \in S
  PROVE  /\ <<a>> \o <<b>> \in Seq(S) /\ Len(<<a>> \o <<b>>) = 2
         /\ (<<a>> \o <<b>>)[1] = a /\ (<<a>> \o <<b>>)[2] = b
<1>1. <<a>> \in Seq(S) /\ <<b>> \in Seq(S) /\ Len(<<a>>) = 1 /\ Len(<<b>>) = 1
  OBVIOUS
<1> QED  BY <1>1

-----------------------------------------------------------------------------
\* The last two slots are what the last reads brought, if they succeeded.
RecentInv ==
  /\ lastReads \in Seq(MeasPulses) /\ Len(lastReads) <= 2
  /\ Len(lastReads) >= 1 => lastReads[1] = Latest.pulse
  /\ Len(lastReads) = 2 => lastReads[2] = samples[Decrement(Decrement(next))].pulse

\* What a read that succeeds leaves in the last two slots.
LEMMA ReadResult ==
  ASSUME MeasTypeOK, Read
  PROVE  /\ Latest' \in Cells /\ Latest'.status = "READ"
         /\ samples'[Decrement(Decrement(next))'].pulse = Latest.pulse
         /\ lastReads' = <<Latest'.pulse>> \o (IF lastReads = <<>> THEN <<>> ELSE <<Head(lastReads)>>)
<1>1. samples \in [MeasSlots -> Cells] /\ next \in MeasSlots
  BY DEF MeasTypeOK, Cells, Statuses
<1>2. /\ Increment(next) \in MeasSlots /\ Decrement(next) \in MeasSlots
      /\ Increment(next) # next /\ Decrement(next) # next
  BY <1>1, MeasRing
<1>3. Decrement(next') = next
  BY <1>1, MeasRing DEF Read
<1>4. PICK t \in TmitRead, r \in ReadChannel :
        /\ r.ok
        /\ samples' = [samples EXCEPT ![next] = [status |-> "READ", pulse |-> r.pulse],
                                      ![Increment(next)].status = "EMPTY"]
        /\ lastReads' = <<r.pulse>> \o (IF lastReads = <<>> THEN <<>> ELSE <<Head(lastReads)>>)
  BY DEF Read
<1>5. r.pulse \in MeasPulses
  BY <1>4, ReadsAreData DEF ReadError
<1>6. samples'[next] = [status |-> "READ", pulse |-> r.pulse]
  BY <1>1, <1>2, <1>4
<1>7. samples'[Decrement(next)].pulse = samples[Decrement(next)].pulse
  BY <1>1, <1>2, <1>4 DEF Cells
<1>8. Latest' = [status |-> "READ", pulse |-> r.pulse]
  BY <1>3, <1>6 DEF Latest
<1>9. Latest' \in Cells /\ Latest'.status = "READ" /\ Latest'.pulse = r.pulse
  BY <1>5, <1>8 DEF Cells, Statuses
<1>10. samples'[Decrement(Decrement(next))'].pulse = Latest.pulse
  BY <1>3, <1>7 DEF Latest
<1> QED  BY <1>4, <1>9, <1>10

LEMMA ReadFailsResult ==
  ASSUME MeasTypeOK, ReadFails
  PROVE  Latest' \in Cells /\ Latest'.status = "READ_INVALID"
<1>1. samples \in [MeasSlots -> Cells] /\ next \in MeasSlots
  BY DEF MeasTypeOK, Cells, Statuses
<1>2. Decrement(next') = next
  BY <1>1, MeasRing DEF ReadFails
<1>3. samples'[next] = [samples[next] EXCEPT !.status = "READ_INVALID"]
  BY <1>1 DEF ReadFails
<1> QED  BY <1>1, <1>2, <1>3 DEF Latest, Cells, Statuses

\* Get and CheckDatum change the status of the latest slot.
LEMMA StatusResult ==
  ASSUME MeasTypeOK, NEW status \in Statuses, next' = next,
         samples' = [samples EXCEPT ![Decrement(next)].status = status]
  PROVE  /\ Latest' = [Latest EXCEPT !.status = status]
         /\ \A i \in MeasSlots : samples'[i].pulse = samples[i].pulse
<1>1. samples \in [MeasSlots -> Cells] /\ next \in MeasSlots
  BY DEF MeasTypeOK, Cells, Statuses
<1>2. Decrement(next) \in MeasSlots /\ Decrement(next') = Decrement(next)
  BY <1>1, MeasRing
<1>3. samples'[Decrement(next)] = [samples[Decrement(next)] EXCEPT !.status = status]
  BY <1>1, <1>2
<1>4. \A i \in MeasSlots : samples'[i].pulse = samples[i].pulse
  BY <1>1, <1>2 DEF Cells
<1> QED  BY <1>2, <1>3, <1>4 DEF Latest

LEMMA RecentStep == MeasTypeOK /\ RecentInv /\ [MeasNext]_measVars => RecentInv'
<1> SUFFICES ASSUME MeasTypeOK, RecentInv, [MeasNext]_measVars PROVE RecentInv'
  OBVIOUS
<1>1. samples \in [MeasSlots -> Cells] /\ next \in MeasSlots
  BY DEF MeasTypeOK, Cells, Statuses
<1>2. Decrement(next) \in MeasSlots /\ Decrement(Decrement(next)) \in MeasSlots
  BY <1>1, MeasRing
<1>3. CASE Read
  <2>1. /\ Latest'.pulse \in MeasPulses
        /\ samples'[Decrement(Decrement(next))'].pulse = Latest.pulse
        /\ lastReads' = <<Latest'.pulse>> \o (IF lastReads = <<>> THEN <<>> ELSE <<Head(lastReads)>>)
    BY <1>3, ReadResult DEF Cells
  <2>2. CASE lastReads = <<>>
    <3>1. lastReads' = <<Latest'.pulse>>
      BY <2>1, <2>2
    <3> QED  BY <2>1, <3>1 DEF RecentInv
  <2>3. CASE lastReads # <<>>
    <3>1. Head(lastReads) = Latest.pulse /\ Latest.pulse \in MeasPulses
      BY <2>3 DEF RecentInv
    <3>2. lastReads' = <<Latest'.pulse>> \o <<Latest.pulse>>
      BY <2>1, <2>3, <3>1
    <3>3. /\ lastReads' \in Seq(MeasPulses) /\ Len(lastReads') = 2
          /\ lastReads'[1] = Latest'.pulse /\ lastReads'[2] = Latest.pulse
      <4>1. \A a, b \in MeasPulses :
              /\ <<a>> \o <<b>> \in Seq(MeasPulses) /\ Len(<<a>> \o <<b>>) = 2
              /\ (<<a>> \o <<b>>)[1] = a /\ (<<a>> \o <<b>>)[2] = b
        BY PairOf
      <4>2. Latest'.pulse \in MeasPulses /\ Latest.pulse \in MeasPulses
        BY <2>1, <3>1
      <4> QED  BY <3>2, <4>1, <4>2
    <3> QED  BY <2>1, <3>1, <3>3 DEF RecentInv
  <2> QED  BY <2>2, <2>3
<1>4. CASE ReadFails \/ Clear
  <2>1. lastReads' = <<>>
    BY <1>4 DEF ReadFails, Clear
  <2> QED  BY <2>1 DEF RecentInv
<1>5. CASE Get \/ CheckDatum
  <2>1. PICK status \in Statuses :
          samples' = [samples EXCEPT ![Decrement(next)].status = status]
    BY <1>5 DEF Get, CheckDatum, Statuses
  <2>2. next' = next /\ lastReads' = lastReads
    BY <1>5 DEF Get, CheckDatum
  <2>3. \A i \in MeasSlots : samples'[i].pulse = samples[i].pulse
    BY <2>1, <2>2, StatusResult
  <2>4. /\ Latest'.pulse = Latest.pulse
        /\ samples'[Decrement(Decrement(next))'].pulse = samples[Decrement(Decrement(next))].pulse
    BY <1>2, <2>2, <2>3 DEF Latest
  <2> QED  BY <2>2, <2>4 DEF RecentInv
<1>6. CASE NextPulse \/ SetChannel \/ UNCHANGED measVars
  BY <1>6 DEF NextPulse, SetChannel, measVars, RecentInv, Latest
<1> QED  BY <1>3, <1>4, <1>5, <1>6 DEF MeasNext

\* After two reads that succeeded, equal time stamps of the last two slots tell that the
\* device is stuck and nothing else does, wherever the ring has wrapped, whatever was
\* checked or taken in between (Loop::checkTmit; StuckSeen of run components).
THEOREM StuckIsSeen == MeasSpec => []StuckSeen
<1>1. MeasInit => RecentInv
  BY DEF MeasInit, RecentInv
<1>2. MeasTypeOK /\ RecentInv => StuckSeen
  BY DEF RecentInv, StuckSeen, TimestampChanged
<1> QED  BY <1>1, <1>2, RecentStep, MeasTypeCorrect, PTL DEF MeasSpec

-----------------------------------------------------------------------------
\* A datum that is still fresh was not handed out.
FreshInv == Latest.status = "READ" => handed = 0

Outcome(status) ==
  CASE status = "EMPTY" -> "none"
    [] status = "READ" -> "fresh"
    [] status = "GET" -> "used"
    [] status = "READ_INVALID" -> "failed"
    [] status = "READ_TSMISMATCH" -> "mismatch"

LatestOutcome == Outcome(Latest.status)

LEMMA Outcomes ==
  /\ Outcome("EMPTY") = "none" /\ Outcome("READ") = "fresh" /\ Outcome("GET") = "used"
  /\ Outcome("READ_INVALID") = "failed" /\ Outcome("READ_TSMISMATCH") = "mismatch"
  BY DEF Outcome

LEMMA LatestIsCell == MeasTypeOK => Latest \in Cells
  BY MeasRing DEF MeasTypeOK, Latest, Cells, Statuses

\* Each step is one of LatestSample, as the outcomes of the latest slot, and keeps a
\* fresh datum from having been handed out.
StepOfSample ==
  \/ LatestOutcome' = "fresh" /\ Latest'.pulse \in MeasPulses /\ handed' = 0
  \/ LatestOutcome' = "failed" /\ Latest'.pulse \in MeasPulses /\ handed' = 0
  \/ /\ LatestOutcome = "fresh" /\ handed = 0
     /\ LatestOutcome' = "used" /\ Latest'.pulse = Latest.pulse /\ handed' = 1
  \/ /\ LatestOutcome = "fresh" /\ LatestOutcome' = "mismatch"
     /\ Latest'.pulse = Latest.pulse /\ handed' = handed
  \/ LatestOutcome' = "none" /\ Latest'.pulse \in MeasPulses /\ handed' = handed
  \/ LatestOutcome' = LatestOutcome /\ Latest'.pulse = Latest.pulse /\ handed' = handed

LEMMA SampleStep ==
  MeasTypeOK /\ FreshInv /\ [MeasNext]_measVars => FreshInv' /\ StepOfSample
<1> SUFFICES ASSUME MeasTypeOK, FreshInv, [MeasNext]_measVars
             PROVE  FreshInv' /\ StepOfSample
  OBVIOUS
<1>1. Latest \in Cells
  BY LatestIsCell
<1>2. CASE Read
  <2>1. Latest' \in Cells /\ Latest'.status = "READ" /\ handed' = 0
    BY <1>2, ReadResult DEF Read
  <2>2. LatestOutcome' = "fresh"
    BY <2>1, Outcomes DEF LatestOutcome
  <2> QED  BY <2>1, <2>2 DEF StepOfSample, FreshInv, Cells
<1>3. CASE ReadFails
  <2>1. Latest' \in Cells /\ Latest'.status = "READ_INVALID" /\ handed' = 0
    BY <1>3, ReadFailsResult DEF ReadFails
  <2>2. LatestOutcome' = "failed"
    BY <2>1, Outcomes DEF LatestOutcome
  <2> QED  BY <2>1, <2>2 DEF StepOfSample, FreshInv, Cells
<1>4. CASE Get
  <2>1. Latest' = [Latest EXCEPT !.status = "GET"]
    BY <1>4, StatusResult DEF Get, Statuses
  <2>2. Latest'.status = "GET" /\ Latest'.pulse = Latest.pulse
    BY <1>1, <2>1 DEF Cells
  <2>3. Latest.status = "READ" /\ handed = 0 /\ handed' = 1
    BY <1>4 DEF Get, FreshInv
  <2>4. LatestOutcome = "fresh" /\ LatestOutcome' = "used"
    BY <2>2, <2>3, Outcomes DEF LatestOutcome
  <2> QED  BY <2>2, <2>3, <2>4 DEF StepOfSample, FreshInv
<1>5. CASE CheckDatum
  <2>1. Latest' = [Latest EXCEPT !.status = "READ_TSMISMATCH"]
    BY <1>5, StatusResult DEF CheckDatum, Statuses
  <2>2. Latest'.status = "READ_TSMISMATCH" /\ Latest'.pulse = Latest.pulse
    BY <1>1, <2>1 DEF Cells
  <2>3. Latest.status = "READ" /\ handed' = handed
    BY <1>5 DEF CheckDatum, FailsPulseId, FailsTimestamp
  <2>4. LatestOutcome = "fresh" /\ LatestOutcome' = "mismatch"
    BY <2>2, <2>3, Outcomes DEF LatestOutcome
  <2> QED  BY <2>2, <2>3, <2>4 DEF StepOfSample, FreshInv
<1>6. CASE Clear
  <2>1. 0 \in MeasSlots
    BY BufferAssumption DEF MeasSlots
  <2>2. Decrement(0) \in MeasSlots /\ next' = 0 /\ samples \in [MeasSlots -> Cells]
    BY <1>6, <2>1, MeasRing DEF Clear, MeasTypeOK, Cells, Statuses
  <2>3. Latest' = [samples[Decrement(0)] EXCEPT !.status = "EMPTY"]
    BY <1>6, <2>2 DEF Clear, Latest
  <2>4. Latest'.status = "EMPTY" /\ Latest'.pulse \in MeasPulses
    BY <2>2, <2>3 DEF Cells
  <2>5. LatestOutcome' = "none" /\ handed' = handed
    BY <1>6, <2>4, Outcomes DEF LatestOutcome, Clear
  <2> QED  BY <2>4, <2>5 DEF StepOfSample, FreshInv
<1>7. CASE NextPulse \/ SetChannel \/ UNCHANGED measVars
  <2>1. Latest' = Latest /\ handed' = handed
    BY <1>7 DEF NextPulse, SetChannel, measVars, Latest
  <2>2. LatestOutcome' = LatestOutcome
    BY <2>1 DEF LatestOutcome
  <2> QED  BY <2>1, <2>2 DEF StepOfSample, FreshInv
<1> QED  BY <1>2, <1>3, <1>4, <1>5, <1>6, <1>7 DEF MeasNext

\* Whatever is read, checked, cleared or fails to be read, a datum is handed to an
\* algorithm at most once and only while nothing is known against it
\* (MeasurementDevice::get; DatumHandedOnce of run components).
THEOREM SampleImplemented == MeasSpec => DatumHandedOnce
<1>1. MeasInit => FreshInv /\ Promise!Init
  <2> SUFFICES ASSUME MeasInit PROVE FreshInv /\ Promise!Init
    OBVIOUS
  <2>1. Decrement(0) \in MeasSlots
    BY BufferAssumption, MeasRing DEF MeasSlots
  <2>2. Latest = [status |-> "EMPTY", pulse |-> 0]
    BY <2>1 DEF MeasInit, Latest
  <2>3. 0 \in MeasPulses
    BY BufferAssumption DEF MeasPulses
  <2>4. LatestOutcome = "none" /\ Latest.pulse \in MeasPulses /\ handed = 0
    BY <2>2, <2>3, Outcomes DEF LatestOutcome, MeasInit
  <2> QED  BY <2>4 DEF FreshInv, Promise!Init, LatestOutcome, Outcome
<1>2. StepOfSample => [Promise!Next]_<<LatestOutcome, Latest.pulse, handed>>
  BY DEF StepOfSample, LatestOutcome, Outcome, Promise!Next, Promise!Refresh, Promise!Fail, Promise!Use,
         Promise!Reject, Promise!Forget
<1>3. MeasSpec => []FreshInv
  BY <1>1, SampleStep, MeasTypeCorrect, PTL DEF MeasSpec
<1>4. MeasTypeOK /\ FreshInv /\ [MeasNext]_measVars =>
        [Promise!Next]_<<LatestOutcome, Latest.pulse, handed>>
  BY <1>2, SampleStep
<1> QED
  BY <1>1, <1>3, <1>4, MeasTypeCorrect, PTL DEF MeasSpec, DatumHandedOnce, Promise!Spec, LatestOutcome, Outcome

-----------------------------------------------------------------------------
(* ActuatorBuffer *)

Places == [status : ActStatuses, value : Doubles]

\* A device as Set and Write take it.
Devices == [buf : [ActSlots -> Places], next : ActSlots]

LastOf(dev) == dev.buf[Dec(dev.next)]

LEMMA ActRing ==
  ASSUME NEW i \in ActSlots
  PROVE  Inc(i) \in ActSlots /\ Dec(i) \in ActSlots /\ Dec(Inc(i)) = i
<1>1. ActSize \in Nat /\ ActSize >= 2 /\ i \in 0 .. ActSize - 1
  BY ActuatorAssumption DEF ActSlots
<1>2. Inc(i) = IF i = ActSize - 1 THEN 0 ELSE i + 1
  BY <1>1, RingAfter DEF Inc
<1>3. \A j \in 0 .. ActSize - 1 : Dec(j) = IF j = 0 THEN ActSize - 1 ELSE j - 1
  BY <1>1, RingBefore DEF Dec
<1> QED  BY <1>1, <1>2, <1>3 DEF ActSlots

\* Differences of doubles are doubles, and subtracting twice gives the number back.
LEMMA Differences ==
  ASSUME NEW x \in Doubles, NEW y \in Doubles
  PROVE  /\ Minus(x, y) \in Doubles
         /\ x # NaN /\ Minus(x, y) # NaN => Minus(x, Minus(x, y)) = y
<1>1. NaN \notin Int
  BY ActuatorAssumption
<1>2. CASE x = NaN \/ y = NaN
  BY <1>1, <1>2 DEF Minus, Doubles
<1>3. CASE x # NaN /\ y # NaN
  <2>1. x \in Int /\ y \in Int /\ x - y \in Int
    BY <1>3 DEF Doubles
  <2>2. Minus(x, y) = x - y /\ Minus(x, y) # NaN /\ x - (x - y) = y
    BY <1>1, <1>3, <2>1 DEF Minus
  <2>3. Minus(x, Minus(x, y)) = x - (x - y)
    BY <1>3, <2>2 DEF Minus
  <2> QED  BY <2>1, <2>2, <2>3 DEF Doubles
<1> QED  BY <1>2, <1>3

\* ActuatorDevice::set leaves the value in the latest slot; it waits to be sent only
\* if it is within the limits.
LEMMA SetResult ==
  ASSUME NEW dev \in Devices, NEW v \in Doubles, NEW status \in {"SET", "SET_SKIP"}
  PROVE  /\ Set(dev, v, status) \in Devices
         /\ LastOf(Set(dev, v, status)).value = v
         /\ LastOf(Set(dev, v, status)).status =
              IF status = "SET" /\ Outside(v) THEN "SET_LIMIT" ELSE status
<1> DEFINE place == [status |-> IF status = "SET" /\ Outside(v) THEN "SET_LIMIT" ELSE status,
                     value |-> v]
           after == Set(dev, v, status)
<1>1. place \in Places
  BY DEF Places, ActStatuses
<1>2. after = [buf |-> [dev.buf EXCEPT ![dev.next] = place], next |-> Inc(dev.next)]
  BY DEF Set
<1>3. dev.buf \in [ActSlots -> Places] /\ dev.next \in ActSlots
  BY DEF Devices
<1>4. after.buf = [dev.buf EXCEPT ![dev.next] = place] /\ after.next = Inc(dev.next)
  BY <1>2
<1>5. after \in Devices
  BY <1>1, <1>2, <1>3, ActRing DEF Devices
<1>6. LastOf(after) = place
  BY <1>3, <1>4, ActRing DEF LastOf
<1>7. place.value = v /\ place.status = IF status = "SET" /\ Outside(v) THEN "SET_LIMIT" ELSE status
  OBVIOUS
<1> QED  BY <1>5, <1>6, <1>7

LEMMA WrittenResult ==
  ASSUME NEW dev \in Devices, NEW status \in ActStatuses
  PROVE  Written(dev, status) \in Devices /\ LastOf(Written(dev, status)).status = status
<1>1. dev.buf \in [ActSlots -> Places] /\ dev.next \in ActSlots /\ Dec(dev.next) \in ActSlots
  BY ActRing DEF Devices
<1>2. dev = [buf |-> dev.buf, next |-> dev.next]
  BY DEF Devices
<1> DEFINE place == [dev.buf[Dec(dev.next)] EXCEPT !.status = status]
<1>3. Written(dev, status) = [buf |-> [dev.buf EXCEPT ![Dec(dev.next)] = place], next |-> dev.next]
  BY <1>2 DEF Written
<1>4. place \in Places /\ place.status = status
  BY <1>1 DEF Places
<1> QED  BY <1>1, <1>3, <1>4 DEF Devices, LastOf

\* ActuatorDevice::write ends with WRITE only if the value was sent, or when there was
\* nothing to send, and with nothing that waits to be sent.
LEMMA WriteResult ==
  ASSUME NEW dev \in Devices, NEW send \in BOOLEAN, NEW ok \in BOOLEAN
  PROVE  /\ Write(dev, send, ok) \in Devices
         /\ LastOf(Write(dev, send, ok)).status # "SET"
         /\ LastOf(Write(dev, send, ok)).status = "WRITE" =>
              LastOf(dev).status = "WRITE" \/ (send /\ ok /\ LastOf(dev).status = "SET")
<1> DEFINE status == LastOf(dev).status
<1>1. CASE status = "SET" /\ send /\ ok
  <2>1. Write(dev, send, ok) = Written(dev, "WRITE")
    BY <1>1 DEF Write, LastOf
  <2> QED  BY <1>1, <2>1, WrittenResult DEF ActStatuses
<1>2. CASE status = "SET" /\ ~(send /\ ok)
  <2>1. \E s \in {"WRITE_SKIP", "WRITE_NAN", "WRITE_INVALID"} :
          Write(dev, send, ok) = Written(dev, s)
    BY <1>2 DEF Write, LastOf
  <2> QED  BY <2>1, WrittenResult DEF ActStatuses
<1>3. CASE status \in {"SET_LIMIT", "SET_SKIP"}
  <2>1. Write(dev, send, ok) = Written(dev, "WRITE_SKIP")
    BY <1>3 DEF Write, LastOf
  <2> QED  BY <2>1, WrittenResult DEF ActStatuses
<1>4. CASE status \notin {"SET", "SET_LIMIT", "SET_SKIP"}
  <2>1. Write(dev, send, ok) = dev
    BY <1>4 DEF Write, LastOf
  <2> QED  BY <1>4, <2>1
<1> QED  BY <1>1, <1>2, <1>3, <1>4

\* ActuatorDevice::clear
LEMMA ClearedResult ==
  ASSUME ActTypeOK
  PROVE  Cleared \in Devices /\ LastOf(Cleared).status = "EMPTY"
<1>1. 0 \in ActSlots /\ Dec(0) \in ActSlots
  BY ActuatorAssumption, ActRing DEF ActSlots
<1>2. commands \in [ActSlots -> Places]
  BY DEF ActTypeOK, Places
<1>3. \A i \in ActSlots : /\ [commands[i] EXCEPT !.status = "EMPTY"] \in Places
                          /\ [commands[i] EXCEPT !.status = "EMPTY"].status = "EMPTY"
  BY <1>2 DEF Places, ActStatuses
<1>4. /\ Cleared.buf = [i \in ActSlots |-> [commands[i] EXCEPT !.status = "EMPTY"]]
      /\ Cleared.next = 0
  BY DEF Cleared
<1>5. Cleared \in Devices
  BY <1>1, <1>3 DEF Cleared, Devices
<1> QED  BY <1>1, <1>3, <1>4, <1>5 DEF LastOf

LEMMA DeviceTyped ==
  ASSUME ActTypeOK
  PROVE  Device \in Devices /\ LastOf(Device) \in Places /\ LastOf(Device).status = LastStatus
  BY ActRing DEF ActTypeOK, Device, Devices, Places, LastOf, LastStatus

\* A step that makes the buffer of a device the one of the LoopThread's.
LEMMA BecomesTyped ==
  ASSUME NEW dev \in Devices, Becomes(dev)
  PROVE  /\ commands' \in [ActSlots -> Places] /\ nextSet' \in ActSlots
         /\ Device' = dev /\ LastStatus' = LastOf(dev).status
<1>1. dev = [buf |-> dev.buf, next |-> dev.next] /\ dev.buf \in [ActSlots -> Places]
      /\ dev.next \in ActSlots
  BY DEF Devices
<1> QED  BY <1>1 DEF Becomes, Device, LastStatus, LastOf

\* A value that waits to be sent is within the limits.
WaitsWithinLimits == LastStatus = "SET" => ~Outside(LastOf(Device).value)

ActInv == WaitsWithinLimits /\ WrittenIsSent /\ SentWithinLimits

\* What a write by Loop::setDevices sends: only a value that waits, which is a number
\* within the limits, and which is remembered.
LEMMA SendResult ==
  ASSUME ActTypeOK, ActInv, NEW send \in BOOLEAN, NEW ok \in BOOLEAN, Send(Device, send, ok)
  PROVE  /\ lastSet' \in Doubles /\ offset' \in Doubles
         /\ sentValue' \subseteq Doubles /\ SentWithinLimits'
         /\ ok => LastStatus = "SET" /\ sentValue' = {lastSet'}
         /\ LastStatus # "SET" => lastSet' = lastSet /\ sentValue' = sentValue
<1> DEFINE slot == LastOf(Device)
<1>1. slot.value \in Doubles /\ slot.status = LastStatus
  BY DeviceTyped DEF Places
<1>2. /\ lastSet' = IF send /\ slot.status = "SET" THEN slot.value ELSE lastSet
      /\ sentValue' = IF ok THEN {slot.value} ELSE sentValue
      /\ offset' = offset \/ offset' = OffsetFor(slot.value)
      /\ ok => send /\ slot.status = "SET" /\ slot.value # NaN
  BY DEF Send, LastOf
<1>3. offset' \in Doubles
  BY <1>1, <1>2, Differences DEF OffsetFor, ActTypeOK, Doubles
<1>4. SentWithinLimits'
  BY <1>1, <1>2 DEF SentWithinLimits, ActInv, WaitsWithinLimits, Outside
<1> QED  BY <1>1, <1>2, <1>3, <1>4 DEF ActTypeOK

\* ActuatorDevice::getInitialSetting: nothing is sent, and the latest slot is not WRITE.
LEMMA InitialResult ==
  ASSUME ActTypeOK, InitialSetting
  PROVE  /\ commands' \in [ActSlots -> Places] /\ nextSet' \in ActSlots /\ lastSet' \in Doubles
         /\ LastStatus' \notin {"SET", "WRITE"}
<1>1. CASE Becomes(Cleared) /\ UNCHANGED lastSet
  BY <1>1, ClearedResult, BecomesTyped DEF ActTypeOK
<1>2. ASSUME NEW setting \in ActValues,
             \/ Outside(setting) /\ Becomes(Set(Cleared, setting, "SET")) /\ UNCHANGED lastSet
             \/ /\ ~Outside(setting) /\ Becomes(Write(Set(Cleared, setting, "SET"), FALSE, FALSE))
                /\ lastSet' = setting
      PROVE  /\ commands' \in [ActSlots -> Places] /\ nextSet' \in ActSlots /\ lastSet' \in Doubles
             /\ LastStatus' \notin {"SET", "WRITE"}
  <2> DEFINE dev == Set(Cleared, setting, "SET")
  <2>1. setting \in Doubles /\ lastSet' \in Doubles
    BY <1>2, ActuatorAssumption DEF Doubles, ActTypeOK
  <2>2. dev \in Devices
        /\ LastOf(dev).status = IF Outside(setting) THEN "SET_LIMIT" ELSE "SET"
    BY <2>1, ClearedResult, SetResult
  <2>3. CASE Outside(setting) /\ Becomes(dev)
    BY <2>1, <2>2, <2>3, BecomesTyped
  <2>4. CASE ~Outside(setting) /\ Becomes(Write(dev, FALSE, FALSE))
    <3>1. /\ Write(dev, FALSE, FALSE) \in Devices
          /\ LastOf(Write(dev, FALSE, FALSE)).status \notin {"SET", "WRITE"}
      BY <2>2, <2>4, WriteResult
    <3> QED  BY <2>1, <2>4, <3>1, BecomesTyped
  <2> QED  BY <1>2, <2>3, <2>4
<1> QED  BY <1>1, <1>2 DEF InitialSetting

LEMMA ActInitInv == ActInit => ActTypeOK /\ ActInv
<1> SUFFICES ASSUME ActInit PROVE ActTypeOK /\ ActInv
  OBVIOUS
<1>1. 0 \in ActSlots /\ Dec(0) \in ActSlots
  BY ActuatorAssumption, ActRing DEF ActSlots
<1>2. commands \in [ActSlots -> Places]
  BY DEF ActInit, Places, ActStatuses, Doubles
<1>3. ActTypeOK
  <2>1. commands \in [ActSlots -> [status : ActStatuses, value : Doubles]]
    BY <1>2 DEF Places
  <2>2. lastSet \in Doubles /\ offset \in Doubles /\ reference \in Int
    BY DEF ActInit, Doubles
  <2>3. nextSet \in ActSlots /\ actChannel \in BOOLEAN /\ sentValue \subseteq Doubles
    BY <1>1 DEF ActInit
  <2> QED  BY <2>1, <2>2, <2>3 DEF ActTypeOK
<1>4. LastStatus = "EMPTY" /\ sentValue = {}
  BY <1>1 DEF ActInit, LastStatus
<1> QED  BY <1>3, <1>4 DEF ActInv, WaitsWithinLimits, WrittenIsSent, SentWithinLimits

\* A step that leaves the buffer and what was sent as they are keeps the invariant.
LEMMA ActUnchanged ==
  ASSUME ActInv, UNCHANGED <<commands, nextSet, lastSet, sentValue>>
  PROVE  ActInv'
  BY DEF ActInv, WaitsWithinLimits, WrittenIsSent, SentWithinLimits, LastStatus, Device, LastOf

\* What SetFromReference does to the device.
LEMMA FromReferenceResult ==
  ASSUME ActTypeOK, ActInv, SetFromReference
  PROVE  ActTypeOK' /\ ActInv' /\ offset' = offset
<1> DEFINE v == Minus(reference, offset)
           dev == Set(Device, v, "SET")
<1>1. PICK send \in BOOLEAN, ok \in BOOLEAN :
        /\ ok => send /\ ~Outside(v) /\ v # NaN
        /\ Becomes(Write(dev, send, ok))
        /\ sentValue' = IF ok THEN {v} ELSE sentValue
        /\ lastSet' = v
        /\ offset' = IF send /\ ~Outside(v) /\ v # NaN THEN OffsetFor(v) ELSE offset
  BY DEF SetFromReference
<1>2. reference \in Doubles /\ offset \in Doubles /\ reference # NaN
  BY ActuatorAssumption DEF ActTypeOK, Doubles
<1>3. v \in Doubles /\ (v # NaN => Minus(reference, v) = offset)
  BY <1>2, Differences
<1>4. offset' = offset
  BY <1>1, <1>3 DEF OffsetFor
<1>5. dev \in Devices
      /\ LastOf(dev).status = IF Outside(v) THEN "SET_LIMIT" ELSE "SET"
  BY <1>3, DeviceTyped, SetResult
<1>6. /\ Write(dev, send, ok) \in Devices
      /\ LastOf(Write(dev, send, ok)).status # "SET"
      /\ LastOf(Write(dev, send, ok)).status = "WRITE" => ok
  BY <1>5, WriteResult
<1>7. /\ commands' \in [ActSlots -> Places] /\ nextSet' \in ActSlots
      /\ LastStatus' # "SET" /\ (LastStatus' = "WRITE" => ok)
  BY <1>1, <1>6, BecomesTyped
<1>8. sentValue' \subseteq Doubles /\ SentWithinLimits'
  BY <1>1, <1>3 DEF SentWithinLimits, ActInv, ActTypeOK
<1>9. reference' = reference /\ actChannel' = actChannel
  BY DEF SetFromReference
<1>10. ActTypeOK'
  BY <1>1, <1>3, <1>4, <1>7, <1>8, <1>9 DEF ActTypeOK, Places
<1> QED  BY <1>1, <1>4, <1>7, <1>8, <1>10 DEF ActInv, WaitsWithinLimits, WrittenIsSent

LEMMA ActStepInv == ActTypeOK /\ ActInv /\ [ActNext]_actVars => ActTypeOK' /\ ActInv'
<1> SUFFICES ASSUME ActTypeOK, ActInv, [ActNext]_actVars PROVE ActTypeOK' /\ ActInv'
  OBVIOUS
<1>1. CASE Calculate
  <2>1. PICK v \in Settings, status \in {"SET", "SET_SKIP"} : Becomes(Set(Device, v, status))
    BY <1>1 DEF Calculate
  <2>2. v \in Doubles
    BY ActuatorAssumption DEF Settings, Doubles
  <2>3. /\ Set(Device, v, status) \in Devices
        /\ LastOf(Set(Device, v, status)).value = v
        /\ LastOf(Set(Device, v, status)).status =
             IF status = "SET" /\ Outside(v) THEN "SET_LIMIT" ELSE status
    BY <2>2, DeviceTyped, SetResult
  <2>4. /\ commands' \in [ActSlots -> Places] /\ nextSet' \in ActSlots
        /\ LastOf(Device)'.value = v
        /\ LastStatus' = IF status = "SET" /\ Outside(v) THEN "SET_LIMIT" ELSE status
    BY <2>1, <2>3, BecomesTyped DEF LastOf
  <2> QED
    BY <1>1, <2>4 DEF Calculate, ActTypeOK, Places, ActInv, WaitsWithinLimits, WrittenIsSent,
                      SentWithinLimits
<1>2. CASE SetDevices
  <2>1. PICK send \in BOOLEAN, ok \in BOOLEAN :
          Send(Device, send, ok) /\ Becomes(Write(Device, send, ok))
    BY <1>2 DEF SetDevices
  <2>2. /\ lastSet' \in Doubles /\ offset' \in Doubles
        /\ sentValue' \subseteq Doubles /\ SentWithinLimits'
        /\ ok => LastStatus = "SET" /\ sentValue' = {lastSet'}
        /\ LastStatus # "SET" => lastSet' = lastSet /\ sentValue' = sentValue
    BY <2>1, SendResult
  <2>3. /\ Write(Device, send, ok) \in Devices
        /\ LastOf(Write(Device, send, ok)).status # "SET"
        /\ LastOf(Write(Device, send, ok)).status = "WRITE" => LastStatus = "WRITE" \/ ok
    BY DeviceTyped, WriteResult
  <2>4. /\ commands' \in [ActSlots -> Places] /\ nextSet' \in ActSlots
        /\ LastStatus' # "SET" /\ (LastStatus' = "WRITE" => LastStatus = "WRITE" \/ ok)
    BY <2>1, <2>3, BecomesTyped
  <2>5. WrittenIsSent'
    BY <2>2, <2>4 DEF WrittenIsSent, ActInv
  <2> QED
    BY <1>2, <2>2, <2>4, <2>5 DEF SetDevices, ActTypeOK, Places, ActInv, WaitsWithinLimits
<1>3. CASE SetFromReference
  BY <1>3, FromReferenceResult
<1>4. CASE ReferenceMoves \/ ChangeOffset \/ Disconnect \/ UNCHANGED actVars
  <2>1. UNCHANGED <<commands, nextSet, lastSet, sentValue>>
    BY <1>4 DEF ReferenceMoves, ChangeOffset, Disconnect, actVars
  <2>2. reference' \in Int /\ actChannel' \in BOOLEAN
    BY <1>4, ActuatorAssumption
       DEF ReferenceMoves, ChangeOffset, Disconnect, actVars, ActTypeOK
  <2>3. reference \in Doubles /\ lastSet \in Doubles /\ 0 \in Doubles /\ offset \in Doubles
    BY DEF ActTypeOK, Doubles
  <2>4. offset' \in Doubles
    BY <1>4, <2>3, Differences DEF ReferenceMoves, ChangeOffset, Disconnect, actVars
  <2> QED  BY <2>1, <2>2, <2>4, ActUnchanged DEF ActTypeOK
<1>5. CASE GetInitialSetting \/ Configure
  <2>1. /\ offset' \in Doubles /\ actChannel' \in BOOLEAN
        /\ UNCHANGED <<reference, sentValue>>
        /\ InitialSetting \/ UNCHANGED <<commands, nextSet, lastSet>>
    <3>1. CASE GetInitialSetting
      BY <3>1 DEF GetInitialSetting, ActTypeOK, Doubles
    <3>2. CASE Configure
      <4>1. (actChannel' = FALSE \/ actChannel' = TRUE) /\ UNCHANGED <<reference, sentValue>>
        BY <3>2, Zenon DEF Configure
      <4>2. offset' = offset \/ offset' = 0
        BY <3>2 DEF Configure
      <4>3. InitialSetting \/ UNCHANGED <<commands, nextSet, lastSet>>
        BY <3>2, Zenon DEF Configure
      <4>4. offset' \in Doubles
        BY <4>2 DEF ActTypeOK, Doubles
      <4>5. actChannel' \in BOOLEAN
        BY <4>1
      <4> QED  BY <4>1, <4>3, <4>4, <4>5, Zenon
    <3> QED  BY <1>5, <3>1, <3>2
  <2>2. CASE UNCHANGED <<commands, nextSet, lastSet>>
    BY <2>1, <2>2, ActUnchanged DEF ActTypeOK
  <2>3. CASE InitialSetting
    <3>1. /\ commands' \in [ActSlots -> Places] /\ nextSet' \in ActSlots /\ lastSet' \in Doubles
          /\ LastStatus' \notin {"SET", "WRITE"}
      BY <2>3, InitialResult
    <3> QED
      BY <2>1, <3>1 DEF ActTypeOK, Places, ActInv, WaitsWithinLimits, WrittenIsSent,
                        SentWithinLimits
  <2> QED  BY <2>1, <2>2, <2>3
<1> QED  BY <1>1, <1>2, <1>3, <1>4, <1>5 DEF ActNext

LEMMA ActInvariant == ActSpec => [](ActTypeOK /\ ActInv)
  BY ActInitInv, ActStepInv, PTL DEF ActSpec

\* Slots hold a status and a double, and so do what is remembered and sent (ActTypeOK, a
\* part of the types of run components).
THEOREM ActTypeCorrect == ActSpec => []ActTypeOK
  BY ActInvariant, PTL

\* What an algorithm adds its correction to is what the actuator got, as long as the latest
\* slot is WRITE: whatever failed, was skipped, refused or cleared before
\* (ActuatorDevice::write; WrittenIsSent of run components).
THEOREM WrittenWasSent == ActSpec => []WrittenIsSent
<1>1. ActInv => WrittenIsSent
  BY DEF ActInv
<1> QED  BY <1>1, ActInvariant, PTL

\* Neither NaN nor a value outside of the limits is sent, for any limits and values
\* (ActuatorDevice::set and write; SentWithinLimits of run components).
THEOREM LimitsRespected == ActSpec => []SentWithinLimits
<1>1. ActInv => SentWithinLimits
  BY DEF ActInv
<1> QED  BY <1>1, ActInvariant, PTL

-----------------------------------------------------------------------------
(* StateBuffer *)

StateCells == [status : {"EMPTY", "SET", "SET_LIMIT", "WRITE"}, calc : 0 .. MaxCalc]

UnwrittenIn(buf) == {i \in StateSlots : buf[i].status = "SET"}

\* A device of the right types whose drift, with s refusals less writes of nothing, is
\* accounted for.
StateTyped(dev) ==
  /\ dev.buf \in [StateSlots -> StateCells]
  /\ dev.next \in StateSlots /\ dev.write \in StateSlots

Accounted(dev, s) ==
  (StateSize + dev.next - dev.write) % StateSize = (Cardinality(UnwrittenIn(dev.buf)) + s) % StateSize

LEMMA StateRing ==
  /\ StateSize \in Nat /\ StateSize >= 2
  /\ \A i \in StateSlots :
       /\ SlotAfter(i) = (IF i = StateSize - 1 THEN 0 ELSE i + 1)
       /\ SlotBefore(i) = (IF i = 0 THEN StateSize - 1 ELSE i - 1)
       /\ SlotAfter(i) \in StateSlots /\ SlotBefore(i) \in StateSlots
       /\ SlotBefore(SlotAfter(i)) = i
<1>1. StateSize \in Nat /\ StateSize >= 2
  BY StateAssumption
<1>2. \A i \in 0 .. StateSize - 1 : (i + 1) % StateSize = IF i = StateSize - 1 THEN 0 ELSE i + 1
  BY <1>1, RingAfter
<1>3. \A i \in 0 .. StateSize - 1 :
        (StateSize + i - 1) % StateSize = IF i = 0 THEN StateSize - 1 ELSE i - 1
  BY <1>1, RingBefore
<1>4. ASSUME NEW i \in StateSlots
      PROVE  /\ SlotAfter(i) = (IF i = StateSize - 1 THEN 0 ELSE i + 1)
             /\ SlotBefore(i) = (IF i = 0 THEN StateSize - 1 ELSE i - 1)
             /\ SlotAfter(i) \in StateSlots /\ SlotBefore(i) \in StateSlots
             /\ SlotBefore(SlotAfter(i)) = i
  <2>1. i \in 0 .. StateSize - 1
    BY DEF StateSlots
  <2>2. /\ SlotAfter(i) = (IF i = StateSize - 1 THEN 0 ELSE i + 1)
        /\ SlotBefore(i) = (IF i = 0 THEN StateSize - 1 ELSE i - 1)
    BY <1>2, <1>3, <2>1 DEF SlotAfter, SlotBefore
  <2>3. SlotAfter(i) \in 0 .. StateSize - 1 /\ SlotBefore(i) \in 0 .. StateSize - 1
    BY <1>1, <2>1, <2>2
  <2>4. SlotBefore(SlotAfter(i)) = IF SlotAfter(i) = 0 THEN StateSize - 1 ELSE SlotAfter(i) - 1
    BY <1>3, <2>3 DEF SlotBefore
  <2> QED  BY <1>1, <2>1, <2>2, <2>3, <2>4 DEF StateSlots
<1> QED  BY <1>1, <1>4

\* The number of values never written, and what a slot more or less adds to it.
LEMMA UnwrittenCount ==
  ASSUME NEW buf, NEW i \in StateSlots, NEW cell
  PROVE  /\ Cardinality(UnwrittenIn(buf)) \in 0 .. StateSize
         /\ buf \in [StateSlots -> StateCells] =>
              Cardinality(UnwrittenIn([buf EXCEPT ![i] = cell])) =
                Cardinality(UnwrittenIn(buf))
                + (IF cell.status = "SET" THEN 1 ELSE 0)
                - (IF buf[i].status = "SET" THEN 1 ELSE 0)
<1> DEFINE U == UnwrittenIn(buf)
<1>1. IsFiniteSet(StateSlots) /\ Cardinality(StateSlots) = StateSize
  BY StateRing, FS_Interval DEF StateSlots
<1>2. IsFiniteSet(U) /\ Cardinality(U) <= StateSize
  BY <1>1, FS_Subset DEF UnwrittenIn
<1>3. Cardinality(U) \in Nat
  BY <1>2, FS_CardinalityType
<1>4. IsFiniteSet(U \ {i}) /\ Cardinality(U \ {i}) = IF i \in U THEN Cardinality(U) - 1 ELSE Cardinality(U)
  BY <1>2, FS_RemoveElement
<1>5. Cardinality((U \ {i}) \cup {i}) = Cardinality(U \ {i}) + 1
  BY <1>4, FS_AddElement
<1>6. ASSUME buf \in [StateSlots -> StateCells]
      PROVE  UnwrittenIn([buf EXCEPT ![i] = cell]) =
               IF cell.status = "SET" THEN (U \ {i}) \cup {i} ELSE U \ {i}
  BY <1>6 DEF UnwrittenIn
<1>7. i \in U <=> buf[i].status = "SET"
  BY DEF UnwrittenIn
<1> HIDE DEF U
<1>8. Cardinality(U) \in 0 .. StateSize
  BY <1>2, <1>3, StateRing
<1>9. ASSUME buf \in [StateSlots -> StateCells]
      PROVE  Cardinality(UnwrittenIn([buf EXCEPT ![i] = cell])) =
                Cardinality(U)
                + (IF cell.status = "SET" THEN 1 ELSE 0)
                - (IF buf[i].status = "SET" THEN 1 ELSE 0)
  <2>1. CASE cell.status = "SET"
    <3>1. UnwrittenIn([buf EXCEPT ![i] = cell]) = (U \ {i}) \cup {i}
      BY <1>6, <1>9, <2>1
    <3>2. Cardinality(UnwrittenIn([buf EXCEPT ![i] = cell])) = Cardinality(U \ {i}) + 1
      BY <1>5, <3>1, Zenon
    <3> QED  BY <1>3, <1>4, <1>7, <2>1, <3>2
  <2>2. CASE cell.status # "SET"
    <3>1. UnwrittenIn([buf EXCEPT ![i] = cell]) = U \ {i}
      BY <1>6, <1>9, <2>2
    <3>2. Cardinality(UnwrittenIn([buf EXCEPT ![i] = cell])) = Cardinality(U \ {i})
      BY <3>1, Zenon
    <3> QED  BY <1>3, <1>4, <1>7, <2>2, <3>2
  <2> QED  BY <2>1, <2>2
<1> QED  BY <1>8, <1>9 DEF U

\* set: the drift and what accounts for it grow together, or stay.
LEMMA SetStateResult ==
  ASSUME StateTypeOK, DriftAccounted, calc < MaxCalc, NEW status \in {"SET", "SET_LIMIT"}
  PROVE  LET dev == SetState(status) IN
         /\ StateTyped(dev)
         /\ Accounted(dev, IF status = "SET" THEN slips ELSE (slips + 1) % StateSize)
         /\ dev.buf[SlotBefore(dev.next)] = [status |-> status, calc |-> calc + 1]
<1> DEFINE dev == SetState(status)
           cell == [status |-> status, calc |-> calc + 1]
           c == Cardinality(UnwrittenIn(states))
           d == Cardinality(UnwrittenIn(dev.buf))
           s == IF status = "SET" THEN slips ELSE (slips + 1) % StateSize
<1>1. /\ states \in [StateSlots -> StateCells] /\ nextState \in StateSlots
      /\ nextStateWrite \in StateSlots /\ slips \in StateSlots
  BY DEF StateTypeOK, StateCells
<1>2. cell \in StateCells
  BY StateAssumption DEF StateTypeOK, StateCells
<1>3. /\ dev.buf = [states EXCEPT ![nextState] = cell] /\ dev.next = SlotAfter(nextState)
      /\ dev.write = IF states[nextState].status = "SET" THEN SlotAfter(nextStateWrite)
                                                         ELSE nextStateWrite
  BY DEF SetState
<1>4. StateTyped(dev)
  BY <1>1, <1>2, <1>3, StateRing DEF StateTyped
<1>5. dev.buf[SlotBefore(dev.next)] = cell
  BY <1>1, <1>3, StateRing
<1>6. /\ c \in 0 .. StateSize /\ d \in 0 .. StateSize
      /\ d = c + (IF status = "SET" THEN 1 ELSE 0)
               - (IF states[nextState].status = "SET" THEN 1 ELSE 0)
  <2>1. c \in 0 .. StateSize /\ d \in 0 .. StateSize
    BY <1>1, UnwrittenCount
  <2>2. Cardinality(UnwrittenIn([states EXCEPT ![nextState] = cell])) =
          c + (IF cell.status = "SET" THEN 1 ELSE 0)
            - (IF states[nextState].status = "SET" THEN 1 ELSE 0)
    BY <1>1, UnwrittenCount
  <2> QED  BY <1>3, <2>1, <2>2
<1>7. s \in StateSlots /\ s = IF status = "SET" THEN slips
                              ELSE IF slips = StateSize - 1 THEN 0 ELSE slips + 1
  BY <1>1, StateRing DEF SlotAfter
<1>8. (StateSize + nextState - nextStateWrite) % StateSize = (c + slips) % StateSize
  BY DEF DriftAccounted, Drift, Unwritten, UnwrittenIn
<1> HIDE DEF dev, c, d, s
<1>9. \A i \in 0 .. 2 * StateSize - 1 : i % StateSize = IF i < StateSize THEN i ELSE i - StateSize
  BY RingTurn, StateRing
<1>10. (StateSize + dev.next - dev.write) % StateSize = (d + s) % StateSize
  <2>1. /\ nextState \in 0 .. StateSize - 1 /\ nextStateWrite \in 0 .. StateSize - 1
        /\ slips \in 0 .. StateSize - 1
        /\ dev.next = (IF nextState = StateSize - 1 THEN 0 ELSE nextState + 1)
        /\ dev.write = IF states[nextState].status = "SET"
                       THEN (IF nextStateWrite = StateSize - 1 THEN 0 ELSE nextStateWrite + 1)
                       ELSE nextStateWrite
    BY <1>1, <1>3, StateRing DEF StateSlots
  <2>2. /\ StateSize + nextState - nextStateWrite \in 0 .. 2 * StateSize - 1
        /\ StateSize + dev.next - dev.write \in 0 .. 2 * StateSize - 1
        /\ c + slips \in 0 .. 2 * StateSize - 1 /\ d + s \in 0 .. 2 * StateSize - 1
    BY <1>6, <1>7, <2>1, StateRing
  <2> DEFINE Turn(k) == IF k < StateSize THEN k ELSE k - StateSize
  <2>3. Turn(StateSize + nextState - nextStateWrite) = Turn(c + slips)
    BY <1>8, <1>9, <2>2
  <2>4. Turn(StateSize + dev.next - dev.write) = Turn(d + s)
    BY <1>6, <1>7, <2>1, <2>3, StateRing
  <2> QED  BY <1>9, <2>2, <2>4
<1> QED  BY <1>4, <1>5, <1>10 DEF dev, d, s, Accounted

\* write: the drift shrinks by one, and so does what accounts for it.
LEMMA WriteStateResult ==
  ASSUME NEW dev, StateTyped(dev), NEW s \in StateSlots, Accounted(dev, s)
  PROVE  LET w == WriteState(dev)
             set == dev.buf[SlotBefore(dev.next)].status = "SET" IN
         /\ StateTyped(w) /\ w.next = dev.next
         /\ Accounted(w, IF set THEN s ELSE (StateSize + s - 1) % StateSize)
         /\ w.value = dev.buf[dev.write].calc /\ dev.write = SlotBefore(w.write)
<1> DEFINE w == WriteState(dev)
           i == SlotBefore(dev.next)
           set == dev.buf[i].status = "SET"
           cell == [dev.buf[i] EXCEPT !.status = IF @ = "SET" THEN "WRITE" ELSE @]
           c == Cardinality(UnwrittenIn(dev.buf))
           d == Cardinality(UnwrittenIn(w.buf))
           t == IF set THEN s ELSE (StateSize + s - 1) % StateSize
<1>1. /\ dev.buf \in [StateSlots -> StateCells] /\ dev.next \in StateSlots
      /\ dev.write \in StateSlots /\ i \in StateSlots /\ dev.buf[i] \in StateCells
  BY StateRing DEF StateTyped
<1>2. /\ w.buf = [dev.buf EXCEPT ![i] = cell] /\ w.next = dev.next
      /\ w.write = SlotAfter(dev.write) /\ w.value = dev.buf[dev.write].calc
  BY <1>1 DEF WriteState
<1>3. cell \in StateCells /\ cell.status = IF set THEN "WRITE" ELSE dev.buf[i].status
  BY <1>1 DEF StateCells
<1>4. StateTyped(w) /\ dev.write = SlotBefore(w.write)
  BY <1>1, <1>2, <1>3, StateRing DEF StateTyped
<1>5. /\ c \in 0 .. StateSize /\ d \in 0 .. StateSize
      /\ d = c - (IF set THEN 1 ELSE 0)
  <2>1. c \in 0 .. StateSize /\ d \in 0 .. StateSize
    BY <1>1, UnwrittenCount
  <2>2. Cardinality(UnwrittenIn([dev.buf EXCEPT ![i] = cell])) =
          c + (IF cell.status = "SET" THEN 1 ELSE 0)
            - (IF dev.buf[i].status = "SET" THEN 1 ELSE 0)
    <3> HIDE DEF cell
    <3> QED  BY <1>1, UnwrittenCount
  <2>3. cell.status # "SET"
    BY <1>3
  <2> QED  BY <1>2, <2>1, <2>2, <2>3
<1>6. t \in StateSlots /\ t = IF set THEN s ELSE IF s = 0 THEN StateSize - 1 ELSE s - 1
  BY StateRing DEF SlotBefore
<1>7. (StateSize + dev.next - dev.write) % StateSize = (c + s) % StateSize
  BY DEF Accounted
<1>8. s \in 0 .. StateSize - 1 /\ dev.next \in 0 .. StateSize - 1 /\ dev.write \in 0 .. StateSize - 1
  BY <1>1 DEF StateSlots
<1>9. w.write = IF dev.write = StateSize - 1 THEN 0 ELSE dev.write + 1
  BY <1>1, <1>2, StateRing
<1> HIDE DEF w, c, d, t, set, cell, i
<1>10. \A k \in 0 .. 2 * StateSize - 1 : k % StateSize = IF k < StateSize THEN k ELSE k - StateSize
  BY RingTurn, StateRing
<1>11. (StateSize + w.next - w.write) % StateSize = (d + t) % StateSize
  <2>1. /\ StateSize + dev.next - dev.write \in 0 .. 2 * StateSize - 1
        /\ StateSize + dev.next - w.write \in 0 .. 2 * StateSize - 1
        /\ c + s \in 0 .. 2 * StateSize - 1 /\ d + t \in 0 .. 2 * StateSize - 1
    BY <1>5, <1>6, <1>8, <1>9, StateRing DEF StateSlots
  <2> DEFINE Turn(k) == IF k < StateSize THEN k ELSE k - StateSize
  <2>2. Turn(StateSize + dev.next - dev.write) = Turn(c + s)
    BY <1>7, <1>10, <2>1
  <2>3. Turn(StateSize + dev.next - w.write) = Turn(d + t)
    <3>1. StateSize \in Nat /\ StateSize >= 2
      BY StateAssumption
    <3>2. CASE set
      BY <1>5, <1>6, <1>8, <1>9, <2>2, <3>1, <3>2
    <3>3. CASE ~set
      <4>1. d = c /\ t = IF s = 0 THEN StateSize - 1 ELSE s - 1
        BY <1>5, <1>6, <3>3
      <4>2. CASE s = 0
        <5>1. c \in 0 .. StateSize
          BY <1>5
        <5>2. CASE dev.write = StateSize - 1
          BY <1>8, <1>9, <2>2, <3>1, <4>1, <4>2, <5>1, <5>2
        <5>3. CASE dev.write # StateSize - 1
          BY <1>8, <1>9, <2>2, <3>1, <4>1, <4>2, <5>1, <5>3
        <5> QED  BY <5>2, <5>3
      <4>3. CASE s # 0
        BY <1>5, <1>8, <1>9, <2>2, <3>1, <4>1, <4>3
      <4> QED  BY <4>2, <4>3
    <3> QED  BY <3>2, <3>3
  <2> QED  BY <1>2, <1>10, <2>1, <2>3
<1> QED  BY <1>2, <1>4, <1>11 DEF Accounted, w, d, t, set, i

StateInv == StateTypeOK /\ DriftAccounted

LEMMA StateInitInv == StateInit => StateInv
<1> SUFFICES ASSUME StateInit PROVE StateInv
  OBVIOUS
<1>1. StateTypeOK
  BY StateAssumption DEF StateInit, StateTypeOK, StateSlots
<1>2. Unwritten = {}
  BY DEF StateInit, Unwritten
<1>3. Cardinality(Unwritten) + slips = 0
  BY <1>2, FS_EmptySet DEF StateInit
<1>4. Drift = StateSize % StateSize
  BY StateAssumption DEF StateInit, Drift
<1>5. StateSize \in 0 .. 2 * StateSize - 1 /\ 0 \in 0 .. 2 * StateSize - 1
  BY StateAssumption
<1>6. StateSize % StateSize = 0 /\ 0 % StateSize = 0
  BY <1>5, RingTurn, StateAssumption
<1> QED  BY <1>1, <1>3, <1>4, <1>6 DEF StateInv, DriftAccounted

\* What a device is after an operation becomes the state.
LEMMA StateBecomes ==
  ASSUME NEW dev, StateTyped(dev), Accounted(dev, slips'), BecomesState(dev)
  PROVE  /\ states' \in [StateSlots -> StateCells] /\ nextState' \in StateSlots
         /\ nextStateWrite' \in StateSlots /\ DriftAccounted'
  BY DEF StateTyped, Accounted, BecomesState, DriftAccounted, Drift, Unwritten, UnwrittenIn

LEMMA FailsResult ==
  ASSUME StateInv, CalculationFails
  PROVE  StateInv'
<1>1. PICK status \in {"SET", "SET_LIMIT"} :
        /\ BecomesState(SetState(status))
        /\ slips' = IF status = "SET" THEN slips ELSE (slips + 1) % StateSize
  BY DEF CalculationFails
<1>2. StateTyped(SetState(status)) /\ Accounted(SetState(status), slips')
  BY <1>1, SetStateResult DEF StateInv, CalculationFails
<1>3. slips' \in StateSlots
  BY <1>1, StateRing DEF StateInv, StateTypeOK, SlotAfter
<1>4. {calc', blobData', broadcast', succeeded'} \subseteq 0 .. MaxCalc
  BY StateAssumption DEF CalculationFails, StateInv, StateTypeOK
<1> QED  BY <1>1, <1>2, <1>3, <1>4, StateBecomes DEF StateInv, StateTypeOK, StateCells

\* A calculation that succeeds publishes the value at the write index, which is its own if
\* the indices meet after it.
LEMMA SucceedsResult ==
  ASSUME StateInv, CalculationSucceeds
  PROVE  StateInv' /\ (slips = 0 /\ Unwritten' = {} => blobData' = succeeded')
<1> DEFINE set == SetState("SET")
           dev == WriteState(set)
<1>1. /\ StateTyped(set) /\ Accounted(set, slips)
      /\ set.buf[SlotBefore(set.next)] = [status |-> "SET", calc |-> calc + 1]
  BY SetStateResult DEF StateInv, CalculationSucceeds
<1>2. slips \in StateSlots
  BY DEF StateInv, StateTypeOK
<1>3. /\ StateTyped(dev) /\ dev.next = set.next /\ Accounted(dev, slips)
      /\ dev.value = set.buf[set.write].calc /\ set.write = SlotBefore(dev.write)
  <2>1. set.buf[SlotBefore(set.next)].status = "SET"
    BY <1>1
  <2> HIDE DEF set
  <2> QED  BY <1>1, <1>2, <2>1, WriteStateResult
<1>4. BecomesState(dev) /\ blobData' = dev.value /\ slips' = slips
  BY DEF CalculationSucceeds
<1>5. /\ states' \in [StateSlots -> StateCells] /\ nextState' \in StateSlots
      /\ nextStateWrite' \in StateSlots /\ DriftAccounted'
  <2> HIDE DEF dev
  <2> QED  BY <1>3, <1>4, StateBecomes
<1>6. dev.value \in 0 .. MaxCalc
  <2> HIDE DEF set, dev
  <2> QED  BY <1>1, <1>3 DEF StateTyped, StateCells
<1>7. {calc', blobData', broadcast', succeeded'} \subseteq 0 .. MaxCalc
  <2> HIDE DEF dev
  <2>1. blobData' \in 0 .. MaxCalc /\ broadcast \in 0 .. MaxCalc
    BY <1>4, <1>6 DEF StateInv, StateTypeOK
  <2>2. calc + 1 \in 0 .. MaxCalc
    BY StateAssumption DEF CalculationSucceeds, StateInv, StateTypeOK
  <2> QED  BY <2>1, <2>2 DEF CalculationSucceeds
<1>8. StateInv'
  BY <1>2, <1>4, <1>5, <1>7 DEF StateInv, StateTypeOK, StateCells
<1>9. ASSUME slips = 0, Unwritten' = {}
      PROVE  blobData' = succeeded'
  <2>1. Cardinality(Unwritten)' + slips' = 0
    BY <1>4, <1>9, FS_EmptySet
  <2>2. 0 % StateSize = 0
    BY StateAssumption, RingTurn
  <2>3. (StateSize + nextState' - nextStateWrite') % StateSize = 0
    BY <1>5, <2>1, <2>2 DEF DriftAccounted, Drift
  <2>4. nextState' \in 0 .. StateSize - 1 /\ nextStateWrite' \in 0 .. StateSize - 1
    BY <1>5 DEF StateSlots
  <2>5. nextState' = nextStateWrite'
    BY <2>3, <2>4, RingMeet, StateAssumption
  <2>6. set.write = SlotBefore(set.next)
    <3> HIDE DEF set, dev
    <3> QED  BY <1>3, <1>4, <2>5 DEF BecomesState
  <2>7. dev.value = calc + 1
    <3> HIDE DEF set, dev
    <3> QED  BY <1>1, <1>3, <2>6
  <2> HIDE DEF dev
  <2> QED  BY <1>4, <2>7 DEF CalculationSucceeds
<1> QED  BY <1>8, <1>9

LEMMA UnsetResult ==
  ASSUME StateInv, WrittenUnset
  PROVE  StateInv'
<1> DEFINE dev == WriteState(Untouched)
<1>1. StateTyped(Untouched) /\ slips \in StateSlots
  BY DEF StateInv, StateTypeOK, StateTyped, StateCells, Untouched
<1>2. Accounted(Untouched, slips)
  BY DEF StateInv, DriftAccounted, Drift, Unwritten, UnwrittenIn, Accounted, Untouched
<1>3. /\ BecomesState(dev) /\ blobData' = dev.value
      /\ slips' = IF states[SlotBefore(nextState)].status = "SET"
                  THEN slips ELSE (StateSize + slips - 1) % StateSize
  BY DEF WrittenUnset
<1>4. /\ StateTyped(dev) /\ dev.value = Untouched.buf[Untouched.write].calc
      /\ Accounted(dev, slips')
  <2>1. slips' = IF Untouched.buf[SlotBefore(Untouched.next)].status = "SET"
                 THEN slips ELSE (StateSize + slips - 1) % StateSize
    BY <1>3 DEF Untouched
  <2> QED  BY <1>1, <1>2, <2>1, WriteStateResult
<1>5. dev.value \in 0 .. MaxCalc
  <2> HIDE DEF dev
  <2> QED  BY <1>1, <1>4 DEF StateTyped, StateCells
<1> HIDE DEF dev
<1>6. slips' \in StateSlots
  BY <1>1, <1>3, StateRing DEF SlotBefore
<1>7. {calc', blobData', broadcast', succeeded'} \subseteq 0 .. MaxCalc
  <2>1. blobData' \in 0 .. MaxCalc /\ broadcast \in 0 .. MaxCalc
    BY <1>3, <1>5 DEF StateInv, StateTypeOK
  <2>2. calc + 1 \in 0 .. MaxCalc
    BY StateAssumption DEF WrittenUnset, StateInv, StateTypeOK
  <2> QED  BY <2>1, <2>2 DEF WrittenUnset, StateInv, StateTypeOK
<1> QED  BY <1>3, <1>4, <1>6, <1>7, StateBecomes DEF StateInv, StateTypeOK, StateCells

LEMMA StateInvariant == StateSpec => []StateInv
<1>1. StateInv /\ UNCHANGED stateVars => StateInv'
  BY DEF StateInv, StateTypeOK, DriftAccounted, Drift, Unwritten, stateVars
<1>2. StateInv /\ [StateNext]_stateVars => StateInv'
  BY <1>1, FailsResult, SucceedsResult, UnsetResult DEF StateNext
<1> QED  BY <1>2, StateInitInv, PTL DEF StateSpec

\* Slots hold a status and a calculation, and the two indices stay in the ring (StateTypeOK,
\* a part of the types of run components).
THEOREM StateTypeCorrect == StateSpec => []StateTypeOK
<1>1. StateInv => StateTypeOK
  BY DEF StateInv
<1> QED  BY <1>1, StateInvariant, PTL

\* How far the write index of a state lags behind or runs ahead is accounted for by the
\* values not written, those refused and the writes of nothing, for a ring of any size
\* (StateDevice::set and write).
THEOREM DriftIsAccounted == StateSpec => []DriftAccounted
<1>1. StateInv => DriftAccounted
  BY DEF StateInv
<1> QED  BY <1>1, StateInvariant, PTL

\* Once refusals and writes of nothing cancel out and nothing is left unwritten, a
\* calculation that succeeds broadcasts its own value (DriftHeals of run components).
THEOREM DriftIsHealed == StateSpec => DriftHeals
<1>1. StateInv /\ [StateNext]_stateVars =>
        [succeeded' # succeeded /\ slips = 0 /\ Unwritten' = {} => blobData' = succeeded']_stateVars
  <2>1. ASSUME StateInv, StateNext, succeeded' # succeeded
        PROVE  CalculationSucceeds
    BY <2>1 DEF StateNext, CalculationFails, WrittenUnset
  <2> QED  BY <2>1, SucceedsResult
<1> QED  BY <1>1, StateInvariant, PTL DEF StateSpec, DriftHeals

-----------------------------------------------------------------------------
(* Sums of sequences *)

\* The least element of a set of numbers, for what is shown by a smallest counterexample.
LEMMA LeastNumber ==
  ASSUME NEW T \in SUBSET Nat, T # {}
  PROVE  \E x \in T : \A y \in T : x <= y
<1>1. \E x \in T : \A y \in T : ~(<<y, x>> \in OpToRel(<, Nat))
  BY NatLessThanWellFounded, WFMin, Zenon
<1>2. PICK x \in T : \A y \in T : ~(<<y, x>> \in OpToRel(<, Nat))
  BY <1>1, Zenon
<1>3. \A y \in T : ~(y < x)
  BY <1>2, Zenon DEF OpToRel
<1> QED BY <1>3

\* p adds up s from left to right.
AddsUp(p, s, n) ==
  /\ p \in [0 .. n -> Int] /\ p[0] = 0
  /\ \A i \in 1 .. n : p[i] = p[i - 1] + s[i]

LEMMA AddingExists ==
  ASSUME NEW s \in Seq(Int), NEW len \in 0 .. Len(s)
  PROVE  \E p : AddsUp(p, s, len)
<1> DEFINE T == {n \in 0 .. Len(s) : ~\E p : AddsUp(p, s, n)}
<1> SUFFICES ASSUME T # {} PROVE FALSE
  OBVIOUS
<1>1. T \in SUBSET Nat
  OBVIOUS
<1>2. PICK n \in T : \A m \in T : n <= m
  BY <1>1, LeastNumber, Zenon
<1>3. CASE n = 0
  <2> DEFINE g == [i \in 0 .. 0 |-> 0]
  <2>1. AddsUp(g, s, 0)
    BY DEF AddsUp
  <2> QED  BY <1>2, <1>3, <2>1
<1>4. CASE n # 0
  <2>1. n \in Nat /\ n - 1 \in 0 .. Len(s) /\ n - 1 \notin T /\ n \in 1 .. Len(s)
    BY <1>2, <1>4
  <2>2. PICK f : AddsUp(f, s, n - 1)
    BY <2>1
  <2> DEFINE g == [i \in 0 .. n |-> IF i = n THEN f[n - 1] + s[n] ELSE f[i]]
  <2>3. s[n] \in Int
    BY <2>1
  <2>4. /\ f \in [0 .. n - 1 -> Int] /\ f[0] = 0
        /\ \A i \in 1 .. n - 1 : f[i] = f[i - 1] + s[i]
    BY <2>2 DEF AddsUp
  <2>5. /\ \A i \in 0 .. n - 1 : g[i] = f[i] /\ f[i] \in Int
        /\ g[n] = f[n - 1] + s[n] /\ f[n - 1] \in Int
    BY <2>1, <2>4
  <2>6. g \in [0 .. n -> Int]
    <3>1. g = [i \in 0 .. n |-> g[i]]
      OBVIOUS
    <3>2. \A i \in 0 .. n : i = n \/ i \in 0 .. n - 1
      BY <2>1
    <3> HIDE DEF g
    <3>3. g[n] \in Int
      BY <2>3, <2>5
    <3>4. \A i \in 0 .. n : g[i] \in Int
      BY <2>5, <3>2, <3>3
    <3> QED  BY <3>1, <3>4, Zenon
  <2> HIDE DEF g
  <2>7. \A i \in 1 .. n : g[i] = g[i - 1] + s[i]
    <3> SUFFICES ASSUME NEW i \in 1 .. n PROVE g[i] = g[i - 1] + s[i]
      OBVIOUS
    <3>1. i \in Int /\ i - 1 \in 0 .. n - 1 /\ g[i - 1] = f[i - 1]
      BY <2>1, <2>5
    <3>2. CASE i = n
      BY <2>5, <3>1, <3>2
    <3>3. CASE i # n
      <4>1. i \in 1 .. n - 1
        BY <2>1, <3>3
      <4>2. g[i] = f[i] /\ f[i] = f[i - 1] + s[i]
        <5>1. i \in 0 .. n - 1
          BY <4>1, <2>1
        <5> QED  BY <2>4, <2>5, <4>1, <5>1, Zenon
      <4>3. i - 1 \in 0 .. n - 1 /\ g[i - 1] = f[i - 1]
        BY <3>1
      <4> QED  BY <4>2, <4>3
    <3> QED  BY <3>2, <3>3
  <2>8. AddsUp(g, s, n)
    BY <2>1, <2>4, <2>5, <2>6, <2>7 DEF AddsUp
  <2> QED  BY <1>2, <2>8
<1> QED  BY <1>3, <1>4

\* p and q grow by the same numbers.
Parallel(p, q, n) == \A i \in 1 .. n : \E x \in Int : p[i] = p[i - 1] + x /\ q[i] = q[i - 1] + x

Starts(p, q, d) == p[0] = q[0] + d

Apart(p, q, d, n) == \A i \in 0 .. n : p[i] = q[i] + d

Integral(q, n) == \A i \in 0 .. n : q[i] \in Int

\* Two ways to add up the same numbers differ by where they start.
LEMMA SameSteps ==
  ASSUME NEW n \in Nat, NEW p, NEW q, NEW d \in Int,
         Integral(q, n), Starts(p, q, d), Parallel(p, q, n)
  PROVE  Apart(p, q, d, n)
<1> DEFINE T == {i \in 0 .. n : p[i] # q[i] + d}
<1> SUFFICES ASSUME T # {} PROVE FALSE
  BY DEF Apart
<1>1. T \in SUBSET Nat
  OBVIOUS
<1>2. PICK k \in T : \A m \in T : k <= m
  BY <1>1, LeastNumber, Zenon
<1>3. k \in 1 .. n /\ k - 1 \in 0 .. n /\ p[k - 1] = q[k - 1] + d
  BY <1>2 DEF Starts
<1>4. q[k - 1] \in Int
  BY <1>3, Zenon DEF Integral
<1>5. PICK x \in Int : p[k] = p[k - 1] + x /\ q[k] = q[k - 1] + x
  BY <1>3, Zenon DEF Parallel
<1>6. p[k] = q[k] + d
  BY <1>3, <1>4, <1>5
<1> QED  BY <1>2, <1>6

LEMMA SumAddsUp ==
  ASSUME NEW s \in Seq(Int)
  PROVE  \E p : AddsUp(p, s, Len(s)) /\ Window!Sum(s) = p[Len(s)]
<1> DEFINE c == CHOOSE f : f = [i \in 0 .. Len(s) |-> IF i = 0 THEN 0 ELSE f[i - 1] + s[i]]
<1>1. Window!Sum(s) = c[Len(s)]
  BY DEF Window!Sum, Window!PartialSums
<1>2. PICK p : AddsUp(p, s, Len(s))
  BY AddingExists
<1>3. p = [i \in 0 .. Len(s) |-> IF i = 0 THEN 0 ELSE p[i - 1] + s[i]]
  BY <1>2 DEF AddsUp
<1>4. c = [i \in 0 .. Len(s) |-> IF i = 0 THEN 0 ELSE c[i - 1] + s[i]]
  <2> SUFFICES \E f : f = [i \in 0 .. Len(s) |-> IF i = 0 THEN 0 ELSE f[i - 1] + s[i]]
    BY Zenon
  <2> QED  BY <1>3, Zenon
<1> HIDE DEF c
<1>5. c[0] = p[0] + 0 /\ \A i \in 1 .. Len(s) : c[i] = c[i - 1] + s[i]
  <2>1. \A i \in 0 .. Len(s) : c[i] = IF i = 0 THEN 0 ELSE c[i - 1] + s[i]
    BY <1>4
  <2>2. p[0] = 0
    BY <1>2 DEF AddsUp
  <2> QED  BY <2>1, <2>2
<1>6. Integral(p, Len(s)) /\ Parallel(c, p, Len(s))
  <2>1. \A i \in 1 .. Len(s) : s[i] \in Int
    OBVIOUS
  <2>2. /\ p \in [0 .. Len(s) -> Int]
        /\ \A i \in 1 .. Len(s) : p[i] = p[i - 1] + s[i]
    BY <1>2 DEF AddsUp
  <2>3. \A i \in 0 .. Len(s) : p[i] \in Int
    BY <2>2
  <2> QED  BY <1>5, <2>1, <2>2, <2>3, Zenon DEF Parallel, Integral
<1>7. Apart(c, p, 0, Len(s))
  <2>1. Len(s) \in Nat /\ 0 \in Int /\ Starts(c, p, 0)
    BY <1>5 DEF Starts
  <2> QED  BY <1>6, <2>1, SameSteps, Zenon
<1>8. c[Len(s)] = p[Len(s)]
  BY <1>6, <1>7 DEF Integral, Apart
<1> QED  BY <1>1, <1>2, <1>8

LEMMA SumOfNone == Window!Sum(<<>>) = 0
<1>1. PICK p : AddsUp(p, <<>>, Len(<<>>)) /\ Window!Sum(<<>>) = p[Len(<<>>)]
  <2>1. <<>> \in Seq(Int)
    OBVIOUS
  <2> QED  BY <2>1, SumAddsUp, Zenon
<1> QED  BY <1>1 DEF AddsUp

LEMMA SumOfAppend ==
  ASSUME NEW s \in Seq(Int), NEW m \in Int
  PROVE  Window!Sum(s) \in Int /\ Window!Sum(Append(s, m)) = Window!Sum(s) + m
<1> DEFINE t == Append(s, m)
           n == Len(s)
<1>1. t \in Seq(Int) /\ Len(t) = n + 1 /\ t[n + 1] = m /\ \A i \in 1 .. n : t[i] = s[i]
  OBVIOUS
<1>2. PICK p : AddsUp(p, s, n) /\ Window!Sum(s) = p[n]
  BY SumAddsUp
<1> HIDE DEF t
<1>3. PICK q : AddsUp(q, t, n + 1) /\ Window!Sum(t) = q[n + 1]
  BY <1>1, SumAddsUp
<1>4. /\ \A i \in 0 .. n : p[i] \in Int /\ q[i] \in Int
      /\ q[n + 1] \in Int
      /\ q[0] = p[0] + 0 /\ n \in Nat /\ 0 \in Int
      /\ \A i \in 1 .. n : p[i] = p[i - 1] + s[i]
      /\ \A i \in 1 .. n + 1 : q[i] = q[i - 1] + t[i]
  <2>1. /\ p \in [0 .. n -> Int] /\ p[0] = 0
        /\ \A i \in 1 .. n : p[i] = p[i - 1] + s[i]
    BY <1>2, Zenon DEF AddsUp
  <2>2. /\ q \in [0 .. n + 1 -> Int] /\ q[0] = 0
        /\ \A i \in 1 .. n + 1 : q[i] = q[i - 1] + t[i]
    BY <1>3, Zenon DEF AddsUp
  <2>3. n \in Nat
    OBVIOUS
  <2> HIDE DEF n
  <2> QED  BY <2>1, <2>2, <2>3
<1>5. \A i \in 1 .. n : s[i] \in Int /\ q[i] = q[i - 1] + s[i]
  <2>1. \A i \in 1 .. n : s[i] \in Int
    OBVIOUS
  <2>2. \A i \in 1 .. n : i \in 1 .. n + 1 /\ t[i] = s[i]
    BY <1>1, <1>4
  <2>3. \A i \in 1 .. n : q[i] = q[i - 1] + t[i]
    BY <1>4, <2>2, Zenon
  <2> QED  BY <2>1, <2>2, <2>3
<1>6. \A i \in 0 .. n : q[i] = p[i] + 0
  <2>1. Parallel(q, p, n) /\ Integral(p, n) /\ Starts(q, p, 0)
    BY <1>4, <1>5, Zenon DEF Parallel, Integral, Starts
  <2>2. n \in Nat /\ 0 \in Int
    BY <1>4
  <2> HIDE DEF n
  <2>3. Apart(q, p, 0, n)
    BY <2>1, <2>2, SameSteps, Zenon
  <2> QED  BY <2>3, Zenon DEF Apart
<1>7. q[n + 1] = q[n] + m
  BY <1>1, <1>4
<1> QED  BY <1>2, <1>3, <1>4, <1>6, <1>7 DEF t

LEMMA SumOfTail ==
  ASSUME NEW s \in Seq(Int), s # <<>>
  PROVE  Window!Sum(Tail(s)) = Window!Sum(s) - s[1]
<1> DEFINE t == Tail(s)
           n == Len(s) - 1
<1>1. t \in Seq(Int) /\ Len(t) = n /\ n \in Nat /\ \A i \in 1 .. n : t[i] = s[i + 1]
  OBVIOUS
<1>2. PICK p : AddsUp(p, s, n + 1) /\ Window!Sum(s) = p[n + 1]
  BY SumAddsUp
<1> HIDE DEF t
<1>3. PICK q : AddsUp(q, t, n) /\ Window!Sum(t) = q[n]
  BY <1>1, SumAddsUp
<1> DEFINE r == [i \in 0 .. n |-> p[i + 1]]
<1>4. \A i \in 1 .. n + 1 : s[i] \in Int
  OBVIOUS
<1>5. /\ p[0] = 0 /\ q[0] = 0
      /\ \A i \in 0 .. n : q[i] \in Int /\ p[i + 1] \in Int
      /\ \A i \in 1 .. n + 1 : p[i] = p[i - 1] + s[i]
      /\ \A i \in 1 .. n : q[i] = q[i - 1] + t[i]
  <2>1. /\ p \in [0 .. n + 1 -> Int] /\ p[0] = 0
        /\ \A i \in 1 .. n + 1 : p[i] = p[i - 1] + s[i]
    BY <1>2, Zenon DEF AddsUp
  <2>2. /\ q \in [0 .. n -> Int] /\ q[0] = 0
        /\ \A i \in 1 .. n : q[i] = q[i - 1] + t[i]
    BY <1>3, Zenon DEF AddsUp
  <2> HIDE DEF n
  <2> QED  BY <1>1, <2>1, <2>2
<1>6. \A i \in 0 .. n : r[i] = p[i + 1]
  OBVIOUS
<1> HIDE DEF r
<1>7. r[0] = q[0] + s[1] /\ s[1] \in Int
  BY <1>1, <1>4, <1>5, <1>6
<1>8. \A i \in 1 .. n :
        r[i] = r[i - 1] + s[i + 1] /\ q[i] = q[i - 1] + s[i + 1] /\ s[i + 1] \in Int
  <2> HIDE DEF n
  <2> SUFFICES ASSUME NEW i \in 1 .. n
               PROVE  /\ r[i] = r[i - 1] + s[i + 1]
                      /\ q[i] = q[i - 1] + s[i + 1] /\ s[i + 1] \in Int
    OBVIOUS
  <2>1. i \in 0 .. n /\ i - 1 \in 0 .. n /\ i + 1 \in 1 .. n + 1 /\ (i + 1) - 1 = i /\ (i - 1) + 1 = i
    BY <1>1
  <2>2. r[i] = p[i + 1] /\ r[i - 1] = p[i]
    BY <1>6, <2>1
  <2>3. p[i + 1] = p[i] + s[i + 1]
    BY <1>5, <2>1
  <2>4. q[i] = q[i - 1] + s[i + 1]
    BY <1>1, <1>5
  <2> QED  BY <1>4, <2>1, <2>2, <2>3, <2>4
<1>9. \A i \in 0 .. n : r[i] = q[i] + s[1]
  <2>1. Parallel(r, q, n)
    BY <1>8, Zenon DEF Parallel
  <2>2. Integral(q, n) /\ Starts(r, q, s[1])
    BY <1>5, <1>7, Zenon DEF Integral, Starts
  <2>3. n \in Nat /\ s[1] \in Int
    BY <1>1, <1>7
  <2> HIDE DEF n
  <2>4. Apart(r, q, s[1], n)
    BY <2>1, <2>2, <2>3, SameSteps, Zenon
  <2> QED  BY <2>4, Zenon DEF Apart
<1>10. Window!Sum(s) = Window!Sum(t) + s[1] /\ Window!Sum(t) \in Int
  BY <1>1, <1>2, <1>3, <1>5, <1>6, <1>9
<1> QED  BY <1>7, <1>10 DEF t

-----------------------------------------------------------------------------
(* The ring *)

\* Indices that are out of the ring on either side by less than a turn.
LEMMA RingIndex ==
  ASSUME NEW n \in Nat, NEW k \in 1 - n .. n
  PROVE  k % n = IF k < 0 THEN k + n ELSE IF k = n THEN 0 ELSE k
  OBVIOUS

\* The invariant: once the ring is full the tail is the slot after the head, until then
\* it is the slot before the first sample; and the sum is that of the samples kept.
AvgInv ==
  /\ AvgTypeOK
  /\ full => tail = Following(head)
  /\ ~full => tail = 0
  /\ sum = Window!Sum(Kept)

LEMMA RingIndices ==
  /\ AverageSize \in Nat /\ AverageSize >= 1 /\ 0 \in RingSlots
  /\ \A i \in RingSlots : i \in Int /\ 0 <= i /\ i < AverageSize
  /\ \A i \in RingSlots : Following(i) = IF i = AverageSize - 1 THEN 0 ELSE i + 1
  /\ \A i \in RingSlots : Following(i) \in RingSlots
<1>1. AverageSize \in Nat /\ AverageSize >= 1
  BY AverageAssumption
<1>2. \A i \in RingSlots : i + 1 \in 1 - AverageSize .. AverageSize
  BY <1>1 DEF RingSlots
<1>3. \A i \in RingSlots : Following(i) = IF i = AverageSize - 1 THEN 0 ELSE i + 1
  <2> SUFFICES ASSUME NEW i \in RingSlots
               PROVE  Following(i) = IF i = AverageSize - 1 THEN 0 ELSE i + 1
    OBVIOUS
  <2>1. i \in 0 .. AverageSize - 1 /\ i + 1 \in 1 - AverageSize .. AverageSize
    BY <1>2 DEF RingSlots
  <2>2. (i + 1) % AverageSize
          = IF i + 1 < 0 THEN i + 1 + AverageSize ELSE IF i + 1 = AverageSize THEN 0 ELSE i + 1
    BY <1>1, <2>1, RingIndex
  <2> QED  BY <1>1, <2>1, <2>2 DEF Following
<1> QED  BY <1>1, <1>3 DEF RingSlots

\* Where the i-th of d samples is, the last of them at h.
Slot(h, d, i) == IF h - d + i < 0 THEN h - d + i + AverageSize ELSE h - d + i

Rings == [RingSlots -> Measured \cup {0}]

KeptOf(r, h, d) == [i \in 1 .. d |-> r[(h - d + i) % AverageSize]]

LEMMA RingsAreIntegral == \A r \in Rings, i \in RingSlots : r[i] \in Int
<1> SUFFICES ASSUME NEW r \in Rings, NEW i \in RingSlots PROVE r[i] \in Int
  OBVIOUS
<1>1. r[i] \in Measured \/ r[i] = 0
  BY DEF Rings
<1>2. Measured \subseteq Int /\ 0 \in Int
  BY AverageAssumption
<1> QED  BY <1>1, <1>2, Zenon

LEMMA KeptIn ==
  ASSUME NEW r \in Rings, NEW h \in RingSlots, NEW d \in 0 .. AverageSize
  PROVE  /\ KeptOf(r, h, d) \in Seq(Int) /\ Len(KeptOf(r, h, d)) = d
         /\ \A i \in 1 .. d : KeptOf(r, h, d)[i] = r[Slot(h, d, i)] /\ Slot(h, d, i) \in RingSlots
<1>1. AverageSize \in Nat /\ h \in 0 .. AverageSize - 1
  BY RingIndices DEF RingSlots
<1>2. ASSUME NEW i \in 1 .. d
      PROVE  /\ (h - d + i) % AverageSize = Slot(h, d, i)
             /\ Slot(h, d, i) \in RingSlots
  <2>1. h - d + i \in 1 - AverageSize .. AverageSize /\ h - d + i # AverageSize
    BY <1>1
  <2>2. (h - d + i) % AverageSize = Slot(h, d, i)
    BY <1>1, <2>1, RingIndex DEF Slot
  <2>3. Slot(h, d, i) \in RingSlots
    BY <1>1 DEF Slot, RingSlots
  <2> QED  BY <2>2, <2>3
<1>3. \A i \in RingSlots : r[i] \in Int
  BY RingsAreIntegral
<1>4. /\ DOMAIN KeptOf(r, h, d) = 1 .. d
      /\ \A i \in 1 .. d : KeptOf(r, h, d)[i] = r[Slot(h, d, i)]
  BY <1>2 DEF KeptOf
<1>5. KeptOf(r, h, d) \in [1 .. d -> Int]
  BY <1>2, <1>3 DEF KeptOf
<1>6. KeptOf(r, h, d) \in Seq(Int) /\ Len(KeptOf(r, h, d)) = d
  BY <1>1, <1>5
<1> QED  BY <1>1, <1>2, <1>4, <1>6

LEMMA KeptNow ==
  /\ Kept = KeptOf(ring, head, Divisor) /\ Kept' = KeptOf(ring', head', Divisor')
  /\ AvgTypeOK => ring \in Rings /\ head \in RingSlots /\ Divisor \in 0 .. AverageSize
  /\ AvgTypeOK' => ring' \in Rings /\ head' \in RingSlots /\ Divisor' \in 0 .. AverageSize
<1>1. RingSlots \subseteq 0 .. AverageSize /\ AverageSize \in 0 .. AverageSize
  BY RingIndices DEF RingSlots
<1> QED  BY <1>1 DEF Kept, KeptOf, AvgTypeOK, Rings, Divisor

\* Types hold by themselves.
LEMMA AvgStepType ==
  ASSUME AvgTypeOK, [AvgNext]_avgVars
  PROVE  AvgTypeOK'
<1>1. CASE UNCHANGED avgVars
  BY <1>1 DEF avgVars, AvgTypeOK
<1>2. ASSUME NEW m \in Measured, Add(m)
      PROVE  AvgTypeOK'
  <2>1. Following(head) \in RingSlots /\ Following(tail) \in RingSlots
    BY RingIndices DEF AvgTypeOK
  <2>2. ring[tail] \in Int /\ m \in Int
    BY AverageAssumption, KeptNow, RingsAreIntegral DEF AvgTypeOK
  <2> QED  BY <1>2, <2>1, <2>2 DEF AvgTypeOK, Add
<1>3. CASE ClearAverage
  BY <1>3, RingIndices DEF AvgTypeOK, ClearAverage
<1> QED  BY <1>1, <1>2, <1>3 DEF AvgNext

\* A new sample takes the place of the oldest one, or a free one.
LEMMA AddKeeps ==
  ASSUME AvgInv, AvgTypeOK', NEW m \in Measured, Add(m)
  PROVE  /\ full' => tail' = Following(head')
         /\ ~full' => tail' = 0
         /\ ~full => Len(Kept) < AverageSize /\ Kept' = Append(Kept, m)
         /\ full => Len(Kept) = AverageSize /\ Kept' = Tail(Append(Kept, m))
<1> DEFINE n == AverageSize
           h == Following(head)
<1>1. /\ n \in Nat /\ n >= 1 /\ head \in 0 .. n - 1
      /\ h = IF head = n - 1 THEN 0 ELSE head + 1
      /\ tail = IF full THEN h ELSE 0
      /\ full \in BOOLEAN /\ m \in Int /\ ring \in [0 .. n - 1 -> Int]
  <2>1. m \in Int /\ ring \in Rings /\ \A i \in RingSlots : ring[i] \in Int
    BY AverageAssumption, KeptNow, RingsAreIntegral DEF AvgInv
  <2>2. ring \in [0 .. n - 1 -> Int]
    BY <2>1 DEF Rings, RingSlots
  <2> QED  BY <2>1, <2>2, RingIndices DEF AvgInv, AvgTypeOK, RingSlots
<1>2. /\ head' = h /\ tail' = (IF h = tail THEN Following(tail) ELSE tail)
      /\ full' = (full \/ h = tail) /\ ring' = [ring EXCEPT ![h] = m]
  BY DEF Add
<1> HIDE DEF h
<1>3. /\ full' => tail' = Following(head')
      /\ ~full' => tail' = 0
  BY <1>1, <1>2
<1>4. \A i \in 0 .. n - 1 : ring'[i] = IF i = h THEN m ELSE ring[i]
  BY <1>1, <1>2
<1>5. /\ Kept \in Seq(Int) /\ Len(Kept) = Divisor
      /\ \A i \in 1 .. Divisor :
           Kept[i] = ring[Slot(head, Divisor, i)] /\ Slot(head, Divisor, i) \in 0 .. n - 1
  BY KeptNow, KeptIn DEF AvgInv, RingSlots
<1>6. /\ Kept' \in Seq(Int) /\ Len(Kept') = Divisor'
      /\ \A i \in 1 .. Divisor' :
           /\ Kept'[i] = ring'[Slot(h, Divisor', i)]
           /\ Slot(h, Divisor', i) \in 0 .. n - 1
  <2>1. /\ Kept' = KeptOf(ring', h, Divisor') /\ ring' \in Rings /\ h \in RingSlots
        /\ Divisor' \in 0 .. n
    BY <1>2, KeptNow
  <2> QED  BY <2>1, KeptIn DEF RingSlots
<1>7. CASE ~full
  <2>1. Divisor = head /\ Divisor' = head + 1
    <3>1. Divisor = head /\ Divisor' = IF full' THEN n ELSE head'
      BY <1>7 DEF Divisor
    <3>2. tail = 0 /\ (h = tail <=> head = n - 1)
      BY <1>1, <1>7
    <3>3. full' <=> h = tail
      BY <1>2, <1>7, Zenon
    <3>4. CASE h = tail
      <4>1. Divisor = head /\ Divisor' = n
        BY <3>1, <3>3, <3>4, Zenon
      <4> QED  BY <1>1, <3>2, <3>4, <4>1
    <3>5. CASE h # tail
      BY <1>1, <1>2, <3>1, <3>2, <3>3, <3>5
    <3> QED  BY <3>4, <3>5
  <2>2. ASSUME NEW i \in 1 .. head + 1
        PROVE  Kept'[i] = Append(Kept, m)[i]
    <3>1. CASE i = head + 1
      <4>1. Slot(h, head + 1, i) = h
        BY <1>1, <3>1 DEF Slot
      <4>2. Kept'[i] = m
        BY <1>1, <1>4, <1>6, <2>1, <4>1
      <4> QED  BY <1>5, <2>1, <3>1, <4>2
    <3>2. CASE i # head + 1
      <4>1. i \in 1 .. head
        BY <1>1, <3>2
      <4>2. Slot(h, head + 1, i) = i /\ Slot(head, head, i) = i /\ i # h
        BY <1>1, <4>1 DEF Slot
      <4>3. Kept'[i] = ring[i] /\ Kept[i] = ring[i]
        <5>1. i \in 1 .. head + 1 /\ i \in 0 .. n - 1
          BY <1>1, <4>1
        <5>2. Kept'[i] = ring'[i] /\ Kept[i] = ring[i]
          BY <1>5, <1>6, <2>1, <4>1, <4>2, <5>1
        <5> QED  BY <1>4, <4>2, <5>1, <5>2
      <4> QED  BY <1>5, <2>1, <4>1, <4>3
    <3> QED  BY <3>1, <3>2
  <2>3. Append(Kept, m) \in Seq(Int) /\ Len(Append(Kept, m)) = head + 1
    BY <1>1, <1>5, <2>1
  <2>4. Kept' = Append(Kept, m)
    BY <1>6, <2>1, <2>2, <2>3
  <2>5. Len(Kept) < AverageSize
    BY <1>1, <1>5, <2>1
  <2> QED  BY <1>3, <1>7, <2>4, <2>5
<1>8. CASE full
  <2>1. Divisor = n /\ Divisor' = n
    BY <1>2, <1>8 DEF Divisor
  <2> DEFINE all == Append(Kept, m)
  <2>2. /\ all \in Seq(Int) /\ Len(all) = n + 1 /\ all[n + 1] = m
        /\ \A i \in 1 .. n : all[i] = Kept[i]
    BY <1>1, <1>5, <2>1
  <2> HIDE DEF all
  <2>3. /\ Tail(all) \in Seq(Int) /\ Len(Tail(all)) = n
        /\ \A i \in 1 .. n : Tail(all)[i] = all[i + 1]
    BY <1>1, <2>2
  <2>4. ASSUME NEW i \in 1 .. n
        PROVE  Kept'[i] = all[i + 1]
    <3>1. CASE i = n
      <4>1. Slot(h, n, i) = h
        BY <1>1, <3>1 DEF Slot
      <4>2. Kept'[i] = m
        BY <1>1, <1>4, <1>6, <2>1, <4>1
      <4> QED  BY <2>2, <3>1, <4>2
    <3>2. CASE i # n
      <4>1. i + 1 \in 1 .. n
        BY <1>1, <3>2
      <4>2. Slot(h, n, i) = Slot(head, n, i + 1) /\ Slot(h, n, i) # h
        BY <1>1, <3>2 DEF Slot
      <4>3. Kept'[i] = ring[Slot(h, n, i)]
        BY <1>4, <1>6, <2>1, <4>2
      <4>4. Kept[i + 1] = ring[Slot(head, n, i + 1)]
        BY <1>5, <2>1, <4>1
      <4> QED  BY <2>2, <4>1, <4>2, <4>3, <4>4
    <3> QED  BY <3>1, <3>2
  <2>5. Kept' = Tail(all)
    <3>1. \A i \in 1 .. n : Kept'[i] = Tail(all)[i]
      BY <2>3, <2>4, Zenon
    <3>2. Kept' \in Seq(Int) /\ Len(Kept') = n
      BY <1>6, <2>1, Zenon
    <3> HIDE DEF n
    <3> QED  BY <2>3, <3>1, <3>2
  <2> QED  BY <1>3, <1>5, <1>8, <2>1, <2>5 DEF all
<1> QED  BY <1>1, <1>7, <1>8

\* What leaves the sum is what leaves the window.
LEMMA AddSums ==
  ASSUME AvgInv, AvgTypeOK', NEW m \in Measured, Add(m)
  PROVE  sum' = Window!Sum(Kept')
<1>1. Kept \in Seq(Int) /\ m \in Int /\ Len(Kept) = Divisor /\ sum = Window!Sum(Kept)
  BY KeptNow, KeptIn, AverageAssumption DEF AvgInv
<1>2. sum \in Int /\ Window!Sum(Append(Kept, m)) = sum + m
  BY <1>1, SumOfAppend
<1>3. CASE ~full
  <2>1. Kept' = Append(Kept, m)
    BY <1>3, AddKeeps
  <2>2. sum' = sum - 0 + m
    BY <1>3 DEF Add
  <2> QED  BY <1>1, <1>2, <2>1, <2>2
<1>4. CASE full
  <2>1. Kept' = Tail(Append(Kept, m)) /\ Len(Kept) = AverageSize /\ Divisor = AverageSize
    BY <1>1, <1>4, AddKeeps
  <2>2. AverageSize \in Nat /\ AverageSize >= 1 /\ head \in 0 .. AverageSize - 1
    BY RingIndices DEF AvgInv, AvgTypeOK, RingSlots
  <2>3. Slot(head, AverageSize, 1) = tail
    BY <1>4, <2>2, RingIndices DEF AvgInv, AvgTypeOK, Slot
  <2>4. 1 \in 1 .. Divisor
    BY <2>1, <2>2
  <2>5. Kept[1] = ring[tail]
    <3>1. /\ Kept = KeptOf(ring, head, AverageSize) /\ ring \in Rings /\ head \in RingSlots
          /\ AverageSize \in 0 .. AverageSize /\ 1 \in 1 .. AverageSize
      BY <2>1, <2>2, KeptNow DEF AvgInv
    <3>2. KeptOf(ring, head, AverageSize)[1] = ring[Slot(head, AverageSize, 1)]
      BY <3>1, KeptIn
    <3> QED  BY <2>3, <3>1, <3>2
  <2>6. /\ Append(Kept, m) \in Seq(Int) /\ Append(Kept, m) # <<>>
        /\ Append(Kept, m)[1] = Kept[1] /\ Kept[1] \in Int
    BY <1>1, <2>1, <2>2
  <2>7. Window!Sum(Tail(Append(Kept, m))) = Window!Sum(Append(Kept, m)) - Append(Kept, m)[1]
    BY <2>6, SumOfTail, Zenon
  <2>8. sum' = sum - ring[tail] + m
    BY <1>4 DEF Add
  <2> QED  BY <1>1, <1>2, <2>1, <2>5, <2>6, <2>7, <2>8
<1> QED  BY <1>3, <1>4 DEF AvgInv, AvgTypeOK

-----------------------------------------------------------------------------
(* The theorems *)

LEMMA AvgInitInv ==
  ASSUME AvgInit
  PROVE  AvgInv /\ Kept = <<>> /\ sum = 0
<1>1. AvgTypeOK
  BY RingIndices DEF AvgInit, AvgTypeOK
<1>2. Divisor = 0
  BY DEF AvgInit, Divisor
<1>3. Kept = <<>>
  BY <1>1, <1>2, KeptNow, KeptIn
<1>4. Window!Sum(Kept) = 0
  BY <1>3, SumOfNone
<1> QED  BY <1>1, <1>3, <1>4 DEF AvgInit, AvgInv

LEMMA ClearedIsEmpty ==
  ASSUME AvgTypeOK', ClearAverage
  PROVE  Kept' = <<>> /\ sum' = 0 /\ ~full' /\ tail' = 0
<1>1. Divisor' = 0
  BY DEF ClearAverage, Divisor
<1>2. Kept' \in Seq(Int) /\ Len(Kept') = 0
  BY <1>1, KeptNow, KeptIn
<1> QED  BY <1>2 DEF ClearAverage

LEMMA AvgStepInv == AvgInv /\ [AvgNext]_avgVars => AvgInv'
<1> SUFFICES ASSUME AvgInv, [AvgNext]_avgVars PROVE AvgInv'
  OBVIOUS
<1>1. AvgTypeOK'
  BY AvgStepType DEF AvgInv
<1>2. CASE UNCHANGED avgVars
  BY <1>1, <1>2 DEF avgVars, AvgInv, Kept, Divisor
<1>3. ASSUME NEW m \in Measured, Add(m)
      PROVE  AvgInv'
  BY <1>1, <1>3, AddKeeps, AddSums DEF AvgInv
<1>4. CASE ClearAverage
  BY <1>1, <1>4, ClearedIsEmpty, SumOfNone DEF AvgInv
<1> QED  BY <1>2, <1>3, <1>4 DEF AvgNext

\* Indices stay in the ring.
THEOREM AverageTypeCorrect == AvgSpec => []AvgTypeOK
<1>1. AvgInit => AvgTypeOK
  BY AvgInitInv DEF AvgInv
<1>2. AvgTypeOK /\ [AvgNext]_avgVars => AvgTypeOK'
  BY AvgStepType
<1> QED  BY <1>1, <1>2, PTL DEF AvgSpec

\* Every step maps to one of the window, or to none.
LEMMA WindowStep == AvgInv /\ AvgInv' /\ [AvgNext]_avgVars => [Window!Next]_<<Kept, sum>>
<1> SUFFICES ASSUME AvgInv, AvgInv', [AvgNext]_avgVars
             PROVE  [Window!Next]_<<Kept, sum>>
  OBVIOUS
<1>1. CASE UNCHANGED avgVars
  BY <1>1 DEF avgVars, Kept, Divisor
<1>2. ASSUME NEW m \in Measured, Add(m)
      PROVE  Window!Next
  <2>1. /\ ~full => Len(Kept) < AverageSize /\ Kept' = Append(Kept, m)
        /\ full => Len(Kept) = AverageSize /\ Kept' = Tail(Append(Kept, m))
    BY <1>2, AddKeeps DEF AvgInv
  <2>2. /\ Len(Append(Kept, m)) = Len(Kept) + 1 /\ Len(Kept) \in Nat /\ AverageSize \in Nat
    BY KeptNow, KeptIn, RingIndices, AverageAssumption DEF AvgInv
  <2>3. Kept' = IF Len(Append(Kept, m)) > AverageSize THEN Tail(Append(Kept, m))
                ELSE Append(Kept, m)
    BY <2>1, <2>2
  <2>4. Window!Add
    BY <2>3, Zenon DEF Window!Add
  <2> QED  BY <2>4 DEF Window!Next, AvgInv
<1>3. CASE ClearAverage
  <2>1. Window!Clear
    BY <1>3, ClearedIsEmpty DEF AvgInv, Window!Clear
  <2> QED  BY <2>1 DEF Window!Next, AvgInv
<1> QED  BY <1>1, <1>2, <1>3 DEF AvgNext

\* getAverage, getSum and getLatestValue of MeasurementAverage return what a window of
\* the last samples has: while the ring fills, when it wraps and after a clear.
THEOREM AverageOfWindow == AvgSpec => AveragesWindow
<1>1. AvgInit => AvgInv /\ Window!Init
  BY AvgInitInv DEF Window!Init
<1> QED  BY <1>1, AvgStepInv, WindowStep, PTL DEF AvgSpec, AveragesWindow, Window!Spec

=============================================================================
