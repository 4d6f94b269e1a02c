----------------------------- MODULE Longitudinal -----------------------------
(***************************************************************************)
(* The longitudinal feedback, as LongitudinalChirp runs it: which of the   *)
(* states S1 .. S6 a calculation uses, given where there is beam and which *)
(* states operators selected, when it reads the actuator of a state again, *)
(* and which measurements go into each energy or current.  S1 DL1 energy,  *)
(* S2 BC1 energy, S3 BC1 current, S4 BC2 energy, S5 BC2 current, S6 DL2    *)
(* energy; actuator n belongs to state n.  M4 and M6 are bunch length      *)
(* monitors, the others are BPMs.  Whether CHIRPREADY lets a calculation   *)
(* proceed is in LongitudinalChirp.                                        *)
(***************************************************************************)
EXTENDS Integers, FiniteSets

CONSTANTS
  Beams,     \* bound: the sets of measurements that can be valid at the same time
  InUse,     \* states that are used at first
  Operated,  \* bound: states that operators turn on and off
  ReadsFail  \* bound: actuators whose setting cannot always be read

LongStates == 1 .. 6

Measurements == 1 .. 10

ASSUME LongAssumption ==
  /\ Beams \subseteq SUBSET Measurements
  /\ InUse \subseteq LongStates /\ Operated \subseteq LongStates
  /\ ReadsFail \subseteq LongStates

VARIABLES
  running,       \* STATE is ON
  longMode,      \* LoopConfiguration::_mode, TRUE for ENABLE
  previousMode,  \* Longitudinal::_previousMode
  usedPv,        \* S1USED .. S6USED
  usedBy,        \* USEDBY of the states
  actUsedBy,     \* USEDBY of the actuators
  fbckCache,     \* Longitudinal::_actuatorFbckState
  fbckPv,        \* the FBCK PVs of the actuators
  firstCalculate,\* Longitudinal::_firstCalculate
  blenEmpty,     \* states whose bunch length average has no sample
  moved,         \* actuators that operators moved since the feedback read them; history
  unseen,        \* states turned off and not selected since; history
  valid,         \* measurements with status VALID in the latest calculation
  sources,       \* measurements that went into the states of that calculation; history
  corrected,     \* actuators set by that calculation; history
  chirped,       \* the chirp was controlled since A5 was read; history
  measured       \* bunch lengths read in some pulse since their average was cleared; history

longVars == <<running, longMode, previousMode, usedPv, usedBy, actUsedBy, fbckCache,
              fbckPv, firstCalculate, blenEmpty, moved, unseen, valid, sources, corrected,
              chirped, measured>>

None == [s \in LongStates |-> FALSE]

\* The chirp is controlled iff the BC2 energy is used and the BC2 current is not.
ChirpOn == usedPv[4] /\ ~usedPv[5]

LongInit ==
  /\ running = FALSE /\ longMode = FALSE /\ previousMode = FALSE
  /\ usedPv = [s \in LongStates |-> s \in InUse]
  /\ usedBy = None /\ actUsedBy = None /\ fbckCache = None /\ fbckPv = None
  /\ firstCalculate = TRUE /\ blenEmpty = {3, 5}
  /\ moved = {} /\ unseen = {}
  /\ valid = {} /\ sources = {} /\ corrected = {} /\ chirped = FALSE
  /\ measured = {}

Idle == valid' = {} /\ sources' = {} /\ corrected' = {}

-----------------------------------------------------------------------------
(* selectStates: one operator for each section, a record of what was selected
   so far, and whether an exception left the method *)

\* Longitudinal::setActuatorFeedbackPvs: FBCK PVs of the actuators, but A5.
SetActuatorFeedbackPvs(cache) ==
  [s \in LongStates |-> IF longMode /\ s # 5 THEN usedPv[s] ELSE cache[s]]

Selection == [usedBy |-> usedBy, actUsedBy |-> actUsedBy, read |-> {}, reached |-> {},
              thrown |-> FALSE]

\* Mutation: an actuator is read again when the mode changes only.
JustOnByMode(sel, s, beam) == longMode /\ usedPv[s] /\ ~previousMode

\* The state has just been turned on, or the mode was, or there is beam again.
JustOn(sel, s, beam) ==
  longMode /\ usedPv[s] /\ (~previousMode \/ (~sel.usedBy[s] /\ beam))

\* The part that the sections of the states share.  getInitialSetting can fail.
Section(sel, s, beam, failing) ==
  LET read == JustOn(sel, s, beam) IN
  IF sel.thrown THEN sel
  ELSE IF read /\ s \in failing THEN [sel EXCEPT !.thrown = TRUE]
  ELSE [sel EXCEPT !.usedBy[s] = beam /\ usedPv[s],
                   !.actUsedBy[s] = beam /\ usedPv[s],
                   !.read = IF read THEN @ \cup {s} ELSE @,
                   !.reached = @ \cup {s}]

SelectDl1(sel, v, failing) == Section(sel, 1, v \cap {1, 2} # {}, failing)

SelectBc1Energy(sel, v, failing) == Section(sel, 2, 3 \in v, failing)

\* Whether there is current is told by the BPM as well.
SelectBc1Current(sel, v, failing) == Section(sel, 3, 3 \in v, failing)

SelectBc2Energy(sel, v, failing) == Section(sel, 4, 5 \in v, failing)

SelectBc2Current(sel, v, failing) == Section(sel, 5, 5 \in v, failing)

\* Beam in the A-line and in the LTU at once is an error.
SelectDl2(sel, v, failing) ==
  IF ~sel.thrown /\ {7, 8} \subseteq v THEN [sel EXCEPT !.usedBy[6] = FALSE, !.thrown = TRUE]
  ELSE Section(sel, 6, v \cap {7, 8, 10} # {}, failing)

Longitudinally(v, failing) ==
  SelectDl2(
    SelectBc2Current(
      SelectBc2Energy(
        SelectBc1Current(
          SelectBc1Energy(
            SelectDl1(Selection, v, failing), v, failing), v, failing), v, failing),
      v, failing), v, failing)

\* The feedback does not control the actuator of a state that is not selected; A5 only if
\* S4 is not selected either.
IsReleased(s) == ~usedPv[s] /\ ~(s = 5 /\ usedPv[4])

\* LongitudinalChirp::selectStates: S5 is used while the chirp is controlled, and A5
\* is in feedback if S4 or S5 is; FBCK is set when that changes.
SelectStates(sel, cache) ==
  LET bc2 == usedPv[4] \/ usedPv[5]
      now == [SetActuatorFeedbackPvs(cache) EXCEPT ![5] = bc2] IN
  /\ usedBy' = [sel.usedBy EXCEPT ![5] = ChirpOn \/ @]
  /\ actUsedBy' = sel.actUsedBy
  /\ fbckCache' = now
  /\ fbckPv' = [s \in LongStates |->
                  IF longMode /\ now[s] # cache[s] THEN now[s] ELSE fbckPv[s]]
  /\ previousMode' = IF sel.thrown THEN previousMode ELSE longMode
  /\ chirped' = (ChirpOn \/ (chirped /\ 5 \notin sel.read))
  /\ unseen' = unseen \ {s \in sel.reached : IsReleased(s) \/ s \in sel.read}

-----------------------------------------------------------------------------
(* Energies and currents: the measurements they are made of, where a state is
   used; {} where the result is NaN *)

\* With the chirp controlled M6 counts as valid.
CheckMeasurementStatus(beam) ==
  beam \cup IF ChirpOn /\ beam # {} THEN {6} ELSE {}

EnergyDl1(v) == {IF 1 \in v THEN 1 ELSE 2}

EnergyBc1(v) == {3}

CurrentBc1(empty) == IF 3 \in empty THEN {} ELSE {4}

EnergyBc2(v) == {5}

\* Mutation: the sum of the currents is tested for NaN, the current is not.
CurrentBc2Unchecked(empty) == {6}

CurrentBc2(empty) == IF 5 \in empty THEN {} ELSE {6}

\* Mutation: M8 and M9 are averaged for BYKIK too.
EnergyDl2Averaged(v) ==
  IF 7 \in v THEN {7} ELSE IF 8 \notin v /\ 10 \in v THEN {10} ELSE {8, 9}

\* A-line, recovery with M10 (status M10ENERGY), BYKIK, or LTU.
EnergyDl2(v) ==
  IF 7 \in v THEN {7}
  ELSE IF 8 \notin v /\ 10 \in v THEN {10}
  ELSE IF 8 \in v /\ 9 \notin v THEN {8}
  ELSE {8, 9}

EnergyOrCurrent(s, v, empty) ==
  CASE s = 1 -> EnergyDl1(v)
    [] s = 2 -> EnergyBc1(v)
    [] s = 3 -> CurrentBc1(empty)
    [] s = 4 -> EnergyBc2(v)
    [] s = 5 -> CurrentBc2(empty)
    [] s = 6 -> EnergyDl2(v)

\* Mutation: the M6 that the chirp makes valid is a sample.
BlenAfterForced(beam, read) ==
  (blenEmpty \ ({3 : m \in {4} \cap beam} \cup {5 : m \in {6} \cap CheckMeasurementStatus(beam)}))
    \cup (read \cap {3, 5})

\* checkMeasurementStatus adds readings that are positive to the averages, whether or not
\* the chirp makes M6 valid; then sections that turn a current on clear its average.
BlenAfter(beam, read) ==
  (blenEmpty \ ({3 : m \in {4} \cap beam} \cup {5 : m \in {6} \cap beam}))
    \cup (read \cap {3, 5})

\* The bunch length monitors of the states whose actuators are read.
BlenCleared(read) == {4 : s \in read \cap {3}} \cup {6 : s \in read \cap {5}}

UsedIn(sel) == {s \in LongStates : sel.usedBy[s] \/ (s = 5 /\ ChirpOn)}

CalculateEnergiesAndCurrents(sel, v, empty) ==
  \A s \in UsedIn(sel) : EnergyOrCurrent(s, v, empty) # {}

\* The correction of an actuator is made of all the states used, by the matrix with
\* the rows and columns of the others zeroed (configureMatrix, updateActuatorsDelta).
UsedMatrix(sel, v, empty) ==
  UNION {EnergyOrCurrent(s, v, empty) : s \in UsedIn(sel)}

\* updateStates sets the states used, and throws if one is outside of its limits.
UpdateStates(sel, v, empty) ==
  sources' = {p \in UsedIn(sel) \X Measurements : p[2] \in EnergyOrCurrent(p[1], v, empty)}

\* updateActuators sets the actuators used, and throws if one is outside.
UpdateActuators(sel, v, empty) ==
  corrected' = IF longMode /\ UsedMatrix(sel, v, empty) # {} THEN UsedIn(sel) ELSE {}

\* With the chirp controlled A5 is set from CHIRPDES, which follows what operators do.
PhaseOfChirp == IF ChirpOn THEN corrected' \cap {5} ELSE {}

\* LongitudinalChirp::calculate when CHIRPREADY agrees, and Longitudinal::calculate.
CalculateLong ==
  /\ running
  /\ \E beam \in Beams, failing \in SUBSET ReadsFail :
       LET v == CheckMeasurementStatus(beam)
           cache == IF firstCalculate THEN fbckPv ELSE fbckCache
           sel == Longitudinally(v, failing)
           empty == BlenAfter(beam, sel.read)
           selected == ~sel.thrown /\ (\E s \in LongStates : sel.usedBy[s]) IN
       /\ valid' = v /\ firstCalculate' = FALSE
       /\ IF v = {}
          THEN /\ fbckCache' = cache /\ sources' = {} /\ corrected' = {}
               /\ UNCHANGED <<previousMode, usedBy, actUsedBy, fbckPv, blenEmpty, moved, unseen,
                              chirped, measured>>
          ELSE /\ SelectStates(sel, cache)
               /\ blenEmpty' = empty
               /\ measured' = (measured \cup (beam \cap {4, 6})) \ BlenCleared(sel.read)
               /\ IF selected /\ CalculateEnergiesAndCurrents(sel, v, empty)
                  THEN /\ UpdateStates(sel, v, empty)
                       /\ UpdateActuators(sel, v, empty) \/ corrected' = {}
                  ELSE sources' = {} /\ corrected' = {}
               /\ moved' = moved \ (sel.read \cup PhaseOfChirp)
  /\ UNCHANGED <<running, longMode, usedPv>>

-----------------------------------------------------------------------------
(* What the LoopThread and operators do *)

\* Longitudinal::setFeedbackDevices.
SetFeedbackDevices(actuators) ==
  /\ actUsedBy' = [s \in LongStates |-> actuators /\ usedPv[s]]
  /\ fbckPv' = [s \in LongStates |-> actuators /\ usedPv[s]]

\* Longitudinal::reset, before _mode changes.
LongReset(mode) ==
  /\ usedBy' = None /\ blenEmpty' = {3, 5} /\ previousMode' = mode

\* STATE ON: the devices are configured, which reads the actuators, then
\* Longitudinal::configure, then changeMode.
LongConfigure ==
  /\ ~running /\ running' = TRUE
  /\ LongReset(longMode)
  /\ firstCalculate' = TRUE /\ fbckCache' = None
  /\ longMode' \in BOOLEAN
  /\ SetFeedbackDevices(longMode')
  /\ moved' = {} /\ unseen' = {} /\ chirped' = FALSE /\ measured' = {}
  /\ Idle /\ UNCHANGED usedPv

\* LoopThread::changeMode from COMPUTE to ENABLE reads all actuators, and from ENABLE
\* to COMPUTE releases them.
ChangeLongMode ==
  /\ running /\ longMode' = ~longMode
  /\ IF longMode
     THEN usedBy' = None /\ UNCHANGED <<blenEmpty, previousMode, moved, unseen, chirped, measured>>
     ELSE LongReset(longMode) /\ moved' = {} /\ unseen' = {} /\ chirped' = FALSE /\ measured' = {}
  /\ SetFeedbackDevices(longMode')
  /\ Idle /\ UNCHANGED <<running, usedPv, fbckCache, firstCalculate>>

\* STATE OFF.
LongDisconnect ==
  /\ running /\ running' = FALSE
  /\ usedBy' = None
  /\ SetFeedbackDevices(FALSE)
  /\ Idle
  /\ UNCHANGED <<longMode, previousMode, usedPv, fbckCache, firstCalculate, blenEmpty,
                 moved, unseen, chirped, measured>>

\* Turning S4 off may release A5 as well.
Released(s) == {s} \cup IF s = 4 /\ ~usedPv[5] THEN {5} ELSE {}

\* An operator selects or deselects a state.
SwitchState ==
  /\ \E s \in Operated : /\ usedPv' = [usedPv EXCEPT ![s] = ~@]
                         /\ unseen' = IF usedPv[s] THEN unseen \cup Released(s) ELSE unseen
  /\ Idle
  /\ UNCHANGED <<running, longMode, previousMode, usedBy, actUsedBy, fbckCache, fbckPv,
                 firstCalculate, blenEmpty, moved, chirped, measured>>

\* An operator moves an actuator that the feedback does not control, or in COMPUTE.
MoveActuator ==
  /\ \E s \in Operated \ moved :
       /\ ~longMode \/ IsReleased(s)
       /\ moved' = moved \cup {s}
  /\ running /\ Idle
  /\ UNCHANGED <<running, longMode, previousMode, usedPv, usedBy, actUsedBy, fbckCache,
                 fbckPv, firstCalculate, blenEmpty, unseen, chirped, measured>>

LongNext ==
  \/ CalculateLong
  \/ LongConfigure
  \/ ChangeLongMode
  \/ LongDisconnect
  \/ SwitchState
  \/ MoveActuator

LongSpec == LongInit /\ [][LongNext]_longVars

-----------------------------------------------------------------------------
(* Properties *)

LongTypeOK ==
  /\ {running, longMode, previousMode, firstCalculate} \subseteq BOOLEAN
  /\ usedPv \in [LongStates -> BOOLEAN] /\ usedBy \in [LongStates -> BOOLEAN]
  /\ actUsedBy \in [LongStates -> BOOLEAN]
  /\ fbckCache \in [LongStates -> BOOLEAN] /\ fbckPv \in [LongStates -> BOOLEAN]
  /\ blenEmpty \subseteq {3, 5} /\ moved \subseteq LongStates /\ unseen \subseteq LongStates
  /\ valid \subseteq Measurements /\ sources \subseteq LongStates \X Measurements
  /\ corrected \subseteq LongStates /\ chirped \in BOOLEAN
  /\ measured \subseteq {4, 6}

\* "This allows actuators to be released from the feedback control": an actuator
\* that an operator moved while it was released is read before it is corrected,
\* unless no calculation selected states while it was released, or the chirp stood in
\* for S5 (see PhaseRead).
CorrectedFromCurrent ==
  [][\A s \in corrected' : s \in moved' => s \in unseen' \/ (s = 5 /\ chirped')]_longVars

\* "to reset any previous actuator values in case a given state was just turned back on"
\* (LongitudinalChirp::resetActuators): also when the chirp was controlled in between and
\* no correction succeeded, A5 is not corrected from where it was before it was released.
PhaseRead ==
  [][5 \in corrected' /\ 5 \in moved' => 5 \in unseen']_longVars

\* A state is calculated from measurements that have beam in this very pulse, not
\* from the last value that one happens to hold.  Only the bunch lengths are averages
\* of earlier pulses too: those were read in some pulse since the actuator of the state
\* was read, which clears the average, also where the chirp takes an M6 without beam
\* for valid.
SourcesValid ==
  \A p \in sources : p[2] \in IF p[2] \in {4, 6} THEN measured ELSE valid

=============================================================================
