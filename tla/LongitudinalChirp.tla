--------------------------- MODULE LongitudinalChirp ---------------------------
(***************************************************************************)
(* The BC2 chirp.  While the BC2 energy (S4) is used and the BC2 current   *)
(* (S5) is not, LongitudinalChirp holds the chirp at CHIRPDES.  The        *)
(* sequencer program chirpControl reads the chirp into CHIRPDES when the   *)
(* loop turns CHIRPSTATE on, and tells by CHIRPREADY when the loop can use *)
(* it; chirpUpdate keeps CHIRPDES up to date while the chirp is off.       *)
(* With the chirp off, the loop corrects what it remembers, the vector     *)
(* _previousActuator, and Loop::setDevices may send the result or skip it. *)
(* A chirp is abstracted to the number of corrections that led to it.      *)
(***************************************************************************)
EXTENDS Integers

CONSTANT MaxChirp \* bound: corrections of the chirp

ASSUME ChirpAssumption == MaxChirp \in Nat

VARIABLES
  s5Used,       \* S5USED; S4USED is set
  chirpControl, \* LongitudinalChirp::_chirpControl
  chirpState,   \* PV CHIRPSTATE
  chirpReady,   \* PV CHIRPREADY
  chirpDes,     \* PV CHIRPDES
  bc2Chirp,     \* the chirp that A4 and A5 are set to
  previous,     \* LongitudinalChirp::_previousActuator, the chirp
  firstCycle,   \* Longitudinal::_firstCalculate
  program,      \* the state of chirpControl.st
  monitored,    \* CHIRPSTATE as the programs have it
  chirpValue,   \* chirpValue of chirpControl.st
  update,       \* chirpUpdate.st: the chirp it is about to put, or none
  hurried       \* S5 was switched before the programs had settled; history

chirpVars == <<s5Used, chirpControl, chirpState, chirpReady, chirpDes, bc2Chirp, previous,
               firstCycle, program, monitored, chirpValue, update, hurried>>

loopVars == <<s5Used, chirpControl, chirpState, bc2Chirp, previous, firstCycle, hurried>>

Chirps == 0 .. MaxChirp

NoUpdate == -1

ChirpInit ==
  /\ s5Used = TRUE /\ chirpControl = FALSE /\ chirpState = FALSE /\ chirpReady = FALSE
  /\ chirpDes = 0 /\ bc2Chirp = 0 /\ previous = 0 /\ firstCycle = TRUE
  /\ program = "CHIRP_OFF" /\ monitored = FALSE /\ chirpValue = 0 /\ update = NoUpdate
  /\ hurried = FALSE

-----------------------------------------------------------------------------
(* LongitudinalChirp::calculate *)

\* checkChirpControl, when it does not throw.
CheckChirpControl(chirp) == chirpState' = chirp /\ chirpControl' = chirp

\* getInitialValues, once the chirp changes, reads A4 if S4 has not been used, as after
\* pulses without beam, and A5 if S5 is used; when a read fails CHIRPSTATE is set and
\* _chirpControl is not.
GetInitialValuesFails ==
  LET chirp == ~s5Used IN
  /\ chirp # chirpControl
  /\ chirpState' = chirp
  /\ UNCHANGED <<s5Used, chirpControl, chirpReady, chirpDes, bc2Chirp, previous, firstCycle,
                 program, monitored, chirpValue, update, hurried>>

\* calculateInitialStates.
CalculateInitialStates == IF firstCycle THEN bc2Chirp ELSE previous

\* resetActuators, for a state that was just turned on: S5 when beam is back.
ResetActuators(justOn) == IF justOn THEN bc2Chirp ELSE CalculateInitialStates

\* calculateAmplitudeAndPhase.
CalculateAmplitudeAndPhase(chirp, from, delta) == IF chirp THEN chirpDes ELSE from + delta

\* updateActuators: what it computed is the base of the next correction, and
\* setDevices sends it unless there are pending events or the pulse does not match.
\* When a value is outside of the limits neither happens.
UpdateChirpActuators(chirp, justOn, sent) ==
  \E delta \in {0, 1} :
    LET value == CalculateAmplitudeAndPhase(chirp, ResetActuators(justOn), delta) IN
    /\ value \in Chirps
    /\ previous' = value
    /\ bc2Chirp' = IF sent THEN value ELSE bc2Chirp

IsChirpInvalid(justOn) ==
  previous' = ResetActuators(justOn) /\ UNCHANGED bc2Chirp

\* The calculation proceeds iff CHIRPREADY is the same as CHIRPSTATE.
CalculateChirp ==
  LET chirp == ~s5Used IN
  /\ CheckChirpControl(chirp)
  /\ IF chirpReady = chirp
     THEN /\ firstCycle' = FALSE
          /\ \E justOn \in {FALSE, s5Used}, sent \in BOOLEAN :
               UpdateChirpActuators(chirp, justOn, sent) \/ IsChirpInvalid(justOn)
     ELSE UNCHANGED <<bc2Chirp, previous, firstCycle>>
  /\ UNCHANGED <<s5Used, chirpReady, chirpDes, program, monitored, chirpValue, update, hurried>>

-----------------------------------------------------------------------------
(* chirpControl.st *)

\* The monitor of CHIRPSTATE; a value that is replaced before it arrives is lost.
ChirpMonitor ==
  /\ monitored # chirpState /\ monitored' = chirpState
  /\ UNCHANGED <<loopVars, chirpReady, chirpDes, program, chirpValue, update>>

CHIRP_OFF ==
  /\ program = "CHIRP_OFF" /\ monitored
  /\ chirpValue' = bc2Chirp /\ chirpReady' = FALSE /\ program' = "WAIT_CHIRP"
  /\ UNCHANGED <<loopVars, chirpDes, monitored, update>>

\* Mutation: CHIRPREADY is set with the chirp read at start.
WAIT_CHIRP_unread ==
  /\ program = "WAIT_CHIRP"
  /\ chirpReady' = TRUE /\ program' = "WAIT_CHIRP_READY"
  /\ UNCHANGED <<loopVars, chirpDes, monitored, chirpValue, update>>

WAIT_CHIRP ==
  /\ program = "WAIT_CHIRP"
  /\ chirpDes' = chirpValue /\ chirpReady' = TRUE /\ program' = "WAIT_CHIRP_READY"
  /\ UNCHANGED <<loopVars, monitored, chirpValue, update>>

WAIT_CHIRP_READY ==
  /\ program = "WAIT_CHIRP_READY" /\ program' = "CHIRP_ON"
  /\ UNCHANGED <<loopVars, chirpReady, chirpDes, monitored, chirpValue, update>>

CHIRP_ON ==
  /\ program = "CHIRP_ON" /\ ~monitored /\ program' = "WAIT_CHIRP_NOT_READY"
  /\ UNCHANGED <<loopVars, chirpReady, chirpDes, monitored, chirpValue, update>>

\* Mutation: CHIRPREADY stays.
WAIT_CHIRP_NOT_READY_kept ==
  /\ program = "WAIT_CHIRP_NOT_READY" /\ program' = "CHIRP_OFF"
  /\ UNCHANGED <<loopVars, chirpReady, chirpDes, monitored, chirpValue, update>>

WAIT_CHIRP_NOT_READY ==
  /\ program = "WAIT_CHIRP_NOT_READY"
  /\ chirpReady' = FALSE /\ program' = "CHIRP_OFF"
  /\ UNCHANGED <<loopVars, chirpDes, monitored, chirpValue, update>>

ChirpProgram ==
  \/ ChirpMonitor
  \/ CHIRP_OFF \/ WAIT_CHIRP \/ WAIT_CHIRP_READY \/ CHIRP_ON \/ WAIT_CHIRP_NOT_READY

(* chirpUpdate.st: once a second, reading the chirp and putting it are two steps *)

UpdateGet ==
  /\ update = NoUpdate /\ ~monitored
  /\ update' = bc2Chirp
  /\ UNCHANGED <<loopVars, chirpReady, chirpDes, program, monitored, chirpValue>>

UpdatePut ==
  /\ update # NoUpdate
  /\ chirpDes' = update /\ update' = NoUpdate
  /\ UNCHANGED <<loopVars, chirpReady, program, monitored, chirpValue>>

-----------------------------------------------------------------------------

Settled ==
  /\ program \in {"CHIRP_OFF", "CHIRP_ON"} /\ update = NoUpdate
  /\ monitored = chirpState /\ chirpState = ~s5Used /\ chirpReady = chirpState

SwitchS5 ==
  /\ hurried' = (hurried \/ ~Settled)
  /\ s5Used' = ~s5Used
  /\ UNCHANGED <<chirpControl, chirpState, chirpReady, chirpDes, bc2Chirp, previous,
                 firstCycle, program, monitored, chirpValue, update>>

ChirpNext ==
  \/ CalculateChirp
  \/ GetInitialValuesFails
  \/ ChirpProgram
  \/ UpdateGet
  \/ UpdatePut
  \/ SwitchS5

\* The sequencer of the IOC runs chirpControl.
ChirpFairness == WF_chirpVars(ChirpProgram)

ChirpSpec == ChirpInit /\ [][ChirpNext]_chirpVars /\ ChirpFairness

-----------------------------------------------------------------------------
(* Properties *)

ChirpTypeOK ==
  /\ {s5Used, chirpControl, chirpState, chirpReady, firstCycle, monitored} \subseteq BOOLEAN
  /\ hurried \in BOOLEAN
  /\ {chirpDes, bc2Chirp, previous, chirpValue} \subseteq Chirps
  /\ update \in Chirps \cup {NoUpdate}
  /\ program \in {"CHIRP_OFF", "WAIT_CHIRP", "WAIT_CHIRP_READY", "CHIRP_ON",
                  "WAIT_CHIRP_NOT_READY"}

\* "Signal when Long. can use CHIRPDES" (CHIRPREADY, fbckState.db): turning the chirp on
\* does not move the beam, for the loop only proceeds once CHIRPDES is the chirp that
\* its last correction left.  If S5 was switched again before the programs had settled
\* CHIRPDES can be an older chirp.
ChirpHeld == [][chirpControl' /\ ~hurried => bc2Chirp' = bc2Chirp]_chirpVars

\* CHIRPREADY follows CHIRPSTATE, so that a loop whose states nobody switches does not
\* wait for the sequencer forever, whatever happened before.
ReadyFollows ==
  /\ <>[]chirpState => <>[]chirpReady
  /\ <>[]~chirpState => <>[]~chirpReady
=============================================================================
