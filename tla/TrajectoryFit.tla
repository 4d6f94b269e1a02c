------------------------------ MODULE TrajectoryFit ------------------------------
(***************************************************************************)
(* Which monitors a loop with one pattern uses, and which matrices it      *)
(* computes with: LoopConfiguration::configure counts the used monitors    *)
(* and copies the matrices from PVs, Loop::reconfigure selects the devices *)
(* and registers them with the MeasurementCollector, and the algorithm     *)
(* (the TrajectoryFit family and InjectorLaunch) copies the matrices again *)
(* for its fit.  A matrix is abstracted to the monitors that its rows      *)
(* belong to, each with the position of the row, and the version of its    *)
(* PV.  X and Y of a monitor are one device here, at one place of the      *)
(* order; in a real set the X of all monitors are before the Y.  The USED  *)
(* PVs are read several times in a start and taken to be the same.         *)
(***************************************************************************)
EXTENDS Integers, FiniteSets

CONSTANTS
  Bpms,       \* the monitors of the loop, numbered in the order of their set
  M5,         \* BPMS:IN20:771, whose TMIT tells InjectorLaunch where the beam goes
  M6,         \* BPMS:IN20:781, which InjectorLaunch needs as well
  Downstream, \* the monitors after the spectrometer, BPMS:IN20:7xx
  Algorithms, \* of "static", "by1", "poly", "pinv", "eact" and "launch"
  Toggled,    \* bound: monitors whose USED PV operators change
  SquareG,    \* there are as many states as actuators
  MaxVersion  \* bound: changes of FMATRIX and GMATRIX

ASSUME FitAssumption ==
  /\ Bpms \subseteq Nat /\ IsFiniteSet(Bpms)
  /\ {M5, M6} \subseteq Downstream /\ Downstream \subseteq Bpms
  /\ Toggled \subseteq Bpms
  /\ Algorithms \subseteq {"static", "by1", "poly", "pinv", "eact", "launch"}
  /\ Algorithms # {}
  /\ SquareG \in BOOLEAN /\ MaxVersion \in Nat

VARIABLES
  fitUsedPv,      \* monitors whose USED PV is on
  selectAllPv, \* SELECTALLDEVICES
  algorithmPv, \* ALGORITHM
  matrixPv,    \* version of FMATRIX and GMATRIX
  active,      \* LoopConfiguration::_configured
  algorithm,   \* the Algorithm the loop was configured with
  selected,    \* Loop::_measurements
  collected,   \* what MeasurementCollector reads for the loop
  counted,     \* the monitors counted by _measurementsUsedPv
  config,      \* LoopConfiguration: _fMatrix, _refOrbit and the version of _gMatrix
  fit,         \* what reallyConfig took: the monitors, _fitMatrix and _orbitReference
  pinv,        \* the version of G of which _pinvGMatrix is the inverse, or Undefined
  energies,    \* what _actEnergy holds
  launch,      \* InjectorLaunch: _beamConfiguration, _allMeasurements, and the monitors,
               \* F matrix and reference orbit saved for each beam configuration
  lowTmit,     \* the TMIT after the spectrometer is low
  checked,     \* Loop::checkTmit passed, the calculation follows
  fitted       \* the monitors that the last calculation since the start used, {} if it threw

fitVars ==
  <<fitUsedPv, selectAllPv, algorithmPv, matrixPv, active, algorithm, selected, collected,
    counted, config, fit, pinv, energies, launch, lowTmit, checked, fitted>>

pvVars == <<fitUsedPv, algorithmPv, matrixPv, lowTmit>>

Undefined == -1

NoMatrix == [rows |-> {}, version |-> 0]

NoFit == [rows |-> {}, f |-> NoMatrix, orbit |-> {}]

NoLaunch == [beam |-> "None", all |-> {}, normal |-> NoFit, spectrometer |-> NoFit]

FitInit ==
  /\ fitUsedPv = Bpms /\ selectAllPv = FALSE /\ algorithmPv = CHOOSE a \in Algorithms : TRUE
  /\ matrixPv = 0
  /\ active = FALSE /\ algorithm = "none"
  /\ selected = {} /\ collected = {} /\ counted = {}
  /\ config = [f |-> NoMatrix, orbit |-> {}, g |-> 0]
  /\ fit = NoFit /\ pinv = Undefined /\ energies = "undefined"
  /\ launch = NoLaunch
  /\ lowTmit = FALSE /\ checked = FALSE /\ fitted = {}

-----------------------------------------------------------------------------
(* Configuration *)

\* The place of monitor b among those of S, and the rows of S with their monitors.
Rank(b, S) == Cardinality({c \in S : c <= b})

Positions(S) == {<<Rank(b, S), b>> : b \in S}

\* The monitor that the row of a matrix or orbit at a position belongs to.
Row(rows, position) == (CHOOSE row \in rows : row[1] = position)[2]

\* LoopConfiguration::configureFMatrix and configureGMatrix: the first rows of the
\* PV, one for each used monitor.
FMatrix(used) == [rows |-> Positions(used), version |-> matrixPv]

GMatrix == matrixPv

\* configureReferenceOrbit takes the values of the used monitors.
ReferenceOrbit == Positions(fitUsedPv)

\* TrajectoryFitGeneral::reallyConfig
ReallyConfig(measurements, f, orbit) == [rows |-> measurements, f |-> f, orbit |-> orbit]

\* TrajectoryFitPinv::calculateGPseudoInverse.  If G is square gelss solves for a right
\* hand side that is not set.
PseudoInverse(g) == IF SquareG THEN Undefined ELSE g

\* The monitors that saveNormalConfiguration and saveSpectrometerConfiguration select,
\* of all that InjectorLaunch was given.
Normal(all) == all \cap fitUsedPv

Spectrometer(all) == Normal(all) \ Downstream

\* saveFMatrix: the next row is the one at sourceIndex, which counts the used monitors;
\* destIndex counts those of the beam configuration.
SaveFMatrix(all, f, kept) ==
  [f EXCEPT !.rows = {<<Rank(b, kept), Row(f.rows, Rank(b, Normal(all)))>> : b \in kept}]

\* Mutation: sourceIndex does not pass the monitors that are used and left out.
SaveReferenceOrbitUnskipped(all, orbit, kept) ==
  {<<Rank(b, kept), Row(orbit, Rank(b, kept))>> : b \in kept}

\* saveReferenceOrbit walks through the monitors in the same way.
SaveReferenceOrbit(all, orbit, kept) ==
  {<<Rank(b, kept), Row(orbit, Rank(b, Normal(all)))>> : b \in kept}

\* What is saved for a beam configuration with the monitors kept.
Saved(all, f, orbit, kept) ==
  ReallyConfig(kept, SaveFMatrix(all, f, kept), SaveReferenceOrbit(all, orbit, kept))

\* Loop::selectUsedDevices only inserts.
SelectedDevices(all) == selected \cup (IF all THEN Bpms ELSE fitUsedPv)

\* countUsedDevices fails if none is used.
NoneUsed == fitUsedPv = {} /\ config' = config

\* configureActuatorEnergy fails if ACTENERGY is too short, after the reference orbit.
EnergiesMissing == fitUsedPv # {} /\ config' = [config EXCEPT !.orbit = ReferenceOrbit]

\* LoopConfiguration::configure gives up.
ConfigureFails ==
  /\ ~active
  /\ counted' = fitUsedPv
  /\ NoneUsed \/ EnergiesMissing
  /\ UNCHANGED <<pvVars, selectAllPv, active, algorithm, selected, collected, fit, pinv,
                 energies, launch, checked, fitted>>

\* It succeeds, and a device cannot be configured: Loop::clearUsedDevices.
DeviceFails ==
  /\ ~active /\ fitUsedPv # {}
  /\ counted' = fitUsedPv
  /\ config' = [f |-> FMatrix(fitUsedPv), orbit |-> ReferenceOrbit, g |-> GMatrix]
  /\ algorithm' = algorithmPv
  /\ selectAllPv' = (selectAllPv \/ algorithmPv = "launch")
  /\ selected' = {}
  /\ energies' = "ACTENERGY"
  /\ fit' = NoFit /\ pinv' = Undefined /\ launch' = NoLaunch
  /\ UNCHANGED <<pvVars, active, collected, checked, fitted>>

\* The algorithm's configure: TrajectoryFitStatic (also By1), Pinv, Poly, Eact.
ConfigureStatic(measurements) ==
  /\ fit' = ReallyConfig(measurements, FMatrix(fitUsedPv), ReferenceOrbit)
  /\ pinv' = Undefined /\ launch' = NoLaunch
  /\ config' = [f |-> FMatrix(fitUsedPv), orbit |-> ReferenceOrbit, g |-> GMatrix]
  /\ selected' = measurements
  /\ active' = TRUE

ConfigurePinv(measurements) ==
  /\ fit' = ReallyConfig(measurements, FMatrix(fitUsedPv), ReferenceOrbit)
  /\ pinv' = PseudoInverse(GMatrix) /\ launch' = NoLaunch
  /\ config' = [f |-> FMatrix(fitUsedPv), orbit |-> ReferenceOrbit, g |-> GMatrix]
  /\ selected' = measurements
  /\ active' = TRUE

\* TrajectoryFitPoly::calculateFMatrix: a row for each selected monitor, from POLYVALS
\* and the energy, in place of the matrix of the PV.
PolyFMatrix(measurements) == [rows |-> Positions(measurements), version |-> 0]

ConfigurePoly(measurements) ==
  LET f == PolyFMatrix(measurements) IN
  /\ fit' = ReallyConfig(measurements, f, ReferenceOrbit)
  /\ pinv' = PseudoInverse(GMatrix) /\ launch' = NoLaunch
  /\ config' = [f |-> f, orbit |-> ReferenceOrbit, g |-> GMatrix]
  /\ selected' = measurements
  /\ active' = TRUE

\* InjectorLaunch::configure fails if M5 or M6 is not used; what was selected stays.
\* Otherwise it saves what each beam configuration needs, and goes on as configureNormal.
ConfigureLaunch(measurements) ==
  LET f == FMatrix(fitUsedPv)
      normal == Saved(measurements, f, ReferenceOrbit, Normal(measurements))
      spectrometer == Saved(measurements, f, ReferenceOrbit, Spectrometer(measurements)) IN
  /\ pinv' = Undefined
  /\ IF {M5, M6} \subseteq fitUsedPv
     THEN /\ launch' = [beam |-> "Normal", all |-> measurements, normal |-> normal,
                        spectrometer |-> spectrometer]
          /\ config' = [f |-> normal.f, orbit |-> normal.orbit, g |-> GMatrix]
          /\ fit' = normal
          /\ selected' = normal.rows
          /\ active' = TRUE
     ELSE /\ launch' = NoLaunch
          /\ config' = [f |-> f, orbit |-> ReferenceOrbit, g |-> GMatrix]
          /\ fit' = NoFit
          /\ selected' = measurements
          /\ UNCHANGED active

\* TrajectoryFitEact::connect may not find an energy PV.
ConfigureEact(measurements) ==
  \/ ConfigureStatic(measurements)
  \/ /\ config' = [f |-> FMatrix(fitUsedPv), orbit |-> ReferenceOrbit, g |-> GMatrix]
     /\ fit' = NoFit /\ pinv' = Undefined /\ launch' = NoLaunch
     /\ selected' = measurements
     /\ UNCHANGED active

\* Mutation: what is used goes to the collector after the algorithm was configured.
CollectedLate(measurements) == collected \cup fitUsedPv

\* Loop::reconfigure adds the devices to the MeasurementCollector, then it configures
\* the algorithm.
Collected(measurements) == collected \cup measurements

Start ==
  /\ ~active /\ fitUsedPv # {}
  /\ counted' = fitUsedPv
  /\ algorithm' = algorithmPv
  /\ selectAllPv' = (selectAllPv \/ algorithmPv = "launch")
  /\ LET measurements == SelectedDevices(selectAllPv') IN
     /\ collected' = Collected(measurements)
     /\ CASE algorithm' \in {"static", "by1"} -> ConfigureStatic(measurements)
          [] algorithm' = "pinv" -> ConfigurePinv(measurements)
          [] algorithm' = "poly" -> ConfigurePoly(measurements)
          [] algorithm' = "eact" -> ConfigureEact(measurements)
          [] algorithm' = "launch" -> ConfigureLaunch(measurements)
  /\ energies' = "ACTENERGY"
  /\ fitted' = {}
  /\ UNCHANGED <<pvVars, checked>>

\* LoopThread::disconnectDevices: what is in Loop::_measurements leaves the collector,
\* and stays in there.
Stop ==
  /\ active /\ ~checked
  /\ active' = FALSE
  /\ collected' = collected \ selected
  /\ fitted' = {}
  /\ UNCHANGED <<pvVars, selectAllPv, algorithm, selected, counted, config, fit, pinv,
                 energies, launch, checked>>

-----------------------------------------------------------------------------
(* MODE goes from COMPUTE to ENABLE: Algorithm::reset *)

\* Mutation: TrajectoryFitPinv does not compute the inverse again.
InverseOfGKept == pinv

InverseOfG == PseudoInverse(GMatrix)

\* TrajectoryFitGeneral::reset; the matrix of the fit stays.
ResetGeneral ==
  /\ algorithm \in {"static", "by1", "launch"}
  /\ config' = [config EXCEPT !.f = FMatrix(counted), !.g = GMatrix]
  /\ UNCHANGED <<pinv, energies>>

ResetPinv ==
  /\ algorithm \in {"pinv", "poly"}
  /\ config' = [config EXCEPT !.f = FMatrix(counted), !.g = GMatrix]
  /\ pinv' = InverseOfG
  /\ UNCHANGED energies

\* TrajectoryFitEact::reset does not look at what read returns.
ResetEact ==
  /\ algorithm = "eact"
  /\ energies' \in {"EACT", "undefined"}
  /\ UNCHANGED <<config, pinv>>

Reset ==
  /\ active /\ ~checked
  /\ ResetGeneral \/ ResetPinv \/ ResetEact
  /\ UNCHANGED <<pvVars, selectAllPv, active, algorithm, selected, collected, counted, fit,
                 launch, checked, fitted>>

-----------------------------------------------------------------------------
(* A fiducial *)

\* Loop::checkTmit: a low TMIT of any device in the set skips the fiducial.
CheckTmit ==
  /\ active /\ ~checked
  /\ lowTmit => selected \cap Downstream = {}
  /\ checked' = TRUE
  /\ UNCHANGED <<pvVars, selectAllPv, active, algorithm, selected, collected, counted, config,
                 fit, pinv, energies, launch, fitted>>

\* InjectorLaunch::configureNormal and configureSpectrometer: the copies in
\* LoopConfiguration are exchanged for what was saved, and reallyConfig takes those.
SwitchTo(beam, saved) ==
  /\ launch' = [launch EXCEPT !.beam = beam]
  /\ config' = [config EXCEPT !.f = saved.f, !.orbit = saved.orbit]
  /\ fit' = ReallyConfig(saved.rows, saved.f, saved.orbit)

\* InjectorLaunch::checkConfig, and then what the set of measurements is.
CheckConfig ==
  IF algorithm # "launch" THEN UNCHANGED <<launch, fit, config>>
  ELSE IF ~lowTmit /\ launch.beam = "Spectrometer" THEN SwitchTo("Normal", launch.normal)
  ELSE IF lowTmit /\ launch.beam = "Normal" THEN SwitchTo("Spectrometer", launch.spectrometer)
  ELSE UNCHANGED <<launch, fit, config>>

MeasurementsAfter ==
  IF launch'.beam = launch.beam THEN selected
  ELSE IF launch'.beam = "Normal" THEN launch.normal.rows ELSE launch.spectrometer.rows

\* Mutation: only the measurements of the beam configuration remain.
RestoredNot == MeasurementsAfter

\* InjectorLaunch::calculate restores all measurements.
Restored == IF algorithm = "launch" THEN launch.all ELSE MeasurementsAfter

\* The F matrix that fit solves, and the G matrix that getCorrectorKicks solves or the
\* one whose inverse it multiplies with.
FitsWith == fit.f.version

KicksWith == IF algorithm \in {"pinv", "poly"} THEN pinv ELSE config.g

\* getMeasurements throws, after it took all of them; so may fit, getCorrectorKicks,
\* updateStates and updateActuators.
CalculateThrows ==
  /\ checked /\ checked' = FALSE
  /\ CheckConfig
  /\ selected' = MeasurementsAfter
  /\ fitted' = {}
  /\ UNCHANGED <<pvVars, selectAllPv, active, algorithm, collected, counted, pinv, energies>>

\* TrajectoryFitGeneral::calculate
CalculateFit ==
  /\ checked /\ checked' = FALSE
  /\ CheckConfig
  /\ fitted' = MeasurementsAfter
  /\ selected' = Restored
  /\ UNCHANGED <<pvVars, selectAllPv, active, algorithm, collected, counted, pinv, energies>>

-----------------------------------------------------------------------------
(* Operators write PVs at any time; a write that nothing reads before the next start
   is left to when the loop is OFF.  The collector reads a new TMIT. *)

WritePv ==
  /\ ~active
  /\ \/ /\ \E b \in Toggled : fitUsedPv' = IF b \in fitUsedPv THEN fitUsedPv \ {b} ELSE fitUsedPv \cup {b}
        /\ UNCHANGED <<selectAllPv, algorithmPv>>
     \/ selectAllPv' = ~selectAllPv /\ UNCHANGED <<fitUsedPv, algorithmPv>>
     \/ algorithmPv' \in Algorithms \ {algorithmPv} /\ UNCHANGED <<fitUsedPv, selectAllPv>>
  /\ UNCHANGED <<matrixPv, active, algorithm, selected, collected, counted, config, fit, pinv,
                 energies, launch, lowTmit, checked, fitted>>

WriteMatrixPv ==
  /\ matrixPv < MaxVersion /\ ~checked
  /\ matrixPv' = matrixPv + 1
  /\ UNCHANGED <<fitUsedPv, selectAllPv, algorithmPv, active, algorithm, selected, collected,
                 counted, config, fit, pinv, energies, launch, lowTmit, checked, fitted>>

BeamMoves ==
  /\ active
  /\ lowTmit' = ~lowTmit
  /\ UNCHANGED <<fitUsedPv, selectAllPv, algorithmPv, matrixPv, active, algorithm, selected,
                 collected, counted, config, fit, pinv, energies, launch, checked, fitted>>

FitNext ==
  \/ ConfigureFails \/ DeviceFails \/ Start \/ Stop \/ Reset
  \/ CheckTmit \/ CalculateThrows \/ CalculateFit
  \/ WritePv \/ WriteMatrixPv \/ BeamMoves

FitSpec == FitInit /\ [][FitNext]_fitVars

-----------------------------------------------------------------------------
(* Properties *)

\* Rows with their positions, matrices, what a fit is set up with (also where it is saved),
\* and the copies in LoopConfiguration and InjectorLaunch.
RowSets == SUBSET ((1 .. Cardinality(Bpms)) \X Bpms)

Matrices == [rows : RowSets, version : 0 .. MaxVersion]

Fits == [rows : SUBSET Bpms, f : Matrices, orbit : RowSets]

Configs == [f : Matrices, orbit : RowSets, g : 0 .. MaxVersion]

Launches == [beam : {"None", "Normal", "Spectrometer"}, all : SUBSET Bpms,
             normal : Fits, spectrometer : Fits]

FitTypeOK ==
  /\ fitUsedPv \subseteq Bpms /\ selected \subseteq Bpms /\ collected \subseteq Bpms
  /\ counted \subseteq Bpms /\ fitted \subseteq Bpms
  /\ matrixPv \in 0 .. MaxVersion
  /\ {active, selectAllPv, lowTmit, checked} \subseteq BOOLEAN
  /\ algorithm \in Algorithms \cup {"none"} /\ algorithmPv \in Algorithms
  /\ pinv \in Undefined .. MaxVersion
  /\ energies \in {"undefined", "ACTENERGY", "EACT"}
  /\ config \in Configs /\ fit \in Fits /\ launch \in Launches

\* Whatever starts failed before, and wherever InjectorLaunch takes the beam to be, all
\* that a loop reads in a calculation is collected while it is ON.
CollectedWhileOn == active => selected \cup fit.rows \subseteq collected

\* Wherever the beam goes, InjectorLaunch fits the monitors that were counted when the
\* loop was configured, in the spectrometer those before it, and row by row its F matrix
\* and its reference orbit belong to them: none is at the place of a monitor left out,
\* nor are they those of the other beam configuration, after whichever switches, changes
\* of MODE (which load the F matrix of all again), failed starts and restarts.
FitRowsAgree ==
  active /\ algorithm = "launch" =>
    /\ fit.rows = IF launch.beam = "Normal" THEN counted ELSE counted \ Downstream
    /\ fit.f.rows = Positions(fit.rows) /\ fit.orbit = Positions(fit.rows)

\* The corrector kicks are computed with the G matrix that was loaded last, also if they
\* are computed with its inverse, through changes of the PV, of the MODE and restarts.
\* The F matrix of the fit may be an older one, never a newer.
KicksOfLoadedG ==
  [][CalculateFit /\ ~SquareG => KicksWith = config.g /\ FitsWith <= config.f.version]_fitVars

\* If the last thing that InjectorLaunch did was a calculation that succeeded, all the
\* monitors it started with leave the collector when the loop goes OFF
\* (the comment of InjectorLaunch::calculate).
AllRemoved ==
  [][Stop /\ algorithm = "launch" /\ fitted # {}
       => collected' \cap launch.all = {}]_fitVars

\* "selecting only those devices that have been selected durning configuration time"
\* (Loop.cc): a loop that was not told to select all devices uses the ones whose USED
\* PV was on when it was configured.
SelectedWereUsed ==
  [][active' /\ ~active /\ algorithm' # "launch" /\ ~selectAllPv => selected' = counted']_fitVars

\* "Those devices whose USED PV are 0 are left out" and, if the TMIT on M5 is bad, "use
\* only the BPMS before the spectrometer" (InjectorLaunch.cc): a calculation uses the
\* monitors of the beam configuration.
LeftOut ==
  [][CalculateFit /\ algorithm = "launch"
       => fitted' = IF launch'.beam = "Normal" THEN launch.normal.rows
                    ELSE launch.spectrometer.rows]_fitVars
=============================================================================
