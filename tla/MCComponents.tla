----------------------------- MODULE MCComponents -----------------------------
(***************************************************************************)
(* Model checking of the components that are specified on their own: each  *)
(* behaviour is one of a single component, the others do not move.         *)
(***************************************************************************)
EXTENDS MeasurementBuffer, ActuatorBuffer, StateBuffer, MeasurementAverage, DeviceChannels,
        Longitudinal, LongitudinalChirp, TrajectoryFit, PatternConfiguration, Executive,
        RecordSupport

VARIABLE component

allVars ==
  <<component, measVars, actVars, stateVars, avgVars, chanVars, longVars, chirpVars, fitVars,
    patternVars, execVars, recordVars>>

\* X, Y and TMIT of a monitor are in one blob.
MCFcomId == [d \in ChanDevices |-> IF d = "A1" THEN 2 ELSE 1]

MCBeams == {1 .. 10, 1 .. 7, {2, 3, 4, 5, 6, 8, 10}, {1, 3, 4, 5, 10}, {}}

MCPoiValues == {<<1, 0, 0, 0, 1>>, <<1, 0, 1, 0, 1>>, <<1>>}

MCTexts == {<<>>, <<1>>, <<2, 3>>}

Init ==
  /\ component \in {"measurement", "actuator", "state", "average", "channels", "longitudinal",
                    "chirp", "fit", "patterns", "executive", "records"}
  /\ MeasInit /\ ActInit /\ StateInit /\ AvgInit /\ ChanInit /\ LongInit /\ ChirpInit
  /\ FitInit /\ PatternInit /\ ExecInit /\ RecordInit

Next ==
  /\ component' = component
  /\ \/ /\ component = "measurement" /\ MeasNext
        /\ UNCHANGED <<actVars, stateVars, avgVars, chanVars, longVars, chirpVars, fitVars,
                       patternVars, execVars, recordVars>>
     \/ /\ component = "actuator" /\ ActNext
        /\ UNCHANGED <<measVars, stateVars, avgVars, chanVars, longVars, chirpVars, fitVars,
                       patternVars, execVars, recordVars>>
     \/ /\ component = "state" /\ StateNext
        /\ UNCHANGED <<measVars, actVars, avgVars, chanVars, longVars, chirpVars, fitVars,
                       patternVars, execVars, recordVars>>
     \/ /\ component = "average" /\ AvgNext
        /\ UNCHANGED <<measVars, actVars, stateVars, chanVars, longVars, chirpVars, fitVars,
                       patternVars, execVars, recordVars>>
     \/ /\ component = "channels" /\ ChanNext
        /\ UNCHANGED <<measVars, actVars, stateVars, avgVars, longVars, chirpVars, fitVars,
                       patternVars, execVars, recordVars>>
     \/ /\ component = "longitudinal" /\ LongNext
        /\ UNCHANGED <<measVars, actVars, stateVars, avgVars, chanVars, chirpVars, fitVars,
                       patternVars, execVars, recordVars>>
     \/ /\ component = "chirp" /\ ChirpNext
        /\ UNCHANGED <<measVars, actVars, stateVars, avgVars, chanVars, longVars, fitVars,
                       patternVars, execVars, recordVars>>
     \/ /\ component = "fit" /\ FitNext
        /\ UNCHANGED <<measVars, actVars, stateVars, avgVars, chanVars, longVars, chirpVars,
                       patternVars, execVars, recordVars>>
     \/ /\ component = "patterns" /\ PatternNext
        /\ UNCHANGED <<measVars, actVars, stateVars, avgVars, chanVars, longVars, chirpVars,
                       fitVars, execVars, recordVars>>
     \/ /\ component = "executive" /\ ExecNext
        /\ UNCHANGED <<measVars, actVars, stateVars, avgVars, chanVars, longVars, chirpVars,
                       fitVars, patternVars, recordVars>>
     \/ /\ component = "records" /\ RecordNext
        /\ UNCHANGED <<measVars, actVars, stateVars, avgVars, chanVars, longVars, chirpVars,
                       fitVars, patternVars, execVars>>

\* The sequencer programs run; heartbeats and the threads of the loops go on, and the
\* shell that waits for the loops looks again every second.
Fairness ==
  /\ WF_chirpVars(component = "chirp" /\ ChirpProgram)
  /\ WF_execVars(component = "executive" /\ HeartBeat /\ reboot # "reset")
  /\ WF_execVars(component = "executive" /\ BspReset)
  /\ \A l \in Slots :
       /\ WF_execVars(component = "executive" /\ ReceiveEvent(l) /\ reboot # "reset")
       /\ WF_execVars(component = "executive" /\ Reconfigured(l) /\ reboot # "reset")

Spec == Init /\ [][Next]_allVars /\ Fairness

\* The types of all components.
ComponentsTypeOK ==
  /\ MeasTypeOK /\ ActTypeOK /\ StateTypeOK /\ AvgTypeOK /\ ChanTypeOK /\ LongTypeOK
  /\ ChirpTypeOK /\ FitTypeOK /\ PatternTypeOK /\ ExecTypeOK /\ RecordTypeOK
=============================================================================
