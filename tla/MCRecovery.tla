------------------------------ MODULE MCRecovery ------------------------------
(***************************************************************************)
(* PipelineRecovery with one loop that matches every fiducial.             *)
(***************************************************************************)
EXTENDS PipelineRecovery

CONSTANTS loop1, device1, beam, noBeam

OneOwner == [d \in Devices |-> loop1]

AllMatch == [k \in Kinds |-> {loop1}]
=============================================================================
