------------------------------ MODULE MCOneLoop ------------------------------
(***************************************************************************)
(* PulsePipeline with one loop that matches every fiducial, at the full    *)
(* rate of the machine, with beam or without.                              *)
(***************************************************************************)
EXTENDS PulsePipeline

CONSTANTS loop1, device1, beam, noBeam

OneOwner == [d \in Devices |-> loop1]

AllMatch == [k \in Kinds |-> {loop1}]
=============================================================================
