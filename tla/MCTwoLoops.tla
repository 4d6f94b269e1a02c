------------------------------ MODULE MCTwoLoops ------------------------------
(***************************************************************************)
(* PulsePipeline with two loops that compete for the PatternManager.  Both *)
(* match the patterns with beam, only the first one those without.         *)
(***************************************************************************)
EXTENDS PulsePipeline

CONSTANTS loop1, loop2, device1, device2, beam, noBeam

TwoOwners == [d \in Devices |-> IF d = device1 THEN loop1 ELSE loop2]

SomeMatch == [k \in Kinds |-> IF k = beam THEN {loop1, loop2} ELSE {loop1}]
=============================================================================
