--------------------------- MODULE MCLoopControl ---------------------------
(***************************************************************************)
(* LoopControl with two loops that share one pattern mask; the first one   *)
(* has a second POI, and broadcasts its states.                            *)
(***************************************************************************)
EXTENDS LoopControl

CONSTANTS loop1, loop2, shared, own

SharedPois == [l \in Loops |-> IF l = loop1 THEN <<shared, own>> ELSE <<shared>>]
=============================================================================
