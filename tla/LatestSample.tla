----------------------------- MODULE LatestSample -----------------------------
(***************************************************************************)
(* What a feedback loop expects of a measurement device: the outcome of    *)
(* the last read, the pulse of its datum, and a datum that is handed to    *)
(* the algorithm at most once and only if nothing is known against it.     *)
(***************************************************************************)
CONSTANTS Pulses

VARIABLES
  outcome,  \* "none", "fresh", "used", "failed" or "mismatch"
  pulse,    \* of the latest datum
  handed    \* how often it was handed out

Init == outcome = "none" /\ pulse \in Pulses /\ handed = 0

Refresh == outcome' = "fresh" /\ pulse' \in Pulses /\ handed' = 0

Fail == outcome' = "failed" /\ pulse' \in Pulses /\ handed' = 0

Use ==
  /\ outcome = "fresh" /\ handed = 0
  /\ outcome' = "used" /\ pulse' = pulse /\ handed' = 1

Reject == outcome = "fresh" /\ outcome' = "mismatch" /\ UNCHANGED <<pulse, handed>>

Forget == outcome' = "none" /\ pulse' \in Pulses /\ handed' = handed

Next == Refresh \/ Fail \/ Use \/ Reject \/ Forget

Spec == Init /\ [][Next]_<<outcome, pulse, handed>>
=============================================================================
