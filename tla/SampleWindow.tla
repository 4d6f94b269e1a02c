----------------------------- MODULE SampleWindow -----------------------------
(***************************************************************************)
(* What a moving average promises: the sum of the most recent samples, of  *)
(* at most Size of them, and the latest one.                               *)
(***************************************************************************)
EXTENDS Integers, Sequences

CONSTANTS Size, Samples

VARIABLES
  window, \* the most recent samples, the oldest first
  total   \* their sum

Init == window = <<>> /\ total = 0

\* The sums of the beginnings of s, and of all of it.
PartialSums(s) ==
  LET partial[i \in 0 .. Len(s)] == IF i = 0 THEN 0 ELSE partial[i - 1] + s[i] IN partial

Sum(s) == PartialSums(s)[Len(s)]

Add ==
  \E m \in Samples :
    LET all == Append(window, m) IN
    window' = IF Len(all) > Size THEN Tail(all) ELSE all

Clear == window' = <<>>

Next == (Add \/ Clear) /\ total' = Sum(window')

Spec == Init /\ [][Next]_<<window, total>>
=============================================================================
