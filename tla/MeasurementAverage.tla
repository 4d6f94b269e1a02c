-------------------------- MODULE MeasurementAverage --------------------------
(***************************************************************************)
(* The moving average of the charge and bunch length measurements.  It     *)
(* keeps the samples in a ring and their sum, which it corrects at each    *)
(* sample instead of adding the ring up.  Sums are exact here; in doubles  *)
(* the corrections round.                                                  *)
(***************************************************************************)
EXTENDS Integers, Sequences

CONSTANTS
  AverageSize, \* MeasurementAverage::_size
  Measured     \* values, other than NaN which is not added

ASSUME AverageAssumption ==
  /\ AverageSize \in Nat \ {0}
  /\ Measured \subseteq Int

VARIABLES ring, head, tail, sum, full

avgVars == <<ring, head, tail, sum, full>>

RingSlots == 0 .. AverageSize - 1

Following(i) == (i + 1) % AverageSize

AvgInit ==
  /\ ring = [i \in RingSlots |-> 0]
  /\ head = 0 /\ tail = 0 /\ sum = 0 /\ full = FALSE

\* Mutation: the oldest sample is taken after the tail has moved.
AddLate(m) ==
  LET h == Following(head)
      t == IF h = tail THEN Following(tail) ELSE tail IN
  /\ head' = h /\ tail' = t
  /\ full' = (full \/ h = tail)
  /\ ring' = [ring EXCEPT ![h] = m]
  /\ sum' = sum - (IF full THEN ring[t] ELSE 0) + m

\* MeasurementAverage::add.  The ring is full when the head meets the tail, which
\* from then on is the slot after the head, the oldest sample.
Add(m) ==
  LET h == Following(head) IN
  /\ head' = h
  /\ tail' = IF h = tail THEN Following(tail) ELSE tail
  /\ full' = (full \/ h = tail)
  /\ ring' = [ring EXCEPT ![h] = m]
  /\ sum' = sum - (IF full THEN ring[tail] ELSE 0) + m

\* MeasurementAverage::clear leaves the samples.
ClearAverage ==
  /\ head' = 0 /\ tail' = 0 /\ sum' = 0 /\ full' = FALSE
  /\ UNCHANGED ring

AvgNext == (\E m \in Measured : Add(m)) \/ ClearAverage

AvgSpec == AvgInit /\ [][AvgNext]_avgVars

-----------------------------------------------------------------------------
(* Properties *)

\* By what getAverage divides the sum; nothing when there was no sample, where the
\* quotient of the code is NaN.
Divisor == IF full THEN AverageSize ELSE head

AvgTypeOK ==
  /\ ring \in [RingSlots -> Measured \cup {0}]
  /\ head \in RingSlots /\ tail \in RingSlots /\ sum \in Int /\ full \in BOOLEAN

\* The last samples, the oldest first: from the tail, or from slot 1.
Kept == [i \in 1 .. Divisor |-> ring[(head - Divisor + i) % AverageSize]]

Window == INSTANCE SampleWindow WITH
  Size <- AverageSize, Samples <- Measured, window <- Kept, total <- sum

\* getSum returns the sum of a window of the last samples, and getAverage divides it by
\* their number, also while the ring fills, when it wraps and after a clear; after a
\* sample getLatestValue returns the youngest of them.  After a clear it returns what was
\* in slot 0 before, which is no sample of the window.
AveragesWindow == Window!Spec
=============================================================================
