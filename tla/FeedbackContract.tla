--------------------------- MODULE FeedbackContract ---------------------------
(***************************************************************************)
(* What the event pipeline promises about each LoopThread, without queues, *)
(* threads or buffers:                                                     *)
(*                                                                         *)
(*   - Loop::calculate runs at most once for a pulse, in the order of the  *)
(*     pulses, and only for a pulse whose pattern is one of the loop's;    *)
(*   - the actuators are set at most once for each such pulse, and only if *)
(*     it had beam.                                                        *)
(*                                                                         *)
(* ExactSpec promises also that they are set from data of that pulse alone *)
(***************************************************************************)
EXTENDS Integers, Sequences

CONSTANTS
  Loops, Kinds,
  Matches,    \* Matches[k]: the loops that have a pattern of kind k
  Beam        \* the kinds of the pulses with beam

VARIABLES
  log,        \* kinds of the pulses so far
  matched,    \* pulse of the last calculation of a loop
  actuated    \* pulse of the last actuation of a loop, its data, and their number

vars == <<log, matched, actuated>>

Init ==
  /\ log = <<>>
  /\ matched = [l \in Loops |-> 0]
  /\ actuated = [l \in Loops |-> [pulse |-> 0, data |-> {}, count |-> 0]]

Fiducial(k) ==
  /\ log' = Append(log, k)
  /\ UNCHANGED <<matched, actuated>>

\* A pulse later than the last one calculated, of one of the loop's patterns.
Match(l) ==
  /\ \E n \in matched[l] + 1 .. Len(log) :
       /\ l \in Matches[log[n]]
       /\ matched' = [matched EXCEPT ![l] = n]
  /\ UNCHANGED <<log, actuated>>

Actuate(l, data) ==
  /\ actuated[l].pulse < matched[l]
  /\ log[matched[l]] \in Beam
  /\ actuated' = [actuated EXCEPT ![l] =
       [pulse |-> matched[l], data |-> data, count |-> actuated[l].count + 1]]
  /\ UNCHANGED <<log, matched>>

Next ==
  \/ \E k \in Kinds : Fiducial(k)
  \/ \E l \in Loops : Match(l) \/ \E data \in SUBSET (0 .. Len(log)) : Actuate(l, data)

Spec == Init /\ [][Next]_vars

ExactNext ==
  \/ \E k \in Kinds : Fiducial(k)
  \/ \E l \in Loops : Match(l) \/ \E data \in SUBSET {matched[l]} : Actuate(l, data)

ExactSpec == Init /\ [][ExactNext]_vars
=============================================================================
