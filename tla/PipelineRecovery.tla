--------------------------- MODULE PipelineRecovery ---------------------------
(***************************************************************************)
(* PulsePipeline, with a calm that begins once the pipeline has come to    *)
(* rest: from then on the timer is punctual, every thread finishes with a  *)
(* pulse before the next fiducial, and nobody changes MODE.  What happened *)
(* before is arbitrary: late timers, torn patterns, lost, duplicated and   *)
(* discarded events, windows with the PatternManager disabled.             *)
(***************************************************************************)
EXTENDS PulsePipeline

\* A queue has room for all events of one pulse, and something is measured.
ASSUME RecoveryAssumption == QueueSize >= 3 /\ Devices # {}

VARIABLES
  calm,   \* whether the calm has begun
  since   \* the last pulse before it

Resting ==
  /\ evrPc = "idle"
  /\ timerQueue = 0 /\ timerPc = "receive"
  /\ cQueue = <<>> /\ cPc = "receive"
  /\ \A l \in Loops : lQueue[l] = <<>> /\ lPc[l] = "receive"

CalmDown == Resting /\ ~calm /\ calm' = TRUE /\ since' = pulse /\ UNCHANGED vars

Calm ==
  /\ Punctual
  /\ log' # log => Resting
  /\ \A l \in Loops : lPc'[l] # "changeMode"

RecoveryNext ==
  \/ CalmDown
  \/ Next /\ (calm => Calm) /\ UNCHANGED <<calm, since>>

RecoverySpec ==
  Init /\ calm = FALSE /\ since = 0 /\ [][RecoveryNext]_<<vars, calm, since>> /\ Fairness

\* In the calm every matching fiducial is calculated: whatever _state, queues
\* and stored patterns the disturbance left behind, the state machines of the
\* CollectorThread and of the LoopThreads are in step again at the first pulse.
CalmPulsesCalculated ==
  \A l \in Loops, n \in 1 .. MaxPulse :
    calm /\ evrPc = "dispatch" /\ evrPattern.pulse = n /\ l \in Matches[evrPattern.kind]
      ~> matched[l] = n

\* What is safety of it: a pipeline that came to rest in the calm has calculated
\* every matching pulse since, so that no PATTERN_EVENT or MEASUREMENT_EVENT was
\* lost, suppressed or taken for one that was not expected.
RestMeansCalculated ==
  calm /\ Resting =>
    \A n \in since + 1 .. pulse : \A l \in Matches[log[n]] : matched[l] >= n
=============================================================================
