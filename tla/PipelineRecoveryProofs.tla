------------------------- MODULE PipelineRecoveryProofs -------------------------
(***************************************************************************)
(* Proofs about PipelineRecovery, for every number of loops and devices,   *)
(* every queue capacity from three on and every disturbance before the     *)
(* calm: no pulse of the calm is left out.                                 *)
(*                                                                         *)
(* What was left behind before the calm (_state, _pattern, the pattern of  *)
(* the PatternManager, buffers) cannot matter because a PATTERN_EVENT sets *)
(* all of it and comes before the MEASUREMENT_EVENT in every queue.  The   *)
(* invariant says just that: where the one pulse in work is, that queues   *)
(* have its events alone, in the order they were sent, and that a loop it  *)
(* matches has calculated, or has both events before it.                   *)
(***************************************************************************)
EXTENDS PipelineRecovery, PulsePipelineProofs, SequenceTheorems

USE DEF evrVars, pmVars, timerVars, cVars, lVars, history, Lock, Unlock, NonePending

-----------------------------------------------------------------------------
(* The invariant *)

PatternSent == Event("PATTERN", evrPattern)

MeasurementSent == Event("MEASUREMENT", evrPattern)

\* The EVR task, the Timer and the CollectorThread have finished with the pulse.
Finished == evrPc = "idle" /\ ~TimerOn /\ cPc = "receive" /\ cQueue = <<>>

\* Or one of them is at work for it: the EVR task, the timer it started for the
\* pattern it saved, the CollectorThread that was told of both, or is reading.
Dispatching == evrPc \in {"dispatch", "timer"} /\ ~TimerOn /\ cPc = "receive" /\ cQueue = <<>>

Saving ==
  /\ evrPc \in {"save", "collector"} /\ TimerOn
  /\ evrPc = "collector" => saved = evrPattern
  /\ cPc = "receive" /\ cQueue = <<>>

Told ==
  /\ evrPc = "idle" /\ TimerOn /\ saved = evrPattern
  /\ cPc = "receive"
  /\ cQueue = <<PatternSent>> \/ (cQueue = <<>> /\ cState = "WAITING_MEASUREMENT")

Due ==
  /\ evrPc = "idle" /\ ~TimerOn
  /\ cPc = "receive"
  /\ \/ cQueue = <<PatternSent, MeasurementSent>>
     \/ cQueue = <<MeasurementSent>> /\ cState = "WAITING_MEASUREMENT"

Updating ==
  /\ evrPc = "idle" /\ ~TimerOn
  /\ cPc = "update" /\ cPattern = evrPattern /\ cQueue = <<>>

\* The stages of the pulse in work.
Stage == Finished \/ Dispatching \/ Saving \/ Told \/ Due \/ Updating

OneTimer == timerQueue = 0 \/ (timerQueue = 1 /\ timerPc = "receive")

StageInv ==
  /\ OneTimer
  /\ Stage
  /\ pulse > since => evrPattern = [kind |-> log[pulse], pulse |-> pulse]

\* The order in which the events of a pulse are sent.
Rank == [type \in {"HEARTBEAT", "PATTERN", "MEASUREMENT"} |->
           CASE type = "HEARTBEAT" -> 1 [] type = "PATTERN" -> 2 [] OTHER -> 3]

Ranked(queue) ==
  \A i, j \in 1 .. Len(queue) : i < j => Rank[queue[i].type] < Rank[queue[j].type]

\* The queue of l has events of the last pulse alone, each at most once and in the
\* order in which they were sent, so that none was lost.
EventsInv(l) ==
  /\ \A i \in 1 .. Len(lQueue[l]) :
       /\ lQueue[l][i].pattern = evrPattern
       /\ evrPc = "dispatch" => lQueue[l][i].type = "HEARTBEAT"
       /\ lQueue[l][i].type = "MEASUREMENT" => Finished
  /\ Ranked(lQueue[l])

CalmPcs == {"receive", "measurement", "check", "algorithm", "lowTmit", "discard"}

\* A calculation leaves nothing in the queue, so that it has nothing to clear.
CalmInv(l) ==
  /\ lPc[l] \in CalmPcs
  /\ lPc[l] # "receive" => Finished /\ lQueue[l] = <<>>
  /\ lPc[l] = "measurement" => lEvent[l] = MeasurementSent

\* The pattern of the last pulse waits in the queue of l, or is the one l waits for.
Taken(l) ==
  \/ \E i \in 1 .. Len(lQueue[l]) : lQueue[l][i].type = "PATTERN"
  \/ lState[l] = "WAITING_MEASUREMENT" /\ lPattern[l] = evrPattern

\* Its measurements are to come, are there, or are handled.
Measurable(l) ==
  \/ ~Finished
  \/ lPc[l] = "measurement"
  \/ \E i \in 1 .. Len(lQueue[l]) : lQueue[l][i].type = "MEASUREMENT"

\* Every matching pulse since is calculated; the last one is, or will be.
FateInv(l) ==
  /\ \A n \in since + 1 .. pulse - 1 : l \in Matches[log[n]] => matched[l] >= n
  /\ pulse > since /\ l \in Matches[log[pulse]] =>
       \/ evrPc = "dispatch"
       \/ matched[l] >= pulse
       \/ Taken(l) /\ Measurable(l)

CalmLoop(l) == EventsInv(l) /\ CalmInv(l) /\ FateInv(l)

RecoveryInv ==
  /\ since \in 0 .. pulse
  /\ calm => StageInv /\ \A l \in Loops : CalmLoop(l)

-----------------------------------------------------------------------------
(* Where the pulse in work is *)

\* A step in the calm.
CalmStep == Next /\ Calm /\ UNCHANGED <<calm, since>>

\* In the calm the PatternManager is enabled.
LEMMA CalmEnabled ==
  ASSUME TypeOK, LockInv, \A l \in Loops : CalmInv(l)
  PROVE  enabled /\ pmLock = Free
<1>1. \A l \in Loops : lPc[l] \notin Holding
  BY DEF CalmInv, CalmPcs, Holding
<1> QED  BY <1>1 DEF LockInv, LockDisables, Holding, TypeOK, EvrTypeOK

\* The two events of a pattern.
LEMMA PatternEvents ==
  ASSUME TypeOK
  PROVE  /\ PatternSent \in Events /\ MeasurementSent \in Events
         /\ PatternSent.type = "PATTERN" /\ MeasurementSent.type = "MEASUREMENT"
         /\ PatternSent.pattern = evrPattern /\ MeasurementSent.pattern = evrPattern
         /\ PatternSent # MeasurementSent
<1>1. evrPattern \in Patterns
  BY DEF TypeOK, EvrTypeOK
<1> QED  BY <1>1, EventType DEF PatternSent, MeasurementSent

\* An empty queue, and one with a single event, have room.
LEMMA SendFew ==
  ASSUME NEW e \in Events, NEW f \in Events
  PROVE  /\ Send(<<>>, e) = <<e>> /\ Send(<<f>>, e) = <<f, e>>
         /\ Head(<<f>>) = f /\ Tail(<<f>>) = <<>> /\ <<f>> # <<>>
         /\ Head(<<f, e>>) = f /\ Tail(<<f, e>>) = <<e>> /\ <<f, e>> # <<>>
<1>1. /\ Head(<<f>>) = f /\ Tail(<<f>>) = <<>> /\ <<f>> # <<>>
      /\ Head(<<f, e>>) = f /\ Tail(<<f, e>>) = <<e>> /\ <<f, e>> # <<>>
  OBVIOUS
<1>2. Len(<<>>) < QueueSize /\ Len(<<f>>) < QueueSize
  BY PipelineAssumption, RecoveryAssumption
<1>3. Append(<<>>, e) = <<e>>
  OBVIOUS
<1>4. Append(<<f>>, e) = <<f, e>>
  <2>1. <<f>> \in Seq(Events) /\ Len(<<f>>) = 1 /\ <<f>>[1] = f
    OBVIOUS
  <2>2. /\ Append(<<f>>, e) \in Seq(Events) /\ Len(Append(<<f>>, e)) = 2
        /\ Append(<<f>>, e)[1] = f /\ Append(<<f>>, e)[2] = e
    BY <2>1
  <2>3. <<f, e>> \in Seq(Events) /\ Len(<<f, e>>) = 2 /\ <<f, e>>[1] = f /\ <<f, e>>[2] = e
    OBVIOUS
  <2>4. \A i \in 1 .. Len(Append(<<f>>, e)) : Append(<<f>>, e)[i] = <<f, e>>[i]
    BY <2>2, <2>3
  <2>5. Len(Append(<<f>>, e)) = Len(<<f, e>>)
    BY <2>2, <2>3
  <2> QED  BY <2>2, <2>3, <2>4, <2>5, SeqEqual, Zenon
<1> QED  BY <1>1, <1>2, <1>3, <1>4 DEF Send

\* A LoopThread leaves the CollectorThread alone.
LEMMA CollectorUntouched ==
  ASSUME NEW l \in Loops, LoopThread(l)
  PROVE  UNCHANGED <<cQueue, cState, cPc, cPattern>>
<1>1. CASE LoopPattern(l) \/ LoopReceive(l) \/ BeginChangeMode(l) \/ EndChangeMode(l)
  BY <1>1 DEF LoopPattern, LoopReceive, BeginChangeMode, EndChangeMode
<1>2. CASE Unexpected(l) \/ Calculate(l) \/ BeginAlgorithm(l)
  BY <1>2 DEF Unexpected, Calculate, BeginAlgorithm
<1>3. CASE \E d \in Devices : CheckMeasurement(l, d) \/ Get(l, d)
  BY <1>3 DEF CheckMeasurement, Get
<1>4. CASE Skip(l) \/ Actuate(l) \/ BeginClear(l) \/ EndClear(l)
  BY <1>4 DEF Skip, Actuate, BeginClear, EndClear
<1> QED  BY <1>1, <1>2, <1>3, <1>4 DEF LoopThread

\* A fiducial in the calm: all threads have finished with the one before.
LEMMA CalmFiducial ==
  ASSUME TypeOK, enabled, Calm, NEW k \in Kinds, Fiducial(k)
  PROVE  /\ Resting /\ pulse \in Nat /\ pulse' = pulse + 1
         /\ \A n \in 1 .. pulse : log'[n] = log[n]
         /\ evrPattern' = [kind |-> log'[pulse'], pulse |-> pulse']
<1>1. log \in Seq(Kinds) /\ log' = Append(log, k)
  BY DEF TypeOK, EvrTypeOK, Fiducial
<1>2. /\ Len(log) \in Nat /\ Len(log') = Len(log) + 1 /\ log'[Len(log) + 1] = k
      /\ \A n \in 1 .. Len(log) : log'[n] = log[n]
  BY <1>1
<1>3. log' # log
  BY <1>2
<1>4. evrPattern' = [kind |-> k, pulse |-> Len(log) + 1]
  BY DEF Fiducial, pulse
<1> QED  BY <1>2, <1>3, <1>4 DEF Calm, pulse

\* No other step adds to the log or changes the pattern of the EVR task.
LEMMA LogStep ==
  ASSUME Next, \A k \in Kinds : ~Fiducial(k)
  PROVE  UNCHANGED <<log, evrPattern>>
<1>1. CASE Evr \/ TimerThread
  BY <1>1 DEF Evr, Dispatch, StartTimer, SavePattern, NotifyCollector, TimerThread,
              StartSleep, Expire
<1>2. CASE Collector \/ \E l \in Loops : LoopThread(l)
  BY <1>2, EvrUntouched
<1> QED  BY <1>1, <1>2 DEF Next

\* Step by step the pulse goes from one stage to the next.
LEMMA StageKept ==
  ASSUME TypeOK, enabled, OneTimer, Stage, CalmStep, \A k \in Kinds : ~Fiducial(k)
  PROVE  /\ OneTimer' /\ Stage'
         /\ Finished => Finished'
         /\ Finished' => Finished \/ Dispatch \/ Broadcast
<1>0. /\ timerQueue \in Nat /\ timerPc \in {"receive", "sleep"} /\ enabled = TRUE
      /\ QueueSize >= 3 /\ Devices # {} /\ evrPattern' = evrPattern
  BY RecoveryAssumption, LogStep DEF TypeOK, EvrTypeOK, CalmStep
<1>1. PatternSent \in Events /\ MeasurementSent \in Events /\ PatternSent # MeasurementSent
      /\ PatternSent.type = "PATTERN" /\ MeasurementSent.type = "MEASUREMENT"
      /\ PatternSent' = PatternSent /\ MeasurementSent' = MeasurementSent
  BY <1>0, PatternEvents DEF PatternSent, MeasurementSent
<1>2. ASSUME cQueue # <<>>, cPc = "receive"
      PROVE  /\ evrPc = "idle" /\ cPc = "receive"
             /\ \/ Told /\ cQueue = <<PatternSent>>
                \/ Due /\ cQueue = <<PatternSent, MeasurementSent>>
                \/ Due /\ cQueue = <<MeasurementSent>> /\ cState = "WAITING_MEASUREMENT"
  BY <1>2 DEF Stage, Finished, Dispatching, Saving, Told, Due, Updating
<1>3. CASE Dispatch
  BY <1>0, <1>3 DEF Dispatch, Stage, Finished, Dispatching, Saving, Told, Due, Updating,
                    OneTimer, TimerOn
<1>4. CASE StartTimer
  <2>1. Dispatching /\ evrPc = "timer" /\ timerQueue = 0 /\ timerPc = "receive"
    BY <1>0, <1>4 DEF StartTimer, Stage, Finished, Dispatching, Saving, Told, Due, Updating,
                      TimerOn
  <2>2. /\ timerQueue' = 1 /\ timerPc' = "receive" /\ evrPc' = "save"
        /\ cPc' = cPc /\ cQueue' = cQueue
    <3>1. /\ timerQueue' = timerQueue + 1 /\ evrPc' = "save"
          /\ timerPc' = timerPc /\ cPc' = cPc /\ cQueue' = cQueue
      BY <1>0, <1>4, <2>1, PipelineAssumption DEF StartTimer
    <3> QED  BY <2>1, <3>1
  <2> QED
    BY <2>1, <2>2 DEF Stage, Finished, Dispatching, Saving, OneTimer, TimerOn
<1>5. CASE SavePattern
  BY <1>0, <1>5 DEF SavePattern, Stage, Finished, Dispatching, Saving, Told, Due, Updating,
                    OneTimer, TimerOn
<1>6. CASE NotifyCollector
  <2>1. Saving /\ evrPc = "collector" /\ cQueue = <<>>
    BY <1>6 DEF NotifyCollector, Stage, Finished, Dispatching, Saving, Told, Due, Updating
  <2>2. cQueue' = <<PatternSent>>
    BY <1>1, <1>6, <2>1, SendFew DEF NotifyCollector, PatternSent
  <2> QED
    BY <1>0, <1>1, <1>6, <2>1, <2>2
    DEF NotifyCollector, Stage, Finished, Saving, Told, OneTimer, TimerOn
<1>7. CASE StartSleep
  <2>1. TimerOn /\ timerQueue' = 0 /\ timerPc' = "sleep" /\ TimerOn'
    BY <1>0, <1>7 DEF StartSleep, OneTimer, TimerOn
  <2>2. Saving \/ Told
    BY <2>1 DEF Stage, Finished, Dispatching, Due, Updating
  <2> QED
    BY <1>1, <1>7, <2>1, <2>2 DEF StartSleep, Stage, Finished, Saving, Told, OneTimer
<1>8. CASE Expire
  <2>1. TimerOn /\ timerQueue = 0 /\ timerPc' = "receive" /\ ~TimerOn' /\ timerQueue' = 0
    BY <1>0, <1>8 DEF Expire, OneTimer, TimerOn
  <2>2. Told
    BY <1>8, <2>1 DEF Expire, CalmStep, Calm, Punctual, Stage, Finished, Dispatching, Saving,
                      Due, Updating
  <2>3. cQueue' = Send(cQueue, MeasurementSent)
    BY <1>0, <1>8, <2>2 DEF Expire, Told, SavedReads, MeasurementSent
  <2>4. Due'
    BY <1>1, <1>8, <2>1, <2>2, <2>3, SendFew DEF Expire, Told, Due
  <2>5. cQueue' # <<>>
    <3>1. cQueue = <<PatternSent>> \/ cQueue = <<>>
      BY <2>2 DEF Told
    <3>2. cQueue' = <<PatternSent, MeasurementSent>> \/ cQueue' = <<MeasurementSent>>
      BY <1>1, <2>3, <3>1, SendFew
    <3> QED  BY <1>1, <3>2, SendFew
  <2> QED  BY <2>1, <2>2, <2>4, <2>5 DEF Stage, Finished, OneTimer
<1>9. CASE CollectorPattern
  <2>1. \/ Told /\ cQueue = <<PatternSent>>
        \/ Due /\ cQueue = <<PatternSent, MeasurementSent>>
    <3>1. cQueue # <<>> /\ cPc = "receive" /\ Head(cQueue) # MeasurementSent
      BY <1>1, <1>9 DEF CollectorPattern
    <3>2. cQueue # <<MeasurementSent>>
      BY <1>1, <3>1, SendFew
    <3> QED  BY <1>2, <3>1, <3>2
  <2>2. /\ cQueue' = Tail(cQueue) /\ cState' = "WAITING_MEASUREMENT"
        /\ UNCHANGED <<evrPc, saved, timerQueue, timerPc, cPc>>
    BY <1>9 DEF CollectorPattern
  <2>3. Told' \/ Due'
    BY <1>0, <1>1, <2>1, <2>2, SendFew DEF Told, Due, TimerOn
  <2>4. Due' => cQueue' # <<>>
    BY <1>1, SendFew DEF Due
  <2> QED  BY <1>9, <2>2, <2>3, <2>4 DEF CollectorPattern, Stage, Told, Finished, OneTimer
<1>10. CASE CollectorMeasurement
  <2>1. Due /\ cQueue = <<MeasurementSent>> /\ cState = "WAITING_MEASUREMENT"
    BY <1>1, <1>2, <1>10, SendFew DEF CollectorMeasurement
  <2>2. Head(cQueue) = MeasurementSent /\ Tail(cQueue) = <<>>
    BY <1>1, <2>1, SendFew
  <2>3. cQueue' = <<>> /\ cPc' = "update" /\ cPattern' = evrPattern
    BY <1>0, <1>1, <1>10, <2>1, <2>2, PatternEvents DEF CollectorMeasurement
  <2>4. UNCHANGED <<evrPc, timerQueue, timerPc>>
    BY <1>10 DEF CollectorMeasurement
  <2> QED
    BY <1>0, <1>10, <2>1, <2>3, <2>4
    DEF CollectorMeasurement, Stage, Finished, Due, Updating, OneTimer, TimerOn
<1>11. CASE Broadcast
  <2>1. Updating
    BY <1>11 DEF Broadcast, Stage, Finished, Dispatching, Saving, Told, Due
  <2> QED
    BY <1>11, <2>1 DEF Broadcast, Stage, Updating, Finished, OneTimer, TimerOn
<1>12. ASSUME UNCHANGED <<evrPc, timerQueue, timerPc, saved, cQueue, cState, cPc, cPattern>>
       PROVE  OneTimer' /\ Stage' /\ (Finished <=> Finished')
  BY <1>0, <1>1, <1>12
  DEF Stage, Finished, Dispatching, Saving, Told, Due, Updating, OneTimer, TimerOn
<1>13. ASSUME NEW d \in Devices, ReadDevice(d) \/ CheckPulseId(d)
       PROVE  UNCHANGED <<evrPc, timerQueue, timerPc, saved, cQueue, cState, cPc, cPattern>>
  BY <1>13 DEF ReadDevice, CheckPulseId
<1>14. ASSUME NEW l \in Loops, LoopThread(l)
       PROVE  UNCHANGED <<evrPc, timerQueue, timerPc, saved, cQueue, cState, cPc, cPattern>>
  BY <1>14, EvrUntouched, CollectorUntouched
<1> QED
  BY <1>3, <1>4, <1>5, <1>6, <1>7, <1>8, <1>9, <1>10, <1>11, <1>12, <1>13, <1>14
  DEF CalmStep, Next, Evr, TimerThread, Collector

LEMMA StageStep ==
  ASSUME TypeOK, LockInv, StageInv, \A l \in Loops : CalmLoop(l), CalmStep
  PROVE  StageInv'
<1>0. /\ enabled /\ timerQueue \in Nat /\ since' = since
  BY CalmEnabled DEF CalmLoop, TypeOK, EvrTypeOK, CalmStep
<1>1. ASSUME NEW k \in Kinds, Fiducial(k)
      PROVE  StageInv'
  <2>1. /\ Resting /\ pulse \in Nat /\ pulse' = pulse + 1
        /\ evrPattern' = [kind |-> log'[pulse'], pulse |-> pulse']
    BY <1>0, <1>1, CalmFiducial DEF CalmStep
  <2>2. Dispatching' /\ OneTimer'
    BY <1>0, <1>1, <2>1 DEF Fiducial, Resting, Dispatching, OneTimer, TimerOn
  <2> QED  BY <2>1, <2>2 DEF StageInv, Stage
<1>2. CASE \A k \in Kinds : ~Fiducial(k)
  <2>1. log' = log /\ evrPattern' = evrPattern /\ pulse' = pulse
    BY <1>2, LogStep DEF CalmStep, pulse
  <2>2. OneTimer' /\ Stage'
    BY <1>0, <1>2, StageKept DEF StageInv
  <2> QED  BY <1>0, <2>1, <2>2 DEF StageInv
<1> QED  BY <1>1, <1>2

-----------------------------------------------------------------------------
(* The queues of the LoopThreads *)

LEMMA Ranks ==
  /\ Rank["HEARTBEAT"] = 1 /\ Rank["PATTERN"] = 2 /\ Rank["MEASUREMENT"] = 3
  /\ \A e \in Events : Rank[e.type] \in 1 .. 3
  BY DEF Rank, Events

\* There is room for an event that comes after those in the queue.
LEMMA RankedSend ==
  ASSUME NEW q \in Queues, Ranked(q), NEW e \in Events,
         \A i \in 1 .. Len(q) : Rank[q[i].type] < Rank[e.type]
  PROVE  /\ Ranked(Send(q, e))
         /\ \A i \in 1 .. Len(q) : i \in 1 .. Len(Send(q, e)) /\ Send(q, e)[i] = q[i]
         /\ Len(q) + 1 \in 1 .. Len(Send(q, e)) /\ Send(q, e)[Len(q) + 1] = e
         /\ \A i \in 1 .. Len(Send(q, e)) :
              (i \in 1 .. Len(q) /\ Send(q, e)[i] = q[i]) \/ Send(q, e)[i] = e
<1> DEFINE r == Send(q, e)
<1>1. q \in Seq(Events) /\ Len(q) \in Nat /\ r \in Queues /\ Len(r) \in Nat
  BY SendType DEF Queues
<1>2. \A i \in 1 .. Len(q) : q[i] \in Events
  BY <1>1
<1>3. Len(q) < QueueSize
  <2>1. SUFFICES ASSUME Len(q) >= 3 PROVE FALSE
    BY <1>1, PipelineAssumption, RecoveryAssumption
  <2>2. 1 \in 1 .. Len(q) /\ 2 \in 1 .. Len(q) /\ 3 \in 1 .. Len(q)
    BY <1>1, <2>1
  <2>3. /\ Rank[q[1].type] < Rank[q[2].type] /\ Rank[q[2].type] < Rank[q[3].type]
        /\ Rank[q[3].type] < Rank[e.type]
    BY <2>2 DEF Ranked
  <2>4. /\ Rank[q[1].type] \in 1 .. 3 /\ Rank[q[2].type] \in 1 .. 3
        /\ Rank[q[3].type] \in 1 .. 3 /\ Rank[e.type] \in 1 .. 3
    BY <1>2, <2>2, Ranks
  <2> QED  BY <2>3, <2>4
<1>4. /\ \A i \in 1 .. Len(q) : i \in 1 .. Len(r) /\ r[i] = q[i]
      /\ Len(q) + 1 \in 1 .. Len(r) /\ r[Len(q) + 1] = e
  BY <1>3, SendKeeps
<1>5. ASSUME NEW i \in 1 .. Len(r)
      PROVE  (i \in 1 .. Len(q) /\ r[i] = q[i]) \/ (i = Len(q) + 1 /\ r[i] = e)
  BY SendContents
<1> HIDE DEF r
<1>6. Ranked(r)
  <2> SUFFICES ASSUME NEW i \in 1 .. Len(r), NEW j \in 1 .. Len(r), i < j
               PROVE  Rank[r[i].type] < Rank[r[j].type]
    BY DEF Ranked
  <2>1. CASE j \in 1 .. Len(q) /\ r[j] = q[j]
    <3>1. i \in 1 .. Len(q) /\ r[i] = q[i]
      BY <1>1, <1>4, <2>1
    <3> QED  BY <2>1, <3>1 DEF Ranked
  <2>2. CASE j = Len(q) + 1 /\ r[j] = e
    <3>1. i \in 1 .. Len(q) /\ r[i] = q[i]
      BY <1>1, <1>4, <2>2
    <3> QED  BY <2>2, <3>1
  <2> QED  BY <1>5, <2>1, <2>2
<1> QED  BY <1>4, <1>5, <1>6 DEF r

\* The invariant of a queue that receives, or does not, an event of the last pulse
\* that comes after those in it.
LEMMA EventsSent ==
  ASSUME TypeOK, NEW l \in Loops, EventsInv(l), evrPattern' = evrPattern,
         evrPc' = "dispatch" => evrPc = "dispatch", Finished => Finished',
         \/ lQueue'[l] = lQueue[l]
         \/ \E e \in Events :
              /\ lQueue'[l] = Send(lQueue[l], e)
              /\ \A i \in 1 .. Len(lQueue[l]) : Rank[lQueue[l][i].type] < Rank[e.type]
              /\ e.pattern = evrPattern
              /\ evrPc' # "dispatch"
              /\ e.type = "MEASUREMENT" => Finished'
  PROVE  EventsInv(l)'
<1>1. CASE lQueue'[l] = lQueue[l]
  BY <1>1 DEF EventsInv
<1>2. ASSUME NEW e \in Events,
             /\ lQueue'[l] = Send(lQueue[l], e)
             /\ \A i \in 1 .. Len(lQueue[l]) : Rank[lQueue[l][i].type] < Rank[e.type]
             /\ e.pattern = evrPattern
             /\ evrPc' # "dispatch"
             /\ e.type = "MEASUREMENT" => Finished'
      PROVE  EventsInv(l)'
  <2>1. lQueue[l] \in Queues /\ Ranked(lQueue[l])
    BY DEF TypeOK, LoopTypeOK, EventsInv
  <2>2. /\ Ranked(lQueue'[l])
        /\ \A i \in 1 .. Len(lQueue'[l]) :
             (i \in 1 .. Len(lQueue[l]) /\ lQueue'[l][i] = lQueue[l][i]) \/ lQueue'[l][i] = e
    BY <1>2, <2>1, RankedSend
  <2>3. ASSUME NEW i \in 1 .. Len(lQueue'[l])
        PROVE  /\ lQueue'[l][i].pattern = evrPattern
               /\ lQueue'[l][i].type = "MEASUREMENT" => Finished'
    BY <1>2, <2>2 DEF EventsInv
  <2> QED  BY <1>2, <2>2, <2>3 DEF EventsInv
<1> QED  BY <1>1, <1>2

\* What the other threads do to the queue of l in the calm.
LEMMA CalmOther ==
  ASSUME TypeOK, StageInv, NEW l \in Loops, CalmLoop(l), CalmStep, ~LoopThread(l),
         \A k \in Kinds : ~Fiducial(k)
  PROVE  \/ lQueue'[l] = lQueue[l] /\ ~(Dispatch /\ l \in Matches[evrPattern.kind]) /\ ~Broadcast
         \/ /\ Dispatch /\ lQueue'[l] = Send(lQueue[l], PatternSent)
            /\ \A i \in 1 .. Len(lQueue[l]) : Rank[lQueue[l][i].type] < Rank["PATTERN"]
         \/ /\ Broadcast /\ lQueue'[l] = Send(lQueue[l], MeasurementSent)
            /\ \A i \in 1 .. Len(lQueue[l]) : Rank[lQueue[l][i].type] < Rank["MEASUREMENT"]
<1>1. CASE Dispatch /\ l \in Matches[evrPattern.kind]
  <2>1. evrPc = "dispatch" /\ lQueue'[l] = Send(lQueue[l], PatternSent)
    BY <1>1 DEF Dispatch, PatternSent
  <2> QED  BY <1>1, <2>1, Ranks DEF CalmLoop, EventsInv
<1>2. CASE Broadcast
  <2>1. cPc = "update"
    BY <1>2 DEF Broadcast
  <2>2. Updating /\ ~Finished
    BY <2>1 DEF StageInv, Stage, Finished, Dispatching, Saving, Told, Due
  <2>3. lQueue'[l] = Send(lQueue[l], MeasurementSent)
    BY <1>2, <2>2 DEF Broadcast, Updating, MeasurementSent
  <2>4. ASSUME NEW i \in 1 .. Len(lQueue[l])
        PROVE  Rank[lQueue[l][i].type] < Rank["MEASUREMENT"]
    <3>1. lQueue[l][i] \in Events /\ lQueue[l][i].type # "MEASUREMENT"
      BY <2>2, QueueEvents DEF CalmLoop, EventsInv
    <3> QED  BY <3>1, Ranks DEF Events
  <2> QED  BY <1>2, <2>3, <2>4
<1>3. CASE ~(Dispatch /\ l \in Matches[evrPattern.kind]) /\ ~Broadcast
  <2>1. CASE \E m \in Loops : LoopThread(m)
    <3>1. PICK m \in Loops : LoopThread(m)
      BY <2>1
    <3>2. l \in Loops \ {m}
      BY <3>1
    <3> QED  BY <1>3, <3>1, <3>2, LoopLocal
  <2>2. CASE ~\E m \in Loops : LoopThread(m)
    <3>1. lQueue'[l] = lQueue[l]
      BY <1>3, <2>2
      DEF CalmStep, Next, Evr, Dispatch, StartTimer, SavePattern, NotifyCollector, TimerThread,
          StartSleep, Expire, Collector, CollectorPattern, CollectorMeasurement, ReadDevice,
          CheckPulseId
    <3> QED  BY <1>3, <3>1
  <2> QED  BY <2>1, <2>2
<1> QED  BY <1>1, <1>2, <1>3

-----------------------------------------------------------------------------
(* The LoopThreads *)

\* When all threads have finished, every pulse of the calm is calculated.
LEMMA RestCalculated ==
  ASSUME TypeOK, NEW l \in Loops, CalmLoop(l), Finished, lQueue[l] = <<>>,
         lPc[l] # "measurement", since \in 0 .. pulse
  PROVE  \A n \in since + 1 .. pulse : l \in Matches[log[n]] => matched[l] >= n
<1>1. pulse \in Nat
  BY DEF TypeOK, EvrTypeOK, pulse
<1>2. evrPc # "dispatch"
  BY DEF Finished
<1>3. ~Measurable(l)
  BY DEF Measurable
<1>4. pulse > since /\ l \in Matches[log[pulse]] => matched[l] >= pulse
  BY <1>2, <1>3 DEF CalmLoop, FateInv
<1>5. ASSUME NEW n \in since + 1 .. pulse, l \in Matches[log[n]]
      PROVE  matched[l] >= n
  <2>1. CASE n = pulse
    BY <1>1, <1>4, <1>5, <2>1
  <2>2. CASE n # pulse
    <3>1. n \in since + 1 .. pulse - 1
      BY <1>1, <2>2
    <3> QED  BY <1>5, <3>1 DEF CalmLoop, FateInv
  <2> QED  BY <2>1, <2>2
<1> QED  BY <1>5

\* A fiducial in the calm.
LEMMA FiducialLoop ==
  ASSUME TypeOK, enabled, StageInv, NEW l \in Loops, CalmLoop(l), CalmStep,
         NEW k \in Kinds, Fiducial(k), since \in 0 .. pulse
  PROVE  CalmLoop(l)'
<1> DEFINE e == Event("HEARTBEAT", evrPattern')
<1>1. /\ Resting /\ pulse \in Nat /\ pulse' = pulse + 1 /\ since' = since
      /\ \A n \in 1 .. pulse : log'[n] = log[n]
      /\ evrPattern' = [kind |-> log'[pulse'], pulse |-> pulse']
  BY CalmFiducial DEF CalmStep
<1>2. /\ lQueue[l] = <<>> /\ lPc[l] = "receive" /\ Finished
      /\ evrPc' = "dispatch" /\ lPc' = lPc /\ matched' = matched
  BY <1>1 DEF Resting, Finished, TimerOn, Fiducial
<1>3. e \in Events /\ e.type = "HEARTBEAT" /\ e.pattern = evrPattern'
  <2>1. evrPattern' = [kind |-> k, pulse |-> pulse + 1]
    BY DEF Fiducial
  <2>2. evrPattern' \in Patterns
    BY <1>1, <2>1 DEF Patterns
  <2> QED  BY <2>2, EventType
<1>4. lQueue'[l] = <<>> \/ lQueue'[l] = <<e>>
  <2>1. lQueue'[l] = lQueue[l] \/ lQueue'[l] = Send(lQueue[l], e)
    BY DEF Fiducial
  <2> HIDE DEF e
  <2> QED  BY <1>2, <1>3, <2>1, SendFew
<1> HIDE DEF e
<1>5. EventsInv(l)'
  <2>1. \A i \in 1 .. Len(lQueue'[l]) : lQueue'[l][i] = e
    BY <1>4
  <2>2. Ranked(lQueue'[l])
    BY <1>4 DEF Ranked
  <2> QED  BY <1>3, <2>1, <2>2 DEF EventsInv
<1>6. CalmInv(l)'
  BY <1>2 DEF CalmInv, CalmPcs
<1>7. FateInv(l)'
  <2>1. ASSUME NEW n \in since' + 1 .. pulse' - 1, l \in Matches[log'[n]]
        PROVE  matched'[l] >= n
    <3>1. n \in since + 1 .. pulse /\ n \in 1 .. pulse
      BY <1>1
    <3>2. \A i \in since + 1 .. pulse : l \in Matches[log[i]] => matched[l] >= i
      BY <1>2, RestCalculated
    <3> QED  BY <1>1, <1>2, <2>1, <3>1, <3>2
  <2> QED  BY <1>2, <2>1 DEF FateInv
<1> QED  BY <1>5, <1>6, <1>7 DEF CalmLoop

\* Another step of another thread.
LEMMA OtherLoop ==
  ASSUME TypeOK, StageInv, NEW l \in Loops, CalmLoop(l), CalmStep, ~LoopThread(l),
         \A k \in Kinds : ~Fiducial(k), Finished => Finished',
         Finished' => Finished \/ Dispatch \/ Broadcast
  PROVE  CalmLoop(l)'
<1> DEFINE q == lQueue[l]
           r == lQueue'[l]
<1>1. /\ lState'[l] = lState[l] /\ lPattern'[l] = lPattern[l] /\ lPc'[l] = lPc[l]
      /\ lEvent'[l] = lEvent[l] /\ matched'[l] = matched[l]
  BY OtherStep DEF CalmStep
<1>2. /\ log' = log /\ evrPattern' = evrPattern /\ pulse' = pulse /\ since' = since
      /\ pulse \in Nat
  BY LogStep DEF CalmStep, pulse, TypeOK, EvrTypeOK
<1>3. \/ r = q /\ ~(Dispatch /\ l \in Matches[evrPattern.kind]) /\ ~Broadcast
      \/ /\ Dispatch /\ r = Send(q, PatternSent)
         /\ \A i \in 1 .. Len(q) : Rank[q[i].type] < Rank["PATTERN"]
      \/ /\ Broadcast /\ r = Send(q, MeasurementSent)
         /\ \A i \in 1 .. Len(q) : Rank[q[i].type] < Rank["MEASUREMENT"]
  BY CalmOther
<1>4. /\ PatternSent \in Events /\ MeasurementSent \in Events
      /\ PatternSent.type = "PATTERN" /\ MeasurementSent.type = "MEASUREMENT"
      /\ PatternSent.pattern = evrPattern /\ MeasurementSent.pattern = evrPattern
      /\ q \in Queues /\ Ranked(q) /\ EventsInv(l) /\ CalmInv(l) /\ FateInv(l)
  BY PatternEvents DEF TypeOK, LoopTypeOK, CalmLoop, EventsInv
<1>5. Broadcast => Updating /\ Finished'
  <2>1. Broadcast => Updating
    BY DEF Broadcast, StageInv, Stage, Finished, Dispatching, Saving, Told, Due
  <2> QED  BY <2>1 DEF Broadcast, Updating, Finished, TimerOn
<1>6. evrPc' = "dispatch" => evrPc = "dispatch" /\ ~Dispatch /\ ~Broadcast
  <2>1. CASE Evr
    BY <2>1 DEF Evr, Dispatch, StartTimer, SavePattern, NotifyCollector, Broadcast
  <2>2. CASE TimerThread
    BY <1>5, <2>2 DEF TimerThread, StartSleep, Expire, Dispatch, Broadcast, Updating
  <2>3. CASE Collector \/ \E m \in Loops : LoopThread(m)
    BY <1>5, <2>3, EvrUntouched DEF Dispatch, Updating
  <2> QED  BY <2>1, <2>2, <2>3 DEF CalmStep, Next
<1>7. EventsInv(l)'
  BY <1>2, <1>3, <1>4, <1>5, <1>6, EventsSent
<1>8. \A i \in 1 .. Len(q) : i \in 1 .. Len(r) /\ r[i] = q[i]
  BY <1>3, <1>4, RankedSend
<1>9. CalmInv(l)'
  <2>1. ASSUME lPc[l] # "receive" PROVE r = <<>>
    <3>1. Finished /\ q = <<>>
      BY <1>4, <2>1 DEF CalmInv
    <3>2. ~Dispatch /\ ~Broadcast
      BY <3>1 DEF Finished, Dispatch, Broadcast
    <3> QED  BY <1>3, <3>1, <3>2
  <2>2. MeasurementSent' = MeasurementSent
    BY <1>2 DEF MeasurementSent
  <2> QED  BY <1>1, <1>4, <2>1, <2>2 DEF CalmInv
<1>10. FateInv(l)'
  <2>1. ASSUME pulse > since, l \in Matches[log[pulse]], evrPc' # "dispatch", ~(matched[l] >= pulse)
        PROVE  Taken(l)' /\ Measurable(l)'
    <3>1. CASE Dispatch
      <4>1. l \in Matches[evrPattern.kind]
        BY <2>1 DEF StageInv
      <4>2. r = Send(q, PatternSent) /\ \A i \in 1 .. Len(q) : Rank[q[i].type] < Rank["PATTERN"]
        BY <1>3, <3>1, <4>1 DEF Dispatch, Broadcast
      <4>3. Len(q) + 1 \in 1 .. Len(r) /\ r[Len(q) + 1] = PatternSent
        BY <1>4, <4>2, RankedSend
      <4>4. evrPc' = "timer"
        BY <3>1, <4>1 DEF Dispatch
      <4> QED  BY <1>4, <4>3, <4>4 DEF Taken, Measurable, Finished
    <3>2. CASE ~Dispatch
      <4>1. evrPc # "dispatch"
        <5>1. CASE Evr
          BY <2>1, <3>2, <5>1 DEF Evr, StartTimer, SavePattern, NotifyCollector
        <5>2. CASE TimerThread
          BY <2>1, <5>2 DEF TimerThread, StartSleep, Expire
        <5>3. CASE Collector \/ \E m \in Loops : LoopThread(m)
          BY <2>1, <5>3, EvrUntouched
        <5> QED  BY <5>1, <5>2, <5>3 DEF CalmStep, Next
      <4>2. Taken(l) /\ Measurable(l)
        BY <1>4, <2>1, <4>1 DEF FateInv
      <4>3. Taken(l)'
        BY <1>1, <1>2, <1>8, <4>2 DEF Taken
      <4>4. CASE Finished
        BY <1>1, <1>8, <4>2, <4>3, <4>4 DEF Measurable
      <4>5. CASE ~Finished /\ Broadcast
        <5>1. /\ r = Send(q, MeasurementSent)
              /\ \A i \in 1 .. Len(q) : Rank[q[i].type] < Rank["MEASUREMENT"]
          BY <1>3, <4>5 DEF Broadcast, Dispatch, Updating
        <5>2. Len(q) + 1 \in 1 .. Len(r) /\ r[Len(q) + 1] = MeasurementSent
          BY <1>4, <5>1, RankedSend
        <5> QED  BY <1>4, <4>3, <5>2 DEF Measurable
      <4>6. CASE ~Finished /\ ~Broadcast
        <5>1. ~Finished'
          BY <3>2, <4>6
        <5> QED  BY <4>3, <5>1 DEF Measurable
      <4> QED  BY <4>3, <4>4, <4>5, <4>6
    <3> QED  BY <3>1, <3>2
  <2> QED  BY <1>1, <1>2, <1>4, <2>1 DEF FateInv
<1> QED  BY <1>7, <1>9, <1>10 DEF CalmLoop

\* What thread l does to its queue in the calm: it receives, and clears nothing.
LEMMA CalmOwnQueue ==
  ASSUME TypeOK, NEW l \in Loops, CalmInv(l), LoopThread(l)
  PROVE  \/ lQueue'[l] = lQueue[l] /\ ~LoopPattern(l) /\ ~LoopReceive(l)
         \/ /\ LoopPattern(l) \/ LoopReceive(l)
            /\ lQueue[l] # <<>> /\ 1 \in 1 .. Len(lQueue[l]) /\ Head(lQueue[l]) = lQueue[l][1]
            /\ Left(lQueue[l], 1, lQueue'[l])
<1>1. l \in DOMAIN lQueue /\ lPc[l] \notin {"changeMode", "changing", "clear", "clearing"}
  BY DEF TypeOK, LoopTypeOK, CalmInv, CalmPcs
<1>2. CASE LoopPattern(l) \/ LoopReceive(l)
  <2>1. lQueue[l] # <<>> /\ lQueue'[l] = Tail(lQueue[l])
    BY <1>1, <1>2 DEF LoopPattern, LoopReceive
  <2> QED  BY <1>2, <2>1, QueueEvents, TailLeft
<1>3. CASE ~(LoopPattern(l) \/ LoopReceive(l))
  BY <1>1, <1>3
  DEF LoopThread, BeginChangeMode, EndChangeMode, Unexpected, Calculate, BeginAlgorithm,
      CheckMeasurement, Get, Skip, Actuate, BeginClear, EndClear
<1> QED  BY <1>2, <1>3

\* An event that is received leaves the ones sent after it.
LEMMA ReceivedRanks ==
  ASSUME NEW q, NEW r, Ranked(q), Left(q, 1, r), Len(q) \in Nat, Len(r) \in Nat,
         1 \in 1 .. Len(q)
  PROVE  /\ Ranked(r)
         /\ \A i \in 1 .. Len(r) : i + 1 \in 1 .. Len(q) /\ r[i] = q[i + 1]
         /\ \A i \in 1 .. Len(q) : i # 1 =>
              Rank[q[1].type] < Rank[q[i].type] /\ \E j \in 1 .. Len(r) : r[j] = q[i]
<1>1. \A i \in 1 .. Len(r) : i + 1 \in 1 .. Len(q) /\ r[i] = q[i + 1]
  BY DEF Left
<1>2. Ranked(r)
  <2> SUFFICES ASSUME NEW i \in 1 .. Len(r), NEW j \in 1 .. Len(r), i < j
               PROVE  Rank[r[i].type] < Rank[r[j].type]
    BY DEF Ranked
  <2>1. i + 1 < j + 1
    OBVIOUS
  <2> QED  BY <1>1, <2>1 DEF Ranked
<1>3. ASSUME NEW i \in 1 .. Len(q), i # 1
      PROVE  Rank[q[1].type] < Rank[q[i].type] /\ \E j \in 1 .. Len(r) : r[j] = q[i]
  <2>1. 1 < i
    BY <1>3
  <2>2. i - 1 \in 1 .. Len(r) /\ r[i - 1] = q[i]
    BY <2>1 DEF Left
  <2> QED  BY <2>1, <2>2 DEF Ranked
<1> QED  BY <1>1, <1>2, <1>3

\* A loop that waits for the measurements of the last pulse gets them, and every
\* other one has calculated before.
LEMMA OwnFate ==
  ASSUME TypeOK, PatternsInOrder, StageInv, NEW l \in Loops, EventsInv(l), CalmInv(l),
         Taken(l), Measurable(l), evrPattern.pulse = pulse, CalmStep, LoopThread(l),
         Finished => Finished', UNCHANGED <<log, evrPc, evrPattern>>, Finished' => Finished
  PROVE  matched'[l] >= pulse \/ (Taken(l)' /\ Measurable(l)')
<1> DEFINE q == lQueue[l]
           r == lQueue'[l]
<1>0. /\ l \in DOMAIN lPc /\ l \in DOMAIN lState /\ l \in DOMAIN lPattern
      /\ l \in DOMAIN matched /\ l \in DOMAIN lEvent
      /\ Len(q) \in Nat /\ Len(r) \in Nat /\ pulse \in Nat
  <2>1. TypeOK'
    BY TypeStep DEF CalmStep
  <2>2. lQueue' \in [Loops -> Queues]
    BY <2>1 DEF TypeOK, LoopTypeOK
  <2>3. Len(q) \in Nat /\ Len(r) \in Nat
    BY <2>2, QueueEvents DEF Queues
  <2> QED
    BY <2>3 DEF TypeOK, EvrTypeOK, LoopTypeOK, HistoryTypeOK, pulse
<1>1. ASSUME Left(q, 1, r), 1 \in 1 .. Len(q)
      PROVE  \A i \in 1 .. Len(q) : i # 1 =>
               Rank[q[1].type] < Rank[q[i].type] /\ \E j \in 1 .. Len(r) : r[j] = q[i]
  <2>1. Ranked(q)
    BY DEF EventsInv
  <2> HIDE DEF q, r
  <2> QED  BY <1>0, <1>1, <2>1, ReceivedRanks
<1>2. CASE LoopPattern(l)
  <2>1. /\ lPc'[l] = "receive" /\ lState'[l] = "WAITING_MEASUREMENT"
        /\ lPattern'[l] = Head(q).pattern /\ Head(q).type = "PATTERN"
    BY <1>0, <1>2 DEF LoopPattern
  <2>2. 1 \in 1 .. Len(q) /\ Head(q) = q[1] /\ Left(q, 1, r)
    BY <1>2, CalmOwnQueue
  <2>3. lPattern'[l] = evrPattern'
    BY <2>1, <2>2 DEF EventsInv
  <2>4. Measurable(l)'
    <3>1. CASE ~Finished
      BY <3>1 DEF Measurable
    <3>2. ASSUME NEW i \in 1 .. Len(q), q[i].type = "MEASUREMENT" PROVE Measurable(l)'
      <4>1. i # 1
        BY <2>1, <2>2, <3>2
      <4>2. \E j \in 1 .. Len(r) : r[j] = q[i]
        BY <1>1, <2>2, <4>1
      <4> QED  BY <3>2, <4>2 DEF Measurable
    <3>3. lPc[l] = "receive"
      BY <1>2 DEF LoopPattern
    <3> QED  BY <3>1, <3>2, <3>3 DEF Measurable
  <2> QED  BY <2>1, <2>3, <2>4 DEF Taken
<1>3. CASE LoopReceive(l)
  <2>1. /\ lPc[l] = "receive" /\ UNCHANGED <<lState, lPattern>> /\ Head(q).type # "PATTERN"
        /\ lPc'[l] = Continue(Head(q))
    BY <1>0, <1>3 DEF LoopReceive, CalmStep, Calm
  <2>2. 1 \in 1 .. Len(q) /\ Head(q) = q[1] /\ Left(q, 1, r) /\ q[1] \in Events
    BY <1>3, CalmOwnQueue, QueueEvents
  <2>3. CASE q[1].type = "MEASUREMENT"
    <3>1. \A i \in 1 .. Len(q) : q[i].type # "PATTERN"
      <4>1. ASSUME NEW i \in 1 .. Len(q), q[i].type = "PATTERN" PROVE FALSE
        <5>1. i # 1
          BY <2>3, <4>1
        <5>2. Rank[q[1].type] < Rank[q[i].type]
          BY <1>1, <2>2, <5>1
        <5> QED  BY <2>3, <4>1, <5>2, Ranks
      <4> QED  BY <4>1
    <3>2. lPc'[l] = "measurement"
      BY <2>1, <2>2, <2>3 DEF Continue
    <3> QED  BY <2>1, <3>1, <3>2 DEF Taken, Measurable
  <2>4. CASE q[1].type # "MEASUREMENT"
    <3>1. \A i \in 1 .. Len(q) : q[i].type \in {"PATTERN", "MEASUREMENT"} =>
             \E j \in 1 .. Len(r) : r[j] = q[i]
      <4>1. \A i \in 1 .. Len(q) : q[i].type \in {"PATTERN", "MEASUREMENT"} => i # 1
        BY <2>1, <2>2, <2>4
      <4>2. ASSUME NEW i \in 1 .. Len(q), i # 1 PROVE \E j \in 1 .. Len(r) : r[j] = q[i]
        BY <1>1, <2>2, <4>2
      <4> QED  BY <4>1, <4>2
    <3>2. Taken(l)'
      BY <2>1, <3>1 DEF Taken
    <3>3. Measurable(l)'
      BY <2>1, <3>1 DEF Measurable
    <3> QED  BY <3>2, <3>3
  <2> QED  BY <2>3, <2>4
<1>4. CASE ~LoopPattern(l) /\ ~LoopReceive(l)
  <2>1. lPc[l] # "receive" /\ lPc[l] \in CalmPcs
    BY <1>4 DEF CalmInv, LoopThread, BeginChangeMode, EndChangeMode, Unexpected, Calculate,
                BeginAlgorithm, CheckMeasurement, Get, Skip, Actuate, BeginClear, EndClear
  <2>2. Finished /\ q = <<>>
    BY <2>1 DEF CalmInv
  <2>3. lPc[l] = "measurement"
    BY <2>2 DEF Measurable
  <2>4. lState[l] = "WAITING_MEASUREMENT" /\ lPattern[l] = evrPattern
    BY <2>2 DEF Taken
  <2>5. lEvent[l].pattern = evrPattern
    BY <2>3, PatternEvents DEF CalmInv
  <2>6. Calculate(l)
    BY <1>4, <2>3, <2>4, <2>5
    DEF LoopThread, BeginChangeMode, EndChangeMode, Unexpected, BeginAlgorithm,
        CheckMeasurement, Get, Skip, Actuate, BeginClear, EndClear
  <2>7. matched'[l] = pulse
    BY <1>0, <2>4, <2>6 DEF Calculate
  <2> QED  BY <1>0, <2>7
<1> QED  BY <1>2, <1>3, <1>4

\* What is calculated stays so.
LEMMA MatchedGrows ==
  ASSUME TypeOK, PatternsInOrder, NEW l \in Loops, LoopThread(l)
  PROVE  matched[l] \in Nat /\ matched'[l] \in Nat /\ matched[l] <= matched'[l]
<1>0. matched[l] \in Nat /\ l \in DOMAIN matched /\ lPattern[l].pulse \in Nat
  BY DEF TypeOK, HistoryTypeOK, LoopTypeOK, Patterns
<1>1. CASE Calculate(l)
  <2>1. matched[l] < lPattern[l].pulse
    BY <1>1 DEF Calculate, PatternsInOrder, PatternInv
  <2> QED  BY <1>0, <1>1, <2>1 DEF Calculate
<1>2. CASE ~Calculate(l)
  <2>1. matched' = matched
    BY <1>2 DEF LoopThread, LoopPattern, LoopReceive, BeginChangeMode, EndChangeMode,
                Unexpected, BeginAlgorithm, CheckMeasurement, Get, Skip, Actuate, BeginClear,
                EndClear
  <2> QED  BY <1>0, <2>1
<1> QED  BY <1>1, <1>2

\* A step of thread l.
LEMMA OwnLoop ==
  ASSUME TypeOK, PatternsInOrder, StageInv, NEW l \in Loops, CalmLoop(l), CalmStep,
         LoopThread(l), Finished => Finished', Finished' => Finished, since \in 0 .. pulse
  PROVE  CalmLoop(l)'
<1> DEFINE q == lQueue[l]
           r == lQueue'[l]
<1>0. /\ l \in DOMAIN lPc /\ l \in DOMAIN lEvent
      /\ EventsInv(l) /\ CalmInv(l) /\ FateInv(l) /\ q \in Queues
      /\ Len(q) \in Nat /\ pulse \in Nat /\ since \in Nat
  BY QueueEvents DEF TypeOK, EvrTypeOK, LoopTypeOK, CalmLoop, pulse
<1>1. /\ log' = log /\ evrPc' = evrPc /\ evrPattern' = evrPattern /\ since' = since
      /\ pulse' = pulse
  BY EvrUntouched DEF CalmStep, pulse
<1>2. \/ r = q /\ ~LoopPattern(l) /\ ~LoopReceive(l)
      \/ /\ LoopPattern(l) \/ LoopReceive(l)
         /\ q # <<>> /\ 1 \in 1 .. Len(q) /\ Head(q) = q[1] /\ Left(q, 1, r)
  BY <1>0, CalmOwnQueue
<1>3. Len(r) \in Nat
  <2>1. TypeOK'
    BY TypeStep DEF CalmStep
  <2>2. lQueue' \in [Loops -> Queues]
    BY <2>1 DEF TypeOK, LoopTypeOK
  <2> QED  BY <2>2 DEF Queues
<1>4. /\ Ranked(r)
      /\ \A i \in 1 .. Len(r) : \E j \in 1 .. Len(q) : r[i] = q[j]
  <2>1. Ranked(q)
    BY <1>0 DEF EventsInv
  <2> HIDE DEF q, r
  <2> QED  BY <1>0, <1>2, <1>3, <2>1, ReceivedRanks
<1>5. EventsInv(l)'
  <2>1. ASSUME NEW i \in 1 .. Len(r)
        PROVE  /\ r[i].pattern = evrPattern
               /\ evrPc = "dispatch" => r[i].type = "HEARTBEAT"
               /\ r[i].type = "MEASUREMENT" => Finished'
    BY <1>0, <1>4 DEF EventsInv
  <2> QED  BY <1>1, <1>4, <2>1 DEF EventsInv
<1>6. CalmInv(l)'
  <2>1. lPc'[l] # "changeMode"
    BY DEF CalmStep, Calm
  <2>2. MeasurementSent' = MeasurementSent
    BY <1>1 DEF MeasurementSent
  <2>3. CASE LoopPattern(l)
    BY <1>0, <2>3 DEF LoopPattern, CalmInv, CalmPcs
  <2>4. CASE LoopReceive(l)
    <3>1. /\ lPc'[l] = Continue(q[1]) /\ lEvent'[l] = q[1] /\ q[1] \in Events
          /\ q[1].pattern = evrPattern
      BY <1>0, <1>2, <2>1, <2>4, QueueEvents DEF LoopReceive, LoopPattern, EventsInv
    <3>2. CASE q[1].type = "MEASUREMENT"
      <4>1. Finished
        BY <1>0, <1>2, <2>4, <3>2 DEF EventsInv
      <4>2. r = <<>>
        <5>1. ASSUME NEW i \in 1 .. Len(q), i # 1 PROVE FALSE
          <6>1. 1 < i
            BY <5>1
          <6>2. Rank[q[1].type] < Rank[q[i].type] /\ q[i] \in Events
            BY <1>0, <1>2, <2>4, <6>1, QueueEvents DEF EventsInv, Ranked
          <6> QED  BY <3>2, <6>2, Ranks
        <5>2. Len(r) = 0
          <6>1. ASSUME NEW i \in 1 .. Len(r) PROVE FALSE
            <7>1. i + 1 \in 1 .. Len(q)
              BY <1>2, <2>4 DEF Left
            <7> QED  BY <5>1, <7>1
          <6> QED  BY <1>3, <6>1
        <5>3. r \in Seq(Events)
          <6>1. TypeOK'
            BY TypeStep DEF CalmStep
          <6>2. lQueue' \in [Loops -> Queues]
            BY <6>1 DEF TypeOK, LoopTypeOK
          <6> QED  BY <6>2 DEF Queues
        <5> QED  BY <5>2, <5>3
      <4>3. q[1] = MeasurementSent
        BY <3>1, <3>2 DEF Events, Event, MeasurementSent
      <4> QED  BY <2>2, <3>1, <3>2, <4>1, <4>2, <4>3 DEF CalmInv, CalmPcs, Continue
    <3>3. CASE q[1].type # "MEASUREMENT"
      BY <3>1, <3>3 DEF CalmInv, CalmPcs, Continue
    <3> QED  BY <3>2, <3>3
  <2>5. CASE ~LoopPattern(l) /\ ~LoopReceive(l)
    <3>1. r = q /\ Finished' /\ q = <<>> /\ lPc'[l] # "measurement" /\ lPc'[l] \in CalmPcs
      <4>1. lPc[l] \in CalmPcs /\ lPc[l] # "receive"
        BY <1>0, <2>5
        DEF CalmInv, CalmPcs, LoopThread, BeginChangeMode, EndChangeMode, Unexpected, Calculate,
            BeginAlgorithm, CheckMeasurement, Get, Skip, Actuate, BeginClear, EndClear
      <4>2. r = q /\ q = <<>> /\ Finished'
        BY <1>0, <1>2, <2>5, <4>1 DEF CalmInv
      <4>3. CASE Unexpected(l) \/ Calculate(l) \/ BeginAlgorithm(l)
        BY <1>0, <4>2, <4>3 DEF Unexpected, Calculate, BeginAlgorithm, CalmPcs
      <4>4. CASE Skip(l) \/ Actuate(l)
        BY <1>0, <4>2, <4>4 DEF Skip, Actuate, Return, CalmPcs
      <4>5. ASSUME NEW d \in Devices, CheckMeasurement(l, d) \/ Get(l, d)
            PROVE  lPc'[l] # "measurement" /\ lPc'[l] \in CalmPcs
        BY <1>0, <4>1, <4>5 DEF CheckMeasurement, Get, CalmPcs
      <4> QED
        BY <2>5, <4>1, <4>2, <4>3, <4>4, <4>5
        DEF LoopThread, BeginChangeMode, EndChangeMode, BeginClear, EndClear, CalmPcs
    <3> QED  BY <3>1 DEF CalmInv
  <2> QED  BY <2>3, <2>4, <2>5
<1>7. FateInv(l)'
  <2>1. matched[l] \in Nat /\ matched'[l] \in Nat /\ matched[l] <= matched'[l]
    BY MatchedGrows
  <2>2. ASSUME NEW n \in since + 1 .. pulse - 1, l \in Matches[log[n]]
        PROVE  matched'[l] >= n
    <3>1. matched[l] >= n /\ n \in Nat
      BY <1>0, <2>2 DEF FateInv
    <3> QED  BY <2>1, <3>1
  <2>3. ASSUME pulse > since, l \in Matches[log[pulse]], evrPc # "dispatch"
        PROVE  matched'[l] >= pulse \/ (Taken(l)' /\ Measurable(l)')
    <3>1. CASE matched[l] >= pulse
      BY <1>0, <2>1, <3>1
    <3>2. CASE Taken(l) /\ Measurable(l)
      <4>1. evrPattern.pulse = pulse
        BY <2>3 DEF StageInv
      <4> QED  BY <1>0, <1>1, <3>2, <4>1, OwnFate
    <3> QED  BY <1>0, <2>3, <3>1, <3>2 DEF FateInv
  <2> QED  BY <1>1, <2>2, <2>3 DEF FateInv
<1> QED  BY <1>5, <1>6, <1>7 DEF CalmLoop

-----------------------------------------------------------------------------
(* Every pulse of the calm *)

LEMMA CalmKept ==
  ASSUME TypeOK, LockInv, PatternsInOrder, RecoveryInv, calm, CalmStep
  PROVE  RecoveryInv'
<1>0. /\ StageInv /\ since \in 0 .. pulse /\ enabled /\ calm' = calm /\ since' = since
      /\ \A l \in Loops : CalmLoop(l)
  BY CalmEnabled DEF RecoveryInv, CalmLoop, CalmStep
<1>1. StageInv'
  BY <1>0, StageStep
<1>2. CASE \E k \in Kinds : Fiducial(k)
  <2>1. PICK k \in Kinds : Fiducial(k)
    BY <1>2
  <2>2. pulse \in Nat /\ pulse' = pulse + 1
    BY <1>0, <2>1, CalmFiducial DEF CalmStep
  <2>3. \A l \in Loops : CalmLoop(l)'
    BY <1>0, <2>1, FiducialLoop
  <2>4. since' \in 0 .. pulse'
    BY <1>0, <2>2
  <2> QED  BY <1>0, <1>1, <2>3, <2>4 DEF RecoveryInv
<1>3. CASE \A k \in Kinds : ~Fiducial(k)
  <2>1. Finished => Finished'
    BY <1>0, <1>3, StageKept DEF StageInv
  <2>2. Finished' => Finished \/ Dispatch \/ Broadcast
    BY <1>0, <1>3, StageKept DEF StageInv
  <2>3. ASSUME NEW l \in Loops, LoopThread(l) PROVE ~Dispatch /\ ~Broadcast
    <3>1. UNCHANGED <<evrPc, cPc>>
      BY <2>3, EvrUntouched, CollectorUntouched
    <3> QED  BY <3>1 DEF Dispatch, Broadcast
  <2>4. \A l \in Loops : CalmLoop(l)'
    BY <1>0, <1>3, <2>1, <2>2, <2>3, OtherLoop, OwnLoop
  <2>5. pulse' = pulse
    BY <1>3, LogStep DEF CalmStep, pulse
  <2> QED  BY <1>0, <1>1, <2>4, <2>5 DEF RecoveryInv
<1> QED  BY <1>2, <1>3

\* The log only grows.
LEMMA PulseGrows ==
  ASSUME TypeOK, [Next]_vars
  PROVE  pulse \in Nat /\ pulse' \in Nat /\ pulse <= pulse'
<1>1. log \in Seq(Kinds) /\ Len(log) \in Nat
  BY DEF TypeOK, EvrTypeOK
<1>2. ASSUME NEW k \in Kinds, Fiducial(k) PROVE Len(log') = Len(log) + 1
  <2>1. log' = Append(log, k)
    BY <1>2 DEF Fiducial
  <2> QED  BY <1>1, <2>1
<1>3. CASE \A k \in Kinds : ~Fiducial(k)
  BY <1>1, <1>3, LogStep DEF pulse, vars
<1> QED  BY <1>1, <1>2, <1>3 DEF pulse

\* The calm begins at rest.
LEMMA RecoveryStep ==
  ASSUME TypeOK, LockInv, PatternsInOrder, RecoveryInv, [RecoveryNext]_<<vars, calm, since>>
  PROVE  RecoveryInv'
<1>1. since \in 0 .. pulse /\ pulse \in Nat
  BY DEF RecoveryInv, TypeOK, EvrTypeOK, pulse
<1>2. CASE CalmDown
  <2>1. UNCHANGED vars /\ since' = pulse /\ pulse' = pulse /\ Resting
    BY <1>2 DEF CalmDown, vars, pulse
  <2>2. StageInv'
    BY <1>1, <2>1 DEF vars, StageInv, Stage, Finished, Resting, OneTimer, TimerOn
  <2>3. ASSUME NEW l \in Loops PROVE CalmLoop(l)'
    <3>1. lQueue'[l] = <<>> /\ lPc'[l] = "receive"
      BY <2>1 DEF Resting, vars
    <3>2. EventsInv(l)' /\ CalmInv(l)'
      BY <3>1 DEF EventsInv, CalmInv, Ranked, CalmPcs
    <3>3. ASSUME NEW n \in pulse + 1 .. pulse - 1 PROVE FALSE
      BY <1>1, <3>3
    <3>4. FateInv(l)'
      BY <1>1, <2>1, <3>3 DEF FateInv
    <3> QED  BY <3>2, <3>4 DEF CalmLoop
  <2> QED  BY <1>1, <2>1, <2>2, <2>3 DEF RecoveryInv
<1>3. CASE Next /\ ~calm /\ UNCHANGED <<calm, since>>
  BY <1>1, <1>3, PulseGrows DEF RecoveryInv
<1>4. CASE Next /\ calm /\ Calm /\ UNCHANGED <<calm, since>>
  BY <1>4, CalmKept DEF CalmStep
<1>5. CASE UNCHANGED <<vars, calm, since>>
  <2>1. /\ pulse' = pulse /\ UNCHANGED <<calm, since, log, evrPc, evrPattern, saved, timerQueue,
                                      timerPc, cQueue, cState, cPc, cPattern, lQueue, lState,
                                      lPattern, lPc, lEvent, matched>>
    BY <1>5 DEF vars, pulse
  <2>2. StageInv => StageInv'
    BY <2>1 DEF StageInv, Stage, Finished, Dispatching, Saving, Told, Due, Updating, OneTimer,
                TimerOn, PatternSent, MeasurementSent
  <2>3. Finished' <=> Finished
    BY <2>1 DEF Finished, TimerOn
  <2>4. ASSUME NEW l \in Loops, CalmLoop(l) PROVE CalmLoop(l)'
    <3>1. EventsInv(l)'
      BY <2>1, <2>3, <2>4 DEF CalmLoop, EventsInv, Ranked
    <3>2. CalmInv(l)'
      BY <2>1, <2>3, <2>4 DEF CalmLoop, CalmInv, MeasurementSent
    <3>3. FateInv(l)'
      BY <2>1, <2>3, <2>4 DEF CalmLoop, FateInv, Taken, Measurable
    <3> QED  BY <3>1, <3>2, <3>3 DEF CalmLoop
  <2> QED  BY <1>1, <2>1, <2>2, <2>4 DEF RecoveryInv
<1> QED  BY <1>2, <1>3, <1>4, <1>5 DEF RecoveryNext

\* Whatever happened before the calm (late or lost events, torn patterns, disabled
\* windows, discarded queues, any _state and _pattern left over), every pulse of the
\* calm is calculated by every loop that it matches: processPatternEvent sets all that
\* the MEASUREMENT_EVENT after it is compared with (RestMeansCalculated of the runs).
THEOREM PulsesCalculated == RecoverySpec => []RestMeansCalculated
<1> DEFINE Inv == TypeOK /\ LockInv /\ PatternsInOrder /\ RecoveryInv
<1>1. Init /\ calm = FALSE /\ since = 0 => Inv
  <2>1. Init => pulse = 0
    BY DEF Init, pulse
  <2> QED  BY <2>1, InitType, LockInit, PatternsInit DEF RecoveryInv
<1>2. Inv /\ [RecoveryNext]_<<vars, calm, since>> => Inv'
  <2> SUFFICES ASSUME Inv, [RecoveryNext]_<<vars, calm, since>> PROVE Inv'
    OBVIOUS
  <2>1. [Next]_vars
    BY DEF RecoveryNext, CalmDown
  <2> QED  BY <2>1, TypeStep, LockStep, PatternsStep, RecoveryStep
<1>3. Inv => RestMeansCalculated
  <2> SUFFICES ASSUME Inv, calm, Resting,
                      NEW n \in since + 1 .. pulse, NEW l \in Matches[log[n]]
               PROVE  matched[l] >= n
    BY DEF RestMeansCalculated
  <2>1. log \in Seq(Kinds) /\ Len(log) \in Nat /\ since \in 0 .. Len(log)
    BY DEF TypeOK, EvrTypeOK, RecoveryInv, pulse
  <2>2. log[n] \in Kinds
    BY <2>1 DEF pulse
  <2>3. l \in Loops
    BY <2>2, PipelineAssumption
  <2>4. CalmLoop(l) /\ Finished /\ lQueue[l] = <<>> /\ lPc[l] # "measurement"
    BY <2>3 DEF RecoveryInv, Resting, Finished, TimerOn
  <2> QED  BY <2>1, <2>3, <2>4, RestCalculated DEF pulse
<1> QED  BY <1>1, <1>2, <1>3, PTL DEF RecoverySpec
=============================================================================
