------------------------- MODULE PulsePipelineProofs -------------------------
(***************************************************************************)
(* Proofs about PulsePipeline, for every number of loops, devices, kinds   *)
(* of patterns, every queue capacity and every bound: its types, the       *)
(* PatternManager's mutex, the order of the patterns, and the contract     *)
(* that it implements, the exact one when it is timely.                    *)
(***************************************************************************)
EXTENDS PulsePipeline, TLAPS

-----------------------------------------------------------------------------
(* Lemmas about queues *)

\* EventReceiver::send keeps a queue of events within its capacity.
LEMMA SendType ==
  ASSUME NEW q \in Queues, NEW e \in Events
  PROVE  Send(q, e) \in Queues
  BY PipelineAssumption DEF Send, Queues

\* So does receiving the first event of a queue that has one, which is an event.
LEMMA ReceiveType ==
  ASSUME NEW q \in Queues, q # <<>>
  PROVE  Tail(q) \in Queues /\ Head(q) \in Events
<1>1. q \in Seq(Events) /\ Len(q) > 0
  BY DEF Queues
<1>2. Head(q) \in Events /\ Tail(q) \in Seq(Events)
  BY <1>1
<1>3. Len(Tail(q)) = Len(q) - 1
  BY <1>1
<1> QED  BY <1>1, <1>2, <1>3, PipelineAssumption DEF Queues

\* So does EventReceiver::clear.
LEMMA ClearType ==
  ASSUME NEW q \in Queues, NEW n \in Nat
  PROVE  SubSeq(q, n + 1, Len(q)) \in Queues /\ <<>> \in Queues
<1>1. CASE n < Len(q)
  <2>1. SubSeq(q, n + 1, Len(q)) \in Seq(Events)
    BY <1>1 DEF Queues
  <2>2. Len(SubSeq(q, n + 1, Len(q))) = Len(q) - n
    BY <1>1 DEF Queues
  <2> QED  BY <1>1, <2>1, <2>2, PipelineAssumption DEF Queues
<1>2. CASE ~ n < Len(q)
  <2>1. SubSeq(q, n + 1, Len(q)) = <<>>
    BY <1>2 DEF Queues
  <2> QED  BY <2>1, PipelineAssumption DEF Queues
<1> QED  BY <1>1, <1>2

\* An event that carries a pattern is an event.
LEMMA EventType ==
  ASSUME NEW t \in {"HEARTBEAT", "PATTERN", "MEASUREMENT"}, NEW p \in Patterns
  PROVE  Event(t, p) \in Events /\ Event(t, p).type = t /\ Event(t, p).pattern = p
  BY DEF Event, Events

LEMMA NoPatternType == NoPattern \in Patterns
  BY DEF NoPattern, Patterns

-----------------------------------------------------------------------------
(* Types *)

USE DEF evrVars, pmVars, timerVars, cVars, lVars, history, Lock, Unlock, NonePending

\* The variables have their types initially.
LEMMA InitType == Init => TypeOK
<1> SUFFICES ASSUME Init PROVE TypeOK
  OBVIOUS
<1> USE PipelineAssumption, NoPatternType DEF Init
<1>1. EvrTypeOK
  BY DEF EvrTypeOK, EvrPcs
<1>2. <<>> \in Queues
  BY DEF Queues
<1>3. CollectorTypeOK
  BY <1>2 DEF CollectorTypeOK, States, DataPoints, Statuses
<1>4. Event("HEARTBEAT", NoPattern) \in Events
  BY EventType
<1>5. LoopTypeOK
  BY <1>2, <1>4 DEF LoopTypeOK, States, LoopPcs
<1>6. HistoryTypeOK
  BY DEF HistoryTypeOK
<1> QED  BY <1>1, <1>3, <1>5, <1>6 DEF TypeOK

\* A fiducial.
LEMMA FiducialType ==
  ASSUME TypeOK, NEW k \in Kinds, Fiducial(k)
  PROVE  TypeOK'
<1> DEFINE p == [kind |-> k, pulse |-> pulse + 1]
<1>1. log \in Seq(Kinds) /\ log' = Append(log, k) /\ Len(log) \in Nat
  BY DEF TypeOK, EvrTypeOK, Fiducial
<1>2. log' \in Seq(Kinds)
  BY <1>1
<1>3. p \in Patterns
  BY <1>1 DEF Patterns, pulse
<1>4. Event("HEARTBEAT", p) \in Events
  BY <1>3, EventType
<1>5. \A l \in Loops : Send(lQueue[l], Event("HEARTBEAT", p)) \in Queues
  BY <1>4, SendType DEF TypeOK, LoopTypeOK
<1>6. /\ evrPc' \in EvrPcs /\ evrPattern' \in Patterns
      /\ lQueue' \in [Loops -> Queues]
  BY <1>3, <1>5 DEF Fiducial, TypeOK, EvrTypeOK, LoopTypeOK, EvrPcs
<1>7. UNCHANGED <<pmVars, timerVars, cVars, buffer, lState, lPattern, lPc,
                  lEvent, lTodo, lUsed, lPending, lEnabled, history>>
  BY DEF Fiducial
<1> QED
  BY <1>2, <1>6, <1>7 DEF TypeOK, EvrTypeOK, CollectorTypeOK, LoopTypeOK, HistoryTypeOK

\* A step of the EVR task.
LEMMA EvrType ==
  ASSUME TypeOK, Evr
  PROVE  TypeOK'
<1> USE DEF TypeOK, EvrTypeOK
<1>1. CASE Dispatch
  <2>1. Event("PATTERN", evrPattern) \in Events
    BY EventType
  <2>2. \A l \in Loops : Send(lQueue[l], Event("PATTERN", evrPattern)) \in Queues
    BY <2>1, SendType DEF LoopTypeOK
  <2>3. lQueue' \in [Loops -> Queues]
    BY <1>1, <2>2 DEF Dispatch, LoopTypeOK
  <2> QED
    BY <1>1, <2>3 DEF Dispatch, CollectorTypeOK, LoopTypeOK, HistoryTypeOK, EvrPcs
<1>2. CASE StartTimer
  BY <1>2, PipelineAssumption
  DEF StartTimer, CollectorTypeOK, LoopTypeOK, HistoryTypeOK, EvrPcs
<1>3. CASE SavePattern
  BY <1>3 DEF SavePattern, CollectorTypeOK, LoopTypeOK, HistoryTypeOK, EvrPcs
<1>4. CASE NotifyCollector
  <2>1. Send(cQueue, Event("PATTERN", evrPattern)) \in Queues
    BY EventType, SendType DEF CollectorTypeOK
  <2> QED
    BY <1>4, <2>1 DEF NotifyCollector, CollectorTypeOK, LoopTypeOK, HistoryTypeOK, EvrPcs
<1> QED  BY <1>1, <1>2, <1>3, <1>4 DEF Evr

\* A step of the Timer thread.
LEMMA TimerType ==
  ASSUME TypeOK, TimerThread
  PROVE  TypeOK'
<1> USE DEF TypeOK, EvrTypeOK
<1>1. CASE StartSleep
  BY <1>1, PipelineAssumption
  DEF StartSleep, CollectorTypeOK, LoopTypeOK, HistoryTypeOK
<1>2. CASE Expire
  <2>1. \A p \in SavedReads : p \in Patterns
    BY DEF SavedReads, Patterns
  <2>2. \A p \in SavedReads : Send(cQueue, Event("MEASUREMENT", p)) \in Queues
    BY <2>1, EventType, SendType DEF CollectorTypeOK
  <2>3. cQueue' \in Queues
    BY <1>2, <2>2 DEF Expire, CollectorTypeOK
  <2> QED
    BY <1>2, <2>3 DEF Expire, CollectorTypeOK, LoopTypeOK, HistoryTypeOK
<1> QED  BY <1>1, <1>2 DEF TimerThread

\* A step of the CollectorThread.
LEMMA CollectorType ==
  ASSUME TypeOK, Collector
  PROVE  TypeOK'
<1> USE DEF TypeOK
<1>1. CASE CollectorPattern
  BY <1>1, ReceiveType
  DEF CollectorPattern, EvrTypeOK, CollectorTypeOK, LoopTypeOK, HistoryTypeOK, States
<1>2. CASE CollectorMeasurement
  <2>1. Tail(cQueue) \in Queues /\ Head(cQueue).pattern \in Patterns
    BY <1>2, ReceiveType DEF CollectorMeasurement, CollectorTypeOK, Events
  <2>2. CollectorTypeOK'
    BY <1>2, <2>1 DEF CollectorMeasurement, CollectorTypeOK, States
  <2> QED
    BY <1>2, <2>2 DEF CollectorMeasurement, EvrTypeOK, LoopTypeOK, HistoryTypeOK
<1>3. CASE Broadcast
  <2>1. \A l \in Loops : Send(lQueue[l], Event("MEASUREMENT", cPattern)) \in Queues
    BY EventType, SendType DEF LoopTypeOK, CollectorTypeOK
  <2>2. lQueue' \in [Loops -> Queues]
    BY <1>3, <2>1 DEF Broadcast
  <2> QED
    BY <1>3, <2>2
    DEF Broadcast, EvrTypeOK, CollectorTypeOK, LoopTypeOK, HistoryTypeOK, States
<1>4. ASSUME NEW d \in Devices, ReadDevice(d)
      PROVE  TypeOK'
  <2>1. cTodo' \subseteq Devices /\ cCheck' \subseteq Devices
    BY <1>4 DEF ReadDevice, CollectorTypeOK
  <2>2. [status |-> "READ_INVALID", pulse |-> 0] \in DataPoints
    BY DEF DataPoints, Statuses
  <2>3. buffer[d].pulse \in Nat /\ pulse \in Nat
    BY DEF CollectorTypeOK, DataPoints, EvrTypeOK, pulse
  <2>4. \A n \in buffer[d].pulse .. pulse : [status |-> "READ", pulse |-> n] \in DataPoints
    BY <2>3 DEF DataPoints, Statuses
  <2>5. \E x \in DataPoints : buffer' = [buffer EXCEPT ![d] = x]
    BY <1>4, <2>2, <2>4 DEF ReadDevice
  <2>6. buffer' \in [Devices -> DataPoints]
    BY <2>5 DEF CollectorTypeOK
  <2> QED
    BY <1>4, <2>1, <2>6 DEF ReadDevice, EvrTypeOK, CollectorTypeOK, LoopTypeOK, HistoryTypeOK
<1>5. ASSUME NEW d \in Devices, CheckPulseId(d)
      PROVE  TypeOK'
  <2>1. buffer' \in [Devices -> DataPoints]
    BY <1>5 DEF CheckPulseId, CollectorTypeOK, DataPoints, Statuses
  <2> QED
    BY <1>5, <2>1 DEF CheckPulseId, EvrTypeOK, CollectorTypeOK, LoopTypeOK, HistoryTypeOK
<1> QED  BY <1>1, <1>2, <1>3, <1>4, <1>5 DEF Collector

\* A step of LoopThread l.
LEMMA LoopType ==
  ASSUME TypeOK, NEW l \in Loops, LoopThread(l)
  PROVE  TypeOK'
<1> USE DEF TypeOK
<1>0. lQueue[l] \in Queues /\ lPending[l] \in Nat /\ lPattern[l] \in Patterns
      /\ lEvent[l] \in Events
  BY DEF LoopTypeOK
<1>1. CASE LoopPattern(l)
  <2>1. Tail(lQueue[l]) \in Queues /\ Head(lQueue[l]).pattern \in Patterns
    BY <1>0, <1>1, ReceiveType DEF LoopPattern, Events
  <2> QED
    BY <1>1, <2>1
    DEF LoopPattern, EvrTypeOK, CollectorTypeOK, LoopTypeOK, HistoryTypeOK, States
<1>2. CASE LoopReceive(l)
  <2>1. Tail(lQueue[l]) \in Queues /\ Head(lQueue[l]) \in Events
    BY <1>0, <1>2, ReceiveType DEF LoopReceive
  <2>2. lPc' \in [Loops -> LoopPcs]
    BY <1>2 DEF LoopReceive, Continue, LoopTypeOK, LoopPcs
  <2> QED
    BY <1>2, <2>1, <2>2
    DEF LoopReceive, EvrTypeOK, CollectorTypeOK, LoopTypeOK, HistoryTypeOK
<1>3. CASE BeginChangeMode(l)
  <2>1. lPc' \in [Loops -> LoopPcs]
    BY <1>3 DEF BeginChangeMode, LoopTypeOK, LoopPcs
  <2>2. enabled \in BOOLEAN
    BY DEF EvrTypeOK
  <2>3. lEnabled' \in [Loops -> BOOLEAN]
    BY <1>3, <2>2 DEF BeginChangeMode, LoopTypeOK
  <2>4. LoopTypeOK'
    BY <1>3, <2>1, <2>3 DEF BeginChangeMode, LoopTypeOK
  <2>5. EvrTypeOK'
    BY <1>3 DEF BeginChangeMode, EvrTypeOK
  <2> QED
    BY <1>3, <2>4, <2>5 DEF BeginChangeMode, CollectorTypeOK, HistoryTypeOK
<1>4. CASE EndChangeMode(l)
  <2>1. <<>> \in Queues
    BY <1>0, ClearType
  <2>2. lQueue' \in [Loops -> Queues]
    BY <1>4, <2>1 DEF EndChangeMode, LoopTypeOK
  <2>3. lPc' \in [Loops -> LoopPcs]
    BY <1>4 DEF EndChangeMode, Continue, LoopTypeOK, LoopPcs
  <2>4. enabled' \in BOOLEAN
    BY <1>4 DEF EndChangeMode
  <2> QED
    BY <1>4, <2>2, <2>3, <2>4
    DEF EndChangeMode, EvrTypeOK, CollectorTypeOK, LoopTypeOK, HistoryTypeOK
<1>5. CASE Unexpected(l)
  BY <1>5
  DEF Unexpected, EvrTypeOK, CollectorTypeOK, LoopTypeOK, HistoryTypeOK, LoopPcs, States
<1>6. CASE Calculate(l)
  <2>1. /\ lPc' \in [Loops -> LoopPcs]
        /\ lTodo' \in [Loops -> SUBSET Devices]
        /\ lState' \in [Loops -> States]
    BY <1>6 DEF Calculate, LoopTypeOK, LoopPcs, States, DevicesOf
  <2>2. matched' \in [Loops -> Nat]
    BY <1>0, <1>6 DEF Calculate, HistoryTypeOK, Patterns
  <2> QED
    BY <1>6, <2>1, <2>2 DEF Calculate, EvrTypeOK, CollectorTypeOK, LoopTypeOK, HistoryTypeOK
<1>7. CASE BeginAlgorithm(l)
  BY <1>7
  DEF BeginAlgorithm, EvrTypeOK, CollectorTypeOK, LoopTypeOK, HistoryTypeOK, LoopPcs, DevicesOf
<1>8. ASSUME NEW d \in Devices, CheckMeasurement(l, d)
      PROVE  TypeOK'
  <2>1. lTodo' \in [Loops -> SUBSET Devices] /\ lPc' \in [Loops -> LoopPcs]
    BY <1>8 DEF CheckMeasurement, LoopTypeOK, LoopPcs, DevicesOf
  <2> QED
    BY <1>8, <2>1 DEF CheckMeasurement, EvrTypeOK, CollectorTypeOK, LoopTypeOK, HistoryTypeOK
<1>9. ASSUME NEW d \in Devices, Get(l, d)
      PROVE  TypeOK'
  <2>1. buffer[d] \in DataPoints /\ buffer[d].pulse \in Nat
    BY DEF CollectorTypeOK, DataPoints
  <2>2. buffer' \in [Devices -> DataPoints]
    BY <1>9, <2>1 DEF Get, CollectorTypeOK, DataPoints, Statuses
  <2>3. lUsed' \in [Loops -> SUBSET Nat] /\ lTodo' \in [Loops -> SUBSET Devices]
    BY <1>9, <2>1 DEF Get, LoopTypeOK
  <2> QED
    BY <1>9, <2>2, <2>3 DEF Get, EvrTypeOK, CollectorTypeOK, LoopTypeOK, HistoryTypeOK
<1>10. ASSUME Return(l)
       PROVE  lPc' \in [Loops -> LoopPcs] /\ lState' \in [Loops -> States]
  BY <1>10 DEF Return, LoopTypeOK, LoopPcs, States
<1>11. CASE Skip(l)
  BY <1>10, <1>11 DEF Skip, EvrTypeOK, CollectorTypeOK, LoopTypeOK, HistoryTypeOK
<1>12. CASE Actuate(l)
  <2>1. lPattern[l].pulse \in Nat /\ lUsed[l] \in SUBSET Nat
    BY <1>0 DEF Patterns, LoopTypeOK
  <2>2. actuated' \in [Loops -> [pulse : Nat, data : SUBSET Nat, count : Nat]]
    BY <1>12, <2>1 DEF Actuate, HistoryTypeOK
  <2> QED
    BY <1>10, <1>12, <2>2 DEF Actuate, EvrTypeOK, CollectorTypeOK, LoopTypeOK, HistoryTypeOK
<1>13. CASE BeginClear(l)
  <2>1. Len(lQueue[l]) \in Nat
    BY <1>0 DEF Queues
  <2> QED
    BY <1>13, <2>1
    DEF BeginClear, EvrTypeOK, CollectorTypeOK, LoopTypeOK, HistoryTypeOK, LoopPcs
<1>14. CASE EndClear(l)
  <2>1. SubSeq(lQueue[l], lPending[l] + 1, Len(lQueue[l])) \in Queues
    BY <1>0, ClearType
  <2> QED
    BY <1>14, <2>1
    DEF EndClear, EvrTypeOK, CollectorTypeOK, LoopTypeOK, HistoryTypeOK, LoopPcs, States
<1> QED
  BY <1>1, <1>2, <1>3, <1>4, <1>5, <1>6, <1>7, <1>8, <1>9, <1>11, <1>12, <1>13, <1>14
  DEF LoopThread

\* Any step.
LEMMA TypeStep == TypeOK /\ [Next]_vars => TypeOK'
<1> SUFFICES ASSUME TypeOK, [Next]_vars PROVE TypeOK'
  OBVIOUS
<1>1. CASE Next
  BY <1>1, FiducialType, EvrType, TimerType, CollectorType, LoopType DEF Next
<1>2. CASE UNCHANGED vars
  BY <1>2 DEF vars, TypeOK, EvrTypeOK, CollectorTypeOK, LoopTypeOK, HistoryTypeOK
<1> QED  BY <1>1, <1>2

\* Type correctness: every variable has its type in every reachable state, and
\* no queue ever holds more events than its capacity (EventReceiver::send).
THEOREM TypeCorrect == Spec => []TypeOK
  BY InitType, TypeStep, PTL DEF Spec

-----------------------------------------------------------------------------
(* The PatternManager's mutex *)

\* LockDisables, and what changeMode has to remember to restore it.
LockInv ==
  /\ LockDisables
  /\ \A l \in Loops : lPc[l] = "changing" => lEnabled[l]

Holding == {"changing", "clearing"}

\* A thread that does not touch the mutex keeps the invariant.
LEMMA LockKept ==
  ASSUME TypeOK, LockInv, UNCHANGED <<enabled, pmLock, lEnabled>>,
         \A l \in Loops : lPc'[l] = lPc[l] \/ (lPc[l] \notin Holding /\ lPc'[l] \notin Holding)
  PROVE  LockInv'
  BY DEF LockInv, LockDisables, Holding

\* A step of LoopThread l.
LEMMA LockLoop ==
  ASSUME TypeOK, LockInv, NEW l \in Loops, LoopThread(l)
  PROVE  LockInv'
<1>0. /\ lPc \in [Loops -> LoopPcs] /\ lEnabled \in [Loops -> BOOLEAN]
      /\ enabled \in BOOLEAN /\ Free \notin Loops
  BY PipelineAssumption DEF TypeOK, LoopTypeOK, EvrTypeOK
<1>1. CASE BeginChangeMode(l)
  <2>1. pmLock = Free /\ pmLock' = l /\ enabled = TRUE /\ ~enabled'
    BY <1>1 DEF BeginChangeMode, LockInv, LockDisables
  <2>2. /\ lPc' = [lPc EXCEPT ![l] = "changing"]
        /\ lEnabled' = [lEnabled EXCEPT ![l] = enabled]
    BY <1>1 DEF BeginChangeMode
  <2>3. \A m \in Loops : lPc'[m] \in Holding <=> m = l
    BY <1>0, <2>1, <2>2 DEF LockInv, LockDisables, Holding
  <2>4. \A m \in Loops : lPc'[m] = "changing" => m = l
    BY <2>3 DEF Holding
  <2>5. lEnabled'[l]
    BY <1>0, <2>1, <2>2
  <2> QED  BY <1>0, <2>1, <2>3, <2>4, <2>5 DEF LockInv, LockDisables, Holding
<1>2. CASE BeginClear(l)
  <2>1. pmLock = Free /\ pmLock' = l /\ ~enabled' /\ lEnabled' = lEnabled
    BY <1>2 DEF BeginClear
  <2>2. lPc' = [lPc EXCEPT ![l] = "clearing"]
    BY <1>2 DEF BeginClear
  <2>3. \A m \in Loops : lPc'[m] \in Holding <=> m = l
    BY <1>0, <2>1, <2>2 DEF LockInv, LockDisables, Holding
  <2>4. \A m \in Loops : lPc'[m] # "changing"
    BY <1>0, <2>1, <2>2 DEF LockInv, LockDisables
  <2> QED  BY <1>0, <2>1, <2>3, <2>4 DEF LockInv, LockDisables, Holding
<1>3. ASSUME lPc[l] \in Holding, enabled', pmLock' = Free, lEnabled' = lEnabled,
             NEW x \in LoopPcs \ Holding, lPc' = [lPc EXCEPT ![l] = x]
      PROVE  LockInv'
  <2>1. \A m \in Loops : lPc'[m] \notin Holding
    BY <1>0, <1>3 DEF LockInv, LockDisables, Holding
  <2> QED  BY <1>0, <1>3, <2>1 DEF LockInv, LockDisables, Holding
<1>4. CASE EndChangeMode(l)
  <2>1. lEnabled[l]
    BY <1>4 DEF EndChangeMode, LockInv
  <2>2. enabled' /\ pmLock' = Free /\ lEnabled' = lEnabled /\ lPc[l] \in Holding
    BY <1>4, <2>1 DEF EndChangeMode, Holding
  <2>3. Continue(lEvent[l]) \in LoopPcs \ Holding
    BY DEF Continue, LoopPcs, Holding
  <2> QED  BY <1>3, <1>4, <2>2, <2>3 DEF EndChangeMode
<1>5. CASE EndClear(l)
  <2>1. "receive" \in LoopPcs \ Holding
    BY DEF LoopPcs, Holding
  <2> QED  BY <1>3, <1>5, <2>1 DEF EndClear, Holding
<1>7. CASE LoopPattern(l)
  BY <1>7, LockKept DEF LoopPattern
<1>8. CASE LoopReceive(l)
  BY <1>0, <1>8, LockKept DEF LoopReceive, Continue, Holding
<1>9. CASE Unexpected(l)
  BY <1>0, <1>9, LockKept DEF Unexpected, Holding
<1>10. CASE Calculate(l)
  BY <1>0, <1>10, LockKept DEF Calculate, Holding
<1>11. CASE BeginAlgorithm(l)
  BY <1>0, <1>11, LockKept DEF BeginAlgorithm, Holding
<1>12. ASSUME NEW d \in Devices, CheckMeasurement(l, d) \/ Get(l, d)
       PROVE  LockInv'
  BY <1>0, <1>12, LockKept DEF CheckMeasurement, Get, Holding
<1>13. CASE Skip(l) \/ Actuate(l)
  BY <1>0, <1>13, LockKept DEF Skip, Actuate, Return, Holding
<1> QED
  BY <1>1, <1>2, <1>4, <1>5, <1>7, <1>8, <1>9, <1>10, <1>11, <1>12, <1>13 DEF LoopThread

\* Initially.
LEMMA LockInit == Init => LockInv
  BY PipelineAssumption DEF Init, LockInv, LockDisables

\* Any step.
LEMMA LockStep == TypeOK /\ LockInv /\ [Next]_vars => LockInv'
<1> SUFFICES ASSUME TypeOK, LockInv, [Next]_vars PROVE LockInv'
  OBVIOUS
<1>1. ASSUME NEW k \in Kinds, Fiducial(k) PROVE LockInv'
  BY <1>1, LockKept DEF Fiducial
<1>2. CASE Evr
  BY <1>2, LockKept DEF Evr, Dispatch, StartTimer, SavePattern, NotifyCollector
<1>3. CASE TimerThread
  BY <1>3, LockKept DEF TimerThread, StartSleep, Expire
<1>4. CASE Collector
  BY <1>4, LockKept
  DEF Collector, CollectorPattern, CollectorMeasurement, Broadcast, ReadDevice, CheckPulseId
<1>5. CASE UNCHANGED vars
  BY <1>5, LockKept DEF vars
<1> QED  BY <1>1, <1>2, <1>3, <1>4, <1>5, LockLoop DEF Next

\* The PatternManager is disabled exactly while some LoopThread holds its mutex
\* in changeMode or in the clearing of its queue (LockDisables of the runs).
THEOREM LockCorrect == Spec => []LockDisables
<1>1. LockInv => LockDisables
  BY DEF LockInv
<1> QED  BY <1>1, LockInit, LockStep, TypeCorrect, PTL DEF Spec

-----------------------------------------------------------------------------
(* The patterns in the pipeline *)

\* What EventReceiver::send leaves in the queue.
LEMMA SendContents ==
  ASSUME NEW q \in Queues, NEW e \in Events, NEW i \in 1 .. Len(Send(q, e))
  PROVE  \/ i \in 1 .. Len(q) /\ Send(q, e)[i] = q[i]
         \/ i = Len(q) + 1 /\ Send(q, e)[i] = e
<1>1. q \in Seq(Events) /\ Len(q) \in Nat
  BY DEF Queues
<1>2. CASE Len(q) < QueueSize
  <2>1. Send(q, e) = Append(q, e)
    BY <1>2 DEF Send
  <2> QED  BY <1>1, <2>1
<1>3. CASE ~ Len(q) < QueueSize
  BY <1>1, <1>3 DEF Send
<1> QED  BY <1>2, <1>3

\* Fiducials and dispatches up to now are not undone.
LogKept ==
  /\ \A n \in 1 .. Len(log) : log'[n] = log[n]
  /\ Dispatched <= Dispatched'
  /\ Len(log) <= Len(log)'

LoopInv(l) == QueuedInv(l) /\ OrderInv(l) /\ PatternInv(l) /\ CalculationInv(l)

\* The queue invariants survive when events are received or discarded from the
\* front of the queue, and events other than PATTERN_EVENTs are appended.
LEMMA QueueKept ==
  ASSUME TypeOK, TypeOK', LogKept, NEW l \in Loops, NEW n \in Nat,
         QueuedInv(l), OrderInv(l), lPattern'[l] = lPattern[l],
         \A i \in 1 .. Len(lQueue'[l]) : lQueue'[l][i].type = "PATTERN" =>
            i + n \in 1 .. Len(lQueue[l]) /\ lQueue'[l][i] = lQueue[l][i + n]
  PROVE  QueuedInv(l)' /\ OrderInv(l)'
<1>1. Len(lQueue[l]) \in Nat /\ Len(lQueue'[l]) \in Nat
  BY DEF TypeOK, LoopTypeOK, Queues
<1>2. \A i \in 1 .. Len(lQueue[l]) : lQueue[l][i] \in Events
  BY DEF TypeOK, LoopTypeOK, Queues
<1>3. \A i \in 1 .. Len(lQueue[l]) : lQueue[l][i].pattern.pulse \in Nat
  BY <1>2 DEF Events, Patterns
<1>4. /\ Len(log) \in Nat /\ Len(log') \in Nat
      /\ Dispatched \in Int /\ Dispatched' \in Int
  BY DEF TypeOK, EvrTypeOK, Dispatched
<1>5. QueuedInv(l)'
  <2> SUFFICES ASSUME NEW i \in 1 .. Len(lQueue'[l]), lQueue'[l][i].type = "PATTERN"
               PROVE  /\ OfFiducial(lQueue[l][i].pattern)'
                      /\ l \in Matches[lQueue'[l][i].pattern.kind]
                      /\ lPattern'[l].pulse < lQueue'[l][i].pattern.pulse
                      /\ lQueue'[l][i].pattern.pulse <= Dispatched'
    BY DEF QueuedInv
  <2>1. i + n \in 1 .. Len(lQueue[l]) /\ lQueue'[l][i] = lQueue[l][i + n]
    OBVIOUS
  <2> DEFINE p == lQueue[l][i + n].pattern
  <2>2. /\ OfFiducial(p) /\ l \in Matches[p.kind]
        /\ lPattern[l].pulse < p.pulse /\ p.pulse <= Dispatched
    BY <2>1 DEF QueuedInv
  <2>3. p.pulse \in Nat
    BY <1>3, <2>1
  <2>4. OfFiducial(lQueue[l][i].pattern)'
    <3>1. p.pulse \in 1 .. Len(log') /\ log'[p.pulse] = p.kind
      BY <1>4, <2>2, <2>3 DEF LogKept, OfFiducial
    <3>2. lQueue'[l][i].pattern = p
      BY <2>1
    <3> HIDE DEF p
    <3> QED  BY <3>1, <3>2 DEF OfFiducial
  <2>5. p.pulse <= Dispatched'
    BY <1>4, <2>2, <2>3 DEF LogKept
  <2> QED  BY <2>1, <2>2, <2>4, <2>5
<1>6. OrderInv(l)'
  <2> SUFFICES ASSUME NEW i \in 1 .. Len(lQueue'[l]), NEW j \in 1 .. Len(lQueue'[l]), i < j,
                      lQueue'[l][i].type = "PATTERN", lQueue'[l][j].type = "PATTERN"
               PROVE  lQueue'[l][i].pattern.pulse < lQueue'[l][j].pattern.pulse
    BY DEF OrderInv
  <2>1. i + n \in 1 .. Len(lQueue[l]) /\ lQueue'[l][i] = lQueue[l][i + n]
    OBVIOUS
  <2>2. j + n \in 1 .. Len(lQueue[l]) /\ lQueue'[l][j] = lQueue[l][j + n]
    OBVIOUS
  <2>3. i + n < j + n
    BY <1>1
  <2> QED  BY <2>1, <2>2, <2>3 DEF OrderInv
<1> QED  BY <1>5, <1>6

\* The other invariants of a loop survive when its thread does nothing.
LEMMA ThreadKept ==
  ASSUME TypeOK, LogKept, NEW l \in Loops, PatternInv(l), CalculationInv(l),
         lPattern'[l] = lPattern[l], lState'[l] = lState[l], lPc'[l] = lPc[l],
         lUsed'[l] = lUsed[l], matched'[l] = matched[l], actuated'[l] = actuated[l],
         log' \in Seq(Kinds)
  PROVE  PatternInv(l)' /\ CalculationInv(l)'
<1>1. /\ Len(log) \in Nat /\ Len(log') \in Nat
      /\ lPattern[l] \in Patterns /\ lPattern[l].pulse \in Nat
      /\ Dispatched \in Int /\ Dispatched' \in Int
  BY DEF TypeOK, LoopTypeOK, EvrTypeOK, Dispatched, Patterns
<1>2. OfFiducial(lPattern[l]) => OfFiducial(lPattern[l])'
  BY <1>1 DEF LogKept, OfFiducial
<1>3. PatternInv(l)'
  BY <1>1, <1>2 DEF PatternInv, LogKept
<1>4. CalculationInv(l)'
  BY <1>1 DEF CalculationInv, LogKept
<1> QED  BY <1>3, <1>4

\* Nothing but a fiducial changes the log.
LEMMA LogUnchanged ==
  ASSUME TypeOK, log' = log, evrPc' = evrPc \/ evrPc' # "dispatch"
  PROVE  LogKept
<1>1. Len(log) \in Nat
  BY DEF TypeOK, EvrTypeOK
<1> QED  BY <1>1 DEF LogKept, OfFiducial, Dispatched

\* A fiducial.
LEMMA FiducialInv ==
  ASSUME TypeOK, TypeOK', PatternsInOrder, NEW k \in Kinds, Fiducial(k)
  PROVE  PatternsInOrder'
<1>1. /\ log \in Seq(Kinds) /\ log' = Append(log, k) /\ Len(log) \in Nat
      /\ evrPc = "idle"
  BY DEF TypeOK, EvrTypeOK, Fiducial
<1>2. /\ Len(log') = Len(log) + 1 /\ log'[Len(log) + 1] = k
      /\ \A n \in 1 .. Len(log) : log'[n] = log[n]
  BY <1>1
<1>3. Dispatched = Len(log) /\ Dispatched' \in {Len(log), Len(log) + 1}
  BY <1>1, <1>2 DEF Dispatched
<1>4. LogKept
  BY <1>1, <1>2, <1>3 DEF LogKept, OfFiducial
<1>5. EvrInv'
  <2>1. CASE enabled
    <3>1. evrPattern' = [kind |-> k, pulse |-> Len(log) + 1]
      BY <2>1 DEF Fiducial, pulse
    <3>2. evrPattern'.pulse = Len(log) + 1 /\ evrPattern'.kind = k
      BY <3>1
    <3> QED  BY <1>1, <1>2, <3>2 DEF EvrInv, OfFiducial
  <2>2. CASE ~enabled
    BY <1>1, <2>2 DEF Fiducial, EvrInv
  <2> QED  BY <2>1, <2>2
<1>6. BufferInv'
  <2>1. \A d \in Devices : buffer[d].pulse \in Nat /\ buffer[d].pulse <= Len(log)
    BY DEF TypeOK, CollectorTypeOK, DataPoints, PatternsInOrder, BufferInv
  <2>2. buffer' = buffer
    BY DEF Fiducial
  <2> QED  BY <1>1, <1>2, <2>1, <2>2 DEF BufferInv
<1>7. ASSUME NEW l \in Loops
      PROVE  LoopInv(l)'
  <2> DEFINE e == Event("HEARTBEAT", [kind |-> k, pulse |-> Len(log) + 1])
  <2>1. e \in Events /\ e.type = "HEARTBEAT"
    BY <1>1, EventType DEF Patterns
  <2>2. lQueue'[l] = lQueue[l] \/ lQueue'[l] = Send(lQueue[l], e)
    BY DEF Fiducial, pulse
  <2>3. lQueue[l] \in Queues /\ Len(lQueue[l]) \in Nat
    BY DEF TypeOK, LoopTypeOK, Queues
  <2>4. \A i \in 1 .. Len(lQueue'[l]) : lQueue'[l][i].type = "PATTERN" =>
           i + 0 \in 1 .. Len(lQueue[l]) /\ lQueue'[l][i] = lQueue[l][i + 0]
    BY <2>1, <2>2, <2>3, SendContents
  <2>5. QueuedInv(l)' /\ OrderInv(l)'
    BY <1>4, <2>4, QueueKept DEF PatternsInOrder, Fiducial
  <2>6. PatternInv(l)' /\ CalculationInv(l)'
    BY <1>1, <1>4, ThreadKept DEF PatternsInOrder, Fiducial, TypeOK, EvrTypeOK
  <2> QED  BY <2>5, <2>6 DEF LoopInv
<1> QED  BY <1>5, <1>6, <1>7 DEF PatternsInOrder, LoopInv

\* A step of the EVR task.
LEMMA EvrInvariant ==
  ASSUME TypeOK, TypeOK', PatternsInOrder, Evr
  PROVE  PatternsInOrder'
<1>1. /\ log \in Seq(Kinds) /\ Len(log) \in Nat /\ evrPattern \in Patterns
      /\ lQueue \in [Loops -> Queues] /\ Dispatched \in Int
  BY DEF TypeOK, EvrTypeOK, LoopTypeOK, Dispatched
<1>2. /\ log' = log /\ evrPattern' = evrPattern /\ buffer' = buffer /\ lPattern' = lPattern
      /\ lState' = lState /\ lPc' = lPc /\ lUsed' = lUsed /\ matched' = matched
      /\ actuated' = actuated /\ evrPc # "idle" /\ evrPc' # "dispatch"
  BY DEF Evr, Dispatch, StartTimer, SavePattern, NotifyCollector
<1>3. LogKept
  BY <1>2, LogUnchanged
<1>4. EvrInv' /\ BufferInv'
  BY <1>2 DEF PatternsInOrder, EvrInv, OfFiducial, BufferInv
<1>5. \A l \in Loops : PatternInv(l)' /\ CalculationInv(l)'
  BY <1>1, <1>2, <1>3, ThreadKept DEF PatternsInOrder
<1>6. ASSUME NEW l \in Loops, lQueue' = lQueue
      PROVE  QueuedInv(l)' /\ OrderInv(l)'
  <2>1. Len(lQueue[l]) \in Nat
    BY <1>1 DEF Queues
  <2>2. \A i \in 1 .. Len(lQueue'[l]) : lQueue'[l][i].type = "PATTERN" =>
           i + 0 \in 1 .. Len(lQueue[l]) /\ lQueue'[l][i] = lQueue[l][i + 0]
    BY <1>6, <2>1
  <2> QED  BY <1>2, <1>3, <2>2, QueueKept DEF PatternsInOrder
<1>7. ASSUME NEW l \in Loops, Dispatch
      PROVE  QueuedInv(l)' /\ OrderInv(l)'
  <2> DEFINE e == Event("PATTERN", evrPattern)
             q == lQueue[l]
             r == lQueue'[l]
  <2>1. e \in Events /\ e.type = "PATTERN" /\ e.pattern = evrPattern
    BY <1>1, EventType
  <2>2. q \in Queues /\ Len(q) \in Nat /\ q \in Seq(Events)
    BY <1>1 DEF Queues
  <2>3. Dispatched = Len(log) - 1 /\ Dispatched' = Len(log)
    BY <1>2, <1>7 DEF Dispatch, Dispatched
  <2>4. evrPattern.pulse = Len(log) /\ OfFiducial(evrPattern)
    BY <1>2 DEF PatternsInOrder, EvrInv
  <2>5. CASE l \notin Matches[evrPattern.kind]
    <3>1. lQueue'[l] = lQueue[l]
      BY <1>7, <2>5 DEF Dispatch
    <3>2. \A i \in 1 .. Len(lQueue'[l]) : lQueue'[l][i].type = "PATTERN" =>
             i + 0 \in 1 .. Len(lQueue[l]) /\ lQueue'[l][i] = lQueue[l][i + 0]
      BY <2>2, <3>1
    <3> QED  BY <1>2, <1>3, <3>2, QueueKept DEF PatternsInOrder
  <2>6. CASE l \in Matches[evrPattern.kind]
    <3>1. r = Send(q, e)
      BY <1>7, <2>6 DEF Dispatch
    <3>2. \A i \in 1 .. Len(r) :
             \/ i \in 1 .. Len(q) /\ r[i] = q[i]
             \/ i = Len(q) + 1 /\ r[i] = e
      <4> HIDE DEF e, q, r
      <4>1. ASSUME NEW i \in 1 .. Len(Send(q, e))
            PROVE  \/ i \in 1 .. Len(q) /\ Send(q, e)[i] = q[i]
                   \/ i = Len(q) + 1 /\ Send(q, e)[i] = e
        BY <2>1, <2>2, SendContents
      <4> QED  BY <3>1, <4>1
    <3>3. \A i \in 1 .. Len(q) : q[i].type = "PATTERN" =>
             /\ OfFiducial(q[i].pattern) /\ l \in Matches[q[i].pattern.kind]
             /\ lPattern[l].pulse < q[i].pattern.pulse
             /\ q[i].pattern.pulse <= Len(log) - 1
      BY <2>3 DEF PatternsInOrder, QueuedInv
    <3>4. lPattern[l].pulse <= Len(log) - 1 /\ lPattern[l].pulse \in Nat
      BY <2>3 DEF PatternsInOrder, PatternInv, TypeOK, LoopTypeOK, Patterns
    <3>5. \A i \in 1 .. Len(q) : q[i].pattern.pulse \in Nat
      <4>1. \A i \in 1 .. Len(q) : q[i] \in Events
        BY <2>2
      <4> QED  BY <4>1 DEF Events, Patterns
    <3>6. ASSUME NEW i \in 1 .. Len(r), r[i].type = "PATTERN"
          PROVE  /\ OfFiducial(r[i].pattern) /\ l \in Matches[r[i].pattern.kind]
                 /\ lPattern[l].pulse < r[i].pattern.pulse
                 /\ r[i].pattern.pulse <= Len(log)
      <4>1. CASE i \in 1 .. Len(q) /\ r[i] = q[i]
        <5>1. q[i].pattern.pulse <= Len(log)
          BY <1>1, <3>3, <3>5, <3>6, <4>1
        <5> QED  BY <3>3, <3>6, <4>1, <5>1
      <4>2. CASE r[i] = e
        <5> HIDE DEF e, r
        <5>1. r[i].pattern = evrPattern
          BY <2>1, <4>2
        <5> QED  BY <1>1, <2>4, <2>6, <3>4, <5>1
      <4> QED  BY <3>2, <4>1, <4>2
    <3>7. QueuedInv(l)'
      BY <1>2, <2>3, <3>6 DEF QueuedInv, OfFiducial
    <3>8. OrderInv(l)'
      <4> SUFFICES ASSUME NEW i \in 1 .. Len(r), NEW j \in 1 .. Len(r), i < j,
                          r[i].type = "PATTERN", r[j].type = "PATTERN"
                   PROVE  r[i].pattern.pulse < r[j].pattern.pulse
        BY DEF OrderInv
      <4>1. i \in 1 .. Len(q) /\ r[i] = q[i]
        BY <2>2, <3>1, <3>2, ReceiveType DEF Send
      <4>2. CASE j \in 1 .. Len(q) /\ r[j] = q[j]
        BY <4>1, <4>2 DEF PatternsInOrder, OrderInv
      <4>3. CASE r[j] = e
        BY <1>1, <2>1, <2>4, <3>3, <3>5, <4>1, <4>3
      <4> QED  BY <3>2, <4>2, <4>3
    <3> QED  BY <3>7, <3>8
  <2> QED  BY <2>5, <2>6
<1>8. \A l \in Loops : QueuedInv(l)' /\ OrderInv(l)'
  BY <1>6, <1>7 DEF Evr, StartTimer, SavePattern, NotifyCollector
<1> QED  BY <1>4, <1>5, <1>8 DEF PatternsInOrder

\* A step of the Timer thread or of the CollectorThread: only MEASUREMENT_EVENTs
\* reach the queues of the loops, and only data of past pulses the buffers.
LEMMA CollectorInvariant ==
  ASSUME TypeOK, TypeOK', PatternsInOrder, TimerThread \/ Collector
  PROVE  PatternsInOrder'
<1>1. /\ log \in Seq(Kinds) /\ Len(log) \in Nat /\ cPattern \in Patterns
      /\ lQueue \in [Loops -> Queues] /\ buffer \in [Devices -> DataPoints]
  BY DEF TypeOK, EvrTypeOK, LoopTypeOK, CollectorTypeOK
<1>2. /\ log' = log /\ evrPattern' = evrPattern /\ evrPc' = evrPc /\ lPattern' = lPattern
      /\ lState' = lState /\ lPc' = lPc /\ lUsed' = lUsed /\ matched' = matched
      /\ actuated' = actuated
  BY DEF TimerThread, StartSleep, Expire, Collector, CollectorPattern,
         CollectorMeasurement, Broadcast, ReadDevice, CheckPulseId
<1>3. LogKept
  BY <1>2, LogUnchanged
<1>4. EvrInv'
  BY <1>2 DEF PatternsInOrder, EvrInv, OfFiducial
<1>5. \A l \in Loops : PatternInv(l)' /\ CalculationInv(l)'
  BY <1>1, <1>2, <1>3, ThreadKept DEF PatternsInOrder
<1>6. ASSUME NEW l \in Loops
      PROVE  QueuedInv(l)' /\ OrderInv(l)'
  <2> DEFINE e == Event("MEASUREMENT", cPattern)
  <2>1. e \in Events /\ e.type = "MEASUREMENT"
    BY <1>1, EventType
  <2>2. lQueue'[l] = lQueue[l] \/ lQueue'[l] = Send(lQueue[l], e)
    BY DEF TimerThread, StartSleep, Expire, Collector, CollectorPattern,
           CollectorMeasurement, Broadcast, ReadDevice, CheckPulseId
  <2>3. lQueue[l] \in Queues /\ Len(lQueue[l]) \in Nat
    BY <1>1 DEF Queues
  <2>4. \A i \in 1 .. Len(lQueue'[l]) : lQueue'[l][i].type = "PATTERN" =>
           i + 0 \in 1 .. Len(lQueue[l]) /\ lQueue'[l][i] = lQueue[l][i + 0]
    BY <2>1, <2>2, <2>3, SendContents
  <2> QED  BY <1>2, <1>3, <2>4, QueueKept DEF PatternsInOrder
<1>7. BufferInv'
  <2>1. \A d \in Devices : buffer[d] \in DataPoints /\ buffer[d].pulse <= Len(log)
    BY <1>1 DEF PatternsInOrder, BufferInv
  <2>2. ASSUME NEW d \in Devices, ReadDevice(d)
        PROVE  BufferInv'
    <3>1. \A n \in buffer[d].pulse .. pulse : n <= Len(log)
      BY <1>1, <2>1 DEF DataPoints, pulse
    <3>2. \E x \in DataPoints : x.pulse <= Len(log) /\ buffer' = [buffer EXCEPT ![d] = x]
      <4>1. CASE buffer' = [buffer EXCEPT ![d] = [status |-> "READ_INVALID", pulse |-> 0]]
        <5> DEFINE x == [status |-> "READ_INVALID", pulse |-> 0]
        <5>1. x \in DataPoints /\ x.pulse <= Len(log)
          BY <1>1 DEF DataPoints, Statuses
        <5>2. buffer' = [buffer EXCEPT ![d] = x]
          BY <4>1
        <5> HIDE DEF x
        <5> QED  BY <5>1, <5>2
      <4>2. ASSUME NEW n \in buffer[d].pulse .. pulse,
                   buffer' = [buffer EXCEPT ![d] = [status |-> "READ", pulse |-> n]]
            PROVE  \E x \in DataPoints :
                     x.pulse <= Len(log) /\ buffer' = [buffer EXCEPT ![d] = x]
        <5>1. [status |-> "READ", pulse |-> n] \in DataPoints
          BY <1>1, <2>1 DEF DataPoints, Statuses, pulse
        <5> QED  BY <3>1, <4>2, <5>1
      <4> QED  BY <2>2, <4>1, <4>2 DEF ReadDevice
    <3> QED  BY <1>1, <1>2, <2>1, <3>2 DEF BufferInv
  <2>3. ASSUME NEW d \in Devices, CheckPulseId(d)
        PROVE  BufferInv'
    <3>1. buffer \in [Devices -> DataPoints]
      BY DEF TypeOK, CollectorTypeOK
    <3>2. CASE buffer' = [buffer EXCEPT ![d].status = "READ_TSMISMATCH"]
      <4>1. ASSUME NEW x \in Devices PROVE buffer'[x].pulse = buffer[x].pulse
        BY <3>1, <3>2 DEF DataPoints
      <4> QED  BY <1>2, <2>1, <4>1 DEF BufferInv
    <3>3. CASE buffer' = buffer
      BY <1>2, <2>1, <3>3 DEF BufferInv
    <3> QED  BY <2>3, <3>2, <3>3 DEF CheckPulseId
  <2>4. CASE buffer' = buffer
    BY <1>2, <2>1, <2>4 DEF BufferInv
  <2> QED
    BY <2>2, <2>3, <2>4 DEF TimerThread, StartSleep, Expire, Collector, CollectorPattern,
                            CollectorMeasurement, Broadcast
<1> QED  BY <1>4, <1>5, <1>6, <1>7 DEF PatternsInOrder

\* What a LoopThread receives, or discards, comes off the front of its queue.
LEMMA ReceiveContents ==
  ASSUME NEW q \in Queues
  PROVE  /\ q # <<>> => \A i \in 1 .. Len(Tail(q)) :
                          i + 1 \in 1 .. Len(q) /\ Tail(q)[i] = q[i + 1]
         /\ \A n \in Nat : \A i \in 1 .. Len(SubSeq(q, n + 1, Len(q))) :
              i + n \in 1 .. Len(q) /\ SubSeq(q, n + 1, Len(q))[i] = q[i + n]
<1>1. q \in Seq(Events) /\ Len(q) \in Nat
  BY DEF Queues
<1>2. ASSUME q # <<>>, NEW i \in 1 .. Len(Tail(q))
      PROVE  i + 1 \in 1 .. Len(q) /\ Tail(q)[i] = q[i + 1]
  BY <1>1, <1>2
<1>3. ASSUME NEW n \in Nat, NEW i \in 1 .. Len(SubSeq(q, n + 1, Len(q)))
      PROVE  i + n \in 1 .. Len(q) /\ SubSeq(q, n + 1, Len(q))[i] = q[i + n]
  BY <1>1, <1>3
<1> QED  BY <1>2, <1>3

\* A LoopThread leaves the fiducials and the other loops alone.
LEMMA LoopLocal ==
  ASSUME TypeOK, NEW l \in Loops, LoopThread(l)
  PROVE  /\ log' = log /\ evrPc' = evrPc /\ evrPattern' = evrPattern
         /\ \A m \in Loops \ {l} :
              /\ lQueue'[m] = lQueue[m] /\ lPattern'[m] = lPattern[m]
              /\ lState'[m] = lState[m] /\ lPc'[m] = lPc[m] /\ lUsed'[m] = lUsed[m]
              /\ lEvent'[m] = lEvent[m] /\ lTodo'[m] = lTodo[m]
              /\ matched'[m] = matched[m] /\ actuated'[m] = actuated[m]
<1>1. /\ log' = log /\ evrPc' = evrPc /\ evrPattern' = evrPattern
      /\ lQueue' = [lQueue EXCEPT ![l] = lQueue'[l]]
      /\ lPattern' = [lPattern EXCEPT ![l] = lPattern'[l]]
      /\ lState' = [lState EXCEPT ![l] = lState'[l]]
      /\ lPc' = [lPc EXCEPT ![l] = lPc'[l]]
      /\ lUsed' = [lUsed EXCEPT ![l] = lUsed'[l]]
      /\ lEvent' = [lEvent EXCEPT ![l] = lEvent'[l]]
      /\ lTodo' = [lTodo EXCEPT ![l] = lTodo'[l]]
      /\ matched' = [matched EXCEPT ![l] = matched'[l]]
      /\ actuated' = [actuated EXCEPT ![l] = actuated'[l]]
  <2> USE DEF TypeOK, LoopTypeOK, HistoryTypeOK, evrVars, lVars, history
  <2>1. CASE LoopPattern(l) \/ LoopReceive(l) \/ Unexpected(l)
    BY <2>1 DEF LoopPattern, LoopReceive, Unexpected
  <2>2. CASE BeginChangeMode(l) \/ EndChangeMode(l)
    BY <2>2 DEF BeginChangeMode, EndChangeMode
  <2>3. CASE Calculate(l) \/ BeginAlgorithm(l)
    BY <2>3 DEF Calculate, BeginAlgorithm
  <2>4. ASSUME NEW d \in Devices, CheckMeasurement(l, d) \/ Get(l, d)
        PROVE  <1>1!:
    BY <2>4 DEF CheckMeasurement, Get
  <2>5. CASE Skip(l) \/ Actuate(l)
    BY <2>5 DEF Skip, Actuate, Return
  <2>6. CASE BeginClear(l) \/ EndClear(l)
    BY <2>6 DEF BeginClear, EndClear
  <2> QED  BY <2>1, <2>2, <2>3, <2>4, <2>5, <2>6 DEF LoopThread
<1> QED  BY <1>1 DEF TypeOK, LoopTypeOK, HistoryTypeOK

\* What a LoopThread does with its queue: it receives from the front, or it
\* discards; only LoopPattern changes its pattern.
LEMMA LoopQueue ==
  ASSUME TypeOK, NEW l \in Loops, LoopThread(l)
  PROVE  \E n \in Nat :
           /\ \A i \in 1 .. Len(lQueue'[l]) :
                i + n \in 1 .. Len(lQueue[l]) /\ lQueue'[l][i] = lQueue[l][i + n]
           /\ LoopPattern(l) => n = 1
<1> DEFINE q == lQueue[l]
           r == lQueue'[l]
           Front(n) == \A i \in 1 .. Len(r) : i + n \in 1 .. Len(q) /\ r[i] = q[i + n]
<1>1. q \in Queues /\ Len(q) \in Nat /\ l \in DOMAIN lQueue
  BY DEF TypeOK, LoopTypeOK, Queues
<1>2. CASE LoopPattern(l) \/ LoopReceive(l)
  <2>1. q # <<>> /\ r = Tail(q)
    BY <1>1, <1>2 DEF LoopPattern, LoopReceive
  <2>2. Front(1)
    BY <1>1, <2>1, ReceiveContents
  <2> QED  BY <2>2
<1>3. CASE r = q /\ ~LoopPattern(l)
  <2>1. Front(0)
    BY <1>1, <1>3
  <2> QED  BY <1>3, <2>1
<1>4. CASE r = <<>> /\ ~LoopPattern(l)
  <2>1. Front(0)
    BY <1>4
  <2> QED  BY <1>4, <2>1
<1>5. CASE EndClear(l) /\ ~LoopPattern(l)
  <2>1. r = SubSeq(q, lPending[l] + 1, Len(q)) /\ lPending[l] \in Nat
    BY <1>1, <1>5 DEF EndClear, TypeOK, LoopTypeOK
  <2>2. Front(lPending[l])
    <3> HIDE DEF q, r
    <3>1. \A i \in 1 .. Len(SubSeq(q, lPending[l] + 1, Len(q))) :
            /\ i + lPending[l] \in 1 .. Len(q)
            /\ SubSeq(q, lPending[l] + 1, Len(q))[i] = q[i + lPending[l]]
      BY <1>1, <2>1, ReceiveContents
    <3> QED  BY <2>1, <3>1
  <2>3. lPending[l] \in Nat
    BY <2>1
  <2> WITNESS lPending[l] \in Nat
  <2> QED  BY <1>5, <2>2
<1>6. LoopPattern(l) \/ LoopReceive(l) \/ EndClear(l) \/ r = q \/ r = <<>>
  BY <1>1 DEF LoopThread, BeginChangeMode, EndChangeMode, Unexpected, Calculate,
              BeginAlgorithm, CheckMeasurement, Get, Skip, Actuate, BeginClear
<1> QED  BY <1>2, <1>3, <1>4, <1>5, <1>6

\* The queue of a LoopThread that receives a pattern: those left are later.
LEMMA LoopPatternQueue ==
  ASSUME TypeOK, TypeOK', LogKept, log' = log, NEW l \in Loops, LoopPattern(l),
         QueuedInv(l), OrderInv(l),
         \A i \in 1 .. Len(lQueue'[l]) :
            i + 1 \in 1 .. Len(lQueue[l]) /\ lQueue'[l][i] = lQueue[l][i + 1]
  PROVE  /\ QueuedInv(l)' /\ OrderInv(l)'
         /\ lPattern'[l] = lQueue[l][1].pattern
         /\ OfFiducial(lPattern'[l]) /\ l \in Matches[lPattern'[l].kind]
         /\ lPattern[l].pulse < lPattern'[l].pulse /\ lPattern'[l].pulse <= Dispatched
<1> DEFINE q == lQueue[l]
           r == lQueue'[l]
<1>1. /\ q \in Seq(Events) /\ Len(q) \in Nat /\ q # <<>> /\ 1 \in 1 .. Len(q)
      /\ Head(q) = q[1] /\ q[1].type = "PATTERN" /\ lPattern'[l] = q[1].pattern
  BY DEF TypeOK, LoopTypeOK, Queues, LoopPattern
<1>2. /\ OfFiducial(q[1].pattern) /\ l \in Matches[q[1].pattern.kind]
      /\ lPattern[l].pulse < q[1].pattern.pulse /\ q[1].pattern.pulse <= Dispatched
  BY <1>1 DEF QueuedInv
<1>3. Len(r) \in Nat
  BY DEF TypeOK, LoopTypeOK, Queues
<1>4. Dispatched' = Dispatched
  BY DEF Dispatched, LoopPattern, evrVars
<1>5. QueuedInv(l)'
  <2> SUFFICES ASSUME NEW i \in 1 .. Len(r), r[i].type = "PATTERN"
               PROVE  /\ OfFiducial(r[i].pattern) /\ l \in Matches[r[i].pattern.kind]
                      /\ lPattern'[l].pulse < r[i].pattern.pulse
                      /\ r[i].pattern.pulse <= Dispatched
    BY <1>4 DEF QueuedInv, OfFiducial
  <2>1. i + 1 \in 1 .. Len(q) /\ r[i] = q[i + 1] /\ 1 < i + 1
    BY <1>3
  <2>2. /\ OfFiducial(q[i + 1].pattern) /\ l \in Matches[q[i + 1].pattern.kind]
        /\ q[i + 1].pattern.pulse <= Dispatched
    BY <2>1 DEF QueuedInv
  <2>3. q[1].pattern.pulse < q[i + 1].pattern.pulse
    BY <1>1, <2>1 DEF OrderInv
  <2> QED  BY <1>1, <2>1, <2>2, <2>3
<1>6. OrderInv(l)'
  <2> SUFFICES ASSUME NEW i \in 1 .. Len(r), NEW j \in 1 .. Len(r), i < j,
                      r[i].type = "PATTERN", r[j].type = "PATTERN"
               PROVE  r[i].pattern.pulse < r[j].pattern.pulse
    BY DEF OrderInv
  <2>1. i + 1 < j + 1
    BY <1>3
  <2> QED  BY <2>1 DEF OrderInv
<1> QED  BY <1>1, <1>2, <1>5, <1>6

\* A step of LoopThread l keeps what l knows of its pattern and its calculation.
LEMMA LoopState ==
  ASSUME TypeOK, TypeOK', LogKept, PatternsInOrder, NEW l \in Loops, LoopThread(l),
         LoopPattern(l) =>
           /\ OfFiducial(lPattern'[l]) /\ l \in Matches[lPattern'[l].kind]
           /\ lPattern[l].pulse < lPattern'[l].pulse /\ lPattern'[l].pulse <= Dispatched
  PROVE  PatternInv(l)' /\ CalculationInv(l)'
<1>0. /\ log' = log /\ Len(log) \in Nat /\ Dispatched' = Dispatched /\ Dispatched \in Int
      /\ lPattern[l] \in Patterns /\ lPattern'[l] \in Patterns
      /\ lPattern[l].pulse \in Nat /\ lPattern'[l].pulse \in Nat
      /\ matched[l] \in Nat /\ actuated[l].pulse \in Nat
      /\ l \in DOMAIN lPc /\ l \in DOMAIN lState /\ l \in DOMAIN lPattern
      /\ l \in DOMAIN lUsed /\ l \in DOMAIN matched /\ l \in DOMAIN actuated
  <2>1. log' = log /\ evrPc' = evrPc
    BY LoopLocal
  <2>2. log \in Seq(Kinds) /\ Len(log) \in Nat /\ Dispatched' = Dispatched /\ Dispatched \in Int
    BY <2>1 DEF TypeOK, EvrTypeOK, Dispatched
  <2>3. /\ lPattern[l] \in Patterns /\ lPattern'[l] \in Patterns
        /\ lPattern[l].pulse \in Nat /\ lPattern'[l].pulse \in Nat
    BY DEF TypeOK, LoopTypeOK, Patterns
  <2> QED  BY <2>1, <2>2, <2>3 DEF TypeOK, LoopTypeOK, HistoryTypeOK
<1>1. PatternInv(l) /\ CalculationInv(l)
  BY DEF PatternsInOrder
<1> USE DEF OfFiducial
<1>2. CASE LoopPattern(l)
  BY <1>0, <1>1, <1>2 DEF LoopPattern, PatternInv, CalculationInv, history
<1>3. CASE LoopReceive(l)
  BY <1>0, <1>1, <1>3 DEF LoopReceive, Continue, PatternInv, CalculationInv, history
<1>4. CASE BeginChangeMode(l) \/ EndChangeMode(l)
  BY <1>0, <1>1, <1>4 DEF BeginChangeMode, EndChangeMode, Continue, PatternInv, CalculationInv
<1>5. CASE Unexpected(l)
  BY <1>0, <1>1, <1>5 DEF Unexpected, PatternInv, CalculationInv, history
<1>6. CASE Calculate(l)
  BY <1>0, <1>1, <1>6 DEF Calculate, PatternInv, CalculationInv
<1>7. ASSUME NEW d \in Devices, CheckMeasurement(l, d)
      PROVE  PatternInv(l)' /\ CalculationInv(l)'
  BY <1>0, <1>1, <1>7 DEF CheckMeasurement, PatternInv, CalculationInv, history
<1>8. CASE BeginAlgorithm(l)
  BY <1>0, <1>1, <1>8 DEF BeginAlgorithm, PatternInv, CalculationInv, history
<1>9. ASSUME NEW d \in Devices, Get(l, d)
      PROVE  PatternInv(l)' /\ CalculationInv(l)'
  <2>1. buffer[d].pulse \in 0 .. Len(log)
    BY <1>0 DEF PatternsInOrder, BufferInv, TypeOK, CollectorTypeOK, DataPoints
  <2> QED
    BY <1>0, <1>1, <1>9, <2>1 DEF Get, PatternInv, CalculationInv, history
<1>10. CASE Skip(l)
  BY <1>0, <1>1, <1>10 DEF Skip, Return, PatternInv, CalculationInv, history
<1>11. CASE Actuate(l)
  BY <1>0, <1>1, <1>11 DEF Actuate, Return, PatternInv, CalculationInv
<1>12. CASE BeginClear(l) \/ EndClear(l)
  BY <1>0, <1>1, <1>12 DEF BeginClear, EndClear, PatternInv, CalculationInv, history
<1> QED
  BY <1>2, <1>3, <1>4, <1>5, <1>6, <1>7, <1>8, <1>9, <1>10, <1>11, <1>12 DEF LoopThread

\* A step of a LoopThread.
LEMMA LoopInvariant ==
  ASSUME TypeOK, TypeOK', PatternsInOrder, NEW l \in Loops, LoopThread(l)
  PROVE  PatternsInOrder'
<1>1. /\ log' = log /\ evrPc' = evrPc /\ evrPattern' = evrPattern
      /\ \A m \in Loops \ {l} :
           /\ lQueue'[m] = lQueue[m] /\ lPattern'[m] = lPattern[m]
           /\ lState'[m] = lState[m] /\ lPc'[m] = lPc[m] /\ lUsed'[m] = lUsed[m]
           /\ matched'[m] = matched[m] /\ actuated'[m] = actuated[m]
  BY LoopLocal
<1>2. LogKept /\ log' \in Seq(Kinds)
  BY <1>1, LogUnchanged DEF TypeOK, EvrTypeOK
<1>3. EvrInv'
  BY <1>1 DEF PatternsInOrder, EvrInv, OfFiducial
<1>4. BufferInv'
  <2>1. buffer \in [Devices -> DataPoints] /\ BufferInv
    BY DEF TypeOK, CollectorTypeOK, PatternsInOrder
  <2>2. \A d \in Devices : buffer'[d].pulse = buffer[d].pulse
    BY <2>1 DEF LoopThread, LoopPattern, LoopReceive, BeginChangeMode, EndChangeMode,
                Unexpected, Calculate, BeginAlgorithm, CheckMeasurement, Get, Skip,
                Actuate, BeginClear, EndClear, DataPoints
  <2> QED  BY <1>1, <2>1, <2>2 DEF BufferInv
<1>5. PICK n \in Nat :
         /\ \A i \in 1 .. Len(lQueue'[l]) :
              i + n \in 1 .. Len(lQueue[l]) /\ lQueue'[l][i] = lQueue[l][i + n]
         /\ LoopPattern(l) => n = 1
  BY LoopQueue
<1>6. LoopInv(l)'
  <2>1. QueuedInv(l) /\ OrderInv(l)
    BY DEF PatternsInOrder
  <2>2. CASE LoopPattern(l)
    <3>1. \A i \in 1 .. Len(lQueue'[l]) :
             i + 1 \in 1 .. Len(lQueue[l]) /\ lQueue'[l][i] = lQueue[l][i + 1]
      BY <1>5, <2>2
    <3>2. /\ QueuedInv(l)' /\ OrderInv(l)'
          /\ OfFiducial(lPattern'[l]) /\ l \in Matches[lPattern'[l].kind]
          /\ lPattern[l].pulse < lPattern'[l].pulse /\ lPattern'[l].pulse <= Dispatched
      BY <1>1, <1>2, <2>1, <2>2, <3>1, LoopPatternQueue
    <3>3. PatternInv(l)' /\ CalculationInv(l)'
      BY <1>2, <3>2, LoopState
    <3> QED  BY <3>2, <3>3 DEF LoopInv
  <2>3. CASE ~LoopPattern(l)
    <3>1. lPattern'[l] = lPattern[l]
      BY <2>3 DEF LoopThread, LoopReceive, BeginChangeMode, EndChangeMode, Unexpected,
                  Calculate, BeginAlgorithm, CheckMeasurement, Get, Skip, Actuate,
                  BeginClear, EndClear
    <3>2. QueuedInv(l)' /\ OrderInv(l)'
      BY <1>2, <1>5, <2>1, <3>1, QueueKept
    <3>3. PatternInv(l)' /\ CalculationInv(l)'
      BY <1>2, <2>3, LoopState
    <3> QED  BY <3>2, <3>3 DEF LoopInv
  <2> QED  BY <2>2, <2>3
<1>7. ASSUME NEW m \in Loops \ {l}
      PROVE  LoopInv(m)'
  <2>1. Len(lQueue[m]) \in Nat
    BY DEF TypeOK, LoopTypeOK, Queues
  <2>2. \A i \in 1 .. Len(lQueue'[m]) : lQueue'[m][i].type = "PATTERN" =>
           i + 0 \in 1 .. Len(lQueue[m]) /\ lQueue'[m][i] = lQueue[m][i + 0]
    BY <1>1, <2>1
  <2>3. QueuedInv(m)' /\ OrderInv(m)'
    BY <1>1, <1>2, <2>2, QueueKept DEF PatternsInOrder
  <2>4. PatternInv(m)' /\ CalculationInv(m)'
    BY <1>1, <1>2, ThreadKept DEF PatternsInOrder
  <2> QED  BY <2>3, <2>4 DEF LoopInv
<1> QED  BY <1>3, <1>4, <1>6, <1>7 DEF PatternsInOrder, LoopInv

\* Initially.
LEMMA PatternsInit == Init => PatternsInOrder
<1> SUFFICES ASSUME Init PROVE PatternsInOrder
  OBVIOUS
<1>1. /\ Len(log) = 0 /\ Dispatched = 0 /\ EvrInv /\ BufferInv
  BY DEF Init, Dispatched, EvrInv, BufferInv
<1>2. ASSUME NEW l \in Loops
      PROVE  QueuedInv(l) /\ OrderInv(l) /\ PatternInv(l) /\ CalculationInv(l)
  <2>1. QueuedInv(l) /\ OrderInv(l)
    BY DEF Init, QueuedInv, OrderInv
  <2>2. PatternInv(l)
    BY <1>1 DEF Init, PatternInv, NoPattern
  <2>3. CalculationInv(l)
    BY <1>1 DEF Init, CalculationInv
  <2> QED  BY <2>1, <2>2, <2>3
<1> QED  BY <1>1, <1>2 DEF PatternsInOrder

\* Any step.
LEMMA PatternsStep == TypeOK /\ TypeOK' /\ PatternsInOrder /\ [Next]_vars => PatternsInOrder'
<1> SUFFICES ASSUME TypeOK, TypeOK', PatternsInOrder, [Next]_vars PROVE PatternsInOrder'
  OBVIOUS
<1>1. CASE UNCHANGED vars
  <2>1. EvrInv' /\ BufferInv'
    BY <1>1 DEF vars, evrVars, PatternsInOrder, EvrInv, BufferInv, OfFiducial
  <2>2. ASSUME NEW l \in Loops
        PROVE  QueuedInv(l)' /\ OrderInv(l)'
    BY <1>1 DEF vars, evrVars, lVars, PatternsInOrder, QueuedInv, OrderInv, OfFiducial,
                Dispatched
  <2>3. ASSUME NEW l \in Loops
        PROVE  PatternInv(l)' /\ CalculationInv(l)'
    BY <1>1 DEF vars, evrVars, lVars, history, PatternsInOrder, PatternInv, CalculationInv,
                OfFiducial, Dispatched
  <2> QED  BY <2>1, <2>2, <2>3 DEF PatternsInOrder
<1> QED
  BY <1>1, FiducialInv, EvrInvariant, CollectorInvariant, LoopInvariant DEF Next

\* The patterns that reach a loop are those of its fiducials, each once and in
\* order, whatever the threads, the timer and the queues do (PatternsInOrder of
\* the runs).  It is inductive relative to TypeOK as it stands.
THEOREM PatternsCorrect == Spec => []PatternsInOrder
  BY PatternsInit, PatternsStep, TypeCorrect, PTL DEF Spec

-----------------------------------------------------------------------------
(* The contract *)

\* Loop::calculate with the measurements of a pulse is the contract's Match.
LEMMA CalculateMatches ==
  ASSUME TypeOK, PatternsInOrder, NEW l \in Loops, Calculate(l)
  PROVE  Contract!Match(l)
<1> DEFINE n == lPattern[l].pulse
<1>1. /\ lPattern[l] \in Patterns /\ n \in Nat /\ matched[l] \in Nat /\ Len(log) \in Nat
      /\ Dispatched <= Len(log) /\ Dispatched \in Int
  <2>1. lPattern[l] \in Patterns /\ n \in Nat
    BY DEF TypeOK, LoopTypeOK, Patterns
  <2>2. matched[l] \in Nat
    BY DEF TypeOK, HistoryTypeOK
  <2>3. Len(log) \in Nat
    BY DEF TypeOK, EvrTypeOK
  <2>4. Dispatched <= Len(log) /\ Dispatched \in Int
    BY <2>3 DEF Dispatched
  <2> QED  BY <2>1, <2>2, <2>3, <2>4
<1>2. PatternInv(l) /\ lState[l] = "WAITING_MEASUREMENT" /\ lPc[l] = "measurement"
  BY DEF PatternsInOrder, Calculate
<1>3. matched[l] < n /\ n <= Dispatched
  BY <1>2 DEF PatternInv
<1>4. OfFiducial(lPattern[l]) /\ l \in Matches[lPattern[l].kind]
  BY <1>1, <1>2, <1>3 DEF PatternInv
<1>5. n \in matched[l] + 1 .. Len(log) /\ l \in Matches[log[n]]
  BY <1>1, <1>3, <1>4 DEF OfFiducial
<1>6. matched' = [matched EXCEPT ![l] = n] /\ UNCHANGED <<log, actuated>>
  BY DEF Calculate
<1> QED  BY <1>5, <1>6 DEF Contract!Match

\* Loop::setDevices is the contract's Actuate, with the data the algorithm got.
LEMMA ActuateActuates ==
  ASSUME TypeOK, PatternsInOrder, NEW l \in Loops, Actuate(l)
  PROVE  Contract!Actuate(l, lUsed[l]) /\ lUsed[l] \in SUBSET (0 .. Len(log))
<1>1. PatternInv(l) /\ CalculationInv(l) /\ lPc[l] = "algorithm"
  BY DEF PatternsInOrder, Actuate
<1>2. /\ matched[l] = lPattern[l].pulse /\ actuated[l].pulse < matched[l]
      /\ lPattern[l].kind \in Beam /\ lUsed[l] \subseteq 0 .. Len(log)
  BY <1>1 DEF CalculationInv
<1>3. lPattern[l].pulse > 0
  BY <1>2 DEF TypeOK, LoopTypeOK, HistoryTypeOK, Patterns
<1>4. log[matched[l]] \in Beam
  BY <1>1, <1>2, <1>3 DEF PatternInv, OfFiducial
<1>5. /\ actuated' = [actuated EXCEPT ![l] =
           [pulse |-> matched[l], data |-> lUsed[l], count |-> actuated[l].count + 1]]
      /\ UNCHANGED <<log, matched>>
  BY <1>2 DEF Actuate, TypeOK, HistoryTypeOK
<1> QED  BY <1>2, <1>4, <1>5 DEF Contract!Actuate

\* No other step is seen by the contract, but a fiducial, which is its own.
LEMMA ContractSteps ==
  ASSUME [Next]_vars
  PROVE  \/ \E k \in Kinds : Contract!Fiducial(k)
         \/ \E l \in Loops : Calculate(l) \/ Actuate(l)
         \/ UNCHANGED Contract!vars
<1>1. ASSUME NEW k \in Kinds, Fiducial(k) PROVE Contract!Fiducial(k)
  BY <1>1 DEF Fiducial, history, Contract!Fiducial
<1>2. CASE Evr \/ TimerThread \/ Collector \/ UNCHANGED vars
  BY <1>2 DEF Evr, Dispatch, StartTimer, SavePattern, NotifyCollector, TimerThread,
              StartSleep, Expire, Collector, CollectorPattern, CollectorMeasurement,
              Broadcast, ReadDevice, CheckPulseId, vars, history, Contract!vars
<1>3. ASSUME NEW l \in Loops, LoopThread(l), ~Calculate(l), ~Actuate(l)
      PROVE  UNCHANGED Contract!vars
  BY <1>3 DEF LoopThread, LoopPattern, LoopReceive, BeginChangeMode, EndChangeMode,
              Unexpected, BeginAlgorithm, CheckMeasurement, Get, Skip, BeginClear,
              EndClear, history, Contract!vars
<1> QED  BY <1>1, <1>2, <1>3 DEF Next

\* The pipeline implements the contract: late or repeated timers, overflowing
\* and cleared queues, torn patterns and mode changes never make a loop
\* calculate or actuate twice for a pulse, out of order, or for a pattern that
\* is not its own (ImplementsContract of the runs).
THEOREM ContractImplemented == Spec => ImplementsContract
<1>1. Init => Contract!Init
  BY DEF Init, Contract!Init
<1>2. TypeOK /\ PatternsInOrder /\ [Next]_vars => [Contract!Next]_(Contract!vars)
  BY ContractSteps, CalculateMatches, ActuateActuates DEF Contract!Next
<1> QED
  BY <1>1, <1>2, TypeCorrect, PatternsCorrect, PTL DEF Spec, ImplementsContract, Contract!Spec

-----------------------------------------------------------------------------
(* The exact contract, of the timely pipeline                              *)
(*                                                                         *)
(* Why the pending-events check is enough: a newer datum in the buffers of *)
(* a loop was read for a pattern that is to be measured ("coming"), that   *)
(* pattern is later than the one the loop calculates for, so that its      *)
(* PATTERN_EVENT, which was sent first, is still in the queue of the loop. *)

TimelyStep == Next /\ Punctual /\ NoOverflow /\ NothingToClear

\* The timer runs, or is about to, for the pulse that was dispatched last.
TimerOn == timerQueue > 0 \/ timerPc = "sleep"

TimerInv ==
  /\ evrPattern.pulse <= Len(log)
  /\ timerQueue = 0 \/ (timerQueue = 1 /\ timerPc = "receive")
  /\ evrPc \in {"dispatch", "timer"} => ~TimerOn
  /\ TimerOn /\ evrPc # "save" => saved = evrPattern

\* The MEASUREMENT_EVENTs in the queue of the CollectorThread.
Updates == {i \in 1 .. Len(cQueue) : cQueue[i].type = "MEASUREMENT"}

\* The patterns whose devices are to be read, or are being read.
Coming ==
  {p \in {evrPattern} : evrPc \in {"timer", "save", "collector"} \/ TimerOn}
    \cup {cQueue[i].pattern : i \in Updates}
    \cup {p \in {cPattern} : cPc = "update"}

\* The timer of pulse n is over: what it is going to send is of a later pulse.
Over(n) == n <= evrPattern.pulse /\ (TimerOn \/ evrPc # "idle" => n < evrPattern.pulse)

\* So is what waits for the CollectorThread.
Sooner(n) == Over(n) /\ \A i \in Updates : n < cQueue[i].pattern.pulse

\* So is what the CollectorThread reads: the measurements of pulse n are done.
Past(n) == Sooner(n) /\ (cPc = "update" => n < cPattern.pulse)

\* Devices are read in the order of pulses, and for the loops of the pattern alone.
UpdatesInv ==
  /\ \A i \in Updates : Over(cQueue[i].pattern.pulse)
  /\ \A i, j \in Updates : i < j => cQueue[i].pattern.pulse < cQueue[j].pattern.pulse
  /\ cPc = "update" =>
       Sooner(cPattern.pulse) /\ \A d \in cTodo : Owner[d] \in Matches[cPattern.kind]

\* The measurements that a loop hears of are done.
PastInv(l) ==
  /\ \A i \in 1 .. Len(lQueue[l]) :
       lQueue[l][i].type = "MEASUREMENT" => Past(lQueue[l][i].pattern.pulse)
  /\ lEvent[l].type = "MEASUREMENT" => Past(lEvent[l].pattern.pulse)

\* The PATTERN_EVENT of p waits in the queue of l.
Announced(l, p) ==
  \E i \in 1 .. Len(lQueue[l]) : lQueue[l][i].type = "PATTERN" /\ lQueue[l][i].pattern = p

\* A pattern sooner than p is in work or waits in the queue of l.
Expects(l, p) ==
  \/ lState[l] = "WAITING_MEASUREMENT" /\ lPattern[l].pulse < p.pulse
  \/ \E i \in 1 .. Len(lQueue[l]) :
       lQueue[l][i].type = "PATTERN" /\ lQueue[l][i].pattern.pulse < p.pulse

AnnouncedInv(l) ==
  \A p \in Coming : l \in Matches[p.kind] /\ Expects(l, p) => Announced(l, p)

\* While no event is pending the data that were checked, and those the algorithm
\* uses, are of the pulse calculated.
ExactInv(l) ==
  /\ lPc[l] = "measurement" => lEvent[l].type = "MEASUREMENT"
  /\ lPc[l] \in {"check", "algorithm"} =>
       /\ lState[l] = "WAITING_MEASUREMENT"
       /\ lEvent[l].type = "MEASUREMENT" /\ lEvent[l].pattern = lPattern[l]
       /\ lTodo[l] \subseteq DevicesOf(l)
  /\ lPc[l] = "check" /\ lQueue[l] = <<>> =>
       \A d \in DevicesOf(l) \ lTodo[l] : buffer[d].pulse = lPattern[l].pulse
  /\ lPc[l] = "algorithm" /\ lQueue[l] = <<>> =>
       /\ \A d \in DevicesOf(l) : buffer[d].pulse = lPattern[l].pulse
       /\ lUsed[l] \subseteq {lPattern[l].pulse}

TimelyInv ==
  /\ TimerInv /\ UpdatesInv
  /\ \A l \in Loops : PastInv(l) /\ AnnouncedInv(l) /\ ExactInv(l)

-----------------------------------------------------------------------------
(* What stays in a queue *)

\* r is what is left of queue q when its first n events are gone.
Left(q, n, r) ==
  /\ \A i \in 1 .. Len(r) : i + n \in 1 .. Len(q) /\ r[i] = q[i + n]
  /\ \A k \in 1 .. Len(q) : n < k => k - n \in 1 .. Len(r) /\ r[k - n] = q[k]

LEMMA TailLeft ==
  ASSUME NEW q \in Queues, q # <<>>
  PROVE  Left(q, 1, Tail(q))
<1>1. q \in Seq(Events) /\ Len(q) \in Nat
  BY DEF Queues
<1>2. /\ Len(Tail(q)) = Len(q) - 1
      /\ \A k \in 1 .. Len(q) - 1 : Tail(q)[k] = q[k + 1]
  BY <1>1
<1> QED  BY <1>1, <1>2 DEF Left

LEMMA SubSeqLeft ==
  ASSUME NEW q \in Queues, NEW n \in Nat
  PROVE  Left(q, n, SubSeq(q, n + 1, Len(q)))
<1>1. q \in Seq(Events) /\ Len(q) \in Nat
  BY DEF Queues
<1>2. \A i \in 1 .. Len(SubSeq(q, n + 1, Len(q))) :
         i + n \in 1 .. Len(q) /\ SubSeq(q, n + 1, Len(q))[i] = q[i + n]
  BY ReceiveContents
<1>3. ASSUME NEW k \in 1 .. Len(q), n < k
      PROVE  k - n \in 1 .. Len(SubSeq(q, n + 1, Len(q)))
             /\ SubSeq(q, n + 1, Len(q))[k - n] = q[k]
  <2>1. Len(SubSeq(q, n + 1, Len(q))) = Len(q) - n
    BY <1>1, <1>3
  <2>2. k - n \in 1 .. Len(SubSeq(q, n + 1, Len(q)))
    BY <1>1, <1>3, <2>1
  <2>3. (k - n) + n = k
    BY <1>1
  <2> QED  BY <1>2, <2>2, <2>3
<1> QED  BY <1>2, <1>3 DEF Left

LEMMA AllLeft ==
  ASSUME NEW q \in Queues
  PROVE  Left(q, 0, q)
  BY DEF Left, Queues

\* EventReceiver::send leaves what is in the queue, and has room for one event more.
LEMMA SendKeeps ==
  ASSUME NEW q \in Queues, NEW e \in Events
  PROVE  /\ \A i \in 1 .. Len(q) : i \in 1 .. Len(Send(q, e)) /\ Send(q, e)[i] = q[i]
         /\ Len(Send(q, e)) <= Len(q) + 1
         /\ Len(q) < QueueSize =>
              Len(q) + 1 \in 1 .. Len(Send(q, e)) /\ Send(q, e)[Len(q) + 1] = e
<1>1. q \in Seq(Events) /\ Len(q) \in Nat
  BY DEF Queues
<1>2. CASE Len(q) < QueueSize
  <2>1. Send(q, e) = Append(q, e)
    BY <1>2 DEF Send
  <2> QED  BY <1>1, <2>1
<1>3. CASE ~ Len(q) < QueueSize
  BY <1>1, <1>3 DEF Send
<1> QED  BY <1>2, <1>3

-----------------------------------------------------------------------------
(* The EVR task, the Timer and the CollectorThread *)

\* The CollectorThread and the LoopThreads leave the EVR task and the Timer alone.
LEMMA EvrUntouched ==
  ASSUME Collector \/ \E l \in Loops : LoopThread(l)
  PROVE  UNCHANGED <<log, evrPc, evrPattern, timerQueue, timerPc, saved>>
<1>1. CASE Collector
  BY <1>1 DEF Collector, CollectorPattern, CollectorMeasurement, Broadcast, ReadDevice,
              CheckPulseId
<1>2. ASSUME NEW l \in Loops, LoopThread(l)
      PROVE  UNCHANGED <<log, evrPc, evrPattern, timerQueue, timerPc, saved>>
  <2>1. CASE LoopPattern(l) \/ LoopReceive(l) \/ BeginChangeMode(l) \/ EndChangeMode(l)
    BY <2>1 DEF LoopPattern, LoopReceive, BeginChangeMode, EndChangeMode
  <2>2. CASE Unexpected(l) \/ Calculate(l) \/ BeginAlgorithm(l)
    BY <2>2 DEF Unexpected, Calculate, BeginAlgorithm
  <2>3. CASE \E d \in Devices : CheckMeasurement(l, d) \/ Get(l, d)
    BY <2>3 DEF CheckMeasurement, Get
  <2>4. CASE Skip(l) \/ Actuate(l) \/ BeginClear(l) \/ EndClear(l)
    BY <2>4 DEF Skip, Actuate, BeginClear, EndClear
  <2> QED  BY <1>2, <2>1, <2>2, <2>3, <2>4 DEF LoopThread
<1> QED  BY <1>1, <1>2

\* With Punctual a fiducial finds the timer off, and the timer the EVR task idle.
LEMMA PunctualTimer ==
  ASSUME TypeOK, Punctual
  PROVE  /\ \A k \in Kinds : Fiducial(k) => ~TimerOn
         /\ Expire => evrPc = "idle"
<1>1. ASSUME NEW k \in Kinds, Fiducial(k) PROVE ~TimerOn
  <2>1. log \in Seq(Kinds) /\ log' = Append(log, k)
    BY <1>1 DEF TypeOK, EvrTypeOK, Fiducial
  <2>2. log' # log
    BY <2>1
  <2> QED  BY <2>2 DEF Punctual, TimerOn
<1>2. ASSUME Expire PROVE evrPc = "idle"
  BY <1>2 DEF Expire, Punctual
<1> QED  BY <1>1, <1>2

LEMMA TimerStep ==
  ASSUME TypeOK, TimerInv, TimelyStep
  PROVE  TimerInv'
<1>0. /\ Len(log) \in Nat /\ evrPattern.pulse \in Nat /\ timerQueue \in Nat
      /\ timerPc \in {"receive", "sleep"} /\ QueueSize \in Nat \ {0}
  BY PipelineAssumption DEF TypeOK, EvrTypeOK, Patterns
<1>1. ASSUME NEW k \in Kinds, Fiducial(k) PROVE TimerInv'
  <2>1. ~TimerOn /\ evrPc = "idle"
    BY <1>1, PunctualTimer DEF TimelyStep, Fiducial
  <2>2. log \in Seq(Kinds) /\ log' = Append(log, k)
    BY <1>1 DEF TypeOK, EvrTypeOK, Fiducial
  <2>3. Len(log') = Len(log) + 1
    BY <2>2
  <2>4. evrPattern'.pulse <= Len(log')
    BY <1>0, <1>1, <2>3 DEF Fiducial, TimerInv, pulse
  <2>5. ~TimerOn' /\ timerQueue' = timerQueue /\ timerPc' = timerPc
    BY <1>1, <2>1 DEF Fiducial, TimerOn
  <2> QED  BY <2>1, <2>4, <2>5 DEF TimerInv
<1>2. CASE Dispatch
  BY <1>2 DEF Dispatch, TimerInv, TimerOn
<1>3. CASE StartTimer
  BY <1>0, <1>3 DEF StartTimer, TimerInv, TimerOn
<1>4. CASE SavePattern
  BY <1>4 DEF SavePattern, TimerInv, TimerOn
<1>5. CASE NotifyCollector
  BY <1>5 DEF NotifyCollector, TimerInv, TimerOn
<1>6. CASE StartSleep
  BY <1>0, <1>6 DEF StartSleep, TimerInv, TimerOn
<1>7. CASE Expire
  BY <1>0, <1>7 DEF Expire, TimerInv, TimerOn
<1>8. CASE Collector \/ \E l \in Loops : LoopThread(l)
  BY <1>8, EvrUntouched DEF TimerInv, TimerOn
<1> QED
  BY <1>1, <1>2, <1>3, <1>4, <1>5, <1>6, <1>7, <1>8 DEF TimelyStep, Next, Evr, TimerThread

\* Over, Sooner and Past in the next state, of a pulse of this state or the next.
OverNext(n) ==
  n <= evrPattern'.pulse /\ (TimerOn' \/ evrPc' # "idle" => n < evrPattern'.pulse)

SoonerNext(n) == OverNext(n) /\ \A i \in Updates' : n < cQueue'[i].pattern.pulse

PastNext(n) == SoonerNext(n) /\ (cPc' = "update" => n < cPattern'.pulse)

\* What is over stays over: the next pulse is later.
LEMMA OverKept ==
  ASSUME TypeOK, TimerInv, TimelyStep
  PROVE  \A n \in Nat : Over(n) => OverNext(n)
<1> SUFFICES ASSUME NEW n \in Nat, Over(n) PROVE OverNext(n)
  OBVIOUS
<1> USE DEF OverNext
<1>0. /\ Len(log) \in Nat /\ evrPattern.pulse \in Nat /\ timerQueue \in Nat
      /\ timerPc \in {"receive", "sleep"}
  BY PipelineAssumption DEF TypeOK, EvrTypeOK, Patterns
<1>1. ASSUME NEW k \in Kinds, Fiducial(k) PROVE OverNext(n)
  <2>1. ~TimerOn' /\ evrPc = "idle"
    BY <1>1, PunctualTimer DEF TimelyStep, Fiducial, TimerOn
  <2>2. CASE enabled
    <3>1. evrPattern'.pulse = Len(log) + 1
      BY <1>1, <2>2 DEF Fiducial, pulse
    <3> QED  BY <1>0, <2>1, <3>1 DEF Over, TimerInv
  <2>3. CASE ~enabled
    BY <1>1, <2>1, <2>3 DEF Fiducial, Over
  <2> QED  BY <2>2, <2>3
<1>2. CASE Evr
  BY <1>0, <1>2 DEF Evr, Dispatch, StartTimer, SavePattern, NotifyCollector, Over, TimerOn
<1>3. CASE TimerThread
  BY <1>0, <1>3 DEF TimerThread, StartSleep, Expire, Over, TimerOn
<1>4. CASE Collector \/ \E l \in Loops : LoopThread(l)
  BY <1>4, EvrUntouched DEF Over, TimerOn
<1> QED  BY <1>1, <1>2, <1>3, <1>4 DEF TimelyStep, Next

\* What happens to the MEASUREMENT_EVENTs in the queue of the CollectorThread: they
\* move to its front, or the timer appends the one of the last pattern.
LEMMA UpdatesStep ==
  ASSUME TypeOK, TimerInv, TimelyStep
  PROVE  \/ \E n \in Nat :
              \A i \in Updates' : i + n \in Updates /\ cQueue'[i] = cQueue[i + n]
         \/ /\ Expire
            /\ \A i \in Updates' :
                 \/ i \in Updates /\ cQueue'[i] = cQueue[i]
                 \/ i = Len(cQueue) + 1 /\ cQueue'[i].pattern = evrPattern
<1>0. cQueue \in Queues /\ Len(cQueue) \in Nat /\ evrPattern \in Patterns /\ saved \in Patterns
  BY DEF TypeOK, CollectorTypeOK, EvrTypeOK, Queues
<1>1. CASE cQueue' = cQueue
  <2>1. \A i \in Updates' : i + 0 \in Updates /\ cQueue'[i] = cQueue[i + 0]
    BY <1>0, <1>1 DEF Updates
  <2> QED  BY <2>1
<1>2. CASE CollectorPattern \/ CollectorMeasurement
  <2>1. cQueue # <<>> /\ cQueue' = Tail(cQueue)
    BY <1>2 DEF CollectorPattern, CollectorMeasurement
  <2>2. Left(cQueue, 1, cQueue')
    BY <1>0, <2>1, TailLeft
  <2>3. \A i \in Updates' : i + 1 \in Updates /\ cQueue'[i] = cQueue[i + 1]
    BY <2>2 DEF Updates, Left
  <2> QED  BY <2>3
<1>3. CASE NotifyCollector
  <2> DEFINE e == Event("PATTERN", evrPattern)
  <2>1. e \in Events /\ e.type = "PATTERN"
    BY <1>0, EventType
  <2>2. cQueue' = Send(cQueue, e)
    BY <1>3 DEF NotifyCollector
  <2> HIDE DEF e
  <2>3. \A i \in 1 .. Len(cQueue') : cQueue'[i].type = "MEASUREMENT" =>
           i \in 1 .. Len(cQueue) /\ cQueue'[i] = cQueue[i]
    BY <1>0, <2>1, <2>2, SendContents
  <2>4. \A i \in Updates' : i + 0 \in Updates /\ cQueue'[i] = cQueue[i + 0]
    BY <1>0, <2>3 DEF Updates
  <2> QED  BY <2>4
<1>4. CASE Expire /\ enabled
  <2> DEFINE e == Event("MEASUREMENT", evrPattern)
  <2>1. e \in Events /\ e.type = "MEASUREMENT" /\ e.pattern = evrPattern
    BY <1>0, EventType
  <2>2. evrPc = "idle" /\ TimerOn
    BY <1>4, PunctualTimer DEF TimelyStep, Expire, TimerOn
  <2>3. SavedReads = {evrPattern}
    BY <2>2 DEF SavedReads, TimerInv
  <2>4. cQueue' = Send(cQueue, e)
    BY <1>4, <2>3 DEF Expire
  <2> HIDE DEF e
  <2>5. \A i \in 1 .. Len(cQueue') :
           \/ i \in 1 .. Len(cQueue) /\ cQueue'[i] = cQueue[i]
           \/ i = Len(cQueue) + 1 /\ cQueue'[i] = e
    BY <1>0, <2>1, <2>4, SendContents
  <2>6. \A i \in Updates' : \/ i \in Updates /\ cQueue'[i] = cQueue[i]
                            \/ i = Len(cQueue) + 1 /\ cQueue'[i].pattern = evrPattern
    BY <2>1, <2>5 DEF Updates
  <2> QED  BY <1>4, <2>6
<1>5. CASE \E l \in Loops : LoopThread(l)
  BY <1>1, <1>5
  DEF LoopThread, LoopPattern, LoopReceive, BeginChangeMode, EndChangeMode, Unexpected,
      Calculate, BeginAlgorithm, CheckMeasurement, Get, Skip, Actuate, BeginClear, EndClear
<1>6. CASE (\E k \in Kinds : Fiducial(k)) \/ Evr \/ TimerThread
  BY <1>1, <1>3, <1>4, <1>6
  DEF Fiducial, Evr, Dispatch, StartTimer, SavePattern, TimerThread, StartSleep, Expire
<1>7. CASE Collector
  BY <1>1, <1>2, <1>7 DEF Collector, Broadcast, ReadDevice, CheckPulseId
<1> QED  BY <1>5, <1>6, <1>7 DEF TimelyStep, Next

\* The events of the CollectorThread carry patterns.
LEMMA UpdatesType ==
  ASSUME TypeOK
  PROVE  /\ Updates \subseteq Nat
         /\ \A i \in Updates : cQueue[i].pattern \in Patterns /\ cQueue[i].pattern.pulse \in Nat
         /\ cPattern \in Patterns /\ cPattern.pulse \in Nat
         /\ evrPattern \in Patterns /\ evrPattern.pulse \in Nat
<1>1. cQueue \in Seq(Events) /\ Len(cQueue) \in Nat
  BY DEF TypeOK, CollectorTypeOK, Queues
<1>2. \A i \in Updates : cQueue[i] \in Events
  BY <1>1 DEF Updates
<1>3. \A e \in Events : e.pattern \in Patterns
  BY DEF Events
<1>4. \A p \in Patterns : p.pulse \in Nat
  BY DEF Patterns
<1>5. cPattern \in Patterns /\ evrPattern \in Patterns
  BY DEF TypeOK, CollectorTypeOK, EvrTypeOK
<1>6. Updates \subseteq Nat
  BY <1>1 DEF Updates
<1> QED  BY <1>2, <1>3, <1>4, <1>5, <1>6

LEMMA SoonerKept ==
  ASSUME TypeOK, TimerInv, TimelyStep
  PROVE  \A n \in Nat : Sooner(n) => SoonerNext(n)
<1> SUFFICES ASSUME NEW n \in Nat, Sooner(n) PROVE SoonerNext(n)
  OBVIOUS
<1>1. Over(n) /\ OverNext(n)
  BY OverKept DEF Sooner
<1>2. ASSUME NEW i \in Updates' PROVE n < cQueue'[i].pattern.pulse
  <2>1. CASE Expire /\ cQueue'[i].pattern = evrPattern
    <3>1. TimerOn
      BY <2>1 DEF Expire, TimerOn
    <3> QED  BY <1>1, <2>1, <3>1 DEF Over
  <2>2. CASE \E k \in Updates : cQueue'[i] = cQueue[k]
    BY <2>2 DEF Sooner
  <2> QED  BY <1>2, <2>1, <2>2, UpdatesStep
<1> QED  BY <1>1, <1>2 DEF SoonerNext

\* What the CollectorThread reads for: it goes on, or begins with the first event.
LEMMA ReadingStep ==
  ASSUME TypeOK, TimelyStep, cPc' = "update"
  PROVE  \/ /\ 1 \in Updates /\ cPattern' = cQueue[1].pattern /\ Left(cQueue, 1, cQueue')
            /\ \A d \in cTodo' : Owner[d] \in Matches[cPattern'.kind]
         \/ cPc = "update" /\ cPattern' = cPattern /\ cTodo' \subseteq cTodo
<1>1. CASE CollectorMeasurement
  <2>1. cQueue # <<>> /\ Head(cQueue).type = "MEASUREMENT"
    BY <1>1 DEF CollectorMeasurement
  <2>2. /\ cPattern' = Head(cQueue).pattern /\ cQueue' = Tail(cQueue)
        /\ \A d \in cTodo' : Owner[d] \in Matches[cPattern'.kind]
    BY <1>1, <2>1 DEF CollectorMeasurement
  <2>3. cQueue \in Queues /\ cQueue \in Seq(Events)
    BY DEF TypeOK, CollectorTypeOK, Queues
  <2>4. 1 \in Updates /\ Head(cQueue) = cQueue[1]
    BY <2>1, <2>3 DEF Updates
  <2> QED  BY <2>1, <2>2, <2>3, <2>4, TailLeft
<1>2. CASE Collector /\ ~CollectorMeasurement
  BY <1>2 DEF Collector, CollectorPattern, Broadcast, ReadDevice, CheckPulseId
<1>3. CASE ~Collector
  <2>1. CASE \E k \in Kinds : Fiducial(k)
    BY <2>1 DEF Fiducial
  <2>2. CASE Evr \/ TimerThread
    BY <2>2 DEF Evr, Dispatch, StartTimer, SavePattern, NotifyCollector, TimerThread,
                StartSleep, Expire
  <2>3. ASSUME NEW l \in Loops, LoopThread(l) PROVE UNCHANGED <<cPc, cPattern, cTodo>>
    BY <2>3 DEF LoopThread, LoopPattern, LoopReceive, BeginChangeMode, EndChangeMode,
                Unexpected, Calculate, BeginAlgorithm, CheckMeasurement, Get, Skip, Actuate,
                BeginClear, EndClear
  <2> QED  BY <1>3, <2>1, <2>2, <2>3 DEF TimelyStep, Next
<1> QED  BY <1>1, <1>2, <1>3

\* The patterns of updates keep their order.
LEMMA UpdatesInvStep ==
  ASSUME TypeOK, TypeOK', TimerInv, UpdatesInv, TimelyStep
  PROVE  UpdatesInv'
<1>0. /\ \A i \in Updates : cQueue[i].pattern.pulse \in Nat
      /\ cPattern.pulse \in Nat /\ evrPattern.pulse \in Nat /\ timerQueue \in Nat
      /\ Updates \subseteq Nat /\ Updates' \subseteq Nat /\ Len(cQueue) \in Nat
      /\ Updates \subseteq 1 .. Len(cQueue)
  <2>1. Updates \subseteq Nat /\ Updates' \subseteq Nat
    BY UpdatesType DEF Updates
  <2> QED
    BY <2>1, UpdatesType DEF TypeOK, EvrTypeOK, CollectorTypeOK, Queues, Updates
<1>1. CASE Expire /\ \A i \in Updates' :
                        \/ i \in Updates /\ cQueue'[i] = cQueue[i]
                        \/ i = Len(cQueue) + 1 /\ cQueue'[i].pattern = evrPattern
  <2>1. TimerOn /\ timerQueue = 0 /\ evrPc = "idle"
    BY <1>1, PunctualTimer DEF Expire, TimerOn, TimerInv, TimelyStep
  <2>2. /\ timerQueue' = timerQueue /\ timerPc' = "receive" /\ evrPc' = evrPc
        /\ evrPattern' = evrPattern /\ cPc' = cPc /\ cPattern' = cPattern /\ cTodo' = cTodo
    BY <1>1 DEF Expire
  <2>3. OverNext(evrPattern'.pulse)
    BY <1>0, <2>1, <2>2 DEF OverNext, TimerOn
  <2>4. ASSUME NEW i \in Updates' PROVE OverNext(cQueue'[i].pattern.pulse)
    <3>1. CASE i \in Updates /\ cQueue'[i] = cQueue[i]
      BY <1>0, <3>1, OverKept DEF UpdatesInv
    <3>2. CASE cQueue'[i].pattern = evrPattern
      BY <2>2, <2>3, <3>2
    <3> QED  BY <1>1, <3>1, <3>2
  <2>5. ASSUME NEW i \in Updates', NEW j \in Updates', i < j
        PROVE  cQueue'[i].pattern.pulse < cQueue'[j].pattern.pulse
    <3>1. i \in Updates /\ cQueue'[i] = cQueue[i]
      BY <1>0, <1>1, <2>5
    <3>2. CASE j \in Updates /\ cQueue'[j] = cQueue[j]
      BY <2>5, <3>1, <3>2 DEF UpdatesInv
    <3>3. CASE cQueue'[j].pattern = evrPattern
      BY <2>1, <3>1, <3>3 DEF UpdatesInv, Over
    <3> QED  BY <1>1, <3>2, <3>3
  <2>6. cPc' = "update" =>
          SoonerNext(cPattern'.pulse) /\ \A d \in cTodo' : Owner[d] \in Matches[cPattern'.kind]
    BY <1>0, <2>2, SoonerKept DEF UpdatesInv
  <2> QED  BY <2>4, <2>5, <2>6 DEF UpdatesInv, Sooner, SoonerNext, Over, OverNext
<1>2. ASSUME NEW n \in Nat,
             \A i \in Updates' : i + n \in Updates /\ cQueue'[i] = cQueue[i + n]
      PROVE  UpdatesInv'
  <2>1. ASSUME NEW i \in Updates' PROVE OverNext(cQueue'[i].pattern.pulse)
    <3>1. OverNext(cQueue[i + n].pattern.pulse)
      <4>1. cQueue[i + n].pattern.pulse \in Nat /\ Over(cQueue[i + n].pattern.pulse)
        BY <1>0, <1>2 DEF UpdatesInv
      <4> QED  BY <4>1, OverKept
    <3> QED  BY <1>2, <3>1
  <2>2. ASSUME NEW i \in Updates', NEW j \in Updates', i < j
        PROVE  cQueue'[i].pattern.pulse < cQueue'[j].pattern.pulse
    <3>1. i + n < j + n
      BY <1>0, <2>2
    <3> QED  BY <1>2, <3>1 DEF UpdatesInv
  <2>3. ASSUME cPc' = "update"
        PROVE  SoonerNext(cPattern'.pulse) /\ \A d \in cTodo' : Owner[d] \in Matches[cPattern'.kind]
    <3>1. CASE /\ 1 \in Updates /\ cPattern' = cQueue[1].pattern /\ Left(cQueue, 1, cQueue')
               /\ \A d \in cTodo' : Owner[d] \in Matches[cPattern'.kind]
      <4>1. ASSUME NEW i \in Updates'
            PROVE  cPattern'.pulse < cQueue'[i].pattern.pulse
        <5>1. i + 1 \in Updates /\ cQueue'[i] = cQueue[i + 1] /\ 1 < i + 1
          BY <1>0, <3>1 DEF Left, Updates
        <5> QED  BY <3>1, <5>1 DEF UpdatesInv
      <4>2. cQueue[1].pattern.pulse \in Nat /\ Over(cQueue[1].pattern.pulse)
        BY <1>0, <3>1 DEF UpdatesInv
      <4>3. OverNext(cPattern'.pulse)
        BY <3>1, <4>2, OverKept
      <4> QED  BY <3>1, <4>1, <4>3 DEF SoonerNext
    <3>2. CASE cPc = "update" /\ cPattern' = cPattern /\ cTodo' \subseteq cTodo
      BY <1>0, <3>2, SoonerKept DEF UpdatesInv
    <3> QED  BY <2>3, <3>1, <3>2, ReadingStep
  <2> QED  BY <2>1, <2>2, <2>3 DEF UpdatesInv, Sooner, SoonerNext, Over, OverNext
<1> QED  BY <1>1, <1>2, UpdatesStep

LEMMA PastKept ==
  ASSUME TypeOK, TimerInv, TimelyStep
  PROVE  \A n \in Nat : Past(n) => PastNext(n)
<1> SUFFICES ASSUME NEW n \in Nat, Past(n) PROVE PastNext(n)
  OBVIOUS
<1>1. SoonerNext(n)
  BY SoonerKept DEF Past
<1>2. cPc' = "update" => n < cPattern'.pulse
  BY ReadingStep DEF Past, Sooner
<1> QED  BY <1>1, <1>2 DEF PastNext

LEMMA ComingType ==
  ASSUME TypeOK
  PROVE  \A p \in Coming : p \in Patterns /\ p.pulse \in Nat
<1>1. \A p \in Coming : p \in Patterns
  BY UpdatesType DEF Coming
<1> QED  BY <1>1 DEF Patterns

\* Only a dispatch adds to the patterns that are to be measured.
LEMMA ComingStep ==
  ASSUME TypeOK, TimerInv, TimelyStep
  PROVE  \A p \in Coming' : p \in Coming \/ (Dispatch /\ p = evrPattern)
<1>0. timerQueue \in Nat /\ timerPc \in {"receive", "sleep"}
  BY PipelineAssumption DEF TypeOK, EvrTypeOK
<1>1. ASSUME NEW i \in Updates' PROVE cQueue'[i].pattern \in Coming
  <2>1. CASE Expire /\ cQueue'[i].pattern = evrPattern
    <3>1. TimerOn
      BY <2>1 DEF Expire, TimerOn
    <3> QED  BY <2>1, <3>1 DEF Coming
  <2>2. CASE \E k \in Updates : cQueue'[i] = cQueue[k]
    BY <2>2 DEF Coming
  <2> QED  BY <1>1, <2>1, <2>2, UpdatesStep
<1>2. cPc' = "update" => cPattern' \in Coming
  BY ReadingStep DEF Coming
<1>3. ASSUME evrPc' \in {"timer", "save", "collector"} \/ TimerOn'
      PROVE  evrPattern' = evrPattern /\ (evrPattern \in Coming \/ Dispatch)
  <2>1. ASSUME NEW k \in Kinds, Fiducial(k) PROVE FALSE
    BY <1>3, <2>1, PunctualTimer DEF TimelyStep, Fiducial, TimerOn
  <2>2. CASE Evr
    BY <1>3, <2>2 DEF Evr, Dispatch, StartTimer, SavePattern, NotifyCollector, Coming, TimerOn
  <2>3. CASE TimerThread
    BY <1>0, <1>3, <2>3 DEF TimerThread, StartSleep, Expire, Coming, TimerOn
  <2>4. CASE Collector \/ \E l \in Loops : LoopThread(l)
    BY <1>3, <2>4, EvrUntouched DEF Coming, TimerOn
  <2> QED  BY <2>1, <2>2, <2>3, <2>4 DEF TimelyStep, Next
<1> QED  BY <1>1, <1>2, <1>3 DEF Coming

\* The pattern that is dispatched is later than those.
LEMMA ComingSooner ==
  ASSUME TypeOK, TimerInv, UpdatesInv, Dispatch
  PROVE  \A p \in Coming : p.pulse < evrPattern.pulse
<1>1. evrPc = "dispatch" /\ ~TimerOn
  BY DEF Dispatch, TimerInv
<1> QED  BY <1>1 DEF Coming, UpdatesInv, Sooner, Over

-----------------------------------------------------------------------------
(* The LoopThreads *)

\* What another thread does to loop l: at most it sends it an event.
LEMMA OtherStep ==
  ASSUME TypeOK, Next, NEW l \in Loops, ~LoopThread(l)
  PROVE  /\ lState'[l] = lState[l] /\ lPattern'[l] = lPattern[l] /\ lPc'[l] = lPc[l]
         /\ lEvent'[l] = lEvent[l] /\ lTodo'[l] = lTodo[l] /\ lUsed'[l] = lUsed[l]
         /\ matched'[l] = matched[l]
         /\ \/ lQueue'[l] = lQueue[l]
            \/ \E e \in Events :
                 /\ lQueue'[l] = Send(lQueue[l], e)
                 /\ \/ e.type = "HEARTBEAT"
                    \/ Dispatch /\ e.type = "PATTERN" /\ e.pattern = evrPattern
                    \/ Broadcast /\ e.type = "MEASUREMENT" /\ e.pattern = cPattern
         /\ Dispatch /\ l \in Matches[evrPattern.kind] =>
              \E e \in Events : e.type = "PATTERN" /\ e.pattern = evrPattern
                                /\ lQueue'[l] = Send(lQueue[l], e)
<1>0. /\ evrPattern \in Patterns /\ cPattern \in Patterns
      /\ \A k \in Kinds : [kind |-> k, pulse |-> pulse + 1] \in Patterns
  BY DEF TypeOK, EvrTypeOK, CollectorTypeOK, Patterns, pulse
<1>1. ASSUME NEW m \in Loops, LoopThread(m)
      PROVE  /\ lState'[l] = lState[l] /\ lPattern'[l] = lPattern[l] /\ lPc'[l] = lPc[l]
             /\ lEvent'[l] = lEvent[l] /\ lTodo'[l] = lTodo[l] /\ lUsed'[l] = lUsed[l]
             /\ matched'[l] = matched[l]
             /\ lQueue'[l] = lQueue[l] /\ ~Dispatch
  <2>1. l \in Loops \ {m}
    BY <1>1
  <2>2. ~Dispatch
    BY <1>1, EvrUntouched DEF Dispatch
  <2> QED  BY <1>1, <2>1, <2>2, LoopLocal
<1>2. ASSUME NEW k \in Kinds, Fiducial(k)
      PROVE  /\ lQueue'[l] # lQueue[l] => \E e \in Events :
                  lQueue'[l] = Send(lQueue[l], e) /\ e.type = "HEARTBEAT"
             /\ ~Dispatch
  <2> DEFINE e == Event("HEARTBEAT", [kind |-> k, pulse |-> pulse + 1])
  <2>1. e \in Events /\ e.type = "HEARTBEAT"
    BY <1>0, EventType
  <2>2. lQueue'[l] # lQueue[l] => lQueue'[l] = Send(lQueue[l], e)
    BY <1>2 DEF Fiducial
  <2>3. ~Dispatch
    BY <1>2 DEF Fiducial, Dispatch
  <2> HIDE DEF e
  <2> QED  BY <2>1, <2>2, <2>3
<1>3. ASSUME Dispatch, l \in Matches[evrPattern.kind]
      PROVE  \E e \in Events : e.type = "PATTERN" /\ e.pattern = evrPattern
                               /\ lQueue'[l] = Send(lQueue[l], e)
  <2> DEFINE e == Event("PATTERN", evrPattern)
  <2>1. e \in Events /\ e.type = "PATTERN" /\ e.pattern = evrPattern
    BY <1>0, EventType
  <2>2. lQueue'[l] = Send(lQueue[l], e)
    BY <1>3 DEF Dispatch
  <2> HIDE DEF e
  <2> QED  BY <2>1, <2>2
<1>4. ASSUME Dispatch, l \notin Matches[evrPattern.kind]
      PROVE  lQueue'[l] = lQueue[l]
  BY <1>4 DEF Dispatch
<1>5. ASSUME Broadcast
      PROVE  \E e \in Events : e.type = "MEASUREMENT" /\ e.pattern = cPattern
                               /\ lQueue'[l] = Send(lQueue[l], e)
  <2> DEFINE e == Event("MEASUREMENT", cPattern)
  <2>1. e \in Events /\ e.type = "MEASUREMENT" /\ e.pattern = cPattern
    BY <1>0, EventType
  <2>2. lQueue'[l] = Send(lQueue[l], e)
    BY <1>5 DEF Broadcast
  <2> HIDE DEF e
  <2> QED  BY <2>1, <2>2
<1>6. \/ \E k \in Kinds : Fiducial(k)
      \/ Evr \/ TimerThread \/ Collector
      \/ \E m \in Loops : LoopThread(m)
  BY DEF Next
<1>7. \/ \E m \in Loops : LoopThread(m)
      \/ UNCHANGED <<lState, lPattern, lPc, lEvent, lTodo, lUsed, matched>>
  BY <1>6 DEF Fiducial, Evr, Dispatch, StartTimer, SavePattern, NotifyCollector, TimerThread,
              StartSleep, Expire, Collector, CollectorPattern, CollectorMeasurement, Broadcast,
              ReadDevice, CheckPulseId
<1>8. \/ \E m \in Loops : LoopThread(m)
      \/ \E k \in Kinds : Fiducial(k)
      \/ Dispatch \/ Broadcast
      \/ lQueue' = lQueue
  BY <1>6 DEF Evr, StartTimer, SavePattern, NotifyCollector, TimerThread, StartSleep, Expire,
              Collector, CollectorPattern, CollectorMeasurement, ReadDevice, CheckPulseId
<1> QED  BY <1>1, <1>2, <1>3, <1>4, <1>5, <1>7, <1>8

\* What thread l does to its queue: no event is lost but by EventReceiver::clear.
LEMMA OwnQueue ==
  ASSUME TypeOK, NothingToClear, NEW l \in Loops, LoopThread(l)
  PROVE  \E n \in Nat :
           /\ Left(lQueue[l], n, lQueue'[l])
           /\ \/ n = 0
              \/ n = 1 /\ lQueue[l] # <<>> /\ (LoopPattern(l) \/ LoopReceive(l))
              \/ EndClear(l)
<1>1. /\ lQueue[l] \in Queues /\ l \in DOMAIN lQueue /\ l \in DOMAIN lPc
      /\ lPending[l] \in Nat
  BY DEF TypeOK, LoopTypeOK
<1>2. CASE LoopPattern(l) \/ LoopReceive(l)
  <2>1. lQueue[l] # <<>> /\ lQueue'[l] = Tail(lQueue[l])
    BY <1>1, <1>2 DEF LoopPattern, LoopReceive
  <2>2. Left(lQueue[l], 1, lQueue'[l])
    BY <1>1, <2>1, TailLeft
  <2> QED  BY <1>2, <2>1, <2>2
<1>3. CASE EndClear(l)
  <2>1. lQueue'[l] = SubSeq(lQueue[l], lPending[l] + 1, Len(lQueue[l]))
    BY <1>1, <1>3 DEF EndClear
  <2>2. Left(lQueue[l], lPending[l], lQueue'[l])
    BY <1>1, <2>1, SubSeqLeft
  <2> QED  BY <1>1, <1>3, <2>2
<1>4. CASE lQueue'[l] = lQueue[l]
  BY <1>1, <1>4, AllLeft
<1>5. CASE EndChangeMode(l)
  <2>1. lPc[l] = "changing" /\ lPc'[l] # "changing"
    BY <1>1, <1>5 DEF EndChangeMode, Continue
  <2>2. lQueue' = lQueue
    BY <2>1 DEF NothingToClear
  <2> QED  BY <1>4, <2>2
<1> QED
  BY <1>2, <1>3, <1>4, <1>5
  DEF LoopThread, BeginChangeMode, Unexpected, Calculate, BeginAlgorithm, CheckMeasurement,
      Get, Skip, Actuate, BeginClear

\* What thread l does to its state, its pattern and its event.
LEMMA OwnState ==
  ASSUME TypeOK, NEW l \in Loops, LoopThread(l)
  PROVE  /\ LoopPattern(l) => /\ Head(lQueue[l]).type = "PATTERN"
                              /\ lPattern'[l] = Head(lQueue[l]).pattern
         /\ ~LoopPattern(l) => lPattern'[l] = lPattern[l]
         /\ lState'[l] = "WAITING_MEASUREMENT" =>
              LoopPattern(l) \/ (lState[l] = "WAITING_MEASUREMENT" /\ ~EndClear(l))
         /\ LoopReceive(l) => Head(lQueue[l]).type # "PATTERN" /\ lEvent'[l] = Head(lQueue[l])
         /\ ~LoopReceive(l) => lEvent'[l] = lEvent[l]
<1>0. /\ l \in DOMAIN lPattern /\ l \in DOMAIN lState /\ l \in DOMAIN lEvent
  BY DEF TypeOK, LoopTypeOK
<1>1. CASE LoopPattern(l)
  BY <1>0, <1>1 DEF LoopPattern, LoopReceive
<1>2. CASE LoopReceive(l)
  BY <1>0, <1>2 DEF LoopReceive, LoopPattern, EndClear
<1>3. CASE BeginChangeMode(l) \/ EndChangeMode(l)
  BY <1>0, <1>3 DEF BeginChangeMode, EndChangeMode, EndClear, LoopPattern, LoopReceive
<1>4. CASE Unexpected(l) \/ Calculate(l) \/ BeginAlgorithm(l)
  BY <1>0, <1>4 DEF Unexpected, Calculate, BeginAlgorithm, EndClear, LoopPattern, LoopReceive
<1>5. ASSUME NEW d \in Devices, CheckMeasurement(l, d) \/ Get(l, d)
      PROVE  UNCHANGED <<lPattern, lState, lEvent, lQueue>> /\ lPc[l] # "clearing"
  BY <1>5 DEF CheckMeasurement, Get
<1>6. CASE Skip(l) \/ Actuate(l)
  BY <1>0, <1>6 DEF Skip, Actuate, Return, EndClear, LoopPattern, LoopReceive
<1>7. CASE BeginClear(l) \/ EndClear(l)
  BY <1>0, <1>7 DEF BeginClear, EndClear, LoopPattern, LoopReceive
<1>8. CASE \E d \in Devices : CheckMeasurement(l, d) \/ Get(l, d)
  BY <1>0, <1>5, <1>8 DEF EndClear, LoopPattern, LoopReceive, CheckMeasurement, Get
<1> QED  BY <1>1, <1>2, <1>3, <1>4, <1>6, <1>7, <1>8 DEF LoopThread

LEMMA QueueEvents ==
  ASSUME TypeOK, NEW l \in Loops
  PROVE  /\ lQueue[l] \in Queues /\ Len(lQueue[l]) \in Nat
         /\ lQueue[l] # <<>> => 1 \in 1 .. Len(lQueue[l]) /\ Head(lQueue[l]) = lQueue[l][1]
         /\ \A i \in 1 .. Len(lQueue[l]) :
              /\ lQueue[l][i] \in Events /\ lQueue[l][i].pattern \in Patterns
              /\ lQueue[l][i].pattern.pulse \in Nat
         /\ lEvent[l] \in Events /\ lEvent[l].pattern.pulse \in Nat
         /\ lPattern[l] \in Patterns /\ lPattern[l].pulse \in Nat
<1>1. lQueue[l] \in Queues /\ lEvent[l] \in Events /\ lPattern[l] \in Patterns
  BY DEF TypeOK, LoopTypeOK
<1>2. lQueue[l] \in Seq(Events) /\ Len(lQueue[l]) \in Nat
  BY <1>1 DEF Queues
<1>3. lQueue[l] # <<>> => 1 \in 1 .. Len(lQueue[l]) /\ Head(lQueue[l]) = lQueue[l][1]
  BY <1>2
<1>4. \A i \in 1 .. Len(lQueue[l]) : lQueue[l][i] \in Events
  BY <1>2
<1>5. \A e \in Events : e.pattern \in Patterns
  BY DEF Events
<1>6. \A p \in Patterns : p.pulse \in Nat
  BY DEF Patterns
<1> QED  BY <1>1, <1>2, <1>3, <1>4, <1>5, <1>6

\* The measurements that a loop hears of stay done.
LEMMA PastStep ==
  ASSUME TypeOK, TimerInv, UpdatesInv, TimelyStep, NEW l \in Loops, PastInv(l)
  PROVE  PastInv(l)'
<1>1. ASSUME NEW i \in 1 .. Len(lQueue'[l]), lQueue'[l][i].type = "MEASUREMENT"
      PROVE  PastNext(lQueue'[l][i].pattern.pulse)
  <2>1. CASE \E k \in 1 .. Len(lQueue[l]) : lQueue'[l][i] = lQueue[l][k]
    BY <1>1, <2>1, QueueEvents, PastKept DEF PastInv
  <2>2. CASE LoopThread(l)
    <3>1. \E n \in Nat : Left(lQueue[l], n, lQueue'[l])
      BY <2>2, OwnQueue DEF TimelyStep
    <3> QED  BY <2>1, <3>1 DEF Left
  <2>3. CASE ~LoopThread(l) /\ lQueue'[l] = lQueue[l]
    BY <2>1, <2>3
  <2>4. ASSUME NEW e \in Events, lQueue'[l] = Send(lQueue[l], e),
               e.type = "MEASUREMENT" => Broadcast /\ e.pattern = cPattern
        PROVE  PastNext(lQueue'[l][i].pattern.pulse)
    <3>1. (i \in 1 .. Len(lQueue[l]) /\ lQueue'[l][i] = lQueue[l][i]) \/ lQueue'[l][i] = e
      BY <2>4, QueueEvents, SendContents
    <3>2. CASE Broadcast /\ lQueue'[l][i].pattern = cPattern
      <4>1. SoonerNext(cPattern.pulse)
        BY <3>2, UpdatesType, SoonerKept DEF UpdatesInv, Broadcast
      <4> QED  BY <3>2, <4>1 DEF PastNext, Broadcast
    <3> QED  BY <1>1, <2>1, <2>4, <3>1, <3>2
  <2> QED  BY <2>2, <2>3, <2>4, OtherStep DEF TimelyStep
<1>2. ASSUME lEvent'[l].type = "MEASUREMENT"
      PROVE  PastNext(lEvent'[l].pattern.pulse)
  <2>1. CASE lEvent'[l] = lEvent[l]
    BY <1>2, <2>1, QueueEvents, PastKept DEF PastInv
  <2>2. CASE LoopReceive(l)
    <3>1. lEvent'[l] = lQueue[l][1] /\ 1 \in 1 .. Len(lQueue[l])
      BY <2>2, QueueEvents, OwnState DEF LoopThread, LoopReceive
    <3> QED  BY <1>2, <3>1, QueueEvents, PastKept DEF PastInv
  <2> QED  BY <2>1, <2>2, OtherStep, OwnState DEF TimelyStep
<1> QED
  BY <1>1, <1>2 DEF PastInv, Past, PastNext, Sooner, SoonerNext, Over, OverNext

\* A pattern that a loop expects to be measured is announced to it before, and its
\* PATTERN_EVENT leaves the queue only when the loop takes it.
LEMMA AnnouncedStep ==
  ASSUME TypeOK, PatternsInOrder, TimerInv, UpdatesInv, TimelyStep, NEW l \in Loops,
         AnnouncedInv(l)
  PROVE  AnnouncedInv(l)'
<1> DEFINE q == lQueue[l]
           r == lQueue'[l]
           AnnouncedNext(p) == \E i \in 1 .. Len(r) : r[i].type = "PATTERN" /\ r[i].pattern = p
           ExpectsNext(p) ==
             \/ lState'[l] = "WAITING_MEASUREMENT" /\ lPattern'[l].pulse < p.pulse
             \/ \E i \in 1 .. Len(r) : r[i].type = "PATTERN" /\ r[i].pattern.pulse < p.pulse
<1> SUFFICES ASSUME NEW p \in Coming', l \in Matches[p.kind], ExpectsNext(p)
             PROVE  AnnouncedNext(p)
  BY DEF AnnouncedInv, Expects, Announced
<1>1. ASSUME p \in Coming, Expects(l, p) PROVE Announced(l, p)
  BY <1>1 DEF AnnouncedInv
<1>2. p \in Coming \/ (Dispatch /\ p = evrPattern)
  BY ComingStep
<1>3. p.pulse \in Nat
  BY <1>2, ComingType, UpdatesType
<1>4. CASE LoopThread(l)
  <2>1. p \in Coming
    BY <1>2, <1>4, EvrUntouched DEF Dispatch
  <2>2. PICK n \in Nat :
           /\ Left(q, n, r)
           /\ \/ n = 0
              \/ n = 1 /\ q # <<>> /\ (LoopPattern(l) \/ LoopReceive(l))
              \/ EndClear(l)
    BY <1>4, OwnQueue DEF TimelyStep
  <2>3. Expects(l, p)
    <3>1. CASE \E i \in 1 .. Len(r) : r[i].type = "PATTERN" /\ r[i].pattern.pulse < p.pulse
      BY <2>2, <3>1 DEF Expects, Left
    <3>2. CASE lState'[l] = "WAITING_MEASUREMENT" /\ lPattern'[l].pulse < p.pulse
      <4>1. CASE LoopPattern(l)
        <5>1. q # <<>>
          BY <4>1 DEF LoopPattern
        <5>2. /\ 1 \in 1 .. Len(q) /\ q[1].type = "PATTERN"
              /\ q[1].pattern.pulse < p.pulse
          BY <1>4, <3>2, <4>1, <5>1, OwnState, QueueEvents
        <5> QED  BY <5>2 DEF Expects
      <4>2. CASE ~LoopPattern(l)
        BY <1>4, <3>2, <4>2, OwnState DEF Expects
      <4> QED  BY <4>1, <4>2
    <3> QED  BY <3>1, <3>2
  <2>4. PICK k \in 1 .. Len(q) : q[k].type = "PATTERN" /\ q[k].pattern = p
    BY <1>1, <2>1, <2>3 DEF Announced
  <2>5. Len(q) \in Nat
    BY QueueEvents
  <2>6. n < k
    <3>1. CASE \E i \in 1 .. Len(r) : r[i].type = "PATTERN" /\ r[i].pattern.pulse < p.pulse
      <4>1. PICK i \in 1 .. Len(r) : r[i].type = "PATTERN" /\ r[i].pattern.pulse < p.pulse
        BY <3>1
      <4>2. i + n \in 1 .. Len(q) /\ r[i] = q[i + n]
        BY <2>2 DEF Left
      <4>3. q[i + n].pattern.pulse \in Nat
        BY <4>2, QueueEvents
      <4>4. k < i + n => p.pulse < q[i + n].pattern.pulse
        BY <2>4, <4>1, <4>2 DEF PatternsInOrder, OrderInv
      <4>5. ~(k < i + n)
        BY <1>3, <4>1, <4>2, <4>3, <4>4
      <4>6. i \in Nat \ {0} /\ i + n <= k
        BY <2>5, <4>2, <4>5
      <4> QED  BY <2>5, <4>6
    <3>2. CASE lState'[l] = "WAITING_MEASUREMENT" /\ lPattern'[l].pulse < p.pulse
      <4>1. ~EndClear(l)
        BY <1>4, <3>2, OwnState DEF LoopPattern, EndClear
      <4>2. CASE n = 0
        BY <2>5, <4>2
      <4>3. CASE n = 1 /\ q # <<>> /\ LoopPattern(l)
        <5>1. lPattern'[l] = q[1].pattern
          BY <1>4, <4>3, OwnState, QueueEvents
        <5>2. k # 1
          BY <1>3, <2>4, <3>2, <5>1
        <5> QED  BY <2>5, <4>3, <5>2
      <4>4. CASE n = 1 /\ q # <<>> /\ LoopReceive(l)
        <5>1. q[1].type # "PATTERN"
          BY <1>4, <4>4, OwnState, QueueEvents
        <5>2. k # 1
          BY <2>4, <5>1
        <5> QED  BY <2>5, <4>4, <5>2
      <4> QED  BY <2>2, <4>1, <4>2, <4>3, <4>4
    <3> QED  BY <3>1, <3>2
  <2>7. k - n \in 1 .. Len(r) /\ r[k - n] = q[k]
    BY <2>2, <2>6 DEF Left
  <2> QED  BY <2>4, <2>7
<1>5. CASE ~LoopThread(l)
  <2>1. q \in Queues /\ Len(q) \in Nat
    BY QueueEvents
  <2>2. lState'[l] = lState[l] /\ lPattern'[l] = lPattern[l]
    BY <1>5, OtherStep DEF TimelyStep
  <2>3. ASSUME NEW e \in Events, r = Send(q, e)
        PROVE  \A i \in 1 .. Len(q) : i \in 1 .. Len(r) /\ r[i] = q[i]
    BY <2>1, <2>3, SendKeeps
  <2>4. Announced(l, p) => AnnouncedNext(p)
    BY <1>5, <2>3, OtherStep DEF Announced, TimelyStep
  <2>5. CASE Dispatch /\ p = evrPattern
    <3>1. PICK e \in Events : e.type = "PATTERN" /\ e.pattern = p /\ r = Send(q, e)
      BY <1>5, <2>5, OtherStep DEF TimelyStep
    <3>2. Len(q) < QueueSize
      BY DEF TimelyStep, NoOverflow
    <3>3. Len(q) + 1 \in 1 .. Len(r) /\ r[Len(q) + 1] = e
      BY <2>1, <3>1, <3>2, SendKeeps
    <3> QED  BY <3>1, <3>3
  <2>6. CASE p \in Coming
    <3>1. Dispatch => p.pulse < evrPattern.pulse
      BY <2>6, ComingSooner
    <3>2. ASSUME NEW i \in 1 .. Len(r), r[i].type = "PATTERN", r[i].pattern.pulse < p.pulse
          PROVE  i \in 1 .. Len(q) /\ r[i] = q[i]
      <4>1. CASE r = q
        BY <4>1
      <4>2. ASSUME NEW e \in Events, r = Send(q, e),
                   \/ e.type = "HEARTBEAT"
                   \/ Dispatch /\ e.type = "PATTERN" /\ e.pattern = evrPattern
                   \/ e.type = "MEASUREMENT"
            PROVE  i \in 1 .. Len(q) /\ r[i] = q[i]
        <5>1. (i \in 1 .. Len(q) /\ r[i] = q[i]) \/ r[i] = e
          BY <2>1, <4>2, SendContents
        <5>2. r[i] # e
          BY <1>3, <3>1, <3>2, <4>2, UpdatesType
        <5> QED  BY <5>1, <5>2
      <4> QED  BY <1>5, <4>1, <4>2, OtherStep DEF TimelyStep
    <3>3. Expects(l, p)
      BY <2>2, <3>2 DEF Expects
    <3> QED  BY <1>1, <2>4, <2>6, <3>3
  <2> QED  BY <1>2, <2>5, <2>6
<1> QED  BY <1>4, <1>5

\* While loop l calculates, data are read into its devices for a later pattern
\* alone, whose PATTERN_EVENT is then pending.
LEMMA BuffersUnread ==
  ASSUME TypeOK, UpdatesInv, TimelyStep, NEW l \in Loops, ~LoopThread(l),
         PastInv(l), AnnouncedInv(l), ExactInv(l),
         lPc[l] \in {"check", "algorithm"}, lQueue'[l] = <<>>
  PROVE  lQueue[l] = <<>> /\ \A d \in DevicesOf(l) : buffer'[d].pulse = buffer[d].pulse
<1>1. lQueue[l] = <<>>
  <2>1. SUFFICES ASSUME lQueue[l] # <<>> PROVE FALSE
    OBVIOUS
  <2>2. lQueue[l] \in Queues /\ 1 \in 1 .. Len(lQueue[l])
    BY <2>1, QueueEvents
  <2>3. PICK e \in Events : lQueue'[l] = Send(lQueue[l], e)
    BY <2>1, OtherStep DEF TimelyStep
  <2>4. 1 \in 1 .. Len(lQueue'[l])
    BY <2>2, <2>3, SendKeeps
  <2>5. 1 \in 1 .. 0
    BY <2>4
  <2> QED  BY <2>5
<1>2. ASSUME NEW d \in DevicesOf(l), ReadDevice(d) PROVE FALSE
  <2>1. cPc = "update" /\ l \in Matches[cPattern.kind]
    BY <1>2 DEF ReadDevice, DevicesOf, UpdatesInv
  <2>2. cPattern \in Coming
    BY <2>1 DEF Coming
  <2>3. lPattern[l].pulse < cPattern.pulse /\ lState[l] = "WAITING_MEASUREMENT"
    BY <2>1 DEF ExactInv, PastInv, Past
  <2>4. Announced(l, cPattern)
    BY <2>1, <2>2, <2>3 DEF AnnouncedInv, Expects
  <2>5. \E i \in 1 .. 0 : TRUE
    BY <1>1, <2>4 DEF Announced
  <2> QED  BY <2>5
<1>3. ASSUME NEW d \in DevicesOf(l) PROVE buffer'[d].pulse = buffer[d].pulse
  <2>1. d \in Devices /\ buffer[d] \in DataPoints /\ d \in DOMAIN buffer
    BY DEF DevicesOf, TypeOK, CollectorTypeOK
  <2>2. ASSUME NEW m \in Loops, LoopThread(m) PROVE buffer'[d].pulse = buffer[d].pulse
    <3>1. CASE buffer' = buffer
      BY <3>1
    <3>2. ASSUME NEW c \in Devices, Get(m, c) PROVE buffer'[d].pulse = buffer[d].pulse
      BY <2>1, <3>2 DEF Get, DataPoints
    <3> QED
      BY <2>2, <3>1, <3>2
      DEF LoopThread, LoopPattern, LoopReceive, BeginChangeMode, EndChangeMode, Unexpected,
          Calculate, BeginAlgorithm, CheckMeasurement, Skip, Actuate, BeginClear, EndClear
  <2>3. ASSUME NEW c \in Devices, CheckPulseId(c) PROVE buffer'[d].pulse = buffer[d].pulse
    BY <2>1, <2>3 DEF CheckPulseId, DataPoints
  <2>4. ASSUME NEW c \in Devices, ReadDevice(c) PROVE buffer'[d].pulse = buffer[d].pulse
    <3>1. c # d
      BY <1>2, <2>4
    <3> QED  BY <2>1, <2>4, <3>1 DEF ReadDevice
  <2>5. \/ \E m \in Loops : LoopThread(m)
        \/ \E c \in Devices : ReadDevice(c) \/ CheckPulseId(c)
        \/ buffer' = buffer
    BY DEF TimelyStep, Next, Fiducial, Evr, Dispatch, StartTimer, SavePattern, NotifyCollector,
           TimerThread, StartSleep, Expire, Collector, CollectorPattern, CollectorMeasurement,
           Broadcast
  <2> QED  BY <2>2, <2>3, <2>4, <2>5
<1> QED  BY <1>1, <1>3

LEMMA ExactOther ==
  ASSUME TypeOK, UpdatesInv, TimelyStep, NEW l \in Loops, ~LoopThread(l),
         PastInv(l), AnnouncedInv(l), ExactInv(l)
  PROVE  ExactInv(l)'
<1>1. /\ lState'[l] = lState[l] /\ lPattern'[l] = lPattern[l] /\ lPc'[l] = lPc[l]
      /\ lEvent'[l] = lEvent[l] /\ lTodo'[l] = lTodo[l] /\ lUsed'[l] = lUsed[l]
  BY OtherStep DEF TimelyStep
<1>2. ASSUME lPc[l] \in {"check", "algorithm"}, lQueue'[l] = <<>>
      PROVE  lQueue[l] = <<>> /\ \A d \in DevicesOf(l) : buffer'[d].pulse = buffer[d].pulse
  BY <1>2, BuffersUnread
<1>3. DevicesOf(l)' = DevicesOf(l)
  BY DEF DevicesOf
<1> QED  BY <1>1, <1>2, <1>3 DEF ExactInv

LEMMA ExactOwn ==
  ASSUME TypeOK, NEW l \in Loops, LoopThread(l), ExactInv(l)
  PROVE  ExactInv(l)'
<1>0. /\ l \in DOMAIN lPc /\ l \in DOMAIN lState /\ l \in DOMAIN lTodo
      /\ l \in DOMAIN lUsed /\ l \in DOMAIN lEvent
      /\ DevicesOf(l)' = DevicesOf(l)
  BY DEF TypeOK, LoopTypeOK, DevicesOf
<1>1. CASE LoopPattern(l) \/ Unexpected(l) \/ BeginChangeMode(l)
  BY <1>0, <1>1 DEF LoopPattern, Unexpected, BeginChangeMode, ExactInv
<1>2. CASE LoopReceive(l)
  BY <1>0, <1>2 DEF LoopReceive, Continue, ExactInv
<1>3. CASE EndChangeMode(l)
  BY <1>0, <1>3 DEF EndChangeMode, Continue, ExactInv
<1>4. CASE Calculate(l)
  BY <1>0, <1>4 DEF Calculate, ExactInv
<1>5. CASE BeginAlgorithm(l)
  BY <1>0, <1>5 DEF BeginAlgorithm, ExactInv
<1>6. ASSUME NEW d \in Devices, CheckMeasurement(l, d) PROVE ExactInv(l)'
  BY <1>0, <1>6 DEF CheckMeasurement, ExactInv
<1>7. ASSUME NEW d \in Devices, Get(l, d) PROVE ExactInv(l)'
  BY <1>0, <1>7 DEF Get, ExactInv
<1>8. CASE Skip(l) \/ Actuate(l)
  BY <1>0, <1>8 DEF Skip, Actuate, Return, ExactInv
<1>9. CASE BeginClear(l) \/ EndClear(l)
  BY <1>0, <1>9 DEF BeginClear, EndClear, ExactInv
<1> QED
  BY <1>1, <1>2, <1>3, <1>4, <1>5, <1>6, <1>7, <1>8, <1>9 DEF LoopThread

-----------------------------------------------------------------------------
(* The exact contract is implemented *)

\* Initially.
LEMMA TimelyInit == Init => TimelyInv
<1> SUFFICES ASSUME Init PROVE TimelyInv
  OBVIOUS
<1>1. /\ evrPc = "idle" /\ evrPattern.pulse = 0 /\ Len(log) = 0 /\ ~TimerOn /\ timerQueue = 0
      /\ Len(cQueue) = 0 /\ cPc = "receive"
  BY DEF Init, NoPattern, TimerOn
<1>2. TimerInv
  BY <1>1 DEF TimerInv
<1>3. Updates = {} /\ Coming = {}
  BY <1>1 DEF Updates, Coming
<1>4. UpdatesInv
  BY <1>1, <1>3 DEF UpdatesInv
<1>5. ASSUME NEW l \in Loops PROVE PastInv(l) /\ AnnouncedInv(l) /\ ExactInv(l)
  <2>1. lPc[l] = "receive" /\ Len(lQueue[l]) = 0 /\ lEvent[l].type = "HEARTBEAT"
    BY DEF Init, Event
  <2> QED  BY <1>3, <2>1 DEF PastInv, AnnouncedInv, ExactInv
<1> QED  BY <1>2, <1>4, <1>5 DEF TimelyInv

\* A timely step.
LEMMA TimelyKept ==
  TypeOK /\ TypeOK' /\ PatternsInOrder /\ TimelyInv /\ [TimelyStep]_vars => TimelyInv'
<1> SUFFICES ASSUME TypeOK, TypeOK', PatternsInOrder, TimelyInv, [TimelyStep]_vars
             PROVE  TimelyInv'
  OBVIOUS
<1>1. CASE TimelyStep
  <2>1. TimerInv /\ UpdatesInv
    BY DEF TimelyInv
  <2>2. TimerInv' /\ UpdatesInv'
    BY <1>1, <2>1, TimerStep, UpdatesInvStep
  <2>3. ASSUME NEW l \in Loops PROVE PastInv(l)' /\ AnnouncedInv(l)' /\ ExactInv(l)'
    <3>1. PastInv(l) /\ AnnouncedInv(l) /\ ExactInv(l)
      BY DEF TimelyInv
    <3>2. PastInv(l)' /\ AnnouncedInv(l)'
      BY <1>1, <2>1, <3>1, PastStep, AnnouncedStep
    <3>3. ExactInv(l)'
      BY <1>1, <2>1, <3>1, ExactOther, ExactOwn
    <3> QED  BY <3>2, <3>3
  <2> QED  BY <2>2, <2>3 DEF TimelyInv
<1>2. CASE UNCHANGED vars
  <2>1. TimerInv' /\ Updates' = Updates /\ Coming' = Coming /\ TimerOn' = TimerOn
    BY <1>2 DEF vars, TimelyInv, TimerInv, TimerOn, Updates, Coming
  <2>2. UpdatesInv'
    BY <1>2, <2>1 DEF vars, TimelyInv, UpdatesInv, Sooner, Over
  <2>3. ASSUME NEW l \in Loops PROVE PastInv(l)' /\ AnnouncedInv(l)' /\ ExactInv(l)'
    <3>1. PastInv(l) /\ AnnouncedInv(l) /\ ExactInv(l)
      BY DEF TimelyInv
    <3>2. PastInv(l)'
      BY <1>2, <2>1, <3>1 DEF vars, PastInv, Past, Sooner, Over
    <3>3. AnnouncedInv(l)'
      BY <1>2, <2>1, <3>1 DEF vars, AnnouncedInv, Expects, Announced
    <3>4. ExactInv(l)'
      BY <1>2, <3>1 DEF vars, ExactInv, DevicesOf
    <3> QED  BY <3>2, <3>3, <3>4
  <2> QED  BY <2>1, <2>2, <2>3 DEF TimelyInv
<1> QED  BY <1>1, <1>2

\* With TimelySpec the timer ends for each pulse after it was saved, devices are
\* read in the order of pulses, and a loop whose devices are read for a later
\* pattern has that pattern's PATTERN_EVENT in its queue (MeasurementCollector::update
\* against LoopThread::processPatternEvent).
THEOREM TimelyCorrect == TimelySpec => [](TypeOK /\ PatternsInOrder /\ TimelyInv)
<1> DEFINE Inv == TypeOK /\ PatternsInOrder /\ TimelyInv
<1>1. Init => Inv
  BY InitType, PatternsInit, TimelyInit
<1>2. Inv /\ [TimelyStep]_vars => Inv'
  <2>1. [TimelyStep]_vars => [Next]_vars
    BY DEF TimelyStep
  <2> QED  BY <2>1, TypeStep, PatternsStep, TimelyKept
<1> QED  BY <1>1, <1>2, PTL DEF TimelySpec, TimelyStep

\* The pending-events check of Loop::calculate is enough when timers are punctual and
\* queues have room: the actuators are set from data of the pulse calculated alone,
\* however late the CollectorThread or a LoopThread is (ImplementsExactContract of
\* the runs).
THEOREM ExactContractImplemented == TimelySpec => ImplementsExactContract
<1>1. Init => Contract!Init
  BY DEF Init, Contract!Init
<1>2. TypeOK /\ PatternsInOrder /\ TimelyInv /\ [TimelyStep]_vars
        => [Contract!ExactNext]_(Contract!vars)
  <2> SUFFICES ASSUME TypeOK, PatternsInOrder, TimelyInv, [TimelyStep]_vars
               PROVE  [Contract!ExactNext]_(Contract!vars)
    OBVIOUS
  <2>1. ASSUME NEW l \in Loops, Actuate(l)
        PROVE  Contract!Actuate(l, lUsed[l]) /\ lUsed[l] \in SUBSET {matched[l]}
    <3>1. lPc[l] = "algorithm" /\ lQueue[l] = <<>>
      BY <2>1 DEF Actuate
    <3>2. lUsed[l] \subseteq {lPattern[l].pulse}
      BY <3>1 DEF TimelyInv, ExactInv
    <3>3. matched[l] = lPattern[l].pulse
      BY <3>1 DEF PatternsInOrder, CalculationInv
    <3> QED  BY <2>1, <3>2, <3>3, ActuateActuates
  <2>2. [Next]_vars
    BY DEF TimelyStep
  <2> QED  BY <2>1, <2>2, ContractSteps, CalculateMatches DEF Contract!ExactNext
<1> QED
  BY <1>1, <1>2, TimelyCorrect, PTL
  DEF TimelySpec, TimelyStep, ImplementsExactContract, Contract!ExactSpec

\* A timely loop sets no actuator from data that its buffers have left behind: the
\* clear() of changeMode, and nothing else, is what makes Loop::calculate do it
\* (ActuatedFromLatest of the runs, which that clear() violates).
THEOREM LatestActuated == TimelySpec => ActuatedFromLatest
<1> DEFINE Latest == \A l \in Loops : actuated'[l] # actuated[l] =>
                       \A d \in DevicesOf(l) : buffer[d].pulse <= actuated'[l].pulse
<1>1. TypeOK /\ PatternsInOrder /\ TimelyInv /\ [TimelyStep]_vars => [Latest]_vars
  <2> SUFFICES ASSUME TypeOK, PatternsInOrder, TimelyInv, [TimelyStep]_vars,
                      NEW l \in Loops, actuated'[l] # actuated[l], NEW d \in DevicesOf(l)
               PROVE  buffer[d].pulse <= actuated'[l].pulse
    OBVIOUS
  <2>1. [Next]_vars /\ actuated' # actuated
    BY DEF TimelyStep
  <2>2. PICK m \in Loops : Actuate(m)
    BY <2>1, ContractSteps DEF Contract!Fiducial, Contract!vars, Calculate
  <2>3. /\ lPc[m] = "algorithm" /\ lQueue[m] = <<>>
        /\ actuated' = [actuated EXCEPT ![m] =
             [pulse |-> lPattern[m].pulse, data |-> lUsed[m], count |-> @.count + 1]]
    BY <2>2 DEF Actuate
  <2>4. m = l /\ actuated'[l].pulse = lPattern[l].pulse
    BY <2>3 DEF TypeOK, HistoryTypeOK
  <2>5. buffer[d].pulse = lPattern[l].pulse /\ lPattern[l].pulse \in Nat
    BY <2>3, <2>4 DEF TimelyInv, ExactInv, TypeOK, LoopTypeOK, Patterns
  <2> QED  BY <2>4, <2>5
<1>2. Init /\ [][TimelyStep]_vars => [](TypeOK /\ PatternsInOrder /\ TimelyInv)
  BY TimelyCorrect DEF TimelySpec, TimelyStep
<1> QED  BY <1>1, <1>2, PTL DEF TimelySpec, TimelyStep, ActuatedFromLatest

=============================================================================
