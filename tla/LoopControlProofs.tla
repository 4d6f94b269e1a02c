-------------------------- MODULE LoopControlProofs --------------------------
(***************************************************************************)
(* Proofs about LoopControl, for every set of loops and masks, any POIs    *)
(* and every bound.                                                        *)
(***************************************************************************)
EXTENDS LoopControl, TLAPS

Feedbacks == [measurements : BOOLEAN, actuators : BOOLEAN]

-----------------------------------------------------------------------------
(* The helpers *)

\* The POIs of a loop are numbered from one, and there is at least one.
LEMMA PoisNumbered ==
  ASSUME NEW l \in Loops
  PROVE  /\ Pois[l] \in Seq(Masks)
         /\ Len(Pois[l]) \in Nat \ {0}
         /\ DOMAIN Pois[l] = 1 .. Len(Pois[l])
<1>1. Pois[l] \in Seq(Masks) /\ Pois[l] # <<>>
  BY ControlAssumption
<1> QED  BY <1>1

\* POIs belong to one loop.
LEMMA PoisDisjoint ==
  ASSUME NEW l \in Loops, NEW k \in Loops, k # l
  PROVE  PoisOf(k) \cap PoisOf(l) = {}
  BY DEF PoisOf

LEMMA PoisInAll ==
  ASSUME NEW l \in Loops
  PROVE  /\ PoisOf(l) \subseteq AllPois
         /\ \A i \in DOMAIN Pois[l] : /\ <<l, i>> \in PoisOf(l)
                                      /\ Upto(l, i) \subseteq PoisOf(l)
                                      /\ Upto(l, i - 1) \subseteq PoisOf(l)
<1>1. PoisOf(l) \subseteq AllPois
  BY DEF AllPois
<1>2. ASSUME NEW i \in DOMAIN Pois[l]
      PROVE  /\ <<l, i>> \in PoisOf(l)
             /\ Upto(l, i) \subseteq PoisOf(l)
             /\ Upto(l, i - 1) \subseteq PoisOf(l)
  <2>1. /\ i \in 1 .. Len(Pois[l]) /\ Len(Pois[l]) \in Nat
        /\ DOMAIN Pois[l] = 1 .. Len(Pois[l])
    BY <1>2, PoisNumbered
  <2>2. 1 .. i \subseteq DOMAIN Pois[l] /\ 1 .. i - 1 \subseteq DOMAIN Pois[l]
    BY <2>1
  <2> QED  BY <2>2 DEF PoisOf, Upto
<1> QED  BY <1>1, <1>2

\* What setting the FBCK PVs of a loop's devices does: no others change.  If it
\* fails those of the measurements stay as they are, and if it succeeds with an
\* algorithm and connected devices they are as requested.
FeedbackEffect(l, isConnected, alg, measurements, ok) ==
  /\ feedback' \in [Loops -> Feedbacks]
  /\ crashed' \in BOOLEAN /\ failures' \in Nat
  /\ \A k \in Loops : k # l => feedback'[k] = feedback[k]
  /\ ~ok => feedback'[l].measurements = feedback[l].measurements
  /\ ok /\ isConnected /\ alg # "none" => feedback'[l].measurements = measurements

LEMMA FeedbackSet ==
  ASSUME TypeOK, NEW l \in Loops, NEW isConnected \in BOOLEAN, NEW alg,
         NEW m \in BOOLEAN, NEW a \in BOOLEAN, NEW ok \in BOOLEAN,
         SetFeedback(l, isConnected, alg, m, a, ok)
  PROVE  FeedbackEffect(l, isConnected, alg, m, ok)
<1>1. feedback \in [Loops -> Feedbacks] /\ crashed \in BOOLEAN /\ failures \in Nat
  BY DEF TypeOK, Feedbacks
<1>2. crashed' \in BOOLEAN /\ failures' \in Nat
  <2>1. crashed' = crashed \/ crashed' = TRUE
    BY DEF SetFeedback
  <2>2. failures' = failures \/ failures' = failures + 1
    BY DEF SetFeedback, Succeed, Fail
  <2>3. crashed' \in BOOLEAN
    BY <1>1, <2>1, Zenon
  <2> QED  BY <1>1, <2>2, <2>3
<1>3. CASE feedback' = feedback /\ ~(ok /\ isConnected /\ alg # "none")
  BY <1>1, <1>2, <1>3 DEF FeedbackEffect
<1>4. ASSUME NEW fb \in Feedbacks,
             feedback' = [feedback EXCEPT ![l] = fb],
             \/ ok /\ fb = [measurements |-> m, actuators |-> a]
             \/ ~ok /\ fb = feedback[l]
             \/ ~ok /\ fb = [feedback[l] EXCEPT !.actuators = a]
      PROVE  /\ feedback' \in [Loops -> Feedbacks]
             /\ \A k \in Loops : k # l => feedback'[k] = feedback[k]
             /\ ~ok => feedback'[l].measurements = feedback[l].measurements
             /\ ok => feedback'[l].measurements = m
  <2>1. feedback' \in [Loops -> Feedbacks] /\ feedback'[l] = fb
    BY <1>1, <1>4
  <2>2. \A k \in Loops : k # l => feedback'[k] = feedback[k]
    BY <1>1, <1>4
  <2>3. fb.measurements = IF ok THEN m ELSE feedback[l].measurements
    BY <1>1, <1>4 DEF Feedbacks
  <2> QED  BY <2>1, <2>2, <2>3
<1>5. \/ feedback' = feedback /\ ~(ok /\ isConnected /\ alg # "none")
      \/ \E fb \in Feedbacks :
           /\ feedback' = [feedback EXCEPT ![l] = fb]
           /\ \/ ok /\ fb = [measurements |-> m, actuators |-> a]
              \/ ~ok /\ fb = feedback[l]
              \/ ~ok /\ fb = [feedback[l] EXCEPT !.actuators = a]
  BY DEF SetFeedback, Feedbacks
<1> QED  BY <1>2, <1>3, <1>4, <1>5 DEF FeedbackEffect

\* LoopThread::changeMode likewise, and it assigns a mode.
LEMMA ModeChanged ==
  ASSUME TypeOK, NEW l \in Loops, NEW req \in Requests, NEW isConnected \in BOOLEAN,
         NEW alg, NEW ok \in BOOLEAN, ChangeMode(l, req, isConnected, alg, ok)
  PROVE  FeedbackEffect(l, isConnected, alg, req.state, ok) /\ mode' \in [Loops -> BOOLEAN]
<1>1. req.state \in BOOLEAN /\ req.mode \in BOOLEAN
  BY DEF Requests
<1>2. /\ feedback \in [Loops -> Feedbacks] /\ crashed \in BOOLEAN /\ failures \in Nat
      /\ mode \in [Loops -> BOOLEAN]
  BY DEF TypeOK, Feedbacks
<1>3. CASE ~ok /\ Fail /\ UNCHANGED <<mode, feedback, crashed>>
  <2>1. failures' \in Nat
    BY <1>2, <1>3 DEF Fail
  <2> QED  BY <1>2, <1>3, <2>1 DEF FeedbackEffect
<1>4. CASE /\ mode' = [mode EXCEPT ![l] = req.mode]
           /\ SetFeedback(l, isConnected, alg, req.state, req.state /\ req.mode, ok)
  <2>1. (req.state /\ req.mode) \in BOOLEAN
    OBVIOUS
  <2>2. mode' \in [Loops -> BOOLEAN]
    BY <1>1, <1>2, <1>4
  <2> QED  BY <1>1, <1>4, <2>1, <2>2, FeedbackSet
<1> QED  BY <1>3, <1>4 DEF ChangeMode

-----------------------------------------------------------------------------
(* Types *)

USE DEF pvVars, threadVars, lockVars, registryVars, deviceVars

LEMMA InitType == Init => TypeOK
<1> SUFFICES ASSUME Init PROVE TypeOK
  OBVIOUS
<1>1. /\ statePv \in [Loops -> BOOLEAN] /\ modePv \in [Loops -> BOOLEAN]
      /\ request \in [Loops -> Requests] /\ seen \in [Loops -> Requests]
      /\ ready \in [Loops -> BOOLEAN] /\ configured \in [Loops -> BOOLEAN]
      /\ mode \in [Loops -> BOOLEAN]
      /\ algorithm \in [Loops -> {"none", "alive", "deleted"}]
      /\ pc \in [Loops -> Pcs]
  BY DEF Init, Requests, Pcs
<1>2. /\ pmLock \in Loops \cup {Free} /\ mcLock \in Loops \cup {Free, Collector}
      /\ receivers \in [Masks -> SUBSET Loops] /\ listeners \subseteq Loops
      /\ selected \subseteq AllPois /\ connected \subseteq AllPois /\ collected \subseteq AllPois
      /\ feedback \in [Loops -> Feedbacks]
      /\ crashed \in BOOLEAN /\ requests \in Nat /\ failures \in Nat
  BY DEF Init, FbckOff, Feedbacks
<1> QED  BY <1>1, <1>2 DEF TypeOK, Feedbacks

\* The end of checkMode.
LEMMA ReturnType ==
  ASSUME TypeOK, NEW l \in Loops, NEW req \in Requests, NEW ok \in BOOLEAN,
         Return(l, req, ok)
  PROVE  seen' \in [Loops -> Requests]
  BY DEF TypeOK, Return

LEMMA ReconfiguredType ==
  ASSUME TypeOK, NEW l \in Loops, NEW ok \in BOOLEAN, Reconfigured(l, ok)
  PROVE  /\ seen' \in [Loops -> Requests] /\ ready' \in [Loops -> BOOLEAN]
         /\ pc' \in [Loops -> Pcs]
<1>1. request[l] \in Requests
  BY DEF TypeOK
<1>2. seen' \in [Loops -> Requests]
  BY <1>1, ReturnType DEF Reconfigured
<1>3. ready' \in [Loops -> BOOLEAN] /\ pc' \in [Loops -> Pcs]
  BY DEF TypeOK, Reconfigured, Pcs
<1> QED  BY <1>2, <1>3

\* Operators.
LEMMA OperatorType ==
  ASSUME TypeOK, NEW l \in Loops, SetState(l) \/ SetMode(l)
  PROVE  TypeOK'
<1>1. CASE SetState(l)
  BY <1>1 DEF SetState, TypeOK
<1>2. CASE SetMode(l)
  BY <1>2 DEF SetMode, TypeOK
<1> QED  BY <1>1, <1>2

LEMMA CheckModeType ==
  ASSUME TypeOK, NEW l \in Loops, CheckMode(l)
  PROVE  TypeOK'
<1> DEFINE req == [state |-> statePv[l], mode |-> modePv[l]]
<1>1. req \in Requests
  BY DEF TypeOK, Requests
<1>2. /\ request' = [request EXCEPT ![l] = req]
      /\ seen' = seen \/ Return(l, req, TRUE)
      /\ ready' = ready \/ ready' = [ready EXCEPT ![l] = TRUE]
      /\ pc' = pc \/ \E p \in Pcs : pc' = [pc EXCEPT ![l] = p]
      /\ UNCHANGED <<pvVars, configured, mode, algorithm, lockVars, registryVars,
                     deviceVars, crashed, failures>>
  BY DEF CheckMode, Pcs
<1> HIDE DEF req
<1>3. request' \in [Loops -> Requests] /\ seen' \in [Loops -> Requests]
  BY <1>1, <1>2, ReturnType DEF TypeOK
<1>4. ready' \in [Loops -> BOOLEAN]
  <2>1. ready \in [Loops -> BOOLEAN]
    BY DEF TypeOK
  <2> QED  BY <1>2, <2>1
<1>5. pc' \in [Loops -> Pcs]
  <2>1. pc \in [Loops -> Pcs]
    BY DEF TypeOK
  <2> QED  BY <1>2, <2>1
<1> QED  BY <1>2, <1>3, <1>4, <1>5 DEF TypeOK

\* Steps that change neither the registries nor the devices.
LEMMA LocalType ==
  ASSUME TypeOK, NEW l \in Loops,
         LockPatternManager(l) \/ Configure(l) \/ NotInstalled(l) \/ Mode(l)
  PROVE  TypeOK'
<1>1. CASE LockPatternManager(l)
  BY <1>1 DEF LockPatternManager, TypeOK, Pcs
<1>2. CASE Configure(l)
  <2>1. algorithm' = algorithm \/ \E a \in {"none", "deleted"} :
                                   algorithm' = [algorithm EXCEPT ![l] = a]
    BY <1>2 DEF Configure, Deleted
  <2>2. \E p \in Pcs : pc' = [pc EXCEPT ![l] = p]
    BY <1>2 DEF Configure, Pcs
  <2>3. failures' = failures \/ failures' = failures + 1
    BY <1>2 DEF Configure, Succeed, Fail
  <2>4. UNCHANGED <<pvVars, request, seen, ready, configured, mode, lockVars,
                    registryVars, deviceVars, crashed>>
    BY <1>2 DEF Configure
  <2> QED  BY <2>1, <2>2, <2>3, <2>4 DEF TypeOK
<1>3. CASE NotInstalled(l)
  <2>1. failures' \in Nat
    BY <1>3 DEF NotInstalled, Fail, TypeOK
  <2>2. Reconfigured(l, FALSE)
    BY <1>3 DEF NotInstalled
  <2> QED  BY <1>3, <2>1, <2>2, ReconfiguredType DEF NotInstalled, TypeOK
<1>4. CASE Mode(l)
  <2>1. PICK ok \in BOOLEAN :
          /\ ChangeMode(l, request[l], First(l) \in connected, algorithm[l], ok)
          /\ Return(l, request[l], ok)
    BY <1>4 DEF Mode
  <2>2. request[l] \in Requests /\ (First(l) \in connected) \in BOOLEAN
    BY DEF TypeOK
  <2>3. /\ FeedbackEffect(l, First(l) \in connected, algorithm[l], request[l].state, ok)
        /\ mode' \in [Loops -> BOOLEAN]
    BY <2>1, <2>2, ModeChanged
  <2>4. seen' \in [Loops -> Requests]
    BY <2>1, <2>2, ReturnType
  <2>5. pc' \in [Loops -> Pcs]
    BY <1>4 DEF Mode, TypeOK, Pcs
  <2> QED  BY <1>4, <2>3, <2>4, <2>5 DEF Mode, TypeOK, FeedbackEffect, Feedbacks
<1> QED  BY <1>1, <1>2, <1>3, <1>4

\* LoopThread::disconnectDevices.
LEMMA DisconnectType ==
  ASSUME TypeOK, NEW l \in Loops, Disconnect(l)
  PROVE  /\ connected' \subseteq AllPois /\ collected' \subseteq AllPois
         /\ feedback' \in [Loops -> Feedbacks]
         /\ crashed' \in BOOLEAN /\ failures' \in Nat
<1>1. PICK ok \in BOOLEAN :
        /\ SetFeedback(l, First(l) \in connected, algorithm[l], FALSE, FALSE, ok)
        /\ LET gone == IF ok THEN PoisOf(l) \cap selected ELSE {} IN
           /\ connected' = connected \ gone
           /\ collected' = collected \ gone
  BY DEF Disconnect
<1>2. (First(l) \in connected) \in BOOLEAN
  OBVIOUS
<1>3. FeedbackEffect(l, First(l) \in connected, algorithm[l], FALSE, ok)
  BY <1>1, <1>2, FeedbackSet
<1>4. connected' \subseteq AllPois /\ collected' \subseteq AllPois
  BY <1>1 DEF TypeOK
<1> QED  BY <1>3, <1>4 DEF FeedbackEffect

\* The steps to OFF, and the last one of a failed configuration.
LEMMA OffType ==
  ASSUME TypeOK, NEW l \in Loops,
         \/ DisconnectDevices(l) \/ RemoveListener(l) \/ RemovePatterns(l)
         \/ UndoConfigure(l)
  PROVE  TypeOK'
<1>1. CASE DisconnectDevices(l)
  <2>1. Disconnect(l) /\ pc' \in [Loops -> Pcs]
    BY <1>1 DEF DisconnectDevices, TypeOK, Pcs
  <2> QED  BY <1>1, <2>1, DisconnectType DEF DisconnectDevices, TypeOK, Feedbacks
<1>2. CASE RemoveListener(l)
  BY <1>2 DEF RemoveListener, TypeOK, Pcs
<1>3. CASE RemovePatterns(l)
  <2>1. receivers' \in [Masks -> SUBSET Loops]
    BY <1>3 DEF RemovePatterns, WithoutReceiver, TypeOK
  <2>2. configured' \in [Loops -> BOOLEAN]
    BY <1>3 DEF RemovePatterns, TypeOK
  <2>3. Reconfigured(l, TRUE)
    BY <1>3 DEF RemovePatterns
  <2> QED  BY <1>3, <2>1, <2>2, <2>3, ReconfiguredType DEF RemovePatterns, TypeOK
<1>4. CASE UndoConfigure(l)
  <2>1. Disconnect(l) /\ Reconfigured(l, FALSE)
    BY <1>4 DEF UndoConfigure
  <2> QED
    BY <1>4, <2>1, DisconnectType, ReconfiguredType DEF UndoConfigure, TypeOK, Feedbacks
<1> QED  BY <1>1, <1>2, <1>3, <1>4

LEMMA RegisteredType ==
  ASSUME TypeOK, NEW l \in Loops, NEW pois, Registered(l, pois)
  PROVE  receivers' \in [Masks -> SUBSET Loops]
  BY DEF TypeOK, Registered

\* The critical section of a start, with its failures.
LEMMA RegisterType ==
  ASSUME TypeOK, NEW l \in Loops, Register(l) \/ RegisterFails(l)
  PROVE  TypeOK'
<1>1. CASE RegisterFails(l)
  <2>1. PICK i \in DOMAIN Pois[l], ofDevice \in BOOLEAN :
          LET done == IF ofDevice THEN i - 1 ELSE i IN
          /\ selected' = (selected \ {<<l, i>>}) \cup Upto(l, done)
          /\ connected' = (connected \ {<<l, i>>}) \cup Upto(l, done)
          /\ collected' = collected \cup Upto(l, done)
          /\ Registered(l, 1 .. i - 1)
          /\ algorithm' = [algorithm EXCEPT ![l] = IF done = 0 THEN @ ELSE "alive"]
    BY <1>1 DEF RegisterFails
  <2>2. Upto(l, i) \subseteq AllPois /\ Upto(l, i - 1) \subseteq AllPois
    BY PoisInAll
  <2>3. selected' \subseteq AllPois /\ connected' \subseteq AllPois /\ collected' \subseteq AllPois
    BY <2>1, <2>2 DEF TypeOK
  <2>4. receivers' \in [Masks -> SUBSET Loops]
    BY <2>1, RegisteredType
  <2>5. algorithm' = algorithm \/ algorithm' = [algorithm EXCEPT ![l] = "alive"]
    BY <2>1 DEF TypeOK
  <2>6. algorithm' \in [Loops -> {"none", "alive", "deleted"}]
    BY <2>5 DEF TypeOK
  <2>7. Reconfigured(l, FALSE)
    BY <1>1 DEF RegisterFails
  <2>8. failures' \in Nat
    BY <1>1 DEF RegisterFails, Fail, TypeOK
  <2>9. /\ pmLock' = Free
        /\ UNCHANGED <<pvVars, request, configured, mode, mcLock, listeners, feedback, crashed>>
    BY <1>1 DEF RegisterFails
  <2> QED
    BY <2>3, <2>4, <2>6, <2>7, <2>8, <2>9, ReconfiguredType DEF TypeOK
<1>2. CASE Register(l)
  <2>1. PICK ok \in BOOLEAN :
          /\ ChangeMode(l, request[l], TRUE, "alive", ok)
          /\ selected' = selected \cup PoisOf(l)
          /\ connected' = IF ok THEN connected \cup PoisOf(l) ELSE connected \ PoisOf(l)
          /\ collected' = IF ok THEN collected \cup PoisOf(l) ELSE collected \ PoisOf(l)
          /\ configured' = [configured EXCEPT ![l] = ok]
          /\ listeners' = IF ok THEN listeners \cup {l} ELSE listeners
          /\ Reconfigured(l, ok)
    BY <1>2 DEF Register
  <2>2. request[l] \in Requests
    BY DEF TypeOK
  <2>3. FeedbackEffect(l, TRUE, "alive", request[l].state, ok) /\ mode' \in [Loops -> BOOLEAN]
    BY <2>1, <2>2, ModeChanged
  <2>4. selected' \subseteq AllPois /\ connected' \subseteq AllPois /\ collected' \subseteq AllPois
    BY <2>1, PoisInAll DEF TypeOK
  <2>5. configured' \in [Loops -> BOOLEAN] /\ listeners' \subseteq Loops
    BY <2>1 DEF TypeOK
  <2>6. algorithm' \in [Loops -> {"none", "alive", "deleted"}]
    BY <1>2 DEF Register, TypeOK
  <2>7. receivers' \in [Masks -> SUBSET Loops]
    BY <1>2, RegisteredType DEF Register
  <2>8. /\ seen' \in [Loops -> Requests] /\ ready' \in [Loops -> BOOLEAN]
        /\ pc' \in [Loops -> Pcs]
    BY <2>1, ReconfiguredType
  <2>9. pmLock' = Free /\ UNCHANGED <<pvVars, request, mcLock>>
    BY <1>2 DEF Register
  <2> QED
    BY <2>3, <2>4, <2>5, <2>6, <2>7, <2>8, <2>9 DEF TypeOK, FeedbackEffect, Feedbacks
<1> QED  BY <1>1, <1>2

\* Type correctness of LoopControl (TypeOK of run control): devices are those of
\* existing POIs, receivers are LoopThreads, whatever fails.
THEOREM TypeCorrect == Spec => []TypeOK
<1>1. TypeOK /\ [Next]_vars => TypeOK'
  <2> SUFFICES ASSUME TypeOK, [Next]_vars PROVE TypeOK'
    OBVIOUS
  <2>1. CASE UNCHANGED vars
    BY <2>1 DEF vars, TypeOK
  <2>2. ASSUME NEW l \in Loops, LoopThread(l)
        PROVE  TypeOK'
    BY <2>2, CheckModeType, LocalType, OffType, RegisterType DEF LoopThread
  <2>3. CASE BeginUpdate \/ EndUpdate
    BY <2>3 DEF BeginUpdate, EndUpdate, TypeOK
  <2> QED  BY <2>1, <2>2, <2>3, OperatorType DEF Next
<1> QED  BY <1>1, InitType, PTL DEF Spec

-----------------------------------------------------------------------------
(* Configured loops are served *)

OnPcs == {"configure", "undo", "disconnectUndo", "on", "register"}

OffPcs == {"off", "disconnect", "removeListener", "removePatterns"}

\* What a LoopThread was asked for is what it is about to do, and a loop is
\* configured when it was reported ON by a transition that succeeded.
StateInv(l) ==
  /\ configured[l] <=> ready[l] /\ seen[l].state
  /\ pc[l] \in OnPcs => request[l].state /\ ~configured[l]
  /\ pc[l] \in OffPcs => ~request[l].state /\ configured[l]
  /\ pc[l] = "mode" => ready[l] /\ (request[l].state <=> seen[l].state)

\* A configured loop is served until its devices are disconnected, and is a
\* listener until that is removed.
ServedInv(l) ==
  /\ configured[l] /\ pc[l] \in {"idle", "mode", "off"} => Served(l)
  /\ ~configured[l] \/ pc[l] = "removePatterns" => l \notin listeners

ControlInv == \A l \in Loops : StateInv(l) /\ ServedInv(l)

\* A step that leaves these of loop k alone.
Untouched(k) ==
  /\ request'[k] = request[k] /\ seen'[k] = seen[k] /\ ready'[k] = ready[k]
  /\ configured'[k] = configured[k] /\ algorithm'[k] = algorithm[k]
  /\ mode'[k] = mode[k]
  /\ pc'[k] = pc[k]
  /\ feedback'[k] = feedback[k]
  /\ PoisOf(k) \cap selected \subseteq selected'
  /\ PoisOf(k) \cap connected' = PoisOf(k) \cap connected
  /\ PoisOf(k) \cap collected' = PoisOf(k) \cap collected
  /\ \A m \in Masks : k \in receivers'[m] <=> k \in receivers[m]
  /\ k \in listeners' <=> k \in listeners

LEMMA UntouchedServed ==
  ASSUME NEW k \in Loops, Untouched(k), Served(k)
  PROVE  Served(k)'
<1>1. PoisOf(k) \subseteq selected' \cap connected' \cap collected'
  BY DEF Served, Untouched
<1>2. \A i \in DOMAIN Pois[k] : k \in receivers'[Pois[k][i]]
  BY PoisNumbered DEF Served, Untouched
<1> QED  BY <1>1, <1>2 DEF Served, Untouched, PoisOf

LEMMA UntouchedInv ==
  ASSUME NEW k \in Loops, StateInv(k), ServedInv(k), Untouched(k)
  PROVE  StateInv(k)' /\ ServedInv(k)'
<1>1. StateInv(k)'
  BY DEF StateInv, Untouched
<1>2. ServedInv(k)'
  BY UntouchedServed DEF ServedInv, Untouched
<1> QED  BY <1>1, <1>2

\* Disconnecting the devices of one loop leaves the others connected.
LEMMA DisconnectOthers ==
  ASSUME TypeOK, NEW l \in Loops, NEW k \in Loops, k # l, Disconnect(l)
  PROVE  /\ feedback'[k] = feedback[k]
         /\ PoisOf(k) \cap connected' = PoisOf(k) \cap connected
         /\ PoisOf(k) \cap collected' = PoisOf(k) \cap collected
<1>1. PICK ok \in BOOLEAN :
        /\ SetFeedback(l, First(l) \in connected, algorithm[l], FALSE, FALSE, ok)
        /\ LET gone == IF ok THEN PoisOf(l) \cap selected ELSE {} IN
           /\ connected' = connected \ gone
           /\ collected' = collected \ gone
  BY DEF Disconnect
<1>2. FeedbackEffect(l, First(l) \in connected, algorithm[l], FALSE, ok)
  <2>1. (First(l) \in connected) \in BOOLEAN
    OBVIOUS
  <2> QED  BY <1>1, <2>1, FeedbackSet
<1>3. feedback'[k] = feedback[k]
  BY <1>2 DEF FeedbackEffect
<1>4. /\ PoisOf(k) \cap connected' = PoisOf(k) \cap connected
      /\ PoisOf(k) \cap collected' = PoisOf(k) \cap collected
  BY <1>1, PoisDisjoint
<1> QED  BY <1>3, <1>4

LEMMA RegisteredReceivers ==
  ASSUME TypeOK, NEW l \in Loops, NEW pois, Registered(l, pois)
  PROVE  /\ \A m \in Masks, k \in Loops : k # l => (k \in receivers'[m] <=> k \in receivers[m])
         /\ \A m \in Masks : m \in MasksOf(l, pois) => l \in receivers'[m]
  BY DEF TypeOK, Registered

\* No step of one LoopThread touches another loop, although patterns, the
\* MeasurementCollector and the PatternManager are shared.
LEMMA OthersUntouched ==
  ASSUME TypeOK, NEW l \in Loops, NEW k \in Loops, k # l, LoopThread(l)
  PROVE  Untouched(k)
<1>1. CASE CheckMode(l) \/ LockPatternManager(l) \/ Configure(l) \/ NotInstalled(l)
  BY <1>1 DEF CheckMode, LockPatternManager, Configure, NotInstalled,
                  Reconfigured, Return, TypeOK, Untouched
<1>2. CASE Mode(l)
  <2>1. PICK ok \in BOOLEAN :
          /\ ChangeMode(l, request[l], First(l) \in connected, algorithm[l], ok)
          /\ Return(l, request[l], ok)
    BY <1>2 DEF Mode
  <2>2. FeedbackEffect(l, First(l) \in connected, algorithm[l], request[l].state, ok)
    <3>1. request[l] \in Requests /\ (First(l) \in connected) \in BOOLEAN
      BY DEF TypeOK
    <3> QED  BY <2>1, <3>1, ModeChanged
  <2>3. feedback'[k] = feedback[k]
    BY <2>2 DEF FeedbackEffect
  <2>4. mode'[k] = mode[k]
    BY <2>1 DEF ChangeMode, TypeOK
  <2> QED  BY <1>2, <2>1, <2>3, <2>4 DEF Mode, Return, TypeOK, Untouched
<1>3. CASE DisconnectDevices(l)
  BY <1>3, DisconnectOthers DEF DisconnectDevices, TypeOK, Untouched
<1>4. CASE UndoConfigure(l)
  BY <1>4, DisconnectOthers DEF UndoConfigure, Reconfigured, Return, TypeOK, Untouched
<1>5. CASE RemoveListener(l)
  BY <1>5 DEF RemoveListener, TypeOK, Untouched
<1>6. CASE RemovePatterns(l)
  BY <1>6 DEF RemovePatterns, WithoutReceiver, Reconfigured, Return, TypeOK, Untouched
<1>7. CASE RegisterFails(l)
  <2>1. PICK i \in DOMAIN Pois[l], ofDevice \in BOOLEAN :
          LET done == IF ofDevice THEN i - 1 ELSE i IN
          /\ selected' = (selected \ {<<l, i>>}) \cup Upto(l, done)
          /\ connected' = (connected \ {<<l, i>>}) \cup Upto(l, done)
          /\ collected' = collected \cup Upto(l, done)
          /\ Registered(l, 1 .. i - 1)
          /\ algorithm' = [algorithm EXCEPT ![l] = IF done = 0 THEN @ ELSE "alive"]
    BY <1>7 DEF RegisterFails
  <2>2. <<l, i>> \notin PoisOf(k)
    BY DEF PoisOf
  <2>3. /\ PoisOf(k) \cap selected \subseteq selected'
        /\ PoisOf(k) \cap connected' = PoisOf(k) \cap connected
        /\ PoisOf(k) \cap collected' = PoisOf(k) \cap collected
    BY <2>1, <2>2, PoisDisjoint, PoisInAll
  <2>4. algorithm'[k] = algorithm[k]
    BY <2>1 DEF TypeOK
  <2>5. \A m \in Masks : k \in receivers'[m] <=> k \in receivers[m]
    BY <2>1, RegisteredReceivers
  <2> QED  BY <1>7, <2>3, <2>4, <2>5 DEF RegisterFails, Reconfigured, Return, TypeOK, Untouched
<1>8. CASE Register(l)
  <2>1. PICK ok \in BOOLEAN :
          /\ ChangeMode(l, request[l], TRUE, "alive", ok)
          /\ selected' = selected \cup PoisOf(l)
          /\ connected' = IF ok THEN connected \cup PoisOf(l) ELSE connected \ PoisOf(l)
          /\ collected' = IF ok THEN collected \cup PoisOf(l) ELSE collected \ PoisOf(l)
          /\ configured' = [configured EXCEPT ![l] = ok]
          /\ listeners' = IF ok THEN listeners \cup {l} ELSE listeners
          /\ Reconfigured(l, ok)
    BY <1>8 DEF Register
  <2>2. FeedbackEffect(l, TRUE, "alive", request[l].state, ok)
    <3>1. request[l] \in Requests
      BY DEF TypeOK
    <3> QED  BY <2>1, <3>1, ModeChanged
  <2>3. feedback'[k] = feedback[k]
    BY <2>2 DEF FeedbackEffect
  <2>4. /\ PoisOf(k) \cap selected \subseteq selected'
        /\ PoisOf(k) \cap connected' = PoisOf(k) \cap connected
        /\ PoisOf(k) \cap collected' = PoisOf(k) \cap collected
    BY <2>1, PoisDisjoint
  <2>5. \A m \in Masks : k \in receivers'[m] <=> k \in receivers[m]
    BY <1>8, RegisteredReceivers DEF Register
  <2>6. k \in listeners' <=> k \in listeners
    BY <2>1
  <2>7. mode'[k] = mode[k]
    BY <2>1 DEF ChangeMode, TypeOK
  <2> QED  BY <1>8, <2>1, <2>3, <2>4, <2>5, <2>6, <2>7 DEF Register, Reconfigured, Return, TypeOK, Untouched
<1> QED
  BY <1>1, <1>2, <1>3, <1>4, <1>5, <1>6, <1>7, <1>8 DEF LoopThread

\* A change of MODE keeps a served loop served: the PVs of the measurements stay
\* set, or are set again.
LEMMA ModeServed ==
  ASSUME TypeOK, NEW l \in Loops, StateInv(l), ServedInv(l), Mode(l)
  PROVE  StateInv(l)' /\ ServedInv(l)'
<1>1. PICK ok \in BOOLEAN :
        /\ ChangeMode(l, request[l], First(l) \in connected, algorithm[l], ok)
        /\ Return(l, request[l], ok)
  BY DEF Mode
<1>2. request[l] \in Requests /\ (First(l) \in connected) \in BOOLEAN
  BY DEF TypeOK
<1>3. FeedbackEffect(l, First(l) \in connected, algorithm[l], request[l].state, ok)
  BY <1>1, <1>2, ModeChanged
<1>4. pc[l] = "mode" /\ pc' = [pc EXCEPT ![l] = "idle"]
  BY DEF Mode
<1>5. StateInv(l)'
  BY <1>1, <1>4 DEF Mode, Return, StateInv, TypeOK, OnPcs, OffPcs
<1>6. ASSUME configured[l]
      PROVE  Served(l)'
  <2>1. Served(l) /\ request[l].state
    BY <1>4, <1>6 DEF ServedInv, StateInv
  <2>2. First(l) \in connected /\ algorithm[l] # "none"
    <3>1. 1 \in DOMAIN Pois[l]
      BY PoisNumbered
    <3> QED  BY <2>1, <3>1 DEF Served, First, PoisOf
  <2>3. feedback'[l].measurements
    BY <1>2, <1>3, <2>1, <2>2 DEF FeedbackEffect, Served
  <2> QED  BY <2>1, <2>3 DEF Mode, Served, PoisOf
<1>7. ServedInv(l)'
  BY <1>4, <1>6 DEF ServedInv, Mode
<1> QED  BY <1>5, <1>7

\* A start that succeeds makes a loop served, one that fails leaves it OFF.
LEMMA RegisterServes ==
  ASSUME TypeOK, NEW l \in Loops, StateInv(l), ServedInv(l), Register(l)
  PROVE  StateInv(l)' /\ ServedInv(l)'
<1>1. PICK ok \in BOOLEAN :
        /\ ChangeMode(l, request[l], TRUE, "alive", ok)
        /\ selected' = selected \cup PoisOf(l)
        /\ connected' = IF ok THEN connected \cup PoisOf(l) ELSE connected \ PoisOf(l)
        /\ collected' = IF ok THEN collected \cup PoisOf(l) ELSE collected \ PoisOf(l)
        /\ configured' = [configured EXCEPT ![l] = ok]
        /\ listeners' = IF ok THEN listeners \cup {l} ELSE listeners
        /\ Reconfigured(l, ok)
  BY DEF Register
<1>2. request[l] \in Requests
  BY DEF TypeOK
<1>3. FeedbackEffect(l, TRUE, "alive", request[l].state, ok)
  BY <1>1, <1>2, ModeChanged
<1>4. pc[l] = "register" /\ request[l].state /\ ~configured[l] /\ request' = request
  BY DEF Register, StateInv, OnPcs
<1>5. pc'[l] = "idle" /\ configured'[l] = ok /\ ready'[l] = ok
  BY <1>1 DEF Reconfigured, TypeOK
<1>6. ok => seen'[l].state
  BY <1>1, <1>4 DEF Reconfigured, Return, TypeOK
<1>7. StateInv(l)'
  BY <1>4, <1>5, <1>6 DEF StateInv, OnPcs, OffPcs
<1>8. ASSUME ok
      PROVE  Served(l)'
  <2>1. PoisOf(l) \subseteq selected' \cap connected' \cap collected'
    BY <1>1, <1>8
  <2>2. \A i \in DOMAIN Pois[l] : l \in receivers'[Pois[l][i]]
    <3>1. \A m \in Masks : m \in MasksOf(l, DOMAIN Pois[l]) => l \in receivers'[m]
      BY RegisteredReceivers DEF Register
    <3> QED  BY <3>1, PoisNumbered DEF MasksOf
  <2>3. l \in listeners' /\ algorithm'[l] = "alive"
    BY <1>1, <1>8 DEF Register, TypeOK
  <2>4. feedback'[l].measurements
    BY <1>3, <1>4, <1>8 DEF FeedbackEffect
  <2> QED  BY <2>1, <2>2, <2>3, <2>4 DEF Served, PoisOf
<1>9. ServedInv(l)'
  BY <1>1, <1>4, <1>5, <1>8 DEF ServedInv
<1> QED  BY <1>7, <1>9

\* The other steps of a LoopThread.
LEMMA OwnServed ==
  ASSUME TypeOK, NEW l \in Loops, StateInv(l), ServedInv(l), LoopThread(l)
  PROVE  StateInv(l)' /\ ServedInv(l)'
<1>1. CASE CheckMode(l)
  <2>1. /\ pc[l] = "idle" /\ configured' = configured
        /\ UNCHANGED <<algorithm, registryVars, deviceVars>>
    BY <1>1 DEF CheckMode
  <2>2. Served(l) => Served(l)'
    BY <2>1 DEF Served, PoisOf
  <2>3. StateInv(l)'
    BY <1>1, <2>1 DEF CheckMode, Return, StateInv, TypeOK, OnPcs, OffPcs
  <2>4. pc'[l] # "removePatterns"
    BY <1>1 DEF CheckMode, TypeOK
  <2> QED  BY <2>1, <2>2, <2>3, <2>4 DEF ServedInv
<1>2. CASE LockPatternManager(l)
  BY <1>2 DEF LockPatternManager, StateInv, ServedInv, TypeOK, OnPcs, OffPcs
<1>3. CASE DisconnectDevices(l)
  BY <1>3 DEF DisconnectDevices, StateInv, ServedInv, TypeOK, OnPcs, OffPcs
<1>4. CASE RemoveListener(l)
  BY <1>4 DEF RemoveListener, StateInv, ServedInv, TypeOK, OnPcs, OffPcs
<1>5. CASE RemovePatterns(l)
  BY <1>5 DEF RemovePatterns, Reconfigured, Return, StateInv, ServedInv, TypeOK, OnPcs, OffPcs
<1>6. CASE Configure(l)
  BY <1>6 DEF Configure, StateInv, ServedInv, TypeOK, OnPcs, OffPcs
<1>7. CASE NotInstalled(l) \/ UndoConfigure(l) \/ RegisterFails(l)
  <2>1. /\ ~configured[l] /\ configured' = configured
        /\ listeners' = listeners /\ request' = request
    BY <1>7 DEF NotInstalled, UndoConfigure, RegisterFails, StateInv, OnPcs
  <2>2. Reconfigured(l, FALSE)
    BY <1>7 DEF NotInstalled, UndoConfigure, RegisterFails
  <2>3. pc'[l] = "idle" /\ ~ready'[l]
    BY <2>2 DEF Reconfigured, TypeOK
  <2> QED  BY <2>1, <2>3 DEF StateInv, ServedInv, OnPcs, OffPcs
<1> QED
  BY <1>1, <1>2, <1>3, <1>4, <1>5, <1>6, <1>7, ModeServed, RegisterServes DEF LoopThread

LEMMA InitInv == Init => ControlInv
<1> SUFFICES ASSUME Init, NEW l \in Loops PROVE StateInv(l) /\ ServedInv(l)
  BY DEF ControlInv
<1> QED  BY DEF Init, StateInv, ServedInv, OnPcs, OffPcs

LEMMA ControlAlways == Spec => [](TypeOK /\ ControlInv)
<1>1. TypeOK /\ ControlInv /\ [Next]_vars => ControlInv'
  <2> SUFFICES ASSUME TypeOK, ControlInv, [Next]_vars, NEW k \in Loops
               PROVE  StateInv(k)' /\ ServedInv(k)'
    BY DEF ControlInv
  <2>1. StateInv(k) /\ ServedInv(k)
    BY DEF ControlInv
  <2>2. CASE UNCHANGED vars
    BY <2>1, <2>2, UntouchedInv DEF vars, Untouched
  <2>3. CASE BeginUpdate \/ EndUpdate
    BY <2>1, <2>3, UntouchedInv DEF BeginUpdate, EndUpdate, Untouched
  <2>4. ASSUME NEW l \in Loops, SetState(l) \/ SetMode(l)
        PROVE  StateInv(k)' /\ ServedInv(k)'
    BY <2>1, <2>4, UntouchedInv DEF SetState, SetMode, Untouched
  <2>5. ASSUME NEW l \in Loops, LoopThread(l)
        PROVE  StateInv(k)' /\ ServedInv(k)'
    BY <2>1, <2>5, UntouchedInv, OthersUntouched, OwnServed
  <2> QED  BY <2>2, <2>3, <2>4, <2>5 DEF Next
<1> QED  BY <1>1, InitInv, TypeCorrect, PTL DEF Spec

\* A configured loop is served, whatever other loops that share its patterns do
\* and whatever failed before (ConfiguredLoopsServed of run control).
THEOREM LoopsServed == Spec => []ConfiguredLoopsServed
<1>1. ControlInv => ConfiguredLoopsServed
  BY DEF ControlInv, StateInv, ServedInv, ConfiguredLoopsServed
<1> QED  BY <1>1, ControlAlways, PTL

-----------------------------------------------------------------------------
(* What is reported is what runs *)

\* FBCK PVs that were written without a failure are as requested; those of devices that
\* are not connected stay.
FeedbackExactly(l, isConnected, alg, m, a, ok) ==
  /\ failures' = 0 => failures = 0
  /\ ~ok => alg = "none" \/ failures' # 0
  /\ ok /\ isConnected => feedback'[l] = [measurements |-> m, actuators |-> a]
  /\ ~isConnected => feedback' = feedback

LEMMA FeedbackExact ==
  ASSUME TypeOK, NEW l \in Loops, NEW isConnected \in BOOLEAN, NEW alg,
         NEW m \in BOOLEAN, NEW a \in BOOLEAN, NEW ok \in BOOLEAN,
         SetFeedback(l, isConnected, alg, m, a, ok)
  PROVE  FeedbackExactly(l, isConnected, alg, m, a, ok)
<1>1. feedback \in [Loops -> Feedbacks] /\ failures \in Nat
  BY DEF TypeOK, Feedbacks
<1>2. failures' = failures \/ failures' = failures + 1
  BY DEF SetFeedback, Succeed, Fail
<1>3. ~ok => alg = "none" \/ failures' = failures + 1
  BY DEF SetFeedback, Fail
<1>4. ~isConnected => feedback' = feedback
  BY DEF SetFeedback
<1>5. ASSUME ok, isConnected
      PROVE  feedback'[l] = [measurements |-> m, actuators |-> a]
  <2>1. feedback' = [feedback EXCEPT ![l] = [measurements |-> m, actuators |-> a]]
    BY <1>5 DEF SetFeedback
  <2> QED  BY <1>1, <2>1
<1> QED  BY <1>1, <1>2, <1>3, <1>4, <1>5 DEF FeedbackExactly

\* A change of mode that fails leaves the FBCK PVs, or assigned the mode before.
ModeExactly(l, req, isConnected, alg, ok) ==
  /\ failures' = 0 => failures = 0
  /\ ~ok => alg = "none" \/ failures' # 0
  /\ mode'[l] = req.mode \/ (~ok /\ mode' = mode /\ feedback' = feedback)
  /\ ok /\ isConnected => feedback'[l] = [measurements |-> req.state,
                                         actuators |-> req.state /\ req.mode]
  /\ ~isConnected => feedback' = feedback

LEMMA ModeExact ==
  ASSUME TypeOK, NEW l \in Loops, NEW req \in Requests, NEW isConnected \in BOOLEAN,
         NEW alg, NEW ok \in BOOLEAN, ChangeMode(l, req, isConnected, alg, ok)
  PROVE  ModeExactly(l, req, isConnected, alg, ok)
<1>1. /\ req.state \in BOOLEAN /\ req.mode \in BOOLEAN
      /\ failures \in Nat /\ mode \in [Loops -> BOOLEAN]
  BY DEF Requests, TypeOK
<1>2. CASE ~ok /\ Fail /\ UNCHANGED <<mode, feedback, crashed>>
  BY <1>1, <1>2 DEF Fail, ModeExactly
<1>3. CASE /\ mode' = [mode EXCEPT ![l] = req.mode]
           /\ SetFeedback(l, isConnected, alg, req.state, req.state /\ req.mode, ok)
  <2>1. (req.state /\ req.mode) \in BOOLEAN
    OBVIOUS
  <2>2. mode'[l] = req.mode
    BY <1>1, <1>3
  <2>3. FeedbackExactly(l, isConnected, alg, req.state, req.state /\ req.mode, ok)
    BY <1>1, <1>3, <2>1, FeedbackExact
  <2> QED  BY <2>2, <2>3 DEF FeedbackExactly, ModeExactly
<1> QED  BY <1>2, <1>3 DEF ChangeMode

Disconnected(l) == PoisOf(l) \cap (connected \cup collected) = {} /\ feedback[l] = FbckOff

\* Through its transitions: a loop ON keeps the FBCK PVs of its mode until they are turned
\* off, one OFF that nothing failed for was released, and is on no way to undo.
ReportsInv(l) ==
  /\ pc[l] \in OnPcs => ~seen[l].state
  /\ pc[l] = "mode" => request[l].mode # seen[l].mode
  /\ pc[l] = "disconnect" => Served(l)
  /\ configured[l] /\ pc[l] \in {"idle", "mode", "off", "disconnect"} /\ mode[l] = seen[l].mode
       => feedback[l] = [measurements |-> TRUE, actuators |-> seen[l].mode]
  /\ ~configured[l] /\ (seen[l].state \/ failures = 0)
       => Released(l) /\ pc[l] \notin {"undo", "disconnectUndo"}
  /\ failures = 0 /\ pc[l] \in {"removeListener", "removePatterns"} => Disconnected(l)

\* Failures are counted.
LEMMA FailuresCounted ==
  ASSUME TypeOK, NEW l \in Loops, LoopThread(l)
  PROVE  failures' = 0 => failures = 0
<1>1. failures \in Nat /\ request[l] \in Requests /\ (First(l) \in connected) \in BOOLEAN
  BY DEF TypeOK
<1>2. CASE Mode(l)
  BY <1>1, <1>2, ModeExact DEF Mode, ModeExactly
<1>3. CASE Register(l)
  <2>1. PICK ok \in BOOLEAN : ChangeMode(l, request[l], TRUE, "alive", ok)
    BY <1>3 DEF Register
  <2> QED  BY <1>1, <2>1, ModeExact DEF ModeExactly
<1>4. CASE DisconnectDevices(l) \/ UndoConfigure(l)
  BY <1>1, <1>4, FeedbackExact DEF DisconnectDevices, UndoConfigure, Disconnect, FeedbackExactly
<1>5. CASE \/ CheckMode(l) \/ LockPatternManager(l) \/ RemoveListener(l) \/ RemovePatterns(l)
           \/ Configure(l) \/ NotInstalled(l) \/ RegisterFails(l)
  <2>1. failures' = failures \/ failures' = failures + 1
    <3>1. CASE CheckMode(l) \/ LockPatternManager(l) \/ RemoveListener(l) \/ RemovePatterns(l)
      BY <3>1 DEF CheckMode, LockPatternManager, RemoveListener, RemovePatterns
    <3>2. CASE Configure(l) \/ NotInstalled(l) \/ RegisterFails(l)
      BY <3>2 DEF Configure, NotInstalled, RegisterFails, Succeed, Fail
    <3> QED  BY <1>5, <3>1, <3>2
  <2> QED  BY <1>1, <2>1
<1> QED  BY <1>2, <1>3, <1>4, <1>5 DEF LoopThread

\* The steps of others leave it alone, but for the failures they count.
LEMMA UntouchedReports ==
  ASSUME NEW k \in Loops, ServedInv(k), StateInv(k), ReportsInv(k), Untouched(k),
         failures' = 0 => failures = 0
  PROVE  ReportsInv(k)'
<1>1. Served(k) => Served(k)'
  BY UntouchedServed
<1>2. Disconnected(k) => Disconnected(k)'
  BY DEF Disconnected, Untouched, PoisOf
<1>3. Released(k) => Released(k)'
  <2> SUFFICES ASSUME Released(k) PROVE Released(k)'
    OBVIOUS
  <2>1. PoisOf(k) \cap (connected' \cup collected') = {}
    BY DEF Released, Untouched
  <2>2. \A i \in DOMAIN Pois[k] : k \notin receivers'[Pois[k][i]]
    BY PoisNumbered DEF Released, Untouched
  <2> QED  BY <2>1, <2>2 DEF Released, Untouched, PoisOf
<1> QED  BY <1>1, <1>2, <1>3 DEF ReportsInv, Untouched

\* The steps of a LoopThread keep it for its own loop.
LEMMA OwnReports ==
  ASSUME TypeOK, NEW l \in Loops, StateInv(l), ServedInv(l), ReportsInv(l), LoopThread(l)
  PROVE  ReportsInv(l)'
<1>0. /\ failures \in Nat /\ (failures' = 0 => failures = 0)
      /\ request[l] \in Requests /\ seen[l] \in Requests
      /\ (First(l) \in connected) \in BOOLEAN
  BY FailuresCounted DEF TypeOK
<1>s. Served(l) => First(l) \in connected /\ PoisOf(l) \subseteq selected /\ algorithm[l] # "none"
  <2>1. 1 \in DOMAIN Pois[l]
    BY PoisNumbered
  <2> QED  BY <2>1 DEF Served, First, PoisOf
<1>1. CASE CheckMode(l)
  <2>1. /\ configured' = configured /\ mode' = mode /\ pc[l] = "idle" /\ failures' = failures
        /\ UNCHANGED <<registryVars, deviceVars>>
    BY <1>1 DEF CheckMode
  <2>2. Released(l) => Released(l)'
    BY <2>1 DEF Released, PoisOf
  <2>3. PICK req \in Requests :
          /\ req # seen[l] /\ request'[l] = req
          /\ \/ /\ req.state = seen[l].state /\ pc'[l] = "mode" /\ seen'[l] = seen[l]
             \/ /\ req.state = seen[l].state /\ ~ready[l] /\ pc'[l] = "idle" /\ seen'[l] = req
             \/ /\ req.state # seen[l].state /\ req.state = configured[l] /\ pc'[l] = "idle"
                /\ seen'[l] = req
             \/ /\ req.state # seen[l].state /\ seen'[l] = seen[l]
                /\ pc'[l] = IF req.state THEN "configure" ELSE "off"
    <3> DEFINE req == [state |-> statePv[l], mode |-> modePv[l]]
    <3>1. req \in Requests /\ req # seen[l] /\ request'[l] = req
      BY <1>1 DEF CheckMode, TypeOK, Requests
    <3>2. req.state = seen[l].state =>
            \/ pc'[l] = "mode" /\ seen'[l] = seen[l]
            \/ ~ready[l] /\ pc'[l] = "idle" /\ seen'[l] = req
      BY <1>1 DEF CheckMode, Return, TypeOK
    <3>3. req.state # seen[l].state =>
            \/ req.state = configured[l] /\ pc'[l] = "idle" /\ seen'[l] = req
            \/ pc'[l] = (IF req.state THEN "configure" ELSE "off") /\ seen'[l] = seen[l]
      BY <1>1 DEF CheckMode, Return, TypeOK
    <3> QED  BY <3>1, <3>2, <3>3
  <2>4. req.state = seen[l].state => req.mode # seen[l].mode
    BY <1>0, <2>3 DEF Requests
  <2>5. req.state \in BOOLEAN /\ seen[l].state \in BOOLEAN /\ configured[l] \in BOOLEAN
    BY <1>0 DEF Requests, TypeOK
  <2>6. configured[l] => seen[l].state /\ ready[l]
    BY DEF StateInv
  <2>7. pc'[l] \in OnPcs => ~seen'[l].state
    BY <2>3, <2>5 DEF OnPcs
  <2>8. pc'[l] = "mode" => request'[l].mode # seen'[l].mode
    BY <2>3, <2>4
  <2>9. pc'[l] \notin {"disconnect", "undo", "disconnectUndo", "removeListener", "removePatterns"}
    BY <2>3
  <2>10. configured[l] => seen'[l] = seen[l]
    BY <2>3, <2>5, <2>6
  <2>11. ~configured[l] /\ seen'[l].state => seen[l].state
    BY <2>3, <2>5
  <2>12. configured[l] /\ mode[l] = seen'[l].mode
           => feedback'[l] = [measurements |-> TRUE, actuators |-> seen'[l].mode]
    BY <2>1, <2>10 DEF ReportsInv
  <2>13. ~configured[l] /\ (seen'[l].state \/ failures' = 0) => Released(l)'
    BY <2>1, <2>2, <2>11 DEF ReportsInv
  <2> QED  BY <2>1, <2>7, <2>8, <2>9, <2>12, <2>13 DEF ReportsInv
<1>2. CASE Mode(l)
  <2>1. PICK ok \in BOOLEAN :
          /\ ChangeMode(l, request[l], First(l) \in connected, algorithm[l], ok)
          /\ Return(l, request[l], ok)
    BY <1>2 DEF Mode
  <2>2. /\ ~ok => algorithm[l] = "none" \/ failures' # 0
        /\ mode'[l] = request[l].mode \/ (~ok /\ mode' = mode /\ feedback' = feedback)
        /\ ok /\ First(l) \in connected
             => feedback'[l] = [measurements |-> request[l].state,
                                actuators |-> request[l].state /\ request[l].mode]
        /\ First(l) \notin connected => feedback' = feedback
    <3>1. ModeExactly(l, request[l], First(l) \in connected, algorithm[l], ok)
      BY <1>0, <2>1, ModeExact
    <3> QED  BY <3>1 DEF ModeExactly
  <2>3. /\ pc[l] = "mode" /\ pc'[l] = "idle" /\ configured' = configured
        /\ UNCHANGED <<registryVars, selected, connected>>
        /\ request[l].mode # seen[l].mode /\ (request[l].state <=> seen[l].state)
        /\ ready[l]
    BY <1>2 DEF Mode, TypeOK, ReportsInv, StateInv
  <2>4. seen'[l] = IF ok THEN request[l] ELSE seen[l]
    BY <2>1 DEF Return, TypeOK
  <2>5. ASSUME configured[l], mode'[l] = seen'[l].mode
        PROVE  feedback'[l] = [measurements |-> TRUE, actuators |-> seen'[l].mode]
    <3>1. Served(l) /\ seen[l].state /\ request[l].state = TRUE
      BY <1>0, <2>3, <2>5 DEF ServedInv, StateInv, Requests
    <3>2. CASE ok
      <4>1. request[l].mode \in BOOLEAN
        BY <1>0 DEF Requests
      <4> QED  BY <1>s, <2>2, <2>4, <3>1, <3>2, <4>1
    <3>3. CASE ~ok
      <4>1. mode' = mode /\ feedback' = feedback
        BY <2>2, <2>3, <2>4, <2>5, <3>3
      <4> QED  BY <2>3, <2>4, <2>5, <3>3, <4>1 DEF ReportsInv
    <3> QED  BY <3>2, <3>3
  <2>6. ASSUME ~configured[l], seen'[l].state \/ failures' = 0
        PROVE  Released(l)'
    <3>1. ~seen[l].state /\ ~seen'[l].state
      BY <2>3, <2>4, <2>6 DEF StateInv
    <3>2. Released(l)
      BY <1>0, <2>6, <3>1 DEF ReportsInv
    <3>3. First(l) \notin connected
      <4>1. 1 \in DOMAIN Pois[l]
        BY PoisNumbered
      <4> QED  BY <3>2, <4>1 DEF Released, First, PoisOf
    <3> QED  BY <2>2, <2>3, <3>2, <3>3 DEF Released, PoisOf
  <2> QED  BY <2>3, <2>5, <2>6 DEF ReportsInv, OnPcs
<1>3. CASE LockPatternManager(l)
  <2>1. /\ UNCHANGED <<seen, request, configured, mode, algorithm, failures>>
        /\ UNCHANGED <<registryVars, deviceVars>>
        /\ \/ pc[l] = "off" /\ pc'[l] = "disconnect"
           \/ pc[l] = "on" /\ pc'[l] = "register"
           \/ pc[l] = "undo" /\ pc'[l] = "disconnectUndo"
    BY <1>3 DEF LockPatternManager, TypeOK
  <2>2. (Released(l) => Released(l)') /\ (Served(l) => Served(l)')
    BY <2>1 DEF Released, Served, PoisOf
  <2>3. pc[l] = "off" => configured[l] /\ Served(l)
    BY DEF StateInv, ServedInv, OffPcs
  <2>4. pc[l] \in {"on", "undo"} => ~configured[l] /\ ~seen[l].state
    BY DEF StateInv, ReportsInv, OnPcs
  <2> QED  BY <2>1, <2>2, <2>3, <2>4 DEF ReportsInv, OnPcs
<1>4. CASE DisconnectDevices(l)
  <2>1. /\ pc[l] = "disconnect" /\ pc'[l] = "removeListener" /\ configured' = configured
        /\ Disconnect(l)
    BY <1>4 DEF DisconnectDevices, TypeOK
  <2>2. PICK ok \in BOOLEAN :
          /\ SetFeedback(l, First(l) \in connected, algorithm[l], FALSE, FALSE, ok)
          /\ LET gone == IF ok THEN PoisOf(l) \cap selected ELSE {} IN
             /\ connected' = connected \ gone
             /\ collected' = collected \ gone
    BY <2>1 DEF Disconnect
  <2>3. configured[l] /\ Served(l)
    BY <2>1 DEF StateInv, ReportsInv, OffPcs
  <2>4. /\ ~ok => algorithm[l] = "none" \/ failures' # 0
        /\ ok /\ First(l) \in connected => feedback'[l] = [measurements |-> FALSE, actuators |-> FALSE]
    <3>1. FeedbackExactly(l, First(l) \in connected, algorithm[l], FALSE, FALSE, ok)
      BY <1>0, <2>2, FeedbackExact
    <3> QED  BY <3>1 DEF FeedbackExactly
  <2>5. failures' = 0 => Disconnected(l)'
    BY <1>s, <2>2, <2>3, <2>4 DEF Disconnected, FbckOff, PoisOf
  <2> QED  BY <2>1, <2>3, <2>5 DEF ReportsInv, OnPcs
<1>5. CASE RemoveListener(l)
  <2>1. /\ pc[l] = "removeListener" /\ pc'[l] = "removePatterns" /\ configured' = configured
        /\ UNCHANGED <<connected, collected, feedback, failures>>
    BY <1>5 DEF RemoveListener, TypeOK
  <2>2. Disconnected(l) => Disconnected(l)'
    BY <2>1 DEF Disconnected, PoisOf
  <2>3. configured[l]
    BY <2>1 DEF StateInv, OffPcs
  <2> QED  BY <2>1, <2>2, <2>3 DEF ReportsInv, OnPcs
<1>6. CASE RemovePatterns(l)
  <2>1. /\ pc[l] = "removePatterns" /\ pc'[l] = "idle" /\ ~configured'[l]
        /\ seen'[l] = request[l] /\ receivers' = WithoutReceiver(l)
        /\ UNCHANGED <<connected, collected, listeners, feedback, failures>>
    BY <1>6 DEF RemovePatterns, Reconfigured, Return, TypeOK
  <2>2. ~request[l].state /\ l \notin listeners
    BY <2>1 DEF StateInv, OffPcs, ServedInv
  <2>3. \A i \in DOMAIN Pois[l] : l \notin receivers'[Pois[l][i]]
    <3>1. \A i \in DOMAIN Pois[l] : Pois[l][i] \in Masks
      BY PoisNumbered
    <3> QED  BY <2>1, <3>1 DEF WithoutReceiver, MasksOf
  <2>4. failures' = 0 => Released(l)'
    BY <2>1, <2>2, <2>3 DEF ReportsInv, Disconnected, Released, PoisOf
  <2> QED  BY <2>1, <2>2, <2>4 DEF ReportsInv, OnPcs
<1>7. CASE Configure(l)
  <2>1. /\ pc[l] = "configure" /\ UNCHANGED <<seen, configured, mode, registryVars, deviceVars>>
        /\ \/ failures' = failures /\ pc'[l] = "on"
           \/ failures' = failures + 1 /\ pc'[l] = "undo"
    BY <1>7 DEF Configure, Succeed, Fail, TypeOK
  <2>2. ~configured[l] /\ ~seen[l].state
    BY <2>1 DEF StateInv, ReportsInv, OnPcs
  <2>3. Released(l) => Released(l)'
    BY <2>1 DEF Released, PoisOf
  <2> QED  BY <1>0, <2>1, <2>2, <2>3 DEF ReportsInv, OnPcs
<1>8. CASE NotInstalled(l) \/ UndoConfigure(l) \/ RegisterFails(l)
  <2>1. /\ pc[l] \in {"configure", "disconnectUndo", "register"} /\ configured' = configured
        /\ Reconfigured(l, FALSE)
    BY <1>8 DEF NotInstalled, UndoConfigure, RegisterFails
  <2>2. pc'[l] = "idle" /\ seen'[l] = seen[l]
    BY <2>1 DEF Reconfigured, Return, TypeOK
  <2>3. ~configured[l] /\ ~seen[l].state
    BY <2>1 DEF StateInv, ReportsInv, OnPcs
  <2>4. failures' # 0
    <3>1. CASE NotInstalled(l) \/ RegisterFails(l)
      <4>1. failures' = failures + 1
        BY <3>1 DEF NotInstalled, RegisterFails, Fail
      <4> QED  BY <1>0, <4>1
    <3>2. CASE UndoConfigure(l)
      BY <1>0, <2>3, <3>2 DEF UndoConfigure, ReportsInv
    <3> QED  BY <1>8, <3>1, <3>2
  <2> QED  BY <2>1, <2>2, <2>3, <2>4 DEF ReportsInv, OnPcs
<1>9. CASE Register(l)
  <2>1. PICK ok \in BOOLEAN :
          /\ ChangeMode(l, request[l], TRUE, "alive", ok)
          /\ configured' = [configured EXCEPT ![l] = ok]
          /\ Reconfigured(l, ok)
    BY <1>9 DEF Register
  <2>2. /\ ~ok => failures' # 0
        /\ ok => mode'[l] = request[l].mode
        /\ ok => feedback'[l] = [measurements |-> request[l].state,
                                actuators |-> request[l].state /\ request[l].mode]
    <3>1. ModeExactly(l, request[l], TRUE, "alive", ok)
      BY <1>0, <2>1, ModeExact
    <3> QED  BY <3>1 DEF ModeExactly
  <2>3. /\ pc[l] = "register" /\ pc'[l] = "idle" /\ configured'[l] = ok
        /\ seen'[l] = IF ok THEN request[l] ELSE seen[l]
    BY <1>9, <2>1 DEF Register, Reconfigured, Return, TypeOK
  <2>4. request[l].state = TRUE /\ ~seen[l].state /\ request[l].mode \in BOOLEAN
    BY <1>0, <2>3 DEF StateInv, ReportsInv, OnPcs, Requests
  <2> QED  BY <2>2, <2>3, <2>4 DEF ReportsInv, OnPcs
<1> QED
  BY <1>1, <1>2, <1>3, <1>4, <1>5, <1>6, <1>7, <1>8, <1>9 DEF LoopThread

\* The FBCK PVs are as STATE and MODE say wherever a loop works in the mode it reports,
\* and a loop OFF for which nothing failed holds nothing (ReportsHold of run control).
THEOREM ReportsAreTrue == Spec => []ReportsHold
<1> DEFINE RInv == \A l \in Loops : ReportsInv(l)
<1>1. Init => RInv
  <2> SUFFICES ASSUME Init, NEW l \in Loops PROVE ReportsInv(l)
    OBVIOUS
  <2>1. /\ pc[l] = "idle" /\ ~configured[l] /\ feedback[l] = FbckOff
        /\ \A m \in Masks : receivers[m] = {}
        /\ listeners = {} /\ connected = {} /\ collected = {}
    BY DEF Init
  <2>2. Released(l)
    BY <2>1, PoisNumbered DEF Released
  <2> QED  BY <2>1, <2>2 DEF ReportsInv, OnPcs
<1>2. TypeOK /\ ControlInv /\ RInv /\ [Next]_vars => RInv'
  <2> SUFFICES ASSUME TypeOK, ControlInv, RInv, [Next]_vars, NEW k \in Loops
               PROVE  ReportsInv(k)'
    OBVIOUS
  <2>1. StateInv(k) /\ ServedInv(k) /\ ReportsInv(k)
    BY DEF ControlInv
  <2>2. CASE UNCHANGED vars
    BY <2>1, <2>2, UntouchedReports DEF vars, Untouched
  <2>3. CASE BeginUpdate \/ EndUpdate
    BY <2>1, <2>3, UntouchedReports DEF BeginUpdate, EndUpdate, Untouched
  <2>4. ASSUME NEW l \in Loops, SetState(l) \/ SetMode(l)
        PROVE  ReportsInv(k)'
    BY <2>1, <2>4, UntouchedReports DEF SetState, SetMode, Untouched
  <2>5. ASSUME NEW l \in Loops, LoopThread(l)
        PROVE  ReportsInv(k)'
    BY <2>1, <2>5, UntouchedReports, FailuresCounted, OthersUntouched, OwnReports
  <2> QED  BY <2>2, <2>3, <2>4, <2>5 DEF Next
<1>3. RInv => ReportsHold
  BY DEF ReportsInv, ReportsHold
<1> QED  BY <1>1, <1>2, <1>3, ControlAlways, PTL DEF Spec
=============================================================================
