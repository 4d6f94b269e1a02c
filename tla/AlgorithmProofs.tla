--------------------------- MODULE AlgorithmProofs ----------------------------
(***************************************************************************)
(* What the algorithms keep: Longitudinal, the handshake of its chirp, and *)
(* the monitors and matrices of the TrajectoryFit family.  Each part has   *)
(* its inductive invariant, of which the theorems at its end follow.       *)
(***************************************************************************)
EXTENDS Longitudinal, LongitudinalChirp, TrajectoryFit, FiniteSetTheorems, TLAPS

-----------------------------------------------------------------------------
(* What the sections of selectStates select: each is for one state, in order *)

\* There is beam for state s.
HasBeam(s, v) ==
  \/ s = 1 /\ v \cap {1, 2} # {}
  \/ s \in {2, 3} /\ 3 \in v
  \/ s \in {4, 5} /\ 5 \in v
  \/ s = 6 /\ v \cap {7, 8, 10} # {} /\ ~({7, 8} \subseteq v)

IsSelection(sel) ==
  sel \in [usedBy : [LongStates -> BOOLEAN], actUsedBy : [LongStates -> BOOLEAN],
           read : SUBSET LongStates, reached : SUBSET LongStates, thrown : BOOLEAN]

\* The section of a state that was reached selects it iff there is beam and the operator
\* selected it, and leaves its actuator unread only if the state was in use before.
SoundFor(sel, v, s) ==
  /\ s \in sel.reached =>
       /\ sel.usedBy[s] <=> HasBeam(s, v) /\ usedPv[s]
       /\ sel.usedBy[s] /\ s \notin sel.read => ~longMode \/ (previousMode /\ usedBy[s])
       /\ s \in sel.read => longMode /\ usedPv[s]
  /\ s \notin sel.reached => s \notin sel.read /\ (sel.usedBy[s] => usedBy[s])

\* The selection after the sections of the states in done, if no exception left them.
Selected(sel, v, done) ==
  /\ IsSelection(sel) /\ \A s \in LongStates : SoundFor(sel, v, s)
  /\ sel.reached \subseteq done /\ (~sel.thrown => sel.reached = done)

LEMMA SectionSelects ==
  ASSUME LongTypeOK, NEW sel, NEW v, NEW s \in LongStates, NEW done \in SUBSET LongStates,
         NEW beam \in BOOLEAN, NEW failing,
         Selected(sel, v, done), s \notin done, beam <=> HasBeam(s, v)
  PROVE  Selected(Section(sel, s, beam, failing), v, done \cup {s})
<1> DEFINE read == JustOn(sel, s, beam)
           after == Section(sel, s, beam, failing)
<1>0. read \in BOOLEAN /\ usedPv[s] \in BOOLEAN /\ IsSelection(sel)
  BY DEF IsSelection, JustOn, LongTypeOK, Selected
<1>1. CASE sel.thrown
  <2>1. after = sel
    BY <1>1 DEF Section
  <2> QED
    BY <1>1, <2>1 DEF Selected
<1>2. CASE ~sel.thrown /\ read /\ s \in failing
  <2>1. after = [sel EXCEPT !.thrown = TRUE]
    BY <1>2 DEF Section
  <2>2. IsSelection(after) /\ after.thrown
    BY <1>0, <2>1 DEF IsSelection
  <2>3. after.usedBy = sel.usedBy /\ after.read = sel.read /\ after.reached = sel.reached
    BY <1>0, <2>1 DEF IsSelection
  <2> HIDE DEF after
  <2>4. \A t \in LongStates : SoundFor(after, v, t)
    BY <2>3 DEF Selected, SoundFor
  <2>5. after.reached \subseteq done \cup {s}
    BY <2>3 DEF Selected
  <2>6. Selected(after, v, done \cup {s})
    BY <2>2, <2>4, <2>5, Zenon DEF Selected
  <2> QED
    BY <2>6 DEF after
<1>3. CASE ~sel.thrown /\ ~(read /\ s \in failing)
  <2> HIDE DEF read
  <2>1. after = [sel EXCEPT !.usedBy[s] = beam /\ usedPv[s], !.actUsedBy[s] = beam /\ usedPv[s],
                            !.read = IF read THEN @ \cup {s} ELSE @,
                            !.reached = @ \cup {s}]
    BY <1>3 DEF Section, read
  <2> HIDE DEF after
  <2>2. IsSelection(after)
    BY <2>1, <1>0 DEF IsSelection
  <2>3. /\ after.usedBy = [sel.usedBy EXCEPT ![s] = beam /\ usedPv[s]]
        /\ after.read = IF read THEN sel.read \cup {s} ELSE sel.read
        /\ after.reached = sel.reached \cup {s}
        /\ ~after.thrown
    BY <2>1, <1>0, <1>3 DEF IsSelection
  <2> HIDE <2>1
  <2>4. sel.reached = done /\ s \notin sel.read /\ (sel.usedBy[s] => usedBy[s])
    BY <1>3 DEF Selected, SoundFor
  <2>5. \A t \in LongStates \ {s} : SoundFor(after, v, t)
    <3> SUFFICES ASSUME NEW t \in LongStates \ {s} PROVE SoundFor(after, v, t)
      OBVIOUS
    <3>1. after.usedBy[t] = sel.usedBy[t]
      BY <1>0, <2>3 DEF IsSelection
    <3>2. (t \in after.read <=> t \in sel.read) /\ (t \in after.reached <=> t \in sel.reached)
      BY <2>3
    <3> QED
      BY <3>1, <3>2, Zenon DEF SoundFor, Selected
  <2>6. SoundFor(after, v, s)
    <3>1. after.usedBy[s] <=> HasBeam(s, v) /\ usedPv[s]
      BY <1>0, <2>3 DEF IsSelection
    <3>2. s \in after.read <=> read
      BY <2>3, <2>4
    <3>3. after.usedBy[s] /\ s \notin after.read => ~longMode \/ (previousMode /\ usedBy[s])
      BY <3>1, <3>2, <2>4 DEF read, JustOn
    <3>4. s \in after.read => longMode /\ usedPv[s]
      BY <3>2 DEF read, JustOn
    <3>5. s \in after.reached
      BY <2>3
    <3> QED
      BY <3>1, <3>3, <3>4, <3>5, Zenon DEF SoundFor
  <2>7. after.reached = done \cup {s}
    BY <2>3, <2>4
  <2>8. Selected(after, v, done \cup {s})
    BY <2>2, <2>5, <2>6, <2>7, Zenon DEF Selected
  <2> QED
    BY <2>8 DEF after
<1> QED
  BY <1>0, <1>1, <1>2, <1>3 DEF IsSelection

LEMMA SelectionStarts ==
  ASSUME LongTypeOK, NEW v PROVE Selected(Selection, v, {})
BY DEF LongTypeOK, Selected, IsSelection, SoundFor, Selection

\* Beam in the A-line and the LTU: S6 is no longer used, and nothing else changes.
LEMMA Dl2Selects ==
  ASSUME LongTypeOK, NEW sel, NEW v, NEW failing, Selected(sel, v, 1 .. 5)
  PROVE  Selected(SelectDl2(sel, v, failing), v, LongStates)
<1> DEFINE after == SelectDl2(sel, v, failing)
<1>1. CASE ~sel.thrown /\ {7, 8} \subseteq v
  <2>0. IsSelection(sel) /\ 6 \in LongStates /\ 6 \notin sel.reached
    BY DEF Selected, LongStates
  <2>1. after = [sel EXCEPT !.usedBy[6] = FALSE, !.thrown = TRUE]
    BY <1>1 DEF SelectDl2
  <2> HIDE DEF after
  <2>2. IsSelection(after)
    BY <2>0, <2>1 DEF IsSelection
  <2>3. /\ after.usedBy = [sel.usedBy EXCEPT ![6] = FALSE] /\ after.thrown
        /\ after.read = sel.read /\ after.reached = sel.reached
    BY <2>0, <2>1 DEF IsSelection
  <2>4. \A t \in LongStates : SoundFor(after, v, t)
    <3> SUFFICES ASSUME NEW t \in LongStates PROVE SoundFor(after, v, t)
      OBVIOUS
    <3>0. sel.usedBy \in [LongStates -> BOOLEAN] /\ after.usedBy = [sel.usedBy EXCEPT ![6] = FALSE]
      BY <2>0, <2>3 DEF IsSelection
    <3>1. after.usedBy[t] = (IF t = 6 THEN FALSE ELSE sel.usedBy[t])
      BY <2>0, <3>0
    <3> QED
      BY <3>1, <2>0, <2>3, SMTT(30) DEF SoundFor, Selected
  <2>5. sel.reached \subseteq LongStates
    BY <2>0 DEF IsSelection
  <2>6. Selected(after, v, LongStates)
    BY <2>2, <2>3, <2>4, <2>5, Zenon DEF Selected
  <2> QED
    BY <2>6 DEF after
<1>2. CASE ~(~sel.thrown /\ {7, 8} \subseteq v)
  <2>1. after = Section(sel, 6, v \cap {7, 8, 10} # {}, failing)
    BY <1>2 DEF SelectDl2
  <2>2. CASE sel.thrown
    <3>1. after = sel
      BY <2>1, <2>2 DEF Section
    <3> QED
      BY <2>2, <3>1 DEF Selected, LongStates
  <2>3. CASE ~({7, 8} \subseteq v)
    <3>1. (v \cap {7, 8, 10} # {}) <=> HasBeam(6, v)
      BY <2>3 DEF HasBeam
    <3>2. /\ 6 \in LongStates /\ 1 .. 5 \in SUBSET LongStates /\ 6 \notin 1 .. 5
          /\ 1 .. 5 \cup {6} = LongStates /\ (v \cap {7, 8, 10} # {}) \in BOOLEAN
      BY DEF LongStates
    <3>3. Selected(Section(sel, 6, v \cap {7, 8, 10} # {}, failing), v, 1 .. 5 \cup {6})
      BY <3>1, <3>2, SectionSelects, Zenon
    <3> QED
      BY <2>1, <3>2, <3>3
  <2> QED
    BY <1>2, <2>2, <2>3
<1> QED
  BY <1>1, <1>2

LEMMA LongitudinallySelects ==
  ASSUME LongTypeOK, NEW v, NEW failing
  PROVE  Selected(Longitudinally(v, failing), v, LongStates)
<1> DEFINE s1 == SelectDl1(Selection, v, failing)
           s2 == SelectBc1Energy(s1, v, failing)
           s3 == SelectBc1Current(s2, v, failing)
           s4 == SelectBc2Energy(s3, v, failing)
           s5 == SelectBc2Current(s4, v, failing)
<1> HIDE DEF s1, s2, s3, s4, s5
<1>1. Selected(s1, v, 1 .. 1)
  <2>1. (v \cap {1, 2} # {}) <=> HasBeam(1, v)
    BY DEF HasBeam
  <2>2. /\ 1 \in LongStates /\ 1 .. 0 \in SUBSET LongStates /\ 1 \notin 1 .. 0
        /\ 1 .. 0 \cup {1} = 1 .. 1 /\ (v \cap {1, 2} # {}) \in BOOLEAN
    BY DEF LongStates
  <2>3. Selected(Selection, v, 1 .. 0)
    BY SelectionStarts, 1 .. 0 = {}
  <2>4. Selected(s1, v, 1 .. 0 \cup {1})
    BY <2>1, <2>2, <2>3, SectionSelects, Zenon DEF s1, SelectDl1
  <2> QED
    BY <2>2, <2>4
<1>2. Selected(s2, v, 1 .. 2)
  <2>1. (3 \in v) <=> HasBeam(2, v)
    BY DEF HasBeam
  <2>2. /\ 2 \in LongStates /\ 1 .. 1 \in SUBSET LongStates /\ 2 \notin 1 .. 1
        /\ 1 .. 1 \cup {2} = 1 .. 2 /\ (3 \in v) \in BOOLEAN
    BY DEF LongStates
  <2>3. Selected(s1, v, 1 .. 1)
    BY <1>1
  <2>4. Selected(s2, v, 1 .. 1 \cup {2})
    BY <2>1, <2>2, <2>3, SectionSelects, Zenon DEF s2, SelectBc1Energy
  <2> QED
    BY <2>2, <2>4
<1>3. Selected(s3, v, 1 .. 3)
  <2>1. (3 \in v) <=> HasBeam(3, v)
    BY DEF HasBeam
  <2>2. /\ 3 \in LongStates /\ 1 .. 2 \in SUBSET LongStates /\ 3 \notin 1 .. 2
        /\ 1 .. 2 \cup {3} = 1 .. 3 /\ (3 \in v) \in BOOLEAN
    BY DEF LongStates
  <2>3. Selected(s2, v, 1 .. 2)
    BY <1>2
  <2>4. Selected(s3, v, 1 .. 2 \cup {3})
    BY <2>1, <2>2, <2>3, SectionSelects, Zenon DEF s3, SelectBc1Current
  <2> QED
    BY <2>2, <2>4
<1>4. Selected(s4, v, 1 .. 4)
  <2>1. (5 \in v) <=> HasBeam(4, v)
    BY DEF HasBeam
  <2>2. /\ 4 \in LongStates /\ 1 .. 3 \in SUBSET LongStates /\ 4 \notin 1 .. 3
        /\ 1 .. 3 \cup {4} = 1 .. 4 /\ (5 \in v) \in BOOLEAN
    BY DEF LongStates
  <2>3. Selected(s3, v, 1 .. 3)
    BY <1>3
  <2>4. Selected(s4, v, 1 .. 3 \cup {4})
    BY <2>1, <2>2, <2>3, SectionSelects, Zenon DEF s4, SelectBc2Energy
  <2> QED
    BY <2>2, <2>4
<1>5. Selected(s5, v, 1 .. 5)
  <2>1. (5 \in v) <=> HasBeam(5, v)
    BY DEF HasBeam
  <2>2. /\ 5 \in LongStates /\ 1 .. 4 \in SUBSET LongStates /\ 5 \notin 1 .. 4
        /\ 1 .. 4 \cup {5} = 1 .. 5 /\ (5 \in v) \in BOOLEAN
    BY DEF LongStates
  <2>3. Selected(s4, v, 1 .. 4)
    BY <1>4
  <2>4. Selected(s5, v, 1 .. 4 \cup {5})
    BY <2>1, <2>2, <2>3, SectionSelects, Zenon DEF s5, SelectBc2Current
  <2> QED
    BY <2>2, <2>4
<1>6. Longitudinally(v, failing) = SelectDl2(s5, v, failing)
  BY DEF Longitudinally, s1, s2, s3, s4, s5
<1> QED
  BY <1>5, <1>6, Dl2Selects
-----------------------------------------------------------------------------
(* The inductive invariant *)

\* A state in use whose actuator operators may have moved was turned off, and no
\* calculation saw it; but for S5 the chirp may have stood in.
NoneForgotten ==
  \A s \in LongStates :
    longMode /\ previousMode /\ usedBy[s] /\ (s \in moved \/ ~usedPv[s])
      => s \in unseen \/ (s = 5 /\ chirped)

\* The averages that are not empty have samples of bunch lengths that were read.
SamplesIn(empty, lengths) == (3 \notin empty => 4 \in lengths) /\ (5 \notin empty => 6 \in lengths)

LongInv == LongTypeOK /\ SourcesValid /\ NoneForgotten /\ SamplesIn(blenEmpty, measured)

LEMMA LongInitInv == LongInit => LongInv
<1> SUFFICES ASSUME LongInit PROVE LongInv
  OBVIOUS
<1>1. LongTypeOK
  <2>1. None \in [LongStates -> BOOLEAN]
    BY DEF None
  <2>2. usedPv \in [LongStates -> BOOLEAN]
    BY DEF LongInit
  <2> QED
    BY <2>1, <2>2, Zenon DEF LongInit, LongTypeOK
<1>2. SourcesValid /\ NoneForgotten /\ SamplesIn(blenEmpty, measured)
  BY DEF LongInit, SourcesValid, NoneForgotten, SamplesIn
<1> QED
  BY <1>1, <1>2 DEF LongInv

\* The measurements that an energy is made of have beam where its state is used, and
\* bunch lengths are used while their average has a sample.
LEMMA EnergiesOfBeam ==
  ASSUME NEW s \in LongStates, NEW v, NEW empty, HasBeam(s, v) \/ s = 5,
         NEW m \in EnergyOrCurrent(s, v, empty)
  PROVE  IF m = 4 THEN 3 \notin empty ELSE IF m = 6 THEN 5 \notin empty ELSE m \in v
<1>1. CASE s = 1
  BY <1>1 DEF EnergyOrCurrent, EnergyDl1, HasBeam
<1>2. CASE s = 2
  BY <1>2 DEF EnergyOrCurrent, EnergyBc1, HasBeam
<1>3. CASE s = 3
  BY <1>3 DEF EnergyOrCurrent, CurrentBc1
<1>4. CASE s = 4
  BY <1>4 DEF EnergyOrCurrent, EnergyBc2, HasBeam
<1>5. CASE s = 5
  BY <1>5 DEF EnergyOrCurrent, CurrentBc2
<1>6. CASE s = 6
  <2>1. m \in EnergyDl2(v)
    BY <1>6 DEF EnergyOrCurrent
  <2>2. v \cap {7, 8, 10} # {} /\ ~({7, 8} \subseteq v)
    BY <1>6 DEF HasBeam
  <2>3. m \in {7, 8, 9, 10} /\ m \in v
    BY <2>1, <2>2 DEF EnergyDl2
  <2> QED
    BY <2>3
<1> QED
  BY <1>1, <1>2, <1>3, <1>4, <1>5, <1>6 DEF LongStates

\* A calculation with beam, with its parts named.
CalculationWith(sel, cache, v, empty) ==
  /\ SelectStates(sel, cache)
  /\ \/ /\ ~sel.thrown
        /\ UpdateStates(sel, v, empty)
        /\ UpdateActuators(sel, v, empty) \/ corrected' = {}
     \/ sources' = {} /\ corrected' = {}
  /\ moved' = moved \ (sel.read \cup PhaseOfChirp)
  /\ blenEmpty' = empty /\ measured' \subseteq {4, 6} /\ SamplesIn(empty, measured')

LEMMA CalculationCases ==
  ASSUME LongTypeOK, SamplesIn(blenEmpty, measured), CalculateLong
  PROVE  \E v \in SUBSET Measurements, empty \in SUBSET {3, 5} :
           /\ valid' = v /\ firstCalculate' = FALSE
           /\ UNCHANGED <<running, longMode, usedPv>>
           /\ \E cache \in [LongStates -> BOOLEAN] :
                \/ /\ fbckCache' = cache /\ sources' = {} /\ corrected' = {}
                   /\ UNCHANGED <<previousMode, usedBy, actUsedBy, fbckPv, blenEmpty, moved, unseen,
                                  chirped, measured>>
                \/ \E sel : Selected(sel, v, LongStates) /\ CalculationWith(sel, cache, v, empty)
<1> DEFINE V(beam) == CheckMeasurementStatus(beam)
           Cache == IF firstCalculate THEN fbckPv ELSE fbckCache
           Sel(beam, failing) == Longitudinally(V(beam), failing)
           Empty(beam, failing) == BlenAfter(beam, Sel(beam, failing).read)
           Lengths(beam, failing) == (measured \cup (beam \cap {4, 6})) \ BlenCleared(Sel(beam, failing).read)
           Chosen(beam, failing) ==
             ~Sel(beam, failing).thrown /\ (\E s \in LongStates : Sel(beam, failing).usedBy[s])
           Step(beam, failing) ==
             /\ valid' = V(beam) /\ firstCalculate' = FALSE
             /\ IF V(beam) = {}
                THEN /\ fbckCache' = Cache /\ sources' = {} /\ corrected' = {}
                     /\ UNCHANGED <<previousMode, usedBy, actUsedBy, fbckPv, blenEmpty, moved, unseen,
                                    chirped, measured>>
                ELSE /\ SelectStates(Sel(beam, failing), Cache)
                     /\ blenEmpty' = Empty(beam, failing)
                     /\ measured' = Lengths(beam, failing)
                     /\ IF /\ Chosen(beam, failing)
                           /\ CalculateEnergiesAndCurrents(Sel(beam, failing), V(beam),
                                                           Empty(beam, failing))
                        THEN /\ UpdateStates(Sel(beam, failing), V(beam), Empty(beam, failing))
                             /\ \/ UpdateActuators(Sel(beam, failing), V(beam), Empty(beam, failing))
                                \/ corrected' = {}
                        ELSE sources' = {} /\ corrected' = {}
                     /\ moved' = moved \ (Sel(beam, failing).read \cup PhaseOfChirp)
<1>1. /\ UNCHANGED <<running, longMode, usedPv>>
      /\ \E beam \in Beams, failing \in SUBSET ReadsFail : Step(beam, failing)
  BY Zenon DEF CalculateLong
<1>2. PICK beam \in Beams, failing \in SUBSET ReadsFail : Step(beam, failing)
  BY <1>1
<1>3. V(beam) \in SUBSET Measurements
  BY LongAssumption DEF CheckMeasurementStatus, Measurements
<1>4. Selected(Sel(beam, failing), V(beam), LongStates)
  BY LongitudinallySelects
<1>5. Empty(beam, failing) \in SUBSET {3, 5}
  <2>1. /\ blenEmpty \subseteq {3, 5}
        /\ {3 : m \in {4} \cap beam} \cup {5 : m \in {6} \cap beam} \subseteq {3, 5}
    BY DEF LongTypeOK
  <2> QED
    BY <2>1 DEF BlenAfter
<1>5a. Lengths(beam, failing) \subseteq {4, 6} /\ SamplesIn(Empty(beam, failing), Lengths(beam, failing))
  <2>1. measured \subseteq {4, 6}
    BY DEF LongTypeOK
  <2>2. ASSUME 3 \notin Empty(beam, failing)
        PROVE  4 \in Lengths(beam, failing)
    <3>1. 3 \notin Sel(beam, failing).read /\ (3 \notin blenEmpty \/ 4 \in beam)
      BY <2>2 DEF BlenAfter
    <3> QED
      BY <3>1 DEF SamplesIn, BlenCleared
  <2>3. ASSUME 5 \notin Empty(beam, failing)
        PROVE  6 \in Lengths(beam, failing)
    <3>1. 5 \notin Sel(beam, failing).read /\ (5 \notin blenEmpty \/ 6 \in beam)
      BY <2>3 DEF BlenAfter
    <3> QED
      BY <3>1 DEF SamplesIn, BlenCleared
  <2> QED
    BY <2>1, <2>2, <2>3 DEF SamplesIn
<1>6. Cache \in [LongStates -> BOOLEAN]
  BY DEF LongTypeOK
<1> DEFINE v == V(beam)  sel == Sel(beam, failing)  empty == Empty(beam, failing)
<1>7. \/ /\ fbckCache' = Cache /\ sources' = {} /\ corrected' = {}
         /\ UNCHANGED <<previousMode, usedBy, actUsedBy, fbckPv, blenEmpty, moved, unseen,
                        chirped, measured>>
      \/ CalculationWith(sel, Cache, v, empty)
  <2>1. CASE V(beam) = {}
    BY <1>2, <2>1, Zenon
  <2>2. CASE V(beam) # {}
    <3>1. /\ SelectStates(sel, Cache) /\ blenEmpty' = empty /\ measured' = Lengths(beam, failing)
          /\ moved' = moved \ (sel.read \cup PhaseOfChirp)
          /\ \/ /\ ~sel.thrown
                /\ UpdateStates(sel, v, empty)
                /\ UpdateActuators(sel, v, empty) \/ corrected' = {}
             \/ sources' = {} /\ corrected' = {}
      BY <1>2, <2>2, Zenon
    <3>2. measured' \subseteq {4, 6} /\ SamplesIn(empty, measured')
      BY <1>5a, <3>1
    <3> QED
      BY <3>1, <3>2, Zenon DEF CalculationWith
  <2> QED
    BY <2>1, <2>2
<1>8. valid' = v /\ firstCalculate' = FALSE
  BY <1>2
<1> HIDE DEF v, sel, empty, Cache, V, Sel, Empty, Lengths, Step
<1>9. v \in SUBSET Measurements /\ empty \in SUBSET {3, 5} /\ Selected(sel, v, LongStates)
  BY <1>3, <1>4, <1>5 DEF v, sel, empty
<1> QED
  BY <1>1, <1>6, <1>7, <1>8, <1>9, Zenon

\* What SelectStates leaves.
LEMMA SelectStatesTypes ==
  ASSUME LongTypeOK, NEW sel, IsSelection(sel), NEW cache \in [LongStates -> BOOLEAN],
         SelectStates(sel, cache)
  PROVE  /\ usedBy' \in [LongStates -> BOOLEAN] /\ actUsedBy' \in [LongStates -> BOOLEAN]
         /\ fbckCache' \in [LongStates -> BOOLEAN] /\ fbckPv' \in [LongStates -> BOOLEAN]
         /\ \A s \in LongStates : usedBy'[s] <=> (s = 5 /\ ChirpOn) \/ sel.usedBy[s]
<1> DEFINE bc2 == usedPv[4] \/ usedPv[5]
           now == [SetActuatorFeedbackPvs(cache) EXCEPT ![5] = bc2]
<1>1. /\ usedBy' = [sel.usedBy EXCEPT ![5] = ChirpOn \/ @] /\ actUsedBy' = sel.actUsedBy
      /\ fbckCache' = now
      /\ fbckPv' = [s \in LongStates |->
                      IF longMode /\ now[s] # cache[s] THEN now[s] ELSE fbckPv[s]]
  BY DEF SelectStates
<1>2. 4 \in LongStates /\ 5 \in LongStates
  BY DEF LongStates
<1>3. /\ sel.usedBy \in [LongStates -> BOOLEAN] /\ sel.actUsedBy \in [LongStates -> BOOLEAN]
      /\ usedPv \in [LongStates -> BOOLEAN] /\ fbckPv \in [LongStates -> BOOLEAN]
      /\ ChirpOn \in BOOLEAN /\ bc2 \in BOOLEAN
  BY <1>2 DEF IsSelection, LongTypeOK, ChirpOn
<1>4. SetActuatorFeedbackPvs(cache) \in [LongStates -> BOOLEAN]
  BY <1>3 DEF SetActuatorFeedbackPvs
<1> HIDE DEF bc2
<1>5. now \in [LongStates -> BOOLEAN]
  BY <1>3, <1>4
<1> HIDE DEF now
<1>6. fbckPv' \in [LongStates -> BOOLEAN]
  BY <1>1, <1>3, <1>5
<1>7. usedBy' \in [LongStates -> BOOLEAN]
  BY <1>1, <1>3
<1>8. \A s \in LongStates : usedBy'[s] <=> (s = 5 /\ ChirpOn) \/ sel.usedBy[s]
  BY <1>1, <1>2, <1>3
<1> QED
  BY <1>1, <1>3, <1>5, <1>6, <1>7, <1>8

\* While a state is selected and its actuator is not read, it was in use before.
LEMMA CalculationInv ==
  ASSUME LongInv, NEW v \in SUBSET Measurements, NEW empty \in SUBSET {3, 5},
         NEW cache \in [LongStates -> BOOLEAN], NEW sel, Selected(sel, v, LongStates),
         CalculationWith(sel, cache, v, empty), valid' = v, firstCalculate' = FALSE,
         UNCHANGED <<running, longMode, usedPv>>
  PROVE  /\ LongInv'
         /\ \A s \in corrected' : s \in moved' => s \in unseen' \/ (s = 5 /\ chirped')
<1>0. LongTypeOK /\ NoneForgotten /\ IsSelection(sel) /\ SelectStates(sel, cache)
  BY DEF LongInv, Selected, CalculationWith
<1>1. /\ usedBy' \in [LongStates -> BOOLEAN] /\ actUsedBy' \in [LongStates -> BOOLEAN]
      /\ fbckCache' \in [LongStates -> BOOLEAN] /\ fbckPv' \in [LongStates -> BOOLEAN]
      /\ \A s \in LongStates : usedBy'[s] <=> (s = 5 /\ ChirpOn) \/ sel.usedBy[s]
  BY <1>0, SelectStatesTypes
<1>2. /\ previousMode' = IF sel.thrown THEN previousMode ELSE longMode
      /\ chirped' = (ChirpOn \/ (chirped /\ 5 \notin sel.read))
      /\ unseen' = unseen \ {s \in sel.reached : IsReleased(s) \/ s \in sel.read}
  BY <1>0 DEF SelectStates
<1>3. moved' \subseteq moved \ sel.read
  BY DEF CalculationWith
<1>4. UsedIn(sel) \subseteq LongStates /\ corrected' \subseteq UsedIn(sel)
  BY DEF CalculationWith, UpdateActuators, UsedIn
<1>5. \A s \in UsedIn(sel) : (s = 5 /\ ChirpOn) \/ sel.usedBy[s]
  BY DEF UsedIn
<1>6. corrected' # {} => longMode /\ ~sel.thrown
  BY DEF CalculationWith, UpdateActuators
<1>7. LongTypeOK'
  <2>1. {running', longMode', previousMode', firstCalculate'} \subseteq BOOLEAN
    BY <1>0, <1>2 DEF LongTypeOK
  <2>2. chirped' \in BOOLEAN
    BY <1>0, <1>2 DEF LongTypeOK, ChirpOn
  <2>3. moved' \subseteq LongStates /\ unseen' \subseteq LongStates
    BY <1>0, <1>2, <1>3 DEF LongTypeOK
  <2>4. sources' \subseteq LongStates \X Measurements
    BY <1>4 DEF CalculationWith, UpdateStates
  <2>5. corrected' \subseteq LongStates /\ usedPv' \in [LongStates -> BOOLEAN]
    BY <1>0, <1>4 DEF LongTypeOK
  <2>6. blenEmpty' \subseteq {3, 5} /\ valid' \subseteq Measurements /\ measured' \subseteq {4, 6}
    BY DEF CalculationWith
  <2> QED
    BY <1>1, <2>1, <2>2, <2>3, <2>4, <2>5, <2>6, Zenon DEF LongTypeOK
<1>8. SourcesValid'
  <2>1. CASE sources' = {}
    BY <2>1 DEF SourcesValid
  <2>2. CASE ~sel.thrown /\ UpdateStates(sel, v, empty)
    <3> SUFFICES ASSUME NEW p \in sources'
                 PROVE  p[2] \in IF p[2] \in {4, 6} THEN measured' ELSE valid'
      BY DEF SourcesValid
    <3>1. p[1] \in UsedIn(sel) /\ p[2] \in EnergyOrCurrent(p[1], v, empty)
      BY <2>2 DEF UpdateStates
    <3>2. p[1] \in LongStates /\ SoundFor(sel, v, p[1]) /\ p[1] \in sel.reached
      BY <1>4, <2>2, <3>1 DEF Selected
    <3>3. HasBeam(p[1], v) \/ p[1] = 5
      BY <1>5, <3>1, <3>2 DEF SoundFor
    <3>4. IF p[2] = 4 THEN 3 \notin empty ELSE IF p[2] = 6 THEN 5 \notin empty ELSE p[2] \in v
      BY <3>1, <3>2, <3>3, EnergiesOfBeam
    <3>5. SamplesIn(empty, measured')
      BY DEF CalculationWith
    <3> QED
      BY <3>4, <3>5 DEF SamplesIn
  <2> QED
    BY <2>1, <2>2 DEF CalculationWith
<1>9. ASSUME NEW s \in LongStates, longMode, s \in sel.reached, sel.usedBy[s], s \in moved'
      PROVE  s \in unseen' \/ (s = 5 /\ chirped')
  <2>1. SoundFor(sel, v, s) /\ s \notin sel.read /\ s \in moved
    BY <1>3, <1>9 DEF Selected
  <2>2. usedPv[s] /\ previousMode /\ usedBy[s]
    BY <1>9, <2>1, Zenon DEF SoundFor
  <2>3. s \in unseen \/ (s = 5 /\ chirped)
    BY <1>0, <1>9, <2>1, <2>2 DEF NoneForgotten
  <2> QED
    BY <1>2, <2>1, <2>2, <2>3 DEF IsReleased
<1>10. NoneForgotten'
  <2> SUFFICES ASSUME NEW s \in LongStates, longMode', previousMode', usedBy'[s],
                      s \in moved' \/ ~usedPv'[s]
               PROVE  s \in unseen' \/ (s = 5 /\ chirped')
    BY DEF NoneForgotten
  <2>0. longMode /\ (s \in moved' \/ ~usedPv[s])
    OBVIOUS
  <2>1. CASE s = 5 /\ ChirpOn
    BY <1>2, <2>1
  <2>2. CASE ~(s = 5 /\ ChirpOn) /\ s \in sel.reached
    <3>1. sel.usedBy[s] /\ SoundFor(sel, v, s)
      BY <1>1, <2>2 DEF Selected
    <3>2. usedPv[s]
      BY <2>2, <3>1 DEF SoundFor
    <3> QED
      BY <1>9, <2>0, <2>2, <3>1, <3>2
  <2>3. CASE ~(s = 5 /\ ChirpOn) /\ s \notin sel.reached
    <3>1. sel.usedBy[s] /\ SoundFor(sel, v, s) /\ sel.thrown
      BY <1>1, <2>3 DEF Selected
    <3>2. usedBy[s] /\ s \notin sel.read /\ previousMode
      BY <1>2, <2>3, <3>1 DEF SoundFor
    <3>3. s \in unseen \/ (s = 5 /\ chirped)
      BY <1>0, <1>3, <2>0, <3>2 DEF NoneForgotten
    <3> QED
      BY <1>2, <2>3, <3>2, <3>3
  <2> QED
    BY <2>1, <2>2, <2>3
<1>11. ASSUME NEW s \in corrected', s \in moved'
       PROVE  s \in unseen' \/ (s = 5 /\ chirped')
  <2>1. s \in UsedIn(sel) /\ s \in LongStates /\ longMode /\ s \in sel.reached
    BY <1>4, <1>6, <1>11 DEF Selected
  <2>2. CASE s = 5 /\ ChirpOn
    BY <1>2, <2>2
  <2>3. CASE sel.usedBy[s]
    BY <1>9, <1>11, <2>1, <2>3
  <2> QED
    BY <1>5, <2>1, <2>2, <2>3
<1>12. SamplesIn(blenEmpty', measured')
  BY DEF CalculationWith
<1> QED
  BY <1>7, <1>8, <1>10, <1>11, <1>12 DEF LongInv

LEMMA LongNextInv ==
  ASSUME LongInv, LongNext
  PROVE  /\ LongInv'
         /\ \A s \in corrected' : s \in moved' => s \in unseen' \/ (s = 5 /\ chirped')
<1> DEFINE Read == \A s \in corrected' : s \in moved' => s \in unseen' \/ (s = 5 /\ chirped')
<1>0. LongTypeOK /\ NoneForgotten /\ SourcesValid /\ SamplesIn(blenEmpty, measured)
  BY DEF LongInv
<1>1. CASE CalculateLong
  <2>1. PICK v \in SUBSET Measurements, empty \in SUBSET {3, 5} :
           /\ valid' = v /\ firstCalculate' = FALSE
           /\ UNCHANGED <<running, longMode, usedPv>>
           /\ \E cache \in [LongStates -> BOOLEAN] :
                \/ /\ fbckCache' = cache /\ sources' = {} /\ corrected' = {}
                   /\ UNCHANGED <<previousMode, usedBy, actUsedBy, fbckPv, blenEmpty, moved, unseen,
                                  chirped, measured>>
                \/ \E sel : Selected(sel, v, LongStates) /\ CalculationWith(sel, cache, v, empty)
    BY <1>0, <1>1, CalculationCases
  <2>2. PICK cache \in [LongStates -> BOOLEAN] :
                \/ /\ fbckCache' = cache /\ sources' = {} /\ corrected' = {}
                   /\ UNCHANGED <<previousMode, usedBy, actUsedBy, fbckPv, blenEmpty, moved, unseen,
                                  chirped, measured>>
                \/ \E sel : Selected(sel, v, LongStates) /\ CalculationWith(sel, cache, v, empty)
    BY <2>1
  <2>3. CASE /\ fbckCache' = cache /\ sources' = {} /\ corrected' = {}
             /\ UNCHANGED <<previousMode, usedBy, actUsedBy, fbckPv, blenEmpty, moved, unseen,
                            chirped, measured>>
    <3>1. LongTypeOK'
      BY <1>0, <2>1, <2>3 DEF LongTypeOK
    <3>2. SourcesValid' /\ NoneForgotten' /\ SamplesIn(blenEmpty', measured')
      BY <1>0, <2>1, <2>3 DEF SourcesValid, NoneForgotten
    <3> QED
      BY <2>3, <3>1, <3>2 DEF LongInv
  <2>4. CASE \E sel : Selected(sel, v, LongStates) /\ CalculationWith(sel, cache, v, empty)
    <3>1. PICK sel : Selected(sel, v, LongStates) /\ CalculationWith(sel, cache, v, empty)
      BY <2>4
    <3> QED
      BY <2>1, <3>1, CalculationInv
  <2> QED
    BY <2>2, <2>3, <2>4
<1>2. CASE ~CalculateLong
  <2>1. Idle
    BY <1>2 DEF LongNext, LongConfigure, ChangeLongMode, LongDisconnect, SwitchState, MoveActuator
  <2>2. SourcesValid' /\ Read
    BY <2>1 DEF Idle, SourcesValid
  <2>3. None \in [LongStates -> BOOLEAN] /\ \A s \in LongStates : ~None[s]
    BY DEF None
  <2>4. \A actuators \in BOOLEAN :
          [s \in LongStates |-> actuators /\ usedPv[s]] \in [LongStates -> BOOLEAN]
    BY <1>0 DEF LongTypeOK
  <2>5. CASE LongConfigure
    <3>1. /\ {running', longMode', previousMode', firstCalculate', chirped'} \subseteq BOOLEAN
          /\ usedBy' = None /\ fbckCache' = None /\ usedPv' = usedPv
          /\ blenEmpty' = {3, 5} /\ moved' = {} /\ unseen' = {} /\ measured' = {}
      BY <1>0, <2>5 DEF LongConfigure, LongReset, LongTypeOK
    <3>2. actUsedBy' \in [LongStates -> BOOLEAN] /\ fbckPv' \in [LongStates -> BOOLEAN]
      BY <2>4, <2>5 DEF LongConfigure, SetFeedbackDevices
    <3>3. LongTypeOK'
      BY <1>0, <2>1, <2>3, <3>1, <3>2 DEF LongTypeOK, Idle
    <3>4. NoneForgotten'
      BY <2>3, <3>1 DEF NoneForgotten
    <3> QED
      BY <1>0, <2>2, <3>1, <3>3, <3>4 DEF LongInv, SamplesIn
  <2>6. CASE ChangeLongMode
    <3>1. /\ usedBy' = None /\ fbckCache' = fbckCache /\ usedPv' = usedPv
          /\ {running', longMode', previousMode', firstCalculate', chirped'} \subseteq BOOLEAN
          /\ blenEmpty' \subseteq {3, 5} /\ moved' \subseteq LongStates /\ unseen' \subseteq LongStates
          /\ measured' \subseteq {4, 6} /\ SamplesIn(blenEmpty', measured')
      BY <1>0, <2>6 DEF ChangeLongMode, LongReset, LongTypeOK, SamplesIn
    <3>2. actUsedBy' \in [LongStates -> BOOLEAN] /\ fbckPv' \in [LongStates -> BOOLEAN]
      BY <1>0, <2>4, <2>6, <3>1 DEF ChangeLongMode, SetFeedbackDevices
    <3>3. LongTypeOK'
      BY <1>0, <2>1, <2>3, <3>1, <3>2 DEF LongTypeOK, Idle
    <3>4. NoneForgotten'
      BY <2>3, <3>1 DEF NoneForgotten
    <3> QED
      BY <1>0, <2>2, <3>1, <3>3, <3>4 DEF LongInv, SamplesIn
  <2>7. CASE LongDisconnect
    <3>1. /\ running' = FALSE /\ usedBy' = None
          /\ UNCHANGED <<longMode, previousMode, usedPv, fbckCache, firstCalculate, blenEmpty,
                         moved, unseen, chirped, measured>>
      BY <2>7 DEF LongDisconnect
    <3>2. actUsedBy' \in [LongStates -> BOOLEAN] /\ fbckPv' \in [LongStates -> BOOLEAN]
      BY <2>4, <2>7 DEF LongDisconnect, SetFeedbackDevices
    <3>3. LongTypeOK'
      BY <1>0, <2>1, <2>3, <3>1, <3>2 DEF LongTypeOK, Idle
    <3>4. NoneForgotten'
      BY <2>3, <3>1 DEF NoneForgotten
    <3> QED
      BY <1>0, <2>2, <3>1, <3>3, <3>4 DEF LongInv, SamplesIn
  <2>8. CASE SwitchState
    <3>1. PICK s \in Operated :
             /\ usedPv' = [usedPv EXCEPT ![s] = ~@]
             /\ unseen' = IF usedPv[s] THEN unseen \cup Released(s) ELSE unseen
      BY <2>8 DEF SwitchState
    <3>2. UNCHANGED <<running, longMode, previousMode, usedBy, actUsedBy, fbckCache, fbckPv,
                      firstCalculate, blenEmpty, moved, chirped, measured>>
      BY <2>8 DEF SwitchState
    <3>3. s \in LongStates /\ s \in Released(s) /\ Released(s) \subseteq LongStates
      BY LongAssumption DEF Released, LongStates
    <3>4. /\ usedPv' \in [LongStates -> BOOLEAN]
          /\ \A t \in LongStates : t # s => usedPv'[t] = usedPv[t]
          /\ usedPv'[s] = ~usedPv[s]
      BY <1>0, <3>1, <3>3 DEF LongTypeOK
    <3>5. LongTypeOK'
      BY <1>0, <2>1, <3>1, <3>2, <3>3, <3>4 DEF LongTypeOK, Idle
    <3>6. NoneForgotten'
      BY <1>0, <3>1, <3>2, <3>3, <3>4 DEF NoneForgotten
    <3> QED
      BY <1>0, <2>2, <3>2, <3>5, <3>6 DEF LongInv
  <2>9. CASE MoveActuator
    <3>1. PICK s \in Operated \ moved : /\ ~longMode \/ IsReleased(s)
                                        /\ moved' = moved \cup {s}
      BY <2>9 DEF MoveActuator
    <3>2. UNCHANGED <<running, longMode, previousMode, usedPv, usedBy, actUsedBy, fbckCache,
                      fbckPv, firstCalculate, blenEmpty, unseen, chirped, measured>>
      BY <2>9 DEF MoveActuator
    <3>3. s \in LongStates
      BY LongAssumption
    <3>4. LongTypeOK'
      BY <1>0, <2>1, <3>1, <3>2, <3>3 DEF LongTypeOK, Idle
    <3>5. NoneForgotten'
      BY <1>0, <3>1, <3>2, <3>3 DEF NoneForgotten, IsReleased
    <3> QED
      BY <1>0, <2>2, <3>2, <3>4, <3>5 DEF LongInv
  <2> QED
    BY <1>2, <2>5, <2>6, <2>7, <2>8, <2>9 DEF LongNext
<1> QED
  BY <1>1, <1>2

LEMMA LongStutterInv ==
  ASSUME LongInv, UNCHANGED longVars
  PROVE  LongInv'
BY DEF LongInv, LongTypeOK, SourcesValid, NoneForgotten, SamplesIn, longVars

LEMMA LongInvariant == LongSpec => []LongInv
<1>1. LongInv /\ [LongNext]_longVars => LongInv'
  BY LongNextInv, LongStutterInv
<1> QED
  BY <1>1, LongInitInv, PTL DEF LongSpec

\* The variables of the longitudinal feedback keep their types.
THEOREM LongTypeCorrect == LongSpec => []LongTypeOK
<1>1. LongInv => LongTypeOK
  BY DEF LongInv
<1> QED
  BY <1>1, LongInvariant, PTL

\* Every energy that a calculation uses is made of measurements that have beam in the
\* same pulse, and every current of an average that got a bunch length since the section
\* of its state cleared it (checkMeasurementStatus, the select, calculateEnergy and
\* calculateCurrent methods of Longitudinal), whatever the chirp takes for valid.
THEOREM SourcesAreValid == LongSpec => []SourcesValid
<1>1. LongInv => SourcesValid
  BY DEF LongInv
<1> QED
  BY <1>1, LongInvariant, PTL

\* An actuator that operators moved while it was released is read before Longitudinal
\* corrects it, for all patterns of beam, of USED PVs and of reads that fail.
THEOREM ReleasedIsReadAgain == LongSpec => CorrectedFromCurrent
<1> DEFINE Read == \A s \in corrected' : s \in moved' => s \in unseen' \/ (s = 5 /\ chirped')
<1>1. LongInv /\ [LongNext]_longVars => [Read]_longVars
  BY LongNextInv
<1> QED
  BY <1>1, LongInvariant, PTL DEF LongSpec, CorrectedFromCurrent

-----------------------------------------------------------------------------
(* The handshake of LongitudinalChirp with chirpControl and chirpUpdate *)

\* While S5 is not used, the programs can only hand back the chirp that there is.
TurningOn ==
  /\ update \in {NoUpdate, bc2Chirp}
  /\ program # "WAIT_CHIRP_NOT_READY"
  /\ program # "CHIRP_OFF" => monitored
  /\ monitored => chirpState
  /\ program = "WAIT_CHIRP" => chirpValue = bc2Chirp
  /\ chirpReady <=> program \in {"WAIT_CHIRP_READY", "CHIRP_ON"}
  /\ chirpReady => chirpDes = bc2Chirp

\* While it is used, chirpControl is on its way back to CHIRP_OFF.
TurningOff ==
  /\ program \in {"CHIRP_ON", "WAIT_CHIRP_NOT_READY", "CHIRP_OFF"}
  /\ chirpState => monitored
  /\ monitored => program = "CHIRP_ON"
  /\ chirpReady <=> program # "CHIRP_OFF"

ChirpInv ==
  /\ ChirpTypeOK
  /\ ~hurried => IF s5Used THEN TurningOff ELSE TurningOn

LEMMA ChirpInitInv == ChirpInit => ChirpInv
<1> SUFFICES ASSUME ChirpInit PROVE ChirpInv
  OBVIOUS
<1>1. 0 \in Chirps
  BY ChirpAssumption DEF Chirps
<1>2. ChirpTypeOK
  BY <1>1 DEF ChirpInit, ChirpTypeOK, NoUpdate
<1> QED
  BY <1>2 DEF ChirpInit, ChirpInv, TurningOff

\* The values that CalculateChirp computes stay in their range.
LEMMA CalculateChirpTypes ==
  ASSUME ChirpTypeOK, CalculateChirp
  PROVE  ChirpTypeOK'
<1>1. chirpState' = ~s5Used /\ chirpControl' = ~s5Used
  BY DEF CalculateChirp, CheckChirpControl
<1>2. \A justOn \in BOOLEAN : ResetActuators(justOn) \in Chirps
  BY DEF ResetActuators, CalculateInitialStates, ChirpTypeOK
<1>3. bc2Chirp' \in Chirps /\ previous' \in Chirps /\ firstCycle' \in BOOLEAN
  <2>1. CASE chirpReady = ~s5Used
    <3>1. PICK justOn \in {FALSE, s5Used}, sent \in BOOLEAN :
             UpdateChirpActuators(~s5Used, justOn, sent) \/ IsChirpInvalid(justOn)
      BY <2>1 DEF CalculateChirp
    <3>2. justOn \in BOOLEAN /\ firstCycle' = FALSE
      BY <2>1 DEF ChirpTypeOK, CalculateChirp
    <3> QED
      BY <1>2, <3>1, <3>2 DEF UpdateChirpActuators, IsChirpInvalid, ChirpTypeOK
  <2>2. CASE chirpReady # ~s5Used
    BY <2>2 DEF CalculateChirp, ChirpTypeOK
  <2> QED
    BY <2>1, <2>2
<1>4. UNCHANGED <<s5Used, chirpReady, chirpDes, program, monitored, chirpValue, update, hurried>>
  BY DEF CalculateChirp
<1> QED
  BY <1>1, <1>3, <1>4 DEF ChirpTypeOK

LEMMA CalculateChirpInv ==
  ASSUME ChirpInv, CalculateChirp
  PROVE  ChirpInv' /\ (chirpControl' /\ ~hurried => bc2Chirp' = bc2Chirp)
<1>1. ChirpTypeOK /\ ChirpTypeOK'
  BY CalculateChirpTypes DEF ChirpInv
<1>2. /\ chirpState' = ~s5Used /\ chirpControl' = ~s5Used
      /\ UNCHANGED <<s5Used, chirpReady, chirpDes, program, monitored, chirpValue, update, hurried>>
  BY DEF CalculateChirp, CheckChirpControl
<1>3. ~s5Used /\ ~chirpReady => bc2Chirp' = bc2Chirp
  BY <1>1 DEF CalculateChirp, ChirpTypeOK
<1>4. ~s5Used /\ chirpReady => bc2Chirp' \in {chirpDes, bc2Chirp}
  BY <1>1 DEF CalculateChirp, ChirpTypeOK, UpdateChirpActuators, CalculateAmplitudeAndPhase,
              IsChirpInvalid
<1>5. CASE hurried
  BY <1>1, <1>2, <1>5 DEF ChirpInv
<1>6. CASE ~hurried /\ s5Used
  BY <1>1, <1>2, <1>6 DEF ChirpInv, TurningOff
<1>7. CASE ~hurried /\ ~s5Used
  <2>1. bc2Chirp' = bc2Chirp
    BY <1>3, <1>4, <1>7 DEF ChirpInv, TurningOn
  <2> QED
    BY <1>1, <1>2, <1>7, <2>1 DEF ChirpInv, TurningOn
<1> QED
  BY <1>1, <1>5, <1>6, <1>7 DEF ChirpTypeOK

LEMMA ProgramInv ==
  ASSUME ChirpInv, ChirpProgram
  PROVE  ChirpInv' /\ bc2Chirp' = bc2Chirp
<1>0. ChirpTypeOK /\ UNCHANGED loopVars
  BY DEF ChirpInv, ChirpProgram, ChirpMonitor, CHIRP_OFF, WAIT_CHIRP, WAIT_CHIRP_READY, CHIRP_ON,
         WAIT_CHIRP_NOT_READY
<1>1. ChirpTypeOK'
  BY <1>0 DEF ChirpProgram, ChirpMonitor, CHIRP_OFF, WAIT_CHIRP, WAIT_CHIRP_READY, CHIRP_ON,
              WAIT_CHIRP_NOT_READY, loopVars, ChirpTypeOK
<1>2. CASE hurried
  BY <1>0, <1>1, <1>2 DEF ChirpInv, loopVars
<1>3. CASE ~hurried /\ s5Used
  <2>1. TurningOff
    BY <1>3 DEF ChirpInv
  <2>2. TurningOff'
    BY <1>0, <2>1 DEF ChirpProgram, ChirpMonitor, CHIRP_OFF, WAIT_CHIRP, WAIT_CHIRP_READY,
                      CHIRP_ON, WAIT_CHIRP_NOT_READY, loopVars, ChirpTypeOK, TurningOff
  <2> QED
    BY <1>0, <1>1, <1>3, <2>2 DEF ChirpInv, loopVars
<1>4. CASE ~hurried /\ ~s5Used
  <2>1. TurningOn
    BY <1>4 DEF ChirpInv
  <2>2. TurningOn'
    BY <1>0, <2>1 DEF ChirpProgram, ChirpMonitor, CHIRP_OFF, WAIT_CHIRP, WAIT_CHIRP_READY,
                      CHIRP_ON, WAIT_CHIRP_NOT_READY, loopVars, ChirpTypeOK, TurningOn
  <2> QED
    BY <1>0, <1>1, <1>4, <2>2 DEF ChirpInv, loopVars
<1> QED
  BY <1>0, <1>2, <1>3, <1>4 DEF ChirpTypeOK, loopVars

LEMMA ChirpNextInv ==
  ASSUME ChirpInv, ChirpNext
  PROVE  ChirpInv' /\ (chirpControl' /\ ~hurried => bc2Chirp' = bc2Chirp)
<1>0. ChirpTypeOK
  BY DEF ChirpInv
<1>1. CASE GetInitialValuesFails
  BY <1>0, <1>1 DEF GetInitialValuesFails, ChirpInv, ChirpTypeOK, TurningOff, TurningOn
<1>2. CASE UpdateGet
  BY <1>0, <1>2 DEF UpdateGet, loopVars, ChirpInv, ChirpTypeOK, TurningOff, TurningOn
<1>3. CASE UpdatePut
  BY <1>0, <1>3 DEF UpdatePut, loopVars, ChirpInv, ChirpTypeOK, TurningOff, TurningOn
<1>4. CASE SwitchS5
  <2>1. ChirpTypeOK'
    BY <1>0, <1>4 DEF SwitchS5, ChirpTypeOK, Settled
  <2>2. ~hurried' => ~hurried /\ Settled
    BY <1>0, <1>4 DEF SwitchS5, ChirpTypeOK, Settled
  <2>3. CASE ~hurried' /\ s5Used
    <3>1. TurningOn'
      BY <1>0, <1>4, <2>2, <2>3 DEF SwitchS5, ChirpInv, ChirpTypeOK, Settled, TurningOff, TurningOn
    <3> QED
      BY <1>0, <1>4, <2>1, <2>3, <3>1 DEF SwitchS5, ChirpInv
  <2>4. CASE ~hurried' /\ ~s5Used
    <3>1. TurningOff'
      BY <1>0, <1>4, <2>2, <2>4 DEF SwitchS5, ChirpInv, ChirpTypeOK, Settled, TurningOff, TurningOn
    <3> QED
      BY <1>0, <1>4, <2>1, <2>4, <3>1 DEF SwitchS5, ChirpInv
  <2> QED
    BY <1>4, <2>1, <2>3, <2>4 DEF SwitchS5, ChirpInv
<1> QED
  BY <1>1, <1>2, <1>3, <1>4, CalculateChirpInv, ProgramInv DEF ChirpNext

LEMMA ChirpStutterInv ==
  ASSUME ChirpInv, UNCHANGED chirpVars
  PROVE  ChirpInv'
BY DEF ChirpInv, ChirpTypeOK, TurningOn, TurningOff, chirpVars

\* Fairness is not needed for it.
LEMMA ChirpInvariant == ChirpInit /\ [][ChirpNext]_chirpVars => []ChirpInv
<1>1. ChirpInv /\ [ChirpNext]_chirpVars => ChirpInv'
  BY ChirpNextInv, ChirpStutterInv
<1> QED
  BY <1>1, ChirpInitInv, PTL

\* The chirp, its PVs and the states of the programs keep their types.
THEOREM ChirpTypeCorrect == ChirpSpec => []ChirpTypeOK
<1>1. ChirpInv => ChirpTypeOK
  BY DEF ChirpInv
<1> QED
  BY <1>1, ChirpInvariant, PTL DEF ChirpSpec

\* Turning the chirp control on does not move the beam: the handshake of CHIRPSTATE and
\* CHIRPREADY lets the loop proceed only once CHIRPDES is the chirp that there is, for
\* all delays of chirpControl and chirpUpdate, of reads that fail, and skipped writes.
THEOREM ChirpIsHeld == ChirpSpec => ChirpHeld
<1> DEFINE Held == chirpControl' /\ ~hurried => bc2Chirp' = bc2Chirp
<1>1. ChirpInv /\ [ChirpNext]_chirpVars => [Held]_chirpVars
  BY ChirpNextInv
<1> QED
  BY <1>1, ChirpInvariant, PTL DEF ChirpSpec, ChirpHeld

-----------------------------------------------------------------------------
(* The monitors and matrices of a fit *)

\* A fiducial is calculated while the loop is ON; where InjectorLaunch restores its
\* monitors from, and what it restored.
LaunchCollected ==
  /\ checked => active
  /\ active /\ algorithm = "launch" =>
       /\ launch.all \subseteq collected /\ launch.normal.rows \subseteq collected
       /\ launch.spectrometer.rows \subseteq collected
       /\ fitted # {} => launch.all \subseteq selected

\* What a fit is set up with belongs to its monitors, row by row.
RowsAgree(saved) == saved.f.rows = Positions(saved.rows) /\ saved.orbit = Positions(saved.rows)

\* InjectorLaunch saved the right rows for both beam configurations.
RowsSaved ==
  active /\ algorithm = "launch" =>
    /\ launch.normal.rows = counted /\ launch.spectrometer.rows = counted \ Downstream
    /\ RowsAgree(launch.normal) /\ RowsAgree(launch.spectrometer)

\* The inverse is that of the G matrix that was loaded last; no matrix is newer than
\* its PV, nor that of the fit than the one that was loaded last.
VersionsAgree ==
  /\ fit.f.version <= matrixPv
  /\ launch.normal.f.version <= matrixPv /\ launch.spectrometer.f.version <= matrixPv
  /\ active => fit.f.version <= config.f.version
  /\ active /\ ~SquareG /\ algorithm \in {"pinv", "poly"} => pinv = config.g

FitInv ==
  /\ FitTypeOK /\ CollectedWhileOn /\ FitRowsAgree /\ RowsSaved /\ LaunchCollected
  /\ VersionsAgree

LEMMA NothingTypes ==
  /\ NoMatrix \in Matrices /\ NoFit \in Fits /\ NoLaunch \in Launches
  /\ NoFit.f.version = 0
  /\ NoLaunch.normal = NoFit /\ NoLaunch.spectrometer = NoFit /\ NoLaunch.all = {}
<1>1. 0 \in 0 .. MaxVersion
  BY FitAssumption
<1>2. NoMatrix \in Matrices /\ NoMatrix.version = 0
  BY <1>1 DEF NoMatrix, Matrices, RowSets
<1>3. NoFit \in Fits /\ NoFit.f.version = 0
  BY <1>2 DEF NoFit, Fits, RowSets
<1> QED
  BY <1>2, <1>3 DEF NoLaunch, Launches

LEMMA FitInitInv == FitInit => FitInv
<1> SUFFICES ASSUME FitInit PROVE FitInv
  OBVIOUS
<1>1. algorithmPv \in Algorithms
  BY FitAssumption DEF FitInit
<1>2. 0 \in 0 .. MaxVersion /\ Undefined \in Undefined .. MaxVersion
  BY FitAssumption DEF Undefined
<1>3. config \in Configs
  BY <1>2, NothingTypes DEF FitInit, Configs, RowSets
<1>4. FitTypeOK
  BY <1>1, <1>2, <1>3, NothingTypes DEF FitInit, FitTypeOK
<1>5. /\ fit.f.version = 0 /\ launch.normal.f.version = 0 /\ launch.spectrometer.f.version = 0
      /\ matrixPv = 0 /\ ~active /\ ~checked
  BY NothingTypes DEF FitInit
<1> QED
  BY <1>4, <1>5 DEF FitInv, CollectedWhileOn, FitRowsAgree, RowsSaved, LaunchCollected, VersionsAgree

\* Monitors of a set have different places, within the number of them.
LEMMA RankOfMonitor ==
  ASSUME NEW S \in SUBSET Bpms, NEW b \in S
  PROVE  /\ Rank(b, S) \in 1 .. Cardinality(Bpms)
         /\ \A c \in S : Rank(c, S) = Rank(b, S) => c = b
<1> DEFINE UpTo(x) == {y \in S : y <= x}
<1>1. \A x \in S : x \in Nat /\ x \in UpTo(x) /\ UpTo(x) \in SUBSET Bpms
  <2>1. S \subseteq Nat
    BY FitAssumption
  <2>2. \A x \in S : x \in Nat /\ x <= x
    BY <2>1
  <2> QED
    BY <2>2
<1>2. \A x \in S : IsFiniteSet(UpTo(x)) /\ Cardinality(UpTo(x)) <= Cardinality(Bpms)
  BY <1>1, FS_Subset, FitAssumption
<1>3. \A x \in S : Cardinality(UpTo(x)) \in Nat /\ Cardinality(UpTo(x)) # 0
  BY <1>1, <1>2, FS_CardinalityType, FS_EmptySet
<1>4. Cardinality(Bpms) \in Nat
  BY FS_CardinalityType, FitAssumption
<1>5. ASSUME NEW x \in S, NEW y \in S, x < y
      PROVE  Cardinality(UpTo(x)) # Cardinality(UpTo(y))
  <2>1. UpTo(x) \in SUBSET UpTo(y) /\ y \notin UpTo(x) /\ y \in UpTo(y)
    BY <1>1, <1>5
  <2> QED
    BY <1>2, <2>1, FS_Subset
<1> HIDE DEF UpTo
<1>6. ASSUME NEW c \in S, Cardinality(UpTo(c)) = Cardinality(UpTo(b))
      PROVE  c = b
  <2>1. b \in Nat /\ c \in Nat
    BY <1>1
  <2>2. ~(b < c) /\ ~(c < b)
    BY <1>5, <1>6
  <2> QED
    BY <2>1, <2>2
<1>7. \A x \in S : Rank(x, S) = Cardinality(UpTo(x))
  BY DEF Rank, UpTo
<1> QED
  BY <1>2, <1>3, <1>4, <1>6, <1>7

\* The row at the place of a monitor is its own.
LEMMA RowOfMonitor ==
  ASSUME NEW S \in SUBSET Bpms
  PROVE  Positions(S) \in RowSets /\ \A b \in S : Row(Positions(S), Rank(b, S)) = b
<1>1. Positions(S) \in RowSets
  <2>1. \A b \in S : <<Rank(b, S), b>> \in (1 .. Cardinality(Bpms)) \X Bpms
    BY RankOfMonitor
  <2> QED
    BY <2>1 DEF Positions, RowSets
<1>2. ASSUME NEW b \in S
      PROVE  Row(Positions(S), Rank(b, S)) = b
  <2> DEFINE row == CHOOSE row \in Positions(S) : row[1] = Rank(b, S)
  <2>1. <<Rank(b, S), b>> \in Positions(S)
    BY DEF Positions
  <2>2. row \in Positions(S) /\ row[1] = Rank(b, S)
    BY <2>1
  <2> HIDE DEF row
  <2>3. PICK c \in S : row = <<Rank(c, S), c>>
    BY <2>2 DEF Positions
  <2>4. Rank(c, S) = Rank(b, S) /\ row[2] = c
    BY <2>2, <2>3
  <2>5. c = b
    BY <2>4, RankOfMonitor
  <2> QED
    BY <2>4, <2>5 DEF Row, row
<1> QED
  BY <1>1, <1>2

\* What the matrices are made of.
LEMMA MatrixOfPv ==
  ASSUME FitTypeOK, NEW rows \in SUBSET Bpms
  PROVE  /\ FMatrix(rows) \in Matrices /\ FMatrix(rows).rows = Positions(rows)
         /\ FMatrix(rows).version = matrixPv
BY RowOfMonitor DEF FMatrix, Matrices, FitTypeOK

\* saveFMatrix and saveReferenceOrbit find the rows of the monitors that are kept.
LEMMA SavedForKept ==
  ASSUME FitTypeOK, NEW all \in SUBSET Bpms, fitUsedPv \subseteq all, NEW kept \in SUBSET fitUsedPv
  PROVE  LET saved == Saved(all, FMatrix(fitUsedPv), ReferenceOrbit, kept) IN
         saved \in Fits /\ saved.rows = kept /\ saved.f.version = matrixPv /\ RowsAgree(saved)
<1> DEFINE f == FMatrix(fitUsedPv)
           orbit == SaveReferenceOrbit(all, ReferenceOrbit, kept)
<1>1. Normal(all) = fitUsedPv /\ fitUsedPv \in SUBSET Bpms /\ kept \in SUBSET Bpms
  BY DEF Normal, FitTypeOK
<1>2. f \in Matrices /\ f.rows = Positions(fitUsedPv) /\ f.version = matrixPv
  BY <1>1, MatrixOfPv
<1>3. \A b \in kept : Row(Positions(fitUsedPv), Rank(b, fitUsedPv)) = b
  BY <1>1, RowOfMonitor
<1>4. Positions(kept) \in RowSets
  BY <1>1, RowOfMonitor
<1>5. orbit = Positions(kept)
  BY <1>1, <1>3 DEF SaveReferenceOrbit, ReferenceOrbit, Positions
<1> HIDE DEF f, orbit
<1>6. {<<Rank(b, kept), Row(f.rows, Rank(b, Normal(all)))>> : b \in kept} = Positions(kept)
  BY <1>1, <1>2, <1>3 DEF Positions
<1>7. /\ SaveFMatrix(all, f, kept) = [f EXCEPT !.rows = Positions(kept)]
      /\ SaveFMatrix(all, f, kept) \in Matrices
      /\ SaveFMatrix(all, f, kept).rows = Positions(kept)
      /\ SaveFMatrix(all, f, kept).version = matrixPv
  BY <1>2, <1>4, <1>6 DEF SaveFMatrix, Matrices
<1>8. Saved(all, f, ReferenceOrbit, kept)
        = [rows |-> kept, f |-> SaveFMatrix(all, f, kept), orbit |-> Positions(kept)]
  BY <1>5 DEF Saved, ReallyConfig, orbit
<1>9. ASSUME NEW saved, saved = Saved(all, f, ReferenceOrbit, kept)
      PROVE  saved \in Fits /\ saved.rows = kept /\ saved.f.version = matrixPv /\ RowsAgree(saved)
  <2>1. /\ saved = [rows |-> kept, f |-> SaveFMatrix(all, f, kept), orbit |-> Positions(kept)]
        /\ saved.rows = kept /\ saved.f = SaveFMatrix(all, f, kept) /\ saved.orbit = Positions(kept)
    BY <1>8, <1>9
  <2>2. saved \in Fits
    BY <1>1, <1>4, <1>7, <2>1 DEF Fits
  <2>3. saved.f.version = matrixPv /\ saved.f.rows = Positions(kept)
    BY <1>7, <2>1
  <2> QED
    BY <2>1, <2>2, <2>3 DEF RowsAgree
<1> QED
  BY <1>9, Zenon DEF f

\* A start, failed or not: whichever algorithm it is, the fit, the copies in
\* LoopConfiguration and the selected monitors are those of the same measurements.
FitConfigured(measurements) ==
  /\ config' \in Configs
  /\ fit' \in Fits
  /\ launch' \in Launches
  /\ pinv' \in Undefined .. MaxVersion /\ active' \in BOOLEAN
  /\ selected' \subseteq measurements /\ fit'.f.version <= matrixPv
  /\ launch'.normal.f.version <= matrixPv /\ launch'.spectrometer.f.version <= matrixPv
  /\ active' =>
       /\ fit'.rows \subseteq measurements /\ fit'.f.version <= config'.f.version
       /\ launch'.all \subseteq measurements /\ launch'.normal.rows \subseteq measurements
       /\ launch'.spectrometer.rows \subseteq measurements
       /\ algorithm' = "launch" =>
            /\ launch'.beam = "Normal" /\ fit' = launch'.normal
            /\ launch'.normal.rows = counted' /\ launch'.spectrometer.rows = counted' \ Downstream
            /\ RowsAgree(launch'.normal) /\ RowsAgree(launch'.spectrometer)
       /\ ~SquareG /\ algorithm' \in {"pinv", "poly"} => pinv' = config'.g

LEMMA StartConfigures ==
  ASSUME FitTypeOK, Start
  PROVE  FitConfigured(SelectedDevices(selectAllPv'))
<1> SUFFICES ASSUME NEW measurements, measurements = SelectedDevices(selectAllPv')
             PROVE  FitConfigured(measurements)
  OBVIOUS
<1>1. /\ active = FALSE /\ counted' = fitUsedPv /\ algorithm' = algorithmPv /\ fitUsedPv \subseteq Bpms
      /\ matrixPv \in 0 .. MaxVersion /\ selected \subseteq Bpms /\ algorithmPv \in Algorithms
      /\ MaxVersion \in Nat
  BY FitAssumption DEF Start, FitTypeOK
<1>2. measurements \subseteq Bpms /\ fitUsedPv \subseteq measurements
  BY <1>1 DEF SelectedDevices
<1>3. /\ algorithm' \in {"static", "by1"} => ConfigureStatic(measurements)
      /\ algorithm' = "pinv" => ConfigurePinv(measurements)
      /\ algorithm' = "poly" => ConfigurePoly(measurements)
      /\ algorithm' = "eact" => ConfigureEact(measurements)
      /\ algorithm' = "launch" => ConfigureLaunch(measurements)
  BY DEF Start
<1>4. /\ FMatrix(fitUsedPv) \in Matrices /\ FMatrix(fitUsedPv).version = matrixPv
      /\ ReferenceOrbit \in RowSets
  BY <1>1, MatrixOfPv, RowOfMonitor DEF ReferenceOrbit
<1>6. Undefined \in Undefined .. MaxVersion /\ PseudoInverse(GMatrix) \in Undefined .. MaxVersion
  BY <1>1, FitAssumption DEF Undefined, PseudoInverse, GMatrix
<1>7. ASSUME NEW f \in Matrices, f.version \in {0, matrixPv},
             fit' = ReallyConfig(measurements, f, ReferenceOrbit), launch' = NoLaunch,
             config' = [f |-> f, orbit |-> ReferenceOrbit, g |-> GMatrix],
             pinv' \in Undefined .. MaxVersion,
             ~SquareG /\ algorithm' \in {"pinv", "poly"} => pinv' = matrixPv,
             selected' = measurements, active' = TRUE, algorithm' # "launch"
      PROVE  FitConfigured(measurements)
  <2>1. fit' \in Fits /\ fit'.rows = measurements /\ fit'.f = f
    BY <1>2, <1>4, <1>7 DEF ReallyConfig, Fits
  <2>2. config' \in Configs /\ config'.f = f /\ config'.g = matrixPv
    BY <1>1, <1>4, <1>7 DEF Configs, GMatrix
  <2>3. ~SquareG /\ algorithm' \in {"pinv", "poly"} => pinv' = config'.g
    BY <1>7, <2>2
  <2>4. fit'.f.version <= matrixPv /\ fit'.f.version <= config'.f.version
    BY <1>1, <1>7, <2>1, <2>2
  <2>5. /\ launch' \in Launches /\ launch'.all = {}
        /\ launch'.normal.rows = {} /\ launch'.spectrometer.rows = {}
        /\ launch'.normal.f.version <= matrixPv /\ launch'.spectrometer.f.version <= matrixPv
    BY <1>1, <1>7, NothingTypes DEF NoFit
  <2> QED
    BY <1>7, <2>1, <2>2, <2>3, <2>4, <2>5 DEF FitConfigured
<1>8. ASSUME ConfigureStatic(measurements), algorithm' \notin {"pinv", "poly", "launch"}
      PROVE  FitConfigured(measurements)
  <2>1. /\ pinv' \in Undefined .. MaxVersion
        /\ ~SquareG /\ algorithm' \in {"pinv", "poly"} => pinv' = matrixPv
    BY <1>6, <1>8 DEF ConfigureStatic
  <2> QED
    BY <1>4, <1>7, <1>8, <2>1 DEF ConfigureStatic
<1>9. ASSUME fit' = NoFit, launch' = NoLaunch, pinv' = Undefined, UNCHANGED active,
             config' = [f |-> FMatrix(fitUsedPv), orbit |-> ReferenceOrbit, g |-> GMatrix],
             selected' = measurements
      PROVE  FitConfigured(measurements)
  <2>1. config' \in Configs
    BY <1>1, <1>4, <1>9 DEF Configs, GMatrix
  <2>2. ~active' /\ active' \in BOOLEAN
    BY <1>1, <1>9
  <2>3. /\ fit' \in Fits
        /\ fit'.f.version <= matrixPv
    BY <1>1, <1>9, NothingTypes
  <2>4. /\ launch' \in Launches
        /\ launch'.normal.f.version <= matrixPv /\ launch'.spectrometer.f.version <= matrixPv
    BY <1>1, <1>9, NothingTypes
  <2>5. pinv' \in Undefined .. MaxVersion /\ selected' \subseteq measurements
    BY <1>6, <1>9
  <2> QED
    BY <2>1, <2>2, <2>3, <2>4, <2>5, Zenon DEF FitConfigured
<1>10. CASE algorithm' \in {"static", "by1"}
  <2>1. ConfigureStatic(measurements)
    BY <1>3, <1>10
  <2>2. algorithm' \notin {"pinv", "poly", "launch"}
    BY <1>10
  <2> QED
    BY <1>8, <2>1, <2>2, Zenon
<1>11. CASE algorithm' = "pinv"
  <2>1. ConfigurePinv(measurements)
    BY <1>3, <1>11
  <2> QED
    <3>1. FMatrix(fitUsedPv).version \in {0, matrixPv} /\ algorithm' # "launch"
      BY <1>4, <1>11
    <3>2. pinv' \in Undefined .. MaxVersion /\ (~SquareG => pinv' = matrixPv)
      BY <1>6, <2>1 DEF ConfigurePinv, PseudoInverse, GMatrix
    <3> QED
      BY <1>4, <1>7, <2>1, <3>1, <3>2 DEF ConfigurePinv
<1>12. CASE algorithm' = "poly"
  <2>1. PolyFMatrix(measurements) \in Matrices /\ PolyFMatrix(measurements).version = 0
    BY <1>1, <1>2, RowOfMonitor DEF PolyFMatrix, Matrices
  <2>2. ConfigurePoly(measurements)
    BY <1>3, <1>12
  <2> QED
    <3>1. PolyFMatrix(measurements).version \in {0, matrixPv} /\ algorithm' # "launch"
      BY <1>12, <2>1
    <3>2. /\ fit' = ReallyConfig(measurements, PolyFMatrix(measurements), ReferenceOrbit)
          /\ launch' = NoLaunch
          /\ config' = [f |-> PolyFMatrix(measurements), orbit |-> ReferenceOrbit, g |-> GMatrix]
          /\ selected' = measurements /\ active' = TRUE
      BY <2>2 DEF ConfigurePoly
    <3>3. pinv' \in Undefined .. MaxVersion /\ (~SquareG => pinv' = matrixPv)
      BY <1>6, <2>2 DEF ConfigurePoly, PseudoInverse, GMatrix
    <3> QED
      BY <1>7, <2>1, <3>1, <3>2, <3>3
<1>13. CASE algorithm' = "eact"
  <2>1. ConfigureEact(measurements)
    BY <1>3, <1>13
  <2>2. algorithm' \notin {"pinv", "poly", "launch"}
    BY <1>13
  <2>3. CASE ConfigureStatic(measurements)
    BY <1>8, <2>2, <2>3, Zenon
  <2>4. CASE ~ConfigureStatic(measurements)
    BY <1>9, <2>1, <2>4, Zenon DEF ConfigureEact
  <2> QED
    BY <2>3, <2>4
<1>14. CASE algorithm' = "launch"
  <2>1. ConfigureLaunch(measurements)
    BY <1>3, <1>14
  <2>2. CASE ~({M5, M6} \subseteq fitUsedPv)
    <3>1. /\ fit' = NoFit /\ launch' = NoLaunch /\ pinv' = Undefined /\ UNCHANGED active
          /\ config' = [f |-> FMatrix(fitUsedPv), orbit |-> ReferenceOrbit, g |-> GMatrix]
          /\ selected' = measurements
      BY <2>1, <2>2 DEF ConfigureLaunch
    <3> QED
      BY <1>9, <3>1
  <2>3. CASE {M5, M6} \subseteq fitUsedPv
    <3> DEFINE normal == Saved(measurements, FMatrix(fitUsedPv), ReferenceOrbit,
                               Normal(measurements))
               spectrometer == Saved(measurements, FMatrix(fitUsedPv), ReferenceOrbit,
                                     Spectrometer(measurements))
    <3>1. /\ launch' = [beam |-> "Normal", all |-> measurements, normal |-> normal,
                        spectrometer |-> spectrometer]
          /\ config' = [f |-> normal.f, orbit |-> normal.orbit, g |-> GMatrix]
          /\ fit' = normal /\ selected' = normal.rows /\ active' = TRUE /\ pinv' = Undefined
      BY <2>1, <2>3 DEF ConfigureLaunch
    <3>2. Normal(measurements) = fitUsedPv /\ Spectrometer(measurements) = fitUsedPv \ Downstream
      BY <1>2 DEF Normal, Spectrometer
    <3>3. /\ normal \in Fits /\ normal.rows = fitUsedPv /\ normal.f.version = matrixPv
          /\ RowsAgree(normal)
      <4>1. Normal(measurements) \in SUBSET fitUsedPv
        BY <3>2
      <4> QED
        BY <1>2, <3>2, <4>1, SavedForKept
    <3>4. /\ spectrometer \in Fits /\ spectrometer.rows = fitUsedPv \ Downstream
          /\ spectrometer.f.version = matrixPv /\ RowsAgree(spectrometer)
      <4>1. Spectrometer(measurements) \in SUBSET fitUsedPv
        BY <3>2
      <4> QED
        BY <1>2, <3>2, <4>1, SavedForKept
    <3> HIDE DEF normal, spectrometer
    <3>5. normal.f \in Matrices /\ normal.orbit \in RowSets
      BY <3>3 DEF Fits
    <3>6. config' \in Configs /\ config'.f.version = matrixPv
      BY <1>1, <3>1, <3>3, <3>5 DEF Configs, GMatrix
    <3>7. /\ launch' \in Launches /\ launch'.beam = "Normal" /\ launch'.all = measurements
          /\ launch'.normal = normal /\ launch'.spectrometer = spectrometer
      BY <1>2, <3>1, <3>3, <3>4 DEF Launches
    <3> QED
      BY <1>1, <1>2, <1>6, <1>14, <3>1, <3>3, <3>4, <3>6, <3>7 DEF FitConfigured
  <2> QED
    BY <2>2, <2>3
<1> QED
  BY <1>1, <1>10, <1>11, <1>12, <1>13, <1>14, FitAssumption

\* A start: what is selected and what the fit uses was given to the collector.
LEMMA SuccessfulStartInv == ASSUME FitInv, Start PROVE FitInv'
<1> DEFINE measurements == SelectedDevices(selectAllPv')
<1>0. FitTypeOK /\ CollectedWhileOn /\ LaunchCollected /\ VersionsAgree
  BY DEF FitInv
<1>1. FitConfigured(measurements)
  BY <1>0, StartConfigures
<1>2. /\ ~active /\ counted' = fitUsedPv /\ algorithm' = algorithmPv /\ fitted' = {}
      /\ selectAllPv' \in BOOLEAN /\ energies' = "ACTENERGY" /\ collected' = collected \cup measurements
      /\ UNCHANGED <<fitUsedPv, algorithmPv, matrixPv, lowTmit, checked>>
  BY <1>0 DEF Start, pvVars, Collected, FitTypeOK
<1>3. measurements \subseteq Bpms
  BY <1>0 DEF SelectedDevices, FitTypeOK
<1> HIDE DEF measurements
<1>4. FitTypeOK'
  BY <1>0, <1>1, <1>2, <1>3 DEF FitTypeOK, FitConfigured
<1>5. CollectedWhileOn' /\ FitRowsAgree' /\ RowsSaved' /\ LaunchCollected'
  BY <1>0, <1>1, <1>2 DEF CollectedWhileOn, FitRowsAgree, RowsSaved, RowsAgree, LaunchCollected,
                          FitConfigured
<1>6. VersionsAgree'
  BY <1>1, <1>2 DEF VersionsAgree, FitConfigured
<1> QED
  BY <1>4, <1>5, <1>6 DEF FitInv

\* InjectorLaunch::checkConfig sets up a fit of the monitors it selects, which the
\* collector has; the other algorithms change nothing.
LEMMA CheckConfigInv ==
  ASSUME FitInv, active, CheckConfig, matrixPv' = matrixPv, pinv' = pinv, algorithm' = algorithm,
         counted' = counted, active' = active
  PROVE  /\ config' \in Configs
         /\ fit' \in Fits
         /\ launch' \in Launches
         /\ launch'.all = launch.all /\ launch'.normal = launch.normal
         /\ launch'.spectrometer = launch.spectrometer
         /\ FitRowsAgree' /\ VersionsAgree'
         /\ fit'.rows \subseteq collected /\ MeasurementsAfter \subseteq collected
<1> DEFINE Goal == /\ config' \in Configs /\ fit' \in Fits /\ launch' \in Launches
                   /\ launch'.all = launch.all /\ launch'.normal = launch.normal
                   /\ launch'.spectrometer = launch.spectrometer
                   /\ FitRowsAgree' /\ VersionsAgree'
                   /\ fit'.rows \subseteq collected /\ MeasurementsAfter \subseteq collected
<1>0. /\ FitTypeOK /\ CollectedWhileOn /\ FitRowsAgree /\ RowsSaved /\ LaunchCollected
      /\ VersionsAgree
  BY DEF FitInv
<1>1. CASE UNCHANGED <<launch, fit, config>>
  <2>1. MeasurementsAfter = selected
    BY <1>1 DEF MeasurementsAfter
  <2> QED
    BY <1>0, <1>1, <2>1 DEF FitTypeOK, CollectedWhileOn, FitRowsAgree, VersionsAgree
<1>2. ASSUME NEW beam \in {"Normal", "Spectrometer"}, NEW saved \in Fits, algorithm = "launch",
             launch.beam # beam, SwitchTo(beam, saved),
             saved = IF beam = "Normal" THEN launch.normal ELSE launch.spectrometer
      PROVE  Goal
  <2>1. /\ launch' = [launch EXCEPT !.beam = beam]
        /\ fit' = [rows |-> saved.rows, f |-> saved.f, orbit |-> saved.orbit]
        /\ config' = [config EXCEPT !.f = saved.f, !.orbit = saved.orbit]
    BY <1>2 DEF SwitchTo, ReallyConfig
  <2>2. /\ launch' \in Launches /\ launch'.beam = beam
        /\ launch'.all = launch.all /\ launch'.normal = launch.normal
        /\ launch'.spectrometer = launch.spectrometer
    BY <1>0, <2>1 DEF FitTypeOK, Launches
  <2>3. fit' = saved /\ saved.f \in Matrices /\ saved.orbit \in RowSets
    BY <2>1 DEF Fits
  <2>4. config' \in Configs /\ config'.f = saved.f
    BY <1>0, <2>1, <2>3 DEF FitTypeOK, Configs
  <2>5. MeasurementsAfter = saved.rows
    BY <1>2, <2>2 DEF MeasurementsAfter
  <2>6. saved.rows \subseteq collected
    BY <1>0, <1>2 DEF LaunchCollected
  <2>7. FitRowsAgree'
    BY <1>0, <1>2, <2>2, <2>3 DEF FitRowsAgree, RowsSaved, RowsAgree
  <2>8. VersionsAgree'
    <3>1. saved.f.version <= matrixPv /\ saved.f.version \in Int
      BY <1>0, <1>2, <2>3 DEF VersionsAgree, Matrices
    <3> QED
      BY <1>0, <1>2, <2>2, <2>3, <2>4, <3>1 DEF VersionsAgree
  <2> QED
    BY <2>2, <2>3, <2>4, <2>5, <2>6, <2>7, <2>8
<1>3. launch.normal \in Fits /\ launch.spectrometer \in Fits
  BY <1>0 DEF FitTypeOK, Launches
<1>4. CASE SwitchTo("Normal", launch.normal) /\ algorithm = "launch" /\ launch.beam = "Spectrometer"
  BY <1>2, <1>3, <1>4
<1>5. CASE /\ SwitchTo("Spectrometer", launch.spectrometer) /\ algorithm = "launch"
           /\ launch.beam = "Normal"
  BY <1>2, <1>3, <1>5
<1> QED
  BY <1>1, <1>4, <1>5 DEF CheckConfig

\* What a calculation leaves in the set of measurements.
LEMMA CalculateInv ==
  ASSUME FitInv, active, CheckConfig, checked' = FALSE,
         UNCHANGED <<pvVars, selectAllPv, active, algorithm, collected, counted, pinv, energies>>,
         \/ selected' = MeasurementsAfter /\ fitted' = {}
         \/ selected' = Restored /\ fitted' = MeasurementsAfter
  PROVE  FitInv'
<1>0. /\ FitTypeOK /\ CollectedWhileOn /\ FitRowsAgree /\ RowsSaved /\ LaunchCollected
      /\ VersionsAgree
  BY DEF FitInv
<1>1. UNCHANGED <<fitUsedPv, algorithmPv, matrixPv, lowTmit>>
  BY DEF pvVars
<1>2. /\ config' \in Configs
      /\ fit' \in Fits
      /\ launch' \in Launches
      /\ launch'.all = launch.all /\ launch'.normal = launch.normal
      /\ launch'.spectrometer = launch.spectrometer
      /\ FitRowsAgree' /\ VersionsAgree'
      /\ fit'.rows \subseteq collected /\ MeasurementsAfter \subseteq collected
  BY <1>1, CheckConfigInv
<1>3. Restored \subseteq collected
  BY <1>0, <1>2 DEF Restored, LaunchCollected
<1>4. selected' \subseteq collected /\ fitted' \subseteq collected /\ collected \subseteq Bpms
  BY <1>0, <1>2, <1>3 DEF FitTypeOK
<1>5. FitTypeOK'
  BY <1>0, <1>1, <1>2, <1>4 DEF FitTypeOK
<1>6. CollectedWhileOn' /\ RowsSaved'
  BY <1>0, <1>2, <1>4 DEF CollectedWhileOn, RowsSaved
<1>7. LaunchCollected'
  BY <1>0, <1>2 DEF LaunchCollected, Restored
<1> QED
  BY <1>2, <1>5, <1>6, <1>7 DEF FitInv

LEMMA ResetInv == ASSUME FitInv, Reset PROVE FitInv'
<1>0. /\ FitTypeOK /\ CollectedWhileOn /\ FitRowsAgree /\ RowsSaved /\ LaunchCollected
      /\ VersionsAgree
  BY DEF FitInv
<1>1. /\ active /\ UNCHANGED <<fitUsedPv, algorithmPv, matrixPv, lowTmit, selectAllPv, active,
                              algorithm, selected, collected, counted, fit, launch, checked, fitted>>
  BY DEF Reset, pvVars
<1>2. FMatrix(counted) \in Matrices /\ FMatrix(counted).version = matrixPv
  BY <1>0, MatrixOfPv DEF FitTypeOK
<1>3. /\ config' \in Configs
      /\ config' = config \/ (config'.f.version = matrixPv /\ config'.g = matrixPv)
  <2>1. CASE config' = [config EXCEPT !.f = FMatrix(counted), !.g = GMatrix]
    BY <1>0, <1>2, <2>1 DEF FitTypeOK, Configs, GMatrix
  <2>2. CASE config' = config
    BY <1>0, <2>2 DEF FitTypeOK
  <2> QED
    BY <2>1, <2>2 DEF Reset, ResetGeneral, ResetPinv, ResetEact
<1>4. pinv' \in Undefined .. MaxVersion /\ energies' \in {"undefined", "ACTENERGY", "EACT"}
  BY <1>0, FitAssumption DEF Reset, ResetGeneral, ResetPinv, ResetEact, FitTypeOK, InverseOfG,
                             PseudoInverse, GMatrix, Undefined
<1>5. ~SquareG /\ algorithm \in {"pinv", "poly"} => pinv' = config'.g
  <2> SUFFICES ASSUME ~SquareG, algorithm \in {"pinv", "poly"} PROVE pinv' = config'.g
    OBVIOUS
  <2>1. ResetPinv
    BY DEF Reset, ResetGeneral, ResetEact
  <2>2. pinv' = matrixPv
    BY <2>1 DEF ResetPinv, InverseOfG, PseudoInverse, GMatrix
  <2>3. config'.g = matrixPv
    BY <1>0, <2>1 DEF ResetPinv, GMatrix, FitTypeOK, Configs
  <2> QED
    BY <2>2, <2>3
<1>6. FitTypeOK'
  BY <1>0, <1>1, <1>3, <1>4 DEF FitTypeOK
<1>7. VersionsAgree'
  BY <1>0, <1>1, <1>3, <1>5 DEF VersionsAgree
<1> QED
  BY <1>0, <1>1, <1>6, <1>7 DEF FitInv, CollectedWhileOn, FitRowsAgree, RowsSaved, LaunchCollected

LEMMA FailedStartInv == ASSUME FitInv, ConfigureFails \/ DeviceFails PROVE FitInv'
<1>0. FitTypeOK /\ VersionsAgree /\ LaunchCollected
  BY DEF FitInv
<1>1. ~active /\ ~active' /\ active' = active
  BY DEF ConfigureFails, DeviceFails
<1>2. UNCHANGED <<fitUsedPv, algorithmPv, matrixPv, lowTmit, collected, checked, fitted>>
  BY DEF ConfigureFails, DeviceFails, pvVars
<1>3. CASE ConfigureFails
  <2>1. config' \in Configs
    <3>1. ReferenceOrbit \in RowSets
      BY <1>0, RowOfMonitor DEF ReferenceOrbit, FitTypeOK
    <3> QED
      BY <1>0, <1>3, <3>1 DEF ConfigureFails, NoneUsed, EnergiesMissing, FitTypeOK, Configs
  <2>2. counted' \subseteq Bpms /\ UNCHANGED <<selectAllPv, algorithm, selected, fit, pinv, energies, launch>>
    BY <1>0, <1>3 DEF ConfigureFails, FitTypeOK
  <2>3. FitTypeOK'
    BY <1>0, <1>1, <1>2, <2>1, <2>2 DEF FitTypeOK
  <2> QED
    BY <1>0, <1>1, <1>2, <2>2, <2>3
       DEF FitInv, CollectedWhileOn, FitRowsAgree, RowsSaved, LaunchCollected, VersionsAgree
<1>4. CASE DeviceFails
  <2>1. /\ fitUsedPv \subseteq Bpms /\ matrixPv \in 0 .. MaxVersion
        /\ FMatrix(fitUsedPv) \in Matrices /\ ReferenceOrbit \in RowSets
    BY <1>0, MatrixOfPv, RowOfMonitor DEF FitTypeOK, ReferenceOrbit
  <2>2. /\ config' \in Configs
        /\ counted' \subseteq Bpms /\ selected' \subseteq Bpms /\ algorithm' \in Algorithms
        /\ selectAllPv' \in BOOLEAN /\ energies' = "ACTENERGY"
        /\ fit' = NoFit /\ launch' = NoLaunch /\ pinv' = Undefined
    BY <1>0, <1>4, <2>1 DEF DeviceFails, Configs, GMatrix, FitTypeOK
  <2>3. fit' \in Fits /\ fit'.f.version = 0
    BY <2>2, NothingTypes
  <2>4. /\ launch' \in Launches
        /\ launch'.normal.f.version = 0 /\ launch'.spectrometer.f.version = 0
    BY <2>2, NothingTypes
  <2>5. pinv' \in Undefined .. MaxVersion
    BY <2>2, FitAssumption DEF Undefined
  <2>6. FitTypeOK'
    BY <1>0, <1>1, <1>2, <2>2, <2>3, <2>4, <2>5 DEF FitTypeOK
  <2>7. VersionsAgree'
    BY <1>1, <1>2, <2>1, <2>3, <2>4, FitAssumption DEF VersionsAgree
  <2> QED
    BY <1>0, <1>1, <1>2, <2>6, <2>7 DEF FitInv, CollectedWhileOn, FitRowsAgree, RowsSaved, LaunchCollected
<1> QED
  BY <1>3, <1>4

LEMMA FitNextInv == ASSUME FitInv, FitNext PROVE FitInv'
<1>0. /\ FitTypeOK /\ CollectedWhileOn /\ FitRowsAgree /\ RowsSaved /\ LaunchCollected
      /\ VersionsAgree
  BY DEF FitInv
<1>1. CASE Stop
  <2>1. FitTypeOK'
    BY <1>0, <1>1 DEF Stop, pvVars, FitTypeOK
  <2> QED
    BY <1>0, <1>1, <2>1 DEF Stop, pvVars, FitInv, CollectedWhileOn, FitRowsAgree, RowsSaved, LaunchCollected,
                            VersionsAgree
<1>2. CASE CheckTmit
  <2>1. FitTypeOK'
    BY <1>0, <1>2 DEF CheckTmit, pvVars, FitTypeOK
  <2> QED
    BY <1>0, <1>2, <2>1 DEF CheckTmit, pvVars, FitInv, CollectedWhileOn, FitRowsAgree,
                            RowsSaved, LaunchCollected, VersionsAgree
<1>3. CASE WritePv
  <2>1. /\ ~active /\ UNCHANGED <<matrixPv, active, algorithm, selected, collected, counted, config,
                                 fit, pinv, energies, launch, lowTmit, checked, fitted>>
    BY <1>3 DEF WritePv
  <2>2. fitUsedPv' \subseteq Bpms /\ selectAllPv' \in BOOLEAN /\ algorithmPv' \in Algorithms
    BY <1>0, <1>3, FitAssumption DEF WritePv, FitTypeOK
  <2>3. FitTypeOK'
    BY <1>0, <2>1, <2>2 DEF FitTypeOK
  <2> QED
    BY <1>0, <2>1, <2>3 DEF FitInv, CollectedWhileOn, FitRowsAgree, RowsSaved, LaunchCollected, VersionsAgree
<1>4. CASE WriteMatrixPv
  <2>1. /\ matrixPv' = matrixPv + 1 /\ matrixPv < MaxVersion
        /\ UNCHANGED <<fitUsedPv, selectAllPv, algorithmPv, active, algorithm, selected, collected,
                       counted, config, fit, pinv, energies, launch, lowTmit, checked, fitted>>
    BY <1>4 DEF WriteMatrixPv
  <2>2. matrixPv' \in 0 .. MaxVersion /\ MaxVersion \in Nat /\ matrixPv \in 0 .. MaxVersion
    BY <1>0, <2>1, FitAssumption DEF FitTypeOK
  <2>3. FitTypeOK'
    BY <1>0, <2>1, <2>2 DEF FitTypeOK
  <2>4. /\ fit.f.version \in 0 .. MaxVersion /\ launch.normal.f.version \in 0 .. MaxVersion
        /\ launch.spectrometer.f.version \in 0 .. MaxVersion
    BY <1>0 DEF FitTypeOK, Launches, Fits, Matrices
  <2>5. VersionsAgree'
    BY <1>0, <2>1, <2>2, <2>4 DEF VersionsAgree
  <2> QED
    BY <1>0, <2>1, <2>3, <2>5 DEF FitInv, CollectedWhileOn, FitRowsAgree, RowsSaved, LaunchCollected
<1>5. CASE BeamMoves
  <2>1. FitTypeOK'
    BY <1>0, <1>5 DEF BeamMoves, FitTypeOK
  <2> QED
    BY <1>0, <1>5, <2>1 DEF BeamMoves, FitInv, CollectedWhileOn, FitRowsAgree, RowsSaved, LaunchCollected,
                            VersionsAgree
<1>6. CASE CalculateThrows \/ CalculateFit
  <2>1. active
    BY <1>0, <1>6 DEF LaunchCollected, CalculateThrows, CalculateFit
  <2> QED
    BY <1>6, <2>1, CalculateInv DEF CalculateThrows, CalculateFit
<1> QED
  BY <1>1, <1>2, <1>3, <1>4, <1>5, <1>6, SuccessfulStartInv, ResetInv, FailedStartInv DEF FitNext

LEMMA FitStutterInv == ASSUME FitInv, UNCHANGED fitVars PROVE FitInv'
BY DEF FitInv, FitTypeOK, CollectedWhileOn, FitRowsAgree, RowsSaved, LaunchCollected, VersionsAgree,
       fitVars

LEMMA FitInvariant == FitSpec => []FitInv
<1>1. FitInv /\ [FitNext]_fitVars => FitInv'
  BY FitNextInv, FitStutterInv
<1> QED
  BY <1>1, FitInitInv, PTL DEF FitSpec

\* The PVs, the copies in LoopConfiguration and the fit keep their types.
THEOREM FitTypeCorrect == FitSpec => []FitTypeOK
<1>1. FitInv => FitTypeOK
  BY DEF FitInv
<1> QED
  BY <1>1, FitInvariant, PTL

\* Whatever starts failed, and wherever the beam went, the MeasurementCollector has all
\* the monitors that a calculation reads.
THEOREM ReadIsCollected == FitSpec => []CollectedWhileOn
<1>1. FitInv => CollectedWhileOn
  BY DEF FitInv
<1> QED
  BY <1>1, FitInvariant, PTL

\* The F matrix and the reference orbit that InjectorLaunch fits with belong row by row to
\* the monitors of the beam configuration (saveFMatrix, saveReferenceOrbit, configureNormal
\* and configureSpectrometer), for every order of the monitors and every choice of the
\* ones that are used.
THEOREM RowsOfFitAgree == FitSpec => []FitRowsAgree
<1>1. FitInv => FitRowsAgree
  BY DEF FitInv
<1> QED
  BY <1>1, FitInvariant, PTL

\* Corrector kicks are those of the G matrix that was loaded last, inverted or not.
THEOREM KicksAreOfLoadedG == FitSpec => KicksOfLoadedG
<1>1. FitInv /\ CalculateFit /\ ~SquareG => KicksWith = config.g /\ FitsWith <= config.f.version
  <2>1. FitInv /\ CalculateFit => active
    BY DEF FitInv, LaunchCollected, CalculateFit
  <2> QED
    BY <2>1 DEF FitInv, VersionsAgree, KicksWith, FitsWith
<1> DEFINE Kicks == CalculateFit /\ ~SquareG => KicksWith = config.g /\ FitsWith <= config.f.version
<1>2. FitInv => [Kicks]_fitVars
  BY <1>1
<1> QED
  BY <1>2, FitInvariant, PTL DEF FitSpec, KicksOfLoadedG

\* After a calculation of InjectorLaunch that succeeded all its monitors leave the
\* collector when the loop goes OFF.
THEOREM LaunchIsRemoved == FitSpec => AllRemoved
<1> DEFINE Removed == Stop /\ algorithm = "launch" /\ fitted # {} => collected' \cap launch.all = {}
<1>1. FitInv => [Removed]_fitVars
  BY DEF FitInv, LaunchCollected, Stop
<1> QED
  BY <1>1, FitInvariant, PTL DEF FitSpec, AllRemoved
===============================================================================
