-------------------------- MODULE PatternConfiguration --------------------------
(***************************************************************************)
(* The patterns of one loop: LoopConfiguration keeps the mask of each      *)
(* pattern in a vector, the devices of each pattern in four maps keyed by  *)
(* mask and the algorithms in a fifth one.  When the loop is turned ON the *)
(* masks are read from the POI waveforms, and devices and algorithms move  *)
(* to the new keys.  The sets of devices are named by the pattern they     *)
(* were made for (initialize); words of a mask are shorter than 32 bits.   *)
(***************************************************************************)
EXTENDS Integers, Sequences, FiniteSets

CONSTANTS
  MaxPatterns, \* MAX_PATTERNS
  Words,       \* MAX_EVR_MODIFIER
  HalfWord,    \* 2^16: two shorts make a word
  PoiValues,   \* values of the POI waveforms
  MaxStates    \* MAX_STATES = MAX_SETPOINTS

ASSUME PatternAssumption ==
  /\ MaxPatterns \in Nat \ {0} /\ Words \in Nat \ {0, 1} /\ HalfWord \in Nat \ {0}
  /\ PoiValues \subseteq Seq(Nat) /\ MaxStates \in Nat \ {0}

VARIABLES
  patternMasks, \* _patternMasks
  deviceMaps,   \* _measurements, _actuators, _states and _setpoints
  deviceMask,   \* Device::_patternMask, the same for the devices of a set
  setpointOf,   \* StateDevice::_setpointDevice, by number
  algorithms,   \* _algorithms: the pattern index of the algorithm under a mask
  totalPoi,     \* TOTALPOI when the loop was last configured
  destination,  \* POI[1..4]DEST
  fakeBeam,     \* _fakeBeam
  loopOn,       \* the loop is configured
  everFailed    \* history: a pattern could not be reconfigured

patternVars ==
  <<patternMasks, deviceMaps, deviceMask, setpointOf, algorithms, totalPoi, destination,
    fakeBeam, loopOn, everFailed>>

AllPatterns == 1 .. MaxPatterns

Kinds == {"measurements", "actuators", "states", "setpoints"}

-----------------------------------------------------------------------------
(* Masks: PatternMask *)

Masks ==
  [timeSlot : Nat, inclusion : [1 .. Words -> Nat], exclusion : [1 .. Words -> Nat]]

FirstDifferenceLess(s, t) ==
  \E i \in DOMAIN s : s[i] < t[i] /\ \A j \in 1 .. i - 1 : s[j] = t[j]

\* Mutation: what a mask excludes is not compared.
MaskLessByInclusion(a, b) ==
  \/ a.timeSlot < b.timeSlot
  \/ a.timeSlot = b.timeSlot /\ FirstDifferenceLess(a.inclusion, b.inclusion)

\* operator<
MaskLess(a, b) ==
  \/ a.timeSlot < b.timeSlot
  \/ /\ a.timeSlot = b.timeSlot
     /\ \/ FirstDifferenceLess(a.inclusion, b.inclusion)
        \/ (a.inclusion = b.inclusion) /\ FirstDifferenceLess(a.exclusion, b.exclusion)

\* std::map::find
FoundIn(map, mask) == {k \in DOMAIN map : ~MaskLess(k, mask) /\ ~MaskLess(mask, k)}

PatternPvSize == 4 * (Words - 1) + 1

\* operator=: the first word of the masks is not in the waveform, and a waveform that is
\* too short leaves the mask as it was.
MaskOf(mask, poi) ==
  LET word(i) == poi[i * 2 - 1] + HalfWord * poi[i * 2] IN
  IF Len(poi) < PatternPvSize THEN mask
  ELSE [timeSlot |-> poi[PatternPvSize],
        inclusion |-> [i \in 1 .. Words |-> IF i = 1 THEN 0 ELSE word(i - 1)],
        exclusion |-> [i \in 1 .. Words |-> IF i = 1 THEN 0 ELSE word(Words - 1 + i - 1)]]

\* destinationHXR, the bit BKRCUS taken to be the lowest one of the last word.
DestinationHXR(mask) ==
  mask.exclusion[Words] % 2 = 1 \/ mask.inclusion[Words] % 2 = 0

\* The masks of initialize.
FakePatternMask(i) ==
  [timeSlot |-> 9 + i,
   inclusion |-> [j \in 1 .. Words |-> i + j - 2],
   exclusion |-> [j \in 1 .. Words |-> HalfWord * HalfWord - 1]]

-----------------------------------------------------------------------------
(* States and their setpoints *)

\* The names S1, S2 .. of the states and S1DES1, S2DES1 .. of the setpoints, as the
\* character codes that order them.
Digits(n) == IF n < 10 THEN <<48 + n>> ELSE <<48 + (n \div 10), 48 + (n % 10)>>
StateName(n) == <<83>> \o Digits(n)
SetpointName(n) == StateName(n) \o <<68, 69, 83, 49>>

TextLess(a, b) ==
  \/ \E i \in DOMAIN a \cap DOMAIN b : a[i] < b[i] /\ \A j \in 1 .. i - 1 : a[j] = b[j]
  \/ Len(a) < Len(b) /\ a = SubSeq(b, 1, Len(a))

\* Mutation: names are compared as text only.
DeviceLessAsText(a, b) == TextLess(a, b)

\* Device::operator<: of two names that start with M, A or S the shorter one is first.
DeviceLess(a, b) == Len(a) < Len(b) \/ (Len(a) = Len(b) /\ TextLess(a, b))

\* LoopConfiguration::assignSetpoints walks both sets in their order.
AssignSetpoints ==
  LET numbers == 1 .. MaxStates
      before(name(_), n) == Cardinality({m \in numbers : DeviceLess(name(m), name(n))})
  IN [s \in numbers |-> CHOOSE d \in numbers : before(StateName, s) = before(SetpointName, d)]

-----------------------------------------------------------------------------
(* LoopConfiguration::initialize *)

PatternInit ==
  /\ patternMasks = [i \in AllPatterns |-> FakePatternMask(i)]
  /\ deviceMaps = [k \in Kinds |-> [m \in {FakePatternMask(i) : i \in AllPatterns} |->
                                     CHOOSE i \in AllPatterns : FakePatternMask(i) = m]]
  /\ deviceMask = [k \in Kinds |-> patternMasks]
  /\ setpointOf = AssignSetpoints
  /\ algorithms = [m \in {FakePatternMask(i) : i \in AllPatterns} |-> 0]
  /\ totalPoi = 1
  /\ destination = [i \in AllPatterns |-> "unset"]
  /\ fakeBeam = FALSE /\ loopOn = FALSE /\ everFailed = FALSE

-----------------------------------------------------------------------------
(* LoopConfiguration::configure *)

\* Mutation: an existing key is not looked for, and insert keeps what is there.
ReconfigureDevicesOver(c, kind, previous, new) ==
  LET map == c.maps[kind] IN
  IF ~c.ok \/ FoundIn(map, previous) = {} THEN [c EXCEPT !.ok = FALSE]
  ELSE LET key == CHOOSE k \in FoundIn(map, previous) : TRUE IN
       [c EXCEPT !.maps[kind] = [k \in (DOMAIN map \ {key}) \cup {new} |->
                                   IF k = new /\ new \notin DOMAIN map THEN map[key] ELSE map[k]],
                 !.device[kind][map[key]] = new]

\* The set that was under key is erased there and inserted under the new mask.
MoveKey(map, key, new) ==
  [k \in (DOMAIN map \ {key}) \cup {new} |-> IF k = new THEN map[key] ELSE map[k]]

\* The devices under key get the new mask.
Remask(c, kind, key, new) ==
  [c EXCEPT !.maps[kind] = MoveKey(c.maps[kind], key, new),
            !.device[kind][c.maps[kind][key]] = new]

\* reconfigureDevices, on a record of what is changed.
ReconfigureDevices(c, kind, previous, new) ==
  LET map == c.maps[kind]
      key == CHOOSE k \in FoundIn(map, previous) : TRUE IN
  IF ~c.ok THEN c
  ELSE IF FoundIn(map, new) # {} \/ FoundIn(map, previous) = {} THEN [c EXCEPT !.ok = FALSE]
  ELSE Remask(c, kind, key, new)

\* Mutation: the setpoints are not moved.
ReconfigurePatternNoSetpoints(c, previous, new, isFile) ==
  LET measured == ReconfigureDevices(c, "measurements", previous, new)
      faked == [measured EXCEPT !.fake = c.fake \/ (measured.ok /\ isFile)]
      acted == ReconfigureDevices(faked, "actuators", previous, new)
  IN IF previous = new THEN c ELSE ReconfigureDevices(acted, "states", previous, new)

\* reconfigurePattern: M1 of the first pattern says whether there is beam without beam.
ReconfigurePattern(c, previous, new, isFile) ==
  LET measured == ReconfigureDevices(c, "measurements", previous, new)
      faked == [measured EXCEPT !.fake = c.fake \/ (measured.ok /\ isFile)]
      acted == ReconfigureDevices(faked, "actuators", previous, new)
      stated == ReconfigureDevices(acted, "states", previous, new)
  IN IF previous = new THEN c ELSE ReconfigureDevices(stated, "setpoints", previous, new)

\* configurePatterns stops at the first pattern that fails; _patternMasks was changed.
ConfigurePatterns(poi, total, isFile) ==
  LET configured[i \in 0 .. total] ==
        IF i = 0
        THEN [masks |-> patternMasks, maps |-> deviceMaps, device |-> deviceMask,
              fake |-> fakeBeam, ok |-> TRUE]
        ELSE LET c == configured[i - 1]
                 new == MaskOf(c.masks[i], poi[i])
             IN IF ~c.ok THEN c
                ELSE ReconfigurePattern([c EXCEPT !.masks[i] = new], c.masks[i], new, isFile)
  IN configured[total]

\* Mutation: the algorithm that is there is not erased, and insert does nothing.
ConfigureAlgorithmOnce(masks, total) ==
  [m \in DOMAIN algorithms \cup {masks[i] : i \in 1 .. total} |->
     IF m \in DOMAIN algorithms THEN algorithms[m]
     ELSE CHOOSE i \in 1 .. total : masks[i] = m /\ \A j \in i + 1 .. total : masks[j] # m]

\* configureAlgorithm: algorithms under masks that are no longer used remain.
ConfigureAlgorithm(masks, total) ==
  [m \in DOMAIN algorithms \cup {masks[i] : i \in 1 .. total} |->
     IF \A i \in 1 .. total : masks[i] # m THEN algorithms[m]
     ELSE CHOOSE i \in 1 .. total : masks[i] = m /\ \A j \in i + 1 .. total : masks[j] # m]

\* updatePatternDestinations
DestinationsOf(masks) ==
  [i \in AllPatterns |-> IF DestinationHXR(masks[i]) THEN "HXR" ELSE "SXR"]

\* LoopThread turns the loop ON.  What comes between the patterns and the algorithm
\* (TrajectoryFit) may fail, and the name of the algorithm may be unknown.
ConfigureLoop(poi, total, isFile) ==
  \E c \in {ConfigurePatterns(poi, total, isFile)} :
  /\ ~loopOn
  /\ totalPoi' = total
  /\ patternMasks' = c.masks /\ deviceMaps' = c.maps /\ deviceMask' = c.device
  /\ fakeBeam' = c.fake /\ everFailed' = (everFailed \/ ~c.ok)
  /\ \/ /\ c.ok
        /\ algorithms' = ConfigureAlgorithm(c.masks, total)
        /\ destination' = DestinationsOf(c.masks)
        /\ loopOn' = TRUE
     \/ UNCHANGED <<algorithms, destination, loopOn>>
  /\ UNCHANGED setpointOf

\* LoopThread turns the loop OFF; nothing of the patterns changes.
StopLoop ==
  /\ loopOn /\ loopOn' = FALSE
  /\ UNCHANGED <<patternMasks, deviceMaps, deviceMask, setpointOf, algorithms, totalPoi,
                 destination, fakeBeam, everFailed>>

PatternNext ==
  \/ \E total \in AllPatterns, isFile \in BOOLEAN : \E poi \in [1 .. total -> PoiValues] :
       ConfigureLoop(poi, total, isFile)
  \/ StopLoop

PatternSpec == PatternInit /\ [][PatternNext]_patternVars

-----------------------------------------------------------------------------
(* Properties *)

PatternTypeOK ==
  /\ totalPoi \in AllPatterns /\ {fakeBeam, loopOn, everFailed} \subseteq BOOLEAN
  /\ patternMasks \in [AllPatterns -> Masks]
  /\ deviceMask \in [Kinds -> [AllPatterns -> Masks]]
  /\ DOMAIN deviceMaps = Kinds
  /\ \A k \in Kinds : /\ DOMAIN deviceMaps[k] \subseteq Masks
                      /\ deviceMaps[k] \in [DOMAIN deviceMaps[k] -> AllPatterns]
  /\ DOMAIN algorithms \subseteq Masks
  /\ algorithms \in [DOMAIN algorithms -> {0} \cup AllPatterns]
  /\ DOMAIN setpointOf = 1 .. MaxStates
  /\ destination \in [AllPatterns -> {"unset", "HXR", "SXR"}]

\* Whatever masks come and go, also after a configuration that failed half way, every
\* set of devices is in the four maps once, under the mask that its devices carry.
SetsKept ==
  \A k \in Kinds :
    /\ {deviceMaps[k][m] : m \in DOMAIN deviceMaps[k]} = AllPatterns
    /\ Cardinality(DOMAIN deviceMaps[k]) = MaxPatterns
    /\ \A m \in DOMAIN deviceMaps[k] : deviceMask[k][deviceMaps[k][m]] = m

\* As long as no pattern was refused, each pattern finds its own devices under its mask,
\* in all the maps (peek, Loop::reconfigure).
PatternsFindTheirSets ==
  ~everFailed =>
    \A k \in Kinds, i \in AllPatterns :
      /\ FoundIn(deviceMaps[k], patternMasks[i]) = {patternMasks[i]}
      /\ deviceMaps[k][patternMasks[i]] = i

\* A loop that is ON calculates each of its patterns with the algorithm that has the
\* index of this pattern, also if the mask was that of another pattern before.
AlgorithmOfPattern ==
  loopOn /\ ~everFailed =>
    \A i \in 1 .. totalPoi : algorithms[patternMasks[i]] = i

\* Two lists of devices in the order of their names belong together: each state has the
\* setpoint with its number.
SetpointsMatch == \A s \in 1 .. MaxStates : setpointOf[s] = s

\* A configuration is refused only if it leaves two patterns with the same mask: masks
\* that differ anywhere are different keys of the maps, and a pattern that was moved has
\* left its previous key to others.
NewMasksAccepted ==
  [][/\ ~everFailed
     /\ \A i \in 1 .. totalPoi', j \in AllPatterns : j # i => patternMasks'[i] # patternMasks'[j]
     => ~everFailed']_patternVars
=============================================================================
