---------------------- MODULE PatternConfigurationProofs ----------------------
(***************************************************************************)
(* Proofs about the masks, maps and algorithms of the patterns of a loop,  *)
(* for any number of patterns and states, any length of the masks and any  *)
(* waveforms.  LeastIndex stands for induction: what holds before every    *)
(* pattern and is kept by each is shown by a smallest counterexample.      *)
(***************************************************************************)
EXTENDS PatternConfiguration, FiniteSetTheorems, SequenceTheorems, WellFoundedInduction,
        NaturalsInduction, TLAPS

-----------------------------------------------------------------------------
(* The order of masks *)

\* The least element of a set of numbers, for what is shown by a smallest counterexample.
LEMMA LeastIndex ==
  ASSUME NEW T \in SUBSET Nat, T # {}
  PROVE  \E x \in T : \A y \in T : x <= y
<1>1. \E x \in T : \A y \in T : ~(<<y, x>> \in OpToRel(<, Nat))
  BY NatLessThanWellFounded, WFMin, Zenon
<1>2. PICK x \in T : \A y \in T : ~(<<y, x>> \in OpToRel(<, Nat))
  BY <1>1, Zenon
<1>3. \A y \in T : ~(y < x)
  BY <1>2, Zenon DEF OpToRel
<1> QED BY <1>3

\* Lists of words of the same length are equal, or one of them comes first.
LEMMA DifferenceOrders ==
  ASSUME NEW n \in Nat, NEW s \in [1 .. n -> Nat], NEW t \in [1 .. n -> Nat], s # t
  PROVE  FirstDifferenceLess(s, t) \/ FirstDifferenceLess(t, s)
<1> DEFINE T == {i \in 1 .. n : s[i] # t[i]}
<1>1. T # {}
  OBVIOUS
<1>2. T \in SUBSET Nat
  OBVIOUS
<1>3. PICK i \in T : \A j \in T : i <= j
  BY <1>1, <1>2, LeastIndex, Zenon
<1>4. \A j \in 1 .. i - 1 : s[j] = t[j]
  BY <1>3
<1>5. s[i] < t[i] \/ t[i] < s[i]
  BY <1>3
<1>6. i \in DOMAIN s /\ i \in DOMAIN t
  BY <1>3
<1> QED BY <1>4, <1>5, <1>6 DEF FirstDifferenceLess

\* and a list does not come before itself.
LEMMA NoDifferenceToItself ==
  ASSUME NEW n \in Nat, NEW s \in [1 .. n -> Nat]
  PROVE  ~FirstDifferenceLess(s, s)
BY DEF FirstDifferenceLess

\* PatternMask::operator< : different masks are never equivalent.
LEMMA MasksAreOrdered ==
  ASSUME NEW a \in Masks, NEW b \in Masks
  PROVE  ~MaskLess(a, b) /\ ~MaskLess(b, a) <=> a = b
<1>0. Words \in Nat
  BY PatternAssumption
<1>1. a.timeSlot \in Nat /\ b.timeSlot \in Nat
      /\ a.inclusion \in [1 .. Words -> Nat] /\ b.inclusion \in [1 .. Words -> Nat]
      /\ a.exclusion \in [1 .. Words -> Nat] /\ b.exclusion \in [1 .. Words -> Nat]
  BY DEF Masks
<1>2. ASSUME a = b
      PROVE  ~MaskLess(a, b) /\ ~MaskLess(b, a)
  <2>1. ~FirstDifferenceLess(a.inclusion, a.inclusion)
    BY <1>0, <1>1, NoDifferenceToItself, Zenon
  <2>2. ~FirstDifferenceLess(a.exclusion, a.exclusion)
    BY <1>0, <1>1, NoDifferenceToItself, Zenon
  <2>3. ~(a.timeSlot < a.timeSlot)
    BY <1>1
  <2> QED BY <1>2, <2>1, <2>2, <2>3, Zenon DEF MaskLess
<1>3. ASSUME a # b
      PROVE  MaskLess(a, b) \/ MaskLess(b, a)
  <2>1. a.timeSlot # b.timeSlot \/ a.inclusion # b.inclusion \/ a.exclusion # b.exclusion
    BY <1>3 DEF Masks
  <2>2. a.timeSlot # b.timeSlot => a.timeSlot < b.timeSlot \/ b.timeSlot < a.timeSlot
    BY <1>1
  <2>3. a.inclusion # b.inclusion => FirstDifferenceLess(a.inclusion, b.inclusion)
                                     \/ FirstDifferenceLess(b.inclusion, a.inclusion)
    BY <1>0, <1>1, DifferenceOrders, Zenon
  <2>4. a.exclusion # b.exclusion => FirstDifferenceLess(a.exclusion, b.exclusion)
                                     \/ FirstDifferenceLess(b.exclusion, a.exclusion)
    BY <1>0, <1>1, DifferenceOrders, Zenon
  <2> QED BY <2>1, <2>2, <2>3, <2>4, Zenon DEF MaskLess
<1> QED BY <1>2, <1>3, Zenon

\* std::map::find returns what is under this very mask, if anything is.
LEMMA FoundIsThere ==
  ASSUME NEW map, DOMAIN map \subseteq Masks, NEW mask \in Masks
  PROVE  FoundIn(map, mask) = {mask} \cap DOMAIN map
<1>1. \A k \in DOMAIN map : ~MaskLess(k, mask) /\ ~MaskLess(mask, k) <=> k = mask
  BY MasksAreOrdered, Zenon
<1> QED BY <1>1, Zenon DEF FoundIn

\* What is read from a waveform is a mask.
LEMMA WaveformIsMask ==
  ASSUME NEW mask \in Masks, NEW poi \in PoiValues
  PROVE  MaskOf(mask, poi) \in Masks
<1> USE DEF PatternPvSize
<1>1. poi \in Seq(Nat) /\ Words \in Nat \ {0, 1} /\ HalfWord \in Nat
  BY PatternAssumption
<1> DEFINE word(i) == poi[i * 2 - 1] + HalfWord * poi[i * 2]
<1>2. \A i \in 1 .. 2 * (Words - 1) : Len(poi) >= PatternPvSize => word(i) \in Nat
  <2> SUFFICES ASSUME NEW i \in 1 .. 2 * (Words - 1), Len(poi) >= PatternPvSize
               PROVE  word(i) \in Nat
    OBVIOUS
  <2>1. i * 2 - 1 \in 1 .. Len(poi) /\ i * 2 \in 1 .. Len(poi)
    BY <1>1
  <2>2. poi[i * 2 - 1] \in Nat /\ poi[i * 2] \in Nat
    BY <1>1, <2>1
  <2>3. \A x, y \in Nat : x * y \in Nat
    OBVIOUS
  <2>4. HalfWord * poi[i * 2] \in Nat
    BY <1>1, <2>2, <2>3
  <2> QED BY <2>2, <2>4
<1>3. CASE Len(poi) < PatternPvSize
  BY <1>3 DEF MaskOf
<1>4. CASE ~(Len(poi) < PatternPvSize)
  <2>0. Len(poi) \in Nat
    BY <1>1
  <2>1. Len(poi) >= PatternPvSize
    BY <1>1, <1>4, <2>0
  <2>2. poi[PatternPvSize] \in Nat
    BY <1>1, <2>0, <2>1
  <2>3. \A i \in 1 .. Words : i # 1 => word(i - 1) \in Nat /\ word(Words - 1 + i - 1) \in Nat
    <3> SUFFICES ASSUME NEW i \in 1 .. Words, i # 1
                 PROVE  word(i - 1) \in Nat /\ word(Words - 1 + i - 1) \in Nat
      OBVIOUS
    <3>1. i - 1 \in 1 .. 2 * (Words - 1) /\ Words - 1 + i - 1 \in 1 .. 2 * (Words - 1)
      BY <1>1
    <3> HIDE DEF word
    <3> QED BY <1>2, <2>1, <3>1
  <2>4. [i \in 1 .. Words |-> IF i = 1 THEN 0 ELSE word(i - 1)] \in [1 .. Words -> Nat]
    BY <2>3
  <2>5. [i \in 1 .. Words |-> IF i = 1 THEN 0 ELSE word(Words - 1 + i - 1)] \in [1 .. Words -> Nat]
    BY <2>3
  <2>6. MaskOf(mask, poi) =
          [timeSlot |-> poi[PatternPvSize],
           inclusion |-> [i \in 1 .. Words |-> IF i = 1 THEN 0 ELSE word(i - 1)],
           exclusion |-> [i \in 1 .. Words |-> IF i = 1 THEN 0 ELSE word(Words - 1 + i - 1)]]
    BY <1>4, Zenon DEF MaskOf
  <2> HIDE DEF word, PatternPvSize
  <2> QED BY <2>2, <2>4, <2>5, <2>6 DEF Masks
<1> QED BY <1>3, <1>4

\* The masks of initialize differ, by their time slots.
LEMMA FakeMasksDiffer ==
  /\ \A i \in AllPatterns : FakePatternMask(i) \in Masks
  /\ \A i, j \in AllPatterns : FakePatternMask(i) = FakePatternMask(j) => i = j
<1>1. HalfWord * HalfWord - 1 \in Nat
  BY PatternAssumption
<1>2. MaxPatterns \in Nat /\ Words \in Nat
  BY PatternAssumption
<1> DEFINE full == HalfWord * HalfWord - 1
<1> HIDE DEF full
<1>3. \A i \in AllPatterns : FakePatternMask(i) \in Masks
  <2> SUFFICES ASSUME NEW i \in AllPatterns PROVE FakePatternMask(i) \in Masks
    OBVIOUS
  <2>1. full \in Nat
    BY <1>1 DEF full
  <2>2. FakePatternMask(i) = [timeSlot |-> 9 + i, inclusion |-> [j \in 1 .. Words |-> i + j - 2],
                              exclusion |-> [j \in 1 .. Words |-> full]]
    BY Zenon DEF FakePatternMask, full
  <2>3. [j \in 1 .. Words |-> i + j - 2] \in [1 .. Words -> Nat] /\ 9 + i \in Nat
    BY <1>2 DEF AllPatterns
  <2>4. [j \in 1 .. Words |-> full] \in [1 .. Words -> Nat]
    BY <2>1
  <2> QED BY <2>2, <2>3, <2>4 DEF Masks
<1>4. \A i, j \in AllPatterns : FakePatternMask(i) = FakePatternMask(j) => i = j
  <2>1. \A i \in AllPatterns : FakePatternMask(i).timeSlot = 9 + i
    BY Zenon DEF FakePatternMask
  <2> QED BY <1>2, <2>1 DEF AllPatterns
<1> QED BY <1>3, <1>4
-----------------------------------------------------------------------------
(* The maps of devices, while a loop is configured *)

\* The sets of one kind are in their map once, under the masks that the devices carry.
KindKept(map, device) ==
  /\ \A i, j \in AllPatterns : device[i] = device[j] => i = j
  /\ DOMAIN map = {device[i] : i \in AllPatterns}
  /\ \A i \in AllPatterns : map[device[i]] = i

DeviceMaps == UNION {[D -> AllPatterns] : D \in SUBSET Masks}

\* What configurePatterns changes.
Configurations ==
  [masks : [AllPatterns -> Masks], maps : [Kinds -> DeviceMaps],
   device : [Kinds -> [AllPatterns -> Masks]], fake : BOOLEAN, ok : BOOLEAN]

DevicesKept(c) == \A k \in Kinds : KindKept(c.maps[k], c.device[k])

LEMMA DeviceMapsAreFunctions ==
  ASSUME NEW map
  PROVE  map \in DeviceMaps
           <=> DOMAIN map \subseteq Masks /\ map \in [DOMAIN map -> AllPatterns]
BY DEF DeviceMaps

\* A set that moves to a key that is free is kept, and so are the others.
LEMMA MovedIsKept ==
  ASSUME NEW map \in DeviceMaps, NEW device \in [AllPatterns -> Masks],
         KindKept(map, device), NEW old \in DOMAIN map, NEW new \in Masks \ DOMAIN map
  PROVE  LET after == MoveKey(map, old, new)
             carried == [device EXCEPT ![map[old]] = new]
         IN after \in DeviceMaps /\ carried \in [AllPatterns -> Masks]
            /\ KindKept(after, carried)
<1> DEFINE D == (DOMAIN map \ {old}) \cup {new}
           after == MoveKey(map, old, new)
           carried == [device EXCEPT ![map[old]] = new]
<1>1. DOMAIN map \subseteq Masks /\ map \in [DOMAIN map -> AllPatterns]
  BY DeviceMapsAreFunctions
<1>2. PICK o \in AllPatterns : old = device[o] /\ map[old] = o
  BY DEF KindKept
<1>3. \A i \in AllPatterns : device[i] \in DOMAIN map /\ map[device[i]] = i
  BY DEF KindKept
<1>4. \A k \in D : after[k] = IF k = new THEN o ELSE map[k]
  BY <1>2 DEF MoveKey
<1>5. \A i \in AllPatterns : carried[i] = IF i = o THEN new ELSE device[i]
  BY <1>2
<1>6. carried \in [AllPatterns -> Masks] /\ DOMAIN after = D
  BY <1>2 DEF MoveKey
<1>7. after \in DeviceMaps
  <2>1. D \subseteq Masks
    BY <1>1
  <2>2. \A k \in D : after[k] \in AllPatterns
    BY <1>1, <1>4
  <2>3. after \in [D -> AllPatterns]
    BY <2>2 DEF MoveKey
  <2> HIDE DEF after, D
  <2> QED BY <1>6, <2>1, <2>3, DeviceMapsAreFunctions, Zenon
<1>8. KindKept(after, carried)
  <2> HIDE DEF after, carried
  <2>1. ASSUME NEW i \in AllPatterns, NEW j \in AllPatterns, carried[i] = carried[j]
        PROVE  i = j
    BY <1>3, <1>5, <2>1 DEF KindKept
  <2>2. ASSUME NEW i \in AllPatterns
        PROVE  carried[i] \in D /\ after[carried[i]] = i
    <3>1. CASE i = o
      BY <1>4, <1>5, <3>1
    <3>2. CASE i # o
      <4>1. carried[i] = device[i] /\ device[i] # new /\ device[i] # old
        BY <1>2, <1>3, <1>5, <3>2
      <4> QED BY <1>3, <1>4, <4>1
    <3> QED BY <3>1, <3>2
  <2>3. ASSUME NEW k \in D
        PROVE  \E i \in AllPatterns : k = carried[i]
    <3>1. CASE k = new
      BY <1>5, <3>1
    <3>2. CASE k # new
      <4>1. k \in DOMAIN map /\ k # old
        BY <3>2
      <4>2. PICK i \in AllPatterns : k = device[i]
        BY <4>1 DEF KindKept
      <4> QED BY <1>2, <1>5, <4>1, <4>2
    <3> QED BY <3>1, <3>2
  <2> HIDE DEF D
  <2>4. DOMAIN after = {carried[i] : i \in AllPatterns}
    BY <1>6, <2>2, <2>3
  <2> QED BY <2>1, <2>2, <2>4 DEF KindKept
<1> QED BY <1>6, <1>7, <1>8

\* The three outcomes of reconfigureDevices.
LEMMA ReconfigureDevicesCases ==
  ASSUME NEW c, NEW kind, NEW previous, NEW new
  PROVE  LET map == c.maps[kind]
             key == CHOOSE k \in FoundIn(map, previous) : TRUE
             taken == FoundIn(map, new) # {} \/ FoundIn(map, previous) = {}
             d == ReconfigureDevices(c, kind, previous, new)
         IN /\ ~c.ok => d = c
            /\ c.ok /\ taken => d = [c EXCEPT !.ok = FALSE]
            /\ c.ok /\ ~taken => d = [c EXCEPT !.maps[kind] = MoveKey(map, key, new),
                                             !.device[kind][map[key]] = new]
<1> DEFINE map == c.maps[kind]
           key == CHOOSE k \in FoundIn(map, previous) : TRUE
           taken == FoundIn(map, new) # {} \/ FoundIn(map, previous) = {}
           d == ReconfigureDevices(c, kind, previous, new)
           refused == [c EXCEPT !.ok = FALSE]
           moved == [c EXCEPT !.maps[kind] = MoveKey(map, key, new),
                              !.device[kind][map[key]] = new]
           cased == IF ~c.ok THEN c ELSE IF taken THEN refused ELSE Remask(c, kind, key, new)
<1>1. d = cased
  BY Zenon DEF ReconfigureDevices
<1>2. moved = Remask(c, kind, key, new)
  BY Zenon DEF Remask
<1> HIDE DEF d, key, map, taken, refused, moved
<1>3. /\ ~c.ok => d = c
      /\ c.ok /\ taken => d = refused
      /\ c.ok /\ ~taken => d = moved
  BY <1>1, <1>2
<1> QED BY <1>3, Zenon DEF d, key, map, taken, refused, moved

\* reconfigureDevices fails iff the new mask is taken or the previous one is unknown;
\* in any case the sets of all kinds are kept.
LEMMA ReconfiguredIsKept ==
  ASSUME NEW c \in Configurations, DevicesKept(c), NEW kind \in Kinds,
         NEW previous \in Masks, NEW new \in Masks
  PROVE  LET d == ReconfigureDevices(c, kind, previous, new) IN
         /\ d \in Configurations /\ DevicesKept(d) /\ d.masks = c.masks /\ d.fake = c.fake
         /\ d.ok <=> c.ok /\ new \notin DOMAIN c.maps[kind] /\ previous \in DOMAIN c.maps[kind]
         /\ d.ok => d.device = [c.device EXCEPT ![kind][c.maps[kind][previous]] = new]
<1> DEFINE map == c.maps[kind]
           key == CHOOSE k \in FoundIn(map, previous) : TRUE
           d == ReconfigureDevices(c, kind, previous, new)
           taken == FoundIn(map, new) # {} \/ FoundIn(map, previous) = {}
           Result == /\ d \in Configurations /\ DevicesKept(d)
                     /\ d.masks = c.masks /\ d.fake = c.fake
                     /\ d.ok <=> c.ok /\ new \notin DOMAIN map /\ previous \in DOMAIN map
                     /\ d.ok => d.device = [c.device EXCEPT ![kind][map[previous]] = new]
<1> SUFFICES Result
  BY Zenon
<1> DEFINE refused == [c EXCEPT !.ok = FALSE]
           moved == [c EXCEPT !.maps[kind] = MoveKey(map, key, new),
                              !.device[kind][map[key]] = new]
<1>00. /\ ~c.ok => d = c
       /\ c.ok /\ taken => d = refused
       /\ c.ok /\ ~taken => d = moved
  BY ReconfigureDevicesCases, ZenonT(40)
<1>1. map \in DeviceMaps /\ c.device[kind] \in [AllPatterns -> Masks]
      /\ KindKept(map, c.device[kind])
  BY DEF Configurations, DevicesKept
<1>2. DOMAIN map \subseteq Masks
  BY <1>1, DeviceMapsAreFunctions, Zenon
<1>3. FoundIn(map, new) = {new} \cap DOMAIN map
      /\ FoundIn(map, previous) = {previous} \cap DOMAIN map
  BY <1>2, FoundIsThere, Zenon
<1>4. taken <=> ~(new \notin DOMAIN map /\ previous \in DOMAIN map)
  BY <1>3
<1>5. CASE ~c.ok
  <2>1. d = c
    BY <1>00, <1>5, Zenon
  <2> QED BY <1>5, <2>1, Zenon
<1>6. CASE c.ok /\ taken
  <2>1. d = [c EXCEPT !.ok = FALSE]
    BY <1>00, <1>6, Zenon
  <2>2. d \in Configurations /\ d.masks = c.masks /\ d.maps = c.maps /\ d.device = c.device
        /\ d.fake = c.fake /\ ~d.ok
    <3> HIDE DEF d
    <3> QED BY <2>1 DEF Configurations
  <2> HIDE DEF d, taken
  <2>3. DevicesKept(d)
    BY <2>2, Zenon DEF DevicesKept
  <2> QED BY <1>4, <1>6, <2>2, <2>3, Zenon
<1>7. CASE c.ok /\ ~taken
  <2> DEFINE after == MoveKey(map, previous, new)
             carried == [c.device[kind] EXCEPT ![map[previous]] = new]
  <2>1. key = previous
    BY <1>3, <1>4, <1>7
  <2>2. d = moved
    BY <1>00, <1>7, Zenon
  <2>3. d = [c EXCEPT !.maps[kind] = after, !.device[kind][map[previous]] = new]
    <3> HIDE DEF d, key
    <3> QED BY <2>1, <2>2
  <2>4. after \in DeviceMaps /\ carried \in [AllPatterns -> Masks] /\ KindKept(after, carried)
    BY <1>1, <1>4, <1>7, MovedIsKept, Zenon
  <2> HIDE DEF after, d, map
  <2>5. d.masks = c.masks /\ d.fake = c.fake /\ d.ok = c.ok
        /\ d.maps = [c.maps EXCEPT ![kind] = after]
        /\ d.device = [c.device EXCEPT ![kind][map[previous]] = new]
        /\ d = [masks |-> d.masks, maps |-> d.maps, device |-> d.device, fake |-> d.fake,
                ok |-> d.ok]
    BY <2>3 DEF Configurations
  <2>6. d.device = [c.device EXCEPT ![kind] = carried]
    BY <2>5
  <2>7. c.masks \in [AllPatterns -> Masks] /\ c.maps \in [Kinds -> DeviceMaps]
        /\ c.device \in [Kinds -> [AllPatterns -> Masks]] /\ c.fake \in BOOLEAN
        /\ c.ok \in BOOLEAN
    BY DEF Configurations
  <2> HIDE DEF carried
  <2>8. d.maps \in [Kinds -> DeviceMaps] /\ d.device \in [Kinds -> [AllPatterns -> Masks]]
    <3> HIDE DEF moved, key, taken
    <3>1. /\ c.maps \in [Kinds -> DeviceMaps] /\ after \in DeviceMaps
          /\ d.maps = [c.maps EXCEPT ![kind] = after]
      BY <2>4, <2>5, <2>7, Zenon
    <3>2. d.maps \in [Kinds -> DeviceMaps]
      BY <3>1
    <3>3. /\ c.device \in [Kinds -> [AllPatterns -> Masks]] /\ carried \in [AllPatterns -> Masks]
          /\ d.device = [c.device EXCEPT ![kind] = carried]
      BY <2>4, <2>6, <2>7, Zenon
    <3>4. d.device \in [Kinds -> [AllPatterns -> Masks]]
      BY <3>3
    <3> QED BY <3>2, <3>4
  <2>9. d \in Configurations
    BY <2>5, <2>7, <2>8 DEF Configurations
  <2>10. DevicesKept(d)
    <3> SUFFICES ASSUME NEW k \in Kinds PROVE KindKept(d.maps[k], d.device[k])
      BY Zenon DEF DevicesKept
    <3>1. k = kind => d.maps[k] = after /\ d.device[k] = carried
      BY <2>5, <2>6, <2>7
    <3>2. k # kind => d.maps[k] = c.maps[k] /\ d.device[k] = c.device[k]
      BY <2>5, <2>6, <2>7
    <3> QED BY <2>4, <3>1, <3>2, Zenon DEF DevicesKept
  <2> HIDE DEF taken
  <2> QED BY <1>4, <1>7, <2>5, <2>9, <2>10, Zenon
<1> HIDE DEF Result, taken
<1> QED BY <1>5, <1>6, <1>7, Zenon

-----------------------------------------------------------------------------
(* reconfigurePattern moves the sets of one pattern, kind by kind *)

\* The sets of the kinds in K were moved from the masks olds to the masks news; a
\* configuration is refused only if the new mask was that of some pattern.
MovedIn(d, K, olds, news, new) ==
  /\ d.masks = news
  /\ d.ok => \A k \in Kinds : d.device[k] = IF k \in K THEN news ELSE olds
  /\ ~d.ok => \E j \in AllPatterns : new = olds[j]

LEMMA OneKindMoves ==
  ASSUME NEW d \in Configurations, DevicesKept(d), NEW kind \in Kinds,
         NEW K \in SUBSET Kinds, kind \notin K, NEW i \in AllPatterns,
         NEW olds \in [AllPatterns -> Masks], NEW new \in Masks, olds[i] # new,
         MovedIn(d, K, olds, [olds EXCEPT ![i] = new], new)
  PROVE  MovedIn(ReconfigureDevices(d, kind, olds[i], new), K \cup {kind}, olds,
                 [olds EXCEPT ![i] = new], new)
<1> DEFINE news == [olds EXCEPT ![i] = new]
           e == ReconfigureDevices(d, kind, olds[i], new)
<1>1. olds[i] \in Masks /\ news \in [AllPatterns -> Masks]
  OBVIOUS
<1>2. e.masks = d.masks
      /\ (e.ok <=> d.ok /\ new \notin DOMAIN d.maps[kind] /\ olds[i] \in DOMAIN d.maps[kind])
      /\ (e.ok => e.device = [d.device EXCEPT ![kind][d.maps[kind][olds[i]]] = new])
  BY <1>1, ReconfiguredIsKept, Zenon
<1>3. d.device \in [Kinds -> [AllPatterns -> Masks]]
  BY DEF Configurations
<1>4. d.masks = news
      /\ (d.ok => \A k \in Kinds : d.device[k] = IF k \in K THEN news ELSE olds)
      /\ (~d.ok => \E j \in AllPatterns : new = olds[j])
  BY Zenon DEF MovedIn
<1>5. d.ok => d.device[kind] = olds
  BY <1>4
<1>6. d.ok => /\ DOMAIN d.maps[kind] = {olds[j] : j \in AllPatterns}
              /\ d.maps[kind][olds[i]] = i
  <2>1. KindKept(d.maps[kind], d.device[kind])
    BY Zenon DEF DevicesKept
  <2>2. d.ok => KindKept(d.maps[kind], olds)
    BY <1>5, <2>1
  <2> QED BY <2>2, Zenon DEF KindKept
<1> HIDE DEF e
<1>7. ASSUME e.ok
      PROVE  \A k \in Kinds : e.device[k] = IF k \in K \cup {kind} THEN news ELSE olds
  <2>1. e.device = [d.device EXCEPT ![kind][i] = new]
    BY <1>2, <1>6, <1>7
  <2>2. e.device[kind] = [d.device[kind] EXCEPT ![i] = new]
    BY <1>3, <2>1
  <2>3. e.device[kind] = news
    BY <1>2, <1>5, <1>7, <2>2
  <2>4. \A k \in Kinds : k # kind => e.device[k] = d.device[k]
    BY <1>3, <2>1
  <2> HIDE DEF news
  <2> QED BY <1>2, <1>4, <1>7, <2>3, <2>4
<1>8. ~e.ok => \E j \in AllPatterns : new = olds[j]
  <2>1. d.ok => olds[i] \in DOMAIN d.maps[kind]
    BY <1>6
  <2> QED BY <1>2, <1>4, <1>6, <2>1
<1>9. e.masks = news
  BY <1>2, <1>4, Zenon
<1> HIDE DEF news
<1>10. MovedIn(e, K \cup {kind}, olds, news, new)
  BY <1>7, <1>8, <1>9, Zenon DEF MovedIn
<1> QED BY <1>10, Zenon DEF e, news

LEMMA OneKindIsKept ==
  ASSUME NEW c \in Configurations, DevicesKept(c), NEW kind \in Kinds,
         NEW previous \in Masks, NEW new \in Masks
  PROVE  LET d == ReconfigureDevices(c, kind, previous, new) IN
         d \in Configurations /\ DevicesKept(d) /\ d.masks = c.masks
BY ReconfiguredIsKept, Zenon

\* Only the flag for beam without beam changes.
LEMMA FakeIsFree ==
  ASSUME NEW c \in Configurations, NEW b \in BOOLEAN
  PROVE  LET d == [c EXCEPT !.fake = b] IN
         /\ d \in Configurations /\ d.masks = c.masks /\ d.maps = c.maps
         /\ d.device = c.device /\ d.ok = c.ok
         /\ DevicesKept(c) => DevicesKept(d)
         /\ \A K, olds, news, new : MovedIn(c, K, olds, news, new) => MovedIn(d, K, olds, news, new)
<1> DEFINE d == [c EXCEPT !.fake = b]
<1>1. /\ d \in Configurations /\ d.masks = c.masks /\ d.maps = c.maps
      /\ d.device = c.device /\ d.ok = c.ok
  BY DEF Configurations
<1> HIDE DEF d
<1>2. DevicesKept(c) => DevicesKept(d)
  BY <1>1, Zenon DEF DevicesKept
<1>3. \A K, olds, news, new : MovedIn(c, K, olds, news, new) => MovedIn(d, K, olds, news, new)
  BY <1>1, Zenon DEF MovedIn
<1> QED BY <1>1, <1>2, <1>3, Zenon DEF d

\* From c to r the sets are kept, and if each pattern had its sets under its mask before,
\* it has them under its mask afterwards.
Followed(c, r, previous, new) ==
  /\ r \in Configurations /\ DevicesKept(r) /\ r.masks = c.masks
  /\ \A olds \in [AllPatterns -> Masks], i \in AllPatterns :
       /\ olds[i] = previous /\ new # previous
       /\ MovedIn(c, {}, olds, [olds EXCEPT ![i] = new], new)
       => MovedIn(r, Kinds, olds, [olds EXCEPT ![i] = new], new)
  /\ previous = new => r = c

\* The whole of reconfigurePattern.
LEMMA PatternIsMoved ==
  ASSUME NEW c \in Configurations, DevicesKept(c), NEW previous \in Masks,
         NEW new \in Masks, NEW isFile \in BOOLEAN
  PROVE  Followed(c, ReconfigurePattern(c, previous, new, isFile), previous, new)
<1> DEFINE measured == ReconfigureDevices(c, "measurements", previous, new)
           fake == c.fake \/ (measured.ok /\ isFile)
           faked == [measured EXCEPT !.fake = fake]
           acted == ReconfigureDevices(faked, "actuators", previous, new)
           stated == ReconfigureDevices(acted, "states", previous, new)
           moved == ReconfigureDevices(stated, "setpoints", previous, new)
           r == ReconfigurePattern(c, previous, new, isFile)
<1>0. "measurements" \in Kinds /\ "actuators" \in Kinds /\ "states" \in Kinds
      /\ "setpoints" \in Kinds
  BY DEF Kinds
<1>1. r = IF previous = new THEN c ELSE moved
  BY DEF ReconfigurePattern
<1> HIDE DEF r
<1>2. measured \in Configurations /\ DevicesKept(measured) /\ measured.masks = c.masks
  BY <1>0, OneKindIsKept, Zenon
<1>3. fake \in BOOLEAN
  BY <1>2 DEF Configurations
<1> HIDE DEF measured, fake
<1>4. faked \in Configurations /\ DevicesKept(faked) /\ faked.masks = c.masks
  BY <1>2, <1>3, FakeIsFree, Zenon
<1>5. \A K, olds, news : MovedIn(measured, K, olds, news, new) => MovedIn(faked, K, olds, news, new)
  BY <1>2, <1>3, FakeIsFree, Zenon
<1> HIDE DEF faked
<1>6. acted \in Configurations /\ DevicesKept(acted) /\ acted.masks = c.masks
  BY <1>0, <1>4, OneKindIsKept, ZenonT(40)
<1> HIDE DEF acted
<1>7. stated \in Configurations /\ DevicesKept(stated) /\ stated.masks = c.masks
  BY <1>0, <1>6, OneKindIsKept, ZenonT(40)
<1> HIDE DEF stated
<1>8. moved \in Configurations /\ DevicesKept(moved) /\ moved.masks = c.masks
  BY <1>0, <1>7, OneKindIsKept, ZenonT(40)
<1> HIDE DEF moved
<1>9. ASSUME NEW olds \in [AllPatterns -> Masks], NEW i \in AllPatterns,
             olds[i] = previous, new # previous,
             MovedIn(c, {}, olds, [olds EXCEPT ![i] = new], new)
      PROVE  MovedIn(moved, Kinds, olds, [olds EXCEPT ![i] = new], new)
  <2> DEFINE news == [olds EXCEPT ![i] = new]
             Kind1 == {} \cup {"measurements"}
             Kind2 == Kind1 \cup {"actuators"}
             Kind3 == Kind2 \cup {"states"}
             Kind4 == Kind3 \cup {"setpoints"}
  <2>0. {} \in SUBSET Kinds /\ Kind1 \in SUBSET Kinds /\ Kind2 \in SUBSET Kinds
        /\ Kind3 \in SUBSET Kinds /\ "measurements" \notin {} /\ "actuators" \notin Kind1
        /\ "states" \notin Kind2 /\ "setpoints" \notin Kind3 /\ Kind4 = Kinds
    BY DEF Kinds
  <2>1. MovedIn(measured, Kind1, olds, news, new)
    BY <1>0, <1>9, <2>0, OneKindMoves, Zenon DEF measured
  <2>2. MovedIn(faked, Kind1, olds, news, new)
    BY <1>5, <2>1, Zenon
  <2> HIDE DEF Kind1
  <2>3. MovedIn(acted, Kind2, olds, news, new)
    BY <1>0, <1>4, <1>9, <2>0, <2>2, OneKindMoves, Zenon DEF acted
  <2> HIDE DEF Kind2
  <2>4. MovedIn(stated, Kind3, olds, news, new)
    BY <1>0, <1>6, <1>9, <2>0, <2>3, OneKindMoves, Zenon DEF stated
  <2> HIDE DEF Kind3
  <2>5. MovedIn(moved, Kind4, olds, news, new)
    BY <1>0, <1>7, <1>9, <2>0, <2>4, OneKindMoves, Zenon DEF moved
  <2> HIDE DEF Kind4, news
  <2> QED BY <2>0, <2>5, Zenon DEF news
<1>10. CASE previous = new
  <2>1. r = c
    BY <1>1, <1>10
  <2>2. Followed(c, r, previous, new)
    BY <1>10, <2>1, Zenon DEF Followed
  <2> QED BY <2>2 DEF r
<1>11. CASE previous # new
  <2>1. r = moved
    BY <1>1, <1>11
  <2>2. Followed(c, r, previous, new)
    BY <1>8, <1>9, <1>11, <2>1, Zenon DEF Followed
  <2> QED BY <2>2 DEF r
<1> QED BY <1>10, <1>11, Zenon

-----------------------------------------------------------------------------
(* configurePatterns, pattern by pattern *)

ConfigureNext(c, i, poi, isFile) ==
  LET new == MaskOf(c.masks[i], poi[i])
  IN IF ~c.ok THEN c
     ELSE ReconfigurePattern([c EXCEPT !.masks[i] = new], c.masks[i], new, isFile)

\* g holds what there is after each of the patterns.
IsConfiguring(g, first, total, poi, isFile) ==
  g = [i \in 0 .. total |-> IF i = 0 THEN first ELSE ConfigureNext(g[i - 1], i, poi, isFile)]

LEMMA ConfiguringExists ==
  ASSUME NEW total \in Nat, NEW first, NEW poi, NEW isFile
  PROVE  \E g : IsConfiguring(g, first, total, poi, isFile)
<1> DEFINE T == {n \in Nat : ~\E g : IsConfiguring(g, first, n, poi, isFile)}
<1> SUFFICES ASSUME T # {} PROVE FALSE
  OBVIOUS
<1>1. T \in SUBSET Nat
  OBVIOUS
<1>2. PICK n \in T : \A m \in T : n <= m
  BY <1>1, LeastIndex, Zenon
<1>3. CASE n = 0
  <2> DEFINE g == [i \in 0 .. 0 |-> first]
  <2>1. g = [i \in 0 .. 0 |-> IF i = 0 THEN first ELSE ConfigureNext(g[i - 1], i, poi, isFile)]
    OBVIOUS
  <2> HIDE DEF g
  <2>2. IsConfiguring(g, first, 0, poi, isFile)
    BY <2>1, Zenon DEF IsConfiguring
  <2> QED BY <1>3, <2>2
<1>4. CASE n # 0
  <2>1. n \in Nat /\ n - 1 \in Nat /\ n - 1 \notin T
    BY <1>2, <1>4
  <2>2. PICK f : IsConfiguring(f, first, n - 1, poi, isFile)
    BY <2>1
  <2> DEFINE g == [i \in 0 .. n |-> IF i = n THEN ConfigureNext(f[n - 1], n, poi, isFile) ELSE f[i]]
  <2>3. \A i \in 0 .. n - 1 : f[i] = IF i = 0 THEN first ELSE ConfigureNext(f[i - 1], i, poi, isFile)
    BY <2>2 DEF IsConfiguring
  <2>4. \A i \in 0 .. n : g[i] = IF i = n THEN ConfigureNext(f[n - 1], n, poi, isFile) ELSE f[i]
    OBVIOUS
  <2>5. \A i \in 0 .. n : i # 0 => g[i - 1] = f[i - 1]
    BY <2>1, <2>4
  <2>6. \A i \in 0 .. n :
          g[i] = IF i = 0 THEN first ELSE ConfigureNext(g[i - 1], i, poi, isFile)
    <3> HIDE DEF g
    <3> SUFFICES ASSUME NEW i \in 0 .. n
                 PROVE  g[i] = IF i = 0 THEN first ELSE ConfigureNext(g[i - 1], i, poi, isFile)
      OBVIOUS
    <3>1. CASE i = n
      BY <1>4, <2>1, <2>4, <2>5, <3>1
    <3>2. CASE i # n
      BY <1>4, <2>1, <2>3, <2>4, <2>5, <3>2
    <3> QED BY <3>1, <3>2
  <2>7. g = [i \in 0 .. n |-> g[i]]
    OBVIOUS
  <2>8. g = [i \in 0 .. n |-> IF i = 0 THEN first ELSE ConfigureNext(g[i - 1], i, poi, isFile)]
    <3> HIDE DEF g
    <3> QED BY <2>6, <2>7
  <2> HIDE DEF g
  <2>9. IsConfiguring(g, first, n, poi, isFile)
    BY <2>8, Zenon DEF IsConfiguring
  <2> QED BY <1>2, <2>9
<1> QED BY <1>3, <1>4

LEMMA ConfigurePatternsIsLast ==
  ASSUME NEW total \in Nat, NEW poi, NEW isFile
  PROVE  LET first == [masks |-> patternMasks, maps |-> deviceMaps, device |-> deviceMask,
                       fake |-> fakeBeam, ok |-> TRUE]
         IN \E g : /\ IsConfiguring(g, first, total, poi, isFile)
                   /\ ConfigurePatterns(poi, total, isFile) = g[total]
<1> DEFINE first == [masks |-> patternMasks, maps |-> deviceMaps, device |-> deviceMask,
                     fake |-> fakeBeam, ok |-> TRUE]
           configured == CHOOSE g : g = [i \in 0 .. total |->
               IF i = 0 THEN first ELSE ConfigureNext(g[i - 1], i, poi, isFile)]
<1>1. ConfigurePatterns(poi, total, isFile) = configured[total]
  BY DEF ConfigurePatterns, ConfigureNext
<1> HIDE DEF first
<1>2. \E g : IsConfiguring(g, first, total, poi, isFile)
  BY ConfiguringExists, Zenon
<1>3. IsConfiguring(configured, first, total, poi, isFile)
  BY <1>2, Zenon DEF IsConfiguring
<1> HIDE DEF configured
<1>4. \E g : IsConfiguring(g, first, total, poi, isFile) /\ ConfigurePatterns(poi, total, isFile) = g[total]
  BY <1>1, <1>3, Zenon
<1> QED BY <1>4, Zenon DEF first

\* What there is after the first i patterns: every set is kept, and if each pattern had
\* its sets before, it has them now, unless two patterns were given the same mask.
Configured(c, i, before, aligned) ==
  /\ c \in Configurations /\ DevicesKept(c)
  /\ \A j \in AllPatterns : j > i => c.masks[j] = before[j]
  /\ aligned =>
       /\ c.ok => \A k \in Kinds : c.device[k] = c.masks
       /\ ~c.ok => \E l \in 1 .. i, j \in AllPatterns : j # l /\ c.masks[l] = c.masks[j]

LEMMA ConfigureNextKeeps ==
  ASSUME NEW i \in AllPatterns, NEW c, NEW before, NEW aligned,
         NEW poi, poi[i] \in PoiValues, NEW isFile \in BOOLEAN,
         Configured(c, i - 1, before, aligned)
  PROVE  Configured(ConfigureNext(c, i, poi, isFile), i, before, aligned)
<1> DEFINE new == MaskOf(c.masks[i], poi[i])
           entered == [c EXCEPT !.masks[i] = new]
           r == ReconfigurePattern(entered, c.masks[i], new, isFile)
           e == ConfigureNext(c, i, poi, isFile)
           olds == c.masks
           news == [olds EXCEPT ![i] = new]
<1>0. c \in Configurations /\ DevicesKept(c)
      /\ (\A j \in AllPatterns : j > i - 1 => c.masks[j] = before[j])
      /\ (aligned =>
            /\ c.ok => \A k \in Kinds : c.device[k] = c.masks
            /\ ~c.ok => \E l \in 1 .. i - 1, j \in AllPatterns : j # l /\ c.masks[l] = c.masks[j])
  BY Zenon DEF Configured
<1>1. e = IF ~c.ok THEN c ELSE r
  BY DEF ConfigureNext
<1>2. i \in Nat /\ i \in 1 .. i /\ \A j \in AllPatterns : j \in Int
  BY PatternAssumption DEF AllPatterns
<1> HIDE DEF e
<1>3. CASE ~c.ok
  <2>1. e = c
    BY <1>1, <1>3
  <2>2. \A j \in AllPatterns : j > i => c.masks[j] = before[j]
    <3>1. \A j \in AllPatterns : j > i => j > i - 1
      BY <1>2
    <3> QED BY <1>0, <3>1, Zenon
  <2>3. aligned => \E l \in 1 .. i, j \in AllPatterns : j # l /\ c.masks[l] = c.masks[j]
    BY <1>0, <1>2, <1>3
  <2>4. Configured(c, i, before, aligned)
    BY <1>0, <1>3, <2>2, <2>3, Zenon DEF Configured
  <2> QED BY <2>1, <2>4, Zenon DEF e
<1>4. CASE c.ok
  <2>1. olds \in [AllPatterns -> Masks] /\ c.maps \in [Kinds -> DeviceMaps]
        /\ c.device \in [Kinds -> [AllPatterns -> Masks]] /\ c.fake \in BOOLEAN
        /\ c.ok \in BOOLEAN
        /\ c = [masks |-> c.masks, maps |-> c.maps, device |-> c.device, fake |-> c.fake,
                ok |-> c.ok]
    BY <1>0 DEF Configurations
  <2>2. new \in Masks /\ olds[i] \in Masks
    BY <2>1, WaveformIsMask
  <2> HIDE DEF new
  <2>3. entered.masks = news /\ entered.maps = c.maps /\ entered.device = c.device
        /\ entered.ok = c.ok /\ entered \in Configurations
    BY <2>1, <2>2 DEF Configurations
  <2> HIDE DEF entered
  <2>4. DevicesKept(entered)
    BY <1>0, <2>3, Zenon DEF DevicesKept
  <2>a. Followed(entered, r, olds[i], new)
    BY <2>2, <2>3, <2>4, PatternIsMoved, Zenon
  <2> HIDE DEF r
  <2>5. /\ r \in Configurations /\ DevicesKept(r) /\ r.masks = news
        /\ \A o \in [AllPatterns -> Masks], p \in AllPatterns :
              /\ o[p] = olds[i] /\ new # olds[i]
              /\ MovedIn(entered, {}, o, [o EXCEPT ![p] = new], new)
              => MovedIn(r, Kinds, o, [o EXCEPT ![p] = new], new)
        /\ olds[i] = new => r = entered
    BY <2>3, <2>a, Zenon DEF Followed
  <2>6. e = r
    BY <1>1, <1>4
  <2>7. \A j \in AllPatterns : j > i => r.masks[j] = before[j]
    BY <1>0, <1>2, <2>1, <2>5
  <2>8. ASSUME aligned
        PROVE  /\ r.ok => \A k \in Kinds : r.device[k] = r.masks
               /\ ~r.ok => \E l \in 1 .. i, j \in AllPatterns : j # l /\ r.masks[l] = r.masks[j]
    <3>0. \A k \in Kinds : c.device[k] = olds
      BY <1>0, <1>4, <2>8
    <3>1. CASE new = olds[i]
      <4>1. r = entered /\ news = olds
        BY <2>1, <2>5, <3>1
      <4> HIDE DEF news
      <4> QED BY <1>4, <2>3, <3>0, <4>1
    <3>2. CASE new # olds[i]
      <4>1. MovedIn(entered, {}, olds, news, new)
        BY <1>4, <2>3, <3>0 DEF MovedIn
      <4>2. MovedIn(r, Kinds, olds, news, new)
        BY <2>1, <2>5, <3>2, <4>1, Zenon
      <4>3. r.ok => \A k \in Kinds : r.device[k] = news
        BY <4>2 DEF MovedIn
      <4>4. ASSUME ~r.ok
            PROVE  \E l \in 1 .. i, j \in AllPatterns : j # l /\ r.masks[l] = r.masks[j]
        <5>1. PICK j \in AllPatterns : new = olds[j]
          BY <4>2, <4>4 DEF MovedIn
        <5>2. j # i /\ news[j] = olds[j] /\ news[i] = new
          BY <2>1, <3>2, <5>1
        <5> HIDE DEF news
        <5> QED BY <1>2, <2>5, <5>1, <5>2
      <4> HIDE DEF news
      <4> QED BY <2>5, <4>3, <4>4
    <3> QED BY <3>1, <3>2
  <2>9. Configured(r, i, before, aligned)
    BY <2>5, <2>7, <2>8, Zenon DEF Configured
  <2> QED BY <2>6, <2>9, Zenon DEF e
<1> QED BY <1>3, <1>4, Zenon

LEMMA AllAreConfigured ==
  ASSUME NEW total \in AllPatterns, NEW poi \in [1 .. total -> PoiValues],
         NEW isFile \in BOOLEAN, NEW first, NEW before, NEW aligned, NEW g,
         Configured(first, 0, before, aligned),
         IsConfiguring(g, first, total, poi, isFile)
  PROVE  Configured(g[total], total, before, aligned)
<1> DEFINE T == {i \in 0 .. total : ~Configured(g[i], i, before, aligned)}
<1>0. total \in Nat /\ total <= MaxPatterns /\ MaxPatterns \in Nat
  BY PatternAssumption DEF AllPatterns
<1>1. \A i \in 0 .. total : g[i] = IF i = 0 THEN first ELSE ConfigureNext(g[i - 1], i, poi, isFile)
  BY DEF IsConfiguring
<1>2. T = {}
  <2> SUFFICES ASSUME T # {} PROVE FALSE
    OBVIOUS
  <2>1. T \in SUBSET Nat
    OBVIOUS
  <2>2. PICK n \in T : \A m \in T : n <= m
    BY <2>1, LeastIndex, Zenon
  <2>3. n # 0
    BY <1>0, <1>1
  <2>4. n \in AllPatterns /\ n \in 1 .. total /\ n - 1 \in 0 .. total
    BY <1>0, <2>3 DEF AllPatterns
  <2>5. Configured(g[n - 1], n - 1, before, aligned)
    BY <2>2, <2>4
  <2>6. poi[n] \in PoiValues
    BY <2>4
  <2>7. Configured(ConfigureNext(g[n - 1], n, poi, isFile), n, before, aligned)
    BY <2>4, <2>5, <2>6, ConfigureNextKeeps, Zenon
  <2>8. g[n] = ConfigureNext(g[n - 1], n, poi, isFile)
    BY <1>1, <2>3, <2>4
  <2> QED BY <2>7, <2>8
<1> QED BY <1>0, <1>2

-----------------------------------------------------------------------------
(* The order of the names of states and setpoints *)

LEMMA StateNames ==
  ASSUME NEW n \in Nat
  PROVE  LET name == StateName(n) IN
         /\ name \in Seq(Int) /\ name[1] = 83
         /\ n < 10 => Len(name) = 2 /\ name[2] = 48 + n
         /\ n >= 10 => Len(name) = 3 /\ name[2] = 48 + (n \div 10) /\ name[3] = 48 + (n % 10)
<1> DEFINE one == <<83>>
<1>1. one \in Seq(Int) /\ Len(one) = 1 /\ one[1] = 83
  OBVIOUS
<1>2. CASE n < 10
  <2> DEFINE digits == <<48 + n>>
  <2>1. digits \in Seq(Int) /\ Len(digits) = 1 /\ digits[1] = 48 + n
    OBVIOUS
  <2>2. StateName(n) = one \o digits
    BY <1>2 DEF StateName, Digits
  <2> HIDE DEF one, digits
  <2>3. /\ one \o digits \in Seq(Int) /\ Len(one \o digits) = Len(one) + Len(digits)
        /\ \A i \in 1 .. Len(one) + Len(digits) :
             (one \o digits)[i] = IF i <= Len(one) THEN one[i] ELSE digits[i - Len(one)]
    <3>1. one \in Seq(Int) /\ digits \in Seq(Int)
      BY <1>1, <2>1
    <3> QED BY <3>1, ConcatProperties, Zenon
  <2> QED BY <1>1, <1>2, <2>1, <2>2, <2>3
<1>3. CASE n >= 10
  <2> DEFINE digits == <<48 + (n \div 10), 48 + (n % 10)>>
  <2>1. digits \in Seq(Int) /\ Len(digits) = 2 /\ digits[1] = 48 + (n \div 10)
        /\ digits[2] = 48 + (n % 10)
    OBVIOUS
  <2>2. StateName(n) = one \o digits
    BY <1>3 DEF StateName, Digits
  <2> HIDE DEF one, digits
  <2>3. /\ one \o digits \in Seq(Int) /\ Len(one \o digits) = Len(one) + Len(digits)
        /\ \A i \in 1 .. Len(one) + Len(digits) :
             (one \o digits)[i] = IF i <= Len(one) THEN one[i] ELSE digits[i - Len(one)]
    <3>1. one \in Seq(Int) /\ digits \in Seq(Int)
      BY <1>1, <2>1
    <3> QED BY <3>1, ConcatProperties, Zenon
  <2>4. (one \o digits)[2] = digits[1] /\ (one \o digits)[3] = digits[2]
        /\ (one \o digits)[1] = one[1]
    BY <1>1, <2>1, <2>3
  <2> QED BY <1>1, <1>3, <2>1, <2>2, <2>3, <2>4
<1> QED BY <1>2, <1>3

\* The names of setpoints end alike.
LEMMA SetpointNames ==
  ASSUME NEW n \in Nat
  PROVE  LET name == StateName(n)
             long == SetpointName(n)
         IN /\ long \in Seq(Int) /\ Len(long) = Len(name) + 4
            /\ \A i \in 1 .. Len(name) : long[i] = name[i]
            /\ \A i \in Len(name) + 1 .. Len(long) : long[i] = <<68, 69, 83, 49>>[i - Len(name)]
<1> DEFINE name == StateName(n)
           end == <<68, 69, 83, 49>>
           long == SetpointName(n)
<1>1. name \in Seq(Int)
  BY StateNames
<1>2. end \in Seq(Int) /\ Len(end) = 4
  OBVIOUS
<1>3. long = name \o end
  BY DEF SetpointName
<1> HIDE DEF name, end, long
<1>4. /\ long \in Seq(Int) /\ Len(long) = Len(name) + 4
      /\ \A i \in 1 .. Len(name) + Len(end) :
           long[i] = IF i <= Len(name) THEN name[i] ELSE end[i - Len(name)]
  <2>1. /\ name \o end \in Seq(Int) /\ Len(name \o end) = Len(name) + Len(end)
        /\ \A i \in 1 .. Len(name) + Len(end) :
             (name \o end)[i] = IF i <= Len(name) THEN name[i] ELSE end[i - Len(name)]
    BY <1>1, <1>2, ConcatProperties, Zenon
  <2> QED BY <1>2, <1>3, <2>1
<1>5. /\ \A i \in 1 .. Len(name) : long[i] = name[i]
      /\ \A i \in Len(name) + 1 .. Len(long) : long[i] = end[i - Len(name)]
  <2>1. Len(name) \in Nat /\ Len(end) = 4 /\ Len(long) = Len(name) + 4
    BY <1>1, <1>2, <1>4
  <2>2. /\ \A i \in 1 .. Len(name) : i \in 1 .. Len(name) + Len(end) /\ i <= Len(name)
        /\ \A i \in Len(name) + 1 .. Len(long) :
             i \in 1 .. Len(name) + Len(end) /\ ~(i <= Len(name))
    BY <2>1
  <2> QED BY <1>4, <2>2, Zenon
<1> QED BY <1>4, <1>5, Zenon DEF name, end, long

LEMMA DecimalOrder ==
  ASSUME NEW m \in Nat, NEW n \in Nat
  PROVE  /\ m < n <=> \/ m \div 10 < n \div 10
                      \/ m \div 10 = n \div 10 /\ m % 10 < n % 10
         /\ m \div 10 \in Nat /\ n \div 10 \in Nat /\ m % 10 \in Nat /\ n % 10 \in Nat
OBVIOUS

\* Texts of the same length are in the order of what they differ in first.
LEMMA SameLengthLess ==
  ASSUME NEW a \in Seq(Int), NEW b \in Seq(Int), Len(a) = Len(b)
  PROVE  DeviceLess(a, b)
           <=> \E i \in 1 .. Len(a) : a[i] < b[i] /\ \A j \in 1 .. i - 1 : a[j] = b[j]
<1>1. DOMAIN a \cap DOMAIN b = 1 .. Len(a) /\ ~(Len(a) < Len(b)) /\ Len(a) \in Nat
  OBVIOUS
<1>2. TextLess(a, b) <=> \E i \in DOMAIN a \cap DOMAIN b :
                            a[i] < b[i] /\ \A j \in 1 .. i - 1 : a[j] = b[j]
  BY <1>1, Zenon DEF TextLess
<1>3. DeviceLess(a, b) <=> TextLess(a, b)
  BY <1>1, Zenon DEF DeviceLess
<1> QED BY <1>1, <1>2, <1>3, Zenon

\* Device::operator< orders states by their numbers,
LEMMA StatesInOrder ==
  ASSUME NEW m \in Nat, NEW n \in Nat
  PROVE  DeviceLess(StateName(m), StateName(n)) <=> m < n
<1> DEFINE a == StateName(m)
           b == StateName(n)
<1> SUFFICES DeviceLess(a, b) <=> m < n
  OBVIOUS
<1>1. /\ a \in Seq(Int) /\ a[1] = 83
      /\ m < 10 => Len(a) = 2 /\ a[2] = 48 + m
      /\ m >= 10 => Len(a) = 3 /\ a[2] = 48 + (m \div 10) /\ a[3] = 48 + (m % 10)
  BY StateNames
<1>2. /\ b \in Seq(Int) /\ b[1] = 83
      /\ n < 10 => Len(b) = 2 /\ b[2] = 48 + n
      /\ n >= 10 => Len(b) = 3 /\ b[2] = 48 + (n \div 10) /\ b[3] = 48 + (n % 10)
  BY StateNames
<1> HIDE DEF a, b
<1> DEFINE mTens == m \div 10
           nTens == n \div 10
           mUnits == m % 10
           nUnits == n % 10
<1>11. /\ a[1] = 83 /\ b[1] = 83
       /\ m < 10 => Len(a) = 2
       /\ n < 10 => Len(b) = 2
       /\ m >= 10 => Len(a) = 3 /\ a[2] = 48 + mTens /\ a[3] = 48 + mUnits
       /\ n >= 10 => Len(b) = 3 /\ b[2] = 48 + nTens /\ b[3] = 48 + nUnits
  BY <1>1, <1>2
<1>12. /\ m < n <=> mTens < nTens \/ (mTens = nTens /\ mUnits < nUnits)
       /\ mTens \in Nat /\ nTens \in Nat /\ mUnits \in Nat /\ nUnits \in Nat
  BY DecimalOrder
<1> HIDE DEF mTens, nTens, mUnits, nUnits
<1>3. CASE m < 10 /\ n < 10
  <2>1. DeviceLess(a, b) <=> \E i \in 1 .. 2 : a[i] < b[i] /\ \A j \in 1 .. i - 1 : a[j] = b[j]
    <3>1. Len(a) = 2 /\ Len(b) = 2
      BY <1>11, <1>3, Zenon
    <3>2. a \in Seq(Int) /\ b \in Seq(Int) /\ Len(a) = Len(b)
      BY <1>1, <1>2, <3>1, Zenon
    <3>3. DeviceLess(a, b)
            <=> \E i \in 1 .. Len(a) : a[i] < b[i] /\ \A j \in 1 .. i - 1 : a[j] = b[j]
      BY <3>2, SameLengthLess, Zenon
    <3> QED BY <3>1, <3>3, Zenon
  <2>2. DeviceLess(a, b) <=> a[2] < b[2]
    BY <1>1, <1>2, <2>1
  <2> QED BY <1>1, <1>2, <1>3, <2>2
<1>4. CASE m < 10 /\ n >= 10
  <2>0. Len(a) = 2 /\ Len(b) = 3
    BY <1>11, <1>4, Zenon
  <2>1. Len(a) < Len(b) /\ m < n
    BY <1>4, <2>0
  <2> HIDE DEF a, b
  <2>2. Len(a) \in Nat /\ Len(b) \in Nat
    BY <1>1, <1>2
  <2> QED BY <2>1, <2>2 DEF DeviceLess
<1>5. CASE m >= 10 /\ n < 10
  <2>0. Len(a) = 3 /\ Len(b) = 2
    BY <1>11, <1>5, Zenon
  <2>1. Len(a) > Len(b) /\ m > n
    BY <1>5, <2>0
  <2> HIDE DEF a, b
  <2>2. Len(a) \in Nat /\ Len(b) \in Nat
    BY <1>1, <1>2
  <2> QED BY <2>1, <2>2 DEF DeviceLess
<1>6. CASE m >= 10 /\ n >= 10
  <2>1. DeviceLess(a, b) <=> \E i \in 1 .. 3 : a[i] < b[i] /\ \A j \in 1 .. i - 1 : a[j] = b[j]
    <3>1. Len(a) = 3 /\ Len(b) = 3
      BY <1>11, <1>6, Zenon
    <3>2. a \in Seq(Int) /\ b \in Seq(Int) /\ Len(a) = Len(b)
      BY <1>1, <1>2, <3>1, Zenon
    <3>3. DeviceLess(a, b)
            <=> \E i \in 1 .. Len(a) : a[i] < b[i] /\ \A j \in 1 .. i - 1 : a[j] = b[j]
      BY <3>2, SameLengthLess, Zenon
    <3> QED BY <3>1, <3>3, Zenon
  <2>2. DeviceLess(a, b) <=> a[2] < b[2] \/ (a[2] = b[2] /\ a[3] < b[3])
    <3>1. ASSUME NEW i \in 1 .. 3, a[i] < b[i], \A j \in 1 .. i - 1 : a[j] = b[j]
          PROVE  a[2] < b[2] \/ (a[2] = b[2] /\ a[3] < b[3])
      <4>1. i # 1
        <5>1. ~(83 < 83)
          OBVIOUS
        <5> QED BY <1>11, <3>1, <5>1
      <4>2. i = 2 => a[2] < b[2]
        BY <3>1, Zenon
      <4>3. i = 3 => a[3] < b[3] /\ a[2] = b[2]
        BY <3>1
      <4>4. i = 2 \/ i = 3
        BY <4>1
      <4> QED BY <4>2, <4>3, <4>4
    <3>2. \A j \in 1 .. 2 - 1 : a[j] = b[j]
      BY <1>11
    <3>3. a[2] = b[2] => \A j \in 1 .. 3 - 1 : a[j] = b[j]
      BY <1>11
    <3>4. 2 \in 1 .. 3 /\ 3 \in 1 .. 3
      OBVIOUS
    <3> QED BY <2>1, <3>1, <3>2, <3>3, <3>4, Zenon
  <2>3. /\ a[2] < b[2] <=> mTens < nTens
        /\ a[2] = b[2] <=> mTens = nTens
        /\ a[3] < b[3] <=> mUnits < nUnits
    <3>1. a[2] = 48 + mTens /\ b[2] = 48 + nTens /\ a[3] = 48 + mUnits /\ b[3] = 48 + nUnits
      BY <1>6, <1>11, Zenon
    <3>2. \A x, y \in Nat : (48 + x < 48 + y <=> x < y) /\ (48 + x = 48 + y <=> x = y)
      OBVIOUS
    <3>3. /\ 48 + mTens < 48 + nTens <=> mTens < nTens
          /\ 48 + mTens = 48 + nTens <=> mTens = nTens
          /\ 48 + mUnits < 48 + nUnits <=> mUnits < nUnits
      BY <1>12, <3>2, Zenon
    <3> QED BY <3>1, <3>3
  <2> QED BY <1>12, <2>2, <2>3
<1> QED BY <1>3, <1>4, <1>5, <1>6

\* and setpoints as well, so that the sets of both are in the same order.
LEMMA SetpointsInOrder ==
  ASSUME NEW m \in Nat, NEW n \in Nat
  PROVE  DeviceLess(SetpointName(m), SetpointName(n)) <=> m < n
<1> DEFINE a == StateName(m)
           b == StateName(n)
           longA == SetpointName(m)
           longB == SetpointName(n)
           end == <<68, 69, 83, 49>>
<1>1. a \in Seq(Int) /\ b \in Seq(Int)
  BY StateNames
<1>2. /\ longA \in Seq(Int) /\ Len(longA) = Len(a) + 4
      /\ \A i \in 1 .. Len(a) : longA[i] = a[i]
      /\ \A i \in Len(a) + 1 .. Len(longA) : longA[i] = end[i - Len(a)]
  BY SetpointNames
<1>3. /\ longB \in Seq(Int) /\ Len(longB) = Len(b) + 4
      /\ \A i \in 1 .. Len(b) : longB[i] = b[i]
      /\ \A i \in Len(b) + 1 .. Len(longB) : longB[i] = end[i - Len(b)]
  BY SetpointNames
<1>4. \A i \in 1 .. 4 : end[i] \in Int
  OBVIOUS
<1>5. DeviceLess(a, b) <=> m < n
  BY StatesInOrder, Zenon
<1> SUFFICES DeviceLess(longA, longB) <=> DeviceLess(a, b)
  BY <1>5, Zenon
<1> HIDE DEF a, b, longA, longB, end
<1>6. Len(a) \in Nat /\ Len(b) \in Nat
  BY <1>1
<1>7. CASE Len(a) # Len(b)
  <2>1. DeviceLess(a, b) <=> Len(a) < Len(b)
    BY <1>7, Zenon DEF DeviceLess
  <2>2. Len(longA) # Len(longB) /\ (Len(longA) < Len(longB) <=> Len(a) < Len(b))
    BY <1>2, <1>3, <1>6, <1>7
  <2>3. DeviceLess(longA, longB) <=> Len(longA) < Len(longB)
    BY <2>2, Zenon DEF DeviceLess
  <2> QED BY <2>1, <2>2, <2>3, Zenon
<1>8. CASE Len(a) = Len(b)
  <2>1. DeviceLess(a, b)
          <=> \E i \in 1 .. Len(a) : a[i] < b[i] /\ \A j \in 1 .. i - 1 : a[j] = b[j]
    BY <1>1, <1>8, SameLengthLess, Zenon
  <2>2. DeviceLess(longA, longB)
          <=> \E i \in 1 .. Len(longA) : longA[i] < longB[i]
                                         /\ \A j \in 1 .. i - 1 : longA[j] = longB[j]
    <3>1. longA \in Seq(Int) /\ longB \in Seq(Int)
      BY <1>2, <1>3, Zenon
    <3>2. Len(longA) = Len(longB)
      BY <1>2, <1>3, <1>8
    <3> QED BY <3>1, <3>2, SameLengthLess, Zenon
  <2>3. ASSUME NEW i \in 1 .. Len(longA), longA[i] < longB[i]
        PROVE  i \in 1 .. Len(a)
    <3>1. CASE i \in Len(a) + 1 .. Len(longA)
      <4>1. longA[i] = end[i - Len(a)] /\ longB[i] = end[i - Len(a)]
        BY <1>2, <1>3, <1>8, <3>1
      <4>2. end[i - Len(a)] \in Int
        <5>0. Len(longA) = Len(a) + 4
          BY <1>2, Zenon
        <5>1. i - Len(a) \in 1 .. 4
          BY <1>6, <3>1, <5>0
        <5> QED BY <1>4, <5>1, Zenon
      <4> QED BY <2>3, <4>1, <4>2
    <3> QED BY <1>2, <1>6, <3>1
  <2>4. \A i \in 1 .. Len(a) : longA[i] = a[i] /\ longB[i] = b[i] /\ i \in 1 .. Len(longA)
    BY <1>2, <1>3, <1>6, <1>8
  <2>5. \A i \in 1 .. Len(a) : \A j \in 1 .. i - 1 : j \in 1 .. Len(a)
    BY <1>6
  <2>6. ASSUME NEW i \in 1 .. Len(a)
        PROVE  (longA[i] < longB[i] /\ \A j \in 1 .. i - 1 : longA[j] = longB[j])
                 <=> (a[i] < b[i] /\ \A j \in 1 .. i - 1 : a[j] = b[j])
    BY <2>4, <2>5
  <2> QED BY <2>1, <2>2, <2>3, <2>4, <2>6, Zenon
<1> QED BY <1>7, <1>8, Zenon

\* assignSetpoints walks both sets at once and gives each state its own setpoint.
LEMMA SetpointsAssigned == \A s \in 1 .. MaxStates : AssignSetpoints[s] = s
<1> DEFINE numbers == 1 .. MaxStates
           statesBefore(n) == Cardinality({m \in numbers : DeviceLess(StateName(m), StateName(n))})
           setpointsBefore(n) ==
             Cardinality({m \in numbers : DeviceLess(SetpointName(m), SetpointName(n))})
<1>0. MaxStates \in Nat /\ \A n \in numbers : n \in Nat
  BY PatternAssumption
<1>1. \A n \in numbers : statesBefore(n) = n - 1
  <2> SUFFICES ASSUME NEW n \in numbers PROVE statesBefore(n) = n - 1
    OBVIOUS
  <2>1. \A m \in numbers : DeviceLess(StateName(m), StateName(n)) <=> m < n
    BY <1>0, StatesInOrder, Zenon
  <2>2. {m \in numbers : DeviceLess(StateName(m), StateName(n))} = 1 .. n - 1
    BY <1>0, <2>1
  <2>3. Cardinality(1 .. n - 1) = n - 1
    BY <1>0, FS_Interval
  <2> QED BY <2>2, <2>3
<1>2. \A n \in numbers : setpointsBefore(n) = n - 1
  <2> SUFFICES ASSUME NEW n \in numbers PROVE setpointsBefore(n) = n - 1
    OBVIOUS
  <2>1. \A m \in numbers : DeviceLess(SetpointName(m), SetpointName(n)) <=> m < n
    BY <1>0, SetpointsInOrder, Zenon
  <2>2. {m \in numbers : DeviceLess(SetpointName(m), SetpointName(n))} = 1 .. n - 1
    BY <1>0, <2>1
  <2>3. Cardinality(1 .. n - 1) = n - 1
    BY <1>0, FS_Interval
  <2> QED BY <2>2, <2>3
<1>3. AssignSetpoints =
        [s \in numbers |-> CHOOSE d \in numbers : statesBefore(s) = setpointsBefore(d)]
  BY DEF AssignSetpoints
<1> HIDE DEF statesBefore, setpointsBefore
<1>4. ASSUME NEW s \in numbers
      PROVE  (CHOOSE d \in numbers : statesBefore(s) = setpointsBefore(d)) = s
  <2>1. \A d \in numbers : statesBefore(s) = setpointsBefore(d) <=> d = s
    BY <1>0, <1>1, <1>2
  <2> QED BY <2>1
<1> QED BY <1>3, <1>4

-----------------------------------------------------------------------------
(* configureAlgorithm: the last pattern with a mask has the algorithm under it *)

LEMMA LastOfAMask ==
  ASSUME NEW total \in Nat, NEW masks, NEW m, NEW i \in 1 .. total, masks[i] = m
  PROVE  \E l \in 1 .. total : masks[l] = m /\ \A j \in l + 1 .. total : masks[j] # m
<1> DEFINE T == {n \in 0 .. total : masks[total - n] = m /\ total - n \in 1 .. total}
<1>1. T \in SUBSET Nat
  OBVIOUS
<1>2. total - i \in T
  OBVIOUS
<1>3. PICK n \in T : \A k \in T : n <= k
  BY <1>1, <1>2, LeastIndex, Zenon
<1>4. total - n \in 1 .. total /\ masks[total - n] = m
  BY <1>3
<1>5. ASSUME NEW j \in total - n + 1 .. total, masks[j] = m
      PROVE  FALSE
  <2>1. total - j \in 0 .. total /\ total - (total - j) = j /\ j \in 1 .. total
        /\ total - j < n
    BY <1>4
  <2>2. total - j \in T
    BY <1>5, <2>1
  <2> QED BY <1>3, <2>1, <2>2
<1> QED BY <1>4, <1>5

LEMMA AlgorithmsConfigured ==
  ASSUME NEW total \in AllPatterns, NEW masks \in [AllPatterns -> Masks],
         DOMAIN algorithms \subseteq Masks,
         algorithms \in [DOMAIN algorithms -> {0} \cup AllPatterns]
  PROVE  LET after == ConfigureAlgorithm(masks, total) IN
         /\ DOMAIN after \subseteq Masks /\ after \in [DOMAIN after -> {0} \cup AllPatterns]
         /\ (\A i, j \in AllPatterns : masks[i] = masks[j] => i = j)
              => \A i \in 1 .. total : after[masks[i]] = i
<1> DEFINE D == DOMAIN algorithms \cup {masks[i] : i \in 1 .. total}
           isLast(m, i) == masks[i] = m /\ \A j \in i + 1 .. total : masks[j] # m
           last(m) == CHOOSE i \in 1 .. total : isLast(m, i)
           value(m) == IF \A i \in 1 .. total : masks[i] # m THEN algorithms[m] ELSE last(m)
           after == ConfigureAlgorithm(masks, total)
<1>1. total \in Nat /\ (\A i \in 1 .. total : i \in AllPatterns /\ masks[i] \in Masks)
  BY PatternAssumption DEF AllPatterns
<1>2. after = [m \in D |-> value(m)]
  BY Zenon DEF ConfigureAlgorithm
<1>3. \A m \in D : (\A i \in 1 .. total : masks[i] # m) => m \in DOMAIN algorithms
  OBVIOUS
<1>4. \A m : (\E i \in 1 .. total : masks[i] = m) =>
             last(m) \in 1 .. total /\ masks[last(m)] = m
  <2> SUFFICES ASSUME NEW m, NEW i \in 1 .. total, masks[i] = m
               PROVE  last(m) \in 1 .. total /\ isLast(m, last(m))
    OBVIOUS
  <2>1. \E l \in 1 .. total : isLast(m, l)
    BY <1>1, LastOfAMask
  <2> HIDE DEF isLast
  <2> QED BY <2>1, Zenon
<1>5. D \subseteq Masks
  BY <1>1
<1> HIDE DEF after, last, D
<1>6. \A m \in D : value(m) \in {0} \cup AllPatterns
  BY <1>1, <1>3, <1>4
<1>7. DOMAIN after = D /\ after \in [D -> {0} \cup AllPatterns]
  <2> HIDE DEF value
  <2> QED BY <1>2, <1>6
<1>8. ASSUME \A i, j \in AllPatterns : masks[i] = masks[j] => i = j, NEW i \in 1 .. total
      PROVE  after[masks[i]] = i
  <2>1. masks[i] \in D
    BY DEF D
  <2>2. after[masks[i]] = value(masks[i])
    <3> HIDE DEF value
    <3> QED BY <1>2, <2>1
  <2>3. value(masks[i]) = last(masks[i])
    OBVIOUS
  <2>4. last(masks[i]) \in 1 .. total /\ masks[last(masks[i])] = masks[i]
    BY <1>4
  <2> QED BY <1>1, <1>8, <2>2, <2>3, <2>4
<1>9. DOMAIN after \subseteq Masks /\ after \in [DOMAIN after -> {0} \cup AllPatterns]
  BY <1>5, <1>7
<1> QED BY <1>8, <1>9, Zenon DEF after

-----------------------------------------------------------------------------
(* The invariant of the patterns *)

PatternInv ==
  /\ PatternTypeOK
  /\ deviceMaps \in [Kinds -> DeviceMaps]
  /\ \A k \in Kinds : KindKept(deviceMaps[k], deviceMask[k])
  /\ ~everFailed => \A k \in Kinds : deviceMask[k] = patternMasks
  /\ AlgorithmOfPattern

LEMMA PatternInvInit == PatternInit => PatternInv
<1> SUFFICES ASSUME PatternInit PROVE PatternInv
  OBVIOUS
<1> DEFINE fakes == [i \in AllPatterns |-> FakePatternMask(i)]
           fakeMasks == {FakePatternMask(i) : i \in AllPatterns}
           map == [m \in fakeMasks |-> CHOOSE i \in AllPatterns : FakePatternMask(i) = m]
<1>1. /\ patternMasks = fakes /\ deviceMask = [k \in Kinds |-> fakes]
      /\ deviceMaps = [k \in Kinds |-> map] /\ setpointOf = AssignSetpoints
      /\ algorithms = [m \in fakeMasks |-> 0] /\ totalPoi = 1
      /\ destination = [i \in AllPatterns |-> "unset"]
      /\ fakeBeam = FALSE /\ loopOn = FALSE /\ everFailed = FALSE
  BY Zenon DEF PatternInit
<1>2. fakes \in [AllPatterns -> Masks] /\ fakeMasks \subseteq Masks
      /\ (\A i, j \in AllPatterns : fakes[i] = fakes[j] => i = j)
      /\ fakeMasks = {fakes[i] : i \in AllPatterns}
      /\ (\A i \in AllPatterns : FakePatternMask(i) = fakes[i])
  BY FakeMasksDiffer
<1>3. \A i \in AllPatterns : map[fakes[i]] = i
  <2> SUFFICES ASSUME NEW i \in AllPatterns PROVE map[FakePatternMask(i)] = i
    BY <1>2
  <2> DEFINE chosen == CHOOSE j \in AllPatterns : FakePatternMask(j) = FakePatternMask(i)
  <2>1. chosen \in AllPatterns /\ FakePatternMask(chosen) = FakePatternMask(i)
    BY Zenon
  <2>2. map[FakePatternMask(i)] = chosen
    OBVIOUS
  <2> HIDE DEF chosen
  <2> QED BY <2>1, <2>2, FakeMasksDiffer, Zenon
<1>4. DOMAIN map = fakeMasks
  OBVIOUS
<1> HIDE DEF fakes, fakeMasks, map
<1>5. \A m \in fakeMasks : map[m] \in AllPatterns
  BY <1>2, <1>3
<1>6. map \in [fakeMasks -> AllPatterns]
  BY <1>4, <1>5 DEF map
<1>7. map \in DeviceMaps
  BY <1>2, <1>4, <1>6, DeviceMapsAreFunctions, Zenon
<1>8. KindKept(map, fakes)
  BY <1>2, <1>3, <1>4, Zenon DEF KindKept
<1>9. 1 \in AllPatterns
  BY PatternAssumption DEF AllPatterns
<1>10. DOMAIN setpointOf = 1 .. MaxStates
  BY <1>1 DEF AssignSetpoints
<1>11. PatternTypeOK
  BY <1>1, <1>2, <1>4, <1>6, <1>9, <1>10 DEF PatternTypeOK
<1> QED BY <1>1, <1>7, <1>8, <1>11 DEF PatternInv, AlgorithmOfPattern

LEMMA PatternInvNext == PatternInv /\ [PatternNext]_patternVars => PatternInv'
<1> SUFFICES ASSUME PatternInv, [PatternNext]_patternVars PROVE PatternInv'
  OBVIOUS
<1>0. /\ PatternTypeOK
      /\ deviceMaps \in [Kinds -> DeviceMaps]
      /\ \A k \in Kinds : KindKept(deviceMaps[k], deviceMask[k])
      /\ ~everFailed => \A k \in Kinds : deviceMask[k] = patternMasks
      /\ AlgorithmOfPattern
  BY Zenon DEF PatternInv
<1>1. ASSUME NEW total \in AllPatterns, NEW isFile \in BOOLEAN,
             NEW poi \in [1 .. total -> PoiValues], ConfigureLoop(poi, total, isFile)
      PROVE  PatternInv'
  <2> DEFINE first == [masks |-> patternMasks, maps |-> deviceMaps, device |-> deviceMask,
                       fake |-> fakeBeam, ok |-> TRUE]
  <2>0. total \in Nat
    BY PatternAssumption DEF AllPatterns
  <2>1. PICK c : /\ c = ConfigurePatterns(poi, total, isFile) /\ ~loopOn
                 /\ totalPoi' = total
                 /\ patternMasks' = c.masks /\ deviceMaps' = c.maps /\ deviceMask' = c.device
                 /\ fakeBeam' = c.fake /\ everFailed' = (everFailed \/ ~c.ok)
                 /\ \/ /\ c.ok
                       /\ algorithms' = ConfigureAlgorithm(c.masks, total)
                       /\ destination' = DestinationsOf(c.masks)
                       /\ loopOn' = TRUE
                    \/ UNCHANGED <<algorithms, destination, loopOn>>
                 /\ UNCHANGED setpointOf
    BY <1>1 DEF ConfigureLoop
  <2>2. PICK g : IsConfiguring(g, first, total, poi, isFile) /\ c = g[total]
    BY <2>0, <2>1, ConfigurePatternsIsLast, Zenon
  <2>3. Configured(first, 0, patternMasks, ~everFailed)
    <3>1. first \in Configurations /\ first.masks = patternMasks /\ first.maps = deviceMaps
          /\ first.device = deviceMask /\ first.ok
      BY <1>0 DEF Configurations, PatternTypeOK
    <3> HIDE DEF first
    <3>2. DevicesKept(first)
      BY <1>0, <3>1 DEF DevicesKept
    <3> QED BY <1>0, <3>1, <3>2 DEF Configured
  <2>4. Configured(c, total, patternMasks, ~everFailed)
    <3> HIDE DEF first
    <3> QED BY <2>2, <2>3, AllAreConfigured
  <2>5. c \in Configurations /\ DevicesKept(c)
        /\ (~everFailed /\ c.ok => \A k \in Kinds : c.device[k] = c.masks)
    BY <2>4 DEF Configured
  <2>6. c.masks \in [AllPatterns -> Masks] /\ c.maps \in [Kinds -> DeviceMaps]
        /\ c.device \in [Kinds -> [AllPatterns -> Masks]] /\ c.fake \in BOOLEAN
        /\ c.ok \in BOOLEAN
    BY <2>5 DEF Configurations
  <2>7. (\A k \in Kinds : KindKept(deviceMaps[k], deviceMask[k]))'
    BY <2>1, <2>5 DEF DevicesKept
  <2>8. (~everFailed => \A k \in Kinds : deviceMask[k] = patternMasks)'
    BY <2>1, <2>5
  <2>9. \A k \in Kinds : /\ DOMAIN c.maps[k] \subseteq Masks
                         /\ c.maps[k] \in [DOMAIN c.maps[k] -> AllPatterns]
    BY <2>6, DeviceMapsAreFunctions
  <2>10. DestinationsOf(c.masks) \in [AllPatterns -> {"unset", "HXR", "SXR"}]
    BY DEF DestinationsOf
  <2>11. /\ DOMAIN algorithms \subseteq Masks
         /\ algorithms \in [DOMAIN algorithms -> {0} \cup AllPatterns]
         /\ {fakeBeam, loopOn, everFailed} \subseteq BOOLEAN
         /\ DOMAIN setpointOf = 1 .. MaxStates
         /\ destination \in [AllPatterns -> {"unset", "HXR", "SXR"}]
    BY <1>0, Zenon DEF PatternTypeOK
  <2> DEFINE after == ConfigureAlgorithm(c.masks, total)
  <2>12. /\ DOMAIN after \subseteq Masks /\ after \in [DOMAIN after -> {0} \cup AllPatterns]
         /\ (\A i, j \in AllPatterns : c.masks[i] = c.masks[j] => i = j)
              => \A i \in 1 .. total : after[c.masks[i]] = i
    BY <2>6, <2>11, AlgorithmsConfigured, Zenon
  <2> HIDE DEF after
  <2>13. /\ DOMAIN algorithms' \subseteq Masks
         /\ algorithms' \in [DOMAIN algorithms' -> {0} \cup AllPatterns]
         /\ destination' \in [AllPatterns -> {"unset", "HXR", "SXR"}]
         /\ loopOn' \in BOOLEAN
    <3>1. CASE algorithms' = after /\ destination' = DestinationsOf(c.masks) /\ loopOn' = TRUE
      BY <2>10, <2>12, <3>1
    <3>2. CASE UNCHANGED <<algorithms, destination, loopOn>>
      BY <2>11, <3>2
    <3> QED BY <2>1, <3>1, <3>2 DEF after
  <2>14. PatternTypeOK'
    <3>1. fakeBeam' \in BOOLEAN /\ everFailed' \in BOOLEAN
      BY <2>1, <2>6, <2>11
    <3>2. DOMAIN deviceMaps' = Kinds
          /\ \A k \in Kinds : /\ DOMAIN deviceMaps'[k] \subseteq Masks
                              /\ deviceMaps'[k] \in [DOMAIN deviceMaps'[k] -> AllPatterns]
      BY <2>1, <2>6, <2>9
    <3>3. totalPoi' \in AllPatterns /\ patternMasks' \in [AllPatterns -> Masks]
          /\ deviceMask' \in [Kinds -> [AllPatterns -> Masks]]
          /\ DOMAIN setpointOf' = 1 .. MaxStates
      BY <2>1, <2>6, <2>11
    <3> QED BY <2>13, <3>1, <3>2, <3>3 DEF PatternTypeOK
  <2>15. AlgorithmOfPattern'
    <3> SUFFICES ASSUME loopOn', ~everFailed', NEW i \in 1 .. total
                 PROVE  algorithms'[patternMasks'[i]] = i
      BY <2>1 DEF AlgorithmOfPattern
    <3>1. c.ok /\ ~everFailed /\ algorithms' = after
      BY <2>1 DEF after
    <3>2. "states" \in Kinds
      BY DEF Kinds
    <3>3. KindKept(c.maps["states"], c.masks)
      BY <2>5, <3>1, <3>2 DEF DevicesKept
    <3>4. \A k, l \in AllPatterns : c.masks[k] = c.masks[l] => k = l
      BY <3>3, Zenon DEF KindKept
    <3> QED BY <2>1, <2>12, <3>1, <3>4
  <2> QED BY <2>1, <2>6, <2>7, <2>8, <2>14, <2>15 DEF PatternInv
<1>2. CASE StopLoop
  BY <1>0, <1>2 DEF StopLoop, PatternInv, PatternTypeOK, AlgorithmOfPattern, AllPatterns
<1>3. CASE UNCHANGED patternVars
  BY <1>0, <1>3 DEF patternVars, PatternInv, PatternTypeOK, AlgorithmOfPattern
<1> QED BY <1>1, <1>2, <1>3, Zenon DEF PatternNext

-----------------------------------------------------------------------------
(* Theorems *)

\* The types of all that LoopConfiguration keeps: masks, maps, algorithms and pairs.
THEOREM PatternTypeCorrect == PatternSpec => []PatternTypeOK
<1>1. PatternInv => PatternTypeOK
  BY Zenon DEF PatternInv
<1> QED BY <1>1, PatternInvInit, PatternInvNext, PTL DEF PatternSpec

\* Whatever masks come and go, and however configurations fail half way, no set of
\* devices is lost or found twice (reconfigureDevices, configurePatterns).
THEOREM SetsAreKept == PatternSpec => []SetsKept
<1>1. ASSUME PatternInv, NEW k \in Kinds
      PROVE  /\ {deviceMaps[k][m] : m \in DOMAIN deviceMaps[k]} = AllPatterns
             /\ Cardinality(DOMAIN deviceMaps[k]) = MaxPatterns
             /\ \A m \in DOMAIN deviceMaps[k] : deviceMask[k][deviceMaps[k][m]] = m
  <2> DEFINE map == deviceMaps[k]
             device == deviceMask[k]
  <2>1. KindKept(map, device) /\ map \in [DOMAIN map -> AllPatterns]
        /\ device \in [AllPatterns -> Masks]
    BY <1>1 DEF PatternInv, PatternTypeOK
  <2> HIDE DEF map, device
  <2>2. /\ \A i, j \in AllPatterns : device[i] = device[j] => i = j
        /\ DOMAIN map = {device[i] : i \in AllPatterns}
        /\ \A i \in AllPatterns : map[device[i]] = i
    BY <2>1, Zenon DEF KindKept
  <2>3. {map[m] : m \in DOMAIN map} = AllPatterns
    BY <2>1, <2>2
  <2>4. \A m \in DOMAIN map : device[map[m]] = m
    BY <2>2
  <2>5. device \in Bijection(AllPatterns, DOMAIN map)
    BY <2>1, <2>2 DEF Bijection, Injection, Surjection, IsInjective
  <2>6. IsFiniteSet(AllPatterns) /\ Cardinality(AllPatterns) = MaxPatterns
    BY PatternAssumption, FS_Interval DEF AllPatterns
  <2>7. Cardinality(DOMAIN map) = MaxPatterns
    <3>1. ExistsBijection(AllPatterns, DOMAIN map)
      BY <2>5, Zenon DEF ExistsBijection
    <3> QED BY <2>6, <3>1, FS_Bijection
  <2> QED BY <2>3, <2>4, <2>7, Zenon DEF map, device
<1>2. PatternInv => SetsKept
  BY <1>1, Zenon DEF SetsKept
<1> QED BY <1>2, PatternInvInit, PatternInvNext, PTL DEF PatternSpec

\* As long as no pattern was refused, each pattern finds its own devices of every kind
\* under its mask (peek).
THEOREM SetsAreFound == PatternSpec => []PatternsFindTheirSets
<1>1. ASSUME PatternInv, ~everFailed, NEW k \in Kinds, NEW i \in AllPatterns
      PROVE  /\ FoundIn(deviceMaps[k], patternMasks[i]) = {patternMasks[i]}
             /\ deviceMaps[k][patternMasks[i]] = i
  <2>1. KindKept(deviceMaps[k], patternMasks) /\ DOMAIN deviceMaps[k] \subseteq Masks
        /\ patternMasks[i] \in Masks
    BY <1>1 DEF PatternInv, PatternTypeOK
  <2>2. patternMasks[i] \in DOMAIN deviceMaps[k] /\ deviceMaps[k][patternMasks[i]] = i
    BY <2>1 DEF KindKept
  <2>3. FoundIn(deviceMaps[k], patternMasks[i]) = {patternMasks[i]} \cap DOMAIN deviceMaps[k]
    BY <2>1, FoundIsThere, Zenon
  <2> QED BY <2>2, <2>3
<1>2. PatternInv => PatternsFindTheirSets
  BY <1>1, Zenon DEF PatternsFindTheirSets
<1> QED BY <1>2, PatternInvInit, PatternInvNext, PTL DEF PatternSpec

\* A loop that is ON calculates each pattern with the algorithm of this pattern
\* (configureAlgorithm).
THEOREM AlgorithmsAreFound == PatternSpec => []AlgorithmOfPattern
<1>1. PatternInv => AlgorithmOfPattern
  BY Zenon DEF PatternInv
<1> QED BY <1>1, PatternInvInit, PatternInvNext, PTL DEF PatternSpec

\* A configuration is refused only if it leaves two patterns with the same mask
\* (configurePatterns, PatternMask::operator<).
THEOREM OnlyEqualMasksRefused == PatternSpec => NewMasksAccepted
<1> DEFINE Accepted ==
      /\ ~everFailed
      /\ \A i \in 1 .. totalPoi', j \in AllPatterns :
            j # i => patternMasks'[i] # patternMasks'[j]
      => ~everFailed'
<1>1. ASSUME PatternInv, [PatternNext]_patternVars PROVE [Accepted]_patternVars
  <2>1. CASE UNCHANGED patternVars
    BY <2>1
  <2>2. CASE StopLoop
    BY <2>2 DEF StopLoop
  <2>3. ASSUME NEW total \in AllPatterns, NEW isFile \in BOOLEAN,
               NEW poi \in [1 .. total -> PoiValues], ConfigureLoop(poi, total, isFile)
        PROVE  Accepted
    <3> DEFINE first == [masks |-> patternMasks, maps |-> deviceMaps, device |-> deviceMask,
                         fake |-> fakeBeam, ok |-> TRUE]
    <3>0. total \in Nat
      BY PatternAssumption DEF AllPatterns
    <3>1. PICK c : /\ c = ConfigurePatterns(poi, total, isFile) /\ totalPoi' = total
                   /\ patternMasks' = c.masks /\ everFailed' = (everFailed \/ ~c.ok)
      BY <2>3 DEF ConfigureLoop
    <3>2. PICK g : IsConfiguring(g, first, total, poi, isFile) /\ c = g[total]
      BY <3>0, <3>1, ConfigurePatternsIsLast, Zenon
    <3>3. Configured(first, 0, patternMasks, ~everFailed)
      <4>1. first \in Configurations /\ first.masks = patternMasks
            /\ first.maps = deviceMaps /\ first.device = deviceMask /\ first.ok
        BY <1>1 DEF Configurations, PatternInv, PatternTypeOK
      <4> HIDE DEF first
      <4>2. DevicesKept(first)
        BY <1>1, <4>1 DEF DevicesKept, PatternInv
      <4> QED BY <1>1, <4>1, <4>2 DEF Configured, Configurations, PatternInv
    <3>4. Configured(c, total, patternMasks, ~everFailed)
      <4> HIDE DEF first
      <4> QED BY <3>2, <3>3, AllAreConfigured
    <3> QED BY <3>1, <3>4 DEF Configured
  <2> QED BY <1>1, <2>1, <2>2, <2>3, Zenon DEF PatternNext
<1> QED BY <1>1, PatternInvInit, PatternInvNext, PTL DEF PatternSpec, NewMasksAccepted

\* Each state has the setpoint with its number (assignSetpoints).
THEOREM SetpointsArePaired == PatternSpec => []SetpointsMatch
<1>1. PatternInit => SetpointsMatch
  BY SetpointsAssigned DEF PatternInit, SetpointsMatch
<1>2. SetpointsMatch /\ [PatternNext]_patternVars => SetpointsMatch'
  <2> SUFFICES ASSUME SetpointsMatch, [PatternNext]_patternVars PROVE setpointOf' = setpointOf
    BY Zenon DEF SetpointsMatch
  <2> QED BY DEF PatternNext, ConfigureLoop, StopLoop, patternVars
<1> QED BY <1>1, <1>2, PTL DEF PatternSpec
===============================================================================
