------------------------- MODULE DeviceChannelsProofs -------------------------
(***************************************************************************)
(* Proofs about the communication channels of devices: whatever they are   *)
(* renamed to and whichever constructor throws, what they hold is counted, *)
(* for any devices, FCOM IDs and numbers of tries.                         *)
(***************************************************************************)
EXTENDS DeviceChannels, FiniteSetTheorems, TLAPS

-----------------------------------------------------------------------------
(* Counting *)

One(b) == IF b THEN 1 ELSE 0

\* Two sets that differ in one element.
LEMMA CountOne ==
  ASSUME NEW S, NEW T, NEW d, IsFiniteSet(S), S \ {d} = T \ {d}
  PROVE  /\ IsFiniteSet(T) /\ Cardinality(S) \in Nat /\ Cardinality(T) \in Nat
         /\ Cardinality(T) = Cardinality(S) + One(d \in T) - One(d \in S)
<1> DEFINE R == S \ {d}
<1>1. IsFiniteSet(R) /\ Cardinality(R) = Cardinality(S) - One(d \in S) /\ Cardinality(S) \in Nat
  BY FS_RemoveElement, FS_CardinalityType DEF One
<1>2. T = IF d \in T THEN R \cup {d} ELSE R
  OBVIOUS
<1>3. d \notin R
  OBVIOUS
<1> HIDE DEF R
<1>4. IsFiniteSet(R \cup {d}) /\ Cardinality(R \cup {d}) = Cardinality(R) + 1
  BY <1>1, <1>3, FS_AddElement
<1>5. Cardinality(R) \in Nat
  BY <1>1, FS_CardinalityType
<1>6. IsFiniteSet(T) /\ Cardinality(T) = Cardinality(R) + One(d \in T)
  <2>1. CASE d \in T
    <3>1. T = R \cup {d}
      BY <1>2, <2>1
    <3> QED  BY <1>4, <2>1, <3>1 DEF One
  <2>2. CASE d \notin T
    <3>1. T = R
      BY <1>2, <2>2
    <3> QED  BY <1>1, <1>5, <2>2, <3>1 DEF One
  <2> QED  BY <2>1, <2>2
<1>7. Cardinality(T) \in Nat
  BY <1>6, FS_CardinalityType
<1>8. One(d \in T) \in Int /\ One(d \in S) \in Int
  BY DEF One
<1> QED  BY <1>1, <1>5, <1>6, <1>7, <1>8

\* Two sets that differ in two elements.
LEMMA CountTwo ==
  ASSUME NEW S, NEW T, NEW a, NEW b, a # b, IsFiniteSet(S), S \ {a, b} = T \ {a, b}
  PROVE  /\ IsFiniteSet(T) /\ Cardinality(S) \in Nat /\ Cardinality(T) \in Nat
         /\ Cardinality(T) =
              Cardinality(S) + One(a \in T) - One(a \in S) + One(b \in T) - One(b \in S)
<1> DEFINE R == IF a \in T THEN S \cup {a} ELSE S \ {a}
<1>1. S \ {a} = R \ {a} /\ R \ {b} = T \ {b} /\ (a \in R <=> a \in T) /\ (b \in R <=> b \in S)
  OBVIOUS
<1> HIDE DEF R
<1>2. /\ IsFiniteSet(R) /\ Cardinality(S) \in Nat /\ Cardinality(R) \in Nat
      /\ Cardinality(R) = Cardinality(S) + One(a \in R) - One(a \in S)
  BY <1>1, CountOne
<1>3. /\ IsFiniteSet(T) /\ Cardinality(T) \in Nat
      /\ Cardinality(T) = Cardinality(R) + One(b \in T) - One(b \in R)
  BY <1>1, <1>2, CountOne
<1>4. One(a \in R) = One(a \in T) /\ One(b \in R) = One(b \in S)
  BY <1>1 DEF One
<1>5. /\ One(a \in T) \in Int /\ One(a \in S) \in Int /\ One(b \in T) \in Int /\ One(b \in S) \in Int
  BY DEF One
<1> QED  BY <1>2, <1>3, <1>4, <1>5

\* The devices of which p holds, as it changes for one of them.
LEMMA CountDevices ==
  ASSUME NEW S \in SUBSET ChanDevices, NEW T \in SUBSET ChanDevices, NEW d \in ChanDevices,
         \A e \in ChanDevices \ {d} : e \in S <=> e \in T
  PROVE  /\ Cardinality(S) \in Nat /\ Cardinality(T) \in Nat
         /\ Cardinality(T) = Cardinality(S) + One(d \in T) - One(d \in S)
<1>1. S \ {d} = T \ {d}
  OBVIOUS
<1>2. IsFiniteSet(S)
  BY ChannelAssumption, FS_Subset
<1> QED  BY <1>1, <1>2, CountOne

-----------------------------------------------------------------------------
(* What constructors and destructors cost *)

Resources == [ok : BOOLEAN, ca : Int, sub : Int, file : Int, left : Int]

SubOf(kind) == One(kind = "fcom")

FileOf(kind) == One(kind = "file")

\* write is 1 if the channel is to be written.
CaOf(kind, write) == IF kind = "ca" THEN 1 ELSE IF kind = "fcom" THEN write ELSE 0

\* r pays for channels that need sub, file and ca, the last one at least; a file that it
\* leaves open is for no channel.
Pays(r, sub, file, ca) ==
  r \in Resources /\ r.sub = sub /\ r.file = file + r.left /\ r.ca >= ca

LEMMA OneType == \A b \in BOOLEAN : One(b) \in 0 .. 1
  BY DEF One

LEMMA CostTypes ==
  /\ \A kind : SubOf(kind) \in Int /\ FileOf(kind) \in Int
  /\ \A kind : \A write \in 0 .. 1 : CaOf(kind, write) \in Int
  /\ \A d : One(Writes(d)) \in 0 .. 1
  BY DEF One, SubOf, FileOf, CaOf

LEMMA PlusPays ==
  ASSUME NEW r, NEW s, NEW a \in Int, NEW b \in Int, NEW c \in Int,
         NEW x \in Int, NEW y \in Int, NEW z \in Int,
         Pays(r, a, b, c), Pays(s, x, y, z)
  PROVE  Pays(Plus(r, s), a + x, b + y, c + z) /\ (Plus(r, s).ok <=> r.ok /\ s.ok)
  BY DEF Pays, Plus, Resources

LEMMA NothingIs ==
  /\ Nothing \in Resources /\ Nothing.ok
  /\ Nothing.ca = 0 /\ Nothing.sub = 0 /\ Nothing.file = 0 /\ Nothing.left = 0
  BY DEF Nothing, Resources

LEMMA NothingPays ==
  Pays(Nothing, 0, 0, 0) /\ Nothing.ok /\ Pays(Failure, 0, 0, 0) /\ ~Failure.ok
<1>1. /\ Nothing \in Resources /\ Nothing.ok
      /\ Nothing.ca = 0 /\ Nothing.sub = 0 /\ Nothing.file = 0 /\ Nothing.left = 0
  BY NothingIs
<1>2. Failure \in Resources /\ ~Failure.ok
  BY <1>1 DEF Failure, Resources
<1>3. Failure.ca = 0 /\ Failure.sub = 0 /\ Failure.file = 0 /\ Failure.left = 0
  BY <1>1 DEF Failure, Resources
<1> QED  BY <1>1, <1>2, <1>3 DEF Pays

\* A constructor that succeeds pays for its channel, and one that throws keeps at most
\* channels of Channel Access.
LEMMA NewPays ==
  ASSUME NEW kind \in ChannelKinds \cup {"none"}, NEW write \in BOOLEAN,
         NEW r \in NewChannel(kind, write)
  PROVE  /\ r.ok => Pays(r, SubOf(kind), FileOf(kind), CaOf(kind, One(write)))
         /\ ~r.ok => Pays(r, 0, 0, 0)
<1>1. \A n \in 0 .. Tries : n \in Int /\ n >= 0
  BY ChannelAssumption
<1>2. ASSUME NEW q \in NewCa
      PROVE  /\ q.ok => Pays(q, 0, 0, 1)
             /\ ~q.ok => Pays(q, 0, 0, 0)
  <2>1. ASSUME NEW n \in 1 .. Tries, q = [Nothing EXCEPT !.ca = n]
        PROVE  q.ok /\ Pays(q, 0, 0, 1)
    BY <1>1, <2>1, ChannelAssumption, NothingIs DEF Pays, Resources
  <2>2. ASSUME NEW n \in 0 .. Tries, q = [Nothing EXCEPT !.ok = FALSE, !.ca = n]
        PROVE  ~q.ok /\ Pays(q, 0, 0, 0)
    <3>1. q \in Resources
      BY <1>1, <2>2, NothingIs DEF Resources
    <3>2. ~q.ok /\ q.sub = 0 /\ q.file = 0 /\ q.left = 0 /\ q.ca = n
      BY <1>1, <2>2, NothingIs DEF Resources
    <3> QED  BY <1>1, <3>1, <3>2 DEF Pays
  <2> QED  BY <2>1, <2>2 DEF NewCa
<1>3. CASE kind = "ca"
  BY <1>2, <1>3 DEF NewChannel, SubOf, FileOf, CaOf, One
<1>4. CASE kind = "file"
  <2>1. r = [Nothing EXCEPT !.file = 1] \/ r = Failure
    BY <1>4 DEF NewChannel, NewFile
  <2>2. CASE r = [Nothing EXCEPT !.file = 1]
    BY <1>4, <2>2, NothingIs DEF SubOf, FileOf, CaOf, One, Pays, Resources
  <2>3. CASE r = Failure
    BY <2>3, NothingPays
  <2> QED  BY <2>1, <2>2, <2>3
<1>5. CASE kind \in {"null", "none"}
  BY <1>5, NothingPays DEF NewChannel, SubOf, FileOf, CaOf, One
<1>6. CASE kind = "fcom"
  <2> DEFINE First == IF write THEN NewCa ELSE {Nothing}
             Last == {[Nothing EXCEPT !.sub = 1], Failure}
  <2>1. ASSUME NEW q \in First
        PROVE  /\ q.ok => Pays(q, 0, 0, One(write))
               /\ ~q.ok => Pays(q, 0, 0, 0)
    BY <1>2, NothingPays DEF One
  <2>2. ASSUME NEW q \in Last
        PROVE  /\ q.ok => Pays(q, 1, 0, 0)
               /\ ~q.ok => Pays(q, 0, 0, 0)
    <3>1. CASE q = [Nothing EXCEPT !.sub = 1]
      BY <3>1, NothingIs DEF Pays, Resources
    <3> QED  BY <3>1, NothingPays
  <2> HIDE DEF First, Last
  <2>3. r \in Then(First, Last)
    BY <1>6 DEF NewChannel, NewFcom, First, Last
  <2>4. SubOf(kind) = 1 /\ FileOf(kind) = 0 /\ CaOf(kind, One(write)) = One(write) /\ One(write) \in 0 .. 1
    BY <1>6 DEF SubOf, FileOf, CaOf, One
  <2>5. CASE r \in First /\ ~r.ok
    BY <2>1, <2>5
  <2>6. ASSUME NEW q \in First, q.ok, NEW t \in Last, r = Plus(q, t)
        PROVE  /\ r.ok => Pays(r, SubOf(kind), FileOf(kind), CaOf(kind, One(write)))
               /\ ~r.ok => Pays(r, 0, 0, 0)
    <3>1. Pays(q, 0, 0, One(write))
      BY <2>1, <2>6
    <3>2. CASE t.ok
      <4>1. Pays(t, 1, 0, 0)
        BY <2>2, <3>2
      <4> QED  BY <2>4, <2>6, <3>1, <3>2, <4>1 DEF Plus, Pays, Resources
    <3>3. CASE ~t.ok
      <4>1. Pays(t, 0, 0, 0)
        BY <2>2, <3>3
      <4> QED  BY <2>4, <2>6, <3>1, <3>3, <4>1 DEF Plus, Pays, Resources
    <3> QED  BY <3>2, <3>3
  <2> QED  BY <2>3, <2>5, <2>6 DEF Then
<1> QED  BY <1>3, <1>4, <1>5, <1>6 DEF ChannelKinds

\* Reading a setting pays for no channel, whether or not it leaves the file open.
LEMMA SettingPays ==
  ASSUME NEW d, NEW r \in SettingOf(d)
  PROVE  Pays(r, 0, 0, 0)
<1>1. CASE r = [Nothing EXCEPT !.file = 1, !.left = 1]
  <2>0. r = [ok |-> TRUE, ca |-> 0, sub |-> 0, file |-> 1, left |-> 1]
    BY <1>1 DEF Nothing
  <2>1. r \in Resources
    BY <2>0 DEF Resources
  <2>2. r.sub = 0 /\ r.file = 1 /\ r.left = 1 /\ r.ca = 0
    BY <1>1, NothingIs DEF Resources
  <2> QED  BY <2>1, <2>2 DEF Pays
<1>2. CASE r \in {Nothing, Failure}
  BY <1>2, NothingPays
<1> QED  BY <1>1, <1>2 DEF SettingOf

LEMMA OldPays ==
  ASSUME NEW kind, NEW write \in BOOLEAN
  PROVE  Pays(Old(kind, write), 0 - SubOf(kind), 0 - FileOf(kind), 0 - CaOf(kind, One(write)))
<1> DEFINE a == IF kind = "fcom" THEN -1 ELSE 0
           b == IF kind = "ca" \/ (kind = "fcom" /\ write) THEN -1 ELSE 0
           c == IF kind = "file" THEN -1 ELSE 0
<1>1. a \in Int /\ b \in Int /\ c \in Int
  OBVIOUS
<1>2. a = 0 - SubOf(kind) /\ b = 0 - CaOf(kind, One(write)) /\ c = 0 - FileOf(kind)
  BY DEF SubOf, CaOf, FileOf, One
<1>3. Old(kind, write) = [Nothing EXCEPT !.sub = a, !.ca = b, !.file = c]
  BY DEF Old
<1> HIDE DEF a, b, c
<1> DEFINE q == [Nothing EXCEPT !.sub = a, !.ca = b, !.file = c]
<1>4. q \in Resources /\ q.sub = a /\ q.ca = b /\ q.file = c /\ q.left = 0
  BY <1>1, NothingIs DEF Resources
<1>5. Pays(q, a, c, b)
  BY <1>1, <1>4 DEF Pays
<1> QED  BY <1>2, <1>3, <1>5

-----------------------------------------------------------------------------
(* DeviceChannels *)

\* The subscriptions to an FCOM ID with channels cm and TMIT channels tm.
HeldIn(cm, tm, id) ==
  {<<d, "comm">> : d \in {e \in ChanDevices : FcomId[e] = id /\ cm[e] = "fcom"}}
    \cup {<<d, "tmit">> : d \in {e \in ChanDevices : FcomId[e] = id /\ tm[e] = "fcom"}}

LEMMA HeldIsIn ==
  ResourcesCounted <=>
    /\ NoChannelForgotten
    /\ \A id \in Ids : subscribed[id] = Cardinality(HeldIn(comm, tmitChan, id))
    /\ files = HeldFiles + leftOpen
    /\ HeldCa <= caOpen
  BY DEF ResourcesCounted, HeldOf, HeldIn

ChanInv ==
  /\ ChanTypeOK /\ NoChannelForgotten
  /\ \A id \in Ids : subscribed[id] = Cardinality(HeldIn(comm, tmitChan, id))
  /\ files = HeldFiles + leftOpen
  /\ HeldCa <= caOpen

\* The channels of device d become c, f and t.
Becoming(d, c, f, t) ==
  /\ comm' = [comm EXCEPT ![d] = c]
  /\ fbck' = [fbck EXCEPT ![d] = f]
  /\ tmitChan' = [tmitChan EXCEPT ![d] = t]

\* What is held after that, compared to what was held before.
LEMMA HeldBecoming ==
  ASSUME ChanTypeOK, NEW d \in ChanDevices, NEW c \in ChannelKinds \cup {"none"},
         NEW f \in {"ca", "null", "none"}, NEW t \in ChannelKinds \cup {"none"},
         Becoming(d, c, f, t)
  PROVE  /\ \A id \in Ids :
              /\ Cardinality(HeldIn(comm, tmitChan, id)) \in Nat
              /\ Cardinality(HeldIn(comm', tmitChan', id)) =
                   Cardinality(HeldIn(comm, tmitChan, id))
                   + IF id = FcomId[d]
                     THEN SubOf(c) - SubOf(comm[d]) + SubOf(t) - SubOf(tmitChan[d]) ELSE 0
         /\ HeldFiles \in Nat
         /\ HeldFiles' = HeldFiles + FileOf(c) - FileOf(comm[d]) + FileOf(t) - FileOf(tmitChan[d])
         /\ HeldCa \in Nat
         /\ HeldCa' = HeldCa + CaOf(c, One(Writes(d))) - CaOf(comm[d], One(Writes(d)))
                             + CaOf(f, One(Writes(d))) - CaOf(fbck[d], One(Writes(d)))
                             + CaOf(t, 0) - CaOf(tmitChan[d], 0)
<1>1. /\ comm \in [ChanDevices -> ChannelKinds \cup {"none"}] /\ fbck \in [ChanDevices -> {"ca", "null", "none"}]
      /\ tmitChan \in [ChanDevices -> ChannelKinds \cup {"none"}]
  BY DEF ChanTypeOK
<1>2. /\ \A e \in ChanDevices \ {d} : comm'[e] = comm[e] /\ fbck'[e] = fbck[e] /\ tmitChan'[e] = tmitChan[e]
      /\ comm'[d] = c /\ fbck'[d] = f /\ tmitChan'[d] = t
  BY <1>1 DEF Becoming
<1>3. ASSUME NEW id \in Ids
      PROVE  /\ Cardinality(HeldIn(comm, tmitChan, id)) \in Nat
             /\ Cardinality(HeldIn(comm', tmitChan', id)) =
                  Cardinality(HeldIn(comm, tmitChan, id))
                  + IF id = FcomId[d]
                    THEN SubOf(c) - SubOf(comm[d]) + SubOf(t) - SubOf(tmitChan[d]) ELSE 0
  <2> DEFINE S == HeldIn(comm, tmitChan, id)
             T == HeldIn(comm', tmitChan', id)
             a == <<d, "comm">>
             b == <<d, "tmit">>
  <2>1. IsFiniteSet(S)
    <3>1. IsFiniteSet(ChanDevices \X {"comm", "tmit"})
      <4>1. IsFiniteSet({"comm"} \cup {"tmit"})
        BY FS_Singleton, FS_AddElement
      <4>2. {"comm"} \cup {"tmit"} = {"comm", "tmit"}
        OBVIOUS
      <4> QED  BY <4>1, <4>2, ChannelAssumption, FS_Product
    <3>2. S \subseteq ChanDevices \X {"comm", "tmit"}
      BY DEF HeldIn
    <3> QED  BY <3>1, <3>2, FS_Subset
  <2>2. /\ a \in S <=> FcomId[d] = id /\ comm[d] = "fcom"
        /\ b \in S <=> FcomId[d] = id /\ tmitChan[d] = "fcom"
        /\ a \in T <=> FcomId[d] = id /\ c = "fcom"
        /\ b \in T <=> FcomId[d] = id /\ t = "fcom"
    BY <1>2 DEF HeldIn
  <2>3. S \ {a, b} = T \ {a, b} /\ a # b
    BY <1>2 DEF HeldIn
  <2> HIDE DEF S, T, a, b
  <2>4. /\ Cardinality(S) \in Nat
        /\ Cardinality(T) = Cardinality(S) + One(a \in T) - One(a \in S) + One(b \in T) - One(b \in S)
    BY <2>1, <2>3, CountTwo
  <2>5. CASE id = FcomId[d]
    <3>1. /\ One(a \in T) = SubOf(c) /\ One(a \in S) = SubOf(comm[d])
          /\ One(b \in T) = SubOf(t) /\ One(b \in S) = SubOf(tmitChan[d])
      BY <2>2, <2>5 DEF SubOf, One
    <3> QED  BY <2>4, <2>5, <3>1, CostTypes DEF S, T
  <2>6. CASE id # FcomId[d]
    <3>1. One(a \in T) = 0 /\ One(a \in S) = 0 /\ One(b \in T) = 0 /\ One(b \in S) = 0
      BY <2>2, <2>6 DEF One
    <3> QED  BY <2>4, <2>6, <3>1 DEF S, T
  <2> QED  BY <2>5, <2>6
<1>4. /\ HeldFiles \in Nat
      /\ HeldFiles' = HeldFiles + FileOf(c) - FileOf(comm[d]) + FileOf(t) - FileOf(tmitChan[d])
  <2> DEFINE S1 == {e \in ChanDevices : comm[e] = "file"}
             S2 == {e \in ChanDevices : tmitChan[e] = "file"}
  <2>1. /\ Cardinality(S1) \in Nat
        /\ Cardinality(S1') = Cardinality(S1) + FileOf(c) - FileOf(comm[d])
    <3>1. /\ Cardinality(S1) \in Nat
          /\ Cardinality(S1') = Cardinality(S1) + One(d \in S1') - One(d \in S1)
      <4>1. \A e \in ChanDevices \ {d} : e \in S1 <=> e \in S1'
        BY <1>2
      <4>2. S1 \in SUBSET ChanDevices /\ S1' \in SUBSET ChanDevices
        OBVIOUS
      <4> HIDE DEF S1
      <4> QED  BY <4>1, <4>2, CountDevices
    <3>2. One(d \in S1') = FileOf(c) /\ One(d \in S1) = FileOf(comm[d])
      BY <1>2 DEF FileOf, One
    <3> QED  BY <3>1, <3>2
  <2>2. /\ Cardinality(S2) \in Nat
        /\ Cardinality(S2') = Cardinality(S2) + FileOf(t) - FileOf(tmitChan[d])
    <3>1. /\ Cardinality(S2) \in Nat
          /\ Cardinality(S2') = Cardinality(S2) + One(d \in S2') - One(d \in S2)
      <4>1. \A e \in ChanDevices \ {d} : e \in S2 <=> e \in S2'
        BY <1>2
      <4>2. S2 \in SUBSET ChanDevices /\ S2' \in SUBSET ChanDevices
        OBVIOUS
      <4> HIDE DEF S2
      <4> QED  BY <4>1, <4>2, CountDevices
    <3>2. One(d \in S2') = FileOf(t) /\ One(d \in S2) = FileOf(tmitChan[d])
      BY <1>2 DEF FileOf, One
    <3> QED  BY <3>1, <3>2
  <2>3. HeldFiles = Cardinality(S1) + Cardinality(S2) /\ HeldFiles' = Cardinality(S1') + Cardinality(S2')
    BY DEF HeldFiles
  <2> HIDE DEF S1, S2
  <2> QED  BY <2>1, <2>2, <2>3, CostTypes
<1>5. /\ HeldCa \in Nat
      /\ HeldCa' = HeldCa + CaOf(c, One(Writes(d))) - CaOf(comm[d], One(Writes(d)))
                             + CaOf(f, One(Writes(d))) - CaOf(fbck[d], One(Writes(d)))
                             + CaOf(t, 0) - CaOf(tmitChan[d], 0)
  <2> DEFINE S1 == {e \in ChanDevices : comm[e] = "ca"}
             S2 == {e \in ChanDevices : comm[e] = "fcom" /\ Writes(e)}
             S3 == {e \in ChanDevices : fbck[e] = "ca"}
             S4 == {e \in ChanDevices : tmitChan[e] = "ca"}
  <2>1. /\ \A e \in ChanDevices \ {d} : e \in S1 <=> e \in S1'
        /\ \A e \in ChanDevices \ {d} : e \in S2 <=> e \in S2'
        /\ \A e \in ChanDevices \ {d} : e \in S3 <=> e \in S3'
        /\ \A e \in ChanDevices \ {d} : e \in S4 <=> e \in S4'
    BY <1>2 DEF Writes
  <2>2. /\ S1 \in SUBSET ChanDevices /\ S1' \in SUBSET ChanDevices
        /\ S2 \in SUBSET ChanDevices /\ S2' \in SUBSET ChanDevices
        /\ S3 \in SUBSET ChanDevices /\ S3' \in SUBSET ChanDevices
        /\ S4 \in SUBSET ChanDevices /\ S4' \in SUBSET ChanDevices
    OBVIOUS
  <2>3. /\ One(d \in S1) + One(d \in S2) = CaOf(comm[d], One(Writes(d)))
        /\ One(d \in S1') + One(d \in S2') = CaOf(c, One(Writes(d)))
        /\ One(d \in S3) = CaOf(fbck[d], One(Writes(d))) /\ One(d \in S3') = CaOf(f, One(Writes(d)))
        /\ One(d \in S4) = CaOf(tmitChan[d], 0) /\ One(d \in S4') = CaOf(t, 0)
    <3>1. /\ d \in S1 <=> comm[d] = "ca"
          /\ d \in S2 <=> comm[d] = "fcom" /\ Writes(d)
          /\ d \in S3 <=> fbck[d] = "ca"
          /\ d \in S4 <=> tmitChan[d] = "ca"
          /\ d \in S1' <=> c = "ca"
          /\ d \in S2' <=> c = "fcom" /\ Writes(d)
          /\ d \in S3' <=> f = "ca"
          /\ d \in S4' <=> t = "ca"
      BY <1>2 DEF Writes
    <3>2. f # "fcom" /\ fbck[d] # "fcom"
      BY <1>1
    <3> HIDE DEF S1, S2, S3, S4
    <3> QED  BY <3>1, <3>2 DEF CaOf, One
  <2>4. HeldCa = Cardinality(S1) + Cardinality(S2) + Cardinality(S3) + Cardinality(S4)
    BY DEF HeldCa
  <2>5. HeldCa' = Cardinality(S1') + Cardinality(S2') + Cardinality(S3') + Cardinality(S4')
    BY DEF HeldCa
  <2> HIDE DEF S1, S2, S3, S4
  <2>6. /\ Cardinality(S1) \in Nat /\ Cardinality(S1') = Cardinality(S1) + One(d \in S1') - One(d \in S1)
        /\ Cardinality(S2) \in Nat /\ Cardinality(S2') = Cardinality(S2) + One(d \in S2') - One(d \in S2)
        /\ Cardinality(S3) \in Nat /\ Cardinality(S3') = Cardinality(S3) + One(d \in S3') - One(d \in S3)
        /\ Cardinality(S4) \in Nat /\ Cardinality(S4') = Cardinality(S4) + One(d \in S4') - One(d \in S4)
    BY <2>1, <2>2, CountDevices
  <2>7. /\ One(d \in S1) \in Int /\ One(d \in S1') \in Int /\ One(d \in S2) \in Int /\ One(d \in S2') \in Int
        /\ One(d \in S3) \in Int /\ One(d \in S3') \in Int /\ One(d \in S4) \in Int /\ One(d \in S4') \in Int
    BY DEF One
  <2>8. HeldCa \in Nat
    BY <2>4, <2>6
  <2>9. HeldCa' = HeldCa + (One(d \in S1') + One(d \in S2')) - (One(d \in S1) + One(d \in S2))
                         + One(d \in S3') - One(d \in S3) + One(d \in S4') - One(d \in S4)
    BY <2>4, <2>5, <2>6, <2>7
  <2> QED  BY <2>3, <2>8, <2>9
<1> QED  BY <1>3, <1>4, <1>5
\* What the channels c, f and t of device d need more than those it has.
MorePays(d, r, c, f, t) ==
  Pays(r, SubOf(c) - SubOf(comm[d]) + SubOf(t) - SubOf(tmitChan[d]),
          FileOf(c) - FileOf(comm[d]) + FileOf(t) - FileOf(tmitChan[d]),
          CaOf(c, One(Writes(d))) - CaOf(comm[d], One(Writes(d))) + CaOf(f, One(Writes(d)))
            - CaOf(fbck[d], One(Writes(d))) + CaOf(t, 0) - CaOf(tmitChan[d], 0))

\* If the channels are paid for, what is held remains counted.
LEMMA PaidFor ==
  ASSUME ChanInv, NEW d \in ChanDevices, NEW c \in ChannelKinds \cup {"none"},
         NEW f \in {"ca", "null", "none"}, NEW t \in ChannelKinds \cup {"none"},
         c = "none" => f = "none" /\ t = "none",
         Becoming(d, c, f, t), NEW r, Uses(d, r), MorePays(d, r, c, f, t),
         devName' = devName,
         NEW w \in {"own", "channel", "deleted"}, counters' = [counters EXCEPT ![d] = w]
  PROVE  ChanInv'
<1>1. ChanTypeOK /\ NoChannelForgotten
  BY DEF ChanInv
<1>2. FcomId[d] \in Ids
  BY DEF Ids
<1>3. r \in Resources
  BY DEF MorePays, Pays
<1>4. ChanTypeOK'
  BY <1>1, <1>2, <1>3 DEF ChanTypeOK, Becoming, Uses, Resources
<1>5. NoChannelForgotten'
  BY <1>1 DEF ChanTypeOK, NoChannelForgotten, Becoming
<1>6. ASSUME NEW id \in Ids
      PROVE  subscribed'[id] = Cardinality(HeldIn(comm', tmitChan', id))
  <2>1. /\ Cardinality(HeldIn(comm, tmitChan, id)) \in Nat /\ subscribed[id] = Cardinality(HeldIn(comm, tmitChan, id))
        /\ Cardinality(HeldIn(comm', tmitChan', id)) =
             Cardinality(HeldIn(comm, tmitChan, id))
             + IF id = FcomId[d]
               THEN SubOf(c) - SubOf(comm[d]) + SubOf(t) - SubOf(tmitChan[d]) ELSE 0
    BY <1>1, HeldBecoming DEF ChanInv
  <2>2. subscribed'[id] = IF id = FcomId[d] THEN subscribed[id] + r.sub ELSE subscribed[id]
    BY <1>1 DEF Uses, ChanTypeOK
  <2>3. r.sub = SubOf(c) - SubOf(comm[d]) + SubOf(t) - SubOf(tmitChan[d])
    BY DEF MorePays, Pays
  <2>4. CASE id = FcomId[d]
    BY <2>1, <2>2, <2>3, <2>4
  <2>5. CASE id # FcomId[d]
    BY <2>1, <2>2, <2>5
  <2> QED  BY <2>4, <2>5
<1>7. files' = HeldFiles' + leftOpen'
  <2>1. /\ HeldFiles \in Nat /\ files = HeldFiles + leftOpen
        /\ HeldFiles' = HeldFiles + FileOf(c) - FileOf(comm[d]) + FileOf(t) - FileOf(tmitChan[d])
    BY <1>1, HeldBecoming DEF ChanInv
  <2>2. /\ files' = files + r.file /\ leftOpen' = leftOpen + r.left
        /\ r.file = FileOf(c) - FileOf(comm[d]) + FileOf(t) - FileOf(tmitChan[d]) + r.left
    BY DEF Uses, MorePays, Pays
  <2>3. leftOpen \in Int /\ r.left \in Int
    BY <1>1, <1>3 DEF ChanTypeOK, Resources
  <2> QED  BY <2>1, <2>2, <2>3, CostTypes
<1>8. HeldCa' <= caOpen'
  <2> DEFINE more == CaOf(c, One(Writes(d))) - CaOf(comm[d], One(Writes(d))) + CaOf(f, One(Writes(d)))
                       - CaOf(fbck[d], One(Writes(d))) + CaOf(t, 0) - CaOf(tmitChan[d], 0)
  <2>1. /\ HeldCa \in Nat /\ HeldCa <= caOpen /\ caOpen \in Int
        /\ HeldCa' = HeldCa + CaOf(c, One(Writes(d))) - CaOf(comm[d], One(Writes(d)))
                             + CaOf(f, One(Writes(d))) - CaOf(fbck[d], One(Writes(d)))
                             + CaOf(t, 0) - CaOf(tmitChan[d], 0)
    BY <1>1, HeldBecoming DEF ChanInv, ChanTypeOK
  <2>2. more \in Int /\ HeldCa' = HeldCa + more
    BY <2>1, CostTypes
  <2>3. caOpen' = caOpen + r.ca /\ r.ca >= more /\ r.ca \in Int
    BY <1>3 DEF Uses, MorePays, Pays, Resources
  <2> HIDE DEF more
  <2> QED  BY <2>1, <2>2, <2>3
<1> QED  BY <1>4, <1>5, <1>6, <1>7, <1>8 DEF ChanInv

LEMMA NoneCosts ==
  /\ SubOf("none") = 0 /\ FileOf("none") = 0
  /\ \A write \in 0 .. 1 : CaOf("none", write) = 0
  BY DEF SubOf, FileOf, CaOf, One

\* Deleting everything, or having nothing to delete, pays for no channels.
LEMMA GonePays ==
  ASSUME ChanInv, NEW d \in ChanDevices
  PROVE  /\ MorePays(d, Gone(d), "none", "none", "none")
         /\ comm[d] = "none" => MorePays(d, Nothing, "none", "none", "none")
<1> DEFINE a == SubOf(comm[d])
           b == SubOf(tmitChan[d])
           e == FileOf(comm[d])
           g == FileOf(tmitChan[d])
           x == CaOf(comm[d], One(Writes(d)))
           y == CaOf(fbck[d], One(Writes(d)))
           z == CaOf(tmitChan[d], 0)
<1>0. Writes(d) \in BOOLEAN
  BY DEF Writes
<1>1. a \in Int /\ b \in Int /\ e \in Int /\ g \in Int /\ x \in Int /\ y \in Int /\ z \in Int
  BY CostTypes
<1>2. SubOf(fbck[d]) = 0 /\ FileOf(fbck[d]) = 0
  <2>1. fbck[d] \in {"ca", "null", "none"}
    BY DEF ChanInv, ChanTypeOK
  <2> QED  BY <2>1 DEF SubOf, FileOf, One
<1>3. /\ Pays(Old(comm[d], Writes(d)), 0 - a, 0 - e, 0 - x)
      /\ Pays(Old(fbck[d], Writes(d)), 0, 0, 0 - y)
      /\ Pays(Old(tmitChan[d], FALSE), 0 - b, 0 - g, 0 - z)
  <2>1. Pays(Old(fbck[d], Writes(d)), 0 - SubOf(fbck[d]), 0 - FileOf(fbck[d]), 0 - y)
    BY <1>0, OldPays
  <2>2. 0 - SubOf(fbck[d]) = 0 /\ 0 - FileOf(fbck[d]) = 0
    BY <1>2
  <2>3. Pays(Old(fbck[d], Writes(d)), 0, 0, 0 - y)
    <3> HIDE DEF y
    <3> QED  BY <2>1, <2>2
  <2>4. Pays(Old(comm[d], Writes(d)), 0 - a, 0 - e, 0 - x)
    BY <1>0, OldPays
  <2>5. Pays(Old(tmitChan[d], FALSE), 0 - b, 0 - g, 0 - CaOf(tmitChan[d], One(FALSE)))
    BY OldPays
  <2>6. One(FALSE) = 0
    BY DEF One
  <2> QED  BY <2>3, <2>4, <2>5, <2>6
<1>4. MorePays(d, Gone(d), "none", "none", "none")
  <2> HIDE DEF a, b, e, g, x, y, z
  <2> DEFINE ab == 0 - a + 0
             eg == 0 - e + 0
             xy == 0 - x + (0 - y)
  <2>1. Pays(Plus(Old(comm[d], Writes(d)), Old(fbck[d], Writes(d))), ab, eg, xy)
    <3>1. 0 - a \in Int /\ 0 - e \in Int /\ 0 - x \in Int /\ 0 - y \in Int
      BY <1>1
    <3> QED  BY <1>3, <3>1, PlusPays
  <2>2. Pays(Gone(d), ab + (0 - b), eg + (0 - g), xy + (0 - z))
    <3>1. ab \in Int /\ eg \in Int /\ xy \in Int /\ 0 - b \in Int /\ 0 - g \in Int /\ 0 - z \in Int
      BY <1>1
    <3> HIDE DEF ab, eg, xy
    <3> QED  BY <1>3, <2>1, <3>1, PlusPays DEF Gone
  <2>3. /\ 0 - a + 0 - b = ab + (0 - b)
        /\ 0 - e + 0 - g = eg + (0 - g)
        /\ 0 - x + 0 - y + 0 - z = xy + (0 - z)
    BY <1>1
  <2>4. Pays(Gone(d), 0 - a + 0 - b, 0 - e + 0 - g, 0 - x + 0 - y + 0 - z)
    BY <2>2, <2>3
  <2>5. One(Writes(d)) \in 0 .. 1
    BY CostTypes
  <2> QED  BY <2>4, <2>5, NoneCosts DEF MorePays, a, b, e, g, x, y, z
<1>5. ASSUME comm[d] = "none"
      PROVE  MorePays(d, Nothing, "none", "none", "none")
  <2>1. fbck[d] = "none" /\ tmitChan[d] = "none"
    BY <1>5 DEF ChanInv, NoChannelForgotten
  <2>2. a = 0 /\ b = 0 /\ e = 0 /\ g = 0 /\ x = 0 /\ y = 0 /\ z = 0
    BY <1>5, <2>1, NoneCosts, CostTypes
  <2> HIDE DEF a, b, e, g, x, y, z
  <2>3. 0 - a + 0 - b = 0 /\ 0 - e + 0 - g = 0 /\ 0 - x + 0 - y + 0 - z = 0
    BY <2>2
  <2>4. Pays(Nothing, 0 - a + 0 - b, 0 - e + 0 - g, 0 - x + 0 - y + 0 - z)
    BY <2>3, NothingPays
  <2>5. One(Writes(d)) \in 0 .. 1
    BY CostTypes
  <2> QED  BY <2>4, <2>5, NoneCosts DEF MorePays, a, b, e, g, x, y, z
<1> QED  BY <1>4, <1>5

LEMMA DisconnectInv ==
  ASSUME ChanInv, NEW d \in ChanDevices, DisconnectDevice(d)
  PROVE  ChanInv'
<1>1. Left(d) \in {"own", "channel", "deleted"}
  BY DEF Left, ChanInv, ChanTypeOK
<1> QED  BY <1>1, GonePays, PaidFor DEF DisconnectDevice, Becoming

\* The channels that are there after n constructors succeeded.
Created(d, n) ==
  [comm |-> IF n >= 1 THEN devName[d] ELSE "none",
   fbck |-> IF n >= 2 THEN FbckOf(d) ELSE "none",
   tmit |-> IF n = 3 THEN TmitOf(d) ELSE "none"]

Connects(d, r, n) ==
  /\ Becoming(d, Created(d, n).comm, Created(d, n).fbck, Created(d, n).tmit)
  /\ counters' = [counters EXCEPT ![d] = IF n = 3 THEN "channel" ELSE Left(d)]
  /\ Uses(d, Plus(Before(d), r))
  /\ UNCHANGED devName

\* r pays for the first n channels.
CreatedPays(d, r, n) ==
  Pays(r, SubOf(Created(d, n).comm) + SubOf(Created(d, n).tmit),
          FileOf(Created(d, n).comm) + FileOf(Created(d, n).tmit),
          CaOf(Created(d, n).comm, One(Writes(d))) + CaOf(Created(d, n).fbck, One(Writes(d)))
            + CaOf(Created(d, n).tmit, 0))

\* However far configure gets, the constructors pay for what stays with the device.
LEMMA ConfigurePays ==
  ASSUME ChanInv, NEW d \in ChanDevices, ConfigureDevice(d)
  PROVE  \E n \in 0 .. 3 : \E r : Connects(d, r, n) /\ CreatedPays(d, r, n)
<1> DEFINE own == NewChannel(devName[d], Writes(d))
           feedback == NewChannel(FbckOf(d), Writes(d))
           both == Then(own, feedback)
           W == One(Writes(d))
           a == SubOf(devName[d])
           e == FileOf(devName[d])
           x == CaOf(devName[d], W)
           y == CaOf(FbckOf(d), W)
           b == SubOf(TmitOf(d))
           g == FileOf(TmitOf(d))
           z == CaOf(TmitOf(d), 0)
<1>1. /\ devName[d] \in ChannelKinds /\ FbckOf(d) \in {"ca", "null", "none"}
      /\ TmitOf(d) \in ChannelKinds \cup {"none"} /\ (d \notin Measures => TmitOf(d) = "none")
      /\ W \in 0 .. 1 /\ Writes(d) \in BOOLEAN
  BY ChannelAssumption DEF ChanInv, ChanTypeOK, FbckOf, TmitOf, Writes, One
<1>2. /\ a \in Int /\ b \in Int /\ e \in Int /\ g \in Int /\ x \in Int /\ y \in Int /\ z \in Int
  BY CostTypes
<1>3. SubOf(FbckOf(d)) = 0 /\ FileOf(FbckOf(d)) = 0
  BY <1>1 DEF SubOf, FileOf, One
<1>4. ASSUME NEW q \in own
      PROVE  (q.ok => Pays(q, a, e, x)) /\ (~q.ok => Pays(q, 0, 0, 0))
  BY <1>1, NewPays
<1>5. ASSUME NEW q \in feedback
      PROVE  (q.ok => Pays(q, 0, 0, y)) /\ (~q.ok => Pays(q, 0, 0, 0))
  <2>1. FbckOf(d) \in ChannelKinds \cup {"none"}
    BY <1>1 DEF ChannelKinds
  <2> QED  BY <1>1, <1>3, <2>1, NewPays
<1>6. ASSUME NEW q \in LastStep(d)
      PROVE  (q.ok => Pays(q, b, g, z)) /\ (~q.ok => Pays(q, 0, 0, 0))
  <2>1. CASE d \in Measures
    <3>1. One(FALSE) = 0 /\ q \in NewChannel(TmitOf(d), FALSE)
      BY <2>1 DEF One, LastStep
    <3> QED  BY <1>1, <3>1, NewPays
  <2>2. CASE d \notin Measures
    <3>1. b = 0 /\ g = 0 /\ z = 0
      BY <1>1, <2>2, NoneCosts
    <3>2. q \in SettingOf(d)
      BY <2>2 DEF LastStep
    <3> HIDE DEF b, g, z
    <3> QED  BY <3>1, <3>2, SettingPays
  <2> QED  BY <2>1, <2>2
<1>7. \/ \E r \in own : ~r.ok /\ Connects(d, r, 0)
      \/ \E r \in Then({q \in own : q.ok}, feedback) : ~r.ok /\ Connects(d, r, 1)
      \/ \E r \in Then({q \in both : q.ok}, LastStep(d)) : Connects(d, r, IF r.ok THEN 3 ELSE 2)
  <2>1. \A n \in 0 .. 3 :
          /\ Created(d, n).comm = (IF n >= 1 THEN devName[d] ELSE "none")
          /\ Created(d, n).fbck = (IF n >= 2 THEN FbckOf(d) ELSE "none")
          /\ Created(d, n).tmit = (IF n = 3 THEN TmitOf(d) ELSE "none")
    BY DEF Created
  <2> DEFINE Connected(r, n) ==
               /\ comm' = [comm EXCEPT ![d] = IF n >= 1 THEN devName[d] ELSE "none"]
               /\ fbck' = [fbck EXCEPT ![d] = IF n >= 2 THEN FbckOf(d) ELSE "none"]
               /\ tmitChan' = [tmitChan EXCEPT ![d] = IF n = 3 THEN TmitOf(d) ELSE "none"]
               /\ counters' = [counters EXCEPT ![d] = IF n = 3 THEN "channel" ELSE Left(d)]
               /\ Uses(d, Plus(Before(d), r))
               /\ caOpen' <= MaxCa
  <2>2. \A n \in 0 .. 3 : \A r : Connected(r, n) /\ UNCHANGED devName => Connects(d, r, n)
    BY <2>1 DEF Connects, Becoming
  <2>3. /\ \/ \E r \in own : ~r.ok /\ Connected(r, 0)
           \/ \E r \in Then({q \in own : q.ok}, feedback) : ~r.ok /\ Connected(r, 1)
           \/ \E r \in Then({q \in both : q.ok}, LastStep(d)) : Connected(r, IF r.ok THEN 3 ELSE 2)
        /\ UNCHANGED devName
    BY Zenon DEF ConfigureDevice
  <2>4. 0 \in 0 .. 3 /\ 1 \in 0 .. 3 /\ \A r : (IF r.ok THEN 3 ELSE 2) \in 0 .. 3
    OBVIOUS
  <2> HIDE DEF Connected, own, both, feedback
  <2> QED  BY <2>2, <2>3, <2>4, Zenon
<1> HIDE DEF own, feedback
<1>8. ASSUME NEW q \in both, q.ok
      PROVE  Pays(q, a, e, x + y)
  <2>1. PICK r \in own, s \in feedback : r.ok /\ q = Plus(r, s)
    BY <1>8 DEF Then
  <2>2. s.ok
    BY <1>8, <2>1 DEF Plus
  <2>3. Pays(r, a, e, x) /\ Pays(s, 0, 0, y)
    BY <1>4, <1>5, <2>1, <2>2
  <2> HIDE DEF a, e, x, y
  <2> QED  BY <1>2, <2>1, <2>3 DEF Pays, Plus, Resources
<1> HIDE DEF both
<1>9. \A n \in 0 .. 3 : \A r :
        Pays(r, IF n = 0 THEN 0 ELSE IF n = 3 THEN a + b ELSE a,
                IF n = 0 THEN 0 ELSE IF n = 3 THEN e + g ELSE e,
                IF n = 0 THEN 0 ELSE IF n = 1 THEN x ELSE IF n = 2 THEN x + y ELSE x + y + z)
          => CreatedPays(d, r, n)
  <2> SUFFICES ASSUME NEW n \in 0 .. 3, NEW r,
                      Pays(r, IF n = 0 THEN 0 ELSE IF n = 3 THEN a + b ELSE a,
                IF n = 0 THEN 0 ELSE IF n = 3 THEN e + g ELSE e,
                IF n = 0 THEN 0 ELSE IF n = 1 THEN x ELSE IF n = 2 THEN x + y ELSE x + y + z)
               PROVE  CreatedPays(d, r, n)
    OBVIOUS
  <2>2. /\ Created(d, n).comm = (IF n >= 1 THEN devName[d] ELSE "none")
        /\ Created(d, n).fbck = (IF n >= 2 THEN FbckOf(d) ELSE "none")
        /\ Created(d, n).tmit = (IF n = 3 THEN TmitOf(d) ELSE "none")
    BY DEF Created
  <2>3. /\ SubOf(Created(d, n).comm) + SubOf(Created(d, n).tmit)
             = (IF n = 0 THEN 0 ELSE IF n = 3 THEN a + b ELSE a)
        /\ FileOf(Created(d, n).comm) + FileOf(Created(d, n).tmit)
             = (IF n = 0 THEN 0 ELSE IF n = 3 THEN e + g ELSE e)
        /\ CaOf(Created(d, n).comm, W) + CaOf(Created(d, n).fbck, W) + CaOf(Created(d, n).tmit, 0)
             = (IF n = 0 THEN 0 ELSE IF n = 1 THEN x ELSE IF n = 2 THEN x + y ELSE x + y + z)
    <3>1. CASE n = 0
      BY <1>1, <2>2, <3>1, NoneCosts
    <3>2. CASE n = 1
      BY <1>1, <1>2, <2>2, <3>2, NoneCosts
    <3>3. CASE n = 2
      BY <1>2, <2>2, <3>3, NoneCosts
    <3>4. CASE n = 3
      BY <1>2, <2>2, <3>4, NoneCosts
    <3> QED  BY <3>1, <3>2, <3>3, <3>4
  <2> QED  BY <2>3 DEF CreatedPays
<1> HIDE DEF a, b, e, g, x, y, z, W
<1>10. CASE \E r \in own : ~r.ok /\ Connects(d, r, 0)
  BY <1>4, <1>9, <1>10
<1>11. CASE \E r \in Then({q \in own : q.ok}, feedback) : ~r.ok /\ Connects(d, r, 1)
  <2>1. PICK r \in Then({q \in own : q.ok}, feedback) : ~r.ok /\ Connects(d, r, 1)
    BY <1>11
  <2>2. PICK q \in own, s \in feedback : q.ok /\ r = Plus(q, s)
    BY <2>1 DEF Then
  <2>3. ~s.ok
    BY <2>1, <2>2 DEF Plus
  <2>4. Pays(q, a, e, x) /\ Pays(s, 0, 0, 0)
    BY <1>4, <1>5, <2>2, <2>3
  <2>5. Pays(r, a, e, x)
    BY <1>2, <2>2, <2>4 DEF Pays, Plus, Resources
  <2> QED  BY <1>9, <2>1, <2>5
<1>12. CASE \E r \in Then({q \in both : q.ok}, LastStep(d)) : Connects(d, r, IF r.ok THEN 3 ELSE 2)
  <2>1. PICK r \in Then({q \in both : q.ok}, LastStep(d)) : Connects(d, r, IF r.ok THEN 3 ELSE 2)
    BY <1>12
  <2>2. PICK q \in both, s \in LastStep(d) : q.ok /\ r = Plus(q, s)
    BY <2>1 DEF Then
  <2>3. Pays(q, a, e, x + y) /\ (r.ok <=> s.ok)
    BY <1>8, <2>2 DEF Plus
  <2>4. CASE s.ok
    <3>1. Pays(s, b, g, z)
      BY <1>6, <2>4
    <3>2. Pays(r, a + b, e + g, x + y + z)
      BY <1>2, <2>2, <2>3, <3>1 DEF Pays, Plus, Resources
    <3> QED  BY <1>9, <2>1, <2>3, <2>4, <3>2
  <2>5. CASE ~s.ok
    <3>1. Pays(s, 0, 0, 0)
      BY <1>6, <2>5
    <3>2. Pays(r, a, e, x + y)
      BY <1>2, <2>2, <2>3, <3>1 DEF Pays, Plus, Resources
    <3> QED  BY <1>9, <2>1, <2>3, <2>5, <3>2
  <2> QED  BY <2>4, <2>5
<1> QED  BY <1>7, <1>10, <1>11, <1>12

LEMMA ConfigureInv ==
  ASSUME ChanInv, NEW d \in ChanDevices, ConfigureDevice(d)
  PROVE  ChanInv'
<1>1. PICK n, r : n \in 0 .. 3 /\ Connects(d, r, n) /\ CreatedPays(d, r, n)
  BY ConfigurePays
<1>0. n \in 0 .. 3
  BY <1>1
<1> DEFINE c == Created(d, n).comm
           f == Created(d, n).fbck
           t == Created(d, n).tmit
<1>2. /\ c \in ChannelKinds \cup {"none"} /\ f \in {"ca", "null", "none"}
      /\ t \in ChannelKinds \cup {"none"}
      /\ c = "none" => f = "none" /\ t = "none"
  <2>1. /\ devName[d] \in ChannelKinds /\ devName[d] # "none" /\ FbckOf(d) \in {"ca", "null", "none"}
        /\ TmitOf(d) \in ChannelKinds \cup {"none"}
    BY DEF ChanInv, ChanTypeOK, FbckOf, TmitOf, ChannelKinds
  <2> QED  BY <1>0, <2>1 DEF Created
<1>3. MorePays(d, Before(d), "none", "none", "none")
  BY GonePays DEF Before
<1> DEFINE a == SubOf(comm[d]) 
           b == SubOf(tmitChan[d])
           e == FileOf(comm[d])
           g == FileOf(tmitChan[d])
           x == CaOf(comm[d], One(Writes(d)))
           y == CaOf(fbck[d], One(Writes(d)))
           z == CaOf(tmitChan[d], 0)
           u == SubOf(c)
           v == SubOf(t)
           k == FileOf(c)
           l == FileOf(t)
           o == CaOf(c, One(Writes(d)))
           p == CaOf(f, One(Writes(d)))
           q == CaOf(t, 0)
<1>4. /\ a \in Int /\ b \in Int /\ e \in Int /\ g \in Int /\ x \in Int /\ y \in Int /\ z \in Int
      /\ u \in Int /\ v \in Int /\ k \in Int /\ l \in Int /\ o \in Int /\ p \in Int /\ q \in Int
  BY CostTypes
<1>5. MorePays(d, Plus(Before(d), r), c, f, t)
  <2>1. Pays(Before(d), 0 - a + 0 - b, 0 - e + 0 - g, 0 - x + 0 - y + 0 - z)
    BY <1>3, NoneCosts, CostTypes DEF MorePays
  <2>2. Pays(r, u + v, k + l, o + p + q)
    BY <1>1 DEF CreatedPays
  <2> HIDE DEF a, b, e, g, x, y, z, u, v, k, l, o, p, q
  <2>3. Pays(Plus(Before(d), r), u - a + v - b, k - e + l - g, o - x + p - y + q - z)
    BY <1>4, <2>1, <2>2 DEF Pays, Plus, Resources
  <2> QED  BY <2>3 DEF MorePays, a, b, e, g, x, y, z, u, v, k, l, o, p, q
<1>6. (IF n = 3 THEN "channel" ELSE Left(d)) \in {"own", "channel", "deleted"}
  BY DEF Left, ChanInv, ChanTypeOK
<1> HIDE DEF c, f, t
<1>7. Becoming(d, c, f, t)
  BY <1>1 DEF Connects, c, f, t
<1> QED  BY <1>1, <1>2, <1>5, <1>6, <1>7, PaidFor DEF Connects

\* No channel changes when a setting is read.
LEMMA ReadSettingInv ==
  ASSUME ChanInv, NEW d \in ChanDevices, ReadSetting(d)
  PROVE  ChanInv'
<1>1. PICK r \in SettingOf(d) : Uses(d, r)
  BY DEF ReadSetting
<1>2. Pays(r, 0, 0, 0)
  BY <1>1, SettingPays
<1>3. UNCHANGED <<devName, comm, fbck, tmitChan, counters>>
  BY DEF ReadSetting
<1>4. HeldFiles' = HeldFiles /\ HeldCa' = HeldCa /\ \A id : HeldIn(comm, tmitChan, id)' = HeldIn(comm, tmitChan, id)
  BY <1>3 DEF HeldFiles, HeldCa, HeldIn, Writes
<1>5. ChanTypeOK /\ NoChannelForgotten /\ FcomId[d] \in Ids
  BY DEF ChanInv, Ids
<1>6. /\ r.ca \in Int /\ r.left \in Int /\ r.sub = 0 /\ r.file = r.left /\ r.ca >= 0
  BY <1>2 DEF Pays, Resources
<1>7. subscribed' = subscribed
  BY <1>1, <1>5, <1>6 DEF Uses, ChanTypeOK
<1>8. /\ caOpen' \in Int /\ caOpen' >= caOpen /\ caOpen \in Int
      /\ files' = files + r.left /\ leftOpen' = leftOpen + r.left
      /\ files' \in Int /\ leftOpen' \in Int
  BY <1>1, <1>5, <1>6 DEF Uses, ChanTypeOK
<1>9. ChanTypeOK' /\ NoChannelForgotten'
  BY <1>3, <1>5, <1>7, <1>8 DEF ChanTypeOK, NoChannelForgotten
<1>10. HeldCa \in Int /\ HeldFiles \in Int
  <2>1. Becoming(d, comm[d], fbck[d], tmitChan[d])
    BY <1>3, <1>5 DEF Becoming, ChanTypeOK
  <2>2. comm[d] \in ChannelKinds \cup {"none"} /\ fbck[d] \in {"ca", "null", "none"}
        /\ tmitChan[d] \in ChannelKinds \cup {"none"}
    BY <1>5 DEF ChanTypeOK
  <2> QED  BY <1>5, <2>1, <2>2, HeldBecoming
<1>11. files' = HeldFiles' + leftOpen' /\ HeldCa' <= caOpen'
  BY <1>4, <1>5, <1>6, <1>8, <1>10 DEF ChanInv, ChanTypeOK
<1> QED  BY <1>4, <1>7, <1>9, <1>11 DEF ChanInv

LEMMA ChanUnchanged ==
  ASSUME ChanInv, devName' \in [ChanDevices -> ChannelKinds],
         UNCHANGED <<comm, fbck, tmitChan, counters, caOpen, subscribed, files, leftOpen>>
  PROVE  ChanInv'
<1>1. HeldFiles' = HeldFiles /\ HeldCa' = HeldCa /\ \A id : HeldIn(comm, tmitChan, id)' = HeldIn(comm, tmitChan, id)
  BY DEF HeldFiles, HeldCa, HeldOf, Writes
<1> QED  BY <1>1 DEF ChanInv, ChanTypeOK, NoChannelForgotten

LEMMA ChanInitInv == ChanInit => ChanInv
<1> SUFFICES ASSUME ChanInit PROVE ChanInv
  OBVIOUS
<1>1. ChanTypeOK /\ NoChannelForgotten
  BY DEF ChanInit, ChanTypeOK, NoChannelForgotten, ChannelKinds
<1>2. /\ \A id \in Ids : HeldIn(comm, tmitChan, id) = {} /\ subscribed[id] = 0
      /\ files = 0 /\ leftOpen = 0 /\ caOpen = 0
  BY DEF ChanInit, HeldIn
<1>3. /\ {d \in ChanDevices : comm[d] = "file"} = {} /\ {d \in ChanDevices : tmitChan[d] = "file"} = {}
      /\ {d \in ChanDevices : comm[d] = "ca"} = {} /\ {d \in ChanDevices : fbck[d] = "ca"} = {}
      /\ {d \in ChanDevices : tmitChan[d] = "ca"} = {}
      /\ {d \in ChanDevices : comm[d] = "fcom" /\ Writes(d)} = {}
  BY DEF ChanInit
<1>4. HeldFiles = 0 /\ HeldCa = 0
  BY <1>3, FS_EmptySet DEF HeldFiles, HeldCa
<1> QED  BY <1>1, <1>2, <1>4, FS_EmptySet DEF ChanInv

LEMMA ChanInvariant == ChanSpec => []ChanInv
<1>1. ASSUME ChanInv, NEW d \in ChanDevices, Rename(d)
      PROVE  ChanInv'
  <2>1. devName' \in [ChanDevices -> ChannelKinds]
    BY <1>1, ChannelAssumption DEF Rename, ChanInv, ChanTypeOK, ChannelKinds
  <2> QED  BY <1>1, <2>1, ChanUnchanged DEF Rename
<1>2. ChanInv /\ UNCHANGED chanVars => ChanInv'
  BY ChanUnchanged DEF chanVars, ChanInv, ChanTypeOK
<1>3. ChanInv /\ [ChanNext]_chanVars => ChanInv'
  BY <1>1, <1>2, DisconnectInv, ConfigureInv, ReadSettingInv DEF ChanNext
<1> QED  BY <1>3, ChanInitInv, PTL DEF ChanSpec

\* Devices have channels of the kinds there are, and whole numbers of resources (ChanTypeOK,
\* a part of the types of run components).
THEOREM ChanTypeCorrect == ChanSpec => []ChanTypeOK
<1>1. ChanInv => ChanTypeOK
  BY DEF ChanInv
<1> QED  BY <1>1, ChanInvariant, PTL

\* Subscriptions, files and channels in use are counted, for any devices that share FCOM
\* IDs in any way and any number of tries, whichever constructor throws (of the files also
\* the .ini files that getInitialSetting leaves open), and a device
\* without its own channel has no other one that configure would forget to delete (the
\* constructors and destructors of channels; ResourcesCounted of run components).
THEOREM ResourcesAreCounted == ChanSpec => []ResourcesCounted
<1>1. ChanInv => ResourcesCounted
  BY HeldIsIn DEF ChanInv
<1> QED  BY <1>1, ChanInvariant, PTL
===============================================================================
