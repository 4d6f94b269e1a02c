---------------------------- MODULE DeviceChannels ----------------------------
(***************************************************************************)
(* The communication channels of devices: an FcomChannel, CaChannel,       *)
(* FileChannel or NullChannel for the device itself, one for its FBCK PV   *)
(* and one for the TMIT of a BPM.  They are created by configure and       *)
(* deleted by disconnect, and each constructor can throw half-way.  What   *)
(* they hold is counted: subscriptions to FCOM, Channel Access channels    *)
(* and open files.                                                         *)
(***************************************************************************)
EXTENDS Integers, FiniteSets

CONSTANTS
  ChanDevices,  \* the devices
  Measures,     \* those that are MeasurementDevices, the others are ActuatorDevices
  ChanBpms,         \* measurements with a TMIT
  HasFbck,      \* devices with _setFbckPv
  BornFile,     \* devices with _isFile, whose name was a file when they were created
  FcomId,       \* the FCOM ID of each device; X, Y and TMIT of a BPM share one
  Names,        \* bound: the kinds of channels that operators ask for
  Tries,        \* maxTentatives of CaChannel::CaChannel
  MaxCa,        \* bound: Channel Access channels
  MaxLeft       \* bound: files that nobody closes

ASSUME ChannelAssumption ==
  /\ IsFiniteSet(ChanDevices)
  /\ Measures \subseteq ChanDevices /\ ChanBpms \subseteq Measures
  /\ HasFbck \subseteq ChanDevices /\ BornFile \subseteq ChanDevices
  /\ Names \subseteq {"fcom", "ca", "file", "null"}
  /\ Tries \in Nat \ {0} /\ MaxCa \in Nat /\ MaxLeft \in Nat

VARIABLES
  devName,   \* the kind of channel that DEVNAME and CAMODE ask for
  comm,      \* Device::_communicationChannel
  fbck,      \* Device::_fbckCommunicationChannel
  tmitChan,  \* MeasurementDevice::_tmitCommunicationChannel
  counters,  \* where DATACNT and DATAERRORS point to
  caOpen,    \* Channel Access channels that are open
  subscribed,\* subscriptions per FCOM ID
  files,     \* open files
  leftOpen   \* .ini files that getInitialSetting opened and did not delete; history

chanVars ==
  <<devName, comm, fbck, tmitChan, counters, caOpen, subscribed, files, leftOpen>>

Ids == {FcomId[d] : d \in ChanDevices}

ChannelKinds == {"fcom", "ca", "file", "null"}

ChanInit ==
  /\ devName = [d \in ChanDevices |-> IF d \in BornFile THEN "file" ELSE "fcom"]
  /\ comm = [d \in ChanDevices |-> "none"]
  /\ fbck = [d \in ChanDevices |-> "none"]
  /\ tmitChan = [d \in ChanDevices |-> "none"]
  /\ counters = [d \in ChanDevices |-> "own"]
  /\ caOpen = 0 /\ subscribed = [i \in Ids |-> 0] /\ files = 0
  /\ leftOpen = 0

-----------------------------------------------------------------------------
(* Constructors and destructors: what they add to the resources *)

\* file counts the files opened, left those of them that no device points to.
Nothing == [ok |-> TRUE, ca |-> 0, sub |-> 0, file |-> 0, left |-> 0]

Failure == [Nothing EXCEPT !.ok = FALSE]

Plus(r, s) ==
  [ok |-> r.ok /\ s.ok, ca |-> r.ca + s.ca, sub |-> r.sub + s.sub,
   file |-> r.file + s.file, left |-> r.left + s.left]

\* The second of two steps is only taken if the first one succeeds.
Then(S, T) == {r \in S : ~r.ok} \cup {Plus(r, s) : r \in {q \in S : q.ok}, s \in T}

\* CaChannel::CaChannel.  Every try creates a channel, of which only the last one is
\* ever cleared; it throws when a channel cannot be created, or none connects.
NewCa ==
  {[Nothing EXCEPT !.ca = n] : n \in 1 .. Tries}
    \cup {[Nothing EXCEPT !.ok = FALSE, !.ca = n] : n \in 0 .. Tries}

\* FcomChannel::initialize.  To be written, a channel first gets a CaChannel to read
\* the PV with, which nobody deletes if the FCOM ID is not found or the
\* subscription fails.
NewFcom(write) ==
  Then(IF write THEN NewCa ELSE {Nothing}, {[Nothing EXCEPT !.sub = 1], Failure})

\* FileChannel::FileChannel and NullChannel::NullChannel
NewFile == {[Nothing EXCEPT !.file = 1], Failure}

NewChannel(kind, write) ==
  CASE kind = "fcom" -> NewFcom(write)
    [] kind = "ca" -> NewCa
    [] kind = "file" -> NewFile
    [] kind \in {"null", "none"} -> {Nothing}

\* Mutation: both destructors unsubscribe, as those of FcomChannelStates do.
OldUnsubscribedTwice(kind, write) ==
  [Nothing EXCEPT !.sub = IF kind = "fcom" THEN -2 ELSE 0,
                  !.ca = IF kind = "ca" \/ (kind = "fcom" /\ write) THEN -1 ELSE 0,
                  !.file = IF kind = "file" THEN -1 ELSE 0]

\* The destructors ~FcomChannel, ~CaChannel and ~FileChannel.
Old(kind, write) ==
  [Nothing EXCEPT !.sub = IF kind = "fcom" THEN -1 ELSE 0,
                  !.ca = IF kind = "ca" \/ (kind = "fcom" /\ write) THEN -1 ELSE 0,
                  !.file = IF kind = "file" THEN -1 ELSE 0]

Writes(d) == d \notin Measures

\* Everything that device d has is deleted.
Gone(d) ==
  Plus(Plus(Old(comm[d], Writes(d)), Old(fbck[d], Writes(d))), Old(tmitChan[d], FALSE))

Uses(d, r) ==
  /\ caOpen' = caOpen + r.ca
  /\ subscribed' = [subscribed EXCEPT ![FcomId[d]] = @ + r.sub]
  /\ files' = files + r.file
  /\ leftOpen' = leftOpen + r.left

-----------------------------------------------------------------------------
(* The operations of a device *)

\* Device::disconnect and MeasurementDevice::disconnect.  DATACNT and DATAERRORS still
\* point into the channel.
Left(d) == IF counters[d] = "channel" /\ comm[d] # "none" THEN "deleted" ELSE counters[d]

DisconnectDevice(d) ==
  /\ comm' = [comm EXCEPT ![d] = "none"]
  /\ fbck' = [fbck EXCEPT ![d] = "none"]
  /\ tmitChan' = [tmitChan EXCEPT ![d] = "none"]
  /\ counters' = [counters EXCEPT ![d] = Left(d)]
  /\ Uses(d, Gone(d))
  /\ UNCHANGED devName

\* Device::createFbckPv, called for devices that were not created as files and want it.
FbckOf(d) == IF d \in HasFbck \ BornFile /\ devName[d] \in {"fcom", "ca"} THEN "ca"
             ELSE IF devName[d] = "null" THEN "null" ELSE "none"

TmitOf(d) == IF d \in ChanBpms /\ devName[d] # "null" THEN devName[d] ELSE "none"

\* ActuatorDevice::getInitialSetting: the setting of a file is read from its .ini file.
\* Every return and exception deletes that FileChannel but one, if the value read is the
\* one remembered (_lastValueSet).  It fails when the file cannot be opened or read,
\* or the value is not within the limits.
SettingOf(d) ==
  {Nothing, Failure}
    \cup IF devName[d] = "file" THEN {[Nothing EXCEPT !.file = 1, !.left = 1]} ELSE {}

\* After Device::configure: the TMIT channel, or the setting of an actuator.
LastStep(d) == IF d \in Measures THEN NewChannel(TmitOf(d), FALSE) ELSE SettingOf(d)

\* Mutation: configure does not disconnect first.
BeforeKept(d) == Nothing

\* Device::configure disconnects if there is a channel; without one there is no
\* other either.
Before(d) == IF comm[d] # "none" THEN Gone(d) ELSE Nothing

\* MeasurementDevice::configure and ActuatorDevice::configure: the channels are
\* created one after the other until a constructor throws.  What was created
\* before stays with the device.
ConfigureDevice(d) ==
  LET own == NewChannel(devName[d], Writes(d))
      both == Then(own, NewChannel(FbckOf(d), Writes(d)))
      Connected(r, n) ==
        /\ comm' = [comm EXCEPT ![d] = IF n >= 1 THEN devName[d] ELSE "none"]
        /\ fbck' = [fbck EXCEPT ![d] = IF n >= 2 THEN FbckOf(d) ELSE "none"]
        /\ tmitChan' = [tmitChan EXCEPT ![d] = IF n = 3 THEN TmitOf(d) ELSE "none"]
        /\ counters' = [counters EXCEPT ![d] = IF n = 3 THEN "channel" ELSE Left(d)]
        /\ Uses(d, Plus(Before(d), r))
        /\ caOpen' <= MaxCa /\ leftOpen' <= MaxLeft
  IN
  /\ \/ \E r \in own : ~r.ok /\ Connected(r, 0)
     \/ \E r \in Then({q \in own : q.ok}, NewChannel(FbckOf(d), Writes(d))) : ~r.ok /\ Connected(r, 1)
     \/ \E r \in Then({q \in both : q.ok}, LastStep(d)) : Connected(r, IF r.ok THEN 3 ELSE 2)
  /\ UNCHANGED devName

\* MODE goes to ENABLE (Loop::resetActuators), or Longitudinal and LongitudinalChirp turn
\* a state on: the setting of a configured actuator is read again.
ReadSetting(d) ==
  /\ d \notin Measures /\ counters[d] = "channel"
  /\ \E r \in SettingOf(d) : Uses(d, r) /\ leftOpen' <= MaxLeft
  /\ UNCHANGED <<devName, comm, fbck, tmitChan, counters>>

\* An operator changes DEVNAME or CAMODE.
Rename(d) ==
  /\ \E kind \in Names : devName' = [devName EXCEPT ![d] = kind]
  /\ UNCHANGED <<comm, fbck, tmitChan, counters, caOpen, subscribed, files, leftOpen>>

ChanNext ==
  \E d \in ChanDevices :
    DisconnectDevice(d) \/ ConfigureDevice(d) \/ ReadSetting(d) \/ Rename(d)

ChanSpec == ChanInit /\ [][ChanNext]_chanVars

-----------------------------------------------------------------------------
(* Properties *)

ChanTypeOK ==
  /\ devName \in [ChanDevices -> ChannelKinds]
  /\ comm \in [ChanDevices -> ChannelKinds \cup {"none"}]
  /\ fbck \in [ChanDevices -> {"ca", "null", "none"}]
  /\ tmitChan \in [ChanDevices -> ChannelKinds \cup {"none"}]
  /\ counters \in [ChanDevices -> {"own", "channel", "deleted"}]
  /\ caOpen \in Int /\ subscribed \in [Ids -> Int] /\ files \in Int
  /\ leftOpen \in Int

HeldOf(id) == {<<d, "comm">> : d \in {e \in ChanDevices : FcomId[e] = id /\ comm[e] = "fcom"}}
                \cup {<<d, "tmit">> : d \in {e \in ChanDevices : FcomId[e] = id /\ tmitChan[e] = "fcom"}}

HeldFiles == Cardinality({d \in ChanDevices : comm[d] = "file"})
               + Cardinality({d \in ChanDevices : tmitChan[d] = "file"})

HeldCa == Cardinality({d \in ChanDevices : comm[d] = "ca"})
            + Cardinality({d \in ChanDevices : comm[d] = "fcom" /\ Writes(d)})
            + Cardinality({d \in ChanDevices : fbck[d] = "ca"})
            + Cardinality({d \in ChanDevices : tmitChan[d] = "ca"})

\* A channel is never there without the one that configure looks at to decide whether
\* there is something to disconnect.
NoChannelForgotten ==
  \A d \in ChanDevices : comm[d] = "none" => fbck[d] = "none" /\ tmitChan[d] = "none"

\* Devices that share an FCOM blob come and go, fail half-way and are renamed, and
\* still every channel has its subscription and its file, and no subscription is left
\* without a channel.  Files are lost in one way only: each time that the setting of an
\* actuator is read from its .ini file and is the one remembered, as when the loop
\* restarts and nobody moved it, the file stays open for good (ActuatorDevice.cc:530).
\* Channels of Channel Access may be lost, by retries and failed constructors, but
\* one that is in use is open, and the next configure finds every channel to
\* disconnect.
ResourcesCounted ==
  /\ \A id \in Ids : subscribed[id] = Cardinality(HeldOf(id))
  /\ files = HeldFiles + leftOpen
  /\ HeldCa <= caOpen
  /\ NoChannelForgotten
=============================================================================
