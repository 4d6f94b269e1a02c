CONSTANTS
  BufferSize = 3
  MaxPulse = 2
  MeasKind = "fcom"
  IsBlen = FALSE
  HasTmit = TRUE
  ActSize = 2
  ActValues = {1, 2}
  Low = 0
  High = 1
  ActKind = "fcom"
  HasReference = TRUE
  NaN = NaN
  StateSize = 3
  MaxCalc = 6
  StateLimited = TRUE
  AverageSize = 4
  Measured = {1, 2}
  ChanDevices = {"M1", "M2", "A1"}
  Measures = {"M1", "M2"}
  ChanBpms = {"M1"}
  HasFbck = {"M1", "A1"}
  BornFile = {}
  FcomId <- MCFcomId
  Names = {"fcom", "file"}
  Tries = 2
  MaxCa = 2
  MaxLeft = 1
  Beams <- MCBeams
  InUse = {2, 4, 5, 6}
  Operated = {2, 5}
  ReadsFail = {2}
  MaxChirp = 1
  Bpms = {1, 5, 6, 8}
  M5 = 5
  M6 = 6
  Downstream = {5, 6}
  Algorithms = {"poly", "eact", "launch"}
  Toggled = {1}
  SquareG = FALSE
  MaxVersion = 1
  MaxPatterns = 2
  Words = 2
  HalfWord = 2
  PoiValues <- MCPoiValues
  MaxStates = 10
  Slots = {1, 2}
  MaxQueue = 1
  MaxInstances = 2
  Texts <- MCTexts
SPECIFICATION Spec
INVARIANTS
  ComponentsTypeOK
  StuckSeen SentWithinLimits WrittenIsSent ResourcesCounted
  SourcesValid CollectedWhileOn FitRowsAgree
  SetsKept PatternsFindTheirSets AlgorithmOfPattern SetpointsMatch
  StartedComplete OffBeforeReset OutWritten ReadbackCurrent
PROPERTIES
  DatumHandedOnce DriftHeals AveragesWindow CorrectedFromCurrent
  ChirpHeld ReadyFollows AllRemoved KicksOfLoadedG NewMasksAccepted ResetComes
CHECK_DEADLOCK FALSE
