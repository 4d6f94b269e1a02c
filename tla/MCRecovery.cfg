CONSTANTS
  loop1 = loop1
  device1 = device1
  beam = beam
  noBeam = noBeam
  NoKind = NoKind
  Free = Free
  Loops = {loop1}
  Devices = {device1}
  Owner <- OneOwner
  Kinds = {beam}
  Matches <- AllMatch
  Beam = {beam}
  Heartbeat = {}
  QueueSize = 3
  MaxLag = 0
  MaxPulse = 3
  MaxChanges = 0
SPECIFICATION RecoverySpec
INVARIANT RestMeansCalculated
PROPERTY CalmPulsesCalculated
CHECK_DEADLOCK FALSE
