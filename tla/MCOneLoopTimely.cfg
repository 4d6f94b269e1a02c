CONSTANTS
  loop1 = loop1
  device1 = device1
  beam = beam
  noBeam = noBeam
  NoKind = NoKind
  Free = Free
  Loops = {loop1}
  Devices = {device1}
  Owner <- OneOwner
  Kinds = {beam, noBeam}
  Matches <- AllMatch
  Beam = {beam}
  Heartbeat = {noBeam}
  QueueSize = 9
  MaxLag = 1
  MaxPulse = 3
  MaxChanges = 1
SPECIFICATION TimelySpec
PROPERTY ImplementsExactContract
PROPERTY ActuatedFromLatest
CHECK_DEADLOCK FALSE
