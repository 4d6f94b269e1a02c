CONSTANTS
  loop1 = loop1
  loop2 = loop2
  device1 = device1
  device2 = device2
  beam = beam
  noBeam = noBeam
  NoKind = NoKind
  Free = Free
  Loops = {loop1, loop2}
  Devices = {device1, device2}
  Owner <- TwoOwners
  Kinds = {beam, noBeam}
  Matches <- SomeMatch
  Beam = {beam}
  Heartbeat = {beam}
  QueueSize = 3
  MaxLag = 0
  MaxPulse = 1
  MaxChanges = 2
SPECIFICATION Spec
INVARIANT LockDisables
PROPERTY ThreadsReturn
CHECK_DEADLOCK FALSE
