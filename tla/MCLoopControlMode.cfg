CONSTANTS
  loop1 = loop1
  loop2 = loop2
  shared = shared
  own = own
  Free = Free
  Collector = Collector
  Loops = {loop1}
  Masks = {shared, own}
  Pois <- SharedPois
  Broadcasts = {}
  MaxRequests = 4
  MaxFailures = 1
SPECIFICATION Spec
INVARIANT ComputeDoesNotActuate
CHECK_DEADLOCK FALSE
