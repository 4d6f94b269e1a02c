CONSTANTS
  loop1 = loop1
  loop2 = loop2
  shared = shared
  own = own
  Free = Free
  Collector = Collector
  Loops = {loop1, loop2}
  Masks = {shared, own}
  Pois <- SharedPois
  Broadcasts = {loop1}
  MaxRequests = 3
  MaxFailures = 2
SPECIFICATION Spec
INVARIANTS TypeOK ConfiguredLoopsServed ReportsHold
PROPERTIES TransitionsEnd RetriedUntilConfigured
CHECK_DEADLOCK FALSE
