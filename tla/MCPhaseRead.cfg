CONSTANTS
  Beams = {{1, 2, 3, 4, 5, 6, 7}}
  InUse = {2, 4, 5}
  Operated = {4, 5}
  ReadsFail = {}
SPECIFICATION LongSpec
PROPERTY PhaseRead
CHECK_DEADLOCK FALSE
