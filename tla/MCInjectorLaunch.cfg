CONSTANTS
  Bpms = {1, 5, 6, 8}
  M5 = 5
  M6 = 6
  Downstream = {5, 6}
  Algorithms = {"launch"}
  Toggled = {1, 5}
  SquareG = FALSE
  MaxVersion = 1
SPECIFICATION FitSpec
PROPERTY LeftOut
CHECK_DEADLOCK FALSE
