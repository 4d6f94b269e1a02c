CONSTANTS
  Bpms = {1, 5, 6, 8}
  M5 = 5
  M6 = 6
  Downstream = {5, 6}
  Algorithms = {"static"}
  Toggled = {1, 5}
  SquareG = FALSE
  MaxVersion = 1
SPECIFICATION FitSpec
PROPERTY SelectedWereUsed
CHECK_DEADLOCK FALSE
