SPECIFICATION Spec
INVARIANTS
  RunnerReRanks
CONSTANTS
  Limits = {9}
  Scores = {0, 1}
  Faithful = FALSE
CONSTANTS
  hi = hi  ok = ok  more = more  Blank = Blank  spaced = spaced
  Stripped <- MCStripped
  Datasets <- MCDatasets
  Strays <- MCStrays
  TopK = 2
CHECK_DEADLOCK FALSE
