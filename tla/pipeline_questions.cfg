SPECIFICATION Spec
INVARIANTS
  TypeOK
  EvidenceIsInvisible
  AnsweredFromOwnHaystack
  HistoryIsTopK
  OfficialIdsAreGenuine
  PublishedIsComplete
CONSTANTS
  Limits = {0, 1, 9}
  Scores = {0}
  Faithful = FALSE
  hi = hi  ok = ok  more = more  Blank = Blank  spaced = spaced
  Stripped <- MCStripped
  Datasets <- MCDatasets
  Strays <- MCStrays
  TopK = 2
CHECK_DEADLOCK FALSE
