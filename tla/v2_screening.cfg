SPECIFICATION Spec
SYMMETRY Symmetry
INVARIANTS
  TypeOK
  NoLeakWithoutFault
  InsertIsComplete
  ItemsAreStored
  CommandKeepsMode
  LogIsOfThisRun
  VerdictIsSound
CONSTANTS
  a = a  b = b  c = c  d = d  t1 = t1  t2 = t2  ka = ka  kb = kb  kd = kd
  Texts = {a, b, c, d}
  Limit <- MCLimit
  NoId = NoId
  MemoryTopK = 2
  Connections = {c1, c2}
  None = None
  GreenPercent = 50
  YellowPercent = 50
  Questions <- MCQuestions
  SmokeLimit = 1
  MaxCalls = 3
  MaxRows = 2
  KeyOf <- MCKeyOf
  OldRows <- MCOldRows
  OldLog <- MCOldLog
  Baselines <- MCBaselines
  NoFile = NoFile
  Torn = Torn
CHECK_DEADLOCK FALSE
