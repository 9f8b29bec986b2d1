SPECIFICATION Spec
INVARIANTS
  TypeOK
  NoLeakWithoutFault
  HeldOnItsLoop
  IngestIsComplete
  RankedByBestCopy
PROPERTY
  KeepsPromise
CONSTANTS
  u1 = u1  u2 = u2  u3 = u3  s1 = s1  s2 = s2
  long1 = long1  long2 = long2  short = short
  Units = {u1, u2, u3}
  Sessions = {s1, s2}
  Texts = {long1, long2, short}
  Blank = Blank
  None = None
  EmbedInput <- MCEmbedInput
  Corpora <- MCCorpora
  TopK = 2
  BatchSize = 1
  Connections = {c1, c2}
  Loops = {l1, l2}
CHECK_DEADLOCK FALSE
