SPECIFICATION Spec
INVARIANTS
  TypeOK
  NoLeakWithoutFault
  IdsAreFresh
  IngestIsComplete
  RankedByBestHit
PROPERTY
  KeepsBanksApart
CONSTANTS
  d1 = d1  d2 = d2  shared = shared  long1 = long1  long2 = long2  short = short
  Users = {shared}
  NoUser = NoUser
  DocIds = {d1, d2}
  Texts = {long1, long2, short}
  Blank = Blank
  EmbedInput <- MCEmbedInput
  Deliveries <- MCDeliveries
  Depths = {0, 2}
  DefaultK = 1
  BatchSize = 1
  Connections = {c1, c2}
  None = None
  MaxOrdinal = 3
CHECK_DEADLOCK FALSE
