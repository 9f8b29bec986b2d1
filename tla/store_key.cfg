SPECIFICATION SerialSpec
CONSTANTS
  r1 = r1
  r2 = r2
  r3 = r3
  Runs = {r1, r2}
  Dirs = {d1}
  Unregistered = unregistered
  Dates = {day1, day2}
  FlagIds = {}
  NoFlag = noFlag
  Configs = {readerA, readerB}
  Canonical = {readerA, readerB}
  Parts <- MCParts
  NoFile = noFile
  Torn = torn
  NoDir = noDir
  JsonParts = {"config"}
PROPERTY
  KeyIsCollisionSafe
CHECK_DEADLOCK FALSE
