SPECIFICATION IdExclusiveSpec
CONSTANTS
  r1 = r1
  r2 = r2
  r3 = r3
  Runs = {r1, r2, r3}
  Dirs = {d1, d2}
  Unregistered = unregistered
  Dates = {day1}
  FlagIds = {flag}
  NoFlag = noFlag
  Configs = {official, local}
  Canonical = {official}
  Parts <- MCParts
  NoFile = noFile
  Torn = torn
  NoDir = noDir
  JsonParts = {"config"}
SYMMETRY RunSymmetry
INVARIANTS
  TypeOK
  SuccessLeavesOwnResult
  RejectionLeavesNothing
  OnlyTheCheckIsStopped
  UniqueResultIds
  CompletedRunsSweepClean
CHECK_DEADLOCK FALSE
