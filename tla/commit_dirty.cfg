SPECIFICATION Spec
CONSTANTS
  Caches <- InstrDataLLC
  Addr = {1, 2, 3}
  CoreAddr <- CodeApart
  Offsets = {0}
  NumSet <- Each1
  NumWay <- Each1
  NumSetSpec <- Each1
  NumWaySpec <- Each1
  RqSize <- RqOfUppers
  WqSize <- Each1
  PqSize <- Each0
  CqSize <- Each1
  MshrSize <- MshrByLevel
  ProcSize <- Each1
  Prefetchers = {}
  Kinds = {"read", "store", "commit"}
  MaxId = 1
  MaxRequests = 4
PROPERTIES
  DirtyVictimWritten
CHECK_DEADLOCK FALSE
