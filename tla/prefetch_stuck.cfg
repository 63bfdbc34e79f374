SPECIFICATION FairSpec
CONSTANTS
  Caches <- InstrAndData
  Addr = {1}
  CoreAddr <- Shared
  Offsets = {0}
  NumSet <- Each1
  NumWay <- Each1
  NumSetSpec <- Each1
  NumWaySpec <- Each1
  RqSize <- RqOfUppers
  WqSize <- Each1
  PqSize <- Each1
  CqSize <- Each1
  MshrSize <- MshrByLevel
  ProcSize <- Each4
  Prefetchers = {"L1D"}
  Kinds = {"read"}
  MaxId = 1
  MaxRequests = 3
PROPERTIES
  ReadAnswered
CHECK_DEADLOCK FALSE
