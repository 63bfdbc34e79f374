SPECIFICATION Spec
CONSTANTS
  Caches <- InstrAndData
  Addr = {1, 2}
  CoreAddr <- Shared
  Offsets = {0}
  NumSet <- Each1
  NumWay <- Each1
  NumSetSpec <- Each1
  NumWaySpec <- Each1
  RqSize <- RqOfUppers
  WqSize <- Each1
  PqSize <- Each0
  CqSize <- Each2
  MshrSize <- MshrByLevel
  ProcSize <- Each1
  Prefetchers = {}
  Kinds = {"read", "commit"}
  MaxId = 2
  MaxRequests = 5
INVARIANTS
  CommitForwarded
CHECK_DEADLOCK FALSE
