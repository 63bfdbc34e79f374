SPECIFICATION Spec
CONSTANTS
  Caches <- InstrAndData
  Addr = {1, 2}
  CoreAddr <- Shared
  Offsets = {0}
  NumSet <- Each1
  NumWay <- Each1
  NumSetSpec <- Each1
  NumWaySpec <- Each1
  RqSize <- RqOfUppers
  WqSize <- Each1
  PqSize <- Each0
  CqSize <- Each1
  MshrSize <- MshrByLevel
  ProcSize <- Each1
  Prefetchers = {}
  Kinds = {"read", "store", "commit"}
  MaxId = 2
  MaxRequests = 4
INVARIANTS
  TypeOK
  MshrUnique
  ReturnsAreExpected
  NoLostWaiter
  WriteQueueRoom
PROPERTIES
  TimestampOrder
  SpeculationIsolated
CHECK_DEADLOCK FALSE
