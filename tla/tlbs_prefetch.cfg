SPECIFICATION FairSpec
CONSTRAINT OneTree
CONSTANTS
  Caches <- TlbsAndData
  Addr = {1, 2, 3}
  CoreAddr <- TreeAddr
  Offsets = {0}
  NumSet <- Each1
  NumWay <- TlbWays
  NumSetSpec <- Each1
  NumWaySpec <- Each1
  RqSize <- StlbTwo
  WqSize <- Each1
  PqSize <- DataPq
  CqSize <- Each1
  MshrSize <- StlbTwo
  ProcSize <- Each4
  Prefetchers = {"L1D", "L2C"}
  Kinds = {"read", "store", "swap"}
  MaxId = 1
  MaxRequests = 4
INVARIANTS
  ReturnsAreExpected
  NoLostWaiter
  LruPermutation
  WriteQueueRoom
PROPERTIES
  DirtyVictimWritten
  Drains
  ReadAnswered
CHECK_DEADLOCK FALSE
