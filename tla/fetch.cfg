SPECIFICATION FCSpec
CONSTANTS
  Caches <- InstrOnly
  Addr = {1, 2}
  CoreAddr <- AllLines
  Offsets = {0}
  NumSet <- L1I_1
  NumWay <- L1I_1
  NumSetSpec <- L1I_1
  NumWaySpec <- L1I_1
  RqSize <- L1I_1
  WqSize <- L1I_1
  PqSize <- L1I_1
  CqSize <- L1I_4
  MshrSize <- L1I_2
  ProcSize <- L1I_4
  Prefetchers = {}
  Kinds = {"read", "commit"}
  MaxId = 0
  MaxRequests = 0
  MaxInstr = 5
  IFETCH_SIZE = 3
  ROB_SIZE = 2
INVARIANTS
  OnlyRetiredInNormalArray
  WaitingFetchIsServed
CHECK_DEADLOCK FALSE
