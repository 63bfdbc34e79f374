SPECIFICATION FairSpec
CONSTANTS
  DRAM_CHANNELS = 1
  DRAM_BANKS = 2
  DRAM_COLUMNS = 1
  DRAM_RANKS = 1
  DRAM_ROWS = 4
  Addr = {1, 2, 3}
  DRAM_RQ_SIZE = 2
  DRAM_WQ_SIZE = 3
  tRP = 1
  tRCD = 0
  tCAS = 1
  DRAM_DBUS_RETURN_TIME = 2
  DRAM_DBUS_TURN_AROUND_TIME = 1
  MaxDelay = 1
  MaxRequests = 4
  MaxCycle = 24
INVARIANTS
  TypeOK
  BanksHoldTheirRequests
  CountersAgree
  CachedIndexesFresh
  ReadsAreKept
  BusTurnsAround
PROPERTIES
  ImplementsMemory
  ReadsAnswered
  WritesDrain
CHECK_DEADLOCK FALSE
