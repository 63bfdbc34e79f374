SPECIFICATION FairSpec
CONSTANTS
  Instr <- Straight
  Addr <- MCAddr
  page <- OnePage
  line <- OneLine
  ROB_SIZE = 3
  LQ_SIZE = 2
  SQ_SIZE = 3
  SCHEDULER_SIZE = 2
  MaxInstr = 4
INVARIANTS TypeOK SlotsHaveOnePlace OutstandingOps StoresInOrder NearestProducer ForwardsToWaiting RegistersReady
PROPERTY EverythingRetires
