SPECIFICATION FairSpec
CONSTANTS
  Instr <- Dependent
  Addr <- MCAddr
  page <- OnePage
  line <- OneLine
  ROB_SIZE = 4
  LQ_SIZE = 1
  SQ_SIZE = 1
  SCHEDULER_SIZE = 4
  MaxInstr = 4
PROPERTY EverythingRetires
CHECK_DEADLOCK FALSE
