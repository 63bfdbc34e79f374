SPECIFICATION Spec
CONSTANTS
  Instr <- Several
  Addr <- MCAddr
  page <- OnePage
  line <- OneLine
  ROB_SIZE = 3
  LQ_SIZE = 2
  SQ_SIZE = 3
  SCHEDULER_SIZE = 3
  MaxInstr = 3
INVARIANT ForwardMatches
CHECK_DEADLOCK FALSE
