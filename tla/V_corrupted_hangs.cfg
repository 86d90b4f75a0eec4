SPECIFICATION FairSpec
CONSTANTS
  NR_BLOCKS = 4
  Faults = {"corrupted"}
  WriteErrorsPersist = TRUE
  Histories = {FALSE}
  MaxChunks = 2
  MaxStreams = 1
  MaxInterrupts = 0
CHECK_DEADLOCK FALSE
PROPERTY StreamReturns
