SPECIFICATION Spec
CONSTANTS
  NR_BLOCKS = 4
  Faults = {"interrupt"}
  WriteErrorsPersist = TRUE
  Histories = {FALSE}
  MaxChunks = 2
  MaxStreams = 1
  MaxInterrupts = 1
CHECK_DEADLOCK FALSE
INVARIANT SuccessMeansComplete
