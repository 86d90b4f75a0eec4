SPECIFICATION FairSpec
CONSTANTS
  NR_BLOCKS = 4
  Faults = {"write"}
  WriteErrorsPersist = TRUE
  Histories = {FALSE}
  MaxChunks = 5
  MaxStreams = 2
  MaxInterrupts = 0
CHECK_DEADLOCK FALSE
INVARIANT SuccessMeansComplete
PROPERTY KeepsPromise
PROPERTY StreamReturnsOrCrashes
