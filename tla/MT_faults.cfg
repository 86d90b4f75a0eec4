SPECIFICATION Spec
CONSTANTS
  NR_BLOCKS = 4
  Faults = {"corrupted", "exception", "write", "interrupt"}
  WriteErrorsPersist = FALSE
  Histories = {FALSE, TRUE}
  MaxChunks = 5
  MaxStreams = 3
  MaxInterrupts = 2
CHECK_DEADLOCK FALSE
INVARIANT NoLostWakeup
INVARIANT BlockOwnership
INVARIANT OutputInOrder
INVARIANT InterruptLoopEnds
INVARIANT RingHasOneUser
INVARIANT ProgressIsHonest
PROPERTY EnqueuedIsDelivered
