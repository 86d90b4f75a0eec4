SPECIFICATION Spec
CONSTANTS
  ChunkSize = 4
  RingSize = 3
  Lengths = {3, 6}
  Sizes = {0, 2, 5, 9}
  Expected = {0, 1, 5, 7, 12}
  Histories = {FALSE}
  Careful = TRUE
  MaxStreams = 2
CHECK_DEADLOCK FALSE
INVARIANT NothingSkipped
PROPERTY IsInflate
