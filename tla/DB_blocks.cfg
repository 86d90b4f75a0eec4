SPECIFICATION QueueSpec
CONSTANTS
  QueueBlockSize = 3
  ChunkSize = 4
  Lengths = {3, 6}
  Sizes = {0, 2, 5, 10}
  Expected = {0, 2, 5, 10, 12}
  Formats = {"stored", "coded"}
  Careful = TRUE
  Literals = {0, 255}
  InstLengths = {3, 258}
  Distances = {0, 32767}
  Leftovers <- MCLeftovers
  MaxBlocks = 2
CHECK_DEADLOCK FALSE
INVARIANT AvailFits
INVARIANT CountsTheOutput
PROPERTY IsInflate
INVARIANT BlockSaysTheSymbols
INVARIANT LiteralIndexValid
