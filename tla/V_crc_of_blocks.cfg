SPECIFICATION Spec
CONSTANTS
  ByteBits = 2
  Poly = 171
  Memory <- MCMemory
  MaxLength = 9
  MaxBlocks = 2
  Careful = FALSE
CHECK_DEADLOCK FALSE
INVARIANT CrcIsOfTheBlocks
