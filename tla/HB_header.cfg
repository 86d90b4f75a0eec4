SPECIFICATION HeaderSpec
CONSTANTS
  BufferSize = 4
  Counts = {1, 3, 8, 15}
  Sizes = {0, 1, 2, 6}
  WriterSize = 4
  WriteCounts = {1, 3, 8, 14, 21}
  HighBitsClear = TRUE
  MaxWritten = 48
  Types = {"Deflate32", "Deflate64", "DeflateNSIS"}
  MainMin = 3
  MainSize = 5
  DistSize = 3
  DistTableSize32 = 2
  Levels = {0, 7}
  Repeats = {3, 4}
  Zeros = {3, 11}
  StoredSizes = {0, 1, 65535}
  EncMain = 8
  EncMainMin = 3
  EncDist = 2
  EncLevels = {0, 5, 7}
  RepeatMax = 4
  ZerosMax = 4
  ManyZerosMax = 6
CHECK_DEADLOCK FALSE
INVARIANT BufferedIsUnconsumed
INVARIANT PeekTellsTheStream
INVARIANT TruncatedMeansEnd
PROPERTY AlignGoesToBoundary
INVARIANT StaleOnlyAtEnd
INVARIANT BitsInOrder
INVARIANT LevelsAreTheRuns
INVARIANT NoUndefinedLevel
INVARIANT NumbersSayTheLevels
