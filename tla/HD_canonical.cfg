SPECIFICATION HuffmanSpec
CONSTANTS
  MAX_BITS = 4
  HUFFMAN_TABLE_BITS = 2
  NR_SYMBOLS = 4
  Lengths = {0, 1, 2, 3, 4, 5}
  MaxUses = 2
  EncSymbols = 5
  NUM_COUNTERS = 3
  Freqs = {0, 1, 2, 3, 5, 8}
  MaxLens = {3, 4}
CHECK_DEADLOCK FALSE
INVARIANT DecodesCanonical
INVARIANT RefusesOversubscribed
INVARIANT CodesAreCanonical
INVARIANT ShortestWithinLimit
