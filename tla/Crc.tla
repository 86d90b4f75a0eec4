--------------------------------- MODULE Crc ---------------------------------
(***************************************************************************)
(* The table-driven CRC of core/Crc.cpp, which takes four bytes in a step  *)
(* from where its buffer is aligned to where it is no longer, and single   *)
(* bytes before and behind; the checksum of a stream is that of its blocks *)
(* one after another.  A byte has ByteBits bits, and the CRC four bytes.   *)
(***************************************************************************)
EXTENDS Integers, Bitwise, SequencesExt

CONSTANTS
  ByteBits,     \* 8
  Poly,         \* poly, of four bytes
  Memory,       \* the contents the memory may have: bytes by address, from 0
  MaxLength,    \* bound: the bytes of a block
  MaxBlocks,    \* bound: the blocks of the stream
  Careful       \* blocks reach the end of the word they begin in

VARIABLES
  memory,
  crc,          \* mVal of the Crc32 of a Crc32Analyzer
  stream,       \* the bytes the analyzer was shown
  blocks

vars == <<memory, crc, stream, blocks>>

Bytes == 2 ^ ByteBits
InitValue == Bytes ^ 4 - 1       \* 0xffffffff

Shifted(c, n) == c \div Bytes ^ n
LowByte(c) == c % Bytes

\* CrcInitValue(): one table for each of the four bytes of a word.
OneBit(c) == IF c % 2 = 1 THEN (c \div 2) ^^ Poly ELSE c \div 2
AllBits(c) == FoldLeft(LAMBDA x, bit : OneBit(x), c, [bit \in 1 .. ByteBits |-> bit])
Table0 == [b \in 0 .. Bytes - 1 |-> AllBits(b)]
ctx == LET table[k \in 0 .. 3] ==
             IF k = 0 THEN Table0
             ELSE [b \in 0 .. Bytes - 1 |->
                     Shifted(table[k - 1][b], 1) ^^ Table0[LowByte(table[k - 1][b])]]
       IN  table

ByteStep(c, byte) == ctx[0][LowByte(c) ^^ byte] ^^ Shifted(c, 1)

WordStep(c, word) ==
  LET x == c ^^ word IN
  (ctx[3][LowByte(x)] ^^ ctx[2][LowByte(Shifted(x, 1))])
    ^^ (ctx[1][LowByte(Shifted(x, 2))] ^^ ctx[0][LowByte(Shifted(x, 3))])

Word(a) == memory[a] + Bytes * memory[a + 1] + Bytes ^ 2 * memory[a + 2] + Bytes ^ 3 * memory[a + 3]

\* The three loops; the last one begins at end32, wherever the first one stopped.
CrcUpdate(c, buffer, length) ==
  LET end     == buffer + length
      aligned == 4 * ((buffer + 3) \div 4)
      head    == IF aligned < end THEN aligned ELSE end
      end32   == 4 * (end \div 4)
      BytesOf(from, to, start) ==
        FoldLeft(LAMBDA acc, k : ByteStep(acc, memory[from + k - 1]), start, [k \in 1 .. to - from |-> k])
      words == FoldLeft(LAMBDA acc, k : WordStep(acc, Word(head + 4 * (k - 1))),
                        BytesOf(buffer, head, c),
                        [k \in 1 .. (end32 - head) \div 4 |-> k])
  IN  BytesOf(end32, end, words)

-----------------------------------------------------------------------------
Init == memory \in Memory /\ crc = InitValue /\ stream = <<>> /\ blocks = 0

\* Crc32Analyzer::analyze(): a block of the stream, anywhere in memory.
analyze(buffer, length) ==
  /\ crc' = CrcUpdate(crc, buffer, length)
  /\ stream' = stream \o [k \in 1 .. length |-> memory[buffer + k - 1]]
  /\ UNCHANGED memory

\* The block is aligned, or ends in another word than it begins in.
ReachesWord(buffer, length) == buffer % 4 = 0 \/ (buffer + length) \div 4 > buffer \div 4

Next ==
  \E buffer \in DOMAIN memory : \E length \in 1 .. MaxLength :
    /\ buffer + length - 1 \in DOMAIN memory
    /\ Careful => ReachesWord(buffer, length)
    /\ blocks < MaxBlocks /\ blocks' = blocks + 1
    /\ analyze(buffer, length)

Spec == Init /\ [][Next]_vars

-----------------------------------------------------------------------------
(* Properties *)

\* The division by the polynomial, a bit at a time.
BitwiseCrc(bytes) ==
  FoldLeft(LAMBDA c, byte : AllBits(c ^^ byte), InitValue, bytes)

\* "CRC updated with the data from the given block" (Crc.cpp:58): however the stream was
\* cut into blocks and wherever they lay, the value is that of its bytes.
CrcIsOfTheBlocks == crc = BitwiseCrc(stream)

=============================================================================
