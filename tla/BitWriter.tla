------------------------------ MODULE BitWriter ------------------------------
(***************************************************************************)
(* BitWriterLE (BitIoLE.h, BitIoLE.cpp) and BitWriterBE (BitIoBE.h,        *)
(* BitIoBE.cpp), which differ only in how writeBits() puts the bits of a   *)
(* value into bytes.  A bit is abstracted to its number among all bits     *)
(* written, counted from 1, 0 where nothing was written.  A byte, or a     *)
(* value, is a function from places to such numbers, the low bit in place  *)
(* 0; a value of n bits fills its n low places, and its first bit is the   *)
(* lowest for BitWriterLE and the highest for BitWriterBE.                 *)
(***************************************************************************)
EXTENDS Integers, Sequences

CONSTANTS
  WriterSize,     \* 4096, the size of the buffer in bytes
  WriteCounts,    \* the numbers of bits written at a time
  HighBitsClear,  \* whether the bits of a value above those to be written are 0
  MaxWritten      \* bound: the bits written

ASSUME WriterAssumption ==
  /\ WriterSize \in Nat
  /\ WriteCounts \subseteq 1 .. 31
  /\ \A n \in WriteCounts : n + 7 < 8 * WriterSize
  /\ HighBitsClear \in BOOLEAN /\ MaxWritten \in Nat

VARIABLES
  endian,      \* "LE", "BE": which of the two writers this is
  wBuffer,     \* the bytes of the buffer
  wBitPos,     \* mBitPos: how many bits of the buffer are in use
  sent,        \* the bytes the target got, as long as it took all of them
  written,     \* the bits written
  wBroken      \* a write to the target failed

wVars == <<endian, wBuffer, wBitPos, sent, written, wBroken>>

Places == 0 .. 7
ValuePlaces == 0 .. 31
WIndex == 0 .. WriterSize - 1

Clear == [p \in Places |-> 0]

\* A bit that is not one of the value's, and what becomes of two bits in one place.
Garbage == -1
Merged(a, b) == IF a = 0 THEN b ELSE IF b = 0 THEN a ELSE Garbage

WTypeOK ==
  /\ endian \in {"LE", "BE"}
  /\ wBuffer \in [WIndex -> [Places -> Nat \cup {Garbage}]]
  /\ wBitPos \in 0 .. 8 * WriterSize
  /\ sent \in Seq([Places -> Nat \cup {Garbage}])
  /\ written \in Nat /\ wBroken \in BOOLEAN

\* The constructor clears the buffer with a flush.
WInit ==
  /\ endian \in {"LE", "BE"}
  /\ wBuffer = [i \in WIndex |-> Clear] /\ wBitPos = 0
  /\ sent = <<>> /\ written = 0 /\ wBroken = FALSE

-----------------------------------------------------------------------------
(* flush() *)

\* Mutant: the byte that is not complete stays where it is.
FlushedKept ==
  LET bytes == wBitPos \div 8 IN
  [buffer |-> [i \in WIndex |-> IF i = 0 /\ bytes = 0 THEN wBuffer[0] ELSE Clear],
   bitPos |-> wBitPos % 8]

\* The complete bytes are gone, the incomplete one is in front, the others are cleared.
Flushed ==
  LET bytes == wBitPos \div 8 IN
  [buffer |-> [i \in WIndex |-> IF i = 0 /\ wBitPos % 8 > 0 THEN wBuffer[bytes] ELSE Clear],
   bitPos |-> wBitPos % 8]

Complete == [i \in 1 .. wBitPos \div 8 |-> wBuffer[i - 1]]

SentWith(bytes) == IF wBroken THEN <<>> ELSE sent \o bytes

flush ==
  /\ sent' = SentWith(Complete)
  /\ wBuffer' = Flushed.buffer /\ wBitPos' = Flushed.bitPos
  /\ UNCHANGED <<endian, written, wBroken>>

\* A WriteError leaves the buffer as it is; which part of it the target took is not known.
FlushFails ==
  /\ wBitPos > 0
  /\ sent' = <<>>
  /\ wBroken' = TRUE
  /\ UNCHANGED <<endian, wBuffer, wBitPos, written>>

-----------------------------------------------------------------------------
(* writeBits() *)

\* The next n bits as a value: in place p is its p-th bit from below.
ValueOf(n) ==
  [p \in ValuePlaces |->
     IF p >= n THEN (IF HighBitsClear THEN 0 ELSE Garbage)
     ELSE IF endian = "LE" THEN written + 1 + p ELSE written + n - p]

\* The byte that is the low one of v shifted right s places, or left.
ByteAt(v, s) == [p \in Places |-> IF s + p \in ValuePlaces THEN v[s + p] ELSE 0]

Masked(v, n) == [p \in ValuePlaces |-> IF p < n THEN v[p] ELSE 0]

Or(b, c) == [p \in Places |-> Merged(b[p], c[p])]

\* The bits that do not go into the current byte are assigned to the bytes behind it, the
\* last of which they need not fill.
writtenLE(w, n) ==
  LET pos == w.bitPos \div 8
      used == w.bitPos % 8
      rest == n - (8 - used)
      v == ValueOf(n)
  IN [i \in WIndex |->
        IF i = pos THEN Or(w.buffer[i], ByteAt(Masked(v, n), -used))
        ELSE IF i > pos /\ 8 * (i - pos - 1) < rest THEN ByteAt(v, 8 * (i - pos) - used)
        ELSE w.buffer[i]]

\* The last rest bits of the value go to the top of the last byte.
LastByte(v, rest) == ByteAt(v, rest - 8)

writtenBE(w, n) ==
  LET pos == w.bitPos \div 8
      free == 8 - (w.bitPos % 8)
      rest == n - free
      v == ValueOf(n)
      last == pos + (rest + 7) \div 8
  IN [i \in WIndex |->
        IF i = pos THEN Or(w.buffer[i], ByteAt(Masked(v, n), rest))
        ELSE IF i > pos /\ i < last THEN ByteAt(v, rest - 8 * (i - pos))
        ELSE IF i > pos /\ i = last THEN LastByte(v, rest - 8 * (last - pos - 1))
        ELSE w.buffer[i]]

writtenTo(w, n) == IF endian = "LE" THEN writtenLE(w, n) ELSE writtenBE(w, n)

\* A flush first if the bits would fill the buffer; when it fails, nothing is written.
writeBits(n) ==
  /\ written + n <= MaxWritten
  /\ LET full == wBitPos + n >= 8 * WriterSize
         w == IF full THEN Flushed ELSE [buffer |-> wBuffer, bitPos |-> wBitPos]
     IN /\ wBuffer' = writtenTo(w, n) /\ wBitPos' = w.bitPos + n
        /\ sent' = IF full THEN SentWith(Complete) ELSE sent
  /\ written' = written + n
  /\ UNCHANGED <<endian, wBroken>>

writeFails(n) == wBitPos + n >= 8 * WriterSize /\ FlushFails

\* Zeros up to the next byte, which count as bits that are written.
flushByte == wBitPos % 8 # 0 /\ writeBits(8 - (wBitPos % 8))

WNext ==
  \/ \E n \in WriteCounts : writeBits(n) \/ writeFails(n)
  \/ flushByte
  \/ flush \/ FlushFails

WSpec == WInit /\ [][WNext]_wVars

-----------------------------------------------------------------------------
(* Properties *)

\* The k-th bit, in the order the reader of the same kind takes them, of some bytes.
BitIn(bytes, k) ==
  bytes[(k + 7) \div 8][IF endian = "LE" THEN (k - 1) % 8 ELSE 7 - ((k - 1) % 8)]

\* What the target got and what is in the buffer are, as the reader of the same kind takes
\* them, the bits written, in order and once each, whatever widths they were written in,
\* wherever flushes fell, and also when a flush failed and was tried again; behind them
\* the buffer is clear.
BitsInOrder ==
  LET buffered == [i \in 1 .. WriterSize |-> wBuffer[i - 1]]
      before == written - wBitPos
  IN /\ \A k \in 1 .. 8 * WriterSize :
          BitIn(buffered, k) = IF k <= wBitPos THEN before + k ELSE 0
     /\ ~wBroken => /\ before = 8 * Len(sent)
                    /\ \A k \in 1 .. before : BitIn(sent, k) = k

=============================================================================
