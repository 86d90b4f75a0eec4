----------------------------- MODULE BitReaderLE -----------------------------
(***************************************************************************)
(* BitReaderLE (BitIoLE.h, BitIoLE.cpp): reads a byte stream as bits, the  *)
(* low bit of a byte first.  A byte is abstracted to its number in the     *)
(* stream, counted from 1, and a bit to its position in it, so that a      *)
(* value of n bits is a function from 1 .. n to positions, which           *)
(* peekBits() packs low bit first and peekReversedBits() high bit first.   *)
(***************************************************************************)
EXTENDS Integers

CONSTANTS
  BufferSize,   \* 4096
  Counts,       \* the numbers of bits asked for
  Sizes         \* bound: the lengths of the streams in bytes

\* Up to 25 bits: with the bits up to the next byte, the value has to fit into a uint.
ASSUME BitsAssumption ==
  /\ BufferSize \in Nat /\ BufferSize >= 3
  /\ Counts \subseteq 1 .. 25
  /\ \A n \in Counts : n + 15 <= 8 * BufferSize
  /\ Sizes \subseteq Nat

VARIABLES
  mBuffer,      \* the numbers of the bytes in the buffer, 0: not of this stream
  mValid,       \* the last byte with potentially valid bits in it
  mPos,         \* the current byte
  mBitPos,      \* the number of valid bits left in it
  size,         \* the length of the stream in bytes
  taken,        \* the bytes taken from it
  consumed,     \* the bits consumed
  peeked,       \* how many bits the value peeked last has, 0 once some are consumed
  value,        \* that value
  error,        \* what was thrown, "cannotAlign": TruncatedArchiveError of alignToByte()
  wanted        \* how many bits were missing to whoever threw

readerVars == <<mBuffer, mValid, mPos, mBitPos, taken>>
vars == <<readerVars, size, consumed, peeked, value, error, wanted>>

Index == 0 .. BufferSize - 1

\* A bit that is not in the stream, and one of a byte that was left in the buffer.
Pad == 0
Foreign == -1

TypeOK ==
  /\ mBuffer \in [Index -> Nat]
  /\ mValid \in Index /\ mPos \in 0 .. mValid
  /\ mBitPos \in 0 .. 8
  /\ size \in Nat /\ taken \in 0 .. size /\ consumed \in Nat
  /\ peeked \in 0 .. 25
  /\ value \in [1 .. peeked -> Int]
  /\ error \in {"none", "truncated", "cannotAlign", "read"}
  /\ wanted \in Nat

Empty == [i \in 1 .. 0 |-> Pad]

\* A reader with its backing stream set.
Init ==
  /\ mBuffer = [i \in Index |-> 0] /\ mValid = 0 /\ mPos = 0 /\ mBitPos = 0
  /\ size \in Sizes /\ taken = 0 /\ consumed = 0
  /\ peeked = 0 /\ value = Empty
  /\ error = "none" /\ wanted = 0

-----------------------------------------------------------------------------
Buffered == 8 * (mValid - mPos) + mBitPos

needRefill(nrBits) == Buffered < nrBits

\* Mutant: a byte of which only some bits are needed is not counted.
BytesForWhole(nrBits, bitPos) == IF nrBits <= bitPos THEN 0 ELSE (nrBits - bitPos) \div 8

\* (nrBits - bitPos + 7) / 8, the bytes behind the current one that nrBits reach into.
BytesFor(nrBits, bitPos) == (nrBits - bitPos + 7) \div 8

\* Mutant: the partly consumed byte is overwritten.
FirstFreeOver == mValid - mPos

\* The place behind the bytes that are kept, the first of which may have no bits left.
FirstFree ==
  LET kept == mValid - mPos IN IF kept > 0 \/ mBitPos > 0 THEN kept + 1 ELSE 0

\* mBuffer once the bytes from mPos on are moved to the front and read bytes of the
\* stream are put behind them.
Refilled(read) ==
  [i \in Index |->
     IF FirstFree <= i /\ i < FirstFree + read THEN taken + 1 + i - FirstFree
     ELSE IF i <= mValid - mPos THEN mBuffer[mPos + i]
     ELSE mBuffer[i]]

\* What ReadStream::readSome(min, max) may return: fewer than min bytes only at the
\* end of the stream.
Readable(min, max) ==
  {n \in 0 .. max : n <= size - taken /\ (n < min => n = size - taken)}

Here == [buffer |-> mBuffer, valid |-> mValid, pos |-> mPos, bitPos |-> mBitPos,
         taken |-> taken]

\* Mutant: the first byte read into an empty buffer is counted as one behind it.
refillCounted(read) ==
  LET restored == read > 0 /\ FirstFree = 0 IN
  [buffer |-> Refilled(read),
   valid |-> mValid - mPos + read,
   pos |-> 0,
   bitPos |-> IF restored THEN 8 ELSE mBitPos,
   taken |-> taken + read]

\* The reader once a refill has read that many bytes: the first one read into an
\* empty buffer becomes the current one.
refill(read) ==
  LET restored == read > 0 /\ FirstFree = 0 IN
  [buffer |-> Refilled(read),
   valid |-> mValid - mPos + read - (IF restored THEN 1 ELSE 0),
   pos |-> 0,
   bitPos |-> IF restored THEN 8 ELSE mBitPos,
   taken |-> taken + read]

\* The readers nrBits can be gathered from, as far as the stream has them.
Ready(nrBits) ==
  IF needRefill(nrBits)
    THEN {refill(read) : read \in Readable(BytesFor(nrBits, mBitPos) - (mValid - mPos),
                                           BufferSize - FirstFree)}
    ELSE {Here}

\* Bit i of what is gathered from reader r, "padded with ones".
BitOf(r, i) ==
  LET k == BytesFor(i, r.bitPos) IN
  IF r.pos + k > r.valid THEN Pad
  ELSE IF r.buffer[r.pos + k] = 0 THEN Foreign
  ELSE 8 * (r.buffer[r.pos + k] - 1) + 8 + i - r.bitPos - 8 * k

Become(r) ==
  /\ mBuffer' = r.buffer /\ mValid' = r.valid /\ mPos' = r.pos /\ mBitPos' = r.bitPos
  /\ taken' = r.taken

\* setBackingStream() with another stream: what is in the buffer stays there.
setBackingStream ==
  /\ mBuffer' = [i \in Index |-> 0] /\ mValid' = 0 /\ mPos' = 0 /\ mBitPos' = 0
  /\ size' \in Sizes /\ taken' = 0 /\ consumed' = 0
  /\ peeked' = 0 /\ value' = Empty
  /\ error' = "none" /\ wanted' = 0

\* peekBits(), and peekReversedBits().
peekBits(nrBits) ==
  /\ error = "none"
  /\ \E r \in Ready(nrBits) :
       Become(r) /\ value' = [i \in 1 .. nrBits |-> BitOf(r, i)]
  /\ peeked' = nrBits
  /\ UNCHANGED <<size, consumed, error, wanted>>

\* readSome() fails in a refill.
ReadFails(nrBits) ==
  /\ error = "none" /\ needRefill(nrBits)
  /\ mBuffer' = Refilled(0) /\ mValid' = mValid - mPos /\ mPos' = 0
  /\ error' = "read" /\ wanted' = nrBits
  /\ UNCHANGED <<mBitPos, taken, size, consumed, peeked, value>>

-----------------------------------------------------------------------------
\* How often consumeBits() steps to the next byte until the bits left are not negative.
BytesOver(nrBits) == IF nrBits <= mBitPos THEN 0 ELSE BytesFor(nrBits, mBitPos)

\* Bits that were peeked are consumed.
consumeBits(nrBits) ==
  /\ error = "none" /\ nrBits <= peeked
  /\ IF needRefill(nrBits)
       THEN /\ error' = "truncated" /\ wanted' = nrBits
            /\ UNCHANGED <<mPos, mBitPos, consumed, peeked, value>>
       ELSE /\ mPos' = mPos + BytesOver(nrBits)
            /\ mBitPos' = mBitPos - nrBits + 8 * BytesOver(nrBits)
            /\ consumed' = consumed + nrBits
            /\ peeked' = 0 /\ value' = Empty
            /\ UNCHANGED <<error, wanted>>
  /\ UNCHANGED <<mBuffer, mValid, taken, size>>

\* Mutant: a byte of which nothing is consumed is left, too.
OnBoundaryNever(r) == FALSE

OnBoundary(r) == r.bitPos = 8

\* alignToByte(): peekBits(8), then to the next byte.
alignToByte ==
  /\ error = "none"
  /\ \E r \in Ready(8) :
       IF OnBoundary(r)
         THEN Become(r) /\ UNCHANGED <<consumed, error, wanted>>
         ELSE IF 8 * (r.valid - r.pos) + r.bitPos < 16 - r.bitPos
           THEN /\ Become(r)
                /\ error' = "cannotAlign" /\ wanted' = r.bitPos + 8
                /\ UNCHANGED consumed
           ELSE /\ Become([r EXCEPT !.pos = @ + 1, !.bitPos = 8])
                /\ consumed' = consumed + r.bitPos
                /\ UNCHANGED <<error, wanted>>
  /\ peeked' = 0 /\ value' = Empty
  /\ UNCHANGED size

Next ==
  \/ \E n \in Counts : peekBits(n) \/ consumeBits(n) \/ ReadFails(n)
  \/ alignToByte
  \/ setBackingStream

Spec == Init /\ [][Next]_vars

-----------------------------------------------------------------------------
(* Properties *)

\* The bits in the buffer are those taken from the stream and not consumed: no refill,
\* no step over a byte and no alignment loses a bit or returns one twice.
BufferedIsUnconsumed == Buffered = 8 * taken - consumed

\* Whatever refills it took, a value is made of the next bits of the stream, in
\* order, and of padding behind its end; nothing an earlier stream left in the buffer
\* shows.
PeekTellsTheStream ==
  \A i \in 1 .. peeked :
    value[i] = IF consumed + i <= 8 * size THEN consumed + i ELSE Pad

\* consumeBits() throws TruncatedArchiveError only when the stream has not got the bits.
TruncatedMeansEnd == error = "truncated" => wanted > 8 * size - consumed

\* alignToByte() throws it only when it "can't get another byte".  The code does not
\* keep this: it asks for more bits than it takes.
CannotAlignMeansEnd == error = "cannotAlign" => wanted > 8 * size - consumed

\* alignToByte() goes to the next byte boundary, and not past one.
AlignGoesToBoundary ==
  [][alignToByte /\ error' = "none" => consumed' % 8 = 0 /\ consumed' - consumed < 8]_vars

=============================================================================
