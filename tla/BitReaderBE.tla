----------------------------- MODULE BitReaderBE -----------------------------
(***************************************************************************)
(* BitReaderBE (BitIoBE.h, BitIoBE.cpp): reads a byte stream as bits, the  *)
(* high bit of a byte first, in the buffer and with the refills of         *)
(* BitReaderLE.  Unlike that, it steps to the next byte as soon as it has  *)
(* consumed the last bit of one, be there a next byte or not: at the end   *)
(* of what is buffered mPos is mValid + 1, and moving the bytes to the     *)
(* front of the buffer makes mValid -1, which as a uint is 2^32 - 1.       *)
(***************************************************************************)
EXTENDS BitReaderLE

VARIABLES
  stale,     \* what was peeked last holds bits left in the buffer instead of padding
  crashed    \* refill() ran off the buffer

varsBE == <<vars, stale, crashed>>

\* mValid as a uint is behind any place of the buffer.
AllBits == -1

InitBE == Init /\ stale = FALSE /\ crashed = FALSE

-----------------------------------------------------------------------------
\* Mutant: the byte counted in front of the buffer is taken for the first one read
\* into an empty buffer.
refillBERestored(read) == refill(read)

\* The reader once a refill has read that many bytes.  A reader that has never got a
\* byte is the only one with no bits left in its current byte.
refillBE(read) ==
  LET restored == read > 0 /\ mBitPos = 0 IN
  [buffer |-> Refilled(read),
   valid |-> mValid - mPos + read - (IF restored THEN 1 ELSE 0),
   pos |-> 0,
   bitPos |-> IF restored THEN 8 ELSE mBitPos,
   taken |-> taken + read]

ReadyBE(nrBits) ==
  IF needRefill(nrBits)
    THEN {refillBE(read) : read \in Readable(BytesFor(nrBits, mBitPos) - (mValid - mPos),
                                             BufferSize - FirstFree)}
    ELSE {Here}

\* peekBits().  When not a byte came behind the last one, what is left of older bytes is
\* taken for valid, and at the next refill there is no end to the bytes to move.
peekBitsBE(nrBits) ==
  /\ error = "none" /\ ~crashed
  /\ IF needRefill(nrBits) /\ mValid = AllBits
       THEN crashed' = TRUE /\ UNCHANGED <<readerVars, peeked, value, stale>>
       ELSE /\ \E r \in ReadyBE(nrBits) :
                 /\ Become(r) /\ value' = [i \in 1 .. nrBits |-> BitOf(r, i)]
                 /\ stale' = (r.valid = AllBits)
            /\ peeked' = nrBits
            /\ UNCHANGED crashed
  /\ UNCHANGED <<size, consumed, error, wanted>>

ReadFailsBE(nrBits) ==
  /\ ~crashed /\ mValid # AllBits
  /\ ReadFails(nrBits)
  /\ UNCHANGED <<stale, crashed>>

\* The bits left in the byte that nrBits, counted from the beginning of a byte, end in.
BitsLeft(nrBits) == 8 - (nrBits % 8)

\* Bits that were peeked are consumed.
consumeBitsBE(nrBits) ==
  /\ error = "none" /\ ~crashed /\ nrBits <= peeked
  /\ IF needRefill(nrBits)
       THEN /\ error' = "truncated" /\ wanted' = nrBits
            /\ UNCHANGED <<mPos, mBitPos, consumed, peeked, value>>
       ELSE /\ \/ /\ nrBits >= mBitPos
                  /\ mPos' = mPos + (nrBits - mBitPos) \div 8 + 1
                  /\ mBitPos' = BitsLeft(nrBits - mBitPos)
               \/ /\ nrBits < mBitPos
                  /\ mBitPos' = mBitPos - nrBits
                  /\ UNCHANGED mPos
            /\ consumed' = consumed + nrBits
            /\ peeked' = 0 /\ value' = Empty
            /\ UNCHANGED <<error, wanted>>
  /\ UNCHANGED <<mBuffer, mValid, taken, size, stale, crashed>>

setBackingStreamBE == ~crashed /\ setBackingStream /\ stale' = FALSE /\ UNCHANGED crashed

NextBE ==
  \/ \E n \in Counts : peekBitsBE(n) \/ consumeBitsBE(n) \/ ReadFailsBE(n)
  \/ setBackingStreamBE

SpecBE == InitBE /\ [][NextBE]_varsBE

-----------------------------------------------------------------------------
(* Properties.  Those of BitReaderLE hold too, where behind the end of the stream  *)
(* there is padding or what is stale.                                              *)

\* Stale bits are returned, and the buffer is run off, only at the end of the stream and
\* behind its last bit: whoever reads what is there, in steps of any size and however
\* the stream comes in, never meets the byte counted in front of the buffer.
StaleOnlyAtEnd == stale \/ crashed => taken = size /\ consumed = 8 * size

\* "the refill() will synthesize extra 0xff bytes if needed to fullfill a peek request".
\* The code does not keep this when the last byte of the stream is used up.
PaddedWithOnes == ~stale

\* A reader does not crash.  The code does not keep this when that is peeked twice.
NeverCrashes == ~crashed

=============================================================================
