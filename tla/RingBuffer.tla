----------------------------- MODULE RingBuffer -----------------------------
(***************************************************************************)
(* RingBuffer (RingBuffer.h, RingBuffer.cpp): the last mSize bytes of the  *)
(* output, from which repeatBytes() copies, and which is written to the    *)
(* backing stream each time it is full.  The unrolled copies of putBytes() *)
(* and repeatBytes() go byte by byte in the code and do so here: a block   *)
(* of theirs ends exactly where mPos or the source reaches mSize.          *)
(* Nothing in them looks whether there is room: a put after a failed flush *)
(* of the full buffer stores behind it, and the model ends with that.      *)
(***************************************************************************)
EXTENDS Integers, Sequences

CONSTANTS
  mSize,       \* the size of the buffer
  Bytes,       \* the byte values
  WriteFails,  \* whether a write to the backing stream can fail
  MaxLength,   \* bound: bytes in a call of putBytes or repeatBytes
  MaxHistory   \* bound: bytes between two calls of clear

ASSUME RingAssumption ==
  /\ mSize \in Nat /\ mSize > 0
  /\ Bytes \subseteq Nat /\ 0 \in Bytes
  /\ WriteFails \in BOOLEAN
  /\ MaxLength \in Nat /\ MaxHistory \in Nat

VARIABLES
  mBuffer,     \* the buffer
  mPos,        \* where the next byte goes; mSize after a failed flush
  overrun,     \* a put stored behind the buffer; anything may happen then
  op,          \* the call under way: "none", "putBytes" or "repeatBytes"
  length,      \* the bytes that call has still to put
  bytes, src,  \* the argument of putBytes, and how far it has been read
  offset,      \* the argument of repeatBytes
  srcOff,      \* where in mBuffer repeatBytes reads
  sent,        \* what the backing stream accepted before a write failed
  failed,      \* a write to the backing stream failed
  hist,        \* every byte put since clear()
  origin       \* how many of them went to earlier backing streams

callVars == <<op, length, bytes, src, offset, srcOff>>
vars == <<mBuffer, mPos, overrun, callVars, sent, failed, hist, origin>>

Index == 0 .. mSize - 1

Buffers == [Index -> Bytes]

TypeOK ==
  /\ mBuffer \in Buffers
  /\ mPos \in 0 .. mSize
  /\ overrun \in BOOLEAN
  /\ op \in {"none", "putBytes", "repeatBytes"}
  /\ length \in Nat
  /\ bytes \in Seq(Bytes)
  /\ src \in Nat
  /\ offset \in Index
  /\ srcOff \in Index
  /\ sent \in Seq(Bytes)
  /\ failed \in BOOLEAN
  /\ hist \in Seq(Bytes)
  /\ origin \in Int

Prefix(buffer, n) == [i \in 1 .. n |-> buffer[i - 1]]

\* As after setBufferSize(mSize) and clear().
Init ==
  /\ mBuffer = [i \in Index |-> 0] /\ mPos = 0 /\ overrun = FALSE
  /\ op = "none" /\ length = 0 /\ bytes = <<>> /\ src = 0
  /\ offset = 0 /\ srcOff = 0
  /\ sent = <<>> /\ failed = FALSE
  /\ hist = <<>> /\ origin = 0

-----------------------------------------------------------------------------
\* srcOff behind the byte it stands at.
NextSrc(i) == IF i + 1 = mSize THEN 0 ELSE i + 1

\* The index bytesBackwards before mPos, in int arithmetic.
PeekPos(bytesBackwards) ==
  LET pos == mPos - bytesBackwards - 1
  IN  IF pos < 0 THEN pos + mSize ELSE pos

peekByte(bytesBackwards) == mBuffer[PeekPos(bytesBackwards)]

\* Mutant: off by one.
StartOfRepeatShort(dist) ==
  IF mPos >= dist THEN mPos - dist ELSE mSize + mPos - dist

\* qMin(mPos - offset - 1, mSize + mPos - offset - 1) in unsigned arithmetic:
\* the first is huge exactly when mPos < offset + 1.
StartOfRepeat(dist) ==
  IF mPos >= dist + 1 THEN mPos - dist - 1 ELSE mSize + mPos - dist - 1

\* Mutant: the part behind mPos is left where it is.
RotatedNot(buffer, pos) == buffer

\* What flush() in the middle does to the buffer: the bytes from pos on, which
\* are the older ones, go to the front.
Rotated(buffer, pos) ==
  [i \in Index |-> IF i < mSize - pos THEN buffer[pos + i]
                                      ELSE buffer[i - (mSize - pos)]]

-----------------------------------------------------------------------------
\* mStream->write() accepts all it is given, or returns an error; what part of
\* it the stream took then, and what it gets later, is not followed up.
WriteOk(buffer, n) ==
  /\ sent' = IF failed THEN sent ELSE sent \o Prefix(buffer, n)
  /\ UNCHANGED failed

WriteFail ==
  /\ WriteFails
  /\ failed' = TRUE
  /\ UNCHANGED sent

Return ==
  /\ op' = "none" /\ length' = 0 /\ bytes' = <<>> /\ src' = 0
  /\ offset' = 0 /\ srcOff' = 0

\* Mutant: the byte that fills the buffer is flushed, and mPos left at it.
StoreNoWrap(byte) ==
  LET buffer == [mBuffer EXCEPT ![mPos] = byte] IN
  /\ mBuffer' = buffer
  /\ hist' = Append(hist, byte)
  /\ UNCHANGED <<origin, overrun>>
  /\ \/ /\ mPos + 1 < mSize
        /\ mPos' = mPos + 1
        /\ UNCHANGED <<sent, failed>>
     \/ /\ mPos + 1 = mSize
        /\ mPos' = mPos
        /\ WriteOk(buffer, mSize)

\* Mutant: the byte that fills the buffer does not flush it.
StoreNoFlush(byte) ==
  /\ mBuffer' = [mBuffer EXCEPT ![mPos] = byte]
  /\ hist' = Append(hist, byte)
  /\ mPos' = mPos + 1
  /\ UNCHANGED <<origin, overrun, sent, failed>>

\* mBuffer[mPos++] = byte, and flush() if that fills the buffer.  When the flush
\* throws, mPos stays mSize.
Store(byte) ==
  LET buffer == [mBuffer EXCEPT ![mPos] = byte] IN
  /\ mBuffer' = buffer
  /\ hist' = Append(hist, byte)
  /\ UNCHANGED <<origin, overrun>>
  /\ \/ /\ mPos + 1 < mSize
        /\ mPos' = mPos + 1
        /\ UNCHANGED <<sent, failed>>
     \/ /\ mPos + 1 = mSize
        /\ \/ mPos' = 0 /\ WriteOk(buffer, mSize)
           \/ mPos' = mSize /\ WriteFail

\* The last byte of a call was put, or the flush after it threw.
CallEnds == length = 1 \/ mPos' = mSize

\* Between two calls.
Idle == op = "none" /\ ~overrun

\* putByte(), putBytes() or repeatBytes() with mPos = mSize, which none of them
\* looks at, stores its first byte at mBuffer[mSize].  putByte() then goes on behind
\* the buffer, for mPos = mSize is not met again; in the other two the block is of 0
\* bytes, which the unrolled loop takes for 2^32 times 8.
PutBehind ==
  /\ Idle /\ mPos = mSize
  /\ overrun' = TRUE
  /\ UNCHANGED <<mBuffer, mPos, callVars, sent, failed, hist, origin>>

putByte ==
  /\ Idle /\ mPos < mSize /\ Len(hist) < MaxHistory
  /\ \E b \in Bytes : Store(b)
  /\ UNCHANGED callVars

-----------------------------------------------------------------------------
PutBytes ==
  /\ Idle /\ mPos < mSize
  /\ \E n \in 1 .. MaxLength :
       /\ Len(hist) + n <= MaxHistory
       /\ bytes' \in [1 .. n -> Bytes]
       /\ length' = n
  /\ op' = "putBytes" /\ src' = 0
  /\ UNCHANGED <<mBuffer, mPos, overrun, offset, srcOff, sent, failed, hist, origin>>

\* One byte of putBytes.  Each block is read from the start of the argument on,
\* so src is 0 again behind a flush.
PutNext ==
  /\ op = "putBytes"
  /\ Store(bytes[src + 1])
  /\ IF CallEnds
       THEN Return
       ELSE /\ length' = length - 1
            /\ src' = IF mPos' = 0 THEN 0 ELSE src + 1
            /\ UNCHANGED <<op, bytes, offset, srcOff>>

RepeatBytes ==
  /\ Idle /\ mPos < mSize
  /\ \E n \in 1 .. MaxLength, dist \in Index :
       /\ Len(hist) + n <= MaxHistory
       /\ length' = n
       /\ offset' = dist
       /\ srcOff' = StartOfRepeat(dist)
  /\ op' = "repeatBytes"
  /\ UNCHANGED <<mBuffer, mPos, overrun, bytes, src, sent, failed, hist, origin>>

\* One byte of repeatBytes.
RepeatNext ==
  /\ op = "repeatBytes"
  /\ Store(mBuffer[srcOff])
  /\ IF CallEnds
       THEN Return
       ELSE /\ length' = length - 1
            /\ srcOff' = NextSrc(srcOff)
            /\ UNCHANGED <<op, bytes, src, offset>>

-----------------------------------------------------------------------------
\* flush() by the owner of the buffer, in the middle or after a failed one.
flush ==
  /\ Idle
  /\ \/ /\ WriteOk(mBuffer, mPos)
        /\ mBuffer' = IF mPos = mSize THEN mBuffer ELSE Rotated(mBuffer, mPos)
        /\ mPos' = 0
     \/ /\ WriteFail
        /\ UNCHANGED <<mBuffer, mPos>>
  /\ UNCHANGED <<overrun, callVars, hist, origin>>

\* A stream that keeps the history: only the backing stream changes.  What was
\* not flushed will go to the new one, unless the buffer is full and a put comes
\* before a flush().
setBackingStream ==
  /\ Idle
  /\ sent' = <<>> /\ failed' = FALSE
  /\ origin' = Len(hist) - mPos
  /\ UNCHANGED <<mBuffer, mPos, overrun, callVars, hist>>

\* A stream that does not: setBackingStream() and clear().
clear ==
  /\ Idle
  /\ mBuffer' = [i \in Index |-> 0] /\ mPos' = 0
  /\ sent' = <<>> /\ failed' = FALSE
  /\ hist' = <<>> /\ origin' = 0
  /\ UNCHANGED <<overrun, callVars>>

Next ==
  \/ PutBehind
  \/ putByte \/ PutBytes \/ PutNext \/ RepeatBytes \/ RepeatNext
  \/ flush \/ setBackingStream \/ clear

Spec == Init /\ [][Next]_vars

-----------------------------------------------------------------------------
(* Properties *)

\* Until a put stores behind the buffer, peekByte(d), and so each byte repeatBytes()
\* reads, is the byte put d + 1 bytes ago, 0 before the first: whatever flushes full,
\* in the middle or failed, and whatever changes of the stream, happened in between.
WindowIsHistory ==
  ~overrun =>
    \A d \in Index :
      peekByte(d) = IF d < Len(hist) THEN hist[Len(hist) - d] ELSE 0

\* Until then, and while no write failed, what the backing stream got followed by
\* what waits in the buffer is exactly what was put for this stream.
StreamIsHistory ==
  ~overrun /\ ~failed =>
    sent \o Prefix(mBuffer, mPos) = SubSeq(hist, origin + 1, Len(hist))

\* A put stores behind the buffer only when a write to this very stream failed, or
\* when the stream took over a full buffer that an earlier one could not write, as
\* the decoders do with keepHistory, and this is its first put: a stream that once
\* had room for a byte and whose writes succeed never does it.
OverrunIsInherited ==
  overrun /\ ~failed => sent = <<>> /\ Len(hist) - origin = mSize

\* Every put stores inside the buffer.  The code does not keep this.
NeverOverruns == ~overrun

\* putBytes(bytes, length) puts the bytes it is given.  The code does not when the
\* bytes cross the end of the buffer.
PutBytesPutsBytes ==
  LET done == Len(bytes) - length IN
  op = "putBytes" =>
    SubSeq(hist, Len(hist) - done + 1, Len(hist)) = SubSeq(bytes, 1, done)

\* To its user the buffer is the history of an LZ77 decoder, see LzHistory, up to a
\* put that stores behind the buffer.
Lz == INSTANCE LzHistory WITH
  Window <- mSize, history <- hist, distance <- offset,
  left <- IF op = "repeatBytes" THEN length ELSE 0

IsLzHistory == Lz!Spec

=============================================================================
