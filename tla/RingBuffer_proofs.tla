-------------------------- MODULE RingBuffer_proofs --------------------------
(***************************************************************************)
(* Proofs about RingBuffer, for every size of the buffer: its window is    *)
(* the history of what was put, and it implements LzHistory.               *)
(***************************************************************************)
EXTENDS RingBuffer, SequenceTheorems, TLAPS

\* While a call is under way, nothing was stored behind the buffer, which has room, the
\* argument of putBytes is not read past its end, and repeatBytes reads offset + 1 bytes
\* behind mPos.
CallInv ==
  /\ op # "none" => mPos < mSize /\ length > 0 /\ ~overrun
  /\ op = "putBytes" => src + length <= Len(bytes)
  /\ op = "repeatBytes" => srcOff = PeekPos(offset)
  /\ op # "repeatBytes" => offset = 0

RInv == TypeOK /\ CallInv /\ WindowIsHistory

-----------------------------------------------------------------------------
\* The value d bytes back, whether or not so many were put, is a byte.
LEMMA PeekPosLemma ==
  ASSUME TypeOK, NEW d \in Index
  PROVE  PeekPos(d) \in Index
BY RingAssumption DEF TypeOK, Index, PeekPos

\* Where repeatBytes starts to read.
LEMMA StartLemma ==
  ASSUME TypeOK, NEW d \in Index
  PROVE  StartOfRepeat(d) = PeekPos(d)
BY RingAssumption DEF TypeOK, Index, PeekPos, StartOfRepeat

\* Storing a byte puts it at distance 0 and all others one further back, and lets
\* a source that moves along stay at its distance.
LEMMA StoreLemma ==
  ASSUME TypeOK, WindowIsHistory, ~overrun, mPos < mSize,
         NEW byte \in Bytes, Store(byte)
  PROVE  /\ mBuffer' \in Buffers /\ mPos' \in 0 .. mSize /\ sent' \in Seq(Bytes)
         /\ failed' \in BOOLEAN /\ hist' \in Seq(Bytes) /\ origin' \in Int
         /\ overrun' \in BOOLEAN /\ ~overrun'
         /\ WindowIsHistory'
         /\ hist' = Append(hist, byte)
<1> USE RingAssumption DEF TypeOK
<1> DEFINE buffer == [mBuffer EXCEPT ![mPos] = byte]
<1>1. buffer \in Buffers
  BY DEF Buffers, Index
<1>2. Prefix(buffer, mSize) \in Seq(Bytes)
  BY <1>1 DEF Prefix, Buffers, Index
<1>3. /\ mBuffer' = buffer /\ hist' = Append(hist, byte) /\ origin' = origin
      /\ overrun' = overrun
  BY DEF Store
<1>4. \/ mPos + 1 < mSize /\ mPos' = mPos + 1
      \/ mPos + 1 = mSize /\ mPos' \in {0, mSize}
  BY DEF Store
<1>5. mPos' \in 0 .. mSize
  BY <1>4
<1>6. sent' \in {sent, sent \o Prefix(buffer, mSize)}
  BY DEF Store, WriteOk, WriteFail
<1>7. sent' \in Seq(Bytes)
  <2> HIDE DEF buffer
  <2>1. sent \o Prefix(buffer, mSize) \in Seq(Bytes)
    BY <1>2, ConcatProperties
  <2> QED BY <1>6, <2>1
<1>8. failed' \in BOOLEAN
  BY DEF Store, WriteOk, WriteFail
<1>9. WindowIsHistory'
  <2> SUFFICES ASSUME NEW d \in Index
               PROVE  peekByte(d)' = IF d < Len(hist') THEN hist'[Len(hist') - d] ELSE 0
    BY DEF WindowIsHistory
  <2>1. Len(hist') = Len(hist) + 1
    BY <1>3
  <2>2. CASE d = 0
    <3>1. PeekPos(d)' = mPos
      BY <2>2, <1>4 DEF PeekPos
    <3>2. mBuffer'[mPos] = byte
      BY <1>3 DEF Buffers, Index
    <3> QED BY <2>1, <2>2, <3>1, <3>2, <1>3 DEF peekByte
  <2>3. CASE d # 0
    <3>1. d - 1 \in Index
      BY <2>3 DEF Index
    <3>2. PeekPos(d)' = PeekPos(d - 1) /\ PeekPos(d - 1) # mPos
      BY <2>3, <1>4, <3>1, SMTT(40) DEF PeekPos, Index
    <3>3. mBuffer'[PeekPos(d - 1)] = mBuffer[PeekPos(d - 1)]
      BY <1>3, <3>1, <3>2, PeekPosLemma DEF Buffers
    <3>4. peekByte(d - 1) =
            IF d - 1 < Len(hist) THEN hist[Len(hist) - (d - 1)] ELSE 0
      BY <3>1 DEF WindowIsHistory
    <3> QED BY <2>1, <2>3, <3>2, <3>3, <3>4, <1>3 DEF peekByte, Index
  <2> QED BY <2>2, <2>3
<1> QED
  BY <1>1, <1>3, <1>5, <1>7, <1>8, <1>9

\* Rotating the buffer in the middle of it keeps every byte at its distance.
LEMMA RotateLemma ==
  ASSUME TypeOK, WindowIsHistory, ~overrun, mPos < mSize,
         mBuffer' = Rotated(mBuffer, mPos), mPos' = 0, hist' = hist
  PROVE  mBuffer' \in Buffers /\ WindowIsHistory'
<1> USE RingAssumption DEF TypeOK, Index
<1>1. mBuffer' \in Buffers
  BY DEF Rotated, Buffers
<1>2. ASSUME NEW d \in Index PROVE peekByte(d)' = peekByte(d)
  BY DEF peekByte, PeekPos, Rotated
<1> QED BY <1>1, <1>2 DEF WindowIsHistory

\* Init establishes the invariant.
LEMMA InitRInv == Init => RInv
<1> SUFFICES ASSUME Init PROVE RInv
  OBVIOUS
<1>1. failed \in BOOLEAN /\ overrun \in BOOLEAN
  BY DEF Init
<1>2. TypeOK
  BY <1>1, RingAssumption DEF Init, TypeOK, Buffers, Index
<1>3. CallInv
  BY DEF Init, CallInv
<1>4. WindowIsHistory
  BY RingAssumption DEF Init, WindowIsHistory, peekByte, PeekPos, Index
<1> QED BY <1>2, <1>3, <1>4 DEF RInv

LEMMA RInvStep == RInv /\ [Next]_vars => RInv'
<1> SUFFICES ASSUME TypeOK, CallInv, WindowIsHistory, [Next]_vars PROVE RInv'
  BY DEF RInv
<1> USE RingAssumption DEF RInv, TypeOK, CallInv
<1>1. CASE putByte
  <2>1. PICK b \in Bytes : Store(b)
    BY <1>1 DEF putByte
  <2> QED BY <1>1, <2>1, StoreLemma DEF putByte, Idle, callVars
<1>2. CASE PutBytes
  <2>1. bytes' \in Seq(Bytes) /\ length' = Len(bytes') /\ length' \in Nat \ {0}
    BY <1>2 DEF PutBytes
  <2>2. WindowIsHistory'
    BY <1>2 DEF PutBytes, WindowIsHistory, peekByte, PeekPos
  <2> QED BY <1>2, <2>1, <2>2 DEF PutBytes, Idle
<1>3. CASE PutNext
  <2>1. bytes[src + 1] \in Bytes
    BY <1>3 DEF PutNext
  <2>2. Store(bytes[src + 1]) /\ mPos < mSize /\ ~overrun
    BY <1>3 DEF PutNext
  <2>3. /\ mBuffer' \in Buffers /\ mPos' \in 0 .. mSize /\ sent' \in Seq(Bytes)
        /\ failed' \in BOOLEAN /\ hist' \in Seq(Bytes) /\ origin' \in Int
        /\ overrun' \in BOOLEAN /\ ~overrun' /\ WindowIsHistory'
    BY <2>1, <2>2, StoreLemma
  <2>4. CASE CallEnds
    BY <1>3, <2>3, <2>4 DEF PutNext, Return, Index
  <2>5. CASE ~CallEnds
    BY <1>3, <2>3, <2>5 DEF PutNext, CallEnds
  <2> QED BY <2>4, <2>5
<1>4. CASE RepeatBytes
  <2>1. PICK n \in 1 .. MaxLength, dist \in Index :
          length' = n /\ offset' = dist /\ srcOff' = StartOfRepeat(dist)
    BY <1>4 DEF RepeatBytes
  <2>2. WindowIsHistory'
    BY <1>4 DEF RepeatBytes, WindowIsHistory, peekByte, PeekPos
  <2>3. PeekPos(dist)' = PeekPos(dist)
    BY <1>4 DEF RepeatBytes, PeekPos
  <2> QED BY <1>4, <2>1, <2>2, <2>3, StartLemma, PeekPosLemma DEF RepeatBytes, Idle
<1>5. CASE RepeatNext
  <2>1. mBuffer[srcOff] \in Bytes
    BY DEF Buffers
  <2>2. Store(mBuffer[srcOff]) /\ mPos < mSize /\ ~overrun
    BY <1>5 DEF RepeatNext
  <2>3. /\ mBuffer' \in Buffers /\ mPos' \in 0 .. mSize /\ sent' \in Seq(Bytes)
        /\ failed' \in BOOLEAN /\ hist' \in Seq(Bytes) /\ origin' \in Int
        /\ overrun' \in BOOLEAN /\ ~overrun' /\ WindowIsHistory'
    BY <2>1, <2>2, StoreLemma
  <2>4. CASE CallEnds
    BY <1>5, <2>3, <2>4 DEF RepeatNext, Return, Index
  <2>5. CASE ~CallEnds
    <3>1. \/ mPos + 1 < mSize /\ mPos' = mPos + 1
          \/ mPos + 1 = mSize /\ mPos' = 0
      BY <2>2, <2>5 DEF Store, CallEnds
    <3>2. srcOff = PeekPos(offset) /\ offset' = offset /\ srcOff' = NextSrc(srcOff)
      BY <1>5, <2>5 DEF RepeatNext
    <3>3. srcOff' = PeekPos(offset)' /\ srcOff' \in Index
      BY <3>1, <3>2, SMTT(40) DEF NextSrc, PeekPos, Index
    <3> QED BY <1>5, <2>3, <2>5, <3>1, <3>3 DEF RepeatNext, CallEnds
  <2> QED BY <2>4, <2>5
<1>6. CASE flush
  <2>1. sent' \in Seq(Bytes)
    <3>1. Prefix(mBuffer, mPos) \in Seq(Bytes)
      BY DEF Prefix, Buffers, Index
    <3>2. sent \o Prefix(mBuffer, mPos) \in Seq(Bytes)
      BY <3>1, ConcatProperties
    <3> QED BY <1>6, <3>2 DEF flush, WriteOk, WriteFail
  <2>2. failed' \in BOOLEAN
    BY <1>6 DEF flush, WriteOk, WriteFail
  <2>3. mBuffer' \in Buffers /\ mPos' \in 0 .. mSize /\ WindowIsHistory'
    <3>1. CASE mPos < mSize /\ mBuffer' = Rotated(mBuffer, mPos) /\ mPos' = 0
      BY <1>6, <3>1, RotateLemma DEF flush, Idle
    <3>2. CASE mPos = mSize /\ mBuffer' = mBuffer /\ mPos' = 0
      BY <1>6, <3>2 DEF flush, WindowIsHistory, peekByte, PeekPos, Index
    <3>3. CASE mBuffer' = mBuffer /\ mPos' = mPos
      BY <1>6, <3>3 DEF flush, WindowIsHistory, peekByte, PeekPos, Index
    <3> QED BY <1>6, <3>1, <3>2, <3>3 DEF flush
  <2> QED BY <1>6, <2>1, <2>2, <2>3 DEF flush, Idle, callVars
<1>7. CASE setBackingStream
  <2>1. failed' \in BOOLEAN
    BY <1>7 DEF setBackingStream
  <2> QED
    BY <1>7, <2>1 DEF setBackingStream, callVars, WindowIsHistory, peekByte, PeekPos
<1>8. CASE clear
  <2>1. failed' \in BOOLEAN
    BY <1>8 DEF clear
  <2> QED
    BY <1>8, <2>1
    DEF clear, Idle, callVars, WindowIsHistory, peekByte, PeekPos, Buffers, Index
<1>9. CASE UNCHANGED vars
  BY <1>9 DEF vars, callVars, WindowIsHistory, peekByte, PeekPos
<1>10. CASE PutBehind
  BY <1>10 DEF PutBehind, Idle, callVars, WindowIsHistory
<1> QED
  BY <1>1, <1>2, <1>3, <1>4, <1>5, <1>6, <1>7, <1>8, <1>9, <1>10 DEF Next

-----------------------------------------------------------------------------
\* The inductive invariant holds in every reachable state.
THEOREM RingInvariant == Spec => []RInv
BY InitRInv, RInvStep, PTL DEF Spec

\* Whatever was flushed, rotated or failed, and whatever streams changed, the byte d
\* back is the one put then, up to a put that stores behind the buffer.
THEOREM WindowCorrect == Spec => []WindowIsHistory
BY RingInvariant, PTL DEF RInv

\* Each byte repeatBytes() reads is the one its argument names.
LEMMA SourceLemma ==
  ASSUME RInv, op = "repeatBytes"
  PROVE  mBuffer[srcOff] = Lz!ByteBack(offset)
BY DEF RInv, TypeOK, CallInv, WindowIsHistory, peekByte, Lz!ByteBack

\* Each step of the ring buffer is a step of LzHistory, or changes nothing of it.
LEMMA LzStep == RInv /\ [Next]_vars => [Lz!Next]_(Lz!vars)
<1> SUFFICES ASSUME RInv, [Next]_vars PROVE [Lz!Next]_(Lz!vars)
  OBVIOUS
<1> USE DEF Lz!vars
<1>1. CASE putByte
  BY <1>1 DEF putByte, Idle, Store, callVars, Lz!Next, Lz!Put
<1>2. CASE PutNext
  <2>1. bytes[src + 1] \in Bytes
    BY <1>2 DEF PutNext, RInv, TypeOK, CallInv
  <2>2. hist' = Append(hist, bytes[src + 1])
    BY <1>2 DEF PutNext, Store
  <2>3. op = "putBytes" /\ op' \in {"none", "putBytes"} /\ offset' \in {0, offset}
    BY <1>2 DEF PutNext, Return
  <2>4. offset' = offset
    BY <1>2, <2>3 DEF PutNext, Return, RInv, CallInv
  <2> QED BY <2>1, <2>2, <2>3, <2>4 DEF Lz!Next, Lz!Put
<1>3. CASE RepeatBytes
  BY <1>3 DEF RepeatBytes, Idle, Index, Lz!Next, Lz!StartCopy
<1>4. CASE RepeatNext
  <2>1. hist' = Append(hist, Lz!ByteBack(offset))
    BY <1>4, SourceLemma DEF RepeatNext, Store
  <2>2. length > 0 /\ length \in Nat /\ op = "repeatBytes"
    BY <1>4 DEF RepeatNext, RInv, TypeOK, CallInv
  <2>3. CASE CallEnds
    BY <1>4, <2>1, <2>2, <2>3 DEF RepeatNext, Return, Lz!Next, Lz!CopyFails
  <2>4. CASE ~CallEnds
    BY <1>4, <2>1, <2>2, <2>4 DEF RepeatNext, CallEnds, Lz!Next, Lz!Copy
  <2> QED BY <2>3, <2>4
<1>5. CASE clear
  BY <1>5 DEF clear, Idle, callVars, Lz!Next, Lz!Clear
<1>6. CASE PutBytes \/ flush \/ setBackingStream \/ PutBehind \/ UNCHANGED vars
  BY <1>6 DEF PutBytes, PutBehind, Idle, flush, setBackingStream, vars, callVars
<1> QED BY <1>1, <1>2, <1>3, <1>4, <1>5, <1>6 DEF Next

\* The ring buffer implements the history of an LZ77 decoder, up to a put that stores
\* behind the buffer.
THEOREM ImplementsLzHistory == Spec => IsLzHistory
<1>1. Init => Lz!Init
  BY DEF Init, Lz!Init
<1> QED BY <1>1, LzStep, RingInvariant, PTL DEF Spec, IsLzHistory, Lz!Spec

-----------------------------------------------------------------------------
\* The sequence s is what h holds behind its first o elements, as far as s goes.
Follows(s, h, o) == \A i \in 1 .. Len(s) : s[i] = h[o + i]

\* StreamIsHistory without what waits in the buffer, which the window accounts for;
\* and a full buffer, which a put would overrun, only where a write to this stream
\* failed or nothing was written to it.
SentInv ==
  /\ mPos <= Len(hist)
  /\ overrun => mPos = mSize
  /\ mPos = mSize /\ ~failed => sent = <<>>
  /\ ~failed =>
       /\ origin \in Nat
       /\ Len(sent) + mPos = Len(hist) - origin
       /\ Follows(sent, hist, origin)

\* Two pieces of a history, one behind the other, are a piece of it.
LEMMA FollowsConcat ==
  ASSUME NEW s \in Seq(Bytes), NEW p \in Seq(Bytes), NEW h, NEW o \in Nat,
         Follows(s, h, o), Follows(p, h, o + Len(s))
  PROVE  Follows(s \o p, h, o)
<1>1. /\ Len(s \o p) = Len(s) + Len(p) /\ Len(s) \in Nat /\ Len(p) \in Nat
      /\ \A i \in 1 .. Len(s) + Len(p) :
           (s \o p)[i] = IF i <= Len(s) THEN s[i] ELSE p[i - Len(s)]
  BY ConcatProperties, LenProperties
<1>2. SUFFICES ASSUME NEW i \in 1 .. Len(s) + Len(p) PROVE (s \o p)[i] = h[o + i]
  BY <1>1 DEF Follows
<1>3. CASE i <= Len(s)
  BY <1>1, <1>3 DEF Follows
<1>4. CASE i > Len(s)
  <2>1. i - Len(s) \in 1 .. Len(p) /\ o + Len(s) + (i - Len(s)) = o + i
    BY <1>1, <1>4
  <2>2. p[i - Len(s)] = h[o + Len(s) + (i - Len(s))]
    BY <2>1 DEF Follows
  <2> QED BY <1>1, <1>4, <2>1, <2>2
<1> QED BY <1>1, <1>3, <1>4

\* A piece of a history stays one when the history grows.
LEMMA FollowsAppend ==
  ASSUME NEW s \in Seq(Bytes), NEW h \in Seq(Bytes), NEW byte, NEW o \in Nat,
         Follows(s, h, o), o + Len(s) <= Len(h)
  PROVE  Follows(s, Append(h, byte), o)
<1>1. Len(s) \in Nat /\ Len(h) \in Nat
  BY LenProperties
<1>2. SUFFICES ASSUME NEW i \in 1 .. Len(s) PROVE s[i] = Append(h, byte)[o + i]
  BY DEF Follows
<1>3. o + i \in 1 .. Len(h)
  BY <1>1
<1>4. Append(h, byte)[o + i] = h[o + i]
  BY <1>3
<1> QED BY <1>4 DEF Follows

\* The bytes in front of mPos are the last ones put.
LEMMA TailLemma ==
  ASSUME TypeOK, WindowIsHistory, ~overrun, mPos <= Len(hist)
  PROVE  /\ Prefix(mBuffer, mPos) \in Seq(Bytes) /\ Len(Prefix(mBuffer, mPos)) = mPos
         /\ Follows(Prefix(mBuffer, mPos), hist, Len(hist) - mPos)
<1> USE RingAssumption DEF TypeOK
<1>1. Prefix(mBuffer, mPos) \in Seq(Bytes) /\ Len(Prefix(mBuffer, mPos)) = mPos
  BY DEF Prefix, Buffers, Index
<1>2. ASSUME NEW i \in 1 .. mPos
      PROVE  Prefix(mBuffer, mPos)[i] = hist[Len(hist) - mPos + i]
  <2>1. mPos - i \in Index /\ PeekPos(mPos - i) = i - 1
    BY DEF Index, PeekPos
  <2>2. Prefix(mBuffer, mPos)[i] = mBuffer[i - 1]
    BY DEF Prefix
  <2>3. Len(hist) \in Nat /\ Len(hist) - (mPos - i) = Len(hist) - mPos + i
    BY LenProperties
  <2>4. mBuffer[i - 1] = hist[Len(hist) - (mPos - i)]
    BY <2>1, <2>3 DEF WindowIsHistory, peekByte
  <2> QED BY <2>2, <2>3, <2>4
<1> QED BY <1>1, <1>2 DEF Follows

\* A flush that succeeds sends the rest of the history.
LEMMA FlushLemma ==
  ASSUME TypeOK, WindowIsHistory, SentInv, ~overrun, ~failed
  PROVE  /\ sent \o Prefix(mBuffer, mPos) \in Seq(Bytes)
         /\ Len(sent \o Prefix(mBuffer, mPos)) = Len(hist) - origin
         /\ Follows(sent \o Prefix(mBuffer, mPos), hist, origin)
<1> DEFINE p == Prefix(mBuffer, mPos)
<1>1. /\ p \in Seq(Bytes) /\ Len(p) = mPos
      /\ Follows(p, hist, Len(hist) - mPos)
  BY TailLemma DEF SentInv
<1> HIDE DEF p
<1>2. /\ origin \in Nat /\ Len(sent) + mPos = Len(hist) - origin
      /\ Follows(sent, hist, origin) /\ sent \in Seq(Bytes)
  BY DEF SentInv, TypeOK
<1>3. Len(hist) \in Nat /\ Len(sent) \in Nat /\ mPos \in Nat
  BY RingAssumption, LenProperties DEF TypeOK
<1>4. Len(hist) - mPos = origin + Len(sent)
  BY <1>2, <1>3
<1>5. Follows(sent \o p, hist, origin)
  BY <1>1, <1>2, <1>4, FollowsConcat
<1>6. sent \o p \in Seq(Bytes) /\ Len(sent \o p) = Len(sent) + Len(p)
  BY <1>1, <1>2, ConcatProperties
<1> QED BY <1>1, <1>2, <1>5, <1>6 DEF p

LEMMA SentStore ==
  ASSUME TypeOK, WindowIsHistory, SentInv, ~overrun, mPos < mSize,
         NEW byte \in Bytes, Store(byte)
  PROVE  SentInv'
<1> DEFINE buffer == [mBuffer EXCEPT ![mPos] = byte]
           q == Prefix(mBuffer, mPos)
           p == Prefix(buffer, mSize)
<1> USE RingAssumption
<1>1. /\ hist' = Append(hist, byte) /\ origin' = origin
      /\ Len(hist') = Len(hist) + 1 /\ hist' \in Seq(Bytes)
      /\ hist'[Len(hist) + 1] = byte
  BY DEF Store, TypeOK
<1>2. Len(hist) \in Nat /\ Len(sent) \in Nat /\ mPos \in Nat /\ sent \in Seq(Bytes)
      /\ hist \in Seq(Bytes) /\ mPos <= Len(hist)
  BY LenProperties DEF TypeOK, SentInv
<1>3. /\ mPos' \in {0, mPos + 1} /\ ~overrun'
      /\ mPos' = mSize => failed'
  BY <1>2 DEF Store, TypeOK, WriteFail
<1>4. mPos' <= Len(hist')
  BY <1>1, <1>2, <1>3
<1>5. CASE failed'
  BY <1>3, <1>4, <1>5 DEF SentInv
<1>6. CASE ~failed'
  <2>1. ~failed
    BY <1>6 DEF Store, WriteOk, WriteFail
  <2>2. /\ origin \in Nat /\ Len(sent) + mPos = Len(hist) - origin
        /\ Follows(sent, hist, origin)
    BY <2>1 DEF SentInv
  <2>3. Follows(sent, hist', origin)
    <3>1. origin + Len(sent) <= Len(hist)
      BY <1>2, <2>2
    <3> QED BY <1>1, <1>2, <2>2, <3>1, FollowsAppend
  <2>4. CASE mPos' = mPos + 1 /\ sent' = sent
    <3>1. Len(sent') + mPos' = Len(hist') - origin'
      <4>1. Len(sent') = Len(sent) /\ Len(hist') = Len(hist) + 1 /\ origin' = origin
        BY <1>1, <2>4
      <4>2. Len(sent) + mPos = Len(hist) - origin /\ origin \in Int
        BY <2>2
      <4> QED BY ONLY <4>1, <4>2, <1>2, <2>4
    <3> QED BY <1>1, <1>3, <1>4, <1>6, <2>2, <2>3, <2>4, <3>1 DEF SentInv
  <2>5. CASE mPos' = 0 /\ sent' = sent \o p /\ mPos + 1 = mSize
    <3>1. /\ q \in Seq(Bytes) /\ Len(q) = mPos
          /\ Follows(q, hist, Len(hist) - mPos)
      BY <1>2, TailLemma
    <3>2. p \in Seq(Bytes) /\ Len(p) = mSize
      BY DEF Prefix, Buffers, Index, TypeOK
    <3>3. \A i \in 1 .. mPos : p[i] = q[i]
      BY <1>2, <2>5 DEF Prefix, Buffers, Index, TypeOK
    <3>4. p[mSize] = byte
      BY <1>2, <2>5 DEF Prefix, Buffers, Index, TypeOK
    <3> HIDE DEF p, q
    <3>5. Follows(p, hist', origin + Len(sent))
      <4>1. origin + Len(sent) = Len(hist) - mPos
        BY <1>2, <2>2
      <4>2. SUFFICES ASSUME NEW i \in 1 .. mSize
                     PROVE  p[i] = hist'[Len(hist) - mPos + i]
        BY <3>2, <4>1 DEF Follows
      <4>3. CASE i = mSize
        <5>1. Len(hist) - mPos + mSize = Len(hist) + 1
          <6>1. mPos + 1 = mSize /\ mPos \in Int /\ Len(hist) \in Int
            BY <1>2, <2>5
          <6> QED BY ONLY <6>1
        <5> QED BY <1>1, <3>4, <4>3, <5>1
      <4>4. CASE i # mSize
        <5>1. i \in 1 .. mPos /\ Len(hist) - mPos + i \in 1 .. Len(hist)
          BY <1>2, <2>5, <4>4
        <5>2. q[i] = hist[Len(hist) - mPos + i]
          BY <3>1, <5>1 DEF Follows
        <5>3. hist'[Len(hist) - mPos + i] = hist[Len(hist) - mPos + i]
          BY <1>1, <1>2, <5>1
        <5> QED BY <3>3, <5>1, <5>2, <5>3
      <4> QED BY <4>3, <4>4
    <3>6. Follows(sent', hist', origin')
      BY <1>1, <1>2, <2>2, <2>3, <2>5, <3>2, <3>5, FollowsConcat
    <3>7. Len(sent') = Len(sent) + mSize
      <4>1. Len(sent \o p) = Len(sent) + Len(p)
        BY <1>2, <3>2, ConcatProperties
      <4> QED BY <2>5, <3>2, <4>1
    <3>8. Len(sent') + mPos' = Len(hist') - origin'
      BY <1>1, <1>2, <2>2, <2>5, <3>7
    <3> QED BY <1>1, <1>3, <1>4, <1>6, <2>2, <3>6, <3>8 DEF SentInv
  <2>6. \/ mPos' = mPos + 1 /\ sent' = sent
        \/ mPos' = 0 /\ sent' = sent \o p /\ mPos + 1 = mSize
    BY <1>6, <2>1 DEF Store, WriteOk, WriteFail
  <2> QED BY <2>4, <2>5, <2>6
<1> QED BY <1>5, <1>6

LEMMA SentFlush ==
  ASSUME TypeOK, WindowIsHistory, SentInv, flush
  PROVE  SentInv'
<1>1. /\ hist' = hist /\ origin' = origin /\ mPos' \in {0, mPos}
      /\ mPos' <= Len(hist) /\ ~overrun /\ ~overrun' /\ mSize > 0
  BY RingAssumption, LenProperties DEF flush, Idle, SentInv, TypeOK
<1>2. CASE failed'
  BY <1>1, <1>2 DEF SentInv
<1>3. CASE ~failed'
  <2>1. ~failed /\ sent' = sent \o Prefix(mBuffer, mPos) /\ mPos' = 0
    BY <1>3 DEF flush, WriteOk, WriteFail
  <2>2. /\ sent' \in Seq(Bytes)
        /\ Len(sent') = Len(hist') - origin'
        /\ Follows(sent', hist', origin')
    BY <1>1, <2>1, FlushLemma
  <2>3. Len(sent') + mPos' = Len(hist') - origin'
    BY <2>1, <2>2, LenProperties
  <2> QED BY <1>1, <2>1, <2>2, <2>3 DEF SentInv
<1> QED BY <1>2, <1>3

LEMMA SentStep == RInv /\ SentInv /\ [Next]_vars => SentInv'
<1> SUFFICES ASSUME TypeOK, CallInv, WindowIsHistory, SentInv, [Next]_vars
             PROVE  SentInv'
  BY DEF RInv
<1>1. CASE putByte
  BY <1>1, SentStore DEF putByte, Idle
<1>2. CASE PutNext
  BY <1>2, SentStore DEF PutNext, TypeOK, CallInv
<1>3. CASE RepeatNext
  BY <1>3, SentStore DEF RepeatNext, TypeOK, CallInv, Buffers
<1>4. CASE flush
  BY <1>4, SentFlush
<1>5. CASE setBackingStream
  <2>1. Len(hist) \in Nat /\ mPos \in Nat /\ mPos <= Len(hist)
    BY RingAssumption, LenProperties DEF TypeOK, SentInv
  <2> QED BY <1>5, <2>1 DEF setBackingStream, Idle, SentInv, Follows
<1>6. CASE clear
  BY <1>6 DEF clear, Idle, SentInv, Follows
<1>7. CASE PutBytes \/ RepeatBytes \/ PutBehind \/ UNCHANGED vars
  BY <1>7 DEF PutBytes, RepeatBytes, PutBehind, vars, SentInv
<1> QED BY <1>1, <1>2, <1>3, <1>4, <1>5, <1>6, <1>7 DEF Next

\* Position by position, the two sides of StreamIsHistory agree.
LEMMA SentIsStream == RInv /\ SentInv => StreamIsHistory
<1> SUFFICES ASSUME TypeOK, WindowIsHistory, SentInv, ~overrun, ~failed
             PROVE  sent \o Prefix(mBuffer, mPos) = SubSeq(hist, origin + 1, Len(hist))
  BY DEF RInv, StreamIsHistory
<1> DEFINE s == sent \o Prefix(mBuffer, mPos)
           t == SubSeq(hist, origin + 1, Len(hist))
<1>1. s \in Seq(Bytes) /\ Len(s) = Len(hist) - origin /\ Follows(s, hist, origin)
  BY FlushLemma
<1>2. /\ origin \in Nat /\ Len(hist) \in Nat /\ hist \in Seq(Bytes)
      /\ Len(sent) + mPos = Len(hist) - origin
      /\ Len(sent) \in Nat /\ mPos \in Nat
  BY RingAssumption, LenProperties DEF SentInv, TypeOK
<1>3. /\ t \in Seq(Bytes) /\ Len(t) = Len(hist) - origin
      /\ \A i \in 1 .. Len(t) : t[i] = hist[origin + i]
  <2> DEFINE m == origin + 1
             n == Len(hist)
  <2>1. m \in Int /\ n \in Int /\ (m <= n \/ n - m + 1 = 0)
        /\ n - m + 1 = Len(hist) - origin
    BY <1>2
  <2>2. \A i \in m .. n : hist[i] \in Bytes
    BY <1>2, ElementOfSeq
  <2> HIDE DEF m, n
  <2>3. /\ SubSeq(hist, m, n) \in Seq(Bytes)
        /\ Len(SubSeq(hist, m, n)) = IF m <= n THEN n - m + 1 ELSE 0
        /\ \A i \in 1 .. n - m + 1 : SubSeq(hist, m, n)[i] = hist[m + i - 1]
    BY <2>1, <2>2, SubSeqProperties
  <2>4. Len(SubSeq(hist, m, n)) = Len(hist) - origin
    BY <2>1, <2>3
  <2>5. \A i \in 1 .. n - m + 1 : m + i - 1 = origin + i
    BY <1>2, <2>1 DEF m, n
  <2> QED BY <2>1, <2>3, <2>4, <2>5 DEF m, n
<1> HIDE DEF s, t
<1>4. s = t
  BY <1>1, <1>3, SeqEqual DEF Follows
<1> QED BY <1>4 DEF s, t

LEMMA SentInvariant == Spec => []SentInv
<1>1. Init => SentInv
  BY DEF Init, SentInv, Follows
<1> QED BY <1>1, SentStep, RingInvariant, PTL DEF Spec

\* Until a write fails, or a put stores behind the buffer, the backing stream gets
\* what was put, in order, complete but for what waits in the buffer.
THEOREM StreamCorrect == Spec => []StreamIsHistory
BY SentInvariant, SentIsStream, RingInvariant, PTL

\* A put stores behind the buffer only when a write to this stream failed, or when it
\* is the first one to a stream that took over a full buffer.
THEOREM OverrunsOnlyInherited == Spec => []OverrunIsInherited
<1>1. RInv /\ SentInv => OverrunIsInherited
  <2> SUFFICES ASSUME RInv, SentInv, overrun, ~failed
               PROVE  sent = <<>> /\ Len(hist) - origin = mSize
    BY DEF OverrunIsInherited
  <2>1. /\ mPos = mSize /\ sent = <<>> /\ Len(sent) + mPos = Len(hist) - origin
        /\ mSize \in Nat
    BY RingAssumption DEF SentInv
  <2> QED BY <2>1
<1> QED BY <1>1, SentInvariant, RingInvariant, PTL

=============================================================================
