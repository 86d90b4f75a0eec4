--------------------------- MODULE HeaderBits_proofs ---------------------------
(***************************************************************************)
(* Proofs about the readers and writers of bits (BitIo), for every size of *)
(* their buffers, every stream and all the numbers of bits that may be     *)
(* asked for or written; about the code lengths of a block, as they are    *)
(* read (DeflateTables) and written (LevelTableCode), for every size of    *)
(* the tables and every bound of the repetitions; and about the whole of   *)
(* HeaderBits, from these.  What a sequence of runs stands for is defined  *)
(* by recursion, and what is proved of it follows from the least number    *)
(* for which it would not hold.                                            *)
(***************************************************************************)
EXTENDS HeaderBits, SequenceTheorems, FiniteSetTheorems, WellFoundedInduction, TLAPS

-----------------------------------------------------------------------------
(* BitReaderLE *)

\* The bytes behind the current one, and the bits, that a reader has in its buffer.
Kept(r) == r.valid - r.pos
BitsIn(r) == 8 * Kept(r) + r.bitPos

\* The indices of a reader are within the buffer.
GoodIndices(r) ==
  /\ r.valid \in Index /\ r.pos \in 0 .. r.valid /\ r.bitPos \in 0 .. 8
  /\ r.taken \in 0 .. size

\* Every byte with valid bits is the one of the stream that belongs there.
GoodBytes(r) ==
  /\ r.buffer \in [Index -> Nat]
  /\ \A j \in 0 .. Kept(r) :
       j > 0 \/ r.bitPos > 0 => r.buffer[r.pos + j] = r.taken - Kept(r) + j

Good(r) == GoodIndices(r) /\ GoodBytes(r) /\ BitsIn(r) = 8 * r.taken - consumed

\* A value that was not gathered whole ends behind the stream.
PeekedIsRead == Buffered < peeked => taken = size

BitsInv == TypeOK /\ Good(Here) /\ PeekTellsTheStream /\ PeekedIsRead

Countable == {n \in 1 .. 25 : n + 15 <= 8 * BufferSize}

LEMMA CountsCountable == Counts \subseteq Countable /\ 8 \in Countable
BY BitsAssumption DEF Countable

-----------------------------------------------------------------------------
\* (nrBits - bitPos + 7) / 8 rounds up, and is never negative.
LEMMA BytesForLemma ==
  ASSUME NEW n \in 1 .. 25, NEW b \in 0 .. 8
  PROVE  /\ BytesFor(n, b) \in Nat
         /\ 8 * BytesFor(n, b) >= n - b
         /\ 8 * BytesFor(n, b) <= n - b + 7
BY DEF BytesFor

\* What a refill does to the indices: at least the bits asked for are in the buffer
\* afterwards, or the stream has ended.
LEMMA RefillIndices ==
  ASSUME BitsInv, NEW n \in Countable, needRefill(n),
         NEW read \in Readable(BytesFor(n, mBitPos) - (mValid - mPos), BufferSize - FirstFree)
  PROVE  /\ GoodIndices(refill(read))
         /\ BitsIn(refill(read)) = 8 * (taken + read) - consumed
         /\ BitsIn(refill(read)) < n => taken + read = size
<1> DEFINE r == refill(read)
           kept == mValid - mPos
           k == BytesFor(n, mBitPos)
<1>1. /\ mValid \in Nat /\ mPos \in Nat /\ mPos <= mValid /\ mBitPos \in 0 .. 8
      /\ mValid < BufferSize /\ BufferSize \in Nat /\ kept \in Nat
      /\ size \in Nat /\ taken \in Nat /\ taken <= size /\ consumed \in Nat
  BY BitsAssumption DEF BitsInv, TypeOK, Index
<1>2. 8 * kept + mBitPos = 8 * taken - consumed
  BY DEF BitsInv, Good, BitsIn, Kept, Here
<1>3. k \in Nat /\ 8 * k >= n - mBitPos /\ n \in 1 .. 25
  BY <1>1, BytesForLemma DEF Countable
<1>4. FirstFree = IF kept > 0 \/ mBitPos > 0 THEN kept + 1 ELSE 0
  BY DEF FirstFree
<1>5. /\ read \in Nat /\ read <= BufferSize - FirstFree /\ read <= size - taken
      /\ read < k - kept => read = size - taken
  BY <1>1, <1>3, <1>4 DEF Readable
<1> HIDE DEF k
<1>6. CASE read > 0 /\ FirstFree = 0
  <2>1. kept = 0 /\ mBitPos = 0
    BY <1>1, <1>4, <1>6
  <2>2. r.valid = read - 1 /\ r.pos = 0 /\ r.bitPos = 8 /\ r.taken = taken + read
    BY <1>6, <2>1, <1>1, <1>5 DEF refill
  <2> HIDE DEF r
  <2> QED BY <1>1, <1>2, <1>3, <1>5, <1>6, <2>1, <2>2 DEF GoodIndices, BitsIn, Kept, Index, r
<1>7. CASE ~(read > 0 /\ FirstFree = 0)
  <2>1. r.valid = kept + read /\ r.pos = 0 /\ r.bitPos = mBitPos /\ r.taken = taken + read
    BY <1>7, <1>1, <1>5 DEF refill
  <2>2. kept + read < BufferSize
    BY <1>1, <1>4, <1>5, <1>7
  <2> HIDE DEF r
  <2> QED BY <1>1, <1>2, <1>3, <1>5, <2>1, <2>2 DEF GoodIndices, BitsIn, Kept, Index, r
<1> QED BY <1>6, <1>7

\* What a refill does to the bytes: those kept move to the front, those read follow.
LEMMA RefillBytes ==
  ASSUME BitsInv, NEW n \in Countable, needRefill(n),
         NEW read \in Readable(BytesFor(n, mBitPos) - (mValid - mPos), BufferSize - FirstFree)
  PROVE  GoodBytes(refill(read))
<1> DEFINE r == refill(read)
           kept == mValid - mPos
<1>1. /\ mValid \in Nat /\ mPos \in Nat /\ mPos <= mValid /\ mBitPos \in 0 .. 8
      /\ mValid < BufferSize /\ BufferSize \in Nat /\ kept \in Nat
      /\ taken \in Nat /\ mBuffer \in [Index -> Nat]
  BY BitsAssumption DEF BitsInv, TypeOK, Index
<1>2. FirstFree = IF kept > 0 \/ mBitPos > 0 THEN kept + 1 ELSE 0
  BY DEF FirstFree
<1>3. read \in Nat /\ read <= BufferSize - FirstFree
  BY <1>1, <1>2, BytesForLemma DEF Readable, Countable
<1>4. \A j \in 0 .. kept : j > 0 \/ mBitPos > 0 => mBuffer[mPos + j] = taken - kept + j
  BY DEF BitsInv, Good, GoodBytes, Here, Kept
<1>5. r.buffer = Refilled(read) /\ r.pos = 0 /\ r.taken = taken + read
  BY DEF refill
<1>6. r.buffer \in [Index -> Nat]
  <2>1. ASSUME NEW h \in Index, FirstFree <= h
        PROVE  taken + 1 + h - FirstFree \in Nat
    BY <1>1, <1>2, <2>1 DEF Index
  <2>2. ASSUME NEW h \in Index, h <= kept
        PROVE  mPos + h \in Index
    BY <1>1, <2>2 DEF Index
  <2> QED BY <1>1, <1>5, <2>1, <2>2 DEF Refilled
<1>7. ASSUME NEW j \in 0 .. Kept(r), j > 0 \/ r.bitPos > 0
      PROVE  r.buffer[r.pos + j] = r.taken - Kept(r) + j
  <2>1. CASE read > 0 /\ FirstFree = 0
    <3>1. kept = 0 /\ mBitPos = 0
      BY <1>1, <1>2, <2>1
    <3>2. r.valid = read - 1
      BY <1>1, <1>3, <2>1, <3>1 DEF refill
    <3>3. j \in Nat /\ j < read /\ j \in Index
      BY <1>3, <1>5, <1>7, <2>1, <3>2, <1>1 DEF Kept, Index
    <3>4. r.buffer[j] = taken + 1 + j
      BY <1>1, <1>3, <1>5, <2>1, <3>3 DEF Refilled
    <3> HIDE DEF r
    <3> QED BY <1>1, <1>3, <1>5, <3>2, <3>3, <3>4 DEF Kept
  <2>2. CASE ~(read > 0 /\ FirstFree = 0)
    <3>1. r.valid = kept + read /\ r.bitPos = mBitPos
      BY <1>1, <1>3, <2>2 DEF refill
    <3>2. j \in Nat /\ j <= kept + read
      BY <1>1, <1>3, <1>5, <1>7, <3>1 DEF Kept
    <3>3. kept + read < BufferSize
      BY <1>1, <1>2, <1>3, <2>2
    <3>4. j \in Index
      BY <1>1, <1>3, <3>2, <3>3 DEF Index
    <3>5. r.buffer[j] = taken - kept + j
      <4>1. CASE j <= kept
        <5>1. mBitPos > 0 \/ j > 0
          BY <1>7, <3>1
        <5>2. FirstFree = kept + 1
          BY <1>1, <1>2, <3>2, <4>1, <5>1
        <5>3. r.buffer[j] = mBuffer[mPos + j]
          BY <1>1, <1>3, <1>5, <3>2, <3>4, <4>1, <5>2 DEF Refilled
        <5> QED BY <1>4, <3>2, <4>1, <5>1, <5>3
      <4>2. CASE j > kept
        <5>1. FirstFree = kept + 1
          BY <1>1, <1>2, <1>3, <2>2, <3>2, <4>2
        <5>2. r.buffer[j] = taken + 1 + j - FirstFree
          BY <1>1, <1>3, <1>5, <3>2, <3>4, <4>2, <5>1 DEF Refilled
        <5> QED BY <1>1, <3>2, <5>1, <5>2
      <4> QED BY <1>1, <3>2, <4>1, <4>2
    <3> HIDE DEF r
    <3> QED BY <1>1, <1>3, <1>5, <3>1, <3>2, <3>5 DEF Kept
  <2> QED BY <2>1, <2>2
<1> QED BY <1>6, <1>7 DEF GoodBytes

\* Every reader that bits are gathered from is a good one that has them all, or all
\* the bits the stream still has.
LEMMA ReadyIsGood ==
  ASSUME BitsInv, NEW n \in Countable, NEW r \in Ready(n)
  PROVE  Good(r) /\ (BitsIn(r) < n => r.taken = size)
<1>1. CASE needRefill(n)
  <2>1. PICK read \in Readable(BytesFor(n, mBitPos) - (mValid - mPos), BufferSize - FirstFree) :
               r = refill(read)
    BY <1>1 DEF Ready
  <2>2. r.taken = taken + read
    BY <2>1 DEF refill
  <2> QED BY <1>1, <2>1, <2>2, RefillIndices, RefillBytes DEF Good
<1>2. CASE ~needRefill(n)
  <2>1. r = Here
    BY <1>2 DEF Ready
  <2>2. ~(BitsIn(r) < n)
    BY <1>2, <2>1 DEF needRefill, Buffered, BitsIn, Kept, Here
  <2> QED BY <2>1, <2>2 DEF BitsInv
<1> QED BY <1>1, <1>2

\* A gathered bit is the next one of the stream, or padding behind its end.
LEMMA BitLemma ==
  ASSUME BitsInv, NEW n \in Countable, NEW r \in Ready(n), NEW h \in 1 .. n
  PROVE  BitOf(r, h) = IF consumed + h <= 8 * size THEN consumed + h ELSE Pad
<1> DEFINE k == BytesFor(h, r.bitPos)
<1>1. /\ r.valid \in Nat /\ r.pos \in Nat /\ r.pos <= r.valid /\ r.bitPos \in 0 .. 8
      /\ r.taken \in Nat /\ r.taken <= size /\ size \in Nat /\ consumed \in Nat
      /\ Kept(r) = r.valid - r.pos
  BY ReadyIsGood, BitsAssumption, SMTT(40) DEF Good, GoodIndices, Index, Kept, BitsInv, TypeOK
<1>2. 8 * Kept(r) + r.bitPos = 8 * r.taken - consumed
  BY ReadyIsGood DEF Good, BitsIn
<1>3. 8 * Kept(r) + r.bitPos < n => r.taken = size
  BY ReadyIsGood DEF BitsIn
<1>4. h \in Nat /\ n \in Nat /\ 1 <= h /\ h <= n /\ h \in 1 .. 25
  BY DEF Countable
<1>5. k \in Nat /\ 8 * k >= h - r.bitPos /\ 8 * k <= h - r.bitPos + 7
  BY <1>1, <1>4, BytesForLemma
<1>6. BitOf(r, h) = IF r.pos + k > r.valid THEN Pad
                    ELSE IF r.buffer[r.pos + k] = 0 THEN Foreign
                    ELSE 8 * (r.buffer[r.pos + k] - 1) + 8 + h - r.bitPos - 8 * k
  BY DEF BitOf
<1> HIDE DEF k
<1>7. CASE r.pos + k > r.valid
  <2>1. 8 * Kept(r) + r.bitPos < h
    BY <1>1, <1>4, <1>5, <1>7
  <2>2. r.taken = size
    BY <1>1, <1>3, <1>4, <2>1
  <2> QED BY <1>1, <1>2, <1>4, <1>6, <1>7, <2>1, <2>2
<1>8. CASE ~(r.pos + k > r.valid)
  <2>1. k <= Kept(r) /\ k \in 0 .. Kept(r)
    BY <1>1, <1>5, <1>8
  <2>2. k > 0 \/ r.bitPos > 0
    BY <1>1, <1>4, <1>5
  <2>3. r.buffer[r.pos + k] = r.taken - Kept(r) + k
    BY <2>1, <2>2, ReadyIsGood DEF Good, GoodBytes
  <2>4. r.taken - Kept(r) + k > 0
    BY <1>1, <1>2, <1>5, <2>1, <2>2
  <2>5. h <= 8 * Kept(r) + r.bitPos
    BY <1>1, <1>4, <1>5, <2>1
  <2>6. BitOf(r, h) = 8 * (r.taken - Kept(r) + k - 1) + 8 + h - r.bitPos - 8 * k
    BY <1>1, <1>5, <1>6, <1>8, <2>3, <2>4
  <2>7. Kept(r) \in Nat
    BY <1>1
  <2>8. BitOf(r, h) = consumed + h
    BY <1>1, <1>2, <1>4, <1>5, <2>6, <2>7
  <2>9. consumed + h <= 8 * size
    BY <1>1, <1>2, <1>4, <2>5, <2>7
  <2> QED BY <2>8, <2>9
<1> QED BY <1>7, <1>8

-----------------------------------------------------------------------------
\* BitsInv is inductive: one lemma per operation.
LEMMA InitBits == Init => BitsInv
<1> SUFFICES ASSUME Init PROVE BitsInv
  OBVIOUS
<1> USE BitsAssumption
<1>1. TypeOK
  BY DEF Init, TypeOK, Index, Empty
<1>2. Good(Here)
  BY <1>1 DEF Init, TypeOK, Good, GoodIndices, GoodBytes, BitsIn, Kept, Here
<1> QED BY <1>1, <1>2 DEF BitsInv, Init, PeekTellsTheStream, PeekedIsRead, Buffered

LEMMA SetBackingStreamBits == BitsInv /\ setBackingStream => BitsInv'
<1> SUFFICES ASSUME setBackingStream PROVE BitsInv'
  OBVIOUS
<1> USE BitsAssumption
<1>1. TypeOK'
  BY DEF setBackingStream, TypeOK, Index, Empty
<1>2. Good(Here)'
  BY <1>1 DEF setBackingStream, TypeOK, Good, GoodIndices, GoodBytes, BitsIn, Kept, Here
<1> QED BY <1>1, <1>2 DEF BitsInv, setBackingStream, PeekTellsTheStream, PeekedIsRead, Buffered

\* A good reader that becomes the state satisfies what the invariant says of it.
LEMMA BecomeLemma ==
  ASSUME BitsInv, NEW r, Become(r), size' = size
  PROVE  /\ GoodIndices(r) => /\ mValid' \in Index /\ mPos' \in 0 .. mValid'
                              /\ mBitPos' \in 0 .. 8 /\ taken' \in 0 .. size'
         /\ GoodBytes(r) => mBuffer' \in [Index -> Nat]
         /\ GoodIndices(r) /\ GoodBytes(r) /\ BitsIn(r) = 8 * r.taken - consumed'
              => Good(Here)'
         /\ Buffered' = BitsIn(r)
BY DEF Become, Good, GoodIndices, GoodBytes, BitsIn, Kept, Here, Buffered

LEMMA PeekBits ==
  ASSUME BitsInv, NEW n \in Counts, peekBits(n)
  PROVE  BitsInv'
<1>1. PICK r \in Ready(n) : Become(r) /\ value' = [h \in 1 .. n |-> BitOf(r, h)]
  BY DEF peekBits
<1>2. n \in Countable
  BY CountsCountable
<1>3. Good(r) /\ (BitsIn(r) < n => r.taken = size)
  BY <1>2, ReadyIsGood
<1>4. \A h \in 1 .. n : BitOf(r, h) = IF consumed + h <= 8 * size THEN consumed + h ELSE Pad
  BY <1>2, BitLemma
<1>5. peeked' = n /\ UNCHANGED <<size, consumed, error, wanted>>
  BY DEF peekBits
<1>6. Good(Here)' /\ Buffered' = BitsIn(r) /\ taken' = r.taken
  BY <1>1, <1>3, <1>5, BecomeLemma DEF Good, Become
<1>7. value' \in [1 .. n -> Int]
  <2>1. \A h \in 1 .. n : BitOf(r, h) \in Int
    BY <1>2, <1>4 DEF BitsInv, TypeOK, Pad, Countable
  <2> QED BY <1>1, <2>1
<1>8. TypeOK'
  <2>1. /\ mBuffer' \in [Index -> Nat] /\ mValid' \in Index /\ mPos' \in 0 .. mValid'
        /\ mBitPos' \in 0 .. 8 /\ taken' \in 0 .. size'
    BY <1>1, <1>3, <1>5, BecomeLemma DEF Good
  <2> QED BY <1>2, <1>5, <1>7, <2>1 DEF BitsInv, TypeOK, Countable
<1>9. PeekTellsTheStream'
  BY <1>1, <1>4, <1>5 DEF PeekTellsTheStream
<1>10. PeekedIsRead'
  BY <1>3, <1>5, <1>6 DEF PeekedIsRead
<1> QED BY <1>6, <1>8, <1>9, <1>10 DEF BitsInv

LEMMA ReadFailsBits ==
  ASSUME BitsInv, NEW n \in Counts, ReadFails(n)
  PROVE  BitsInv'
<1> USE BitsAssumption
<1>1. needRefill(n) /\ n \in Countable /\ n \in Nat
  BY CountsCountable DEF ReadFails, Countable
<1>2. /\ mBuffer' = Refilled(0) /\ mValid' = mValid - mPos /\ mPos' = 0
      /\ error' = "read" /\ wanted' = n
      /\ UNCHANGED <<mBitPos, taken, size, consumed, peeked, value>>
  BY DEF ReadFails
<1>3. /\ mValid \in Nat /\ mPos \in Nat /\ mPos <= mValid /\ mValid < BufferSize
      /\ mBitPos \in 0 .. 8 /\ mBuffer \in [Index -> Nat] /\ taken \in Nat
  BY DEF BitsInv, TypeOK, Index
<1>4. \A h \in Index : h <= mValid - mPos =>
        mPos + h \in Index /\ (h > 0 \/ mBitPos > 0 => Refilled(0)[h] = mBuffer[mPos + h])
  BY <1>3 DEF Refilled, FirstFree, Index
<1>5. Refilled(0) \in [Index -> Nat]
  <2>1. ASSUME NEW h \in Index
        PROVE  Refilled(0)[h] \in Nat
    <3>1. ~(FirstFree <= h /\ h < FirstFree + 0)
      BY <1>3 DEF FirstFree, Index
    <3>2. Refilled(0)[h] = IF h <= mValid - mPos THEN mBuffer[mPos + h] ELSE mBuffer[h]
      BY <3>1 DEF Refilled
    <3> QED BY <1>3, <1>4, <3>2
  <2> QED BY <2>1 DEF Refilled
<1>6. TypeOK'
  <2>1. mValid' \in Index /\ mPos' \in 0 .. mValid'
    BY <1>2, <1>3 DEF Index
  <2> QED BY <1>1, <1>2, <1>5, <2>1 DEF BitsInv, TypeOK
<1>7. Good(Here)'
  <2>1. \A j \in 0 .. mValid - mPos : j > 0 \/ mBitPos > 0 =>
          mBuffer[mPos + j] = taken - (mValid - mPos) + j
    BY DEF BitsInv, Good, GoodBytes, Here, Kept
  <2>2. GoodBytes(Here)'
    <3>1. ASSUME NEW j \in 0 .. mValid - mPos, j > 0 \/ mBitPos > 0
          PROVE  Refilled(0)[0 + j] = taken - (mValid - mPos - 0) + j
      <4>1. j \in Index /\ 0 + j = j /\ mValid - mPos - 0 = mValid - mPos
        BY <1>3, <3>1 DEF Index
      <4> QED BY <1>4, <2>1, <3>1, <4>1
    <3> QED BY <1>2, <1>5, <3>1 DEF GoodBytes, Here, Kept
  <2>3. GoodIndices(Here)'
    BY <1>6 DEF TypeOK, GoodIndices, Here
  <2>4. 8 * (mValid - mPos) + mBitPos = 8 * taken - consumed
    BY DEF BitsInv, Good, BitsIn, Kept, Here
  <2> QED BY <1>2, <1>3, <2>2, <2>3, <2>4 DEF Good, BitsIn, Kept, Here
<1>8. PeekTellsTheStream'
  BY <1>2 DEF BitsInv, PeekTellsTheStream
<1>9. PeekedIsRead'
  BY <1>2, <1>3 DEF BitsInv, PeekedIsRead, Buffered
<1> QED BY <1>6, <1>7, <1>8, <1>9 DEF BitsInv

LEMMA ConsumeBits ==
  ASSUME BitsInv, NEW n \in Counts, consumeBits(n)
  PROVE  BitsInv'
<1> USE BitsAssumption
<1>1. n \in 1 .. 25 /\ n \in Nat
  BY CountsCountable DEF Countable
<1>2. CASE needRefill(n)
  <2>1. error' = "truncated" /\ wanted' = n
        /\ UNCHANGED <<mPos, mBitPos, consumed, peeked, value, mBuffer, mValid, taken, size>>
    BY <1>2 DEF consumeBits
  <2> QED BY <1>1, <2>1 DEF BitsInv, TypeOK, Good, GoodIndices, GoodBytes, BitsIn, Kept, Here,
            PeekTellsTheStream, PeekedIsRead, Buffered
<1>3. CASE ~needRefill(n)
  <2> DEFINE k == BytesOver(n)
  <2>1. /\ mPos' = mPos + k /\ mBitPos' = mBitPos - n + 8 * k /\ consumed' = consumed + n
        /\ peeked' = 0 /\ value' = Empty
        /\ UNCHANGED <<error, wanted, mBuffer, mValid, taken, size>>
    BY <1>3 DEF consumeBits
  <2>2. /\ mValid \in Nat /\ mPos \in Nat /\ mPos <= mValid /\ mBitPos \in 0 .. 8
        /\ taken \in Nat /\ consumed \in Nat
        /\ 8 * (mValid - mPos) + mBitPos = 8 * taken - consumed
    BY DEF BitsInv, TypeOK, Index, Good, BitsIn, Kept, Here
  <2>3. n <= 8 * (mValid - mPos) + mBitPos
    BY <1>1, <1>3, <2>2 DEF needRefill, Buffered
  <2>4. /\ k \in Nat
        /\ n <= mBitPos => k = 0
        /\ n > mBitPos => 8 * k >= n - mBitPos /\ 8 * k <= n - mBitPos + 7
    BY <1>1, <2>2, BytesForLemma DEF BytesOver
  <2> HIDE DEF k
  <2>5. mPos' \in 0 .. mValid' /\ mBitPos' \in 0 .. 8
    BY <1>1, <2>1, <2>2, <2>3, <2>4
  <2>6. TypeOK'
    BY <1>1, <2>1, <2>2, <2>5 DEF BitsInv, TypeOK, Empty
  <2>7. \A j \in 0 .. mValid - mPos : j > 0 \/ mBitPos > 0 =>
          mBuffer[mPos + j] = taken - (mValid - mPos) + j
    BY DEF BitsInv, Good, GoodBytes, Here, Kept
  <2>8. ASSUME NEW j \in 0 .. mValid' - mPos', j > 0 \/ mBitPos' > 0
        PROVE  mBuffer'[mPos' + j] = taken' - (mValid' - mPos') + j
    <3>1. k + j \in 0 .. mValid - mPos /\ (k + j > 0 \/ mBitPos > 0)
      BY <1>1, <2>1, <2>2, <2>4, <2>5, <2>8
    <3>2. mBuffer[mPos + (k + j)] = taken - (mValid - mPos) + (k + j)
      BY <2>7, <3>1
    <3>3. mPos + (k + j) = mPos + k + j
      BY <2>2, <2>4, <2>8, <3>1
    <3> QED BY <2>1, <2>2, <2>4, <2>8, <3>1, <3>2, <3>3
  <2>9. GoodIndices(Here)' /\ GoodBytes(Here)'
    BY <2>6, <2>8 DEF TypeOK, GoodIndices, GoodBytes, Here, Kept
  <2>10. BitsIn(Here)' = 8 * taken' - consumed'
    BY <1>1, <2>1, <2>2, <2>4 DEF BitsIn, Kept, Here
  <2>11. Good(Here)'
    BY <2>9, <2>10 DEF Good, Here
  <2>12. Buffered' \in Nat
    BY <2>1, <2>2, <2>5 DEF Buffered
  <2>13. PeekedIsRead' /\ PeekTellsTheStream'
    BY <2>1, <2>12 DEF PeekTellsTheStream, PeekedIsRead
  <2> QED BY <2>6, <2>11, <2>13 DEF BitsInv
<1> QED BY <1>2, <1>3

\* alignToByte() leaves a good reader that has consumed the bits up to the boundary.
LEMMA AlignLemma ==
  ASSUME BitsInv, alignToByte
  PROVE  /\ BitsInv'
         /\ error' = "none" => consumed' % 8 = 0 /\ consumed' - consumed < 8
<1> USE BitsAssumption
<1>1. PICK r \in Ready(8) :
       IF OnBoundary(r)
         THEN Become(r) /\ UNCHANGED <<consumed, error, wanted>>
         ELSE IF 8 * (r.valid - r.pos) + r.bitPos < 16 - r.bitPos
           THEN /\ Become(r)
                /\ error' = "cannotAlign" /\ wanted' = r.bitPos + 8
                /\ UNCHANGED consumed
           ELSE /\ Become([r EXCEPT !.pos = @ + 1, !.bitPos = 8])
                /\ consumed' = consumed + r.bitPos
                /\ UNCHANGED <<error, wanted>>
  BY DEF alignToByte
<1>2. peeked' = 0 /\ value' = Empty /\ UNCHANGED size
  BY DEF alignToByte
<1>3. GoodIndices(r) /\ GoodBytes(r) /\ BitsIn(r) = 8 * r.taken - consumed
  BY CountsCountable, ReadyIsGood DEF Good
<1>4. /\ r.valid \in Nat /\ r.pos \in Nat /\ r.pos <= r.valid /\ r.bitPos \in 0 .. 8
      /\ r.taken \in Nat /\ r.taken <= size /\ r.valid \in Index /\ consumed \in Nat /\ size \in Nat
      /\ 8 * (r.valid - r.pos) + r.bitPos = 8 * r.taken - consumed
  BY <1>3 DEF GoodIndices, Index, BitsIn, Kept, BitsInv, TypeOK
<1>5. ASSUME NEW q, Become(q), GoodIndices(q), GoodBytes(q),
             BitsIn(q) = 8 * q.taken - consumed', BitsIn(q) \in Nat,
             consumed' \in Nat, error' \in {"none", "truncated", "cannotAlign", "read"}, wanted' \in Nat
      PROVE  BitsInv'
  <2>1. Good(Here)' /\ Buffered' = BitsIn(q)
    BY <1>2, <1>5, BecomeLemma
  <2>2. /\ mBuffer' \in [Index -> Nat] /\ mValid' \in Index /\ mPos' \in 0 .. mValid'
        /\ mBitPos' \in 0 .. 8 /\ taken' \in 0 .. size'
    BY <1>2, <1>5, BecomeLemma
  <2>3. TypeOK'
    BY <1>2, <1>5, <2>2 DEF TypeOK, BitsInv, Empty
  <2>4. PeekTellsTheStream' /\ PeekedIsRead'
    BY <1>2, <1>5, <2>1 DEF PeekTellsTheStream, PeekedIsRead
  <2> QED BY <2>1, <2>3, <2>4 DEF BitsInv
<1>6. error \in {"none", "truncated", "cannotAlign", "read"} /\ wanted \in Nat /\ BitsIn(r) \in Nat
  <2>1. BitsIn(r) = 8 * (r.valid - r.pos) + r.bitPos
    BY DEF BitsIn, Kept
  <2>2. BitsIn(r) \in Nat
    BY <1>4, <2>1
  <2> QED BY <2>2 DEF BitsInv, TypeOK
<1>7. CASE OnBoundary(r)
  <2>1. Become(r) /\ UNCHANGED <<consumed, error, wanted>> /\ r.bitPos = 8
    BY <1>1, <1>7 DEF OnBoundary
  <2>2. BitsInv'
    BY <1>3, <1>4, <1>5, <1>6, <2>1
  <2>3. consumed' % 8 = 0
    BY <1>4, <2>1
  <2> QED BY <1>4, <2>1, <2>2, <2>3
<1>8. CASE ~OnBoundary(r) /\ 8 * (r.valid - r.pos) + r.bitPos < 16 - r.bitPos
  <2>1. Become(r) /\ error' = "cannotAlign" /\ wanted' = r.bitPos + 8 /\ UNCHANGED consumed
    BY <1>1, <1>8
  <2>2. BitsInv'
    BY <1>3, <1>4, <1>5, <1>6, <2>1
  <2> QED BY <2>1, <2>2
<1>9. CASE ~OnBoundary(r) /\ ~(8 * (r.valid - r.pos) + r.bitPos < 16 - r.bitPos)
  <2> DEFINE q == [r EXCEPT !.pos = @ + 1, !.bitPos = 8]
  <2>1. Become(q) /\ consumed' = consumed + r.bitPos /\ UNCHANGED <<error, wanted>>
    BY <1>1, <1>9
  <2>2. r.bitPos < 8 /\ r.pos + 1 <= r.valid
    BY <1>4, <1>9 DEF OnBoundary
  <2>3. /\ q.valid = r.valid /\ q.taken = r.taken /\ q.buffer = r.buffer
        /\ q.pos = r.pos + 1 /\ q.bitPos = 8
    <3>1. r = [buffer |-> r.buffer, valid |-> r.valid, pos |-> r.pos, bitPos |-> r.bitPos,
               taken |-> r.taken]
      <4>1. CASE needRefill(8)
        BY <4>1 DEF Ready, refill
      <4>2. CASE ~needRefill(8)
        BY <4>2 DEF Ready, Here
      <4> QED BY <4>1, <4>2
    <3> QED BY <3>1
  <2> HIDE DEF q
  <2>4. GoodIndices(q)
    BY <1>4, <2>2, <2>3 DEF GoodIndices
  <2>5. GoodBytes(q)
    <3>1. \A j \in 0 .. r.valid - r.pos : j > 0 \/ r.bitPos > 0 =>
            r.buffer[r.pos + j] = r.taken - (r.valid - r.pos) + j
      BY <1>3 DEF GoodBytes, Kept
    <3>2. ASSUME NEW j \in 0 .. r.valid - (r.pos + 1)
          PROVE  r.buffer[r.pos + 1 + j] = r.taken - (r.valid - (r.pos + 1)) + j
      <4>1. j + 1 \in 0 .. r.valid - r.pos /\ j + 1 > 0
        BY <1>4, <2>2, <3>2
      <4>2. r.buffer[r.pos + (j + 1)] = r.taken - (r.valid - r.pos) + (j + 1)
        BY <3>1, <4>1
      <4>3. r.pos + (j + 1) = r.pos + 1 + j
        BY <1>4, <3>2
      <4> QED BY <1>4, <3>2, <4>2, <4>3
    <3> QED BY <1>3, <2>3, <3>2 DEF GoodBytes, Kept
  <2>6. BitsIn(q) = 8 * q.taken - consumed' /\ BitsIn(q) \in Nat
    <3>1. BitsIn(q) = 8 * (r.valid - (r.pos + 1)) + 8
      BY <2>3 DEF BitsIn, Kept
    <3>2. 8 * (r.valid - (r.pos + 1)) + 8 = 8 * r.taken - (consumed + r.bitPos)
      BY <1>4
    <3>3. 8 * (r.valid - (r.pos + 1)) + 8 \in Nat
      BY <1>4, <2>2
    <3>4. 8 * q.taken - consumed' = 8 * r.taken - (consumed + r.bitPos)
      BY <2>1, <2>3
    <3> QED BY <3>1, <3>2, <3>3, <3>4
  <2>7. BitsInv'
    BY <1>4, <1>5, <1>6, <2>1, <2>4, <2>5, <2>6
  <2>8. consumed' = 8 * (r.taken - (r.valid - r.pos))
    BY <1>4, <2>1
  <2>9. consumed' % 8 = 0
    BY <1>4, <2>8
  <2> QED BY <1>4, <2>1, <2>2, <2>7, <2>9
<1> QED BY <1>7, <1>8, <1>9

LEMMA ReaderStep == BitsInv /\ [Next]_vars => BitsInv'
<1> SUFFICES ASSUME BitsInv, [Next]_vars PROVE BitsInv'
  OBVIOUS
<1>1. ASSUME NEW n \in Counts, peekBits(n) PROVE BitsInv'
  BY <1>1, PeekBits
<1>2. ASSUME NEW n \in Counts, consumeBits(n) PROVE BitsInv'
  BY <1>2, ConsumeBits
<1>3. ASSUME NEW n \in Counts, ReadFails(n) PROVE BitsInv'
  BY <1>3, ReadFailsBits
<1>4. CASE alignToByte
  BY <1>4, AlignLemma
<1>5. CASE setBackingStream
  BY <1>5, SetBackingStreamBits
<1>6. CASE UNCHANGED vars
  BY <1>6 DEF vars, readerVars, BitsInv, TypeOK, Good, GoodIndices, GoodBytes, BitsIn, Kept, Here,
       PeekTellsTheStream, PeekedIsRead, Buffered
<1> QED BY <1>1, <1>2, <1>3, <1>4, <1>5, <1>6 DEF Next

-----------------------------------------------------------------------------
THEOREM BitsInvariant == Spec => []BitsInv
BY InitBits, ReaderStep, PTL DEF Spec

\* The indices of the reader stay within its buffer, through refills, short reads and
\* failed reads.
THEOREM TypeCorrect == Spec => []TypeOK
<1>1. BitsInv => TypeOK
  BY DEF BitsInv
<1> QED BY <1>1, BitsInvariant, PTL

\* The bits in the buffer are those taken from the stream and not consumed.
LEMMA InvKeepsBits == BitsInv => BufferedIsUnconsumed
BY DEF BitsInv, Good, BitsIn, Kept, Here, BufferedIsUnconsumed, Buffered

THEOREM NoBitIsLost == Spec => []BufferedIsUnconsumed
BY InvKeepsBits, BitsInvariant, PTL

\* A value peeked is the next bits of the stream, and padding behind its end.
THEOREM PeekCorrect == Spec => []PeekTellsTheStream
<1>1. BitsInv => PeekTellsTheStream
  BY DEF BitsInv
<1> QED BY <1>1, BitsInvariant, PTL

\* alignToByte() stops at the next byte boundary.
THEOREM AlignCorrect == Spec => AlignGoesToBoundary
<1>1. BitsInv /\ [Next]_vars =>
        [alignToByte /\ error' = "none" => consumed' % 8 = 0 /\ consumed' - consumed < 8]_vars
  BY AlignLemma
<1> QED BY <1>1, BitsInvariant, PTL DEF Spec, AlignGoesToBoundary

\* TruncatedArchiveError out of consumeBits() means the end of the stream.
LEMMA TruncatedStep ==
  ASSUME BitsInv, TruncatedMeansEnd, [Next]_vars
  PROVE  TruncatedMeansEnd'
<1>1. ASSUME NEW n \in Counts, consumeBits(n) PROVE TruncatedMeansEnd'
  <2>1. CASE needRefill(n)
    <3>1. Buffered < n /\ n <= peeked
      BY <1>1, <2>1 DEF consumeBits, needRefill
    <3>2. taken = size
      BY <3>1, CountsCountable DEF BitsInv, TypeOK, PeekedIsRead, Buffered, Countable, Index
    <3>3. Buffered = 8 * taken - consumed
      BY DEF BitsInv, Good, BitsIn, Kept, Here, Buffered
    <3> QED BY <1>1, <2>1, <3>1, <3>2, <3>3 DEF consumeBits, TruncatedMeansEnd
  <2>2. CASE ~needRefill(n)
    BY <1>1, <2>2 DEF consumeBits, TruncatedMeansEnd
  <2> QED BY <2>1, <2>2
<1>2. ASSUME NEW n \in Counts, peekBits(n) \/ ReadFails(n) PROVE TruncatedMeansEnd'
  BY <1>2 DEF peekBits, ReadFails, TruncatedMeansEnd
<1>3. CASE alignToByte
  BY <1>3 DEF alignToByte, TruncatedMeansEnd
<1>4. CASE setBackingStream \/ UNCHANGED vars
  BY <1>4 DEF setBackingStream, vars, TruncatedMeansEnd
<1> QED BY <1>1, <1>2, <1>3, <1>4 DEF Next

THEOREM TruncatedCorrect == Spec => []TruncatedMeansEnd
<1>1. Init => TruncatedMeansEnd
  BY DEF Init, TruncatedMeansEnd
<1>2. BitsInv /\ TruncatedMeansEnd /\ [Next]_vars => TruncatedMeansEnd'
  BY TruncatedStep
<1> QED BY <1>1, <1>2, BitsInvariant, PTL DEF Spec

-----------------------------------------------------------------------------
(* BitReaderBE *)

\* All the bits of the stream are consumed.
AllConsumed == taken = size /\ consumed = 8 * size

\* As GoodIndices, but the current byte may be the one behind those buffered, which are
\* then none.
GoodIndicesBE(r) ==
  /\ r.valid \in Index \cup {AllBits} /\ r.pos \in 0 .. r.valid + 1
  /\ r.bitPos \in 0 .. 8 /\ r.taken \in 0 .. size
  /\ r.pos = r.valid + 1 => r.bitPos = 8
  /\ r.bitPos = 0 => r.pos = r.valid

GoodBE(r) == GoodIndicesBE(r) /\ GoodBytes(r) /\ BitsIn(r) = 8 * r.taken - consumed

BitsInvBE ==
  /\ GoodBE(Here)
  /\ size \in Nat /\ consumed \in Nat /\ peeked \in 0 .. 25
  /\ PeekTellsTheStream /\ PeekedIsRead
  /\ (stale = TRUE \/ crashed = TRUE) => AllConsumed
  /\ mValid = AllBits /\ error = "none" => AllConsumed

\* What the lemmas need to know of the indices as numbers.
LEMMA HereBE ==
  ASSUME BitsInvBE
  PROVE  /\ mValid \in Int /\ -1 <= mValid /\ mValid < BufferSize
         /\ mPos \in Nat /\ mPos <= mValid + 1 /\ mBitPos \in 0 .. 8
         /\ mValid - mPos \in Int /\ -1 <= mValid - mPos
         /\ mPos = mValid + 1 => mBitPos = 8
         /\ mBitPos = 0 => mPos = mValid
         /\ taken \in Nat /\ taken <= size /\ size \in Nat /\ consumed \in Nat
         /\ mBuffer \in [Index -> Nat] /\ BufferSize \in Nat /\ BufferSize >= 3
         /\ 8 * (mValid - mPos) + mBitPos = 8 * taken - consumed
<1>1. /\ mValid \in Index \cup {-1} /\ mPos \in 0 .. mValid + 1 /\ mBitPos \in 0 .. 8
      /\ mPos = mValid + 1 => mBitPos = 8
      /\ mBitPos = 0 => mPos = mValid
      /\ taken \in 0 .. size /\ size \in Nat /\ consumed \in Nat
      /\ mBuffer \in [Index -> Nat]
      /\ 8 * (mValid - mPos) + mBitPos = 8 * taken - consumed
  BY DEF BitsInvBE, GoodBE, GoodIndicesBE, GoodBytes, BitsIn, Kept, Here, AllBits
<1>2. BufferSize \in Nat /\ BufferSize >= 3
  BY BitsAssumption
<1>3. mValid \in Int /\ -1 <= mValid /\ mValid < BufferSize
  BY <1>1, <1>2 DEF Index
<1> QED BY <1>1, <1>2, <1>3

\* What a refill does to the indices.  Where no bit was buffered behind the current byte,
\* the first byte read becomes the current one.
LEMMA RefillIndicesBE ==
  ASSUME BitsInvBE, NEW n \in Countable, needRefill(n),
         NEW read \in Readable(BytesFor(n, mBitPos) - (mValid - mPos), BufferSize - FirstFree)
  PROVE  /\ GoodIndicesBE(refillBE(read))
         /\ BitsIn(refillBE(read)) = 8 * (taken + read) - consumed
         /\ BitsIn(refillBE(read)) < n => taken + read = size
         /\ refillBE(read).valid = AllBits => taken + read = size /\ consumed = 8 * size
<1> DEFINE r == refillBE(read)
           kept == mValid - mPos
           k == BytesFor(n, mBitPos)
<1>1. /\ mValid \in Int /\ mPos \in Nat /\ mPos <= mValid + 1 /\ mBitPos \in 0 .. 8
      /\ mValid < BufferSize /\ BufferSize \in Nat /\ kept \in Int /\ -1 <= kept
      /\ kept = -1 => mBitPos = 8
      /\ mBitPos = 0 => kept = 0
      /\ size \in Nat /\ taken \in Nat /\ taken <= size /\ consumed \in Nat
      /\ 8 * kept + mBitPos = 8 * taken - consumed
  BY HereBE
<1>3. k \in Nat /\ 8 * k >= n - mBitPos /\ n \in 1 .. 25
  BY <1>1, BytesForLemma DEF Countable
<1>4. FirstFree = IF kept > 0 \/ mBitPos > 0 THEN kept + 1 ELSE 0
  BY DEF FirstFree
<1>5. FirstFree \in Nat /\ kept <= FirstFree
  BY <1>1, <1>4
<1>6. /\ read \in Nat /\ read <= BufferSize - FirstFree /\ read <= size - taken
      /\ read < k - kept => read = size - taken
  BY <1>1, <1>3, <1>5 DEF Readable
<1> HIDE DEF k, kept
<1>7. CASE read > 0 /\ mBitPos = 0
  <2>1. r.valid = read - 1 /\ r.pos = 0 /\ r.bitPos = 8 /\ r.taken = taken + read
    BY <1>7, <1>1, <1>6 DEF refillBE, kept
  <2> HIDE DEF r
  <2>2. FirstFree = 0
    BY <1>1, <1>4, <1>7
  <2>3. GoodIndicesBE(r)
    BY <1>1, <1>6, <1>7, <2>1, <2>2 DEF GoodIndicesBE, Index
  <2>4. BitsIn(r) = 8 * (read - 1) + 8
    BY <2>1, <1>6 DEF BitsIn, Kept
  <2>5. r.valid # AllBits
    BY <1>6, <1>7, <2>1 DEF AllBits
  <2>6. 8 * (read - 1) + 8 = 8 * (taken + read) - consumed
    BY <1>1, <1>6, <1>7
  <2>7. 8 * (read - 1) + 8 < n => taken + read = size
    BY <1>1, <1>3, <1>6, <1>7
  <2> QED BY <2>3, <2>4, <2>5, <2>6, <2>7 DEF r
<1>8. CASE ~(read > 0 /\ mBitPos = 0)
  <2>1. r.valid = kept + read /\ r.pos = 0 /\ r.bitPos = mBitPos /\ r.taken = taken + read
    BY <1>8, <1>1, <1>6 DEF refillBE, kept
  <2>2. kept + read < BufferSize
    <3>1. CASE mBitPos = 0
      BY <1>1, <1>4, <1>6, <1>8, <3>1, BitsAssumption
    <3>2. CASE mBitPos > 0
      BY <1>1, <1>4, <1>6, <3>2
    <3> QED BY <1>1, <3>1, <3>2
  <2> HIDE DEF r
  <2>3. GoodIndicesBE(r)
    <3>1. kept + read \in Index \cup {-1}
      BY <1>1, <1>6, <2>2 DEF Index
    <3>2. 0 \in 0 .. kept + read + 1 /\ taken + read \in 0 .. size
      BY <1>1, <1>6
    <3>3. 0 = kept + read + 1 => mBitPos = 8
      BY <1>1, <1>6
    <3>4. mBitPos = 0 => 0 = kept + read
      BY <1>1, <1>6, <1>8
    <3> QED BY <1>1, <2>1, <3>1, <3>2, <3>3, <3>4 DEF GoodIndicesBE, AllBits
  <2>4. BitsIn(r) = 8 * (kept + read) + mBitPos
    BY <2>1, <1>1, <1>6 DEF BitsIn, Kept
  <2>5. 8 * (kept + read) + mBitPos = 8 * (taken + read) - consumed
    BY <1>1, <1>6
  <2>6. 8 * (kept + read) + mBitPos < n => taken + read = size
    BY <1>1, <1>3, <1>6
  <2>7. kept + read = -1 => taken + read = size /\ consumed = 8 * size
    <3>1. ASSUME kept + read = -1 PROVE taken + read = size /\ consumed = 8 * size
      <4>1. read = 0 /\ kept = -1 /\ mBitPos = 8
        BY <1>1, <1>6, <3>1
      <4>2. taken = size
        BY <1>1, <1>3, <1>6, <4>1
      <4> QED BY <1>1, <4>1, <4>2
    <3> QED BY <3>1
  <2> QED BY <2>1, <2>3, <2>4, <2>5, <2>6, <2>7 DEF r, AllBits
<1> QED BY <1>7, <1>8

\* What a refill does to the bytes.
LEMMA RefillBytesBE ==
  ASSUME BitsInvBE, NEW n \in Countable, needRefill(n),
         NEW read \in Readable(BytesFor(n, mBitPos) - (mValid - mPos), BufferSize - FirstFree)
  PROVE  GoodBytes(refillBE(read))
<1> DEFINE r == refillBE(read)
           kept == mValid - mPos
<1>1. /\ mValid \in Int /\ mPos \in Nat /\ mPos <= mValid + 1 /\ mBitPos \in 0 .. 8
      /\ mValid < BufferSize /\ BufferSize \in Nat /\ kept \in Int /\ -1 <= kept
      /\ kept = -1 => mBitPos = 8
      /\ mBitPos = 0 => kept = 0
      /\ taken \in Nat /\ mBuffer \in [Index -> Nat]
  BY HereBE
<1>2. FirstFree = IF kept > 0 \/ mBitPos > 0 THEN kept + 1 ELSE 0
  BY DEF FirstFree
<1>3. /\ read \in Nat /\ read <= BufferSize - FirstFree /\ FirstFree \in Nat
      /\ kept <= FirstFree
  BY <1>1, <1>2 DEF Readable
<1>4. \A j \in 0 .. kept : j > 0 \/ mBitPos > 0 => mBuffer[mPos + j] = taken - kept + j
  BY DEF BitsInvBE, GoodBE, GoodBytes, Here, Kept
<1>5. r.buffer = Refilled(read) /\ r.pos = 0 /\ r.taken = taken + read
  BY DEF refillBE
<1>6. r.buffer \in [Index -> Nat]
  <2>1. ASSUME NEW h \in Index, FirstFree <= h
        PROVE  taken + 1 + h - FirstFree \in Nat
    BY <1>1, <1>3, <2>1 DEF Index
  <2>2. ASSUME NEW h \in Index, h <= kept
        PROVE  mPos + h \in Index
    BY <1>1, <2>2 DEF Index
  <2> QED BY <1>1, <1>5, <2>1, <2>2 DEF Refilled
<1>7. ASSUME NEW j \in 0 .. Kept(r), j > 0 \/ r.bitPos > 0
      PROVE  r.buffer[r.pos + j] = r.taken - Kept(r) + j
  <2>1. CASE read > 0 /\ mBitPos = 0
    <3>1. kept = 0 /\ FirstFree = 0
      BY <1>1, <1>2, <2>1
    <3>2. r.valid = read - 1
      BY <1>1, <1>3, <2>1, <3>1 DEF refillBE
    <3>3. j \in Nat /\ j < read /\ j \in Index
      BY <1>3, <1>5, <1>7, <2>1, <3>1, <3>2, <1>1 DEF Kept, Index
    <3>4. r.buffer[j] = taken + 1 + j
      BY <1>1, <1>3, <1>5, <2>1, <3>1, <3>3 DEF Refilled
    <3> HIDE DEF r
    <3> QED BY <1>1, <1>3, <1>5, <3>2, <3>3, <3>4 DEF Kept
  <2>2. CASE ~(read > 0 /\ mBitPos = 0)
    <3>1. r.valid = kept + read /\ r.bitPos = mBitPos
      BY <1>1, <1>3, <2>2 DEF refillBE
    <3>2. j \in Nat /\ j <= kept + read
      BY <1>1, <1>3, <1>5, <1>7, <3>1 DEF Kept
    <3>3. mBitPos > 0 \/ j > 0
      BY <1>7, <3>1
    <3>4. FirstFree = kept + 1
      BY <1>1, <1>2, <1>3, <2>2, <3>2, <3>3
    <3>5. j \in Index
      BY <1>1, <1>3, <3>2, <3>4 DEF Index
    <3>6. r.buffer[j] = taken - kept + j
      <4>1. CASE j <= kept
        <5>1. r.buffer[j] = mBuffer[mPos + j]
          BY <1>1, <1>3, <1>5, <3>2, <3>5, <4>1, <3>4 DEF Refilled
        <5> QED BY <1>4, <3>2, <4>1, <3>3, <5>1
      <4>2. CASE j > kept
        <5>1. r.buffer[j] = taken + 1 + j - FirstFree
          BY <1>1, <1>3, <1>5, <3>2, <3>5, <4>2, <3>4 DEF Refilled
        <5> QED BY <1>1, <3>2, <3>4, <5>1
      <4> QED BY <1>1, <3>2, <4>1, <4>2
    <3> HIDE DEF r
    <3> QED BY <1>1, <1>3, <1>5, <3>1, <3>2, <3>6 DEF Kept
  <2> QED BY <2>1, <2>2
<1> QED BY <1>6, <1>7 DEF GoodBytes

\* As ReadyIsGood.
LEMMA ReadyIsGoodBE ==
  ASSUME BitsInvBE, NEW n \in Countable, NEW r \in ReadyBE(n)
  PROVE  /\ GoodBE(r)
         /\ BitsIn(r) < n => r.taken = size
         /\ r.valid = AllBits => r.taken = size /\ consumed = 8 * size
<1>1. CASE needRefill(n)
  <2>1. PICK read \in Readable(BytesFor(n, mBitPos) - (mValid - mPos), BufferSize - FirstFree) :
               r = refillBE(read)
    BY <1>1 DEF ReadyBE
  <2>2. r.taken = taken + read
    BY <2>1 DEF refillBE
  <2> QED BY <1>1, <2>1, <2>2, RefillIndicesBE, RefillBytesBE DEF GoodBE
<1>2. CASE ~needRefill(n)
  <2>1. r = Here
    BY <1>2 DEF ReadyBE
  <2>2. ~(BitsIn(r) < n)
    BY <1>2, <2>1 DEF needRefill, Buffered, BitsIn, Kept, Here
  <2>3. r.valid = mValid
    BY <2>1 DEF Here
  <2>4. mValid # AllBits
    <3>1. BitsIn(r) = 8 * (mValid - mPos) + mBitPos
      BY <2>1 DEF BitsIn, Kept, Here
    <3>2. n \in Nat /\ n >= 1
      BY DEF Countable
    <3> QED BY HereBE, <2>2, <3>1, <3>2 DEF AllBits
  <2> QED BY <2>1, <2>2, <2>3, <2>4 DEF BitsInvBE
<1> QED BY <1>1, <1>2

\* As BitLemma.
LEMMA BitLemmaBE ==
  ASSUME BitsInvBE, NEW n \in Countable, NEW r \in ReadyBE(n), NEW h \in 1 .. n
  PROVE  BitOf(r, h) = IF consumed + h <= 8 * size THEN consumed + h ELSE Pad
<1> DEFINE k == BytesFor(h, r.bitPos)
<1>1. /\ r.valid \in Int /\ r.pos \in Nat /\ r.pos <= r.valid + 1 /\ r.bitPos \in 0 .. 8
      /\ r.taken \in Nat /\ r.taken <= size /\ size \in Nat /\ consumed \in Nat
      /\ Kept(r) = r.valid - r.pos
  <2>1. GoodIndicesBE(r)
    BY ReadyIsGoodBE DEF GoodBE
  <2>2. r.valid \in Int /\ r.valid >= -1
    BY <2>1, BitsAssumption DEF GoodIndicesBE, Index, AllBits
  <2>3. size \in Nat /\ consumed \in Nat
    BY DEF BitsInvBE
  <2> QED BY <2>1, <2>2, <2>3 DEF GoodIndicesBE, Kept
<1>2. 8 * Kept(r) + r.bitPos = 8 * r.taken - consumed
  BY ReadyIsGoodBE DEF GoodBE, BitsIn
<1>3. 8 * Kept(r) + r.bitPos < n => r.taken = size
  BY ReadyIsGoodBE DEF BitsIn
<1>4. h \in Nat /\ n \in Nat /\ 1 <= h /\ h <= n /\ h \in 1 .. 25
  BY DEF Countable
<1>5. k \in Nat /\ 8 * k >= h - r.bitPos /\ 8 * k <= h - r.bitPos + 7
  BY <1>1, <1>4, BytesForLemma
<1>6. BitOf(r, h) = IF r.pos + k > r.valid THEN Pad
                    ELSE IF r.buffer[r.pos + k] = 0 THEN Foreign
                    ELSE 8 * (r.buffer[r.pos + k] - 1) + 8 + h - r.bitPos - 8 * k
  BY DEF BitOf
<1> HIDE DEF k
<1>7. CASE r.pos + k > r.valid
  <2>1. 8 * Kept(r) + r.bitPos < h
    BY <1>1, <1>4, <1>5, <1>7
  <2>2. r.taken = size
    BY <1>1, <1>3, <1>4, <2>1
  <2> QED BY <1>1, <1>2, <1>4, <1>6, <1>7, <2>1, <2>2
<1>8. CASE ~(r.pos + k > r.valid)
  <2>1. k <= Kept(r) /\ k \in 0 .. Kept(r)
    BY <1>1, <1>5, <1>8
  <2>2. k > 0 \/ r.bitPos > 0
    BY <1>1, <1>4, <1>5
  <2>3. r.buffer[r.pos + k] = r.taken - Kept(r) + k
    BY <2>1, <2>2, ReadyIsGoodBE DEF GoodBE, GoodBytes
  <2>4. r.taken - Kept(r) + k > 0
    BY <1>1, <1>2, <1>5, <2>1, <2>2
  <2>5. h <= 8 * Kept(r) + r.bitPos
    BY <1>1, <1>4, <1>5, <2>1
  <2>6. BitOf(r, h) = 8 * (r.taken - Kept(r) + k - 1) + 8 + h - r.bitPos - 8 * k
    BY <1>1, <1>5, <1>6, <1>8, <2>3, <2>4
  <2>7. Kept(r) \in Int
    BY <1>1
  <2>8. BitOf(r, h) = consumed + h
    BY <1>1, <1>2, <1>4, <1>5, <2>6, <2>7
  <2>9. consumed + h <= 8 * size
    BY <1>1, <1>2, <1>4, <2>5, <2>7
  <2> QED BY <2>8, <2>9
<1> QED BY <1>7, <1>8

-----------------------------------------------------------------------------
\* BitsInvBE is inductive: one lemma per operation.
LEMMA InitBitsBE == InitBE => BitsInvBE
<1> SUFFICES ASSUME InitBE PROVE BitsInvBE
  OBVIOUS
<1> USE BitsAssumption
<1>1. /\ mBuffer = [j \in Index |-> 0] /\ mValid = 0 /\ mPos = 0 /\ mBitPos = 0
      /\ size \in Nat /\ taken = 0 /\ consumed = 0 /\ peeked = 0
  BY DEF InitBE, Init
<1>2. GoodBE(Here)
  BY <1>1 DEF GoodBE, GoodIndicesBE, GoodBytes, BitsIn, Kept, Here, Index, AllBits
<1>3. PeekTellsTheStream /\ PeekedIsRead
  BY <1>1 DEF PeekTellsTheStream, PeekedIsRead, Buffered
<1>4. stale = FALSE /\ crashed = FALSE /\ mValid # AllBits
  BY <1>1 DEF InitBE, AllBits
<1> QED BY <1>1, <1>2, <1>3, <1>4 DEF BitsInvBE

LEMMA SetBackingStreamBitsBE == BitsInvBE /\ setBackingStreamBE => BitsInvBE'
<1> SUFFICES ASSUME setBackingStreamBE PROVE BitsInvBE'
  OBVIOUS
<1> USE BitsAssumption
<1>1. /\ mBuffer' = [j \in Index |-> 0] /\ mValid' = 0 /\ mPos' = 0 /\ mBitPos' = 0
      /\ size' \in Nat /\ taken' = 0 /\ consumed' = 0 /\ peeked' = 0
  BY DEF setBackingStreamBE, setBackingStream
<1>2. GoodBE(Here)'
  BY <1>1 DEF GoodBE, GoodIndicesBE, GoodBytes, BitsIn, Kept, Here, Index, AllBits
<1>3. PeekTellsTheStream' /\ PeekedIsRead'
  BY <1>1 DEF PeekTellsTheStream, PeekedIsRead, Buffered
<1>4. stale' = FALSE /\ ~(crashed' = TRUE) /\ mValid' # AllBits
  BY <1>1 DEF setBackingStreamBE, AllBits
<1> QED BY <1>1, <1>2, <1>3, <1>4 DEF BitsInvBE

LEMMA PeekBitsBE ==
  ASSUME BitsInvBE, NEW n \in Counts, peekBitsBE(n)
  PROVE  BitsInvBE'
<1>1. n \in Countable /\ n \in 0 .. 25
  BY CountsCountable DEF Countable
<1>2. UNCHANGED <<size, consumed, error, wanted>>
  BY DEF peekBitsBE
<1>3. CASE needRefill(n) /\ mValid = AllBits
  <2>1. error = "none" /\ crashed' = TRUE /\ UNCHANGED <<readerVars, peeked, value, stale>>
    BY <1>3 DEF peekBitsBE
  <2>2. AllConsumed
    BY <1>3, <2>1 DEF BitsInvBE
  <2> QED BY <1>2, <2>1, <2>2 DEF BitsInvBE, GoodBE, GoodIndicesBE, GoodBytes, BitsIn, Kept,
            Here, PeekTellsTheStream, PeekedIsRead, Buffered, AllConsumed, readerVars
<1>4. CASE ~(needRefill(n) /\ mValid = AllBits)
  <2>1. PICK r \in ReadyBE(n) :
               /\ Become(r) /\ value' = [h \in 1 .. n |-> BitOf(r, h)]
               /\ stale' = (r.valid = AllBits)
    BY <1>4 DEF peekBitsBE
  <2>2. peeked' = n /\ UNCHANGED crashed
    BY <1>4 DEF peekBitsBE
  <2>3. /\ GoodBE(r)
        /\ BitsIn(r) < n => r.taken = size
        /\ r.valid = AllBits => r.taken = size /\ consumed = 8 * size
    BY <1>1, ReadyIsGoodBE
  <2>4. \A h \in 1 .. n : BitOf(r, h) = IF consumed + h <= 8 * size THEN consumed + h ELSE Pad
    BY <1>1, BitLemmaBE
  <2>5. /\ mBuffer' = r.buffer /\ mValid' = r.valid /\ mPos' = r.pos /\ mBitPos' = r.bitPos
        /\ taken' = r.taken
    BY <2>1 DEF Become
  <2>6. GoodBE(Here)'
    BY <1>2, <2>3, <2>5 DEF GoodBE, GoodIndicesBE, GoodBytes, BitsIn, Kept, Here
  <2>7. PeekTellsTheStream'
    BY <1>2, <2>1, <2>2, <2>4 DEF PeekTellsTheStream
  <2>8. PeekedIsRead'
    <3>1. Buffered' = BitsIn(r)
      BY <2>5 DEF Buffered, BitsIn, Kept
    <3> QED BY <1>2, <2>2, <2>3, <2>5, <3>1 DEF PeekedIsRead
  <2>9. size' \in Nat /\ consumed' \in Nat /\ peeked' \in 0 .. 25
    BY <1>1, <1>2, <2>2 DEF BitsInvBE
  <2>10. mValid' = AllBits => AllConsumed'
    BY <1>2, <2>3, <2>5 DEF AllConsumed
  <2>11. stale' = TRUE => AllConsumed'
    BY <2>1, <2>5, <2>10
  <2>12. crashed' = TRUE => AllConsumed'
    <3>1. ~(crashed = TRUE)
      BY DEF peekBitsBE
    <3> QED BY <2>2, <3>1
  <2> QED BY <2>6, <2>7, <2>8, <2>9, <2>10, <2>11, <2>12 DEF BitsInvBE
<1> QED BY <1>3, <1>4

LEMMA ReadFailsBitsBE ==
  ASSUME BitsInvBE, NEW n \in Counts, ReadFailsBE(n)
  PROVE  BitsInvBE'
<1>1. /\ mBuffer' = Refilled(0) /\ mValid' = mValid - mPos /\ mPos' = 0 /\ error' = "read"
      /\ UNCHANGED <<mBitPos, taken, size, consumed, peeked, value, stale, crashed>>
  BY DEF ReadFailsBE, ReadFails
<1>2. /\ mValid \in Int /\ -1 <= mValid /\ mValid < BufferSize
      /\ mPos \in Nat /\ mPos <= mValid + 1 /\ mBitPos \in 0 .. 8
      /\ mPos = mValid + 1 => mBitPos = 8
      /\ mBitPos = 0 => mPos = mValid
      /\ taken \in Nat /\ taken <= size /\ size \in Nat /\ consumed \in Nat
      /\ mBuffer \in [Index -> Nat] /\ BufferSize \in Nat
      /\ 8 * (mValid - mPos) + mBitPos = 8 * taken - consumed
  BY HereBE
<1>3. \A h \in Index : h <= mValid - mPos => mPos + h \in Index
  BY <1>2 DEF Index
<1>4. \A h \in Index :
        Refilled(0)[h] = IF h <= mValid - mPos THEN mBuffer[mPos + h] ELSE mBuffer[h]
  <2>1. ASSUME NEW h \in Index
        PROVE  ~(FirstFree <= h /\ h < FirstFree + 0)
    BY <1>2 DEF FirstFree, Index
  <2> QED BY <2>1 DEF Refilled
<1>5. Refilled(0) \in [Index -> Nat]
  <2>1. ASSUME NEW h \in Index
        PROVE  Refilled(0)[h] \in Nat
    BY <1>2, <1>3, <1>4
  <2> QED BY <2>1 DEF Refilled
<1>6. GoodIndicesBE(Here)'
  <2>1. mValid - mPos \in Index \cup {-1} /\ 0 \in 0 .. mValid - mPos + 1
    BY <1>2 DEF Index
  <2>2. 0 = mValid - mPos + 1 => mBitPos = 8
    BY <1>2
  <2>3. mBitPos = 0 => 0 = mValid - mPos
    BY <1>2
  <2> QED BY <1>1, <1>2, <2>1, <2>2, <2>3 DEF GoodIndicesBE, Here, AllBits
<1>7. GoodBytes(Here)'
  <2>1. \A j \in 0 .. mValid - mPos : j > 0 \/ mBitPos > 0 =>
          mBuffer[mPos + j] = taken - (mValid - mPos) + j
    BY DEF BitsInvBE, GoodBE, GoodBytes, Here, Kept
  <2>2. ASSUME NEW j \in 0 .. mValid - mPos, j > 0 \/ mBitPos > 0
        PROVE  Refilled(0)[0 + j] = taken - (mValid - mPos - 0) + j
    <3>1. j \in Index /\ j <= mValid - mPos /\ 0 + j = j /\ mValid - mPos - 0 = mValid - mPos
      BY <1>2, <2>2 DEF Index
    <3> QED BY <1>4, <2>1, <2>2, <3>1
  <2> QED BY <1>1, <1>5, <2>2 DEF GoodBytes, Here, Kept
<1>8. BitsIn(Here)' = 8 * taken' - consumed'
  <2>1. BitsIn(Here)' = 8 * (mValid - mPos - 0) + mBitPos
    BY <1>1 DEF BitsIn, Kept, Here
  <2>2. 8 * (mValid - mPos - 0) + mBitPos = 8 * taken - consumed
    BY <1>2
  <2> QED BY <1>1, <2>1, <2>2
<1>9. GoodBE(Here)'
  BY <1>6, <1>7, <1>8 DEF GoodBE, Here
<1>10. PeekTellsTheStream'
  BY <1>1 DEF BitsInvBE, PeekTellsTheStream
<1>11. PeekedIsRead'
  BY <1>1, <1>2 DEF BitsInvBE, PeekedIsRead, Buffered
<1>12. /\ size' \in Nat /\ consumed' \in Nat /\ peeked' \in 0 .. 25
       /\ (stale' = TRUE \/ crashed' = TRUE) => AllConsumed'
  BY <1>1 DEF BitsInvBE, AllConsumed
<1> QED BY <1>1, <1>9, <1>10, <1>11, <1>12 DEF BitsInvBE

LEMMA ConsumeBitsBE ==
  ASSUME BitsInvBE, NEW n \in Counts, consumeBitsBE(n)
  PROVE  BitsInvBE'
<1>1. n \in 1 .. 25 /\ n \in Nat
  BY CountsCountable DEF Countable
<1>2. UNCHANGED <<mBuffer, mValid, taken, size, stale, crashed>> /\ n <= peeked
  BY DEF consumeBitsBE
<1>3. CASE needRefill(n)
  <2>1. error' = "truncated" /\ UNCHANGED <<mPos, mBitPos, consumed, peeked, value>>
    BY <1>3 DEF consumeBitsBE
  <2> QED BY <1>1, <1>2, <2>1 DEF BitsInvBE, GoodBE, GoodIndicesBE, GoodBytes, BitsIn, Kept,
            Here, PeekTellsTheStream, PeekedIsRead, Buffered, AllConsumed
<1>4. CASE ~needRefill(n)
  <2>1. /\ \/ /\ n >= mBitPos
              /\ mPos' = mPos + (n - mBitPos) \div 8 + 1
              /\ mBitPos' = BitsLeft(n - mBitPos)
           \/ /\ n < mBitPos
              /\ mBitPos' = mBitPos - n
              /\ UNCHANGED mPos
        /\ consumed' = consumed + n
        /\ peeked' = 0 /\ value' = Empty
        /\ UNCHANGED error
    BY <1>4 DEF consumeBitsBE
  <2>2. /\ mValid \in Int /\ -1 <= mValid /\ mValid < BufferSize
        /\ mPos \in Nat /\ mPos <= mValid + 1 /\ mBitPos \in 0 .. 8
        /\ mPos = mValid + 1 => mBitPos = 8
        /\ taken \in Nat /\ taken <= size /\ size \in Nat /\ consumed \in Nat
        /\ 8 * (mValid - mPos) + mBitPos = 8 * taken - consumed
    BY HereBE
  <2>3. n <= 8 * (mValid - mPos) + mBitPos
    BY <1>1, <1>4, <2>2 DEF needRefill, Buffered
  <2>4. PICK k \in Nat :
          /\ mPos' = mPos + k /\ mBitPos' = mBitPos - n + 8 * k
          /\ mBitPos' \in 1 .. 8
    <3>1. CASE n >= mBitPos
      <4>1. (n - mBitPos) \div 8 + 1 \in Nat /\ mBitPos' = mBitPos - n + 8 * ((n - mBitPos) \div 8 + 1)
        BY <1>1, <2>1, <2>2, <3>1 DEF BitsLeft
      <4>2. mBitPos' \in 1 .. 8
        BY <1>1, <2>1, <2>2, <3>1 DEF BitsLeft
      <4>3. mPos' = mPos + ((n - mBitPos) \div 8 + 1)
        BY <1>1, <2>1, <2>2, <3>1
      <4> QED BY <4>1, <4>2, <4>3
    <3>2. CASE n < mBitPos
      <4>1. mPos' = mPos + 0 /\ mBitPos' = mBitPos - n + 8 * 0 /\ mBitPos' \in 1 .. 8
        BY <1>1, <2>1, <2>2, <3>2
      <4> QED BY <4>1
    <3> QED BY <1>1, <2>2, <3>1, <3>2
  <2>5. GoodIndicesBE(Here)'
    <3>1. mPos + k \in 0 .. mValid + 1 /\ (mPos + k = mValid + 1 => mBitPos - n + 8 * k = 8)
      BY <1>1, <2>2, <2>3, <2>4
    <3>2. mBitPos' # 0 /\ mBitPos' \in 0 .. 8
      BY <2>4
    <3>3. mValid \in Index \cup {AllBits} /\ taken \in 0 .. size
      BY DEF BitsInvBE, GoodBE, GoodIndicesBE, Here
    <3> QED BY <1>2, <2>4, <3>1, <3>2, <3>3 DEF GoodIndicesBE, Here
  <2>6. GoodBytes(Here)'
    <3>1. \A j \in 0 .. mValid - mPos : j > 0 \/ mBitPos > 0 =>
            mBuffer[mPos + j] = taken - (mValid - mPos) + j
      BY DEF BitsInvBE, GoodBE, GoodBytes, Here, Kept
    <3>2. ASSUME NEW j \in 0 .. mValid - (mPos + k)
          PROVE  mBuffer[mPos + k + j] = taken - (mValid - (mPos + k)) + j
      <4>1. k + j \in 0 .. mValid - mPos /\ (k + j > 0 \/ mBitPos > 0)
        BY <1>1, <2>2, <2>4, <3>2
      <4>2. mBuffer[mPos + (k + j)] = taken - (mValid - mPos) + (k + j)
        BY <3>1, <4>1
      <4>3. /\ mPos + (k + j) = mPos + k + j
            /\ taken - (mValid - mPos) + (k + j) = taken - (mValid - (mPos + k)) + j
        BY <2>2, <2>4, <3>2
      <4> QED BY <4>2, <4>3
    <3>3. mBuffer \in [Index -> Nat]
      BY HereBE
    <3> QED BY <1>2, <2>4, <3>2, <3>3 DEF GoodBytes, Here, Kept
  <2>7. BitsIn(Here)' = 8 * taken' - consumed'
    <3>1. BitsIn(Here)' = 8 * (mValid - (mPos + k)) + (mBitPos - n + 8 * k)
      BY <1>2, <2>4 DEF BitsIn, Kept, Here
    <3>2. 8 * (mValid - (mPos + k)) + (mBitPos - n + 8 * k) = 8 * taken - (consumed + n)
      BY <1>1, <2>2, <2>4
    <3> QED BY <1>2, <2>1, <3>1, <3>2
  <2>8. GoodBE(Here)'
    BY <2>5, <2>6, <2>7 DEF GoodBE, Here
  <2>9. PeekTellsTheStream' /\ PeekedIsRead'
    <3>1. Buffered' = 8 * (mValid - (mPos + k)) + (mBitPos - n + 8 * k)
      BY <1>2, <2>4 DEF Buffered
    <3>2. 8 * (mValid - (mPos + k)) + (mBitPos - n + 8 * k) >= 0
      BY <1>1, <2>2, <2>3, <2>4
    <3>3. ~(Buffered' < 0)
      BY <1>1, <2>2, <2>4, <3>1, <3>2
    <3> QED BY <2>1, <3>3 DEF PeekTellsTheStream, PeekedIsRead
  <2>10. ~AllConsumed
    BY <1>1, <2>2, <2>3 DEF AllConsumed
  <2>11. ~(stale = TRUE) /\ ~(crashed = TRUE)
    BY <2>10 DEF BitsInvBE
  <2>12. mValid # AllBits
    BY <1>1, <2>2, <2>3 DEF AllBits
  <2>13. size' \in Nat /\ consumed' \in Nat /\ peeked' \in 0 .. 25
    BY <1>1, <1>2, <2>1, <2>2
  <2> QED BY <1>2, <2>8, <2>9, <2>11, <2>12, <2>13 DEF BitsInvBE
<1> QED BY <1>3, <1>4

LEMMA ReaderStepBE == BitsInvBE /\ [NextBE]_varsBE => BitsInvBE'
<1> SUFFICES ASSUME BitsInvBE, [NextBE]_varsBE PROVE BitsInvBE'
  OBVIOUS
<1>1. ASSUME NEW n \in Counts, peekBitsBE(n) PROVE BitsInvBE'
  BY <1>1, PeekBitsBE
<1>2. ASSUME NEW n \in Counts, consumeBitsBE(n) PROVE BitsInvBE'
  BY <1>2, ConsumeBitsBE
<1>3. ASSUME NEW n \in Counts, ReadFailsBE(n) PROVE BitsInvBE'
  BY <1>3, ReadFailsBitsBE
<1>4. CASE setBackingStreamBE
  BY <1>4, SetBackingStreamBitsBE
<1>5. CASE UNCHANGED varsBE
  BY <1>5 DEF varsBE, vars, readerVars, BitsInvBE, GoodBE, GoodIndicesBE, GoodBytes, BitsIn,
       Kept, Here, PeekTellsTheStream, PeekedIsRead, Buffered, AllConsumed
<1> QED BY <1>1, <1>2, <1>3, <1>4, <1>5 DEF NextBE

-----------------------------------------------------------------------------
THEOREM BitsInvariantBE == SpecBE => []BitsInvBE
BY InitBitsBE, ReaderStepBE, PTL DEF SpecBE

\* As above: no bit is lost, and truncated means the end.
LEMMA InvKeepsBitsBE == BitsInvBE => BufferedIsUnconsumed
BY DEF BitsInvBE, GoodBE, BitsIn, Kept, Here, BufferedIsUnconsumed, Buffered

LEMMA TruncatedStepBE ==
  ASSUME BitsInvBE, TruncatedMeansEnd, [NextBE]_varsBE
  PROVE  TruncatedMeansEnd'
<1>1. ASSUME NEW n \in Counts, consumeBitsBE(n) PROVE TruncatedMeansEnd'
  <2>1. CASE needRefill(n)
    <3>1. Buffered < n /\ n <= peeked
      BY <1>1, <2>1 DEF consumeBitsBE, needRefill
    <3>2. Buffered = 8 * taken - consumed /\ Buffered \in Int
      BY HereBE DEF Buffered
    <3>3. taken = size
      BY <3>1, <3>2, CountsCountable DEF BitsInvBE, PeekedIsRead, Countable
    <3> QED BY <1>1, <2>1, <3>1, <3>2, <3>3 DEF consumeBitsBE, TruncatedMeansEnd
  <2>2. CASE ~needRefill(n)
    BY <1>1, <2>2 DEF consumeBitsBE, TruncatedMeansEnd
  <2> QED BY <2>1, <2>2
<1>2. ASSUME NEW n \in Counts, peekBitsBE(n) \/ ReadFailsBE(n) PROVE TruncatedMeansEnd'
  BY <1>2 DEF peekBitsBE, ReadFailsBE, ReadFails, TruncatedMeansEnd
<1>3. CASE setBackingStreamBE \/ UNCHANGED varsBE
  BY <1>3 DEF setBackingStreamBE, setBackingStream, varsBE, vars, TruncatedMeansEnd
<1> QED BY <1>1, <1>2, <1>3 DEF NextBE

\* What is left in the buffer shows only behind the end of the stream, with all its bits
\* consumed, and only there does the reader run off its buffer.
LEMMA InvIsStaleAtEnd == BitsInvBE => StaleOnlyAtEnd
BY DEF BitsInvBE, StaleOnlyAtEnd, AllConsumed

THEOREM StaleCorrect == SpecBE => []StaleOnlyAtEnd
BY InvIsStaleAtEnd, BitsInvariantBE, PTL

-----------------------------------------------------------------------------
(* BitWriterLE and BitWriterBE *)

\* The place, counted in the order of writing, of a bit of a byte.
Ord(p) == IF endian = "LE" THEN p ELSE 7 - p

Bytes == [Places -> Nat]

\* A buffer of which bitPos bits are in use: they are the bits before + 1, before + 2, ...
BufferSays(buffer, bitPos, before) ==
  /\ buffer \in [WIndex -> Bytes]
  /\ \A j \in WIndex, p \in Places :
       buffer[j][p] = IF 8 * j + Ord(p) < bitPos THEN before + 8 * j + Ord(p) + 1 ELSE 0

\* Bytes that are the first of all bits written.
SentSays(bytes) ==
  /\ bytes \in Seq(Bytes)
  /\ \A m \in 1 .. Len(bytes), p \in Places : bytes[m][p] = 8 * (m - 1) + Ord(p) + 1

WInv ==
  /\ endian \in {"LE", "BE"}
  /\ wBitPos \in Nat /\ written \in Nat /\ wBitPos <= written
  /\ wBitPos > 0 => WriterSize >= 2 /\ wBitPos < 8 * WriterSize
  /\ BufferSays(wBuffer, wBitPos, written - wBitPos)
  /\ SentSays(sent)
  /\ ~wBroken => written - wBitPos = 8 * Len(sent)

LEMMA OrdPlace == \A p \in Places : Ord(p) \in Places
BY DEF Ord, Places

\* writeBits() leaves the bits that are there, puts the next ones behind them, and leaves
\* the rest of the buffer clear, low bits first ...
LEMMA WrittenLE ==
  ASSUME HighBitsClear = TRUE, endian = "LE", NEW w, NEW n \in 1 .. 31, written \in Nat,
         w.bitPos \in Nat, w.bitPos <= written,
         BufferSays(w.buffer, w.bitPos, written - w.bitPos)
  PROVE  \A j \in WIndex, p \in Places :
           writtenLE(w, n)[j][p] = IF 8 * j + Ord(p) < w.bitPos + n
                                     THEN written - w.bitPos + 8 * j + Ord(p) + 1 ELSE 0
<1> DEFINE pos == w.bitPos \div 8
           used == w.bitPos % 8
           rest == n - (8 - used)
           v == ValueOf(n)
           b == w.bitPos
<1>1. /\ pos \in Nat /\ used \in 0 .. 7 /\ b = 8 * pos + used /\ b \in Nat
      /\ n \in Nat /\ n >= 1 /\ n <= 31 /\ rest = n - 8 + used
  OBVIOUS
<1>2. \A q \in ValuePlaces : v[q] = IF q >= n THEN 0 ELSE written + 1 + q
  BY DEF ValueOf
<1>3. \A j \in WIndex :
        writtenLE(w, n)[j] =
          IF j = pos THEN Or(w.buffer[j], ByteAt(Masked(v, n), -used))
          ELSE IF j > pos /\ 8 * (j - pos - 1) < rest THEN ByteAt(v, 8 * (j - pos) - used)
          ELSE w.buffer[j]
  BY DEF writtenLE
<1>4. \A j \in WIndex, p \in Places :
        w.buffer[j][p] = IF 8 * j + p < b THEN written - b + 8 * j + p + 1 ELSE 0
  BY DEF BufferSays, Ord
<1> HIDE DEF v, pos, used, rest, b
<1>5. ASSUME NEW j \in WIndex, NEW p \in Places
      PROVE  writtenLE(w, n)[j][p] = IF 8 * j + p < b + n THEN written - b + 8 * j + p + 1 ELSE 0
  <2>1. j \in Nat /\ p \in 0 .. 7
    BY DEF WIndex, Places
  <2>2. w.buffer[j][p] = IF 8 * j + p < b THEN written - b + 8 * j + p + 1 ELSE 0
    BY <1>4
  <2>3. CASE j = pos
    <3>1. writtenLE(w, n)[j][p] =
            Merged(w.buffer[j][p],
                   IF -used + p \in ValuePlaces
                     THEN (IF -used + p < n THEN v[-used + p] ELSE 0) ELSE 0)
      BY <1>3, <2>3 DEF Or, ByteAt, Masked
    <3>2. CASE p < used
      <4>1. ~(-used + p \in ValuePlaces)
        BY <1>1, <2>1, <3>2 DEF ValuePlaces
      <4>2. 8 * j + p < b
        BY <1>1, <2>1, <2>3, <3>2
      <4>3. writtenLE(w, n)[j][p] = w.buffer[j][p]
        BY <3>1, <4>1 DEF Merged
      <4> QED BY <1>1, <2>1, <2>2, <4>2, <4>3
    <3>3. CASE p >= used
      <4>1. -used + p \in ValuePlaces
        BY <1>1, <2>1, <3>3 DEF ValuePlaces
      <4>2. ~(8 * j + p < b) /\ 8 * j + p - b = -used + p
        BY <1>1, <2>1, <2>3, <3>3
      <4>3. v[-used + p] = IF -used + p >= n THEN 0 ELSE written + 1 + (-used + p)
        BY <1>2, <4>1
      <4>4. writtenLE(w, n)[j][p] = IF -used + p < n THEN v[-used + p] ELSE 0
        BY <2>2, <3>1, <4>1, <4>2 DEF Merged
      <4> QED BY <1>1, <2>1, <4>2, <4>3, <4>4
    <3> QED BY <1>1, <2>1, <3>2, <3>3
  <2>4. CASE j > pos /\ 8 * (j - pos - 1) < rest
    <3>1. writtenLE(w, n)[j][p] =
            IF 8 * (j - pos) - used + p \in ValuePlaces THEN v[8 * (j - pos) - used + p] ELSE 0
      <4>1. writtenLE(w, n)[j] = ByteAt(v, 8 * (j - pos) - used)
        BY <1>1, <1>3, <2>1, <2>4
      <4> QED BY <4>1 DEF ByteAt
    <3>2. 8 * (j - pos) - used + p = 8 * j + p - b /\ 8 * j + p - b >= 0
      BY <1>1, <2>1, <2>4
    <3>3. 8 * j + p - b \in ValuePlaces =>
            v[8 * j + p - b] = IF 8 * j + p - b >= n THEN 0 ELSE written + 1 + (8 * j + p - b)
      BY <1>2
    <3>4. 8 * j + p - b \in ValuePlaces \/ 8 * j + p - b >= n
      BY <1>1, <2>1, <3>2 DEF ValuePlaces
    <3> QED BY <1>1, <2>1, <3>1, <3>2, <3>3, <3>4
  <2>5. CASE j # pos /\ ~(j > pos /\ 8 * (j - pos - 1) < rest)
    <3>1. writtenLE(w, n)[j][p] = w.buffer[j][p]
      BY <1>1, <1>3, <2>1, <2>5
    <3>2. CASE j < pos
      BY <1>1, <2>1, <2>2, <3>1, <3>2
    <3>3. CASE j > pos /\ 8 * (j - pos - 1) >= rest
      BY <1>1, <2>1, <2>2, <3>1, <3>3
    <3> QED BY <1>1, <2>1, <2>5, <3>2, <3>3
  <2> QED BY <2>3, <2>4, <2>5
<1> QED BY <1>5 DEF Ord, b

\* ... and high bits first.
LEMMA WrittenBE ==
  ASSUME HighBitsClear = TRUE, endian = "BE", NEW w, NEW n \in 1 .. 31, written \in Nat,
         w.bitPos \in Nat, w.bitPos <= written,
         BufferSays(w.buffer, w.bitPos, written - w.bitPos)
  PROVE  \A j \in WIndex, p \in Places :
           writtenBE(w, n)[j][p] = IF 8 * j + Ord(p) < w.bitPos + n
                                     THEN written - w.bitPos + 8 * j + Ord(p) + 1 ELSE 0
<1> DEFINE pos == w.bitPos \div 8
           used == w.bitPos % 8
           free == 8 - (w.bitPos % 8)
           rest == n - free
           last == pos + (rest + 7) \div 8
           v == ValueOf(n)
           b == w.bitPos
<1>1. /\ pos \in Nat /\ used \in 0 .. 7 /\ b = 8 * pos + used /\ b \in Nat
      /\ n \in Nat /\ n >= 1 /\ n <= 31 /\ rest = n - 8 + used
      /\ last \in Nat /\ pos <= last /\ 8 * (last - pos) >= rest
  <2>1. /\ pos \in Nat /\ used \in 0 .. 7 /\ b = 8 * pos + used /\ b \in Nat
        /\ n \in Nat /\ n >= 1 /\ n <= 31 /\ rest = n - 8 + used
    OBVIOUS
  <2> DEFINE m == (rest + 7) \div 8
  <2> HIDE DEF pos, used, rest, b
  <2>2. m \in Nat /\ 8 * m >= rest
    BY <2>1
  <2>3. last = pos + m
    BY DEF last
  <2> HIDE DEF m, last
  <2> QED BY <2>1, <2>2, <2>3
<1>2. \A q \in ValuePlaces : v[q] = IF q >= n THEN 0 ELSE written + n - q
  BY DEF ValueOf
<1>3. \A j \in WIndex :
        writtenBE(w, n)[j] =
          IF j = pos THEN Or(w.buffer[j], ByteAt(Masked(v, n), rest))
          ELSE IF j > pos /\ j < last THEN ByteAt(v, rest - 8 * (j - pos))
          ELSE IF j > pos /\ j = last THEN LastByte(v, rest - 8 * (last - pos - 1))
          ELSE w.buffer[j]
  BY DEF writtenBE
<1>4. \A j \in WIndex, p \in Places :
        w.buffer[j][p] = IF 8 * j + (7 - p) < b THEN written - b + 8 * j + (7 - p) + 1 ELSE 0
  BY DEF BufferSays, Ord
<1> HIDE DEF v, pos, used, free, rest, last, b
<1>5. ASSUME NEW j \in WIndex, NEW p \in Places
      PROVE  writtenBE(w, n)[j][p] =
               IF 8 * j + (7 - p) < b + n THEN written - b + 8 * j + (7 - p) + 1 ELSE 0
  <2>1. j \in Nat /\ p \in 0 .. 7
    BY DEF WIndex, Places
  <2>2. w.buffer[j][p] = IF 8 * j + (7 - p) < b THEN written - b + 8 * j + (7 - p) + 1 ELSE 0
    BY <1>4
  <2> DEFINE q == n - 1 + b - 8 * j - (7 - p)
  <2>3. q \in Int /\ (q >= 0 <=> 8 * j + (7 - p) < b + n) /\ (q < n <=> 8 * j + (7 - p) >= b)
    BY <1>1, <2>1
  <2>6. written + n - q = written - b + 8 * j + (7 - p) + 1
    BY <1>1, <2>1
  <2> HIDE DEF q
  <2>4. q \in ValuePlaces => v[q] = IF q >= n THEN 0 ELSE written + n - q
    BY <1>2
  <2>5. q \in ValuePlaces <=> q >= 0 /\ q <= 31
    BY <2>3 DEF ValuePlaces
  <2>7. CASE j = pos
    <3>1. writtenBE(w, n)[j][p] =
            Merged(w.buffer[j][p],
                   IF rest + p \in ValuePlaces
                     THEN (IF rest + p < n THEN v[rest + p] ELSE 0) ELSE 0)
      BY <1>3, <2>7 DEF Or, ByteAt, Masked
    <3>2. rest + p = q
      BY <1>1, <2>1, <2>7 DEF q
    <3>3. CASE q < n
      <4>1. writtenBE(w, n)[j][p] = IF q \in ValuePlaces THEN v[q] ELSE 0
        BY <1>1, <2>1, <2>2, <2>3, <3>1, <3>2, <3>3 DEF Merged
      <4> QED BY <1>1, <2>1, <2>3, <2>4, <2>5, <2>6, <3>3, <4>1
    <3>4. CASE q >= n
      <4>1. writtenBE(w, n)[j][p] = w.buffer[j][p]
        BY <1>1, <2>3, <3>1, <3>2, <3>4 DEF Merged
      <4> QED BY <1>1, <2>1, <2>2, <2>3, <3>4, <4>1
    <3> QED BY <1>1, <2>3, <3>3, <3>4
  <2>8. CASE j > pos /\ j <= last
    <3>1. writtenBE(w, n)[j][p] = IF q \in ValuePlaces THEN v[q] ELSE 0
      <4>1. CASE j < last
        <5>1. rest - 8 * (j - pos) + p = q
          BY <1>1, <2>1 DEF q
        <5>2. writtenBE(w, n)[j] = ByteAt(v, rest - 8 * (j - pos))
          BY <1>1, <1>3, <2>1, <2>8, <4>1
        <5> QED BY <5>1, <5>2 DEF ByteAt
      <4>2. CASE j = last
        <5>1. rest - 8 * (last - pos - 1) - 8 + p = q
          BY <1>1, <2>1, <4>2 DEF q
        <5>2. writtenBE(w, n)[j] = LastByte(v, rest - 8 * (last - pos - 1))
          BY <1>1, <1>3, <2>1, <2>8, <4>2
        <5> QED BY <5>1, <5>2 DEF ByteAt, LastByte
      <4> QED BY <1>1, <2>1, <2>8, <4>1, <4>2
    <3>2. q < n
      BY <1>1, <2>1, <2>8 DEF q
    <3> QED BY <1>1, <2>1, <2>3, <2>4, <2>5, <2>6, <3>1, <3>2
  <2>9. CASE j < pos \/ j > last
    <3>1. writtenBE(w, n)[j][p] = w.buffer[j][p]
      BY <1>1, <1>3, <2>1, <2>9
    <3>2. CASE j < pos
      BY <1>1, <2>1, <2>2, <3>1, <3>2
    <3>3. CASE j > last
      BY <1>1, <2>1, <2>2, <3>1, <3>3
    <3> QED BY <2>9, <3>2, <3>3
  <2> QED BY <1>1, <2>1, <2>7, <2>8, <2>9
<1> QED BY <1>5 DEF Ord, b

\* Both together.
LEMMA WrittenSays ==
  ASSUME HighBitsClear = TRUE, endian \in {"LE", "BE"}, NEW w, NEW n \in 1 .. 31,
         written \in Nat, w.bitPos \in Nat, w.bitPos <= written,
         BufferSays(w.buffer, w.bitPos, written - w.bitPos)
  PROVE  BufferSays(writtenTo(w, n), w.bitPos + n, written - w.bitPos)
<1>1. \A j \in WIndex, p \in Places :
        writtenTo(w, n)[j][p] = IF 8 * j + Ord(p) < w.bitPos + n
                                  THEN written - w.bitPos + 8 * j + Ord(p) + 1 ELSE 0
  <2>1. CASE endian = "LE"
    <3>1. writtenTo(w, n) = writtenLE(w, n)
      BY <2>1 DEF writtenTo
    <3>2. \A j \in WIndex, p \in Places :
            writtenLE(w, n)[j][p] = IF 8 * j + Ord(p) < w.bitPos + n
                                      THEN written - w.bitPos + 8 * j + Ord(p) + 1 ELSE 0
      BY <2>1, WrittenLE, Zenon
    <3> QED BY <3>1, <3>2
  <2>2. CASE endian = "BE"
    <3>1. writtenTo(w, n) = writtenBE(w, n)
      BY <2>2 DEF writtenTo
    <3>2. \A j \in WIndex, p \in Places :
            writtenBE(w, n)[j][p] = IF 8 * j + Ord(p) < w.bitPos + n
                                      THEN written - w.bitPos + 8 * j + Ord(p) + 1 ELSE 0
      BY <2>2, WrittenBE, Zenon
    <3> QED BY <3>1, <3>2
  <2> QED BY <2>1, <2>2
<1>2. \A j \in WIndex, p \in Places : writtenTo(w, n)[j][p] \in Nat
  <2>1. ASSUME NEW j \in WIndex, NEW p \in Places
        PROVE  written - w.bitPos + 8 * j + Ord(p) + 1 \in Nat
    BY OrdPlace DEF WIndex, Places
  <2> QED BY <1>1, <2>1
<1>3. writtenTo(w, n) \in [WIndex -> Bytes]
  <2>1. w.buffer \in [WIndex -> Bytes]
    BY DEF BufferSays
  <2>2. ASSUME NEW j \in WIndex
        PROVE  writtenTo(w, n)[j] = [p \in Places |-> writtenTo(w, n)[j][p]]
    <3>1. CASE endian = "LE"
      BY <2>1, <3>1 DEF writtenTo, writtenLE, Or, ByteAt, Bytes
    <3>2. CASE endian = "BE"
      BY <2>1, <3>2 DEF writtenTo, writtenBE, Or, ByteAt, LastByte, Bytes
    <3> QED BY <3>1, <3>2
  <2>3. \A j \in WIndex : writtenTo(w, n)[j] \in Bytes
    BY <1>2, <2>2 DEF Bytes
  <2>4. writtenTo(w, n) = [j \in WIndex |-> writtenTo(w, n)[j]]
    BY DEF writtenTo, writtenLE, writtenBE
  <2> QED BY <2>3, <2>4
<1> QED BY <1>1, <1>3 DEF BufferSays

\* A flush leaves the bits of the byte that is not complete.
LEMMA FlushedSays ==
  ASSUME WInv
  PROVE  /\ Flushed.bitPos \in 0 .. 7 /\ Flushed.bitPos <= written
         /\ BufferSays(Flushed.buffer, Flushed.bitPos, written - Flushed.bitPos)
<1> DEFINE m == wBitPos \div 8
           used == wBitPos % 8
<1>1. /\ m \in Nat /\ used \in 0 .. 7 /\ wBitPos = 8 * m + used
      /\ wBitPos \in Nat /\ written \in Nat /\ wBitPos <= written
  BY DEF WInv
<1>2. /\ Flushed.bitPos = used
      /\ Flushed.buffer = [j \in WIndex |-> IF j = 0 /\ used > 0 THEN wBuffer[m] ELSE Clear]
  BY DEF Flushed
<1> HIDE DEF m, used
<1>3. used > 0 => m \in WIndex
  BY <1>1, WriterAssumption DEF WInv, WIndex
<1>4. /\ wBuffer \in [WIndex -> Bytes]
      /\ \A j \in WIndex, p \in Places :
           wBuffer[j][p] = IF 8 * j + Ord(p) < wBitPos
                             THEN written - wBitPos + 8 * j + Ord(p) + 1 ELSE 0
  BY DEF WInv, BufferSays
<1>5. Flushed.buffer \in [WIndex -> Bytes]
  <2>1. Clear \in Bytes
    BY DEF Clear, Bytes
  <2> QED BY <1>2, <1>3, <1>4, <2>1
<1>6. ASSUME NEW j \in WIndex, NEW p \in Places
      PROVE  Flushed.buffer[j][p] = IF 8 * j + Ord(p) < used
                                      THEN written - used + 8 * j + Ord(p) + 1 ELSE 0
  <2>1. j \in Nat /\ Ord(p) \in 0 .. 7
    BY OrdPlace DEF WIndex, Places
  <2>2. CASE j = 0 /\ used > 0
    <3>1. Flushed.buffer[j][p] = wBuffer[m][p]
      BY <1>2, <2>2
    <3>2. wBuffer[m][p] = IF 8 * m + Ord(p) < wBitPos
                            THEN written - wBitPos + 8 * m + Ord(p) + 1 ELSE 0
      BY <1>3, <1>4, <2>2
    <3> QED BY <1>1, <2>1, <2>2, <3>1, <3>2
  <2>3. CASE ~(j = 0 /\ used > 0)
    <3>1. Flushed.buffer[j][p] = 0
      BY <1>2, <2>3 DEF Clear
    <3>2. ~(8 * j + Ord(p) < used)
      BY <1>1, <2>1, <2>3
    <3> QED BY <3>1, <3>2
  <2> QED BY <2>2, <2>3
<1> QED BY <1>1, <1>2, <1>5, <1>6 DEF BufferSays

\* What a flush hands to the target follows what the target got.
LEMMA CompleteSays ==
  ASSUME WInv
  PROVE  /\ SentSays(SentWith(Complete))
         /\ ~wBroken => 8 * Len(SentWith(Complete)) = written - Flushed.bitPos
<1> DEFINE m == wBitPos \div 8
<1>1. /\ m \in Nat /\ wBitPos = 8 * m + Flushed.bitPos /\ Flushed.bitPos \in 0 .. 7
      /\ wBitPos \in Nat /\ written \in Nat /\ wBitPos <= written
  BY DEF WInv, Flushed
<1>2. Complete = [j \in 1 .. m |-> wBuffer[j - 1]]
  BY DEF Complete
<1> HIDE DEF m
<1>3. \A j \in 1 .. m : j - 1 \in WIndex
  BY <1>1, WriterAssumption DEF WInv, WIndex
<1>4. /\ wBuffer \in [WIndex -> Bytes]
      /\ \A j \in WIndex, p \in Places :
           wBuffer[j][p] = IF 8 * j + Ord(p) < wBitPos
                             THEN written - wBitPos + 8 * j + Ord(p) + 1 ELSE 0
  BY DEF WInv, BufferSays
<1>5. Complete \in Seq(Bytes) /\ Len(Complete) = m
  BY <1>1, <1>2, <1>3, <1>4
<1>6. CASE wBroken
  BY <1>6, EmptySeq DEF SentWith, SentSays
<1>7. CASE ~wBroken
  <2> DEFINE l == Len(sent)
  <2>1. SentWith(Complete) = sent \o Complete
    BY <1>7 DEF SentWith
  <2>2. sent \in Seq(Bytes)
    BY DEF WInv, SentSays
  <2>9. l \in Nat
    BY <2>2, LenProperties
  <2>3. written - wBitPos = 8 * l
    BY <1>7 DEF WInv
  <2>4. /\ sent \o Complete \in Seq(Bytes) /\ Len(sent \o Complete) = l + m
        /\ \A k \in 1 .. l + m :
             (sent \o Complete)[k] = IF k <= l THEN sent[k] ELSE Complete[k - l]
    BY <1>1, <1>5, <2>2, ConcatProperties
  <2>5. \A k \in 1 .. l, p \in Places : sent[k][p] = 8 * (k - 1) + Ord(p) + 1
    BY DEF WInv, SentSays
  <2> HIDE DEF l
  <2>6. ASSUME NEW k \in 1 .. l + m, NEW p \in Places
        PROVE  (sent \o Complete)[k][p] = 8 * (k - 1) + Ord(p) + 1
    <3>1. Ord(p) \in 0 .. 7 /\ k \in Nat /\ k >= 1
      BY <1>1, <2>9, OrdPlace DEF Places
    <3>2. CASE k <= l
      <4>1. k \in 1 .. l
        BY <2>9, <3>1, <3>2
      <4> QED BY <2>4, <2>5, <3>2, <4>1
    <3>3. CASE k > l
      <4>1. k - l \in 1 .. m /\ ~(k <= l)
        BY <1>1, <2>9, <3>1, <3>3
      <4>2. k - l - 1 \in WIndex
        BY <1>3, <4>1
      <4>3. (sent \o Complete)[k] = wBuffer[k - l - 1]
        BY <1>2, <2>4, <4>1
      <4>4. 8 * (k - l - 1) + Ord(p) < wBitPos
        BY <1>1, <2>9, <3>1, <4>1
      <4>5. wBuffer[k - l - 1][p] = written - wBitPos + 8 * (k - l - 1) + Ord(p) + 1
        BY <1>4, <4>2, <4>4
      <4>6. written - wBitPos + 8 * (k - l - 1) + Ord(p) + 1 = 8 * (k - 1) + Ord(p) + 1
        BY <2>9, <2>3, <3>1
      <4> QED BY <4>3, <4>5, <4>6
    <3>4. k <= l \/ k > l
      BY <2>9, <3>1
    <3> QED BY <3>2, <3>3, <3>4, Zenon
  <2>7. SentSays(sent \o Complete)
    BY <2>4, <2>6 DEF SentSays
  <2>8. 8 * (l + m) = written - Flushed.bitPos
    BY <1>1, <2>9, <2>3
  <2> QED BY <2>1, <2>4, <2>7, <2>8
<1> QED BY <1>6, <1>7

LEMMA InitWrites == WInit => WInv
<1> SUFFICES ASSUME WInit PROVE WInv
  OBVIOUS
<1>1. /\ wBuffer = [j \in WIndex |-> Clear] /\ wBitPos = 0 /\ sent = <<>> /\ written = 0
      /\ endian \in {"LE", "BE"}
  BY DEF WInit
<1>2. BufferSays(wBuffer, 0, 0)
  <2>1. ASSUME NEW j \in WIndex, NEW p \in Places
        PROVE  wBuffer[j][p] = 0 /\ ~(8 * j + Ord(p) < 0)
    BY <1>1, OrdPlace DEF Clear, WIndex, Places
  <2> QED BY <1>1, <2>1 DEF BufferSays, Bytes, Clear
<1>3. SentSays(sent) /\ Len(sent) = 0
  BY <1>1, EmptySeq DEF SentSays
<1> QED BY <1>1, <1>2, <1>3 DEF WInv

LEMMA FlushWrites == WInv /\ flush => WInv'
<1> SUFFICES ASSUME WInv, flush PROVE WInv'
  OBVIOUS
<1>1. /\ sent' = SentWith(Complete) /\ wBuffer' = Flushed.buffer /\ wBitPos' = Flushed.bitPos
      /\ UNCHANGED <<endian, written, wBroken>>
  BY DEF flush
<1>2. BufferSays(wBuffer, wBitPos, written - wBitPos)'
  BY <1>1, FlushedSays DEF BufferSays, Ord
<1>3. SentSays(sent)'
  BY <1>1, CompleteSays DEF SentSays, Ord
<1>4. ~wBroken' => written' - wBitPos' = 8 * Len(sent')
  BY <1>1, CompleteSays
<1>5. /\ wBitPos' \in Nat /\ wBitPos' <= written'
      /\ wBitPos' > 0 => WriterSize >= 2 /\ wBitPos' < 8 * WriterSize
  <2>1. /\ Flushed.bitPos \in 0 .. 7 /\ Flushed.bitPos <= written
        /\ Flushed.bitPos > 0 => wBitPos > 0
    BY FlushedSays DEF Flushed, WInv
  <2> QED BY <1>1, <2>1, WriterAssumption DEF WInv
<1> QED BY <1>1, <1>2, <1>3, <1>4, <1>5 DEF WInv

LEMMA FlushFailsWrites == WInv /\ FlushFails => WInv'
<1> SUFFICES ASSUME WInv, FlushFails PROVE WInv'
  OBVIOUS
<1>1. /\ sent' = <<>> /\ wBroken' = TRUE
      /\ UNCHANGED <<endian, wBuffer, wBitPos, written>>
  BY DEF FlushFails
<1>2. SentSays(sent)'
  BY <1>1, EmptySeq DEF SentSays
<1>3. BufferSays(wBuffer, wBitPos, written - wBitPos)'
  BY <1>1 DEF WInv, BufferSays, Ord
<1> QED BY <1>1, <1>2, <1>3 DEF WInv

\* For every number of bits that fits into the buffer behind an incomplete byte.
LEMMA WriteBitsWrites ==
  ASSUME HighBitsClear = TRUE, WInv, NEW n \in 1 .. 31, n + 7 < 8 * WriterSize, writeBits(n)
  PROVE  WInv'
<1> DEFINE full == wBitPos + n >= 8 * WriterSize
           w == IF full THEN Flushed ELSE [buffer |-> wBuffer, bitPos |-> wBitPos]
<1>1. /\ wBuffer' = writtenTo(w, n) /\ wBitPos' = w.bitPos + n
      /\ sent' = IF full THEN SentWith(Complete) ELSE sent
      /\ written' = written + n /\ UNCHANGED <<endian, wBroken>>
  BY DEF writeBits
<1>2. /\ w.bitPos \in Nat /\ w.bitPos <= written /\ w.bitPos + n < 8 * WriterSize
      /\ BufferSays(w.buffer, w.bitPos, written - w.bitPos)
  <2>1. CASE full
    <3>1. w = Flushed
      BY <2>1
    <3> HIDE DEF w
    <3>2. Flushed.bitPos \in 0 .. 7
      BY FlushedSays
    <3>3. Flushed.bitPos + n < 8 * WriterSize /\ Flushed.bitPos \in Nat
      BY <3>2, WriterAssumption
    <3> QED BY <3>1, <3>3, FlushedSays
  <2>2. CASE ~full
    BY <2>2, WriterAssumption DEF WInv
  <2> QED BY <2>1, <2>2
<1>3. endian \in {"LE", "BE"} /\ written \in Nat
  BY DEF WInv
<1>4. BufferSays(writtenTo(w, n), w.bitPos + n, written - w.bitPos)
  BY <1>2, <1>3, WrittenSays
<1>5. SentSays(sent)' /\ (~wBroken' => written - w.bitPos = 8 * Len(sent'))
  <2>1. CASE full
    BY <1>1, <2>1, CompleteSays DEF SentSays, Ord
  <2>2. CASE ~full
    BY <1>1, <2>2 DEF WInv, SentSays, Ord
  <2> QED BY <2>1, <2>2
<1> HIDE DEF w
<1>6. written' - wBitPos' = written - w.bitPos
  BY <1>1, <1>2, <1>3
<1>7. BufferSays(wBuffer, wBitPos, written - wBitPos)'
  BY <1>1, <1>4, <1>6 DEF BufferSays, Ord
<1>8. wBitPos' \in Nat /\ written' \in Nat /\ wBitPos' <= written' /\ wBitPos' < 8 * WriterSize
  BY <1>1, <1>2, <1>3
<1>9. WriterSize >= 2
  BY <1>2, WriterAssumption DEF WInv
<1> QED BY <1>1, <1>3, <1>5, <1>6, <1>7, <1>8, <1>9 DEF WInv

LEMMA WriteStep == HighBitsClear = TRUE /\ WInv /\ [WNext]_wVars => WInv'
<1> SUFFICES ASSUME HighBitsClear = TRUE, WInv, [WNext]_wVars PROVE WInv'
  OBVIOUS
<1>1. ASSUME NEW n \in WriteCounts, writeBits(n) PROVE WInv'
  <2>1. n \in 1 .. 31 /\ n + 7 < 8 * WriterSize
    BY WriterAssumption
  <2> QED BY <1>1, <2>1, WriteBitsWrites
<1>2. CASE flushByte
  <2> DEFINE n == 8 - (wBitPos % 8)
  <2>1. n \in 1 .. 31 /\ n + 7 < 8 * WriterSize
    <3>1. wBitPos \in Nat /\ wBitPos % 8 # 0 /\ (wBitPos > 0 => WriterSize >= 2)
      BY <1>2 DEF flushByte, WInv
    <3>2. wBitPos > 0 /\ n \in 1 .. 7
      BY <3>1
    <3> HIDE DEF n
    <3> QED BY <3>1, <3>2, WriterAssumption
  <2>2. writeBits(n)
    BY <1>2 DEF flushByte
  <2> HIDE DEF n
  <2> QED BY <2>1, <2>2, WriteBitsWrites
<1>3. CASE flush
  BY <1>3, FlushWrites
<1>4. CASE FlushFails
  BY <1>4, FlushFailsWrites
<1>5. ASSUME NEW n \in WriteCounts, writeFails(n) PROVE WInv'
  BY <1>5, FlushFailsWrites DEF writeFails
<1>6. CASE UNCHANGED wVars
  BY <1>6 DEF wVars, WInv, BufferSays, SentSays, Ord
<1> QED BY <1>1, <1>2, <1>3, <1>4, <1>5, <1>6 DEF WNext

\* A bit in the order of reading is in the place of its byte that was written then.
LEMMA BitInLemma ==
  ASSUME NEW bytes, NEW k \in Nat, k > 0, endian \in {"LE", "BE"}
  PROVE  \E m \in Nat, p \in Places :
           /\ m >= 1 /\ k = 8 * (m - 1) + Ord(p) + 1
           /\ BitIn(bytes, k) = bytes[m][p]
<1> DEFINE m == (k + 7) \div 8
           q == (k - 1) % 8
<1>1. m \in Nat /\ m >= 1 /\ q \in Nat /\ q <= 7 /\ k = 8 * (m - 1) + q + 1
  OBVIOUS
<1>2. BitIn(bytes, k) = bytes[m][IF endian = "LE" THEN q ELSE 7 - q]
  BY DEF BitIn
<1> HIDE DEF m, q
<1>3. CASE endian = "LE"
  <2>1. q \in Places
    BY <1>1 DEF Places
  <2>2. Ord(q) = q /\ BitIn(bytes, k) = bytes[m][q]
    BY <1>2, <1>3 DEF Ord
  <2> QED BY <1>1, <2>1, <2>2
<1>4. CASE endian = "BE"
  <2>1. 7 - q \in Places /\ 7 - (7 - q) = q
    BY <1>1 DEF Places
  <2>2. Ord(7 - q) = q /\ BitIn(bytes, k) = bytes[m][7 - q]
    BY <1>2, <1>4, <2>1 DEF Ord
  <2> QED BY <1>1, <2>1, <2>2
<1> QED BY <1>3, <1>4

LEMMA WritesInOrder == WInv => BitsInOrder
<1> SUFFICES ASSUME WInv PROVE BitsInOrder
  OBVIOUS
<1> DEFINE buffered == [j \in 1 .. WriterSize |-> wBuffer[j - 1]]
           before == written - wBitPos
<1>1. ASSUME NEW k \in 1 .. 8 * WriterSize
      PROVE  BitIn(buffered, k) = IF k <= wBitPos THEN before + k ELSE 0
  <2>1. k \in Nat /\ k > 0 /\ k <= 8 * WriterSize /\ WriterSize \in Nat
    BY WriterAssumption
  <2>2. PICK m \in Nat, p \in Places :
          /\ m >= 1 /\ k = 8 * (m - 1) + Ord(p) + 1
          /\ BitIn(buffered, k) = buffered[m][p]
    BY <2>1, BitInLemma, Zenon DEF WInv
  <2>3. Ord(p) \in 0 .. 7
    BY OrdPlace DEF Places
  <2>4. m \in 1 .. WriterSize /\ m - 1 \in WIndex
    BY <2>1, <2>2, <2>3 DEF WIndex
  <2>5. buffered[m][p] = wBuffer[m - 1][p]
    BY <2>4
  <2>6. wBuffer[m - 1][p] = IF 8 * (m - 1) + Ord(p) < wBitPos
                              THEN before + 8 * (m - 1) + Ord(p) + 1 ELSE 0
    BY <2>4 DEF WInv, BufferSays
  <2>7. written \in Nat /\ wBitPos \in Nat
    BY DEF WInv
  <2>8. k = 8 * (m - 1) + Ord(p) + 1 /\ m \in Nat
    BY <2>2
  <2>9. 8 * (m - 1) + Ord(p) < wBitPos <=> k <= wBitPos
    BY <2>3, <2>7, <2>8
  <2>10. before + 8 * (m - 1) + Ord(p) + 1 = before + k
    BY <2>3, <2>7, <2>8
  <2> QED BY <2>2, <2>5, <2>6, <2>9, <2>10, Zenon
<1>2. ASSUME ~wBroken
      PROVE  before = 8 * Len(sent) /\ \A k \in 1 .. before : BitIn(sent, k) = k
  <2>1. before = 8 * Len(sent)
    BY <1>2 DEF WInv
  <2>2. Len(sent) \in Nat
    BY LenProperties DEF WInv, SentSays
  <2>3. ASSUME NEW k \in 1 .. before
        PROVE  BitIn(sent, k) = k
    <3>1. k \in Nat /\ k > 0 /\ k <= 8 * Len(sent)
      BY <2>1, <2>2
    <3>2. PICK m \in Nat, p \in Places :
            /\ m >= 1 /\ k = 8 * (m - 1) + Ord(p) + 1
            /\ BitIn(sent, k) = sent[m][p]
      BY <3>1, BitInLemma, Zenon DEF WInv
    <3>3. Ord(p) \in 0 .. 7
      BY OrdPlace DEF Places
    <3>4. m \in 1 .. Len(sent)
      BY <2>2, <3>1, <3>2, <3>3
    <3>5. sent[m][p] = 8 * (m - 1) + Ord(p) + 1
      BY <3>4, Zenon DEF WInv, SentSays
    <3> QED BY <3>2, <3>5, Zenon
  <2> QED BY <2>1, <2>3
<1> QED BY <1>1, <1>2, Zenon DEF BitsInOrder

\* Whatever widths bits are written in and wherever flushes fall or fail, the target and the
\* buffer have them in order and once each, when the bits above a value are clear.
THEOREM WrittenInOrder == ASSUME HighBitsClear = TRUE PROVE WSpec => []BitsInOrder
<1>1. WInv /\ [WNext]_wVars => WInv'
  BY WriteStep
<1> QED BY <1>1, InitWrites, WritesInOrder, PTL DEF WSpec

-----------------------------------------------------------------------------
(* DeflateTables *)

\* A set of numbers has a least one, by which follows what holds for all of them.
LEMMA LeastNumber ==
  ASSUME NEW T, T \subseteq Nat, T # {}
  PROVE  \E n \in T : \A k \in T : n <= k
<1> DEFINE R == {p \in Nat \X Nat : p[1] < p[2]}
<1>1. IsWellFoundedOn(R, Nat)
  BY NatLessThanWellFounded DEF OpToRel
<1>2. \E x \in T : \A y \in T : ~(<<y, x>> \in R)
  BY <1>1, WFMin
<1>3. \A k, n \in Nat : ~(<<k, n>> \in R) => n <= k
  OBVIOUS
<1> HIDE DEF R
<1> QED BY <1>2, <1>3

-----------------------------------------------------------------------------
(* What runs stand for *)

\* Does f say of each of the first n runs what the runs up to it stand for?
Expands(f, rs, n) ==
  f = [k \in 0 .. n |-> IF k = 0 THEN <<>> ELSE Extended(f[k - 1], rs[k])]

Course(rs) == CHOOSE f : Expands(f, rs, Len(rs))

LEMMA ExpansionCourse == \A rs : Expansion(rs) = Course(rs)[Len(rs)]
BY DEF Expansion, Course, Expands

\* There is such an f.
LEMMA ExpandsExists ==
  ASSUME NEW rs
  PROVE  \A n \in Nat : \E f : Expands(f, rs, n)
<1> DEFINE T == {n \in Nat : ~\E f : Expands(f, rs, n)}
<1>1. ASSUME NEW n \in T, \A k \in T : n <= k PROVE FALSE
  <2>1. CASE n = 0
    <3> DEFINE g == [k \in 0 .. 0 |-> <<>>]
    <3>1. \A k \in 0 .. 0 : k = 0
      OBVIOUS
    <3>2. g = [k \in 0 .. 0 |-> IF k = 0 THEN <<>> ELSE Extended(g[k - 1], rs[k])]
      BY <3>1
    <3>3. Expands(g, rs, 0)
      BY <3>2 DEF Expands
    <3> QED BY <2>1, <3>3
  <2>2. CASE n # 0
    <3>1. n \in Nat /\ n - 1 \in Nat /\ ~(n <= n - 1)
      BY <2>2
    <3>2. PICK f : Expands(f, rs, n - 1)
      BY <1>1, <3>1
    <3>3. \A k \in 0 .. n - 1 : f[k] = IF k = 0 THEN <<>> ELSE Extended(f[k - 1], rs[k])
      BY <3>2 DEF Expands
    <3> DEFINE g == [k \in 0 .. n |-> IF k = n THEN Extended(f[n - 1], rs[n]) ELSE f[k]]
    <3>4. ASSUME NEW k \in 0 .. n
          PROVE  g[k] = IF k = 0 THEN <<>> ELSE Extended(g[k - 1], rs[k])
      <4>1. k = n \/ k \in 0 .. n - 1
        BY <3>1
      <4>2. k # 0 => k - 1 \in 0 .. n /\ k - 1 # n
        BY <3>1
      <4>3. k # 0 => g[k - 1] = f[k - 1]
        BY <4>2
      <4> QED BY <2>2, <3>1, <3>3, <4>1, <4>3
    <3>5. Expands(g, rs, n)
      <4>1. g = [k \in 0 .. n |-> IF k = 0 THEN <<>> ELSE Extended(g[k - 1], rs[k])]
        BY <3>4
      <4> QED BY <4>1 DEF Expands
    <3> QED BY <3>5
  <2> QED BY <2>1, <2>2
<1>2. T = {}
  BY <1>1, LeastNumber
<1> QED BY <1>2

LEMMA CourseLemma ==
  ASSUME NEW rs, Len(rs) \in Nat
  PROVE  /\ Course(rs)[0] = <<>>
         /\ \A k \in 1 .. Len(rs) : Course(rs)[k] = Extended(Course(rs)[k - 1], rs[k])
<1> DEFINE f == Course(rs)
           n == Len(rs)
<1>1. Expands(f, rs, n)
  BY ExpandsExists DEF Course
<1> HIDE DEF f, n
<1>2. f = [k \in 0 .. n |-> IF k = 0 THEN <<>> ELSE Extended(f[k - 1], rs[k])]
  BY <1>1 DEF Expands
<1>3. n \in Nat
  BY DEF n
<1>4. f[0] = <<>>
  BY <1>2, <1>3
<1>5. ASSUME NEW k \in 1 .. n
      PROVE  f[k] = Extended(f[k - 1], rs[k])
  <2>1. k \in 0 .. n /\ k # 0
    BY <1>3
  <2> QED BY <1>2, <2>1
<1> QED BY <1>4, <1>5 DEF f, n

\* It depends on the runs before only.
LEMMA CourseAgree ==
  ASSUME NEW rs, NEW qs, Len(rs) \in Nat, Len(qs) \in Nat, NEW m \in Nat,
         m <= Len(rs), m <= Len(qs), \A k \in 1 .. m : rs[k] = qs[k]
  PROVE  Course(rs)[m] = Course(qs)[m]
<1> DEFINE T == {n \in 0 .. m : Course(rs)[n] # Course(qs)[n]}
<1>1. ASSUME NEW n \in T, \A k \in T : n <= k PROVE FALSE
  <2>1. n # 0
    BY CourseLemma
  <2>2. n \in 1 .. Len(rs) /\ n \in 1 .. Len(qs) /\ n \in 1 .. m /\ n - 1 \in 0 .. m
        /\ ~(n <= n - 1)
    BY <2>1
  <2>3. Course(rs)[n - 1] = Course(qs)[n - 1]
    BY <1>1, <2>2
  <2>4. rs[n] = qs[n]
    BY <2>2
  <2>5. Course(rs)[n] = Extended(Course(rs)[n - 1], rs[n])
    BY <2>2, CourseLemma
  <2>6. Course(qs)[n] = Extended(Course(qs)[n - 1], qs[n])
    BY <2>2, CourseLemma
  <2> QED BY <2>3, <2>4, <2>5, <2>6
<1>2. T = {}
  <2> T \subseteq Nat
    OBVIOUS
  <2> HIDE DEF T
  <2> QED BY <1>1, LeastNumber
<1>3. m \in 0 .. m
  OBVIOUS
<1> QED BY <1>2, <1>3

\* One run more extends what the runs before stand for.
LEMMA ExpansionNone == Expansion(<<>>) = <<>>
<1>1. Len(<<>>) = 0
  BY EmptySeq
<1> QED BY <1>1, ExpansionCourse, CourseLemma

LEMMA ExpansionAppend ==
  ASSUME NEW R, NEW rs \in Seq(R), NEW run \in R
  PROVE  Expansion(Append(rs, run)) = Extended(Expansion(rs), run)
<1> DEFINE n == Len(rs)
           qs == Append(rs, run)
<1>1. n \in Nat
  BY LenProperties
<1>2. Len(qs) = n + 1 /\ qs[n + 1] = run /\ \A k \in 1 .. n : qs[k] = rs[k]
  BY AppendProperties
<1> HIDE DEF qs
<1>3. Course(qs)[n + 1] = Extended(Course(qs)[n + 1 - 1], qs[n + 1])
  <2>1. n + 1 \in 1 .. Len(qs)
    BY <1>1, <1>2
  <2> QED BY <1>1, <1>2, <2>1, CourseLemma
<1>4. Course(qs)[n] = Course(rs)[n]
  BY <1>1, <1>2, CourseAgree
<1>5. n + 1 - 1 = n
  BY <1>1
<1> QED BY <1>2, <1>3, <1>4, <1>5, ExpansionCourse DEF qs

\* What is read of code lengths: a length, or a repetition.
Run == [kind : {"length", "repeat", "zeros"}, level : Nat, num : Nat]

LEMMA ExtendedLemma ==
  ASSUME NEW ls \in Seq(Nat), NEW run \in Run, run.kind = "repeat" => Len(ls) > 0
  PROVE  /\ Extended(ls, run) \in Seq(Nat)
         /\ Len(Extended(ls, run)) = Len(ls) + run.num
         /\ \A k \in 1 .. Len(ls) : Extended(ls, run)[k] = ls[k]
         /\ \A k \in Len(ls) + 1 .. Len(ls) + run.num :
              Extended(ls, run)[k] = IF run.kind = "repeat" THEN ls[Len(ls)] ELSE run.level
<1> DEFINE x == IF run.kind = "repeat" THEN ls[Len(ls)] ELSE run.level
           more == [k \in 1 .. run.num |-> x]
           n == Len(ls)
           m == run.num
<1>1. n \in Nat /\ m \in Nat
  BY LenProperties DEF Run
<1>2. x \in Nat
  <2>1. CASE run.kind = "repeat"
    <3>1. n \in 1 .. n
      BY <1>1, <2>1
    <3> QED BY <2>1, <3>1, ElementOfSeq
  <2>2. CASE run.kind # "repeat"
    BY <2>2 DEF Run
  <2> QED BY <2>1, <2>2
<1>3. Extended(ls, run) = ls \o more
  BY DEF Extended
<1> HIDE DEF x
<1>4. more \in Seq(Nat) /\ Len(more) = m
  BY <1>1, <1>2
<1>5. \A k \in 1 .. m : more[k] = x
  OBVIOUS
<1> HIDE DEF more, n, m
<1>6. /\ ls \o more \in Seq(Nat) /\ Len(ls \o more) = n + m
      /\ \A k \in 1 .. n + m : (ls \o more)[k] = IF k <= n THEN ls[k] ELSE more[k - n]
  BY <1>4, ConcatProperties DEF n
<1>7. ASSUME NEW k \in 1 .. n
      PROVE  (ls \o more)[k] = ls[k]
  <2>1. k \in 1 .. n + m /\ k <= n
    BY <1>1
  <2> QED BY <1>6, <2>1
<1>8. ASSUME NEW k \in n + 1 .. n + m
      PROVE  (ls \o more)[k] = x
  <2>1. k \in 1 .. n + m /\ ~(k <= n) /\ k - n \in 1 .. m
    BY <1>1
  <2> QED BY <1>5, <1>6, <2>1
<1> QED BY <1>3, <1>6, <1>7, <1>8 DEF x, n, m

-----------------------------------------------------------------------------
(* Reading them *)

\* What is there of the lengths of both codes is what was read stands for, of which the last
\* run may have stood for more than there is room for.
Reads ==
  /\ Expanded \in Seq(Nat)
  /\ i \in Nat /\ i <= NumSymbols /\ i <= Len(Expanded)
  /\ i < NumSymbols => Len(Expanded) = i
  /\ \A k \in 0 .. i - 1 : tmpLevels[k] = Expanded[k + 1]

TablesInv ==
  /\ numLitLenLevels \in Nat /\ numLitLenLevels <= MainSize
  /\ mNumDistLevels \in Nat /\ mNumDistLevels <= DistSize
  /\ runs \in Seq(Run)
  /\ pc = "header" => runs = <<>>
  /\ pc = "symbols" => numLitLenLevels >= MainMin /\ Reads
  /\ LevelsAreTheRuns /\ NoUndefinedLevel

LEMMA TableSizes ==
  /\ MainMin \in Nat /\ MainSize \in Nat /\ MainMin <= MainSize
  /\ DistSize \in Nat /\ DistTableSize32 \in Nat /\ DistTableSize32 <= DistSize
<1>1. /\ MainMin \in Nat \ {0} /\ MainSize \in Nat /\ MainMin <= MainSize
      /\ DistSize \in Nat \ {0} /\ DistTableSize32 \in 1 .. DistSize
  BY TablesAssumption, Zenon
<1> QED BY <1>1

LEMMA LevelsAreNumbers ==
  /\ Levels \subseteq Nat
  /\ \A num \in Repeats \cup Zeros : num \in Nat /\ num > 0
<1>1. Levels \subseteq Nat /\ Repeats \subseteq Nat \ {0} /\ Zeros \subseteq Nat \ {0}
  BY TablesAssumption, Zenon
<1>2. \A num \in Nat \ {0} : num \in Nat /\ num > 0
  OBVIOUS
<1> QED BY <1>1, <1>2, Zenon

LEMMA InitTables == TablesInit => TablesInv
<1> SUFFICES ASSUME TablesInit PROVE TablesInv
  OBVIOUS
<1>1. /\ pc = "header" /\ mNumDistLevels = 0 /\ numLitLenLevels = 0 /\ runs = <<>>
  BY DEF TablesInit
<1>2. runs \in Seq(Run)
  BY <1>1, EmptySeq
<1> QED BY <1>1, <1>2, TableSizes DEF TablesInv, LevelsAreTheRuns, NoUndefinedLevel

\* A run is read: Fill() and the run behind those before it.
LEMMA FillReads ==
  ASSUME TablesInv, Reading, NEW run \in Run, NEW level, Fill(level, run.num), run.num > 0,
         run.kind = "repeat" => i > 0 /\ level = tmpLevels[i - 1],
         run.kind # "repeat" => level = run.level,
         runs' = Append(runs, run), UNCHANGED <<pc, countVars, litLenLevels, distLevels>>
  PROVE  TablesInv'
<1> DEFINE e == Expanded
           f == Extended(e, run)
           n == NumSymbols
           m == run.num
<1>1. /\ pc = "symbols" /\ i < n
      /\ e \in Seq(Nat) /\ i \in Nat /\ Len(e) = i
      /\ \A k \in 0 .. i - 1 : tmpLevels[k] = e[k + 1]
      /\ n \in Nat /\ n <= MainSize + DistSize /\ m \in Nat
  <2>1. pc = "symbols" /\ i < n
    BY DEF Reading
  <2>2. /\ e \in Seq(Nat) /\ i \in Nat /\ Len(e) = i
        /\ \A k \in 0 .. i - 1 : tmpLevels[k] = e[k + 1]
    BY <2>1 DEF TablesInv, Reads
  <2>3. n \in Nat /\ n <= MainSize + DistSize
    BY TableSizes DEF TablesInv, NumSymbols
  <2> QED BY <2>1, <2>2, <2>3 DEF Run
<1>2. Expanded' = f
  <2>1. Expansion(Append(runs, run)) = Extended(Expansion(runs), run)
    BY ExpansionAppend DEF TablesInv
  <2> QED BY <2>1 DEF Expanded
<1>3. NumSymbols' = n
  BY DEF NumSymbols, countVars
<1>4. /\ i' = Lesser(i + m, n)
      /\ tmpLevels' = [k \in Tmp |-> IF i <= k /\ k < Lesser(i + m, n) THEN level
                                     ELSE tmpLevels[k]]
  BY DEF Fill
<1>5. level = IF run.kind = "repeat" THEN e[i] ELSE run.level
  <2>1. CASE run.kind = "repeat"
    <3>1. i - 1 \in 0 .. i - 1 /\ i - 1 + 1 = i
      BY <1>1, <2>1
    <3> QED BY <1>1, <2>1, <3>1
  <2> QED BY <2>1
<1> HIDE DEF n, e, m
<1>6. /\ f \in Seq(Nat)
      /\ Len(f) = i + m
      /\ \A k \in 1 .. i : f[k] = e[k]
      /\ \A k \in i + 1 .. i + m : f[k] = level
  <2>1. run.kind = "repeat" => Len(e) > 0
    BY <1>1
  <2> QED BY <1>1, <1>5, <2>1, ExtendedLemma DEF m
<1> HIDE DEF f
<1>7. /\ i' \in Nat /\ i' <= n /\ i' <= i + m /\ (i' < n => i' = i + m)
  BY <1>1, <1>4 DEF Lesser
<1>8. ASSUME NEW k \in 0 .. i' - 1
      PROVE  tmpLevels'[k] = f[k + 1]
  <2>1. k \in Nat /\ k < i' /\ k < MainSize + DistSize
    <3>1. i' \in Nat /\ i' <= n /\ n <= MainSize + DistSize /\ n \in Nat
      BY <1>1, <1>7
    <3>2. \A a, c \in Nat : a <= c => \A b \in 0 .. a - 1 : b \in Nat /\ b < a /\ b < c
      OBVIOUS
    <3>3. i' <= MainSize + DistSize /\ MainSize + DistSize \in Nat
      BY <3>1, TableSizes
    <3> QED BY <3>1, <3>2, <3>3, Zenon
  <2>4. k \in Tmp
    BY <2>1, TableSizes DEF Tmp
  <2>2. CASE k < i
    <3>1. k \in 0 .. i - 1 /\ k + 1 \in 1 .. i /\ ~(i <= k)
      BY <1>1, <2>1, <2>2
    <3> QED BY <1>1, <1>4, <1>6, <2>1, <2>4, <3>1
  <2>3. CASE ~(k < i)
    <3>1. k + 1 \in i + 1 .. i + m /\ i <= k
      BY <1>1, <1>7, <2>1, <2>3
    <3> QED BY <1>4, <1>6, <2>1, <2>4, <3>1
  <2> QED BY <2>2, <2>3
<1>9. Reads'
  BY <1>2, <1>3, <1>6, <1>7, <1>8 DEF Reads
<1>10. runs' \in Seq(Run)
  BY AppendProperties DEF TablesInv
<1>11. pc' = "symbols"
  BY <1>1
<1>12. LevelsAreTheRuns' /\ NoUndefinedLevel'
  BY <1>11 DEF LevelsAreTheRuns, NoUndefinedLevel
<1>13. /\ numLitLenLevels' \in Nat /\ numLitLenLevels' <= MainSize
       /\ mNumDistLevels' \in Nat /\ mNumDistLevels' <= DistSize
       /\ numLitLenLevels' >= MainMin
  BY <1>1 DEF TablesInv, countVars
<1> QED BY <1>9, <1>10, <1>11, <1>12, <1>13 DEF TablesInv

LEMMA DynamicReads == TablesInv /\ DynamicBlock => TablesInv'
<1> SUFFICES ASSUME TablesInv, DynamicBlock PROVE TablesInv'
  OBVIOUS
<1>1. /\ numLitLenLevels' \in MainMin .. MainSize /\ mNumDistLevels' \in 1 .. DistSize
      /\ pc' \in {"corrupted", "symbols"} /\ i' = 0 /\ runs' = <<>>
  BY DEF DynamicBlock, Corrupt
<1>2. /\ numLitLenLevels' \in Nat /\ numLitLenLevels' <= MainSize
      /\ mNumDistLevels' \in Nat /\ mNumDistLevels' <= DistSize
      /\ numLitLenLevels' >= MainMin
  BY <1>1, TableSizes
<1>3. Expanded' = <<>>
  BY <1>1, ExpansionNone DEF Expanded
<1>4. Len(<<>>) = 0 /\ <<>> \in Seq(Nat) /\ <<>> \in Seq(Run)
  BY EmptySeq
<1>5. Reads'
  <2>1. numLitLenLevels' + mNumDistLevels' >= 0
    <3>1. \A a, b \in Nat : a + b >= 0
      OBVIOUS
    <3> QED BY <1>2, <3>1
  <2>2. NumSymbols' >= 0
    BY <2>1 DEF NumSymbols
  <2> QED BY <1>1, <1>3, <1>4, <2>2 DEF Reads
<1>6. LevelsAreTheRuns' /\ NoUndefinedLevel'
  BY <1>1 DEF LevelsAreTheRuns, NoUndefinedLevel
<1> QED BY <1>1, <1>2, <1>4, <1>5, <1>6 DEF TablesInv

LEMMA CopyReads == TablesInv /\ Copy => TablesInv'
<1> SUFFICES ASSUME TablesInv, Copy PROVE TablesInv'
  OBVIOUS
<1> DEFINE l == numLitLenLevels
           d == mNumDistLevels
           e == Expanded
<1>1. /\ litLenLevels' = [s \in Main |-> IF s < l THEN tmpLevels[s] ELSE Cleared[s]]
      /\ distLevels' = [s \in Dist |-> IF s < d THEN tmpLevels[l + s] ELSE 0]
      /\ pc' = "done"
      /\ UNCHANGED <<modeVars, countVars, tmpLevels, i, runs>>
  BY DEF Copy
<1>2. /\ pc = "symbols" /\ i >= NumSymbols
  BY DEF Copy
<1>3. /\ l \in Nat /\ l <= MainSize /\ d \in Nat /\ d <= DistSize /\ l >= MainMin
      /\ e \in Seq(Nat) /\ i = l + d /\ l + d <= Len(e) /\ Len(e) \in Nat
      /\ \A k \in 0 .. l + d - 1 : tmpLevels[k] = e[k + 1]
  <2>1. i \in Nat /\ i <= NumSymbols /\ NumSymbols = l + d
    BY <1>2 DEF TablesInv, Reads, NumSymbols
  <2>2. l \in Nat /\ d \in Nat
    BY DEF TablesInv
  <2>3. i = l + d
    BY <1>2, <2>1, <2>2
  <2>4. e \in Seq(Nat)
    BY <1>2 DEF TablesInv, Reads
  <2>5. Len(e) \in Nat
    BY <2>4, LenProperties
  <2> QED BY <1>2, <2>2, <2>3, <2>4, <2>5, SMTT(40) DEF TablesInv, Reads
<1> HIDE DEF l, d, e
<1>4. ASSUME NEW s \in Main
      PROVE  /\ litLenLevels'[s] = IF s < l THEN e[s + 1] ELSE 0
             /\ litLenLevels'[s] # Undefined
  <2>1. s \in Nat
    BY DEF Main
  <2>2. CASE s < l
    <3>1. s \in 0 .. l + d - 1 /\ s + 1 \in 1 .. Len(e)
      BY <1>3, <2>1, <2>2
    <3>2. litLenLevels'[s] = e[s + 1]
      BY <1>1, <1>3, <2>2, <3>1
    <3>3. e[s + 1] \in Nat
      BY <1>3, <3>1, ElementOfSeq
    <3> QED BY <2>2, <3>2, <3>3 DEF Undefined
  <2>3. CASE ~(s < l)
    <3>1. s >= MainMin
      BY <1>3, <2>1, <2>3, TableSizes
    <3>2. litLenLevels'[s] = 0
      BY <1>1, <2>3, <3>1 DEF Cleared
    <3> QED BY <2>3, <3>2 DEF Undefined
  <2> QED BY <2>2, <2>3
<1>5. ASSUME NEW s \in Dist
      PROVE  /\ distLevels'[s] = IF s < d THEN e[l + s + 1] ELSE 0
             /\ distLevels'[s] # Undefined
  <2>1. s \in Nat
    BY DEF Dist
  <2>2. CASE s < d
    <3>1. l + s \in 0 .. l + d - 1 /\ l + s + 1 \in 1 .. Len(e)
      BY <1>3, <2>1, <2>2
    <3>2. distLevels'[s] = e[l + s + 1]
      BY <1>1, <1>3, <2>2, <3>1
    <3>3. e[l + s + 1] \in Nat
      BY <1>3, <3>1, ElementOfSeq
    <3> QED BY <2>2, <3>2, <3>3 DEF Undefined
  <2>3. CASE ~(s < d)
    BY <1>1, <2>3 DEF Undefined
  <2> QED BY <2>2, <2>3
<1>6. Expanded' = e /\ numLitLenLevels' = l /\ mNumDistLevels' = d
  BY <1>1 DEF Expanded, e, l, d, countVars
<1>7. LevelsAreTheRuns'
  BY <1>4, <1>5, <1>6 DEF LevelsAreTheRuns
<1>8. NoUndefinedLevel'
  BY <1>4, <1>5 DEF NoUndefinedLevel
<1>9. runs' \in Seq(Run)
  BY <1>1 DEF TablesInv
<1> QED BY <1>1, <1>3, <1>6, <1>7, <1>8, <1>9 DEF TablesInv

LEMMA TablesStep == TablesInv /\ [TablesNext]_tablesVars => TablesInv'
<1> SUFFICES ASSUME TablesInv, [TablesNext]_tablesVars PROVE TablesInv'
  OBVIOUS
<1>1. ASSUME UNCHANGED <<countVars, runs>>, pc' = "corrupted"
      PROVE  TablesInv'
  BY <1>1 DEF TablesInv, countVars, LevelsAreTheRuns, NoUndefinedLevel
<1>2. CASE BadType \/ RepeatNothing \/ BadNumber
  BY <1>1, <1>2 DEF BadType, RepeatNothing, BadNumber, Corrupt
<1>3. CASE StoredBlock
  <2>1. mStoredMode' = TRUE /\ UNCHANGED <<countVars, runs>> /\ pc' \in {"done", "corrupted"}
    BY <1>3 DEF StoredBlock, Corrupt
  <2> QED BY <2>1 DEF TablesInv, countVars, LevelsAreTheRuns, NoUndefinedLevel
<1>4. CASE FixedBlock
  <2>1. /\ pc = "header" /\ pc' = "done" /\ UNCHANGED <<numLitLenLevels, runs>>
        /\ mNumDistLevels' \in {DistSize, DistTableSize32}
        /\ litLenLevels' = [s \in Main |-> CASE s < 144 -> 8 [] s \in 144 .. 255 -> 9
                                             [] s \in 256 .. 279 -> 7 [] OTHER -> 8]
        /\ distLevels' = [s \in Dist |-> 5]
    BY <1>4 DEF FixedBlock
  <2>2. runs' = <<>>
    BY <2>1 DEF TablesInv
  <2>3. LevelsAreTheRuns'
    BY <2>2 DEF LevelsAreTheRuns
  <2>4. NoUndefinedLevel'
    <3>1. ASSUME NEW s \in Main
          PROVE  litLenLevels'[s] # Undefined
      <4>1. litLenLevels'[s] \in {7, 8, 9}
        BY <2>1
      <4> QED BY <4>1 DEF Undefined
    <3>2. \A s \in Dist : distLevels'[s] # Undefined
      BY <2>1 DEF Undefined
    <3> QED BY <3>1, <3>2 DEF NoUndefinedLevel
  <2>5. mNumDistLevels' \in Nat /\ mNumDistLevels' <= DistSize
    BY <2>1, TableSizes
  <2> QED BY <2>1, <2>2, <2>3, <2>4, <2>5 DEF TablesInv
<1>5. CASE DynamicBlock
  BY <1>5, DynamicReads
<1>6. ASSUME NEW number \in Levels, Direct(number)
      PROVE  TablesInv'
  <2> DEFINE run == [kind |-> "length", level |-> number, num |-> 1]
  <2>1. run \in Run /\ run.num = 1 /\ run.level = number /\ run.kind = "length"
    BY LevelsAreNumbers DEF Run
  <2>2. /\ Reading /\ Fill(number, 1) /\ runs' = Append(runs, run)
        /\ UNCHANGED <<pc, countVars, litLenLevels, distLevels>>
    BY <1>6 DEF Direct
  <2>3. run.kind # "repeat" /\ number = run.level /\ run.num > 0
    BY <2>1
  <2> HIDE DEF run
  <2> QED BY <2>1, <2>2, <2>3, FillReads, ZenonT(40)
<1>7. ASSUME NEW num \in Repeats, Repeat(num)
      PROVE  TablesInv'
  <2> DEFINE run == [kind |-> "repeat", level |-> 0, num |-> num]
  <2>1. run \in Run /\ run.num = num /\ run.kind = "repeat" /\ num > 0
    BY LevelsAreNumbers DEF Run
  <2>2. /\ Reading /\ i > 0 /\ Fill(tmpLevels[i - 1], num) /\ runs' = Append(runs, run)
        /\ UNCHANGED <<pc, countVars, litLenLevels, distLevels>>
    BY <1>7 DEF Repeat
  <2> HIDE DEF run
  <2> QED BY <2>1, <2>2, FillReads
<1>8. ASSUME NEW num \in Zeros, Zero(num)
      PROVE  TablesInv'
  <2> DEFINE run == [kind |-> "zeros", level |-> 0, num |-> num]
  <2>1. run \in Run /\ run.num = num /\ run.level = 0 /\ run.kind = "zeros" /\ num > 0
    BY LevelsAreNumbers DEF Run
  <2>2. /\ Reading /\ Fill(0, num) /\ runs' = Append(runs, run)
        /\ UNCHANGED <<pc, countVars, litLenLevels, distLevels>>
    BY <1>8 DEF Zero
  <2>3. run.kind # "repeat" /\ 0 = run.level
    BY <2>1
  <2> HIDE DEF run
  <2> QED BY <2>1, <2>2, <2>3, FillReads, ZenonT(40)
<1>9. CASE Copy
  BY <1>9, CopyReads
<1>10. CASE NextBlock
  <2>1. pc' = "header" /\ runs' = <<>> /\ UNCHANGED countVars
    BY <1>10 DEF NextBlock
  <2>2. runs' \in Seq(Run)
    BY <2>1, EmptySeq
  <2> QED BY <2>1, <2>2 DEF TablesInv, countVars, LevelsAreTheRuns, NoUndefinedLevel
<1>11. CASE UNCHANGED tablesVars
  BY <1>11 DEF TablesInv, tablesVars, modeVars, countVars, LevelsAreTheRuns, NoUndefinedLevel, Expanded,
        Reads, NumSymbols
<1> QED BY <1>2, <1>3, <1>4, <1>5, <1>6, <1>7, <1>8, <1>9, <1>10, <1>11 DEF TablesNext

-----------------------------------------------------------------------------
(* LevelTableCode *)

-----------------------------------------------------------------------------
(* Writing them *)

Copies(level, n) == [k \in 1 .. n |-> level]

LEMMA EncSizes ==
  /\ EncMainMin \in Nat /\ EncMainMin >= 1 /\ EncMain \in Nat /\ EncMainMin <= EncMain
  /\ EncDist \in Nat /\ EncDist >= 1
  /\ RepeatMax \in Nat /\ RepeatMax >= 3 /\ ZerosMax \in Nat /\ ZerosMax >= 3
  /\ ManyZerosMax \in Nat /\ ManyZerosMax > ZerosMax
BY LevelAssumption, SMT

LEMMA EncLevelsAre ==
  /\ 0 \in EncLevels
  /\ \A x \in EncLevels : x \in Nat /\ x # NoLevel /\ x # TableLevelRepNumber
                          /\ x # TableLevel0Number /\ x # TableLevel0Number2
BY LevelAssumption, SMT DEF NoLevel, TableLevelRepNumber, TableLevel0Number, TableLevel0Number2

LEMMA EncLevelsSubset == EncLevels \subseteq Nat
BY EncLevelsAre

\* The copies of a level behind some levels.
LEMMA CopiesLemma ==
  ASSUME NEW ls \in Seq(Nat), NEW level \in Nat, NEW n \in Nat
  PROVE  /\ ls \o Copies(level, n) \in Seq(Nat)
         /\ Len(ls \o Copies(level, n)) = Len(ls) + n
         /\ \A k \in 1 .. Len(ls) : (ls \o Copies(level, n))[k] = ls[k]
         /\ \A k \in Len(ls) + 1 .. Len(ls) + n : (ls \o Copies(level, n))[k] = level
<1> DEFINE c == Copies(level, n)
           l == Len(ls)
<1>1. l \in Nat
  BY LenProperties
<1>2. c \in Seq(Nat) /\ Len(c) = n /\ \A k \in 1 .. n : c[k] = level
  BY DEF Copies
<1> HIDE DEF c, l
<1>3. /\ ls \o c \in Seq(Nat) /\ Len(ls \o c) = l + n
      /\ \A k \in 1 .. l + n : (ls \o c)[k] = IF k <= l THEN ls[k] ELSE c[k - l]
  BY <1>2, ConcatProperties DEF l
<1>4. ASSUME NEW k \in 1 .. l
      PROVE  (ls \o c)[k] = ls[k]
  <2>1. k \in 1 .. l + n /\ k <= l
    BY <1>1
  <2> QED BY <1>3, <2>1
<1>5. ASSUME NEW k \in l + 1 .. l + n
      PROVE  (ls \o c)[k] = level
  <2>1. k \in 1 .. l + n /\ ~(k <= l) /\ k - l \in 1 .. n
    BY <1>1
  <2> QED BY <1>2, <1>3, <2>1
<1> QED BY <1>3, <1>4, <1>5 DEF c, l

LEMMA CopiesAdd ==
  ASSUME NEW ls \in Seq(Nat), NEW level \in Nat, NEW a \in Nat, NEW b \in Nat
  PROVE  (ls \o Copies(level, a)) \o Copies(level, b) = ls \o Copies(level, a + b)
<1> DEFINE s == ls \o Copies(level, a)
           l == Len(ls)
<1>1. l \in Nat /\ a + b \in Nat
  BY LenProperties
<1>2. /\ s \in Seq(Nat) /\ Len(s) = l + a
      /\ \A k \in 1 .. l : s[k] = ls[k]
      /\ \A k \in l + 1 .. l + a : s[k] = level
  BY CopiesLemma, ZenonT(60)
<1> HIDE DEF s
<1>3. /\ s \o Copies(level, b) \in Seq(Nat) /\ Len(s \o Copies(level, b)) = Len(s) + b
      /\ \A k \in 1 .. Len(s) : (s \o Copies(level, b))[k] = s[k]
      /\ \A k \in Len(s) + 1 .. Len(s) + b : (s \o Copies(level, b))[k] = level
  BY <1>2, CopiesLemma, ZenonT(60)
<1>4. /\ ls \o Copies(level, a + b) \in Seq(Nat)
      /\ Len(ls \o Copies(level, a + b)) = l + (a + b)
      /\ \A k \in 1 .. l : (ls \o Copies(level, a + b))[k] = ls[k]
      /\ \A k \in l + 1 .. l + (a + b) : (ls \o Copies(level, a + b))[k] = level
  BY <1>1, CopiesLemma, Zenon
<1> DEFINE x == s \o Copies(level, b)
           y == ls \o Copies(level, a + b)
<1> HIDE DEF x, y, l
<1>5. Len(x) = l + a + b /\ Len(y) = l + a + b
  BY <1>1, <1>2, <1>3, <1>4 DEF x, y
<1>6. ASSUME NEW k \in 1 .. l + a + b
      PROVE  x[k] = y[k]
  <2>1. CASE k \in 1 .. l
    <3>1. k \in 1 .. Len(s)
      BY <1>1, <1>2, <2>1
    <3> QED BY <1>2, <1>3, <1>4, <2>1, <3>1 DEF x, y
  <2>2. CASE k \in l + 1 .. l + a
    <3>1. k \in 1 .. Len(s) /\ k \in l + 1 .. l + (a + b)
      BY <1>1, <1>2, <2>2
    <3> QED BY <1>2, <1>3, <1>4, <2>2, <3>1 DEF x, y
  <2>3. CASE k \in l + a + 1 .. l + a + b
    <3>1. k \in Len(s) + 1 .. Len(s) + b /\ k \in l + 1 .. l + (a + b)
      BY <1>1, <1>2, <2>3
    <3> QED BY <1>3, <1>4, <3>1 DEF x, y
  <2> QED BY <1>1, <2>1, <2>2, <2>3
<1>7. x \in Seq(Nat) /\ y \in Seq(Nat)
  BY <1>3, <1>4 DEF x, y
<1>8. x = y
  <2>1. \A k \in 1 .. Len(x) : x[k] = y[k]
    BY <1>5, <1>6
  <2> QED BY <1>5, <1>7, <2>1, SeqEqual
<1> QED BY <1>8 DEF x, y, s

-----------------------------------------------------------------------------
\* How often the code of x is written.
Occurrences(ns, x) == Cardinality({k \in 1 .. Len(ns) : SymbolOf(ns[k]) = x})

\* Some numbers, the levels they stand for, and what was counted of them.
Coded(ns, levels, freqs) ==
  /\ ns \in Seq(Run) /\ levels \in Seq(Nat)
  /\ Expansion(ns) = levels
  /\ \A k \in 1 .. Len(ns) : HasBits(ns[k])
  /\ \A x \in LevelSymbols : freqs[x] \in Nat /\ freqs[x] = Occurrences(ns, x)

LEMMA CodedNone ==
  Coded(<<>>, <<>>, Uncounted)
<1>1. /\ <<>> \in Seq(Run) /\ <<>> \in Seq(Nat) /\ Len(<<>>) = 0
  BY EmptySeq
<1>2. ASSUME NEW x \in LevelSymbols
      PROVE  Uncounted[x] \in Nat /\ Uncounted[x] = Occurrences(<<>>, x)
  <2>1. {k \in 1 .. Len(<<>>) : SymbolOf(<<>>[k]) = x} = {}
    BY <1>1
  <2> QED BY <2>1, FS_EmptySet DEF Uncounted, Occurrences
<1> QED BY <1>1, <1>2, ExpansionNone DEF Coded

LEMMA OccurrencesAppend ==
  ASSUME NEW ns \in Seq(Run), NEW run \in Run, NEW x
  PROVE  /\ Occurrences(ns, x) \in Nat
         /\ Occurrences(Append(ns, run), x)
              = Occurrences(ns, x) + (IF SymbolOf(run) = x THEN 1 ELSE 0)
<1> DEFINE n == Len(ns)
           ms == Append(ns, run)
           S == {k \in 1 .. n : SymbolOf(ns[k]) = x}
           T == {k \in 1 .. n + 1 : SymbolOf(ms[k]) = x}
<1>1. n \in Nat
  BY LenProperties
<1>2. Len(ms) = n + 1 /\ ms[n + 1] = run /\ \A k \in 1 .. n : ms[k] = ns[k]
  BY AppendProperties
<1> HIDE DEF ms, n
<1>3. IsFiniteSet(S)
  <2>1. IsFiniteSet(1 .. n)
    BY <1>1, FS_Interval
  <2>2. S \in SUBSET (1 .. n)
    OBVIOUS
  <2> QED BY <2>1, <2>2, FS_Subset
<1>4. n + 1 \notin S
  BY <1>1
<1>5. CASE SymbolOf(run) = x
  <2>1. T = S \cup {n + 1}
    BY <1>1, <1>2, <1>5
  <2>2. Cardinality(T) = Cardinality(S) + 1 /\ Cardinality(S) \in Nat
    BY <1>3, <1>4, <2>1, FS_AddElement, FS_CardinalityType
  <2> QED BY <1>2, <1>5, <2>2 DEF Occurrences, ms, n
<1>6. CASE SymbolOf(run) # x
  <2>1. T = S
    BY <1>1, <1>2, <1>6
  <2>2. Cardinality(S) \in Nat
    BY <1>3, FS_CardinalityType
  <2>3. Cardinality(T) = Cardinality(S) + 0
    <3> HIDE DEF S, T
    <3> QED BY <2>1, <2>2
  <2>4. (IF SymbolOf(run) = x THEN 1 ELSE 0) = 0
    BY <1>6
  <2> QED BY <1>2, <2>2, <2>3, <2>4 DEF Occurrences, ms, n
<1> QED BY <1>5, <1>6

\* One number more.
LEMMA CodedAppend ==
  ASSUME NEW ns, NEW levels, NEW freqs, Coded(ns, levels, freqs),
         NEW run \in Run, HasBits(run), run.kind = "repeat" => Len(levels) > 0,
         NEW more, \A x \in LevelSymbols :
           more[x] = freqs[x] + (IF SymbolOf(run) = x THEN 1 ELSE 0)
  PROVE  Coded(Append(ns, run), Extended(levels, run), more)
<1>1. ns \in Seq(Run) /\ levels \in Seq(Nat) /\ Expansion(ns) = levels
  BY DEF Coded
<1>2. Append(ns, run) \in Seq(Run) /\ Extended(levels, run) \in Seq(Nat)
  BY <1>1, AppendProperties, ExtendedLemma
<1>3. Expansion(Append(ns, run)) = Extended(levels, run)
  BY <1>1, ExpansionAppend
<1>4. ASSUME NEW k \in 1 .. Len(Append(ns, run))
      PROVE  HasBits(Append(ns, run)[k])
  <2>1. /\ Len(ns) \in Nat /\ Len(Append(ns, run)) = Len(ns) + 1
        /\ Append(ns, run)[Len(ns) + 1] = run
        /\ \A j \in 1 .. Len(ns) : Append(ns, run)[j] = ns[j]
    BY <1>1, LenProperties, AppendProperties
  <2>2. k \in 1 .. Len(ns) \/ k = Len(ns) + 1
    BY <2>1
  <2> QED BY <2>1, <2>2 DEF Coded
<1>5. ASSUME NEW x \in LevelSymbols
      PROVE  more[x] \in Nat /\ more[x] = Occurrences(Append(ns, run), x)
  <2>1. freqs[x] \in Nat /\ freqs[x] = Occurrences(ns, x)
    BY DEF Coded
  <2>2. Occurrences(Append(ns, run), x)
              = Occurrences(ns, x) + (IF SymbolOf(run) = x THEN 1 ELSE 0)
    BY <1>1, OccurrencesAppend
  <2> QED BY <2>1, <2>2
<1> QED BY <1>2, <1>3, <1>4, <1>5 DEF Coded

\* What one number extends the levels by.
LEMMA ExtendedByCopies ==
  ASSUME NEW ls, NEW run,
         \/ run.kind # "repeat"
         \/ ls[Len(ls)] = run.level
  PROVE  Extended(ls, run) = ls \o Copies(run.level, run.num)
BY DEF Extended, Copies

\* ConcatAssociative, for numbers.
LEMMA ConcatRuns == \A s, t, u \in Seq(Run) : (s \o t) \o u = s \o (t \o u)
BY ConcatAssociative, SMT

\* A run whose levels are written one by one.
LEMMA LengthsCoded ==
  ASSUME NEW ns, NEW ls, NEW f, Coded(ns, ls, f), NEW level \in EncLevels, NEW count \in Nat
  PROVE  Coded(ns \o [k \in 1 .. count |-> Number("length", level, 1)[1]],
               ls \o Copies(level, count),
               [x \in LevelSymbols |-> f[x] + (IF x = level THEN count ELSE 0)])
<1> DEFINE a == Number("length", level, 1)[1]
           as(j) == [k \in 1 .. j |-> a]
           g(j) == [x \in LevelSymbols |-> f[x] + (IF x = level THEN j ELSE 0)]
           T == {j \in Nat : ~Coded(ns \o as(j), ls \o Copies(level, j), g(j))}
<1>0. level \in Nat
  BY EncLevelsAre
<1>1. /\ a = [kind |-> "length", level |-> level, num |-> 1] /\ a \in Run
      /\ a.kind = "length" /\ a.level = level /\ a.num = 1
  BY <1>0 DEF Number, Run
<1> HIDE DEF a
<1>2. ns \in Seq(Run) /\ ls \in Seq(Nat) /\ \A x \in LevelSymbols : f[x] \in Nat
  BY DEF Coded
<1>3. \A j \in Nat : as(j) \in Seq(Run)
  BY <1>1
<1>4. ASSUME NEW j \in T, \A k \in T : j <= k PROVE FALSE
  <2>1. CASE j = 0
    <3>1. as(0) = <<>> /\ Copies(level, 0) = <<>>
      BY DEF Copies
    <3>2. ns \o as(0) = ns /\ ls \o Copies(level, 0) = ls
      BY <1>2, <3>1, ConcatEmptySeq
    <3>3. \A x \in LevelSymbols : g(0)[x] = f[x]
      BY <1>2
    <3> HIDE DEF g, as
    <3>4. Coded(ns, ls, g(0))
      BY <3>3 DEF Coded
    <3> QED BY <2>1, <3>2, <3>4
  <2>2. CASE j # 0
    <3>1. j \in Nat /\ j - 1 \in Nat /\ ~(j <= j - 1) 
      BY <2>2
    <3>2. PICK i0 \in Nat : i0 = j - 1
      BY <3>1
    <3>20. i0 + 1 = j /\ ~(j <= i0)
      BY <3>1, <3>2
    <3>21. Coded(ns \o as(i0), ls \o Copies(level, i0), g(i0))
      <4> HIDE DEF as, g
      <4> QED BY <1>4, <3>20
    <3>3. as(j) = Append(as(i0), a)
      <4>1. as(i0) \in Seq(Run) /\ as(j) \in Seq(Run) /\ Len(as(i0)) = i0 /\ Len(as(j)) = j
        BY <1>3, <3>1, <3>20
      <4>2. /\ Append(as(i0), a) \in Seq(Run) /\ Len(Append(as(i0), a)) = i0 + 1
            /\ \A k \in 1 .. i0 : Append(as(i0), a)[k] = as(i0)[k]
            /\ Append(as(i0), a)[i0 + 1] = a
        BY <1>1, <4>1, AppendProperties
      <4>3. \A k \in 1 .. j : as(j)[k] = a
        OBVIOUS
      <4>4. \A k \in 1 .. i0 : as(i0)[k] = a
        OBVIOUS
      <4>5. ASSUME NEW k \in 1 .. j
            PROVE  as(j)[k] = Append(as(i0), a)[k]
        <5>1. k \in 1 .. i0 \/ k = i0 + 1
          BY <3>1, <3>20
        <5> QED BY <4>2, <4>3, <4>4, <5>1, Zenon
      <4> HIDE DEF as
      <4> QED BY <3>1, <3>20, <4>1, <4>2, <4>5, SeqEqual
    <3>4. ns \o as(j) = Append(ns \o as(i0), a)
      <4> DEFINE one == <<a>>
      <4> HIDE DEF as
      <4>1. as(i0) \in Seq(Run)
        BY <1>3
      <4>2. one \in Seq(Run)
        BY <1>1
      <4>3. as(j) = as(i0) \o one
        BY <1>1, <3>3, <4>1, AppendIsConcat
      <4>4. ns \o as(i0) \in Seq(Run)
        BY <1>2, <4>1, ConcatProperties
      <4>5. Append(ns \o as(i0), a) = (ns \o as(i0)) \o one
        BY <1>1, <4>4, AppendIsConcat
      <4> HIDE DEF one
      <4>6. (ns \o as(i0)) \o one = ns \o (as(i0) \o one)
        <5>1. ns \in Seq(Run)
          BY <1>2
        <5> QED BY <5>1, <4>1, <4>2, ConcatRuns, Zenon
      <4> QED BY <4>3, <4>5, <4>6
    <3>5. Extended(ls \o Copies(level, i0), a) = ls \o Copies(level, j)
      <4>1. Extended(ls \o Copies(level, i0), a) = (ls \o Copies(level, i0)) \o Copies(level, 1)
        <5>1. a.kind # "repeat"
          BY <1>1
        <5>2. Extended(ls \o Copies(level, i0), a)
                = (ls \o Copies(level, i0)) \o Copies(a.level, a.num)
          BY <5>1, ExtendedByCopies
        <5> QED BY <1>1, <5>2
      <4>2. (ls \o Copies(level, i0)) \o Copies(level, 1) = ls \o Copies(level, i0 + 1)
        <5>1. 1 \in Nat
          OBVIOUS
        <5> QED BY <1>0, <1>2, <5>1, CopiesAdd, ZenonT(60)
      <4> QED BY <3>20, <4>1, <4>2
    <3>6. \A x \in LevelSymbols :
            g(j)[x] = g(i0)[x] + (IF SymbolOf(a) = x THEN 1 ELSE 0)
      BY <1>1, <1>2, <3>1, <3>20 DEF SymbolOf
    <3>7. HasBits(a) /\ a.kind # "repeat"
      BY <1>1 DEF HasBits
    <3> HIDE DEF as, g
    <3>8. Coded(Append(ns \o as(i0), a), Extended(ls \o Copies(level, i0), a), g(j))
      BY <1>1, <3>21, <3>6, <3>7, CodedAppend
    <3> QED BY <3>4, <3>5, <3>8
  <2> QED BY <2>1, <2>2
<1> HIDE DEF g, as
<1>5. T = {}
  <2> T \subseteq Nat
    OBVIOUS
  <2> HIDE DEF T
  <2> QED BY <1>4, LeastNumber
<1>6. Coded(ns \o as(count), ls \o Copies(level, count), g(count))
  BY <1>5
<1> QED BY <1>6 DEF g, as, a

\* Only what was counted of the numbers that have a code matters.
LEMMA CodedSame ==
  ASSUME NEW ns, NEW ls, NEW f, Coded(ns, ls, f),
         NEW g, \A x \in LevelSymbols : g[x] = f[x]
  PROVE  Coded(ns, ls, g)
BY DEF Coded

-----------------------------------------------------------------------------
\* A run that the loop ends: its length is one the code it gets can have.
LoopRun(run) ==
  /\ run \in [level : EncLevels, count : Nat, few : BOOLEAN, fresh : BOOLEAN]
  /\ run.count >= 1
  /\ (run.few = TRUE) <=> run.count < MinCount(run.fresh = FALSE, run.level)
  /\ run.count <= MaxCount(run.fresh = FALSE, run.level)

LEMMA LoopRunLemma ==
  ASSUME NEW run, LoopRun(run)
  PROVE  /\ run.level \in EncLevels /\ run.level \in Nat /\ run.count \in Nat
         /\ run.few \in BOOLEAN /\ run.fresh \in BOOLEAN
         /\ run.few = FALSE /\ run.level # 0 /\ run.fresh = TRUE =>
              run.count - 1 \in 3 .. RepeatMax
         /\ run.few = FALSE /\ run.level # 0 /\ run.fresh = FALSE =>
              run.count \in 3 .. RepeatMax
         /\ run.few = FALSE /\ run.level = 0 => run.count \in 3 .. ManyZerosMax
<1>1. /\ run.level \in EncLevels /\ run.count \in Nat
      /\ run.few \in BOOLEAN /\ run.fresh \in BOOLEAN
  BY DEF LoopRun
<1>2. run.level \in Nat
  BY <1>1, EncLevelsAre
<1>3. run.few = FALSE => ~(run.count < MinCount(run.fresh = FALSE, run.level))
  BY DEF LoopRun
<1>4. run.count <= MaxCount(run.fresh = FALSE, run.level)
  BY DEF LoopRun
<1>5. ASSUME run.few = FALSE, run.level # 0, run.fresh = TRUE
      PROVE  run.count - 1 \in 3 .. RepeatMax
  <2>1. MinCount(run.fresh = FALSE, run.level) = 4
    BY <1>5 DEF MinCount
  <2>2. MaxCount(run.fresh = FALSE, run.level) = RepeatMax + 1
    BY <1>5 DEF MaxCount
  <2> QED BY <1>1, <1>3, <1>4, <1>5, <2>1, <2>2, EncSizes
<1>6. ASSUME run.few = FALSE, run.level # 0, run.fresh = FALSE
      PROVE  run.count \in 3 .. RepeatMax
  <2>1. MinCount(run.fresh = FALSE, run.level) = 3
    BY <1>6 DEF MinCount
  <2>2. MaxCount(run.fresh = FALSE, run.level) = RepeatMax
    BY <1>6 DEF MaxCount
  <2> QED BY <1>1, <1>3, <1>4, <1>6, <2>1, <2>2, EncSizes
<1>7. ASSUME run.few = FALSE, run.level = 0
      PROVE  run.count \in 3 .. ManyZerosMax
  <2>1. MinCount(run.fresh = FALSE, run.level) = 3
    BY <1>7 DEF MinCount
  <2>2. MaxCount(run.fresh = FALSE, run.level) = ManyZerosMax
    BY <1>7 DEF MaxCount
  <2> QED BY <1>1, <1>3, <1>4, <1>7, <2>1, <2>2, EncSizes
<1> QED BY <1>1, <1>2, <1>5, <1>6, <1>7

\* The symbols of repetitions, which are no code lengths.
LEMMA SymbolsAre ==
  /\ \A x \in EncLevels : x \in LevelSymbols
  /\ {TableLevelRepNumber, TableLevel0Number, TableLevel0Number2} \subseteq LevelSymbols
BY DEF LevelSymbols

LEMMA OneIs ==
  ASSUME NEW y \in LevelSymbols, NEW x \in LevelSymbols
  PROVE  One(y)[x] = (IF y = x THEN 1 ELSE 0) /\ Uncounted[x] = 0
BY DEF One, Uncounted

\* What is written for a run stands for its levels, and is what was counted for it.
LEMMA WrittenCoded ==
  ASSUME NEW ns, NEW ls, NEW f, Coded(ns, ls, f), NEW run, LoopRun(run),
         run.fresh = FALSE => Len(ls) > 0 /\ ls[Len(ls)] = run.level
  PROVE  Coded(ns \o Written(run), ls \o Copies(run.level, run.count),
               [x \in LevelSymbols |-> f[x] + Counted(run)[x]])
<1> DEFINE level == run.level
           count == run.count
           g == [x \in LevelSymbols |-> f[x] + Counted(run)[x]]
<1>1. /\ level \in EncLevels /\ level \in Nat /\ count \in Nat
      /\ run.few \in BOOLEAN /\ run.fresh \in BOOLEAN
  BY LoopRunLemma
<1>2. ns \in Seq(Run) /\ ls \in Seq(Nat) /\ \A x \in LevelSymbols : f[x] \in Nat
  BY DEF Coded
<1>3. \A x \in LevelSymbols : g[x] = f[x] + Counted(run)[x]
  OBVIOUS
<1> HIDE DEF g
<1>4. CASE run.few = TRUE
  <2>1. Written(run) = [n \in 1 .. count |-> Number("length", level, 1)[1]]
    BY <1>4 DEF Written
  <2> DEFINE h == [x \in LevelSymbols |-> f[x] + (IF x = level THEN count ELSE 0)]
  <2>2. Coded(ns \o Written(run), ls \o Copies(level, count), h)
    BY <1>1, <2>1, LengthsCoded
  <2>3. ASSUME NEW x \in LevelSymbols
        PROVE  g[x] = h[x]
    <3>1. Counted(run) = [Uncounted EXCEPT ![level] = count]
      BY <1>4 DEF Counted
    <3>2. Counted(run)[x] = IF x = level THEN count ELSE 0
      BY <3>1 DEF Uncounted
    <3>3. h[x] = f[x] + (IF x = level THEN count ELSE 0)
      OBVIOUS
    <3> HIDE DEF h
    <3> QED BY <1>3, <3>2, <3>3, Zenon
  <2> HIDE DEF h
  <2> QED BY <2>2, <2>3, CodedSame DEF g
<1>5. CASE run.few = FALSE /\ level # 0 /\ run.fresh = FALSE
  <2> DEFINE a == [kind |-> "repeat", level |-> 0, num |-> count]
  <2>1. /\ a \in Run /\ a.kind = "repeat" /\ a.level = 0 /\ a.num = count
    BY <1>1 DEF Run
  <2>2. Written(run) = <<a>>
    BY <1>5 DEF Written, Number
  <2>3. count \in 3 .. RepeatMax
    BY <1>5, LoopRunLemma
  <2>4. ns \o Written(run) = Append(ns, a)
    BY <1>2, <2>1, <2>2, AppendIsConcat
  <2>5. Extended(ls, a) = ls \o Copies(level, count)
    BY <1>5, <2>1 DEF Extended, Copies
  <2> HIDE DEF a
  <2>6. HasBits(a) /\ SymbolOf(a) = TableLevelRepNumber
    BY <2>1, <2>3 DEF HasBits, SymbolOf
  <2>7. ASSUME NEW x \in LevelSymbols
        PROVE  g[x] = f[x] + (IF SymbolOf(a) = x THEN 1 ELSE 0)
    <3>1. Counted(run) = Both(One(TableLevelRepNumber), Uncounted)
      BY <1>5 DEF Counted
    <3>2. Counted(run)[x] = One(TableLevelRepNumber)[x] + Uncounted[x]
      BY <3>1 DEF Both
    <3>3. Counted(run)[x] = IF TableLevelRepNumber = x THEN 1 ELSE 0
      BY <3>2, OneIs, SymbolsAre
    <3> QED BY <1>3, <2>6, <3>3, Zenon
  <2>8. Coded(Append(ns, a), Extended(ls, a), g)
    BY <1>5, <2>1, <2>6, <2>7, CodedAppend
  <2> QED BY <2>4, <2>5, <2>8 DEF g
<1>6. CASE run.few = FALSE /\ level # 0 /\ run.fresh = TRUE
  <2> DEFINE b == [kind |-> "length", level |-> level, num |-> 1]
             a == [kind |-> "repeat", level |-> 0, num |-> count - 1]
             h == [x \in LevelSymbols |-> f[x] + (IF SymbolOf(b) = x THEN 1 ELSE 0)]
  <2>1. count - 1 \in 3 .. RepeatMax
    BY <1>6, LoopRunLemma
  <2>2. /\ a \in Run /\ a.kind = "repeat" /\ a.level = 0 /\ a.num = count - 1
        /\ b \in Run /\ b.kind = "length" /\ b.level = level /\ b.num = 1
    BY <1>1, <2>1 DEF Run
  <2>3. Written(run) = <<b>> \o <<a>>
    BY <1>6 DEF Written, Number
  <2>4. \A x \in LevelSymbols : h[x] = f[x] + (IF SymbolOf(b) = x THEN 1 ELSE 0)
    OBVIOUS
  <2> HIDE DEF a, b, h
  <2>5. ns \o Written(run) = Append(Append(ns, b), a)
    <3>1. <<a>> \in Seq(Run) /\ <<b>> \in Seq(Run)
      BY <2>2
    <3> DEFINE as == <<a>>
               bs == <<b>>
    <3>2. Append(ns, b) \in Seq(Run)
      BY <1>2, <2>2, AppendProperties
    <3>3. Append(ns, b) = ns \o bs /\ Append(Append(ns, b), a) = Append(ns, b) \o as
      BY <1>2, <2>2, <3>2, AppendIsConcat
    <3>4. Written(run) = bs \o as /\ as \in Seq(Run) /\ bs \in Seq(Run)
      BY <2>3, <3>1
    <3> HIDE DEF as, bs
    <3>5. ns \in Seq(Run)
      BY <1>2
    <3>6. (ns \o bs) \o as = ns \o (bs \o as)
      BY <3>4, <3>5, ConcatRuns, Zenon
    <3> QED BY <3>3, <3>4, <3>6
  <2>6. HasBits(b) /\ SymbolOf(b) = level /\ HasBits(a) /\ SymbolOf(a) = TableLevelRepNumber
    BY <2>1, <2>2 DEF HasBits, SymbolOf
  <2>7. Coded(Append(ns, b), Extended(ls, b), h)
    BY <2>2, <2>4, <2>6, CodedAppend
  <2>8. Extended(ls, b) = ls \o Copies(level, 1)
    <3>1. b.kind # "repeat"
      BY <2>2
    <3> QED BY <2>2, <3>1, ExtendedByCopies
  <2>9. /\ Len(ls \o Copies(level, 1)) > 0
        /\ (ls \o Copies(level, 1))[Len(ls \o Copies(level, 1))] = level
    <3> DEFINE l == Len(ls)
    <3>1. l \in Nat /\ 1 \in Nat
      BY <1>2, LenProperties
    <3>4. ls \in Seq(Nat)
      BY <1>2
    <3>5. PICK j \in Nat : j = 1
      BY <3>1
    <3>6. /\ ls \o Copies(level, j) \in Seq(Nat)
          /\ Len(ls \o Copies(level, j)) = Len(ls) + j
          /\ \A k \in 1 .. Len(ls) : (ls \o Copies(level, j))[k] = ls[k]
          /\ \A k \in Len(ls) + 1 .. Len(ls) + j : (ls \o Copies(level, j))[k] = level
      BY <1>1, <3>4, CopiesLemma, ZenonT(60)
    <3>2. /\ Len(ls \o Copies(level, 1)) = Len(ls) + 1
          /\ \A k \in Len(ls) + 1 .. Len(ls) + 1 : (ls \o Copies(level, 1))[k] = level
      BY <3>5, <3>6
    <3> HIDE DEF l
    <3>3. l + 1 \in l + 1 .. l + 1 /\ l + 1 > 0
      BY <3>1
    <3> QED BY <3>2, <3>3 DEF l
  <2>10. ASSUME NEW x \in LevelSymbols
         PROVE  g[x] = h[x] + (IF SymbolOf(a) = x THEN 1 ELSE 0)
    <3>1. Counted(run) = Both(One(TableLevelRepNumber), One(level))
      BY <1>6 DEF Counted
    <3>2. Counted(run)[x] = One(TableLevelRepNumber)[x] + One(level)[x]
      BY <3>1 DEF Both
    <3>3. /\ One(TableLevelRepNumber)[x] = IF TableLevelRepNumber = x THEN 1 ELSE 0
          /\ One(level)[x] = IF level = x THEN 1 ELSE 0
      BY <1>1, OneIs, SymbolsAre
    <3> DEFINE p == f[x]
               q == IF TableLevelRepNumber = x THEN 1 ELSE 0
               r == IF level = x THEN 1 ELSE 0
    <3>4. p \in Nat /\ q \in Nat /\ r \in Nat
      BY <1>2
    <3>5. g[x] = p + Counted(run)[x] /\ Counted(run)[x] = q + r
      BY <1>3, <3>2, <3>3
    <3>7. g[x] = p + r + q
      <4> HIDE DEF p, q, r
      <4>1. p + (q + r) = p + r + q
        BY <3>4
      <4> QED BY <3>5, <4>1
    <3>6. g[x] = f[x] + (IF level = x THEN 1 ELSE 0)
                      + (IF TableLevelRepNumber = x THEN 1 ELSE 0)
      BY <3>7
    <3> QED BY <2>4, <2>6, <3>6, Zenon
  <2>11. Extended(ls \o Copies(level, 1), a) = ls \o Copies(level, count)
    <3>1. Extended(ls \o Copies(level, 1), a)
            = (ls \o Copies(level, 1)) \o Copies(level, count - 1)
      BY <2>2, <2>9 DEF Extended, Copies
    <3>2. 1 \in Nat /\ count - 1 \in Nat /\ 1 + (count - 1) = count
      BY <1>1, <2>1
    <3>3. (ls \o Copies(level, 1)) \o Copies(level, count - 1)
            = ls \o Copies(level, 1 + (count - 1))
      BY <1>1, <1>2, <3>2, CopiesAdd, ZenonT(60)
    <3> QED BY <3>1, <3>2, <3>3
  <2>12. Coded(Append(Append(ns, b), a), Extended(Extended(ls, b), a), g)
    BY <2>2, <2>6, <2>7, <2>8, <2>9, <2>10, CodedAppend, ZenonT(60)
  <2> QED BY <2>5, <2>8, <2>11, <2>12 DEF g
<1>7. CASE run.few = FALSE /\ level = 0
  <2> DEFINE a == [kind |-> "zeros", level |-> 0, num |-> count]
  <2>1. /\ a \in Run /\ a.kind = "zeros" /\ a.level = 0 /\ a.num = count
    BY <1>1 DEF Run
  <2>2. Written(run) = <<a>>
    BY <1>7 DEF Written, Number
  <2>3. count \in 3 .. ManyZerosMax
    BY <1>7, LoopRunLemma
  <2>4. ns \o Written(run) = Append(ns, a)
    BY <1>2, <2>1, <2>2, AppendIsConcat
  <2>5. Extended(ls, a) = ls \o Copies(level, count)
    <3>1. a.kind # "repeat"
      BY <2>1
    <3> QED BY <1>7, <2>1, <3>1, ExtendedByCopies
  <2> HIDE DEF a
  <2> DEFINE y == IF count <= ZerosMax THEN TableLevel0Number ELSE TableLevel0Number2
  <2>6. HasBits(a) /\ SymbolOf(a) = y
    BY <2>1, <2>3 DEF HasBits, SymbolOf
  <2>7. ASSUME NEW x \in LevelSymbols
        PROVE  g[x] = f[x] + (IF SymbolOf(a) = x THEN 1 ELSE 0)
    <3>1. Counted(run) = One(y)
      BY <1>7 DEF Counted
    <3>2. y \in LevelSymbols
      BY SymbolsAre
    <3>3. Counted(run)[x] = IF y = x THEN 1 ELSE 0
      BY <3>1, <3>2, OneIs
    <3> QED BY <1>3, <2>6, <3>3, Zenon
  <2>8. Coded(Append(ns, a), Extended(ls, a), g)
    BY <1>7, <2>1, <2>6, <2>7, CodedAppend
  <2> QED BY <2>4, <2>5, <2>8 DEF g
<1> QED BY <1>1, <1>4, <1>5, <1>6, <1>7

-----------------------------------------------------------------------------
(* The runs of some levels *)

\* Does f say of each of the first n runs what is written up to it?
CodeSteps(f, rs, n) ==
  f = [k \in 0 .. n |-> IF k = 0 THEN <<>> ELSE f[k - 1] \o Written(rs[k])]

CodeCourse(rs) == CHOOSE f : CodeSteps(f, rs, Len(rs))

CodeOf(rs) == CodeCourse(rs)[Len(rs)]

LEMMA LevelTableCodeIs ==
  \A levels : LevelTableCode(levels) = CodeOf(RunsOf(levels))
BY DEF LevelTableCode, CodeOf, CodeCourse, CodeSteps

\* There is such an f.
LEMMA CodeStepsExist ==
  ASSUME NEW rs
  PROVE  \A n \in Nat : \E f : CodeSteps(f, rs, n)
<1> DEFINE T == {n \in Nat : ~\E f : CodeSteps(f, rs, n)}
<1>1. ASSUME NEW n \in T, \A k \in T : n <= k PROVE FALSE
  <2>1. CASE n = 0
    <3> DEFINE g == [k \in 0 .. 0 |-> <<>>]
    <3>1. \A k \in 0 .. 0 : k = 0
      OBVIOUS
    <3>2. g = [k \in 0 .. 0 |-> IF k = 0 THEN <<>> ELSE g[k - 1] \o Written(rs[k])]
      BY <3>1
    <3>3. CodeSteps(g, rs, 0)
      BY <3>2 DEF CodeSteps
    <3> QED BY <2>1, <3>3
  <2>2. CASE n # 0
    <3>1. n \in Nat /\ n - 1 \in Nat /\ ~(n <= n - 1)
      BY <2>2
    <3>2. PICK f : CodeSteps(f, rs, n - 1)
      BY <1>1, <3>1
    <3>3. \A k \in 0 .. n - 1 : f[k] = IF k = 0 THEN <<>> ELSE f[k - 1] \o Written(rs[k])
      BY <3>2 DEF CodeSteps
    <3> DEFINE g == [k \in 0 .. n |-> IF k = n THEN f[n - 1] \o Written(rs[n]) ELSE f[k]]
    <3>4. ASSUME NEW k \in 0 .. n
          PROVE  g[k] = IF k = 0 THEN <<>> ELSE g[k - 1] \o Written(rs[k])
      <4>1. k = n \/ k \in 0 .. n - 1
        BY <3>1
      <4>2. k # 0 => k - 1 \in 0 .. n /\ k - 1 # n
        BY <3>1
      <4>3. k # 0 => g[k - 1] = f[k - 1]
        BY <4>2
      <4> QED BY <2>2, <3>1, <3>3, <4>1, <4>3
    <3>5. CodeSteps(g, rs, n)
      <4>1. g = [k \in 0 .. n |-> IF k = 0 THEN <<>> ELSE g[k - 1] \o Written(rs[k])]
        BY <3>4
      <4> QED BY <4>1 DEF CodeSteps
    <3> QED BY <3>5
  <2> QED BY <2>1, <2>2
<1>2. T = {}
  BY <1>1, LeastNumber
<1> QED BY <1>2

LEMMA CodeCourseLemma ==
  ASSUME NEW rs, Len(rs) \in Nat
  PROVE  /\ CodeCourse(rs)[0] = <<>>
         /\ \A k \in 1 .. Len(rs) : CodeCourse(rs)[k] = CodeCourse(rs)[k - 1] \o Written(rs[k])
<1> DEFINE f == CodeCourse(rs)
           n == Len(rs)
<1>1. CodeSteps(f, rs, n)
  BY CodeStepsExist DEF CodeCourse
<1> HIDE DEF f, n
<1>2. f = [k \in 0 .. n |-> IF k = 0 THEN <<>> ELSE f[k - 1] \o Written(rs[k])]
  BY <1>1 DEF CodeSteps
<1>3. n \in Nat
  BY DEF n
<1>4. f[0] = <<>>
  BY <1>2, <1>3
<1>5. ASSUME NEW k \in 1 .. n
      PROVE  f[k] = f[k - 1] \o Written(rs[k])
  <2>1. k \in 0 .. n /\ k # 0
    BY <1>3
  <2> QED BY <1>2, <2>1
<1> QED BY <1>4, <1>5 DEF f, n

\* It depends on the runs before only.
LEMMA CodeCourseAgree ==
  ASSUME NEW rs, NEW qs, Len(rs) \in Nat, Len(qs) \in Nat, NEW m \in Nat,
         m <= Len(rs), m <= Len(qs), \A k \in 1 .. m : rs[k] = qs[k]
  PROVE  CodeCourse(rs)[m] = CodeCourse(qs)[m]
<1> DEFINE T == {n \in 0 .. m : CodeCourse(rs)[n] # CodeCourse(qs)[n]}
<1>1. ASSUME NEW n \in T, \A k \in T : n <= k PROVE FALSE
  <2>1. n # 0
    BY CodeCourseLemma
  <2>2. n \in 1 .. Len(rs) /\ n \in 1 .. Len(qs) /\ n \in 1 .. m /\ n - 1 \in 0 .. m
        /\ ~(n <= n - 1)
    BY <2>1
  <2>3. CodeCourse(rs)[n - 1] = CodeCourse(qs)[n - 1]
    BY <1>1, <2>2
  <2>4. rs[n] = qs[n]
    BY <2>2
  <2>5. CodeCourse(rs)[n] = CodeCourse(rs)[n - 1] \o Written(rs[n])
    BY <2>2, CodeCourseLemma
  <2>6. CodeCourse(qs)[n] = CodeCourse(qs)[n - 1] \o Written(qs[n])
    BY <2>2, CodeCourseLemma
  <2> QED BY <2>3, <2>4, <2>5, <2>6
<1>2. T = {}
  <2> T \subseteq Nat
    OBVIOUS
  <2> HIDE DEF T
  <2> QED BY <1>1, LeastNumber
<1>3. m \in 0 .. m
  OBVIOUS
<1> QED BY <1>2, <1>3

\* Of no runs, and of one more.
LEMMA CodeNone == CodeOf(<<>>) = <<>>
<1>1. Len(<<>>) = 0
  BY EmptySeq
<1> QED BY <1>1, CodeCourseLemma DEF CodeOf

LEMMA CodeAppend ==
  ASSUME NEW R, NEW rs \in Seq(R), NEW run \in R
  PROVE  CodeOf(Append(rs, run)) = CodeOf(rs) \o Written(run)
<1> DEFINE n == Len(rs)
           qs == Append(rs, run)
<1>1. n \in Nat
  BY LenProperties
<1>2. Len(qs) = n + 1 /\ qs[n + 1] = run /\ \A k \in 1 .. n : qs[k] = rs[k]
  BY AppendProperties
<1> HIDE DEF qs
<1>3. Len(qs) \in Nat /\ n + 1 \in 1 .. Len(qs) /\ n + 1 - 1 = n
  BY <1>1, <1>2
<1>4. CodeCourse(qs)[n] = CodeCourse(rs)[n]
  BY <1>1, <1>2, CodeCourseAgree
<1>5. PICK k \in 1 .. Len(qs) : k = n + 1 /\ k - 1 = n
  BY <1>3
<1>6. \A j \in 1 .. Len(qs) : CodeCourse(qs)[j] = CodeCourse(qs)[j - 1] \o Written(qs[j])
  BY <1>3, CodeCourseLemma
<1>7. CodeCourse(qs)[k] = CodeCourse(qs)[n] \o Written(run)
  <2>1. CodeCourse(qs)[k] = CodeCourse(qs)[k - 1] \o Written(qs[k])
    BY <1>6
  <2>2. qs[k] = run
    BY <1>2, <1>5
  <2> QED BY <1>5, <2>1, <2>2, Zenon
<1>8. k = Len(qs)
  BY <1>2, <1>5
<1> QED BY <1>4, <1>7, <1>8 DEF CodeOf, qs

\* Does f say of each of the first n runs what is counted up to it?
FreqSteps(f, rs, n) ==
  f = [k \in 0 .. n |-> IF k = 0 THEN Uncounted ELSE Both(f[k - 1], Counted(rs[k]))]

FreqCourse(rs) == CHOOSE f : FreqSteps(f, rs, Len(rs))

FreqsOf(rs) == FreqCourse(rs)[Len(rs)]

LEMMA LevelTableDummyIs ==
  \A levels : LevelTableDummy(levels) = FreqsOf(RunsOf(levels))
BY DEF LevelTableDummy, FreqsOf, FreqCourse, FreqSteps

\* There is such an f.
LEMMA FreqsStepsExist ==
  ASSUME NEW rs
  PROVE  \A n \in Nat : \E f : FreqSteps(f, rs, n)
<1> DEFINE T == {n \in Nat : ~\E f : FreqSteps(f, rs, n)}
<1>1. ASSUME NEW n \in T, \A k \in T : n <= k PROVE FALSE
  <2>1. CASE n = 0
    <3> DEFINE g == [k \in 0 .. 0 |-> Uncounted]
    <3>1. \A k \in 0 .. 0 : k = 0
      OBVIOUS
    <3>2. g = [k \in 0 .. 0 |-> IF k = 0 THEN Uncounted ELSE Both(g[k - 1], Counted(rs[k]))]
      BY <3>1
    <3>3. FreqSteps(g, rs, 0)
      BY <3>2 DEF FreqSteps
    <3> QED BY <2>1, <3>3
  <2>2. CASE n # 0
    <3>1. n \in Nat /\ n - 1 \in Nat /\ ~(n <= n - 1)
      BY <2>2
    <3>2. PICK f : FreqSteps(f, rs, n - 1)
      BY <1>1, <3>1
    <3>3. \A k \in 0 .. n - 1 : f[k] = IF k = 0 THEN Uncounted ELSE Both(f[k - 1], Counted(rs[k]))
      BY <3>2 DEF FreqSteps
    <3> DEFINE g == [k \in 0 .. n |-> IF k = n THEN Both(f[n - 1], Counted(rs[n])) ELSE f[k]]
    <3>4. ASSUME NEW k \in 0 .. n
          PROVE  g[k] = IF k = 0 THEN Uncounted ELSE Both(g[k - 1], Counted(rs[k]))
      <4>1. k = n \/ k \in 0 .. n - 1
        BY <3>1
      <4>2. k # 0 => k - 1 \in 0 .. n /\ k - 1 # n
        BY <3>1
      <4>3. k # 0 => g[k - 1] = f[k - 1]
        BY <4>2
      <4> QED BY <2>2, <3>1, <3>3, <4>1, <4>3
    <3>5. FreqSteps(g, rs, n)
      <4>1. g = [k \in 0 .. n |-> IF k = 0 THEN Uncounted ELSE Both(g[k - 1], Counted(rs[k]))]
        BY <3>4
      <4> QED BY <4>1 DEF FreqSteps
    <3> QED BY <3>5
  <2> QED BY <2>1, <2>2
<1>2. T = {}
  BY <1>1, LeastNumber
<1> QED BY <1>2

LEMMA FreqsCourseLemma ==
  ASSUME NEW rs, Len(rs) \in Nat
  PROVE  /\ FreqCourse(rs)[0] = Uncounted
         /\ \A k \in 1 .. Len(rs) : FreqCourse(rs)[k] = Both(FreqCourse(rs)[k - 1], Counted(rs[k]))
<1> DEFINE f == FreqCourse(rs)
           n == Len(rs)
<1>1. FreqSteps(f, rs, n)
  BY FreqsStepsExist DEF FreqCourse
<1> HIDE DEF f, n
<1>2. f = [k \in 0 .. n |-> IF k = 0 THEN Uncounted ELSE Both(f[k - 1], Counted(rs[k]))]
  BY <1>1 DEF FreqSteps
<1>3. n \in Nat
  BY DEF n
<1>4. f[0] = Uncounted
  BY <1>2, <1>3
<1>5. ASSUME NEW k \in 1 .. n
      PROVE  f[k] = Both(f[k - 1], Counted(rs[k]))
  <2>1. k \in 0 .. n /\ k # 0
    BY <1>3
  <2> QED BY <1>2, <2>1
<1> QED BY <1>4, <1>5 DEF f, n

\* It depends on the runs before only.
LEMMA FreqsCourseAgree ==
  ASSUME NEW rs, NEW qs, Len(rs) \in Nat, Len(qs) \in Nat, NEW m \in Nat,
         m <= Len(rs), m <= Len(qs), \A k \in 1 .. m : rs[k] = qs[k]
  PROVE  FreqCourse(rs)[m] = FreqCourse(qs)[m]
<1> DEFINE T == {n \in 0 .. m : FreqCourse(rs)[n] # FreqCourse(qs)[n]}
<1>1. ASSUME NEW n \in T, \A k \in T : n <= k PROVE FALSE
  <2>1. n # 0
    BY FreqsCourseLemma
  <2>2. n \in 1 .. Len(rs) /\ n \in 1 .. Len(qs) /\ n \in 1 .. m /\ n - 1 \in 0 .. m
        /\ ~(n <= n - 1)
    BY <2>1
  <2>3. FreqCourse(rs)[n - 1] = FreqCourse(qs)[n - 1]
    BY <1>1, <2>2
  <2>4. rs[n] = qs[n]
    BY <2>2
  <2>5. FreqCourse(rs)[n] = Both(FreqCourse(rs)[n - 1], Counted(rs[n]))
    BY <2>2, FreqsCourseLemma
  <2>6. FreqCourse(qs)[n] = Both(FreqCourse(qs)[n - 1], Counted(qs[n]))
    BY <2>2, FreqsCourseLemma
  <2> QED BY <2>3, <2>4, <2>5, <2>6
<1>2. T = {}
  <2> T \subseteq Nat
    OBVIOUS
  <2> HIDE DEF T
  <2> QED BY <1>1, LeastNumber
<1>3. m \in 0 .. m
  OBVIOUS
<1> QED BY <1>2, <1>3

\* Of no runs, and of one more.
LEMMA FreqsNone == FreqsOf(<<>>) = Uncounted
<1>1. Len(<<>>) = 0
  BY EmptySeq
<1> QED BY <1>1, FreqsCourseLemma DEF FreqsOf

LEMMA FreqsAppend ==
  ASSUME NEW R, NEW rs \in Seq(R), NEW run \in R
  PROVE  FreqsOf(Append(rs, run)) = Both(FreqsOf(rs), Counted(run))
<1> DEFINE n == Len(rs)
           qs == Append(rs, run)
<1>1. n \in Nat
  BY LenProperties
<1>2. Len(qs) = n + 1 /\ qs[n + 1] = run /\ \A k \in 1 .. n : qs[k] = rs[k]
  BY AppendProperties
<1> HIDE DEF qs
<1>3. FreqCourse(qs)[n + 1] = Both(FreqCourse(qs)[n + 1 - 1], Counted(qs[n + 1]))
  <2>1. n + 1 \in 1 .. Len(qs)
    BY <1>1, <1>2
  <2> QED BY <1>1, <1>2, <2>1, FreqsCourseLemma
<1>4. FreqCourse(qs)[n] = FreqCourse(rs)[n]
  BY <1>1, <1>2, FreqsCourseAgree
<1>5. n + 1 - 1 = n
  BY <1>1
<1> QED BY <1>2, <1>3, <1>4, <1>5 DEF FreqsOf, qs

\* Does f say of each of the first n levels what the loop is at behind it?
LoopSteps(f, levels, n) ==
  f = [k \in 0 .. n |-> IF k = 0 THEN Started(levels) ELSE Turned(f[k - 1], levels, k)]

LoopCourse(levels) == CHOOSE f : LoopSteps(f, levels, Len(levels))

LEMMA RunsOfIs ==
  \A levels : RunsOf(levels) = LoopCourse(levels)[Len(levels)].runs
BY DEF RunsOf, LoopCourse, LoopSteps

\* There is such an f.
LEMMA LoopStepsExist ==
  ASSUME NEW levels
  PROVE  \A n \in Nat : \E f : LoopSteps(f, levels, n)
<1> DEFINE T == {n \in Nat : ~\E f : LoopSteps(f, levels, n)}
<1>1. ASSUME NEW n \in T, \A k \in T : n <= k PROVE FALSE
  <2>1. CASE n = 0
    <3> DEFINE g == [k \in 0 .. 0 |-> Started(levels)]
    <3>1. \A k \in 0 .. 0 : k = 0
      OBVIOUS
    <3>2. g = [k \in 0 .. 0 |-> IF k = 0 THEN Started(levels) ELSE Turned(g[k - 1], levels, k)]
      BY <3>1
    <3>3. LoopSteps(g, levels, 0)
      BY <3>2 DEF LoopSteps
    <3> QED BY <2>1, <3>3
  <2>2. CASE n # 0
    <3>1. n \in Nat /\ n - 1 \in Nat /\ ~(n <= n - 1)
      BY <2>2
    <3>2. PICK f : LoopSteps(f, levels, n - 1)
      BY <1>1, <3>1
    <3>3. \A k \in 0 .. n - 1 : f[k] = IF k = 0 THEN Started(levels) ELSE Turned(f[k - 1], levels, k)
      BY <3>2 DEF LoopSteps
    <3> DEFINE g == [k \in 0 .. n |-> IF k = n THEN Turned(f[n - 1], levels, n) ELSE f[k]]
    <3>4. ASSUME NEW k \in 0 .. n
          PROVE  g[k] = IF k = 0 THEN Started(levels) ELSE Turned(g[k - 1], levels, k)
      <4>1. k = n \/ k \in 0 .. n - 1
        BY <3>1
      <4>2. k # 0 => k - 1 \in 0 .. n /\ k - 1 # n
        BY <3>1
      <4>3. k # 0 => g[k - 1] = f[k - 1]
        BY <4>2
      <4> QED BY <2>2, <3>1, <3>3, <4>1, <4>3
    <3>5. LoopSteps(g, levels, n)
      <4>1. g = [k \in 0 .. n |-> IF k = 0 THEN Started(levels) ELSE Turned(g[k - 1], levels, k)]
        BY <3>4
      <4> QED BY <4>1 DEF LoopSteps
    <3> QED BY <3>5
  <2> QED BY <2>1, <2>2
<1>2. T = {}
  BY <1>1, LeastNumber
<1> QED BY <1>2

LEMMA LoopCourseLemma ==
  ASSUME NEW levels, Len(levels) \in Nat
  PROVE  /\ LoopCourse(levels)[0] = Started(levels)
         /\ \A k \in 1 .. Len(levels) : LoopCourse(levels)[k] = Turned(LoopCourse(levels)[k - 1], levels, k)
<1> DEFINE f == LoopCourse(levels)
           n == Len(levels)
<1>1. LoopSteps(f, levels, n)
  BY LoopStepsExist DEF LoopCourse
<1> HIDE DEF f, n
<1>2. f = [k \in 0 .. n |-> IF k = 0 THEN Started(levels) ELSE Turned(f[k - 1], levels, k)]
  BY <1>1 DEF LoopSteps
<1>3. n \in Nat
  BY DEF n
<1>4. f[0] = Started(levels)
  BY <1>2, <1>3
<1>5. ASSUME NEW k \in 1 .. n
      PROVE  f[k] = Turned(f[k - 1], levels, k)
  <2>1. k \in 0 .. n /\ k # 0
    BY <1>3
  <2> QED BY <1>2, <2>1
<1> QED BY <1>4, <1>5 DEF f, n

-----------------------------------------------------------------------------
(* What the loop does *)

\* The first levels of some.
Covered(levels, n) == [k \in 1 .. n |-> levels[k]]

LEMMA CoveredLemma ==
  ASSUME NEW levels \in Seq(Nat), NEW n \in Nat, n <= Len(levels)
  PROVE  /\ Covered(levels, n) \in Seq(Nat)
         /\ Len(Covered(levels, n)) = n
         /\ \A k \in 1 .. n : Covered(levels, n)[k] = levels[k]
<1>1. \A k \in 1 .. n : levels[k] \in Nat
  BY LenProperties, ElementOfSeq
<1> QED BY <1>1 DEF Covered

LEMMA CoveredAll ==
  ASSUME NEW levels \in Seq(Nat)
  PROVE  Covered(levels, Len(levels)) = levels
<1>1. Len(levels) \in Nat
  BY LenProperties
<1>2. /\ Covered(levels, Len(levels)) \in Seq(Nat)
      /\ Len(Covered(levels, Len(levels))) = Len(levels)
      /\ \A k \in 1 .. Len(levels) : Covered(levels, Len(levels))[k] = levels[k]
  BY <1>1, CoveredLemma
<1> QED BY <1>2, SeqEqual

\* ConcatAssociative, for levels.
LEMMA ConcatLevels == \A s, t, u \in Seq(Nat) : (s \o t) \o u = s \o (t \o u)
BY ConcatAssociative, SMTT(40)

\* The levels of a run behind those before it.
LEMMA CoveredMore ==
  ASSUME NEW ls \in Seq(Nat), NEW levels \in Seq(Nat), NEW m \in Nat, NEW n \in Nat,
         m + n <= Len(levels), NEW level \in Nat,
         \A k \in m + 1 .. m + n : levels[k] = level
  PROVE  (ls \o Covered(levels, m)) \o Copies(level, n) = ls \o Covered(levels, m + n)
<1> DEFINE a == Covered(levels, m)
           b == Copies(level, n)
           c == Covered(levels, m + n)
<1>0. Len(levels) \in Nat
  BY LenProperties
<1>1. a \in Seq(Nat) /\ Len(a) = m /\ \A k \in 1 .. m : a[k] = levels[k]
  <2>1. m <= Len(levels)
    BY <1>0
  <2> QED BY <2>1, CoveredLemma, Zenon
<1>2. b \in Seq(Nat)
  BY DEF Copies
<1>3. m + n \in Nat
  OBVIOUS
<1>4. c \in Seq(Nat) /\ Len(c) = m + n /\ \A k \in 1 .. m + n : c[k] = levels[k]
  BY <1>3, CoveredLemma
<1>5. /\ a \o b \in Seq(Nat) /\ Len(a \o b) = Len(a) + n
      /\ \A k \in 1 .. Len(a) : (a \o b)[k] = a[k]
      /\ \A k \in Len(a) + 1 .. Len(a) + n : (a \o b)[k] = level
  BY <1>1, CopiesLemma, ZenonT(60)
<1>6. (ls \o a) \o b = ls \o (a \o b)
  BY <1>1, <1>2, ConcatLevels, ZenonT(60)
<1> DEFINE d == a \o b
<1> HIDE DEF a, c, d
<1>7. ASSUME NEW k \in 1 .. m + n
      PROVE  d[k] = c[k]
  <2>1. k \in 1 .. m \/ k \in m + 1 .. m + n
    OBVIOUS
  <2> QED BY <1>1, <1>4, <1>5, <2>1 DEF d
<1>8. d = c
  <2>1. d \in Seq(Nat) /\ Len(d) = m + n
    BY <1>1, <1>5 DEF d
  <2> QED BY <1>4, <1>7, <2>1, SeqEqual
<1> QED BY <1>6, <1>8 DEF a, c, d

LEMMA CountsAre ==
  ASSUME NEW b \in BOOLEAN, NEW x
  PROVE  /\ MaxCount(b, x) \in Nat /\ MaxCount(b, x) >= 3
         /\ MinCount(b, x) \in Nat
BY EncSizes DEF MaxCount, MinCount

LEMMA CountedIs ==
  ASSUME NEW run, LoopRun(run)
  PROVE  \A x \in LevelSymbols : Counted(run)[x] \in Nat
<1>1. run.level \in EncLevels /\ run.count \in Nat
  BY LoopRunLemma
<1>2. ASSUME NEW y \in LevelSymbols, NEW x \in LevelSymbols
      PROVE  One(y)[x] \in Nat /\ Uncounted[x] \in Nat
  <2>1. (IF y = x THEN 1 ELSE 0) \in Nat /\ 0 \in Nat
    OBVIOUS
  <2> QED BY <2>1, OneIs, Zenon
<1>3. ASSUME NEW x \in LevelSymbols
      PROVE  Counted(run)[x] \in Nat
  <2>1. CASE run.few
    <3>1. Counted(run) = [Uncounted EXCEPT ![run.level] = run.count]
      BY <2>1 DEF Counted
    <3> QED BY <1>1, <3>1 DEF Uncounted
  <2>2. CASE ~run.few /\ run.level # 0
    <3> DEFINE more == IF run.fresh THEN One(run.level) ELSE Uncounted
    <3>1. Counted(run) = Both(One(TableLevelRepNumber), more)
      BY <2>2 DEF Counted
    <3>2. more[x] \in Nat /\ One(TableLevelRepNumber)[x] \in Nat
      BY <1>1, <1>2, SymbolsAre
    <3> HIDE DEF more
    <3>3. Counted(run)[x] = One(TableLevelRepNumber)[x] + more[x]
      BY <3>1 DEF Both
    <3> QED BY <3>2, <3>3
  <2>3. CASE ~run.few /\ run.level = 0
    <3> DEFINE y == IF run.count <= ZerosMax THEN TableLevel0Number ELSE TableLevel0Number2
    <3>1. Counted(run) = One(y)
      BY <2>3 DEF Counted
    <3>2. y \in LevelSymbols
      BY SymbolsAre
    <3> HIDE DEF y
    <3> QED BY <1>2, <3>1, <3>2
  <2> QED BY <2>1, <2>2, <2>3
<1> QED BY <1>3

LEMMA WrittenIs ==
  ASSUME NEW run, LoopRun(run)
  PROVE  Written(run) \in Seq(Run)
<1>1. run.level \in Nat /\ run.count \in Nat
  BY LoopRunLemma
<1>2. ASSUME NEW k \in {"length", "repeat", "zeros"}, NEW level \in Nat, NEW num \in Nat
      PROVE  Number(k, level, num) \in Seq(Run) /\ Number(k, level, num)[1] \in Run
  BY DEF Number, Run
<1>3. CASE run.few
  <2>1. Number("length", run.level, 1)[1] \in Run
    BY <1>1, <1>2
  <2>2. Written(run) = [n \in 1 .. run.count |-> Number("length", run.level, 1)[1]]
    BY <1>3 DEF Written
  <2> QED BY <1>1, <2>1, <2>2
<1>4. CASE ~run.few /\ run.level # 0 /\ run.fresh
  <2>1. run.count - 1 \in Nat
    BY <1>1 DEF LoopRun
  <2>2. /\ Number("length", run.level, 1) \in Seq(Run)
        /\ Number("repeat", 0, run.count - 1) \in Seq(Run)
    BY <1>1, <1>2, <2>1
  <2>3. Written(run) = Number("length", run.level, 1) \o Number("repeat", 0, run.count - 1)
    BY <1>4 DEF Written
  <2> QED BY <2>2, <2>3, ConcatProperties
<1>5. CASE ~run.few /\ run.level # 0 /\ ~run.fresh
  BY <1>1, <1>2, <1>5 DEF Written
<1>6. CASE ~run.few /\ run.level = 0
  BY <1>1, <1>2, <1>6 DEF Written
<1> QED BY <1>3, <1>4, <1>5, <1>6

-----------------------------------------------------------------------------
LRun == [level : EncLevels, count : Nat, few : BOOLEAN, fresh : BOOLEAN]

Loop == [count : Nat, prev : EncLevels \cup {NoLevel}, runs : Seq(LRun), max : Nat, min : Nat]

\* The loop behind the first n levels: the run it is in has the level that comes, and
\* the bounds of its length are those of that level behind the one before; what is
\* written for the runs before, behind what was written already, stands for their levels.
LoopAt(levels, n, t, ns, ls, f) ==
  /\ t \in Loop
  /\ t.count <= n /\ t.count < t.max
  /\ t.prev # NoLevel => n - t.count > 0 /\ levels[n - t.count] = t.prev
  /\ n < Len(levels) =>
       /\ t.max = MaxCount(t.prev = levels[n + 1], levels[n + 1])
       /\ t.min = MinCount(t.prev = levels[n + 1], levels[n + 1])
       /\ \A k \in n - t.count + 1 .. n : levels[k] = levels[n + 1]
  /\ n = Len(levels) => t.count = 0
  /\ CodeOf(t.runs) \in Seq(Run)
  /\ \A x \in LevelSymbols : FreqsOf(t.runs)[x] \in Nat
  /\ Coded(ns \o CodeOf(t.runs), ls \o Covered(levels, n - t.count),
           [x \in LevelSymbols |-> f[x] + FreqsOf(t.runs)[x]])

LEMMA LoopStarts ==
  ASSUME NEW levels \in Seq(EncLevels), Len(levels) >= 1,
         NEW ns, NEW ls, NEW f, Coded(ns, ls, f)
  PROVE  LoopAt(levels, 0, Started(levels), ns, ls, f)
<1> DEFINE t == Started(levels)
<1>1. Len(levels) \in Nat /\ levels[1] \in EncLevels /\ levels[1] # NoLevel
  <2>1. Len(levels) \in Nat
    BY LenProperties
  <2>2. levels[1] \in EncLevels
    BY <2>1, ElementOfSeq
  <2> QED BY <2>1, <2>2, EncLevelsAre
<1>2. /\ t.count = 0 /\ t.prev = NoLevel /\ t.runs = <<>>
      /\ t.max = MaxCount(FALSE, levels[1]) /\ t.min = MinCount(FALSE, levels[1])
  BY DEF Started
<1>3. t \in Loop
  <2>1. MaxCount(FALSE, levels[1]) \in Nat /\ MinCount(FALSE, levels[1]) \in Nat
    BY CountsAre
  <2>2. <<>> \in Seq(LRun)
    BY EmptySeq
  <2> QED BY <2>1, <2>2 DEF Started, Loop
<1>4. 0 < t.max
  <2> DEFINE m == MaxCount(FALSE, levels[1])
  <2>1. m \in Nat /\ m >= 3
    BY CountsAre
  <2>2. t.max = m
    BY <1>2
  <2> HIDE DEF t, m
  <2> QED BY <2>1, <2>2
<1> HIDE DEF t
<1>5. /\ t.max = MaxCount(t.prev = levels[0 + 1], levels[0 + 1])
      /\ t.min = MinCount(t.prev = levels[0 + 1], levels[0 + 1])
  <2>1. 0 + 1 = 1
    OBVIOUS
  <2>2. (t.prev = levels[1]) = FALSE
    BY <1>1, <1>2
  <2> QED BY <1>2, <2>1, <2>2
<1>6. \A k \in 0 - t.count + 1 .. 0 : levels[k] = levels[0 + 1]
  BY <1>2
<1>7. CodeOf(t.runs) = <<>> /\ FreqsOf(t.runs) = Uncounted
  BY <1>2, CodeNone, FreqsNone
<1>8. \A x \in LevelSymbols : FreqsOf(t.runs)[x] = 0
  BY <1>7 DEF Uncounted
<1>9. Coded(ns \o CodeOf(t.runs), ls \o Covered(levels, 0 - t.count),
            [x \in LevelSymbols |-> f[x] + FreqsOf(t.runs)[x]])
  <2>1. ns \in Seq(Run) /\ ls \in Seq(Nat) /\ \A x \in LevelSymbols : f[x] \in Nat
    BY DEF Coded
  <2>2. Covered(levels, 0 - t.count) = <<>>
    BY <1>2 DEF Covered
  <2>3. ns \o CodeOf(t.runs) = ns /\ ls \o Covered(levels, 0 - t.count) = ls
    BY <1>7, <2>1, <2>2, ConcatEmptySeq
  <2> DEFINE g == [x \in LevelSymbols |-> f[x] + FreqsOf(t.runs)[x]]
  <2>4. \A x \in LevelSymbols : g[x] = f[x]
    BY <1>8, <2>1
  <2> HIDE DEF g
  <2>5. Coded(ns, ls, g)
    BY <2>4, CodedSame
  <2> QED BY <2>3, <2>5 DEF g
<1>10. CodeOf(t.runs) \in Seq(Run) /\ \A x \in LevelSymbols : FreqsOf(t.runs)[x] \in Nat
  BY <1>7, <1>8, EmptySeq
<1>11. t.count <= 0 /\ t.count < t.max
  <2>1. t.count = 0
    BY <1>2
  <2> QED BY ONLY <1>4, <2>1
<1>12. /\ t.prev # NoLevel => 0 - t.count > 0 /\ levels[0 - t.count] = t.prev
       /\ 0 = Len(levels) => t.count = 0
  BY <1>2, Zenon
<1> QED BY <1>3, <1>5, <1>6, <1>9, <1>10, <1>11, <1>12 DEF LoopAt, t

LEMMA LoopTurn ==
  ASSUME NEW levels \in Seq(EncLevels), NEW n \in Nat, n < Len(levels),
         NEW ns, NEW ls, NEW f, Coded(ns, ls, f),
         NEW t, LoopAt(levels, n, t, ns, ls, f)
  PROVE  LoopAt(levels, n + 1, Turned(t, levels, n + 1), ns, ls, f)
<1> DEFINE l == Len(levels)
           cur == levels[n + 1]
           next == IF n + 1 < l THEN levels[(n + 1) + 1] ELSE NoLevel
           count == t.count + 1
           u == Turned(t, levels, n + 1)
           run == [level |-> cur, count |-> count,
                   few |-> count < t.min, fresh |-> IsFresh(cur, t.prev)]
<1>1. l \in Nat /\ n + 1 \in 1 .. l /\ levels \in Seq(Nat)
  <2>1. l \in Nat
    BY LenProperties
  <2>2. levels \in Seq(Nat)
    BY SeqMonotonic, EncLevelsSubset
  <2> QED BY <2>1, <2>2
<1>2. cur \in EncLevels /\ cur \in Nat /\ cur # NoLevel
  <2>1. cur \in EncLevels
    BY <1>1, ElementOfSeq
  <2> QED BY <2>1, EncLevelsAre
<1>3. n + 1 < l => next = levels[(n + 1) + 1] /\ next \in EncLevels
  <2>1. n + 1 < l => (n + 1) + 1 \in 1 .. l
    BY <1>1
  <2> QED BY <2>1, ElementOfSeq
<1>4. ~(n + 1 < l) => next = NoLevel
  OBVIOUS
<1>5. /\ t \in Loop
      /\ t.count \in Nat /\ t.count <= n /\ t.max \in Nat /\ t.count < t.max
      /\ t.min \in Nat /\ t.prev \in EncLevels \cup {NoLevel} /\ t.runs \in Seq(LRun)
      /\ count \in Nat
  BY DEF LoopAt, Loop
<1>6. /\ t.max = MaxCount(t.prev = cur, cur) /\ t.min = MinCount(t.prev = cur, cur)
      /\ \A k \in n - t.count + 1 .. n : levels[k] = cur
  BY DEF LoopAt
<1>7. t.prev # NoLevel => n - t.count > 0 /\ levels[n - t.count] = t.prev
  BY DEF LoopAt
<1>8. /\ CodeOf(t.runs) \in Seq(Run)
      /\ \A x \in LevelSymbols : FreqsOf(t.runs)[x] \in Nat
      /\ Coded(ns \o CodeOf(t.runs), ls \o Covered(levels, n - t.count),
               [x \in LevelSymbols |-> f[x] + FreqsOf(t.runs)[x]])
  BY DEF LoopAt
<1>9. ns \in Seq(Run) /\ ls \in Seq(Nat) /\ \A x \in LevelSymbols : f[x] \in Nat
  BY DEF Coded
<1>10. u = IF count < t.max /\ cur = next THEN [t EXCEPT !.count = count]
           ELSE [count |-> 0, prev |-> cur,
                 max |-> MaxCount(cur = next, next), min |-> MinCount(cur = next, next),
                 runs |-> Append(t.runs, run)]
  BY DEF Turned
<1>11. (n + 1) - count = n - t.count
  BY <1>5, SMTT(40)
<1> HIDE DEF l, cur, next, count, u
<1>12. CASE count < t.max /\ cur = next
  <2>1. n + 1 < l /\ next = levels[(n + 1) + 1]
    BY <1>2, <1>3, <1>4, <1>12
  <2>2. u = [t EXCEPT !.count = count]
    BY <1>10, <1>12
  <2>3. /\ u \in Loop /\ u.count = count /\ u.prev = t.prev /\ u.runs = t.runs
        /\ u.max = t.max /\ u.min = t.min
    BY <1>5, <2>2 DEF Loop
  <2>4. count <= n + 1 /\ count < t.max
    BY <1>5, <1>12 DEF count
  <2>5. ASSUME NEW k \in n - t.count + 1 .. n + 1
        PROVE  levels[k] = next
    <3>1. k \in n - t.count + 1 .. n \/ k = n + 1
      BY <1>5
    <3> QED BY <1>6, <1>12, <3>1 DEF cur
  <2>6. /\ u.max = MaxCount(u.prev = levels[(n + 1) + 1], levels[(n + 1) + 1])
        /\ u.min = MinCount(u.prev = levels[(n + 1) + 1], levels[(n + 1) + 1])
    BY <1>6, <1>12, <2>1, <2>3
  <2>7. \A k \in (n + 1) - u.count + 1 .. n + 1 : levels[k] = levels[(n + 1) + 1]
    BY <1>11, <2>1, <2>3, <2>5
  <2>8. n + 1 # l
    BY <1>1, <2>1
  <2>9. (n + 1) - u.count = n - t.count
    BY <1>11, <2>3
  <2> QED BY <1>7, <1>8, <2>3, <2>4, <2>6, <2>7, <2>8, <2>9 DEF LoopAt, l, u
<1>13. CASE ~(count < t.max /\ cur = next)
  <2>1. /\ u.count = 0 /\ u.prev = cur /\ u.runs = Append(t.runs, run)
        /\ u.max = MaxCount(cur = next, next) /\ u.min = MinCount(cur = next, next)
    BY <1>10, <1>13
  <2>2. /\ u.max \in Nat /\ u.max >= 3 /\ u.min \in Nat
    <3>1. (cur = next) \in BOOLEAN
      OBVIOUS
    <3> QED BY <2>1, <3>1, CountsAre, ZenonT(60)
  <2>3. run \in LRun /\ run.level = cur /\ run.count = count
        /\ (run.few = TRUE <=> count < t.min) /\ (run.fresh = FALSE <=> t.prev = cur)
    <3>1. /\ run.level = cur /\ run.count = count
          /\ run.few = (count < t.min) /\ run.fresh = IsFresh(cur, t.prev)
      OBVIOUS
    <3>2. (count < t.min) \in BOOLEAN /\ IsFresh(cur, t.prev) \in BOOLEAN
      BY DEF IsFresh
    <3>3. run \in LRun
      BY <1>2, <1>5, <3>2, Zenon DEF LRun
    <3>4. run.fresh = FALSE <=> t.prev = cur
      BY <3>1, Zenon DEF IsFresh
    <3>5. run.few = TRUE <=> count < t.min
      BY <3>1, Zenon
    <3> QED BY <3>1, <3>3, <3>4, <3>5
  <2> HIDE DEF run
  <2>4. LoopRun(run)
    <3>1. (run.fresh = FALSE) = (t.prev = cur)
      BY <2>3
    <3>2. /\ t.max = MaxCount(run.fresh = FALSE, cur) /\ t.min = MinCount(run.fresh = FALSE, cur)
      BY <1>6, <3>1
    <3>3. count >= 1 /\ count <= t.max
      BY <1>5 DEF count
    <3> QED BY <2>3, <3>2, <3>3 DEF LoopRun, LRun
  <2>5. u.runs \in Seq(LRun)
    BY <1>5, <2>1, <2>3, AppendProperties
  <2>6. u \in Loop
    <3>1. u = [count |-> 0, prev |-> cur,
                 max |-> MaxCount(cur = next, next), min |-> MinCount(cur = next, next),
                 runs |-> Append(t.runs, run)]
      BY <1>10, <1>13 DEF run
    <3>2. /\ MaxCount(cur = next, next) \in Nat /\ MinCount(cur = next, next) \in Nat
          /\ Append(t.runs, run) \in Seq(LRun) /\ 0 \in Nat
      BY <2>1, <2>2, <2>5
    <3>3. cur \in EncLevels \cup {NoLevel}
      BY <1>2
    <3> QED BY <3>1, <3>2, <3>3 DEF Loop
  <2>7. CodeOf(u.runs) = CodeOf(t.runs) \o Written(run)
    BY <1>5, <2>1, <2>3, CodeAppend
  <2>8. FreqsOf(u.runs) = Both(FreqsOf(t.runs), Counted(run))
    BY <1>5, <2>1, <2>3, FreqsAppend
  <2>9. Written(run) \in Seq(Run) /\ \A x \in LevelSymbols : Counted(run)[x] \in Nat
    BY <2>4, WrittenIs, CountedIs
  <2>10. CodeOf(u.runs) \in Seq(Run)
    BY <1>8, <2>7, <2>9, ConcatProperties
  <2>11. \A x \in LevelSymbols :
           FreqsOf(u.runs)[x] = FreqsOf(t.runs)[x] + Counted(run)[x]
    BY <2>8 DEF Both
  <2>12. \A x \in LevelSymbols : FreqsOf(u.runs)[x] \in Nat
    BY <1>8, <2>9, <2>11
  <2> DEFINE m == n - t.count
             ms == ns \o CodeOf(t.runs)
             ks == ls \o Covered(levels, m)
             g == [x \in LevelSymbols |-> f[x] + FreqsOf(t.runs)[x]]
             h == [x \in LevelSymbols |-> g[x] + Counted(run)[x]]
             i0 == [x \in LevelSymbols |-> f[x] + FreqsOf(u.runs)[x]]
  <2>13. m \in Nat /\ m + count = n + 1 /\ m <= Len(levels) /\ m + count <= Len(levels)
    <3>1. m \in Nat /\ m + count = n + 1 /\ m <= l /\ m + count <= l
      BY <1>1, <1>5, SMTT(40) DEF count
    <3> QED BY <3>1 DEF l
  <2>14. run.fresh = FALSE => Len(ks) > 0 /\ ks[Len(ks)] = run.level
    <3> SUFFICES ASSUME run.fresh = FALSE
                 PROVE  Len(ks) > 0 /\ ks[Len(ks)] = run.level
      OBVIOUS
    <3>1. t.prev = cur
      BY <2>3
    <3>2. m > 0 /\ levels[m] = cur
      BY <1>2, <1>7, <3>1
    <3> DEFINE c == Covered(levels, m)
               j == Len(ls)
    <3>3. c \in Seq(Nat) /\ Len(c) = m /\ \A k \in 1 .. m : c[k] = levels[k]
      BY <1>1, <2>13, CoveredLemma, Zenon
    <3>4. j \in Nat
      BY <1>9, LenProperties
    <3> HIDE DEF c, j, m
    <3>5. Len(ls \o c) = j + m /\ \A k \in 1 .. j + m :
            (ls \o c)[k] = IF k <= j THEN ls[k] ELSE c[k - j]
      BY <1>9, <3>3, ConcatProperties DEF j
    <3>6. j + m \in 1 .. j + m /\ ~(j + m <= j) /\ (j + m) - j = m /\ m \in 1 .. m
      BY <2>13, <3>2, <3>4
    <3>7. Len(ls \o c) > 0 /\ (ls \o c)[Len(ls \o c)] = c[m]
      BY <2>13, <3>2, <3>4, <3>5, <3>6
    <3>8. c[m] = cur
      BY <3>2, <3>3, <3>6
    <3> QED BY <2>3, <3>7, <3>8 DEF c
  <2>15. Coded(ms \o Written(run), ks \o Copies(cur, count), h)
    <3>1. Coded(ms, ks, g)
      BY <1>8
    <3> HIDE DEF ms, ks, g
    <3> QED BY <2>3, <2>4, <2>14, <3>1, WrittenCoded
  <2>16. ms \o Written(run) = ns \o CodeOf(u.runs)
    <3>1. ns \in Seq(Run) /\ CodeOf(t.runs) \in Seq(Run) /\ Written(run) \in Seq(Run)
      BY <1>8, <1>9, <2>9
    <3>2. (ns \o CodeOf(t.runs)) \o Written(run) = ns \o (CodeOf(t.runs) \o Written(run))
      BY <3>1, ConcatRuns, Zenon
    <3> QED BY <2>7, <3>2
  <2>17. ks \o Copies(cur, count) = ls \o Covered(levels, n + 1)
    <3>1. \A k \in m + 1 .. m + count : levels[k] = cur
      <4>1. ASSUME NEW k \in m + 1 .. m + count
            PROVE  levels[k] = cur
        <5>1. k \in n - t.count + 1 .. n \/ k = n + 1
          BY <1>5 DEF count
        <5> QED BY <1>6, <5>1 DEF cur
      <4> QED BY <4>1
    <3> HIDE DEF m
    <3>2. (ls \o Covered(levels, m)) \o Copies(cur, count) = ls \o Covered(levels, m + count)
      <4>1. ls \in Seq(Nat) /\ levels \in Seq(Nat) /\ cur \in Nat /\ count \in Nat
        BY <1>1, <1>2, <1>5, <1>9
      <4>2. m \in Nat /\ m + count <= Len(levels)
        BY <2>13
      <4> QED BY ONLY <3>1, <4>1, <4>2, CoveredMore, SMTT(40)
    <3> QED BY <2>13, <3>2
  <2>18. \A x \in LevelSymbols : i0[x] = h[x]
    <3>1. ASSUME NEW x \in LevelSymbols
          PROVE  f[x] + (FreqsOf(t.runs)[x] + Counted(run)[x])
                   = (f[x] + FreqsOf(t.runs)[x]) + Counted(run)[x]
      BY <1>8, <1>9, <2>9
    <3> QED BY <2>11, <3>1, Zenon
  <2>19. Coded(ns \o CodeOf(u.runs), ls \o Covered(levels, n + 1), i0)
    <3> HIDE DEF ms, ks, h, i0
    <3> QED BY <2>15, <2>16, <2>17, <2>18, CodedSame
  <2>20. (n + 1) - u.count = n + 1
    BY <2>1
  <2>21. n + 1 < l =>
           /\ u.max = MaxCount(u.prev = levels[(n + 1) + 1], levels[(n + 1) + 1])
           /\ u.min = MinCount(u.prev = levels[(n + 1) + 1], levels[(n + 1) + 1])
           /\ \A k \in (n + 1) - u.count + 1 .. n + 1 : levels[k] = levels[(n + 1) + 1]
    <3> SUFFICES ASSUME n + 1 < l
                 PROVE  /\ u.max = MaxCount(u.prev = levels[(n + 1) + 1], levels[(n + 1) + 1])
                        /\ u.min = MinCount(u.prev = levels[(n + 1) + 1], levels[(n + 1) + 1])
                        /\ \A k \in (n + 1) - u.count + 1 .. n + 1 :
                             levels[k] = levels[(n + 1) + 1]
      OBVIOUS
    <3>1. next = levels[(n + 1) + 1]
      BY <1>3
    <3>2. \A k \in (n + 1) - u.count + 1 .. n + 1 : FALSE
      BY <2>20
    <3> QED BY <2>1, <3>1, <3>2
  <2>22. /\ u.count <= n + 1 /\ u.count < u.max /\ (n + 1 = l => u.count = 0)
         /\ (n + 1) - u.count > 0
    BY <2>1, <2>2, <2>20
  <2>23. levels[(n + 1) - u.count] = u.prev
    BY <2>1, <2>20 DEF cur
  <2> QED BY <2>6, <2>10, <2>12, <2>19, <2>20, <2>21, <2>22, <2>23 DEF LoopAt, l, u
<1> QED BY <1>12, <1>13

\* What is written for levels stands for them, and is what was counted.
LEMMA LevelsCoded ==
  ASSUME NEW levels \in Seq(EncLevels), Len(levels) >= 1,
         NEW ns, NEW ls, NEW f, Coded(ns, ls, f)
  PROVE  /\ Coded(ns \o LevelTableCode(levels), ls \o levels,
                  [x \in LevelSymbols |-> f[x] + LevelTableDummy(levels)[x]])
         /\ LevelTableCode(levels) \in Seq(Run)
         /\ \A x \in LevelSymbols : LevelTableDummy(levels)[x] \in Nat
<1> DEFINE l == Len(levels)
           t(n) == LoopCourse(levels)[n]
           T == {n \in 0 .. l : ~LoopAt(levels, n, t(n), ns, ls, f)}
<1>1. l \in Nat
  BY LenProperties
<1>2. ASSUME NEW n \in T, \A k \in T : n <= k PROVE FALSE
  <2>1. n # 0
    BY LoopStarts, LoopCourseLemma
  <2>2. PICK m \in Nat : n = m + 1
    <3>1. n - 1 \in Nat /\ n = (n - 1) + 1
      BY <2>1
    <3> QED BY <3>1
  <2>3. m \in 0 .. l /\ m < l /\ ~(n <= m) /\ m + 1 \in 1 .. l /\ (m + 1) - 1 = m
    BY <1>1, <2>2
  <2>4. LoopAt(levels, m, t(m), ns, ls, f)
    BY <1>2, <2>3
  <2>5. t(m + 1) = Turned(t(m), levels, m + 1)
    <3>1. Len(levels) \in Nat /\ m + 1 \in 1 .. Len(levels)
      BY <1>1, <2>3
    <3>2. LoopCourse(levels)[m + 1] = Turned(LoopCourse(levels)[(m + 1) - 1], levels, m + 1)
      BY <3>1, LoopCourseLemma
    <3> QED BY <2>3, <3>2
  <2>6. LoopAt(levels, m + 1, t(m + 1), ns, ls, f)
    <3> HIDE DEF t
    <3> QED BY <2>3, <2>4, <2>5, LoopTurn
  <2> QED BY <2>2, <2>6
<1>3. T = {}
  <2> T \subseteq Nat
    OBVIOUS
  <2> HIDE DEF T
  <2> QED BY <1>2, LeastNumber
<1>4. LoopAt(levels, l, t(l), ns, ls, f)
  BY <1>1, <1>3
<1> DEFINE rs == t(l).runs
<1>5. RunsOf(levels) = rs /\ LevelTableCode(levels) = CodeOf(rs)
      /\ LevelTableDummy(levels) = FreqsOf(rs)
  BY RunsOfIs, LevelTableCodeIs, LevelTableDummyIs
<1>6. l - t(l).count = l
  BY <1>1, <1>4 DEF LoopAt
<1> HIDE DEF l, t
<1>7. /\ Coded(ns \o CodeOf(rs), ls \o Covered(levels, l),
               [x \in LevelSymbols |-> f[x] + FreqsOf(rs)[x]])
      /\ CodeOf(rs) \in Seq(Run) /\ \A x \in LevelSymbols : FreqsOf(rs)[x] \in Nat
  BY <1>4, <1>6 DEF LoopAt
<1>8. Covered(levels, l) = levels
  <2>1. levels \in Seq(Nat)
    BY SeqMonotonic, EncLevelsSubset
  <2> QED BY <2>1, CoveredAll DEF l
<1> QED BY <1>5, <1>7, <1>8

\* Zeros are taken from the end of levels down to the least number of them.
LEMMA TrimmedLemma ==
  ASSUME NEW n \in Nat, NEW levels \in [1 .. n -> EncLevels], NEW min \in Nat,
         min >= 1, min <= n
  PROVE  Trimmed(levels, min) \in Seq(EncLevels) /\ Len(Trimmed(levels, min)) >= 1
<1> DEFINE keeps == {m \in min .. n : \A k \in m + 1 .. n : levels[k] = 0}
<1>1. Len(levels) = n
  OBVIOUS
<1>2. n \in keeps
  OBVIOUS
<1>3. keeps \subseteq Nat
  OBVIOUS
<1> DEFINE m == CHOOSE m \in keeps : \A k \in keeps : m <= k
<1>4. Trimmed(levels, min) = SubSeq(levels, 1, m)
  BY <1>1 DEF Trimmed
<1>5. m \in keeps
  <2> HIDE DEF keeps
  <2> QED BY <1>2, <1>3, LeastNumber
<1>6. m \in Nat /\ m >= 1 /\ m <= n /\ m \in Int /\ 1 \in Int
  <2> HIDE DEF m
  <2> QED BY <1>5
<1> HIDE DEF m, keeps
<1>7. \A k \in 1 .. m : levels[k] \in EncLevels
  BY <1>6
<1>8. SubSeq(levels, 1, m) \in Seq(EncLevels)
      /\ Len(SubSeq(levels, 1, m)) = IF 1 <= m THEN m - 1 + 1 ELSE 0
  BY ONLY <1>6, <1>7, SubSeqProperties
<1>9. Len(SubSeq(levels, 1, m)) = m
  BY <1>6, <1>8
<1> QED BY <1>4, <1>6, <1>8, <1>9

-----------------------------------------------------------------------------
\* What the encoder has to write and what it wrote.
EncoderInv ==
  /\ encMain \in [1 .. EncMain -> EncLevels] /\ encDist \in [1 .. EncDist -> EncLevels]
  /\ NumbersSayTheLevels

LEMMA EncoderStarts ==
  LevelInit => EncoderInv
<1> SUFFICES ASSUME LevelInit PROVE EncoderInv
  OBVIOUS
<1>1. encMain \in [1 .. EncMain -> EncLevels] /\ encDist \in [1 .. EncDist -> EncLevels]
  <2>1. 0 \in EncLevels
    BY EncLevelsAre
  <2> QED BY <2>1 DEF LevelInit
<1>2. coded = FALSE
  BY DEF LevelInit
<1> QED BY <1>1, <1>2 DEF EncoderInv, NumbersSayTheLevels

LEMMA BlockCoded ==
  ASSUME EncoderInv, TryDynBlock
  PROVE  EncoderInv'
<1> DEFINE main == Trimmed(encMain, EncMainMin)
           dist == Trimmed(encDist, 1)
           mf == LevelTableDummy(main)
           df == LevelTableDummy(dist)
<1>1. encMain' = encMain /\ encDist' = encDist
  BY DEF TryDynBlock
<1>2. /\ levelFreqs' = Both(mf, df)
      /\ numbers' = LevelTableCode(main) \o LevelTableCode(dist)
  BY DEF TryDynBlock
<1>3. main \in Seq(EncLevels) /\ Len(main) >= 1
  BY EncSizes, TrimmedLemma DEF EncoderInv
<1>4. dist \in Seq(EncLevels) /\ Len(dist) >= 1
  <2>1. encDist \in [1 .. EncDist -> EncLevels]
    BY DEF EncoderInv
  <2>2. PICK one \in Nat : one = 1 /\ one >= 1 /\ one <= EncDist
    BY EncSizes
  <2>3. Trimmed(encDist, one) \in Seq(EncLevels) /\ Len(Trimmed(encDist, one)) >= 1
    BY <2>1, <2>2, EncSizes, TrimmedLemma
  <2> QED BY <2>2, <2>3
<1>5. encMain' \in [1 .. EncMain -> EncLevels] /\ encDist' \in [1 .. EncDist -> EncLevels]
  BY <1>1 DEF EncoderInv
<1> HIDE DEF main, dist
<1> DEFINE g == [x \in LevelSymbols |-> Uncounted[x] + mf[x]]
           h == [x \in LevelSymbols |-> g[x] + df[x]]
<1>6. /\ Coded(<<>> \o LevelTableCode(main), <<>> \o main, g)
      /\ LevelTableCode(main) \in Seq(Run)
      /\ \A x \in LevelSymbols : mf[x] \in Nat
  BY <1>3, CodedNone, LevelsCoded
<1>7. main \in Seq(Nat)
  BY <1>3, EncLevelsSubset, SeqMonotonic
<1>8. Coded(LevelTableCode(main), main, g)
  <2>1. <<>> \o LevelTableCode(main) = LevelTableCode(main) /\ <<>> \o main = main
    BY <1>6, <1>7, ConcatEmptySeq
  <2> HIDE DEF g
  <2> QED BY <1>6, <2>1
<1> HIDE DEF g
<1>9. /\ Coded(LevelTableCode(main) \o LevelTableCode(dist), main \o dist, h)
      /\ \A x \in LevelSymbols : df[x] \in Nat
  BY <1>4, <1>8, LevelsCoded
<1>10. \A x \in LevelSymbols : levelFreqs'[x] = h[x]
  <2>1. \A x \in LevelSymbols : levelFreqs'[x] = mf[x] + df[x]
    BY <1>2 DEF Both
  <2>2. ASSUME NEW x \in LevelSymbols
        PROVE  g[x] = mf[x]
    BY <1>6 DEF g, Uncounted
  <2>3. \A x \in LevelSymbols : h[x] = g[x] + df[x]
    OBVIOUS
  <2> HIDE DEF h, mf, df
  <2> QED BY <2>1, <2>2, <2>3, Zenon
<1> HIDE DEF h
<1>11. Coded(numbers', main \o dist, levelFreqs')
  BY <1>2, <1>9, <1>10, CodedSame
<1>12. NumbersSayTheLevels'
  <2>1. /\ Expansion(numbers') = main \o dist
        /\ \A k \in 1 .. Len(numbers') : HasBits(numbers'[k])
        /\ \A x \in LevelSymbols :
             levelFreqs'[x] = Cardinality({k \in 1 .. Len(numbers') : SymbolOf(numbers'[k]) = x})
    BY <1>11 DEF Coded, Occurrences
  <2> QED BY <1>1, <2>1 DEF NumbersSayTheLevels, main, dist
<1> QED BY <1>5, <1>12 DEF EncoderInv

LEMMA EncoderStep ==
  EncoderInv /\ [LevelNext]_levelVars => EncoderInv'
<1>1. ASSUME EncoderInv, UNCHANGED encVars
      PROVE  EncoderInv'
  <2>1. /\ encMain' = encMain /\ encDist' = encDist /\ numbers' = numbers
        /\ levelFreqs' = levelFreqs /\ coded' = coded
    BY <1>1 DEF encVars
  <2> QED BY <1>1, <2>1 DEF EncoderInv, NumbersSayTheLevels
<1> QED BY <1>1, BlockCoded DEF LevelNext, Decoder, Encoder, levelVars

-----------------------------------------------------------------------------
(* The whole *)

\* Of the readers any one works, and the other writers leave them alone.
ReadersInv ==
  /\ kind # "readerBE" => BitsInv /\ stale = FALSE /\ crashed = FALSE
  /\ kind = "readerBE" => BitsInvBE
  /\ TruncatedMeansEnd

LEMMA ReadersStart == HeaderInit => ReadersInv
<1> SUFFICES ASSUME HeaderInit PROVE ReadersInv
  OBVIOUS
<1>1. InitBE /\ Init /\ stale = FALSE /\ crashed = FALSE
  BY DEF HeaderInit, IoInit, InitBE
<1>2. TruncatedMeansEnd
  BY <1>1 DEF Init, TruncatedMeansEnd
<1> QED BY <1>1, <1>2, InitBits, InitBitsBE DEF ReadersInv

LEMMA ReadersStep == ReadersInv /\ [HeaderNext]_headerVars => ReadersInv'
<1> SUFFICES ASSUME ReadersInv, [HeaderNext]_headerVars PROVE ReadersInv'
  OBVIOUS
<1>1. ASSUME UNCHANGED <<varsBE, kind>>
      PROVE  ReadersInv'
  <2>1. UNCHANGED vars /\ error' = error /\ wanted' = wanted /\ size' = size
        /\ consumed' = consumed /\ kind' = kind /\ stale' = stale /\ crashed' = crashed
    BY <1>1 DEF varsBE, vars
  <2>2. BitsInv => BitsInv'
    BY <2>1, ReaderStep
  <2>3. BitsInvBE => BitsInvBE'
    BY <1>1, ReaderStepBE
  <2> QED BY <2>1, <2>2, <2>3 DEF ReadersInv, TruncatedMeansEnd
<1>2. CASE ReaderLE
  <2>1. /\ Next /\ kind = "readerLE" /\ kind' = kind /\ stale' = stale /\ crashed' = crashed
    BY <1>2 DEF ReaderLE
  <2>2. BitsInv' /\ TruncatedMeansEnd'
    BY <2>1, ReaderStep, TruncatedStep DEF ReadersInv
  <2> QED BY <2>1, <2>2 DEF ReadersInv
<1>3. CASE ReaderBE
  <2>1. NextBE /\ kind = "readerBE" /\ kind' = kind
    BY <1>3 DEF ReaderBE
  <2>2. BitsInvBE' /\ TruncatedMeansEnd'
    BY <2>1, ReaderStepBE, TruncatedStepBE DEF ReadersInv
  <2> QED BY <2>1, <2>2 DEF ReadersInv
<1>4. CASE Writer \/ LevelsStep \/ UNCHANGED headerVars
  BY <1>1, <1>4 DEF Writer, LevelsStep, headerVars, ioVars
<1> QED BY <1>2, <1>3, <1>4 DEF HeaderNext, BitsStep, IoNext

LEMMA WritersStep ==
  ASSUME HighBitsClear = TRUE, WInv, [HeaderNext]_headerVars
  PROVE  WInv'
<1>1. CASE Writer
  BY <1>1, WriteStep DEF Writer
<1>2. CASE UNCHANGED wVars
  BY <1>2, WriteStep
<1> QED BY <1>1, <1>2 DEF HeaderNext, BitsStep, LevelsStep, IoNext, ReaderLE, ReaderBE,
         headerVars, ioVars

LevelsInv == TablesInv /\ EncoderInv

LEMMA LevelsKept == LevelsInv /\ [HeaderNext]_headerVars => LevelsInv'
<1> SUFFICES ASSUME LevelsInv, [HeaderNext]_headerVars PROVE LevelsInv'
  OBVIOUS
<1>1. [LevelNext]_levelVars
  BY DEF HeaderNext, BitsStep, LevelsStep, headerVars
<1>2. [TablesNext]_tablesVars
  BY <1>1 DEF LevelNext, Decoder, Encoder, levelVars
<1> QED BY <1>1, <1>2, TablesStep, EncoderStep DEF LevelsInv

-----------------------------------------------------------------------------
\* Whichever of the readers works.
LEMMA ReadersAreRight ==
  ReadersInv => /\ BufferedIsUnconsumed /\ PeekTellsTheStream /\ TruncatedMeansEnd
                /\ StaleOnlyAtEnd
<1> SUFFICES ASSUME ReadersInv
             PROVE  BufferedIsUnconsumed /\ PeekTellsTheStream /\ TruncatedMeansEnd
                      /\ StaleOnlyAtEnd
  OBVIOUS
<1>1. CASE kind # "readerBE"
  <2>1. BitsInv /\ TruncatedMeansEnd /\ stale = FALSE /\ crashed = FALSE
    BY <1>1 DEF ReadersInv
  <2>2. StaleOnlyAtEnd
    BY <2>1 DEF StaleOnlyAtEnd
  <2> QED BY <2>1, <2>2, InvKeepsBits DEF BitsInv
<1>2. CASE kind = "readerBE"
  <2>1. BitsInvBE /\ TruncatedMeansEnd
    BY <1>2 DEF ReadersInv
  <2> QED BY <2>1, InvKeepsBitsBE, InvIsStaleAtEnd DEF BitsInvBE
<1> QED BY <1>1, <1>2

\* A value peeked is the next bits of the stream, zeros behind its end ...
THEOREM BitsRead == HeaderSpec => []PeekTellsTheStream
BY ReadersStart, ReadersStep, ReadersAreRight, PTL DEF HeaderSpec

\* ... what was taken from the stream and not consumed is in the buffer, no bit more or less ...
THEOREM NoBitIsSkipped == HeaderSpec => []BufferedIsUnconsumed
BY ReadersStart, ReadersStep, ReadersAreRight, PTL DEF HeaderSpec

\* ... a stream is called truncated only when more bits were asked for than it has left ...
THEOREM TruncatedAtEnd == HeaderSpec => []TruncatedMeansEnd
BY ReadersStart, ReadersStep, ReadersAreRight, PTL DEF HeaderSpec

\* ... and stale bits, or an index that runs off the buffer, show only behind its last bit.
THEOREM StaleAtEnd == HeaderSpec => []StaleOnlyAtEnd
BY ReadersStart, ReadersStep, ReadersAreRight, PTL DEF HeaderSpec

\* Wherever alignToByte() is called, it stops at the next byte boundary.
THEOREM AlignsToBoundary == HeaderSpec => AlignGoesToBoundary
<1>1. ReadersInv /\ ReadersInv' =>
        [alignToByte /\ error' = "none" => consumed' % 8 = 0 /\ consumed' - consumed < 8]_vars
  <2> SUFFICES ASSUME ReadersInv, ReadersInv', alignToByte, error' = "none"
               PROVE  consumed' % 8 = 0 /\ consumed' - consumed < 8
    OBVIOUS
  <2>1. consumed \in Nat /\ mBitPos \in 0 .. 8
    BY HereBE DEF ReadersInv, BitsInv, TypeOK
  <2>2. /\ consumed' \in Nat /\ taken' \in Nat /\ mValid' \in Int /\ mPos' \in Int
        /\ 8 * (mValid' - mPos') + mBitPos' = 8 * taken' - consumed'
    <3>1. CASE kind' # "readerBE"
      <4>1. BitsInv'
        BY <3>1 DEF ReadersInv
      <4>2. /\ mValid' \in Index /\ mPos' \in 0 .. mValid' /\ mBitPos' \in 0 .. 8
            /\ taken' \in 0 .. size' /\ size' \in Nat /\ consumed' \in Nat
        BY <4>1 DEF BitsInv, TypeOK
      <4>3. 8 * (mValid' - mPos') + mBitPos' = 8 * taken' - consumed'
        BY <4>1 DEF BitsInv, Good, BitsIn, Kept, Here
      <4>4. mValid' \in Int
        BY <4>2, BitsAssumption DEF Index
      <4> QED BY <4>2, <4>3, <4>4
    <3>2. CASE kind' = "readerBE"
      <4>1. BitsInvBE'
        BY <3>2 DEF ReadersInv
      <4>2. /\ mValid' \in Index \cup {-1} /\ mPos' \in 0 .. mValid' + 1 /\ mBitPos' \in 0 .. 8
            /\ taken' \in 0 .. size' /\ size' \in Nat /\ consumed' \in Nat
        BY <4>1 DEF BitsInvBE, GoodBE, GoodIndicesBE, Here, AllBits
      <4>3. 8 * (mValid' - mPos') + mBitPos' = 8 * taken' - consumed'
        BY <4>1 DEF BitsInvBE, GoodBE, BitsIn, Kept, Here
      <4>4. mValid' \in Int
        BY <4>2, BitsAssumption DEF Index
      <4> QED BY <4>2, <4>3, <4>4
    <3> QED BY <3>1, <3>2
  <2>3. PICK r \in Ready(8) :
          IF OnBoundary(r)
            THEN Become(r) /\ UNCHANGED <<consumed, error, wanted>>
            ELSE IF 8 * (r.valid - r.pos) + r.bitPos < 16 - r.bitPos
              THEN /\ Become(r)
                   /\ error' = "cannotAlign" /\ wanted' = r.bitPos + 8
                   /\ UNCHANGED consumed
              ELSE /\ Become([r EXCEPT !.pos = @ + 1, !.bitPos = 8])
                   /\ consumed' = consumed + r.bitPos
                   /\ UNCHANGED <<error, wanted>>
    BY DEF alignToByte
  <2>4. /\ r.bitPos \in 0 .. 8
        /\ [r EXCEPT !.pos = @ + 1, !.bitPos = 8].bitPos = 8
    <3>1. CASE needRefill(8)
      BY <2>1, <3>1 DEF Ready, refill
    <3>2. CASE ~needRefill(8)
      BY <2>1, <3>2 DEF Ready, Here
    <3> QED BY <3>1, <3>2
  <2>7. \A v, p, t \in Int, c \in Nat : 8 * (v - p) + 8 = 8 * t - c => c % 8 = 0
    OBVIOUS
  <2>8. mBitPos' = 8 => consumed' % 8 = 0
    <3>1. taken' \in Int
      BY <2>2
    <3> QED BY <2>2, <2>7, <3>1, Zenon
  <2>5. CASE OnBoundary(r)
    <3>1. mBitPos' = 8 /\ consumed' = consumed
      BY <2>3, <2>5 DEF OnBoundary, Become
    <3>2. consumed - consumed < 8
      BY <2>1
    <3> QED BY <2>8, <3>1, <3>2, Zenon
  <2>6. CASE ~OnBoundary(r)
    <3>1. Become([r EXCEPT !.pos = @ + 1, !.bitPos = 8]) /\ consumed' = consumed + r.bitPos
      BY <2>3, <2>6
    <3>2. mBitPos' = 8
      BY <2>4, <3>1 DEF Become
    <3>3. r.bitPos < 8
      BY <2>4, <2>6 DEF OnBoundary
    <3>4. (consumed + r.bitPos) - consumed < 8
      BY <2>1, <2>4, <3>3
    <3> QED BY <2>8, <3>1, <3>2, <3>4, Zenon
  <2> QED BY <2>5, <2>6
<1> QED BY <1>1, ReadersStart, ReadersStep, PTL DEF HeaderSpec, AlignGoesToBoundary

\* Whatever widths bits are written in and wherever flushes fall or fail, the target and the
\* buffer have them in order and once each, when the bits above a value are clear.
THEOREM BitsWritten ==
  ASSUME HighBitsClear = TRUE
  PROVE  HeaderSpec => []BitsInOrder
<1>1. WInv /\ [HeaderNext]_headerVars => WInv'
  BY WritersStep
<1>2. HeaderInit => WInv
  BY InitWrites DEF HeaderInit, IoInit
<1> QED BY <1>1, <1>2, WritesInOrder, PTL DEF HeaderSpec

\* Both codes of a block get the lengths that its numbers and repetitions stand for ...
THEOREM LevelsRead == HeaderSpec => []LevelsAreTheRuns
<1>1. HeaderInit => LevelsInv
  BY InitTables, EncoderStarts DEF HeaderInit, LevelInit, LevelsInv
<1>2. LevelsInv => LevelsAreTheRuns
  BY DEF LevelsInv, TablesInv
<1> QED BY <1>1, <1>2, LevelsKept, PTL DEF HeaderSpec

\* ... none of them from memory that was never written ...
THEOREM LevelsDefined == HeaderSpec => []NoUndefinedLevel
<1>1. HeaderInit => LevelsInv
  BY InitTables, EncoderStarts DEF HeaderInit, LevelInit, LevelsInv
<1>2. LevelsInv => NoUndefinedLevel
  BY DEF LevelsInv, TablesInv
<1> QED BY <1>1, <1>2, LevelsKept, PTL DEF HeaderSpec

\* ... and the numbers and repetitions that the encoder writes stand for its code lengths,
\* each of them counted as often as it is written, and no repetition too long for its bits.
THEOREM LevelsWritten == HeaderSpec => []NumbersSayTheLevels
<1>1. HeaderInit => LevelsInv
  BY InitTables, EncoderStarts DEF HeaderInit, LevelInit, LevelsInv
<1>2. LevelsInv => NumbersSayTheLevels
  BY DEF LevelsInv, EncoderInv
<1> QED BY <1>1, <1>2, LevelsKept, PTL DEF HeaderSpec

=============================================================================
