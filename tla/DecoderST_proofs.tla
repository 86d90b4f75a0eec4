--------------------------- MODULE DecoderST_proofs ---------------------------
(***************************************************************************)
(* Proofs about DeflateDecoderST, for every size of a portion, of the ring *)
(* buffer and of the data: no border between portions loses or repeats a   *)
(* byte, and the decoder implements Inflate.                               *)
(***************************************************************************)
EXTENDS DeflateDecoderST, SequenceTheorems, TLAPS

\* What the output theorems assume of callers: section 4 of the README has what happens
\* without the first, and nothing says what a stream with kept history owes.
CarefulCaller == Careful /\ Histories \subseteq {FALSE}

\* The bytes of a match already decoded, but not put yet.
Rest == IF mRemainLen > 0 THEN mRemainLen ELSE 0

\* Where codeChunk() stands in the data: the rest of a match lies before the next
\* position, a stored block does not reach behind the data, and what follows the last
\* block is its end.
BlockInv ==
  /\ pc = "chunk" => mRemainLen # LenIdNeedInit
  /\ pc = "loop" => mRemainLen # LenIdFinished
  /\ mRemainLen # LenIdNeedInit =>
       /\ Rest < next
       /\ mNeedReadTable /\ mIsFinalBlock => next = size + 1
       /\ ~mNeedReadTable /\ mStoredMode =>
            /\ next + mStoredBlockSize <= size + 1
            /\ mIsFinalBlock => next + mStoredBlockSize = size + 1
       /\ mRemainLen = LenIdFinished => next = size + 1

-----------------------------------------------------------------------------
\* The positions 1 .. n are a sequence of n numbers.
LEMMA PositionsLemma ==
  ASSUME NEW n \in Nat
  PROVE  /\ Owed!Positions(n) \in Seq(Nat)
         /\ Len(Owed!Positions(n)) = n
         /\ \A i \in 1 .. n : Owed!Positions(n)[i] = i
BY IsASeq DEF Owed!Positions

\* What remains of a division is less than the divisor, and no more than the dividend.
LEMMA ModLemma ==
  ASSUME NEW a \in Nat, NEW b \in Nat \ {0}
  PROVE  /\ a % b \in 0 .. b - 1
         /\ a % b <= a
OBVIOUS

\* Where putting n positions cuts between out and ring, each keeps its type, the ring has
\* room, and out grows.
LEMMA PutLemma ==
  ASSUME ring \in Seq(Nat), out \in Seq(Nat), NEW from \in Nat \ {0}, NEW n \in Nat,
         PutFrom(from, n)
  PROVE  /\ out' \in Seq(Nat) /\ ring' \in Seq(Nat)
         /\ Len(ring') < RingSize
         /\ Len(out) <= Len(out')
         /\ out' \o ring' = (out \o ring) \o [i \in 1 .. n |-> from + i - 1]
         /\ Len(out') + Len(ring') = Len(out) + Len(ring) + n
<1> DEFINE new  == [i \in 1 .. n |-> from + i - 1]
           all  == ring \o new
           full == Len(all) - (Len(all) % RingSize)
<1>1. new \in Seq(Nat) /\ Len(new) = n
  <2>1. \A i \in 1 .. n : from + i - 1 \in Nat
    OBVIOUS
  <2> QED BY <2>1, IsASeq
<1> HIDE DEF new
<1>2. all \in Seq(Nat) /\ Len(all) = Len(ring) + n
  BY <1>1, ConcatProperties
<1> HIDE DEF all
<1>3. full \in 0 .. Len(all) /\ Len(all) - full < RingSize
  <2>1. Len(all) \in Nat /\ RingSize \in Nat \ {0}
    BY <1>2, LenProperties, STAssumption
  <2>2. Len(all) % RingSize \in 0 .. RingSize - 1 /\ Len(all) % RingSize <= Len(all)
    BY <2>1, ModLemma
  <2> QED BY <2>1, <2>2
<1> HIDE DEF full
<1> DEFINE flushed == SubSeq(all, 1, full)
           kept    == SubSeq(all, full + 1, Len(all))
<1>4. out' = out \o flushed /\ ring' = kept
  BY DEF PutFrom, full, all, new
<1>5. /\ flushed \in Seq(Nat) /\ kept \in Seq(Nat)
      /\ Len(flushed) = full /\ Len(kept) = Len(all) - full
  <2>1. \A i \in 1 .. Len(all) : all[i] \in Nat
    BY <1>2, ElementOfSeq
  <2>2. Len(all) \in Nat
    BY <1>2, LenProperties
  <2>3. \A i \in 1 .. full : all[i] \in Nat
    BY <1>3, <2>1, <2>2
  <2>4. \A i \in full + 1 .. Len(all) : all[i] \in Nat
    BY <1>3, <2>1, <2>2
  <2>5. flushed \in Seq(Nat) /\ Len(flushed) = IF 1 <= full THEN full - 1 + 1 ELSE 0
    BY <2>3, <1>3, <2>2, SubSeqProperties
  <2>6. /\ kept \in Seq(Nat)
        /\ Len(kept) = IF full + 1 <= Len(all) THEN Len(all) - (full + 1) + 1 ELSE 0
    BY <2>4, <1>3, <2>2, SubSeqProperties
  <2> HIDE DEF flushed, kept
  <2> QED BY <2>2, <2>5, <2>6, <1>3
<1>6. flushed \o kept = all
  <2> DEFINE both == flushed \o kept
  <2>1. both \in Seq(Nat) /\ Len(both) = Len(all)
    <3> HIDE DEF flushed, kept
    <3>1. both \in Seq(Nat) /\ Len(both) = Len(flushed) + Len(kept)
      BY <1>5, ConcatProperties
    <3> HIDE DEF both
    <3> QED BY <3>1, <1>5, <1>3, <1>2, LenProperties
  <2>2. \A i \in 1 .. Len(both) : both[i] = all[i]
    <3> SUFFICES ASSUME NEW i \in 1 .. Len(all) PROVE both[i] = all[i]
      BY <2>1
    <3>0. Len(all) \in Nat
      BY <1>2, LenProperties
    <3>1. both[i] = IF i <= full THEN flushed[i] ELSE kept[i - full]
      <4> HIDE DEF flushed, kept
      <4> QED BY <1>5, <1>3, <3>0, ConcatProperties, SMTT(40)
    <3>2. i <= full => flushed[i] = all[i]
      BY <1>3, <3>0
    <3>3. i > full => kept[i - full] = all[i]
      BY <1>3, <3>0
    <3> HIDE DEF flushed, kept, both
    <3> QED BY <3>0, <3>1, <3>2, <3>3, <1>3
  <2> HIDE DEF both
  <2>3. both = all
    BY <2>1, <2>2, <1>2, SeqEqual
  <2> QED BY <2>3 DEF both
<1> HIDE DEF flushed, kept
<1>7. out' \o ring' = (out \o ring) \o new
  <2>1. out' \o ring' = (out \o flushed) \o kept
    BY <1>4
  <2>2. (out \o flushed) \o kept = out \o (flushed \o kept)
    <3>1. flushed \in Seq(Nat) /\ kept \in Seq(Nat)
      BY <1>5
    <3>2. out \in Seq(Nat)
      OBVIOUS
    <3> QED BY ONLY <3>1, <3>2, ConcatAssociative, SMTT(40)
  <2>3. out \o (flushed \o kept) = out \o (ring \o new)
    BY <1>6 DEF all
  <2>4. out \o (ring \o new) = (out \o ring) \o new
    BY <1>1, ConcatAssociative, SMTT(40)
  <2> QED BY <2>1, <2>2, <2>3, <2>4
<1>8. out' \in Seq(Nat) /\ Len(out') = Len(out) + full
  BY <1>4, <1>5, ConcatProperties
<1> QED
  <2>1. Len(out) \in Nat /\ Len(ring) \in Nat /\ Len(all) \in Nat
    BY <1>2, LenProperties
  <2>2. Len(ring') = Len(all) - full
    BY <1>4, <1>5
  <2>3. ring' \in Seq(Nat)
    BY <1>4, <1>5
  <2> QED BY <2>1, <2>2, <2>3, <1>2, <1>3, <1>7, <1>8 DEF new

-----------------------------------------------------------------------------
\* The flags, apart from the numbers.
FlagsOK ==
  /\ mKeepHistory \in BOOLEAN /\ mInterrupted \in BOOLEAN
  /\ mNeedReadTable \in BOOLEAN /\ mIsFinalBlock \in BOOLEAN /\ mStoredMode \in BOOLEAN

\* What mRemainLen says besides a length is no length.
LEMMA MarksLemma ==
  /\ LenIdFinished \in Int /\ LenIdFinished < 0
  /\ LenIdNeedInit \in Int /\ LenIdNeedInit < 0
  /\ LenIdFinished # LenIdNeedInit
BY DEF LenIdFinished, LenIdNeedInit

\* Types and BlockInv, action by action.
LEMMA BlockStep ==
  ASSUME TypeOK, BlockInv, [Next]_vars
  PROVE  TypeOK' /\ BlockInv'
<1> USE STAssumption, MarksLemma DEF BlockInv, Rest
<1>0. ASSUME NEW from \in Nat \ {0}, NEW n \in 0 .. curSize, PutFrom(from, n)
      PROVE  /\ out' \in Seq(Nat) /\ ring' \in Seq(Nat) /\ Len(ring') < RingSize
             /\ curSize' \in 0 .. ChunkSize
  <2>1. n \in Nat /\ ring \in Seq(Nat) /\ out \in Seq(Nat)
    BY DEF TypeOK
  <2>2. curSize' \in 0 .. ChunkSize
    BY <1>0 DEF PutFrom, TypeOK
  <2> QED BY <1>0, <2>1, <2>2, PutLemma
<1>1. CASE Stream
  <2>1. mBytesExpected' \in Nat /\ mKeepHistory' \in BOOLEAN /\ size' \in Nat
    BY <1>1 DEF Stream
  <2>4. FlagsOK'
    BY <1>1, <2>1 DEF Stream, TypeOK, FlagsOK
  <2>2. TypeOK'
    <3>1. /\ pc' = "loop" /\ mRemainLen' = LenIdNeedInit /\ next' = 1 /\ result' = "none"
          /\ streams' = streams + 1 /\ out' = <<>>
          /\ UNCHANGED <<mStoredBlockSize, curSize, ring>>
      BY <1>1 DEF Stream
    <3>2. next' \in 1 .. size' + 1
      <4>1. ASSUME NEW s \in Nat PROVE 1 \in 1 .. s + 1
        OBVIOUS
      <4> QED BY <2>1, <3>1, <4>1
    <3>5. streams' \in Nat
      BY <3>1 DEF TypeOK
    <3>3. out' \in Seq(Nat) /\ ring' \in Seq(Nat) /\ Len(ring') < RingSize
      BY <3>1, EmptySeq DEF TypeOK
    <3>4. mStoredBlockSize' \in Nat /\ curSize' \in 0 .. ChunkSize
      BY <3>1 DEF TypeOK
    <3> QED BY <2>1, <2>4, <3>1, <3>2, <3>3, <3>4, <3>5, Zenon DEF TypeOK, FlagsOK
  <2>3. BlockInv'
    BY <1>1 DEF Stream
  <2> QED BY <2>2, <2>3
<1>2. CASE Interrupt
  BY <1>2 DEF Interrupt, callVars, modeVars, TypeOK
<1>3. CASE LoopInterrupted
  BY <1>3 DEF LoopInterrupted, Return, callVars, modeVars, TypeOK
<1>4. CASE LoopChunk
  <2>1. Sent \in Seq(Nat) /\ Unsent \in Seq(Nat) /\ Len(Unsent) < RingSize
    BY ConcatProperties, EmptySeq DEF TypeOK, Sent, Unsent
  <2>2. curSize' \in 0 .. ChunkSize
    BY <1>4, <2>1, LenProperties DEF LoopChunk, Room, Lesser, TypeOK
  <2>3. FlagsOK'
    BY <1>4 DEF LoopChunk, InitChunk, callVars, modeVars, TypeOK, FlagsOK
  <2>4. CASE mRemainLen = LenIdNeedInit
    <3>1. mRemainLen' = 0 /\ ~mIsFinalBlock' /\ mNeedReadTable' /\ mStoredBlockSize' = mStoredBlockSize
      BY <1>4, <2>4 DEF LoopChunk, InitChunk
    <3> QED BY <1>4, <2>1, <2>2, <2>3, <3>1 DEF LoopChunk, callVars, TypeOK, FlagsOK
  <2>5. CASE mRemainLen # LenIdNeedInit
    BY <1>4, <2>1, <2>2, <2>5 DEF LoopChunk, InitChunk, callVars, modeVars, TypeOK
  <2> QED BY <2>4, <2>5
<1>5. CASE LoopReached
  <2>1. Sent \in Seq(Nat)
    BY ConcatProperties DEF TypeOK, Sent
  <2> QED BY <1>5, <2>1, EmptySeq DEF LoopReached, Return, callVars, modeVars, TypeOK
<1>6. CASE Remainder
  <2> DEFINE n == Lesser(mRemainLen, curSize)
  <2>1. n \in 0 .. curSize /\ n <= mRemainLen /\ next - mRemainLen \in Nat \ {0}
        /\ PutFrom(next - mRemainLen, n) /\ mRemainLen' = mRemainLen - n
    BY <1>6 DEF Remainder, Lesser, TypeOK
  <2> HIDE DEF n
  <2>8. TypeOK'
    BY <1>6, <2>1, <1>0 DEF Remainder, callVars, TypeOK
  <2>9. BlockInv'
    BY <1>6, <2>1, <1>0, SMTT(40) DEF Remainder, callVars, TypeOK
  <2> QED BY <2>8, <2>9
<1>7. CASE Finished
  BY <1>7 DEF Finished, Decoding, callVars, TypeOK
<1>8. CASE ReadTables
  <2>8. TypeOK'
    BY <1>8 DEF ReadTables, Decoding, callVars, TypeOK
  <2>1. /\ mRemainLen = 0 /\ mRemainLen' = 0 /\ pc = "chunk" /\ pc' = "chunk"
        /\ ~mNeedReadTable' /\ next' = next /\ size' = size
    BY <1>8 DEF ReadTables, Decoding, callVars
  <2>2. /\ mStoredMode' => mStoredBlockSize' <= size + 1 - next
        /\ mStoredMode' /\ mIsFinalBlock' => mStoredBlockSize' = size + 1 - next
    BY <1>8 DEF ReadTables
  <2>3. next \in Nat /\ next # 0 /\ size \in Nat /\ mStoredBlockSize' \in Nat
    BY <2>8, <2>1 DEF TypeOK
  <2>4. 0 # LenIdNeedInit /\ 0 # LenIdFinished
    OBVIOUS
  <2>5. /\ mStoredMode' => next + mStoredBlockSize' <= size + 1
        /\ mStoredMode' /\ mIsFinalBlock' => next + mStoredBlockSize' = size + 1
    <3>1. ASSUME NEW k \in Nat, NEW a \in Nat, NEW b \in Nat
          PROVE  /\ k <= b + 1 - a => a + k <= b + 1
                 /\ k = b + 1 - a => a + k = b + 1
      OBVIOUS
    <3>2. mStoredMode' => next + mStoredBlockSize' <= size + 1
      BY <2>2, <2>3, <3>1
    <3>3. mStoredMode' /\ mIsFinalBlock' => next + mStoredBlockSize' = size + 1
      BY <2>2, <2>3, <3>1
    <3> QED BY <3>2, <3>3
  <2>9. BlockInv'
    BY <2>1, <2>3, <2>4, <2>5
  <2> QED BY <2>8, <2>9
<1>9. CASE Stored
  <2> DEFINE n == Lesser(mStoredBlockSize, curSize)
  <2>1. n \in 0 .. curSize /\ n <= mStoredBlockSize /\ next \in Nat \ {0}
        /\ PutFrom(next, n) /\ next' = next + n /\ mStoredBlockSize' = mStoredBlockSize - n
    BY <1>9 DEF Stored, Lesser, TypeOK
  <2> HIDE DEF n
  <2>8. TypeOK'
    BY <1>9, <2>1, <1>0 DEF Stored, Decoding, callVars, TypeOK
  <2>2. /\ mRemainLen = 0 /\ mRemainLen' = 0 /\ pc = "chunk" /\ pc' = "chunk"
        /\ ~mNeedReadTable /\ mStoredMode /\ size' = size
        /\ mIsFinalBlock' <=> mIsFinalBlock
        /\ mNeedReadTable' <=> mStoredBlockSize' = 0
    BY <1>9 DEF Stored, Decoding, callVars
  <2>3. next' + mStoredBlockSize' = next + mStoredBlockSize /\ 0 < next'
        /\ next' \in Int /\ mStoredBlockSize' \in Nat /\ size \in Nat
    BY <2>1 DEF TypeOK
  <2>4. 0 # LenIdNeedInit /\ 0 # LenIdFinished
    OBVIOUS
  <2>5. next + mStoredBlockSize <= size + 1
        /\ (mIsFinalBlock => next + mStoredBlockSize = size + 1)
    BY <2>2, <2>4
  <2>6. mNeedReadTable' /\ mIsFinalBlock' => next' = size' + 1
    BY <2>2, <2>3, <2>5
  <2>7. next' + mStoredBlockSize' <= size' + 1
        /\ (mIsFinalBlock' => next' + mStoredBlockSize' = size' + 1)
    BY <2>2, <2>3, <2>5
  <2>9. BlockInv'
    BY <2>2, <2>3, <2>4, <2>6, <2>7
  <2> QED BY <2>8, <2>9
<1>10. CASE Literal
  <2>1. next \in Nat \ {0} /\ 1 \in 0 .. curSize /\ PutFrom(next, 1)
    BY <1>10 DEF Literal, Coded, Decoding, TypeOK
  <2> QED BY <1>10, <2>1, <1>0 DEF Literal, Coded, Decoding, callVars, modeVars, TypeOK
<1>11. CASE EndOfBlock
  BY <1>11 DEF EndOfBlock, Coded, Decoding, callVars, TypeOK
<1>12. CASE \E len \in Lengths : Match(len)
  <2>1. PICK len \in Lengths : Match(len)
    BY <1>12
  <2> DEFINE n == Lesser(len, curSize)
  <2>2. len \in Nat \ {0} /\ n \in 0 .. curSize /\ n <= len /\ next \in Nat \ {0} /\ n > 0
        /\ PutFrom(next, n) /\ next' = next + len /\ mRemainLen' = len - n
    BY <2>1 DEF Match, Coded, Decoding, Lesser, TypeOK
  <2> HIDE DEF n
  <2> QED BY <2>1, <2>2, <1>0 DEF Match, Coded, Decoding, callVars, TypeOK
<1>13. CASE ChunkDone
  BY <1>13 DEF ChunkDone, callVars, modeVars, TypeOK
<1>14. CASE StreamDone
  <2>1. out \o ring \in Seq(Nat)
    BY ConcatProperties DEF TypeOK
  <2> QED BY <1>14, <2>1, EmptySeq DEF StreamDone, Return, callVars, modeVars, TypeOK
<1>15. CASE Fails
  BY <1>15 DEF Fails, Decoding, Return, callVars, modeVars, TypeOK
<1>16. CASE UNCHANGED vars
  BY <1>16 DEF vars, callVars, modeVars, TypeOK
<1> QED
  BY <1>1, <1>2, <1>3, <1>4, <1>5, <1>6, <1>7, <1>8, <1>9, <1>10, <1>11, <1>12, <1>13,
     <1>14, <1>15, <1>16 DEF Next

\* Every reachable state of the decoder is well typed and stands where BlockInv says:
\* no portion is negative, mOutBuffer is never left full, and no position is decoded
\* behind the data, for callers of any kind.
THEOREM TypeCorrect == Spec => [](TypeOK /\ BlockInv)
<1>1. Init => TypeOK /\ BlockInv
  <2>1. Init => FlagsOK
    BY DEF Init, FlagsOK
  <2>2. Init => TypeOK
    BY <2>1, STAssumption, EmptySeq DEF Init, TypeOK, FlagsOK
  <2>3. Init => BlockInv
    BY DEF Init, BlockInv
  <2> QED BY <2>2, <2>3
<1> QED BY <1>1, BlockStep, PTL DEF Spec

-----------------------------------------------------------------------------
\* How many bytes were put, written or not.
Done == next - 1 - Rest

\* What is written and what waits are the bytes decoded, without the rest of a cut match;
\* what still fits into the portion fits into what is expected.  Before the first portion
\* nothing is written, and if bytes are expected, nothing waits.
OutInv ==
  /\ ~mKeepHistory
  /\ pc # "idle" /\ mRemainLen # LenIdNeedInit => out \o ring = Owed!Positions(Done)
  /\ pc = "loop" /\ mRemainLen = LenIdNeedInit =>
       out = <<>> /\ next = 1 /\ (mBytesExpected # 0 => ring = <<>>)
  /\ mBytesExpected # 0 =>
       /\ pc = "loop" => Len(out) + Len(ring) <= mBytesExpected
       /\ pc = "chunk" => Len(out) + Len(ring) + curSize <= mBytesExpected

-----------------------------------------------------------------------------
\* Positions that follow on positions are positions.
LEMMA PositionsAppend ==
  ASSUME NEW k \in Nat, NEW n \in Nat
  PROVE  Owed!Positions(k) \o [i \in 1 .. n |-> (k + 1) + i - 1] = Owed!Positions(k + n)
<1> DEFINE new == [i \in 1 .. n |-> (k + 1) + i - 1]
           s   == Owed!Positions(k)
           t   == Owed!Positions(k + n)
<1>1. s \in Seq(Nat) /\ Len(s) = k /\ \A i \in 1 .. k : s[i] = i
  BY PositionsLemma
<1>2. t \in Seq(Nat) /\ Len(t) = k + n /\ \A i \in 1 .. k + n : t[i] = i
  <2>1. k + n \in Nat
    OBVIOUS
  <2> QED BY <2>1, PositionsLemma
<1>3. new \in Seq(Nat) /\ Len(new) = n /\ \A i \in 1 .. n : new[i] = k + i
  <2>1. \A i \in 1 .. n : (k + 1) + i - 1 \in Nat
    OBVIOUS
  <2>2. new \in Seq(Nat)
    BY <2>1, IsASeq
  <2>3. Len(new) = n /\ \A i \in 1 .. n : new[i] = k + i
    OBVIOUS
  <2> QED BY <2>2, <2>3
<1> HIDE DEF new, s, t
<1>4. /\ s \o new \in Seq(Nat) /\ Len(s \o new) = k + n
      /\ \A i \in 1 .. k + n : (s \o new)[i] = IF i <= k THEN s[i] ELSE new[i - k]
  BY <1>1, <1>3, ConcatProperties, ZenonT(40)
<1>5. ASSUME NEW i \in 1 .. k + n PROVE (s \o new)[i] = t[i]
  <2>1. CASE i <= k
    BY <2>1, <1>1, <1>2, <1>4
  <2>2. CASE i > k
    <3>1. i - k \in 1 .. n
      BY <2>2
    <3>2. new[i - k] = i
      BY <3>1, <1>3
    <3>3. ~(i <= k)
      BY <2>2
    <3>4. (s \o new)[i] = new[i - k]
      BY <1>4, <3>3, Zenon
    <3>5. t[i] = i
      BY <1>2, Zenon
    <3> QED BY <3>2, <3>4, <3>5, Zenon
  <2>3. i <= k \/ i > k
    OBVIOUS
  <2> QED BY <2>1, <2>2, <2>3, Zenon
<1>6. s \o new = t
  BY <1>2, <1>4, <1>5, SeqEqual
<1> QED BY <1>6 DEF s, t, new

\* The first part of positions is positions.
LEMMA PrefixLemma ==
  ASSUME NEW m \in Nat, NEW s \in Seq(Nat), NEW t \in Seq(Nat),
         s \o t = Owed!Positions(m)
  PROVE  s = Owed!Positions(Len(s)) /\ Len(s) + Len(t) = m
<1>1. Len(s) \in Nat /\ Len(t) \in Nat
  BY LenProperties
<1>2. Len(s) + Len(t) = m
  BY ConcatProperties, PositionsLemma
<1> DEFINE p == Owed!Positions(Len(s))
<1>3. p \in Seq(Nat) /\ Len(p) = Len(s) /\ \A i \in 1 .. Len(s) : p[i] = i
  BY <1>1, PositionsLemma
<1>4. \A i \in 1 .. Len(s) : s[i] = i
  <2>1. \A i \in 1 .. m : (s \o t)[i] = i
    BY PositionsLemma
  <2>2. \A i \in 1 .. Len(s) : (s \o t)[i] = s[i]
    BY <1>1, ConcatProperties
  <2> QED BY <1>1, <1>2, <2>1, <2>2
<1> HIDE DEF p
<1>5. s = p
  BY <1>3, <1>4, SeqEqual
<1> QED BY <1>2, <1>5 DEF p

\* In a call, what is written is owed, and so is what the next flush makes of it.
LEMMA WrittenLemma ==
  ASSUME TypeOK, BlockInv, OutInv, pc # "idle"
  PROVE  /\ Owed!Limit \in Nat
         /\ Len(out) \in Nat /\ out = Owed!Positions(Len(out)) /\ Len(out) <= Owed!Limit
         /\ mRemainLen # LenIdNeedInit =>
              /\ Done \in Nat /\ Done <= size /\ Len(out) + Len(ring) = Done
              /\ out \o ring = Owed!Positions(Done)
         /\ mRemainLen = LenIdNeedInit => out = <<>>
<1>0. /\ out \in Seq(Nat) /\ ring \in Seq(Nat) /\ Len(out) \in Nat /\ Len(ring) \in Nat
      /\ curSize \in Nat /\ mBytesExpected \in Nat /\ size \in Nat
      /\ Owed!Limit = IF mBytesExpected = 0 \/ size < mBytesExpected THEN size ELSE mBytesExpected
  BY LenProperties, STAssumption DEF TypeOK, Owed!Limit
<1>1. CASE mRemainLen = LenIdNeedInit
  <2>1. out = <<>> /\ Len(out) = 0
    BY <1>1, EmptySeq DEF OutInv, BlockInv, TypeOK
  <2>2. Owed!Positions(0) = <<>>
    BY DEF Owed!Positions
  <2> QED BY <1>0, <1>1, <2>1, <2>2
<1>2. CASE mRemainLen # LenIdNeedInit
  <2>1. Done \in Nat /\ Done <= size
    BY <1>2 DEF TypeOK, BlockInv, Done, Rest
  <2>2. out \o ring = Owed!Positions(Done)
    BY <1>2 DEF OutInv
  <2>3. out = Owed!Positions(Len(out)) /\ Len(out) + Len(ring) = Done
    BY <1>0, <2>1, <2>2, PrefixLemma
  <2>4. mBytesExpected # 0 => Len(out) + Len(ring) <= mBytesExpected
    BY <1>0 DEF OutInv, TypeOK
  <2> QED BY <1>0, <1>2, <2>1, <2>2, <2>3, <2>4
<1> QED BY <1>1, <1>2

\* Putting the next bytes of the data is what Inflate lets a call do.
LEMMA PutGrows ==
  ASSUME TypeOK, BlockInv, OutInv, pc = "chunk", NEW n \in 0 .. curSize, Done + n <= size,
         PutFrom(Done + 1, n)
  PROVE  /\ out' \o ring' = Owed!Positions(Done + n)
         /\ Owed!Grow
         /\ mBytesExpected # 0 => Len(out') + Len(ring') + curSize' <= mBytesExpected
<1>0. /\ out \in Seq(Nat) /\ ring \in Seq(Nat) /\ n \in Nat /\ curSize \in Nat
      /\ Len(out) \in Nat /\ Len(ring) \in Nat /\ mBytesExpected \in Nat /\ size \in Nat
      /\ Owed!Limit = IF mBytesExpected = 0 \/ size < mBytesExpected THEN size ELSE mBytesExpected
  BY LenProperties, STAssumption DEF TypeOK, Owed!Limit
<1>1. /\ Done \in Nat /\ Done + 1 \in Nat \ {0} /\ Done + n \in Nat
      /\ out \o ring = Owed!Positions(Done) /\ Len(out) + Len(ring) = Done
  BY <1>0, WrittenLemma DEF BlockInv
<1>2. /\ out' \in Seq(Nat) /\ ring' \in Seq(Nat)
      /\ Len(out) <= Len(out')
      /\ out' \o ring' = (out \o ring) \o [i \in 1 .. n |-> (Done + 1) + i - 1]
      /\ Len(out') + Len(ring') = Len(out) + Len(ring) + n
  BY <1>0, <1>1, PutLemma
<1>3. out' \o ring' = Owed!Positions(Done + n)
  BY <1>0, <1>1, <1>2, PositionsAppend, ZenonT(60)
<1>4. out' = Owed!Positions(Len(out')) /\ Len(out') + Len(ring') = Done + n
  BY <1>1, <1>2, <1>3, PrefixLemma
<1>5. Len(out') \in Nat /\ Len(ring') \in Nat
  BY <1>2, LenProperties
<1>6. curSize' = curSize - n
  BY DEF PutFrom
<1>7. mBytesExpected # 0 => Done + curSize <= mBytesExpected
  BY <1>1 DEF OutInv
<1>8. ASSUME NEW a \in Nat, NEW b \in Nat, a + b = Done + n
      PROVE  /\ a <= Owed!Limit
             /\ mBytesExpected # 0 => a + b + (curSize - n) <= mBytesExpected
  BY <1>0, <1>1, <1>7, <1>8
<1>9. Len(out') <= Owed!Limit
  BY <1>4, <1>5, <1>8
<1>10. mBytesExpected # 0 => Len(out') + Len(ring') + curSize' <= mBytesExpected
  BY <1>4, <1>5, <1>6, <1>8
<1> QED BY <1>2, <1>3, <1>4, <1>9, <1>10 DEF Owed!Grow

-----------------------------------------------------------------------------
\* What each action that puts bytes puts.
LEMMA PutActions ==
  ASSUME TypeOK, BlockInv, OutInv,
         Remainder \/ Stored \/ Literal \/ \E len \in Lengths : Match(len)
  PROVE  \E n \in 0 .. curSize :
           /\ PutFrom(Done + 1, n) /\ Done + n <= size /\ Done' = Done + n
           /\ pc = "chunk" /\ pc' = "chunk" /\ mRemainLen' # LenIdNeedInit
           /\ UNCHANGED <<callVars, result>>
<1> USE STAssumption, MarksLemma DEF callVars, Done, Rest
<1>1. CASE Remainder
  <2> DEFINE n == Lesser(mRemainLen, curSize)
  <2>1. /\ n \in 0 .. curSize /\ n <= mRemainLen /\ mRemainLen > 0 /\ pc = "chunk"
        /\ PutFrom(next - mRemainLen, n) /\ mRemainLen' = mRemainLen - n
        /\ next' = next /\ pc' = pc /\ UNCHANGED <<callVars, result>>
    BY <1>1 DEF Remainder, Lesser, TypeOK
  <2> HIDE DEF n
  <2>2. mRemainLen \in Nat /\ next \in Nat /\ n \in Nat /\ next <= size + 1 /\ size \in Nat
    BY <2>1 DEF TypeOK
  <2>3. Done + 1 = next - mRemainLen /\ Done + n <= size
    BY <2>1, <2>2
  <2>4. Rest' = mRemainLen - n
    BY <2>1, <2>2
  <2>5. Done' = Done + n
    BY <2>1, <2>2, <2>4
  <2>6. mRemainLen' # LenIdNeedInit
    BY <2>1, <2>2
  <2>7. PutFrom(Done + 1, n)
    BY <2>1, <2>3
  <2> QED BY <2>1, <2>3, <2>5, <2>6, <2>7
<1>2. CASE Stored
  <2> DEFINE n == Lesser(mStoredBlockSize, curSize)
  <2>1. /\ n \in 0 .. curSize /\ n <= mStoredBlockSize /\ mRemainLen = 0 /\ pc = "chunk"
        /\ PutFrom(next, n) /\ mRemainLen' = mRemainLen /\ ~mNeedReadTable /\ mStoredMode
        /\ next' = next + n /\ pc' = pc /\ UNCHANGED <<callVars, result>>
    BY <1>2 DEF Stored, Decoding, Lesser, TypeOK
  <2> HIDE DEF n
  <2>2. next \in Nat /\ n \in Nat /\ size \in Nat /\ next + mStoredBlockSize <= size + 1
        /\ mStoredBlockSize \in Nat
    BY <2>1 DEF TypeOK, BlockInv
  <2>3. Done + 1 = next /\ Done + n <= size /\ Done' = Done + n
    BY <2>1, <2>2
  <2> QED BY <2>1, <2>3
<1>3. CASE Literal
  <2>1. /\ 1 \in 0 .. curSize /\ mRemainLen = 0 /\ pc = "chunk" /\ next <= size
        /\ PutFrom(next, 1) /\ mRemainLen' = mRemainLen
        /\ next' = next + 1 /\ pc' = pc /\ UNCHANGED <<callVars, result>>
    BY <1>3 DEF Literal, Coded, Decoding, modeVars, TypeOK
  <2>2. next \in Nat /\ size \in Nat
    BY DEF TypeOK
  <2>3. Done + 1 = next /\ Done + 1 <= size /\ Done' = Done + 1
    BY <2>1, <2>2
  <2> QED BY <2>1, <2>3
<1>4. CASE \E len \in Lengths : Match(len)
  <2>1. PICK len \in Lengths : Match(len)
    BY <1>4
  <2> DEFINE n == Lesser(len, curSize)
  <2>2. /\ n \in 0 .. curSize /\ n <= len /\ mRemainLen = 0 /\ pc = "chunk"
        /\ next + len <= size + 1 /\ len \in Nat
        /\ PutFrom(next, n) /\ mRemainLen' = len - n
        /\ next' = next + len /\ pc' = pc /\ UNCHANGED <<callVars, result>>
    BY <2>1 DEF Match, Coded, Decoding, Lesser, TypeOK
  <2> HIDE DEF n
  <2>3. next \in Nat /\ size \in Nat /\ n \in Nat
    BY <2>2 DEF TypeOK
  <2>4. Rest' = len - n
    BY <2>2, <2>3
  <2>5. Done + 1 = next /\ Done + n <= size /\ Done' = Done + n
    BY <2>2, <2>3, <2>4
  <2>6. mRemainLen' # LenIdNeedInit
    BY <2>2, <2>3
  <2> QED BY <2>2, <2>5, <2>6
<1> QED BY <1>1, <1>2, <1>3, <1>4

-----------------------------------------------------------------------------
\* OutInv, action by action.
LEMMA OutStep ==
  ASSUME CarefulCaller, TypeOK, BlockInv, OutInv, [Next]_vars
  PROVE  OutInv'
<1> USE STAssumption, MarksLemma
<1>0. /\ out \in Seq(Nat) /\ ring \in Seq(Nat) /\ Len(out) \in Nat /\ Len(ring) \in Nat
      /\ curSize \in Nat /\ mBytesExpected \in Nat /\ ~mKeepHistory
      /\ <<>> \in Seq(Nat) /\ Len(<<>>) = 0
  BY LenProperties, EmptySeq DEF TypeOK, OutInv
<1>1. CASE Stream
  <2>1. /\ pc' = "loop" /\ mRemainLen' = LenIdNeedInit /\ out' = <<>> /\ next' = 1
        /\ ring' = ring /\ mBytesExpected' \in Nat
    BY <1>1 DEF Stream
  <2>2. ~mKeepHistory'
    BY <1>1 DEF Stream, CarefulCaller
  <2>3. mBytesExpected' # 0 => ring = <<>>
    BY <1>1 DEF Stream, CarefulCaller
  <2>4. mBytesExpected' # 0 => Len(out') + Len(ring') <= mBytesExpected'
    <3>1. mBytesExpected' # 0 => Len(out') = 0 /\ Len(ring') = 0
      BY <1>0, <2>1, <2>3
    <3>2. ASSUME NEW m \in Nat PROVE 0 + 0 <= m
      OBVIOUS
    <3> QED BY <2>1, <3>1, <3>2
  <2> QED BY <2>1, <2>2, <2>3, <2>4 DEF OutInv
<1>2. CASE Interrupt
  BY <1>2 DEF Interrupt, callVars, modeVars, OutInv, Done, Rest
<1>3. CASE LoopInterrupted
  BY <1>3 DEF LoopInterrupted, Return, callVars, OutInv
<1>4. CASE LoopChunk
  <2>1. /\ pc = "loop" /\ pc' = "chunk" /\ curSize' = Room /\ Room > 0
        /\ out' = Sent /\ ring' = Unsent
        /\ next' = next /\ UNCHANGED <<mBytesExpected, mKeepHistory>>
    BY <1>4 DEF LoopChunk, callVars
  <2>2. CASE mRemainLen = LenIdNeedInit
    <3>1. out' = <<>> /\ ring' = <<>> /\ mRemainLen' = 0 /\ next = 1
      BY <1>0, <1>4, <2>1, <2>2, ConcatEmptySeq DEF LoopChunk, InitChunk, Sent, Unsent, OutInv
    <3>2. Done' = 0
      BY <2>1, <3>1 DEF Done, Rest
    <3>3. Owed!Positions(0) = <<>> /\ <<>> \o <<>> = <<>>
      BY <1>0, ConcatEmptySeq DEF Owed!Positions
    <3>4. mBytesExpected # 0 => curSize' <= mBytesExpected
      <4>1. mBytesExpected # 0 => Sent = <<>>
        BY <2>1, <3>1
      <4>2. mBytesExpected # 0 => Room <= mBytesExpected
        BY <1>0, <4>1 DEF Room, Lesser
      <4> QED BY <2>1, <4>2
    <3>5. curSize' \in Nat
      BY <2>1, <1>0, <3>1 DEF Room, Lesser
    <3>6. mBytesExpected # 0 => Len(out') + Len(ring') + curSize' <= mBytesExpected
      <4>1. ASSUME NEW c \in Nat PROVE 0 + 0 + c = c
        OBVIOUS
      <4>2. Len(out') = 0 /\ Len(ring') = 0
        BY <1>0, <3>1
      <4> QED BY <3>4, <3>5, <4>1, <4>2
    <3> QED BY <1>0, <2>1, <3>1, <3>2, <3>3, <3>6 DEF OutInv
  <2>3. CASE mRemainLen # LenIdNeedInit
    <3>1. /\ out \o ring = Owed!Positions(Done)
          /\ Done' = Done /\ mRemainLen' = mRemainLen
      BY <1>4, <2>1, <2>3 DEF LoopChunk, InitChunk, modeVars, OutInv, Done, Rest
    <3>2. CASE mBytesExpected = 0
      <4>1. out' = out /\ ring' = ring
        BY <1>0, <2>1, <2>3, <3>2 DEF Sent, Unsent
      <4> QED BY <1>0, <2>1, <3>1, <3>2, <4>1 DEF OutInv
    <3>3. CASE mBytesExpected # 0
      <4>1. out' = out \o ring /\ ring' = <<>> /\ Len(out \o ring) = Len(out) + Len(ring)
            /\ out \o ring \in Seq(Nat)
        BY <1>0, <2>1, <3>3, ConcatProperties DEF Sent, Unsent
      <4>2. out' \o ring' = out \o ring
        BY <4>1, ConcatEmptySeq
      <4>3. Room <= mBytesExpected - (Len(out) + Len(ring))
            /\ Room \in Int
        BY <1>0, <2>1, <3>3, <4>1 DEF Room, Lesser, Sent
      <4>4. Len(out) + Len(ring) + Room <= mBytesExpected
        BY <1>0, <4>3
      <4>5. Len(out') + Len(ring') + curSize' <= mBytesExpected
        BY <1>0, <2>1, <4>1, <4>3, <4>4
      <4> QED BY <1>0, <2>1, <3>1, <3>3, <4>2, <4>5 DEF OutInv
    <3> QED BY <3>2, <3>3
  <2> QED BY <2>2, <2>3
<1>5. CASE LoopReached
  BY <1>5 DEF LoopReached, Return, callVars, OutInv
<1>6. CASE Remainder \/ Stored \/ Literal \/ \E len \in Lengths : Match(len)
  <2>1. PICK n \in 0 .. curSize :
           /\ PutFrom(Done + 1, n) /\ Done + n <= size /\ Done' = Done + n
           /\ pc = "chunk" /\ pc' = "chunk" /\ mRemainLen' # LenIdNeedInit
           /\ UNCHANGED <<callVars, result>>
    BY <1>6, PutActions
  <2>2. /\ out' \o ring' = Owed!Positions(Done')
        /\ mBytesExpected # 0 => Len(out') + Len(ring') + curSize' <= mBytesExpected
    BY <2>1, PutGrows
  <2>3. UNCHANGED <<mBytesExpected, mKeepHistory>>
    BY <2>1 DEF callVars
  <2> QED BY <1>0, <2>1, <2>2, <2>3 DEF OutInv
<1>7. CASE Finished
  BY <1>7 DEF Finished, Decoding, callVars, OutInv, Done, Rest
<1>8. CASE ReadTables
  BY <1>8 DEF ReadTables, Decoding, callVars, OutInv, Done, Rest
<1>9. CASE EndOfBlock
  BY <1>9 DEF EndOfBlock, Coded, Decoding, callVars, OutInv, Done, Rest
<1>10. CASE ChunkDone
  <2>1. /\ pc = "chunk" /\ curSize = 0 /\ pc' = "loop" /\ mRemainLen # LenIdNeedInit
        /\ UNCHANGED <<out, ring, mBytesExpected, mKeepHistory>>
        /\ Done' = Done /\ mRemainLen' = mRemainLen
    BY <1>10 DEF ChunkDone, callVars, modeVars, BlockInv, Done, Rest
  <2> QED BY <1>0, <2>1 DEF OutInv
<1>11. CASE StreamDone
  BY <1>11 DEF StreamDone, Return, callVars, OutInv
<1>12. CASE Fails
  BY <1>12 DEF Fails, Return, callVars, OutInv
<1>13. CASE UNCHANGED vars
  BY <1>13 DEF vars, callVars, modeVars, OutInv, Done, Rest
<1> QED
  BY <1>1, <1>2, <1>3, <1>4, <1>5, <1>6, <1>7, <1>8, <1>9, <1>10, <1>11, <1>12, <1>13
     DEF Next

\* The two invariants hold for careful callers.
LEMMA OutInvariant ==
  ASSUME CarefulCaller
  PROVE  Spec => [](TypeOK /\ BlockInv /\ OutInv)
<1>1. Init => OutInv
  BY DEF Init, OutInv
<1>2. TypeOK /\ BlockInv /\ OutInv /\ [Next]_vars => OutInv'
  BY OutStep
<1> QED BY <1>1, <1>2, TypeCorrect, PTL DEF Spec

\* No border between portions loses or repeats a byte, for every size of a portion, of
\* the ring buffer and of the data, wherever matches and stored blocks are cut.
THEOREM NothingIsSkipped ==
  ASSUME CarefulCaller
  PROVE  Spec => []NothingSkipped
<1>1. TypeOK /\ BlockInv /\ OutInv => NothingSkipped
  BY DEF BlockInv, OutInv, NothingSkipped, Done, Rest, Owed!Positions
<1> QED BY <1>1, OutInvariant, PTL

-----------------------------------------------------------------------------
\* Each step of the decoder is one of Inflate, or none: only a call, a put, a flush
\* and a return are seen.
LEMMA Simulation ==
  ASSUME CarefulCaller, TypeOK, BlockInv, OutInv, [Next]_vars
  PROVE  [Owed!Call \/ Owed!Put \/ Owed!Return]_(Owed!vars)
<1> USE STAssumption, MarksLemma
<1>0. /\ out \in Seq(Nat) /\ ring \in Seq(Nat) /\ Len(out) \in Nat /\ Len(ring) \in Nat
      /\ mBytesExpected \in Nat /\ size \in Nat
      /\ Owed!Limit = IF mBytesExpected = 0 \/ size < mBytesExpected THEN size ELSE mBytesExpected
  BY LenProperties DEF TypeOK, Owed!Limit
<1>a. ASSUME pc # "idle", out' = out
      PROVE  Owed!Grow
  <2>1. out = Owed!Positions(Len(out)) /\ Len(out) <= Owed!Limit
    BY <1>a, WrittenLemma
  <2> QED BY <1>0, <1>a, <2>1 DEF Owed!Grow
<1>b. ASSUME pc # "idle", mRemainLen # LenIdNeedInit, out' = out \o ring
      PROVE  /\ Len(out') = Done /\ Done <= size /\ Done \in Nat
             /\ Len(out) + Len(ring) = Done
             /\ Done <= Owed!Limit => Owed!Grow
  <2>1. /\ Done \in Nat /\ Done <= size /\ Len(out) + Len(ring) = Done
        /\ out' = Owed!Positions(Done)
    BY <1>b, WrittenLemma
  <2>2. Len(out') = Done
    BY <2>1, PositionsLemma
  <2>3. Len(out) <= Done
    BY <1>0, <2>1
  <2> QED BY <2>1, <2>2, <2>3 DEF Owed!Grow
<1>1. CASE Stream
  BY <1>1 DEF Stream, Owed!Call
<1>2. CASE Interrupt
  BY <1>2 DEF Interrupt, callVars, Owed!vars
<1>3. CASE LoopInterrupted
  BY <1>3, <1>a DEF LoopInterrupted, Return, callVars, Owed!Return
<1>4. CASE LoopChunk
  <2>1. /\ pc = "loop" /\ pc' = "chunk" /\ out' = Sent
        /\ UNCHANGED <<mBytesExpected, size, result>>
    BY <1>4 DEF LoopChunk, callVars
  <2>2. CASE mBytesExpected = 0 \/ mRemainLen = LenIdNeedInit
    <3>1. out' = out
      BY <1>0, <2>1, <2>2, ConcatEmptySeq DEF Sent, OutInv
    <3> QED BY <2>1, <3>1 DEF Owed!vars
  <2>3. CASE mBytesExpected # 0 /\ mRemainLen # LenIdNeedInit
    <3>1. out' = out \o ring /\ Len(out) + Len(ring) <= mBytesExpected
      BY <2>1, <2>3 DEF Sent, OutInv
    <3>2. Done <= Owed!Limit
      BY <1>0, <1>b, <2>1, <2>3, <3>1
    <3>3. Owed!Grow
      BY <1>b, <2>1, <2>3, <3>1, <3>2
    <3> QED BY <2>1, <3>3 DEF Owed!Put
  <2> QED BY <2>2, <2>3
<1>5. CASE LoopReached
  <2>1. /\ pc = "loop" /\ pc' = "idle" /\ out' = Sent /\ Room = 0 /\ result' = "true"
        /\ UNCHANGED <<mBytesExpected, size>>
    BY <1>5 DEF LoopReached, Return, callVars
  <2>2. mBytesExpected # 0
    BY <2>1 DEF Room
  <2>3. out' = out \o ring /\ Len(out \o ring) = Len(out) + Len(ring)
    BY <1>0, <2>1, <2>2, ConcatProperties DEF Sent
  <2>4. mBytesExpected = Len(out) + Len(ring)
    BY <1>0, <2>1, <2>2, <2>3 DEF Room, Lesser
  <2>5. mRemainLen # LenIdNeedInit
    <3>1. ASSUME mRemainLen = LenIdNeedInit PROVE FALSE
      <4>1. out = <<>> /\ ring = <<>>
        BY <2>1, <2>2, <3>1 DEF OutInv
      <4>2. Len(out) = 0 /\ Len(ring) = 0
        BY <4>1, EmptySeq
      <4> QED BY <2>2, <2>4, <4>2
    <3> QED BY <3>1
  <2>6. Done = mBytesExpected /\ Done <= size /\ Len(out') = Done
    BY <1>b, <2>1, <2>3, <2>4, <2>5
  <2>7. Done = Owed!Limit
    BY <1>0, <2>2, <2>6
  <2>8. Owed!Grow
    BY <1>0, <1>b, <2>1, <2>3, <2>5, <2>7
  <2> QED BY <2>1, <2>6, <2>7, <2>8 DEF Owed!Return
<1>6. CASE Remainder \/ Stored \/ Literal \/ \E len \in Lengths : Match(len)
  <2>1. PICK n \in 0 .. curSize :
           /\ PutFrom(Done + 1, n) /\ Done + n <= size /\ Done' = Done + n
           /\ pc = "chunk" /\ pc' = "chunk" /\ mRemainLen' # LenIdNeedInit
           /\ UNCHANGED <<callVars, result>>
    BY <1>6, PutActions
  <2>2. Owed!Grow
    BY <2>1, PutGrows
  <2> QED BY <2>1, <2>2 DEF callVars, Owed!Put
<1>7. CASE Finished
  BY <1>7 DEF Finished, callVars, Owed!vars
<1>8. CASE ReadTables
  BY <1>8 DEF ReadTables, callVars, Owed!vars
<1>9. CASE EndOfBlock
  BY <1>9 DEF EndOfBlock, callVars, Owed!vars
<1>10. CASE ChunkDone
  BY <1>10 DEF ChunkDone, callVars, Owed!vars
<1>11. CASE StreamDone
  <2>1. /\ pc = "chunk" /\ pc' = "idle" /\ out' = out \o ring /\ result' = "true"
        /\ mRemainLen # LenIdNeedInit /\ mRemainLen = LenIdFinished
        /\ UNCHANGED <<mBytesExpected, size>>
    BY <1>11 DEF StreamDone, Return, callVars
  <2>2. Done = size
    BY <1>0, <2>1 DEF BlockInv, Done, Rest
  <2>3. mBytesExpected # 0 => Len(out) + Len(ring) <= mBytesExpected
    BY <1>0, <2>1 DEF OutInv, TypeOK
  <2>4. Done = Owed!Limit /\ Len(out') = Done
    BY <1>0, <1>b, <2>1, <2>2, <2>3
  <2>5. Owed!Grow
    BY <1>0, <1>b, <2>1, <2>4
  <2> QED BY <2>1, <2>4, <2>5 DEF Owed!Return
<1>12. CASE Fails
  BY <1>12, <1>a DEF Fails, Decoding, Return, callVars, Owed!Return
<1>13. CASE UNCHANGED vars
  BY <1>13 DEF vars, callVars, Owed!vars
<1> QED
  BY <1>1, <1>2, <1>3, <1>4, <1>5, <1>6, <1>7, <1>8, <1>9, <1>10, <1>11, <1>12, <1>13
     DEF Next

\* The single-threaded decoder implements Inflate: the bytes of the data in order, no
\* more than the caller expects, and "true" only when all of them are written.
THEOREM Implements ==
  ASSUME CarefulCaller
  PROVE  Spec => IsInflate
<1>1. Init => Owed!Init
  BY DEF Init, Owed!Init
<1>2. TypeOK /\ BlockInv /\ OutInv /\ [Next]_vars
        => [Owed!Call \/ Owed!Put \/ Owed!Return]_(Owed!vars)
  BY Simulation
<1> QED BY <1>1, <1>2, OutInvariant, PTL DEF Spec, IsInflate, Owed!Spec

=============================================================================
