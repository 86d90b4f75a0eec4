-------------------------- MODULE QueueBlocks_proofs --------------------------
(***************************************************************************)
(* Proofs about what goes into a queue block, for every size of a block,   *)
(* of a portion and of the data.  The bytes: the instructions fit, the     *)
(* counters are right, and the loops implement Inflate.  The bits, for all *)
(* literals, lengths below 2^15 and distances: the fields keep their       *)
(* sixteen bits, a number of literals is one that literal() knows, and the *)
(* writer executes the symbols that were packed.                           *)
(***************************************************************************)
EXTENDS QueueBlocks, SequenceTheorems, WellFoundedInduction, TLAPS

-----------------------------------------------------------------------------
(* The bytes *)

\* What the theorems about bytes assume of callers, and of matches: one that does not fit
\* into a portion leaves the whole portion inside what is expected when it is taken off
\* that.  A portion at least twice as long as any match, as in the code, is enough.
CarefulCaller ==
  /\ Careful
  /\ \A len \in Lengths, e \in Expected :
       ChunkSize < e /\ len <= e => Lesser(ChunkSize, len - 1) <= e - len

\* The bytes that have been put into a block, enqueued or not.
Done == next - 1 - mPendingLen

\* The positions of these bytes.
Laid == (out \o block) \o literal

\* The index of the instruction that is filled leaves room for it.
IndexInv ==
  /\ ix \in 0 .. QueueBlockSize
  /\ literal # <<>> => ix < QueueBlockSize

\* Before the call.
StartInv ==
  pc = "idle" /\ result = "none" =>
    /\ mBytesExpected = 0 /\ mBytesDecoded = 0 /\ mPendingLen = 0 /\ ~mStoredMode
    /\ next = 1 /\ out = <<>> /\ block = <<>> /\ literal = <<>>

\* Where the loops stand in the data: a match is pending only at the end of a portion, a
\* stored block does not reach behind the data, and the loop ends where the data does.
LoopInv ==
  /\ mBytesExpected \in Expected \cup {0}
  /\ pc \in {"portion", "alloc"} => block = <<>> /\ literal = <<>>
  /\ mPendingLen < next /\ (mPendingLen > 0 => pendingNext = next)
  /\ pc = "fill" => mPendingLen = 0 \/ (~Streaming /\ blockSize = 0)
  /\ ~mNeedReadTable /\ mStoredMode =>
       /\ storedEnd = next + mStoredBlockSize /\ storedEnd <= size + 1
       /\ mIsFinalBlock => storedEnd = size + 1
  /\ ~keepGoing => next = size + 1

\* What streamingDecode() need not know, and decodeBlock() does: how much of what is
\* expected is left for the portion, which is all of it if that fits into one.
PortionInv ==
  /\ Streaming => mPendingLen = 0 /\ pc # "portion"
  /\ ~Streaming =>
       /\ size <= mBytesExpected /\ ~mStoredMode
       /\ pc \in {"alloc", "fill"} =>
            /\ blockSize <= mBytesExpected - mBytesDecoded
            /\ mBytesExpected <= ChunkSize => blockSize = mBytesExpected - mBytesDecoded

\* The bytes put so far are the first ones of the data, and are counted.
LaidInv ==
  /\ Laid = Owed!Positions(Done)
  /\ ~Streaming => mBytesDecoded = Done

BytesInv == StartInv /\ LoopInv /\ PortionInv /\ LaidInv

-----------------------------------------------------------------------------
\* IndexInv, action by action.
LEMMA IndexStep ==
  ASSUME IndexInv, [Next]_vars
  PROVE  IndexInv'
<1> USE BlockAssumption DEF IndexInv
<1>1. CASE UNCHANGED blockVars
  BY <1>1 DEF blockVars
<1>2. CASE Alloc
  BY <1>2 DEF Alloc
<1>3. CASE StoredByte \/ Literal
  BY <1>3 DEF StoredByte, Stored, Literal, Coded, Filling, BlockFull, addLiteral
<1>4. CASE \E len \in Lengths : Match(len)
  BY <1>4 DEF Match, Coded, Filling, BlockFull, addLenDist, Instructions
<1>5. CASE Enqueue
  BY <1>5 DEF Enqueue
<1>6. CASE Stream \/ Portion \/ LastPortion \/ ReadTables \/ StoredEnd \/ EndOfBlock
           \/ Fails \/ UNCHANGED vars
  BY <1>1, <1>6 DEF Stream, Portion, LastPortion, ReadTables, StoredEnd, EndOfBlock,
      Fails,
     vars
<1> QED
  BY <1>2, <1>3, <1>4, <1>5, <1>6 DEF Next

\* The positions 1 .. n are a sequence of n numbers.
LEMMA PositionsLemma ==
  ASSUME NEW n \in Nat
  PROVE  /\ Owed!Positions(n) \in Seq(Nat)
         /\ Len(Owed!Positions(n)) = n
         /\ \A i \in 1 .. n : Owed!Positions(n)[i] = i
BY IsASeq DEF Owed!Positions

\* Positions that follow on positions are positions.
LEMMA PositionsAppend ==
  ASSUME NEW k \in Nat, NEW n \in Nat
  PROVE  Owed!Positions(k) \o Span(k + 1, n) = Owed!Positions(k + n)
<1> DEFINE new == Span(k + 1, n)
           s   == Owed!Positions(k)
           t   == Owed!Positions(k + n)
<1>1. s \in Seq(Nat) /\ Len(s) = k /\ \A i \in 1 .. k : s[i] = i
  BY PositionsLemma
<1>2. t \in Seq(Nat) /\ Len(t) = k + n /\ \A i \in 1 .. k + n : t[i] = i
  <2>1. k + n \in Nat
    OBVIOUS
  <2> QED BY <2>1, PositionsLemma
<1>3. new \in Seq(Nat) /\ Len(new) = n /\ \A i \in 1 .. n : new[i] = k + i
  <2>1. \A i \in 1 .. n : (k + 1) + i - 1 \in Nat
    OBVIOUS
  <2>2. new \in Seq(Nat)
    BY <2>1, IsASeq DEF Span
  <2>3. Len(new) = n /\ \A i \in 1 .. n : new[i] = k + i
    BY DEF Span
  <2> QED BY <2>2, <2>3
<1> HIDE DEF new, s, t
<1>4. /\ s \o new \in Seq(Nat) /\ Len(s \o new) = k + n
      /\ \A i \in 1 .. k + n : (s \o new)[i] = IF i <= k THEN s[i] ELSE new[i - k]
  BY <1>1, <1>3, ConcatProperties, ZenonT(40)
<1>5. ASSUME NEW i \in 1 .. k + n PROVE (s \o new)[i] = t[i]
  <2>1. CASE i <= k
    BY <2>1, <1>1, <1>2, <1>4
  <2>2. CASE i > k
    <3>1. i - k \in 1 .. n
      BY <2>2
    <3>2. new[i - k] = i
      BY <3>1, <1>3
    <3>3. ~(i <= k)
      BY <2>2
    <3>4. (s \o new)[i] = new[i - k]
      BY <1>4, <3>3, Zenon
    <3>5. t[i] = i
      BY <1>2, Zenon
    <3> QED BY <3>2, <3>4, <3>5, Zenon
  <2>3. i <= k \/ i > k
    OBVIOUS
  <2> QED BY <2>1, <2>2, <2>3, Zenon
<1>6. s \o new = t
  BY <1>2, <1>4, <1>5, SeqEqual
<1> QED BY <1>6 DEF s, t, new

\* The first part of positions is positions.
LEMMA PrefixLemma ==
  ASSUME NEW m \in Nat, NEW s \in Seq(Nat), NEW t \in Seq(Nat),
         s \o t = Owed!Positions(m)
  PROVE  s = Owed!Positions(Len(s)) /\ Len(s) + Len(t) = m
<1>1. Len(s) \in Nat /\ Len(t) \in Nat
  BY LenProperties
<1>2. Len(s) + Len(t) = m
  BY ConcatProperties, PositionsLemma
<1> DEFINE p == Owed!Positions(Len(s))
<1>3. p \in Seq(Nat) /\ Len(p) = Len(s) /\ \A i \in 1 .. Len(s) : p[i] = i
  BY <1>1, PositionsLemma
<1>4. \A i \in 1 .. Len(s) : s[i] = i
  <2>1. \A i \in 1 .. m : (s \o t)[i] = i
    BY PositionsLemma
  <2>2. \A i \in 1 .. Len(s) : (s \o t)[i] = s[i]
    BY <1>1, ConcatProperties
  <2> QED BY <1>1, <1>2, <2>1, <2>2
<1> HIDE DEF p
<1>5. s = p
  BY <1>3, <1>4, SeqEqual
<1> QED BY <1>2, <1>5 DEF p

\* ConcatAssociative, for Zenon.
LEMMA Associative ==
  \A s, t, u \in Seq(Nat) : s \o (t \o u) = (s \o t) \o u
BY ConcatAssociative, SMTT(40)

\* A literal comes behind the instructions and the literals before it, also where it
\* completes an instruction.
LEMMA LiteralLaid ==
  ASSUME out \in Seq(Nat), block \in Seq(Nat), literal \in Seq(Nat),
         NEW p \in Nat, addLiteral(p), out' = out
  PROVE  /\ block' \in Seq(Nat) /\ literal' \in Seq(Nat)
         /\ Laid' = Laid \o Span(p, 1)
<1>1. Span(p, 1) = <<p>> /\ <<p>> \in Seq(Nat)
  BY DEF Span
<1>2. Append(literal, p) = literal \o <<p>> /\ literal \o <<p>> \in Seq(Nat)
  BY <1>1, AppendIsConcat, ConcatProperties
<1>3. out \o block \in Seq(Nat)
  BY ConcatProperties
<1>4. ((out \o block) \o literal) \o <<p>> = (out \o block) \o (literal \o <<p>>)
  BY <1>1, <1>3, ConcatAssociative, SMTT(40)
<1>5. CASE Len(literal) = 2
  <2>1. block' = block \o (literal \o <<p>>) /\ literal' = <<>>
    BY <1>2, <1>5 DEF addLiteral
  <2>2. block' \in Seq(Nat) /\ literal' \in Seq(Nat)
    BY <1>2, <2>1, ConcatProperties, EmptySeq
  <2>3. out \o block' = (out \o block) \o (literal \o <<p>>)
    <3>1. out \o (block \o (literal \o <<p>>)) = (out \o block) \o (literal \o <<p>>)
      BY <1>2, Associative, Zenon
    <3> QED BY <2>1, <3>1
  <2>4. out \o block' \in Seq(Nat)
    BY <2>2, ConcatProperties
  <2>5. (out \o block') \o <<>> = out \o block'
    BY <2>4, ConcatEmptySeq
  <2> QED BY <1>1, <1>4, <2>1, <2>2, <2>3, <2>5 DEF Laid
<1>6. CASE Len(literal) # 2
  <2>1. block' = block /\ literal' = literal \o <<p>>
    BY <1>2, <1>6 DEF addLiteral
  <2> QED BY <1>1, <1>2, <1>4, <2>1 DEF Laid
<1> QED BY <1>5, <1>6

\* A match comes behind the instructions and the literals before it.
LEMMA MatchLaid ==
  ASSUME out \in Seq(Nat), block \in Seq(Nat), literal \in Seq(Nat),
         NEW from \in Nat \ {0}, NEW n \in Nat, addLenDist(from, n), out' = out
  PROVE  /\ block' \in Seq(Nat) /\ literal' \in Seq(Nat)
         /\ Laid' = Laid \o Span(from, n)
<1> DEFINE new == Span(from, n)
<1>1. new \in Seq(Nat)
  <2>1. \A i \in 1 .. n : from + i - 1 \in Nat
    OBVIOUS
  <2> QED BY <2>1, IsASeq DEF Span
<1>2. block' = (block \o literal) \o new /\ literal' = <<>>
  BY DEF addLenDist
<1> HIDE DEF new
<1>3. /\ block \o literal \in Seq(Nat) /\ (block \o literal) \o new \in Seq(Nat)
      /\ out \o block \in Seq(Nat)
  BY <1>1, ConcatProperties
<1>4. out \o ((block \o literal) \o new) = (out \o (block \o literal)) \o new
  <2>1. \A s, t \in Seq(Nat) : out \o (s \o t) = (out \o s) \o t
    BY Associative
  <2> QED BY <1>1, <1>3, <2>1
<1>5. out \o (block \o literal) = (out \o block) \o literal
  BY Associative, Zenon
<1>6. (out \o block') \o <<>> = out \o block'
  <2>1. out \o block' \in Seq(Nat)
    BY <1>2, <1>3, ConcatProperties
  <2> QED BY <2>1, ConcatEmptySeq
<1>7. block' \in Seq(Nat) /\ literal' \in Seq(Nat)
  BY <1>2, <1>3, EmptySeq
<1> QED BY <1>2, <1>4, <1>5, <1>6, <1>7 DEF Laid, new

-----------------------------------------------------------------------------
\* What an action of the loop that puts bytes puts: the next n of the data, and it
\* counts them, and what is left of a match it cuts is what is pending.
LEMMA PutActions ==
  ASSUME CarefulCaller, TypeOK, BytesInv,
         StoredByte \/ Literal \/ \E len \in Lengths : Match(len)
  PROVE  \E n \in Nat :
           /\ Done \in Nat /\ Done + n <= size /\ Done' = Done + n
           /\ block' \in Seq(Nat) /\ literal' \in Seq(Nat)
           /\ Laid' = Laid \o Span(Done + 1, n)
           /\ ~Streaming => mBytesDecoded' = mBytesDecoded + n
           /\ IF Streaming THEN UNCHANGED <<blockSize, mBytesDecoded>>
              ELSE n <= blockSize /\ blockSize' = blockSize - n
           /\ mPendingLen' # 0 => ~Streaming /\ blockSize' = 0 /\ pendingNext' = next'
           /\ mPendingLen' \in Nat /\ mPendingLen' < next' /\ next' \in 1 .. size + 1
<1> USE BlockAssumption
<1>0. /\ out \in Seq(Nat) /\ block \in Seq(Nat) /\ literal \in Seq(Nat)
      /\ next \in 1 .. size + 1 /\ size \in Nat /\ blockSize \in Nat
         /\ mBytesDecoded \in Nat
      /\ mBytesExpected \in Nat /\ mStoredBlockSize \in Nat
  BY DEF TypeOK
<1>1. ASSUME Filling
      PROVE  mPendingLen = 0 /\ Done = next - 1 /\ Done \in Nat
          /\ (Streaming \/ blockSize > 0)
  BY <1>0, <1>1 DEF Filling, BytesInv, LoopInv, Done
<1>2. CASE StoredByte
  <2>1. Filling /\ ~mNeedReadTable /\ mStoredMode /\ mStoredBlockSize > 0 /\ out' = out
    BY <1>2 DEF StoredByte, Stored
  <2>2. Streaming
    BY <2>1 DEF BytesInv, PortionInv
  <2>3. next < storedEnd /\ next <= size
    BY <1>0, <2>1 DEF BytesInv, LoopInv
  <2>4. /\ addLiteral(next) /\ next' = next + 1
           /\ UNCHANGED <<blockSize, mBytesDecoded, mPendingLen>>
    BY <1>2, <2>2, <2>3 DEF StoredByte, pendingVars
  <2>5. block' \in Seq(Nat) /\ literal' \in Seq(Nat) /\ Laid' = Laid \o Span(next, 1)
    BY <1>0, <2>1, <2>4, LiteralLaid
  <2>6. Done + 1 = next /\ Done' = Done + 1 /\ Done + 1 <= size
    BY <1>0, <1>1, <2>1, <2>3, <2>4 DEF Done
  <2> QED BY <1>0, <1>1, <2>1, <2>2, <2>3, <2>4, <2>5, <2>6
<1>3. CASE Literal
  <2>1. Filling /\ next <= size /\ addLiteral(next) /\ next' = next + 1 /\ out' = out
        /\ mPendingLen' = mPendingLen /\ Counted(1)
    BY <1>3 DEF Literal, Coded, pendingVars
  <2>2. block' \in Seq(Nat) /\ literal' \in Seq(Nat) /\ Laid' = Laid \o Span(next, 1)
    BY <1>0, <2>1, LiteralLaid
  <2>3. Done + 1 = next /\ Done' = Done + 1 /\ Done + 1 <= size
    BY <1>0, <1>1, <2>1 DEF Done
  <2>4. IF Streaming THEN UNCHANGED <<blockSize, mBytesDecoded>>
        ELSE /\ mBytesDecoded' = mBytesDecoded + 1
             /\ 1 <= blockSize /\ blockSize' = blockSize - 1
    BY <1>0, <1>1, <2>1 DEF Counted
  <2> QED BY <1>0, <1>1, <2>1, <2>2, <2>3, <2>4, SMTT(40)
<1>4. CASE \E len \in Lengths : Match(len)
  <2>1. PICK len \in Lengths : Match(len)
    BY <1>4
  <2>2. Filling /\ next + len <= size + 1 /\ next' = next + len /\ out' = out
        /\ len \in Nat \ {0}
    BY <2>1 DEF Match, Coded
  <2>3. CASE Streaming \/ len <= blockSize
    <3>1. ~Streaming => mBytesDecoded + len <= mBytesExpected
      BY <1>0, <1>1, <2>2 DEF BytesInv, LaidInv, PortionInv
    <3>2. addLenDist(next, len) /\ Counted(len) /\ UNCHANGED pendingVars
      BY <1>0, <2>1, <2>2, <2>3, <3>1 DEF Match
    <3>3. block' \in Seq(Nat) /\ literal' \in Seq(Nat) /\ Laid' = Laid \o Span(next, len)
      <4>1. next \in Nat \ {0} /\ len \in Nat
        BY <1>0, <2>2
      <4> QED BY <1>0, <2>2, <3>2, <4>1, MatchLaid, Zenon
    <3>4. Done + 1 = next /\ Done' = Done + len /\ Done + len <= size
      BY <1>0, <1>1, <2>2, <3>2 DEF Done, pendingVars
    <3>5. IF Streaming THEN UNCHANGED <<blockSize, mBytesDecoded>>
          ELSE /\ mBytesDecoded' = mBytesDecoded + len
               /\ len <= blockSize /\ blockSize' = blockSize - len
      BY <1>0, <2>3, <3>2 DEF Counted
    <3> QED BY <1>0, <1>1, <2>2, <3>2, <3>3, <3>4, <3>5, SMTT(40) DEF pendingVars
  <2>4. CASE ~Streaming /\ len > blockSize
    <3>1. LocLen(len) = blockSize
      <4>1. /\ len <= size /\ size <= mBytesExpected /\ mBytesExpected \in Expected
            /\ mBytesDecoded = next - 1 /\ blockSize \in 0 .. ChunkSize
            /\ mBytesExpected <= ChunkSize => blockSize = mBytesExpected - mBytesDecoded
        BY <1>0, <1>1, <2>2, <2>4
           DEF BytesInv, LoopInv, LaidInv, PortionInv, TypeOK, Filling, Streaming
      <4>2. ChunkSize < mBytesExpected
        BY <1>0, <2>2, <2>4, <4>1
      <4>3. Lesser(ChunkSize, len - 1) <= mBytesExpected - len
        BY <1>0, <2>1, <4>1, <4>2 DEF CarefulCaller
      <4>4. blockSize <= mBytesExpected - len
        BY <1>0, <2>2, <2>4, <4>1, <4>3 DEF Lesser
      <4> QED BY <1>0, <2>2, <4>1, <4>4 DEF LocLen, Lesser
    <3>2. /\ addLenDist(next, blockSize) /\ Counted(blockSize)
          /\ mPendingLen' = len - blockSize /\ pendingNext' = next + len
      BY <2>1, <2>4, <3>1 DEF Match
    <3>3. block' \in Seq(Nat) /\ literal' \in Seq(Nat)
          /\ Laid' = Laid \o Span(next, blockSize)
      <4>1. next \in Nat \ {0} /\ blockSize \in Nat
        BY <1>0, <2>2
      <4> QED BY <1>0, <2>2, <3>2, <4>1, MatchLaid, Zenon
    <3>4. Done + 1 = next /\ Done' = Done + blockSize /\ Done + blockSize <= size
      BY <1>0, <1>1, <2>2, <2>4, <3>2 DEF Done
    <3>5. mBytesDecoded' = mBytesDecoded + blockSize /\ blockSize' = 0
      BY <1>0, <2>4, <3>2 DEF Counted
    <3>6. /\ len - blockSize \in Nat \ {0} /\ len - blockSize < next + len
          /\ next + len \in 1 .. size + 1
      BY <1>0, <2>2, <2>4
    <3>7. blockSize' = blockSize - blockSize /\ blockSize <= blockSize
          /\ blockSize \in Nat
      BY <1>0, <3>5
    <3>8. mPendingLen' \in Nat /\ mPendingLen' # 0 /\ mPendingLen' < next'
      BY <1>0, <2>2, <3>2, <3>6
    <3>9. next' \in 1 .. size + 1 /\ pendingNext' = next'
      BY <2>2, <3>2, <3>6
    <3>10. Laid' = Laid \o Span(Done + 1, blockSize)
      BY <3>3, <3>4
    <3>11. ~Streaming /\ Done \in Nat
      BY <1>1, <2>2, <2>4
    <3> QED BY <3>3, <3>4, <3>5, <3>7, <3>8, <3>9, <3>10, <3>11, Zenon
  <2>5. len <= blockSize \/ len > blockSize
    BY <1>0, <2>2
  <2> QED BY <2>3, <2>4, <2>5, Zenon
<1> QED BY <1>2, <1>3, <1>4

-----------------------------------------------------------------------------
\* The actions that put bytes keep the invariant.
LEMMA PutStep ==
  ASSUME CarefulCaller, TypeOK, BytesInv, IndexInv',
         StoredByte \/ Literal \/ \E len \in Lengths : Match(len)
  PROVE  TypeOK' /\ BytesInv'
<1> USE BlockAssumption
<1>0. /\ next \in 1 .. size + 1 /\ size \in Nat /\ blockSize \in 0 .. ChunkSize
      /\ mBytesDecoded \in Nat /\ mBytesExpected \in Nat /\ mPendingLen \in Nat
      /\ mStoredBlockSize \in Nat
  BY DEF TypeOK
<1>1. PICK n \in Nat :
           /\ Done \in Nat /\ Done + n <= size /\ Done' = Done + n
           /\ block' \in Seq(Nat) /\ literal' \in Seq(Nat)
           /\ Laid' = Laid \o Span(Done + 1, n)
           /\ ~Streaming => mBytesDecoded' = mBytesDecoded + n
           /\ IF Streaming THEN UNCHANGED <<blockSize, mBytesDecoded>>
              ELSE n <= blockSize /\ blockSize' = blockSize - n
           /\ mPendingLen' # 0 => ~Streaming /\ blockSize' = 0 /\ pendingNext' = next'
           /\ mPendingLen' \in Nat /\ mPendingLen' < next' /\ next' \in 1 .. size + 1
  BY PutActions
<1>2. /\ pc = "fill" /\ pc' = pc /\ ~mNeedReadTable /\ keepGoing
         /\ (Streaming \/ blockSize > 0)
      /\ UNCHANGED <<mBytesExpected, size, mNeedReadTable, mIsFinalBlock, mStoredMode,
                     storedEnd, keepGoing, out, result>>
  BY DEF StoredByte, Stored, Literal, Match, Coded, Filling, callVars, tableVars
<1>3. Streaming' = Streaming
  BY <1>2 DEF Streaming
<1>4. StartInv'
  BY <1>2 DEF StartInv
<1>5. LaidInv'
  <2>1. Laid' = Owed!Positions(Done + n)
    BY <1>1, PositionsAppend DEF BytesInv, LaidInv
  <2>2. ~Streaming => mBytesDecoded' = Done + n
    BY <1>1 DEF BytesInv, LaidInv
  <2> QED BY <1>1, <1>3, <2>1, <2>2 DEF LaidInv
<1>6. PortionInv'
  <2>1. CASE Streaming
    <3>1. mPendingLen' = 0
      BY <1>1, <2>1
    <3> QED BY <1>2, <1>3, <2>1, <3>1 DEF PortionInv
  <2>2. CASE ~Streaming
    <3>1. /\ size <= mBytesExpected /\ ~mStoredMode
          /\ blockSize <= mBytesExpected - mBytesDecoded
          /\ mBytesExpected <= ChunkSize => blockSize = mBytesExpected - mBytesDecoded
      BY <1>2, <2>2 DEF BytesInv, PortionInv
    <3>2. mBytesDecoded' = mBytesDecoded + n /\ blockSize' = blockSize - n
      BY <1>1, <2>2
    <3>3. /\ blockSize - n <= mBytesExpected - (mBytesDecoded + n)
          /\ mBytesExpected <= ChunkSize
               => blockSize - n = mBytesExpected - (mBytesDecoded + n)
      BY <1>0, <3>1
    <3>4. /\ blockSize' <= mBytesExpected' - mBytesDecoded'
          /\ mBytesExpected' <= ChunkSize => blockSize' = mBytesExpected' - mBytesDecoded'
      BY <1>2, <3>2, <3>3
    <3>5. size' <= mBytesExpected' /\ ~mStoredMode'
      BY <1>2, <3>1
    <3> QED BY <1>3, <2>2, <3>4, <3>5, Zenon DEF PortionInv
  <2> QED BY <2>1, <2>2
<1>7. mStoredMode' => storedEnd' = next' + mStoredBlockSize' /\ mStoredBlockSize' \in Nat
  <2>1. CASE StoredByte
    <3>1. Streaming /\ mStoredBlockSize > 0 /\ storedEnd = next + mStoredBlockSize
      BY <1>2, <2>1 DEF BytesInv, PortionInv, LoopInv, StoredByte, Stored
    <3>2. next' = next + 1 /\ mStoredBlockSize' = mStoredBlockSize - 1
      BY <1>0, <2>1, <3>1 DEF StoredByte
    <3>3. next + mStoredBlockSize = (next + 1) + (mStoredBlockSize - 1)
          /\ mStoredBlockSize - 1 \in Nat
      BY <1>0, <3>1
    <3> QED BY <1>2, <3>1, <3>2, <3>3
  <2>2. CASE ~mStoredMode
    BY <1>2, <2>2
  <2>3. StoredByte \/ ~mStoredMode
    BY DEF Literal, Match, Coded
  <2> QED BY <2>1, <2>2, <2>3
<1>8. LoopInv'
  <2>1. mPendingLen' > 0 => pendingNext' = next'
    BY <1>1
  <2>2. mPendingLen' = 0 \/ (~Streaming' /\ blockSize' = 0)
    <3>1. mPendingLen' = 0 \/ (~Streaming /\ blockSize' = 0)
      BY <1>1, Zenon
    <3> QED BY <1>3, <3>1, Zenon
  <2>3. storedEnd = storedEnd' /\ (mStoredMode => storedEnd <= size + 1
                                   /\ (mIsFinalBlock => storedEnd = size + 1))
    BY <1>2 DEF BytesInv, LoopInv
  <2>4. mBytesExpected' \in Expected \cup {0}
    BY <1>2 DEF BytesInv, LoopInv
  <2> QED BY <1>1, <1>2, <1>7, <2>1, <2>2, <2>3, <2>4 DEF LoopInv
<1>9. TypeOK'
  <2>1. mStoredBlockSize' \in Nat
    BY <1>0 DEF StoredByte, Literal, Match, tableVars
  <2>2. blockSize' \in 0 .. ChunkSize /\ mBytesDecoded' \in Nat
    BY <1>0, <1>1
  <2>3. pendingNext' \in Nat
    <3>1. CASE StoredByte \/ Literal
      BY <3>1 DEF StoredByte, Literal, pendingVars, TypeOK
    <3>2. CASE \E len \in Lengths : Match(len)
      <4>1. \A len \in Lengths : next + len \in Nat
        BY <1>0
      <4> QED BY <3>2, <4>1 DEF Match, pendingVars, TypeOK
    <3> QED BY <3>1, <3>2
  <2>4. ix' \in 0 .. QueueBlockSize
    BY DEF IndexInv
  <2> QED BY <1>1, <1>2, <2>1, <2>2, <2>3, <2>4 DEF TypeOK
<1> QED BY <1>4, <1>5, <1>6, <1>8, <1>9 DEF BytesInv

\* What was put into a new queue block, that starts with a pending match, or is enqueued.
LEMMA BlockStep ==
  ASSUME CarefulCaller, TypeOK, BytesInv, IndexInv', Alloc \/ Enqueue
  PROVE  TypeOK' /\ BytesInv'
<1> USE BlockAssumption
<1>0. /\ next \in 1 .. size + 1 /\ size \in Nat /\ blockSize \in 0 .. ChunkSize
      /\ mBytesDecoded \in Nat /\ mBytesExpected \in Nat /\ mPendingLen \in Nat
      /\ out \in Seq(Nat) /\ block \in Seq(Nat) /\ literal \in Seq(Nat)
  BY DEF TypeOK
<1>1. CASE Alloc
  <2>1. /\ pc = "alloc" /\ pc' = "fill" /\ literal' = <<>>
        /\ UNCHANGED <<mBytesExpected, size, pendingNext, mNeedReadTable, mIsFinalBlock,
                       mStoredMode, mStoredBlockSize, storedEnd, keepGoing, out, next,
                           result>>
    BY <1>1 DEF Alloc, callVars, tableVars
  <2>2. Streaming' = Streaming
    BY <2>1 DEF Streaming
  <2>3. block = <<>> /\ literal = <<>> /\ Laid = out
    BY <1>0, <2>1, ConcatEmptySeq DEF BytesInv, LoopInv, Laid
  <2>4. CASE Streaming \/ mPendingLen = 0
    <3>1. block' = <<>> /\ UNCHANGED <<mBytesDecoded, blockSize, mPendingLen>>
      BY <1>1, <2>4 DEF Alloc
    <3>2. mPendingLen = 0
      BY <2>4 DEF BytesInv, PortionInv
    <3>3. Laid' = Laid /\ Done' = Done
      BY <2>1, <2>3, <3>1 DEF Laid, Done
    <3>4. StartInv' /\ PortionInv' /\ LaidInv'
      BY <2>1, <2>2, <3>1, <3>2, <3>3 DEF StartInv, PortionInv, LaidInv, BytesInv
    <3>5. LoopInv'
      BY <2>1, <3>1, <3>2 DEF LoopInv, BytesInv
    <3>6. TypeOK'
      BY <2>1, <3>1, EmptySeq DEF TypeOK, IndexInv
    <3> QED BY <3>4, <3>5, <3>6 DEF BytesInv
  <2>5. CASE ~Streaming /\ mPendingLen # 0
    <3> DEFINE n == PendingNow
    <3>1. /\ block' = Span(pendingNext - mPendingLen, n)
          /\ mBytesDecoded' = mBytesDecoded + n /\ blockSize' = blockSize - n
          /\ mPendingLen' = mPendingLen - n
      BY <1>1, <2>5 DEF Alloc
    <3>2. /\ n \in Nat /\ n <= mPendingLen /\ n <= blockSize
          /\ n = mPendingLen \/ n = blockSize
      BY <1>0 DEF PendingNow, Lesser
    <3> HIDE DEF n
    <3>3. pendingNext = next /\ mPendingLen < next
      BY <1>0, <2>5 DEF BytesInv, LoopInv
    <3>4. pendingNext - mPendingLen = Done + 1 /\ Done \in Nat /\ Done' = Done + n
      BY <1>0, <2>1, <3>1, <3>2, <3>3 DEF Done
    <3>5. block' \in Seq(Nat)
      <4>1. \A i \in 1 .. n : Done + 1 + i - 1 \in Nat
        BY <3>2, <3>4
      <4> QED BY <3>1, <3>2, <3>4, <4>1, IsASeq DEF Span
    <3>6. Laid' = Laid \o Span(Done + 1, n)
      <4>1. out \o block' \in Seq(Nat)
        BY <1>0, <3>5, ConcatProperties
      <4>2. (out \o block') \o <<>> = out \o block'
        BY <4>1, ConcatEmptySeq
      <4> QED BY <2>1, <2>3, <3>1, <3>4, <4>2 DEF Laid
    <3>7. LaidInv'
      <4>1. Laid' = Owed!Positions(Done + n)
        BY <3>2, <3>4, <3>6, PositionsAppend DEF BytesInv, LaidInv
      <4>2. mBytesDecoded' = Done + n
        BY <2>5, <3>1 DEF BytesInv, LaidInv
      <4> QED BY <2>2, <3>4, <4>1, <4>2 DEF LaidInv
    <3>8. PortionInv'
      <4>1. /\ size <= mBytesExpected /\ ~mStoredMode
            /\ blockSize <= mBytesExpected - mBytesDecoded
            /\ mBytesExpected <= ChunkSize => blockSize = mBytesExpected - mBytesDecoded
        BY <2>1, <2>5 DEF BytesInv, PortionInv
      <4>2. /\ blockSize - n <= mBytesExpected - (mBytesDecoded + n)
            /\ mBytesExpected <= ChunkSize
                 => blockSize - n = mBytesExpected - (mBytesDecoded + n)
        BY <1>0, <3>2, <4>1
      <4>3. /\ blockSize' <= mBytesExpected' - mBytesDecoded'
            /\ mBytesExpected' <= ChunkSize
                 => blockSize' = mBytesExpected' - mBytesDecoded'
        BY <2>1, <3>1, <4>2
      <4>4. size' <= mBytesExpected' /\ ~mStoredMode'
        BY <2>1, <4>1
      <4> QED BY <2>2, <2>5, <4>3, <4>4, Zenon DEF PortionInv
    <3>9. LoopInv'
      <4>1. /\ mPendingLen - n \in Nat /\ mPendingLen - n < next
            /\ mPendingLen - n = 0 \/ blockSize - n = 0
        BY <1>0, <3>2, <3>3
      <4>2. mPendingLen' \in Nat /\ mPendingLen' < next'
            /\ (mPendingLen' = 0 \/ blockSize' = 0)
        BY <2>1, <3>1, <4>1
      <4>3. mPendingLen' = 0 \/ (~Streaming' /\ blockSize' = 0)
        BY <2>2, <2>5, <4>2, Zenon
      <4> QED BY <2>1, <3>3, <4>2, <4>3 DEF BytesInv, LoopInv
    <3>10. TypeOK'
      <4>1. /\ mPendingLen - n \in Nat /\ blockSize - n \in 0 .. ChunkSize
            /\ mBytesDecoded + n \in Nat
        BY <1>0, <3>2
      <4> QED BY <2>1, <3>1, <3>5, <4>1, EmptySeq DEF TypeOK, IndexInv
    <3> QED BY <2>1, <3>7, <3>8, <3>9, <3>10 DEF BytesInv, StartInv
  <2> QED BY <2>4, <2>5
<1>2. CASE Enqueue
  <2>1. /\ pc = "fill" /\ out' = out \o (block \o literal) /\ block' = <<>>
           /\ literal' = <<>>
        /\ \/ ~Streaming /\ pc' = "portion" /\ result' = result
           \/ pc' = "alloc" /\ result' = result
           \/ pc' = "idle" /\ result' = "true"
        /\ UNCHANGED <<mBytesExpected, size, mBytesDecoded, mPendingLen, pendingNext,
                       mNeedReadTable, mIsFinalBlock, mStoredMode, mStoredBlockSize,
                           storedEnd,
                       blockSize, keepGoing, next>>
    BY <1>2 DEF Enqueue, Return, callVars, pendingVars, tableVars
  <2>2. Streaming' = Streaming /\ Done' = Done
    BY <2>1 DEF Streaming, Done
  <2>3. out' = Laid /\ out' \in Seq(Nat)
    <3>1. out \o (block \o literal) = (out \o block) \o literal
      BY <1>0, Associative, ZenonT(40)
    <3>2. block \o literal \in Seq(Nat)
      BY <1>0, ConcatProperties
    <3> QED BY <1>0, <2>1, <3>1, <3>2, ConcatProperties DEF Laid
  <2>4. Laid' = Laid
    BY <2>1, <2>3, ConcatEmptySeq DEF Laid
  <2>5. LaidInv'
    BY <2>1, <2>2, <2>4 DEF LaidInv, BytesInv
  <2>6. PortionInv' /\ LoopInv' /\ StartInv'
    BY <2>1, <2>2 DEF BytesInv, PortionInv, LoopInv, StartInv
  <2>7. TypeOK'
    BY <2>1, <2>3, EmptySeq DEF TypeOK, IndexInv
  <2> QED BY <2>5, <2>6, <2>7 DEF BytesInv
<1> QED BY <1>1, <1>2

\* TypeOK and BytesInv, action by action.
LEMMA LoopStep ==
  ASSUME CarefulCaller, TypeOK, BytesInv, IndexInv, [Next]_vars
  PROVE  TypeOK' /\ BytesInv'
<1> USE BlockAssumption
<1>0. /\ next \in 1 .. size + 1 /\ size \in Nat /\ blockSize \in 0 .. ChunkSize
      /\ mBytesDecoded \in Nat /\ mBytesExpected \in Nat /\ mPendingLen \in Nat
  BY DEF TypeOK
<1>a. IndexInv'
  BY IndexStep
<1>1. CASE Stream
  <2>1. /\ pc = "idle" /\ result = "none" /\ result' = "none"
        /\ size' \in Nat /\ mBytesExpected' \in Nat /\ mBytesExpected' \in Expected
        /\ mBytesExpected' = 0 \/ mBytesExpected' >= size'
        /\ mIsFinalBlock' = FALSE /\ mPendingLen' = 0 /\ mNeedReadTable' = TRUE
        /\ mBytesDecoded' = 0 /\ keepGoing' = TRUE
        /\ pc' = IF mBytesExpected' = 0 THEN "alloc" ELSE "portion"
        /\ UNCHANGED <<pendingNext, mStoredMode, mStoredBlockSize, storedEnd, blockSize,
                       ix, block, literal, out, next>>
    BY <1>1 DEF Stream, blockVars, CarefulCaller
  <2>2. ~mStoredMode /\ next = 1 /\ out = <<>> /\ block = <<>> /\ literal = <<>>
        /\ mPendingLen = 0 /\ mBytesExpected = 0
    BY <2>1 DEF BytesInv, StartInv
  <2>3. Laid' = Laid /\ Done' = Done /\ Done = 0
    BY <2>1, <2>2 DEF Laid, Done
  <2>4. StartInv' /\ LoopInv'
    BY <2>1, <2>2 DEF StartInv, LoopInv
  <2>5. PortionInv'
    BY <2>1, <2>2 DEF PortionInv, Streaming
  <2>6. LaidInv'
    BY <2>1, <2>3 DEF BytesInv, LaidInv
  <2>7. TypeOK'
    <3>1. \A k \in Nat : 1 \in 1 .. k + 1
      OBVIOUS
    <3>2. next' \in 1 .. size' + 1
      BY <2>1, <2>2, <3>1
    <3>3. pc' \in {"idle", "portion", "alloc", "fill"}
      BY <2>1
    <3> QED BY <2>1, <3>2, <3>3 DEF TypeOK
  <2> QED BY <2>4, <2>5, <2>6, <2>7 DEF BytesInv
<1>2. CASE Portion
  <2>1. /\ pc = "portion" /\ pc' = "alloc" /\ keepGoing' /\ mBytesDecoded < mBytesExpected
        /\ blockSize' = Lesser(ChunkSize, mBytesExpected - mBytesDecoded)
        /\ UNCHANGED <<mBytesExpected, size, mBytesDecoded, mPendingLen, pendingNext,
                       mNeedReadTable, mIsFinalBlock, mStoredMode, mStoredBlockSize,
                           storedEnd,
                       ix, block, literal, out, next, result>>
    BY <1>2 DEF Portion, callVars, pendingVars, tableVars, blockVars
  <2>2. /\ blockSize' \in 0 .. ChunkSize
        /\ blockSize' <= mBytesExpected - mBytesDecoded
        /\ mBytesExpected <= ChunkSize => blockSize' = mBytesExpected - mBytesDecoded
    BY <1>0, <2>1 DEF Lesser
  <2>3. Streaming' = Streaming /\ Laid' = Laid /\ Done' = Done /\ ~Streaming
    BY <2>1 DEF Streaming, Laid, Done, BytesInv, PortionInv
  <2>4. StartInv' /\ LoopInv' /\ LaidInv'
    BY <2>1, <2>3 DEF BytesInv, StartInv, LoopInv, LaidInv
  <2>5. PortionInv'
    BY <2>1, <2>2, <2>3 DEF BytesInv, PortionInv
  <2>6. TypeOK'
    BY <2>1, <2>2 DEF TypeOK
  <2> QED BY <2>4, <2>5, <2>6 DEF BytesInv
<1>3. CASE LastPortion \/ Fails \/ UNCHANGED vars
  <2>1. /\ \/ pc' = "idle" /\ result' \in {"true", "error"}
           \/ UNCHANGED <<pc, result>>
        /\ UNCHANGED <<mBytesExpected, size, mBytesDecoded, mPendingLen, pendingNext,
                       mNeedReadTable, mIsFinalBlock, mStoredMode, mStoredBlockSize,
                           storedEnd,
                       blockSize, keepGoing, ix, block, literal, out, next>>
    BY <1>3 DEF LastPortion, Fails, Return, vars, callVars, pendingVars, tableVars,
        blockVars
  <2>2. Streaming' = Streaming /\ Laid' = Laid /\ Done' = Done
    BY <2>1 DEF Streaming, Laid, Done
  <2>3. BytesInv'
    BY <2>1, <2>2 DEF BytesInv, StartInv, LoopInv, PortionInv, LaidInv
  <2> QED BY <2>1, <2>3 DEF TypeOK
<1>4. CASE ReadTables \/ StoredEnd \/ EndOfBlock
  <2>1. /\ pc = "fill" /\ keepGoing /\ mNeedReadTable' \in BOOLEAN
           /\ keepGoing' \in BOOLEAN
        /\ mIsFinalBlock' \in BOOLEAN
        /\ UNCHANGED <<pc, mBytesExpected, size, mBytesDecoded, mPendingLen, pendingNext,
                       blockSize, ix, block, literal, out, next, result>>
    BY <1>4 DEF ReadTables, StoredEnd, EndOfBlock, Stored, Coded, Filling, callVars,
       pendingVars, blockVars, TypeOK
  <2>2. Streaming' = Streaming /\ Laid' = Laid /\ Done' = Done
    BY <2>1 DEF Streaming, Laid, Done
  <2>3. StartInv' /\ LaidInv'
    BY <2>1, <2>2 DEF BytesInv, StartInv, LaidInv
  <2>4. CASE ReadTables
    <3>1. /\ keepGoing' = keepGoing /\ ~mNeedReadTable'
          /\ \/ ~mStoredMode' /\ UNCHANGED <<mStoredBlockSize, storedEnd>>
             \/ /\ Streaming /\ mStoredMode' /\ mStoredBlockSize' \in Nat
                /\ storedEnd' = next + mStoredBlockSize'
                   /\ mStoredBlockSize' <= size + 1 - next
                /\ mIsFinalBlock' => storedEnd' = size + 1
      BY <2>4 DEF ReadTables, CarefulCaller
    <3>2. mStoredMode' => storedEnd' \in Nat /\ storedEnd' <= size + 1
      BY <1>0, <3>1
    <3>3. PortionInv'
      BY <2>1, <2>2, <3>1 DEF BytesInv, PortionInv
    <3>4. LoopInv'
      BY <2>1, <2>2, <3>1, <3>2 DEF BytesInv, LoopInv
    <3>5. TypeOK'
      <4>1. mStoredBlockSize' \in Nat /\ storedEnd' \in Nat
        BY <3>1, <3>2 DEF TypeOK
      <4>2. mStoredMode' \in BOOLEAN
        BY <2>4 DEF ReadTables
      <4> QED BY <2>1, <4>1, <4>2 DEF TypeOK
    <3> QED BY <2>3, <3>3, <3>4, <3>5 DEF BytesInv
  <2>5. CASE StoredEnd \/ EndOfBlock
    <3>1. /\ ~mNeedReadTable
          /\ UNCHANGED <<mIsFinalBlock, mStoredMode, mStoredBlockSize, storedEnd>>
          /\ \/ mNeedReadTable' /\ keepGoing' = keepGoing
             \/ mIsFinalBlock /\ mNeedReadTable' = mNeedReadTable
      BY <2>5 DEF StoredEnd, EndOfBlock, Stored, Coded
    <3>2. mIsFinalBlock => next = size + 1
      <4>1. CASE StoredEnd
        <5>1. storedEnd = next + mStoredBlockSize /\ mStoredBlockSize = 0
              /\ (mIsFinalBlock => storedEnd = size + 1)
          BY <4>1 DEF StoredEnd, Stored, BytesInv, LoopInv
        <5> QED BY <1>0, <5>1
      <4>2. CASE EndOfBlock
        BY <4>2 DEF EndOfBlock
      <4> QED BY <2>5, <4>1, <4>2
    <3>3. PortionInv'
      BY <2>1, <2>2, <3>1 DEF BytesInv, PortionInv
    <3>4. LoopInv'
      BY <2>1, <2>2, <3>1, <3>2 DEF BytesInv, LoopInv
    <3>5. TypeOK'
      BY <2>1, <3>1 DEF TypeOK
    <3> QED BY <2>3, <3>3, <3>4, <3>5 DEF BytesInv
  <2> QED BY <1>4, <2>4, <2>5
<1>5. CASE Alloc \/ Enqueue
  BY <1>a, <1>5, BlockStep
<1>6. CASE StoredByte \/ Literal \/ \E len \in Lengths : Match(len)
  BY <1>a, <1>6, PutStep
<1> QED
  BY <1>1, <1>2, <1>3, <1>4, <1>5, <1>6 DEF Next

\* The invariant of the bytes, in a step of either view.
LEMMA BytesInvariant ==
  ASSUME CarefulCaller
  PROVE  QueueSpec => [](TypeOK /\ BytesInv /\ IndexInv)
<1>1. Init => TypeOK /\ BytesInv /\ IndexInv
  <2> SUFFICES ASSUME Init PROVE TypeOK /\ BytesInv /\ IndexInv
    OBVIOUS
  <2> USE BlockAssumption DEF Init
  <2>1. TypeOK /\ IndexInv
    <3>1. 0 \in 0 .. ChunkSize /\ 0 \in 0 .. QueueBlockSize /\ next \in 1 .. size + 1
      OBVIOUS
    <3>2. <<>> \in Seq(Nat)
      BY EmptySeq
    <3> QED BY <3>1, <3>2 DEF TypeOK, IndexInv
  <2>2. Laid = <<>> /\ Done = 0
    BY DEF Laid, Done
  <2>3. Owed!Positions(0) = <<>>
    BY DEF Owed!Positions
  <2> QED BY <2>1, <2>2, <2>3
          DEF BytesInv, StartInv, LoopInv, PortionInv, LaidInv, Streaming
<1>2. TypeOK /\ BytesInv /\ IndexInv /\ [Next]_vars => TypeOK' /\ BytesInv' /\ IndexInv'
  BY LoopStep, IndexStep
<1>3. QueueInit => Init
  BY DEF QueueInit
<1>4. [QueueNext]_<<vars, instVars, view>> => [Next]_vars
  BY SMTT(40) DEF QueueNext, BytesStep, BitsStep
<1> QED BY <1>1, <1>2, <1>3, <1>4, PTL DEF QueueSpec

\* In a call, what is enqueued is owed, and all that was put would be.
LEMMA WrittenLemma ==
  ASSUME TypeOK, BytesInv
  PROVE  /\ Owed!Limit = IF Streaming THEN size ELSE Lesser(size, mBytesExpected)
         /\ Done \in Nat /\ Done <= size
         /\ Len(out) \in Nat /\ Len(block) \in Nat /\ Len(literal) \in Nat
         /\ out = Owed!Positions(Len(out)) /\ Len(out) <= Done
         /\ Len(out) + Len(block) + Len(literal) = Done
         /\ mBytesExpected = 0 \/ size <= mBytesExpected => Owed!Limit = size
<1> USE BlockAssumption
<1>0. /\ next \in 1 .. size + 1 /\ size \in Nat /\ mPendingLen \in Nat
         /\ mPendingLen < next
      /\ out \in Seq(Nat) /\ block \in Seq(Nat) /\ literal \in Seq(Nat)
         /\ mBytesExpected \in Nat
      /\ Len(out) \in Nat /\ Len(block) \in Nat /\ Len(literal) \in Nat
  BY LenProperties DEF TypeOK, BytesInv, LoopInv
<1>1. Done \in Nat /\ Done <= size
  BY <1>0 DEF Done
<1>2. out \o block \in Seq(Nat) /\ Len(out \o block) = Len(out) + Len(block)
  BY <1>0, ConcatProperties
<1>3. Laid = Owed!Positions(Done)
  BY DEF BytesInv, LaidInv
<1>4. out \o block = Owed!Positions(Len(out \o block))
      /\ Len(out \o block) + Len(literal) = Done
  BY <1>0, <1>1, <1>2, <1>3, PrefixLemma DEF Laid
<1>5. out = Owed!Positions(Len(out))
  <2>1. Len(out \o block) \in Nat
    BY <1>0, <1>2
  <2> QED BY <1>0, <1>4, <2>1, PrefixLemma
<1>6. Owed!Limit = IF Streaming THEN size ELSE Lesser(size, mBytesExpected)
  BY <1>0 DEF Owed!Limit, Streaming, Lesser
<1> QED BY <1>0, <1>1, <1>2, <1>4, <1>5, <1>6 DEF Streaming, Lesser

\* Each step of the loops is one of Inflate, or none: only the call, an enqueued block
\* and a return are seen.
LEMMA Simulation ==
  ASSUME CarefulCaller, TypeOK, BytesInv, TypeOK', BytesInv', [Next]_vars
  PROVE  [Owed!Call \/ Owed!Put \/ Owed!Return]_(Owed!vars)
<1> USE BlockAssumption
<1>0. /\ size \in Nat /\ Done \in Nat /\ Done <= size /\ Len(out) \in Nat
      /\ out = Owed!Positions(Len(out)) /\ Len(out) <= Done
      /\ Len(out) + Len(block) + Len(literal) = Done
      /\ next \in 1 .. size + 1 /\ mPendingLen \in Nat
  BY WrittenLemma DEF TypeOK
<1>1. pc # "idle" => Owed!Limit = size
  BY WrittenLemma DEF BytesInv, PortionInv, Streaming
<1>2. ASSUME pc # "idle", out' = out
      PROVE  Owed!Grow
  BY <1>0, <1>1, <1>2 DEF Owed!Grow
<1>3. CASE Stream
  <2>1. /\ pc = "idle" /\ result = "none" /\ result' = "none" /\ out' = out
           /\ pc' # "idle"
        /\ size' \in Nat /\ mBytesExpected' \in Nat
    BY <1>3 DEF Stream
  <2>2. out = <<>>
    BY <2>1 DEF BytesInv, StartInv
  <2> QED BY <2>1, <2>2 DEF Owed!Call
<1>4. CASE LastPortion
  <2>1. /\ pc = "portion" /\ pc' = "idle" /\ result' = "true" /\ out' = out
        /\ mBytesDecoded >= mBytesExpected /\ UNCHANGED <<size, mBytesExpected>>
    BY <1>4 DEF LastPortion, Return, callVars
  <2>2. ~Streaming /\ size <= mBytesExpected /\ mBytesDecoded = Done
    BY <2>1 DEF BytesInv, PortionInv, LaidInv
  <2>3. block = <<>> /\ literal = <<>>
    BY <2>1 DEF BytesInv, LoopInv
  <2>4. Len(out) = Done
    BY <1>0, <2>3, EmptySeq
  <2>5. Len(out) = size
    BY <1>0, <2>1, <2>2, <2>4 DEF TypeOK
  <2> QED BY <1>1, <1>2, <2>1, <2>5 DEF Owed!Return
<1>5. CASE Fails
  BY <1>2, <1>5 DEF Fails, Filling, Return, callVars, Owed!Return
<1>6. CASE Enqueue
  <2>1. /\ pc = "fill" /\ out' = out \o (block \o literal) /\ block' = <<>>
           /\ literal' = <<>>
        /\ UNCHANGED <<size, mBytesExpected, next, mPendingLen>>
    BY <1>6 DEF Enqueue, callVars, pendingVars
  <2>2. Done' = Done
    BY <2>1 DEF Done
  <2>3. Len(out') = Done /\ out' = Owed!Positions(Len(out'))
    <3>1. Laid' = Owed!Positions(Done)
      BY <2>2 DEF BytesInv, LaidInv
    <3>2. Laid' = out'
      <4>1. out' \in Seq(Nat)
        BY DEF TypeOK
      <4> QED BY <2>1, <4>1, ConcatEmptySeq DEF Laid
    <3> QED BY <1>0, <3>1, <3>2, PositionsLemma
  <2>4. Owed!Grow
    BY <1>0, <1>1, <2>1, <2>3 DEF Owed!Grow
  <2>5. CASE pc' = "idle"
    <3>1. result' = "true" /\ ~keepGoing /\ (Streaming \/ blockSize > 0)
      BY <1>6, <2>5 DEF Enqueue, Return
    <3>2. next = size + 1 /\ mPendingLen = 0
      <4>1. blockSize \in Nat
        BY DEF TypeOK
      <4> QED BY <2>1, <3>1, <4>1 DEF BytesInv, LoopInv
    <3>3. Done = size
      BY <1>0, <3>2 DEF Done
    <3> QED BY <1>1, <2>1, <2>3, <2>4, <2>5, <3>1, <3>3 DEF Owed!Return
  <2>6. CASE pc' # "idle"
    <3>1. result' = result
      BY <1>6, <2>6 DEF Enqueue, Return
    <3> QED BY <2>1, <2>4, <2>6, <3>1 DEF Owed!Put
  <2> QED BY <2>5, <2>6
<1>7. CASE \/ Portion \/ Alloc \/ ReadTables \/ StoredEnd \/ StoredByte \/ Literal
           \/ EndOfBlock \/ \E len \in Lengths : Match(len)
  <2>1. /\ pc # "idle" /\ pc' # "idle" /\ UNCHANGED <<size, mBytesExpected, out, result>>
    BY <1>7 DEF Portion, Alloc, ReadTables, StoredEnd, StoredByte, Literal, EndOfBlock,
        Match,
       Stored, Coded, Filling, callVars
  <2> QED BY <2>1 DEF Owed!vars
<1>8. CASE UNCHANGED vars
  BY <1>8 DEF vars, callVars, Owed!vars
<1> QED
  BY <1>3, <1>4, <1>5, <1>6, <1>7, <1>8 DEF Next

-----------------------------------------------------------------------------
\* The instructions of a block fit it, whoever calls and however long matches are.
THEOREM Fits == QueueSpec => []AvailFits
<1>1. QueueInit => IndexInv
  BY BlockAssumption DEF QueueInit, Init, IndexInv
<1>2. IndexInv /\ [QueueNext]_<<vars, instVars, view>> => IndexInv'
  <2>1. [QueueNext]_<<vars, instVars, view>> => [Next]_vars
    BY DEF QueueNext, BytesStep, BitsStep
  <2> QED BY <2>1, IndexStep
<1>3. IndexInv => AvailFits
  BY BlockAssumption DEF IndexInv, AvailFits, Instructions
<1> QED BY <1>1, <1>2, <1>3, PTL DEF QueueSpec

\* The variables of the loops have their types.
THEOREM TypeCorrect ==
  ASSUME CarefulCaller
  PROVE  QueueSpec => []TypeOK
BY BytesInvariant, PTL

\* mBytesDecoded, by which stream() stops, is the number of bytes of the instructions.
THEOREM Counts ==
  ASSUME CarefulCaller
  PROVE  QueueSpec => []CountsTheOutput
<1>1. TypeOK /\ BytesInv => CountsTheOutput
  BY WrittenLemma DEF BytesInv, LaidInv, CountsTheOutput
<1> QED BY <1>1, BytesInvariant, PTL

\* The decoder implements Inflate: however portions and blocks cut the data, the bytes
\* come out in order, and "true" is said only when all of them are enqueued.
THEOREM Implements ==
  ASSUME CarefulCaller
  PROVE  QueueSpec => IsInflate
<1>1. QueueInit => Owed!Init
  BY DEF QueueInit, Init, Owed!Init
<1>2. /\ TypeOK /\ BytesInv /\ TypeOK' /\ BytesInv'
         /\ [QueueNext]_<<vars, instVars, view>>
        => [Owed!Call \/ Owed!Put \/ Owed!Return]_(Owed!vars)
  <2>1. [QueueNext]_<<vars, instVars, view>> => [Next]_vars
    BY SMTT(40) DEF QueueNext, BytesStep, BitsStep
  <2> QED BY <2>1, Simulation
<1> QED BY <1>1, <1>2, BytesInvariant, PTL DEF QueueSpec, IsInflate, Owed!Spec

-----------------------------------------------------------------------------
(* The bits *)

\* What a field holds.
Word == 0 .. 65535

\* What fits into the fields.  A length of Deflate64 may need the bit that says
\* "literals": section 4 of the README.
FitsTheFields ==
  /\ QueueBlockSize \in Nat \ {0}
  /\ Literals \subseteq 0 .. 255
  /\ InstLengths \subseteq 0 .. Bits!LITERAL - 1 /\ Distances \subseteq Word
  /\ Leftovers \subseteq Bits!Inst

\* The first field of an instruction with c literals of which l is the first.
Code(c, l) == Bits!LITERAL + 256 * c + l

\* An instruction that is complete: a match, or one to three literals.
Complete(inst) ==
  Bits!isLiteral(inst) => \E c \in 1 .. 3, l \in 0 .. 255 : inst.mCode = Code(c, l)

\* The one that is being packed: a cleared one, or one or two literals, with room in
\* the second field for the third.
Open(inst) ==
  Bits!isLiteral(inst) =>
    \E c \in 1 .. 2, l \in 0 .. 255 :
      inst.mCode = Code(c, l) /\ (c = 2 => inst.mDistance \in 0 .. 255)

\* All instructions before ix, or of an enqueued block, are complete; there is room
\* for the one at ix whenever it has got a literal.
PackedInv ==
  /\ avail = -1 =>
       /\ \A k \in Bits!Index : k < instIx => Complete(instBlock[k])
       /\ Open(instBlock[instIx])
       /\ Bits!isLiteral(instBlock[instIx]) => instIx < QueueBlockSize
  /\ \A k \in Bits!Index : k < avail => Complete(instBlock[k])

-----------------------------------------------------------------------------
\* The numbers of sixteen bits.
LEMMA WordLemma == \A x \in Int : x \in Word <=> 0 <= x /\ x <= 65535
BY SMTT(40) DEF Word

\* An instruction is made of two fields, whichever of them was set.
LEMMA FieldsLemma ==
  /\ \A inst \in Bits!Inst : inst.mCode \in Word /\ inst.mDistance \in Word
  /\ \A code, distance \in Word : [mCode |-> code, mDistance |-> distance] \in Bits!Inst
  /\ \A inst \in Bits!Inst, code \in Word :
       [inst EXCEPT !.mCode = code] = [mCode |-> code, mDistance |-> inst.mDistance]
<1>1. Bits!Inst = [mCode : Word, mDistance : Word]
  BY DEF Bits!Inst, Word
<1>2. ASSUME NEW inst \in Bits!Inst
      PROVE  inst.mCode \in Word /\ inst.mDistance \in Word
  BY <1>1
<1>3. ASSUME NEW code \in Word, NEW distance \in Word
      PROVE  [mCode |-> code, mDistance |-> distance] \in Bits!Inst
  BY <1>1
<1>4. ASSUME NEW inst \in Bits!Inst, NEW code \in Word
      PROVE  [inst EXCEPT !.mCode = code] = [mCode |-> code, mDistance |-> inst.mDistance]
  BY <1>1
<1> QED BY <1>2, <1>3, <1>4

\* What is read from such a field is what was put there, and the number of literals
\* can be replaced.
LEMMA CodeLemma ==
  ASSUME NEW c \in 0 .. 3, NEW l \in 0 .. 255, NEW n \in 0 .. 3
  PROVE  /\ Code(c, l) \in Word
         /\ Code(c, l) >= Bits!LITERAL
         /\ (Code(c, l) \div 256) % 16 = c
         /\ Bits!WithCount(Code(c, l), n) = Code(n, l)
<1>1. Code(c, l) \in Word /\ Code(c, l) >= Bits!LITERAL
  <2>1. Code(c, l) \in Int /\ Code(c, l) <= 65535 /\ Code(c, l) >= Bits!LITERAL
    BY DEF Code, Bits!LITERAL
  <2>2. \A code \in Int : 0 <= code /\ code <= 65535 => code \in Word
    BY WordLemma
  <2>3. \A code \in Int : code >= Bits!LITERAL => 0 <= code
    BY DEF Bits!LITERAL
  <2> QED BY <2>1, <2>2, <2>3
<1>2. Code(c, l) \div 256 = 128 + c
  BY DEF Code, Bits!LITERAL
<1>3. (128 + c) % 16 = c
  OBVIOUS
<1>4. Bits!WithCount(Code(c, l), n) = Code(c, l) - 256 * c + 256 * n
  BY <1>2, <1>3 DEF Bits!WithCount
<1>5. Code(c, l) - 256 * c + 256 * n = Code(n, l)
  BY DEF Code, Bits!LITERAL
<1> QED BY <1>1, <1>2, <1>3, <1>4, <1>5

\* A code with literals says so, and how many there are.
LEMMA CodedLemma ==
  ASSUME NEW inst, NEW c \in 1 .. 3, NEW l \in 0 .. 255, inst.mCode = Code(c, l)
  PROVE  Bits!isLiteral(inst) /\ Bits!literalCount(inst) = c /\ Complete(inst)
<1>1. c \in 0 .. 3
  OBVIOUS
<1>2. Code(c, l) >= Bits!LITERAL /\ (Code(c, l) \div 256) % 16 = c
  BY <1>1, CodeLemma, ZenonT(60)
<1>3. Bits!isLiteral(inst)
  BY <1>2, Zenon DEF Bits!isLiteral
<1>4. Bits!literalCount(inst) = c
  BY <1>2, Zenon DEF Bits!literalCount
<1>5. Complete(inst)
  BY Zenon DEF Complete
<1> QED BY <1>3, <1>4, <1>5, Zenon

\* A cleared instruction is open.
LEMMA ClearedLemma ==
  ASSUME NEW inst \in Bits!Inst
  PROVE  Bits!cleared(inst) \in Bits!Inst /\ Open(Bits!cleared(inst))
      /\ ~Bits!isLiteral(Bits!cleared(inst))
<1>1. 0 \in Word /\ ~(0 >= Bits!LITERAL)
  BY DEF Word, Bits!LITERAL
<1>2. Bits!cleared(inst) = [mCode |-> 0, mDistance |-> inst.mDistance]
  BY <1>1, FieldsLemma, Zenon DEF Bits!cleared
<1>3. Bits!cleared(inst) \in Bits!Inst
  BY <1>1, <1>2, FieldsLemma
<1>4. Bits!cleared(inst).mCode = 0
  BY <1>2
<1>5. ~Bits!isLiteral(Bits!cleared(inst))
  BY <1>1, <1>4, Zenon DEF Bits!isLiteral
<1> QED BY <1>3, <1>5, Zenon DEF Open

\* An open instruction is complete, too.
LEMMA OpenIsComplete ==
  ASSUME NEW inst, Open(inst)
  PROVE  Complete(inst)
<1>1. 1 .. 2 \subseteq 1 .. 3
  OBVIOUS
<1> QED BY <1>1, ZenonT(40) DEF Open, Complete

\* The literals already in an open instruction.
LiteralsIn(inst) == IF Bits!isLiteral(inst) THEN Bits!literalCount(inst) ELSE 0

\* One more literal: the instruction stays open, or is complete with three.
LEMMA LiteralLemma ==
  ASSUME NEW inst \in Bits!Inst, Open(inst), NEW l \in 0 .. 255, NEW new,
         new = Bits!setLiteral(inst, LiteralsIn(inst), l)
  PROVE  /\ LiteralsIn(inst) \in 0 .. 2
         /\ new \in Bits!Inst /\ Bits!isLiteral(new)
            /\ Bits!literalCount(new) = LiteralsIn(inst) + 1
         /\ Complete(new)
         /\ LiteralsIn(inst) < 2 => Open(new)
<1>0. inst.mDistance \in Word /\ l \in Word
  <2>1. l \in Word
    BY DEF Word
  <2> QED BY <2>1, FieldsLemma, Zenon
<1>1. CASE ~Bits!isLiteral(inst)
  <2>1. LiteralsIn(inst) = 0
    BY <1>1, Zenon DEF LiteralsIn
  <2>2. new = [inst EXCEPT !.mCode = Bits!LITERAL + 256 + l]
    BY <2>1 DEF Bits!setLiteral
  <2>3. Bits!LITERAL + 256 + l = Code(1, l) /\ Code(1, l) \in Word
    BY CodeLemma DEF Code, Bits!LITERAL
  <2>4. new = [mCode |-> Code(1, l), mDistance |-> inst.mDistance]
    BY <2>2, <2>3, FieldsLemma, ZenonT(40)
  <2>5. new.mCode = Code(1, l)
    BY <2>4
  <2>6. new \in Bits!Inst
    BY <1>0, <2>3, <2>4, FieldsLemma
  <2>7. 1 \in 1 .. 2 /\ 1 \in 1 .. 3 /\ 1 # 2 /\ 0 \in 0 .. 2 /\ 0 + 1 = 1
    OBVIOUS
  <2>8. Bits!isLiteral(new) /\ Bits!literalCount(new) = 1 /\ Complete(new)
    BY <2>5, <2>7, CodedLemma, ZenonT(40)
  <2>9. Open(new)
    BY <2>5, <2>7, ZenonT(40) DEF Open
  <2> QED BY <2>1, <2>6, <2>7, <2>8, <2>9, Zenon
<1>2. CASE Bits!isLiteral(inst)
  <2>1. PICK c \in 1 .. 2, m \in 0 .. 255 :
          inst.mCode = Code(c, m) /\ (c = 2 => inst.mDistance \in 0 .. 255)
    BY <1>2, Zenon DEF Open
  <2>2. c \in 0 .. 3 /\ c \in 1 .. 3 /\ c \in 0 .. 2 /\ (c = 1 \/ c = 2)
        /\ 2 \in 0 .. 3 /\ 3 \in 0 .. 3 /\ 2 \in 1 .. 3 /\ 3 \in 1 .. 3 /\ 2 \in 1 .. 2
        /\ 1 + 1 = 2 /\ 2 + 1 = 3 /\ ~(2 < 2)
    OBVIOUS
  <2>3. LiteralsIn(inst) = c
    <3>1. Bits!literalCount(inst) = c
      BY <2>1, <2>2, CodedLemma, ZenonT(40)
    <3> QED BY <1>2, <3>1, Zenon DEF LiteralsIn
  <2>4. /\ Bits!WithCount(Code(c, m), 2) = Code(2, m) /\ Code(2, m) \in Word
        /\ Bits!WithCount(Code(c, m), 3) = Code(3, m) /\ Code(3, m) \in Word
    <3>1. ASSUME NEW n \in 0 .. 3
          PROVE  Bits!WithCount(Code(c, m), n) = Code(n, m) /\ Code(n, m) \in Word
      <4>1. Bits!WithCount(Code(c, m), n) = Code(n, m)
        BY <2>2, CodeLemma, ZenonT(40)
      <4>2. Code(n, m) \in Word
        BY CodeLemma, Zenon
      <4> QED BY <4>1, <4>2
    <3> QED BY <2>2, <3>1, Zenon
  <2>5. CASE c = 1
    <3>1. new = [mCode |-> Bits!WithCount(inst.mCode, 2), mDistance |-> l]
      BY <2>3, <2>5 DEF Bits!setLiteral
    <3>2. new = [mCode |-> Code(2, m), mDistance |-> l]
      BY <2>1, <2>4, <3>1, Zenon
    <3>3. new.mCode = Code(2, m) /\ new.mDistance = l
      BY <3>2
    <3>4. Bits!isLiteral(new) /\ Bits!literalCount(new) = 2 /\ Complete(new)
      BY <2>2, <3>3, CodedLemma, ZenonT(40)
    <3>5. new \in Bits!Inst
      BY <1>0, <2>4, <3>2, FieldsLemma
    <3>6. Open(new)
      BY <2>2, <3>3, ZenonT(40) DEF Open
    <3> QED BY <2>2, <2>3, <2>5, <3>4, <3>5, <3>6, Zenon
  <2>6. CASE c = 2
    <3>1. new = [mCode |-> Bits!WithCount(inst.mCode, 3),
          mDistance |-> inst.mDistance + 256 * l]
      BY <2>3, <2>6 DEF Bits!setLiteral
    <3>2. new = [mCode |-> Code(3, m), mDistance |-> inst.mDistance + 256 * l]
      BY <2>1, <2>4, <3>1, Zenon
    <3>3. new.mCode = Code(3, m)
      BY <3>2
    <3>4. Bits!isLiteral(new) /\ Bits!literalCount(new) = 3 /\ Complete(new)
      BY <2>2, <3>3, CodedLemma, ZenonT(40)
    <3>5. inst.mDistance + 256 * l \in Word
      <4>1. ASSUME NEW d \in 0 .. 255 PROVE d + 256 * l \in Word
        <5>1. d + 256 * l \in Int /\ 0 <= d + 256 * l /\ d + 256 * l <= 65535
          OBVIOUS
        <5> QED BY <5>1, WordLemma
      <4> QED BY <2>1, <2>6, <4>1, Zenon
    <3>6. new \in Bits!Inst
      BY <2>4, <3>2, <3>5, FieldsLemma
    <3> QED BY <2>2, <2>3, <2>6, <3>4, <3>6, Zenon
  <2> QED BY <2>2, <2>5, <2>6, Zenon
<1> QED BY <1>1, <1>2

\* An instruction of a match is complete.
LEMMA MatchLemma ==
  ASSUME FitsTheFields, NEW length \in InstLengths, NEW distance \in Distances, NEW new,
         new = [mCode |-> length, mDistance |-> distance]
  PROVE  new \in Bits!Inst /\ Complete(new)
<1>1. length \in 0 .. Bits!LITERAL - 1 /\ distance \in Word
  <2>1. InstLengths \subseteq 0 .. Bits!LITERAL - 1 /\ Distances \subseteq Word
    BY Zenon DEF FitsTheFields
  <2> QED BY <2>1
<1>2. length \in Word /\ ~(length >= Bits!LITERAL)
  <2>1. length \in Int /\ 0 <= length /\ length <= 65535 /\ ~(length >= Bits!LITERAL)
    BY <1>1 DEF Bits!LITERAL
  <2> QED BY <2>1, WordLemma
<1>3. new \in Bits!Inst
  BY <1>1, <1>2, FieldsLemma
<1>4. new.mCode = length
  OBVIOUS
<1>5. Complete(new)
  BY <1>2, <1>4, Zenon DEF Complete, Bits!isLiteral
<1> QED BY <1>3, <1>5

\* The assumptions one by one.
LEMMA Assumed ==
  ASSUME FitsTheFields
  PROVE  /\ QueueBlockSize \in Nat \ {0}
         /\ \A l \in Literals : l \in 0 .. 255
         /\ Leftovers \subseteq Bits!Inst
<1>1. Literals \subseteq 0 .. 255
  BY Zenon DEF FitsTheFields
<1>2. \A l \in Literals : l \in 0 .. 255
  BY <1>1
<1> QED BY <1>2, Zenon DEF FitsTheFields

-----------------------------------------------------------------------------
\* TypeOK and PackedInv, action by action.
LEMMA PackedStep ==
  ASSUME FitsTheFields, Bits!TypeOK, PackedInv, [Bits!Next]_(Bits!vars)
  PROVE  Bits!TypeOK' /\ PackedInv'
<1>0. /\ instBlock \in [Bits!Index -> Bits!Inst] /\ instIx \in Bits!Index
         /\ avail \in -1 .. QueueBlockSize
      /\ blocks \in Nat /\ QueueBlockSize \in Nat \ {0}
  BY Assumed DEF Bits!TypeOK
<1>1. CASE Bits!StartBlock
  <2>1. /\ instBlock' = [instBlock EXCEPT ![0] = Bits!cleared(instBlock[0])]
        /\ instIx' = 0 /\ avail' = -1 /\ blocks' = blocks + 1
    BY <1>1 DEF Bits!StartBlock
  <2>2. 0 \in Bits!Index
    BY <1>0 DEF Bits!Index
  <2>3. instBlock[0] \in Bits!Inst
    BY <1>0, <2>2
  <2>4. Bits!cleared(instBlock[0]) \in Bits!Inst /\ Open(Bits!cleared(instBlock[0]))
        /\ ~Bits!isLiteral(Bits!cleared(instBlock[0]))
    BY <2>3, ClearedLemma
  <2>5. instBlock' \in [Bits!Index -> Bits!Inst]
        /\ instBlock'[0] = Bits!cleared(instBlock[0])
    BY <1>0, <2>1, <2>2, <2>4
  <2>6. Bits!TypeOK'
    BY <1>0, <2>1, <2>2, <2>5 DEF Bits!TypeOK
  <2>7. \A k \in Bits!Index : ~(k < -1) /\ ~(k < 0)
    BY <1>0 DEF Bits!Index
  <2> QED BY <2>1, <2>4, <2>5, <2>6, <2>7 DEF PackedInv
<1>2. CASE Bits!Enqueue
  <2>1. /\ avail = -1 /\ avail' = IF Bits!isLiteral(instBlock[instIx])
                                     THEN instIx + 1 ELSE instIx
        /\ UNCHANGED <<instBlock, instIx, blocks>>
    BY <1>2 DEF Bits!Enqueue
  <2>2. avail' \in 0 .. QueueBlockSize
    BY <1>0, <2>1 DEF PackedInv, Bits!Index
  <2>3. Complete(instBlock[instIx])
    BY <2>1, OpenIsComplete DEF PackedInv
  <2>4. ASSUME NEW k \in Bits!Index, k < avail' PROVE Complete(instBlock[k])
    <3>1. k < instIx \/ k = instIx
      BY <1>0, <2>1, <2>4 DEF Bits!Index
    <3> QED BY <2>1, <2>3, <3>1 DEF PackedInv
  <2>5. Bits!TypeOK'
    BY <1>0, <2>1, <2>2 DEF Bits!TypeOK
  <2>6. avail' # -1
    BY <2>2
  <2> QED BY <2>1, <2>4, <2>5, <2>6 DEF PackedInv
<1>3. CASE \E l \in Literals : Bits!Literal(l)
  <2>1. PICK l \in Literals : Bits!Literal(l)
    BY <1>3
  <2> DEFINE new == Bits!setLiteral(instBlock[instIx], LiteralsIn(instBlock[instIx]), l)
  <2>2. /\ avail = -1 /\ instIx < QueueBlockSize - 1 /\ UNCHANGED <<avail, blocks>>
        /\ IF LiteralsIn(instBlock[instIx]) > 0 /\ Bits!literalCount(new) = 3
             THEN /\ instBlock' = [instBlock EXCEPT ![instIx] = new,
                     ![instIx + 1] = Bits!cleared(@)]
                  /\ instIx' = instIx + 1
             ELSE instBlock' = [instBlock EXCEPT ![instIx] = new] /\ instIx' = instIx
    BY <2>1 DEF Bits!Literal, Bits!Filling, Bits!addLiteral, LiteralsIn
  <2> HIDE DEF new
  <2>3. /\ LiteralsIn(instBlock[instIx]) \in 0 .. 2
        /\ new \in Bits!Inst /\ Bits!isLiteral(new)
           /\ Bits!literalCount(new) = LiteralsIn(instBlock[instIx]) + 1
        /\ Complete(new)
        /\ LiteralsIn(instBlock[instIx]) < 2 => Open(new)
    <3>1. instBlock[instIx] \in Bits!Inst /\ Open(instBlock[instIx]) /\ l \in 0 .. 255
      BY <1>0, <2>2, Assumed DEF PackedInv
    <3> QED BY <3>1, LiteralLemma DEF new
  <2>4. \A k \in Bits!Index : k < instIx => Complete(instBlock[k])
    BY <2>2 DEF PackedInv
  <2>5. CASE LiteralsIn(instBlock[instIx]) > 0 /\ Bits!literalCount(new) = 3
    <3>1. instIx + 1 \in Bits!Index /\ instIx + 1 # instIx
      BY <1>0, <2>2 DEF Bits!Index
    <3>2. instBlock' = [[instBlock EXCEPT ![instIx] = new]
                        EXCEPT ![instIx + 1] = Bits!cleared(instBlock[instIx + 1])]
      BY <1>0, <2>2, <2>5, <3>1
    <3>3. instBlock[instIx + 1] \in Bits!Inst
      BY <1>0, <3>1
    <3>4. /\ Bits!cleared(instBlock[instIx + 1]) \in Bits!Inst
             /\ Open(Bits!cleared(instBlock[instIx + 1]))
          /\ ~Bits!isLiteral(Bits!cleared(instBlock[instIx + 1]))
      BY <3>3, ClearedLemma
    <3>5. /\ instBlock' \in [Bits!Index -> Bits!Inst]
          /\ instBlock'[instIx + 1] = Bits!cleared(instBlock[instIx + 1])
             /\ instBlock'[instIx] = new
          /\ \A k \in Bits!Index : k # instIx
             /\ k # instIx + 1 => instBlock'[k] = instBlock[k]
      BY <1>0, <2>3, <3>1, <3>2, <3>4
    <3>6. instIx' = instIx + 1
      BY <2>2, <2>5
    <3>7. ASSUME NEW k \in Bits!Index, k < instIx + 1 PROVE Complete(instBlock'[k])
      <4>1. k < instIx \/ k = instIx
        BY <1>0, <3>7 DEF Bits!Index
      <4>2. k # instIx + 1
        BY <1>0, <3>7 DEF Bits!Index
      <4> QED BY <2>3, <2>4, <3>5, <4>1, <4>2
    <3>8. Bits!TypeOK'
      BY <1>0, <2>2, <3>1, <3>5, <3>6 DEF Bits!TypeOK
    <3>9. \A k \in Bits!Index : ~(k < -1)
      BY <1>0 DEF Bits!Index
    <3> QED BY <2>2, <3>4, <3>5, <3>6, <3>7, <3>8, <3>9 DEF PackedInv
  <2>6. CASE ~(LiteralsIn(instBlock[instIx]) > 0 /\ Bits!literalCount(new) = 3)
    <3>1. LiteralsIn(instBlock[instIx]) < 2
      BY <2>3, <2>6
    <3>2. instBlock' = [instBlock EXCEPT ![instIx] = new] /\ instIx' = instIx
      BY <2>2, <2>6
    <3>3. /\ instBlock' \in [Bits!Index -> Bits!Inst] /\ instBlock'[instIx] = new
          /\ \A k \in Bits!Index : k # instIx => instBlock'[k] = instBlock[k]
      BY <1>0, <2>3, <3>2
    <3>4. instIx < QueueBlockSize
      BY <1>0, <2>2 DEF Bits!Index
    <3>5. Bits!TypeOK'
      BY <1>0, <2>2, <3>2, <3>3 DEF Bits!TypeOK
    <3>6. \A k \in Bits!Index : ~(k < -1) /\ (k < instIx => k # instIx)
      BY <1>0 DEF Bits!Index
    <3> QED BY <2>2, <2>3, <2>4, <3>1, <3>2, <3>3, <3>4, <3>5, <3>6 DEF PackedInv
  <2> QED BY <2>5, <2>6
<1>4. CASE \E length \in InstLengths,
      distance \in Distances : Bits!Match(length, distance)
  <2>1. PICK length \in InstLengths, distance \in Distances : Bits!Match(length, distance)
    BY <1>4
  <2> DEFINE i   == IF Bits!isLiteral(instBlock[instIx]) THEN instIx + 1 ELSE instIx
             new == [mCode |-> length, mDistance |-> distance]
  <2>2. /\ avail = -1 /\ instIx < QueueBlockSize - 1 /\ UNCHANGED <<avail, blocks>>
        /\ instBlock' = [instBlock EXCEPT ![i] = new, ![i + 1] = Bits!cleared(@)]
        /\ instIx' = i + 1
    BY <2>1 DEF Bits!Match, Bits!Filling, Bits!addLenDist
  <2>3. new \in Bits!Inst /\ Complete(new)
    BY MatchLemma
  <2>4. i \in Bits!Index /\ i + 1 \in Bits!Index /\ i # i + 1
        /\ (i = instIx \/ (i = instIx + 1 /\ Bits!isLiteral(instBlock[instIx])))
    BY <1>0, <2>2 DEF Bits!Index
  <2> HIDE DEF i, new
  <2>5. instBlock' = [[instBlock EXCEPT ![i] = new]
                      EXCEPT ![i + 1] = Bits!cleared(instBlock[i + 1])]
    BY <1>0, <2>2, <2>4
  <2>6. instBlock[i + 1] \in Bits!Inst
    BY <1>0, <2>4
  <2>7. /\ Bits!cleared(instBlock[i + 1]) \in Bits!Inst
           /\ Open(Bits!cleared(instBlock[i + 1]))
        /\ ~Bits!isLiteral(Bits!cleared(instBlock[i + 1]))
    BY <2>6, ClearedLemma
  <2>8. /\ instBlock' \in [Bits!Index -> Bits!Inst]
        /\ instBlock'[i + 1] = Bits!cleared(instBlock[i + 1]) /\ instBlock'[i] = new
        /\ \A k \in Bits!Index : k # i /\ k # i + 1 => instBlock'[k] = instBlock[k]
    BY <1>0, <2>3, <2>4, <2>5, <2>7
  <2>9. Complete(instBlock[instIx])
        /\ \A k \in Bits!Index : k < instIx => Complete(instBlock[k])
    BY <2>2, OpenIsComplete DEF PackedInv
  <2>10. ASSUME NEW k \in Bits!Index, k < i + 1 PROVE Complete(instBlock'[k])
    <3>1. k # i + 1 /\ (k = i \/ k = instIx \/ k < instIx)
      BY <1>0, <2>4, <2>10 DEF Bits!Index
    <3> QED BY <2>3, <2>8, <2>9, <3>1
  <2>11. Bits!TypeOK'
    BY <1>0, <2>2, <2>4, <2>8 DEF Bits!TypeOK
  <2>12. \A k \in Bits!Index : ~(k < -1)
    BY <1>0 DEF Bits!Index
  <2> QED BY <2>2, <2>7, <2>8, <2>10, <2>11, <2>12 DEF PackedInv
<1>5. CASE UNCHANGED Bits!vars
  BY <1>5 DEF Bits!vars, Bits!TypeOK, PackedInv
<1> QED BY <1>1, <1>2, <1>3, <1>4, <1>5 DEF Bits!Next

\* Every reachable block is well typed and packed.
LEMMA PackedInvariant ==
  ASSUME FitsTheFields
  PROVE  QueueSpec => [](Bits!TypeOK /\ PackedInv)
<1>1. QueueInit => Bits!TypeOK
  <2>1. Bits!Init => instBlock \in [Bits!Index -> Bits!Inst]
    BY Assumed DEF Bits!Init
  <2> QED BY <2>1, Assumed DEF QueueInit, Bits!Init, Bits!TypeOK, Bits!Index
<1>2. QueueInit => PackedInv
  <2>1. \A k \in Bits!Index : ~(k < 0)
    BY DEF Bits!Index
  <2> QED BY <2>1 DEF QueueInit, Bits!Init, PackedInv
<1>3. /\ Bits!TypeOK /\ PackedInv /\ [QueueNext]_<<vars, instVars, view>>
        => Bits!TypeOK' /\ PackedInv'
  <2>1. [QueueNext]_<<vars, instVars, view>> => [Bits!Next]_(Bits!vars)
    BY DEF QueueNext, BytesStep, BitsStep, instVars, Bits!vars
  <2> QED BY <2>1, PackedStep
<1> QED BY <1>1, <1>2, <1>3, PTL DEF QueueSpec

-----------------------------------------------------------------------------
\* No field overflows its sixteen bits, and no instruction is written behind the one
\* after the block, for every size of a block and whatever it held before.
THEOREM FieldsFit ==
  ASSUME FitsTheFields
  PROVE  QueueSpec => []Bits!TypeOK
BY PackedInvariant, PTL

\* literal() and setLiteral() never meet a number of literals that they do not know.
THEOREM LiteralsCounted ==
  ASSUME FitsTheFields
  PROVE  QueueSpec => []LiteralIndexValid
<1>1. ASSUME NEW inst, Bits!isLiteral(inst), Complete(inst)
      PROVE  Bits!literalCount(inst) <= 3
  <2>1. PICK c \in 1 .. 3, l \in 0 .. 255 : inst.mCode = Code(c, l)
    BY <1>1, Zenon DEF Complete
  <2>2. Bits!literalCount(inst) = c
    BY <2>1, CodedLemma, Zenon
  <2>3. c <= 3
    OBVIOUS
  <2> QED BY <2>2, <2>3, Zenon
<1>2. ASSUME NEW inst, Bits!isLiteral(inst), Open(inst)
      PROVE  Bits!literalCount(inst) \in 1 .. 2
  <2>1. PICK c \in 1 .. 2, l \in 0 .. 255 : inst.mCode = Code(c, l)
    BY <1>2, Zenon DEF Open
  <2>2. c \in 1 .. 3
    OBVIOUS
  <2>3. Bits!literalCount(inst) = c
    BY <2>1, <2>2, CodedLemma, Zenon
  <2> QED BY <2>3, Zenon
<1>3. Bits!TypeOK /\ PackedInv => LiteralIndexValid
  <2> SUFFICES ASSUME Bits!TypeOK, PackedInv PROVE LiteralIndexValid
    OBVIOUS
  <2>1. ASSUME NEW k \in 0 .. avail - 1 PROVE k \in Bits!Index /\ k < avail
    BY <2>1, Assumed DEF Bits!TypeOK, Bits!Index
  <2>2. \A k \in 0 .. avail - 1 :
          Bits!isLiteral(instBlock[k]) => Bits!literalCount(instBlock[k]) <= 3
    BY <1>1, <2>1 DEF PackedInv
  <2>3. avail = -1
        => (Bits!isLiteral(instBlock[instIx]) => Bits!literalCount(instBlock[instIx]) \in 1 .. 2)
    BY <1>2, Zenon DEF PackedInv
  <2> QED BY <2>2, <2>3, Zenon DEF LiteralIndexValid, Bits!LiteralIndexValid
<1> QED BY <1>3, PackedInvariant, PTL

-----------------------------------------------------------------------------
(* The symbols *)

\* A set of numbers has a least one, by which follows what holds for all of them.
LEMMA LeastNumber ==
  ASSUME NEW T, T \subseteq Nat, T # {}
  PROVE  \E n \in T : \A k \in T : n <= k
<1> DEFINE R == {p \in Nat \X Nat : p[1] < p[2]}
<1>1. IsWellFoundedOn(R, Nat)
  BY NatLessThanWellFounded DEF OpToRel
<1>2. \E x \in T : \A y \in T : ~(<<y, x>> \in R)
  BY <1>1, WFMin
<1>3. \A k, n \in Nat : ~(<<k, n>> \in R) => n <= k
  OBVIOUS
<1> HIDE DEF R
<1> QED BY <1>2, <1>3

\* Does f say of each of the first instructions of b what the symbols up to it are?
Tells(f, b, n) ==
  f = [k \in 0 .. n |-> IF k = 0 THEN <<>> ELSE f[k - 1] \o Bits!Unpacked(b[k - 1])]

\* What the writer makes of the instructions of b.
Says(b) == CHOOSE f : Tells(f, b, QueueBlockSize)

\* There is such an f.
LEMMA TellsExists ==
  ASSUME NEW b
  PROVE  \A n \in Nat : \E f : Tells(f, b, n)
<1> DEFINE T == {n \in Nat : ~\E f : Tells(f, b, n)}
<1>1. ASSUME NEW n \in T, \A k \in T : n <= k PROVE FALSE
  <2>1. CASE n = 0
    <3> DEFINE g == [k \in 0 .. 0 |-> <<>>]
    <3>1. \A k \in 0 .. 0 : k = 0
      OBVIOUS
    <3>2. g = [k \in 0 .. 0 |-> IF k = 0 THEN <<>> ELSE g[k - 1] \o Bits!Unpacked(b[k - 1])]
      BY <3>1
    <3>3. Tells(g, b, 0)
      BY <3>2 DEF Tells
    <3> QED BY <2>1, <3>3
  <2>2. CASE n # 0
    <3>1. n \in Nat /\ n - 1 \in Nat /\ ~(n <= n - 1)
      BY <2>2
    <3>2. PICK f : Tells(f, b, n - 1)
      BY <1>1, <3>1
    <3>3. \A k \in 0 .. n - 1 :
            f[k] = IF k = 0 THEN <<>> ELSE f[k - 1] \o Bits!Unpacked(b[k - 1])
      BY <3>2 DEF Tells
    <3> DEFINE g == [k \in 0 .. n |->
                       IF k = n THEN f[n - 1] \o Bits!Unpacked(b[n - 1]) ELSE f[k]]
    <3>4. ASSUME NEW k \in 0 .. n
          PROVE  g[k] = IF k = 0 THEN <<>> ELSE g[k - 1] \o Bits!Unpacked(b[k - 1])
      <4>1. k = n \/ k \in 0 .. n - 1
        BY <3>1
      <4>2. k # 0 => k - 1 \in 0 .. n /\ k - 1 # n
        BY <3>1
      <4>3. k # 0 => g[k - 1] = f[k - 1]
        BY <4>2
      <4> QED BY <2>2, <3>1, <3>3, <4>1, <4>3
    <3>5. Tells(g, b, n)
      <4>1. g = [k \in 0 .. n |-> IF k = 0 THEN <<>> ELSE g[k - 1] \o Bits!Unpacked(b[k - 1])]
        BY <3>4
      <4> QED BY <4>1 DEF Tells
    <3> QED BY <3>5
  <2> QED BY <2>1, <2>2
<1>2. T = {}
  BY <1>1, LeastNumber
<1> QED BY <1>2

\* The equations of what the writer makes of a block.
LEMMA SaysLemma ==
  ASSUME QueueBlockSize \in Nat, NEW b
  PROVE  /\ Says(b)[0] = <<>>
         /\ \A k \in 1 .. QueueBlockSize :
              Says(b)[k] = Says(b)[k - 1] \o Bits!Unpacked(b[k - 1])
<1> DEFINE f == Says(b)
<1>1. Tells(f, b, QueueBlockSize)
  BY TellsExists DEF Says
<1> HIDE DEF f
<1>2. f = [k \in 0 .. QueueBlockSize |->
             IF k = 0 THEN <<>> ELSE f[k - 1] \o Bits!Unpacked(b[k - 1])]
  BY <1>1 DEF Tells
<1>3. f[0] = <<>>
  BY <1>2
<1>4. ASSUME NEW k \in 1 .. QueueBlockSize
      PROVE  f[k] = f[k - 1] \o Bits!Unpacked(b[k - 1])
  <2>1. k \in 0 .. QueueBlockSize /\ k # 0
    OBVIOUS
  <2> QED BY <1>2, <2>1
<1> QED BY <1>3, <1>4 DEF f

\* It depends on the instructions before only.
LEMMA SaysAgree ==
  ASSUME QueueBlockSize \in Nat, NEW b, NEW c, NEW m \in 0 .. QueueBlockSize,
         \A k \in 0 .. m - 1 : b[k] = c[k]
  PROVE  Says(b)[m] = Says(c)[m]
<1> DEFINE T == {n \in 0 .. m : Says(b)[n] # Says(c)[n]}
<1>1. ASSUME NEW n \in T, \A k \in T : n <= k PROVE FALSE
  <2>1. n # 0
    BY SaysLemma
  <2>2. n \in 1 .. QueueBlockSize /\ n - 1 \in 0 .. m - 1 /\ n - 1 \in 0 .. m
    BY <2>1
  <2>3. Says(b)[n - 1] = Says(c)[n - 1]
    BY <1>1, <2>2
  <2>4. b[n - 1] = c[n - 1]
    BY <2>2
  <2>5. /\ Says(b)[n] = Says(b)[n - 1] \o Bits!Unpacked(b[n - 1])
        /\ Says(c)[n] = Says(c)[n - 1] \o Bits!Unpacked(c[n - 1])
    BY <2>2, SaysLemma
  <2> QED BY <2>3, <2>4, <2>5
<1>2. T \subseteq Nat
  OBVIOUS
<1>3. T = {}
  <2> HIDE DEF T
  <2> QED BY <1>1, <1>2, LeastNumber
<1> QED BY <1>3

-----------------------------------------------------------------------------
\* What the decoder decodes, and the writer executes.
Symbol == {<<"literal", l>> : l \in Nat} \cup {<<"match", x, y>> : x \in Nat, y \in Nat}

\* The literals and the matches are symbols.
LEMMA SymbolLemma ==
  /\ \A x \in Nat : <<"literal", x>> \in Symbol
  /\ \A x, y \in Nat : <<"match", x, y>> \in Symbol
BY DEF Symbol

\* A literal.
Octet == 0 .. 255

\* The bytes of the literals in a field.
LEMMA ByteLemma ==
  /\ \A c \in 0 .. 3, l \in 0 .. 255 : Code(c, l) % 256 = l
  /\ \A d, e \in 0 .. 255 : (d + 256 * e) % 256 = d /\ (d + 256 * e) \div 256 = e
<1>1. ASSUME NEW c \in 0 .. 3, NEW l \in 0 .. 255 PROVE Code(c, l) % 256 = l
  <2>1. Code(c, l) = 256 * (128 + c) + l
    BY DEF Code, Bits!LITERAL
  <2>2. (256 * (128 + c) + l) % 256 = l
    OBVIOUS
  <2> QED BY <2>1, <2>2
<1>2. ASSUME NEW d \in 0 .. 255, NEW e \in 0 .. 255
      PROVE  (d + 256 * e) % 256 = d /\ (d + 256 * e) \div 256 = e
  OBVIOUS
<1> QED BY <1>1, <1>2

\* Two and three elements, one behind the others.
LEMMA TupleLemma ==
  ASSUME NEW S, NEW x \in S, NEW y \in S, NEW z \in S
  PROVE  <<x>> \o <<y>> = <<x, y>> /\ <<x, y>> \o <<z>> = <<x, y, z>>
<1>1. <<x>> \in Seq(S) /\ <<x, y>> \in Seq(S) /\ <<x, y, z>> \in Seq(S)
      /\ <<y>> \in Seq(S) /\ <<z>> \in Seq(S)
  OBVIOUS
<1>2. <<x>> \o <<y>> \in Seq(S) /\ Len(<<x>> \o <<y>>) = 2
      /\ \A i \in 1 .. 2 : (<<x>> \o <<y>>)[i] = <<x, y>>[i]
  BY <1>1, ConcatProperties
<1>3. <<x, y>> \o <<z>> \in Seq(S) /\ Len(<<x, y>> \o <<z>>) = 3
      /\ \A i \in 1 .. 3 : (<<x, y>> \o <<z>>)[i] = <<x, y, z>>[i]
  BY <1>1, ConcatProperties
<1>4. <<x>> \o <<y>> = <<x, y>>
  BY <1>1, <1>2, SeqEqual
<1>5. <<x, y>> \o <<z>> = <<x, y, z>>
  BY <1>1, <1>3, SeqEqual
<1> QED BY <1>4, <1>5

\* A word is no stop mark when it is complete.
LEMMA NoStop ==
  ASSUME NEW inst, Complete(inst)
  PROVE  ~Bits!isStop(inst)
<1>1. CASE Bits!isLiteral(inst)
  <2>1. PICK c \in 1 .. 3, l \in 0 .. 255 : inst.mCode = Code(c, l)
    BY <1>1, Zenon DEF Complete
  <2>2. Code(c, l) # Bits!STOP
    BY DEF Code, Bits!LITERAL, Bits!STOP
  <2> QED BY <2>1, <2>2 DEF Bits!isStop
<1>2. CASE ~Bits!isLiteral(inst)
  <2>1. Bits!STOP >= Bits!LITERAL
    BY DEF Bits!LITERAL, Bits!STOP
  <2> QED BY <1>2, <2>1 DEF Bits!isLiteral, Bits!isStop
<1> QED BY <1>1, <1>2

\* The symbols of an instruction, by the number of its literals.
LEMMA UnpackedLemma ==
  ASSUME NEW inst, NEW m \in Octet, NEW d \in Octet, NEW e \in Octet
  PROVE  /\ inst.mCode = Code(1, m) => Bits!Unpacked(inst) = << <<"literal", m>> >>
         /\ inst.mCode = Code(2, m) /\ inst.mDistance = d
              => Bits!Unpacked(inst) = << <<"literal", m>>, <<"literal", d>> >>
         /\ inst.mCode = Code(3, m) /\ inst.mDistance = d + 256 * e
              => Bits!Unpacked(inst)
                   = << <<"literal", m>>, <<"literal", d>>, <<"literal", e>> >>
<1>0. m \in 0 .. 255 /\ d \in 0 .. 255 /\ e \in 0 .. 255
  BY Zenon DEF Octet
<1> DEFINE lit(j) == <<"literal", Bits!literal(inst, j - 1)>>
<1>1. ASSUME NEW c \in 1 .. 3, inst.mCode = Code(c, m)
      PROVE  Bits!Unpacked(inst) = [j \in 1 .. c |-> lit(j)] /\ lit(1) = <<"literal", m>>
  <2>1. Bits!isLiteral(inst) /\ Bits!literalCount(inst) = c
    BY <1>0, <1>1, CodedLemma, Zenon
  <2>2. Bits!Unpacked(inst) = [j \in 1 .. c |-> lit(j)]
    BY <2>1, Zenon DEF Bits!Unpacked
  <2>3. c \in 0 .. 3 /\ 1 - 1 = 0
    OBVIOUS
  <2>4. Code(c, m) % 256 = m
    BY <1>0, <2>3, ByteLemma, ZenonT(40)
  <2>5. Bits!literal(inst, 0) = m
    BY <1>1, <2>4 DEF Bits!literal
  <2> QED BY <2>2, <2>3, <2>5, Zenon
<1>2. ASSUME inst.mDistance = d PROVE lit(2) = <<"literal", d>>
  <2>1. d % 256 = d /\ 2 - 1 = 1
    BY <1>0
  <2>2. Bits!literal(inst, 1) = d
    BY <1>2, <2>1 DEF Bits!literal
  <2> QED BY <2>1, <2>2, Zenon
<1>3. ASSUME inst.mDistance = d + 256 * e
      PROVE  lit(2) = <<"literal", d>> /\ lit(3) = <<"literal", e>>
  <2>1. (d + 256 * e) % 256 = d /\ (d + 256 * e) \div 256 = e /\ 2 - 1 = 1 /\ 3 - 1 = 2
    BY <1>0
  <2>2. Bits!literal(inst, 1) = d /\ Bits!literal(inst, 2) = e
    BY <1>3, <2>1 DEF Bits!literal
  <2> QED BY <2>1, <2>2, Zenon
<1>4. 1 \in 1 .. 3 /\ 2 \in 1 .. 3 /\ 3 \in 1 .. 3
  OBVIOUS
<1> HIDE DEF lit
<1>5. ASSUME inst.mCode = Code(1, m) PROVE Bits!Unpacked(inst) = << <<"literal", m>> >>
  <2>1. Bits!Unpacked(inst) = [j \in 1 .. 1 |-> lit(j)] /\ lit(1) = <<"literal", m>>
    BY <1>1, <1>4, <1>5, Zenon
  <2>2. [j \in 1 .. 1 |-> lit(j)] = << lit(1) >>
    OBVIOUS
  <2> QED BY <2>1, <2>2, Zenon
<1>6. ASSUME inst.mCode = Code(2, m), inst.mDistance = d
      PROVE  Bits!Unpacked(inst) = << <<"literal", m>>, <<"literal", d>> >>
  <2>1. Bits!Unpacked(inst) = [j \in 1 .. 2 |-> lit(j)] /\ lit(1) = <<"literal", m>>
    BY <1>1, <1>4, <1>6, Zenon
  <2>2. [j \in 1 .. 2 |-> lit(j)] = << lit(1), lit(2) >>
    OBVIOUS
  <2> QED BY <1>2, <1>6, <2>1, <2>2, Zenon
<1>7. ASSUME inst.mCode = Code(3, m), inst.mDistance = d + 256 * e
      PROVE  Bits!Unpacked(inst)
               = << <<"literal", m>>, <<"literal", d>>, <<"literal", e>> >>
  <2>1. Bits!Unpacked(inst) = [j \in 1 .. 3 |-> lit(j)] /\ lit(1) = <<"literal", m>>
    BY <1>1, <1>4, <1>7, Zenon
  <2>2. [j \in 1 .. 3 |-> lit(j)] = << lit(1), lit(2), lit(3) >>
    OBVIOUS
  <2> QED BY <1>3, <1>7, <2>1, <2>2, Zenon
<1> QED BY <1>5, <1>6, <1>7

\* The same for a match of the fields by a prover that knows no numbers.
Pair(d, e) == d + 256 * e

LEMMA UnpackedThree ==
  ASSUME NEW inst, NEW m \in Octet, NEW d \in Octet, NEW e \in Octet,
         inst.mCode = Code(3, m), inst.mDistance = Pair(d, e)
  PROVE  Bits!Unpacked(inst) = << <<"literal", m>>, <<"literal", d>>, <<"literal", e>> >>
<1>1. inst.mDistance = d + 256 * e
  BY Zenon DEF Pair
<1> QED BY <1>1, UnpackedLemma, ZenonT(40)

LEMMA UnpackedTwo ==
  ASSUME NEW inst, NEW m \in Octet, NEW d \in Octet,
         inst.mCode = Code(2, m), inst.mDistance = d
  PROVE  Bits!Unpacked(inst) = << <<"literal", m>>, <<"literal", d>> >>
BY UnpackedLemma, ZenonT(40)

\* What an open instruction says so far.
Begun(inst) == IF Bits!isLiteral(inst) THEN Bits!Unpacked(inst) ELSE <<>>

\* One more literal is one more symbol.
LEMMA LiteralUnpacked ==
  ASSUME NEW inst \in Bits!Inst, Open(inst), NEW l \in Octet, NEW new,
         new = Bits!setLiteral(inst, LiteralsIn(inst), l)
  PROVE  /\ Bits!Unpacked(new) = Begun(inst) \o << <<"literal", l>> >>
         /\ Begun(inst) \in Seq(Symbol) /\ Bits!Unpacked(new) \in Seq(Symbol)
<1> DEFINE L(x) == <<"literal", x>>
<1>0. \A x \in Octet : L(x) \in Symbol
  <2>1. \A x \in Octet : x \in Nat
    BY DEF Octet
  <2> QED BY <2>1, SymbolLemma, Zenon
<1>9. \A x \in Octet : x \in 0 .. 255
  BY Zenon DEF Octet
<1>1. CASE ~Bits!isLiteral(inst)
  <2>1. new.mCode = Code(1, l)
    <3>1. LiteralsIn(inst) = 0
      BY <1>1, Zenon DEF LiteralsIn
    <3>2. new = [inst EXCEPT !.mCode = Bits!LITERAL + 256 + l]
      BY <3>1 DEF Bits!setLiteral
    <3>3. Bits!LITERAL + 256 + l = Code(1, l) /\ Code(1, l) \in Word
      BY <1>9, CodeLemma DEF Code, Bits!LITERAL
    <3>4. new = [mCode |-> Code(1, l), mDistance |-> inst.mDistance]
      BY <3>2, <3>3, FieldsLemma, ZenonT(40)
    <3> QED BY <3>4
  <2>2. Bits!Unpacked(new) = << L(l) >>
    BY <2>1, UnpackedLemma, Zenon
  <2>3. Begun(inst) = <<>>
    BY <1>1, Zenon DEF Begun
  <2> HIDE DEF L
  <2>4. << L(l) >> \in Seq(Symbol) /\ <<>> \o << L(l) >> = << L(l) >> /\ <<>> \in Seq(Symbol)
    BY <1>0
  <2> QED BY <2>2, <2>3, <2>4 DEF L
<1>2. CASE Bits!isLiteral(inst)
  <2>1. PICK c \in 1 .. 2, m \in Octet :
          inst.mCode = Code(c, m) /\ (c = 2 => inst.mDistance \in Octet)
    BY <1>2, Zenon DEF Open, Octet
  <2>0. m \in 0 .. 255
    BY <1>9, Zenon
  <2>2. c \in 0 .. 3 /\ c \in 1 .. 3 /\ (c = 1 \/ c = 2) /\ 2 \in 0 .. 3 /\ 3 \in 0 .. 3
    OBVIOUS
  <2>3. LiteralsIn(inst) = c
    <3>1. Bits!literalCount(inst) = c
      BY <2>0, <2>1, <2>2, CodedLemma, ZenonT(40)
    <3> QED BY <1>2, <3>1, Zenon DEF LiteralsIn
  <2>4. ASSUME NEW n \in 0 .. 3
        PROVE  Bits!WithCount(inst.mCode, n) = Code(n, m)
    <3>1. Bits!WithCount(Code(c, m), n) = Code(n, m)
      BY <2>0, <2>2, CodeLemma, ZenonT(40)
    <3> QED BY <2>1, <3>1, Zenon
  <2>5. Begun(inst) = Bits!Unpacked(inst)
    BY <1>2, Zenon DEF Begun
  <2>6. CASE c = 1
    <3>1. new = [mCode |-> Bits!WithCount(inst.mCode, 2), mDistance |-> l]
      BY <2>3, <2>6 DEF Bits!setLiteral
    <3>2. new.mCode = Code(2, m) /\ new.mDistance = l
      BY <2>2, <2>4, <3>1
    <3>3. Bits!Unpacked(new) = << L(m), L(l) >>
      BY <3>2, UnpackedLemma, Zenon
    <3>4. Bits!Unpacked(inst) = << L(m) >>
      BY <2>1, <2>6, UnpackedLemma, Zenon
    <3> HIDE DEF L
    <3>5. << L(m) >> \o << L(l) >> = << L(m), L(l) >>
      BY <1>0, TupleLemma, Zenon
    <3>6. << L(m) >> \in Seq(Symbol) /\ << L(m), L(l) >> \in Seq(Symbol)
      BY <1>0
    <3> QED BY <2>5, <3>3, <3>4, <3>5, <3>6 DEF L
  <2>7. CASE c = 2
    <3> DEFINE d == inst.mDistance
    <3>1. new = [mCode |-> Bits!WithCount(inst.mCode, 3), mDistance |-> d + 256 * l]
      BY <2>3, <2>7 DEF Bits!setLiteral
    <3>2. new.mCode = Code(3, m) /\ new.mDistance = Pair(d, l) /\ d \in Octet
      BY <2>1, <2>2, <2>4, <2>7, <3>1 DEF Pair
    <3>3. inst.mCode = Code(2, m) /\ inst.mDistance = d
      BY <2>1, <2>7, Zenon
    <3> HIDE DEF d
    <3>7. Bits!Unpacked(new) = << L(m), L(d), L(l) >>
      BY <3>2, UnpackedThree, Zenon
    <3>4. Bits!Unpacked(inst) = << L(m), L(d) >>
      BY <3>2, <3>3, UnpackedTwo, Zenon
    <3> HIDE DEF L
    <3>5. << L(m), L(d) >> \o << L(l) >> = << L(m), L(d), L(l) >>
      BY <1>0, <3>2, TupleLemma, Zenon
    <3>6. << L(m), L(d) >> \in Seq(Symbol) /\ << L(m), L(d), L(l) >> \in Seq(Symbol)
      BY <1>0, <3>2
    <3> QED BY <2>5, <3>4, <3>5, <3>6, <3>7 DEF L
  <2> QED BY <2>2, <2>6, <2>7, Zenon
<1> QED BY <1>1, <1>2

-----------------------------------------------------------------------------
\* What the writer makes of a complete instruction are symbols.
LEMMA UnpackedSymbols ==
  ASSUME NEW inst \in Bits!Inst, Complete(inst)
  PROVE  Bits!Unpacked(inst) \in Seq(Symbol)
<1>1. inst.mCode \in Nat /\ inst.mDistance \in Nat
  <2>1. \A x \in Word : x \in Nat
    BY DEF Word
  <2> QED BY <2>1, FieldsLemma
<1>2. CASE Bits!isLiteral(inst)
  <2>1. PICK c \in 1 .. 3, l \in 0 .. 255 : inst.mCode = Code(c, l)
    BY <1>2, Zenon DEF Complete
  <2>2. Bits!literalCount(inst) = c
    BY <2>1, CodedLemma, Zenon
  <2> DEFINE lit(j) == <<"literal", Bits!literal(inst, j - 1)>>
  <2>3. Bits!Unpacked(inst) = [j \in 1 .. c |-> lit(j)]
    BY <1>2, <2>2, Zenon DEF Bits!Unpacked
  <2>4. \A j \in 1 .. c : Bits!literal(inst, j - 1) \in Nat
    <3>1. \A x \in Nat : x % 256 \in Nat /\ x \div 256 \in Nat
      OBVIOUS
    <3> QED BY <1>1, <3>1 DEF Bits!literal
  <2>5. \A j \in 1 .. c : lit(j) \in Symbol
    BY <2>4, SymbolLemma, Zenon
  <2>6. c \in Nat
    OBVIOUS
  <2> HIDE DEF lit
  <2>7. [j \in 1 .. c |-> lit(j)] \in Seq(Symbol)
    BY <2>5, <2>6, IsASeq
  <2> QED BY <2>3, <2>7
<1>3. CASE ~Bits!isLiteral(inst)
  <2>1. Bits!Unpacked(inst) = << <<"match", inst.mCode, inst.mDistance>> >>
    BY <1>3, Zenon DEF Bits!Unpacked
  <2> DEFINE m == <<"match", inst.mCode, inst.mDistance>>
  <2>2. m \in Symbol
    BY <1>1, SymbolLemma, Zenon
  <2> HIDE DEF m
  <2>3. << m >> \in Seq(Symbol)
    BY <2>2
  <2> QED BY <2>1, <2>3 DEF m
<1> QED BY <1>2, <1>3

\* What is made of complete instructions are symbols.
LEMMA SaysSymbols ==
  ASSUME QueueBlockSize \in Nat, NEW b, NEW m \in 0 .. QueueBlockSize,
         \A k \in 0 .. m - 1 : b[k] \in Bits!Inst /\ Complete(b[k])
  PROVE  Says(b)[m] \in Seq(Symbol)
<1> DEFINE T == {n \in 0 .. m : Says(b)[n] \notin Seq(Symbol)}
<1>1. ASSUME NEW n \in T, \A k \in T : n <= k PROVE FALSE
  <2>1. n # 0
    BY SaysLemma, EmptySeq
  <2>2. n \in 1 .. QueueBlockSize /\ n - 1 \in 0 .. m - 1 /\ n - 1 \in 0 .. m
    BY <2>1
  <2>3. Says(b)[n - 1] \in Seq(Symbol)
    BY <1>1, <2>2
  <2>4. Bits!Unpacked(b[n - 1]) \in Seq(Symbol)
    BY <2>2, UnpackedSymbols
  <2>5. Says(b)[n] = Says(b)[n - 1] \o Bits!Unpacked(b[n - 1])
    BY <2>2, SaysLemma
  <2> QED BY <2>3, <2>4, <2>5, ConcatProperties
<1>2. T \subseteq Nat
  OBVIOUS
<1>3. T = {}
  <2> HIDE DEF T
  <2> QED BY <1>1, <1>2, LeastNumber
<1> QED BY <1>3

\* The symbols decoded are those of the complete instructions and of the one that is packed.
SaysInv ==
  /\ avail = -1 =>
       symbols = Says(instBlock)[instIx] \o Begun(instBlock[instIx])
  /\ avail > 0 => symbols = Says(instBlock)[avail]

\* What the instructions before ix, and the one that is packed, say.
LEMMA SaidLemma ==
  ASSUME FitsTheFields, Bits!TypeOK, PackedInv, avail = -1
  PROVE  /\ Says(instBlock)[instIx] \in Seq(Symbol)
         /\ Begun(instBlock[instIx]) \in Seq(Symbol)
<1>1. /\ instBlock \in [Bits!Index -> Bits!Inst] /\ instIx \in Bits!Index
      /\ QueueBlockSize \in Nat
  BY Assumed DEF Bits!TypeOK
<1>2. \A k \in 0 .. instIx - 1 : k \in Bits!Index /\ k < instIx
  BY <1>1 DEF Bits!Index
<1>3. Says(instBlock)[instIx] \in Seq(Symbol)
  <2>1. \A k \in 0 .. instIx - 1 : instBlock[k] \in Bits!Inst /\ Complete(instBlock[k])
    BY <1>1, <1>2 DEF PackedInv
  <2>2. instIx \in 0 .. QueueBlockSize
    BY <1>1 DEF Bits!Index
  <2> QED BY <1>1, <2>1, <2>2, SaysSymbols
<1>4. Begun(instBlock[instIx]) \in Seq(Symbol)
  <2>1. instBlock[instIx] \in Bits!Inst /\ Complete(instBlock[instIx])
    BY <1>1, OpenIsComplete DEF PackedInv
  <2>2. Bits!Unpacked(instBlock[instIx]) \in Seq(Symbol)
    BY <2>1, UnpackedSymbols
  <2> QED BY <2>2, EmptySeq DEF Begun
<1> QED BY <1>3, <1>4

\* One more symbol behind what is said, whether the instruction before it was open or not.
LEMMA OneMore ==
  ASSUME NEW s \in Seq(Symbol), NEW t \in Seq(Symbol), NEW x \in Symbol
  PROVE  /\ s \o (t \o <<x>>) = Append(s \o t, x)
         /\ (s \o t) \o <<x>> = Append(s \o t, x)
<1>1. <<x>> \in Seq(Symbol) /\ s \o t \in Seq(Symbol)
  BY ConcatProperties
<1>2. s \o (t \o <<x>>) = (s \o t) \o <<x>>
  BY <1>1, ConcatAssociative
<1>3. Append(s \o t, x) = (s \o t) \o <<x>>
  BY <1>1, AppendIsConcat
<1> QED BY <1>2, <1>3

\* SaysInv, action by action.
LEMMA SaysStep ==
  ASSUME FitsTheFields, Bits!TypeOK, PackedInv, SaysInv, [Bits!Next]_(Bits!vars)
  PROVE  SaysInv'
<1>0. /\ instBlock \in [Bits!Index -> Bits!Inst] /\ instIx \in Bits!Index
      /\ avail \in -1 .. QueueBlockSize
      /\ QueueBlockSize \in Nat \ {0} /\ QueueBlockSize \in Nat
  BY Assumed DEF Bits!TypeOK
<1> DEFINE old == instBlock[instIx]
<1>1. CASE Bits!StartBlock
  <2>1. /\ instBlock' = [instBlock EXCEPT ![0] = Bits!cleared(instBlock[0])]
        /\ instIx' = 0 /\ avail' = -1 /\ symbols' = <<>>
    BY <1>1 DEF Bits!StartBlock
  <2>2. 0 \in Bits!Index /\ instBlock[0] \in Bits!Inst
    BY <1>0 DEF Bits!Index
  <2>3. instBlock'[0] = Bits!cleared(instBlock[0])
    BY <1>0, <2>1, <2>2
  <2>4. Begun(instBlock'[0]) = <<>>
    BY <2>2, <2>3, ClearedLemma DEF Begun
  <2>5. Says(instBlock')[0] = <<>> /\ <<>> \o <<>> = <<>>
    <3>1. \A b : Says(b)[0] = <<>>
      BY <1>0, SaysLemma, Zenon
    <3>2. <<>> \o <<>> = <<>>
      BY EmptySeq, ConcatEmptySeq
    <3> QED BY <3>1, <3>2, Zenon
  <2>6. ~(avail' > 0)
    BY <2>1
  <2> QED BY <2>1, <2>4, <2>5, <2>6 DEF SaysInv
<1>2. CASE Bits!Enqueue
  <2>1. /\ avail = -1 /\ avail' = IF Bits!isLiteral(old) THEN instIx + 1 ELSE instIx
        /\ instBlock' = instBlock /\ instIx' = instIx /\ symbols' = symbols
    BY <1>2 DEF Bits!Enqueue
  <2>2. symbols = Says(instBlock)[instIx] \o Begun(old)
    BY <2>1 DEF SaysInv
  <2>3. avail' # -1
    BY <1>0, <2>1 DEF Bits!Index
  <2>4. CASE Bits!isLiteral(old)
    <3>1. instIx + 1 \in 1 .. QueueBlockSize /\ (instIx + 1) - 1 = instIx
      BY <1>0, <2>1, <2>4 DEF PackedInv, Bits!Index
    <3>2. Says(instBlock)[instIx + 1]
            = Says(instBlock)[(instIx + 1) - 1] \o Bits!Unpacked(instBlock[(instIx + 1) - 1])
      BY <1>0, <3>1, SaysLemma
    <3>3. Says(instBlock)[instIx + 1] = Says(instBlock)[instIx] \o Bits!Unpacked(old)
      BY <3>1, <3>2
    <3> QED BY <2>1, <2>2, <2>3, <2>4, <3>3 DEF SaysInv, Begun
  <2>5. CASE ~Bits!isLiteral(old)
    <3>1. Says(instBlock)[instIx] \o Begun(old) = Says(instBlock)[instIx]
      BY <2>1, <2>5, SaidLemma, ConcatEmptySeq DEF Begun
    <3> QED BY <2>1, <2>2, <2>3, <2>5, <3>1 DEF SaysInv
  <2> QED BY <2>4, <2>5
<1>3. ASSUME NEW l \in Literals, Bits!Literal(l) PROVE SaysInv'
  <2> DEFINE new == Bits!setLiteral(old, LiteralsIn(old), l)
             x   == <<"literal", l>>
  <2>1. /\ avail = -1 /\ instIx < QueueBlockSize - 1 /\ avail' = avail
        /\ symbols' = Append(symbols, x)
        /\ IF LiteralsIn(old) > 0 /\ Bits!literalCount(new) = 3
             THEN /\ instBlock' = [instBlock EXCEPT ![instIx] = new,
                                                   ![instIx + 1] = Bits!cleared(@)]
                  /\ instIx' = instIx + 1
             ELSE instBlock' = [instBlock EXCEPT ![instIx] = new] /\ instIx' = instIx
    BY <1>3 DEF Bits!Literal, Bits!Filling, Bits!addLiteral, LiteralsIn
  <2>2. old \in Bits!Inst /\ Open(old) /\ l \in 0 .. 255
    <3>1. l \in 0 .. 255
      BY Assumed, Zenon
    <3> QED BY <1>0, <2>1, <3>1 DEF PackedInv
  <2>3. Bits!isLiteral(new) /\ Bits!Unpacked(new) = Begun(old) \o << x >>
    <3>1. Bits!isLiteral(new)
      BY <2>2, LiteralLemma, Zenon
    <3>2. Bits!Unpacked(new) = Begun(old) \o << x >>
      BY <2>2, LiteralUnpacked, Zenon DEF Octet
    <3> QED BY <3>1, <3>2
  <2>4. symbols = Says(instBlock)[instIx] \o Begun(old)
    BY <2>1 DEF SaysInv
  <2>5. x \in Symbol
    <3>1. l \in Nat
      BY <2>2
    <3> QED BY <3>1, SymbolLemma, Zenon
  <2> HIDE DEF new, x
  <2>6. Says(instBlock)[instIx] \o Bits!Unpacked(new) = symbols'
    <3>1. Says(instBlock)[instIx] \in Seq(Symbol) /\ Begun(old) \in Seq(Symbol)
      BY <2>1, SaidLemma
    <3> QED BY <2>1, <2>3, <2>4, <2>5, <3>1, OneMore, ZenonT(40)
  <2>7. instIx \in 0 .. QueueBlockSize /\ instIx + 1 \in Bits!Index /\ instIx + 1 # instIx
        /\ instIx + 1 \in 1 .. QueueBlockSize /\ (instIx + 1) - 1 = instIx
        /\ \A k \in 0 .. instIx - 1 : k \in Bits!Index /\ k # instIx /\ k # instIx + 1
    BY <1>0, <2>1 DEF Bits!Index
  <2>8. instBlock'[instIx] = new /\ \A k \in 0 .. instIx - 1 : instBlock'[k] = instBlock[k]
    BY <1>0, <2>1, <2>7
  <2>9. Says(instBlock')[instIx] = Says(instBlock)[instIx]
    BY <1>0, <2>7, <2>8, SaysAgree
  <2>10. ~(avail' > 0)
    BY <2>1
  <2>11. CASE LiteralsIn(old) > 0 /\ Bits!literalCount(new) = 3
    <3>1. Begun(instBlock'[instIx + 1]) = <<>>
      <4>1. instBlock[instIx + 1] \in Bits!Inst
        BY <1>0, <2>7
      <4>2. instBlock'[instIx + 1] = Bits!cleared(instBlock[instIx + 1])
        BY <1>0, <2>1, <2>7, <2>11
      <4> QED BY <4>1, <4>2, ClearedLemma DEF Begun
    <3>2. Says(instBlock')[instIx + 1]
            = Says(instBlock')[(instIx + 1) - 1] \o Bits!Unpacked(instBlock'[(instIx + 1) - 1])
      BY <1>0, <2>7, SaysLemma
    <3>3. Says(instBlock')[instIx + 1] = symbols'
      BY <2>6, <2>7, <2>8, <2>9, <3>2
    <3>4. symbols' \o <<>> = symbols'
      <4>1. symbols' \in Seq(Symbol)
        BY <2>1, <2>3, <2>4, <2>5, SaidLemma, ConcatProperties, AppendProperties
      <4> QED BY <4>1, ConcatEmptySeq
    <3> QED BY <2>1, <2>10, <2>11, <3>1, <3>3, <3>4 DEF SaysInv
  <2>12. CASE ~(LiteralsIn(old) > 0 /\ Bits!literalCount(new) = 3)
    <3>1. Begun(instBlock'[instIx]) = Bits!Unpacked(new)
      BY <2>3, <2>8 DEF Begun
    <3> QED BY <2>1, <2>6, <2>9, <2>10, <2>12, <3>1 DEF SaysInv
  <2> QED BY <2>11, <2>12
<1>4. ASSUME NEW length \in InstLengths, NEW distance \in Distances,
             Bits!Match(length, distance)
      PROVE  SaysInv'
  <2> DEFINE i   == IF Bits!isLiteral(old) THEN instIx + 1 ELSE instIx
             new == [mCode |-> length, mDistance |-> distance]
             x   == <<"match", length, distance>>
  <2>1. /\ avail = -1 /\ instIx < QueueBlockSize - 1 /\ avail' = avail
        /\ symbols' = Append(symbols, x)
        /\ instBlock' = [instBlock EXCEPT ![i] = new, ![i + 1] = Bits!cleared(@)]
        /\ instIx' = i + 1
    BY <1>4 DEF Bits!Match, Bits!Filling, Bits!addLenDist
  <2>2. symbols = Says(instBlock)[instIx] \o Begun(old)
    BY <2>1 DEF SaysInv
  <2>3. new \in Bits!Inst /\ length \in Nat /\ distance \in Nat /\ ~Bits!isLiteral(new)
    <3>1. InstLengths \subseteq 0 .. Bits!LITERAL - 1 /\ Distances \subseteq Word
      BY Zenon DEF FitsTheFields
    <3>2. length \in Nat /\ distance \in Nat /\ ~(length >= Bits!LITERAL)
      <4>1. \A w \in Word : w \in Nat
        BY DEF Word
      <4>2. \A w \in 0 .. Bits!LITERAL - 1 : w \in Nat /\ ~(w >= Bits!LITERAL)
        BY DEF Bits!LITERAL
      <4>3. length \in 0 .. Bits!LITERAL - 1 /\ distance \in Word
        BY <3>1
      <4> QED BY <4>1, <4>2, <4>3, ZenonT(40)
    <3>3. new.mCode = length
      OBVIOUS
    <3> QED BY <3>2, <3>3, MatchLemma DEF Bits!isLiteral
  <2>4. x \in Symbol
    BY <2>3, SymbolLemma, Zenon
  <2>5. Bits!Unpacked(new) = << x >>
    BY <2>3 DEF Bits!Unpacked
  <2>6. /\ i \in Bits!Index /\ i + 1 \in Bits!Index /\ i # i + 1
        /\ i \in 0 .. QueueBlockSize /\ i + 1 \in 1 .. QueueBlockSize /\ (i + 1) - 1 = i
        /\ instIx \in 0 .. QueueBlockSize
        /\ \A k \in 0 .. i - 1 : k \in Bits!Index /\ k # i /\ k # i + 1
    BY <1>0, <2>1 DEF Bits!Index
  <2>7. Says(instBlock)[i] = symbols
    <3>1. CASE Bits!isLiteral(old)
      <4>1. i = instIx + 1 /\ i \in 1 .. QueueBlockSize /\ i - 1 = instIx
        BY <1>0, <2>6, <3>1 DEF Bits!Index
      <4>2. Says(instBlock)[i] = Says(instBlock)[i - 1] \o Bits!Unpacked(instBlock[i - 1])
        BY <1>0, <4>1, SaysLemma
      <4> QED BY <2>2, <3>1, <4>1, <4>2 DEF Begun
    <3>2. CASE ~Bits!isLiteral(old)
      <4>1. Says(instBlock)[instIx] \o Begun(old) = Says(instBlock)[instIx]
        BY <2>1, <3>2, SaidLemma, ConcatEmptySeq DEF Begun
      <4> QED BY <2>2, <3>2, <4>1
    <3> QED BY <3>1, <3>2
  <2>8. symbols \in Seq(Symbol)
    BY <2>1, <2>2, SaidLemma, ConcatProperties
  <2> HIDE DEF i, new, x
  <2>9. /\ instBlock'[i] = new /\ instBlock'[i + 1] = Bits!cleared(instBlock[i + 1])
        /\ \A k \in 0 .. i - 1 : instBlock'[k] = instBlock[k]
    BY <1>0, <2>1, <2>6
  <2>10. Says(instBlock')[i] = Says(instBlock)[i]
    BY <1>0, <2>6, <2>9, SaysAgree
  <2>11. Says(instBlock')[i + 1]
           = Says(instBlock')[(i + 1) - 1] \o Bits!Unpacked(instBlock'[(i + 1) - 1])
    BY <1>0, <2>6, SaysLemma
  <2>12. Says(instBlock')[i + 1] = symbols \o << x >>
    BY <2>5, <2>6, <2>7, <2>9, <2>10, <2>11
  <2>13. symbols' = symbols \o << x >> /\ symbols' \in Seq(Symbol)
    BY <2>1, <2>4, <2>8, AppendIsConcat, AppendProperties
  <2>14. Begun(instBlock'[i + 1]) = <<>>
    <3>1. instBlock[i + 1] \in Bits!Inst
      BY <1>0, <2>6
    <3> QED BY <2>9, <3>1, ClearedLemma DEF Begun
  <2>15. symbols' \o <<>> = symbols'
    BY <2>13, ConcatEmptySeq
  <2>16. ~(avail' > 0)
    BY <2>1
  <2> QED BY <2>1, <2>12, <2>13, <2>14, <2>15, <2>16 DEF SaysInv
<1>5. CASE UNCHANGED Bits!vars
  BY <1>5 DEF Bits!vars, SaysInv
<1> QED BY <1>1, <1>2, <1>3, <1>4, <1>5 DEF Bits!Next

\* The writer executes exactly the symbols that the decoder packed, in their order, and does
\* not take the block for a stop block: for blocks of every size, and whatever an earlier
\* use has left in the block.
THEOREM SymbolsSaid ==
  ASSUME FitsTheFields
  PROVE  QueueSpec => []BlockSaysTheSymbols
<1>1. QueueInit => SaysInv
  <2>1. ~(0 > 0) /\ ~(0 = -1)
    OBVIOUS
  <2> QED BY <2>1 DEF QueueInit, Bits!Init, SaysInv
<1>2. /\ Bits!TypeOK /\ PackedInv /\ SaysInv /\ [QueueNext]_<<vars, instVars, view>>
        => SaysInv'
  <2>1. [QueueNext]_<<vars, instVars, view>> => [Bits!Next]_(Bits!vars)
    BY DEF QueueNext, BytesStep, BitsStep, instVars, Bits!vars
  <2> QED BY <2>1, SaysStep
<1>3. Bits!TypeOK /\ PackedInv /\ SaysInv => BlockSaysTheSymbols
  <2> SUFFICES ASSUME Bits!TypeOK, PackedInv, SaysInv, avail > 0
               PROVE  Bits!Written = symbols /\ ~Bits!isStop(instBlock[0])
    BY DEF BlockSaysTheSymbols, Bits!BlockSaysTheSymbols
  <2>1. QueueBlockSize \in Nat /\ 0 \in Bits!Index
    BY Assumed DEF Bits!Index
  <2>2. Complete(instBlock[0])
    BY <2>1 DEF PackedInv
  <2>3. Bits!Written = Says(instBlock)[avail]
    BY DEF Bits!Written, Says, Tells, Bits!Index
  <2> QED BY <2>2, <2>3, NoStop DEF SaysInv
<1> QED BY <1>1, <1>2, <1>3, PackedInvariant, PTL DEF QueueSpec

=============================================================================
