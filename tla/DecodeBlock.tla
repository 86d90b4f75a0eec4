----------------------------- MODULE DecodeBlock -----------------------------
(***************************************************************************)
(* How DeflateDecoderMT counts bytes: streamingDecode() and decodeBlock()  *)
(* turn the symbols of the compressed data into the instructions of queue  *)
(* blocks, decodeBlock() in portions of at most ChunkSize and cutting      *)
(* matches at their end.  The data is abstracted to the positions of its   *)
(* bytes, and an instruction to the positions it will write.  The queue    *)
(* and the writer, which execute the blocks in order, are those of         *)
(* DeflateDecoderMT; what was enqueued is here what comes out.             *)
(***************************************************************************)
EXTENDS Integers, Sequences

CONSTANTS
  QueueBlockSize,  \* 8192
  ChunkSize,       \* 1 << 18
  Lengths,         \* the lengths of matches
  Sizes,           \* bound: the sizes of the data, and of a stored block
  Expected,        \* the values of bytesExpected, 0: not set
  Formats,         \* the deflate blocks in the data: "stored", "coded"
  Careful          \* bytesExpected is set only for coded blocks, to no less than there is

ASSUME BlockAssumption ==
  /\ QueueBlockSize \in Nat /\ QueueBlockSize >= 2
  /\ ChunkSize \in Nat \ {0}
  /\ Lengths \subseteq Nat \ {0}
  /\ Sizes \subseteq Nat /\ Expected \subseteq Nat
  /\ Formats \subseteq {"stored", "coded"} /\ Formats # {}
  /\ Careful \in BOOLEAN

VARIABLES
  pc,               \* "idle", "portion" in stream(), "alloc" and "fill" in the loops
  mBytesExpected, mBytesDecoded,
  mPendingLen,      \* what is left of a cut match
  pendingNext,      \* the position behind it
  mNeedReadTable, mIsFinalBlock, mStoredMode, mStoredBlockSize,
  blockSize,        \* the bytes decodeBlock() may still decode
  keepGoing,
  ix,               \* the complete instructions of the queue block
  block,            \* the positions they will write
  literal,          \* those of the literals collected in the instruction behind them
  out,              \* the positions in the blocks enqueued so far
  size,             \* the bytes the compressed data stands for
  next,             \* the position of the next byte it yields
  storedEnd,        \* the position behind the stored block under way
  result

tableVars == <<mNeedReadTable, mIsFinalBlock, mStoredMode, mStoredBlockSize, storedEnd>>
callVars == <<mBytesExpected, size>>
pendingVars == <<mPendingLen, pendingNext>>
blockVars == <<ix, block, literal>>
vars == <<pc, callVars, mBytesDecoded, pendingVars, tableVars, blockSize, keepGoing,
          blockVars, out, next, result>>

NoData == 0     \* the "position" of a byte that is not part of the data

TypeOK ==
  /\ pc \in {"idle", "portion", "alloc", "fill"}
  /\ mBytesExpected \in Nat /\ mBytesDecoded \in Nat
  /\ mPendingLen \in Nat /\ pendingNext \in Nat
  /\ mNeedReadTable \in BOOLEAN /\ mIsFinalBlock \in BOOLEAN
  /\ mStoredMode \in BOOLEAN /\ mStoredBlockSize \in Nat /\ storedEnd \in Nat
  /\ blockSize \in 0 .. ChunkSize /\ keepGoing \in BOOLEAN
  /\ ix \in 0 .. QueueBlockSize /\ block \in Seq(Nat) /\ literal \in Seq(Nat)
  /\ out \in Seq(Nat)
  /\ size \in Nat /\ next \in 1 .. size + 1
  /\ result \in {"none", "true", "error"}

Init ==
  /\ pc = "idle" /\ mBytesExpected = 0 /\ mBytesDecoded = 0
  /\ mPendingLen = 0 /\ pendingNext = 0
  /\ mNeedReadTable = TRUE /\ mIsFinalBlock = FALSE /\ mStoredMode = FALSE
  /\ mStoredBlockSize = 0 /\ storedEnd = 0
  /\ blockSize = 0 /\ keepGoing = TRUE /\ ix = 0 /\ block = <<>> /\ literal = <<>>
  /\ out = <<>> /\ size = 0 /\ next = 1 /\ result = "none"

Lesser(a, b) == IF a < b THEN a ELSE b

Span(from, n) == [i \in 1 .. n |-> from + i - 1]

Streaming == mBytesExpected = 0

-----------------------------------------------------------------------------
(* addLiteral() and addLenDist() *)

\* Three literals share an instruction.
addLiteral(p) ==
  IF Len(literal) = 2
    THEN ix' = ix + 1 /\ block' = block \o Append(literal, p) /\ literal' = <<>>
    ELSE UNCHANGED <<ix, block>> /\ literal' = Append(literal, p)

\* The literals collected before a match, if any, are an instruction of their own.
Instructions == IF literal = <<>> THEN ix ELSE ix + 1

\* Mutant: the match overwrites the literals collected before it.
addLenDistOver(from, len) ==
  /\ ix' = ix + 1 /\ block' = block \o Span(from, len)
  /\ literal' = <<>>

addLenDist(from, len) ==
  /\ ix' = Instructions + 1 /\ block' = (block \o literal) \o Span(from, len)
  /\ literal' = <<>>

-----------------------------------------------------------------------------
(* stream() and the heads of the loops *)

\* stream() and setup() without kept history.
Stream ==
  /\ pc = "idle" /\ result = "none"
  /\ size' \in Sizes /\ mBytesExpected' \in Expected
  /\ Careful => mBytesExpected' = 0 \/ mBytesExpected' >= size'
  /\ mIsFinalBlock' = FALSE /\ mPendingLen' = 0 /\ mNeedReadTable' = TRUE
  /\ mBytesDecoded' = 0 /\ keepGoing' = TRUE
  /\ pc' = IF mBytesExpected' = 0 THEN "alloc" ELSE "portion"
  /\ UNCHANGED <<pendingNext, mStoredMode, mStoredBlockSize, storedEnd, blockSize,
                 blockVars, out, next, result>>

Return(r) == pc' = "idle" /\ result' = r

Portion ==
  /\ pc = "portion" /\ mBytesDecoded < mBytesExpected
  /\ blockSize' = Lesser(ChunkSize, mBytesExpected - mBytesDecoded)
  /\ keepGoing' = TRUE
  /\ pc' = "alloc"
  /\ UNCHANGED <<callVars, mBytesDecoded, pendingVars, tableVars, blockVars, out,
                 next, result>>

LastPortion ==
  /\ pc = "portion" /\ mBytesDecoded >= mBytesExpected
  /\ Return("true")
  /\ UNCHANGED <<callVars, mBytesDecoded, pendingVars, tableVars, blockSize,
                 keepGoing, blockVars, out, next>>

\* Mutant: only a pending match that fits whole is taken up.
PendingWhole == IF mPendingLen <= blockSize THEN mPendingLen ELSE 0

\* How much of a pending match a new block starts with.
PendingNow == Lesser(mPendingLen, blockSize)

\* A new queue block; decodeBlock() first puts what is left of a cut match.
Alloc ==
  /\ pc = "alloc"
  /\ literal' = <<>>
  /\ IF Streaming \/ mPendingLen = 0
       THEN /\ ix' = 0 /\ block' = <<>>
            /\ UNCHANGED <<mBytesDecoded, blockSize, mPendingLen>>
       ELSE /\ ix' = 1 /\ block' = Span(pendingNext - mPendingLen, PendingNow)
            /\ mBytesDecoded' = mBytesDecoded + PendingNow
            /\ blockSize' = blockSize - PendingNow
            /\ mPendingLen' = mPendingLen - PendingNow
  /\ pc' = "fill"
  /\ UNCHANGED <<callVars, pendingNext, tableVars, keepGoing, out, next, result>>

-----------------------------------------------------------------------------
(* The loop over the symbols *)

\* Mutant: decodeBlock() goes on when it must not start another instruction.
BlockFullLate == ix >= QueueBlockSize

\* The index behind the complete instructions has reached the last one.
BlockFull == ix >= QueueBlockSize - 1

Filling ==
  /\ pc = "fill" /\ keepGoing
  /\ ~BlockFull
  /\ Streaming \/ blockSize > 0

\* readTables(): the header of a block.
ReadTables ==
  /\ Filling /\ mNeedReadTable
  /\ mNeedReadTable' = FALSE
  /\ mIsFinalBlock' \in BOOLEAN
  /\ \/ /\ "coded" \in Formats
        /\ mStoredMode' = FALSE
        /\ UNCHANGED <<mStoredBlockSize, storedEnd>>
     \/ /\ "stored" \in Formats /\ (Careful => Streaming)
        /\ mStoredMode' = TRUE
        /\ mStoredBlockSize' \in {n \in Sizes : n <= size + 1 - next}
        /\ storedEnd' = next + mStoredBlockSize'
        /\ mIsFinalBlock' => storedEnd' = size + 1
  /\ UNCHANGED <<pc, callVars, mBytesDecoded, pendingVars, blockSize, keepGoing,
                 blockVars, out, next, result>>

Stored == Filling /\ ~mNeedReadTable /\ mStoredMode

\* The stored block ends: the data does, or another block follows.
StoredEnd ==
  /\ Stored /\ mStoredBlockSize = 0
  /\ IF mIsFinalBlock
       THEN keepGoing' = FALSE /\ UNCHANGED mNeedReadTable
       ELSE mNeedReadTable' = TRUE /\ UNCHANGED keepGoing
  /\ UNCHANGED <<pc, callVars, mBytesDecoded, pendingVars, mIsFinalBlock, mStoredMode,
                 mStoredBlockSize, storedEnd, blockSize, blockVars, out, next, result>>

\* One stored byte.  Only streamingDecode() counts mStoredBlockSize down, so that
\* decodeBlock() reads on behind the block, bytes that are none of the data.
StoredByte ==
  /\ Stored /\ mStoredBlockSize > 0
  /\ IF next < storedEnd
       THEN addLiteral(next) /\ next' = next + 1
       ELSE addLiteral(NoData) /\ UNCHANGED next
  /\ IF Streaming
       THEN /\ mStoredBlockSize' = mStoredBlockSize - 1
            /\ UNCHANGED <<mBytesDecoded, blockSize>>
       ELSE /\ mBytesDecoded' = mBytesDecoded + 1
            /\ blockSize' = blockSize - 1
            /\ UNCHANGED mStoredBlockSize
  /\ UNCHANGED <<pc, callVars, pendingVars, mNeedReadTable, mIsFinalBlock, mStoredMode,
                 storedEnd, keepGoing, out, result>>

Coded == Filling /\ ~mNeedReadTable /\ ~mStoredMode

Counted(n) ==
  IF Streaming THEN UNCHANGED <<mBytesDecoded, blockSize>>
               ELSE mBytesDecoded' = mBytesDecoded + n /\ blockSize' = blockSize - n

Literal ==
  /\ Coded /\ next <= size
  /\ addLiteral(next) /\ next' = next + 1
  /\ Counted(1)
  /\ UNCHANGED <<pc, callVars, pendingVars, tableVars, keepGoing, out, result>>

EndOfBlock ==
  /\ Coded
  /\ mIsFinalBlock => next = size + 1
  /\ IF mIsFinalBlock
       THEN keepGoing' = FALSE /\ UNCHANGED mNeedReadTable
       ELSE mNeedReadTable' = TRUE /\ UNCHANGED keepGoing
  /\ UNCHANGED <<pc, callVars, mBytesDecoded, pendingVars, mIsFinalBlock, mStoredMode,
                 mStoredBlockSize, storedEnd, blockSize, blockVars, out, next, result>>

\* locLen = qMin(mBytesExpected - len, blockSize): the difference is unsigned, and
\* huge when the match is longer than all that is expected.
LocLen(len) ==
  IF len <= mBytesExpected THEN Lesser(mBytesExpected - len, blockSize) ELSE blockSize

Match(len) ==
  /\ Coded /\ next + len <= size + 1
  /\ IF ~Streaming /\ (mBytesDecoded + len > mBytesExpected \/ len > blockSize)
       THEN /\ addLenDist(next, LocLen(len)) /\ Counted(LocLen(len))
            /\ mPendingLen' = len - LocLen(len) /\ pendingNext' = next + len
       ELSE /\ addLenDist(next, len) /\ Counted(len)
            /\ UNCHANGED pendingVars
  /\ next' = next + len
  /\ UNCHANGED <<pc, callVars, tableVars, keepGoing, out, result>>

\* An Error is thrown out of the loop.
Fails ==
  /\ Filling
  /\ Return("error")
  /\ UNCHANGED <<callVars, mBytesDecoded, pendingVars, tableVars, blockSize, keepGoing,
                 blockVars, out, next>>

-----------------------------------------------------------------------------
\* The loop over the symbols ends, and the block is enqueued.  decodeBlock()
\* returns false when its portion is done, even at the end of the data.
Enqueue ==
  /\ pc = "fill" /\ ~Filling
  /\ out' = out \o (block \o literal)
  /\ ix' = 0 /\ block' = <<>> /\ literal' = <<>>
  /\ \/ /\ ~Streaming /\ blockSize = 0
        /\ pc' = "portion" /\ UNCHANGED result
     \/ /\ Streaming \/ blockSize > 0
        /\ IF keepGoing THEN pc' = "alloc" /\ UNCHANGED result ELSE Return("true")
  /\ UNCHANGED <<callVars, mBytesDecoded, pendingVars, tableVars, blockSize, keepGoing,
                 next>>

Next ==
  \/ Stream \/ Portion \/ LastPortion \/ Alloc
  \/ ReadTables \/ StoredEnd \/ StoredByte \/ Literal \/ EndOfBlock
  \/ \E len \in Lengths : Match(len)
  \/ Fails \/ Enqueue

Spec == Init /\ [][Next]_vars

-----------------------------------------------------------------------------
(* Properties *)

\* The instructions, a half filled one included, fit the block.
AvailFits == Instructions <= QueueBlockSize

\* mBytesDecoded counts exactly the bytes the instructions will write, so that
\* stream() stops where the caller wanted.
CountsTheOutput ==
  ~Streaming => mBytesDecoded = Len(out) + Len(block) + Len(literal)

\* stream() "returns true on success" (Codec.h): all the data is written, or as
\* much of it as was expected.
Reached == IF Streaming THEN size ELSE Lesser(size, mBytesExpected)

SuccessMeansTheData == result = "true" => out = Span(1, Reached)

\* What any inflate owes its caller, see Inflate: no portion and no queue block,
\* wherever they cut, loses, repeats or displaces a byte.
Owed == INSTANCE Inflate WITH busy <- pc # "idle", expected <- mBytesExpected

IsInflate == Owed!Spec

=============================================================================
