-------------------------- MODULE DeflateDecoderST --------------------------
(***************************************************************************)
(* The inflate of libqz7 that runs in one thread (DeflateDecoderST.cpp):   *)
(* stream() asks codeChunk() for at most ChunkSize bytes at a time, and    *)
(* codeChunk() stops in the middle of a stored block or of a match when    *)
(* they are reached.  The compressed data is abstracted to the positions   *)
(* 1 .. size of the bytes it stands for: a literal is the next position, a *)
(* match of length n the next n.                                           *)
(***************************************************************************)
EXTENDS Integers, Sequences

CONSTANTS
  ChunkSize,   \* 1 << 18
  RingSize,    \* the size of mOutBuffer
  Lengths,     \* the lengths of matches
  Sizes,       \* bound: the sizes of the data, and of a stored block
  Expected,    \* the values of bytesExpected, 0: not set
  Histories,   \* the values of keepHistory from the second stream on
  Careful,     \* bytesExpected is set only where the last stream left nothing behind
  MaxStreams   \* bound: calls of stream()

ASSUME STAssumption ==
  /\ ChunkSize \in Nat \ {0} /\ RingSize \in Nat \ {0}
  /\ Lengths \subseteq Nat \ {0}
  /\ Sizes \subseteq Nat /\ Expected \subseteq Nat
  /\ Histories \subseteq BOOLEAN /\ Careful \in BOOLEAN /\ MaxStreams \in Nat

VARIABLES
  pc,                 \* "idle", "loop" in stream(), "chunk" in codeChunk()
  mBytesExpected, mKeepHistory, mInterrupted,
  mRemainLen,         \* what is left of a match, or one of the two below
  mNeedReadTable, mIsFinalBlock, mStoredMode, mStoredBlockSize,
  curSize,            \* the bytes codeChunk() may still put
  ring,               \* the positions in mOutBuffer that are not flushed
  out,                \* the positions this call has flushed
  size,               \* the bytes the compressed data stands for
  next,               \* the position of the next byte it yields
  result, streams

modeVars == <<mRemainLen, mNeedReadTable, mIsFinalBlock, mStoredMode,
              mStoredBlockSize>>
callVars == <<mBytesExpected, mKeepHistory, size, streams>>
vars == <<pc, callVars, mInterrupted, modeVars, curSize, ring, out, next, result>>

LenIdFinished == -1
LenIdNeedInit == -2

TypeOK ==
  /\ pc \in {"idle", "loop", "chunk"}
  /\ mBytesExpected \in Nat /\ mKeepHistory \in BOOLEAN /\ mInterrupted \in BOOLEAN
  /\ mRemainLen \in Nat \cup {LenIdFinished, LenIdNeedInit}
  /\ mNeedReadTable \in BOOLEAN /\ mIsFinalBlock \in BOOLEAN
  /\ mStoredMode \in BOOLEAN /\ mStoredBlockSize \in Nat
  /\ curSize \in 0 .. ChunkSize
  /\ ring \in Seq(Nat) /\ Len(ring) < RingSize
  /\ out \in Seq(Nat)
  /\ size \in Nat /\ next \in 1 .. size + 1
  /\ result \in {"none", "true", "false", "error"} /\ streams \in Nat

Init ==
  /\ pc = "idle" /\ mBytesExpected = 0 /\ mKeepHistory = FALSE
  /\ mInterrupted = FALSE
  /\ mRemainLen = LenIdNeedInit /\ mNeedReadTable = TRUE
  /\ mIsFinalBlock = FALSE /\ mStoredMode = FALSE /\ mStoredBlockSize = 0
  /\ curSize = 0 /\ ring = <<>> /\ out = <<>> /\ size = 0 /\ next = 1
  /\ result = "none" /\ streams = 0

Lesser(a, b) == IF a < b THEN a ELSE b

-----------------------------------------------------------------------------
(* stream() *)

Stream ==
  /\ pc = "idle" /\ streams < MaxStreams
  /\ pc' = "loop"
  /\ mBytesExpected' \in Expected
  /\ Careful /\ ring # <<>> => mBytesExpected' = 0
  /\ mKeepHistory' \in IF streams = 0 THEN {FALSE} ELSE Histories
  /\ mInterrupted' = FALSE /\ mRemainLen' = LenIdNeedInit
  /\ size' \in Sizes /\ next' = 1
  /\ out' = <<>> /\ result' = "none" /\ streams' = streams + 1
  /\ UNCHANGED <<mNeedReadTable, mIsFinalBlock, mStoredMode, mStoredBlockSize,
                 curSize, ring>>

\* From another thread, at any time.
Interrupt ==
  /\ pc # "idle"
  /\ mInterrupted' = TRUE
  /\ UNCHANGED <<pc, callVars, modeVars, curSize, ring, out, next, result>>

Return(r) ==
  /\ pc' = "idle" /\ result' = r

LoopInterrupted ==
  /\ pc = "loop" /\ mInterrupted
  /\ Return("false")
  /\ UNCHANGED <<callVars, mInterrupted, modeVars, curSize, ring, out, next>>

\* What codeChunk() does when it is called for the first time.
InitChunk ==
  IF mRemainLen = LenIdNeedInit
    THEN /\ mIsFinalBlock' = FALSE /\ mRemainLen' = 0 /\ mNeedReadTable' = TRUE
         /\ UNCHANGED <<mStoredMode, mStoredBlockSize>>
    ELSE UNCHANGED modeVars

\* With an expected size, mOutBuffer is flushed before each chunk.
Sent == IF mBytesExpected # 0 THEN out \o ring ELSE out

\* Mutant: nothing is cleared.
UnsentKept == IF mBytesExpected # 0 THEN <<>> ELSE ring

\* Unless the history is kept, mOutBuffer is cleared before the first chunk.
Unsent ==
  IF mBytesExpected # 0 \/ (mRemainLen = LenIdNeedInit /\ ~mKeepHistory)
    THEN <<>>
    ELSE ring

\* curSize: 1 << 18, or what is missing when that is less.
Room == IF mBytesExpected = 0 THEN ChunkSize
                              ELSE Lesser(ChunkSize, mBytesExpected - Len(Sent))

\* An iteration of the loop up to the call of codeChunk().
LoopChunk ==
  /\ pc = "loop" /\ ~mInterrupted
  /\ Room > 0
  /\ curSize' = Room
  /\ out' = Sent /\ ring' = Unsent
  /\ InitChunk
  /\ pc' = "chunk"
  /\ UNCHANGED <<callVars, mInterrupted, next, result>>

\* curSize = 0: break, flush() and return true.
LoopReached ==
  /\ pc = "loop" /\ ~mInterrupted
  /\ Room = 0
  /\ out' = Sent /\ ring' = <<>>
  /\ Return("true")
  /\ UNCHANGED <<callVars, mInterrupted, modeVars, curSize, next>>

-----------------------------------------------------------------------------
(* codeChunk() *)

\* Puts n bytes of the data: mOutBuffer flushes itself when it is full.
PutFrom(from, n) ==
  LET all  == ring \o [i \in 1 .. n |-> from + i - 1]
      full == Len(all) - (Len(all) % RingSize)
  IN  /\ out' = out \o SubSeq(all, 1, full)
      /\ ring' = SubSeq(all, full + 1, Len(all))
      /\ curSize' = curSize - n

\* The rest of a match that the chunk before cut off, byte by byte in the code.
Remainder ==
  /\ pc = "chunk" /\ mRemainLen > 0 /\ curSize > 0
  /\ LET n == Lesser(mRemainLen, curSize) IN
       PutFrom(next - mRemainLen, n) /\ mRemainLen' = mRemainLen - n
  /\ UNCHANGED <<pc, callVars, mInterrupted, mNeedReadTable, mIsFinalBlock,
                 mStoredMode, mStoredBlockSize, next, result>>

Decoding == pc = "chunk" /\ mRemainLen = 0 /\ curSize > 0

Finished ==
  /\ Decoding /\ mNeedReadTable /\ mIsFinalBlock
  /\ mRemainLen' = LenIdFinished
  /\ UNCHANGED <<pc, callVars, mInterrupted, mNeedReadTable, mIsFinalBlock,
                 mStoredMode, mStoredBlockSize, curSize, ring, out, next, result>>

\* readTables(): the header of a block, whose tables are not modelled.
ReadTables ==
  /\ Decoding /\ mNeedReadTable /\ ~mIsFinalBlock
  /\ mNeedReadTable' = FALSE
  /\ mIsFinalBlock' \in BOOLEAN
  /\ mStoredMode' \in BOOLEAN
  /\ IF mStoredMode'
       THEN mStoredBlockSize' \in {n \in Sizes : n <= size + 1 - next}
       ELSE UNCHANGED mStoredBlockSize
  /\ mStoredMode' /\ mIsFinalBlock' => mStoredBlockSize' = size + 1 - next
  /\ UNCHANGED <<pc, callVars, mInterrupted, mRemainLen, curSize, ring, out, next,
                 result>>

Stored ==
  /\ Decoding /\ ~mNeedReadTable /\ mStoredMode
  /\ LET n == Lesser(mStoredBlockSize, curSize) IN
       /\ PutFrom(next, n) /\ next' = next + n
       /\ mStoredBlockSize' = mStoredBlockSize - n
  /\ mNeedReadTable' = (mStoredBlockSize' = 0)
  /\ UNCHANGED <<pc, callVars, mInterrupted, mRemainLen, mIsFinalBlock, mStoredMode,
                 result>>

\* decodeSymbol() and what follows from the symbol.
Coded == Decoding /\ ~mNeedReadTable /\ ~mStoredMode

Literal ==
  /\ Coded /\ next <= size
  /\ PutFrom(next, 1) /\ next' = next + 1
  /\ UNCHANGED <<pc, callVars, mInterrupted, modeVars, result>>

\* Only a block that is not the last, or stands at the end of the data, ends.
EndOfBlock ==
  /\ Coded
  /\ mIsFinalBlock => next = size + 1
  /\ mNeedReadTable' = TRUE
  /\ UNCHANGED <<pc, callVars, mInterrupted, mRemainLen, mIsFinalBlock, mStoredMode,
                 mStoredBlockSize, curSize, ring, out, next, result>>

\* Mutant: the rest of a match that does not fit the chunk is forgotten.
MatchCut(len) ==
  /\ Coded /\ next + len <= size + 1
  /\ PutFrom(next, Lesser(len, curSize)) /\ next' = next + len
  /\ UNCHANGED <<pc, callVars, mInterrupted, modeVars, result>>

Match(len) ==
  /\ Coded /\ next + len <= size + 1
  /\ LET locLen == Lesser(len, curSize) IN
       PutFrom(next, locLen) /\ mRemainLen' = len - locLen
  /\ next' = next + len
  /\ UNCHANGED <<pc, callVars, mInterrupted, mNeedReadTable, mIsFinalBlock,
                 mStoredMode, mStoredBlockSize, result>>

\* codeChunk() returns: stream() goes on, or breaks, flushes and returns true.
ChunkDone ==
  /\ pc = "chunk" /\ curSize = 0 /\ mRemainLen # LenIdFinished
  /\ pc' = "loop"
  /\ UNCHANGED <<callVars, mInterrupted, modeVars, curSize, ring, out, next, result>>

StreamDone ==
  /\ pc = "chunk" /\ mRemainLen = LenIdFinished
  /\ out' = out \o ring /\ ring' = <<>>
  /\ Return("true")
  /\ UNCHANGED <<callVars, mInterrupted, modeVars, curSize, next>>

\* An Error is thrown out of codeChunk(): corrupted data or a failed read.  A
\* failed write is the business of RingBuffer.
Fails ==
  /\ Decoding /\ ~(mNeedReadTable /\ mIsFinalBlock)
  /\ Return("error")
  /\ UNCHANGED <<callVars, mInterrupted, modeVars, curSize, ring, out, next>>

Next ==
  \/ Stream \/ Interrupt \/ LoopInterrupted \/ LoopChunk \/ LoopReached
  \/ Remainder \/ Finished \/ ReadTables \/ Stored \/ Literal \/ EndOfBlock
  \/ \E len \in Lengths : Match(len)
  \/ ChunkDone \/ StreamDone \/ Fails

Spec == Init /\ [][Next]_vars

-----------------------------------------------------------------------------
(* Properties *)

\* While a chunk is decoded without kept history, what is written and what waits
\* in mOutBuffer are the bytes decoded so far without the rest of a cut match:
\* no chunk boundary, wherever it cuts, loses or repeats a byte.
NothingSkipped ==
  pc = "chunk" =>
    out \o ring = [i \in 1 .. next - 1 - (IF mRemainLen > 0 THEN mRemainLen ELSE 0) |-> i]

\* stream() "returns true on success" (Codec.h): all the data is written, or as
\* much of it as was expected.
Reached == IF mBytesExpected = 0 THEN size ELSE Lesser(size, mBytesExpected)

SuccessMeansTheData == result = "true" => out = [i \in 1 .. Reached |-> i]

\* What any inflate owes its caller, see Inflate: the data in order, complete if it
\* says so, and no stored block and no match overrunning bytesExpected.
Owed == INSTANCE Inflate WITH busy <- pc # "idle", expected <- mBytesExpected

IsInflate == Owed!Spec

=============================================================================
