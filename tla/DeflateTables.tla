----------------------------- MODULE DeflateTables -----------------------------
(***************************************************************************)
(* readTables() and decodeLevelTable(), which both inflates of libqz7 have *)
(* (DeflateDecoderMT.cpp, DeflateDecoderST.cpp): the header of a block,    *)
(* and the code lengths of its two Huffman codes, read as one sequence of  *)
(* numbers and repetitions.  What is read is any value its field can have. *)
(***************************************************************************)
EXTENDS Integers, SequencesExt

CONSTANTS
  Types,          \* the types of deflate
  MainMin,        \* 257, the least number of literal and length codes
  MainSize,       \* FixedMainTableSize, 288
  DistSize,       \* FixedDistTableSize, 32
  DistTableSize32, \* 30
  Levels,         \* 0 .. 15, code lengths that occur
  Repeats,        \* 3 .. 6, repetitions of the length before
  Zeros,          \* 3 .. 10 and 11 .. 138, repetitions of 0
  StoredSizes     \* sizes of stored blocks that occur

ASSUME TablesAssumption ==
  /\ Types \subseteq {"Deflate32", "Deflate64", "DeflateNSIS"}
  /\ MainMin \in Nat \ {0} /\ MainSize \in Nat /\ MainMin <= MainSize
  /\ DistSize \in Nat \ {0} /\ DistTableSize32 \in 1 .. DistSize
  /\ Levels \subseteq Nat /\ 0 \in Levels
  /\ Repeats \subseteq Nat \ {0} /\ Zeros \subseteq Nat \ {0}
  /\ StoredSizes \subseteq 0 .. 2^16 - 1

VARIABLES
  mType,
  pc,              \* "header", "symbols", "done", "corrupted"
  mIsFinalBlock, mStoredMode, mStoredBlockSize,
  mNumDistLevels,
  numLitLenLevels,
  tmpLevels,       \* code lengths of both codes; the array has room for both tables
  i,               \* how many of them are there
  litLenLevels, distLevels,   \* what setCodeLengths() gets
  runs             \* the numbers and repetitions read

modeVars == <<mIsFinalBlock, mStoredMode, mStoredBlockSize>>
countVars == <<mType, mNumDistLevels, numLitLenLevels>>
tablesVars == <<pc, modeVars, countVars, tmpLevels, i, litLenLevels, distLevels, runs>>

Main == 0 .. MainSize - 1
Dist == 0 .. DistSize - 1
Tmp == 0 .. MainSize + DistSize - 1

Undefined == -1     \* an element of an array on the stack that was never written

TablesTypeOK ==
  /\ mType \in Types
  /\ pc \in {"header", "symbols", "done", "corrupted"}
  /\ mIsFinalBlock \in BOOLEAN /\ mStoredMode \in BOOLEAN
  /\ mStoredBlockSize \in 0 .. 65535
  /\ mNumDistLevels \in 0 .. DistSize /\ numLitLenLevels \in 0 .. MainSize
  /\ tmpLevels \in [Tmp -> Levels \cup {Undefined}]
  /\ i \in 0 .. MainSize + DistSize
  /\ litLenLevels \in [Main -> Nat \cup {Undefined}]
  /\ distLevels \in [Dist -> Nat \cup {Undefined}]

TablesInit ==
  /\ mType \in Types
  /\ pc = "header"
  /\ mIsFinalBlock = FALSE /\ mStoredMode = FALSE /\ mStoredBlockSize = 0
  /\ mNumDistLevels = 0 /\ numLitLenLevels = 0
  /\ tmpLevels = [k \in Tmp |-> Undefined] /\ i = 0
  /\ litLenLevels = [s \in Main |-> Undefined]
  /\ distLevels = [s \in Dist |-> Undefined]
  /\ runs = <<>>

-----------------------------------------------------------------------------
\* corrupted(), or CorruptedError().
Corrupt == pc' = "corrupted"

\* The block type is one more than those there are.
BadType ==
  /\ pc = "header"
  /\ mIsFinalBlock' \in BOOLEAN
  /\ Corrupt
  /\ UNCHANGED <<mStoredMode, mStoredBlockSize, countVars, tmpLevels, i, litLenLevels,
                 distLevels, runs>>

\* A stored block: its size, and except for NSIS the complement of the size.
StoredBlock ==
  /\ pc = "header"
  /\ mIsFinalBlock' \in BOOLEAN /\ mStoredMode' = TRUE
  /\ mStoredBlockSize' \in StoredSizes
  /\ \/ mType = "DeflateNSIS" /\ pc' = "done"
     \/ /\ mType # "DeflateNSIS"
        /\ \E inv \in {65535 - n : n \in StoredSizes} :
             IF mStoredBlockSize' = 65535 - inv THEN pc' = "done" ELSE Corrupt
  /\ UNCHANGED <<countVars, tmpLevels, i, litLenLevels, distLevels, runs>>

\* A block with the fixed codes: setFixedLevels().
FixedBlock ==
  /\ pc = "header"
  /\ mIsFinalBlock' \in BOOLEAN /\ mStoredMode' = FALSE
  /\ mNumDistLevels' = IF mType = "Deflate64" THEN DistSize ELSE DistTableSize32
  /\ litLenLevels' = [s \in Main |-> CASE s < 144 -> 8 [] s \in 144 .. 255 -> 9
                                       [] s \in 256 .. 279 -> 7 [] OTHER -> 8]
  /\ distLevels' = [s \in Dist |-> 5]
  /\ pc' = "done"
  /\ UNCHANGED <<mType, mStoredBlockSize, numLitLenLevels, tmpLevels, i, runs>>

\* "if (mType != Deflate64) if (...) corrupted(); else if (...) corrupted();": the
\* else belongs to the inner if, and cannot be true there.
TooManyDist(n) == mType # "Deflate64" /\ n > DistTableSize32

\* A block with codes of its own: their sizes.  The code they are written in is that
\* of HuffmanDecoder.
DynamicBlock ==
  /\ pc = "header"
  /\ mIsFinalBlock' \in BOOLEAN /\ mStoredMode' = FALSE
  /\ numLitLenLevels' \in MainMin .. MainSize
  /\ mNumDistLevels' \in 1 .. DistSize
  /\ IF TooManyDist(mNumDistLevels') THEN Corrupt ELSE pc' = "symbols"
  /\ tmpLevels' = [k \in Tmp |-> Undefined] /\ i' = 0 /\ runs' = <<>>
  /\ UNCHANGED <<mType, mStoredBlockSize, litLenLevels, distLevels>>

-----------------------------------------------------------------------------
(* decodeLevelTable() *)

NumSymbols == numLitLenLevels + mNumDistLevels

Reading == pc = "symbols" /\ i < NumSymbols

Lesser(a, b) == IF a < b THEN a ELSE b

\* values[i], ... become level, num of them or as many as there is room for.
Fill(level, num) ==
  LET end == Lesser(i + num, NumSymbols) IN
  /\ tmpLevels' = [k \in Tmp |-> IF i <= k /\ k < end THEN level ELSE tmpLevels[k]]
  /\ i' = end

Direct(number) ==
  /\ Reading
  /\ Fill(number, 1)
  /\ runs' = Append(runs, [kind |-> "length", level |-> number, num |-> 1])
  /\ UNCHANGED <<pc, modeVars, countVars, litLenLevels, distLevels>>

\* TableLevelRepNumber, with nothing to repeat.
RepeatNothing ==
  /\ Reading /\ i = 0
  /\ Corrupt
  /\ UNCHANGED <<modeVars, countVars, tmpLevels, i, litLenLevels, distLevels, runs>>

Repeat(num) ==
  /\ Reading /\ i > 0
  /\ Fill(tmpLevels[i - 1], num)
  /\ runs' = Append(runs, [kind |-> "repeat", level |-> 0, num |-> num])
  /\ UNCHANGED <<pc, modeVars, countVars, litLenLevels, distLevels>>

\* TableLevel0Number and TableLevel0Number2.
Zero(num) ==
  /\ Reading
  /\ Fill(0, num)
  /\ runs' = Append(runs, [kind |-> "zeros", level |-> 0, num |-> num])
  /\ UNCHANGED <<pc, modeVars, countVars, litLenLevels, distLevels>>

\* A number beyond the table, from values that begin with no code.
BadNumber ==
  /\ Reading
  /\ Corrupt
  /\ UNCHANGED <<modeVars, countVars, tmpLevels, i, litLenLevels, distLevels, runs>>

\* Mutant: clear() leaves the lengths alone.
ClearedNot == [s \in Main |-> Undefined]

\* clear(): only behind the least number of codes, the others being copied.
Cleared == [s \in Main |-> IF s >= MainMin THEN 0 ELSE Undefined]

\* Mutant: the lengths of the distances are taken from behind the least table.
CopyFromMin ==
  /\ pc = "symbols" /\ i >= NumSymbols
  /\ litLenLevels' = [s \in Main |-> IF s < numLitLenLevels THEN tmpLevels[s] ELSE Cleared[s]]
  /\ distLevels' = [s \in Dist |-> IF s < mNumDistLevels THEN tmpLevels[MainMin + s] ELSE 0]
  /\ pc' = "done"
  /\ UNCHANGED <<modeVars, countVars, tmpLevels, i, runs>>

\* The lengths are there: clear() and two memcpy().
Copy ==
  /\ pc = "symbols" /\ i >= NumSymbols
  /\ litLenLevels' = [s \in Main |-> IF s < numLitLenLevels THEN tmpLevels[s] ELSE Cleared[s]]
  /\ distLevels' = [s \in Dist |-> IF s < mNumDistLevels THEN tmpLevels[numLitLenLevels + s] ELSE 0]
  /\ pc' = "done"
  /\ UNCHANGED <<modeVars, countVars, tmpLevels, i, runs>>

\* readTables() is called for the next block, with nothing of this one on its stack.
NextBlock ==
  /\ pc = "done" /\ ~mIsFinalBlock
  /\ pc' = "header"
  /\ litLenLevels' = [s \in Main |-> Undefined]
  /\ distLevels' = [s \in Dist |-> Undefined]
  /\ tmpLevels' = [k \in Tmp |-> Undefined] /\ i' = 0 /\ runs' = <<>>
  /\ UNCHANGED <<modeVars, countVars>>

TablesNext ==
  \/ BadType \/ StoredBlock \/ FixedBlock \/ DynamicBlock
  \/ \E number \in Levels : Direct(number)
  \/ \E num \in Repeats : Repeat(num)
  \/ \E num \in Zeros : Zero(num)
  \/ RepeatNothing \/ BadNumber \/ Copy \/ NextBlock

-----------------------------------------------------------------------------
(* Properties *)

\* Some levels, and behind them those that a run stands for.
Extended(levels, run) ==
  levels \o [k \in 1 .. run.num |->
               IF run.kind = "repeat" THEN levels[Len(levels)] ELSE run.level]

\* The sequence the runs stand for (RFC 1951, 3.2.7), where a run may begin with the
\* literals and end with the distances.
Expansion(rs) ==
  LET levels[n \in 0 .. Len(rs)] ==
        IF n = 0 THEN <<>> ELSE Extended(levels[n - 1], rs[n])
  IN  levels[Len(rs)]

Expanded == Expansion(runs)

\* Both codes get the lengths the runs say, and 0 for what they do not say.
LevelsAreTheRuns ==
  pc = "done" /\ ~mStoredMode /\ runs # <<>> =>
    /\ \A s \in Main :
         litLenLevels[s] = IF s < numLitLenLevels THEN Expanded[s + 1] ELSE 0
    /\ \A s \in Dist :
         distLevels[s] = IF s < mNumDistLevels THEN Expanded[numLitLenLevels + s + 1] ELSE 0

\* No code length comes from memory that was never written: clear() begins at the
\* least number of codes and relies on the copies for the rest.
NoUndefinedLevel ==
  pc = "done" /\ ~mStoredMode =>
    (\A s \in Main : litLenLevels[s] # Undefined) /\ (\A s \in Dist : distLevels[s] # Undefined)

=============================================================================
