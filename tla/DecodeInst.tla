------------------------------ MODULE DecodeInst ------------------------------
(***************************************************************************)
(* The 32-bit instructions of DeflateDecoderMT (DeflateDecoderMT_p.h): a   *)
(* match, or up to three literals, in two 16-bit fields; how the decoder   *)
(* packs symbols into a block that still holds what its last use left, and *)
(* how the writer unpacks them.                                            *)
(***************************************************************************)
EXTENDS Integers, Sequences

CONSTANTS
  QueueBlockSize,  \* 8192
  Literals,        \* bytes that occur as literals
  Lengths,         \* lengths of matches
  Distances,       \* distances of matches
  Leftovers,       \* what an instruction that was never written can hold
  MaxBlocks        \* bound: uses of the block

VARIABLES
  block,     \* the instructions, and the one behind them, which is cleared too
  ix,        \* the instruction being packed
  avail,     \* the number of instructions enqueued, -1 while the block is filled
  symbols,   \* the symbols decoded into the block
  blocks     \* how often it was filled

vars == <<block, ix, avail, symbols, blocks>>

LITERAL == 32768
STOP == 65535

Inst == [mCode : 0 .. 65535, mDistance : 0 .. 65535]

Index == 0 .. QueueBlockSize

TypeOK ==
  /\ block \in [Index -> Inst]
  /\ ix \in Index
  /\ avail \in -1 .. QueueBlockSize
  /\ blocks \in Nat

-----------------------------------------------------------------------------
(* DecodeInst *)

cleared(inst) == [inst EXCEPT !.mCode = 0]
isStop(inst) == inst.mCode = STOP
isLiteral(inst) == inst.mCode >= LITERAL
literalCount(inst) == (inst.mCode \div 256) % 16

\* What Q_ASSERT_X(false, ..., "n is invalid") makes of the other values of n is
\* not defined; the byte is then 0.
literal(inst, n) ==
  CASE n = 0 -> inst.mCode % 256
    [] n = 1 -> inst.mDistance % 256
    [] n = 2 -> inst.mDistance \div 256
    [] OTHER -> 0

\* mCode with bits 8 to 11 replaced by the number of literals.
WithCount(code, n) == code - 256 * ((code \div 256) % 16) + 256 * n

\* Mutant: the second literal leaves the high byte of mDistance alone.
setLiteralDirty(inst, n, l) ==
  CASE n = 0 -> [inst EXCEPT !.mCode = LITERAL + 256 + l]
    [] n = 1 -> [mCode |-> WithCount(inst.mCode, 2),
                 mDistance |-> inst.mDistance - (inst.mDistance % 256) + l]
    [] n = 2 -> [mCode |-> WithCount(inst.mCode, 3),
                 mDistance |-> (inst.mDistance + 256 * l) % 65536]
    [] OTHER -> inst

\* setLiteral(2, l) finds a high byte of 0, which setLiteral(1, ...) left.
setLiteral(inst, n, l) ==
  CASE n = 0 -> [inst EXCEPT !.mCode = LITERAL + 256 + l]
    [] n = 1 -> [mCode |-> WithCount(inst.mCode, 2), mDistance |-> l]
    [] n = 2 -> [mCode |-> WithCount(inst.mCode, 3),
                 mDistance |-> inst.mDistance + 256 * l]
    [] OTHER -> inst

-----------------------------------------------------------------------------
(* The decoder *)

Init ==
  /\ block \in [Index -> Leftovers]
  /\ ix = 0 /\ avail = 0 /\ symbols = <<>> /\ blocks = 0

\* allocBlock() hands out a block, whose first instruction is cleared.
StartBlock ==
  /\ avail # -1 /\ blocks < MaxBlocks
  /\ block' = [block EXCEPT ![0] = cleared(@)]
  /\ ix' = 0 /\ avail' = -1 /\ symbols' = <<>> /\ blocks' = blocks + 1

Filling == avail = -1 /\ ix < QueueBlockSize - 1

\* Mutant: the next instruction is not cleared.
addLiteralUncleared(l) ==
  LET n    == IF isLiteral(block[ix]) THEN literalCount(block[ix]) ELSE 0
      inst == setLiteral(block[ix], n, l)
  IN  /\ block' = [block EXCEPT ![ix] = inst]
      /\ ix' = IF n > 0 /\ literalCount(inst) = 3 THEN ix + 1 ELSE ix

addLiteral(l) ==
  LET n    == IF isLiteral(block[ix]) THEN literalCount(block[ix]) ELSE 0
      inst == setLiteral(block[ix], n, l)
  IN  IF n > 0 /\ literalCount(inst) = 3
        THEN /\ block' = [block EXCEPT ![ix] = inst, ![ix + 1] = cleared(@)]
             /\ ix' = ix + 1
        ELSE /\ block' = [block EXCEPT ![ix] = inst]
             /\ UNCHANGED ix

\* Behind the last instruction of the block, this clears one that is not in it.
addLenDist(length, distance) ==
  LET i == IF isLiteral(block[ix]) THEN ix + 1 ELSE ix IN
  /\ block' = [block EXCEPT ![i] = [mCode |-> length, mDistance |-> distance],
                            ![i + 1] = cleared(@)]
  /\ ix' = i + 1

Literal(l) ==
  /\ Filling
  /\ addLiteral(l)
  /\ symbols' = Append(symbols, <<"literal", l>>)
  /\ UNCHANGED <<avail, blocks>>

Match(length, distance) ==
  /\ Filling
  /\ addLenDist(length, distance)
  /\ symbols' = Append(symbols, <<"match", length, distance>>)
  /\ UNCHANGED <<avail, blocks>>

\* The block is full, or the data ends: literals being collected are done.
Enqueue ==
  /\ avail = -1
  /\ avail' = IF isLiteral(block[ix]) THEN ix + 1 ELSE ix
  /\ UNCHANGED <<block, ix, symbols, blocks>>

Next ==
  \/ StartBlock \/ Enqueue
  \/ \E l \in Literals : Literal(l)
  \/ \E length \in Lengths, distance \in Distances : Match(length, distance)

Spec == Init /\ [][Next]_vars

-----------------------------------------------------------------------------
(* The writer *)

\* What DecodeWriterThread::run() does for an instruction.
Unpacked(inst) ==
  IF isLiteral(inst)
    THEN [j \in 1 .. literalCount(inst) |-> <<"literal", literal(inst, j - 1)>>]
    ELSE << <<"match", inst.mCode, inst.mDistance>> >>

\* What it does for the first n instructions of the block.
Written ==
  LET upTo[n \in Index] ==
        IF n = 0 THEN <<>> ELSE upTo[n - 1] \o Unpacked(block[n - 1])
  IN  upTo[avail]

-----------------------------------------------------------------------------
(* Properties *)

\* Whatever the block held before, the writer executes exactly the symbols the
\* decoder packed, in their order, and does not take the block for a stop block.
BlockSaysTheSymbols ==
  avail > 0 => Written = symbols /\ ~isStop(block[0])

\* Q_ASSERT_X(false, "DecodeInst::literal", "n is invalid") is not reached, neither
\* by the writer nor, in setLiteral, by the decoder.
LiteralIndexValid ==
  /\ \A i \in 0 .. avail - 1 : isLiteral(block[i]) => literalCount(block[i]) <= 3
  /\ avail = -1 /\ ix < QueueBlockSize =>
       (isLiteral(block[ix]) => literalCount(block[ix]) \in 1 .. 2)

=============================================================================
