---------------------------- MODULE LevelTableCode ----------------------------
(***************************************************************************)
(* TryDynBlock(), LevelTableDummy() and LevelTableCode() of the encoder    *)
(* (DeflateEncoder.cpp), at work while the decoder of DeflateTables is     *)
(* not: how the code lengths of a block become numbers and repetitions,    *)
(* which are counted first, to make a code for them, and then written by   *)
(* a second loop like the first.  The bits of a repetition are the number  *)
(* of times they stand for.                                                *)
(***************************************************************************)
EXTENDS DeflateTables

CONSTANTS
  EncMain,       \* MainTableSize, 286
  EncMainMin,    \* NumLitLenCodesMin, 257
  EncDist,       \* DistTableSize64, 32
  EncLevels,     \* the code lengths that occur
  RepeatMax,     \* 6: two bits behind a 3
  ZerosMax,      \* 10: three bits
  ManyZerosMax   \* 138: seven bits

ASSUME LevelAssumption ==
  /\ EncMainMin \in Nat \ {0} /\ EncMain \in Nat /\ EncMainMin <= EncMain
  /\ EncDist \in Nat \ {0}
  /\ EncLevels \subseteq 0 .. 15 /\ 0 \in EncLevels
  /\ {RepeatMax, ZerosMax, ManyZerosMax} \subseteq Nat
  /\ 3 <= RepeatMax /\ 3 <= ZerosMax /\ ZerosMax < ManyZerosMax

VARIABLES
  side,         \* "decoder", "encoder"
  encMain, encDist,   \* the code lengths, as Huffman_Generate() made them
  numbers,      \* what is written: numbers and repetitions, as in runs
  levelFreqs,   \* how often each kind of them was counted
  coded

encVars == <<encMain, encDist, numbers, levelFreqs, coded>>
levelVars == <<tablesVars, side, encVars>>

\* What is behind the last level, and before the first: 0xFF.
NoLevel == 255

TableLevelRepNumber == 16
TableLevel0Number == 17
TableLevel0Number2 == 18

\* The numbers that have a code.
LevelSymbols == EncLevels \cup {TableLevelRepNumber, TableLevel0Number, TableLevel0Number2}

Uncounted == [x \in LevelSymbols |-> 0]

\* The codes of literals and lengths, and those of distances, that are read at least.
LevelInit ==
  /\ TablesInit
  /\ \/ /\ side = "decoder"
        /\ encMain = [s \in 1 .. EncMain |-> 0] /\ encDist = [s \in 1 .. EncDist |-> 0]
     \/ /\ side = "encoder" /\ mType = "Deflate32"
        /\ encMain \in [1 .. EncMain -> EncLevels] /\ encDist \in [1 .. EncDist -> EncLevels]
  /\ numbers = <<>> /\ levelFreqs = Uncounted /\ coded = FALSE

-----------------------------------------------------------------------------
\* Without the zeros at its end, but no shorter than min.
Trimmed(levels, min) ==
  LET keeps == {n \in min .. Len(levels) : \A k \in n + 1 .. Len(levels) : levels[k] = 0}
  IN  SubSeq(levels, 1, CHOOSE n \in keeps : \A m \in keeps : n <= m)

\* The longest run of a level that goes on, or that is new.
MaxCount(goesOn, level) ==
  IF level = 0 THEN ManyZerosMax ELSE IF goesOn THEN RepeatMax ELSE RepeatMax + 1

\* The shortest run that is worth a repetition: a new one takes one level more.
MinCount(goesOn, level) == IF level = 0 \/ goesOn THEN 3 ELSE 4

\* A run behind another level.
IsFresh(level, prev) == level # prev

\* The loop both operations have, before its first turn ...
Started(levels) ==
  [count |-> 0, prev |-> NoLevel, runs |-> <<>>,
   max |-> MaxCount(FALSE, levels[1]), min |-> MinCount(FALSE, levels[1])]

\* ... and in a turn: a run ends with its level, or at its greatest length.
Turned(t, levels, n) ==
  LET cur == levels[n]
      next == IF n < Len(levels) THEN levels[n + 1] ELSE NoLevel
      count == t.count + 1
  IN  IF count < t.max /\ cur = next THEN [t EXCEPT !.count = count]
      ELSE [count |-> 0, prev |-> cur,
            max |-> MaxCount(cur = next, next), min |-> MinCount(cur = next, next),
            runs |-> Append(t.runs, [level |-> cur, count |-> count,
                                     few |-> count < t.min, fresh |-> IsFresh(cur, t.prev)])]

RunsOf(levels) ==
  LET turn[n \in 0 .. Len(levels)] ==
        IF n = 0 THEN Started(levels) ELSE Turned(turn[n - 1], levels, n)
  IN  turn[Len(levels)].runs

One(x) == [Uncounted EXCEPT ![x] = 1]
Both(f, g) == [x \in LevelSymbols |-> f[x] + g[x]]

\* Mutant: the level in front of a repetition is not counted.
CountedRepeatOnly(run) ==
  IF run.few THEN [Uncounted EXCEPT ![run.level] = run.count]
  ELSE IF run.level # 0 THEN One(TableLevelRepNumber)
  ELSE IF run.count <= ZerosMax THEN One(TableLevel0Number) ELSE One(TableLevel0Number2)

\* What LevelTableDummy() counts for a run.
Counted(run) ==
  IF run.few THEN [Uncounted EXCEPT ![run.level] = run.count]
  ELSE IF run.level # 0
    THEN Both(One(TableLevelRepNumber), IF run.fresh THEN One(run.level) ELSE Uncounted)
  ELSE IF run.count <= ZerosMax THEN One(TableLevel0Number) ELSE One(TableLevel0Number2)

LevelTableDummy(levels) ==
  LET rs == RunsOf(levels)
      freqs[n \in 0 .. Len(rs)] ==
        IF n = 0 THEN Uncounted ELSE Both(freqs[n - 1], Counted(rs[n]))
  IN  freqs[Len(rs)]

Number(kind, level, num) == <<[kind |-> kind, level |-> level, num |-> num]>>

\* What LevelTableCode() writes for it.
Written(run) ==
  IF run.few THEN [n \in 1 .. run.count |-> Number("length", run.level, 1)[1]]
  ELSE IF run.level # 0
    THEN IF run.fresh
           THEN Number("length", run.level, 1) \o Number("repeat", 0, run.count - 1)
           ELSE Number("repeat", 0, run.count)
  ELSE Number("zeros", 0, run.count)

LevelTableCode(levels) ==
  LET rs == RunsOf(levels)
      code[n \in 0 .. Len(rs)] == IF n = 0 THEN <<>> ELSE code[n - 1] \o Written(rs[n])
  IN  code[Len(rs)]

\* Both tables, one behind the other.
TryDynBlock ==
  /\ ~coded
  /\ LET main == Trimmed(encMain, EncMainMin)
         dist == Trimmed(encDist, 1)
     IN  /\ levelFreqs' = Both(LevelTableDummy(main), LevelTableDummy(dist))
         /\ numbers' = LevelTableCode(main) \o LevelTableCode(dist)
  /\ coded' = TRUE
  /\ UNCHANGED <<encMain, encDist>>

Decoder == side = "decoder" /\ TablesNext /\ UNCHANGED <<side, encVars>>
Encoder == side = "encoder" /\ TryDynBlock /\ UNCHANGED <<tablesVars, side>>

LevelNext == Decoder \/ Encoder

-----------------------------------------------------------------------------
(* Properties *)

\* The code of a number, and whether its repetitions fit into the bits it is written with.
SymbolOf(run) ==
  IF run.kind = "length" THEN run.level
  ELSE IF run.kind = "repeat" THEN TableLevelRepNumber
  ELSE IF run.num <= ZerosMax THEN TableLevel0Number ELSE TableLevel0Number2

HasBits(run) ==
  CASE run.kind = "length" -> TRUE
    [] run.kind = "repeat" -> run.num \in 3 .. RepeatMax
    [] run.kind = "zeros"  -> run.num \in 3 .. ManyZerosMax

\* What is written for a block stands, by the rule the decoder follows, for the code
\* lengths of the block; a number is written as often as it was counted, so that each
\* has got a code; and no repetition is too long for its bits.
NumbersSayTheLevels ==
  coded =>
    /\ Expansion(numbers) = Trimmed(encMain, EncMainMin) \o Trimmed(encDist, 1)
    /\ \A k \in 1 .. Len(numbers) : HasBits(numbers[k])
    /\ \A x \in LevelSymbols :
         levelFreqs[x] = Cardinality({k \in 1 .. Len(numbers) : SymbolOf(numbers[k]) = x})

=============================================================================
