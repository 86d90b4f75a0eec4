---------------------------- MODULE HuffmanDecoder ----------------------------
(***************************************************************************)
(* HuffmanDecoder (codec/HuffmanDecoder.h): decodes canonical Huffman      *)
(* codes with a table for short codes and limits for long ones.  A decoder *)
(* is used for one set of code lengths after the other, and what an        *)
(* earlier one left in the table stays there.  The next bits of the stream *)
(* are the number they make, first bit highest.                            *)
(***************************************************************************)
EXTENDS Integers, FiniteSetsExt

CONSTANTS
  MAX_BITS,             \* 15
  HUFFMAN_TABLE_BITS,   \* 9
  NR_SYMBOLS,           \* 288, 32 and 19
  Lengths,              \* the code lengths that occur
  MaxUses               \* bound: calls of setCodeLengths()

ASSUME HuffmanAssumption ==
  /\ HUFFMAN_TABLE_BITS \in Nat \ {0}
  /\ MAX_BITS \in Nat /\ HUFFMAN_TABLE_BITS < MAX_BITS
  /\ NR_SYMBOLS \in Nat \ {0}
  /\ Lengths \subseteq Nat
  /\ MaxUses \in Nat

VARIABLES
  mLimits,      \* mLimits[i]: behind the values that begin with a code of i bits
  mPositions,   \* mPositions[i]: the index in mSymbols of the first one
  mSymbols,
  mLengths,     \* the length of a short code, by the HUFFMAN_TABLE_BITS it begins
  codeLengths,  \* the code lengths that were set
  state,        \* "new", "ready", "corrupted" by setCodeLengths()
  uses

tables == <<mLimits, mPositions, mSymbols, mLengths>>
vars == <<tables, codeLengths, state, uses>>

Symbols == 0 .. NR_SYMBOLS - 1
Values == 0 .. 2 ^ MAX_BITS - 1
Invalid == -1          \* 0xFFFFFFFF, which no caller accepts, or CorruptedError

TypeOK ==
  /\ mLimits \in [0 .. MAX_BITS -> 0 .. 2 ^ MAX_BITS]
  /\ mPositions \in [0 .. MAX_BITS -> 0 .. NR_SYMBOLS]
  /\ mSymbols \in [Symbols -> Symbols \cup {Invalid}]
  /\ mLengths \in [0 .. 2 ^ HUFFMAN_TABLE_BITS - 1 -> 0 .. HUFFMAN_TABLE_BITS]
  /\ codeLengths \in [Symbols -> Lengths \cup {0}]
  /\ state \in {"new", "ready", "corrupted"}
  /\ uses \in Nat

Init ==
  /\ mLimits = [i \in 0 .. MAX_BITS |-> 0]
  /\ mPositions = [i \in 0 .. MAX_BITS |-> 0]
  /\ mSymbols = [s \in Symbols |-> Invalid]
  /\ mLengths = [k \in 0 .. 2 ^ HUFFMAN_TABLE_BITS - 1 |-> 0]
  /\ codeLengths = [s \in Symbols |-> 0]
  /\ state = "new" /\ uses = 0

-----------------------------------------------------------------------------
(* setCodeLengths() *)

LenCount(lens, i) == Cardinality({s \in Symbols : lens[s] = i /\ i > 0})

\* startPos after the round for length i.
StartPos(lens) ==
  LET f[i \in 0 .. MAX_BITS] ==
        IF i = 0 THEN 0 ELSE f[i - 1] + LenCount(lens, i) * 2 ^ (MAX_BITS - i)
  IN  f

Limits(lens) == [StartPos(lens) EXCEPT ![MAX_BITS] = 2 ^ MAX_BITS]

Positions(lens) ==
  LET f[i \in 0 .. MAX_BITS] == IF i = 0 THEN 0 ELSE f[i - 1] + LenCount(lens, i - 1)
  IN  f

\* Where symbol s is put, behind those of shorter codes and of smaller symbols.
Place(lens, s) ==
  Positions(lens)[lens[s]] + Cardinality({t \in Symbols : t < s /\ lens[t] = lens[s]})

\* Mutant: an entry written for an earlier code is left alone.
FilledOnce(lens, last) ==
  [k \in DOMAIN mLengths |->
     LET fits == {i \in 1 .. last :
                    k < Limits(lens)[i] \div 2 ^ (MAX_BITS - HUFFMAN_TABLE_BITS)}
     IN  IF fits = {} \/ mLengths[k] # 0 THEN mLengths[k] ELSE Min(fits)]

\* mLengths behind the rounds up to last: only entries below the limits are written.
Filled(lens, last) ==
  [k \in DOMAIN mLengths |->
     LET fits == {i \in 1 .. last :
                    k < Limits(lens)[i] \div 2 ^ (MAX_BITS - HUFFMAN_TABLE_BITS)}
     IN  IF fits = {} THEN mLengths[k] ELSE Min(fits)]

Lesser(a, b) == IF a < b THEN a ELSE b

\* Mutant: too many codes are not noticed before the last round.
OverflowsLate(lens) == {i \in {MAX_BITS} : StartPos(lens)[i] - 1 > 2 ^ MAX_BITS}

\* The rounds in which startPos passes MaxValue.
Overflows(lens) == {i \in 1 .. MAX_BITS : StartPos(lens)[i] > 2 ^ MAX_BITS}

TooLong(lens) == {s \in Symbols : lens[s] > MAX_BITS}

\* The loops run to their end.
SetCodeLengths(lens) ==
  /\ TooLong(lens) = {} /\ Overflows(lens) = {}
  /\ mLimits' = Limits(lens)
  /\ mPositions' = Positions(lens)
  /\ mSymbols' = [p \in Symbols |->
                    LET here == {s \in Symbols : lens[s] # 0 /\ Place(lens, s) = p}
                    IN  IF here = {} THEN Invalid ELSE Max(here)]
  /\ mLengths' = Filled(lens, HUFFMAN_TABLE_BITS)
  /\ state' = "ready"
  /\ codeLengths' = lens /\ uses' = uses + 1

\* CorruptedError out of the first loop: symbols before the bad one are cleared.
LengthTooLong(lens) ==
  /\ TooLong(lens) # {}
  /\ mSymbols' = [s \in Symbols |-> IF s < Min(TooLong(lens)) THEN Invalid ELSE mSymbols[s]]
  /\ state' = "corrupted"
  /\ codeLengths' = lens /\ uses' = uses + 1
  /\ UNCHANGED <<mLimits, mPositions, mLengths>>

\* CorruptedError out of the second loop: the rounds before are done.
TooManyCodes(lens) ==
  /\ TooLong(lens) = {} /\ Overflows(lens) # {}
  /\ LET done == Min(Overflows(lens)) - 1 IN
       /\ mLimits' = [i \in DOMAIN mLimits |-> IF i <= done THEN Limits(lens)[i] ELSE mLimits[i]]
       /\ mPositions' =
            [i \in DOMAIN mPositions |-> IF i <= done THEN Positions(lens)[i] ELSE mPositions[i]]
       /\ mLengths' = Filled(lens, Lesser(done, HUFFMAN_TABLE_BITS))
  /\ mSymbols' = [s \in Symbols |-> Invalid]
  /\ state' = "corrupted"
  /\ codeLengths' = lens /\ uses' = uses + 1

-----------------------------------------------------------------------------
(* decodeSymbol() *)

NumBits(value) ==
  IF value < mLimits[HUFFMAN_TABLE_BITS]
    THEN mLengths[value \div 2 ^ (MAX_BITS - HUFFMAN_TABLE_BITS)]
    ELSE Min({n \in HUFFMAN_TABLE_BITS + 1 .. MAX_BITS : value < mLimits[n]})

SymbolIndex(value, numBits) ==
  mPositions[numBits] + (value - mLimits[numBits - 1]) \div 2 ^ (MAX_BITS - numBits)

\* decodeSymbol() when value is what peekSymbol() yields: the symbol, and how many bits
\* are consumed.  The tables stay as they are.
DecodeSymbol(value) ==
  LET numBits == NumBits(value)
      index   == SymbolIndex(value, numBits)
  IN  [numBits |-> numBits,
       symbol |-> IF index >= NR_SYMBOLS THEN Invalid ELSE mSymbols[index]]

Next ==
  /\ uses < MaxUses
  /\ \E lens \in [Symbols -> Lengths] :
       SetCodeLengths(lens) \/ LengthTooLong(lens) \/ TooManyCodes(lens)

Spec == Init /\ [][Next]_vars

-----------------------------------------------------------------------------
(* Properties *)

\* RFC 1951, 3.2.2, in closed form: the codes, shorter ones first and of one length
\* in the order of the symbols, follow each other without a gap.
HasCode(s) == codeLengths[s] # 0
Precedes(t, s) ==
  HasCode(t) /\ (codeLengths[t] < codeLengths[s] \/ (codeLengths[t] = codeLengths[s] /\ t < s))
Share(s) == 2 ^ (MAX_BITS - codeLengths[s])
FirstValue(s) == MapThenSumSet(Share, {t \in Symbols : Precedes(t, s)})
BeginsWith(value, s) ==
  HasCode(s) /\ FirstValue(s) <= value /\ value < FirstValue(s) + Share(s)

\* Whatever codes the decoder was used for before, a value is decoded to the symbol
\* whose canonical code it begins with, consuming this code and no more; a value that
\* begins with no code yields no symbol.
DecodesCanonical ==
  state = "ready" => \A value \in Values :
    \/ \E s \in Symbols : /\ BeginsWith(value, s)
                          /\ DecodeSymbol(value) = [numBits |-> codeLengths[s], symbol |-> s]
    \/ /\ \A s \in Symbols : ~BeginsWith(value, s)
       /\ DecodeSymbol(value).symbol = Invalid

\* Code lengths are refused exactly when no prefix code has them.
RefusesOversubscribed ==
  state # "new" =>
    (state = "corrupted" <=>
       \/ \E s \in Symbols : codeLengths[s] > MAX_BITS
       \/ MapThenSumSet(Share, {s \in Symbols : HasCode(s)}) > 2 ^ MAX_BITS)

=============================================================================
