---------------------------- MODULE HuffmanEncode ----------------------------
(***************************************************************************)
(* Huffman_Generate() (codec/HuffmanEncode.h, HuffmanEncode.cpp), which    *)
(* makes code lengths no longer than a limit, and codes, from the          *)
(* frequencies of symbols, and HeapSort() (Sort.cpp), by which it sorts    *)
(* the frequent ones.                                                      *)
(*                                                                         *)
(* An element of p packs a symbol into its low ten bits and a frequency,   *)
(* later the place of the parent in the tree, later a length, into the     *)
(* others.  The frequencies have to sum up to less than 2^22 for that, as  *)
(* the header says.  The packed parts are separate here.                   *)
(***************************************************************************)
EXTENDS Integers, FiniteSets, FiniteSetsExt

CONSTANTS
  EncSymbols,     \* numSymbols
  NUM_COUNTERS,   \* 64: symbols at least this frequent, less one, are sorted by HeapSort()
  Freqs,          \* the frequencies that occur
  MaxLens         \* the limits that occur

ASSUME EncodeAssumption ==
  /\ EncSymbols \in Nat /\ EncSymbols >= 2
  /\ NUM_COUNTERS \in Nat /\ NUM_COUNTERS >= 2
  /\ Freqs \subseteq Nat
  /\ \A m \in MaxLens : m \in Nat /\ EncSymbols <= 2 ^ m

VARIABLES
  freqs,    \* the frequencies the call is given
  maxLen,   \* and the limit, 0 before the call
  lens,     \* the lengths, 0: the symbol has got no code
  codes     \* the codes, first bit highest; p, as the call leaves it

encVars == <<freqs, maxLen, lens, codes>>

EncRange == 0 .. EncSymbols - 1

\* What nobody has written.
Garbage == -1

EncInit ==
  /\ freqs \in [EncRange -> Freqs] /\ maxLen = 0
  /\ lens = [s \in EncRange |-> Garbage] /\ codes = [s \in EncRange |-> Garbage]

-----------------------------------------------------------------------------
(* HeapSort(), of an array counted from 1 *)

GreaterChild(p, k, size) ==
  IF 2 * k < size /\ p[2 * k + 1] > p[2 * k] THEN 2 * k + 1 ELSE 2 * k

\* The hole is filled from below while there is a greater element than temp.
FilledFromBelow(hole, size, temp) ==
  LET s == GreaterChild(hole.p, hole.k, size) IN
  IF 2 * hole.k > size \/ temp >= hole.p[s] THEN hole
  ELSE [p |-> [hole.p EXCEPT ![hole.k] = hole.p[s]], k |-> s]

\* temp is put where the hole at k ends.
HeapSortDown(p, k, size, temp) ==
  LET hole[i \in 0 .. size] ==
        IF i = 0 THEN [p |-> p, k |-> k] ELSE FilledFromBelow(hole[i - 1], size, temp)
      end == hole[size]
  IN  [end.p EXCEPT ![end.k] = temp]

Heaped(p, size) ==
  LET half == size \div 2
      q[i \in 0 .. half] ==
        IF i = 0 THEN p
        ELSE HeapSortDown(q[i - 1], half - i + 1, size, q[i - 1][half - i + 1])
  IN  q[half]

\* The greatest of the first size elements goes to their end.
TakenOff(p, size) ==
  LET k == IF p[3] > p[2] THEN 3 ELSE 2
  IN  HeapSortDown([p EXCEPT ![size] = p[1], ![1] = p[k]], k, size - 1, p[size])

\* This goes on until three are left, of which the greatest is the first.
Unheaped(p, size) ==
  LET taken == IF size > 3 THEN size - 3 ELSE 0
      q[i \in 0 .. taken] == IF i = 0 THEN p ELSE TakenOff(q[i - 1], size - i + 1)
      r == q[taken]
      left == size - taken
  IN  IF left > 2 /\ r[2] < r[left]
        THEN [r EXCEPT ![left] = r[1], ![1] = r[2], ![2] = r[left]]
        ELSE [r EXCEPT ![left] = r[1], ![1] = r[left]]

HeapSort(p, size) == IF size <= 1 THEN p ELSE Unheaped(Heaped(p, size), size)

-----------------------------------------------------------------------------
(* The symbols that occur, in the order of their frequencies *)

Occurring(f) == {s \in EncRange : f[s] > 0}

Counter(freq) == IF freq < NUM_COUNTERS - 1 THEN freq ELSE NUM_COUNTERS - 1

\* Counting puts those of one counter side by side, in the order of the symbols.
Counted(f) ==
  [i \in 1 .. Cardinality(Occurring(f)) |->
     CHOOSE s \in Occurring(f) :
       i - 1 = Cardinality({t \in Occurring(f) :
                              Counter(f[t]) < Counter(f[s])
                                \/ (Counter(f[t]) = Counter(f[s]) /\ t < s)})]

\* What HeapSort() compares: the frequency above the symbol.
Packed(f, s) == f[s] * EncSymbols + s

Sorted(f) ==
  LET counted == Counted(f)
      num == Cardinality(Occurring(f))
      few == Cardinality({s \in Occurring(f) : f[s] < NUM_COUNTERS - 1})
      tail == HeapSort([i \in 1 .. num - few |-> Packed(f, counted[few + i])], num - few)
  IN  [i \in 1 .. num |->
         IF i <= few THEN counted[i] ELSE tail[i - few] % EncSymbols]

-----------------------------------------------------------------------------
(* The tree, in the place of the sorted frequencies *)

\* Mutant: of a symbol and a node of the same weight, the node is taken.
TakesSymbolLess(t, num) == t.i < num /\ (t.b = t.e \/ t.high[t.i] < t.high[t.b])

\* The symbols from i on and the nodes from b to e are left; of equal weights, the symbol.
TakesSymbol(t, num) == t.i < num /\ (t.b = t.e \/ t.high[t.i] <= t.high[t.b])

Lightest(t, num) == IF TakesSymbol(t, num) THEN t.i ELSE t.b

\* The lightest gets a parent, at e.
Joined(t, num) ==
  LET n == Lightest(t, num) IN
  [t EXCEPT !.high = [@ EXCEPT ![n] = t.e], !.sum = @ + t.high[n],
            !.i = IF TakesSymbol(t, num) THEN @ + 1 ELSE @,
            !.b = IF TakesSymbol(t, num) THEN @ ELSE @ + 1]

\* The two lightest get one, which is as heavy as both.
Paired(t, num) ==
  LET two == Joined(Joined([t EXCEPT !.sum = 0], num), num)
  IN  [two EXCEPT !.high = [@ EXCEPT ![t.e] = two.sum], !.e = @ + 1]

\* The places of the parents of the inner nodes: two are joined until one is left.
Tree(weights, num) ==
  LET t[k \in 0 .. num - 1] ==
        IF k = 0 THEN [i |-> 0, b |-> 0, e |-> 0, sum |-> 0, high |-> weights]
        ELSE Paired(t[k - 1], num)
  IN  t[num - 1].high

-----------------------------------------------------------------------------
(* The lengths *)

\* Where a leaf becomes an inner node: at its own depth, or at the deepest there is
\* above the limit.
Limited(len, counters, max) ==
  IF len < max THEN len
  ELSE CHOOSE l \in 1 .. max - 1 : counters[l] # 0 /\ \A k \in l + 1 .. max - 1 : counters[k] = 0

\* The depth of the inner node at e takes the place of its parent's, and it is a leaf no more.
Deepened(d, e, max) ==
  LET depth == d.high[d.high[e]] + 1
      len == Limited(depth, d.counters, max)
  IN  [high |-> [d.high EXCEPT ![e] = depth],
       counters |-> [d.counters EXCEPT ![len] = @ - 1, ![len + 1] = @ + 2]]

\* How many leaves there are of each depth: from the root down.
LenCounters(parents, num, max) ==
  LET d[k \in 0 .. num - 2] ==
        IF k = 0
          THEN [high |-> [parents EXCEPT ![num - 2] = 0],
                counters |-> [l \in 0 .. EncSymbols + max |-> IF l = 1 THEN 2 ELSE 0]]
        ELSE Deepened(d[k - 1], num - 2 - k, max)
  IN  d[num - 2].counters

Counters(f, max) ==
  LET sorted == Sorted(f)
      num == Cardinality(Occurring(f))
  IN  LenCounters(Tree([i \in 0 .. num - 1 |-> f[sorted[i + 1]]], num), num, max)

\* The longest go to the least frequent.
LensOf(f, max) ==
  LET sorted == Sorted(f)
      counters == Counters(f, max)
      Longer(l) == MapThenSumSet(LAMBDA k : counters[k], l + 1 .. max)
      Rank(s) == CHOOSE i \in 1 .. Cardinality(Occurring(f)) : sorted[i] = s
  IN  [s \in EncRange |->
         IF f[s] = 0 THEN 0
         ELSE CHOOSE l \in 1 .. max : Longer(l) < Rank(s) /\ Rank(s) <= Longer(l) + counters[l]]

\* Mutant: the first code of a length is that behind the last of the length before.
FirstCodeUnshifted(f, max) ==
  LET counters == Counters(f, max)
      code[l \in 1 .. max] == IF l = 1 THEN 0 ELSE code[l - 1] + counters[l - 1]
  IN  code

\* nextCodes, before any is given away.
FirstCode(f, max) ==
  LET counters == Counters(f, max)
      code[l \in 1 .. max] == IF l = 1 THEN 0 ELSE 2 * (code[l - 1] + counters[l - 1])
  IN  code

\* Symbols that do not occur get what is in nextCodes[0], which nobody sets.
CodesOf(f, max, ls) ==
  LET first == FirstCode(f, max) IN
  [s \in EncRange |->
     IF ls[s] = 0 THEN Garbage
     ELSE first[ls[s]] + Cardinality({t \in EncRange : t < s /\ ls[t] = ls[s]})]

\* The two symbols of a code of one bit, one of which occurs or none.
Lonely(f) ==
  {0} \cup {IF Occurring(f) \subseteq {0} THEN 1 ELSE CHOOSE s \in Occurring(f) : TRUE}

Huffman_Generate(f, max) ==
  /\ maxLen' = max
  /\ IF Cardinality(Occurring(f)) < 2
       THEN /\ lens' = [s \in EncRange |-> IF s \in Lonely(f) THEN 1 ELSE 0]
            /\ codes' = [s \in EncRange |->
                           IF s = 0 THEN 0 ELSE IF s \in Lonely(f) THEN 1 ELSE Garbage]
       ELSE LET ls == LensOf(f, max) IN lens' = ls /\ codes' = CodesOf(f, max, ls)

\* One call: no call reads what another has left.
EncNext ==
  /\ maxLen = 0
  /\ \E max \in MaxLens : Huffman_Generate(freqs, max)
  /\ UNCHANGED freqs

EncSpec == EncInit /\ [][EncNext]_encVars

-----------------------------------------------------------------------------
(* Properties *)

CodeShare(l) == IF l = 0 THEN 0 ELSE 2 ^ (maxLen - l)
Before(s) == {t \in EncRange : lens[t] # 0 /\ (lens[t] < lens[s] \/ (lens[t] = lens[s] /\ t < s))}

\* What the decoder of RFC 1951, 3.2.2, makes of the lengths are the codes: every symbol
\* that occurs has got one within the limit, the codes follow each other in the order of
\* their lengths and then of the symbols, and they leave nothing over, however the limit
\* had to bend the tree.
CodesAreCanonical ==
  maxLen # 0 =>
    /\ \A s \in EncRange : lens[s] \in 0 .. maxLen /\ (freqs[s] > 0 => lens[s] > 0)
    /\ MapThenSumSet(LAMBDA s : CodeShare(lens[s]), EncRange) = 2 ^ maxLen
    /\ \A s \in EncRange : lens[s] > 0 =>
         codes[s] * CodeShare(lens[s]) = MapThenSumSet(LAMBDA t : CodeShare(lens[t]), Before(s))

\* The lengths of n codes that leave nothing over, longest first: the best order for
\* symbols in the order of their frequencies.
CompleteLengths(n) ==
  {l \in [1 .. n -> 1 .. n - 1] :
     /\ \A i \in 1 .. n - 1 : l[i] >= l[i + 1]
     /\ MapThenSumSet(LAMBDA i : 2 ^ (n - 1 - l[i]), 1 .. n) = 2 ^ (n - 1)}

Codes == [n \in 2 .. EncSymbols |-> CompleteLengths(n)]

\* What is encoded is as short as any code can make it, whenever one of the best codes
\* keeps the limit; and if none does, no symbol has got a longer code than one that is
\* less frequent.
ShortestWithinLimit ==
  LET occurring == Sorted(freqs)
      n == Cardinality(Occurring(freqs))
      Cost(l) == MapThenSumSet(LAMBDA i : l[i] * freqs[occurring[i]], 1 .. n)
      best == Min({Cost(l) : l \in Codes[n]})
      mine == [i \in 1 .. n |-> lens[occurring[i]]]
  IN  maxLen # 0 /\ Cardinality(Occurring(freqs)) >= 2 =>
        /\ (\E l \in Codes[n] : Cost(l) = best /\ \A i \in 1 .. n : l[i] <= maxLen)
              => Cost(mine) = best
        /\ \A s, t \in Occurring(freqs) : freqs[s] > freqs[t] => lens[s] <= lens[t]

=============================================================================
