--------------------------- MODULE Huffman_proofs ---------------------------
(***************************************************************************)
(* Proofs about HuffmanDecoder, for all sizes of codes and tables, about   *)
(* Huffman_Generate(), for all numbers of symbols and all frequencies and  *)
(* limits, and about both together.                                        *)
(*                                                                         *)
(* The heap sort only rearranges.  In the tree that is built in place      *)
(* parents come in the order of their children and have two at most, so    *)
(* that going down it the leaves of every depth are counted, and whenever  *)
(* a leaf has to be split above the limit there is one.  Therefore the     *)
(* lengths that are given away by rank fill a code, and the codes follow   *)
(* each other.                                                             *)
(***************************************************************************)
EXTENDS Huffman, FiniteSetTheorems, WellFoundedInduction, TLAPS

\* A set of numbers has a least one, by which follows what holds for all of them.
LEMMA LeastNumber ==
  ASSUME NEW T, T \subseteq Nat, T # {}
  PROVE  \E n \in T : \A k \in T : n <= k
<1> DEFINE R == {p \in Nat \X Nat : p[1] < p[2]}
<1>1. IsWellFoundedOn(R, Nat)
  BY NatLessThanWellFounded DEF OpToRel
<1>2. \E x \in T : \A y \in T : ~(<<y, x>> \in R)
  BY <1>1, WFMin
<1>3. \A k, n \in Nat : ~(<<k, n>> \in R) => n <= k
  OBVIOUS
<1> HIDE DEF R
<1> QED BY <1>2, <1>3

-----------------------------------------------------------------------------
(* Numbers *)

\* 2 ^ n counts subsets, from which follows that it doubles.
LEMMA SubsetsOfMore ==
  ASSUME NEW S, NEW x, x \notin S, IsFiniteSet(S)
  PROVE  Cardinality(SUBSET (S \cup {x})) = Cardinality(SUBSET S) + Cardinality(SUBSET S)
<1> DEFINE With == {T \cup {x} : T \in SUBSET S}
           f == [T \in SUBSET S |-> T \cup {x}]
<1>1. IsFiniteSet(SUBSET S)
  BY FS_SUBSET
<1> HIDE DEF f
<1>2. SUBSET (S \cup {x}) = (SUBSET S) \cup With
  <2>1. ASSUME NEW U \in SUBSET (S \cup {x}) PROVE U \in (SUBSET S) \cup With
    <3>1. CASE x \in U
      <4>1. U \ {x} \in SUBSET S /\ U = (U \ {x}) \cup {x}
        BY <3>1
      <4>2. \E T \in SUBSET S : U = T \cup {x}
        BY <4>1
      <4> QED BY <4>2
    <3>2. CASE x \notin U
      <4>1. U \in SUBSET S
        BY <3>2
      <4> QED BY <4>1
    <3> QED BY <3>1, <3>2
  <2>2. ASSUME NEW U \in (SUBSET S) \cup With PROVE U \in SUBSET (S \cup {x})
    <3>1. CASE U \in SUBSET S
      BY <3>1
    <3>2. CASE U \in With
      <4>1. PICK T \in SUBSET S : U = T \cup {x}
        BY <3>2, Zenon
      <4> QED BY <4>1
    <3> HIDE DEF With
    <3> QED BY <3>1, <3>2, Zenon
  <2> HIDE DEF With
  <2>3. \A U : U \in SUBSET (S \cup {x}) <=> U \in (SUBSET S) \cup With
    BY <2>1, <2>2, Zenon
  <2> QED BY <2>3, Zenon
<1>3. (SUBSET S) \cap With = {}
  <2>1. ASSUME NEW U \in SUBSET S, U \in With PROVE FALSE
    <3>1. PICK T \in SUBSET S : U = T \cup {x}
      BY <2>1, Zenon
    <3>2. x \in U
      BY <3>1
    <3> QED BY <3>2
  <2> HIDE DEF With
  <2> QED BY <2>1, Zenon
<1> USE DEF f
<1>4. f \in Bijection(SUBSET S, With)
  <2>1. f \in [SUBSET S -> With]
    OBVIOUS
  <2>2. \A T, U \in SUBSET S : f[T] = f[U] => T = U
    <3>1. SUFFICES ASSUME NEW T \in SUBSET S, NEW U \in SUBSET S, T \cup {x} = U \cup {x}
                   PROVE T = U
      OBVIOUS
    <3>2. \A y : y \in T => y \in U
      BY <3>1
    <3>3. \A y : y \in U => y \in T
      BY <3>1
    <3> QED BY <3>2, <3>3
  <2>3. \A U \in With : \E T \in SUBSET S : f[T] = U
    OBVIOUS
  <2> HIDE DEF f, With
  <2> QED BY <2>1, <2>2, <2>3 DEF Bijection, Injection, IsInjective, Surjection
<1> HIDE DEF With
<1>5. IsFiniteSet(With) /\ Cardinality(With) = Cardinality(SUBSET S)
  <2> HIDE DEF f
  <2> QED BY <1>1, <1>4, FS_Bijection DEF ExistsBijection
<1>6. Cardinality((SUBSET S) \cup With)
        = Cardinality(SUBSET S) + Cardinality(With) - Cardinality((SUBSET S) \cap With)
  <2> DEFINE P == SUBSET S
  <2>1. IsFiniteSet(P) /\ IsFiniteSet(With)
    BY <1>1, <1>5
  <2> HIDE DEF P
  <2>2. Cardinality(P \cup With) = Cardinality(P) + Cardinality(With) - Cardinality(P \cap With)
    BY <2>1, FS_Union
  <2> QED BY <2>2 DEF P
<1>7. Cardinality((SUBSET S) \cap With) = 0
  BY <1>3, FS_EmptySet, Zenon
<1>8. Cardinality(SUBSET S) \in Nat
  BY <1>1, FS_CardinalityType
<1>9. Cardinality((SUBSET S) \cup With) = Cardinality(SUBSET S) + Cardinality(SUBSET S)
  <2> DEFINE a == Cardinality((SUBSET S) \cup With)
             b == Cardinality(SUBSET S)
             c == Cardinality(With)
             d == Cardinality((SUBSET S) \cap With)
  <2>1. a = b + c - d /\ d = 0 /\ b \in Nat /\ c = b
    BY <1>5, <1>6, <1>7, <1>8
  <2> HIDE DEF a, b, c, d
  <2>2. a = b + b
    BY <2>1
  <2> QED BY <2>2 DEF a, b
<1> QED BY <1>2, <1>9, Zenon

LEMMA PowerDoubles == \A n \in Nat : 2 ^ n \in Nat /\ 2 ^ (n + 1) = 2 ^ n + 2 ^ n
<1> SUFFICES ASSUME NEW n \in Nat PROVE 2 ^ n \in Nat /\ 2 ^ (n + 1) = 2 ^ n + 2 ^ n
  OBVIOUS
<1>1. /\ IsFiniteSet(1 .. n) /\ Cardinality(1 .. n) = IF 1 > n THEN 0 ELSE n - 1 + 1
      /\ IsFiniteSet(1 .. n + 1)
      /\ Cardinality(1 .. n + 1) = IF 1 > n + 1 THEN 0 ELSE n + 1 - 1 + 1
  BY FS_Interval
<1>2. Cardinality(1 .. n) = n /\ Cardinality(1 .. n + 1) = n + 1
  BY <1>1
<1>3. /\ IsFiniteSet(SUBSET (1 .. n)) /\ Cardinality(SUBSET (1 .. n)) = 2 ^ n
      /\ Cardinality(SUBSET (1 .. n + 1)) = 2 ^ (n + 1)
  BY <1>1, <1>2, FS_SUBSET
<1>4. 1 .. n + 1 = (1 .. n) \cup {n + 1} /\ n + 1 \notin 1 .. n
  OBVIOUS
<1>5. Cardinality(SUBSET (1 .. n)) \in Nat
  BY <1>3, FS_CardinalityType
<1> QED BY <1>1, <1>3, <1>4, <1>5, SubsetsOfMore

LEMMA PowerZero == 2 ^ 0 = 1
OBVIOUS

LEMMA PowerPositive == \A n \in Nat : 2 ^ n \in Nat /\ 2 ^ n > 0
<1> DEFINE T == {n \in Nat : ~(2 ^ n > 0)}
<1>1. ASSUME NEW n \in T, \A k \in T : n <= k PROVE FALSE
  <2>1. CASE n = 0
    <3>1. 2 ^ n = 1
      BY <2>1, PowerZero
    <3> QED BY <3>1
  <2>2. CASE n # 0
    <3>1. n - 1 \in Nat /\ n = (n - 1) + 1 /\ ~(n <= n - 1)
      BY <2>2
    <3>2. 2 ^ (n - 1) > 0
      BY <1>1, <3>1
    <3>3. 2 ^ (n - 1) \in Nat /\ 2 ^ ((n - 1) + 1) = 2 ^ (n - 1) + 2 ^ (n - 1)
      BY <3>1, PowerDoubles
    <3>4. 2 ^ n = 2 ^ (n - 1) + 2 ^ (n - 1)
      BY <3>1, <3>3
    <3>5. 2 ^ n > 0
      BY <3>2, <3>3, <3>4
    <3> QED BY <3>5
  <2> QED BY <2>1, <2>2
<1>2. T \subseteq Nat
  OBVIOUS
<1>3. T = {}
  <2> HIDE DEF T
  <2> QED BY <1>1, <1>2, LeastNumber
<1> QED BY <1>3, PowerDoubles

LEMMA PowerProduct == \A m, n \in Nat : 2 ^ (m + n) = 2 ^ n * 2 ^ m
<1> SUFFICES ASSUME NEW m \in Nat PROVE \A n \in Nat : 2 ^ (m + n) = 2 ^ n * 2 ^ m
  OBVIOUS
<1> DEFINE T == {n \in Nat : ~(2 ^ (m + n) = 2 ^ n * 2 ^ m)}
           p == 2 ^ m
<1>1. p \in Nat
  BY PowerDoubles
<1>2. ASSUME NEW n \in T, \A k \in T : n <= k PROVE FALSE
  <2>1. CASE n = 0
    <3>1. m + n = m /\ 2 ^ n = 1
      BY <2>1, PowerZero
    <3>2. 2 ^ (m + n) = p /\ 2 ^ n * p = 1 * p
      BY <3>1
    <3>3. 1 * p = p
      <4> HIDE DEF p
      <4> QED BY <1>1
    <3> QED BY <3>2, <3>3
  <2>2. CASE n # 0
    <3>1. n - 1 \in Nat /\ m + n = (m + (n - 1)) + 1 /\ m + (n - 1) \in Nat
          /\ ~(n <= n - 1) /\ n = (n - 1) + 1
      BY <2>2
    <3> DEFINE q == 2 ^ (n - 1)
               r == 2 ^ (m + (n - 1))
    <3>2. r = q * p
      BY <1>2, <3>1
    <3>3. 2 ^ (m + n) = r + r /\ 2 ^ n = q + q /\ q \in Nat
      <4>1. 2 ^ ((m + (n - 1)) + 1) = r + r /\ 2 ^ ((n - 1) + 1) = q + q /\ q \in Nat
        BY <3>1, PowerDoubles
      <4> QED BY <3>1, <4>1
    <3>4. ~(2 ^ (m + n) = 2 ^ n * p)
      OBVIOUS
    <3> HIDE DEF p, q, r
    <3>5. q * p + q * p = (q + q) * p
      BY <1>1, <3>3
    <3> QED BY <3>2, <3>3, <3>4, <3>5
  <2> QED BY <2>1, <2>2
<1>3. T \subseteq Nat
  OBVIOUS
<1>4. T = {}
  <2> HIDE DEF T
  <2> QED BY <1>2, <1>3, LeastNumber
<1> QED BY <1>4

\* What a quotient says.
LEMMA Quotient ==
  ASSUME NEW v \in Nat, NEW q \in Nat, q > 0
  PROVE  /\ v \div q \in Nat
         /\ (v \div q) * q <= v /\ v < (v \div q + 1) * q
<1> DEFINE d == v \div q
<1>1. d \in Nat
  OBVIOUS
<1>2. q * d <= v
  OBVIOUS
<1>3. v < q * d + q
  OBVIOUS
<1> HIDE DEF d
<1>4. d * q = q * d /\ (d + 1) * q = q * d + q
  BY <1>1
<1>5. d \in Nat /\ d * q <= v /\ v < (d + 1) * q
  BY <1>1, <1>2, <1>3, <1>4
<1> QED BY <1>5 DEF d

\* Products keep the order of their factors.
LEMMA Products ==
  ASSUME NEW a \in Nat, NEW b \in Nat, NEW q \in Nat
  PROVE  /\ a * q \in Nat /\ (a + 1) * q = a * q + q
         /\ a <= b => a * q <= b * q
         /\ (a + b) * q = a * q + b * q
OBVIOUS

\* A quotient is below a number if the dividend is below its multiple.
LEMMA QuotientBelow ==
  ASSUME NEW v \in Nat, NEW q \in Nat, q > 0, NEW c \in Nat
  PROVE  v \div q < c <=> v < c * q
<1> DEFINE d == v \div q
<1>1. d \in Nat /\ d * q <= v /\ v < (d + 1) * q
  BY Quotient
<1> HIDE DEF d
<1>2. d * q \in Nat /\ c * q \in Nat /\ (d + 1) * q \in Nat
  BY <1>1, Products
<1>3. d < c => (d + 1) * q <= c * q
  BY <1>1, Products
<1>4. ~(d < c) => c * q <= d * q
  BY <1>1, Products
<1>5. d < c <=> v < c * q
  BY <1>1, <1>2, <1>3, <1>4
<1> QED BY <1>5 DEF d

\* A multiple divided.
LEMMA QuotientOfMultiple ==
  ASSUME NEW q \in Nat, q > 0, NEW c \in Nat
  PROVE  (c * q) \div q = c
<1> DEFINE v == c * q
           d == v \div q
<1>1. v \in Nat
  BY Products
<1> HIDE DEF v
<1>2. d \in Nat /\ d * q <= v /\ v < (d + 1) * q
  BY <1>1, Quotient
<1> HIDE DEF d
<1>3. c < d => (c + 1) * q <= d * q
  BY <1>2, Products
<1>4. d < c => (d + 1) * q <= c * q
  BY <1>2, Products
<1>5. (c + 1) * q = v + q /\ v = c * q /\ (c + 1) * q \in Int /\ d * q \in Int
      /\ (d + 1) * q \in Int
  BY <1>2, Products DEF v
<1>6. d = c
  BY <1>1, <1>2, <1>3, <1>4, <1>5
<1> QED BY <1>6 DEF d, v

-----------------------------------------------------------------------------
(* Areas: a code of n bits covers the 2 ^ (MAX_BITS - n) values that begin with it.  What *)
(* codes cover is counted as cells, one for each code and each value it covers.           *)

\* Code lengths none of which is too long.
Fitting == [Symbols -> 0 .. MAX_BITS]

Covers(given, s) == 2 ^ (MAX_BITS - given[s])
Cells(given, T) == {p \in T \X Values : p[2] < Covers(given, p[1])}
Area(given, T) == Cardinality(Cells(given, T))

LEMMA Sizes ==
  /\ MAX_BITS \in Nat /\ MAX_BITS >= 2 /\ HUFFMAN_TABLE_BITS \in 1 .. MAX_BITS - 1
  /\ NR_SYMBOLS \in Nat /\ NR_SYMBOLS >= 1
  /\ 2 ^ MAX_BITS \in Nat /\ 2 ^ MAX_BITS > 0
  /\ IsFiniteSet(Symbols) /\ IsFiniteSet(Values) /\ Symbols \subseteq Nat
<1>1. /\ MAX_BITS \in Nat /\ MAX_BITS >= 2 /\ HUFFMAN_TABLE_BITS \in 1 .. MAX_BITS - 1
      /\ NR_SYMBOLS \in Nat /\ NR_SYMBOLS >= 1
  BY HuffmanAssumption
<1>2. 2 ^ MAX_BITS \in Nat /\ 2 ^ MAX_BITS > 0
  BY <1>1, PowerPositive
<1>3. IsFiniteSet(Symbols) /\ Symbols \subseteq Nat
  <2>1. 0 \in Int /\ NR_SYMBOLS - 1 \in Int
    BY <1>1
  <2> QED BY <1>1, <2>1, FS_Interval DEF Symbols
<1>4. IsFiniteSet(Values)
  <2>1. 0 \in Int /\ 2 ^ MAX_BITS - 1 \in Int
    BY <1>2
  <2> QED BY <2>1, FS_Interval DEF Values
<1> QED BY <1>1, <1>2, <1>3, <1>4

\* No code covers more values than there are.
LEMMA PowerBelow ==
  \A i \in 0 .. MAX_BITS :
    /\ MAX_BITS - i \in Nat
    /\ 2 ^ (MAX_BITS - i) \in Nat /\ 2 ^ (MAX_BITS - i) > 0
    /\ 2 ^ (MAX_BITS - i) <= 2 ^ MAX_BITS
<1> SUFFICES ASSUME NEW i \in 0 .. MAX_BITS
             PROVE  /\ MAX_BITS - i \in Nat
                    /\ 2 ^ (MAX_BITS - i) \in Nat /\ 2 ^ (MAX_BITS - i) > 0
                    /\ 2 ^ (MAX_BITS - i) <= 2 ^ MAX_BITS
  OBVIOUS
<1> DEFINE m == MAX_BITS - i
           p == 2 ^ m
           q == 2 ^ i
<1>1. m \in Nat /\ i \in Nat /\ m + i = MAX_BITS
  BY Sizes
<1>2. p \in Nat /\ p > 0 /\ q \in Nat /\ q > 0
  <2> HIDE DEF m
  <2> QED BY <1>1, PowerPositive
<1>3. 2 ^ (m + i) = q * p
  <2> HIDE DEF m
  <2> QED BY <1>1, PowerProduct
<1>4. 2 ^ MAX_BITS = q * p
  BY <1>1, <1>3
<1> HIDE DEF m, p, q
<1>5. 1 * p <= q * p /\ 1 * p = p
  BY <1>2, Products
<1>6. p <= 2 ^ MAX_BITS
  BY <1>4, <1>5
<1> QED BY <1>1, <1>2, <1>6 DEF p, m

LEMMA CoversLemma ==
  ASSUME NEW given \in Fitting, NEW s \in Symbols
  PROVE  /\ given[s] \in 0 .. MAX_BITS
         /\ Covers(given, s) \in Nat /\ Covers(given, s) > 0 /\ Covers(given, s) <= 2 ^ MAX_BITS
<1>1. given[s] \in 0 .. MAX_BITS
  BY DEF Fitting
<1> QED BY <1>1, PowerBelow DEF Covers

LEMMA CellsFinite ==
  ASSUME NEW given, NEW T \in SUBSET Symbols
  PROVE  IsFiniteSet(T) /\ IsFiniteSet(Cells(given, T)) /\ Area(given, T) \in Nat
<1>1. IsFiniteSet(T)
  BY Sizes, FS_Subset
<1>2. IsFiniteSet(T \X Values)
  BY <1>1, Sizes, FS_Product
<1>3. Cells(given, T) \in SUBSET (T \X Values)
  BY DEF Cells
<1>4. IsFiniteSet(Cells(given, T))
  BY <1>2, <1>3, FS_Subset
<1> QED BY <1>1, <1>4, FS_CardinalityType DEF Area

LEMMA AreaEmpty == ASSUME NEW given PROVE Area(given, {}) = 0
<1>1. Cells(given, {}) = {}
  BY DEF Cells
<1> QED BY <1>1, FS_EmptySet DEF Area

LEMMA AreaUnion ==
  ASSUME NEW given, NEW T \in SUBSET Symbols, NEW U \in SUBSET Symbols, T \cap U = {}
  PROVE  Area(given, T \cup U) = Area(given, T) + Area(given, U)
<1> DEFINE A == Cells(given, T)
           B == Cells(given, U)
<1>1. IsFiniteSet(A) /\ IsFiniteSet(B) /\ Cardinality(A) \in Nat /\ Cardinality(B) \in Nat
  BY CellsFinite, FS_CardinalityType
<1>2. Cells(given, T \cup U) = A \cup B /\ A \cap B = {}
  BY DEF Cells
<1> HIDE DEF A, B
<1>3. Cardinality(A \cup B) = Cardinality(A) + Cardinality(B) - Cardinality(A \cap B)
  BY <1>1, FS_Union
<1>4. Cardinality(A \cap B) = 0
  BY <1>2, FS_EmptySet
<1>5. Cardinality(A \cup B) = Cardinality(A) + Cardinality(B)
  BY <1>1, <1>3, <1>4
<1> QED BY <1>2, <1>5 DEF Area, A, B

LEMMA AreaMonotone ==
  ASSUME NEW given, NEW U \in SUBSET Symbols, NEW T \in SUBSET U
  PROVE  Area(given, T) <= Area(given, U)
<1>1. Cells(given, T) \in SUBSET Cells(given, U) /\ IsFiniteSet(Cells(given, U))
  BY CellsFinite DEF Cells
<1> QED BY <1>1, FS_Subset DEF Area

\* Codes of one length cover the same number of values each.
LEMMA AreaOfLength ==
  ASSUME NEW given \in Fitting, NEW T \in SUBSET Symbols, NEW i \in 0 .. MAX_BITS,
         \A s \in T : given[s] = i
  PROVE  Area(given, T) = Cardinality(T) * 2 ^ (MAX_BITS - i)
<1> DEFINE p == 2 ^ (MAX_BITS - i)
           V == 0 .. p - 1
<1>1. p \in Nat /\ p > 0 /\ p <= 2 ^ MAX_BITS /\ 2 ^ MAX_BITS \in Nat
  BY PowerBelow, Sizes
<1>2. \A s \in T : Covers(given, s) = p
  BY DEF Covers
<1> HIDE DEF p
<1>3. IsFiniteSet(V) /\ Cardinality(V) = p
  <2>1. 0 \in Int /\ p - 1 \in Int
    BY <1>1
  <2>2. /\ IsFiniteSet(0 .. p - 1)
        /\ Cardinality(0 .. p - 1) = IF 0 > p - 1 THEN 0 ELSE p - 1 - 0 + 1
    BY <2>1, FS_Interval
  <2> QED BY <1>1, <2>2
<1>4. V \subseteq Values /\ \A v \in Values : v < p <=> v \in V
  BY <1>1 DEF Values
<1> HIDE DEF V
<1>5. Cells(given, T) = T \X V
  BY <1>2, <1>4 DEF Cells
<1>6. Cardinality(T \X V) = Cardinality(T) * Cardinality(V)
  BY <1>3, CellsFinite, FS_Product
<1> QED BY <1>3, <1>5, <1>6 DEF Area, p

LEMMA AreaOfOne ==
  ASSUME NEW given \in Fitting, NEW s \in Symbols
  PROVE  Area(given, {s}) = Covers(given, s)
<1>1. given[s] \in 0 .. MAX_BITS /\ Covers(given, s) \in Nat
  BY CoversLemma
<1>2. Area(given, {s}) = Cardinality({s}) * 2 ^ (MAX_BITS - given[s])
  BY <1>1, AreaOfLength
<1>3. Cardinality({s}) = 1
  BY FS_Singleton
<1> QED BY <1>1, <1>2, <1>3 DEF Covers

-----------------------------------------------------------------------------
(* What the loops of setCodeLengths() sum up *)

\* The symbols whose codes have at most i bits, and those whose codes have i.
UpTo(given, i) == {s \in Symbols : 0 < given[s] /\ given[s] <= i}
Of(given, i) == {s \in Symbols : given[s] = i /\ i > 0}

LEMMA UpToLemma ==
  ASSUME NEW given \in Fitting
  PROVE  /\ UpTo(given, 0) = {}
         /\ UpTo(given, MAX_BITS) = {s \in Symbols : given[s] # 0}
         /\ \A i \in 0 .. MAX_BITS : /\ UpTo(given, i) \in SUBSET Symbols
                                     /\ Of(given, i) \in SUBSET Symbols
         /\ \A i \in 1 .. MAX_BITS : /\ UpTo(given, i) = UpTo(given, i - 1) \cup Of(given, i)
                                     /\ UpTo(given, i - 1) \cap Of(given, i) = {}
         /\ \A i, j \in 0 .. MAX_BITS : i <= j => UpTo(given, i) \subseteq UpTo(given, j)
<1>1. \A s \in Symbols : given[s] \in 0 .. MAX_BITS
  BY DEF Fitting
<1>2. MAX_BITS \in Nat
  BY Sizes
<1>3. UpTo(given, 0) = {} /\ UpTo(given, MAX_BITS) = {s \in Symbols : given[s] # 0}
  BY <1>1, <1>2 DEF UpTo
<1>4. \A i \in 0 .. MAX_BITS : /\ UpTo(given, i) \in SUBSET Symbols
                               /\ Of(given, i) \in SUBSET Symbols
  BY DEF UpTo, Of
<1>5. \A i \in 1 .. MAX_BITS : /\ UpTo(given, i) = UpTo(given, i - 1) \cup Of(given, i)
                               /\ UpTo(given, i - 1) \cap Of(given, i) = {}
  <2>1. SUFFICES ASSUME NEW i \in 1 .. MAX_BITS
                 PROVE  /\ UpTo(given, i) = UpTo(given, i - 1) \cup Of(given, i)
                        /\ UpTo(given, i - 1) \cap Of(given, i) = {}
    OBVIOUS
  <2>2. \A s \in Symbols :
          /\ s \in UpTo(given, i) <=> s \in UpTo(given, i - 1) \/ s \in Of(given, i)
          /\ ~(s \in UpTo(given, i - 1) /\ s \in Of(given, i))
    BY <1>1, <1>2 DEF UpTo, Of
  <2>3. UpTo(given, i) \subseteq Symbols /\ UpTo(given, i - 1) \subseteq Symbols
        /\ Of(given, i) \subseteq Symbols
    BY DEF UpTo, Of
  <2> QED BY <2>2, <2>3
<1>6. \A i, j \in 0 .. MAX_BITS : i <= j => UpTo(given, i) \subseteq UpTo(given, j)
  BY <1>1, <1>2 DEF UpTo
<1> QED BY <1>3, <1>4, <1>5, <1>6

LEMMA AreaSteps ==
  ASSUME NEW given \in Fitting
  PROVE  /\ Area(given, UpTo(given, 0)) = 0
         /\ \A i \in 0 .. MAX_BITS : Area(given, UpTo(given, i)) \in Nat
         /\ \A i \in 1 .. MAX_BITS :
              Area(given, UpTo(given, i))
                = Area(given, UpTo(given, i - 1)) + LenCount(given, i) * 2 ^ (MAX_BITS - i)
<1>1. Area(given, UpTo(given, 0)) = 0
  BY UpToLemma, AreaEmpty
<1>2. \A i \in 0 .. MAX_BITS : Area(given, UpTo(given, i)) \in Nat
  BY UpToLemma, CellsFinite
<1>3. ASSUME NEW i \in 1 .. MAX_BITS
      PROVE  Area(given, UpTo(given, i))
               = Area(given, UpTo(given, i - 1)) + LenCount(given, i) * 2 ^ (MAX_BITS - i)
  <2>1. i \in 0 .. MAX_BITS /\ i - 1 \in 0 .. MAX_BITS /\ i > 0
    BY Sizes
  <2>2. Area(given, UpTo(given, i)) = Area(given, UpTo(given, i - 1)) + Area(given, Of(given, i))
    BY <2>1, UpToLemma, AreaUnion
  <2>3. Area(given, Of(given, i)) = Cardinality(Of(given, i)) * 2 ^ (MAX_BITS - i)
    <3>1. \A s \in Of(given, i) : given[s] = i
      BY DEF Of
    <3> QED BY <2>1, <3>1, UpToLemma, AreaOfLength
  <2> QED BY <2>2, <2>3 DEF LenCount, Of
<1> QED BY <1>1, <1>2, <1>3

StartSteps(f, given) ==
  f = [i \in 0 .. MAX_BITS |->
         IF i = 0 THEN 0 ELSE f[i - 1] + LenCount(given, i) * 2 ^ (MAX_BITS - i)]

\* startPos is what the codes so far cover.
LEMMA StartPosLemma ==
  ASSUME NEW given \in Fitting
  PROVE  StartPos(given) = [i \in 0 .. MAX_BITS |-> Area(given, UpTo(given, i))]
<1> DEFINE g == [i \in 0 .. MAX_BITS |-> Area(given, UpTo(given, i))]
           f == StartPos(given)
<1>1. \A i \in 0 .. MAX_BITS :
        g[i] = IF i = 0 THEN 0 ELSE g[i - 1] + LenCount(given, i) * 2 ^ (MAX_BITS - i)
  <2>1. SUFFICES ASSUME NEW i \in 0 .. MAX_BITS, i # 0
                 PROVE  g[i] = g[i - 1] + LenCount(given, i) * 2 ^ (MAX_BITS - i)
    BY AreaSteps, Sizes
  <2>2. i \in 1 .. MAX_BITS /\ i - 1 \in 0 .. MAX_BITS
    BY <2>1, Sizes
  <2>3. Area(given, UpTo(given, i))
          = Area(given, UpTo(given, i - 1)) + LenCount(given, i) * 2 ^ (MAX_BITS - i)
    BY <2>2, AreaSteps
  <2> QED BY <2>2, <2>3
<1>2. StartSteps(g, given)
  <2>1. g = [i \in 0 .. MAX_BITS |-> g[i]]
    OBVIOUS
  <2> HIDE DEF g
  <2> QED BY <1>1, <2>1 DEF StartSteps
<1>3. f = CHOOSE h : StartSteps(h, given)
  BY DEF StartPos, StartSteps
<1> HIDE DEF f
<1>4. StartSteps(f, given)
  <2> HIDE DEF g
  <2> QED BY <1>2, <1>3, Zenon
<1>5. \A i \in 0 .. MAX_BITS :
        f[i] = IF i = 0 THEN 0 ELSE f[i - 1] + LenCount(given, i) * 2 ^ (MAX_BITS - i)
  BY <1>4 DEF StartSteps
<1> DEFINE T == {i \in 0 .. MAX_BITS : f[i] # g[i]}
<1>6. ASSUME NEW n \in T, \A k \in T : n <= k PROVE FALSE
  <2>1. CASE n = 0
    BY <1>1, <1>5, <2>1
  <2>2. CASE n # 0
    <3>1. n - 1 \in 0 .. MAX_BITS /\ ~(n <= n - 1)
      BY <2>2, Sizes
    <3>2. f[n - 1] = g[n - 1]
      BY <1>6, <3>1
    <3> HIDE DEF g
    <3> QED BY <1>1, <1>5, <2>2, <3>2
  <2> QED BY <2>1, <2>2
<1>7. T \subseteq Nat
  BY Sizes
<1>8. T = {}
  <2> HIDE DEF T
  <2> QED BY <1>6, <1>7, LeastNumber
<1>9. f = [i \in 0 .. MAX_BITS |-> f[i]]
  BY <1>4 DEF StartSteps
<1>10. f = [i \in 0 .. MAX_BITS |-> g[i]]
  <2>1. \A i \in 0 .. MAX_BITS : f[i] = g[i]
    BY <1>8
  <2> HIDE DEF g, T
  <2> QED BY <1>9, <2>1
<1>11. f = g
  BY <1>10
<1> QED BY <1>11 DEF f

PositionSteps(f, given) ==
  f = [i \in 0 .. MAX_BITS |-> IF i = 0 THEN 0 ELSE f[i - 1] + LenCount(given, i - 1)]

\* The symbols before those whose codes have i bits.
Shorter(given, i) == {s \in Symbols : 0 < given[s] /\ given[s] < i}

LEMMA ShorterLemma ==
  ASSUME NEW given \in Fitting
  PROVE  /\ Cardinality(Shorter(given, 0)) = 0
         /\ \A i \in 0 .. MAX_BITS : /\ Shorter(given, i) \in SUBSET Symbols
                                     /\ IsFiniteSet(Shorter(given, i))
                                     /\ Cardinality(Shorter(given, i)) \in Nat
         /\ \A i \in 1 .. MAX_BITS :
              Cardinality(Shorter(given, i))
                = Cardinality(Shorter(given, i - 1)) + LenCount(given, i - 1)
<1>1. \A s \in Symbols : given[s] \in 0 .. MAX_BITS
  BY DEF Fitting
<1>2. Shorter(given, 0) = {}
  BY <1>1 DEF Shorter
<1>3. ASSUME NEW i \in 0 .. MAX_BITS
      PROVE  /\ Shorter(given, i) \in SUBSET Symbols
             /\ IsFiniteSet(Shorter(given, i)) /\ Cardinality(Shorter(given, i)) \in Nat
  <2>1. Shorter(given, i) \in SUBSET Symbols
    BY DEF Shorter
  <2> QED BY <2>1, CellsFinite, FS_CardinalityType
<1>4. ASSUME NEW i \in 1 .. MAX_BITS
      PROVE  Cardinality(Shorter(given, i))
               = Cardinality(Shorter(given, i - 1)) + LenCount(given, i - 1)
  <2> DEFINE A == Shorter(given, i - 1)
             B == Of(given, i - 1)
  <2>1. i - 1 \in 0 .. MAX_BITS /\ i \in 0 .. MAX_BITS
    BY Sizes
  <2>2. IsFiniteSet(A) /\ IsFiniteSet(B) /\ Cardinality(A) \in Nat /\ Cardinality(B) \in Nat
    <3>1. B \in SUBSET Symbols
      BY DEF Of
    <3> QED BY <1>3, <2>1, <3>1, CellsFinite, FS_CardinalityType
  <2>3. Shorter(given, i) = A \cup B /\ A \cap B = {}
    <3>1. \A s \in Symbols : /\ s \in Shorter(given, i) <=> s \in A \/ s \in B
                             /\ ~(s \in A /\ s \in B)
      BY <1>1, <2>1 DEF Shorter, Of
    <3>2. Shorter(given, i) \subseteq Symbols /\ A \subseteq Symbols /\ B \subseteq Symbols
      BY DEF Shorter, Of
    <3> HIDE DEF A, B
    <3> QED BY <3>1, <3>2
  <2>4. Cardinality(B) = LenCount(given, i - 1)
    BY DEF Of, LenCount
  <2> HIDE DEF A, B
  <2>5. Cardinality(A \cup B) = Cardinality(A) + Cardinality(B) - Cardinality(A \cap B)
    BY <2>2, FS_Union
  <2>6. Cardinality(A \cap B) = 0
    BY <2>3, FS_EmptySet
  <2>7. Cardinality(Shorter(given, i)) = Cardinality(A) + LenCount(given, i - 1)
    BY <2>2, <2>3, <2>4, <2>5, <2>6
  <2> QED BY <2>7 DEF A
<1> QED BY <1>2, <1>3, <1>4, FS_EmptySet

\* mPositions[i] is the number of shorter codes.
LEMMA PositionsLemma ==
  ASSUME NEW given \in Fitting
  PROVE  Positions(given) = [i \in 0 .. MAX_BITS |-> Cardinality(Shorter(given, i))]
<1> DEFINE g == [i \in 0 .. MAX_BITS |-> Cardinality(Shorter(given, i))]
           f == Positions(given)
<1>1. \A i \in 0 .. MAX_BITS : g[i] = IF i = 0 THEN 0 ELSE g[i - 1] + LenCount(given, i - 1)
  <2>1. SUFFICES ASSUME NEW i \in 0 .. MAX_BITS, i # 0
                 PROVE  g[i] = g[i - 1] + LenCount(given, i - 1)
    BY ShorterLemma, Sizes
  <2>2. i \in 1 .. MAX_BITS /\ i - 1 \in 0 .. MAX_BITS
    BY <2>1, Sizes
  <2>3. Cardinality(Shorter(given, i)) = Cardinality(Shorter(given, i - 1)) + LenCount(given, i - 1)
    BY <2>2, ShorterLemma
  <2> QED BY <2>2, <2>3
<1>2. PositionSteps(g, given)
  <2>1. g = [i \in 0 .. MAX_BITS |-> g[i]]
    OBVIOUS
  <2> HIDE DEF g
  <2> QED BY <1>1, <2>1 DEF PositionSteps
<1>3. f = CHOOSE h : PositionSteps(h, given)
  BY DEF Positions, PositionSteps
<1> HIDE DEF f
<1>4. PositionSteps(f, given)
  <2> HIDE DEF g
  <2> QED BY <1>2, <1>3, Zenon
<1>5. \A i \in 0 .. MAX_BITS : f[i] = IF i = 0 THEN 0 ELSE f[i - 1] + LenCount(given, i - 1)
  BY <1>4 DEF PositionSteps
<1> DEFINE T == {i \in 0 .. MAX_BITS : f[i] # g[i]}
<1>6. ASSUME NEW n \in T, \A k \in T : n <= k PROVE FALSE
  <2>1. CASE n = 0
    BY <1>1, <1>5, <2>1
  <2>2. CASE n # 0
    <3>1. n - 1 \in 0 .. MAX_BITS /\ ~(n <= n - 1)
      BY <2>2, Sizes
    <3>2. f[n - 1] = g[n - 1]
      BY <1>6, <3>1
    <3> HIDE DEF g
    <3> QED BY <1>1, <1>5, <2>2, <3>2
  <2> QED BY <2>1, <2>2
<1>7. T \subseteq Nat
  BY Sizes
<1>8. T = {}
  <2> HIDE DEF T
  <2> QED BY <1>6, <1>7, LeastNumber
<1>9. f = [i \in 0 .. MAX_BITS |-> f[i]]
  BY <1>4 DEF PositionSteps
<1>10. f = [i \in 0 .. MAX_BITS |-> g[i]]
  <2>1. \A i \in 0 .. MAX_BITS : f[i] = g[i]
    BY <1>8
  <2> HIDE DEF g, T
  <2> QED BY <1>9, <2>1
<1>11. f = g
  BY <1>10
<1> QED BY <1>11 DEF f

SumSteps(g, S) ==
  g = [s \in SUBSET S |-> IF s = {} THEN 0
                          ELSE Share(CHOOSE x \in s : TRUE) + g[s \ {CHOOSE x \in s : TRUE}]]

\* The sum of the shares is what the codes cover.
LEMMA SumIsArea ==
  ASSUME codeLengths \in Fitting, NEW S \in SUBSET Symbols
  PROVE  MapThenSumSet(Share, S) = Area(codeLengths, S)
<1> DEFINE A(s) == Area(codeLengths, s)
           g == [s \in SUBSET S |-> A(s)]
           c(s) == CHOOSE x \in s : TRUE
           f == CHOOSE h : SumSteps(h, S)
<1>1. ASSUME NEW s \in SUBSET S, s # {}
      PROVE  /\ c(s) \in s /\ s \ {c(s)} \in SUBSET S
             /\ A(s) = Share(c(s)) + A(s \ {c(s)})
  <2>1. c(s) \in s
    BY <1>1
  <2> HIDE DEF c
  <2> DEFINE x == c(s)
             r == s \ {c(s)}
  <2>2. /\ s = {x} \cup r /\ {x} \cap r = {}
        /\ x \in Symbols /\ r \in SUBSET Symbols /\ r \in SUBSET S
    BY <2>1
  <2> HIDE DEF x, r
  <2>3. Area(codeLengths, {x} \cup r) = Area(codeLengths, {x}) + Area(codeLengths, r)
    BY <2>2, AreaUnion
  <2>4. Area(codeLengths, {x}) = Covers(codeLengths, x)
    BY <2>2, AreaOfOne
  <2>5. Area(codeLengths, s) = Share(x) + Area(codeLengths, r)
    BY <2>2, <2>3, <2>4 DEF Covers, Share
  <2> QED BY <2>1, <2>2, <2>5 DEF x, r
<1>2. A({}) = 0
  BY AreaEmpty
<1>3. \A s \in SUBSET S : g[s] = IF s = {} THEN 0 ELSE Share(c(s)) + g[s \ {c(s)}]
  <2>1. SUFFICES ASSUME NEW s \in SUBSET S
                 PROVE  g[s] = IF s = {} THEN 0 ELSE Share(c(s)) + g[s \ {c(s)}]
    OBVIOUS
  <2>2. CASE s = {}
    BY <1>2, <2>2
  <2>3. CASE s # {}
    <3>1. s \ {c(s)} \in SUBSET S /\ A(s) = Share(c(s)) + A(s \ {c(s)})
      BY <1>1, <2>3
    <3> HIDE DEF A, c
    <3> QED BY <2>3, <3>1
  <2> QED BY <2>2, <2>3
<1>4. SumSteps(g, S)
  <2>1. g = [s \in SUBSET S |-> g[s]]
    OBVIOUS
  <2> HIDE DEF g
  <2> QED BY <1>3, <2>1 DEF SumSteps
<1>5. SumSteps(f, S)
  <2> HIDE DEF g
  <2> QED BY <1>4, Zenon
<1>6. MapThenSumSet(Share, S) = f[S]
  BY DEF MapThenSumSet, MapThenFoldSet, SumSteps
<1> HIDE DEF f
<1>7. \A s \in SUBSET S : f[s] = IF s = {} THEN 0 ELSE Share(c(s)) + f[s \ {c(s)}]
  BY <1>5 DEF SumSteps
<1> DEFINE T == {n \in Nat : \E s \in SUBSET S : Cardinality(s) = n /\ f[s] # A(s)}
<1>8. ASSUME NEW n \in T, \A k \in T : n <= k PROVE FALSE
  <2>1. PICK s \in SUBSET S : Cardinality(s) = n /\ f[s] # A(s)
    BY <1>8
  <2>2. s # {}
    BY <1>2, <1>7, <2>1
  <2> DEFINE r == s \ {c(s)}
  <2>3. c(s) \in s /\ r \in SUBSET S /\ A(s) = Share(c(s)) + A(r)
    BY <1>1, <2>2
  <2>4. f[s] = Share(c(s)) + f[r]
    BY <1>7, <2>2
  <2> HIDE DEF c
  <2>5. Cardinality(r) = n - 1 /\ Cardinality(r) \in Nat
    <3>1. IsFiniteSet(s) /\ s \in SUBSET Symbols /\ r \in SUBSET Symbols
      BY CellsFinite
    <3>2. IsFiniteSet(r) /\ Cardinality(s \ {c(s)})
            = IF c(s) \in s THEN Cardinality(s) - 1 ELSE Cardinality(s)
      BY <3>1, FS_RemoveElement
    <3> QED BY <2>1, <2>3, <3>2, FS_CardinalityType
  <2> HIDE DEF r, A
  <2>6. f[r] # A(r)
    BY <2>1, <2>3, <2>4
  <2>7. Cardinality(r) \in T
    BY <2>3, <2>5, <2>6
  <2>8. n <= n - 1 /\ n \in Nat
    BY <1>8, <2>5, <2>7
  <2> QED BY <2>8
<1>9. T \subseteq Nat
  OBVIOUS
<1>10. T = {}
  <2> HIDE DEF T
  <2> QED BY <1>8, <1>9, LeastNumber
<1>11. f[S] = A(S)
  <2>1. IsFiniteSet(S) /\ S \in SUBSET S
    BY CellsFinite
  <2>2. Cardinality(S) \in Nat
    BY <2>1, FS_CardinalityType
  <2> HIDE DEF A
  <2> QED BY <1>10, <2>1, <2>2
<1> QED BY <1>6, <1>11

-----------------------------------------------------------------------------
(* The order of the codes *)

Coded == {s \in Symbols : HasCode(s)}
Prec(s) == {t \in Symbols : Precedes(t, s)}
Same(s) == {t \in Symbols : t < s /\ codeLengths[t] = codeLengths[s]}

\* The values that begin with a code of at most i bits lie below this one.
Covered(i) == Area(codeLengths, UpTo(codeLengths, i))

LEMMA Order ==
  ASSUME codeLengths \in Fitting
  PROVE  /\ \A s \in Coded : s \in Nat /\ codeLengths[s] \in 1 .. MAX_BITS
         /\ \A s, t \in Coded : s = t \/ Precedes(s, t) \/ Precedes(t, s)
         /\ \A r, t, s \in Coded : Precedes(r, t) /\ Precedes(t, s) => Precedes(r, s)
         /\ \A s \in Coded : ~Precedes(s, s)
         /\ \A s \in Coded : Prec(s) \in SUBSET Coded /\ Prec(s) \in SUBSET Symbols
<1>1. \A s \in Symbols : s \in Nat /\ codeLengths[s] \in 0 .. MAX_BITS
  BY Sizes DEF Fitting
<1>2. \A s \in Coded : s \in Nat /\ codeLengths[s] \in 1 .. MAX_BITS
  BY <1>1 DEF Coded, HasCode
<1>3. \A s, t \in Coded : s = t \/ Precedes(s, t) \/ Precedes(t, s)
  BY <1>2 DEF Coded, Precedes
<1>4. \A r, t, s \in Coded : Precedes(r, t) /\ Precedes(t, s) => Precedes(r, s)
  BY <1>2 DEF Precedes
<1>5. \A s \in Coded : ~Precedes(s, s)
  BY <1>2 DEF Precedes
<1>6. \A s \in Coded : Prec(s) \in SUBSET Coded /\ Prec(s) \in SUBSET Symbols
  BY DEF Prec, Coded, Precedes
<1> QED BY <1>2, <1>3, <1>4, <1>5, <1>6

LEMMA SymbolCount == Cardinality(Symbols) = NR_SYMBOLS
<1>1. 0 \in Int /\ NR_SYMBOLS - 1 \in Int
  BY Sizes
<1>2. Cardinality(0 .. NR_SYMBOLS - 1)
        = IF 0 > NR_SYMBOLS - 1 THEN 0 ELSE NR_SYMBOLS - 1 - 0 + 1
  BY <1>1, FS_Interval
<1> QED BY <1>2, Sizes DEF Symbols

\* More codes come before a later one.
LEMMA PrecCount ==
  ASSUME codeLengths \in Fitting
  PROVE  /\ \A s \in Coded : Cardinality(Prec(s)) \in Nat
         /\ \A s \in Coded : Cardinality(Prec(s)) < Cardinality(Coded)
         /\ \A s, t \in Coded : Precedes(t, s) => Cardinality(Prec(t)) < Cardinality(Prec(s))
         /\ Cardinality(Coded) \in Nat /\ Cardinality(Coded) <= NR_SYMBOLS
<1>1. IsFiniteSet(Coded) /\ Coded \in SUBSET Symbols
  <2>1. Coded \in SUBSET Symbols
    BY DEF Coded
  <2> QED BY <2>1, CellsFinite
<1>2. \A s \in Coded : Prec(s) \in SUBSET Coded /\ IsFiniteSet(Prec(s))
                       /\ Cardinality(Prec(s)) \in Nat
  BY Order, CellsFinite, FS_CardinalityType
<1>3. \A A, B : IsFiniteSet(B) /\ A \in SUBSET B /\ A # B /\ Cardinality(A) \in Nat
                => Cardinality(A) < Cardinality(B)
  <2>1. SUFFICES ASSUME NEW A, NEW B, IsFiniteSet(B), A \in SUBSET B, A # B,
                        Cardinality(A) \in Nat
                 PROVE  Cardinality(A) < Cardinality(B)
    OBVIOUS
  <2>2. Cardinality(A) <= Cardinality(B) /\ (Cardinality(B) = Cardinality(A) => B = A)
    BY <2>1, FS_Subset
  <2>3. Cardinality(B) \in Nat
    BY <2>1, FS_CardinalityType
  <2> QED BY <2>1, <2>2, <2>3
<1>4. ASSUME NEW s \in Coded PROVE Cardinality(Prec(s)) < Cardinality(Coded)
  <2>1. s \notin Prec(s)
    BY Order DEF Prec
  <2>2. Prec(s) # Coded
    BY <2>1
  <2> QED BY <1>1, <1>2, <1>3, <2>2
<1>5. ASSUME NEW s \in Coded, NEW t \in Coded, Precedes(t, s)
      PROVE  Cardinality(Prec(t)) < Cardinality(Prec(s))
  <2>1. t \notin Prec(t) /\ t \in Prec(s)
    BY <1>1, <1>5, Order DEF Prec
  <2>2. Prec(t) \in SUBSET Prec(s)
    <3>1. SUFFICES ASSUME NEW u \in Prec(t) PROVE u \in Prec(s)
      OBVIOUS
    <3>2. u \in Coded /\ u \in Symbols /\ Precedes(u, t)
      BY <1>2, <3>1 DEF Prec
    <3>3. Precedes(u, s)
      BY <1>5, <3>2, Order
    <3> QED BY <3>2, <3>3 DEF Prec
  <2> QED BY <1>2, <1>3, <2>1, <2>2
<1>6. Cardinality(Coded) \in Nat /\ Cardinality(Coded) <= NR_SYMBOLS
  <2>1. Cardinality(Coded) <= Cardinality(Symbols)
    BY <1>1, Sizes, FS_Subset
  <2> QED BY <1>1, <2>1, SymbolCount, FS_CardinalityType
<1> QED BY <1>2, <1>4, <1>5, <1>6

\* Some of the codes have a first one, and a last one.
LEMMA FirstAndLast ==
  ASSUME codeLengths \in Fitting, NEW U \in SUBSET Coded, U # {}
  PROVE  /\ \E s \in U : \A t \in U : ~Precedes(t, s)
         /\ \E s \in U : \A t \in U : ~Precedes(s, t)
<1> DEFINE c(s) == Cardinality(Prec(s))
           n == Cardinality(Coded)
<1>1. /\ \A s \in U : c(s) \in Nat /\ c(s) < n
      /\ \A s, t \in U : Precedes(t, s) => c(t) < c(s)
      /\ n \in Nat
  BY PrecCount
<1> HIDE DEF c, n
<1>2. \E s \in U : \A t \in U : ~Precedes(t, s)
  <2> DEFINE T == {c(s) : s \in U}
  <2>1. T \subseteq Nat /\ T # {}
    BY <1>1
  <2>2. PICK m \in T : \A k \in T : m <= k
    <3> HIDE DEF T
    <3> QED BY <2>1, LeastNumber
  <2>3. PICK s \in U : m = c(s)
    BY <2>2
  <2>4. \A t \in U : c(s) <= c(t)
    BY <2>2, <2>3
  <2> QED BY <1>1, <2>4
<1>3. \E s \in U : \A t \in U : ~Precedes(s, t)
  <2> DEFINE T == {n - c(s) : s \in U}
  <2>1. T \subseteq Nat /\ T # {}
    BY <1>1
  <2>2. PICK m \in T : \A k \in T : m <= k
    <3> HIDE DEF T
    <3> QED BY <2>1, LeastNumber
  <2>3. PICK s \in U : m = n - c(s)
    BY <2>2
  <2>4. \A t \in U : n - c(s) <= n - c(t)
    BY <2>2, <2>3
  <2> QED BY <1>1, <2>4
<1> QED BY <1>2, <1>3

\* A symbol is put where the codes before it end.
LEMMA PlaceIsPrec ==
  ASSUME codeLengths \in Fitting, NEW s \in Coded
  PROVE  /\ Place(codeLengths, s) = Cardinality(Prec(s))
         /\ Place(codeLengths, s)
              = Cardinality(Shorter(codeLengths, codeLengths[s])) + Cardinality(Same(s))
         /\ Cardinality(Same(s)) \in Nat
<1> DEFINE n == codeLengths[s]
           A == Shorter(codeLengths, n)
           B == Same(s)
<1>1. n \in 0 .. MAX_BITS /\ n > 0 /\ \A t \in Symbols : codeLengths[t] \in 0 .. MAX_BITS
  BY Order DEF Fitting
<1>2. IsFiniteSet(A) /\ IsFiniteSet(B) /\ Cardinality(A) \in Nat /\ Cardinality(B) \in Nat
  <2>1. B \in SUBSET Symbols
    BY DEF Same
  <2> QED BY <1>1, <2>1, ShorterLemma, CellsFinite, FS_CardinalityType
<1>3. Prec(s) = A \cup B /\ A \cap B = {}
  <2>1. \A t \in Symbols : /\ t \in Prec(s) <=> t \in A \/ t \in B
                           /\ ~(t \in A /\ t \in B)
    BY <1>1 DEF Prec, Precedes, HasCode, Shorter, Same
  <2>2. Prec(s) \subseteq Symbols /\ A \subseteq Symbols /\ B \subseteq Symbols
    BY DEF Prec, Shorter, Same
  <2> HIDE DEF A, B
  <2> QED BY <2>1, <2>2
<1>4. Place(codeLengths, s) = Cardinality(A) + Cardinality(B)
  <2>1. Positions(codeLengths)[n] = Cardinality(A)
    BY <1>1, PositionsLemma
  <2> QED BY <2>1 DEF Place, Same
<1>5. Cardinality(Prec(s)) = Cardinality(A) + Cardinality(B)
  <2> HIDE DEF A, B
  <2>1. Cardinality(A \cup B) = Cardinality(A) + Cardinality(B) - Cardinality(A \cap B)
    BY <1>2, FS_Union
  <2>2. Cardinality(A \cap B) = 0
    BY <1>3, FS_EmptySet
  <2> QED BY <1>2, <1>3, <2>1, <2>2
<1> QED BY <1>2, <1>4, <1>5

\* No two codes are put at one place, and none behind the last symbol.
LEMMA PlaceUnique ==
  ASSUME codeLengths \in Fitting
  PROVE  /\ \A s \in Coded : Place(codeLengths, s) \in Symbols
                             /\ Place(codeLengths, s) < Cardinality(Coded)
         /\ \A s, t \in Coded : Place(codeLengths, s) = Place(codeLengths, t) => s = t
<1>1. ASSUME NEW s \in Coded
      PROVE  /\ Place(codeLengths, s) \in Symbols
             /\ Place(codeLengths, s) < Cardinality(Coded)
  <2>1. Place(codeLengths, s) \in Nat /\ Place(codeLengths, s) < Cardinality(Coded)
        /\ Cardinality(Coded) \in Nat /\ Cardinality(Coded) <= NR_SYMBOLS /\ NR_SYMBOLS \in Nat
    BY PlaceIsPrec, PrecCount, Sizes
  <2> QED BY <2>1 DEF Symbols
<1>2. ASSUME NEW s \in Coded, NEW t \in Coded, Place(codeLengths, s) = Place(codeLengths, t)
      PROVE  s = t
  <2>1. Cardinality(Prec(s)) = Cardinality(Prec(t)) /\ Cardinality(Prec(s)) \in Nat
    BY <1>2, PlaceIsPrec, PrecCount
  <2>2. ~Precedes(s, t) /\ ~Precedes(t, s)
    BY <2>1, PrecCount
  <2> QED BY <2>2, Order
<1> QED BY <1>1, <1>2

LEMMA FirstValueLemma ==
  ASSUME codeLengths \in Fitting, NEW s \in Coded
  PROVE  /\ FirstValue(s) = Area(codeLengths, Prec(s))
         /\ FirstValue(s) \in Nat
         /\ Share(s) \in Nat /\ Share(s) > 0
         /\ FirstValue(s) + Share(s) = Area(codeLengths, Prec(s) \cup {s})
<1>1. s \in Symbols /\ Prec(s) \in SUBSET Symbols /\ {s} \in SUBSET Symbols
  BY Order DEF Coded
<1>2. FirstValue(s) = Area(codeLengths, Prec(s))
  BY <1>1, SumIsArea DEF FirstValue, Prec
<1>3. FirstValue(s) \in Nat
  BY <1>1, <1>2, CellsFinite
<1>4. Share(s) = Covers(codeLengths, s)
  BY DEF Share, Covers
<1>5. Prec(s) \cap {s} = {}
  BY Order DEF Prec
<1>6. Area(codeLengths, Prec(s) \cup {s}) = Area(codeLengths, Prec(s)) + Area(codeLengths, {s})
  BY <1>1, <1>5, AreaUnion
<1> QED BY <1>1, <1>2, <1>3, <1>4, <1>6, AreaOfOne, CoversLemma

LEMMA CoveredLemma ==
  ASSUME codeLengths \in Fitting
  PROVE  /\ Covered(0) = 0
         /\ \A i \in 0 .. MAX_BITS : Covered(i) \in Nat
         /\ \A i, j \in 0 .. MAX_BITS : i <= j => Covered(i) <= Covered(j)
         /\ Covered(MAX_BITS) = Area(codeLengths, Coded)
<1>1. ASSUME NEW i \in 0 .. MAX_BITS, NEW j \in 0 .. MAX_BITS, i <= j
      PROVE  Covered(i) <= Covered(j)
  BY <1>1, UpToLemma, AreaMonotone DEF Covered
<1>2. Covered(MAX_BITS) = Area(codeLengths, Coded)
  BY UpToLemma DEF Covered, Coded, HasCode
<1> QED BY <1>1, <1>2, AreaSteps DEF Covered

\* The values that begin with a code lie between the limits of its length.
LEMMA FirstBetween ==
  ASSUME codeLengths \in Fitting, NEW s \in Coded
  PROVE  LET n == codeLengths[s] IN
         /\ FirstValue(s) = Covered(n - 1) + Cardinality(Same(s)) * 2 ^ (MAX_BITS - n)
         /\ FirstValue(s) + Share(s) <= Covered(n)
<1> DEFINE n == codeLengths[s]
<1>1. n \in 0 .. MAX_BITS /\ n - 1 \in 0 .. MAX_BITS /\ n > 0
      /\ \A t \in Symbols : codeLengths[t] \in 0 .. MAX_BITS
  BY Order, Sizes DEF Fitting
<1>2. s \in Symbols /\ s \in Nat
  BY Sizes DEF Coded
<1>3. FirstValue(s) = Covered(n - 1) + Cardinality(Same(s)) * 2 ^ (MAX_BITS - n)
  <2> DEFINE A == UpTo(codeLengths, n - 1)
             B == Same(s)
  <2>1. A \in SUBSET Symbols /\ B \in SUBSET Symbols
    BY DEF UpTo, Same
  <2>2. Prec(s) = A \cup B /\ A \cap B = {}
    <3>1. \A t \in Symbols : /\ t \in Prec(s) <=> t \in A \/ t \in B
                             /\ ~(t \in A /\ t \in B)
      BY <1>1 DEF Prec, Precedes, HasCode, UpTo, Same
    <3>2. Prec(s) \subseteq Symbols
      BY DEF Prec
    <3> HIDE DEF A, B
    <3> QED BY <2>1, <3>1, <3>2
  <2>3. Area(codeLengths, B) = Cardinality(B) * 2 ^ (MAX_BITS - n)
    <3>1. \A t \in B : codeLengths[t] = n
      BY DEF Same
    <3> HIDE DEF B
    <3> QED BY <1>1, <2>1, <3>1, AreaOfLength
  <2> HIDE DEF A, B
  <2>4. Area(codeLengths, A \cup B) = Area(codeLengths, A) + Area(codeLengths, B)
    BY <2>1, <2>2, AreaUnion
  <2>5. FirstValue(s) = Area(codeLengths, A) + Cardinality(B) * 2 ^ (MAX_BITS - n)
    BY <2>2, <2>3, <2>4, FirstValueLemma
  <2> QED BY <2>5 DEF A, B, Covered
<1>4. FirstValue(s) + Share(s) <= Covered(n)
  <2>1. Prec(s) \cup {s} \in SUBSET UpTo(codeLengths, n)
    <3>1. \A t \in Symbols : t \in Prec(s) => t \in UpTo(codeLengths, n)
      BY <1>1 DEF Prec, Precedes, HasCode, UpTo
    <3>2. s \in UpTo(codeLengths, n)
      BY <1>1, <1>2 DEF UpTo
    <3>3. Prec(s) \subseteq Symbols
      BY DEF Prec
    <3> QED BY <3>1, <3>2, <3>3
  <2>2. UpTo(codeLengths, n) \in SUBSET Symbols
    BY DEF UpTo
  <2>3. Area(codeLengths, Prec(s) \cup {s}) <= Area(codeLengths, UpTo(codeLengths, n))
    BY <2>1, <2>2, AreaMonotone
  <2> QED BY <2>3, FirstValueLemma DEF Covered
<1> QED BY <1>3, <1>4

\* A value below what all codes cover begins with one of them.
LEMMA SomeCode ==
  ASSUME codeLengths \in Fitting, NEW value \in Nat, value < Covered(MAX_BITS)
  PROVE  \E s \in Coded : BeginsWith(value, s)
<1> DEFINE U == {s \in Coded : FirstValue(s) <= value}
<1>1. \A s \in Coded : FirstValue(s) \in Nat /\ Share(s) \in Nat
  BY FirstValueLemma
<1>2. U # {}
  <2>1. SUFFICES ASSUME U = {} PROVE FALSE
    OBVIOUS
  <2>2. CASE Coded = {}
    <3>1. Covered(MAX_BITS) = 0
      BY <2>2, CoveredLemma, AreaEmpty
    <3> QED BY <3>1
  <2>3. CASE Coded # {}
    <3>1. PICK s \in Coded : \A t \in Coded : ~Precedes(t, s)
      BY <2>3, FirstAndLast
    <3>2. Prec(s) = {}
      BY <3>1, Order DEF Prec
    <3>3. FirstValue(s) = 0
      BY <3>2, FirstValueLemma, AreaEmpty
    <3> QED BY <2>1, <3>3
  <2> QED BY <2>2, <2>3
<1>3. PICK s \in U : \A t \in U : ~Precedes(s, t)
  <2>1. U \in SUBSET Coded
    OBVIOUS
  <2> HIDE DEF U
  <2> QED BY <1>2, <2>1, FirstAndLast
<1> DEFINE W == {t \in Coded : Precedes(s, t)}
<1>4. s \in Coded /\ FirstValue(s) <= value
  BY <1>3
<1>5. value < FirstValue(s) + Share(s)
  <2>1. SUFFICES ASSUME FirstValue(s) + Share(s) <= value PROVE FALSE
    BY <1>1, <1>4
  <2>2. CASE W = {}
    <3>1. \A t \in Coded : t = s \/ Precedes(t, s)
      BY <1>4, <2>2, Order
    <3>2. Coded = Prec(s) \cup {s}
      <4>1. \A t \in Coded : t \in Prec(s) \cup {s}
        BY <3>1 DEF Prec, Coded
      <4>2. Prec(s) \in SUBSET Coded
        BY <1>4, Order
      <4> QED BY <1>4, <4>1, <4>2
    <3>3. Covered(MAX_BITS) = FirstValue(s) + Share(s)
      BY <1>4, <3>2, CoveredLemma, FirstValueLemma
    <3> QED BY <1>1, <1>4, <2>1, <3>3
  <2>3. CASE W # {}
    <3>1. PICK t \in W : \A u \in W : ~Precedes(u, t)
      <4>1. W \in SUBSET Coded
        OBVIOUS
      <4> HIDE DEF W
      <4> QED BY <2>3, <4>1, FirstAndLast
    <3>2. t \in Coded /\ Precedes(s, t)
      BY <3>1
    <3>3. Prec(t) = Prec(s) \cup {s}
      <4>1. ASSUME NEW u \in Prec(t) PROVE u \in Prec(s) \cup {s}
        <5>1. u \in Coded /\ u \in Symbols /\ Precedes(u, t)
          BY <3>2, Order DEF Prec
        <5>2. ~Precedes(s, u)
          BY <3>1, <5>1
        <5>3. u = s \/ Precedes(u, s)
          BY <1>4, <5>1, <5>2, Order
        <5> QED BY <5>1, <5>3 DEF Prec
      <4>2. ASSUME NEW u \in Prec(s) PROVE u \in Prec(t)
        <5>1. u \in Coded /\ u \in Symbols /\ Precedes(u, s)
          BY <1>4, Order DEF Prec
        <5>2. Precedes(u, t)
          BY <1>4, <3>2, <5>1, Order
        <5> QED BY <5>1, <5>2 DEF Prec
      <4>3. s \in Prec(t)
        BY <1>4, <3>2 DEF Prec, Coded
      <4> QED BY <4>1, <4>2, <4>3
    <3>4. FirstValue(t) = FirstValue(s) + Share(s)
      BY <1>4, <3>2, <3>3, FirstValueLemma
    <3>5. t \in U
      BY <2>1, <3>2, <3>4
    <3> QED BY <1>3, <3>2, <3>5
  <2> QED BY <2>2, <2>3
<1> QED BY <1>4, <1>5 DEF BeginsWith, Coded

-----------------------------------------------------------------------------
(* The tables of a decoder that is ready are those of the lengths that were set last:     *)
(* what earlier codes left in mLengths lies behind the limit up to which it is looked at. *)

Fits(given, k) ==
  {i \in 1 .. HUFFMAN_TABLE_BITS :
     k < Limits(given)[i] \div 2 ^ (MAX_BITS - HUFFMAN_TABLE_BITS)}
PutAt(given, p) == {s \in Symbols : given[s] # 0 /\ Place(given, s) = p}

Refused(given) == TooLong(given) # {} \/ Overflows(given) # {}

TablesOf(given) ==
  /\ mLimits = Limits(given)
  /\ mPositions = Positions(given)
  /\ mSymbols = [p \in Symbols |-> IF PutAt(given, p) = {} THEN Invalid ELSE Max(PutAt(given, p))]
  /\ \A k \in 0 .. 2 ^ HUFFMAN_TABLE_BITS - 1 :
       Fits(given, k) # {} => mLengths[k] = Min(Fits(given, k))

DInv ==
  /\ DOMAIN mLengths = 0 .. 2 ^ HUFFMAN_TABLE_BITS - 1
  /\ codeLengths \in [Symbols -> Nat]
  /\ state \in {"new", "ready", "corrupted"}
  /\ \A given \in [Symbols -> Nat] : codeLengths = given =>
       /\ state = "ready" => ~Refused(given) /\ TablesOf(given)
       /\ state = "corrupted" => Refused(given)

LEMMA DInvStarts == Init => DInv
<1> SUFFICES ASSUME Init PROVE DInv
  OBVIOUS
<1>1. codeLengths \in [Symbols -> Nat] /\ state = "new"
      /\ DOMAIN mLengths = 0 .. 2 ^ HUFFMAN_TABLE_BITS - 1
  BY DEF Init
<1> QED BY <1>1 DEF DInv

LEMMA DInvStep == DInv /\ [Next]_vars => DInv'
<1> SUFFICES ASSUME DInv, [Next]_vars PROVE DInv'
  OBVIOUS
<1> DEFINE N == 0 .. 2 ^ HUFFMAN_TABLE_BITS - 1
<1>1. ASSUME NEW given \in [Symbols -> Lengths], SetCodeLengths(given) PROVE DInv'
  <2>1. given \in [Symbols -> Nat]
    BY HuffmanAssumption
  <2>2. /\ ~Refused(given)
        /\ mLimits' = Limits(given) /\ mPositions' = Positions(given)
        /\ mLengths' = Filled(given, HUFFMAN_TABLE_BITS)
        /\ codeLengths' = given /\ state' = "ready"
    BY <1>1 DEF SetCodeLengths, Refused
  <2>3. mSymbols' = [p \in Symbols |-> IF PutAt(given, p) = {} THEN Invalid
                                       ELSE Max(PutAt(given, p))]
    BY <1>1 DEF SetCodeLengths, PutAt
  <2>4. mLengths' = [k \in N |-> IF Fits(given, k) = {} THEN mLengths[k]
                                 ELSE Min(Fits(given, k))]
    BY <2>2 DEF Filled, Fits, DInv
  <2>5. /\ DOMAIN mLengths' = N
        /\ \A k \in N : Fits(given, k) # {} => mLengths'[k] = Min(Fits(given, k))
    BY <2>4
  <2>6. TablesOf(given)'
    BY <2>2, <2>3, <2>5 DEF TablesOf
  <2> QED BY <2>1, <2>2, <2>5, <2>6 DEF DInv
<1>2. ASSUME NEW given \in [Symbols -> Lengths], LengthTooLong(given) PROVE DInv'
  <2>1. given \in [Symbols -> Nat]
    BY HuffmanAssumption
  <2>2. Refused(given) /\ codeLengths' = given /\ state' = "corrupted" /\ DOMAIN mLengths' = N
    BY <1>2 DEF LengthTooLong, DInv, Refused
  <2> QED BY <2>1, <2>2 DEF DInv
<1>3. ASSUME NEW given \in [Symbols -> Lengths], TooManyCodes(given) PROVE DInv'
  <2>1. given \in [Symbols -> Nat]
    BY HuffmanAssumption
  <2>2. /\ Refused(given) /\ codeLengths' = given /\ state' = "corrupted"
        /\ \E last : mLengths' = Filled(given, last)
    BY <1>3 DEF TooManyCodes, Refused
  <2>3. DOMAIN mLengths' = N
    BY <2>2 DEF Filled, DInv
  <2> QED BY <2>1, <2>2, <2>3 DEF DInv
<1>4. CASE UNCHANGED vars
  BY <1>4 DEF vars, tables, DInv, TablesOf
<1> QED BY <1>1, <1>2, <1>3, <1>4 DEF Next

THEOREM DInvariant == Spec => []DInv
<1> QED BY DInvStarts, DInvStep, PTL DEF Spec

-----------------------------------------------------------------------------
(* What is refused *)

LEMMA SetOrRefused ==
  ASSUME DInv
  PROVE  /\ state = "ready" => ~Refused(codeLengths) /\ TablesOf(codeLengths)
         /\ state = "corrupted" => Refused(codeLengths)
BY DEF DInv

LEMMA Fitted ==
  ASSUME codeLengths \in [Symbols -> Nat], TooLong(codeLengths) = {}
  PROVE  codeLengths \in Fitting
<1>1. \A s \in Symbols : codeLengths[s] \in 0 .. MAX_BITS
  BY Sizes DEF TooLong
<1> QED BY <1>1 DEF Fitting

\* A round passes the number of values exactly when the codes cover more.
LEMMA OverflowsWhen ==
  ASSUME codeLengths \in Fitting
  PROVE  Overflows(codeLengths) # {} <=> Area(codeLengths, Coded) > 2 ^ MAX_BITS
<1>1. \A i \in 0 .. MAX_BITS : StartPos(codeLengths)[i] = Covered(i)
  BY StartPosLemma DEF Covered
<1>2. /\ \A i \in 0 .. MAX_BITS : Covered(i) \in Nat /\ Covered(i) <= Covered(MAX_BITS)
      /\ Covered(MAX_BITS) = Area(codeLengths, Coded)
  BY Sizes, CoveredLemma
<1>3. /\ MAX_BITS \in 1 .. MAX_BITS /\ 2 ^ MAX_BITS \in Nat
      /\ 1 .. MAX_BITS \subseteq 0 .. MAX_BITS
  BY Sizes
<1>4. ASSUME NEW i \in Overflows(codeLengths) PROVE Area(codeLengths, Coded) > 2 ^ MAX_BITS
  <2>1. i \in 1 .. MAX_BITS /\ StartPos(codeLengths)[i] > 2 ^ MAX_BITS
    BY DEF Overflows
  <2>2. i \in 0 .. MAX_BITS /\ Covered(i) > 2 ^ MAX_BITS
    BY <1>1, <1>3, <2>1
  <2>3. Covered(i) \in Nat /\ Covered(i) <= Covered(MAX_BITS) /\ Covered(MAX_BITS) \in Nat
    BY <1>2, <1>3, <2>2
  <2> QED BY <1>2, <1>3, <2>2, <2>3
<1>5. ASSUME Area(codeLengths, Coded) > 2 ^ MAX_BITS PROVE MAX_BITS \in Overflows(codeLengths)
  <2>1. StartPos(codeLengths)[MAX_BITS] = Area(codeLengths, Coded)
    BY <1>1, <1>2, <1>3
  <2> QED BY <1>3, <1>5, <2>1 DEF Overflows
<1> QED BY <1>4, <1>5

LEMMA RefusesInv == DInv => RefusesOversubscribed
<1> SUFFICES ASSUME DInv, state # "new" PROVE
      state = "corrupted" <=>
        \/ \E s \in Symbols : codeLengths[s] > MAX_BITS
        \/ MapThenSumSet(Share, {s \in Symbols : HasCode(s)}) > 2 ^ MAX_BITS
  BY DEF RefusesOversubscribed
<1>1. state = "ready" \/ state = "corrupted"
  BY DEF DInv
<1>2. TooLong(codeLengths) # {} <=> \E s \in Symbols : codeLengths[s] > MAX_BITS
  BY DEF TooLong
<1>3. CASE TooLong(codeLengths) # {}
  BY <1>1, <1>2, <1>3, SetOrRefused DEF Refused
<1>4. CASE TooLong(codeLengths) = {}
  <2>1. codeLengths \in Fitting
    BY <1>4, Fitted DEF DInv
  <2>2. MapThenSumSet(Share, Coded) = Area(codeLengths, Coded)
    BY <2>1, SumIsArea DEF Coded
  <2>3. Overflows(codeLengths) # {} <=> MapThenSumSet(Share, Coded) > 2 ^ MAX_BITS
    BY <2>1, <2>2, OverflowsWhen
  <2>4. state = "corrupted" <=> Overflows(codeLengths) # {}
    BY <1>1, <1>4, SetOrRefused DEF Refused
  <2> QED BY <1>2, <1>4, <2>3, <2>4 DEF Coded
<1> QED BY <1>3, <1>4

\* setCodeLengths() refuses code lengths exactly when no prefix code has them, for all sizes
\* of codes and tables: with one that is longer than a code may be, or more codes than fit.
THEOREM RefusesCorrect == Spec => []RefusesOversubscribed
<1> QED BY DInvariant, RefusesInv, PTL

-----------------------------------------------------------------------------
(* What is decoded *)

LEMMA MinIs ==
  ASSUME NEW S \in SUBSET Int, NEW n \in S, \A k \in S : n <= k
  PROVE  Min(S) = n
<1> DEFINE IsLeast(x) == x \in S /\ \A y \in S : x =< y
           m == CHOOSE x \in S : \A y \in S : x =< y
<1>1. m \in S /\ \A y \in S : m =< y
  OBVIOUS
<1> HIDE DEF m
<1>2. m = n
  BY <1>1
<1> QED BY <1>2 DEF m, Min

LEMMA MaxOfOne == \A n \in Int : Max({n}) = n
<1> SUFFICES ASSUME NEW n \in Int PROVE Max({n}) = n
  OBVIOUS
<1>1. \E x \in {n} : \A y \in {n} : x >= y
  OBVIOUS
<1>2. Max({n}) \in {n}
  BY <1>1 DEF Max
<1> QED BY <1>2

\* The limits of short codes are multiples of what an entry of the table stands for.
LEMMA LimitsAreMultiples ==
  ASSUME codeLengths \in Fitting
  PROVE  \A i \in 0 .. HUFFMAN_TABLE_BITS :
           \E c \in Nat : Covered(i) = c * 2 ^ (MAX_BITS - HUFFMAN_TABLE_BITS)
<1> DEFINE h == HUFFMAN_TABLE_BITS
           q == 2 ^ (MAX_BITS - h)
           T == {i \in 0 .. h : ~\E c \in Nat : Covered(i) = c * q}
<1>1. h \in Nat /\ h \in 0 .. MAX_BITS /\ MAX_BITS \in Nat /\ MAX_BITS - h \in Nat
  BY Sizes
<1>2. q \in Nat
  BY <1>1, PowerBelow
<1>3. ASSUME NEW n \in T, \A k \in T : n <= k PROVE FALSE
  <2>1. CASE n = 0
    <3>1. Covered(n) = 0
      BY <2>1, CoveredLemma
    <3> HIDE DEF q
    <3>2. 0 * q = 0
      BY <1>2
    <3> QED BY <3>1, <3>2
  <2>2. CASE n # 0
    <3>1. n \in 1 .. MAX_BITS /\ n - 1 \in 0 .. h /\ ~(n <= n - 1) /\ n \in 0 .. MAX_BITS
          /\ h - n \in Nat
      BY <1>1, <2>2
    <3>2. PICK c \in Nat : Covered(n - 1) = c * q
      BY <1>3, <3>1
    <3>3. Covered(n) = Covered(n - 1) + LenCount(codeLengths, n) * 2 ^ (MAX_BITS - n)
      BY <3>1, AreaSteps DEF Covered
    <3>4. LenCount(codeLengths, n) \in Nat
      <4>1. Of(codeLengths, n) \in SUBSET Symbols
        BY DEF Of
      <4>2. Cardinality(Of(codeLengths, n)) \in Nat
        BY <4>1, CellsFinite, FS_CardinalityType
      <4> QED BY <4>2 DEF Of, LenCount
    <3> DEFINE d == 2 ^ (h - n)
               l == LenCount(codeLengths, n)
    <3>5. 2 ^ (MAX_BITS - n) = d * q
      <4>1. 2 ^ ((MAX_BITS - h) + (h - n)) = 2 ^ (h - n) * 2 ^ (MAX_BITS - h)
        BY <1>1, <3>1, PowerProduct
      <4>2. (MAX_BITS - h) + (h - n) = MAX_BITS - n
        BY <1>1, <3>1
      <4> QED BY <4>1, <4>2
    <3>6. d \in Nat /\ l \in Nat
      BY <3>1, <3>4, PowerPositive
    <3>7. Covered(n) = c * q + l * (d * q)
      BY <3>2, <3>3, <3>5
    <3> HIDE DEF q, d, l
    <3>8. l * (d * q) = (l * d) * q /\ l * d \in Nat
      BY <1>2, <3>6
    <3>9. c * q + (l * d) * q = (c + l * d) * q /\ c + l * d \in Nat
      BY <1>2, <3>8
    <3>10. Covered(n) = (c + l * d) * q
      BY <3>7, <3>8, <3>9
    <3> QED BY <3>9, <3>10
  <2> QED BY <2>1, <2>2
<1>4. T \subseteq Nat
  OBVIOUS
<1>5. T = {}
  <2> HIDE DEF T
  <2> QED BY <1>3, <1>4, LeastNumber
<1> QED BY <1>5

\* What is known of a decoder that is ready.
LEMMA Ready ==
  ASSUME DInv, state = "ready"
  PROVE  /\ codeLengths \in Fitting
         /\ \A i \in 0 .. MAX_BITS :
              mLimits[i] = IF i = MAX_BITS THEN 2 ^ MAX_BITS ELSE Covered(i)
         /\ \A i \in 0 .. MAX_BITS : mPositions[i] = Cardinality(Shorter(codeLengths, i))
         /\ Covered(MAX_BITS) <= 2 ^ MAX_BITS
<1>1. TablesOf(codeLengths) /\ Overflows(codeLengths) = {} /\ codeLengths \in Fitting
  BY SetOrRefused, Fitted DEF DInv, Refused
<1>2. \A i \in 0 .. MAX_BITS : mLimits[i] = IF i = MAX_BITS THEN 2 ^ MAX_BITS ELSE Covered(i)
  BY <1>1, StartPosLemma DEF TablesOf, Limits, Covered
<1>3. \A i \in 0 .. MAX_BITS : mPositions[i] = Cardinality(Shorter(codeLengths, i))
  BY <1>1, PositionsLemma DEF TablesOf
<1>4. Covered(MAX_BITS) <= 2 ^ MAX_BITS
  <2>1. ~(Area(codeLengths, Coded) > 2 ^ MAX_BITS)
    BY <1>1, OverflowsWhen
  <2>2. Covered(MAX_BITS) = Area(codeLengths, Coded) /\ Covered(MAX_BITS) \in Nat
    BY <1>1, CoveredLemma, Sizes
  <2> QED BY <2>1, <2>2, Sizes
<1> QED BY <1>1, <1>2, <1>3, <1>4

\* The number of bits is the least one whose limit lies above the value.
LEMMA NumBitsIs ==
  ASSUME DInv, state = "ready", NEW value \in Values, NEW n \in 1 .. MAX_BITS,
         value < mLimits[n], \A i \in 1 .. n - 1 : mLimits[i] <= value
  PROVE  NumBits(value) = n
<1> DEFINE h == HUFFMAN_TABLE_BITS
           q == 2 ^ (MAX_BITS - h)
           k == value \div q
<1>1. /\ h \in 1 .. MAX_BITS - 1 /\ MAX_BITS \in Nat /\ h \in 0 .. MAX_BITS /\ h # MAX_BITS
      /\ h \in Nat /\ value \in Nat /\ value < 2 ^ MAX_BITS /\ n \in Nat
  BY Sizes DEF Values
<1>2. codeLengths \in Fitting
  BY Ready
<1>3. q \in Nat /\ q > 0
  BY <1>1, PowerBelow
<1>4. ASSUME NEW i \in 0 .. h
      PROVE  /\ mLimits[i] = Covered(i) /\ mLimits[i] \in Nat
             /\ k < mLimits[i] \div q <=> value < mLimits[i]
  <2>1. i \in 0 .. MAX_BITS /\ i # MAX_BITS
    BY <1>1
  <2>2. mLimits[i] = Covered(i) /\ mLimits[i] \in Nat
    BY <1>2, <2>1, Ready, CoveredLemma
  <2>3. PICK c \in Nat : Covered(i) = c * q
    BY <1>2, LimitsAreMultiples
  <2> HIDE DEF q
  <2>4. mLimits[i] \div q = c
    BY <1>3, <2>2, <2>3, QuotientOfMultiple
  <2>5. k < c <=> value < c * q
    BY <1>1, <1>3, QuotientBelow
  <2> QED BY <2>2, <2>3, <2>4, <2>5
<1>5. CASE n <= h
  <2>1. n \in 0 .. h /\ n \in 1 .. h
    BY <1>1, <1>5
  <2>2. value < mLimits[h]
    <3>1. mLimits[n] = Covered(n) /\ mLimits[h] = Covered(h) /\ Covered(n) <= Covered(h)
          /\ Covered(n) \in Nat /\ Covered(h) \in Nat
      BY <1>1, <1>2, <1>4, <1>5, <2>1, CoveredLemma
    <3> QED BY <1>1, <3>1
  <2>3. k \in 0 .. 2 ^ h - 1
    <3>1. 2 ^ MAX_BITS = 2 ^ h * q
      <4>1. 2 ^ ((MAX_BITS - h) + h) = 2 ^ h * 2 ^ (MAX_BITS - h)
        BY <1>1, PowerProduct
      <4>2. (MAX_BITS - h) + h = MAX_BITS
        BY <1>1
      <4> QED BY <4>1, <4>2
    <3>2. 2 ^ h \in Nat
      BY <1>1, PowerPositive
    <3> DEFINE c == 2 ^ h
    <3> HIDE DEF q, c
    <3>3. k \in Nat /\ (k < c <=> value < c * q)
      BY <1>1, <1>3, <3>2, Quotient, QuotientBelow DEF c
    <3>4. k < c /\ c \in Nat
      BY <1>1, <3>1, <3>2, <3>3 DEF c
    <3>5. k \in 0 .. c - 1
      BY <3>3, <3>4
    <3> QED BY <3>5 DEF c
  <2>4. Fits(codeLengths, k) = {i \in 1 .. h : value < mLimits[i]}
    <3>1. \A i \in 1 .. h : i \in 0 .. h
      OBVIOUS
    <3>2. mLimits = Limits(codeLengths)
      BY SetOrRefused DEF TablesOf
    <3> HIDE DEF k
    <3> QED BY <1>4, <3>1, <3>2 DEF Fits
  <2> DEFINE F == {i \in 1 .. h : value < mLimits[i]}
  <2>5. n \in F /\ F \in SUBSET Int
    BY <2>1
  <2>6. \A i \in F : n <= i
    <3>1. SUFFICES ASSUME NEW i \in F, i < n PROVE FALSE
      BY <1>1
    <3>2. i \in 1 .. n - 1 /\ i \in 0 .. h /\ value < mLimits[i]
      BY <1>1, <3>1
    <3>3. mLimits[i] <= value /\ mLimits[i] \in Nat
      BY <1>4, <3>2
    <3> QED BY <1>1, <3>2, <3>3
  <2> HIDE DEF F
  <2>7. Min(F) = n
    BY <2>5, <2>6, MinIs
  <2>8. mLengths[k] = n
    <3>1. Fits(codeLengths, k) = F
      BY <2>4 DEF F
    <3> HIDE DEF k
    <3> QED BY <2>3, <2>5, <2>7, <3>1, SetOrRefused DEF TablesOf
  <2> QED BY <2>2, <2>8 DEF NumBits
<1>6. CASE ~(n <= h)
  <2>1. n \in h + 1 .. MAX_BITS /\ h \in 1 .. n - 1 /\ h \in 0 .. h
    BY <1>1, <1>6
  <2>2. ~(value < mLimits[h])
    <3>1. mLimits[h] <= value /\ mLimits[h] \in Nat
      BY <1>4, <2>1
    <3> QED BY <1>1, <3>1
  <2> DEFINE F == {i \in h + 1 .. MAX_BITS : value < mLimits[i]}
  <2>3. n \in F /\ F \in SUBSET Int
    BY <1>1, <2>1
  <2>4. \A i \in F : n <= i
    <3>1. SUFFICES ASSUME NEW i \in F, i < n PROVE FALSE
      BY <1>1
    <3>2. i \in 1 .. n - 1 /\ i \in 0 .. MAX_BITS /\ i # MAX_BITS /\ value < mLimits[i]
      BY <1>1, <3>1
    <3>3. mLimits[i] <= value /\ mLimits[i] \in Nat
      BY <1>2, <3>2, Ready, CoveredLemma
    <3> QED BY <1>1, <3>2, <3>3
  <2> HIDE DEF F
  <2>5. Min(F) = n
    BY <2>3, <2>4, MinIs
  <2> QED BY <2>2, <2>5 DEF NumBits, F
<1> QED BY <1>5, <1>6

\* A value that begins with a code is decoded to its symbol.
LEMMA CodeDecoded ==
  ASSUME DInv, state = "ready", NEW value \in Values, NEW s \in Coded, BeginsWith(value, s)
  PROVE  DecodeSymbol(value) = [numBits |-> codeLengths[s], symbol |-> s]
<1> DEFINE n == codeLengths[s]
           q == 2 ^ (MAX_BITS - n)
           r == Cardinality(Same(s))
<1>1. codeLengths \in Fitting /\ value \in Nat /\ value < 2 ^ MAX_BITS /\ MAX_BITS \in Nat
  BY Ready, Sizes DEF Values
<1>2. n \in 1 .. MAX_BITS /\ n \in 0 .. MAX_BITS /\ n - 1 \in 0 .. MAX_BITS /\ n - 1 # MAX_BITS
      /\ n \in Nat
  BY <1>1, Order
<1>3. q \in Nat /\ q > 0 /\ Share(s) = q /\ r \in Nat
  BY <1>1, <1>2, PowerBelow, PlaceIsPrec DEF Share
<1>4. FirstValue(s) = Covered(n - 1) + r * q /\ FirstValue(s) + Share(s) <= Covered(n)
  BY <1>1, FirstBetween
<1>5. /\ Covered(n - 1) \in Nat /\ Covered(n) \in Nat /\ FirstValue(s) \in Nat
      /\ Covered(n) <= 2 ^ MAX_BITS /\ 2 ^ MAX_BITS \in Nat
  <2>1. Covered(n) <= Covered(MAX_BITS) /\ Covered(MAX_BITS) <= 2 ^ MAX_BITS
        /\ Covered(n) \in Nat /\ Covered(MAX_BITS) \in Nat
    <3>1. MAX_BITS \in 0 .. MAX_BITS /\ n <= MAX_BITS
      BY <1>1, <1>2
    <3> QED BY <1>1, <1>2, <3>1, CoveredLemma, Ready
  <2>2. Covered(n - 1) \in Nat /\ FirstValue(s) \in Nat /\ 2 ^ MAX_BITS \in Nat
    BY <1>1, <1>2, CoveredLemma, FirstValueLemma, Sizes
  <2>3. Covered(n) <= 2 ^ MAX_BITS
    <3> DEFINE a == Covered(n)
               b == Covered(MAX_BITS)
               c == 2 ^ MAX_BITS
    <3>1. a \in Nat /\ b \in Nat /\ c \in Nat /\ a <= b /\ b <= c
      BY <2>1, <2>2
    <3> HIDE DEF a, b, c
    <3>2. a <= c
      BY <3>1
    <3> QED BY <3>2 DEF a, c
  <2> QED BY <2>1, <2>2, <2>3
<1>6. FirstValue(s) <= value /\ value < FirstValue(s) + q
  BY <1>3 DEF BeginsWith
<1> HIDE DEF q, r
<1>7. r * q \in Nat /\ (r + 1) * q = r * q + q
  BY <1>3, Products
<1>8. NumBits(value) = n
  <2>1. value < mLimits[n]
    <3>1. value < Covered(n)
      BY <1>1, <1>3, <1>4, <1>5, <1>6
    <3> QED BY <1>1, <1>2, <3>1, Ready
  <2>2. ASSUME NEW i \in 1 .. n - 1 PROVE mLimits[i] <= value
    <3>1. i \in 0 .. MAX_BITS /\ i # MAX_BITS /\ i <= n - 1
      BY <1>1, <1>2
    <3>2. mLimits[i] = Covered(i) /\ Covered(i) <= Covered(n - 1) /\ Covered(i) \in Nat
      BY <1>1, <1>2, <3>1, Ready, CoveredLemma
    <3> QED BY <1>1, <1>4, <1>5, <1>6, <1>7, <3>2
  <2> QED BY <1>2, <2>1, <2>2, NumBitsIs
<1> DEFINE v == value - Covered(n - 1)
<1>9. v \in Nat /\ r * q <= v /\ v < (r + 1) * q
  BY <1>1, <1>3, <1>4, <1>5, <1>6, <1>7
<1> HIDE DEF v
<1>10. v \div q = r
  <2>1. /\ v \div q \in Nat
        /\ v \div q < r + 1 <=> v < (r + 1) * q
        /\ v \div q < r <=> v < r * q
    <3>1. r + 1 \in Nat
      BY <1>3
    <3> QED BY <1>3, <1>9, <3>1, Quotient, QuotientBelow
  <2> DEFINE d == v \div q
  <2> HIDE DEF d
  <2>2. d \in Nat /\ d < r + 1 /\ ~(d < r)
    BY <1>7, <1>9, <2>1 DEF d
  <2>3. d = r
    BY <1>3, <2>2
  <2> QED BY <2>3 DEF d
<1>11. SymbolIndex(value, n) = Place(codeLengths, s)
  <2>1. mPositions[n] = Cardinality(Shorter(codeLengths, n)) /\ mLimits[n - 1] = Covered(n - 1)
    BY <1>2, Ready
  <2>2. SymbolIndex(value, n) = Cardinality(Shorter(codeLengths, n)) + r
    BY <1>10, <2>1 DEF SymbolIndex, v, q
  <2> QED BY <1>1, <2>2, PlaceIsPrec DEF r
<1> DEFINE p == Place(codeLengths, s)
<1>12. p \in Symbols /\ ~(p >= NR_SYMBOLS)
  <2>1. p \in Symbols
    BY <1>1, PlaceUnique
  <2> HIDE DEF p
  <2> QED BY <2>1, Sizes DEF Symbols
<1>13. mSymbols[p] = s
  <2>1. PutAt(codeLengths, p) = {s}
    <3>1. \A t \in PutAt(codeLengths, p) : t = s
      BY <1>1, PlaceUnique DEF PutAt, Coded, HasCode
    <3>2. s \in PutAt(codeLengths, p)
      BY DEF PutAt, Coded, HasCode
    <3> QED BY <3>1, <3>2
  <2>2. Max({s}) = s
    <3>1. s \in Int
      BY <1>1, Order
    <3> QED BY <3>1, MaxOfOne
  <2> HIDE DEF p
  <2>3. mSymbols[p] = IF PutAt(codeLengths, p) = {} THEN Invalid ELSE Max(PutAt(codeLengths, p))
    BY <1>12, SetOrRefused DEF TablesOf
  <2> QED BY <2>1, <2>2, <2>3
<1> HIDE DEF p, n
<1> QED BY <1>8, <1>11, <1>12, <1>13 DEF DecodeSymbol, p, n

\* A value behind all codes is decoded to no symbol.
LEMMA NothingDecoded ==
  ASSUME DInv, state = "ready", NEW value \in Values, Covered(MAX_BITS) <= value
  PROVE  /\ \A s \in Symbols : ~BeginsWith(value, s)
         /\ DecodeSymbol(value).symbol = Invalid
<1> DEFINE n == MAX_BITS
           i == SymbolIndex(value, n)
<1>1. codeLengths \in Fitting /\ value \in Nat /\ value < 2 ^ MAX_BITS /\ MAX_BITS \in Nat
      /\ n \in 1 .. MAX_BITS /\ n \in 0 .. MAX_BITS /\ n - 1 \in 0 .. MAX_BITS /\ n - 1 # n
      /\ 2 ^ MAX_BITS \in Nat
  BY Ready, Sizes DEF Values
<1>2. \A j \in 0 .. MAX_BITS : Covered(j) \in Nat /\ Covered(j) <= Covered(n)
  BY <1>1, CoveredLemma
<1>3. ASSUME NEW s \in Symbols, BeginsWith(value, s) PROVE FALSE
  <2>1. s \in Coded /\ value < FirstValue(s) + Share(s)
    BY <1>3 DEF BeginsWith, Coded
  <2>2. codeLengths[s] \in 0 .. MAX_BITS
    BY <1>1, <2>1, Order
  <2>3. FirstValue(s) + Share(s) <= Covered(codeLengths[s])
    BY <1>1, <2>1, FirstBetween
  <2>4. FirstValue(s) \in Nat /\ Share(s) \in Nat
    BY <1>1, <2>1, FirstValueLemma
  <2> QED BY <1>1, <1>2, <2>1, <2>2, <2>3, <2>4
<1>4. NumBits(value) = n
  <2>1. value < mLimits[n]
    BY <1>1, Ready
  <2>2. ASSUME NEW j \in 1 .. n - 1 PROVE mLimits[j] <= value
    <3>1. j \in 0 .. MAX_BITS /\ j # MAX_BITS
      BY <1>1
    <3>2. mLimits[j] = Covered(j) /\ Covered(j) \in Nat /\ Covered(j) <= Covered(n)
      BY <1>2, <3>1, Ready
    <3> QED BY <1>1, <1>2, <3>2
  <2> QED BY <1>1, <2>1, <2>2, NumBitsIs
<1>5. DecodeSymbol(value).symbol = IF i >= NR_SYMBOLS THEN Invalid ELSE mSymbols[i]
  <2>1. DecodeSymbol(value)
          = [numBits |-> n, symbol |-> IF i >= NR_SYMBOLS THEN Invalid ELSE mSymbols[i]]
    BY <1>4, Zenon DEF DecodeSymbol
  <2> HIDE DEF n, i
  <2> QED BY <2>1
<1>6. i = Cardinality(Shorter(codeLengths, n)) + (value - Covered(n - 1))
  <2>1. mPositions[n] = Cardinality(Shorter(codeLengths, n)) /\ mLimits[n - 1] = Covered(n - 1)
    BY <1>1, Ready
  <2>2. 2 ^ (MAX_BITS - n) = 1
    <3>1. MAX_BITS - n = 0
      BY <1>1
    <3> QED BY <3>1, PowerZero
  <2>3. \A x \in Int : x \div 1 = x
    OBVIOUS
  <2>4. value - Covered(n - 1) \in Int
    BY <1>1, <1>2
  <2> QED BY <2>1, <2>2, <2>3, <2>4 DEF SymbolIndex
<1>7. Cardinality(Coded) <= i /\ i \in Nat
  <2> DEFINE A == Shorter(codeLengths, n)
             B == Of(codeLengths, n)
  <2>1. A \in SUBSET Symbols /\ B \in SUBSET Symbols
    BY DEF Shorter, Of
  <2>2. IsFiniteSet(A) /\ IsFiniteSet(B) /\ Cardinality(A) \in Nat /\ Cardinality(B) \in Nat
    BY <2>1, CellsFinite, FS_CardinalityType
  <2>3. Coded = A \cup B /\ A \cap B = {}
    <3>1. \A s \in Symbols : codeLengths[s] \in 0 .. MAX_BITS
      BY <1>1 DEF Fitting
    <3>2. \A s \in Symbols : /\ s \in Coded <=> s \in A \/ s \in B
                             /\ ~(s \in A /\ s \in B)
      BY <1>1, <3>1 DEF Coded, HasCode, Shorter, Of
    <3>3. Coded \subseteq Symbols
      BY DEF Coded
    <3> HIDE DEF A, B
    <3> QED BY <2>1, <3>2, <3>3
  <2>4. Covered(n) = Covered(n - 1) + Cardinality(B) * 2 ^ (MAX_BITS - n)
    BY <1>1, AreaSteps DEF Covered, LenCount, Of
  <2>5. 2 ^ (MAX_BITS - n) = 1
    <3>1. MAX_BITS - n = 0
      BY <1>1
    <3> QED BY <3>1, PowerZero
  <2> DEFINE a == Cardinality(A)
             b == Cardinality(B)
             c == Cardinality(Coded)
  <2>6. c = a + b
    <3> HIDE DEF A, B
    <3>1. Cardinality(A \cup B) = Cardinality(A) + Cardinality(B) - Cardinality(A \cap B)
      BY <2>2, FS_Union
    <3>2. Cardinality(A \cap B) = 0
      BY <2>3, FS_EmptySet
    <3> QED BY <2>2, <2>3, <3>1, <3>2
  <2>7. Covered(n) = Covered(n - 1) + b * 1 /\ i = a + (value - Covered(n - 1))
    BY <1>6, <2>4, <2>5
  <2>8. a \in Nat /\ b \in Nat /\ Covered(n) \in Nat /\ Covered(n - 1) \in Nat
    BY <1>1, <1>2, <2>2
  <2> HIDE DEF a, b, c, i
  <2> QED BY <1>1, <2>6, <2>7, <2>8 DEF c
<1> HIDE DEF i
<1>8. CASE i >= NR_SYMBOLS
  BY <1>3, <1>8, <1>5
<1>9. CASE ~(i >= NR_SYMBOLS)
  <2>1. i \in Symbols
    BY <1>7, <1>9, Sizes DEF Symbols
  <2>2. PutAt(codeLengths, i) = {}
    <3>1. SUFFICES ASSUME NEW s \in PutAt(codeLengths, i) PROVE FALSE
      OBVIOUS
    <3>2. s \in Coded /\ Place(codeLengths, s) = i
      BY DEF PutAt, Coded, HasCode
    <3>3. i < Cardinality(Coded) /\ Cardinality(Coded) \in Nat
      BY <1>1, <3>2, PlaceUnique, PrecCount
    <3> QED BY <1>7, <3>3
  <2>3. mSymbols[i] = Invalid
    BY <2>1, <2>2, SetOrRefused DEF TablesOf
  <2> QED BY <1>3, <1>9, <1>5, <2>3
<1> QED BY <1>8, <1>9

LEMMA DecodesInv == DInv => DecodesCanonical
<1> SUFFICES ASSUME DInv, state = "ready", NEW value \in Values
             PROVE  \/ \E s \in Symbols :
                         /\ BeginsWith(value, s)
                         /\ DecodeSymbol(value) = [numBits |-> codeLengths[s], symbol |-> s]
                    \/ /\ \A s \in Symbols : ~BeginsWith(value, s)
                       /\ DecodeSymbol(value).symbol = Invalid
  BY DEF DecodesCanonical
<1>1. value \in Nat /\ codeLengths \in Fitting /\ Covered(MAX_BITS) \in Nat
  BY Ready, Sizes, CoveredLemma DEF Values
<1>2. CASE value < Covered(MAX_BITS)
  <2>1. PICK s \in Coded : BeginsWith(value, s)
    BY <1>1, <1>2, SomeCode
  <2>2. s \in Symbols
    BY DEF Coded
  <2> QED BY <2>1, <2>2, CodeDecoded
<1>3. CASE ~(value < Covered(MAX_BITS))
  BY <1>1, <1>3, NothingDecoded
<1> QED BY <1>2, <1>3

\* Whatever codes the decoder was used for before, it decodes what begins with a code to
\* the symbol of this code and consumes no more, and the rest to no symbol: for all sizes
\* of codes and tables, numbers of symbols and sequences of uses.
THEOREM DecodesCorrect == Spec => []DecodesCanonical
<1> QED BY DInvariant, DecodesInv, PTL

-----------------------------------------------------------------------------
(* Types *)

LEMMA MinExists ==
  ASSUME NEW S \in SUBSET Nat, S # {}
  PROVE  Min(S) \in S /\ \A k \in S : Min(S) <= k
<1>1. PICK n \in S : \A k \in S : n <= k
  BY LeastNumber
<1>2. Min(S) = n
  <2>1. S \in SUBSET Int
    OBVIOUS
  <2> QED BY <1>1, <2>1, MinIs
<1> QED BY <1>1, <1>2

LEMMA MaxExists ==
  ASSUME NEW S \in SUBSET Symbols, S # {}
  PROVE  Max(S) \in S
<1>1. \A s \in S : s \in Nat /\ NR_SYMBOLS - s \in Nat /\ NR_SYMBOLS \in Nat
  BY Sizes DEF Symbols
<1> DEFINE T == {NR_SYMBOLS - s : s \in S}
<1>2. T \subseteq Nat /\ T # {}
  BY <1>1
<1>3. PICK m \in T : \A k \in T : m <= k
  <2> HIDE DEF T
  <2> QED BY <1>2, LeastNumber
<1>4. PICK s \in S : m = NR_SYMBOLS - s
  BY <1>3
<1>5. \A k \in S : NR_SYMBOLS - s <= NR_SYMBOLS - k
  BY <1>3, <1>4
<1>6. \A k \in S : s >= k
  BY <1>1, <1>5
<1>7. \E x \in S : \A y \in S : x >= y
  BY <1>6
<1> QED BY <1>7 DEF Max

\* What the loops write has its type, as long as startPos does not pass the number of values.
LEMMA WrittenTypes ==
  ASSUME NEW given \in Fitting, TypeOK
  PROVE  /\ \A i \in 0 .. MAX_BITS :
              /\ StartPos(given)[i] \in Nat
              /\ i \notin Overflows(given) => StartPos(given)[i] <= 2 ^ MAX_BITS
         /\ DOMAIN StartPos(given) = 0 .. MAX_BITS
         /\ Positions(given) \in [0 .. MAX_BITS -> 0 .. NR_SYMBOLS]
         /\ \A last \in 0 .. HUFFMAN_TABLE_BITS :
              Filled(given, last) \in [DOMAIN mLengths -> 0 .. HUFFMAN_TABLE_BITS]
<1>1. ASSUME NEW i \in 0 .. MAX_BITS
      PROVE  /\ StartPos(given)[i] \in Nat
             /\ i \notin Overflows(given) => StartPos(given)[i] <= 2 ^ MAX_BITS
  <2>1. StartPos(given)[i] = Area(given, UpTo(given, i)) /\ Area(given, UpTo(given, i)) \in Nat
    BY StartPosLemma, AreaSteps
  <2>2. CASE i = 0
    BY <2>1, <2>2, AreaSteps, Sizes
  <2>3. CASE i # 0
    <3>1. i \in 1 .. MAX_BITS
      BY <2>3, Sizes
    <3> QED BY <2>1, <3>1, Sizes DEF Overflows
  <2> QED BY <2>2, <2>3
<1>2. DOMAIN StartPos(given) = 0 .. MAX_BITS
  BY StartPosLemma
<1>3. Positions(given) \in [0 .. MAX_BITS -> 0 .. NR_SYMBOLS]
  <2>1. ASSUME NEW i \in 0 .. MAX_BITS PROVE Cardinality(Shorter(given, i)) \in 0 .. NR_SYMBOLS
    <3>1. Shorter(given, i) \in SUBSET Symbols /\ Cardinality(Shorter(given, i)) \in Nat
      BY ShorterLemma
    <3>2. Cardinality(Shorter(given, i)) <= Cardinality(Symbols)
      BY <3>1, Sizes, FS_Subset
    <3>3. Cardinality(Symbols) = NR_SYMBOLS
      BY SymbolCount
    <3> QED BY <3>1, <3>2, <3>3, Sizes
  <2> QED BY <2>1, PositionsLemma
<1>4. ASSUME NEW last \in 0 .. HUFFMAN_TABLE_BITS
      PROVE  Filled(given, last) \in [DOMAIN mLengths -> 0 .. HUFFMAN_TABLE_BITS]
  <2> DEFINE fits(k) ==
               {i \in 1 .. last :
                  k < Limits(given)[i] \div 2 ^ (MAX_BITS - HUFFMAN_TABLE_BITS)}
  <2>1. ASSUME NEW k \in DOMAIN mLengths, fits(k) # {}
        PROVE  Min(fits(k)) \in 0 .. HUFFMAN_TABLE_BITS
    <3>1. fits(k) \in SUBSET (1 .. last)
      OBVIOUS
    <3> HIDE DEF fits
    <3>2. fits(k) \in SUBSET Nat
      BY <3>1
    <3>3. Min(fits(k)) \in 1 .. last
      BY <2>1, <3>1, <3>2, MinExists
    <3> QED BY <3>3, Sizes
  <2>2. \A k \in DOMAIN mLengths : mLengths[k] \in 0 .. HUFFMAN_TABLE_BITS
    BY DEF TypeOK
  <2>3. Filled(given, last)
          = [k \in DOMAIN mLengths |-> IF fits(k) = {} THEN mLengths[k] ELSE Min(fits(k))]
    BY DEF Filled
  <2> HIDE DEF fits
  <2> QED BY <2>1, <2>2, <2>3
<1> QED BY <1>1, <1>2, <1>3, <1>4

LEMMA FittingLens ==
  ASSUME NEW given \in [Symbols -> Lengths], TooLong(given) = {}
  PROVE  given \in Fitting
<1>1. \A s \in Symbols : given[s] \in Nat /\ ~(given[s] > MAX_BITS)
  BY HuffmanAssumption DEF TooLong
<1>2. \A s \in Symbols : given[s] \in 0 .. MAX_BITS
  BY <1>1, Sizes
<1> QED BY <1>2 DEF Fitting

LEMMA TypeStarts == Init => TypeOK
<1> SUFFICES ASSUME Init PROVE TypeOK
  OBVIOUS
<1>1. /\ 0 \in 0 .. 2 ^ MAX_BITS /\ 0 \in 0 .. NR_SYMBOLS
      /\ 0 \in 0 .. HUFFMAN_TABLE_BITS /\ 0 \in Nat
  BY Sizes
<1> QED BY <1>1 DEF Init, TypeOK

LEMMA TypeStep == TypeOK /\ [Next]_vars => TypeOK'
<1> SUFFICES ASSUME TypeOK, [Next]_vars PROVE TypeOK'
  OBVIOUS
<1> DEFINE L == 0 .. 2 ^ MAX_BITS
<1>0. /\ 2 ^ MAX_BITS \in L /\ 2 ^ MAX_BITS \in Nat
      /\ HUFFMAN_TABLE_BITS \in 0 .. HUFFMAN_TABLE_BITS
      /\ DOMAIN mLengths = 0 .. 2 ^ HUFFMAN_TABLE_BITS - 1
  BY Sizes DEF TypeOK
<1>1. ASSUME NEW given \in [Symbols -> Lengths], SetCodeLengths(given) PROVE TypeOK'
  <2>1. given \in Fitting /\ Overflows(given) = {}
    BY <1>1, FittingLens DEF SetCodeLengths
  <2>2. Limits(given) \in [0 .. MAX_BITS -> L]
    <3>1. \A i \in 0 .. MAX_BITS : StartPos(given)[i] \in L
      BY <1>0, <2>1, WrittenTypes
    <3>2. StartPos(given) = [i \in 0 .. MAX_BITS |-> Area(given, UpTo(given, i))]
      BY <2>1, StartPosLemma
    <3>3. StartPos(given) \in [0 .. MAX_BITS -> L]
      BY <3>1, <3>2
    <3> HIDE DEF L
    <3> QED BY <1>0, <3>3 DEF Limits
  <2>3. mSymbols' \in [Symbols -> Symbols \cup {Invalid}]
    <3>1. mSymbols' = [p \in Symbols |-> IF PutAt(given, p) = {} THEN Invalid
                                         ELSE Max(PutAt(given, p))]
      BY <1>1 DEF SetCodeLengths, PutAt
    <3>2. ASSUME NEW p \in Symbols, PutAt(given, p) # {} PROVE Max(PutAt(given, p)) \in Symbols
      <4>1. PutAt(given, p) \in SUBSET Symbols
        BY DEF PutAt
      <4> QED BY <3>2, <4>1, MaxExists
    <3> QED BY <3>1, <3>2
  <2>4. Positions(given) \in [0 .. MAX_BITS -> 0 .. NR_SYMBOLS]
        /\ Filled(given, HUFFMAN_TABLE_BITS) \in [DOMAIN mLengths -> 0 .. HUFFMAN_TABLE_BITS]
    BY <1>0, <2>1, WrittenTypes
  <2>5. /\ mLimits' = Limits(given) /\ mPositions' = Positions(given)
        /\ mLengths' = Filled(given, HUFFMAN_TABLE_BITS)
        /\ codeLengths' = given /\ state' = "ready" /\ uses' = uses + 1
    BY <1>1 DEF SetCodeLengths
  <2>6. codeLengths' \in [Symbols -> Lengths \cup {0}] /\ uses' \in Nat
    BY <2>5 DEF TypeOK
  <2> HIDE DEF L
  <2>7. mLimits' \in [0 .. MAX_BITS -> L]
    BY <2>2, <2>5
  <2> QED BY <1>0, <2>3, <2>4, <2>5, <2>6, <2>7 DEF TypeOK, L
<1>2. ASSUME NEW given \in [Symbols -> Lengths], LengthTooLong(given) PROVE TypeOK'
  <2>1. mSymbols' \in [Symbols -> Symbols \cup {Invalid}]
    BY <1>2 DEF LengthTooLong, TypeOK
  <2>2. codeLengths' \in [Symbols -> Lengths \cup {0}] /\ uses' \in Nat /\ state' = "corrupted"
        /\ UNCHANGED <<mLimits, mPositions, mLengths>>
    BY <1>2 DEF LengthTooLong, TypeOK
  <2> QED BY <2>1, <2>2 DEF TypeOK
<1>3. ASSUME NEW given \in [Symbols -> Lengths], TooManyCodes(given) PROVE TypeOK'
  <2> DEFINE done == Min(Overflows(given)) - 1
  <2>1. given \in Fitting /\ Overflows(given) # {}
    BY <1>3, FittingLens DEF TooManyCodes
  <2>2. /\ Min(Overflows(given)) \in 1 .. MAX_BITS
        /\ \A i \in Overflows(given) : Min(Overflows(given)) <= i
    <3>1. Overflows(given) \in SUBSET (1 .. MAX_BITS)
      BY DEF Overflows
    <3>2. Overflows(given) \in SUBSET Nat
      BY <3>1
    <3> QED BY <2>1, <3>1, <3>2, MinExists
  <2>3. /\ mLimits' =
             [i \in DOMAIN mLimits |-> IF i <= done THEN Limits(given)[i] ELSE mLimits[i]]
        /\ mPositions' =
             [i \in DOMAIN mPositions |->
                IF i <= done THEN Positions(given)[i] ELSE mPositions[i]]
        /\ mLengths' = Filled(given, Lesser(done, HUFFMAN_TABLE_BITS))
        /\ mSymbols' = [s \in Symbols |-> Invalid]
        /\ codeLengths' = given /\ state' = "corrupted" /\ uses' = uses + 1
    BY <1>3, Zenon DEF TooManyCodes
  <2>4. /\ done \in 0 .. MAX_BITS - 1
        /\ \A i \in 0 .. MAX_BITS : i <= done => i \notin Overflows(given)
    BY <2>2, Sizes
  <2> HIDE DEF done
  <2>5. ASSUME NEW i \in 0 .. MAX_BITS, i <= done PROVE Limits(given)[i] \in L
    <3>1. i # MAX_BITS /\ i \notin Overflows(given)
      BY <2>4, <2>5, Sizes
    <3>2. Limits(given)[i] = StartPos(given)[i]
      BY <3>1, <2>1, WrittenTypes DEF Limits
    <3> QED BY <1>0, <2>1, <3>1, <3>2, WrittenTypes
  <2>6. mLimits' \in [0 .. MAX_BITS -> L]
    <3>1. mLimits \in [0 .. MAX_BITS -> L]
      BY DEF TypeOK
    <3> HIDE DEF L
    <3> QED BY <2>3, <2>5, <3>1
  <2>7. mPositions' \in [0 .. MAX_BITS -> 0 .. NR_SYMBOLS]
    <3>1. Positions(given) \in [0 .. MAX_BITS -> 0 .. NR_SYMBOLS]
      BY <2>1, WrittenTypes
    <3> QED BY <2>3, <3>1 DEF TypeOK
  <2>8. mLengths' \in [DOMAIN mLengths -> 0 .. HUFFMAN_TABLE_BITS]
    <3>1. Lesser(done, HUFFMAN_TABLE_BITS) \in 0 .. HUFFMAN_TABLE_BITS
      BY <2>4, Sizes DEF Lesser
    <3> QED BY <2>1, <2>3, <3>1, WrittenTypes
  <2>9. codeLengths' \in [Symbols -> Lengths \cup {0}] /\ uses' \in Nat
        /\ mSymbols' \in [Symbols -> Symbols \cup {Invalid}]
    BY <2>3 DEF TypeOK
  <2> HIDE DEF L
  <2> QED BY <1>0, <2>3, <2>6, <2>7, <2>8, <2>9 DEF TypeOK, L
<1>4. CASE UNCHANGED vars
  BY <1>4 DEF vars, tables, TypeOK
<1> QED BY <1>1, <1>2, <1>3, <1>4 DEF Next

\* The tables stay within their bounds, also when setCodeLengths() gives up in the middle.
THEOREM TypeCorrect == Spec => []TypeOK
<1> QED BY TypeStarts, TypeStep, PTL DEF Spec

-----------------------------------------------------------------------------
(* Sums of numbers, counted as cells: as many for an element as it adds *)

Pile(f, S) == {p \in S \X Nat : p[2] < f[p[1]]}
Total(f, S) == Cardinality(Pile(f, S))

\* Finitely many cells of finitely many elements.
LEMMA PileFinite ==
  ASSUME NEW S, IsFiniteSet(S), NEW f, \A s \in S : f[s] \in Nat
  PROVE  IsFiniteSet(Pile(f, S)) /\ Total(f, S) \in Nat
<1> DEFINE h == [s \in S |-> {s} \X (0 .. f[s] - 1)]
           T == {h[s] : s \in S}
<1>1. IsFiniteSet(T)
  <2>1. h \in Surjection(S, T)
    <3>1. h \in [S -> T] /\ \A t \in T : \E s \in S : h[s] = t
      OBVIOUS
    <3> QED BY <3>1, Zenon DEF Surjection
  <2> QED BY <2>1, FS_Surjection
<1>2. ASSUME NEW t \in T PROVE IsFiniteSet(t)
  <2>1. PICK s \in S : t = {s} \X (0 .. f[s] - 1)
    OBVIOUS
  <2>2. IsFiniteSet({s}) /\ IsFiniteSet(0 .. f[s] - 1)
    <3>1. 0 \in Int /\ f[s] - 1 \in Int
      OBVIOUS
    <3> QED BY <3>1, FS_Singleton, FS_Interval
  <2> QED BY <2>1, <2>2, FS_Product
<1>3. Pile(f, S) \subseteq UNION T
  <2>1. SUFFICES ASSUME NEW s \in S, NEW v \in Nat, v < f[s] PROVE <<s, v>> \in UNION T
    BY DEF Pile
  <2>2. <<s, v>> \in h[s]
    BY <2>1
  <2>3. h[s] \in T
    OBVIOUS
  <2> HIDE DEF T, h
  <2> QED BY <2>2, <2>3
<1> HIDE DEF T
<1>4. IsFiniteSet(UNION T)
  BY <1>1, <1>2, FS_UNION
<1>5. IsFiniteSet(Pile(f, S))
  BY <1>3, <1>4, FS_Subset
<1> QED BY <1>5, FS_CardinalityType DEF Total

\* Nothing adds up to nothing.
LEMMA TotalEmpty == ASSUME NEW f PROVE Total(f, {}) = 0
<1>1. Pile(f, {}) = {}
  BY DEF Pile
<1> QED BY <1>1, FS_EmptySet DEF Total

\* The sums of disjoint sets add up.
LEMMA TotalUnion ==
  ASSUME NEW f, NEW S, NEW T, IsFiniteSet(S), IsFiniteSet(T), S \cap T = {},
         \A s \in S \cup T : f[s] \in Nat
  PROVE  Total(f, S \cup T) = Total(f, S) + Total(f, T)
<1> DEFINE A == Pile(f, S)
           B == Pile(f, T)
<1>1. IsFiniteSet(A) /\ IsFiniteSet(B) /\ Cardinality(A) \in Nat /\ Cardinality(B) \in Nat
  BY PileFinite, FS_CardinalityType
<1>2. Pile(f, S \cup T) = A \cup B /\ A \cap B = {}
  BY DEF Pile
<1> HIDE DEF A, B
<1>3. Cardinality(A \cup B) = Cardinality(A) + Cardinality(B) - Cardinality(A \cap B)
  BY <1>1, FS_Union
<1>4. Cardinality(A \cap B) = 0
  BY <1>2, FS_EmptySet
<1>5. Cardinality(A \cup B) = Cardinality(A) + Cardinality(B)
  BY <1>1, <1>3, <1>4
<1> QED BY <1>2, <1>5 DEF Total, A, B

\* What is added depends on the elements only.
LEMMA TotalSame ==
  ASSUME NEW f, NEW g, NEW S, \A s \in S : f[s] = g[s]
  PROVE  Total(f, S) = Total(g, S)
<1>1. Pile(f, S) = Pile(g, S)
  BY DEF Pile
<1> QED BY <1>1 DEF Total

\* Equal numbers are multiplied.
LEMMA TotalConst ==
  ASSUME NEW f, NEW S, IsFiniteSet(S), NEW q \in Nat, \A s \in S : f[s] = q
  PROVE  Total(f, S) = Cardinality(S) * q
<1> DEFINE V == 0 .. q - 1
<1>1. IsFiniteSet(V) /\ Cardinality(V) = q
  <2>1. 0 \in Int /\ q - 1 \in Int
    OBVIOUS
  <2>2. /\ IsFiniteSet(0 .. q - 1)
        /\ Cardinality(0 .. q - 1) = IF 0 > q - 1 THEN 0 ELSE q - 1 - 0 + 1
    BY <2>1, FS_Interval
  <2> QED BY <2>2
<1>2. \A v : v \in V <=> v \in Nat /\ v < q
  OBVIOUS
<1> HIDE DEF V
<1>3. Pile(f, S) = S \X V
  BY <1>2 DEF Pile
<1>4. Cardinality(S \X V) = Cardinality(S) * Cardinality(V)
  BY <1>1, FS_Product
<1> QED BY <1>1, <1>3, <1>4 DEF Total

\* The sum of one number is the number.
LEMMA TotalOne ==
  ASSUME NEW f, NEW s, f[s] \in Nat
  PROVE  Total(f, {s}) = f[s]
<1> DEFINE q == f[s]
<1>1. IsFiniteSet({s}) /\ Cardinality({s}) = 1
  BY FS_Singleton
<1>2. Total(f, {s}) = Cardinality({s}) * q
  <2>1. \A t \in {s} : f[t] = q
    OBVIOUS
  <2>2. q \in Nat
    OBVIOUS
  <2> HIDE DEF q
  <2> QED BY <1>1, <2>1, <2>2, TotalConst
<1>3. q \in Nat
  OBVIOUS
<1> HIDE DEF q
<1>4. Total(f, {s}) = 1 * q
  BY <1>1, <1>2
<1>5. 1 * q = q
  BY <1>3
<1> QED BY <1>4, <1>5 DEF q

\* One more element adds its number.
LEMMA TotalAdd ==
  ASSUME NEW f, NEW S, NEW x, IsFiniteSet(S), x \notin S, f[x] \in Nat,
         \A s \in S : f[s] \in Nat
  PROVE  Total(f, S \cup {x}) = Total(f, S) + f[x]
<1>1. IsFiniteSet({x}) /\ S \cap {x} = {} /\ \A s \in S \cup {x} : f[s] \in Nat
  BY FS_Singleton
<1> QED BY <1>1, TotalUnion, TotalOne

\* Less elements do not make a greater sum.
LEMMA TotalSubset ==
  ASSUME NEW f, NEW S, NEW T \in SUBSET S, IsFiniteSet(S), \A s \in S : f[s] \in Nat
  PROVE  Total(f, T) <= Total(f, S)
<1>1. Pile(f, T) \in SUBSET Pile(f, S) /\ IsFiniteSet(Pile(f, S))
  BY PileFinite DEF Pile
<1> QED BY <1>1, FS_Subset DEF Total

\* The steps of MapThenSumSet().
SumsOf(g, f, S) ==
  g = [s \in SUBSET S |-> IF s = {} THEN 0
                          ELSE f[CHOOSE x \in s : TRUE] + g[s \ {CHOOSE x \in s : TRUE}]]

\* What MapThenSumSet() makes of a finite set is the sum.
LEMMA SumsOfExist ==
  ASSUME NEW S, IsFiniteSet(S), NEW f, \A s \in S : f[s] \in Nat
  PROVE  /\ \E g : SumsOf(g, f, S)
         /\ \A g : SumsOf(g, f, S) => g[S] = Total(f, S)
<1> DEFINE A(s) == Total(f, s)
           c(s) == CHOOSE x \in s : TRUE
           w == [s \in SUBSET S |-> A(s)]
<1>1. ASSUME NEW s \in SUBSET S, s # {}
      PROVE  /\ c(s) \in s /\ s \ {c(s)} \in SUBSET S
             /\ A(s) = f[c(s)] + A(s \ {c(s)}) /\ A(s \ {c(s)}) \in Nat
             /\ Cardinality(s) \in Nat
             /\ Cardinality(s \ {c(s)}) = Cardinality(s) - 1
  <2>1. c(s) \in s
    BY <1>1
  <2> HIDE DEF c
  <2> DEFINE x == c(s)
             r == s \ {c(s)}
  <2>2. s = r \cup {x} /\ x \notin r /\ r \in SUBSET S /\ x \in s /\ x \in S
    BY <2>1
  <2>3. IsFiniteSet(s) /\ IsFiniteSet(r) /\ Cardinality(s) \in Nat
    BY <2>2, FS_Subset, FS_CardinalityType
  <2>4. Cardinality(s \ {x}) = IF x \in s THEN Cardinality(s) - 1 ELSE Cardinality(s)
    <3> HIDE DEF x
    <3> QED BY <2>3, FS_RemoveElement
  <2>5. Cardinality(r) = Cardinality(s) - 1
    BY <2>2, <2>4
  <2> HIDE DEF x, r
  <2>6. Total(f, r \cup {x}) = Total(f, r) + f[x]
    BY <2>2, <2>3, TotalAdd
  <2>7. Total(f, r) \in Nat
    BY <2>2, <2>3, PileFinite
  <2>8. f[x] \in Nat
    BY <2>2
  <2>9. A(s) = f[x] + A(r)
    BY <2>2, <2>6, <2>7, <2>8
  <2> QED BY <2>1, <2>2, <2>3, <2>5, <2>7, <2>9 DEF x, r
<1>2. A({}) = 0
  BY TotalEmpty
<1>3. \A s \in SUBSET S : w[s] = IF s = {} THEN 0 ELSE f[c(s)] + w[s \ {c(s)}]
  <2>1. SUFFICES ASSUME NEW s \in SUBSET S
                 PROVE  w[s] = IF s = {} THEN 0 ELSE f[c(s)] + w[s \ {c(s)}]
    OBVIOUS
  <2>2. CASE s = {}
    BY <1>2, <2>2
  <2>3. CASE s # {}
    <3>1. s \ {c(s)} \in SUBSET S /\ A(s) = f[c(s)] + A(s \ {c(s)})
      BY <1>1, <2>3
    <3> HIDE DEF A, c
    <3> QED BY <2>3, <3>1
  <2> QED BY <2>2, <2>3
<1>4. SumsOf(w, f, S)
  <2>1. w = [s \in SUBSET S |-> w[s]]
    OBVIOUS
  <2> HIDE DEF w
  <2> QED BY <1>3, <2>1 DEF SumsOf
<1>5. ASSUME NEW g, SumsOf(g, f, S) PROVE g[S] = Total(f, S)
  <2> DEFINE T == {n \in Nat : \E s \in SUBSET S : Cardinality(s) = n /\ g[s] # A(s)}
  <2>1. \A s \in SUBSET S : g[s] = IF s = {} THEN 0 ELSE f[c(s)] + g[s \ {c(s)}]
    BY <1>5 DEF SumsOf
  <2>2. ASSUME NEW n \in T, \A k \in T : n <= k PROVE FALSE
    <3>1. PICK s \in SUBSET S : Cardinality(s) = n /\ g[s] # A(s)
      BY <2>2
    <3>2. s # {}
      BY <1>2, <2>1, <3>1
    <3> DEFINE r == s \ {c(s)}
    <3>3. r \in SUBSET S /\ A(s) = f[c(s)] + A(r) /\ Cardinality(r) = n - 1 /\ n \in Nat
      BY <1>1, <3>1, <3>2
    <3>4. g[s] = f[c(s)] + g[r]
      BY <2>1, <3>2
    <3>5. Cardinality(r) \in Nat
      BY <3>3, FS_Subset, FS_CardinalityType
    <3> HIDE DEF r, A, c
    <3>6. g[r] # A(r)
      BY <3>1, <3>3, <3>4
    <3>7. Cardinality(r) \in T
      BY <3>3, <3>5, <3>6
    <3>8. n <= n - 1
      BY <2>2, <3>3, <3>7
    <3> QED BY <3>3, <3>8
  <2>3. T \subseteq Nat
    OBVIOUS
  <2>4. T = {}
    <3> HIDE DEF T
    <3> QED BY <2>2, <2>3, LeastNumber
  <2>5. Cardinality(S) \in Nat /\ S \in SUBSET S
    BY FS_CardinalityType
  <2> HIDE DEF A
  <2>6. g[S] = A(S)
    BY <2>4, <2>5
  <2> QED BY <2>6 DEF A
<1> HIDE DEF w
<1> QED BY <1>4, <1>5

-----------------------------------------------------------------------------
(* Loops, as functions of the number of their rounds *)

\* What a loop keeps from round to round holds after every one.
LEMMA UpToAll ==
  ASSUME NEW n \in Nat, NEW T, 0 \in T, \A i \in 1 .. n : i - 1 \in T => i \in T
  PROVE  \A i \in 0 .. n : i \in T
<1> DEFINE U == {i \in 0 .. n : i \notin T}
<1>1. ASSUME NEW i \in U, \A k \in U : i <= k PROVE FALSE
  <2>1. i # 0 /\ i \in 1 .. n /\ i - 1 \in 0 .. n /\ ~(i <= i - 1)
    OBVIOUS
  <2>2. i - 1 \notin U
    BY <1>1, <2>1
  <2>3. i - 1 \in T
    BY <2>1, <2>2
  <2> QED BY <2>1, <2>3
<1>2. U \subseteq Nat
  OBVIOUS
<1>3. U = {}
  <2> HIDE DEF U
  <2> QED BY <1>1, <1>2, LeastNumber
<1> QED BY <1>3

\* A loop of n rounds that begins with x; step says what a round makes of the number of
\* rounds before it and the state they left.
Rounds(f, n, x, step) == f = [i \in 0 .. n |-> IF i = 0 THEN x ELSE step[<<i - 1, f[i - 1]>>]]

\* There is the function that says what every number of rounds leaves, and it stays in P.
LEMMA RoundsExist ==
  ASSUME NEW n \in Nat, NEW P, NEW x, <<0, x>> \in P, NEW step,
         \A i \in 1 .. n : \A s : <<i - 1, s>> \in P => <<i, step[<<i - 1, s>>]>> \in P
  PROVE  \E f : Rounds(f, n, x, step) /\ \A i \in 0 .. n : <<i, f[i]>> \in P
<1> DEFINE Good(f, m) ==
             /\ f = [i \in 0 .. m |-> IF i = 0 THEN x ELSE step[<<i - 1, f[i - 1]>>]]
             /\ \A i \in 0 .. m : <<i, f[i]>> \in P
           T == {m \in Nat : \E f : Good(f, m)}
<1>1. 0 \in T
  <2> DEFINE g == [i \in 0 .. 0 |-> x]
  <2>1. \A i \in 0 .. 0 : i = 0 /\ g[i] = x
    OBVIOUS
  <2>2. g = [i \in 0 .. 0 |-> IF i = 0 THEN x ELSE step[<<i - 1, g[i - 1]>>]]
    BY <2>1
  <2>3. \A i \in 0 .. 0 : <<i, g[i]>> \in P
    BY <2>1
  <2>4. Good(g, 0)
    <3> HIDE DEF g
    <3> QED BY <2>2, <2>3
  <2> QED BY <2>4
<1>2. ASSUME NEW m \in 1 .. n, m - 1 \in T PROVE m \in T
  <2>1. PICK f : Good(f, m - 1)
    BY <1>2
  <2> DEFINE y == step[<<m - 1, f[m - 1]>>]
             g == [i \in 0 .. m |-> IF i = m THEN y ELSE f[i]]
  <2>2. \A i \in 0 .. m - 1 : f[i] = IF i = 0 THEN x ELSE step[<<i - 1, f[i - 1]>>]
    BY <2>1
  <2>3. m \in Nat /\ m # 0 /\ m - 1 \in 0 .. m - 1
    OBVIOUS
  <2>4. <<m - 1, f[m - 1]>> \in P
    BY <2>1, <2>3
  <2>5. <<m, y>> \in P
    BY <2>4
  <2>6. g[m] = y /\ \A i \in 0 .. m - 1 : g[i] = f[i]
    OBVIOUS
  <2>7. \A i \in 0 .. m : g[i] = IF i = 0 THEN x ELSE step[<<i - 1, g[i - 1]>>]
    <3>1. SUFFICES ASSUME NEW i \in 0 .. m
                   PROVE  g[i] = IF i = 0 THEN x ELSE step[<<i - 1, g[i - 1]>>]
      OBVIOUS
    <3> HIDE DEF g
    <3>2. CASE i = m
      BY <2>3, <2>6, <3>2
    <3>3. CASE i # m
      <4>1. i \in 0 .. m - 1 /\ (i # 0 => i - 1 \in 0 .. m - 1)
        BY <3>3
      <4> QED BY <2>2, <2>6, <4>1
    <3> QED BY <3>2, <3>3
  <2>8. g = [i \in 0 .. m |-> g[i]]
    OBVIOUS
  <2>9. \A i \in 0 .. m : <<i, g[i]>> \in P
    <3>1. SUFFICES ASSUME NEW i \in 0 .. m PROVE <<i, g[i]>> \in P
      OBVIOUS
    <3> HIDE DEF g
    <3>2. i = m \/ i \in 0 .. m - 1
      OBVIOUS
    <3> HIDE DEF y
    <3> QED BY <2>1, <2>5, <2>6, <3>2
  <2>10. Good(g, m)
    <3> HIDE DEF g
    <3> QED BY <2>7, <2>8, <2>9
  <2> QED BY <2>3, <2>10
<1>3. n \in T
  <2> HIDE DEF T
  <2> QED BY <1>1, <1>2, UpToAll
<1> QED BY <1>3 DEF Rounds

-----------------------------------------------------------------------------
(* Orders of the elements of a set *)

Orders(S, n) ==
  {p \in [1 .. n -> S] : /\ \A i, j \in 1 .. n : p[i] = p[j] => i = j
                         /\ \A s \in S : \E i \in 1 .. n : p[i] = s}

\* Two elements change their places.
LEMMA Swapped ==
  ASSUME NEW n \in Nat, NEW S, NEW p \in Orders(S, n), NEW i \in 1 .. n, NEW j \in 1 .. n
  PROVE  [p EXCEPT ![i] = p[j], ![j] = p[i]] \in Orders(S, n)
<1> DEFINE q == [p EXCEPT ![i] = p[j], ![j] = p[i]]
<1>1. /\ p \in [1 .. n -> S] /\ \A k, m \in 1 .. n : p[k] = p[m] => k = m
      /\ \A s \in S : \E k \in 1 .. n : p[k] = s
  BY DEF Orders
<1>2. /\ q \in [1 .. n -> S] /\ q[i] = p[j] /\ q[j] = p[i]
      /\ \A k \in 1 .. n : k # i /\ k # j => q[k] = p[k]
  BY <1>1
<1> HIDE DEF q
<1>3. \A k, m \in 1 .. n : q[k] = q[m] => k = m
  <2>1. SUFFICES ASSUME NEW k \in 1 .. n, NEW m \in 1 .. n, q[k] = q[m] PROVE k = m
    OBVIOUS
  <2>2. CASE k = i
    BY <1>1, <1>2, <2>1, <2>2, ZenonT(60)
  <2>3. CASE k = j
    BY <1>1, <1>2, <2>1, <2>3, ZenonT(60)
  <2>4. CASE k # i /\ k # j
    BY <1>1, <1>2, <2>1, <2>4
  <2> QED BY <2>2, <2>3, <2>4
<1>4. ASSUME NEW s \in S PROVE \E k \in 1 .. n : q[k] = s
  <2>1. PICK k \in 1 .. n : p[k] = s
    BY <1>1
  <2> QED BY <1>2, <2>1
<1>5. q \in Orders(S, n)
  BY <1>2, <1>3, <1>4 DEF Orders
<1> QED BY <1>5 DEF q

HoleSteps(h, p, k, size, temp) ==
  h = [i \in 0 .. size |->
         IF i = 0 THEN [p |-> p, k |-> k] ELSE FilledFromBelow(h[i - 1], size, temp)]

\* When temp is put into the hole nothing is lost, wherever the hole has got to.
LEMMA HeapSortDownOrders ==
  ASSUME NEW n \in Nat, NEW S, NEW size \in 0 .. n, NEW k \in 1 .. n, NEW temp \in S,
         NEW p \in [1 .. n -> S], [p EXCEPT ![k] = temp] \in Orders(S, n)
  PROVE  HeapSortDown(p, k, size, temp) \in Orders(S, n)
<1> DEFINE Holes == {h \in [p : [1 .. n -> S], k : 1 .. n] :
                       [h.p EXCEPT ![h.k] = temp] \in Orders(S, n)}
           P == Nat \X Holes
           x == [p |-> p, k |-> k]
           step == [q \in P |-> FilledFromBelow(q[2], size, temp)]
           f == CHOOSE h : HoleSteps(h, p, k, size, temp)
<1>1. size \in Nat /\ <<0, x>> \in P
  <2>1. x \in [p : [1 .. n -> S], k : 1 .. n] /\ x.p = p /\ x.k = k
    OBVIOUS
  <2> HIDE DEF x
  <2>2. x \in Holes
    BY <2>1
  <2> HIDE DEF Holes
  <2> QED BY <2>2
<1>2. ASSUME NEW h \in Holes PROVE FilledFromBelow(h, size, temp) \in Holes
  <2> DEFINE s == GreaterChild(h.p, h.k, size)
  <2>1. CASE 2 * h.k > size \/ temp >= h.p[s]
    BY <2>1 DEF FilledFromBelow
  <2>2. CASE ~(2 * h.k > size \/ temp >= h.p[s])
    <3>1. h.p \in [1 .. n -> S] /\ h.k \in 1 .. n /\ [h.p EXCEPT ![h.k] = temp] \in Orders(S, n)
      OBVIOUS
    <3>2. s \in 1 .. n /\ s # h.k
      BY <2>2, <3>1 DEF GreaterChild
    <3>3. FilledFromBelow(h, size, temp) = [p |-> [h.p EXCEPT ![h.k] = h.p[s]], k |-> s]
      BY <2>2 DEF FilledFromBelow
    <3> DEFINE a == [h.p EXCEPT ![h.k] = temp]
               b == [[h.p EXCEPT ![h.k] = h.p[s]] EXCEPT ![s] = temp]
    <3> HIDE DEF s
    <3>4. b = [a EXCEPT ![h.k] = a[s], ![s] = a[h.k]]
      BY <3>1, <3>2
    <3>5. b \in Orders(S, n)
      <4> HIDE DEF b
      <4>1. a \in Orders(S, n)
        BY <3>1
      <4> HIDE DEF a
      <4> QED BY <3>1, <3>2, <3>4, <4>1, Swapped
    <3>6. [h.p EXCEPT ![h.k] = h.p[s]] \in [1 .. n -> S]
      BY <3>1, <3>2
    <3> DEFINE r == [p |-> [h.p EXCEPT ![h.k] = h.p[s]], k |-> s]
    <3>7. /\ r \in [p : [1 .. n -> S], k : 1 .. n]
          /\ r.p = [h.p EXCEPT ![h.k] = h.p[s]] /\ r.k = s
      BY <3>2, <3>6
    <3> HIDE DEF r
    <3>8. r \in Holes
      BY <3>5, <3>7
    <3> QED BY <3>3, <3>8 DEF r
  <2> QED BY <2>1, <2>2
<1>3. \A q \in P : step[q] = FilledFromBelow(q[2], size, temp)
  OBVIOUS
<1>4. \A i \in 1 .. size : \A s : <<i - 1, s>> \in P =>
        <<i, step[<<i - 1, s>>]>> \in P
        /\ step[<<i - 1, s>>] = FilledFromBelow(s, size, temp)
  <2> HIDE DEF step, Holes
  <2> QED BY <1>2, <1>3
<1> HIDE DEF step, P, x
<1>5. \E h : HoleSteps(h, p, k, size, temp)
  <2>1. PICK h : Rounds(h, size, x, step) /\ \A i \in 0 .. size : <<i, h[i]>> \in P
    BY <1>1, <1>4, RoundsExist
  <2>2. \A i \in 1 .. size : step[<<i - 1, h[i - 1]>>] = FilledFromBelow(h[i - 1], size, temp)
    <3>1. \A i \in 1 .. size : i - 1 \in 0 .. size
      OBVIOUS
    <3> QED BY <1>4, <2>1, <3>1
  <2>3. h = [i \in 0 .. size |-> IF i = 0 THEN x ELSE step[<<i - 1, h[i - 1]>>]]
    BY <2>1 DEF Rounds
  <2>4. \A i \in 0 .. size : i # 0 => i \in 1 .. size
    OBVIOUS
  <2>5. h = [i \in 0 .. size |->
               IF i = 0 THEN x ELSE FilledFromBelow(h[i - 1], size, temp)]
    BY <2>2, <2>3, <2>4
  <2> QED BY <2>5 DEF HoleSteps, x
<1>6. HoleSteps(f, p, k, size, temp)
  BY <1>5, Zenon
<1> HIDE DEF f
<1>7. \A i \in 0 .. size : f[i] \in Holes
  <2> DEFINE T == {i \in Nat : f[i] \in Holes}
  <2>1. 0 \in 0 .. size /\ \A i \in 1 .. size : i \in 0 .. size /\ i # 0 /\ i \in Nat
    OBVIOUS
  <2>2. f[0] = x /\ \A i \in 1 .. size : f[i] = FilledFromBelow(f[i - 1], size, temp)
    BY <1>6, <2>1 DEF HoleSteps, x
  <2> HIDE DEF Holes
  <2>3. 0 \in T
    BY <1>1, <2>2 DEF P
  <2>4. \A i \in 1 .. size : i - 1 \in T => i \in T
    BY <1>2, <2>1, <2>2
  <2> HIDE DEF T
  <2>5. \A i \in 0 .. size : i \in T
    BY <1>1, <2>3, <2>4, UpToAll
  <2> QED BY <2>5 DEF T
<1>8. HeapSortDown(p, k, size, temp) = [f[size].p EXCEPT ![f[size].k] = temp]
  BY DEF HeapSortDown, HoleSteps, f
<1>9. f[size] \in Holes
  <2> HIDE DEF Holes
  <2> QED BY <1>1, <1>7
<1> QED BY <1>8, <1>9

HeapedSteps(h, p, size) ==
  h = [i \in 0 .. size \div 2 |->
         IF i = 0 THEN p
         ELSE HeapSortDown(h[i - 1], size \div 2 - i + 1, size, h[i - 1][size \div 2 - i + 1])]

\* Building the heap only rearranges,
LEMMA HeapedOrders ==
  ASSUME NEW n \in Nat, n >= 2, NEW S, NEW p \in Orders(S, n)
  PROVE  Heaped(p, n) \in Orders(S, n)
<1> DEFINE half == n \div 2
           Round(i, q) == HeapSortDown(q, half - i + 1, n, q[half - i + 1])
           P == Nat \X Orders(S, n)
           step == [r \in P |-> Round(r[1] + 1, r[2])]
           f == CHOOSE h : HeapedSteps(h, p, n)
<1>1. half \in Nat /\ half <= n /\ <<0, p>> \in P
  OBVIOUS
<1> HIDE DEF half
<1>2. ASSUME NEW i \in 1 .. half, NEW q \in Orders(S, n) PROVE Round(i, q) \in Orders(S, n)
  <2> DEFINE k == half - i + 1
  <2>1. q \in [1 .. n -> S] /\ k \in 1 .. n /\ n \in 0 .. n
    <3>1. q \in [1 .. n -> S]
      BY DEF Orders
    <3> QED BY <1>1, <3>1
  <2> HIDE DEF k
  <2>2. q[k] \in S /\ [q EXCEPT ![k] = q[k]] = q
    BY <2>1
  <2>3. HeapSortDown(q, k, n, q[k]) \in Orders(S, n)
    <3> DEFINE temp == q[k]
    <3>1. temp \in S /\ [q EXCEPT ![k] = temp] \in Orders(S, n)
      BY <2>2
    <3> HIDE DEF temp
    <3>2. HeapSortDown(q, k, n, temp) \in Orders(S, n)
      BY <2>1, <3>1, HeapSortDownOrders
    <3> QED BY <3>2 DEF temp
  <2> QED BY <2>3 DEF k
<1> HIDE DEF Round
<1>3. \A i \in 1 .. half : \A s : <<i - 1, s>> \in P =>
        <<i, step[<<i - 1, s>>]>> \in P /\ step[<<i - 1, s>>] = Round(i, s)
  <2>1. SUFFICES ASSUME NEW i \in 1 .. half, NEW s, <<i - 1, s>> \in P
                 PROVE  /\ <<i, step[<<i - 1, s>>]>> \in P
                        /\ step[<<i - 1, s>>] = Round(i, s)
    OBVIOUS
  <2>2. s \in Orders(S, n) /\ i \in Nat /\ (i - 1) + 1 = i
    BY <1>1, <2>1
  <2>3. step[<<i - 1, s>>] = Round(i, s)
    BY <2>1, <2>2
  <2> QED BY <1>2, <2>2, <2>3
<1> HIDE DEF step, P
<1>4. \E h : HeapedSteps(h, p, n)
  <2>1. PICK h : Rounds(h, half, p, step) /\ \A i \in 0 .. half : <<i, h[i]>> \in P
    BY <1>1, <1>3, RoundsExist
  <2>2. \A i \in 0 .. half : i # 0 => i \in 1 .. half /\ i - 1 \in 0 .. half
    BY <1>1
  <2>3. \A i \in 0 .. half : i # 0 => step[<<i - 1, h[i - 1]>>] = Round(i, h[i - 1])
    BY <1>3, <2>1, <2>2
  <2>4. h = [i \in 0 .. half |-> IF i = 0 THEN p ELSE step[<<i - 1, h[i - 1]>>]]
    BY <2>1 DEF Rounds
  <2>5. h = [i \in 0 .. half |-> IF i = 0 THEN p ELSE Round(i, h[i - 1])]
    BY <2>3, <2>4
  <2> QED BY <2>5 DEF HeapedSteps, Round, half
<1>5. HeapedSteps(f, p, n)
  BY <1>4, Zenon
<1> HIDE DEF f
<1>6. f[0] = p /\ \A i \in 1 .. half : f[i] = Round(i, f[i - 1])
  <2>1. f = [i \in 0 .. half |-> IF i = 0 THEN p ELSE Round(i, f[i - 1])]
    BY <1>5 DEF HeapedSteps, Round, half
  <2>2. 0 \in 0 .. half /\ \A i \in 1 .. half : i \in 0 .. half /\ i # 0
    BY <1>1
  <2> QED BY <2>1, <2>2
<1>7. \A i \in 0 .. half : f[i] \in Orders(S, n)
  <2> DEFINE T == {i \in Nat : f[i] \in Orders(S, n)}
  <2>1. 0 \in T
    BY <1>6
  <2>2. \A i \in 1 .. half : i - 1 \in T => i \in T
    BY <1>2, <1>6
  <2> HIDE DEF T
  <2>3. \A i \in 0 .. half : i \in T
    BY <1>1, <2>1, <2>2, UpToAll
  <2> QED BY <2>3 DEF T
<1>8. Heaped(p, n) = f[half]
  BY DEF Heaped, HeapedSteps, f, half
<1> QED BY <1>1, <1>7, <1>8

\* and so does taking the greatest off,
LEMMA TakenOffOrders ==
  ASSUME NEW n \in Nat, NEW S, NEW p \in Orders(S, n), NEW size \in 4 .. n
  PROVE  TakenOff(p, size) \in Orders(S, n)
<1> DEFINE k == IF p[3] > p[2] THEN 3 ELSE 2
           q == [p EXCEPT ![size] = p[1], ![1] = p[k]]
           a == [p EXCEPT ![1] = p[size], ![size] = p[1]]
           b == [a EXCEPT ![1] = a[k], ![k] = a[1]]
<1>1. /\ p \in [1 .. n -> S] /\ size \in 1 .. n /\ 1 \in 1 .. n
      /\ size # 1 /\ k # 1 /\ k # size /\ k \in 1 .. n /\ size - 1 \in 0 .. n
  BY DEF Orders
<1>2. TakenOff(p, size) = HeapSortDown(q, k, size - 1, p[size])
  BY DEF TakenOff
<1> HIDE DEF k
<1>3. a \in Orders(S, n)
  BY <1>1, Swapped
<1>4. b \in Orders(S, n)
  <2> HIDE DEF a
  <2> QED BY <1>1, <1>3, Swapped
<1>5. q \in [1 .. n -> S] /\ p[size] \in S /\ [q EXCEPT ![k] = p[size]] = b
  BY <1>1
<1> DEFINE temp == p[size]
<1>6. [q EXCEPT ![k] = temp] \in Orders(S, n)
  <2> HIDE DEF q, b
  <2> QED BY <1>4, <1>5
<1> HIDE DEF q
<1>7. HeapSortDown(q, k, size - 1, temp) \in Orders(S, n)
  <2>1. temp \in S
    BY <1>5
  <2> HIDE DEF temp
  <2> QED BY <1>1, <1>5, <1>6, <2>1, HeapSortDownOrders
<1> QED BY <1>2, <1>7

UnheapedSteps(h, p, size, taken) ==
  h = [i \in 0 .. taken |-> IF i = 0 THEN p ELSE TakenOff(h[i - 1], size - i + 1)]

\* one after the other, down to the last three.
LEMMA UnheapedOrders ==
  ASSUME NEW n \in Nat, n >= 2, NEW S, NEW p \in Orders(S, n)
  PROVE  Unheaped(p, n) \in Orders(S, n)
<1> DEFINE taken == IF n > 3 THEN n - 3 ELSE 0
           Round(i, q) == TakenOff(q, n - i + 1)
           P == Nat \X Orders(S, n)
           step == [r \in P |-> Round(r[1] + 1, r[2])]
           f == CHOOSE h : UnheapedSteps(h, p, n, taken)
<1>1. /\ taken \in Nat /\ <<0, p>> \in P /\ n - taken \in 2 .. 3 /\ n - taken <= n
      /\ \A i \in 1 .. taken : n - i + 1 \in 4 .. n
  OBVIOUS
<1> HIDE DEF taken
<1>2. ASSUME NEW i \in 1 .. taken, NEW q \in Orders(S, n) PROVE Round(i, q) \in Orders(S, n)
  BY <1>1, TakenOffOrders
<1> HIDE DEF Round
<1>3. \A i \in 1 .. taken : \A s : <<i - 1, s>> \in P =>
        <<i, step[<<i - 1, s>>]>> \in P /\ step[<<i - 1, s>>] = Round(i, s)
  <2>1. SUFFICES ASSUME NEW i \in 1 .. taken, NEW s, <<i - 1, s>> \in P
                 PROVE  /\ <<i, step[<<i - 1, s>>]>> \in P
                        /\ step[<<i - 1, s>>] = Round(i, s)
    OBVIOUS
  <2>2. s \in Orders(S, n) /\ i \in Nat /\ (i - 1) + 1 = i
    BY <1>1, <2>1
  <2>3. step[<<i - 1, s>>] = Round(i, s)
    BY <2>1, <2>2
  <2> QED BY <1>2, <2>2, <2>3
<1> HIDE DEF step, P
<1>4. \E h : UnheapedSteps(h, p, n, taken)
  <2>1. PICK h : Rounds(h, taken, p, step) /\ \A i \in 0 .. taken : <<i, h[i]>> \in P
    BY <1>1, <1>3, RoundsExist
  <2>2. \A i \in 0 .. taken : i # 0 => i \in 1 .. taken /\ i - 1 \in 0 .. taken
    BY <1>1
  <2>3. \A i \in 0 .. taken : i # 0 => step[<<i - 1, h[i - 1]>>] = Round(i, h[i - 1])
    BY <1>3, <2>1, <2>2
  <2>4. h = [i \in 0 .. taken |-> IF i = 0 THEN p ELSE step[<<i - 1, h[i - 1]>>]]
    BY <2>1 DEF Rounds
  <2>5. h = [i \in 0 .. taken |-> IF i = 0 THEN p ELSE Round(i, h[i - 1])]
    BY <2>3, <2>4
  <2> QED BY <2>5 DEF UnheapedSteps, Round
<1>5. UnheapedSteps(f, p, n, taken)
  BY <1>4, Zenon
<1> HIDE DEF f
<1>6. f[0] = p /\ \A i \in 1 .. taken : f[i] = Round(i, f[i - 1])
  <2>1. f = [i \in 0 .. taken |-> IF i = 0 THEN p ELSE Round(i, f[i - 1])]
    BY <1>5 DEF UnheapedSteps, Round
  <2>2. 0 \in 0 .. taken /\ \A i \in 1 .. taken : i \in 0 .. taken /\ i # 0
    BY <1>1
  <2> QED BY <2>1, <2>2
<1>7. \A i \in 0 .. taken : f[i] \in Orders(S, n)
  <2> DEFINE T == {i \in Nat : f[i] \in Orders(S, n)}
  <2>1. 0 \in T
    BY <1>6
  <2>2. \A i \in 1 .. taken : i - 1 \in T => i \in T
    BY <1>2, <1>6
  <2> HIDE DEF T
  <2>3. \A i \in 0 .. taken : i \in T
    BY <1>1, <2>1, <2>2, UpToAll
  <2> QED BY <2>3 DEF T
<1> DEFINE r == f[taken]
           left == n - taken
<1>8. Unheaped(p, n) = IF left > 2 /\ r[2] < r[left]
                         THEN [r EXCEPT ![left] = r[1], ![1] = r[2], ![2] = r[left]]
                         ELSE [r EXCEPT ![left] = r[1], ![1] = r[left]]
  BY DEF Unheaped, UnheapedSteps, f, taken
<1>9. r \in Orders(S, n) /\ left \in 2 .. 3 /\ left \in 1 .. n /\ 1 \in 1 .. n /\ 2 \in 1 .. n
  BY <1>1, <1>7
<1> HIDE DEF r, left
<1> DEFINE a == [r EXCEPT ![left] = r[1], ![1] = r[left]]
<1>10. a \in Orders(S, n)
  BY <1>9, Swapped
<1>11. CASE left > 2 /\ r[2] < r[left]
  <2> DEFINE b == [a EXCEPT ![1] = a[2], ![2] = a[1]]
  <2>1. b \in Orders(S, n)
    <3> HIDE DEF a
    <3> QED BY <1>9, <1>10, Swapped
  <2>2. r \in [1 .. n -> S] /\ left # 1 /\ left # 2
    BY <1>9, <1>11, SMTT(60) DEF Orders
  <2>3. [r EXCEPT ![left] = r[1], ![1] = r[2], ![2] = r[left]] = b
    BY <1>9, <2>2
  <2> QED BY <1>8, <1>11, <2>1, <2>3
<1>12. CASE ~(left > 2 /\ r[2] < r[left])
  BY <1>8, <1>10, <1>12
<1> QED BY <1>11, <1>12

\* Sorting loses no element and returns none twice.
LEMMA HeapSortOrders ==
  ASSUME NEW n \in Nat, NEW S, NEW p \in Orders(S, n)
  PROVE  HeapSort(p, n) \in Orders(S, n)
<1>1. CASE n <= 1
  BY <1>1 DEF HeapSort
<1>2. CASE ~(n <= 1)
  <2>1. n >= 2
    BY <1>2
  <2>2. Heaped(p, n) \in Orders(S, n)
    BY <2>1, HeapedOrders
  <2>3. Unheaped(Heaped(p, n), n) \in Orders(S, n)
    <3> DEFINE q == Heaped(p, n)
    <3> HIDE DEF q
    <3>1. q \in Orders(S, n)
      BY <2>2 DEF q
    <3>2. Unheaped(q, n) \in Orders(S, n)
      BY <2>1, <3>1, UnheapedOrders
    <3> QED BY <3>2 DEF q
  <2> QED BY <1>2, <2>3 DEF HeapSort
<1> QED BY <1>1, <1>2

-----------------------------------------------------------------------------
(* The symbols that occur, in order *)

\* The number of those before it in an order R is the place of an element of S.
RankIn(S, R, s) == Cardinality({t \in S : <<t, s>> \in R})

\* The elements of a strict order, counted from 0, have got one place each.
LEMMA Ranks ==
  ASSUME NEW S, IsFiniteSet(S), NEW R,
         \A s \in S : <<s, s>> \notin R,
         \A s, t \in S : s # t => <<s, t>> \in R \/ <<t, s>> \in R,
         \A s, t, u \in S : <<s, t>> \in R /\ <<t, u>> \in R => <<s, u>> \in R
  PROVE  /\ Cardinality(S) \in Nat
         /\ \A s \in S : RankIn(S, R, s) \in 0 .. Cardinality(S) - 1
         /\ \A s, t \in S : RankIn(S, R, s) = RankIn(S, R, t) => s = t
         /\ \A i \in 0 .. Cardinality(S) - 1 : \E s \in S : RankIn(S, R, s) = i
<1> DEFINE Below(s) == {t \in S : <<t, s>> \in R}
           n == Cardinality(S)
           r == [s \in S |-> RankIn(S, R, s)]
<1>1. n \in Nat
  BY FS_CardinalityType
<1>2. ASSUME NEW s \in S PROVE Cardinality(Below(s)) \in 0 .. n - 1
  <2>1. Below(s) \in SUBSET S /\ s \notin Below(s) /\ Below(s) # S
    OBVIOUS
  <2>2. IsFiniteSet(Below(s)) /\ Cardinality(Below(s)) <= n /\ Cardinality(Below(s)) # n
    <3> HIDE DEF Below
    <3> QED BY <2>1, FS_Subset
  <2>3. Cardinality(Below(s)) \in Nat
    <3> HIDE DEF Below
    <3> QED BY <2>2, FS_CardinalityType
  <2> HIDE DEF Below, n
  <2> QED BY <1>1, <2>2, <2>3
<1>3. ASSUME NEW s \in S, NEW t \in S, <<s, t>> \in R
      PROVE  Cardinality(Below(s)) # Cardinality(Below(t))
  <2>1. Below(s) \in SUBSET Below(t) /\ s \in Below(t) /\ s \notin Below(s)
    BY <1>3
  <2>2. IsFiniteSet(Below(t))
    BY FS_Subset
  <2> HIDE DEF Below
  <2>3. Cardinality(Below(t)) = Cardinality(Below(s)) => Below(t) = Below(s)
    BY <2>1, <2>2, FS_Subset
  <2> QED BY <2>1, <2>3
<1>4. \A s \in S : RankIn(S, R, s) = Cardinality(Below(s))
  BY DEF RankIn
<1> HIDE DEF Below
<1>5. \A s, t \in S : RankIn(S, R, s) = RankIn(S, R, t) => s = t
  BY <1>3, <1>4
<1>6. \A s \in S : RankIn(S, R, s) \in 0 .. n - 1
  BY <1>2, <1>4
<1>7. r \in Injection(S, 0 .. n - 1)
  <2>1. r \in [S -> 0 .. n - 1] /\ \A s, t \in S : r[s] = r[t] => s = t
    BY <1>5, <1>6
  <2> HIDE DEF r
  <2> QED BY <2>1 DEF Injection, IsInjective
<1>8. IsFiniteSet(0 .. n - 1) /\ Cardinality(0 .. n - 1) = n
  <2> HIDE DEF n
  <2>1. 0 \in Int /\ n - 1 \in Int
    BY <1>1
  <2>2. /\ IsFiniteSet(0 .. n - 1)
        /\ Cardinality(0 .. n - 1) = IF 0 > n - 1 THEN 0 ELSE n - 1 - 0 + 1
    BY <2>1, FS_Interval
  <2> QED BY <1>1, <2>2
<1>9. r \in Surjection(S, 0 .. n - 1)
  <2> DEFINE I == 0 .. n - 1
  <2>1. r \in Injection(S, I) /\ IsFiniteSet(I) /\ Cardinality(S) = Cardinality(I)
    BY <1>7, <1>8
  <2> HIDE DEF I, r, n
  <2>2. r \in Surjection(S, I)
    BY <2>1, FS_Injection
  <2> QED BY <2>2 DEF I
<1>10. \A i \in 0 .. n - 1 : \E s \in S : r[s] = i
  <2> HIDE DEF r, n
  <2> QED BY <1>9 DEF Surjection
<1>11. \A i \in 0 .. n - 1 : \E s \in S : RankIn(S, R, s) = i
  BY <1>10
<1> HIDE DEF n
<1> QED BY <1>1, <1>5, <1>6, <1>11 DEF n

EncFreqs == [EncRange -> Nat]
Num(f) == Cardinality(Occurring(f))

\* The assumptions on the constants.
LEMMA EncSizes ==
  /\ EncSymbols \in Nat /\ EncSymbols >= 2 /\ NUM_COUNTERS \in Nat /\ NUM_COUNTERS >= 2
  /\ EncRange \subseteq Nat /\ IsFiniteSet(EncRange) /\ Cardinality(EncRange) = EncSymbols
<1>1. /\ EncSymbols \in Nat /\ EncSymbols >= 2 /\ NUM_COUNTERS \in Nat /\ NUM_COUNTERS >= 2
  BY EncodeAssumption
<1>2. 0 \in Int /\ EncSymbols - 1 \in Int
  BY <1>1
<1>3. /\ IsFiniteSet(0 .. EncSymbols - 1)
      /\ Cardinality(0 .. EncSymbols - 1)
           = IF 0 > EncSymbols - 1 THEN 0 ELSE EncSymbols - 1 - 0 + 1
  BY <1>2, FS_Interval
<1> QED BY <1>1, <1>3 DEF EncRange

\* The symbols that occur are finitely many, of frequencies above 0.
LEMMA OccurringLemma ==
  ASSUME NEW f \in EncFreqs
  PROVE  /\ Occurring(f) \in SUBSET EncRange /\ IsFiniteSet(Occurring(f))
         /\ Num(f) \in 0 .. EncSymbols
         /\ \A s \in Occurring(f) : f[s] \in Nat /\ f[s] > 0 /\ Counter(f[s]) \in Nat
<1>1. Occurring(f) \in SUBSET EncRange
  BY DEF Occurring
<1>2. IsFiniteSet(Occurring(f)) /\ Cardinality(Occurring(f)) <= EncSymbols
  BY <1>1, EncSizes, FS_Subset
<1>3. Num(f) \in Nat
  BY <1>2, FS_CardinalityType DEF Num
<1>4. Num(f) <= EncSymbols
  BY <1>2 DEF Num
<1>5. \A s \in Occurring(f) : f[s] \in Nat /\ f[s] > 0 /\ Counter(f[s]) \in Nat
  BY EncSizes DEF Occurring, EncFreqs, Counter
<1> QED BY <1>1, <1>2, <1>3, <1>4, <1>5, EncSizes

CountedBefore(f) ==
  {p \in Occurring(f) \X Occurring(f) :
     \/ Counter(f[p[1]]) < Counter(f[p[2]])
     \/ Counter(f[p[1]]) = Counter(f[p[2]]) /\ p[1] < p[2]}

\* Counting puts every symbol that occurs in one place.
LEMMA CountedOrders ==
  ASSUME NEW f \in EncFreqs
  PROVE  Counted(f) \in Orders(Occurring(f), Num(f))
<1> DEFINE S == Occurring(f)
           R == CountedBefore(f)
           n == Num(f)
<1>1. IsFiniteSet(S) /\ n \in Nat /\ Cardinality(S) = n
  BY OccurringLemma DEF Num
<1>2. \A s, t : <<t, s>> \in R <=>
        /\ s \in S /\ t \in S
        /\ \/ Counter(f[t]) < Counter(f[s])
           \/ Counter(f[t]) = Counter(f[s]) /\ t < s
  <2>1. SUFFICES ASSUME NEW s, NEW t
                 PROVE  <<t, s>> \in R <=>
                          /\ s \in S /\ t \in S
                          /\ \/ Counter(f[t]) < Counter(f[s])
                             \/ Counter(f[t]) = Counter(f[s]) /\ t < s
    OBVIOUS
  <2> DEFINE p == <<t, s>>
  <2>2. p[1] = t /\ p[2] = s /\ (p \in S \X S <=> t \in S /\ s \in S)
    OBVIOUS
  <2> HIDE DEF p, S
  <2>3. p \in R <=> p \in S \X S /\ (\/ Counter(f[p[1]]) < Counter(f[p[2]])
                                     \/ Counter(f[p[1]]) = Counter(f[p[2]]) /\ p[1] < p[2])
    BY DEF CountedBefore, S
  <2>4. p \in R <=> /\ s \in S /\ t \in S
                    /\ \/ Counter(f[t]) < Counter(f[s])
                       \/ Counter(f[t]) = Counter(f[s]) /\ t < s
    BY <2>2, <2>3
  <2> QED BY <2>4 DEF p
<1>3. \A s \in S : Counter(f[s]) \in Nat /\ s \in Nat
  BY OccurringLemma, EncSizes
<1> HIDE DEF R
<1>4. /\ \A s \in S : <<s, s>> \notin R
      /\ \A s, t \in S : s # t => <<s, t>> \in R \/ <<t, s>> \in R
      /\ \A s, t, u \in S : <<s, t>> \in R /\ <<t, u>> \in R => <<s, u>> \in R
  <2> HIDE DEF S
  <2>1. \A s \in S : <<s, s>> \notin R
    BY <1>2, <1>3
  <2>2. \A s, t \in S : s # t => <<s, t>> \in R \/ <<t, s>> \in R
    BY <1>2, <1>3
  <2>3. \A s, t, u \in S : <<s, t>> \in R /\ <<t, u>> \in R => <<s, u>> \in R
    <3>1. SUFFICES ASSUME NEW s \in S, NEW t \in S, NEW u \in S,
                          <<s, t>> \in R, <<t, u>> \in R
                   PROVE  <<s, u>> \in R
      OBVIOUS
    <3> DEFINE a == Counter(f[s])
               b == Counter(f[t])
               d == Counter(f[u])
    <3>2. a \in Nat /\ b \in Nat /\ d \in Nat /\ s \in Nat /\ t \in Nat /\ u \in Nat
      BY <1>3
    <3>3. /\ a < b \/ (a = b /\ s < t)
          /\ b < d \/ (b = d /\ t < u)
      BY <1>2, <3>1, Zenon
    <3>4. a < d \/ (a = d /\ s < u) => <<s, u>> \in R
      BY <1>2, Zenon
    <3> HIDE DEF a, b, d
    <3> QED BY <3>2, <3>3, <3>4
  <2> QED BY <2>1, <2>2, <2>3
<1> HIDE DEF n
<1>5. /\ \A s, t \in S : RankIn(S, R, s) = RankIn(S, R, t) => s = t
      /\ \A s \in S : RankIn(S, R, s) \in 0 .. n - 1
      /\ \A i \in 0 .. n - 1 : \E s \in S : RankIn(S, R, s) = i
  <2> HIDE DEF S
  <2> QED BY <1>1, <1>4, Ranks
<1> DEFINE c == Counted(f)
<1>6. /\ c = [i \in 1 .. n |-> c[i]]
      /\ \A i \in 1 .. n : c[i] = CHOOSE s \in S : i - 1 = RankIn(S, R, s)
  <2>1. ASSUME NEW s \in S
        PROVE  RankIn(S, R, s) = Cardinality({t \in S :
                 \/ Counter(f[t]) < Counter(f[s])
                 \/ Counter(f[t]) = Counter(f[s]) /\ t < s})
    <3>1. {t \in S : <<t, s>> \in R} =
            {t \in S : Counter(f[t]) < Counter(f[s])
                         \/ (Counter(f[t]) = Counter(f[s]) /\ t < s)}
      <4> HIDE DEF S
      <4>1. \A t \in S : <<t, s>> \in R <=>
              Counter(f[t]) < Counter(f[s]) \/ (Counter(f[t]) = Counter(f[s]) /\ t < s)
        BY <1>2
      <4> QED BY <4>1
    <3> QED BY <3>1 DEF RankIn
  <2>2. ASSUME NEW i \in 1 .. n
        PROVE  (CHOOSE s \in S : i - 1 = Cardinality({t \in S :
                 \/ Counter(f[t]) < Counter(f[s])
                 \/ Counter(f[t]) = Counter(f[s]) /\ t < s}))
                 = CHOOSE s \in S : i - 1 = RankIn(S, R, s)
    <3> HIDE DEF S
    <3> QED BY <2>1
  <2> DEFINE C(i) == CHOOSE s \in S : i - 1 = Cardinality({t \in S :
                 \/ Counter(f[t]) < Counter(f[s])
                 \/ Counter(f[t]) = Counter(f[s]) /\ t < s})
  <2>3. c = [i \in 1 .. n |-> C(i)]
    BY DEF Counted, n, Num
  <2>4. \A i \in 1 .. n : C(i) = CHOOSE s \in S : i - 1 = RankIn(S, R, s)
    BY <2>2
  <2> HIDE DEF S, c, C
  <2>5. c = [i \in 1 .. n |-> c[i]] /\ \A i \in 1 .. n : c[i] = C(i)
    BY <2>3
  <2> QED BY <2>4, <2>5
<1> HIDE DEF S, c
<1>7. ASSUME NEW i \in 1 .. n PROVE c[i] \in S /\ RankIn(S, R, c[i]) = i - 1
  <2>1. \E s \in S : i - 1 = RankIn(S, R, s)
    <3>1. i - 1 \in 0 .. n - 1
      BY <1>1
    <3> QED BY <1>5, <3>1
  <2> QED BY <1>6, <2>1
<1>8. c \in [1 .. n -> S]
  BY <1>6, <1>7
<1>9. \A i, j \in 1 .. n : c[i] = c[j] => i = j
  <2>1. SUFFICES ASSUME NEW i \in 1 .. n, NEW j \in 1 .. n, c[i] = c[j] PROVE i = j
    OBVIOUS
  <2>2. i - 1 = j - 1
    BY <1>7, <2>1
  <2> QED BY <1>1, <2>2
<1>10. ASSUME NEW s \in S PROVE \E i \in 1 .. n : c[i] = s
  <2> DEFINE i == RankIn(S, R, s) + 1
  <2>1. RankIn(S, R, s) \in 0 .. n - 1
    BY <1>5
  <2>2. i \in 1 .. n /\ i - 1 = RankIn(S, R, s)
    BY <1>1, <2>1
  <2> HIDE DEF i
  <2>3. c[i] = s
    BY <1>5, <1>7, <2>2
  <2> QED BY <2>2, <2>3
<1>11. c \in Orders(S, n)
  BY <1>8, <1>9, <1>10 DEF Orders
<1> QED BY <1>11 DEF c, S, n

\* What is left of a multiple and less than that.
LEMMA RestOfMultiple ==
  ASSUME NEW q \in Nat, q > 0, NEW a \in Nat, NEW s \in 0 .. q - 1
  PROVE  (a * q + s) % q = s /\ a * q + s \in Nat
<1> DEFINE v == a * q + s
           d == v \div q
           r == v % q
<1>1. v \in Nat
  OBVIOUS
<1>2. d \in Nat /\ r \in 0 .. q - 1 /\ v = q * d + r
  <2> HIDE DEF v
  <2> QED BY <1>1
<1>3. a * q + s = d * q + r
  BY <1>2 DEF v
<1> HIDE DEF v, d, r
<1>4. ~(d < a)
  <2>1. d < a => (d + 1) * q <= a * q
    BY <1>2, Products
  <2>2. (d + 1) * q = d * q + q /\ d * q \in Nat /\ a * q \in Nat
    BY <1>2, Products
  <2> QED BY <1>2, <1>3, <2>1, <2>2
<1>5. ~(a < d)
  <2>1. a < d => (a + 1) * q <= d * q
    BY <1>2, Products
  <2>2. (a + 1) * q = a * q + q /\ d * q \in Nat /\ a * q \in Nat
    BY <1>2, Products
  <2> QED BY <1>2, <1>3, <2>1, <2>2
<1>6. d = a
  BY <1>2, <1>4, <1>5
<1>7. a * q \in Nat
  BY Products
<1>8. r = s
  BY <1>2, <1>3, <1>6, <1>7
<1> QED BY <1>1, <1>8 DEF v, r

\* The symbol comes out of what it was packed into.
LEMMA PackedBack ==
  ASSUME NEW f \in EncFreqs, NEW s \in EncRange
  PROVE  Packed(f, s) % EncSymbols = s /\ Packed(f, s) \in Nat
<1>1. f[s] \in Nat /\ s \in 0 .. EncSymbols - 1 /\ EncSymbols \in Nat /\ EncSymbols > 0
  BY EncSizes DEF EncFreqs, EncRange
<1> QED BY <1>1, RestOfMultiple DEF Packed

\* All symbols that occur are sorted, however they come to be.
LEMMA SortedOrders ==
  ASSUME NEW f \in EncFreqs
  PROVE  Sorted(f) \in Orders(Occurring(f), Num(f))
<1> DEFINE c == Counted(f)
           n == Num(f)
           few == Cardinality({s \in Occurring(f) : f[s] < NUM_COUNTERS - 1})
           m == n - few
           base == [i \in 1 .. m |-> Packed(f, c[few + i])]
           Q == {Packed(f, c[few + i]) : i \in 1 .. m}
           tail == HeapSort(base, m)
           sorted == [i \in 1 .. n |->
                        IF i <= few THEN c[i] ELSE tail[i - few] % EncSymbols]
<1>1. Sorted(f) = sorted
  BY DEF Sorted, Num
<1>2. n \in Nat /\ few \in Nat /\ few <= n /\ m \in Nat
  <2>1. {s \in Occurring(f) : f[s] < NUM_COUNTERS - 1} \in SUBSET Occurring(f)
    OBVIOUS
  <2>2. few \in Nat /\ few <= Cardinality(Occurring(f))
    <3> DEFINE F == {s \in Occurring(f) : f[s] < NUM_COUNTERS - 1}
    <3>1. F \in SUBSET Occurring(f) /\ IsFiniteSet(Occurring(f))
      BY OccurringLemma
    <3> HIDE DEF F
    <3>2. IsFiniteSet(F) /\ Cardinality(F) <= Cardinality(Occurring(f))
      BY <3>1, FS_Subset
    <3>3. Cardinality(F) \in Nat
      BY <3>2, FS_CardinalityType
    <3> QED BY <3>2, <3>3 DEF F
  <2>3. n \in Nat /\ n = Cardinality(Occurring(f))
    BY OccurringLemma DEF Num
  <2> HIDE DEF n, few
  <2> QED BY <2>2, <2>3
<1> HIDE DEF n, few
<1>3. /\ c \in [1 .. n -> Occurring(f)]
      /\ \A i, j \in 1 .. n : c[i] = c[j] => i = j
      /\ \A s \in Occurring(f) : \E i \in 1 .. n : c[i] = s
  BY CountedOrders DEF Orders, n
<1> HIDE DEF c
<1>4. \A k \in 1 .. n : c[k] \in Occurring(f) /\ Packed(f, c[k]) % EncSymbols = c[k]
  BY <1>3, OccurringLemma, PackedBack
<1>5. base \in Orders(Q, m)
  <2>1. base \in [1 .. m -> Q]
    OBVIOUS
  <2>2. \A i \in 1 .. m : few + i \in 1 .. n /\ base[i] % EncSymbols = c[few + i]
    BY <1>2, <1>4
  <2>3. \A s \in Q : \E i \in 1 .. m : base[i] = s
    OBVIOUS
  <2> HIDE DEF base, Q
  <2>4. \A i, j \in 1 .. m : base[i] = base[j] => i = j
    <3>1. SUFFICES ASSUME NEW i \in 1 .. m, NEW j \in 1 .. m, base[i] = base[j] PROVE i = j
      OBVIOUS
    <3>2. c[few + i] = c[few + j]
      BY <2>2, <3>1
    <3>3. few + i = few + j
      BY <1>3, <2>2, <3>2
    <3> QED BY <1>2, <3>3
  <2> QED BY <2>1, <2>3, <2>4 DEF Orders
<1>6. tail \in Orders(Q, m)
  <2> HIDE DEF base, Q, m
  <2> QED BY <1>2, <1>5, HeapSortOrders
<1>7. /\ tail \in [1 .. m -> Q]
      /\ \A i, j \in 1 .. m : tail[i] = tail[j] => i = j
      /\ \A s \in Q : \E i \in 1 .. m : tail[i] = s
  <2> HIDE DEF tail, Q, m
  <2> QED BY <1>6 DEF Orders
<1> HIDE DEF tail
<1>8. \A j \in 1 .. m : \E k \in few + 1 .. n :
        tail[j] = Packed(f, c[k]) /\ tail[j] % EncSymbols = c[k]
  <2>1. SUFFICES ASSUME NEW j \in 1 .. m
                 PROVE  \E k \in few + 1 .. n :
                          tail[j] = Packed(f, c[k]) /\ tail[j] % EncSymbols = c[k]
    OBVIOUS
  <2>2. tail[j] \in Q
    BY <1>7
  <2>3. PICK i \in 1 .. m : tail[j] = Packed(f, c[few + i])
    BY <2>2
  <2>4. few + i \in few + 1 .. n /\ few + i \in 1 .. n
    BY <1>2
  <2> QED BY <1>4, <2>3, <2>4
<1>9. \A k \in few + 1 .. n : \E j \in 1 .. m : tail[j] = Packed(f, c[k])
  <2>1. SUFFICES ASSUME NEW k \in few + 1 .. n PROVE \E j \in 1 .. m : tail[j] = Packed(f, c[k])
    OBVIOUS
  <2>2. k - few \in 1 .. m /\ few + (k - few) = k
    BY <1>2
  <2>3. Packed(f, c[few + (k - few)]) \in Q
    BY <2>2
  <2> QED BY <1>7, <2>2, <2>3
<1> HIDE DEF Q, base
<1>10. /\ \A i \in 1 .. n : i <= few => sorted[i] = c[i]
       /\ \A i \in 1 .. n : ~(i <= few) => i - few \in 1 .. m
            /\ sorted[i] = tail[i - few] % EncSymbols
       /\ sorted = [i \in 1 .. n |-> sorted[i]]
  BY <1>2
<1> HIDE DEF sorted
\* Which place each has come from.
<1>11. \A i \in 1 .. n : \E k \in 1 .. n :
         /\ sorted[i] = c[k]
         /\ i <= few => k = i
         /\ ~(i <= few) => ~(k <= few) /\ tail[i - few] = Packed(f, c[k])
  <2>1. SUFFICES ASSUME NEW i \in 1 .. n
                 PROVE  \E k \in 1 .. n :
                          /\ sorted[i] = c[k]
                          /\ i <= few => k = i
                          /\ ~(i <= few) => ~(k <= few) /\ tail[i - few] = Packed(f, c[k])
    OBVIOUS
  <2>2. CASE i <= few
    BY <1>10, <2>2
  <2>3. CASE ~(i <= few)
    <3>1. i - few \in 1 .. m /\ sorted[i] = tail[i - few] % EncSymbols
      BY <1>10, <2>3
    <3>2. PICK k \in few + 1 .. n : /\ tail[i - few] = Packed(f, c[k])
                                    /\ tail[i - few] % EncSymbols = c[k]
      BY <1>8, <3>1
    <3>3. k \in 1 .. n /\ ~(k <= few)
      BY <1>2
    <3> QED BY <2>3, <3>1, <3>2, <3>3
  <2> QED BY <2>2, <2>3
<1>12. sorted \in [1 .. n -> Occurring(f)]
  BY <1>3, <1>10, <1>11
<1>13. \A i, j \in 1 .. n : sorted[i] = sorted[j] => i = j
  <2>1. SUFFICES ASSUME NEW i \in 1 .. n, NEW j \in 1 .. n, sorted[i] = sorted[j]
                 PROVE  i = j
    OBVIOUS
  <2>2. PICK k \in 1 .. n : /\ sorted[i] = c[k]
                            /\ i <= few => k = i
                            /\ ~(i <= few) => ~(k <= few) /\ tail[i - few] = Packed(f, c[k])
    BY <1>11
  <2>3. PICK l \in 1 .. n : /\ sorted[j] = c[l]
                            /\ j <= few => l = j
                            /\ ~(j <= few) => ~(l <= few) /\ tail[j - few] = Packed(f, c[l])
    BY <1>11
  <2>4. k = l
    BY <1>3, <2>1, <2>2, <2>3
  <2>5. CASE i <= few
    BY <2>2, <2>3, <2>4, <2>5
  <2>6. CASE ~(i <= few)
    <3>1. ~(j <= few) /\ tail[i - few] = tail[j - few]
      BY <2>2, <2>3, <2>4, <2>6
    <3>2. i - few = j - few
      BY <1>7, <1>10, <2>6, <3>1
    <3> QED BY <1>2, <3>2
  <2> QED BY <2>5, <2>6
<1>14. ASSUME NEW s \in Occurring(f) PROVE \E i \in 1 .. n : sorted[i] = s
  <2>1. PICK k \in 1 .. n : c[k] = s
    BY <1>3
  <2>2. CASE k <= few
    BY <1>10, <2>1, <2>2
  <2>3. CASE ~(k <= few)
    <3>1. k \in few + 1 .. n
      BY <1>2, <2>3
    <3>2. PICK j \in 1 .. m : tail[j] = Packed(f, c[k])
      BY <1>9, <3>1
    <3>3. few + j \in 1 .. n /\ ~(few + j <= few) /\ (few + j) - few = j
      BY <1>2
    <3>4. sorted[few + j] = tail[j] % EncSymbols
      BY <1>10, <3>3
    <3>5. sorted[few + j] = s
      BY <1>4, <2>1, <3>2, <3>4
    <3> QED BY <3>3, <3>5
  <2> QED BY <2>2, <2>3
<1>15. sorted \in Orders(Occurring(f), n)
  BY <1>12, <1>13, <1>14 DEF Orders
<1> QED BY <1>1, <1>15 DEF n

-----------------------------------------------------------------------------
(* The tree *)

\* The parents of the nodes below b: each comes later than its children, up to top, later
\* nodes have no earlier parents, and no three nodes have the same.
Family(h, b, top) ==
  /\ \A j \in 0 .. b - 1 : h[j] \in j + 1 .. top
  /\ \A i, j \in 0 .. b - 1 : i <= j => h[i] <= h[j]
  /\ \A i, j \in 0 .. b - 1 : j = i + 2 => h[i] < h[j]

Trees(num) == [i : Nat, b : Nat, e : Nat, sum : Nat, high : [0 .. num - 1 -> Nat]]

\* k pairs have been joined, and r nodes of another one; b0 inner nodes had got parents
\* before that.
Half(t, num, k, b0, r) ==
  /\ t \in Trees(num)
  /\ t.e = k /\ t.i <= num /\ t.b <= k /\ t.i + t.b = 2 * k + r
  /\ b0 <= t.b /\ t.b <= b0 + r
  /\ Family(t.high, b0, k - 1)
  /\ \A j \in b0 .. t.b - 1 : t.high[j] = k

\* The lightest gets a parent that comes no earlier than those before it.
LEMMA JoinedOne ==
  ASSUME NEW num \in Nat, num >= 2, NEW k \in 0 .. num - 2, NEW b0 \in Nat, NEW r \in 0 .. 1,
         NEW t, Half(t, num, k, b0, r)
  PROVE  Half(Joined(t, num), num, k, b0, r + 1)
<1> DEFINE n == Lightest(t, num)
           takes == TakesSymbol(t, num)
           u == Joined(t, num)
<1>1. /\ t \in Trees(num) /\ t.i \in Nat /\ t.b \in Nat /\ t.e \in Nat /\ t.sum \in Nat
      /\ t.high \in [0 .. num - 1 -> Nat]
      /\ t.e = k /\ t.i <= num /\ t.b <= k /\ t.i + t.b = 2 * k + r
      /\ b0 <= t.b /\ t.b <= b0 + r
      /\ Family(t.high, b0, k - 1)
      /\ \A j \in b0 .. t.b - 1 : t.high[j] = k
  BY DEF Half, Trees
<1>2. takes => n = t.i /\ t.i < num
  BY DEF Lightest, TakesSymbol
<1>3. ~takes => n = t.b /\ t.b < k
  <2>1. SUFFICES ASSUME ~takes PROVE t.b < k
    BY DEF Lightest
  <2>2. CASE t.b = t.e
    <3>1. t.i < num
      BY <1>1, <2>2
    <3> QED BY <2>1, <2>2, <3>1 DEF TakesSymbol
  <2>3. CASE t.b # t.e
    BY <1>1, <2>3
  <2> QED BY <2>2, <2>3
<1> HIDE DEF takes, n
<1>4. n \in 0 .. num - 1 /\ t.high[n] \in Nat
  <2>1. n \in 0 .. num - 1
    BY <1>1, <1>2, <1>3
  <2> QED BY <1>1, <2>1
<1> DEFINE H == [t.high EXCEPT ![n] = t.e]
           X == t.sum + t.high[n]
           I == IF takes THEN t.i + 1 ELSE t.i
           B == IF takes THEN t.b ELSE t.b + 1
<1>5. u = [t EXCEPT !.high = H, !.sum = X, !.i = I, !.b = B]
  BY DEF Joined, takes, n
<1>15. H \in [0 .. num - 1 -> Nat] /\ X \in Nat /\ I \in Nat /\ B \in Nat
  <2>1. /\ t.high \in [0 .. num - 1 -> Nat] /\ t.e \in Nat /\ t.sum \in Nat
        /\ t.i \in Nat /\ t.b \in Nat
    BY <1>1
  <2>2. H \in [0 .. num - 1 -> Nat]
    BY <1>4, <2>1
  <2>3. X \in Nat
    BY <1>4, <2>1, SMTT(60)
  <2>4. I \in Nat
    BY <2>1
  <2>5. B \in Nat
    BY <2>1
  <2> QED BY <2>2, <2>3, <2>4, <2>5
<1>16. u \in Trees(num) /\ u.high = H /\ u.i = I /\ u.b = B /\ u.e = t.e
  <2> HIDE DEF H, X, I, B, u
  <2> QED BY <1>1, <1>5, <1>15 DEF Trees
<1>6. u \in Trees(num)
  BY <1>16
<1>7. /\ u.e = k /\ u.high = [t.high EXCEPT ![n] = k]
      /\ u.i = IF takes THEN t.i + 1 ELSE t.i
      /\ u.b = IF takes THEN t.b ELSE t.b + 1
  BY <1>1, <1>16
<1> HIDE DEF u, H, X, I, B
<1>17. /\ t.i \in Nat /\ t.b \in Nat /\ t.i <= num /\ t.b <= k /\ t.i + t.b = 2 * k + r
       /\ b0 <= t.b /\ t.b <= b0 + r
  BY <1>1
<1>8. t.b <= n /\ t.i >= t.b
  BY <1>2, <1>3, <1>17
<1>9. u.high[n] = k /\ \A j \in 0 .. num - 1 : j # n => u.high[j] = t.high[j]
  BY <1>1, <1>4, <1>7
<1>10. \A j \in 0 .. t.b - 1 : u.high[j] = t.high[j]
  <2>1. SUFFICES ASSUME NEW j \in 0 .. t.b - 1 PROVE u.high[j] = t.high[j]
    OBVIOUS
  <2>2. j \in 0 .. num - 1 /\ j # n
    BY <1>4, <1>8, <1>17
  <2> QED BY <1>9, <2>2
<1>11. Family(u.high, b0, k - 1)
  <2>1. \A j \in 0 .. b0 - 1 : j \in 0 .. t.b - 1
    BY <1>1, SMTT(60)
  <2>2. \A j \in 0 .. b0 - 1 : u.high[j] = t.high[j]
    BY <1>10, <2>1
  <2> QED BY <1>1, <2>2 DEF Family
<1>12. \A j \in b0 .. u.b - 1 : u.high[j] = k
  <2>1. SUFFICES ASSUME NEW j \in b0 .. u.b - 1 PROVE u.high[j] = k
    OBVIOUS
  <2>2. CASE j \in b0 .. t.b - 1
    <3>1. j \in 0 .. t.b - 1
      BY <2>2
    <3> QED BY <1>1, <1>10, <2>2, <3>1
  <2>3. CASE ~(j \in b0 .. t.b - 1)
    <3>1. ~takes /\ j = t.b
      BY <1>1, <1>7, <2>3
    <3> QED BY <1>3, <1>9, <3>1
  <2> QED BY <2>2, <2>3
<1>13. /\ u.i <= num /\ u.b <= k /\ u.i + u.b = 2 * k + (r + 1)
       /\ b0 <= u.b /\ u.b <= b0 + (r + 1)
  <2>1. CASE takes
    BY <1>2, <1>7, <1>17, <2>1
  <2>2. CASE ~takes
    BY <1>3, <1>7, <1>17, <2>2
  <2> QED BY <2>1, <2>2
<1>14. Half(u, num, k, b0, r + 1)
  BY <1>6, <1>7, <1>11, <1>12, <1>13 DEF Half
<1> QED BY <1>14 DEF u

\* k pairs have been joined.
Grown(t, num, k) ==
  /\ t \in Trees(num)
  /\ t.e = k /\ t.i <= num /\ t.i + t.b = 2 * k
  /\ k > 0 => t.b < k
  /\ Family(t.high, t.b, k - 1)

\* After both the node at k is complete, and lighter ones have got parents before it.
LEMMA PairedGrows ==
  ASSUME NEW num \in Nat, num >= 2, NEW k \in 0 .. num - 2, NEW t, Grown(t, num, k)
  PROVE  Grown(Paired(t, num), num, k + 1)
<1> DEFINE s == [t EXCEPT !.sum = 0]
           one == Joined(s, num)
           two == Joined(one, num)
           u == [two EXCEPT !.high = [@ EXCEPT ![t.e] = two.sum], !.e = @ + 1]
           b0 == t.b
<1>1. /\ t \in Trees(num) /\ t.i \in Nat /\ t.b \in Nat /\ t.e \in Nat /\ t.sum \in Nat
      /\ t.high \in [0 .. num - 1 -> Nat]
      /\ t.e = k /\ t.i <= num /\ t.i + t.b = 2 * k /\ (k > 0 => t.b < k)
      /\ Family(t.high, t.b, k - 1)
  BY DEF Grown, Trees
<1>2. /\ s \in Trees(num) /\ s.i = t.i /\ s.b = t.b /\ s.e = t.e /\ s.high = t.high
  BY <1>1 DEF Trees
<1>3. Half(s, num, k, b0, 0)
  <2> HIDE DEF s
  <2>1. \A j \in b0 .. s.b - 1 : s.high[j] = k
    BY <1>1, <1>2
  <2> QED BY <1>1, <1>2, <2>1 DEF Half
<1>4. b0 \in Nat
  BY <1>1
<1> HIDE DEF s, b0
<1>5. Half(one, num, k, b0, 1)
  <2>1. Half(one, num, k, b0, 0 + 1)
    BY <1>3, <1>4, JoinedOne
  <2> QED BY <2>1
<1> HIDE DEF one
<1>6. Half(two, num, k, b0, 2)
  <2>1. Half(two, num, k, b0, 1 + 1)
    BY <1>4, <1>5, JoinedOne
  <2> QED BY <2>1
<1> HIDE DEF two
<1>7. /\ two \in Trees(num) /\ two.i \in Nat /\ two.b \in Nat /\ two.e \in Nat
      /\ two.sum \in Nat /\ two.high \in [0 .. num - 1 -> Nat]
      /\ two.e = k /\ two.i <= num /\ two.b <= k /\ two.i + two.b = 2 * k + 2
      /\ b0 <= two.b /\ two.b <= b0 + 2
      /\ Family(two.high, b0, k - 1)
      /\ \A j \in b0 .. two.b - 1 : two.high[j] = k
  BY <1>6 DEF Half, Trees
<1> DEFINE H == [two.high EXCEPT ![k] = two.sum]
<1>8. /\ u \in Trees(num) /\ u.e = k + 1 /\ u.i = two.i /\ u.b = two.b
      /\ u.high = H
  <2>1. H \in [0 .. num - 1 -> Nat] /\ k + 1 \in Nat
    <3>1. two.high \in [0 .. num - 1 -> Nat] /\ two.sum \in Nat
      BY <1>7
    <3> QED BY <3>1
  <2>2. u = [two EXCEPT !.high = H, !.e = k + 1]
    BY <1>1, <1>7
  <2> HIDE DEF H, u
  <2> QED BY <1>7, <2>1, <2>2 DEF Trees
<1> HIDE DEF u
<1>17. /\ u.b \in Nat /\ u.b <= k /\ b0 <= u.b /\ u.b <= b0 + 2 /\ b0 \in Nat
  BY <1>4, <1>7, <1>8
<1>9. \A j \in 0 .. u.b - 1 : j \in 0 .. k - 1 /\ u.high[j] = two.high[j]
  <2>1. SUFFICES ASSUME NEW j \in 0 .. u.b - 1
                 PROVE  j \in 0 .. k - 1 /\ u.high[j] = two.high[j]
    OBVIOUS
  <2>2. j \in 0 .. k - 1 /\ j \in 0 .. num - 1 /\ j # k
    BY <1>17
  <2>3. two.high \in [0 .. num - 1 -> Nat]
    BY <1>7
  <2> QED BY <1>8, <2>2, <2>3
<1> HIDE DEF H
<1>10. \A j \in 0 .. b0 - 1 : j \in 0 .. u.b - 1 /\ u.high[j] \in j + 1 .. k - 1
  <2>1. SUFFICES ASSUME NEW j \in 0 .. b0 - 1
                 PROVE  j \in 0 .. u.b - 1 /\ u.high[j] \in j + 1 .. k - 1
    OBVIOUS
  <2>2. j \in 0 .. u.b - 1
    BY <1>17
  <2>3. two.high[j] \in j + 1 .. k - 1
    BY <1>7 DEF Family
  <2> QED BY <1>9, <2>2, <2>3
<1>11. \A j \in b0 .. u.b - 1 : j \in 0 .. k - 1 /\ u.high[j] = k
  <2>1. SUFFICES ASSUME NEW j \in b0 .. u.b - 1 PROVE j \in 0 .. k - 1 /\ u.high[j] = k
    OBVIOUS
  <2>2. j \in 0 .. u.b - 1
    BY <1>17
  <2>3. two.high[j] = k
    BY <1>7, <1>8
  <2> QED BY <1>9, <2>2, <2>3
<1>12. \A j \in 0 .. u.b - 1 : j \in 0 .. b0 - 1 \/ j \in b0 .. u.b - 1
  BY <1>17
<1>13. Family(u.high, u.b, k)
  <2>1. \A j \in 0 .. u.b - 1 : u.high[j] \in j + 1 .. k
    BY <1>10, <1>11, <1>12
  <2>2. ASSUME NEW i \in 0 .. u.b - 1, NEW j \in 0 .. u.b - 1, i <= j
        PROVE  u.high[i] <= u.high[j]
    <3>1. CASE j \in 0 .. b0 - 1
      <4>1. i \in 0 .. b0 - 1
        BY <1>4, <2>2, <3>1
      <4>2. two.high[i] <= two.high[j]
        BY <1>7, <2>2, <3>1, <4>1 DEF Family
      <4> QED BY <1>9, <4>2
    <3>2. CASE j \in b0 .. u.b - 1
      <4>1. u.high[j] = k /\ u.high[i] \in i + 1 .. k
        BY <1>11, <2>1, <3>2
      <4> QED BY <4>1
    <3> QED BY <1>12, <3>1, <3>2
  <2>3. ASSUME NEW i \in 0 .. u.b - 1, NEW j \in 0 .. u.b - 1, j = i + 2
        PROVE  u.high[i] < u.high[j]
    <3>1. CASE j \in 0 .. b0 - 1
      <4>1. i \in 0 .. b0 - 1
        BY <1>4, <2>3, <3>1
      <4>2. two.high[i] < two.high[j]
        BY <1>7, <2>3, <3>1, <4>1 DEF Family
      <4> QED BY <1>9, <4>2
    <3>2. CASE j \in b0 .. u.b - 1
      <4>1. i \in 0 .. b0 - 1
        BY <1>17, <2>3, <3>2
      <4>2. u.high[j] = k /\ u.high[i] \in i + 1 .. k - 1
        BY <1>10, <1>11, <3>2, <4>1
      <4> QED BY <4>2
    <3> QED BY <1>12, <3>1, <3>2
  <2> QED BY <2>1, <2>2, <2>3 DEF Family
<1>14. u.b < k + 1 /\ (k + 1) - 1 = k /\ u.i + u.b = 2 * (k + 1) /\ u.i <= num
  BY <1>7, <1>8
<1>15. Grown(u, num, k + 1)
  BY <1>8, <1>13, <1>14 DEF Grown
<1>16. Paired(t, num) = u
  BY DEF Paired, u, two, one, s
<1> QED BY <1>15, <1>16

TreeSteps(h, weights, num) ==
  h = [k \in 0 .. num - 1 |->
         IF k = 0 THEN [i |-> 0, b |-> 0, e |-> 0, sum |-> 0, high |-> weights]
         ELSE Paired(h[k - 1], num)]

\* What is left of every tree.
LEMMA TreeFamily ==
  ASSUME NEW num \in Nat, num >= 2, NEW weights \in [0 .. num - 1 -> Nat]
  PROVE  /\ Tree(weights, num) \in [0 .. num - 1 -> Nat]
         /\ Family(Tree(weights, num), num - 2, num - 2)
<1> DEFINE x == [i |-> 0, b |-> 0, e |-> 0, sum |-> 0, high |-> weights]
           P == {q \in (0 .. num - 1) \X Trees(num) : Grown(q[2], num, q[1])}
           step == [q \in P |-> Paired(q[2], num)]
           f == CHOOSE h : TreeSteps(h, weights, num)
           last == num - 1
<1>1. last \in Nat /\ last = num - 1
  OBVIOUS
<1>2. ASSUME NEW k, NEW t
      PROVE  <<k, t>> \in P <=> k \in 0 .. num - 1 /\ t \in Trees(num) /\ Grown(t, num, k)
  <2> DEFINE q == <<k, t>>
  <2>1. q[1] = k /\ q[2] = t
        /\ (q \in (0 .. num - 1) \X Trees(num) <=> k \in 0 .. num - 1 /\ t \in Trees(num))
    OBVIOUS
  <2>2. q \in P <=> q \in (0 .. num - 1) \X Trees(num) /\ Grown(q[2], num, q[1])
    <3> HIDE DEF q
    <3> QED OBVIOUS
  <2> HIDE DEF P, q
  <2>3. q \in P <=> k \in 0 .. num - 1 /\ t \in Trees(num) /\ Grown(t, num, k)
    BY <2>1, <2>2
  <2> QED BY <2>3 DEF q
<1> HIDE DEF P
<1>3. <<0, x>> \in P
  <2>1. /\ x \in Trees(num) /\ x.i = 0 /\ x.b = 0 /\ x.e = 0
    BY DEF Trees
  <2> HIDE DEF x
  <2>2. Grown(x, num, 0)
    BY <2>1 DEF Grown, Family
  <2>3. 0 \in 0 .. num - 1
    OBVIOUS
  <2> QED BY <1>2, <2>1, <2>2, <2>3
<1>4. \A i \in 1 .. last : \A s : <<i - 1, s>> \in P =>
        <<i, step[<<i - 1, s>>]>> \in P /\ step[<<i - 1, s>>] = Paired(s, num)
  <2>1. SUFFICES ASSUME NEW i \in 1 .. last, NEW s, <<i - 1, s>> \in P
                 PROVE  <<i, Paired(s, num)>> \in P /\ step[<<i - 1, s>>] = Paired(s, num)
    OBVIOUS
  <2>2. i - 1 \in 0 .. num - 2 /\ (i - 1) + 1 = i /\ i \in 0 .. num - 1
    OBVIOUS
  <2>3. Grown(s, num, i - 1)
    BY <1>2, <2>1
  <2>4. Grown(Paired(s, num), num, (i - 1) + 1)
    BY <2>2, <2>3, PairedGrows
  <2>5. Grown(Paired(s, num), num, i) /\ Paired(s, num) \in Trees(num)
    BY <2>2, <2>4 DEF Grown
  <2>6. step[<<i - 1, s>>] = Paired(s, num)
    BY <2>1
  <2> QED BY <1>2, <2>2, <2>5, <2>6
<1> HIDE DEF step, last
<1>5. \E h : TreeSteps(h, weights, num)
  <2>1. PICK h : Rounds(h, last, x, step) /\ \A i \in 0 .. last : <<i, h[i]>> \in P
    <3> HIDE DEF x
    <3> QED BY <1>1, <1>3, <1>4, RoundsExist
  <2>2. \A i \in 0 .. last : i # 0 => i \in 1 .. last /\ i - 1 \in 0 .. last
    BY <1>1
  <2> HIDE DEF x
  <2>3. \A i \in 0 .. last : i # 0 => step[<<i - 1, h[i - 1]>>] = Paired(h[i - 1], num)
    BY <1>4, <2>1, <2>2
  <2>4. h = [i \in 0 .. last |-> IF i = 0 THEN x ELSE step[<<i - 1, h[i - 1]>>]]
    BY <2>1 DEF Rounds
  <2>5. h = [i \in 0 .. last |-> IF i = 0 THEN x ELSE Paired(h[i - 1], num)]
    BY <2>3, <2>4
  <2> QED BY <2>5 DEF TreeSteps, x, last
<1>6. TreeSteps(f, weights, num)
  BY <1>5, Zenon
<1> HIDE DEF f
<1>7. f[0] = x /\ \A i \in 1 .. last : f[i] = Paired(f[i - 1], num)
  <2>1. f = [i \in 0 .. last |-> IF i = 0 THEN x ELSE Paired(f[i - 1], num)]
    BY <1>6 DEF TreeSteps, last
  <2>2. 0 \in 0 .. last /\ \A i \in 1 .. last : i \in 0 .. last /\ i # 0
    BY <1>1
  <2> HIDE DEF x
  <2> QED BY <2>1, <2>2
<1> HIDE DEF x
<1>8. \A i \in 0 .. last : <<i, f[i]>> \in P
  <2>1. f[0] = x /\ <<0, f[0]>> \in P
    BY <1>3, <1>7
  <2> DEFINE T == {i \in Nat : <<i, f[i]>> \in P}
  <2>2. 0 \in T
    BY <2>1
  <2>3. \A i \in 1 .. last : i - 1 \in T => i \in T
    <3>1. \A i \in 1 .. last : i \in Nat
      OBVIOUS
    <3> QED BY <1>4, <1>7, <3>1
  <2> HIDE DEF T
  <2>4. \A i \in 0 .. last : i \in T
    BY <1>1, <2>2, <2>3, UpToAll
  <2> QED BY <2>4 DEF T
<1>9. Grown(f[last], num, last)
  <2>1. <<last, f[last]>> \in P
    BY <1>1, <1>8
  <2> QED BY <1>2, <2>1
<1>10. /\ f[last].high \in [0 .. num - 1 -> Nat] /\ f[last].b = num - 2
       /\ last - 1 = num - 2 /\ Family(f[last].high, f[last].b, last - 1)
  <2> DEFINE t == f[last]
  <2>1. /\ t \in Trees(num) /\ t.i <= num /\ t.i + t.b = 2 * last
        /\ (last > 0 => t.b < last) /\ Family(t.high, t.b, last - 1)
    BY <1>9 DEF Grown
  <2> HIDE DEF t
  <2>2. t.i \in Nat /\ t.b \in Nat /\ t.high \in [0 .. num - 1 -> Nat]
    BY <2>1 DEF Trees
  <2>3. t.b = num - 2 /\ last - 1 = num - 2
    BY <1>1, <2>1, <2>2
  <2> QED BY <2>1, <2>2, <2>3 DEF t
<1>11. Tree(weights, num) = f[last].high
  BY DEF Tree, TreeSteps, f, last
<1> QED BY <1>10, <1>11

-----------------------------------------------------------------------------
(* The leaves of the tree *)

\* A sum from which two numbers are taken out.
LEMMA TotalTwo ==
  ASSUME NEW S, IsFiniteSet(S), NEW f, \A s \in S : f[s] \in Nat,
         NEW x \in S, NEW y \in S, x # y
  PROVE  /\ Total(f, S) = Total(f, S \ {x, y}) + f[x] + f[y]
         /\ Total(f, S \ {x, y}) \in Nat
<1> DEFINE R == S \ {x, y}
           Q == R \cup {x}
<1>1. /\ IsFiniteSet(R) /\ IsFiniteSet(Q) /\ x \notin R /\ y \notin Q /\ S = Q \cup {y}
      /\ R \in SUBSET S /\ Q \in SUBSET S
  <2>1. R \in SUBSET S /\ Q \in SUBSET S /\ x \notin R /\ y \notin Q /\ S = Q \cup {y}
    OBVIOUS
  <2> HIDE DEF R, Q
  <2> QED BY <2>1, FS_Subset
<1>2. \A s \in R : f[s] \in Nat
  BY <1>1
<1>3. \A s \in Q : f[s] \in Nat
  BY <1>1
<1> HIDE DEF R
<1>4. Total(f, R \cup {x}) = Total(f, R) + f[x]
  BY <1>1, <1>2, TotalAdd
<1>5. Total(f, R) \in Nat
  BY <1>1, <1>2, PileFinite
<1> HIDE DEF Q
<1>6. Total(f, Q \cup {y}) = Total(f, Q) + f[y]
  BY <1>1, <1>3, TotalAdd
<1>7. Total(f, S) = Total(f, R) + f[x] + f[y]
  BY <1>1, <1>4, <1>6 DEF Q
<1> QED BY <1>5, <1>7 DEF R

\* How much of all codes those take that end at the leaves of each depth.
Shares(c, max) == [l \in 1 .. max |-> c[l] * 2 ^ (max - l)]

Counts(max) == [0 .. EncSymbols + max -> Nat]

\* Counters and shares are numbers,
LEMMA SharesNat ==
  ASSUME NEW max \in Nat, NEW c \in Counts(max)
  PROVE  \A l \in 1 .. max :
           /\ c[l] \in Nat /\ 2 ^ (max - l) \in Nat
           /\ Shares(c, max)[l] \in Nat /\ Shares(c, max)[l] = c[l] * 2 ^ (max - l)
<1> SUFFICES ASSUME NEW l \in 1 .. max
             PROVE  /\ c[l] \in Nat /\ 2 ^ (max - l) \in Nat
                    /\ Shares(c, max)[l] \in Nat /\ Shares(c, max)[l] = c[l] * 2 ^ (max - l)
  OBVIOUS
<1>1. c[l] \in Nat
  <2>1. l \in 0 .. EncSymbols + max
    BY EncSizes
  <2> QED BY <2>1 DEF Counts
<1>2. 2 ^ (max - l) \in Nat
  <2>1. max - l \in Nat
    OBVIOUS
  <2> QED BY <2>1, PowerDoubles
<1>3. Shares(c, max)[l] = c[l] * 2 ^ (max - l)
  BY DEF Shares
<1> DEFINE a == c[l]
           p == 2 ^ (max - l)
<1>4. a * p \in Nat
  <2>1. a \in Nat /\ p \in Nat
    BY <1>1, <1>2
  <2> HIDE DEF a, p
  <2> QED BY <2>1, Products
<1> QED BY <1>1, <1>2, <1>3, <1>4

\* of finitely many depths.
LEMMA DepthsFinite == \A max \in Nat : IsFiniteSet(1 .. max)
<1> SUFFICES ASSUME NEW max \in Nat PROVE IsFiniteSet(1 .. max)
  OBVIOUS
<1>1. 1 \in Int /\ max \in Int
  OBVIOUS
<1> QED BY <1>1, FS_Interval

\* A leaf that becomes an inner node makes two one deeper: they take what it took.
LEMMA SplitSums ==
  ASSUME NEW max \in Nat, NEW c \in Counts(max), NEW len \in 1 .. max - 1,
         NEW c2 \in Counts(max), c2[len] = c[len] - 1, c2[len + 1] = c[len + 1] + 2,
         \A l \in 0 .. EncSymbols + max : l # len /\ l # len + 1 => c2[l] = c[l]
  PROVE  /\ Total(c2, 1 .. max) = Total(c, 1 .. max) + 1
         /\ Total(Shares(c2, max), 1 .. max) = Total(Shares(c, max), 1 .. max)
<1> DEFINE S == 1 .. max
           x == len
           y == len + 1
           R == S \ {x, y}
<1>1. /\ x \in S /\ y \in S /\ x # y /\ x \in 0 .. EncSymbols + max
      /\ y \in 0 .. EncSymbols + max
  BY EncSizes
<1>2. IsFiniteSet(S)
  BY DepthsFinite
<1>3. /\ c2 \in Counts(max) /\ c2[x] = c[x] - 1 /\ c2[y] = c[y] + 2
      /\ \A l \in 0 .. EncSymbols + max : l # x /\ l # y => c2[l] = c[l]
      /\ c[x] \in Nat /\ c[y] \in Nat
  BY <1>1 DEF Counts
<1>4. /\ \A l \in S : /\ c[l] \in Nat /\ c2[l] \in Nat
                      /\ Shares(c, max)[l] \in Nat /\ Shares(c2, max)[l] \in Nat
                      /\ Shares(c, max)[l] = c[l] * 2 ^ (max - l)
                      /\ Shares(c2, max)[l] = c2[l] * 2 ^ (max - l)
  BY <1>3, SharesNat
<1>5. \A l \in R : c2[l] = c[l]
  <2>1. \A l \in R : l \in 0 .. EncSymbols + max /\ l # x /\ l # y
    BY EncSizes
  <2> QED BY <1>3, <2>1
<1>6. \A l \in R : Shares(c2, max)[l] = Shares(c, max)[l]
  BY <1>4, <1>5
<1> DEFINE w == Shares(c, max)
           w2 == Shares(c2, max)
<1>7. Total(c2, R) = Total(c, R) /\ Total(w2, R) = Total(w, R)
  <2> HIDE DEF R, w, w2
  <2>1. Total(c2, R) = Total(c, R)
    BY <1>5, TotalSame
  <2>2. \A l \in R : w2[l] = w[l]
    BY <1>6 DEF w, w2
  <2>3. Total(w2, R) = Total(w, R)
    BY <2>2, TotalSame
  <2> QED BY <2>1, <2>3
<1>16. /\ \A l \in S : c[l] \in Nat
       /\ \A l \in S : c2[l] \in Nat
       /\ \A l \in S : w[l] \in Nat
       /\ \A l \in S : w2[l] \in Nat
  BY <1>4
<1> HIDE DEF S, x, y, w, w2
<1>8. /\ Total(c2, S) = Total(c2, R) + c2[x] + c2[y]
      /\ Total(c, S) = Total(c, R) + c[x] + c[y]
      /\ Total(c, R) \in Nat
  <2>1. Total(c2, S) = Total(c2, R) + c2[x] + c2[y] /\ Total(c2, R) \in Nat
    BY <1>1, <1>2, <1>16, TotalTwo
  <2>2. Total(c, S) = Total(c, R) + c[x] + c[y] /\ Total(c, R) \in Nat
    BY <1>1, <1>2, <1>16, TotalTwo
  <2> QED BY <2>1, <2>2
<1>9. /\ Total(w2, S) = Total(w2, R) + w2[x] + w2[y]
      /\ Total(w, S) = Total(w, R) + w[x] + w[y]
      /\ Total(w, R) \in Nat
  <2>1. Total(w2, S) = Total(w2, R) + w2[x] + w2[y] /\ Total(w2, R) \in Nat
    BY <1>1, <1>2, <1>16, TotalTwo
  <2>2. Total(w, S) = Total(w, R) + w[x] + w[y] /\ Total(w, R) \in Nat
    BY <1>1, <1>2, <1>16, TotalTwo
  <2> QED BY <2>1, <2>2
<1>10. Total(c2, S) = Total(c, S) + 1
  BY <1>3, <1>7, <1>8
<1> DEFINE p == 2 ^ (max - y)
           q == 2 ^ (max - x)
<1>11. p \in Nat /\ q = p + p
  <2>1. max - y \in Nat /\ max - x = (max - y) + 1
    BY DEF x, y
  <2>2. 2 ^ (max - y) \in Nat /\ 2 ^ ((max - y) + 1) = 2 ^ (max - y) + 2 ^ (max - y)
    BY <2>1, PowerDoubles
  <2> QED BY <2>1, <2>2
<1>12. w[x] = c[x] * q /\ w[y] = c[y] * p /\ w2[x] = c2[x] * q /\ w2[y] = c2[y] * p
  BY <1>1, <1>4 DEF w, w2
<1> HIDE DEF p, q
<1>13. w2[x] + w2[y] = w[x] + w[y]
  <2> DEFINE a == c[x]
             b == c[y]
  <2>1. a \in Nat /\ b \in Nat
    BY <1>3
  <2>2. w[x] = a * q /\ w[y] = b * p /\ w2[x] = (a - 1) * q /\ w2[y] = (b + 2) * p
    BY <1>3, <1>12
  <2> HIDE DEF a, b
  <2>3. (a - 1) * q = a * q - q /\ (b + 2) * p = b * p + 2 * p /\ a * q \in Int /\ b * p \in Int
    BY <1>11, <2>1
  <2> QED BY <1>11, <2>2, <2>3
<1>14. w[x] \in Nat /\ w[y] \in Nat /\ w2[x] \in Nat /\ w2[y] \in Nat
  BY <1>1, <1>4 DEF w, w2
<1>15. Total(w2, S) = Total(w, S)
  BY <1>7, <1>9, <1>13, <1>14 DEF w, w2
<1> QED BY <1>10, <1>15 DEF S, x, y, w, w2

\* If there are not as many leaves as codes of the limit, there is one above it.
LEMMA LeafAbove ==
  ASSUME NEW max \in Nat, max >= 1, NEW c \in Counts(max),
         Total(Shares(c, max), 1 .. max) = 2 ^ max, Total(c, 1 .. max) < 2 ^ max
  PROVE  \E l \in 1 .. max - 1 : c[l] # 0 /\ \A k \in l + 1 .. max - 1 : c[k] = 0
<1> DEFINE S == 1 .. max
           R == 1 .. max - 1
           w == Shares(c, max)
           T == {max - l : l \in {k \in R : c[k] # 0}}
<1>1. S = R \cup {max} /\ max \notin R /\ max \in S /\ R \subseteq S
  OBVIOUS
<1>2. IsFiniteSet(R)
  <2>1. max - 1 \in Nat
    OBVIOUS
  <2> QED BY <2>1, DepthsFinite
<1>3. \A l \in S : c[l] \in Nat /\ w[l] \in Nat /\ w[l] = c[l] * 2 ^ (max - l)
  BY SharesNat
<1> HIDE DEF w
<1>4. T # {}
  <2>1. SUFFICES ASSUME T = {} PROVE FALSE
    OBVIOUS
  <2>2. \A l \in R : c[l] = 0
    BY <2>1
  <2>3. \A l \in R : w[l] = 0
    <3>1. SUFFICES ASSUME NEW l \in R PROVE w[l] = 0
      OBVIOUS
    <3>2. c[l] = 0 /\ w[l] = c[l] * 2 ^ (max - l)
      BY <1>1, <1>3, <2>2
    <3>3. 2 ^ (max - l) \in Nat
      <4>1. max - l \in Nat
        OBVIOUS
      <4> QED BY <4>1, PowerDoubles
    <3> QED BY <3>2, <3>3
  <2> HIDE DEF R, S
  <2>4. Total(c, R) = Cardinality(R) * 0 /\ Total(w, R) = Cardinality(R) * 0
    <3>1. 0 \in Nat
      OBVIOUS
    <3> QED BY <1>2, <2>2, <2>3, <3>1, TotalConst
  <2>5. Cardinality(R) \in Nat
    BY <1>2, FS_CardinalityType
  <2>6. Total(c, R) = 0 /\ Total(w, R) = 0
    BY <2>4, <2>5
  <2>7. Total(c, R \cup {max}) = Total(c, R) + c[max]
    <3>1. c[max] \in Nat /\ \A l \in R : c[l] \in Nat
      BY <1>1, <1>3
    <3> QED BY <1>1, <1>2, <3>1, TotalAdd
  <2>8. Total(w, R \cup {max}) = Total(w, R) + w[max]
    <3>1. w[max] \in Nat /\ \A l \in R : w[l] \in Nat
      BY <1>1, <1>3
    <3> QED BY <1>1, <1>2, <3>1, TotalAdd
  <2>9. w[max] = c[max] * 1 /\ c[max] \in Nat
    <3>1. max - max = 0
      OBVIOUS
    <3> QED BY <1>1, <1>3, <3>1, PowerZero
  <2>10. Total(w, S) = Total(c, S)
    BY <1>1, <2>6, <2>7, <2>8, <2>9
  <2>11. Total(w, S) = 2 ^ max /\ Total(c, S) < 2 ^ max
    BY DEF S, w
  <2>12. 2 ^ max \in Nat
    BY PowerDoubles
  <2> QED BY <2>10, <2>11, <2>12
<1>5. T \subseteq Nat
  OBVIOUS
<1>6. PICK n \in T : \A k \in T : n <= k
  <2> HIDE DEF T
  <2> QED BY <1>4, <1>5, LeastNumber
<1>7. PICK l \in R : c[l] # 0 /\ n = max - l
  BY <1>6
<1>8. ASSUME NEW k \in l + 1 .. max - 1, c[k] # 0 PROVE FALSE
  <2>1. k \in R /\ max - k \in T
    BY <1>8
  <2>2. n <= max - k
    BY <1>6, <2>1
  <2> QED BY <1>7, <2>1, <2>2
<1> QED BY <1>7, <1>8

Deeps(num, max) == [high : [0 .. num - 1 -> Nat], counters : Counts(max)]

\* The inner nodes from e on that are at depth l.
AtDepth(high, num, e, l) == {j \in e .. num - 2 : high[j] = l}

\* The inner nodes from e on are no leaves any more; h says what the parents are.
Deep(d, h, num, max, e) ==
  /\ d \in Deeps(num, max)
  /\ \A j \in 0 .. e - 1 : d.high[j] = h[j]
  /\ d.high[num - 2] = 0
  /\ \A j \in e .. num - 3 : d.high[j] = d.high[h[j]] + 1
  /\ \A i, j \in e .. num - 2 : i <= j => d.high[j] <= d.high[i]
  /\ Total(d.counters, 1 .. max) = num - e
  /\ Total(Shares(d.counters, max), 1 .. max) = 2 ^ max
  /\ d.high[e] < max => \A l \in 1 .. max :
       d.counters[l] + Cardinality(AtDepth(d.high, num, e, l))
         = 2 * Cardinality(AtDepth(d.high, num, e, l - 1))

\* Finitely many inner nodes are of one depth.
LEMMA AtDepthFinite ==
  ASSUME NEW num \in Nat, NEW e \in Nat, NEW high, NEW l
  PROVE  /\ IsFiniteSet(AtDepth(high, num, e, l))
         /\ Cardinality(AtDepth(high, num, e, l)) \in Nat
<1>1. e \in Int /\ num - 2 \in Int
  OBVIOUS
<1>2. IsFiniteSet(e .. num - 2)
  BY <1>1, FS_Interval
<1>3. AtDepth(high, num, e, l) \in SUBSET (e .. num - 2)
  BY DEF AtDepth
<1>4. IsFiniteSet(AtDepth(high, num, e, l))
  BY <1>2, <1>3, FS_Subset
<1> QED BY <1>4, FS_CardinalityType

\* There are at most twice as many nodes as parents.
LEMMA ChildrenFew ==
  ASSUME NEW num \in Nat, num >= 2, NEW h \in [0 .. num - 1 -> Nat],
         Family(h, num - 2, num - 2),
         NEW S, NEW T, S \subseteq 0 .. num - 3, IsFiniteSet(T), \A j \in S : h[j] \in T
  PROVE  Cardinality(S) <= 2 * Cardinality(T)
<1> DEFINE Tagged(j) == j - 1 \in 0 .. num - 3 /\ h[j - 1] = h[j]
           tag(j) == IF Tagged(j) THEN 1 ELSE 0
           f == [j \in S |-> <<h[j], tag(j)>>]
           D == T \X {0, 1}
<1>1. IsFiniteSet({0, 1}) /\ Cardinality({0, 1}) = 2
  <2>1. 0 \in Int /\ 1 \in Int
    OBVIOUS
  <2>2. IsFiniteSet(0 .. 1) /\ Cardinality(0 .. 1) = IF 0 > 1 THEN 0 ELSE 1 - 0 + 1
    BY <2>1, FS_Interval
  <2>3. {0, 1} = 0 .. 1
    OBVIOUS
  <2>4. Cardinality(0 .. 1) = 2
    BY <2>2
  <2> QED BY <2>2, <2>3, <2>4
<1>2. IsFiniteSet(D) /\ Cardinality(D) = Cardinality(T) * 2
  BY <1>1, FS_Product
<1>3. f \in [S -> D]
  OBVIOUS
<1>4. ASSUME NEW i \in S, NEW j \in S, f[i] = f[j], i < j PROVE FALSE
  <2>1. h[i] = h[j] /\ tag(i) = tag(j)
    BY <1>4
  <2>2. i \in 0 .. num - 3 /\ j \in 0 .. num - 3
    OBVIOUS
  <2> DEFINE H(k, l) == k \in 0 .. num - 3 /\ l \in 0 .. num - 3
  <2>3. ~(j >= i + 2)
    <3>1. SUFFICES ASSUME j >= i + 2 PROVE FALSE
      OBVIOUS
    <3>2. i + 2 \in 0 .. (num - 2) - 1 /\ i \in 0 .. (num - 2) - 1 /\ j \in 0 .. (num - 2) - 1
      BY <2>2, <3>1
    <3>3. h[i] < h[i + 2] /\ h[i + 2] <= h[j]
      BY <3>1, <3>2 DEF Family
    <3>4. h[i] \in Nat /\ h[i + 2] \in Nat /\ h[j] \in Nat
      BY <3>2
    <3> HIDE DEF f, tag, D
    <3> QED BY <2>1, <3>3, <3>4
  <2>4. j - 1 = i
    BY <1>4, <2>2, <2>3
  <2>5. Tagged(j)
    BY <2>1, <2>2, <2>4
  <2>6. Tagged(i)
    <3> HIDE DEF Tagged
    <3> QED BY <2>1, <2>5
  <2>7. i - 1 \in 0 .. num - 3 /\ h[i - 1] = h[j]
    BY <2>1, <2>6
  <2>8. i - 1 \in 0 .. (num - 2) - 1 /\ j \in 0 .. (num - 2) - 1 /\ j = (i - 1) + 2
    BY <2>2, <2>4, <2>7
  <2>9. h[i - 1] < h[j] /\ h[j] \in Nat
    BY <2>8 DEF Family
  <2> HIDE DEF f, tag, D
  <2> QED BY <2>7, <2>9
<1>5. \A i, j \in S : f[i] = f[j] => i = j
  <2>1. \A i \in S : i \in Nat
    OBVIOUS
  <2> HIDE DEF f
  <2> QED BY <1>4, <2>1
<1>6. f \in Injection(S, D)
  <2> HIDE DEF f, D
  <2> QED BY <1>3, <1>5 DEF Injection, IsInjective
<1>7. Cardinality(S) <= Cardinality(D)
  <2> HIDE DEF f, D
  <2> QED BY <1>2, <1>6, FS_Injection
<1>8. Cardinality(T) \in Nat /\ Cardinality(T) * 2 = 2 * Cardinality(T)
  <2>1. Cardinality(T) \in Nat
    BY FS_CardinalityType
  <2> QED BY <2>1
<1> HIDE DEF D
<1> QED BY <1>2, <1>7, <1>8

\* Making one more inner node of a leaf keeps the counters those of the leaves.
LEMMA DeepenedGoesOn ==
  ASSUME NEW num \in Nat, num >= 2, NEW h \in [0 .. num - 1 -> Nat],
         Family(h, num - 2, num - 2), NEW max \in Nat, max >= 1, num <= 2 ^ max,
         NEW e \in 1 .. num - 2, NEW d, Deep(d, h, num, max, e)
  PROVE  Deep(Deepened(d, e - 1, max), h, num, max, e - 1)
<1> DEFINE hi == d.high
           c == d.counters
           p == h[e - 1]
           depth == hi[p] + 1
           len == Limited(depth, c, max)
           hi2 == [hi EXCEPT ![e - 1] = depth]
           c2 == [c EXCEPT ![len] = @ - 1, ![len + 1] = @ + 2]
           u == [high |-> hi2, counters |-> c2]
           A(l) == AtDepth(hi, num, e, l)
           A2(l) == AtDepth(hi2, num, e - 1, l)
<1>1. /\ hi \in [0 .. num - 1 -> Nat] /\ c \in Counts(max)
      /\ \A j \in 0 .. e - 1 : hi[j] = h[j]
      /\ hi[num - 2] = 0
      /\ \A j \in e .. num - 3 : hi[j] = hi[h[j]] + 1
      /\ \A i, j \in e .. num - 2 : i <= j => hi[j] <= hi[i]
      /\ Total(c, 1 .. max) = num - e
      /\ Total(Shares(c, max), 1 .. max) = 2 ^ max
      /\ hi[e] < max => \A l \in 1 .. max :
           c[l] + Cardinality(A(l)) = 2 * Cardinality(A(l - 1))
  BY DEF Deep, Deeps
<1> HIDE DEF hi, c
<1>2. e \in Nat /\ e - 1 \in Nat /\ e - 1 \in 0 .. num - 3 /\ e - 1 \in 0 .. num - 1
  OBVIOUS
<1>3. \A j \in 0 .. num - 3 : h[j] \in j + 1 .. num - 2 /\ h[j] \in Nat
  BY DEF Family
<1>4. /\ p = hi[e - 1] /\ p \in e .. num - 2 /\ p \in 0 .. num - 1 /\ hi[p] \in Nat
      /\ depth \in Nat /\ depth >= 1
  <2>1. p = hi[e - 1]
    BY <1>1, <1>2
  <2>2. p \in e .. num - 2
    BY <1>2, <1>3
  <2>3. p \in 0 .. num - 1
    BY <2>2
  <2>4. hi[p] \in Nat
    BY <1>1, <2>3
  <2> HIDE DEF p
  <2>5. depth \in Nat /\ depth >= 1
    BY <2>4, SMTT(60)
  <2> QED BY <2>1, <2>2, <2>3, <2>4, <2>5
\* No node is less deep than those before.
<1>5. hi[e] <= depth
  <2>1. CASE e = num - 2
    BY <1>1, <1>4, <2>1
  <2>2. CASE e # num - 2
    <3>1. e \in 0 .. (num - 2) - 1 /\ e - 1 \in 0 .. (num - 2) - 1 /\ e \in e .. num - 3
      BY <2>2
    <3>2. h[e - 1] <= h[e]
      BY <1>2, <3>1 DEF Family
    <3>3. h[e] \in e .. num - 2
      BY <1>3, <3>1
    <3>4. hi[h[e]] <= hi[h[e - 1]]
      BY <1>1, <1>4, <3>2, <3>3
    <3>5. hi[e] = hi[h[e]] + 1
      BY <1>1, <3>1
    <3>6. hi[h[e]] \in Nat
      <4>1. h[e] \in 0 .. num - 1
        BY <3>3
      <4> QED BY <1>1, <4>1
    <3>7. hi[h[e - 1]] \in Nat
      BY <1>4
    <3> QED BY <3>4, <3>5, <3>6, <3>7, SMTT(60)
  <2> QED BY <2>1, <2>2
<1> HIDE DEF p
<1>6. Deepened(d, e - 1, max) = u
  BY <1>4 DEF Deepened, hi, c
<1> HIDE DEF depth
<1>7. /\ hi2 \in [0 .. num - 1 -> Nat] /\ hi2[e - 1] = depth
      /\ \A j \in 0 .. num - 1 : j # e - 1 => hi2[j] = hi[j]
  BY <1>1, <1>2, <1>4
<1> HIDE DEF hi2
<1>8. \A j \in e - 1 .. num - 3 : hi2[j] = hi2[h[j]] + 1 /\ h[j] \in e .. num - 2
  <2>1. SUFFICES ASSUME NEW j \in e - 1 .. num - 3
                 PROVE  hi2[j] = hi2[h[j]] + 1 /\ h[j] \in e .. num - 2
    OBVIOUS
  <2>2. h[j] \in e .. num - 2 /\ h[j] \in 0 .. num - 1 /\ h[j] # e - 1 /\ j \in 0 .. num - 1
    BY <1>2, <1>3
  <2>3. hi2[h[j]] = hi[h[j]]
    BY <1>7, <2>2
  <2>4. CASE j = e - 1
    BY <1>7, <2>2, <2>3, <2>4 DEF depth, p
  <2>5. CASE j # e - 1
    <3>1. j \in e .. num - 3
      BY <2>5
    <3> QED BY <1>1, <1>7, <2>2, <2>3, <2>5, <3>1
  <2> QED BY <2>4, <2>5
<1>9. \A i, j \in e - 1 .. num - 2 : i <= j => hi2[j] <= hi2[i]
  <2>1. SUFFICES ASSUME NEW i \in e - 1 .. num - 2, NEW j \in e - 1 .. num - 2, i <= j
                 PROVE  hi2[j] <= hi2[i]
    OBVIOUS
  <2>2. i \in 0 .. num - 1 /\ j \in 0 .. num - 1 /\ e \in 0 .. num - 1
    BY <1>2
  <2>3. hi2[j] \in Nat /\ hi2[i] \in Nat /\ hi[j] \in Nat /\ hi[e] \in Nat
    BY <1>1, <1>7, <2>2
  <2>4. CASE i = e - 1 /\ j = e - 1
    BY <2>3, <2>4
  <2>5. CASE i = e - 1 /\ j # e - 1
    <3>1. j \in e .. num - 2 /\ e \in e .. num - 2 /\ e <= j
      BY <2>5
    <3>2. hi[j] <= hi[e]
      BY <1>1, <3>1
    <3>3. hi2[j] = hi[j] /\ hi2[i] = depth
      BY <1>7, <2>2, <2>5
    <3> QED BY <1>4, <1>5, <2>3, <3>2, <3>3
  <2>6. CASE i # e - 1
    <3>1. i \in e .. num - 2 /\ j \in e .. num - 2 /\ j # e - 1
      BY <2>1, <2>6
    <3> QED BY <1>1, <1>7, <2>1, <2>2, <2>6, <3>1
  <2> QED BY <2>4, <2>5, <2>6
\* The nodes of each depth.
<1>10. A2(depth) = A(depth) \cup {e - 1} /\ \A l : l # depth => A2(l) = A(l)
  <2>1. e - 1 .. num - 2 = (e .. num - 2) \cup {e - 1} /\ e - 1 \notin e .. num - 2
    BY <1>2, SMTT(60)
  <2>2. \A j \in e .. num - 2 : hi2[j] = hi[j]
    <3>1. \A j \in e .. num - 2 : j \in 0 .. num - 1 /\ j # e - 1
      OBVIOUS
    <3> QED BY <1>7, <3>1
  <2> DEFINE I == e .. num - 2
  <2> HIDE DEF I
  <2>3. A2(depth) = A(depth) \cup {e - 1}
    BY <1>7, <2>1, <2>2 DEF AtDepth, I
  <2>4. \A l : l # depth => A2(l) = A(l)
    BY <1>7, <2>1, <2>2 DEF AtDepth, I
  <2> QED BY <2>3, <2>4
<1>11. \A l : /\ IsFiniteSet(A(l)) /\ Cardinality(A(l)) \in Nat
              /\ IsFiniteSet(A2(l)) /\ Cardinality(A2(l)) \in Nat
  BY <1>2, AtDepthFinite
<1>12. Cardinality(A2(depth)) = Cardinality(A(depth)) + 1
  <2>1. e - 1 \notin A(depth)
    BY DEF AtDepth
  <2> HIDE DEF A, A2
  <2> QED BY <1>10, <1>11, <2>1, FS_AddElement, ZenonT(60)
<1>13. Cardinality(A2(depth)) <= 2 * Cardinality(A(depth - 1))
  <2>1. ASSUME NEW j \in A2(depth) PROVE j \in 0 .. num - 3 /\ h[j] \in A(depth - 1)
    <3>1. j \in e - 1 .. num - 2 /\ hi2[j] = depth
      BY DEF AtDepth
    <3>2. j # num - 2
      <4>1. num - 2 \in 0 .. num - 1 /\ num - 2 # e - 1
        BY <1>2
      <4>2. hi2[num - 2] = 0
        BY <1>1, <1>7, <4>1
      <4> QED BY <1>4, <3>1, <4>2, SMTT(60)
    <3>3. j \in e - 1 .. num - 3 /\ j \in 0 .. num - 3
      BY <1>2, <3>1, <3>2
    <3>4. depth = hi2[h[j]] + 1 /\ h[j] \in e .. num - 2
      BY <1>8, <3>1, <3>3
    <3>5. h[j] \in 0 .. num - 1 /\ h[j] # e - 1
      BY <1>2, <3>4
    <3>6. hi[h[j]] = depth - 1
      <4>1. hi[h[j]] = hi2[h[j]] /\ hi2[h[j]] \in Nat
        BY <1>7, <3>5
      <4> QED BY <3>4, <4>1, SMTT(60)
    <3> QED BY <3>3, <3>4, <3>6 DEF AtDepth
  <2> HIDE DEF A, A2
  <2>2. A2(depth) \subseteq 0 .. num - 3
    BY <2>1
  <2>3. \A j \in A2(depth) : h[j] \in A(depth - 1)
    BY <2>1
  <2> QED BY <1>11, <2>2, <2>3, ChildrenFew
\* The leaf that is taken.
<1>14. /\ len \in 1 .. max - 1 /\ c[len] > 0
       /\ depth < max => len = depth
  <2>1. CASE depth < max
    <3>1. len = depth /\ depth \in 1 .. max - 1 /\ depth \in 1 .. max
      BY <1>4, <2>1 DEF Limited
    <3>2. hi[e] < max
      <4>1. hi[e] \in Nat
        <5>1. e \in 0 .. num - 1
          OBVIOUS
        <5> QED BY <1>1, <5>1
      <4> QED BY <1>4, <1>5, <2>1, <4>1
    <3>3. c[depth] + Cardinality(A(depth)) = 2 * Cardinality(A(depth - 1))
      BY <1>1, <3>1, <3>2
    <3>4. c[depth] \in Nat
      BY <1>1, <3>1, SharesNat
    <3> HIDE DEF A, A2, len
    <3>5. c[depth] > 0
      <4>1. /\ Cardinality(A(depth)) \in Nat /\ Cardinality(A(depth - 1)) \in Nat
            /\ Cardinality(A2(depth)) \in Nat
        BY <1>11
      <4> QED BY <1>12, <1>13, <3>3, <3>4, <4>1, SMTT(60)
    <3> QED BY <3>1, <3>5
  <2>2. CASE ~(depth < max)
    <3>1. Total(c, 1 .. max) < 2 ^ max
      <4>1. 2 ^ max \in Nat
        BY PowerDoubles
      <4> QED BY <1>1, <4>1
    <3>2. \E l \in 1 .. max - 1 : c[l] # 0 /\ \A k \in l + 1 .. max - 1 : c[k] = 0
      BY <1>1, <3>1, LeafAbove
    <3>3. len = CHOOSE l \in 1 .. max - 1 : c[l] # 0 /\ \A k \in l + 1 .. max - 1 : c[k] = 0
      BY <2>2 DEF Limited
    <3> HIDE DEF len
    <3>4. len \in 1 .. max - 1 /\ c[len] # 0
      BY <3>2, <3>3
    <3>5. c[len] \in Nat
      BY <1>1, <3>4, SharesNat
    <3> QED BY <2>2, <3>4, <3>5
  <2> QED BY <2>1, <2>2
<1> HIDE DEF len
<1>15. /\ c2 \in Counts(max)
       /\ c2[len] = c[len] - 1 /\ c2[len + 1] = c[len + 1] + 2
       /\ \A l \in 0 .. EncSymbols + max : l # len /\ l # len + 1 => c2[l] = c[l]
  <2>1. c2 = [c EXCEPT ![len] = @ - 1, ![len + 1] = @ + 2]
    OBVIOUS
  <2>2. c \in Counts(max) /\ len \in 1 .. max - 1 /\ c[len] > 0
    BY <1>1, <1>14
  <2> HIDE DEF c2
  <2>3. len \in 0 .. EncSymbols + max /\ len + 1 \in 0 .. EncSymbols + max /\ len # len + 1
    BY <2>2, EncSizes
  <2>4. c \in [0 .. EncSymbols + max -> Nat]
    BY <2>2 DEF Counts
  <2>5. c2 \in Counts(max) /\ c2[len] = c[len] - 1 /\ c2[len + 1] = c[len + 1] + 2
    <3> DEFINE a == c[len] - 1
               b == c[len + 1] + 2
    <3>1. a \in Nat /\ b \in Nat
      BY <2>2, <2>3, <2>4, SMTT(60)
    <3>2. c2 = [c EXCEPT ![len] = a, ![len + 1] = b]
      BY <2>1
    <3> HIDE DEF a, b
    <3>3. c2 \in Counts(max) /\ c2[len] = a /\ c2[len + 1] = b
      BY <2>3, <2>4, <3>1, <3>2 DEF Counts
    <3> QED BY <3>3 DEF a, b
  <2> QED BY <2>1, <2>3, <2>4, <2>5
<1> HIDE DEF c2
<1>16. /\ Total(c2, 1 .. max) = Total(c, 1 .. max) + 1
       /\ Total(Shares(c2, max), 1 .. max) = Total(Shares(c, max), 1 .. max)
  <2>1. c \in Counts(max) /\ len \in 1 .. max - 1
    BY <1>1, <1>14
  <2> QED BY <1>15, <2>1, SplitSums
<1>17. hi2[e - 1] < max => \A l \in 1 .. max :
         c2[l] + Cardinality(A2(l)) = 2 * Cardinality(A2(l - 1))
  <2>1. SUFFICES ASSUME depth < max, NEW l \in 1 .. max
                 PROVE  c2[l] + Cardinality(A2(l)) = 2 * Cardinality(A2(l - 1))
    BY <1>7
  <2>2. len = depth /\ l \in 0 .. EncSymbols + max /\ c[l] \in Nat
    <3>1. c \in Counts(max)
      BY <1>1
    <3>2. c[l] \in Nat
      BY <3>1, SharesNat
    <3>3. l \in 0 .. EncSymbols + max
      BY EncSizes
    <3> QED BY <1>14, <2>1, <3>2, <3>3
  <2>3. c[l] + Cardinality(A(l)) = 2 * Cardinality(A(l - 1))
    <3>1. hi[e] < max
      <4>1. hi[e] \in Nat
        <5>1. e \in 0 .. num - 1
          OBVIOUS
        <5> QED BY <1>1, <5>1
      <4> QED BY <1>4, <1>5, <2>1, <4>1
    <3> QED BY <1>1, <3>1
  <2> HIDE DEF A, A2
  <2>4. CASE l = depth
    <3>1. A2(l - 1) = A(l - 1)
      BY <1>4, <1>10, <2>4
    <3>2. c2[l] = c[l] - 1 /\ Cardinality(A2(l)) = Cardinality(A(l)) + 1
      BY <1>12, <1>15, <2>2, <2>4
    <3>3. /\ Cardinality(A(l)) \in Nat /\ Cardinality(A(l - 1)) \in Nat
      BY <1>11
    <3> DEFINE a == Cardinality(A(l))
               b == Cardinality(A(l - 1))
               a2 == Cardinality(A2(l))
               b2 == Cardinality(A2(l - 1))
    <3>4. a \in Nat /\ b \in Nat /\ c[l] \in Nat /\ c[l] + a = 2 * b
      BY <2>2, <2>3, <3>3
    <3>5. c2[l] = c[l] - 1 /\ a2 = a + 1 /\ b2 = b
      BY <3>1, <3>2
    <3> HIDE DEF a, b, a2, b2
    <3>6. c2[l] + a2 = 2 * b2
      BY <3>4, <3>5, SMTT(60)
    <3> QED BY <3>6 DEF a2, b2
  <2>5. CASE l = depth + 1
    <3>1. A2(l) = A(l) /\ l - 1 = depth
      BY <1>4, <1>10, <2>5
    <3>2. c2[l] = c[l] + 2 /\ Cardinality(A2(l - 1)) = Cardinality(A(l - 1)) + 1
      BY <1>12, <1>15, <2>2, <2>5, <3>1
    <3>3. /\ Cardinality(A(l)) \in Nat /\ Cardinality(A(l - 1)) \in Nat
      BY <1>11
    <3> DEFINE a == Cardinality(A(l))
               b == Cardinality(A(l - 1))
               a2 == Cardinality(A2(l))
               b2 == Cardinality(A2(l - 1))
    <3>4. a \in Nat /\ b \in Nat /\ c[l] \in Nat /\ c[l] + a = 2 * b
      BY <2>2, <2>3, <3>3
    <3>5. c2[l] = c[l] + 2 /\ a2 = a /\ b2 = b + 1
      BY <3>1, <3>2
    <3> HIDE DEF a, b, a2, b2
    <3>7. c2[l] + a2 = (c[l] + a) + 2
      BY <3>4, <3>5, SMTT(60)
    <3>6. c2[l] + a2 = 2 * b2
      BY <3>4, <3>5, <3>7
    <3> QED BY <3>6 DEF a2, b2
  <2>6. CASE l # depth /\ l # depth + 1
    <3>1. A2(l) = A(l) /\ A2(l - 1) = A(l - 1)
      BY <1>4, <1>10, <2>6, SMTT(60)
    <3>2. c2[l] = c[l]
      BY <1>15, <2>2, <2>6
    <3> QED BY <2>3, <3>1, <3>2
  <2> QED BY <2>4, <2>5, <2>6
<1>18. u \in Deeps(num, max) /\ u.high = hi2 /\ u.counters = c2
  BY <1>7, <1>15 DEF Deeps
<1> HIDE DEF u
<1>19. /\ \A j \in 0 .. (e - 1) - 1 : hi2[j] = h[j]
       /\ hi2[num - 2] = 0
  <2>1. \A j \in 0 .. (e - 1) - 1 : j \in 0 .. e - 1 /\ j \in 0 .. num - 1 /\ j # e - 1
    BY <1>2
  <2>2. num - 2 \in 0 .. num - 1 /\ num - 2 # e - 1
    BY <1>2
  <2> QED BY <1>1, <1>7, <2>1, <2>2
<1>20. Total(c2, 1 .. max) = num - (e - 1) /\ Total(Shares(c2, max), 1 .. max) = 2 ^ max
  BY <1>1, <1>2, <1>16
<1>21. \A j \in e - 1 .. num - 3 : hi2[j] = hi2[h[j]] + 1
  BY <1>8
<1>22. Deep(u, h, num, max, e - 1)
  BY <1>9, <1>17, <1>18, <1>19, <1>20, <1>21 DEF Deep
<1> QED BY <1>6, <1>22

\* The sum is the one number that is not 0.
LEMMA TotalSingle ==
  ASSUME NEW S, IsFiniteSet(S), NEW f, NEW x \in S, f[x] \in Nat,
         \A s \in S \ {x} : f[s] = 0
  PROVE  Total(f, S) = f[x]
<1> DEFINE R == S \ {x}
<1>1. IsFiniteSet(R) /\ x \notin R /\ S = R \cup {x}
  <2>1. R \in SUBSET S /\ x \notin R /\ S = R \cup {x}
    OBVIOUS
  <2> HIDE DEF R
  <2> QED BY <2>1, FS_Subset
<1>2. \A s \in R : f[s] = 0
  OBVIOUS
<1> HIDE DEF R
<1>3. Total(f, R) = Cardinality(R) * 0
  <2>1. 0 \in Nat
    OBVIOUS
  <2> QED BY <1>1, <1>2, <2>1, TotalConst
<1>4. Cardinality(R) \in Nat
  BY <1>1, FS_CardinalityType
<1>5. Total(f, R \cup {x}) = Total(f, R) + f[x]
  <2>1. \A s \in R : f[s] \in Nat
    BY <1>2
  <2> QED BY <1>1, <2>1, TotalAdd
<1> QED BY <1>1, <1>3, <1>4, <1>5

DepthSteps(g, h, num, max) ==
  g = [k \in 0 .. num - 2 |->
         IF k = 0
           THEN [high |-> [h EXCEPT ![num - 2] = 0],
                 counters |-> [l \in 0 .. EncSymbols + max |-> IF l = 1 THEN 2 ELSE 0]]
         ELSE Deepened(g[k - 1], num - 2 - k, max)]

\* The root alone is no leaf.
LEMMA DeepStarts ==
  ASSUME NEW num \in Nat, num >= 2, NEW h \in [0 .. num - 1 -> Nat],
         NEW max \in Nat, max >= 1,
         NEW d, d = [high |-> [h EXCEPT ![num - 2] = 0],
                     counters |-> [l \in 0 .. EncSymbols + max |-> IF l = 1 THEN 2 ELSE 0]]
  PROVE  Deep(d, h, num, max, num - 2)
<1> DEFINE hi == [h EXCEPT ![num - 2] = 0]
           c == [l \in 0 .. EncSymbols + max |-> IF l = 1 THEN 2 ELSE 0]
<1>1. d.high = hi /\ d.counters = c
  OBVIOUS
<1>2. /\ hi \in [0 .. num - 1 -> Nat] /\ hi[num - 2] = 0
      /\ \A j \in 0 .. num - 1 : j # num - 2 => hi[j] = h[j]
  OBVIOUS
<1>3. /\ c \in Counts(max) /\ c[1] = 2
      /\ \A l \in 0 .. EncSymbols + max : l # 1 => c[l] = 0
  <2>1. 1 \in 0 .. EncSymbols + max
    BY EncSizes
  <2> QED BY <2>1 DEF Counts
<1>4. d \in Deeps(num, max)
  BY <1>2, <1>3 DEF Deeps
<1> HIDE DEF hi, c
<1> DEFINE S == 1 .. max
<1>5. IsFiniteSet(S) /\ 1 \in S
  BY DepthsFinite
<1>6. \A l \in S \ {1} : c[l] = 0
  <2>1. \A l \in S \ {1} : l \in 0 .. EncSymbols + max /\ l # 1
    BY EncSizes
  <2> QED BY <1>3, <2>1
<1>7. \A l \in S : Shares(c, max)[l] = c[l] * 2 ^ (max - l) /\ 2 ^ (max - l) \in Nat
  BY <1>3, SharesNat
<1>8. \A l \in S \ {1} : Shares(c, max)[l] = 0
  BY <1>6, <1>7, SMTT(60)
<1>9. Shares(c, max)[1] = 2 ^ max /\ 2 ^ max \in Nat
  <2>1. max - 1 \in Nat /\ max = (max - 1) + 1
    OBVIOUS
  <2>2. 2 ^ (max - 1) \in Nat /\ 2 ^ ((max - 1) + 1) = 2 ^ (max - 1) + 2 ^ (max - 1)
    BY <2>1, PowerDoubles
  <2>3. Shares(c, max)[1] = 2 * 2 ^ (max - 1)
    BY <1>3, <1>5, <1>7
  <2> DEFINE p == 2 ^ (max - 1)
  <2>4. 2 * p = p + p /\ p + p \in Nat
    <3>1. p \in Nat
      BY <2>2
    <3> HIDE DEF p
    <3> QED BY <3>1
  <2> QED BY <2>1, <2>2, <2>3, <2>4
<1> HIDE DEF S
<1>10. Total(c, S) = 2
  <2>1. c[1] \in Nat
    BY <1>3
  <2>2. Total(c, S) = c[1]
    BY <1>5, <1>6, <2>1, TotalSingle
  <2> QED BY <1>3, <2>2
<1>11. Total(Shares(c, max), S) = 2 ^ max
  <2> DEFINE w == Shares(c, max)
  <2>1. w[1] \in Nat /\ \A l \in S \ {1} : w[l] = 0
    BY <1>8, <1>9
  <2> HIDE DEF w
  <2>2. Total(w, S) = w[1]
    BY <1>5, <2>1, TotalSingle
  <2> QED BY <1>9, <2>2 DEF w
<1>12. \A l \in 1 .. max :
         c[l] + Cardinality(AtDepth(hi, num, num - 2, l))
           = 2 * Cardinality(AtDepth(hi, num, num - 2, l - 1))
  <2>1. SUFFICES ASSUME NEW l \in 1 .. max
                 PROVE  c[l] + Cardinality(AtDepth(hi, num, num - 2, l))
                          = 2 * Cardinality(AtDepth(hi, num, num - 2, l - 1))
    OBVIOUS
  <2>2. AtDepth(hi, num, num - 2, l) = {}
    BY <1>2 DEF AtDepth
  <2>3. Cardinality(AtDepth(hi, num, num - 2, l)) = 0
    BY <2>2, FS_EmptySet
  <2>4. CASE l = 1
    <3>1. AtDepth(hi, num, num - 2, l - 1) = {num - 2}
      BY <1>2, <2>4 DEF AtDepth
    <3>2. Cardinality(AtDepth(hi, num, num - 2, l - 1)) = 1
      BY <3>1, FS_Singleton
    <3> QED BY <1>3, <2>3, <2>4, <3>2
  <2>5. CASE l # 1
    <3>1. AtDepth(hi, num, num - 2, l - 1) = {}
      BY <1>2, <2>5 DEF AtDepth
    <3>2. Cardinality(AtDepth(hi, num, num - 2, l - 1)) = 0
      BY <3>1, FS_EmptySet
    <3>3. c[l] = 0
      <4>1. l \in S \ {1}
        BY <2>5 DEF S
      <4> QED BY <1>6, <4>1
    <3> QED BY <2>3, <3>2, <3>3
  <2> QED BY <2>4, <2>5
<1>13. /\ \A j \in 0 .. (num - 2) - 1 : hi[j] = h[j]
       /\ \A j \in num - 2 .. num - 3 : hi[j] = hi[h[j]] + 1
       /\ \A i, j \in num - 2 .. num - 2 : i <= j => hi[j] <= hi[i]
  <2>1. \A j \in 0 .. (num - 2) - 1 : j \in 0 .. num - 1 /\ j # num - 2
    OBVIOUS
  <2>2. \A i \in num - 2 .. num - 2 : i = num - 2
    OBVIOUS
  <2>3. \A j \in 0 .. (num - 2) - 1 : hi[j] = h[j]
    BY <1>2, <2>1
  <2>4. \A j \in num - 2 .. num - 3 : hi[j] = hi[h[j]] + 1
    OBVIOUS
  <2>5. \A i, j \in num - 2 .. num - 2 : i <= j => hi[j] <= hi[i]
    BY <1>2, <2>2
  <2> QED BY <2>3, <2>4, <2>5
<1>14. num - (num - 2) = 2
  OBVIOUS
<1>15. /\ Total(c, 1 .. max) = num - (num - 2) /\ Total(Shares(c, max), 1 .. max) = 2 ^ max
  BY <1>10, <1>11, <1>14 DEF S
<1> QED BY <1>1, <1>2, <1>4, <1>12, <1>13, <1>15 DEF Deep

\* There are as many leaves as symbols that occur, and their codes leave nothing over.
LEMMA LenCountersRight ==
  ASSUME NEW num \in Nat, num >= 2, NEW h \in [0 .. num - 1 -> Nat],
         Family(h, num - 2, num - 2), NEW max \in Nat, max >= 1, num <= 2 ^ max
  PROVE  /\ LenCounters(h, num, max) \in Counts(max)
         /\ Total(LenCounters(h, num, max), 1 .. max) = num
         /\ Total(Shares(LenCounters(h, num, max), max), 1 .. max) = 2 ^ max
<1> DEFINE x == [high |-> [h EXCEPT ![num - 2] = 0],
                 counters |-> [l \in 0 .. EncSymbols + max |-> IF l = 1 THEN 2 ELSE 0]]
           last == num - 2
           Round(i, s) == Deepened(s, last - i, max)
           P == {q \in (0 .. last) \X Deeps(num, max) : Deep(q[2], h, num, max, last - q[1])}
           step == [q \in P |-> Round(q[1] + 1, q[2])]
           f == CHOOSE g : DepthSteps(g, h, num, max)
<1>1. last \in Nat /\ last = num - 2
  OBVIOUS
<1>2. ASSUME NEW k, NEW s
      PROVE  <<k, s>> \in P <=>
               k \in 0 .. last /\ s \in Deeps(num, max) /\ Deep(s, h, num, max, last - k)
  <2> DEFINE q == <<k, s>>
  <2> HIDE DEF last
  <2>1. q[1] = k /\ q[2] = s
        /\ (q \in (0 .. last) \X Deeps(num, max) <=> k \in 0 .. last /\ s \in Deeps(num, max))
    OBVIOUS
  <2>2. q \in P <=> q \in (0 .. last) \X Deeps(num, max) /\ Deep(q[2], h, num, max, last - q[1])
    <3> HIDE DEF q
    <3> QED OBVIOUS
  <2> HIDE DEF P, q
  <2>3. q \in P <=>
          k \in 0 .. last /\ s \in Deeps(num, max) /\ Deep(s, h, num, max, last - k)
    BY <2>1, <2>2
  <2> QED BY <2>3 DEF q
<1> HIDE DEF P
<1>3. <<0, x>> \in P
  <2>1. Deep(x, h, num, max, num - 2)
    <3>1. \A d : d = x => Deep(d, h, num, max, num - 2)
      BY DeepStarts
    <3> HIDE DEF x
    <3> QED BY <3>1
  <2> HIDE DEF x
  <2>2. x \in Deeps(num, max) /\ 0 \in 0 .. last /\ last - 0 = num - 2
    BY <2>1 DEF Deep
  <2> QED BY <1>2, <2>1, <2>2
<1>4. ASSUME NEW i \in 1 .. last, NEW s, <<i - 1, s>> \in P
      PROVE  <<i, Round(i, s)>> \in P
  <2> DEFINE e == last - (i - 1)
  <2>1. e \in 1 .. num - 2 /\ e - 1 = last - i /\ i \in 0 .. last
    OBVIOUS
  <2>2. Deep(s, h, num, max, e)
    BY <1>2, <1>4
  <2> HIDE DEF e
  <2>3. Deep(Deepened(s, e - 1, max), h, num, max, e - 1)
    BY <2>1, <2>2, DeepenedGoesOn
  <2>4. Deep(Round(i, s), h, num, max, last - i)
    <3> HIDE DEF last
    <3> QED BY <2>1, <2>3
  <2> HIDE DEF Round
  <2>5. Round(i, s) \in Deeps(num, max)
    BY <2>4 DEF Deep
  <2> HIDE DEF last
  <2> QED BY <1>2, <2>1, <2>4, <2>5
<1> HIDE DEF Round
<1>5. \A i \in 1 .. last : \A s : <<i - 1, s>> \in P =>
        <<i, step[<<i - 1, s>>]>> \in P /\ step[<<i - 1, s>>] = Round(i, s)
  <2>1. SUFFICES ASSUME NEW i \in 1 .. last, NEW s, <<i - 1, s>> \in P
                 PROVE  /\ <<i, step[<<i - 1, s>>]>> \in P
                        /\ step[<<i - 1, s>>] = Round(i, s)
    OBVIOUS
  <2>2. (i - 1) + 1 = i
    OBVIOUS
  <2>3. step[<<i - 1, s>>] = Round(i, s)
    <3> HIDE DEF last
    <3> QED BY <2>1, <2>2
  <2> HIDE DEF last, step
  <2> QED BY <1>4, <2>1, <2>3
<1> HIDE DEF step, last
<1>6. \E g : DepthSteps(g, h, num, max)
  <2>1. PICK g : Rounds(g, last, x, step) /\ \A i \in 0 .. last : <<i, g[i]>> \in P
    <3> HIDE DEF x
    <3> QED BY <1>1, <1>3, <1>5, RoundsExist
  <2>2. \A i \in 0 .. last : i # 0 => i \in 1 .. last /\ i - 1 \in 0 .. last
    BY <1>1
  <2> HIDE DEF x
  <2>3. \A i \in 0 .. last : i # 0 => step[<<i - 1, g[i - 1]>>] = Round(i, g[i - 1])
    BY <1>5, <2>1, <2>2
  <2>4. g = [i \in 0 .. last |-> IF i = 0 THEN x ELSE step[<<i - 1, g[i - 1]>>]]
    BY <2>1 DEF Rounds
  <2>5. g = [i \in 0 .. last |-> IF i = 0 THEN x ELSE Round(i, g[i - 1])]
    BY <2>3, <2>4
  <2> QED BY <2>5 DEF DepthSteps, x, last, Round
<1>7. DepthSteps(f, h, num, max)
  BY <1>6, Zenon
<1> HIDE DEF f
<1>8. f[0] = x /\ \A i \in 1 .. last : f[i] = Round(i, f[i - 1])
  <2>1. f = [i \in 0 .. last |-> IF i = 0 THEN x ELSE Round(i, f[i - 1])]
    BY <1>7 DEF DepthSteps, last, Round
  <2>2. 0 \in 0 .. last /\ \A i \in 1 .. last : i \in 0 .. last /\ i # 0
    BY <1>1
  <2> HIDE DEF x
  <2> QED BY <2>1, <2>2
<1> HIDE DEF x
<1>9. \A i \in 0 .. last : <<i, f[i]>> \in P
  <2> DEFINE T == {i \in Nat : <<i, f[i]>> \in P}
  <2>1. 0 \in T
    BY <1>3, <1>8
  <2>2. \A i \in 1 .. last : i - 1 \in T => i \in T
    <3>1. \A i \in 1 .. last : i \in Nat
      OBVIOUS
    <3> QED BY <1>4, <1>8, <3>1
  <2> HIDE DEF T
  <2>3. \A i \in 0 .. last : i \in T
    BY <1>1, <2>1, <2>2, UpToAll
  <2> QED BY <2>3 DEF T
<1>10. Deep(f[last], h, num, max, 0)
  <2>1. <<last, f[last]>> \in P /\ last - last = 0
    BY <1>1, <1>9
  <2> QED BY <1>2, <2>1
<1>11. LenCounters(h, num, max) = f[last].counters
  BY DEF LenCounters, DepthSteps, f, last
<1>12. /\ f[last].counters \in Counts(max) /\ Total(f[last].counters, 1 .. max) = num - 0
       /\ Total(Shares(f[last].counters, max), 1 .. max) = 2 ^ max
  BY <1>10 DEF Deep, Deeps
<1> QED BY <1>11, <1>12

\* Huffman_Generate() counts the leaves of a tree of all symbols that occur.
LEMMA CountersRight ==
  ASSUME NEW f \in EncFreqs, Num(f) >= 2, NEW max \in MaxLens
  PROVE  /\ max \in Nat /\ max >= 1
         /\ Counters(f, max) \in Counts(max)
         /\ Total(Counters(f, max), 1 .. max) = Num(f)
         /\ Total(Shares(Counters(f, max), max), 1 .. max) = 2 ^ max
<1> DEFINE num == Num(f)
           sorted == Sorted(f)
           weights == [i \in 0 .. num - 1 |-> f[sorted[i + 1]]]
           h == Tree(weights, num)
<1>1. num \in Nat /\ num >= 2 /\ num <= EncSymbols
  BY OccurringLemma
<1>2. max \in Nat /\ EncSymbols <= 2 ^ max
  BY EncodeAssumption
<1>3. max >= 1 /\ num <= 2 ^ max
  <2>1. 2 ^ max \in Nat
    BY <1>2, PowerDoubles
  <2>2. max # 0
    <3>1. SUFFICES ASSUME max = 0 PROVE FALSE
      OBVIOUS
    <3>2. 2 ^ max = 1
      BY <3>1, PowerZero
    <3> QED BY <1>2, <3>2, EncSizes
  <2> HIDE DEF num
  <2> QED BY <1>1, <1>2, <2>1, <2>2, EncSizes
<1>4. Counters(f, max) = LenCounters(h, num, max)
  BY DEF Counters, Num
<1>5. weights \in [0 .. num - 1 -> Nat]
  <2>1. sorted \in [1 .. num -> Occurring(f)]
    BY SortedOrders DEF Orders
  <2> HIDE DEF sorted, num
  <2>2. \A i \in 0 .. num - 1 : i + 1 \in 1 .. num
    BY <1>1
  <2>3. \A i \in 0 .. num - 1 : f[sorted[i + 1]] \in Nat
    BY <2>1, <2>2, OccurringLemma
  <2> QED BY <2>3
<1> HIDE DEF num, weights
<1>6. h \in [0 .. num - 1 -> Nat] /\ Family(h, num - 2, num - 2)
  BY <1>1, <1>5, TreeFamily
<1> HIDE DEF h
<1>7. /\ LenCounters(h, num, max) \in Counts(max)
      /\ Total(LenCounters(h, num, max), 1 .. max) = num
      /\ Total(Shares(LenCounters(h, num, max), max), 1 .. max) = 2 ^ max
  BY <1>1, <1>2, <1>3, <1>6, LenCountersRight
<1> QED BY <1>2, <1>3, <1>4, <1>7 DEF num

-----------------------------------------------------------------------------
(* The lengths, longest first *)

\* How many codes are longer than l.
Tail(c, l, max) == Total(c, l + 1 .. max)

\* There are the fewer codes the longer they are.
LEMMA Tails ==
  ASSUME NEW max \in Nat, NEW c \in Counts(max)
  PROVE  /\ \A l \in 0 .. max : Tail(c, l, max) \in Nat
         /\ Tail(c, max, max) = 0
         /\ \A l \in 1 .. max : c[l] \in Nat /\ Tail(c, l - 1, max) = Tail(c, l, max) + c[l]
         /\ \A l, k \in 0 .. max : l <= k => Tail(c, k, max) <= Tail(c, l, max)
<1>1. \A l \in 1 .. max : c[l] \in Nat
  BY SharesNat
<1>2. ASSUME NEW l \in 0 .. max
      PROVE  /\ IsFiniteSet(l + 1 .. max) /\ \A i \in l + 1 .. max : c[i] \in Nat
             /\ Tail(c, l, max) \in Nat
  <2> DEFINE S == l + 1 .. max
  <2>1. l + 1 \in Int /\ max \in Int
    OBVIOUS
  <2>2. IsFiniteSet(S)
    BY <2>1, FS_Interval
  <2>3. \A i \in S : c[i] \in Nat
    BY <1>1
  <2> HIDE DEF S
  <2>4. Total(c, S) \in Nat
    BY <2>2, <2>3, PileFinite
  <2> QED BY <2>2, <2>3, <2>4 DEF S, Tail
<1>3. Tail(c, max, max) = 0
  <2>1. max + 1 .. max = {}
    OBVIOUS
  <2> QED BY <2>1, TotalEmpty DEF Tail
<1>4. ASSUME NEW l \in 1 .. max
      PROVE  Tail(c, l - 1, max) = Tail(c, l, max) + c[l]
  <2> DEFINE S == l + 1 .. max
  <2>1. (l - 1) + 1 .. max = S \cup {l} /\ l \notin S /\ l \in 0 .. max
    OBVIOUS
  <2>2. IsFiniteSet(S) /\ \A i \in S : c[i] \in Nat
    BY <1>2, <2>1
  <2> HIDE DEF S
  <2>3. Total(c, S \cup {l}) = Total(c, S) + c[l]
    BY <1>1, <2>1, <2>2, TotalAdd
  <2> QED BY <2>1, <2>3 DEF Tail, S
<1>5. ASSUME NEW l \in 0 .. max, NEW k \in 0 .. max, l <= k
      PROVE  Tail(c, k, max) <= Tail(c, l, max)
  <2> DEFINE S == l + 1 .. max
             T == k + 1 .. max
  <2>1. T \in SUBSET S
    BY <1>5
  <2>2. IsFiniteSet(S) /\ \A i \in S : c[i] \in Nat
    BY <1>2
  <2> HIDE DEF S, T
  <2>3. Total(c, T) <= Total(c, S)
    BY <2>1, <2>2, TotalSubset
  <2> QED BY <2>3 DEF Tail, S, T
<1> QED BY <1>1, <1>2, <1>3, <1>4, <1>5

\* The places of the codes of length l, when the longest are the first.
Within(c, l, max, r) == Tail(c, l, max) < r /\ r <= Tail(c, l, max) + c[l]

\* Every place belongs to one length.
LEMMA OneLength ==
  ASSUME NEW max \in Nat, NEW c \in Counts(max), NEW r \in 1 .. Tail(c, 0, max)
  PROVE  \E l \in 1 .. max :
           Within(c, l, max, r) /\ \A k \in 1 .. max : Within(c, k, max, r) => k = l
<1> DEFINE t(l) == Tail(c, l, max)
           T == {l \in Nat : l <= max /\ t(l) < r}
<1>1. /\ \A l \in 0 .. max : t(l) \in Nat
      /\ t(max) = 0
      /\ \A l \in 1 .. max : c[l] \in Nat /\ t(l - 1) = t(l) + c[l]
      /\ \A l, k \in 0 .. max : l <= k => t(k) <= t(l)
  BY Tails
<1>2. 0 \in 0 .. max
  OBVIOUS
<1>3. t(0) \in Nat /\ r \in Nat /\ 1 <= r /\ r <= t(0)
  BY <1>1, <1>2
<1> HIDE DEF t
<1>4. max \in T /\ T \subseteq Nat
  BY <1>1, <1>3
<1> HIDE DEF T
<1>5. PICK n \in T : \A k \in T : n <= k
  BY <1>4, LeastNumber
<1>6. n \in 1 .. max /\ n - 1 \in 0 .. max /\ n \in 0 .. max
  <2>1. n \in Nat /\ n <= max /\ t(n) < r
    BY <1>5 DEF T
  <2>2. n # 0
    BY <1>3, <2>1
  <2> QED BY <2>1, <2>2
<1>7. t(n) < r /\ r <= t(n - 1)
  <2>1. t(n) < r
    BY <1>5 DEF T
  <2>2. n - 1 \notin T
    BY <1>5, <1>6
  <2>3. n - 1 \in Nat /\ n - 1 <= max
    BY <1>6
  <2>4. ~(t(n - 1) < r)
    BY <2>2, <2>3 DEF T
  <2>5. t(n - 1) \in Nat
    BY <1>1, <1>6
  <2> QED BY <1>3, <2>1, <2>4, <2>5
<1>8. Within(c, n, max, r)
  <2>1. t(n - 1) = t(n) + c[n]
    BY <1>1, <1>6
  <2> QED BY <1>7, <2>1 DEF Within, t
<1>9. ASSUME NEW k \in 1 .. max, Within(c, k, max, r) PROVE k = n
  <2>1. t(k) < r /\ r <= t(k - 1)
    <3>1. t(k - 1) = t(k) + c[k]
      BY <1>1
    <3> QED BY <1>9, <3>1 DEF Within, t
  <2>2. k \in 0 .. max /\ k - 1 \in 0 .. max /\ k \in Nat /\ n \in Nat
    BY <1>6
  <2>3. /\ t(k) \in Nat /\ t(k - 1) \in Nat /\ t(n) \in Nat /\ t(n - 1) \in Nat
    BY <1>1, <1>6, <2>2
  <2>4. ~(k < n)
    <3>1. SUFFICES ASSUME k < n PROVE FALSE
      OBVIOUS
    <3>2. k <= n - 1
      BY <2>2, <3>1
    <3>3. t(n - 1) <= t(k)
      BY <1>1, <1>6, <2>2, <3>2
    <3> QED BY <1>3, <1>7, <2>1, <2>3, <3>3
  <2>5. ~(n < k)
    <3>1. SUFFICES ASSUME n < k PROVE FALSE
      OBVIOUS
    <3>2. n <= k - 1
      BY <2>2, <3>1
    <3>3. t(k - 1) <= t(n)
      BY <1>1, <1>6, <2>2, <3>2
    <3> QED BY <1>3, <1>7, <2>1, <2>3, <3>3
  <2> QED BY <2>2, <2>4, <2>5
<1> QED BY <1>6, <1>8, <1>9

\* As many symbols are at these places.
LEMMA LengthCount ==
  ASSUME NEW max \in Nat, NEW c \in Counts(max), NEW n \in Nat, n = Tail(c, 0, max),
         NEW S, NEW p \in Orders(S, n), NEW l \in 1 .. max,
         NEW T, T = {s \in S : \E i \in 1 .. n : p[i] = s /\ Within(c, l, max, i)}
  PROVE  Cardinality(T) = c[l]
<1> DEFINE a == Tail(c, l, max)
           I == a + 1 .. a + c[l]
           g == [i \in I |-> p[i]]
<1>1. a \in Nat /\ c[l] \in Nat /\ a + c[l] <= n
  <2>1. /\ Tail(c, l - 1, max) = a + c[l] /\ c[l] \in Nat
        /\ l \in 0 .. max /\ l - 1 \in 0 .. max /\ 0 \in 0 .. max /\ 0 <= l - 1
    BY Tails
  <2>2. a \in Nat /\ Tail(c, l - 1, max) <= Tail(c, 0, max)
    <3> HIDE DEF a
    <3>1. Tail(c, l - 1, max) <= Tail(c, 0, max)
      BY <2>1, Tails
    <3>2. a \in Nat
      BY <2>1, Tails DEF a
    <3> QED BY <3>1, <3>2
  <2> QED BY <2>1, <2>2
<1> DEFINE q == c[l]
<1>2. q \in Nat /\ a + q <= n
  BY <1>1
<1>3. \A i \in 1 .. n : Within(c, l, max, i) <=> a < i /\ i <= a + q
  BY DEF Within
<1> HIDE DEF a, q
<1>4. \A i : i \in I <=> i \in 1 .. n /\ a < i /\ i <= a + q
  BY <1>1, <1>2 DEF q
<1>5. IsFiniteSet(I) /\ Cardinality(I) = q
  <2> DEFINE first == a + 1
             last == a + q
  <2>1. first \in Int /\ last \in Int
    BY <1>1, <1>2
  <2>2. (IF first > last THEN 0 ELSE last - first + 1) = q
    BY <1>1, <1>2
  <2>3. I = first .. last
    BY DEF q
  <2> HIDE DEF first, last, I
  <2>4. /\ IsFiniteSet(first .. last)
        /\ Cardinality(first .. last) = IF first > last THEN 0 ELSE last - first + 1
    BY <2>1, FS_Interval
  <2> QED BY <2>2, <2>3, <2>4
<1> HIDE DEF I
<1>6. /\ p \in [1 .. n -> S]
      /\ \A i, j \in 1 .. n : p[i] = p[j] => i = j
  BY DEF Orders
<1>7. T = {s \in S : \E i \in I : p[i] = s}
  BY <1>3, <1>4
<1>8. g \in [I -> T]
  BY <1>4, <1>6, <1>7
<1>9. \A i, j \in I : g[i] = g[j] => i = j
  BY <1>4, <1>6
<1>10. \A s \in T : \E i \in I : g[i] = s
  BY <1>7
<1> HIDE DEF g
<1>11. g \in Bijection(I, T)
  BY <1>8, <1>9, <1>10, Zenon DEF Bijection, Injection, IsInjective, Surjection
<1>12. ExistsBijection(I, T)
  BY <1>11 DEF ExistsBijection
<1>13. Cardinality(T) = Cardinality(I)
  BY <1>5, <1>12, FS_Bijection
<1> QED BY <1>5, <1>13 DEF q

LongSum(c, l, max) == (CHOOSE g : SumsOf(g, c, l + 1 .. max))[l + 1 .. max]

\* LensOf() counts them.
LEMMA LongerIsTail ==
  ASSUME NEW max \in Nat, NEW c \in Counts(max), NEW l \in 1 .. max
  PROVE  LongSum(c, l, max) = Tail(c, l, max)
<1> DEFINE S == l + 1 .. max
           g == CHOOSE h : SumsOf(h, c, S)
<1>1. IsFiniteSet(S) /\ \A i \in S : c[i] \in Nat
  <2>1. l + 1 \in Int /\ max \in Int
    OBVIOUS
  <2>2. IsFiniteSet(S)
    BY <2>1, FS_Interval
  <2>3. \A i \in S : i \in 1 .. max
    OBVIOUS
  <2> HIDE DEF S
  <2> QED BY <2>2, <2>3, SharesNat
<1> HIDE DEF S
<1>2. /\ \E h : SumsOf(h, c, S)
      /\ \A h : SumsOf(h, c, S) => h[S] = Total(c, S)
  BY <1>1, SumsOfExist
<1>3. SumsOf(g, c, S)
  BY <1>2, Zenon
<1> HIDE DEF g
<1>4. g[S] = Total(c, S)
  BY <1>2, <1>3
<1> QED BY <1>4 DEF LongSum, Tail, g, S

\* Symbols that occur have got lengths within the limit, as many of each as there are
\* leaves of this depth.
LEMMA LensRight ==
  ASSUME NEW f \in EncFreqs, Num(f) >= 2, NEW max \in MaxLens
  PROVE  /\ LensOf(f, max) \in [EncRange -> 0 .. max]
         /\ \A s \in EncRange : LensOf(f, max)[s] > 0 <=> f[s] > 0
         /\ \A l \in 1 .. max :
              Cardinality({s \in EncRange : LensOf(f, max)[s] = l}) = Counters(f, max)[l]
<1> DEFINE c == Counters(f, max)
           p == Sorted(f)
           n == Num(f)
           S == Occurring(f)
           Rank(s) == CHOOSE i \in 1 .. n : p[i] = s
           Length(s) == CHOOSE l \in 1 .. max : Within(c, l, max, Rank(s))
           Chosen(s) ==
             CHOOSE l \in 1 .. max :
               LongSum(c, l, max) < Rank(s) /\ Rank(s) <= LongSum(c, l, max) + c[l]
           ls == LensOf(f, max)
<1>1. max \in Nat /\ c \in Counts(max) /\ Total(c, 1 .. max) = n
  BY CountersRight
<1>2. n \in Nat /\ p \in Orders(S, n)
  BY OccurringLemma, SortedOrders
<1>3. S \in SUBSET EncRange /\ \A s \in EncRange : f[s] \in Nat /\ (s \in S <=> f[s] # 0)
  BY OccurringLemma DEF EncFreqs, Occurring
<1>4. n = Tail(c, 0, max)
  BY <1>1 DEF Tail
<1>5. ls = [s \in EncRange |-> IF f[s] = 0 THEN 0 ELSE Chosen(s)]
  BY DEF LensOf, LongSum, SumsOf, MapThenSumSet, MapThenFoldSet, Num
<1> HIDE DEF c, p, n, S, ls
<1>6. ASSUME NEW s \in EncRange
      PROVE  Chosen(s) = Length(s)
  <2> HIDE DEF Rank
  <2>1. \A l \in 1 .. max : LongSum(c, l, max) = Tail(c, l, max)
    BY <1>1, LongerIsTail
  <2>2. \A l : l \in 1 .. max /\ (LongSum(c, l, max) < Rank(s)
                                  /\ Rank(s) <= LongSum(c, l, max) + c[l])
               <=> l \in 1 .. max /\ Within(c, l, max, Rank(s))
    BY <2>1 DEF Within
  <2> QED BY <2>2
<1>7. ASSUME NEW s \in S
      PROVE  Rank(s) \in 1 .. n /\ p[Rank(s)] = s
  <2>1. \E i \in 1 .. n : p[i] = s
    BY <1>2 DEF Orders
  <2> QED BY <2>1
<1> HIDE DEF Rank
<1>8. ASSUME NEW s \in S
      PROVE  /\ Length(s) \in 1 .. max /\ Within(c, Length(s), max, Rank(s))
             /\ \A k \in 1 .. max : Within(c, k, max, Rank(s)) => k = Length(s)
  <2>1. Rank(s) \in 1 .. Tail(c, 0, max)
    BY <1>4, <1>7
  <2> DEFINE r == Rank(s)
  <2>2. r \in 1 .. Tail(c, 0, max)
    BY <2>1
  <2> HIDE DEF r
  <2>3. PICK l \in 1 .. max :
           Within(c, l, max, r) /\ \A k \in 1 .. max : Within(c, k, max, r) => k = l
    BY <1>1, <2>2, OneLength
  <2> QED BY <2>3, Zenon DEF r
<1> HIDE DEF Length, Chosen
<1>9. \A s \in EncRange : ls[s] = IF f[s] = 0 THEN 0 ELSE Length(s)
  BY <1>5, <1>6
<1>10. ls \in [EncRange -> 0 .. max]
  <2>1. \A s \in EncRange : (IF f[s] = 0 THEN 0 ELSE Length(s)) \in 0 .. max
    BY <1>1, <1>3, <1>8
  <2>2. ls = [s \in EncRange |-> IF f[s] = 0 THEN 0 ELSE Length(s)]
    <3>1. \A s \in EncRange : ls[s] = IF f[s] = 0 THEN 0 ELSE Length(s)
      BY <1>9
    <3>2. ls = [s \in EncRange |-> ls[s]]
      BY <1>5
    <3> HIDE DEF Length
    <3> QED BY <3>1, <3>2
  <2> QED BY <2>1, <2>2
<1>11. \A s \in EncRange : ls[s] > 0 <=> f[s] > 0
  <2>1. SUFFICES ASSUME NEW s \in EncRange PROVE ls[s] > 0 <=> f[s] > 0
    OBVIOUS
  <2>2. CASE f[s] = 0
    BY <1>9, <2>2
  <2>3. CASE f[s] # 0
    <3>1. ls[s] = Length(s) /\ Length(s) \in 1 .. max /\ f[s] \in Nat
      BY <1>3, <1>8, <1>9, <2>3
    <3> QED BY <2>3, <3>1
  <2> QED BY <2>2, <2>3
<1>12. ASSUME NEW l \in 1 .. max
       PROVE  Cardinality({s \in EncRange : ls[s] = l}) = c[l]
  <2> DEFINE T == {s \in S : \E i \in 1 .. n : p[i] = s /\ Within(c, l, max, i)}
  <2>1. ASSUME NEW s \in EncRange
        PROVE  ls[s] = l <=> s \in S /\ \E i \in 1 .. n : p[i] = s /\ Within(c, l, max, i)
    <3>1. CASE s \notin S
      <4>1. ls[s] = 0
        BY <1>3, <1>9, <3>1
      <4> QED BY <3>1, <4>1
    <3>2. CASE s \in S
      <4>1. ls[s] = Length(s)
        BY <1>3, <1>9, <3>2
      <4>2. \A i \in 1 .. n : p[i] = s => i = Rank(s)
        <5>1. \A i, j \in 1 .. n : p[i] = p[j] => i = j
          BY <1>2 DEF Orders
        <5> QED BY <1>7, <3>2, <5>1
      <4>3. Within(c, l, max, Rank(s)) <=> Length(s) = l
        BY <1>8, <3>2
      <4> QED BY <1>7, <3>2, <4>1, <4>2, <4>3
    <3> QED BY <3>1, <3>2
  <2>2. {s \in EncRange : ls[s] = l} = T
    BY <1>3, <2>1
  <2>3. T = {s \in S : \E i \in 1 .. n : p[i] = s /\ Within(c, l, max, i)}
    OBVIOUS
  <2> HIDE DEF T
  <2>4. Cardinality(T) = c[l]
    BY <1>1, <1>2, <1>4, <2>3, LengthCount
  <2> QED BY <2>2, <2>4
<1> QED BY <1>10, <1>11, <1>12 DEF ls, c

-----------------------------------------------------------------------------
(* The codes *)

\* What the code of a symbol takes of the values of max bits.
Part(ls, max) == [s \in EncRange |-> IF ls[s] = 0 THEN 0 ELSE 2 ^ (max - ls[s])]

\* The symbols of codes no longer than l, those of length l, and those before s.
Short(ls, l) == {s \in EncRange : ls[s] # 0 /\ ls[s] <= l}
OfLength(ls, l) == {s \in EncRange : ls[s] = l}
SameBefore(ls, s) == {t \in EncRange : t < s /\ ls[t] = ls[s]}
Preceding(ls, s) ==
  {t \in EncRange : ls[t] # 0 /\ (ls[t] < ls[s] \/ (ls[t] = ls[s] /\ t < s))}

\* The parts are numbers.
LEMMA PartLemma ==
  ASSUME NEW max \in Nat, NEW ls \in [EncRange -> 0 .. max]
  PROVE  /\ \A s \in EncRange :
              /\ ls[s] \in Nat /\ ls[s] <= max
              /\ Part(ls, max)[s] \in Nat
              /\ ls[s] = 0 => Part(ls, max)[s] = 0
              /\ ls[s] # 0 => Part(ls, max)[s] = 2 ^ (max - ls[s])
         /\ \A S \in SUBSET EncRange : IsFiniteSet(S) /\ Total(Part(ls, max), S) \in Nat
         /\ \A l \in 0 .. max : max - l \in Nat /\ 2 ^ (max - l) \in Nat
<1>1. \A l \in 0 .. max : max - l \in Nat /\ 2 ^ (max - l) \in Nat
  <2>1. \A l \in 0 .. max : max - l \in Nat
    OBVIOUS
  <2> QED BY <2>1, PowerDoubles
<1>2. ASSUME NEW s \in EncRange
      PROVE  /\ ls[s] \in Nat /\ ls[s] <= max
             /\ Part(ls, max)[s] \in Nat
             /\ ls[s] = 0 => Part(ls, max)[s] = 0
             /\ ls[s] # 0 => Part(ls, max)[s] = 2 ^ (max - ls[s])
  <2>1. ls[s] \in 0 .. max
    OBVIOUS
  <2>2. 2 ^ (max - ls[s]) \in Nat /\ ls[s] \in Nat /\ ls[s] <= max
    BY <1>1, <2>1
  <2>3. Part(ls, max)[s] = IF ls[s] = 0 THEN 0 ELSE 2 ^ (max - ls[s])
    BY DEF Part
  <2> QED BY <2>2, <2>3
<1>3. ASSUME NEW S \in SUBSET EncRange
      PROVE  IsFiniteSet(S) /\ Total(Part(ls, max), S) \in Nat
  <2>1. IsFiniteSet(S)
    BY EncSizes, FS_Subset
  <2> DEFINE w == Part(ls, max)
  <2>2. \A s \in S : w[s] \in Nat
    BY <1>2
  <2> HIDE DEF w
  <2>3. Total(w, S) \in Nat
    BY <2>1, <2>2, PileFinite
  <2> QED BY <2>1, <2>3 DEF w
<1> QED BY <1>1, <1>2, <1>3

\* What codes up to a length take is what the counters say.
LEMMA ShortTakes ==
  ASSUME NEW max \in Nat, NEW c \in Counts(max), NEW ls \in [EncRange -> 0 .. max],
         \A l \in 1 .. max : Cardinality(OfLength(ls, l)) = c[l]
  PROVE  \A l \in 0 .. max :
           Total(Part(ls, max), Short(ls, l)) = Total(Shares(c, max), 1 .. l)
<1> DEFINE w == Part(ls, max)
           v == Shares(c, max)
           T == {l \in Nat : Total(w, Short(ls, l)) = Total(v, 1 .. l)}
<1>1. 0 \in T
  <2>1. Short(ls, 0) = {}
    BY PartLemma DEF Short
  <2>2. 1 .. 0 = {}
    OBVIOUS
  <2> QED BY <2>1, <2>2, TotalEmpty
<1>2. \A l \in 1 .. max : l - 1 \in T => l \in T
  <2>1. SUFFICES ASSUME NEW l \in 1 .. max, Total(w, Short(ls, l - 1)) = Total(v, 1 .. l - 1)
                 PROVE  Total(w, Short(ls, l)) = Total(v, 1 .. l)
    OBVIOUS
  <2> DEFINE S == Short(ls, l - 1)
             R == OfLength(ls, l)
             I == 1 .. l - 1
             q == 2 ^ (max - l)
  <2>2. \A s \in EncRange : ls[s] \in Nat
    BY PartLemma
  <2>3. Short(ls, l) = S \cup R /\ S \cap R = {}
        /\ S \in SUBSET EncRange /\ R \in SUBSET EncRange
    BY <2>2 DEF Short, OfLength
  <2>4. \A s \in R : w[s] = q
    <3>1. \A s \in R : s \in EncRange /\ ls[s] = l /\ ls[s] # 0
      BY DEF OfLength
    <3> HIDE DEF R
    <3> QED BY <3>1, PartLemma
  <2>5. q \in Nat
    BY PartLemma
  <2>6. Cardinality(R) = c[l]
    BY DEF OfLength
  <2>7. v[l] = c[l] * q /\ v[l] \in Nat /\ \A k \in I : v[k] \in Nat
    <3>1. \A k \in I : k \in 1 .. max
      OBVIOUS
    <3> QED BY <3>1, SharesNat
  <2>8. 1 .. l = I \cup {l} /\ l \notin I
    OBVIOUS
  <2>9. IsFiniteSet(I)
    <3>1. l - 1 \in Nat
      OBVIOUS
    <3> QED BY <3>1, DepthsFinite
  <2>10. IsFiniteSet(S) /\ IsFiniteSet(R) /\ \A s \in EncRange : w[s] \in Nat
    <3> HIDE DEF S, R
    <3> QED BY <2>3, PartLemma
  <2> HIDE DEF w, v, S, R, I, q
  <2>11. Total(w, R) = Cardinality(R) * q
    BY <2>4, <2>5, <2>10, TotalConst
  <2>12. Total(w, S \cup R) = Total(w, S) + Total(w, R)
    <3>1. \A s \in S \cup R : w[s] \in Nat
      BY <2>3, <2>10
    <3> QED BY <2>3, <2>10, <3>1, TotalUnion
  <2>13. Total(v, I \cup {l}) = Total(v, I) + v[l]
    BY <2>7, <2>8, <2>9, TotalAdd
  <2>14. Total(w, S) = Total(v, I)
    BY <2>1 DEF S, I
  <2> QED BY <2>3, <2>6, <2>7, <2>8, <2>11, <2>12, <2>13, <2>14
<1> HIDE DEF T
<1>3. \A l \in 0 .. max : l \in T
  BY <1>1, <1>2, UpToAll
<1> QED BY <1>3 DEF T

FirstSteps(g, c, max) ==
  g = [l \in 1 .. max |-> IF l = 1 THEN 0 ELSE 2 * (g[l - 1] + c[l - 1])]

\* The first code of a length comes behind what shorter codes take.
LEMMA FirstCodeRight ==
  ASSUME NEW f \in EncFreqs, NEW max \in Nat, max >= 1, Counters(f, max) \in Counts(max)
  PROVE  \A l \in 1 .. max :
           /\ FirstCode(f, max)[l] \in Nat
           /\ FirstCode(f, max)[l] * 2 ^ (max - l)
                = Total(Shares(Counters(f, max), max), 1 .. l - 1)
<1> DEFINE c == Counters(f, max)
           v == Shares(c, max)
           last == max - 1
           P == (0 .. last) \X Nat
           step == [q \in P |-> 2 * (q[2] + c[q[1] + 1])]
           g == CHOOSE h : FirstSteps(h, c, max)
<1>1. last \in Nat /\ last = max - 1
  OBVIOUS
<1>2. \A i \in 1 .. max : c[i] \in Nat
  BY SharesNat
<1>3. c \in Counts(max)
  OBVIOUS
<1>4. FirstCode(f, max) = g
  BY DEF FirstCode, FirstSteps
<1> HIDE DEF c
<1>5. \A i \in 1 .. last : \A s : <<i - 1, s>> \in P =>
        <<i, step[<<i - 1, s>>]>> \in P /\ step[<<i - 1, s>>] = 2 * (s + c[i])
  <2>1. SUFFICES ASSUME NEW i \in 1 .. last, NEW s, <<i - 1, s>> \in P
                 PROVE  /\ <<i, step[<<i - 1, s>>]>> \in P
                        /\ step[<<i - 1, s>>] = 2 * (s + c[i])
    OBVIOUS
  <2>2. s \in Nat /\ i \in 0 .. last /\ c[i] \in Nat /\ (i - 1) + 1 = i
    <3>1. i \in 1 .. max
      OBVIOUS
    <3>2. i \in 0 .. last /\ (i - 1) + 1 = i
      OBVIOUS
    <3> HIDE DEF last
    <3> QED BY <1>2, <2>1, <3>1, <3>2
  <2> HIDE DEF last
  <2>3. step[<<i - 1, s>>] = 2 * (s + c[i])
    BY <2>1, <2>2
  <2> HIDE DEF step
  <2> QED BY <2>2, <2>3
<1>6. <<0, 0>> \in P
  BY <1>1
<1> HIDE DEF P, step, last
<1>7. \E h : FirstSteps(h, c, max)
  <2>1. PICK h : Rounds(h, last, 0, step) /\ \A i \in 0 .. last : <<i, h[i]>> \in P
    BY <1>1, <1>5, <1>6, RoundsExist
  <2> DEFINE k == [l \in 1 .. max |-> h[l - 1]]
  <2>2. \A i \in 0 .. last : h[i] = IF i = 0 THEN 0 ELSE step[<<i - 1, h[i - 1]>>]
    BY <2>1 DEF Rounds
  <2>3. ASSUME NEW l \in 1 .. max
        PROVE  k[l] = IF l = 1 THEN 0 ELSE 2 * (k[l - 1] + c[l - 1])
    <3>1. l - 1 \in 0 .. last /\ (l - 1 = 0 <=> l = 1)
      BY <1>1
    <3>2. CASE l = 1
      BY <2>2, <3>1, <3>2
    <3>3. CASE l # 1
      <4>1. l - 1 \in 1 .. last /\ (l - 1) - 1 \in 0 .. last /\ l - 1 \in 1 .. max
        BY <1>1, <3>3
      <4>2. h[l - 1] = step[<<(l - 1) - 1, h[(l - 1) - 1]>>]
        BY <2>2, <3>1, <3>3
      <4>3. step[<<(l - 1) - 1, h[(l - 1) - 1]>>] = 2 * (h[(l - 1) - 1] + c[l - 1])
        BY <1>5, <2>1, <4>1
      <4>4. k[l] = h[l - 1] /\ k[l - 1] = h[(l - 1) - 1]
        BY <4>1
      <4> QED BY <3>3, <4>2, <4>3, <4>4
    <3> QED BY <3>2, <3>3
  <2>4. k = [l \in 1 .. max |-> k[l]]
    OBVIOUS
  <2> HIDE DEF k
  <2>5. FirstSteps(k, c, max)
    BY <2>3, <2>4 DEF FirstSteps
  <2> QED BY <2>5
<1>8. FirstSteps(g, c, max)
  BY <1>7, Zenon
<1> HIDE DEF g
<1>9. \A l \in 1 .. max : g[l] = IF l = 1 THEN 0 ELSE 2 * (g[l - 1] + c[l - 1])
  BY <1>8 DEF FirstSteps
<1> DEFINE Right(l) == g[l] \in Nat /\ g[l] * 2 ^ (max - l) = Total(v, 1 .. l - 1)
           T == {i \in Nat : Right(i + 1)}
<1>10. Right(1)
  <2>1. g[1] = 0
    BY <1>9
  <2>2. 1 .. 1 - 1 = {} /\ max - 1 \in Nat
    OBVIOUS
  <2>3. Total(v, 1 .. 1 - 1) = 0
    BY <2>2, TotalEmpty
  <2>4. 2 ^ (max - 1) \in Nat
    BY <2>2, PowerDoubles
  <2> QED BY <2>1, <2>3, <2>4
<1>11. ASSUME NEW l \in 2 .. max, Right(l - 1)
       PROVE  Right(l)
  <2> DEFINE q == 2 ^ (max - l)
             a == g[l - 1]
             b == c[l - 1]
             I == 1 .. l - 2
  <2>1. max - l \in Nat /\ max - (l - 1) = (max - l) + 1 /\ l - 1 \in 1 .. max /\ l # 1
        /\ l \in 1 .. max
    OBVIOUS
  <2>2. q \in Nat /\ 2 ^ (max - (l - 1)) = q + q
    BY <2>1, PowerDoubles
  <2>3. a \in Nat /\ b \in Nat /\ g[l] = 2 * (a + b)
    BY <1>2, <1>9, <1>11, <2>1
  <2>4. v[l - 1] = b * (q + q) /\ v[l - 1] \in Nat
    BY <1>3, <2>1, <2>2, SharesNat
  <2>5. (l - 1) - 1 = l - 2 /\ 1 .. l - 1 = I \cup {l - 1} /\ l - 1 \notin I
    OBVIOUS
  <2>6. a * (q + q) = Total(v, I)
    BY <1>11, <2>2, <2>5
  <2>7. IsFiniteSet(I) /\ \A k \in I : v[k] \in Nat
    <3>1. l - 2 \in Nat /\ \A k \in I : k \in 1 .. max
      OBVIOUS
    <3> QED BY <1>3, <3>1, DepthsFinite, SharesNat
  <2> HIDE DEF I, v
  <2>8. Total(v, I \cup {l - 1}) = Total(v, I) + v[l - 1]
    BY <2>4, <2>5, <2>7, TotalAdd
  <2>9. (2 * (a + b)) * q = a * (q + q) + b * (q + q) /\ 2 * (a + b) \in Nat
    <3>1. a \in Nat /\ b \in Nat /\ q \in Nat
      BY <2>2, <2>3
    <3> HIDE DEF a, b, q
    <3> QED BY <3>1
  <2> QED BY <2>3, <2>4, <2>5, <2>6, <2>8, <2>9
<1>12. 0 \in T
  <2>1. 0 + 1 = 1
    OBVIOUS
  <2> HIDE DEF Right
  <2> QED BY <1>10, <2>1
<1>13. \A i \in 1 .. last : i - 1 \in T => i \in T
  <2>1. \A i \in 1 .. last : i + 1 \in 2 .. max /\ (i - 1) + 1 = (i + 1) - 1 /\ i \in Nat
    BY <1>1
  <2> HIDE DEF Right
  <2> QED BY <1>11, <2>1
<1> HIDE DEF T
<1>14. \A i \in 0 .. last : i \in T
  BY <1>1, <1>12, <1>13, UpToAll
<1>15. \A l \in 1 .. max : Right(l)
  <2>1. \A l \in 1 .. max : l - 1 \in 0 .. last /\ (l - 1) + 1 = l
    BY <1>1
  <2>2. \A l \in 1 .. max : Right((l - 1) + 1)
    <3> HIDE DEF Right
    <3> QED BY <1>14, <2>1 DEF T
  <2> HIDE DEF Right
  <2> QED BY <2>1, <2>2
<1> QED BY <1>4, <1>15 DEF c

-----------------------------------------------------------------------------
(* What Huffman_Generate() leaves *)

\* What is claimed of lengths ls and codes cs, with sums that can be calculated with.
Canonical(ls, cs, f, max) ==
  /\ ls \in [EncRange -> 0 .. max]
  /\ \A s \in EncRange : f[s] > 0 => ls[s] > 0
  /\ Total(Part(ls, max), EncRange) = 2 ^ max
  /\ \A s \in EncRange : ls[s] > 0 =>
       /\ cs[s] \in Nat
       /\ cs[s] * Part(ls, max)[s] = Total(Part(ls, max), Preceding(ls, s))

\* A limit that leaves room for all symbols is not 0.
LEMMA MaxPositive == \A max \in MaxLens : max \in Nat /\ max >= 1
<1> SUFFICES ASSUME NEW max \in MaxLens PROVE max \in Nat /\ max >= 1
  OBVIOUS
<1>1. max \in Nat /\ EncSymbols <= 2 ^ max
  BY EncodeAssumption
<1>2. max # 0
  <2>1. SUFFICES ASSUME max = 0 PROVE FALSE
    OBVIOUS
  <2>2. 2 ^ max = 1
    BY <2>1, PowerZero
  <2> QED BY <1>1, <2>2, EncSizes
<1> QED BY <1>1, <1>2

\* The codes of the lengths that were given away.
LEMMA CodesRight ==
  ASSUME NEW f \in EncFreqs, Num(f) >= 2, NEW max \in MaxLens
  PROVE  Canonical(LensOf(f, max), CodesOf(f, max, LensOf(f, max)), f, max)
<1> DEFINE c == Counters(f, max)
           v == Shares(c, max)
           ls == LensOf(f, max)
           first == FirstCode(f, max)
           cs == CodesOf(f, max, ls)
           w == Part(ls, max)
<1>1. /\ max \in Nat /\ max >= 1 /\ c \in Counts(max)
      /\ Total(v, 1 .. max) = 2 ^ max
  BY CountersRight
<1>2. /\ ls \in [EncRange -> 0 .. max]
      /\ \A s \in EncRange : ls[s] > 0 <=> f[s] > 0
      /\ \A l \in 1 .. max : Cardinality(OfLength(ls, l)) = c[l]
  BY LensRight DEF OfLength
<1>3. \A l \in 1 .. max : first[l] \in Nat /\ first[l] * 2 ^ (max - l) = Total(v, 1 .. l - 1)
  BY <1>1, FirstCodeRight
<1>4. \A s \in EncRange : ls[s] # 0 => cs[s] = first[ls[s]] + Cardinality(SameBefore(ls, s))
  BY DEF CodesOf, SameBefore
<1> HIDE DEF c, ls, first, cs
<1>5. \A l \in 0 .. max : Total(w, Short(ls, l)) = Total(v, 1 .. l)
  BY <1>1, <1>2, ShortTakes
<1>6. \A s \in EncRange : /\ ls[s] \in Nat /\ ls[s] <= max /\ w[s] \in Nat
                          /\ ls[s] = 0 => w[s] = 0
                          /\ ls[s] # 0 => w[s] = 2 ^ (max - ls[s])
  BY <1>1, <1>2, PartLemma
<1>7. \A S \in SUBSET EncRange : IsFiniteSet(S) /\ Total(w, S) \in Nat
  BY <1>1, <1>2, PartLemma
<1>8. \A l \in 0 .. max : 2 ^ (max - l) \in Nat
  BY <1>1, <1>2, PartLemma
<1> HIDE DEF w, v
<1>9. Total(w, EncRange) = 2 ^ max
  <2> DEFINE S == Short(ls, max)
             R == {s \in EncRange : ls[s] = 0}
  <2>1. EncRange = S \cup R /\ S \cap R = {} /\ S \in SUBSET EncRange /\ R \in SUBSET EncRange
    BY <1>6 DEF Short
  <2>2. \A s \in R : w[s] = 0
    BY <1>6
  <2>3. Total(w, S) = 2 ^ max
    <3>1. max \in 0 .. max
      BY <1>1
    <3> QED BY <1>1, <1>5, <3>1
  <2> HIDE DEF S, R
  <2>4. IsFiniteSet(S) /\ IsFiniteSet(R) /\ \A s \in S \cup R : w[s] \in Nat
    BY <1>6, <1>7, <2>1
  <2>5. Total(w, R) = Cardinality(R) * 0
    <3>1. 0 \in Nat
      OBVIOUS
    <3> QED BY <2>2, <2>4, <3>1, TotalConst
  <2>6. Total(w, S \cup R) = Total(w, S) + Total(w, R)
    BY <2>1, <2>4, TotalUnion
  <2>7. Cardinality(R) \in Nat /\ Total(w, S) \in Nat
    BY <1>7, <2>1, <2>4, FS_CardinalityType
  <2>8. Total(w, R) = 0
    BY <2>5, <2>7
  <2>9. Total(w, S \cup R) = Total(w, S)
    BY <2>6, <2>7, <2>8
  <2> QED BY <2>1, <2>3, <2>9
<1>10. ASSUME NEW s \in EncRange, ls[s] > 0
       PROVE  cs[s] \in Nat /\ cs[s] * w[s] = Total(w, Preceding(ls, s))
  <2> DEFINE l == ls[s]
             S == Short(ls, l - 1)
             R == SameBefore(ls, s)
             q == 2 ^ (max - l)
             a == first[l]
             b == Cardinality(R)
  <2>1. l \in 1 .. max /\ l - 1 \in 0 .. max /\ l \in 0 .. max /\ l # 0
    BY <1>1, <1>6, <1>10
  <2>2. /\ Preceding(ls, s) = S \cup R /\ S \cap R = {}
        /\ S \in SUBSET EncRange /\ R \in SUBSET EncRange
    <3>1. ASSUME NEW t \in EncRange
          PROVE  /\ ls[t] # 0 /\ (ls[t] < l \/ (ls[t] = l /\ t < s))
                    <=> (ls[t] # 0 /\ ls[t] <= l - 1) \/ (t < s /\ ls[t] = l)
                 /\ ~((ls[t] # 0 /\ ls[t] <= l - 1) /\ (t < s /\ ls[t] = l))
      <4>1. ls[t] \in Nat /\ l \in Nat /\ l > 0
        BY <1>6, <1>10
      <4> HIDE DEF l
      <4> QED BY <4>1
    <3> QED BY <3>1 DEF Preceding, Short, SameBefore
  <2>3. \A t \in R : w[t] = q
    <3>1. \A t \in R : t \in EncRange /\ ls[t] = l
      BY DEF SameBefore
    <3> HIDE DEF R
    <3> QED BY <1>6, <2>1, <3>1
  <2>4. q \in Nat /\ w[s] = q
    BY <1>6, <1>8, <2>1
  <2>5. a \in Nat /\ a * q = Total(v, 1 .. l - 1)
    BY <1>3, <2>1
  <2>6. cs[s] = a + b
    BY <1>4, <2>1
  <2>7. Total(w, S) = Total(v, 1 .. l - 1)
    BY <1>5, <2>1
  <2> HIDE DEF S, R, q, a, l
  <2>8. IsFiniteSet(S) /\ IsFiniteSet(R) /\ \A t \in S \cup R : w[t] \in Nat
    BY <1>6, <1>7, <2>2
  <2>9. Total(w, R) = b * q
    BY <2>3, <2>4, <2>8, TotalConst
  <2>10. Total(w, S \cup R) = Total(w, S) + Total(w, R)
    BY <2>2, <2>8, TotalUnion
  <2>11. b \in Nat
    BY <2>8, FS_CardinalityType
  <2> HIDE DEF b
  <2>12. (a + b) * q = a * q + b * q
    BY <2>4, <2>5, <2>11
  <2>13. cs[s] \in Nat
    BY <2>5, <2>6, <2>11
  <2> QED BY <2>2, <2>4, <2>5, <2>6, <2>7, <2>9, <2>10, <2>12, <2>13
<1>11. \A s \in EncRange : f[s] > 0 => ls[s] > 0
  BY <1>2
<1>12. Canonical(ls, cs, f, max)
  BY <1>2, <1>9, <1>10, <1>11 DEF Canonical, w
<1> QED BY <1>12 DEF ls, cs

LonelyLens(f) == [s \in EncRange |-> IF s \in Lonely(f) THEN 1 ELSE 0]
LonelyCodes(f) ==
  [s \in EncRange |-> IF s = 0 THEN 0 ELSE IF s \in Lonely(f) THEN 1 ELSE Garbage]

\* One symbol, or none, is given a second one, as a code of one bit has two.
LEMMA LonelyRight ==
  ASSUME NEW f \in EncFreqs, Num(f) < 2, NEW max \in MaxLens
  PROVE  Canonical(LonelyLens(f), LonelyCodes(f), f, max)
<1> DEFINE ls == LonelyLens(f)
           cs == LonelyCodes(f)
           w == Part(ls, max)
           p == 2 ^ (max - 1)
<1>1. max \in Nat /\ max >= 1
  BY MaxPositive
<1>2. 0 \in EncRange /\ 1 \in EncRange /\ EncRange \subseteq Nat /\ IsFiniteSet(EncRange)
  BY EncSizes DEF EncRange
<1>3. /\ Occurring(f) \in SUBSET EncRange /\ IsFiniteSet(Occurring(f))
      /\ \A s \in EncRange : f[s] > 0 <=> s \in Occurring(f)
  BY OccurringLemma DEF Occurring
<1>4. \A s, t \in Occurring(f) : s = t
  <2>1. SUFFICES ASSUME NEW s \in Occurring(f), NEW t \in Occurring(f), s # t PROVE FALSE
    OBVIOUS
  <2> DEFINE S == Occurring(f)
             n == Cardinality(S)
  <2>2. n \in Nat /\ n < 2
    BY <1>3, FS_CardinalityType DEF Num
  <2>3. {s, t} \in SUBSET S /\ IsFiniteSet(S)
    BY <1>3
  <2> HIDE DEF S
  <2>4. Cardinality({s, t}) <= n
    BY <2>3, FS_Subset
  <2>5. Cardinality({s, t}) = 2
    <3>1. IsFiniteSet({s}) /\ Cardinality({s}) = 1 /\ t \notin {s} /\ {s, t} = {s} \cup {t}
      BY <2>1, FS_Singleton
    <3>2. Cardinality({s} \cup {t})
            = IF t \in {s} THEN Cardinality({s}) ELSE Cardinality({s}) + 1
      BY <3>1, FS_AddElement
    <3> QED BY <3>1, <3>2
  <2> HIDE DEF n
  <2> QED BY <2>2, <2>4, <2>5
<1>5. PICK x \in EncRange : x # 0 /\ Lonely(f) = {0, x} /\ Occurring(f) \in SUBSET {0, x}
  <2>1. CASE Occurring(f) \subseteq {0}
    <3>1. Lonely(f) = {0, 1}
      BY <2>1 DEF Lonely
    <3> QED BY <1>2, <2>1, <3>1
  <2>2. CASE ~(Occurring(f) \subseteq {0})
    <3>1. PICK y \in Occurring(f) : y # 0
      BY <2>2
    <3>2. Occurring(f) = {y}
      BY <1>4
    <3>3. (CHOOSE s \in Occurring(f) : TRUE) = y
      BY <3>2
    <3>4. Lonely(f) = {0, y}
      BY <2>2, <3>3 DEF Lonely
    <3> QED BY <1>3, <3>1, <3>2, <3>4
  <2> QED BY <2>1, <2>2
<1>6. \A s \in EncRange :
        /\ ls[s] = IF s = 0 \/ s = x THEN 1 ELSE 0
        /\ cs[s] = IF s = 0 THEN 0 ELSE IF s = x THEN 1 ELSE Garbage
  BY <1>5 DEF LonelyLens, LonelyCodes
<1>7. ls \in [EncRange -> 0 .. max]
  <2>1. \A s \in EncRange : (IF s \in Lonely(f) THEN 1 ELSE 0) \in 0 .. max
    BY <1>1
  <2> QED BY <2>1 DEF LonelyLens
<1> HIDE DEF ls, cs
<1>8. \A s \in EncRange : /\ w[s] \in Nat
                          /\ ls[s] = 0 => w[s] = 0
                          /\ ls[s] # 0 => w[s] = 2 ^ (max - ls[s])
  BY <1>1, <1>7, PartLemma
<1>9. w[0] = p /\ w[x] = p /\ \A s \in EncRange \ {0, x} : w[s] = 0
  BY <1>2, <1>5, <1>6, <1>8
<1>10. p \in Nat /\ 2 ^ max = p + p
  <2>1. max - 1 \in Nat /\ (max - 1) + 1 = max
    BY <1>1
  <2> QED BY <2>1, PowerDoubles
<1> HIDE DEF w, p
<1>11. Total(w, EncRange) = 2 ^ max
  <2> DEFINE R == EncRange \ {0, x}
  <2>1. Total(w, EncRange) = Total(w, R) + w[0] + w[x]
    <3>1. (\A s \in EncRange : w[s] \in Nat) /\ 0 # x
      BY <1>5, <1>8
    <3> QED BY <1>2, <3>1, TotalTwo, ZenonT(60)
  <2>2. IsFiniteSet(R) /\ \A s \in R : w[s] = 0
    <3>1. R \in SUBSET EncRange
      OBVIOUS
    <3> QED BY <1>2, <1>9, <3>1, FS_Subset
  <2> HIDE DEF R
  <2>3. Total(w, R) = Cardinality(R) * 0
    <3>1. 0 \in Nat
      OBVIOUS
    <3> QED BY <2>2, <3>1, TotalConst
  <2>4. Cardinality(R) \in Nat
    BY <2>2, FS_CardinalityType
  <2>5. Total(w, R) = 0
    BY <2>3, <2>4
  <2> QED BY <1>9, <1>10, <2>1, <2>5
<1>12. ASSUME NEW s \in EncRange, ls[s] > 0
       PROVE  cs[s] \in Nat /\ cs[s] * w[s] = Total(w, Preceding(ls, s))
  <2>1. s = 0 \/ s = x
    BY <1>6, <1>12
  <2>2. CASE s = 0
    <3>1. Preceding(ls, s) = {}
      <4>1. ASSUME NEW t \in EncRange
            PROVE  ~(ls[t] # 0 /\ (ls[t] < ls[s] \/ (ls[t] = ls[s] /\ t < s)))
        <5>1. ls[s] = 1 /\ (ls[t] = 0 \/ ls[t] = 1) /\ t \in Nat
          BY <1>2, <1>6, <2>2
        <5> QED BY <2>2, <5>1
      <4> QED BY <4>1 DEF Preceding
    <3>2. cs[s] = 0 /\ w[s] = p
      BY <1>6, <1>9, <2>2
    <3> QED BY <1>10, <3>1, <3>2, TotalEmpty
  <2>3. CASE s = x
    <3>1. Preceding(ls, s) = {0}
      <4>1. ASSUME NEW t \in EncRange
            PROVE  ls[t] # 0 /\ (ls[t] < ls[s] \/ (ls[t] = ls[s] /\ t < s)) <=> t = 0
        <5>1. ls[s] = 1 /\ t \in Nat /\ x \in Nat /\ x > 0
          BY <1>2, <1>5, <1>6, <2>3
        <5>2. CASE t = 0
          BY <1>6, <2>3, <5>1, <5>2
        <5>3. CASE t = x
          <6>1. ls[t] = 1
            BY <1>6, <5>3
          <6> QED BY <2>3, <5>1, <5>3, <6>1
        <5>4. CASE t # 0 /\ t # x
          BY <1>6, <5>4
        <5> QED BY <5>2, <5>3, <5>4
      <4> QED BY <1>2, <4>1 DEF Preceding
    <3>2. cs[s] = 1 /\ w[s] = p
      BY <1>5, <1>6, <1>9, <2>3
    <3>3. Total(w, {0}) = w[0]
      BY <1>9, <1>10, TotalOne
    <3> QED BY <1>9, <1>10, <3>1, <3>2, <3>3
  <2> QED BY <2>1, <2>2, <2>3
<1>13. \A s \in EncRange : f[s] > 0 => ls[s] > 0
  BY <1>3, <1>5, <1>6
<1>14. Canonical(ls, cs, f, max)
  BY <1>7, <1>11, <1>12, <1>13 DEF Canonical, w
<1> QED BY <1>14 DEF ls, cs

EncInv ==
  /\ freqs \in EncFreqs
  /\ maxLen \in Nat
  /\ maxLen # 0 => Canonical(lens, codes, freqs, maxLen)

\* Before the call nothing is claimed.
LEMMA EncInvStarts == EncInit => EncInv
<1> SUFFICES ASSUME EncInit PROVE EncInv
  OBVIOUS
<1>1. Freqs \subseteq Nat
  BY EncodeAssumption
<1>2. freqs \in EncFreqs
  BY <1>1 DEF EncInit, EncFreqs
<1> QED BY <1>2 DEF EncInit, EncInv

\* With two symbols or more the codes come from the tree.
LEMMA EncInvCall ==
  ASSUME freqs \in EncFreqs, NEW max \in MaxLens, Huffman_Generate(freqs, max)
  PROVE  maxLen' = max /\ Canonical(lens', codes', freqs, max)
<1> DEFINE f == freqs
<1>1. maxLen' = max
  BY DEF Huffman_Generate
<1>2. CASE Num(f) < 2
  <2>1. lens' = LonelyLens(f) /\ codes' = LonelyCodes(f)
    BY <1>2 DEF Huffman_Generate, Num, LonelyLens, LonelyCodes
  <2>2. \A g \in EncFreqs : Num(g) < 2 => Canonical(LonelyLens(g), LonelyCodes(g), g, max)
    BY LonelyRight
  <2>3. Canonical(LonelyLens(f), LonelyCodes(f), f, max)
    BY <1>2, <2>2
  <2> QED BY <1>1, <2>1, <2>3
<1>3. CASE ~(Num(f) < 2)
  <2>1. lens' = LensOf(f, max) /\ codes' = CodesOf(f, max, LensOf(f, max))
    BY <1>3 DEF Huffman_Generate, Num
  <2>2. \A g \in EncFreqs : Num(g) >= 2 =>
          Canonical(LensOf(g, max), CodesOf(g, max, LensOf(g, max)), g, max)
    BY CodesRight
  <2>3. Num(f) \in Nat
    BY OccurringLemma
  <2>4. Num(f) >= 2
    BY <1>3, <2>3
  <2>5. Canonical(LensOf(f, max), CodesOf(f, max, LensOf(f, max)), f, max)
    BY <2>2, <2>4
  <2> QED BY <1>1, <2>1, <2>5
<1> QED BY <1>2, <1>3

\* There is one call.
LEMMA EncInvStep == EncInv /\ [EncNext]_encVars => EncInv'
<1> SUFFICES ASSUME EncInv, [EncNext]_encVars PROVE EncInv'
  OBVIOUS
<1>1. CASE EncNext
  <2>1. PICK max \in MaxLens : Huffman_Generate(freqs, max)
    BY <1>1 DEF EncNext
  <2>2. freqs' = freqs /\ freqs \in EncFreqs
    BY <1>1 DEF EncNext, EncInv
  <2>3. maxLen' = max /\ Canonical(lens', codes', freqs, max)
    BY <2>1, <2>2, EncInvCall
  <2>4. max \in Nat
    BY MaxPositive
  <2>5. Canonical(lens', codes', freqs', maxLen')
    BY <2>2, <2>3
  <2> QED BY <2>2, <2>3, <2>4, <2>5 DEF EncInv
<1>2. CASE UNCHANGED encVars
  BY <1>2 DEF EncInv, encVars, Canonical, Part, Preceding
<1> QED BY <1>1, <1>2

\* What Huffman_Generate() has left when it was called is a canonical code.
THEOREM EncInvariant == HuffmanSpec => []EncInv
<1>1. HuffmanInit => EncInv
  BY EncInvStarts DEF HuffmanInit
<1>2. EncInv /\ [HuffmanNext]_huffmanVars => EncInv'
  <2>1. [HuffmanNext]_huffmanVars => [EncNext]_encVars
    BY DEF HuffmanNext, Decoder, Encoder, huffmanVars, encVars
  <2> QED BY <2>1, EncInvStep
<1> QED BY <1>1, <1>2, PTL DEF HuffmanSpec

\* Composing it with the encoder leaves the decoder correct.
THEOREM HuffmanDecodes == HuffmanSpec => [](DecodesCanonical /\ RefusesOversubscribed)
<1>1. HuffmanInit => DInv
  BY DInvStarts DEF HuffmanInit
<1>2. DInv /\ [HuffmanNext]_huffmanVars => DInv'
  <2>1. [HuffmanNext]_huffmanVars => [Next]_vars
    BY DEF HuffmanNext, Decoder, Encoder, huffmanVars, vars, tables
  <2> QED BY <2>1, DInvStep
<1> QED BY <1>1, <1>2, DecodesInv, RefusesInv, PTL DEF HuffmanSpec

\* A sum of the property, and its steps.
ShareSum(S) == MapThenSumSet(LAMBDA t : CodeShare(lens[t]), S)
ShareSteps(g, S) ==
  g = [s \in SUBSET S |->
         IF s = {} THEN 0
         ELSE CodeShare(lens[CHOOSE x \in s : TRUE]) + g[s \ {CHOOSE x \in s : TRUE}]]

LEMMA ShareSumIs ==
  ASSUME maxLen \in Nat, lens \in [EncRange -> 0 .. maxLen], NEW S \in SUBSET EncRange
  PROVE  ShareSum(S) = Total(Part(lens, maxLen), S)
<1> DEFINE w == Part(lens, maxLen)
           g == CHOOSE h : ShareSteps(h, S)
           c(s) == CHOOSE x \in s : TRUE
<1>1. ShareSum(S) = g[S]
  BY DEF ShareSum, MapThenSumSet, MapThenFoldSet, ShareSteps
<1>2. \A s \in EncRange : w[s] = CodeShare(lens[s])
  BY DEF Part, CodeShare
<1>3. IsFiniteSet(S) /\ \A s \in S : w[s] \in Nat
  BY PartLemma
<1> HIDE DEF w
<1>4. \A h : ShareSteps(h, S) <=> SumsOf(h, w, S)
  <2>1. SUFFICES ASSUME NEW h PROVE ShareSteps(h, S) <=> SumsOf(h, w, S)
    OBVIOUS
  <2> DEFINE A == [s \in SUBSET S |-> IF s = {} THEN 0
                                      ELSE CodeShare(lens[c(s)]) + h[s \ {c(s)}]]
             B == [s \in SUBSET S |-> IF s = {} THEN 0 ELSE w[c(s)] + h[s \ {c(s)}]]
  <2>2. \A s \in SUBSET S : s # {} => CodeShare(lens[c(s)]) = w[c(s)]
    <3>1. \A s \in SUBSET S : s # {} => c(s) \in EncRange
      OBVIOUS
    <3> HIDE DEF c
    <3> QED BY <1>2, <3>1
  <2>3. A = B
    <3> HIDE DEF c
    <3> QED BY <2>2
  <2>4. (ShareSteps(h, S) <=> h = A) /\ (SumsOf(h, w, S) <=> h = B)
    BY DEF ShareSteps, SumsOf
  <2> HIDE DEF A, B
  <2> QED BY <2>3, <2>4
<1>5. /\ \E h : SumsOf(h, w, S)
      /\ \A h : SumsOf(h, w, S) => h[S] = Total(w, S)
  BY <1>3, SumsOfExist
<1>6. ShareSteps(g, S)
  BY <1>4, <1>5, Zenon
<1> HIDE DEF g
<1>7. g[S] = Total(w, S)
  BY <1>4, <1>5, <1>6
<1> QED BY <1>1, <1>7 DEF w

\* The sums of the property are those of the invariant.
LEMMA CanonicalInv == EncInv => CodesAreCanonical
<1> SUFFICES ASSUME EncInv, maxLen # 0 PROVE CodesAreCanonical
  BY DEF CodesAreCanonical
<1>1. maxLen \in Nat /\ Canonical(lens, codes, freqs, maxLen)
  BY DEF EncInv
<1>2. lens \in [EncRange -> 0 .. maxLen]
  BY <1>1 DEF Canonical
<1>3. ShareSum(EncRange) = 2 ^ maxLen
  <2>1. ShareSum(EncRange) = Total(Part(lens, maxLen), EncRange)
    BY <1>1, <1>2, ShareSumIs
  <2> QED BY <1>1, <2>1 DEF Canonical
<1>4. ASSUME NEW s \in EncRange, lens[s] > 0
      PROVE  codes[s] * CodeShare(lens[s]) = ShareSum(Before(s))
  <2>1. Before(s) = Preceding(lens, s) /\ Before(s) \in SUBSET EncRange
    BY DEF Before, Preceding
  <2>2. ShareSum(Before(s)) = Total(Part(lens, maxLen), Preceding(lens, s))
    BY <1>1, <1>2, <2>1, ShareSumIs
  <2>3. CodeShare(lens[s]) = Part(lens, maxLen)[s]
    BY DEF CodeShare, Part
  <2> QED BY <1>1, <1>4, <2>2, <2>3 DEF Canonical
<1>5. \A s \in EncRange : lens[s] \in 0 .. maxLen /\ (freqs[s] > 0 => lens[s] > 0)
  BY <1>1 DEF Canonical
<1> QED BY <1>3, <1>4, <1>5 DEF CodesAreCanonical, ShareSum

\* Huffman_Generate() makes lengths within the limit for all symbols that occur, which leave
\* nothing over, and the codes that belong to them.
THEOREM EncodesCanonical == HuffmanSpec => []CodesAreCanonical
BY EncInvariant, CanonicalInv, PTL

-----------------------------------------------------------------------------
(* An encoder and a decoder *)

\* Numbers that are all k times as great have a sum k times as great.
LEMMA TotalTimes ==
  ASSUME NEW f, NEW g, NEW S, IsFiniteSet(S), NEW k \in Nat,
         \A s \in S : f[s] \in Nat, \A s \in S : g[s] = f[s] * k
  PROVE  Total(g, S) = Total(f, S) * k /\ Total(f, S) \in Nat
<1> DEFINE T == {n \in Nat : \E s \in SUBSET S :
                   Cardinality(s) = n /\ Total(g, s) # Total(f, s) * k}
<1>1. \A s \in SUBSET S : /\ IsFiniteSet(s) /\ Cardinality(s) \in Nat
                          /\ Total(f, s) \in Nat /\ Total(g, s) \in Nat
  <2>1. SUFFICES ASSUME NEW s \in SUBSET S
                 PROVE  /\ IsFiniteSet(s) /\ Cardinality(s) \in Nat
                        /\ Total(f, s) \in Nat /\ Total(g, s) \in Nat
    OBVIOUS
  <2>2. IsFiniteSet(s) /\ Cardinality(s) \in Nat
    BY FS_Subset, FS_CardinalityType
  <2>3. \A x \in s : f[x] \in Nat
    OBVIOUS
  <2>4. \A x \in s : g[x] \in Nat
    OBVIOUS
  <2> QED BY <2>2, <2>3, <2>4, PileFinite
<1>2. ASSUME NEW n \in T, \A j \in T : n <= j PROVE FALSE
  <2>1. PICK s \in SUBSET S : Cardinality(s) = n /\ Total(g, s) # Total(f, s) * k
    BY <1>2
  <2>2. s # {}
    <3>1. SUFFICES ASSUME s = {} PROVE FALSE
      OBVIOUS
    <3>2. Total(f, s) = 0 /\ Total(g, s) = 0
      BY <3>1, TotalEmpty
    <3> QED BY <2>1, <3>2
  <2>3. PICK x \in s : TRUE
    BY <2>2
  <2> DEFINE r == s \ {x}
  <2>4. s = r \cup {x} /\ x \notin r /\ r \in SUBSET S /\ x \in S
    BY <2>3
  <2>5. Cardinality(r) = n - 1
    <3>1. IsFiniteSet(s)
      BY <1>1
    <3>2. Cardinality(s \ {x}) = IF x \in s THEN Cardinality(s) - 1 ELSE Cardinality(s)
      BY <3>1, FS_RemoveElement
    <3> QED BY <2>1, <2>3, <3>2
  <2> HIDE DEF r
  <2>6. IsFiniteSet(r) /\ Cardinality(r) \in Nat /\ Total(f, r) \in Nat /\ Total(g, r) \in Nat
    BY <1>1, <2>4
  <2>7. Total(f, r \cup {x}) = Total(f, r) + f[x]
    <3>1. f[x] \in Nat /\ \A y \in r : f[y] \in Nat
      BY <2>4
    <3> QED BY <2>4, <2>6, <3>1, TotalAdd
  <2>8. Total(g, r \cup {x}) = Total(g, r) + g[x]
    <3>1. g[x] \in Nat /\ \A y \in r : g[y] \in Nat
      BY <2>4
    <3> QED BY <2>4, <2>6, <3>1, TotalAdd
  <2>9. Total(g, r) # Total(f, r) * k
    <3>1. SUFFICES ASSUME Total(g, r) = Total(f, r) * k PROVE FALSE
      OBVIOUS
    <3> DEFINE a == Total(f, r)
               b == f[x]
    <3>2. a \in Nat /\ b \in Nat /\ g[x] = b * k
      BY <2>4, <2>6
    <3>3. Total(f, s) = a + b /\ Total(g, s) = a * k + b * k
      BY <2>4, <2>7, <2>8, <3>1, <3>2
    <3> HIDE DEF a, b
    <3>4. (a + b) * k = a * k + b * k
      BY <3>2
    <3> QED BY <2>1, <3>3, <3>4
  <2>10. n - 1 \in T
    BY <2>4, <2>5, <2>6, <2>9
  <2>11. n <= n - 1 /\ n \in Nat
    BY <1>2, <2>10
  <2> QED BY <2>11
<1>3. T \subseteq Nat
  OBVIOUS
<1>4. T = {}
  <2> HIDE DEF T
  <2> QED BY <1>2, <1>3, LeastNumber
<1>5. S \in SUBSET S
  OBVIOUS
<1> QED BY <1>1, <1>4, <1>5

\* A decoder that was given the lengths an encoder has made takes them, and of what
\* begins with a code of the encoder it decodes the symbol, consuming that code.
DecodesWhatIsEncoded ==
  maxLen # 0 /\ maxLen <= MAX_BITS /\ codeLengths = lens =>
    /\ state # "corrupted"
    /\ state = "ready" => \A s \in EncRange : lens[s] > 0 =>
         \A rest \in 0 .. 2 ^ (MAX_BITS - lens[s]) - 1 :
           DecodeSymbol(codes[s] * 2 ^ (MAX_BITS - lens[s]) + rest)
             = [numBits |-> lens[s], symbol |-> s]

\* The decoder's sums and the encoder's.
LEMMA SameSums ==
  ASSUME DInv, EncInv, maxLen # 0, maxLen <= MAX_BITS, codeLengths = lens,
         NEW k, k = 2 ^ (MAX_BITS - maxLen)
  PROVE  /\ Symbols = EncRange /\ codeLengths \in Fitting /\ k \in Nat
         /\ 2 ^ MAX_BITS = 2 ^ maxLen * k /\ 2 ^ maxLen \in Nat
         /\ \A s \in Coded : /\ lens[s] \in 1 .. maxLen
                             /\ Covers(codeLengths, s) = 2 ^ (MAX_BITS - lens[s])
                             /\ Part(lens, maxLen)[s] \in Nat
                             /\ Covers(codeLengths, s) = Part(lens, maxLen)[s] * k
         /\ \A S \in SUBSET Coded :
              /\ Area(codeLengths, S) = Total(Part(lens, maxLen), S) * k
              /\ Total(Part(lens, maxLen), S) \in Nat
<1> DEFINE w == Part(lens, maxLen)
           v == [s \in Symbols |-> Covers(codeLengths, s)]
           C == Coded
<1>1. maxLen \in Nat /\ lens \in [EncRange -> 0 .. maxLen]
  BY DEF EncInv, Canonical
<1>2. codeLengths \in [Symbols -> Nat]
  BY DEF DInv
<1>3. Symbols = EncRange
  BY <1>1, <1>2
<1>4. MAX_BITS \in Nat /\ Symbols \subseteq Nat /\ IsFiniteSet(Symbols) /\ 2 ^ MAX_BITS \in Nat
  BY Sizes
<1>5. MAX_BITS - maxLen \in Nat /\ k \in Nat /\ 2 ^ maxLen \in Nat
  <2>1. MAX_BITS - maxLen \in Nat
    BY <1>1, <1>4
  <2> QED BY <1>1, <2>1, PowerDoubles
<1>6. codeLengths \in Fitting
  <2>1. \A s \in EncRange : lens[s] \in 0 .. MAX_BITS
    BY <1>1, <1>4
  <2> QED BY <1>2, <1>3, <2>1 DEF Fitting
<1>7. \A l \in 0 .. maxLen : 2 ^ (MAX_BITS - l) = 2 ^ (maxLen - l) * k
  <2>1. SUFFICES ASSUME NEW l \in 0 .. maxLen
                 PROVE  2 ^ (MAX_BITS - l) = 2 ^ (maxLen - l) * k
    OBVIOUS
  <2> DEFINE m == MAX_BITS - maxLen
             n == maxLen - l
  <2>2. m \in Nat /\ n \in Nat /\ m + n = MAX_BITS - l
    BY <1>1, <1>4, <1>5
  <2> HIDE DEF m, n
  <2>3. 2 ^ (m + n) = 2 ^ n * 2 ^ m
    BY <2>2, PowerProduct
  <2> QED BY <2>2, <2>3 DEF m, n
<1>8. 2 ^ MAX_BITS = 2 ^ maxLen * k
  <2>1. 0 \in 0 .. maxLen /\ MAX_BITS - 0 = MAX_BITS /\ maxLen - 0 = maxLen
    BY <1>1, <1>4
  <2> QED BY <1>7, <2>1
<1>9. \A s \in Symbols : v[s] \in Nat /\ v[s] <= 2 ^ MAX_BITS
  BY <1>6, CoversLemma
<1>10. \A s \in C : /\ s \in Symbols /\ lens[s] \in 1 .. maxLen
                    /\ v[s] = 2 ^ (MAX_BITS - lens[s])
                    /\ w[s] \in Nat /\ v[s] = w[s] * k
  <2>1. SUFFICES ASSUME NEW s \in C
                 PROVE  /\ s \in Symbols /\ lens[s] \in 1 .. maxLen
                        /\ v[s] = 2 ^ (MAX_BITS - lens[s])
                        /\ w[s] \in Nat /\ v[s] = w[s] * k
    OBVIOUS
  <2>2. s \in Symbols /\ lens[s] # 0
    BY DEF Coded, HasCode
  <2>3. lens[s] \in 1 .. maxLen /\ lens[s] \in 0 .. maxLen
    BY <1>1, <1>3, <2>2
  <2>4. v[s] = 2 ^ (MAX_BITS - lens[s])
    BY <2>2 DEF Covers
  <2>5. w[s] \in Nat /\ w[s] = 2 ^ (maxLen - lens[s])
    BY <1>1, <1>3, <2>2, PartLemma
  <2> HIDE DEF v, w
  <2> QED BY <1>7, <2>2, <2>3, <2>4, <2>5
<1>11. ASSUME NEW S \in SUBSET C
       PROVE  Area(codeLengths, S) = Total(w, S) * k /\ Total(w, S) \in Nat
  <2>1. S \in SUBSET Symbols
    BY DEF Coded
  <2>2. Cells(codeLengths, S) = Pile(v, S)
    <3>1. \A s \in S : s \in Symbols /\ v[s] = Covers(codeLengths, s)
      BY <2>1
    <3>2. \A s \in S : \A n \in Nat : n < v[s] => n \in Values
      <4>1. SUFFICES ASSUME NEW s \in S, NEW n \in Nat, n < v[s] PROVE n \in Values
        OBVIOUS
      <4> DEFINE top == 2 ^ MAX_BITS
      <4>2. v[s] \in Nat /\ v[s] <= top /\ top \in Nat
        BY <1>4, <1>9, <3>1
      <4> HIDE DEF top, v
      <4>3. n < top
        BY <4>1, <4>2
      <4>4. n \in 0 .. top - 1
        BY <4>2, <4>3
      <4> QED BY <4>4 DEF Values, top
    <3>3. Values \subseteq Nat
      BY DEF Values
    <3> HIDE DEF v
    <3>4. ASSUME NEW p
          PROVE  p \in S \X Values /\ p[2] < Covers(codeLengths, p[1])
                   <=> p \in S \X Nat /\ p[2] < v[p[1]]
      BY <3>1, <3>2, <3>3
    <3> QED BY <3>4 DEF Cells, Pile
  <2>3. IsFiniteSet(S) /\ \A s \in S : w[s] \in Nat /\ v[s] = w[s] * k
    <3>1. \A s \in S : w[s] \in Nat /\ v[s] = w[s] * k
      BY <1>10
    <3> QED BY <1>4, <2>1, <3>1, FS_Subset
  <2> HIDE DEF v, w, C
  <2>4. Total(v, S) = Total(w, S) * k /\ Total(w, S) \in Nat
    <3>1. k \in Nat
      BY <1>5
    <3>2. IsFiniteSet(S)
      BY <2>3
    <3>3. \A s \in S : w[s] \in Nat
      BY <2>3
    <3>4. \A s \in S : v[s] = w[s] * k
      BY <2>3
    <3> QED BY <3>1, <3>2, <3>3, <3>4, TotalTimes
  <2> QED BY <2>2, <2>4 DEF Area, Total
<1>12. \A s \in C : v[s] = Covers(codeLengths, s)
  BY DEF Coded
<1> HIDE DEF v
<1> QED BY <1>3, <1>5, <1>6, <1>8, <1>10, <1>11, <1>12

\* Both keep to the same canonical code.
LEMMA DecodesInvariantly == DInv /\ EncInv => DecodesWhatIsEncoded
<1> SUFFICES ASSUME DInv, EncInv, maxLen # 0, maxLen <= MAX_BITS, codeLengths = lens
             PROVE  /\ state # "corrupted"
                    /\ state = "ready" => \A s \in EncRange : lens[s] > 0 =>
                         \A rest \in 0 .. 2 ^ (MAX_BITS - lens[s]) - 1 :
                           DecodeSymbol(codes[s] * 2 ^ (MAX_BITS - lens[s]) + rest)
                             = [numBits |-> lens[s], symbol |-> s]
  BY DEF DecodesWhatIsEncoded
<1> DEFINE k == 2 ^ (MAX_BITS - maxLen)
           w == Part(lens, maxLen)
<1>1. /\ Symbols = EncRange /\ codeLengths \in Fitting /\ k \in Nat
      /\ 2 ^ MAX_BITS = 2 ^ maxLen * k /\ 2 ^ maxLen \in Nat
      /\ \A s \in Coded : /\ lens[s] \in 1 .. maxLen
                          /\ Covers(codeLengths, s) = 2 ^ (MAX_BITS - lens[s])
                          /\ w[s] \in Nat
                          /\ Covers(codeLengths, s) = w[s] * k
      /\ \A S \in SUBSET Coded :
           Area(codeLengths, S) = Total(w, S) * k /\ Total(w, S) \in Nat
  BY SameSums
<1>2. /\ maxLen \in Nat /\ lens \in [EncRange -> 0 .. maxLen]
      /\ Total(w, EncRange) = 2 ^ maxLen
      /\ \A s \in EncRange : lens[s] > 0 =>
           codes[s] \in Nat /\ codes[s] * w[s] = Total(w, Preceding(lens, s))
  BY DEF EncInv, Canonical
<1>3. \A s \in EncRange : s \in Coded <=> lens[s] > 0
  BY <1>1, <1>2 DEF Coded, HasCode
<1>4. \A s \in EncRange : ~(lens[s] > 0) => w[s] = 0
  BY <1>2, PartLemma
<1>5. Coded \in SUBSET EncRange
  BY <1>1 DEF Coded
<1>6. Area(codeLengths, Coded) = 2 ^ MAX_BITS
  <2> DEFINE C == Coded
             R == EncRange \ C
  <2>1. EncRange = C \cup R /\ C \cap R = {}
    BY <1>5
  <2>2. \A s \in R : w[s] = 0
    BY <1>3, <1>4
  <2>3. IsFiniteSet(C) /\ IsFiniteSet(R)
    <3>1. C \in SUBSET EncRange /\ R \in SUBSET EncRange
      BY <1>5
    <3> QED BY <3>1, EncSizes, FS_Subset
  <2>4. Area(codeLengths, C) = Total(w, C) * k /\ Total(w, C) \in Nat
    <3>1. C \in SUBSET Coded
      OBVIOUS
    <3> HIDE DEF w, k
    <3> QED BY <1>1, <3>1
  <2>5. \A s \in C : w[s] \in Nat
    BY <1>1
  <2> HIDE DEF C, R, w, k
  <2>6. Total(w, R) = Cardinality(R) * 0 /\ Cardinality(R) \in Nat
    <3>1. 0 \in Nat
      OBVIOUS
    <3> QED BY <2>2, <2>3, <3>1, TotalConst, FS_CardinalityType
  <2>7. Total(w, C \cup R) = Total(w, C) + Total(w, R)
    <3>1. \A s \in C \cup R : w[s] \in Nat
      BY <2>2, <2>5
    <3> QED BY <2>1, <2>3, <3>1, TotalUnion
  <2>8. Total(w, R) = 0
    BY <2>6
  <2>9. Total(w, C) = 2 ^ maxLen
    BY <1>2, <2>1, <2>4, <2>7, <2>8
  <2> QED BY <1>1, <2>4, <2>9 DEF C
<1>7. state # "corrupted"
  <2>1. SUFFICES ASSUME state = "corrupted" PROVE FALSE
    OBVIOUS
  <2>2. Refused(codeLengths)
    BY <2>1, SetOrRefused
  <2>3. TooLong(codeLengths) = {}
    <3>1. \A s \in Symbols : codeLengths[s] \in 0 .. MAX_BITS
      BY <1>1, CoversLemma
    <3>2. \A s \in Symbols : ~(codeLengths[s] > MAX_BITS)
      BY <3>1, Sizes
    <3> QED BY <3>2 DEF TooLong
  <2>4. Area(codeLengths, Coded) > 2 ^ MAX_BITS
    BY <1>1, <2>2, <2>3, OverflowsWhen DEF Refused
  <2> QED BY <1>6, <2>4, Sizes
<1>8. ASSUME state = "ready", NEW s \in EncRange, lens[s] > 0,
             NEW rest \in 0 .. 2 ^ (MAX_BITS - lens[s]) - 1
      PROVE  DecodeSymbol(codes[s] * 2 ^ (MAX_BITS - lens[s]) + rest)
               = [numBits |-> lens[s], symbol |-> s]
  <2> DEFINE q == 2 ^ (MAX_BITS - lens[s])
             a == codes[s]
             value == a * q + rest
  <2>1. s \in Coded /\ s \in Symbols
    BY <1>1, <1>3, <1>8
  <2>2. Prec(s) \in SUBSET Coded /\ Prec(s) = Preceding(lens, s)
    <3>1. Prec(s) = Preceding(lens, s)
      BY <1>1 DEF Prec, Precedes, HasCode, Preceding
    <3> QED BY <1>1, <2>1, <3>1, Order
  <2>3. /\ FirstValue(s) = Area(codeLengths, Prec(s))
        /\ FirstValue(s) \in Nat
        /\ FirstValue(s) + Share(s) = Area(codeLengths, Prec(s) \cup {s})
    BY <1>1, <2>1, FirstValueLemma
  <2>4. Share(s) = q /\ q = w[s] * k /\ q \in Nat /\ w[s] \in Nat
    <3>1. Share(s) = q
      BY DEF Share
    <3>2. q = w[s] * k /\ w[s] \in Nat
      BY <1>1, <2>1
    <3>3. q \in Nat
      BY <1>1, <2>1, CoversLemma
    <3> QED BY <3>1, <3>2, <3>3
  <2>5. a \in Nat /\ a * w[s] = Total(w, Preceding(lens, s))
    BY <1>2, <1>8
  <2>6. FirstValue(s) = (a * w[s]) * k
    BY <1>1, <2>2, <2>3, <2>5
  <2>7. a * (w[s] * k) = (a * w[s]) * k
    <3> DEFINE b == w[s]
    <3>1. a \in Nat /\ b \in Nat /\ k \in Nat
      BY <1>1, <2>4, <2>5
    <3> HIDE DEF a, b, k
    <3>2. a * (b * k) = (a * b) * k
      BY <3>1
    <3> QED BY <3>2 DEF b
  <2>8. FirstValue(s) = a * q
    BY <2>4, <2>6, <2>7
  <2>9. FirstValue(s) + q <= 2 ^ MAX_BITS
    <3>1. Prec(s) \cup {s} \in SUBSET Coded /\ Coded \in SUBSET Symbols
      BY <1>1, <1>5, <2>1, <2>2
    <3>2. Area(codeLengths, Prec(s) \cup {s}) <= Area(codeLengths, Coded)
      BY <3>1, AreaMonotone
    <3> QED BY <1>6, <2>3, <2>4, <3>2
  <2>10. rest \in Nat /\ rest < q
    BY <2>4
  <2> DEFINE top == 2 ^ MAX_BITS
  <2>11. a * q \in Nat /\ a * q + q <= top /\ top \in Nat
    BY <2>3, <2>8, <2>9, Sizes
  <2> HIDE DEF q, a, top
  <2>12. value \in 0 .. top - 1 /\ a * q <= value /\ value < a * q + q
    <3> DEFINE m == a * q
    <3>1. m \in Nat /\ m + q <= top
      BY <2>11
    <3>2. value = m + rest
      OBVIOUS
    <3> HIDE DEF m, value
    <3>3. value \in 0 .. top - 1 /\ m <= value /\ value < m + q
      BY <2>4, <2>10, <2>11, <3>1, <3>2
    <3> QED BY <3>3 DEF m
  <2> HIDE DEF value
  <2>13. value \in Values
    BY <2>12 DEF Values, top
  <2>14. BeginsWith(value, s)
    <3>1. HasCode(s)
      BY <2>1 DEF Coded
    <3> QED BY <2>4, <2>8, <2>12, <3>1 DEF BeginsWith
  <2>15. DecodeSymbol(value) = [numBits |-> codeLengths[s], symbol |-> s]
    BY <1>8, <2>1, <2>13, <2>14, CodeDecoded
  <2> QED BY <2>15 DEF value, a, q
<1> QED BY <1>7, <1>8

\* Of an encoder and a decoder side by side, that share nothing: the decoder takes the
\* lengths the encoder has made for it, and decodes what it encodes.
THEOREM RoundTrip == Spec /\ EncSpec => []DecodesWhatIsEncoded
<1>1. EncInit => EncInv
  BY EncInvStarts
<1>2. EncInv /\ [EncNext]_encVars => EncInv'
  BY EncInvStep
<1>3. EncSpec => []EncInv
  BY <1>1, <1>2, PTL DEF EncSpec
<1> QED BY <1>3, DInvariant, DecodesInvariantly, PTL

=============================================================================
