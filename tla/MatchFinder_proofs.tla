-------------------------- MODULE MatchFinder_proofs --------------------------
(***************************************************************************)
(* Proofs about the match finder, for every kind, history, stream, size of *)
(* the block, limit of the position and length of a search: what is        *)
(* answered are matches.  The invariant says what each reference in the    *)
(* hash tables and the ring of trees or chains stands for; that the ring   *)
(* loses its oldest entries, the block is moved and the position brought   *)
(* down while a search relies on the bytes known to agree on either side   *)
(* is what it has to survive.                                              *)
(***************************************************************************)
EXTENDS MatchFinder, SequenceTheorems, WellFoundedInduction, TLAPS

-----------------------------------------------------------------------------
(* What a finder is *)

\* The size of the array of a setting.
ArraySize(s) == HashSizeSum(s.kind) + (IF IsBt(s) THEN 2 ELSE 1) * (s.historySize + 1)

\* No two settings have arrays of one size with hash tables of different sizes (section 4 of
\* the README has what happens when two have).
SumsDiffer ==
  \A s, t \in Settings : ArraySize(s) = ArraySize(t)
    => HashSizeSum(s.kind) = HashSizeSum(t.kind)

\* An encoder that keeps to one kind of match finder has only such settings.
LEMMA OneKind ==
  ASSUME \A s, t \in Settings : s.kind = t.kind
  PROVE  SumsDiffer
BY DEF SumsDiffer

\* What the device may hold.
Streams == [1 .. StreamLen -> {0, 1}]

\* Arrays of the struct: counted from 0, and of integers.
Arrays == UNION {[0 .. n -> Int] : n \in Nat}
\* The structs there may be.
Finders ==
  [kind : Kinds, historySize : Nat, cyclicBufferSize : Nat, keepSizeBefore : Nat,
   keepSizeAfter : Nat, blockSize : Nat, hashSizeSum : Nat, numSons : Nat, son : Nat,
   hash : Arrays, bufferBase : Arrays, buffer : Nat, pos : Nat, streamPos : Nat,
   posLimit : Nat, lenLimit : Nat, cyclicBufferPos : Nat, read : Nat,
   result : BOOLEAN, streamEndWasReached : BOOLEAN]

\* What Create() makes of a setting: the sizes, and where the references lie.
Shape(q) ==
  /\ \E s \in Settings : s.kind = q.kind /\ s.historySize = q.historySize
  /\ q.cyclicBufferSize = q.historySize + 1
  /\ q.keepSizeBefore = q.historySize + 1
  /\ q.keepSizeAfter = MatchMaxLen
  /\ q.blockSize = q.historySize + 1 + MatchMaxLen + Reserve
  /\ q.hashSizeSum = HashSizeSum(q.kind)
  /\ q.numSons = IF IsBt(q) THEN 2 * q.cyclicBufferSize ELSE q.cyclicBufferSize
  /\ q.son = q.hashSizeSum
  /\ DOMAIN q.hash = 0 .. q.hashSizeSum + q.numSons - 1
  /\ \A c \in DOMAIN q.hash : q.hash[c] \in Nat
  /\ DOMAIN q.bufferBase = 0 .. q.blockSize - 1

\* The block holds the bytes of the stream around the position i: all of the history that
\* there is, and all that were read ahead.
Window(q, d, i) ==
  /\ q.pos <= q.streamPos
  /\ q.read = i + Avail(q) /\ q.read <= StreamLen
  /\ q.buffer + Avail(q) <= q.blockSize
  /\ q.buffer >= Min2(i, q.cyclicBufferSize)
  /\ \A j \in Int : -Min2(i, q.cyclicBufferSize) <= j /\ j < Avail(q) =>
        q.bufferBase[q.buffer + j] = d[i + j + 1]

\* The limits set before a step: the position stays in its range, the ring wraps in time, and
\* more than one match is ahead unless the stream ended or could not be read.
Limits(q) ==
  /\ q.cyclicBufferSize <= q.pos /\ q.pos < MaxVal
  /\ q.cyclicBufferPos < q.cyclicBufferSize
  /\ q.lenLimit = Min2(Avail(q), MatchMaxLen)
  /\ Avail(q) > 0 =>
       /\ q.pos < q.posLimit /\ q.posLimit <= MaxVal
       /\ q.posLimit - q.pos <= q.cyclicBufferSize - q.cyclicBufferPos
       /\ q.posLimit - q.pos <= Max2(1, Avail(q) - MatchMaxLen)
  /\ q.streamEndWasReached => q.read = StreamLen
  /\ q.result /\ ~q.streamEndWasReached => Avail(q) > MatchMaxLen

\* A reference inside the history, and the index it stands for.
Live(q, r) == q.pos - r < q.cyclicBufferSize
Index(q, i, r) == i - (q.pos - r)

\* A reference is dead, or stands for an entry of E.
RefOK(q, i, E, r) == r \in Nat /\ r <= q.pos /\ (Live(q, r) => Index(q, i, r) \in E)

HeadsOK(q, i, E) == \A n \in 0 .. q.hashSizeSum - 1 : RefOK(q, i, E, q.hash[n])

\* A reference stands for the nearest entry of X in the history.
Nearest(q, i, r, X) ==
  /\ Live(q, r) => Index(q, i, r) \in X
  /\ \A x \in X : i - x < q.cyclicBufferSize => q.pos - r <= i - x

Hash2At(d, x) == Xor(d[x + 1], d[x + 2])
Hash3At(d, x) == Hash2At(d, x) + 2 * d[x + 3]

\* The kinds with tables of two bytes, and of three.
Has2(q) == q.kind \in {"Bt3", "Bt4", "Hc4"}
Has3(q) == q.kind \in {"Bt4", "Hc4"}

\* Each cell of a short table stands for the nearest entry of its hash.
ShortOK(q, d, i, E) ==
  /\ Has2(q) => \A h \in 0 .. 1 : Nearest(q, i, q.hash[h], {x \in E : Hash2At(d, x) = h})
  /\ Has3(q) => \A h \in 0 .. 3 :
       Nearest(q, i, q.hash[kFix3HashSize + h], {x \in E : Hash3At(d, x) = h})

\* The links of a chain lead to entries, and ever farther back.
ChainOK(q, h, i, E) ==
  \A x \in E : i - x < q.cyclicBufferSize =>
    LET r == h[q.son + Slot(q, i - x)]
    IN  RefOK(q, i, E, r) /\ q.pos - r > i - x

\* The bytes at x do not come behind those at y, as far as K bytes tell.
Le(d, x, y, K) ==
  \A l \in 0 .. K - 1 :
    (\A k \in 0 .. l - 1 : d[x + k + 1] = d[y + k + 1]) => d[x + l + 1] <= d[y + l + 1]

\* The two cells of an entry in the ring of trees.
Sides == {0, 1}
Cell(q, i, x, b) == q.son + 2 * Slot(q, i - x) + b
Below(G, x) == {x} \cup G[<<x, 0>>] \cup G[<<x, 1>>]

\* A reference is dead or stands for an entry that, with all below it, is in X.
Leads(q, i, E, G, r, X) ==
  RefOK(q, i, E, r) /\ (Live(q, r) => Below(G, Index(q, i, r)) \subseteq X)

CellOK(q, h, i, E, G, x, b) == Leads(q, i, E, G, h[Cell(q, i, x, b)], G[<<x, b>>])

\* What is below the side 0 of an entry is older and smaller, below the side 1 older and
\* larger.  G names what is below a cell.
Ordered(d, E, G, K) ==
  \A x \in E : /\ \A y \in G[<<x, 0>>] : y < x /\ Le(d, y, x, K)
               /\ \A y \in G[<<x, 1>>] : y < x /\ Le(d, x, y, K)

\* All cells of the entries in the ring lead to what is below them.
TreesOK(q, h, d, i, E, G) ==
  /\ Ordered(d, E, G, q.lenLimit)
  /\ \A x \in E : i - x < q.cyclicBufferSize =>
       CellOK(q, h, i, E, G, x, 0) /\ CellOK(q, h, i, E, G, x, 1)

RingOK(q, d, i, E) ==
  IF IsBt(q) THEN \E G : TreesOK(q, q.hash, d, i, E, G) ELSE ChainOK(q, q.hash, i, E)

\* A set of naturals that is not empty has a least.
LEMMA LeastNumber ==
  ASSUME NEW T, T \subseteq Nat, T # {}
  PROVE  \E n \in T : \A k \in T : n <= k
<1> DEFINE R == {z \in Nat \X Nat : z[1] < z[2]}
<1>1. IsWellFoundedOn(R, Nat)
  BY NatLessThanWellFounded DEF OpToRel
<1>2. \E x \in T : \A y \in T : ~(<<y, x>> \in R)
  BY <1>1, WFMin
<1>3. \A k, n \in Nat : ~(<<k, n>> \in R) => n <= k
  OBVIOUS
<1> HIDE DEF R
<1> QED BY <1>2, <1>3

\* The least is what Min() gives.
LEMMA MinIsLeast ==
  ASSUME NEW T, T \subseteq Nat, T # {}
  PROVE  Min(T) \in T /\ \A k \in T : Min(T) <= k
BY LeastNumber DEF Min

-----------------------------------------------------------------------------
(* The order of the positions by their bytes *)

\* K bytes at x and at y are in the stream.
Room(x, y, K) == x \in Nat /\ y \in Nat /\ K \in Nat /\ x + K <= StreamLen /\ y + K <= StreamLen

\* The bytes at x and y agree below l.
Equal(d, x, y, l) == \A k \in 0 .. l - 1 : d[x + k + 1] = d[y + k + 1]

\* Of those that differ there is a first.
LEMMA FirstDifference ==
  ASSUME NEW d, NEW x, NEW y, NEW l \in Nat, ~Equal(d, x, y, l)
  PROVE  \E m \in 0 .. l - 1 : d[x + m + 1] # d[y + m + 1] /\ Equal(d, x, y, m)
<1> DEFINE T == {m \in 0 .. l - 1 : d[x + m + 1] # d[y + m + 1]}
<1>1. T \subseteq Nat /\ T # {}
  BY DEF Equal
<1>2. PICK m \in T : \A k \in T : m <= k
  <2> HIDE DEF T
  <2> QED BY <1>1, LeastNumber
<1>3. \A k \in 0 .. m - 1 : k \notin T /\ k \in 0 .. l - 1
  BY <1>2
<1>4. m \in 0 .. l - 1 /\ d[x + m + 1] # d[y + m + 1]
  BY <1>2
<1>5. Equal(d, x, y, m)
  BY <1>3 DEF Equal
<1> QED BY <1>4, <1>5

\* The bytes of a stream are bits.
LEMMA StreamBytes ==
  ASSUME NEW d \in Streams, NEW x \in Nat, NEW k \in Nat, x + k < StreamLen
  PROVE  d[x + k + 1] \in {0, 1}
<1>1. x + k + 1 \in 1 .. StreamLen
  BY SettingsAssumption
<1> QED BY <1>1 DEF Streams

\* Both ways means the same bytes.
LEMMA LeBoth ==
  ASSUME NEW d \in Streams, NEW x, NEW y, NEW K, Room(x, y, K), Le(d, x, y, K), Le(d, y, x, K)
  PROVE  Equal(d, x, y, K)
<1> SUFFICES ASSUME ~Equal(d, x, y, K) PROVE FALSE
  OBVIOUS
<1>1. x \in Nat /\ y \in Nat /\ K \in Nat /\ StreamLen \in Nat
  BY SettingsAssumption DEF Room
<1>2. PICK m \in 0 .. K - 1 : d[x + m + 1] # d[y + m + 1] /\ Equal(d, x, y, m)
  BY <1>1, FirstDifference
<1>3. d[x + m + 1] <= d[y + m + 1] /\ d[y + m + 1] <= d[x + m + 1]
  BY <1>2 DEF Le, Equal
<1>4. m \in Nat /\ x + m < StreamLen /\ y + m < StreamLen
  BY <1>1 DEF Room
<1>5. d[x + m + 1] \in {0, 1} /\ d[y + m + 1] \in {0, 1}
  BY <1>1, <1>4, StreamBytes
<1> HIDE DEF Le
<1> QED BY <1>2, <1>3, <1>5

\* The order is one.
LEMMA LeTransitive ==
  ASSUME NEW d \in Streams, NEW x, NEW y, NEW z, NEW K, Room(x, y, K), Room(y, z, K),
         Le(d, x, y, K), Le(d, y, z, K)
  PROVE  Le(d, x, z, K)
<1>1. x \in Nat /\ y \in Nat /\ z \in Nat /\ K \in Nat /\ StreamLen \in Nat
  BY SettingsAssumption DEF Room
<1> SUFFICES ASSUME NEW l \in 0 .. K - 1, \A k \in 0 .. l - 1 : d[x + k + 1] = d[z + k + 1]
             PROVE  d[x + l + 1] <= d[z + l + 1]
  BY DEF Le
<1>2. \A m \in 0 .. l : d[x + m + 1] \in {0, 1} /\ d[y + m + 1] \in {0, 1}
        /\ d[z + m + 1] \in {0, 1}
  <2> TAKE m \in 0 .. l
  <2>1. m \in Nat /\ x + m < StreamLen /\ y + m < StreamLen /\ z + m < StreamLen
    BY <1>1 DEF Room
  <2> QED BY <1>1, <2>1, StreamBytes
<1>3. \A k \in 0 .. l - 1 : d[x + k + 1] = d[y + k + 1]
  <2> SUFFICES ASSUME ~Equal(d, x, y, l) PROVE FALSE
    BY DEF Equal
  <2>0. PICK m \in 0 .. l - 1 : d[x + m + 1] # d[y + m + 1] /\ Equal(d, x, y, m)
    BY <1>1, FirstDifference
  <2>1. d[x + m + 1] # d[y + m + 1] /\ \A k \in 0 .. m - 1 : d[x + k + 1] = d[y + k + 1]
    BY <2>0 DEF Equal
  <2>2. m \in 0 .. K - 1 /\ \A k \in 0 .. m - 1 : k \in 0 .. l - 1
    BY <1>1
  <2>3. d[x + m + 1] <= d[y + m + 1]
    BY <2>1, <2>2 DEF Le
  <2>4. \A k \in 0 .. m - 1 : d[y + k + 1] = d[z + k + 1]
    BY <2>1, <2>2
  <2>5. d[y + m + 1] <= d[z + m + 1]
    BY <2>2, <2>4 DEF Le
  <2>6. d[z + m + 1] = d[x + m + 1]
    OBVIOUS
  <2>7. m \in 0 .. l
    OBVIOUS
  <2>8. d[x + m + 1] \in {0, 1} /\ d[y + m + 1] \in {0, 1}
    BY <1>2, <2>7
  <2> QED BY <2>1, <2>3, <2>5, <2>6, <2>8
<1>4. \A k \in 0 .. l - 1 : d[y + k + 1] = d[z + k + 1]
  BY <1>3
<1>5. d[x + l + 1] <= d[y + l + 1] /\ d[y + l + 1] <= d[z + l + 1]
  BY <1>3, <1>4 DEF Le
<1>6. l \in 0 .. l
  BY <1>1
<1>7. d[x + l + 1] \in {0, 1} /\ d[y + l + 1] \in {0, 1} /\ d[z + l + 1] \in {0, 1}
  BY <1>2, <1>6
<1> QED BY <1>5, <1>7

\* What is so of K bytes is so of fewer.
LEMMA LeShorter ==
  ASSUME NEW d, NEW x, NEW y, NEW K \in Nat, NEW J \in Nat, J <= K, Le(d, x, y, K)
  PROVE  Le(d, x, y, J)
<1>1. \A l \in 0 .. J - 1 : l \in 0 .. K - 1
  OBVIOUS
<1> QED BY <1>1 DEF Le

\* One that differs is enough.
LEMMA LeByDifference ==
  ASSUME NEW d \in Streams, NEW x, NEW y, NEW K, Room(x, y, K), NEW l \in 0 .. K - 1,
         Equal(d, x, y, l), d[x + l + 1] < d[y + l + 1]
  PROVE  Le(d, x, y, K)
<1>1. x \in Nat /\ y \in Nat /\ K \in Nat /\ StreamLen \in Nat /\ l \in Nat
  BY SettingsAssumption DEF Room
<1> SUFFICES ASSUME NEW j \in 0 .. K - 1, \A k \in 0 .. j - 1 : d[x + k + 1] = d[y + k + 1]
             PROVE  d[x + j + 1] <= d[y + j + 1]
  BY DEF Le
<1>2. j \in Nat /\ x + j < StreamLen /\ y + j < StreamLen /\ x + l < StreamLen
        /\ y + l < StreamLen
  BY <1>1 DEF Room
<1>3. d[x + j + 1] \in {0, 1} /\ d[y + j + 1] \in {0, 1} /\ d[x + l + 1] \in {0, 1}
        /\ d[y + l + 1] \in {0, 1}
  BY <1>1, <1>2, StreamBytes
<1>4. CASE j < l
  <2>1. j \in 0 .. l - 1
    BY <1>1, <1>4
  <2> QED BY <1>3, <2>1 DEF Equal
<1>5. CASE j = l
  BY <1>3, <1>5
<1>6. CASE j > l
  <2>1. l \in 0 .. j - 1
    BY <1>1, <1>6
  <2> QED BY <1>3, <2>1
<1> QED BY <1>1, <1>2, <1>4, <1>5, <1>6

\* Equal bytes are below each other.
LEMMA EqualIsLe ==
  ASSUME NEW d \in Streams, NEW x, NEW y, NEW K, Room(x, y, K), Equal(d, x, y, K)
  PROVE  Le(d, x, y, K)
<1> SUFFICES ASSUME NEW l \in 0 .. K - 1 PROVE d[x + l + 1] <= d[y + l + 1]
  BY DEF Le
<1>1. d[x + l + 1] = d[y + l + 1]
  BY DEF Equal
<1>2. l \in Nat /\ x \in Nat /\ x + l < StreamLen /\ StreamLen \in Nat
  BY SettingsAssumption DEF Room
<1>3. d[x + l + 1] \in {0, 1}
  BY <1>2, StreamBytes
<1> QED BY <1>1, <1>3

\* As far as the bytes at x agree with others, those stand for them.
LEMMA LeInstead ==
  ASSUME NEW d, NEW x, NEW y, NEW z, NEW K \in Nat, NEW l \in Nat, l <= K, Equal(d, x, z, l)
  PROVE  /\ Le(d, x, y, K) => Le(d, z, y, l)
         /\ Le(d, y, x, K) => Le(d, y, z, l)
<1>1. \A j \in 0 .. l - 1 : j \in 0 .. K - 1 /\ \A k \in 0 .. j - 1 : k \in 0 .. l - 1
  OBVIOUS
<1>2. \A k \in 0 .. l - 1 : d[x + k + 1] = d[z + k + 1]
  BY DEF Equal
<1>3. ASSUME Le(d, x, y, K) PROVE Le(d, z, y, l)
  <2> SUFFICES ASSUME NEW j \in 0 .. l - 1, \A k \in 0 .. j - 1 : d[z + k + 1] = d[y + k + 1]
               PROVE  d[z + j + 1] <= d[y + j + 1]
    BY DEF Le
  <2>1. \A k \in 0 .. j - 1 : d[x + k + 1] = d[y + k + 1]
    BY <1>1, <1>2
  <2>2. d[x + j + 1] <= d[y + j + 1]
    BY <1>1, <1>3, <2>1 DEF Le
  <2> QED BY <1>2, <2>2
<1>4. ASSUME Le(d, y, x, K) PROVE Le(d, y, z, l)
  <2> SUFFICES ASSUME NEW j \in 0 .. l - 1, \A k \in 0 .. j - 1 : d[y + k + 1] = d[z + k + 1]
               PROVE  d[y + j + 1] <= d[z + j + 1]
    BY DEF Le
  <2>1. \A k \in 0 .. j - 1 : d[y + k + 1] = d[x + k + 1]
    BY <1>1, <1>2
  <2>2. d[y + j + 1] <= d[x + j + 1]
    BY <1>1, <1>4, <2>1 DEF Le
  <2> QED BY <1>2, <2>2
<1> QED BY <1>3, <1>4

-----------------------------------------------------------------------------
(* How far bytes agree *)

\* At most K bytes at x and at y agree, which are len.
IsLength(d, x, y, K, len) ==
  len \in 0 .. K /\ Equal(d, x, y, len) /\ (len < K => d[x + len + 1] # d[y + len + 1])

\* There is one such length ...
LEMMA LengthUnique ==
  ASSUME NEW d, NEW x, NEW y, NEW K \in Nat, NEW len, NEW len2,
         IsLength(d, x, y, K, len), IsLength(d, x, y, K, len2)
  PROVE  len = len2
<1>1. len \in Nat /\ len2 \in Nat /\ len <= K /\ len2 <= K
  BY DEF IsLength
<1>2. ~(len < len2)
  <2> SUFFICES ASSUME len < len2 PROVE FALSE
    OBVIOUS
  <2>1. len \in 0 .. len2 - 1 /\ len < K
    BY <1>1
  <2> QED BY <2>1 DEF IsLength, Equal
<1>3. ~(len2 < len)
  <2> SUFFICES ASSUME len2 < len PROVE FALSE
    OBVIOUS
  <2>1. len2 \in 0 .. len - 1 /\ len2 < K
    BY <1>1
  <2> QED BY <2>1 DEF IsLength, Equal
<1> QED BY <1>1, <1>2, <1>3

\* ... either way round.
LEMMA LengthTurned ==
  ASSUME NEW d, NEW x, NEW y, NEW K, NEW len, IsLength(d, x, y, K, len)
  PROVE  IsLength(d, y, x, K, len)
BY DEF IsLength, Equal

\* What AgreeAt() gives.
LEMMA LengthIsMin ==
  ASSUME NEW d, NEW x \in Nat, NEW y \in Nat, NEW K \in Nat, NEW len, IsLength(d, x, y, K, len)
  PROVE  len = Min({l \in 0 .. K : l = K \/ d[x + 1 + l] # d[y + 1 + l]})
<1> DEFINE T == {l \in 0 .. K : l = K \/ d[x + 1 + l] # d[y + 1 + l]}
<1>1. T \subseteq Nat /\ K \in T
  OBVIOUS
<1>2. Min(T) \in T /\ \A k \in T : Min(T) <= k
  <2> HIDE DEF T
  <2> QED BY <1>1, MinIsLeast
<1> HIDE DEF T
<1>3. Min(T) \in 0 .. K
  BY <1>2 DEF T
<1>4. Equal(d, x, y, Min(T))
  <2> SUFFICES ASSUME NEW k \in 0 .. Min(T) - 1 PROVE d[x + k + 1] = d[y + k + 1]
    BY DEF Equal
  <2>1. k \notin T
    BY <1>2, <1>3
  <2>2. k \in 0 .. K
    BY <1>3
  <2>3. d[x + 1 + k] = d[y + 1 + k]
    BY <2>1, <2>2 DEF T
  <2>4. k \in Int /\ x + 1 + k = x + k + 1 /\ y + 1 + k = y + k + 1
    BY <2>2
  <2> QED BY <2>3, <2>4
<1>5. Min(T) < K => d[x + Min(T) + 1] # d[y + Min(T) + 1]
  <2>1. Min(T) < K => d[x + 1 + Min(T)] # d[y + 1 + Min(T)]
    BY <1>2, <1>3 DEF T
  <2>2. x + 1 + Min(T) = x + Min(T) + 1 /\ y + 1 + Min(T) = y + Min(T) + 1
    BY <1>3
  <2> QED BY <2>1, <2>2
<1>6. IsLength(d, x, y, K, Min(T))
  BY <1>3, <1>4, <1>5 DEF IsLength
<1>7. len = Min(T)
  BY <1>6, LengthUnique
<1> QED BY <1>7 DEF T

-----------------------------------------------------------------------------
(* The bytes of the block *)

\* A finder between two steps, at the index i of the stream d.
Ready(q, d, i) ==
  /\ q \in Finders /\ d \in Streams /\ i \in Nat
  /\ Shape(q) /\ Window(q, d, i) /\ Limits(q)

\* The numbers of a finder.
LEMMA Numbers ==
  ASSUME NEW q \in Finders
  PROVE  /\ q.historySize \in Nat /\ q.cyclicBufferSize \in Nat /\ q.keepSizeBefore \in Nat
         /\ q.keepSizeAfter \in Nat /\ q.blockSize \in Nat /\ q.hashSizeSum \in Nat
         /\ q.numSons \in Nat /\ q.son \in Nat /\ q.buffer \in Nat /\ q.pos \in Nat
         /\ q.streamPos \in Nat /\ q.posLimit \in Nat /\ q.lenLimit \in Nat
         /\ q.cyclicBufferPos \in Nat /\ q.read \in Nat /\ q.kind \in Kinds
         /\ q.result \in BOOLEAN /\ q.streamEndWasReached \in BOOLEAN
         /\ q.hash \in Arrays /\ q.bufferBase \in Arrays
BY DEF Finders

\* The bytes of the block are those of the stream.
LEMMA ByteIs ==
  ASSUME NEW q, NEW d, NEW i, Ready(q, d, i), NEW j \in Int,
         -Min2(i, q.cyclicBufferSize) <= j, j < Avail(q)
  PROVE  Byte(q, j) = d[i + j + 1] /\ Byte(q, j) \in {0, 1} /\ i + j \in Nat
           /\ i + j < StreamLen
<1>1. q \in Finders /\ i \in Nat /\ Shape(q) /\ Window(q, d, i) /\ StreamLen \in Nat
  BY SettingsAssumption DEF Ready
<1>2. /\ q.buffer \in Nat /\ q.cyclicBufferSize \in Nat /\ q.blockSize \in Nat
      /\ q.pos \in Nat /\ q.streamPos \in Nat /\ q.read \in Nat
  BY <1>1, Numbers
<1>3. q.bufferBase[q.buffer + j] = d[i + j + 1]
  BY <1>1 DEF Window
<1>4. /\ q.buffer >= Min2(i, q.cyclicBufferSize) /\ q.buffer + Avail(q) <= q.blockSize
      /\ q.read = i + Avail(q) /\ q.read <= StreamLen
  BY <1>1 DEF Window
<1>5. q.buffer + j \in 0 .. q.blockSize - 1
  BY <1>1, <1>2, <1>4 DEF Min2, Avail
<1>6. Byte(q, j) = q.bufferBase[q.buffer + j]
  BY <1>1, <1>5 DEF Byte, Shape
<1>7. i + j \in Nat /\ i + j < StreamLen
  BY <1>1, <1>2, <1>4 DEF Min2, Avail
<1>8. d[0 + (i + j) + 1] \in {0, 1}
  BY <1>7, StreamBytes DEF Ready
<1>9. 0 + (i + j) + 1 = i + j + 1
  BY <1>1
<1> QED BY <1>3, <1>6, <1>7, <1>8, <1>9

\* A place the search may look at.
Near(q, i, m) == m \in Nat /\ m < i /\ i - m < q.cyclicBufferSize

\* The numbers of a search.
LEMMA LimitNumbers ==
  ASSUME NEW q, NEW d, NEW i, Ready(q, d, i)
  PROVE  /\ i \in Nat /\ q.lenLimit \in Nat /\ q.lenLimit <= Avail(q)
             /\ q.cyclicBufferSize \in Nat
         /\ q.lenLimit <= MatchMaxLen /\ Avail(q) \in Nat /\ i + Avail(q) = q.read
         /\ q.read <= StreamLen /\ q.pos \in Nat /\ q.cyclicBufferSize <= q.pos
         /\ MatchMaxLen \in Nat /\ StreamLen \in Nat /\ MatchMaxLen >= 4
         /\ q.cyclicBufferPos \in Nat /\ q.cyclicBufferPos < q.cyclicBufferSize
         /\ q.cyclicBufferSize = q.historySize + 1 /\ q.historySize \in Nat
<1>1. q \in Finders /\ i \in Nat /\ Limits(q) /\ Window(q, d, i) /\ Shape(q)
  BY DEF Ready
<1>2. MatchMaxLen \in Nat /\ StreamLen \in Nat /\ MatchMaxLen >= 4
  BY SettingsAssumption
<1>3. /\ q.pos \in Nat /\ q.streamPos \in Nat /\ q.cyclicBufferPos \in Nat /\ q.read \in Nat
      /\ q.cyclicBufferSize \in Nat /\ q.historySize \in Nat
  BY <1>1, Numbers
<1>4. q.pos <= q.streamPos /\ q.read = i + Avail(q) /\ q.read <= StreamLen
  BY <1>1 DEF Window
<1>5. /\ q.lenLimit = Min2(Avail(q), MatchMaxLen) /\ q.cyclicBufferSize <= q.pos
      /\ q.cyclicBufferPos < q.cyclicBufferSize
  BY <1>1 DEF Limits
<1>6. q.cyclicBufferSize = q.historySize + 1
  BY <1>1 DEF Shape
<1> QED BY <1>1, <1>2, <1>3, <1>4, <1>5, <1>6 DEF Avail, Min2

\* Where the search looks, the stream goes on for the longest match.
LEMMA RoomFor ==
  ASSUME NEW q, NEW d, NEW i, Ready(q, d, i), NEW m, m \in Nat, m <= i
  PROVE  Room(m, i, q.lenLimit) /\ Room(i, m, q.lenLimit)
BY LimitNumbers DEF Room

\* Bytes of a near place and the current one.
LEMMA SameIs ==
  ASSUME NEW q, NEW d, NEW i, Ready(q, d, i), NEW m, Near(q, i, m),
           NEW l \in 0 .. q.lenLimit - 1
  PROVE  /\ Same(q, l - (i - m), l) <=> d[m + l + 1] = d[i + l + 1]
         /\ Byte(q, l - (i - m)) = d[m + l + 1] /\ Byte(q, l) = d[i + l + 1]
         /\ d[m + l + 1] \in {0, 1} /\ d[i + l + 1] \in {0, 1}
<1>1. /\ i \in Nat /\ q.lenLimit \in Nat /\ q.lenLimit <= Avail(q) /\ q.cyclicBufferSize \in Nat
      /\ Avail(q) \in Nat /\ m \in Nat /\ m < i /\ i - m < q.cyclicBufferSize
  BY LimitNumbers DEF Near
<1> DEFINE j == l - (i - m)
<1>2. j \in Int /\ -Min2(i, q.cyclicBufferSize) <= j /\ j < Avail(q) /\ i + j + 1 = m + l + 1
  BY <1>1 DEF Min2
<1>3. l \in Int /\ -Min2(i, q.cyclicBufferSize) <= l /\ l < Avail(q)
  BY <1>1 DEF Min2
<1>4. Byte(q, j) = d[m + l + 1] /\ Byte(q, j) \in {0, 1}
  <2> HIDE DEF j
  <2>1. Byte(q, j) = d[i + j + 1] /\ Byte(q, j) \in {0, 1}
    BY <1>2, ByteIs
  <2> QED BY <1>2, <2>1
<1>5. Byte(q, l) = d[i + l + 1] /\ Byte(q, l) \in {0, 1}
  BY <1>3, ByteIs
<1> QED BY <1>4, <1>5 DEF Same, NoByte

\* Agree() is right wherever what is taken for known is so.
LEMMA AgreeIs ==
  ASSUME NEW q, NEW d, NEW i, Ready(q, d, i), NEW m, Near(q, i, m),
           NEW from \in 0 .. q.lenLimit,
         Equal(d, m, i, from)
  PROVE  /\ IsLength(d, m, i, q.lenLimit, Agree(q, i - m, from))
         /\ from <= Agree(q, i - m, from)
<1>1. q.lenLimit \in Nat /\ from \in Nat
  BY LimitNumbers
<1> DEFINE K == q.lenLimit
           T == {l \in from .. K : l = K \/ ~Same(q, l - (i - m), l)}
<1>2. T \subseteq Nat /\ K \in T
  BY <1>1
<1>3. Min(T) \in T /\ \A k \in T : Min(T) <= k
  <2> HIDE DEF T
  <2> QED BY <1>2, MinIsLeast
<1>4. Agree(q, i - m, from) = Min(T)
  BY DEF Agree
<1> HIDE DEF T
<1>5. Min(T) \in from .. K
  BY <1>3 DEF T
<1>6. Equal(d, m, i, Min(T))
  <2> SUFFICES ASSUME NEW k \in 0 .. Min(T) - 1 PROVE d[m + k + 1] = d[i + k + 1]
    BY DEF Equal
  <2>1. CASE k \in 0 .. from - 1
    BY <2>1 DEF Equal
  <2>2. CASE k \in from .. Min(T) - 1
    <3>1. k \in from .. K /\ k \in 0 .. K - 1 /\ ~(Min(T) <= k)
      BY <1>1, <1>5, <2>2
    <3>2. k \notin T
      BY <1>3, <3>1
    <3>3. Same(q, k - (i - m), k)
      BY <3>1, <3>2 DEF T
    <3> QED BY <3>1, <3>3, SameIs
  <2> QED BY <1>1, <1>5, <2>1, <2>2
<1>7. Min(T) < K => d[m + Min(T) + 1] # d[i + Min(T) + 1]
  <2> SUFFICES ASSUME Min(T) < K PROVE d[m + Min(T) + 1] # d[i + Min(T) + 1]
    OBVIOUS
  <2>1. ~Same(q, Min(T) - (i - m), Min(T))
    BY <1>1, <1>3, <1>5 DEF T
  <2>2. Min(T) \in 0 .. K - 1
    BY <1>1, <1>5
  <2> HIDE DEF K
  <2> QED BY <2>1, <2>2, SameIs DEF K
<1> QED BY <1>1, <1>4, <1>5, <1>6, <1>7 DEF IsLength

-----------------------------------------------------------------------------
(* The hash tables *)

\* Exclusive or of two bits.
LEMMA XorBits ==
  ASSUME NEW a \in {0, 1}, NEW b \in {0, 1}
  PROVE  /\ Xor(a, b) \in {0, 1}
         /\ \A c \in {0, 1} : Xor(a, b) = Xor(a, c) => b = c
<1>1. Xor(0, 0) = 0 /\ Xor(0, 1) = 1 /\ Xor(1, 0) = 1 /\ Xor(1, 1) = 0
  BY DEF Xor
<1>2. a = 0 \/ a = 1
  OBVIOUS
<1>3. b = 0 \/ b = 1
  OBVIOUS
<1>4. Xor(a, b) \in {0, 1}
  BY <1>1, <1>2, <1>3
<1>5. ASSUME NEW c \in {0, 1}, Xor(a, b) = Xor(a, c) PROVE b = c
  <2>1. c = 0 \/ c = 1
    OBVIOUS
  <2> QED BY <1>1, <1>2, <1>3, <1>5, <2>1
<1> QED BY <1>4, <1>5

\* The first bytes of the current position.
LEMMA FirstBytes ==
  ASSUME NEW q, NEW d, NEW i, Ready(q, d, i), NEW n \in 0 .. 3, n < q.lenLimit
  PROVE  Byte(q, n) = d[i + n + 1] /\ Byte(q, n) \in {0, 1}
<1>1. n \in Int /\ -Min2(i, q.cyclicBufferSize) <= n /\ n < Avail(q)
  BY LimitNumbers DEF Min2
<1> QED BY <1>1, ByteIs

\* The tables of the first two bytes ...
LEMMA Hash2Is ==
  ASSUME NEW q, NEW d, NEW i, Ready(q, d, i), 2 <= q.lenLimit
  PROVE  Hash2(q) = Hash2At(d, i) /\ Hash2(q) \in {0, 1}
<1>1. Byte(q, 0) = d[i + 0 + 1] /\ Byte(q, 0) \in {0, 1}
  BY FirstBytes, LimitNumbers
<1>2. Byte(q, 1) = d[i + 1 + 1] /\ Byte(q, 1) \in {0, 1}
  BY FirstBytes, LimitNumbers
<1>3. i + 0 + 1 = i + 1 /\ i + 1 + 1 = i + 2
  BY LimitNumbers
<1> QED BY <1>1, <1>2, <1>3, XorBits DEF Hash2, Hash2At

\* ... and of three.
LEMMA Hash3Is ==
  ASSUME NEW q, NEW d, NEW i, Ready(q, d, i), 3 <= q.lenLimit
  PROVE  Hash3(q) = Hash3At(d, i) /\ Hash3(q) \in 0 .. 3
<1>1. Hash2(q) = Hash2At(d, i) /\ Hash2(q) \in {0, 1}
  BY Hash2Is, LimitNumbers
<1>2. Byte(q, 2) = d[i + 2 + 1] /\ Byte(q, 2) \in {0, 1}
  BY FirstBytes, LimitNumbers
<1>3. i + 2 + 1 = i + 3
  BY LimitNumbers
<1>4. Hash3(q) = Hash3At(d, i)
  BY <1>1, <1>2, <1>3 DEF Hash3, Hash3At
<1>5. Hash3(q) = Hash2(q) + 2 * Byte(q, 2)
  BY DEF Hash3
<1> QED BY <1>1, <1>2, <1>4, <1>5

\* Where a position is filed.
LEMMA HeadsAre ==
  ASSUME NEW q, NEW d, NEW i, Ready(q, d, i), q.lenLimit >= MinLen(q)
  PROVE  /\ HashMain(q) \in 0 .. q.hashSizeSum - 1
         /\ Heads(q) \subseteq 0 .. q.hashSizeSum - 1
         /\ HashMain(q) \in Heads(q)
         /\ Has2(q) => /\ 3 <= q.lenLimit
                       /\ \A h \in 0 .. 1 : h \in Heads(q) <=> h = Hash2(q)
         /\ Has3(q) => /\ 4 <= q.lenLimit
                       /\ \A h \in 0 .. 3 : kFix3HashSize + h \in Heads(q) <=> h = Hash3(q)
<1>1. q.kind \in Kinds /\ q.hashSizeSum = HashSizeSum(q.kind) /\ q.lenLimit \in Nat
  BY Numbers, LimitNumbers DEF Ready, Shape
<1>2. HashMain(q) \in Heads(q)
  BY DEF Heads
<1>3. CASE q.kind = "Bt2"
  <2>1. 2 <= q.lenLimit
    BY <1>3 DEF MinLen
  <2>2. Byte(q, 0) \in {0, 1} /\ Byte(q, 1) \in {0, 1}
    BY <1>1, <2>1, FirstBytes
  <2>3. HashMain(q) = Byte(q, 0) + 2 * Byte(q, 1) /\ Heads(q) = {HashMain(q)}
    BY <1>3 DEF HashMain, Heads
  <2>4. q.hashSizeSum = 4 /\ ~Has2(q) /\ ~Has3(q)
    BY <1>1, <1>3 DEF HashSizeSum, Has2, Has3
  <2>5. HashMain(q) \in 0 .. 3
    BY <2>2, <2>3
  <2> QED BY <1>2, <2>3, <2>4, <2>5
<1>4. CASE q.kind \in {"Bt3Zip", "Hc3Zip"}
  <2>1. 3 <= q.lenLimit
    BY <1>4 DEF MinLen
  <2>2. Byte(q, 0) \in {0, 1} /\ Byte(q, 1) \in {0, 1} /\ Byte(q, 2) \in {0, 1}
    BY <1>1, <2>1, FirstBytes
  <2>3. HashMain(q) = Xor(Byte(q, 2), Byte(q, 1)) + 2 * Byte(q, 0) /\ Heads(q) = {HashMain(q)}
    BY <1>4 DEF HashMain, Heads
  <2>4. q.hashSizeSum = 4 /\ ~Has2(q) /\ ~Has3(q)
    BY <1>1, <1>4 DEF HashSizeSum, Has2, Has3
  <2>5. Xor(Byte(q, 2), Byte(q, 1)) \in {0, 1}
    BY <2>2, XorBits
  <2>6. HashMain(q) \in 0 .. 3
    BY <2>2, <2>3, <2>5
  <2> QED BY <1>2, <2>3, <2>4, <2>6
<1>5. CASE q.kind = "Bt3"
  <2>1. 3 <= q.lenLimit
    BY <1>5 DEF MinLen
  <2>2. Hash2(q) \in {0, 1} /\ Hash3(q) \in 0 .. 3
    BY <1>1, <2>1, Hash2Is, Hash3Is
  <2>3. HashMain(q) = 2 + Hash3(q) /\ Heads(q) = {HashMain(q), Hash2(q)}
    BY <1>5 DEF HashMain, Heads, kFix3HashSize
  <2>4. q.hashSizeSum = 6 /\ ~Has3(q)
    BY <1>1, <1>5 DEF HashSizeSum, Has3, kFix3HashSize
  <2>5. \A h \in 0 .. 1 : h \in Heads(q) <=> h = Hash2(q)
    BY <2>2, <2>3
  <2> QED BY <1>2, <2>1, <2>2, <2>3, <2>4, <2>5
<1>6. CASE q.kind \in {"Bt4", "Hc4"}
  <2>1. 4 <= q.lenLimit
    BY <1>6 DEF MinLen
  <2>2. Hash2(q) \in {0, 1} /\ Hash3(q) \in 0 .. 3
    BY <1>1, <2>1, Hash2Is, Hash3Is
  <2>3. Byte(q, 2) \in {0, 1} /\ Byte(q, 3) \in {0, 1}
    BY <1>1, <2>1, FirstBytes
  <2>4. Xor(Hash2(q), Xor(Byte(q, 2), Byte(q, 3))) \in {0, 1}
    BY <2>2, <2>3, XorBits
  <2>5. HashMain(q) = 6 + Xor(Hash2(q), Xor(Byte(q, 2), Byte(q, 3)))
    BY <1>6 DEF HashMain, kFix4HashSize
  <2>6. Heads(q) = {HashMain(q), Hash2(q), 2 + Hash3(q)}
    BY <1>6 DEF Heads, kFix3HashSize
  <2>7. q.hashSizeSum = 8
    BY <1>1, <1>6 DEF HashSizeSum, kFix4HashSize
  <2>8. HashMain(q) \in 6 .. 7
    BY <2>4, <2>5
  <2>9. \A h \in 0 .. 1 : h \in Heads(q) <=> h = Hash2(q)
    BY <2>2, <2>6, <2>8
  <2>10. \A h \in 0 .. 3 : 2 + h \in Heads(q) <=> h = Hash3(q)
    BY <2>2, <2>6, <2>8
  <2>11. Heads(q) \subseteq 0 .. 7
    BY <2>2, <2>6, <2>8
  <2> QED BY <1>1, <1>2, <2>1, <2>7, <2>8, <2>9, <2>10, <2>11 DEF kFix3HashSize
<1> QED BY <1>1, <1>3, <1>4, <1>5, <1>6 DEF Kinds

\* The same first byte and the same hash mean the same bytes, and the other way round.
LEMMA HashAgrees ==
  ASSUME NEW d \in Streams, NEW x \in Nat, NEW y \in Nat,
         x + 3 <= StreamLen, y + 3 <= StreamLen
  PROVE  /\ d[x + 1] = d[y + 1] /\ Hash2At(d, x) = Hash2At(d, y) => Equal(d, x, y, 2)
         /\ Equal(d, x, y, 2) => Hash2At(d, x) = Hash2At(d, y)
         /\ d[x + 1] = d[y + 1] /\ Hash3At(d, x) = Hash3At(d, y) => Equal(d, x, y, 3)
         /\ Equal(d, x, y, 3) => Hash3At(d, x) = Hash3At(d, y)
         /\ Hash3At(d, x) = Hash3At(d, y) => Hash2At(d, x) = Hash2At(d, y)
         /\ Equal(d, x, y, 2) /\ Hash3At(d, x) # Hash3At(d, y) => d[x + 3] # d[y + 3]
<1>1. StreamLen \in Nat
  BY SettingsAssumption
<1>2. /\ d[x + 1] \in {0, 1} /\ d[x + 2] \in {0, 1} /\ d[x + 3] \in {0, 1}
      /\ d[y + 1] \in {0, 1} /\ d[y + 2] \in {0, 1} /\ d[y + 3] \in {0, 1}
  <2>1. \A k \in 1 .. 3 : x + k \in 1 .. StreamLen /\ y + k \in 1 .. StreamLen
    BY <1>1
  <2> QED BY <2>1 DEF Streams
<1> DEFINE Same1(k) == d[x + k] = d[y + k]
<1>3. \A k \in 0 .. 2 : d[x + k + 1] = d[y + k + 1] <=> Same1(k + 1)
  <2> TAKE k \in 0 .. 2
  <2>1. x + k + 1 = x + (k + 1) /\ y + k + 1 = y + (k + 1)
    OBVIOUS
  <2> QED BY <2>1
<1>4. /\ Equal(d, x, y, 2) <=> Same1(1) /\ Same1(2)
      /\ Equal(d, x, y, 3) <=> Same1(1) /\ Same1(2) /\ Same1(3)
  <2> HIDE DEF Same1
  <2>1. Equal(d, x, y, 2) <=> \A k \in 0 .. 1 : d[x + k + 1] = d[y + k + 1]
    BY DEF Equal
  <2>2. Equal(d, x, y, 3) <=> \A k \in 0 .. 2 : d[x + k + 1] = d[y + k + 1]
    BY DEF Equal
  <2>3. Equal(d, x, y, 2) <=> \A k \in 0 .. 1 : Same1(k + 1)
    BY <1>3, <2>1
  <2>4. Equal(d, x, y, 3) <=> \A k \in 0 .. 2 : Same1(k + 1)
    BY <1>3, <2>2
  <2>5. (\A k \in 0 .. 1 : Same1(k + 1)) <=> Same1(1) /\ Same1(2)
    <3>1. ASSUME NEW k \in 0 .. 1, Same1(1), Same1(2) PROVE Same1(k + 1)
      <4>1. k + 1 = 1 \/ k + 1 = 2
        OBVIOUS
      <4> QED BY <3>1, <4>1
    <3>2. 0 \in 0 .. 1 /\ 1 \in 0 .. 1 /\ 0 + 1 = 1 /\ 1 + 1 = 2
      OBVIOUS
    <3> QED BY <3>1, <3>2
  <2>6. (\A k \in 0 .. 2 : Same1(k + 1)) <=> Same1(1) /\ Same1(2) /\ Same1(3)
    <3>1. ASSUME NEW k \in 0 .. 2, Same1(1), Same1(2), Same1(3) PROVE Same1(k + 1)
      <4>1. k + 1 = 1 \/ k + 1 = 2 \/ k + 1 = 3
        OBVIOUS
      <4> QED BY <3>1, <4>1
    <3>2. 0 \in 0 .. 2 /\ 1 \in 0 .. 2 /\ 2 \in 0 .. 2 /\ 0 + 1 = 1 /\ 1 + 1 = 2 /\ 2 + 1 = 3
      OBVIOUS
    <3> QED BY <3>1, <3>2
  <2> QED BY <2>3, <2>4, <2>5, <2>6
<1>5. Hash2At(d, x) \in {0, 1} /\ Hash2At(d, y) \in {0, 1}
  BY <1>2, XorBits DEF Hash2At
<1>6. d[x + 1] = d[y + 1] => (Hash2At(d, x) = Hash2At(d, y) <=> d[x + 2] = d[y + 2])
  BY <1>2, XorBits DEF Hash2At
<1>7. Hash3At(d, x) = Hash3At(d, y) <=> Hash2At(d, x) = Hash2At(d, y) /\ d[x + 3] = d[y + 3]
  <2> DEFINE a == Hash2At(d, x)  b == Hash2At(d, y)  e == d[x + 3]  f == d[y + 3]
  <2>1. Hash3At(d, x) = a + 2 * e /\ Hash3At(d, y) = b + 2 * f
    BY DEF Hash3At
  <2>2. a \in {0, 1} /\ b \in {0, 1} /\ e \in {0, 1} /\ f \in {0, 1}
    BY <1>2, <1>5
  <2> HIDE DEF a, b, e, f
  <2>3. a + 2 * e = b + 2 * f <=> a = b /\ e = f
    BY <2>2
  <2> QED BY <2>1, <2>3 DEF a, b, e, f
<1> QED BY <1>4, <1>6, <1>7

-----------------------------------------------------------------------------
(* Answers *)

\* One pair is the length and the distance of a match.
Real(q, d, i, z) ==
  /\ z[2] + 1 \in 1 .. Min2(q.historySize, i)
  /\ IsLength(d, i - (z[2] + 1), i, q.lenLimit, z[1])

\* An answer: each pair longer and farther than the one before.
Answer(q, d, i, zs) ==
  /\ zs \in Seq(Nat \X Nat)
  /\ \A k \in 1 .. Len(zs) :
       /\ Real(q, d, i, zs[k])
       /\ k > 1 => zs[k - 1][1] < zs[k][1] /\ zs[k - 1][2] < zs[k][2]

\* A match at a near place is a pair of an answer.
LEMMA NearIsReal ==
  ASSUME NEW q, NEW d, NEW i, Ready(q, d, i), NEW m, Near(q, i, m),
         NEW len, IsLength(d, m, i, q.lenLimit, len)
  PROVE  /\ <<len, (i - m) - 1>> \in Nat \X Nat
         /\ Real(q, d, i, <<len, (i - m) - 1>>)
<1>1. /\ i \in Nat /\ q.lenLimit \in Nat /\ q.cyclicBufferSize = q.historySize + 1
      /\ q.historySize \in Nat /\ m \in Nat /\ m < i /\ i - m < q.cyclicBufferSize
  BY LimitNumbers DEF Near
<1>2. len \in Nat
  BY <1>1 DEF IsLength
<1> DEFINE z == <<len, (i - m) - 1>>
<1>3. z[1] = len /\ z[2] = (i - m) - 1
  OBVIOUS
<1>4. z[2] + 1 \in 1 .. Min2(q.historySize, i) /\ i - (z[2] + 1) = m
  BY <1>1, <1>3 DEF Min2
<1>5. z \in Nat \X Nat
  BY <1>1, <1>2
<1> HIDE DEF z
<1>6. Real(q, d, i, z)
  BY <1>3, <1>4 DEF Real
<1> QED BY <1>5, <1>6 DEF z

\* One more pair.
LEMMA AnswerAppend ==
  ASSUME NEW q, NEW d, NEW i, NEW zs, Answer(q, d, i, zs), NEW z \in Nat \X Nat, Real(q, d, i,
           z),
         zs # <<>> => zs[Len(zs)][1] < z[1] /\ zs[Len(zs)][2] < z[2]
  PROVE  Answer(q, d, i, Append(zs, z))
<1>1. zs \in Seq(Nat \X Nat) /\ Len(zs) \in Nat
  BY DEF Answer
<1>2. /\ Append(zs, z) \in Seq(Nat \X Nat) /\ Len(Append(zs, z)) = Len(zs) + 1
      /\ Append(zs, z)[Len(zs) + 1] = z /\ \A k \in 1 .. Len(zs) : Append(zs, z)[k] = zs[k]
  BY <1>1
<1> DEFINE ys == Append(zs, z)
<1> HIDE DEF ys
<1>3. ASSUME NEW k \in 1 .. Len(zs) + 1
      PROVE  Real(q, d, i, ys[k]) /\ (k > 1 => ys[k - 1][1] < ys[k][1]
               /\ ys[k - 1][2] < ys[k][2])
  <2>1. CASE k \in 1 .. Len(zs)
    <3>1. ys[k] = zs[k] /\ (k > 1 => ys[k - 1] = zs[k - 1])
      BY <1>1, <1>2, <2>1 DEF ys
    <3> QED BY <2>1, <3>1 DEF Answer
  <2>2. CASE k = Len(zs) + 1
    <3>1. ys[k] = z
      BY <1>2, <2>2 DEF ys
    <3>2. k > 1 => ys[k - 1] = zs[Len(zs)] /\ zs # <<>>
      BY <1>1, <1>2, <2>2 DEF ys
    <3> QED BY <3>1, <3>2
  <2> QED BY <1>1, <2>1, <2>2
<1> QED BY <1>2, <1>3 DEF Answer, ys

\* No pairs are an answer.
LEMMA AnswerEmpty == ASSUME NEW q, NEW d, NEW i PROVE Answer(q, d, i, <<>>)
BY DEF Answer

\* A later answer behind an earlier one.
LEMMA AnswerConcat ==
  ASSUME NEW q, NEW d, NEW i, NEW zs, NEW ys, Answer(q, d, i, zs), Answer(q, d, i, ys),
         zs # <<>> /\ ys # <<>> => zs[Len(zs)][1] < ys[1][1] /\ zs[Len(zs)][2] < ys[1][2]
  PROVE  Answer(q, d, i, zs \o ys)
<1>1. zs \in Seq(Nat \X Nat) /\ Len(zs) \in Nat /\ ys \in Seq(Nat \X Nat) /\ Len(ys) \in Nat
  BY DEF Answer
<1> DEFINE us == zs \o ys
<1>2. /\ us \in Seq(Nat \X Nat) /\ Len(us) = Len(zs) + Len(ys)
      /\ \A k \in 1 .. Len(zs) : us[k] = zs[k]
      /\ \A k \in 1 .. Len(ys) : us[Len(zs) + k] = ys[k]
  <2>1. us \in Seq(Nat \X Nat)
    BY <1>1
  <2>2. Len(us) = Len(zs) + Len(ys)
    BY <1>1, ConcatProperties
  <2>3. \A k \in 1 .. Len(zs) + Len(ys) : us[k] = IF k <= Len(zs) THEN zs[k]
          ELSE ys[k - Len(zs)]
    BY <1>1, ConcatProperties
  <2> HIDE DEF us
  <2>4. ASSUME NEW k \in 1 .. Len(zs) PROVE us[k] = zs[k]
    <3>1. k \in 1 .. Len(zs) + Len(ys) /\ k <= Len(zs)
      BY <1>1
    <3> QED BY <2>3, <3>1
  <2>5. ASSUME NEW k \in 1 .. Len(ys) PROVE us[Len(zs) + k] = ys[k]
    <3>1. Len(zs) + k \in 1 .. Len(zs) + Len(ys) /\ ~(Len(zs) + k <= Len(zs))
            /\ Len(zs) + k - Len(zs) = k
      BY <1>1
    <3> QED BY <2>3, <3>1
  <2> QED BY <2>1, <2>2, <2>4, <2>5
<1> HIDE DEF us
<1>3. ASSUME NEW k \in 1 .. Len(zs) + Len(ys)
      PROVE  Real(q, d, i, us[k]) /\ (k > 1 => us[k - 1][1] < us[k][1]
               /\ us[k - 1][2] < us[k][2])
  <2>1. CASE k <= Len(zs)
    <3>1. k \in 1 .. Len(zs) /\ (k > 1 => k - 1 \in 1 .. Len(zs))
      BY <1>1, <2>1
    <3>2. us[k] = zs[k] /\ (k > 1 => us[k - 1] = zs[k - 1])
      BY <1>2, <3>1
    <3> QED BY <3>1, <3>2 DEF Answer
  <2>2. CASE k = Len(zs) + 1
    <3>0. /\ 1 \in 1 .. Len(ys) /\ k = Len(zs) + 1 /\ ys # <<>>
          /\ k > 1 => k - 1 = Len(zs) /\ Len(zs) \in 1 .. Len(zs) /\ zs # <<>>
      BY <1>1, <2>2
    <3>1. us[k] = ys[1]
      BY <1>2, <3>0
    <3>2. k > 1 => us[k - 1] = zs[Len(zs)] /\ zs # <<>>
      BY <1>2, <3>0
    <3> QED BY <3>0, <3>1, <3>2 DEF Answer
  <2>3. CASE k > Len(zs) + 1
    <3> DEFINE j == k - Len(zs)
    <3>1. /\ j \in 1 .. Len(ys) /\ j > 1 /\ j - 1 \in 1 .. Len(ys)
          /\ k = Len(zs) + j /\ k - 1 = Len(zs) + (j - 1)
      BY <1>1, <2>3
    <3> HIDE DEF j
    <3>2. us[k] = ys[j] /\ us[k - 1] = ys[j - 1]
      BY <1>2, <3>1
    <3> QED BY <3>1, <3>2 DEF Answer
  <2> QED BY <1>1, <2>1, <2>2, <2>3
<1> QED BY <1>2, <1>3 DEF Answer, us

-----------------------------------------------------------------------------
(* What the short tables give *)

\* A reference that is live in a short table is the nearest of its kind.
LEMMA NearestIs ==
  ASSUME NEW q, NEW d, NEW i, Ready(q, d, i), NEW E, E \subseteq 0 .. i - 1,
         NEW r, r \in Int, NEW X, X \subseteq E, Nearest(q, i, r, X),
         ~OutOfHistory(q, q.pos - r)
  PROVE  /\ Index(q, i, r) \in X /\ Near(q, i, Index(q, i, r))
         /\ i - Index(q, i, r) = q.pos - r
         /\ \A x \in X : Near(q, i, x) => q.pos - r <= i - x
<1>1. i \in Nat /\ q.pos \in Nat /\ q.cyclicBufferSize \in Nat
  BY LimitNumbers
<1>2. Live(q, r) /\ 0 <= q.pos - r
  BY <1>1 DEF OutOfHistory, Live
<1>3. Index(q, i, r) \in X
  BY <1>2 DEF Nearest
<1>4. Index(q, i, r) \in 0 .. i - 1
  BY <1>3
<1>5. i - Index(q, i, r) = q.pos - r
  BY <1>1 DEF Index
<1>6. Near(q, i, Index(q, i, r))
  BY <1>1, <1>2, <1>4, <1>5 DEF Near, Live
<1>7. \A x \in X : Near(q, i, x) => q.pos - r <= i - x
  BY DEF Nearest, Near
<1> QED BY <1>3, <1>5, <1>6, <1>7

\* Entries lie before i and hash bytes of the stream.
Entrants(q, d, i, E) == E \subseteq 0 .. i - 1 /\ \A x \in E : x + MinLen(q) <= StreamLen

\* Nothing that is longer lies nearer.
Beyond(q, d, i, E, len, back) ==
  \A x \in E : \A l \in Nat :
    Near(q, i, x) /\ IsLength(d, x, i, q.lenLimit, l) /\ l > len => i - x > back

\* What the short tables may give: an answer, the longest match in it, and nothing longer
\* nearer.
QuickIs(q, d, i, E, k) ==
  /\ Answer(q, d, i, k.pairs)
  /\ k.maxLen \in Nat /\ k.maxLen <= q.lenLimit
  /\ k.pairs = <<>> => k.maxLen < q.lenLimit
  /\ k.pairs # <<>> =>
       /\ k.pairs[Len(k.pairs)][1] <= k.maxLen
       /\ Beyond(q, d, i, E, k.maxLen, k.pairs[Len(k.pairs)][2] + 1)

\* The table of two bytes.
LEMMA Near2Is ==
  ASSUME NEW q, NEW d, NEW i, Ready(q, d, i), NEW E, Entrants(q, d, i, E), ShortOK(q, d, i, E),
         Has2(q), 3 <= q.lenLimit, NEW r, r = q.hash[Hash2(q)], r \in Int,
         ~OutOfHistory(q, q.pos - r), Same(q, -(q.pos - r), 0), NEW len,
         len = Agree(q, q.pos - r, 2)
  PROVE  /\ Index(q, i, r) \in E /\ Near(q, i, Index(q, i, r)) /\ i - Index(q, i, r) = q.pos - r
         /\ Equal(d, Index(q, i, r), i, 2)
         /\ IsLength(d, Index(q, i, r), i, q.lenLimit, len) /\ 2 <= len
         /\ \A x \in E : Near(q, i, x) /\ Hash2At(d, x) = Hash2At(d, i) => q.pos - r <= i - x
<1>1. Hash2(q) = Hash2At(d, i) /\ Hash2(q) \in {0, 1} /\ E \subseteq 0 .. i - 1
  BY Hash2Is, LimitNumbers DEF Entrants
<1> DEFINE X == {x \in E : Hash2At(d, x) = Hash2(q)}
           m == Index(q, i, r)
<1>2. Nearest(q, i, r, X) /\ X \subseteq E
  <2>1. Hash2(q) \in 0 .. 1
    BY <1>1
  <2> QED BY <2>1 DEF ShortOK
<1>3. m \in X /\ Near(q, i, m) /\ i - m = q.pos - r /\ \A x \in X : Near(q, i, x)
        => q.pos - r <= i - x
  <2>1. E \subseteq 0 .. i - 1
    BY <1>1
  <2> HIDE DEF X, m
  <2> QED BY <1>2, <2>1, NearestIs, ZenonT(60) DEF m
<1> HIDE DEF m
<1>4. m \in E /\ m \in Nat /\ Hash2At(d, m) = Hash2At(d, i)
  <2>1. m \in E /\ Hash2At(d, m) = Hash2At(d, i)
    BY <1>1, <1>3
  <2> QED BY <1>1, <2>1
<1>5. d[m + 1] = d[i + 1]
  <2>1. 0 \in 0 .. q.lenLimit - 1
    BY LimitNumbers
  <2>2. Same(q, 0 - (i - m), 0) <=> d[m + 0 + 1] = d[i + 0 + 1]
    BY <1>3, <2>1, SameIs
  <2>3. 0 - (i - m) = -(q.pos - r) /\ m + 0 + 1 = m + 1 /\ i + 0 + 1 = i + 1
    BY <1>3, <1>4, LimitNumbers
  <2> QED BY <2>2, <2>3
<1>6. i + 3 <= StreamLen /\ m + 3 <= StreamLen /\ d \in Streams /\ i \in Nat
  BY <1>3, LimitNumbers DEF Near, Ready
<1>7. Equal(d, m, i, 2)
  BY <1>4, <1>5, <1>6, HashAgrees
<1>8. IsLength(d, m, i, q.lenLimit, len) /\ 2 <= len
  <2>1. 2 \in 0 .. q.lenLimit
    BY LimitNumbers
  <2>2. /\ IsLength(d, m, i, q.lenLimit, Agree(q, i - m, 2))
        /\ 2 <= Agree(q, i - m, 2)
    BY <1>3, <1>7, <2>1, AgreeIs
  <2> QED BY <1>3, <2>2
<1> QED BY <1>1, <1>3, <1>4, <1>7, <1>8 DEF m

\* The table of three.
LEMMA Near3Is ==
  ASSUME NEW q, NEW d, NEW i, Ready(q, d, i), NEW E, Entrants(q, d, i, E), ShortOK(q, d, i, E),
         Has3(q), 4 <= q.lenLimit, NEW r, r = q.hash[kFix3HashSize + Hash3(q)], r \in Int,
         ~OutOfHistory(q, q.pos - r), Same(q, -(q.pos - r), 0), NEW len,
         len = Agree(q, q.pos - r, 3)
  PROVE  /\ Index(q, i, r) \in E /\ Near(q, i, Index(q, i, r)) /\ i - Index(q, i, r) = q.pos - r
         /\ Hash3At(d, Index(q, i, r)) = Hash3At(d, i)
         /\ IsLength(d, Index(q, i, r), i, q.lenLimit, len) /\ 3 <= len
         /\ \A x \in E : Near(q, i, x) /\ Hash3At(d, x) = Hash3At(d, i) => q.pos - r <= i - x
<1>1. Hash3(q) = Hash3At(d, i) /\ Hash3(q) \in 0 .. 3 /\ E \subseteq 0 .. i - 1
  BY Hash3Is, LimitNumbers DEF Entrants
<1> DEFINE X == {x \in E : Hash3At(d, x) = Hash3(q)}
           m == Index(q, i, r)
<1>2. Nearest(q, i, r, X) /\ X \subseteq E
  BY <1>1 DEF ShortOK
<1>3. m \in X /\ Near(q, i, m) /\ i - m = q.pos - r /\ \A x \in X : Near(q, i, x)
        => q.pos - r <= i - x
  <2>1. E \subseteq 0 .. i - 1
    BY <1>1
  <2> HIDE DEF X, m
  <2> QED BY <1>2, <2>1, NearestIs, ZenonT(60) DEF m
<1> HIDE DEF m
<1>4. m \in E /\ m \in Nat /\ Hash3At(d, m) = Hash3At(d, i)
  <2>1. m \in E /\ Hash3At(d, m) = Hash3At(d, i)
    BY <1>1, <1>3
  <2> QED BY <1>1, <2>1
<1>5. d[m + 1] = d[i + 1]
  <2>1. 0 \in 0 .. q.lenLimit - 1
    BY LimitNumbers
  <2>2. Same(q, 0 - (i - m), 0) <=> d[m + 0 + 1] = d[i + 0 + 1]
    BY <1>3, <2>1, SameIs
  <2>3. 0 - (i - m) = -(q.pos - r) /\ m + 0 + 1 = m + 1 /\ i + 0 + 1 = i + 1
    BY <1>3, <1>4, LimitNumbers
  <2> QED BY <2>2, <2>3
<1>6. i + 3 <= StreamLen /\ m + 3 <= StreamLen /\ d \in Streams /\ i \in Nat
  BY <1>3, LimitNumbers DEF Near, Ready
<1>7. Equal(d, m, i, 3)
  BY <1>4, <1>5, <1>6, HashAgrees
<1>8. IsLength(d, m, i, q.lenLimit, len) /\ 3 <= len
  <2>1. 3 \in 0 .. q.lenLimit
    BY LimitNumbers
  <2>2. /\ IsLength(d, m, i, q.lenLimit, Agree(q, i - m, 3))
        /\ 3 <= Agree(q, i - m, 3)
    BY <1>3, <1>7, <2>1, AgreeIs
  <2> QED BY <1>3, <2>2
<1> QED BY <1>1, <1>3, <1>4, <1>8 DEF m

\* The head of the position is a cell of the main table.
LEMMA HashCells ==
  ASSUME NEW q, NEW d, NEW i, Ready(q, d, i), NEW h \in 0 .. q.hashSizeSum - 1
  PROVE  q.hash[h] \in Nat /\ h \in DOMAIN q.hash
<1>1. q \in Finders /\ Shape(q)
  BY DEF Ready
<1>2. q.hashSizeSum \in Nat /\ q.numSons \in Nat
  BY <1>1, Numbers
<1>3. h \in 0 .. q.hashSizeSum + q.numSons - 1
  BY <1>2
<1> QED BY <1>1, <1>3 DEF Shape

\* Nothing nearer has more than the two, or the three, bytes of the table.
LEMMA Beyond2 ==
  ASSUME NEW q, NEW d, NEW i, Ready(q, d, i), NEW E, Entrants(q, d, i, E), 3 <= q.lenLimit,
         NEW m \in E, Near(q, i, m), NEW len, IsLength(d, m, i, q.lenLimit, len),
         NEW max \in Nat, len <= max, 2 <= max,
         \A x \in E : Near(q, i, x) /\ Hash2At(d, x) = Hash2At(d, i) => i - m <= i - x
  PROVE  Beyond(q, d, i, E, max, i - m)
<1> SUFFICES ASSUME NEW x \in E, NEW l \in Nat, Near(q, i, x), IsLength(d, x, i, q.lenLimit,
                      l), l > max
             PROVE  i - x > i - m
  BY DEF Beyond
<1>1. i \in Nat /\ x \in Nat /\ m \in Nat /\ x < i /\ q.lenLimit \in Nat /\ len \in Nat
  BY LimitNumbers DEF Near, IsLength
<1>2. x + 3 <= StreamLen /\ i + 3 <= StreamLen /\ d \in Streams
  BY <1>1, LimitNumbers DEF Ready
<1>3. Equal(d, x, i, 2)
  <2>1. \A k \in 0 .. 2 - 1 : k \in 0 .. l - 1
    BY <1>1
  <2> QED BY <2>1 DEF IsLength, Equal
<1>4. Hash2At(d, x) = Hash2At(d, i)
  BY <1>1, <1>2, <1>3, HashAgrees
<1>5. i - m <= i - x
  BY <1>4
<1>6. x # m
  <2> SUFFICES ASSUME x = m PROVE FALSE
    OBVIOUS
  <2>1. l = len
    BY <1>1, LengthUnique
  <2> QED BY <1>1, <2>1
<1> QED BY <1>1, <1>5, <1>6

\* ... or of three.
LEMMA Beyond3 ==
  ASSUME NEW q, NEW d, NEW i, Ready(q, d, i), NEW E, Entrants(q, d, i, E), 3 <= q.lenLimit,
         NEW m \in E, Near(q, i, m), NEW len, IsLength(d, m, i, q.lenLimit, len),
         NEW max \in Nat, len <= max, 3 <= max,
         \A x \in E : Near(q, i, x) /\ Hash3At(d, x) = Hash3At(d, i) => i - m <= i - x
  PROVE  Beyond(q, d, i, E, max, i - m)
<1> SUFFICES ASSUME NEW x \in E, NEW l \in Nat, Near(q, i, x), IsLength(d, x, i, q.lenLimit,
                      l), l > max
             PROVE  i - x > i - m
  BY DEF Beyond
<1>1. i \in Nat /\ x \in Nat /\ m \in Nat /\ x < i /\ q.lenLimit \in Nat /\ len \in Nat
  BY LimitNumbers DEF Near, IsLength
<1>2. x + 3 <= StreamLen /\ i + 3 <= StreamLen /\ d \in Streams
  BY <1>1, LimitNumbers DEF Ready
<1>3. Equal(d, x, i, 3)
  <2>1. \A k \in 0 .. 3 - 1 : k \in 0 .. l - 1
    BY <1>1
  <2> QED BY <2>1 DEF IsLength, Equal
<1>4. Hash3At(d, x) = Hash3At(d, i)
  BY <1>1, <1>2, <1>3, HashAgrees
<1>5. i - m <= i - x
  BY <1>4
<1>6. x # m
  <2> SUFFICES ASSUME x = m PROVE FALSE
    OBVIOUS
  <2>1. l = len
    BY <1>1, LengthUnique
  <2> QED BY <1>1, <2>1
<1> QED BY <1>1, <1>5, <1>6

\* A single pair.
LEMMA OnePair ==
  ASSUME NEW q, NEW d, NEW i, Ready(q, d, i), NEW E, NEW m, Near(q, i, m), NEW len,
         IsLength(d, m, i, q.lenLimit, len), NEW max \in Nat, len <= max, max <= q.lenLimit,
         Beyond(q, d, i, E, max, i - m), NEW k,
         k.pairs = << <<len, (i - m) - 1>> >>, k.maxLen = max
  PROVE  QuickIs(q, d, i, E, k)
<1> DEFINE z == <<len, (i - m) - 1>>
           zs == << z >>
<1>1. z \in Nat \X Nat /\ Real(q, d, i, z)
  BY NearIsReal
<1>2. zs[Len(zs)][1] = len /\ zs[Len(zs)][2] + 1 = i - m /\ zs # <<>> /\ zs = Append(<<>>, z)
  BY LimitNumbers DEF Near
<1> HIDE DEF z
<1>3. Answer(q, d, i, Append(<<>>, z))
  BY <1>1, AnswerEmpty, AnswerAppend
<1>4. k.pairs = zs
  BY DEF z
<1> HIDE DEF zs
<1> QED BY <1>2, <1>3, <1>4 DEF QuickIs

\* Two of them, of which the first ends where the tables say that it does.
LEMMA TwoPairs ==
  ASSUME NEW q, NEW d, NEW i, Ready(q, d, i), NEW E, NEW m, Near(q, i, m), NEW len,
         IsLength(d, m, i, q.lenLimit, len), NEW n, Near(q, i, n), NEW two,
         IsLength(d, n, i, q.lenLimit, two), two < len, m < n, len <= q.lenLimit,
         Beyond(q, d, i, E, len, i - m), NEW k,
         k.pairs = << <<two, (i - n) - 1>> >> \o << <<len, (i - m) - 1>> >>, k.maxLen = len
  PROVE  QuickIs(q, d, i, E, k)
<1> DEFINE z == <<len, (i - m) - 1>>
           y == <<two, (i - n) - 1>>
<1>0. m \in Nat /\ n \in Nat /\ i \in Nat /\ len \in Nat
  BY LimitNumbers DEF Near, IsLength
<1>1. z \in Nat \X Nat /\ Real(q, d, i, z) /\ y \in Nat \X Nat /\ Real(q, d, i, y)
  BY NearIsReal
<1>2. z[1] = len /\ z[2] + 1 = i - m /\ y[1] = two /\ y[2] < z[2]
  BY <1>0
<1>3. k.pairs = <<y>> \o <<z>>
  OBVIOUS
<1> HIDE DEF z, y
<1>4. Answer(q, d, i, Append(<<>>, y))
  BY <1>1, AnswerEmpty, AnswerAppend
<1>5. Append(<<>>, y) = <<y>> /\ <<y>> # <<>> /\ <<y>>[Len(<<y>>)] = y
  OBVIOUS
<1>6. <<y>> \o <<z>> = Append(<<y>>, z)
  OBVIOUS
<1>7. Append(<<y>>, z) # <<>> /\ Append(<<y>>, z)[Len(Append(<<y>>, z))] = z
  OBVIOUS
<1> DEFINE ys == <<y>>
           zs == Append(ys, z)
<1>8. Answer(q, d, i, zs)
  <2>1. Answer(q, d, i, ys) /\ ys[Len(ys)] = y
    BY <1>4, <1>5
  <2> HIDE DEF ys
  <2> QED BY <1>1, <1>2, <2>1, AnswerAppend
<1>9. k.pairs = zs /\ zs # <<>> /\ zs[Len(zs)] = z
  BY <1>3, <1>6, <1>7
<1> HIDE DEF zs
<1>10. Answer(q, d, i, k.pairs) /\ k.pairs[Len(k.pairs)] = z
  BY <1>8, <1>9
<1>11. k.pairs[Len(k.pairs)][1] <= k.maxLen
  BY <1>0, <1>2, <1>10
<1>12. Beyond(q, d, i, E, k.maxLen, k.pairs[Len(k.pairs)][2] + 1)
  BY <1>2, <1>10
<1>13. k.maxLen \in Nat /\ k.maxLen <= q.lenLimit /\ k.pairs # <<>>
  BY <1>0, <1>9
<1> QED BY <1>10, <1>11, <1>12, <1>13, Zenon DEF QuickIs

\* Nothing was found.
LEMMA NoPair ==
  ASSUME NEW q, NEW d, NEW i, NEW E, NEW k, k.pairs = <<>>, k.maxLen \in Nat,
         k.maxLen < q.lenLimit, q.lenLimit \in Nat
  PROVE  QuickIs(q, d, i, E, k)
BY AnswerEmpty DEF QuickIs

\* The short tables give real matches, and with them the nearest of their bytes.
LEMMA QuickCorrect ==
  ASSUME NEW q, NEW d, NEW i, Ready(q, d, i), NEW E, Entrants(q, d, i, E), ShortOK(q, d, i, E),
         q.lenLimit >= MinLen(q)
  PROVE  QuickIs(q, d, i, E, Quick(q))
<1> DEFINE K == q.lenLimit
           delta2 == q.pos - q.hash[Hash2(q)]
           delta3 == q.pos - q.hash[kFix3HashSize + Hash3(q)]
           Close(delta) == ~OutOfHistory(q, delta) /\ Same(q, -delta, 0)
           near2 == Close(delta2)
           near3 == delta3 # delta2 /\ Close(delta3)
           len2 == Agree(q, delta2, 2)
           len3 == Agree(q, delta3, 3)
           m2 == Index(q, i, q.hash[Hash2(q)])
           m3 == Index(q, i, q.hash[kFix3HashSize + Hash3(q)])
<1>1. q.kind \in Kinds /\ q.lenLimit \in Nat /\ i \in Nat /\ q.hashSizeSum = HashSizeSum(q.kind)
  BY Numbers, LimitNumbers DEF Ready, Shape
<1>2. CASE q.kind = "Bt2"
  <2>1. Quick(q) = [maxLen |-> 1, pairs |-> <<>>]
    BY <1>2 DEF Quick
  <2>2. 1 < q.lenLimit
    BY <1>1, <1>2 DEF MinLen
  <2> QED BY <1>1, <2>1, <2>2, NoPair
<1>3. CASE q.kind \in {"Bt3Zip", "Hc3Zip"}
  <2>1. Quick(q) = [maxLen |-> 2, pairs |-> <<>>]
    BY <1>3 DEF Quick
  <2>2. 2 < q.lenLimit
    BY <1>1, <1>3 DEF MinLen
  <2> QED BY <1>1, <2>1, <2>2, NoPair
<1>4. ASSUME Has2(q), near2
      PROVE  /\ m2 \in E /\ Near(q, i, m2) /\ i - m2 = delta2 /\ Equal(d, m2, i, 2)
             /\ IsLength(d, m2, i, q.lenLimit, len2) /\ 2 <= len2 /\ len2 \in Nat
                 /\ len2 <= q.lenLimit
             /\ \A x \in E : Near(q, i, x) /\ Hash2At(d, x) = Hash2At(d, i) => delta2 <= i - x
  <2>1. 3 <= q.lenLimit /\ 2 <= q.lenLimit
    BY <1>1, <1>4, HeadsAre
  <2>2. Hash2(q) \in {0, 1}
    BY <2>1, Hash2Is
  <2>3. Hash2(q) \in 0 .. q.hashSizeSum - 1
    BY <1>1, <1>4, <2>2 DEF Has2, HashSizeSum, kFix3HashSize, kFix4HashSize
  <2>4. q.hash[Hash2(q)] \in Int
    BY <2>3, HashCells
  <2>5. /\ m2 \in E /\ Near(q, i, m2) /\ i - m2 = delta2 /\ Equal(d, m2, i, 2)
        /\ IsLength(d, m2, i, q.lenLimit, len2) /\ 2 <= len2
        /\ \A x \in E : Near(q, i, x) /\ Hash2At(d, x) = Hash2At(d, i) => delta2 <= i - x
    BY <1>4, <2>1, <2>4, Near2Is
  <2>6. len2 \in Nat /\ len2 <= q.lenLimit
    BY <1>1, <2>5 DEF IsLength
  <2> QED BY <2>5, <2>6
<1>5. ASSUME Has3(q), near3
      PROVE  /\ m3 \in E /\ Near(q, i, m3) /\ i - m3 = delta3 /\ Hash3At(d, m3) = Hash3At(d, i)
             /\ IsLength(d, m3, i, q.lenLimit, len3) /\ 3 <= len3 /\ len3 \in Nat
                 /\ len3 <= q.lenLimit
             /\ \A x \in E : Near(q, i, x) /\ Hash3At(d, x) = Hash3At(d, i) => delta3 <= i - x
  <2>1. 4 <= q.lenLimit /\ 3 <= q.lenLimit
    BY <1>1, <1>5, HeadsAre
  <2>2. Hash3(q) \in 0 .. 3
    BY <2>1, Hash3Is
  <2>3. kFix3HashSize + Hash3(q) \in 0 .. q.hashSizeSum - 1
    BY <1>1, <1>5, <2>2 DEF Has3, HashSizeSum, kFix3HashSize, kFix4HashSize
  <2>4. q.hash[kFix3HashSize + Hash3(q)] \in Int
    BY <2>3, HashCells
  <2>5. /\ m3 \in E /\ Near(q, i, m3) /\ i - m3 = delta3 /\ Hash3At(d, m3) = Hash3At(d, i)
        /\ IsLength(d, m3, i, q.lenLimit, len3) /\ 3 <= len3
        /\ \A x \in E : Near(q, i, x) /\ Hash3At(d, x) = Hash3At(d, i) => delta3 <= i - x
    BY <1>5, <2>1, <2>4, Near3Is
  <2>6. len3 \in Nat /\ len3 <= q.lenLimit
    BY <1>1, <2>5 DEF IsLength
  <2> QED BY <2>5, <2>6
<1>6. ASSUME Has2(q), near2, NEW max \in Nat, len2 <= max
      PROVE  Beyond(q, d, i, E, max, i - m2)
  <2>1. 3 <= q.lenLimit
    BY <1>1, <1>6, HeadsAre
  <2>2. /\ m2 \in E /\ Near(q, i, m2) /\ i - m2 = delta2 /\ len2 \in Nat
        /\ IsLength(d, m2, i, q.lenLimit, len2) /\ 2 <= len2
        /\ \A x \in E : Near(q, i, x) /\ Hash2At(d, x) = Hash2At(d, i) => delta2 <= i - x
    BY <1>4, <1>6
  <2> HIDE DEF m2, len2, delta2
  <2>3. 2 <= max
    BY <1>6, <2>2
  <2>4. \A x \in E : Near(q, i, x) /\ Hash2At(d, x) = Hash2At(d, i) => i - m2 <= i - x
    BY <2>2
  <2> QED BY <1>6, <2>1, <2>2, <2>3, <2>4, Beyond2
<1>7. ASSUME Has3(q), near3 PROVE Beyond(q, d, i, E, len3, i - m3)
  <2>1. 3 <= q.lenLimit
    BY <1>1, <1>7, HeadsAre
  <2>2. /\ m3 \in E /\ Near(q, i, m3) /\ i - m3 = delta3 /\ len3 \in Nat
        /\ IsLength(d, m3, i, q.lenLimit, len3) /\ 3 <= len3 /\ len3 <= len3
        /\ \A x \in E : Near(q, i, x) /\ Hash3At(d, x) = Hash3At(d, i) => delta3 <= i - x
    BY <1>5, <1>7
  <2> HIDE DEF m3, len3, delta3
  <2>3. \A x \in E : Near(q, i, x) /\ Hash3At(d, x) = Hash3At(d, i) => i - m3 <= i - x
    BY <2>2
  <2> QED BY <2>1, <2>2, <2>3, Beyond3
<1>8. CASE q.kind = "Bt3"
  <2>1. Has2(q) /\ 3 <= q.lenLimit
    BY <1>8 DEF Has2, MinLen
  <2>2. CASE near2
    <3>1. Quick(q) = [maxLen |-> len2, pairs |-> << <<len2, delta2 - 1>> >>]
      BY <1>8, <2>2 DEF Quick
    <3>2. /\ Near(q, i, m2) /\ i - m2 = delta2 /\ len2 <= q.lenLimit
          /\ IsLength(d, m2, i, q.lenLimit, len2) /\ len2 \in Nat /\ len2 <= len2
      BY <1>4, <2>1, <2>2
    <3>3. Beyond(q, d, i, E, len2, i - m2)
      BY <1>6, <2>1, <2>2, <3>2
    <3> HIDE DEF m2, len2, delta2
    <3>4. Quick(q).maxLen = len2 /\ Quick(q).pairs = << <<len2, (i - m2) - 1>> >>
      BY <3>1, <3>2
    <3> QED BY <3>2, <3>3, <3>4, OnePair
  <2>3. CASE ~near2
    <3>1. Quick(q) = [maxLen |-> 2, pairs |-> <<>>]
      BY <1>8, <2>3 DEF Quick
    <3>2. 2 < q.lenLimit
      BY <1>1, <2>1
    <3> QED BY <1>1, <3>1, <3>2, NoPair
  <2> QED BY <2>2, <2>3
<1>9. CASE q.kind \in {"Bt4", "Hc4"}
  <2>1. Has2(q) /\ Has3(q) /\ 4 <= q.lenLimit
    BY <1>9 DEF Has2, Has3, MinLen
  <2>2. CASE near3 /\ near2
    <3>1. Quick(q) = [maxLen |-> len3,
                      pairs |-> << <<2, delta2 - 1>> >> \o << <<len3, delta3 - 1>> >>]
      BY <1>9, <2>2 DEF Quick
    <3>2. /\ m2 \in E /\ Near(q, i, m2) /\ i - m2 = delta2 /\ Equal(d, m2, i, 2)
          /\ \A x \in E : Near(q, i, x) /\ Hash2At(d, x) = Hash2At(d, i) => delta2 <= i - x
      BY <1>4, <2>1, <2>2
    <3>3. /\ m3 \in E /\ Near(q, i, m3) /\ i - m3 = delta3 /\ Hash3At(d, m3) = Hash3At(d, i)
          /\ IsLength(d, m3, i, q.lenLimit, len3) /\ 3 <= len3 /\ len3 \in Nat
              /\ len3 <= q.lenLimit
          /\ \A x \in E : Near(q, i, x) /\ Hash3At(d, x) = Hash3At(d, i) => delta3 <= i - x
      BY <1>5, <2>1, <2>2
    <3>4. Beyond(q, d, i, E, len3, i - m3)
      BY <1>7, <2>1, <2>2
    <3>5. delta3 # delta2
      BY <2>2
    <3> HIDE DEF m2, len2, delta2, m3, len3, delta3, near2, near3
    <3>6. m2 \in Nat /\ m3 \in Nat /\ d \in Streams /\ i + 3 <= StreamLen
            /\ m2 + 3 <= StreamLen /\ m3 + 3 <= StreamLen
      BY <1>1, <2>1, <3>2, <3>3, LimitNumbers DEF Near, Ready
    <3>7. Hash2At(d, m3) = Hash2At(d, i)
      BY <1>1, <3>3, <3>6, HashAgrees
    <3>8. delta2 <= i - m3
      BY <3>2, <3>3, <3>7
    <3>9. m3 < m2
      BY <1>1, <3>2, <3>3, <3>5, <3>6, <3>8
    <3>10. Hash3At(d, m2) # Hash3At(d, i)
      <4> SUFFICES ASSUME Hash3At(d, m2) = Hash3At(d, i) PROVE FALSE
        OBVIOUS
      <4>1. delta3 <= i - m2
        BY <3>2, <3>3
      <4> QED BY <1>1, <3>2, <3>3, <3>6, <3>9, <4>1
    <3>11. d[m2 + 3] # d[i + 3]
      BY <1>1, <3>2, <3>6, <3>10, HashAgrees
    <3>12. IsLength(d, m2, i, q.lenLimit, 2)
      <4>1. m2 + 2 + 1 = m2 + 3 /\ i + 2 + 1 = i + 3 /\ 2 \in 0 .. q.lenLimit
        BY <1>1, <2>1, <3>6
      <4> QED BY <3>2, <3>11, <4>1 DEF IsLength
    <3>13. Quick(q).maxLen = len3
           /\ Quick(q).pairs = << <<2, (i - m2) - 1>> >> \o << <<len3, (i - m3) - 1>> >>
      BY <3>1, <3>2, <3>3
    <3>14. 2 < len3
      BY <3>3
    <3> QED BY <3>2, <3>3, <3>4, <3>9, <3>12, <3>13, <3>14, TwoPairs
  <2>3. CASE near3 /\ ~near2
    <3>1. Quick(q) = [maxLen |-> len3, pairs |-> <<>> \o << <<len3, delta3 - 1>> >>]
      BY <1>9, <2>3 DEF Quick
    <3>2. /\ Near(q, i, m3) /\ i - m3 = delta3 /\ len3 <= q.lenLimit
          /\ IsLength(d, m3, i, q.lenLimit, len3) /\ len3 \in Nat /\ len3 <= len3
      BY <1>5, <2>1, <2>3
    <3>3. Beyond(q, d, i, E, len3, i - m3)
      BY <1>7, <2>1, <2>3
    <3>4. <<>> \o << <<len3, delta3 - 1>> >> = << <<len3, delta3 - 1>> >>
      OBVIOUS
    <3> HIDE DEF m3, len3, delta3, near2, near3
    <3>5. Quick(q).maxLen = len3 /\ Quick(q).pairs = << <<len3, (i - m3) - 1>> >>
      BY <3>1, <3>2, <3>4
    <3> QED BY <3>2, <3>3, <3>5, OnePair
  <2>4. CASE ~near3 /\ near2
    <3>1. Quick(q) = [maxLen |-> Max2(len2, 3), pairs |-> << <<len2, delta2 - 1>> >>]
      BY <1>9, <2>4 DEF Quick
    <3>2. /\ Near(q, i, m2) /\ i - m2 = delta2 /\ len2 <= q.lenLimit
          /\ IsLength(d, m2, i, q.lenLimit, len2) /\ len2 \in Nat
      BY <1>4, <2>1, <2>4
    <3>3. Max2(len2, 3) \in Nat /\ len2 <= Max2(len2, 3) /\ Max2(len2, 3) <= q.lenLimit
      BY <1>1, <2>1, <3>2 DEF Max2
    <3>4. Beyond(q, d, i, E, Max2(len2, 3), i - m2)
      BY <1>6, <2>1, <2>4, <3>3
    <3> HIDE DEF m2, len2, delta2, near2, near3
    <3>5. Quick(q).maxLen = Max2(len2, 3) /\ Quick(q).pairs = << <<len2, (i - m2) - 1>> >>
      BY <3>1, <3>2
    <3> QED BY <3>2, <3>3, <3>4, <3>5, OnePair
  <2>5. CASE ~near3 /\ ~near2
    <3>1. Quick(q) = [maxLen |-> 3, pairs |-> <<>>]
      BY <1>9, <2>5 DEF Quick
    <3>2. 3 < q.lenLimit
      BY <1>1, <2>1
    <3> QED BY <1>1, <3>1, <3>2, NoPair
  <2> QED BY <2>2, <2>3, <2>4, <2>5
<1> QED BY <1>1, <1>2, <1>3, <1>8, <1>9 DEF Kinds

-----------------------------------------------------------------------------
(* The ring *)

\* Positions of the ring have slots of their own.
LEMMA Slots ==
  ASSUME NEW q, q.cyclicBufferPos \in Nat, q.cyclicBufferSize \in Nat,
         q.cyclicBufferPos < q.cyclicBufferSize,
         NEW a \in Int, 0 <= a, a < q.cyclicBufferSize
  PROVE  /\ Slot(q, a) \in 0 .. q.cyclicBufferSize - 1
         /\ Slot(q, 0) = q.cyclicBufferPos
         /\ \A b \in Int : 0 <= b /\ b < q.cyclicBufferSize /\ Slot(q, a) = Slot(q, b) => a = b
<1> DEFINE n == q.cyclicBufferPos  c == q.cyclicBufferSize
<1>1. \A b \in Int : Slot(q, b) = n - b + (IF b > n THEN c ELSE 0)
  BY DEF Slot
<1>2. n \in Nat /\ c \in Nat /\ n < c
  OBVIOUS
<1> HIDE DEF n, c
<1> SUFFICES /\ Slot(q, a) \in 0 .. c - 1
             /\ Slot(q, 0) = n
             /\ \A b \in Int : 0 <= b /\ b < c /\ Slot(q, a) = Slot(q, b) => a = b
  BY DEF n, c
<1>3. 0 <= a /\ a < c
  BY DEF c
<1> QED BY <1>1, <1>2, <1>3

\* Where the array of the references lies.
LEMMA Sons ==
  ASSUME NEW q, NEW d, NEW i, Ready(q, d, i)
  PROVE  /\ q.son = q.hashSizeSum /\ q.hashSizeSum \in Nat /\ q.hash \in Arrays
         /\ IsBt(q) => DOMAIN q.hash = 0 .. q.hashSizeSum + 2 * q.cyclicBufferSize - 1
         /\ ~IsBt(q) => DOMAIN q.hash = 0 .. q.hashSizeSum + q.cyclicBufferSize - 1
         /\ \A n \in DOMAIN q.hash : q.hash[n] \in Nat
BY Numbers DEF Ready, Shape

\* The cells of a tree: one for each side of each position of the ring.
LEMMA TreeCells ==
  ASSUME NEW q, NEW d, NEW i, Ready(q, d, i), IsBt(q),
         NEW x \in Int, x <= i, i - x < q.cyclicBufferSize, NEW b \in Sides
  PROVE  /\ Cell(q, i, x, b) \in DOMAIN q.hash
         /\ Cell(q, i, x, b) \in Int /\ Cell(q, i, x, b) >= q.hashSizeSum
         /\ Cell(q, i, i, b) = q.son + 2 * q.cyclicBufferPos + b
         /\ \A y \in Int : \A e \in Sides :
              y <= i /\ i - y < q.cyclicBufferSize /\ Cell(q, i, x, b) = Cell(q, i, y, e) =>
                x = y /\ b = e
<1>1. /\ i \in Nat /\ q.cyclicBufferPos \in Nat /\ q.cyclicBufferSize \in Nat
      /\ q.cyclicBufferPos < q.cyclicBufferSize
  BY LimitNumbers
<1>2. /\ q.son = q.hashSizeSum /\ q.hashSizeSum \in Nat
      /\ DOMAIN q.hash = 0 .. q.hashSizeSum + 2 * q.cyclicBufferSize - 1
  BY Sons
<1>3. i - x \in Int /\ 0 <= i - x /\ i - x < q.cyclicBufferSize /\ i - i = 0
  BY <1>1
<1>4. /\ Slot(q, i - x) \in 0 .. q.cyclicBufferSize - 1 /\ Slot(q, i - i) = q.cyclicBufferPos
      /\ \A a \in Int : 0 <= a /\ a < q.cyclicBufferSize /\ Slot(q, i - x) = Slot(q, a)
          => i - x = a
  BY <1>1, <1>3, Slots
<1>9. b = 0 \/ b = 1
  BY DEF Sides
<1>5. Cell(q, i, x, b) = q.son + 2 * Slot(q, i - x) + b
  BY DEF Cell
<1>6. Cell(q, i, i, b) = q.son + 2 * q.cyclicBufferPos + b
  BY <1>4 DEF Cell
<1>7. /\ Cell(q, i, x, b) \in DOMAIN q.hash
      /\ Cell(q, i, x, b) \in Int /\ Cell(q, i, x, b) >= q.hashSizeSum
  <2> DEFINE s == Slot(q, i - x)  n == q.hashSizeSum  c == q.cyclicBufferSize
  <2>1. s \in Nat /\ s < c /\ n \in Nat /\ c \in Nat
    BY <1>1, <1>2, <1>4
  <2>2. Cell(q, i, x, b) = n + 2 * s + b /\ DOMAIN q.hash = 0 .. n + 2 * c - 1
    BY <1>2, <1>5
  <2> HIDE DEF s, n, c
  <2>3. n + 2 * s + b \in 0 .. n + 2 * c - 1 /\ n + 2 * s + b >= n
    BY <1>9, <2>1
  <2> QED BY <2>2, <2>3 DEF n
<1>8. ASSUME NEW y \in Int, NEW e \in Sides, y <= i, i - y < q.cyclicBufferSize,
             Cell(q, i, x, b) = Cell(q, i, y, e)
      PROVE  x = y /\ b = e
  <2>1. i - y \in Int /\ 0 <= i - y /\ i - y < q.cyclicBufferSize
    BY <1>1, <1>8
  <2>2. Slot(q, i - y) \in 0 .. q.cyclicBufferSize - 1
    BY <1>1, <2>1, Slots
  <2>3. q.son + 2 * Slot(q, i - x) + b = q.son + 2 * Slot(q, i - y) + e
    BY <1>8 DEF Cell
  <2> DEFINE s == Slot(q, i - x)  t == Slot(q, i - y)  n == q.son
  <2>4. n + 2 * s + b = n + 2 * t + e /\ s \in Nat /\ t \in Nat /\ n \in Nat
    BY <1>1, <1>2, <1>4, <2>2, <2>3
  <2> HIDE DEF s, t, n
  <2>5. b = 0 \/ b = 1
    BY DEF Sides
  <2>6. e = 0 \/ e = 1
    BY DEF Sides
  <2>7. s = t /\ b = e
    BY <2>4, <2>5, <2>6
  <2>8. i - x = i - y
    BY <1>4, <2>1, <2>7 DEF s, t
  <2> QED BY <1>1, <2>7, <2>8
<1> QED BY <1>6, <1>7, <1>8

\* The cells of the chains: one for each position of the ring.
LEMMA ChainCells ==
  ASSUME NEW q, NEW d, NEW i, Ready(q, d, i), ~IsBt(q),
         NEW x \in Int, x <= i, i - x < q.cyclicBufferSize
  PROVE  /\ q.son + Slot(q, i - x) \in DOMAIN q.hash
         /\ q.son + Slot(q, i - x) \in Int /\ q.son + Slot(q, i - x) >= q.hashSizeSum
         /\ q.son + q.cyclicBufferPos \in DOMAIN q.hash /\ q.son + q.cyclicBufferPos \in Int
         /\ q.son + q.cyclicBufferPos >= q.hashSizeSum
         /\ q.son + Slot(q, i - x) = q.son + q.cyclicBufferPos <=> x = i
<1>1. /\ i \in Nat /\ q.cyclicBufferPos \in Nat /\ q.cyclicBufferSize \in Nat
      /\ q.cyclicBufferPos < q.cyclicBufferSize
  BY LimitNumbers
<1>2. /\ q.son = q.hashSizeSum /\ q.hashSizeSum \in Nat
      /\ DOMAIN q.hash = 0 .. q.hashSizeSum + q.cyclicBufferSize - 1
  BY Sons
<1>3. i - x \in Int /\ 0 <= i - x /\ i - x < q.cyclicBufferSize
  BY <1>1
<1>4. /\ Slot(q, i - x) \in 0 .. q.cyclicBufferSize - 1 /\ Slot(q, 0) = q.cyclicBufferPos
      /\ \A a \in Int : 0 <= a /\ a < q.cyclicBufferSize /\ Slot(q, i - x) = Slot(q, a)
          => i - x = a
  BY <1>1, <1>3, Slots
<1>5. Slot(q, i - x) = Slot(q, 0) <=> i - x = 0
  BY <1>1, <1>4
<1> QED BY <1>1, <1>2, <1>4, <1>5

-----------------------------------------------------------------------------
(* The searches *)

\* The states of a search.
Searches ==
  [hash : Arrays, curMatch : Nat, cut : Int, maxLen : Nat, pairs : Seq(Nat \X Nat),
   ptr0 : Nat, ptr1 : Nat, len0 : Nat, len1 : Nat, done : BOOLEAN]

\* Its pairs are real, they are longer than the m that the short tables gave, and the first
\* of them is a place that was filed.
Matching(q, d, i, E, m, w) ==
  /\ Answer(q, d, i, w.pairs)
  /\ m <= w.maxLen
  /\ w.pairs = <<>> => w.maxLen = m
  /\ w.pairs # <<>> =>
       /\ w.pairs[Len(w.pairs)][1] = w.maxLen
       /\ w.pairs[1][1] > m
       /\ \E x \in E : /\ Near(q, i, x) /\ w.pairs[1][2] + 1 = i - x
                       /\ IsLength(d, x, i, q.lenLimit, w.pairs[1][1])

\* What is at this distance lies behind all of them.
Farther(w, back) == w.pairs # <<>> => w.pairs[Len(w.pairs)][2] + 1 < back

\* The fields of a search.
LEMMA SearchFields ==
  ASSUME NEW w \in Searches
  PROVE  /\ w.hash \in Arrays /\ w.curMatch \in Nat /\ w.cut \in Int /\ w.maxLen \in Nat
         /\ w.pairs \in Seq(Nat \X Nat) /\ w.ptr0 \in Nat /\ w.ptr1 \in Nat
         /\ w.len0 \in Nat /\ w.len1 \in Nat /\ w.done \in BOOLEAN
BY DEF Searches

\* What Longer() leaves alone.
LEMMA LongerLeaves ==
  ASSUME NEW w \in Searches, NEW len \in Nat, NEW delta \in Nat, delta > 0
  PROVE  /\ Longer(w, len, delta) \in Searches
         /\ Longer(w, len, delta).hash = w.hash
         /\ Longer(w, len, delta).curMatch = w.curMatch
         /\ Longer(w, len, delta).cut = w.cut
         /\ Longer(w, len, delta).ptr0 = w.ptr0 /\ Longer(w, len, delta).ptr1 = w.ptr1
         /\ Longer(w, len, delta).len0 = w.len0 /\ Longer(w, len, delta).len1 = w.len1
         /\ Longer(w, len, delta).done = w.done
         /\ w.maxLen < len => /\ Longer(w, len, delta).maxLen = len
                              /\ Longer(w, len, delta).pairs = Append(w.pairs, <<len,
                                  delta - 1>>)
         /\ ~(w.maxLen < len) => /\ Longer(w, len, delta).maxLen = w.maxLen
                                 /\ Longer(w, len, delta).pairs = w.pairs
<1> DEFINE z == <<len, delta - 1>>
           n == Longer(w, len, delta)
<1>1. z \in Nat \X Nat
  OBVIOUS
<1>2. w.pairs \in Seq(Nat \X Nat) /\ w.maxLen \in Nat
  BY SearchFields
<1> HIDE DEF z
<1>3. Append(w.pairs, z) \in Seq(Nat \X Nat)
  BY <1>1, <1>2
<1> DEFINE ys == Append(w.pairs, z)
<1>4. n = IF w.maxLen < len THEN [w EXCEPT !.maxLen = len, !.pairs = ys] ELSE w
  BY DEF Longer, Searches, z
<1>5. ys \in Seq(Nat \X Nat)
  BY <1>3
<1> HIDE DEF ys, n
<1>6. CASE w.maxLen < len
  <2>1. n = [w EXCEPT !.maxLen = len, !.pairs = ys]
    BY <1>4, <1>6
  <2>2. /\ n \in Searches
        /\ n.hash = w.hash /\ n.curMatch = w.curMatch /\ n.cut = w.cut
        /\ n.ptr0 = w.ptr0 /\ n.ptr1 = w.ptr1 /\ n.len0 = w.len0 /\ n.len1 = w.len1
        /\ n.done = w.done /\ n.maxLen = len /\ n.pairs = ys
    BY <1>5, <2>1 DEF Searches
  <2> QED BY <1>6, <2>2 DEF n, ys, z
<1>7. CASE ~(w.maxLen < len)
  <2>1. n = w
    BY <1>4, <1>7
  <2> QED BY <1>7, <2>1 DEF n
<1> QED BY <1>6, <1>7

\* A match that was found is answered, when it is longer than all before it.
LEMMA LongerKeeps ==
  ASSUME NEW q, NEW d, NEW i, Ready(q, d, i), NEW E, NEW m \in Nat, NEW w \in Searches,
         Matching(q, d, i, E, m, w),
         NEW x \in E, Near(q, i, x), NEW len, IsLength(d, x, i, q.lenLimit, len),
         Farther(w, i - x)
  PROVE  /\ Matching(q, d, i, E, m, Longer(w, len, i - x))
         /\ \A back \in Int : back > i - x => Farther(Longer(w, len, i - x), back)
<1>1. len \in Nat /\ i \in Nat /\ x \in Nat /\ i - x \in Nat /\ i - x > 0 /\ w.maxLen \in Nat
  BY LimitNumbers, SearchFields DEF IsLength, Near
<1> DEFINE n == Longer(w, len, i - x)
           z == <<len, (i - x) - 1>>
<1>2. /\ w.maxLen < len => n.maxLen = len /\ n.pairs = Append(w.pairs, z)
      /\ ~(w.maxLen < len) => n.maxLen = w.maxLen /\ n.pairs = w.pairs
  <2> DEFINE delta == i - x
  <2>1. delta \in Nat /\ delta > 0
    BY <1>1
  <2> HIDE DEF delta
  <2>2. /\ w.maxLen < len => /\ Longer(w, len, delta).maxLen = len
                             /\ Longer(w, len, delta).pairs = Append(w.pairs, <<len,
                                 delta - 1>>)
        /\ ~(w.maxLen < len) => /\ Longer(w, len, delta).maxLen = w.maxLen
                                /\ Longer(w, len, delta).pairs = w.pairs
    BY <1>1, <2>1, LongerLeaves, ZenonT(60)
  <2> QED BY <2>2 DEF delta
<1>3. z \in Nat \X Nat /\ Real(q, d, i, z)
  BY NearIsReal
<1>4. z[1] = len /\ z[2] + 1 = i - x
  BY <1>1
<1> HIDE DEF n, z
<1>5. CASE w.maxLen < len
  <2>1. n.maxLen = len /\ n.pairs = Append(w.pairs, z)
    BY <1>2, <1>5
  <2>2. w.pairs \in Seq(Nat \X Nat) /\ Answer(q, d, i, w.pairs)
    BY SearchFields DEF Matching
  <2>3. w.pairs # <<>> => w.pairs[Len(w.pairs)][1] < z[1] /\ w.pairs[Len(w.pairs)][2] < z[2]
    <3>1. SUFFICES ASSUME w.pairs # <<>>
                   PROVE  w.pairs[Len(w.pairs)][1] < z[1] /\ w.pairs[Len(w.pairs)][2] < z[2]
      OBVIOUS
    <3>2. Len(w.pairs) \in 1 .. Len(w.pairs)
      BY <2>2, <3>1
    <3>3. w.pairs[Len(w.pairs)] \in Nat \X Nat
      BY <2>2, <3>2
    <3>4. w.pairs[Len(w.pairs)][2] \in Nat /\ z[2] \in Nat
      BY <1>3, <3>3
    <3>5. w.pairs[Len(w.pairs)][1] = w.maxLen
      BY <3>1 DEF Matching
    <3>6. w.pairs[Len(w.pairs)][2] + 1 < i - x
      BY <3>1 DEF Farther
    <3> QED BY <1>4, <1>5, <3>4, <3>5, <3>6
  <2>4. Answer(q, d, i, n.pairs)
    BY <1>3, <2>1, <2>2, <2>3, AnswerAppend
  <2>5. n.pairs # <<>> /\ n.pairs[Len(n.pairs)] = z
    BY <2>1, <2>2
  <2>6. n.pairs[1] = IF w.pairs = <<>> THEN z ELSE w.pairs[1]
    BY <2>1, <2>2
  <2>7. m <= w.maxLen /\ m < len
    BY <1>1, <1>5 DEF Matching
  <2>8. /\ n.pairs[1][1] > m
        /\ \E y \in E : /\ Near(q, i, y) /\ n.pairs[1][2] + 1 = i - y
                        /\ IsLength(d, y, i, q.lenLimit, n.pairs[1][1])
    <3>1. CASE w.pairs = <<>>
      <4>1. n.pairs[1] = z /\ z[1] = len /\ z[2] + 1 = i - x
        BY <1>4, <2>6, <3>1
      <4>2. n.pairs[1][1] = len /\ n.pairs[1][2] + 1 = i - x
        BY <4>1
      <4> QED BY <1>1, <2>7, <4>2
    <3>2. CASE w.pairs # <<>>
      <4>1. n.pairs[1] = w.pairs[1]
        BY <2>6, <3>2
      <4> QED BY <3>2, <4>1 DEF Matching
    <3> QED BY <3>1, <3>2
  <2>9. n.pairs[Len(n.pairs)][1] = n.maxLen /\ m <= n.maxLen
    BY <1>1, <1>4, <2>1, <2>5, <2>7
  <2>10. Matching(q, d, i, E, m, n)
    BY <2>4, <2>5, <2>8, <2>9 DEF Matching
  <2>11. \A back \in Int : back > i - x => Farther(n, back)
    BY <1>1, <1>4, <2>5 DEF Farther
  <2> QED BY <2>10, <2>11 DEF n
<1>6. CASE ~(w.maxLen < len)
  <2>1. n.maxLen = w.maxLen /\ n.pairs = w.pairs
    BY <1>2, <1>6
  <2>2. Matching(q, d, i, E, m, n)
    BY <2>1 DEF Matching
  <2>3. \A back \in Int : back > i - x => Farther(n, back)
    <3>1. SUFFICES ASSUME NEW back \in Int, back > i - x, n.pairs # <<>>
                   PROVE  n.pairs[Len(n.pairs)][2] + 1 < back
      BY DEF Farther
    <3>2. w.pairs \in Seq(Nat \X Nat)
      BY SearchFields
    <3>3. Len(w.pairs) \in 1 .. Len(w.pairs)
      BY <2>1, <3>1, <3>2
    <3>4. w.pairs[Len(w.pairs)] \in Nat \X Nat
      BY <3>2, <3>3
    <3>5. w.pairs[Len(w.pairs)][2] \in Nat
      BY <3>4
    <3>6. w.pairs[Len(w.pairs)][2] + 1 < i - x
      BY <2>1, <3>1 DEF Farther
    <3> QED BY <1>1, <2>1, <3>1, <3>5, <3>6
  <2> QED BY <2>2, <2>3 DEF n
<1> QED BY <1>5, <1>6

\* A reference that is not out of the history is that of a place that was filed.
LEMMA FollowedIs ==
  ASSUME NEW q, NEW d, NEW i, Ready(q, d, i), NEW E, Entrants(q, d, i, E),
         NEW r, RefOK(q, i, E, r), ~OutOfHistory(q, q.pos - r)
  PROVE  /\ Index(q, i, r) \in E /\ Near(q, i, Index(q, i, r)) /\ Index(q, i, r) \in Nat
         /\ q.pos - r = i - Index(q, i, r) /\ Live(q, r)
<1>1. i \in Nat /\ q.pos \in Nat /\ q.cyclicBufferSize \in Nat /\ r \in Nat
  BY LimitNumbers DEF RefOK
<1>2. Live(q, r) /\ 0 <= q.pos - r
  BY <1>1 DEF OutOfHistory, Live
<1>3. Index(q, i, r) \in E
  BY <1>2 DEF RefOK
<1>4. Index(q, i, r) \in 0 .. i - 1
  BY <1>3 DEF Entrants
<1>5. i - Index(q, i, r) = q.pos - r
  BY <1>1 DEF Index
<1>6. Near(q, i, Index(q, i, r))
  BY <1>1, <1>2, <1>4, <1>5 DEF Near, Live
<1> QED BY <1>2, <1>3, <1>4, <1>5, <1>6

-----------------------------------------------------------------------------
(* The search of a chain *)

\* A search of a chain between two turns.
ChainAt(q, d, i, E, m, h, w) ==
  /\ w \in Searches /\ w.hash = h
  /\ Matching(q, d, i, E, m, w)
  /\ RefOK(q, i, E, w.curMatch)
  /\ Live(q, w.curMatch) => Farther(w, q.pos - w.curMatch)

\* One turn of its loop.
LEMMA ChainRoundKeeps ==
  ASSUME NEW q, NEW d, NEW i, Ready(q, d, i), NEW E, Entrants(q, d, i, E), NEW m \in Nat,
         NEW h, ChainOK(q, h, i, E), NEW w, ChainAt(q, d, i, E, m, h, w)
  PROVE  ChainAt(q, d, i, E, m, h, ChainRound(q, w))
<1> DEFINE n == ChainRound(q, w)
           delta == q.pos - w.curMatch
           len == Agree(q, delta, 0)
           longer == Same(q, w.maxLen - delta, w.maxLen) /\ w.maxLen < len
           next == IF longer THEN Longer(w, len, delta) ELSE w
           follow == h[q.son + Slot(q, delta)]
<1>1. w \in Searches /\ w.hash = h /\ w.done \in BOOLEAN
  BY SearchFields DEF ChainAt
<1>2. CASE w.done
  BY <1>2 DEF ChainRound
<1>3. CASE ~w.done /\ (w.cut = 0 \/ OutOfHistory(q, delta))
  <2>1. n = [w EXCEPT !.done = TRUE]
    BY <1>3 DEF ChainRound
  <2>2. n \in Searches /\ n.hash = w.hash /\ n.pairs = w.pairs /\ n.maxLen = w.maxLen
        /\ n.curMatch = w.curMatch
    BY <1>1, <2>1 DEF Searches
  <2> HIDE DEF n
  <2> QED BY <2>2 DEF ChainAt, Matching, Farther, n
<1>4. CASE ~w.done /\ ~(w.cut = 0 \/ OutOfHistory(q, delta))
  <2> DEFINE x == Index(q, i, w.curMatch)
  <2>1. /\ x \in E /\ Near(q, i, x) /\ x \in Nat /\ delta = i - x /\ Live(q, w.curMatch)
    BY <1>4, FollowedIs DEF ChainAt
  <2>2. IsLength(d, x, i, q.lenLimit, len)
    <3>1. 0 \in 0 .. q.lenLimit /\ Equal(d, x, i, 0)
      BY LimitNumbers DEF Equal
    <3> HIDE DEF x, delta
    <3>2. IsLength(d, x, i, q.lenLimit, Agree(q, i - x, 0))
      BY <2>1, <3>1, AgreeIs
    <3> QED BY <2>1, <3>2
  <2>3. n = [next EXCEPT !.cut = @ - 1, !.curMatch = follow, !.done = longer
          /\ len = q.lenLimit]
    BY <1>1, <1>4 DEF ChainRound
  <2>4. RefOK(q, i, E, follow) /\ q.pos - follow > delta
    <3>1. i - x < q.cyclicBufferSize
      BY <2>1 DEF Near
    <3>2. RefOK(q, i, E, h[q.son + Slot(q, i - x)]) /\ q.pos - h[q.son + Slot(q, i - x)] > i - x
      <4> HIDE DEF x
      <4> QED BY <2>1, <3>1 DEF ChainOK
    <3> HIDE DEF x, delta
    <3> QED BY <2>1, <3>2
  <2>5. follow \in Nat /\ q.pos \in Nat /\ i \in Nat /\ len \in Nat /\ w.curMatch \in Nat
    BY <1>1, <2>2, <2>4, LimitNumbers, SearchFields DEF RefOK, IsLength
  <2>6. delta \in Nat /\ delta > 0 /\ delta \in Int /\ q.pos - follow \in Int
    BY <2>1, <2>5 DEF Near
  <2>7. Farther(w, delta)
    BY <2>1 DEF ChainAt
  <2> HIDE DEF x, delta, len, follow
  <2>8. /\ next \in Searches /\ next.hash = h /\ next.cut \in Int
        /\ Matching(q, d, i, E, m, next)
        /\ \A back \in Int : back > delta => Farther(next, back)
    <3>1. /\ Longer(w, len, delta) \in Searches /\ Longer(w, len, delta).hash = w.hash
      <4>1. w \in Searches /\ len \in Nat /\ delta \in Nat /\ delta > 0
        BY <1>1, <2>5, <2>6
      <4> QED BY <4>1, LongerLeaves, ZenonT(60)
    <3>2. Matching(q, d, i, E, m, w)
      BY DEF ChainAt
    <3>3. /\ Matching(q, d, i, E, m, Longer(w, len, delta))
          /\ \A back \in Int : back > delta => Farther(Longer(w, len, delta), back)
      <4>1. Farther(w, i - x)
        BY <2>1, <2>7
      <4>2. /\ Matching(q, d, i, E, m, Longer(w, len, i - x))
            /\ \A back \in Int : back > i - x => Farther(Longer(w, len, i - x), back)
        BY <1>1, <2>1, <2>2, <3>2, <4>1, LongerKeeps
      <4> QED BY <2>1, <4>2
    <3>4. \A back \in Int : back > delta => Farther(w, back)
      <4>1. SUFFICES ASSUME NEW back \in Int, back > delta, w.pairs # <<>>
                     PROVE  w.pairs[Len(w.pairs)][2] + 1 < back
        BY DEF Farther
      <4>2. w.pairs \in Seq(Nat \X Nat)
        BY <1>1, SearchFields
      <4>3. Len(w.pairs) \in 1 .. Len(w.pairs)
        BY <4>1, <4>2
      <4>4. w.pairs[Len(w.pairs)] \in Nat \X Nat
        BY <4>2, <4>3
      <4>5. w.pairs[Len(w.pairs)][2] \in Nat /\ w.pairs[Len(w.pairs)][2] + 1 < delta
        BY <2>7, <4>1, <4>4 DEF Farther
      <4> QED BY <2>6, <4>1, <4>5
    <3> HIDE DEF longer
    <3>5. CASE longer
      <4>1. next = Longer(w, len, delta)
        BY <3>5
      <4> HIDE DEF next
      <4> QED BY <1>1, <3>1, <3>3, <4>1, SearchFields
    <3>6. CASE ~longer
      <4>1. next = w
        BY <3>6
      <4> HIDE DEF next
      <4> QED BY <1>1, <3>2, <3>4, <4>1, SearchFields
    <3> QED BY <3>5, <3>6
  <2> DEFINE done == longer /\ len = q.lenLimit
             cut == next.cut - 1
  <2>9. n = [next EXCEPT !.cut = cut, !.curMatch = follow, !.done = done] /\ done \in BOOLEAN
    BY <1>1, <2>3, <2>8 DEF Searches
  <2>14. cut \in Int
    <3> HIDE DEF next
    <3> QED BY <2>8
  <2> HIDE DEF n, next, done, longer, cut
  <2>10. n \in Searches /\ n.hash = next.hash /\ n.pairs = next.pairs /\ n.maxLen = next.maxLen
         /\ n.curMatch = follow
    BY <2>5, <2>8, <2>9, <2>14 DEF Searches
  <2>11. Matching(q, d, i, E, m, n)
    BY <2>8, <2>10 DEF Matching
  <2>12. Farther(n, q.pos - follow)
    BY <2>4, <2>6, <2>8, <2>10 DEF Farther
  <2>13. ChainAt(q, d, i, E, m, h, n)
    BY <2>4, <2>8, <2>10, <2>11, <2>12 DEF ChainAt
  <2> QED BY <2>13 DEF n
<1> HIDE DEF n
<1> QED BY <1>2, <1>3, <1>4 DEF n

-----------------------------------------------------------------------------
(* Loops, as functions of the number of their rounds *)

\* What a loop keeps from round to round holds after every one.
LEMMA UpToAll ==
  ASSUME NEW n \in Nat, NEW T, 0 \in T, \A i \in 1 .. n : i - 1 \in T => i \in T
  PROVE  \A i \in 0 .. n : i \in T
<1> DEFINE U == {i \in 0 .. n : i \notin T}
<1>1. ASSUME NEW i \in U, \A k \in U : i <= k PROVE FALSE
  <2>1. i # 0 /\ i \in 1 .. n /\ i - 1 \in 0 .. n /\ ~(i <= i - 1)
    OBVIOUS
  <2>2. i - 1 \notin U
    BY <1>1, <2>1
  <2>3. i - 1 \in T
    BY <2>1, <2>2
  <2> QED BY <2>1, <2>3
<1>2. U \subseteq Nat
  OBVIOUS
<1>3. U = {}
  <2> HIDE DEF U
  <2> QED BY <1>1, <1>2, LeastNumber
<1> QED BY <1>3

\* A loop of n rounds that begins with x; step says what a round makes of the number of
\* rounds before it and the state they left.
Rounds(f, n, x, step) == f = [i \in 0 .. n |-> IF i = 0 THEN x ELSE step[<<i - 1, f[i - 1]>>]]

\* There is the function that says what every number of rounds leaves, and it stays in P.
LEMMA RoundsExist ==
  ASSUME NEW n \in Nat, NEW P, NEW x, <<0, x>> \in P, NEW step,
         \A i \in 1 .. n : \A s : <<i - 1, s>> \in P => <<i, step[<<i - 1, s>>]>> \in P
  PROVE  \E f : Rounds(f, n, x, step) /\ \A i \in 0 .. n : <<i, f[i]>> \in P
<1> DEFINE Good(f, m) ==
             /\ f = [i \in 0 .. m |-> IF i = 0 THEN x ELSE step[<<i - 1, f[i - 1]>>]]
             /\ \A i \in 0 .. m : <<i, f[i]>> \in P
           T == {m \in Nat : \E f : Good(f, m)}
<1>1. 0 \in T
  <2> DEFINE g == [i \in 0 .. 0 |-> x]
  <2>1. \A i \in 0 .. 0 : i = 0 /\ g[i] = x
    OBVIOUS
  <2>2. g = [i \in 0 .. 0 |-> IF i = 0 THEN x ELSE step[<<i - 1, g[i - 1]>>]]
    BY <2>1
  <2>3. \A i \in 0 .. 0 : <<i, g[i]>> \in P
    BY <2>1
  <2>4. Good(g, 0)
    <3> HIDE DEF g
    <3> QED BY <2>2, <2>3
  <2> QED BY <2>4
<1>2. ASSUME NEW m \in 1 .. n, m - 1 \in T PROVE m \in T
  <2>1. PICK f : Good(f, m - 1)
    BY <1>2
  <2> DEFINE y == step[<<m - 1, f[m - 1]>>]
             g == [i \in 0 .. m |-> IF i = m THEN y ELSE f[i]]
  <2>2. \A i \in 0 .. m - 1 : f[i] = IF i = 0 THEN x ELSE step[<<i - 1, f[i - 1]>>]
    BY <2>1
  <2>3. m \in Nat /\ m # 0 /\ m - 1 \in 0 .. m - 1
    OBVIOUS
  <2>4. <<m - 1, f[m - 1]>> \in P
    BY <2>1, <2>3
  <2>5. <<m, y>> \in P
    BY <2>4
  <2>6. g[m] = y /\ \A i \in 0 .. m - 1 : g[i] = f[i]
    OBVIOUS
  <2>7. \A i \in 0 .. m : g[i] = IF i = 0 THEN x ELSE step[<<i - 1, g[i - 1]>>]
    <3>1. SUFFICES ASSUME NEW i \in 0 .. m
                   PROVE  g[i] = IF i = 0 THEN x ELSE step[<<i - 1, g[i - 1]>>]
      OBVIOUS
    <3> HIDE DEF g
    <3>2. CASE i = m
      BY <2>3, <2>6, <3>2
    <3>3. CASE i # m
      <4>1. i \in 0 .. m - 1 /\ (i # 0 => i - 1 \in 0 .. m - 1)
        BY <3>3
      <4> QED BY <2>2, <2>6, <4>1
    <3> QED BY <3>2, <3>3
  <2>8. g = [i \in 0 .. m |-> g[i]]
    OBVIOUS
  <2>9. \A i \in 0 .. m : <<i, g[i]>> \in P
    <3>1. SUFFICES ASSUME NEW i \in 0 .. m PROVE <<i, g[i]>> \in P
      OBVIOUS
    <3> HIDE DEF g
    <3>2. i = m \/ i \in 0 .. m - 1
      OBVIOUS
    <3> HIDE DEF y
    <3> QED BY <2>1, <2>5, <2>6, <3>2
  <2>10. Good(g, m)
    <3> HIDE DEF g
    <3> QED BY <2>7, <2>8, <2>9
  <2> QED BY <2>3, <2>10
<1>3. n \in T
  <2> HIDE DEF T
  <2> QED BY <1>1, <1>2, UpToAll
<1> QED BY <1>3 DEF Rounds

\* What every number of turns leaves.
TreeSteps(f, q, w) == f = [k \in 0 .. CutValue + 1 |-> IF k = 0 THEN w ELSE TreeRound(q,
  f[k - 1])]
ChainSteps(f, q, w) == f = [k \in 0 .. CutValue + 1 |-> IF k = 0 THEN w ELSE ChainRound(q,
  f[k - 1])]

\* The loop of Hc_GetMatchesSpec().
Chased(q, w) ==
  LET r[k \in 0 .. CutValue + 1] == IF k = 0 THEN w ELSE ChainRound(q, r[k - 1])
  IN  r[CutValue + 1]

\* What each turn keeps, the search of a tree keeps ...
LEMMA TreeLoop ==
  ASSUME NEW q, NEW w, NEW P, <<0, w>> \in P,
         \A k \in 1 .. CutValue + 1 : \A s :
            <<k - 1, s>> \in P => <<k, TreeRound(q, s)>> \in P
  PROVE  <<CutValue + 1, GetMatchesSpec1(q, w)>> \in P
<1> DEFINE n == CutValue + 1
           step == [z \in P |-> TreeRound(q, z[2])]
           g == CHOOSE f : TreeSteps(f, q, w)
<1>1. n \in Nat
  BY SettingsAssumption
<1>2. GetMatchesSpec1(q, w) = g[n]
  BY DEF GetMatchesSpec1, TreeSteps
<1>3. \A k \in 1 .. n : \A s : <<k - 1, s>> \in P =>
        step[<<k - 1, s>>] = TreeRound(q, s) /\ <<k, step[<<k - 1, s>>]>> \in P
  OBVIOUS
<1>4. \A k \in 0 .. n : TRUE
  OBVIOUS
<1> HIDE DEF step
<1>5. PICK f : Rounds(f, n, w, step) /\ \A k \in 0 .. n : <<k, f[k]>> \in P
  <2> HIDE DEF n
  <2> QED BY <1>1, <1>3, RoundsExist
<1>6. TreeSteps(f, q, w)
  <2>1. ASSUME NEW k \in 0 .. n, k # 0 PROVE step[<<k - 1, f[k - 1]>>] = TreeRound(q, f[k - 1])
    <3>1. k - 1 \in 0 .. n /\ k \in 1 .. n
      BY <1>1, <2>1
    <3>2. <<k - 1, f[k - 1]>> \in P
      BY <1>5, <3>1
    <3> QED BY <1>3, <3>1, <3>2
  <2>2. f = [k \in 0 .. n |-> IF k = 0 THEN w ELSE step[<<k - 1, f[k - 1]>>]]
    BY <1>5 DEF Rounds
  <2>3. \A k \in 0 .. n : (IF k = 0 THEN w ELSE step[<<k - 1, f[k - 1]>>])
                            = (IF k = 0 THEN w ELSE TreeRound(q, f[k - 1]))
    BY <2>1
  <2>4. [k \in 0 .. n |-> IF k = 0 THEN w ELSE step[<<k - 1, f[k - 1]>>]]
          = [k \in 0 .. n |-> IF k = 0 THEN w ELSE TreeRound(q, f[k - 1])]
    BY <2>3
  <2> QED BY <2>2, <2>4 DEF TreeSteps
<1>7. TreeSteps(g, q, w)
  BY <1>6, Zenon
<1> HIDE DEF g
<1>8. \A k \in 0 .. n : g[k] = IF k = 0 THEN w ELSE TreeRound(q, g[k - 1])
  BY <1>7 DEF TreeSteps
<1> DEFINE T == {k \in 0 .. n : <<k, g[k]>> \in P}
<1>9. 0 \in T
  <2>1. 0 \in 0 .. n /\ g[0] = w
    BY <1>1, <1>8
  <2> QED BY <2>1
<1>10. \A k \in 1 .. n : k - 1 \in T => k \in T
  <2>1. \A k \in 1 .. n : k \in 0 .. n /\ k # 0
    OBVIOUS
  <2>2. \A k \in 1 .. n : g[k] = TreeRound(q, g[k - 1])
    BY <1>8, <2>1
  <2>3. ASSUME NEW k \in 1 .. n, k - 1 \in T PROVE k \in T
    <3>1. <<k - 1, g[k - 1]>> \in P
      BY <2>3
    <3>2. <<k, TreeRound(q, g[k - 1])>> \in P
      BY <3>1
    <3> QED BY <2>1, <2>2, <3>2
  <2> QED BY <2>3
<1>11. \A k \in 0 .. n : k \in T
  <2> HIDE DEF T, n
  <2> QED BY <1>1, <1>9, <1>10, UpToAll
<1>12. n \in 0 .. n
  BY <1>1
<1> QED BY <1>2, <1>11, <1>12

\* ... and that of a chain.
LEMMA ChainLoop ==
  ASSUME NEW q, NEW w, NEW P, <<0, w>> \in P,
         \A k \in 1 .. CutValue + 1 : \A s :
            <<k - 1, s>> \in P => <<k, ChainRound(q, s)>> \in P
  PROVE  <<CutValue + 1, Chased(q, w)>> \in P
<1> DEFINE n == CutValue + 1
           step == [z \in P |-> ChainRound(q, z[2])]
           g == CHOOSE f : ChainSteps(f, q, w)
<1>1. n \in Nat
  BY SettingsAssumption
<1>2. Chased(q, w) = g[n]
  BY DEF Chased, ChainSteps
<1>3. \A k \in 1 .. n : \A s : <<k - 1, s>> \in P =>
        step[<<k - 1, s>>] = ChainRound(q, s) /\ <<k, step[<<k - 1, s>>]>> \in P
  OBVIOUS
<1>4. \A k \in 0 .. n : TRUE
  OBVIOUS
<1> HIDE DEF step
<1>5. PICK f : Rounds(f, n, w, step) /\ \A k \in 0 .. n : <<k, f[k]>> \in P
  <2> HIDE DEF n
  <2> QED BY <1>1, <1>3, RoundsExist
<1>6. ChainSteps(f, q, w)
  <2>1. ASSUME NEW k \in 0 .. n, k # 0 PROVE step[<<k - 1, f[k - 1]>>] = ChainRound(q, f[k - 1])
    <3>1. k - 1 \in 0 .. n /\ k \in 1 .. n
      BY <1>1, <2>1
    <3>2. <<k - 1, f[k - 1]>> \in P
      BY <1>5, <3>1
    <3> QED BY <1>3, <3>1, <3>2
  <2>2. f = [k \in 0 .. n |-> IF k = 0 THEN w ELSE step[<<k - 1, f[k - 1]>>]]
    BY <1>5 DEF Rounds
  <2>3. \A k \in 0 .. n : (IF k = 0 THEN w ELSE step[<<k - 1, f[k - 1]>>])
                            = (IF k = 0 THEN w ELSE ChainRound(q, f[k - 1]))
    BY <2>1
  <2>4. [k \in 0 .. n |-> IF k = 0 THEN w ELSE step[<<k - 1, f[k - 1]>>]]
          = [k \in 0 .. n |-> IF k = 0 THEN w ELSE ChainRound(q, f[k - 1])]
    BY <2>3
  <2> QED BY <2>2, <2>4 DEF ChainSteps
<1>7. ChainSteps(g, q, w)
  BY <1>6, Zenon
<1> HIDE DEF g
<1>8. \A k \in 0 .. n : g[k] = IF k = 0 THEN w ELSE ChainRound(q, g[k - 1])
  BY <1>7 DEF ChainSteps
<1> DEFINE T == {k \in 0 .. n : <<k, g[k]>> \in P}
<1>9. 0 \in T
  <2>1. 0 \in 0 .. n /\ g[0] = w
    BY <1>1, <1>8
  <2> QED BY <2>1
<1>10. \A k \in 1 .. n : k - 1 \in T => k \in T
  <2>1. \A k \in 1 .. n : k \in 0 .. n /\ k # 0
    OBVIOUS
  <2>2. \A k \in 1 .. n : g[k] = ChainRound(q, g[k - 1])
    BY <1>8, <2>1
  <2>3. ASSUME NEW k \in 1 .. n, k - 1 \in T PROVE k \in T
    <3>1. <<k - 1, g[k - 1]>> \in P
      BY <2>3
    <3>2. <<k, ChainRound(q, g[k - 1])>> \in P
      BY <3>1
    <3> QED BY <2>1, <2>2, <3>2
  <2> QED BY <2>3
<1>11. \A k \in 0 .. n : k \in T
  <2> HIDE DEF T, n
  <2> QED BY <1>1, <1>9, <1>10, UpToAll
<1>12. n \in 0 .. n
  BY <1>1
<1> QED BY <1>2, <1>11, <1>12

-----------------------------------------------------------------------------
(* Filing a position *)

\* Arrays are functions on 0 .. n.
LEMMA ArrayIs ==
  ASSUME NEW a \in Arrays
  PROVE  \E n \in Nat : a \in [0 .. n -> Int] /\ DOMAIN a = 0 .. n
<1>1. PICK n \in Nat : a \in [0 .. n -> Int]
  BY DEF Arrays
<1> QED BY <1>1

\* ... and functions on 0 .. n are arrays ...
LEMMA ArrayOf ==
  ASSUME NEW a \in Arrays, NEW f, f = [k \in DOMAIN a |-> f[k]],
           \A k \in DOMAIN a : f[k] \in Int
  PROVE  f \in Arrays /\ DOMAIN f = DOMAIN a
<1>1. PICK n \in Nat : a \in [0 .. n -> Int] /\ DOMAIN a = 0 .. n
  BY ArrayIs
<1>2. f \in [0 .. n -> Int] /\ DOMAIN f = 0 .. n
  BY <1>1
<1> QED BY <1>1, <1>2 DEF Arrays

\* ... that stay arrays when a cell is set.
LEMMA ArrayExcept ==
  ASSUME NEW a \in Arrays, NEW k \in DOMAIN a, NEW v \in Int
  PROVE  /\ [a EXCEPT ![k] = v] \in Arrays
         /\ DOMAIN [a EXCEPT ![k] = v] = DOMAIN a
         /\ [a EXCEPT ![k] = v][k] = v
         /\ \A n \in DOMAIN a : n # k => [a EXCEPT ![k] = v][n] = a[n]
<1>1. PICK n \in Nat : a \in [0 .. n -> Int] /\ DOMAIN a = 0 .. n
  BY ArrayIs
<1>2. [a EXCEPT ![k] = v] \in [0 .. n -> Int]
  BY <1>1
<1> QED BY <1>1, <1>2 DEF Arrays

\* The heads of the tables name the position, the rest of the array is as it was.
LEMMA FiledIs ==
  ASSUME NEW q, NEW d, NEW i, Ready(q, d, i), q.lenLimit >= MinLen(q)
  PROVE  /\ Filed(q).hash \in Arrays /\ DOMAIN Filed(q).hash = DOMAIN q.hash
         /\ \A n \in DOMAIN q.hash : Filed(q).hash[n] = IF n \in Heads(q) THEN q.pos
             ELSE q.hash[n]
         /\ \A n \in DOMAIN q.hash : n >= q.hashSizeSum => Filed(q).hash[n] = q.hash[n]
         /\ Filed(q) = [q EXCEPT !.hash = Filed(q).hash]
<1>1. q \in Finders /\ q.hash \in Arrays /\ q.pos \in Nat /\ q.hashSizeSum \in Nat
  BY Numbers DEF Ready
<1> DEFINE f == [n \in DOMAIN q.hash |-> IF n \in Heads(q) THEN q.pos ELSE q.hash[n]]
<1>2. Filed(q) = [q EXCEPT !.hash = f]
  BY <1>1 DEF Filed
<1>3. \A n \in DOMAIN q.hash : q.hash[n] \in Nat
  BY Sons
<1>4. \A n \in DOMAIN q.hash : f[n] \in Int
  BY <1>1, <1>3
<1>5. f = [n \in DOMAIN q.hash |-> f[n]]
  OBVIOUS
<1>6. \A n \in DOMAIN q.hash : f[n] = IF n \in Heads(q) THEN q.pos ELSE q.hash[n]
  OBVIOUS
<1> HIDE DEF f
<1>7. f \in Arrays /\ DOMAIN f = DOMAIN q.hash
  BY <1>1, <1>4, <1>5, ArrayOf
<1>8. Filed(q).hash = f
  BY <1>1, <1>2 DEF Finders
<1>9. Heads(q) \subseteq 0 .. q.hashSizeSum - 1
  BY HeadsAre
<1>10. \A n \in DOMAIN q.hash : n >= q.hashSizeSum => n \notin Heads(q)
  BY <1>1, <1>9
<1>11. Filed(q) = [q EXCEPT !.hash = Filed(q).hash]
  BY <1>2, <1>8
<1> QED BY <1>6, <1>7, <1>8, <1>10, <1>11

\* The head of the position, as it was.
LEMMA HeadIs ==
  ASSUME NEW q, NEW d, NEW i, Ready(q, d, i), q.lenLimit >= MinLen(q), NEW E, HeadsOK(q, i, E)
  PROVE  RefOK(q, i, E, q.hash[HashMain(q)]) /\ q.hash[HashMain(q)] \in Nat
<1>1. HashMain(q) \in 0 .. q.hashSizeSum - 1
  BY HeadsAre
<1> QED BY <1>1 DEF HeadsOK, RefOK

\* The array with the position at the head of its chain.
ChainFiled(q) == [Filed(q).hash EXCEPT ![q.son + q.cyclicBufferPos] = q.hash[HashMain(q)]]

\* What filing in a chain leaves.
LEMMA ChainFiledIs ==
  ASSUME NEW q, NEW d, NEW i, Ready(q, d, i), q.lenLimit >= MinLen(q), ~IsBt(q),
         NEW E, Entrants(q, d, i, E), HeadsOK(q, i, E), ChainOK(q, q.hash, i, E)
  PROVE  /\ ChainFiled(q) \in Arrays /\ DOMAIN ChainFiled(q) = DOMAIN q.hash
         /\ \A n \in DOMAIN q.hash : ChainFiled(q)[n] \in Nat
         /\ \A n \in DOMAIN q.hash : n < q.hashSizeSum => ChainFiled(q)[n] = Filed(q).hash[n]
         /\ ChainOK(q, ChainFiled(q), i, E)
         /\ ChainFiled(q)[q.son + q.cyclicBufferPos] = q.hash[HashMain(q)]
<1> DEFINE c == q.son + q.cyclicBufferPos
           f == Filed(q).hash
           v == q.hash[HashMain(q)]
           h == [f EXCEPT ![c] = v]
<1>1. i \in Nat /\ q.cyclicBufferSize \in Nat /\ q.cyclicBufferSize > 0 /\ q.pos \in Nat
  BY LimitNumbers
<1>2. i \in Int /\ i <= i /\ i - i < q.cyclicBufferSize
  BY <1>1
<1>3. c \in DOMAIN q.hash /\ c \in Int /\ c >= q.hashSizeSum
  BY <1>2, ChainCells
<1>4. /\ f \in Arrays /\ DOMAIN f = DOMAIN q.hash
      /\ \A n \in DOMAIN q.hash : f[n] = IF n \in Heads(q) THEN q.pos ELSE q.hash[n]
      /\ \A n \in DOMAIN q.hash : n >= q.hashSizeSum => f[n] = q.hash[n]
  BY FiledIs
<1>5. v \in Nat /\ v \in Int
  BY HeadIs
<1>6. /\ q.hashSizeSum \in Nat /\ \A n \in DOMAIN q.hash : q.hash[n] \in Nat
      /\ DOMAIN q.hash = 0 .. q.hashSizeSum + q.cyclicBufferSize - 1
  BY Sons
<1>7. ChainFiled(q) = h
  BY DEF ChainFiled
<1> HIDE DEF f, v, c
<1>8. /\ h \in Arrays /\ DOMAIN h = DOMAIN q.hash /\ h[c] = v
      /\ \A n \in DOMAIN q.hash : n # c => h[n] = f[n]
  BY <1>3, <1>4, <1>5, ArrayExcept
<1> HIDE DEF h
<1>9. \A n \in DOMAIN q.hash : h[n] \in Nat
  <2>1. \A n \in DOMAIN q.hash : f[n] \in Nat
    BY <1>1, <1>4, <1>6
  <2> QED BY <1>5, <1>8, <2>1
<1>10. \A n \in DOMAIN q.hash : n < q.hashSizeSum => h[n] = f[n]
  BY <1>3, <1>6, <1>8
<1>11. ChainOK(q, h, i, E)
  <2>1. SUFFICES ASSUME NEW x \in E, i - x < q.cyclicBufferSize
                 PROVE  h[q.son + Slot(q, i - x)] = q.hash[q.son + Slot(q, i - x)]
    BY DEF ChainOK
  <2>2. x \in 0 .. i - 1
    BY DEF Entrants
  <2>3. x \in Int /\ x <= i /\ x # i
    BY <1>1, <2>2
  <2> DEFINE n == q.son + Slot(q, i - x)
  <2>4. n \in DOMAIN q.hash /\ n >= q.hashSizeSum /\ n # c
    BY <2>1, <2>3, ChainCells DEF c
  <2> HIDE DEF n
  <2>5. h[n] = q.hash[n]
    BY <1>4, <1>8, <2>4
  <2> QED BY <2>5 DEF n
<1> QED BY <1>7, <1>8, <1>9, <1>10, <1>11 DEF c, f, v

\* The state a search begins with.
First(q, m) ==
  [hash |-> Filed(q).hash, curMatch |-> q.hash[HashMain(q)], cut |-> CutValue,
   maxLen |-> m, pairs |-> <<>>,
   ptr0 |-> q.son + 2 * q.cyclicBufferPos + 1, ptr1 |-> q.son + 2 * q.cyclicBufferPos,
   len0 |-> 0, len1 |-> 0, done |-> FALSE]

\* The search is one of the two loops.
LEMMA SearchIs ==
  ASSUME NEW q, NEW m
  PROVE  /\ IsBt(q) => Search(q, m) = GetMatchesSpec1(q, First(q, m))
         /\ ~IsBt(q) => Search(q, m) = Hc_GetMatchesSpec(q, First(q, m))
BY DEF Search, First

\* The state it begins with is one of a search.
LEMMA FirstIs ==
  ASSUME NEW q, NEW d, NEW i, Ready(q, d, i), q.lenLimit >= MinLen(q), NEW E, HeadsOK(q, i, E),
         NEW m \in Nat
  PROVE  /\ First(q, m) \in Searches
         /\ Matching(q, d, i, E, m, First(q, m))
         /\ \A back : Farther(First(q, m), back)
<1>1. Filed(q).hash \in Arrays
  BY FiledIs
<1>2. q.hash[HashMain(q)] \in Nat
  BY HeadIs
<1>3. q.son \in Nat /\ q.cyclicBufferPos \in Nat
  BY Numbers DEF Ready
<1>4. q.son + 2 * q.cyclicBufferPos + 1 \in Nat /\ q.son + 2 * q.cyclicBufferPos \in Nat
  BY <1>3
<1>5. CutValue \in Int
  BY SettingsAssumption
<1>6. <<>> \in Seq(Nat \X Nat)
  OBVIOUS
<1> DEFINE w == First(q, m)
<1>7. w \in Searches
  BY <1>1, <1>2, <1>4, <1>5, <1>6 DEF First, Searches
<1>8. w.pairs = <<>> /\ w.maxLen = m
  BY DEF First
<1> HIDE DEF w
<1>9. m <= w.maxLen
  BY <1>8
<1> QED BY <1>7, <1>8, <1>9, AnswerEmpty DEF Matching, Farther, w

\* The search of a chain answers real matches and leaves the position at its head.
LEMMA ChainSearch ==
  ASSUME NEW q, NEW d, NEW i, Ready(q, d, i), q.lenLimit >= MinLen(q), ~IsBt(q),
         NEW E, Entrants(q, d, i, E), HeadsOK(q, i, E), ChainOK(q, q.hash, i, E), NEW m \in Nat
  PROVE  /\ Search(q, m).hash = ChainFiled(q)
         /\ Matching(q, d, i, E, m, Search(q, m))
<1> DEFINE w == First(q, m)
           h == ChainFiled(q)
           s == [w EXCEPT !.hash = h]
           P == {z \in Nat \X Searches : ChainAt(q, d, i, E, m, h, z[2])}
<1>1. w \in Searches /\ Matching(q, d, i, E, m, w) /\ \A back : Farther(w, back)
  BY FirstIs
<1>2. w.hash = Filed(q).hash /\ w.curMatch = q.hash[HashMain(q)]
  BY DEF First
<1>3. Hc_GetMatchesSpec(q, w) = Chased(q, s)
  <2>1. [w EXCEPT !.hash = [@ EXCEPT ![q.son + q.cyclicBufferPos] = w.curMatch]] = s
    BY <1>1, <1>2 DEF ChainFiled, Searches
  <2> HIDE DEF s, w
  <2> QED BY <2>1 DEF Hc_GetMatchesSpec, Chased
<1>4. h \in Arrays /\ ChainOK(q, h, i, E)
  BY ChainFiledIs
<1> HIDE DEF w, h
<1>5. s \in Searches /\ s.hash = h /\ s.pairs = w.pairs /\ s.maxLen = w.maxLen
        /\ s.curMatch = w.curMatch
  BY <1>1, <1>4 DEF Searches
<1> HIDE DEF s
<1>6. ChainAt(q, d, i, E, m, h, s)
  <2>1. Matching(q, d, i, E, m, s)
    BY <1>1, <1>5 DEF Matching
  <2>2. Farther(s, q.pos - s.curMatch)
    BY <1>1, <1>5 DEF Farther
  <2>3. RefOK(q, i, E, s.curMatch)
    BY <1>2, <1>5, HeadIs
  <2> QED BY <1>5, <2>1, <2>2, <2>3 DEF ChainAt
<1>7. <<0, s>> \in P
  BY <1>5, <1>6
<1>8. \A k \in 1 .. CutValue + 1 : \A t : <<k - 1, t>> \in P => <<k, ChainRound(q, t)>> \in P
  <2>1. SUFFICES ASSUME NEW k \in 1 .. CutValue + 1, NEW t, <<k - 1, t>> \in P
                 PROVE  <<k, ChainRound(q, t)>> \in P
    OBVIOUS
  <2>2. ChainAt(q, d, i, E, m, h, t)
    BY <2>1
  <2>3. ChainAt(q, d, i, E, m, h, ChainRound(q, t))
    BY <1>4, <2>2, ChainRoundKeeps
  <2>4. k \in Nat
    OBVIOUS
  <2>5. ChainRound(q, t) \in Searches
    BY <2>3 DEF ChainAt
  <2> QED BY <2>3, <2>4, <2>5
<1> HIDE DEF P
<1>9. <<CutValue + 1, Chased(q, s)>> \in P
  BY <1>7, <1>8, ChainLoop
<1>10. ChainAt(q, d, i, E, m, h, Chased(q, s))
  BY <1>9 DEF P
<1>11. Search(q, m) = Chased(q, s)
  BY <1>3, SearchIs DEF w
<1> QED BY <1>10, <1>11 DEF ChainAt, h

-----------------------------------------------------------------------------
(* The search of a tree: what is below its cells *)

\* A place whose cells are in the ring.
Place(q, i, B, x) == x \in B /\ i - x < q.cyclicBufferSize

\* All cells are right but two.
Structure(q, d, i, B, h, G, x1, b1, x0, b0) ==
  /\ Ordered(d, B, G, q.lenLimit)
  /\ \A x \in B : \A b \in Sides :
       i - x < q.cyclicBufferSize /\ ~(x = x1 /\ b = b1) /\ ~(x = x0 /\ b = b0) =>
         CellOK(q, h, i, B, G, x, b)

\* The two pending cells may be named in either order.
LEMMA StructureTurned ==
  ASSUME NEW q, NEW d, NEW i, NEW B, NEW h, NEW G, NEW x1, NEW b1, NEW x0, NEW b0,
         Structure(q, d, i, B, h, G, x1, b1, x0, b0)
  PROVE  Structure(q, d, i, B, h, G, x0, b0, x1, b1)
BY DEF Structure

\* The sets below the cells, of which one is less.
Shrunk(B, G, m, b, T) == [z \in B \X Sides |-> IF z = <<m, b>> THEN T ELSE G[z]]
IsShrunk(F, B, G, m, b, T) == T \subseteq G[<<m, b>>] /\ F = Shrunk(B, G, m, b, T)

\* The set that is less ...
LEMMA ShrunkAt ==
  ASSUME NEW B, NEW G, NEW m \in B, NEW b \in Sides, NEW T, NEW F, IsShrunk(F, B, G, m, b, T)
  PROVE  F[<<m, b>>] = T
BY DEF Shrunk, IsShrunk

\* ... the others ...
LEMMA ShrunkElse ==
  ASSUME NEW B, NEW G, NEW m, NEW b \in Sides, NEW T, NEW F, IsShrunk(F, B, G, m, b, T),
         NEW x \in B, NEW e \in Sides, ~(x = m /\ e = b)
  PROVE  F[<<x, e>>] = G[<<x, e>>]
<1>1. <<x, e>> \in B \X Sides /\ <<x, e>> # <<m, b>>
  OBVIOUS
<1> QED BY <1>1 DEF Shrunk, IsShrunk

\* ... none of which is more ...
LEMMA ShrunkWithin ==
  ASSUME NEW B, NEW G, NEW m, NEW b \in Sides, NEW T, NEW F, IsShrunk(F, B, G, m, b, T),
         NEW x \in B, NEW e \in Sides
  PROVE  F[<<x, e>>] \subseteq G[<<x, e>>]
<1>1. CASE x = m /\ e = b
  BY <1>1, ShrunkAt DEF IsShrunk
<1>2. CASE ~(x = m /\ e = b)
  <2>1. F[<<x, e>>] = G[<<x, e>>]
    BY <1>2, ShrunkElse
  <2> QED BY <2>1
<1> QED BY <1>1, <1>2

\* ... so that nothing is below a place that was not.
LEMMA ShrunkBelow ==
  ASSUME NEW B, NEW G, NEW m, NEW b \in Sides, NEW T, NEW F, IsShrunk(F, B, G, m, b, T),
           NEW x \in B
  PROVE  Below(F, x) \subseteq Below(G, x)
<1>1. F[<<x, 0>>] \subseteq G[<<x, 0>>] /\ F[<<x, 1>>] \subseteq G[<<x, 1>>]
  <2>1. 0 \in Sides /\ 1 \in Sides
    BY DEF Sides
  <2> QED BY <2>1, ShrunkWithin
<1> QED BY <1>1 DEF Below

\* What leads into a set leads there when less is below.
LEMMA LeadsShrunk ==
  ASSUME NEW q, NEW i, NEW B, NEW G, NEW F, \A x \in B : Below(F, x) \subseteq Below(G, x),
         NEW r, NEW X, Leads(q, i, B, G, r, X)
  PROVE  Leads(q, i, B, F, r, X)
BY DEF Leads, RefOK

\* Less is as ordered.
LEMMA OrderedShrunk ==
  ASSUME NEW d, NEW B, NEW K, NEW G, NEW F, Ordered(d, B, G, K),
         \A x \in B : F[<<x, 0>>] \subseteq G[<<x, 0>>] /\ F[<<x, 1>>] \subseteq G[<<x, 1>>]
  PROVE  Ordered(d, B, F, K)
<1> HIDE DEF Le
<1> QED BY DEF Ordered

\* The search goes down: one pending cell gets its reference, the next is one of the place
\* it refers to.
LEMMA Descends ==
  ASSUME NEW q, NEW d, NEW i, Ready(q, d, i), IsBt(q), NEW B, B \subseteq 0 .. i,
         NEW h, DOMAIN h = DOMAIN q.hash, h \in Arrays,
         NEW G, NEW x1, NEW b1 \in Sides, NEW x0, NEW b0 \in Sides,
         Place(q, i, B, x1), Structure(q, d, i, B, h, G, x1, b1, x0, b0),
         NEW r \in Int, RefOK(q, i, B, r), NEW m, Live(q, r) => Index(q, i, r) = m,
         m # x1, NEW b \in Sides, NEW T,
         NEW F, IsShrunk(F, B, G, m, b, T), Below(F, m) \subseteq G[<<x1, b1>>],
         NEW g, g = [h EXCEPT ![Cell(q, i, x1, b1)] = r]
  PROVE  Structure(q, d, i, B, g, F, m, b, x0, b0)
<1>1. ASSUME NEW x \in B, NEW e \in Sides
      PROVE  /\ F[<<x, e>>] \subseteq G[<<x, e>>]
             /\ ~(x = m /\ e = b) => F[<<x, e>>] = G[<<x, e>>]
             /\ Below(F, x) \subseteq Below(G, x)
  <2>1. F[<<x, e>>] \subseteq G[<<x, e>>]
    BY ShrunkWithin
  <2>2. ASSUME ~(x = m /\ e = b) PROVE F[<<x, e>>] = G[<<x, e>>]
    BY <2>2, ShrunkElse
  <2>3. Below(F, x) \subseteq Below(G, x)
    BY ShrunkBelow
  <2> QED BY <2>1, <2>2, <2>3
<1>2. Ordered(d, B, F, q.lenLimit)
  <2>1. Ordered(d, B, G, q.lenLimit)
    BY DEF Structure
  <2>2. \A x \in B : F[<<x, 0>>] \subseteq G[<<x, 0>>] /\ F[<<x, 1>>] \subseteq G[<<x, 1>>]
    <3>1. 0 \in Sides /\ 1 \in Sides
      BY DEF Sides
    <3> QED BY <1>1, <3>1
  <2> QED BY <2>1, <2>2, OrderedShrunk
<1>3. x1 \in Int /\ x1 <= i /\ i - x1 < q.cyclicBufferSize /\ i \in Nat /\ x1 \in B
  BY LimitNumbers DEF Place
<1>4. Cell(q, i, x1, b1) \in DOMAIN h
  BY <1>3, TreeCells
<1>5. g[Cell(q, i, x1, b1)] = r /\ \A n \in DOMAIN h : n # Cell(q, i, x1, b1) => g[n] = h[n]
  BY <1>4, ArrayExcept
<1>6. ASSUME NEW x \in B, NEW e \in Sides, i - x < q.cyclicBufferSize,
             ~(x = m /\ e = b), ~(x = x0 /\ e = b0)
      PROVE  CellOK(q, g, i, B, F, x, e)
  <2>1. F[<<x, e>>] = G[<<x, e>>]
    BY <1>1, <1>6
  <2>2. CASE x = x1 /\ e = b1
    <3>1. Leads(q, i, B, F, r, G[<<x1, b1>>])
      BY DEF Leads
    <3> QED BY <1>5, <2>1, <2>2, <3>1 DEF CellOK
  <2>3. CASE ~(x = x1 /\ e = b1)
    <3>1. CellOK(q, h, i, B, G, x, e)
      BY <1>6, <2>3 DEF Structure
    <3>2. Leads(q, i, B, F, h[Cell(q, i, x, e)], G[<<x, e>>])
      <4>1. Leads(q, i, B, G, h[Cell(q, i, x, e)], G[<<x, e>>])
        BY <3>1 DEF CellOK
      <4> QED BY <1>1, <4>1, LeadsShrunk
    <3>3. x \in Int /\ x <= i
      BY <1>3
    <3>4. Cell(q, i, x, e) \in DOMAIN h /\ Cell(q, i, x, e) # Cell(q, i, x1, b1)
      BY <1>3, <1>6, <2>3, <3>3, TreeCells
    <3>5. g[Cell(q, i, x, e)] = h[Cell(q, i, x, e)]
      BY <1>5, <3>4
    <3> QED BY <2>1, <3>2, <3>5 DEF CellOK
  <2> QED BY <2>2, <2>3
<1> QED BY <1>2, <1>6 DEF Structure

\* The array with two cells set.
IsEnded(g, h, c1, r1, c0, r0) == g = [h EXCEPT ![c1] = r1, ![c0] = r0]

\* The search ends: both pending cells get references that lead where they may.
LEMMA Closes ==
  ASSUME NEW q, NEW d, NEW i, Ready(q, d, i), IsBt(q), NEW B, B \subseteq 0 .. i,
         NEW h, DOMAIN h = DOMAIN q.hash, h \in Arrays,
         NEW G, NEW x1, NEW b1 \in Sides, NEW x0, NEW b0 \in Sides,
         Place(q, i, B, x1), Place(q, i, B, x0), ~(x1 = x0 /\ b1 = b0),
         Structure(q, d, i, B, h, G, x1, b1, x0, b0),
         NEW r1 \in Int, Leads(q, i, B, G, r1, G[<<x1, b1>>]),
         NEW r0 \in Int, Leads(q, i, B, G, r0, G[<<x0, b0>>]),
         NEW g, IsEnded(g, h, Cell(q, i, x1, b1), r1, Cell(q, i, x0, b0), r0)
  PROVE  TreesOK(q, g, d, i, B, G)
<1> DEFINE c1 == Cell(q, i, x1, b1)
           c0 == Cell(q, i, x0, b0)
           f == [h EXCEPT ![c1] = r1]
<1>1. /\ x1 \in Int /\ x1 <= i /\ i - x1 < q.cyclicBufferSize /\ i \in Nat /\ x1 \in B
      /\ x0 \in Int /\ x0 <= i /\ i - x0 < q.cyclicBufferSize /\ x0 \in B
  BY LimitNumbers DEF Place
<1>2. c1 \in DOMAIN h /\ c0 \in DOMAIN h /\ c1 # c0
  BY <1>1, TreeCells
<1>3. g = [f EXCEPT ![c0] = r0]
  BY DEF IsEnded
<1> HIDE DEF c1, c0
<1>4. f \in Arrays /\ DOMAIN f = DOMAIN h /\ f[c1] = r1 /\ \A n \in DOMAIN h : n # c1
        => f[n] = h[n]
  BY <1>2, ArrayExcept
<1> HIDE DEF f
<1>5. g[c0] = r0 /\ \A n \in DOMAIN f : n # c0 => g[n] = f[n]
  BY <1>2, <1>3, <1>4, ArrayExcept
<1>6. g[c1] = r1
  BY <1>2, <1>4, <1>5
<1>7. ASSUME NEW x \in B, NEW e \in Sides, i - x < q.cyclicBufferSize
      PROVE  CellOK(q, g, i, B, G, x, e)
  <2>1. CASE x = x1 /\ e = b1
    BY <1>6, <2>1 DEF CellOK, c1
  <2>2. CASE x = x0 /\ e = b0
    BY <1>5, <2>2 DEF CellOK, c0
  <2>3. CASE ~(x = x1 /\ e = b1) /\ ~(x = x0 /\ e = b0)
    <3>1. CellOK(q, h, i, B, G, x, e)
      BY <1>7, <2>3 DEF Structure
    <3>2. x \in Int /\ x <= i
      BY <1>1
    <3>3. Cell(q, i, x, e) \in DOMAIN h /\ Cell(q, i, x, e) # c1 /\ Cell(q, i, x, e) # c0
      BY <1>1, <1>7, <2>3, <3>2, TreeCells DEF c1, c0
    <3>4. g[Cell(q, i, x, e)] = h[Cell(q, i, x, e)]
      BY <1>4, <1>5, <3>3
    <3> QED BY <3>1, <3>4 DEF CellOK
  <2> QED BY <2>1, <2>2, <2>3
<1>8. Ordered(d, B, G, q.lenLimit)
  BY DEF Structure
<1>9. 0 \in Sides /\ 1 \in Sides
  BY DEF Sides
<1> QED BY <1>7, <1>8, <1>9 DEF TreesOK

-----------------------------------------------------------------------------
(* The search of a tree: what is still to be looked at *)

\* Two cells are pending, and what the next reference leads to is below S: nearer to the
\* front than either pending cell, between the bytes known to agree on either side, and
\* to be found again below the pending cell of its own side.
Growing(q, d, i, E, w, G, S, x1, b1, x0, b0) ==
  /\ w.ptr1 = Cell(q, i, x1, b1) /\ w.ptr0 = Cell(q, i, x0, b0)
  /\ Place(q, i, E \cup {i}, x1) /\ Place(q, i, E \cup {i}, x0)
  /\ b1 \in Sides /\ b0 \in Sides /\ ~(x1 = x0 /\ b1 = b0)
  /\ Structure(q, d, i, E \cup {i}, w.hash, G, x1, b1, x0, b0)
  /\ Leads(q, i, E, G, w.curMatch, S) /\ S \subseteq E
  /\ w.len0 <= q.lenLimit /\ w.len1 <= q.lenLimit
  /\ \A y \in S : /\ y < x1 /\ y < x0
                  /\ Le(d, i, y, w.len1) /\ Le(d, y, i, w.len0) /\ Farther(w, i - y)
                  /\ Le(d, y, i, q.lenLimit) => y \in G[<<x1, b1>>]
                  /\ Le(d, i, y, q.lenLimit) => y \in G[<<x0, b0>>]

\* The heads are those of the position, and every reference is a number.
Kept(q, h) ==
  /\ DOMAIN h = DOMAIN q.hash
  /\ \A n \in DOMAIN q.hash : h[n] \in Nat /\ (n < q.hashSizeSum => h[n] = Filed(q).hash[n])

\* The place m that the next reference leads to.
Following(q, i, E, w, G, S, x1, x0, m) ==
  /\ m \in S /\ m \in E /\ m \in Nat /\ Near(q, i, m) /\ Live(q, w.curMatch)
  /\ Index(q, i, w.curMatch) = m
  /\ q.pos - w.curMatch = i - m /\ m # x1 /\ m # x0 /\ m # i
  /\ q.son + 2 * Slot(q, q.pos - w.curMatch) = Cell(q, i, m, 0)
  /\ q.son + 2 * Slot(q, q.pos - w.curMatch) + 1 = Cell(q, i, m, 1)
  /\ Below(G, m) \subseteq S
  /\ Farther(w, i - m)

\* It is an entry, its cells are in the ring, and it is older than all pending ones.
LEMMA NextPlace ==
  ASSUME NEW q, NEW d, NEW i, Ready(q, d, i), IsBt(q), NEW E, Entrants(q, d, i, E),
         NEW w \in Searches, NEW G, NEW S, NEW x1, NEW b1, NEW x0, NEW b0,
         Growing(q, d, i, E, w, G, S, x1, b1, x0, b0),
         ~OutOfHistory(q, q.pos - w.curMatch)
  PROVE  Following(q, i, E, w, G, S, x1, x0, Index(q, i, w.curMatch))
<1> DEFINE m == Index(q, i, w.curMatch)
<1>1. RefOK(q, i, E, w.curMatch)
  BY DEF Growing, Leads
<1>2. /\ m \in E /\ Near(q, i, m) /\ m \in Nat /\ q.pos - w.curMatch = i - m /\ Live(q,
          w.curMatch)
  BY <1>1, FollowedIs
<1>3. Below(G, m) \subseteq S
  BY <1>2 DEF Growing, Leads
<1>10. Index(q, i, w.curMatch) = m
  OBVIOUS
<1> HIDE DEF m
<1>4. m \in S
  BY <1>3 DEF Below
<1>5. m < x1 /\ m < x0 /\ Farther(w, i - m)
  BY <1>4 DEF Growing
<1>6. i \in Nat /\ m < i /\ i - m < q.cyclicBufferSize /\ x1 \in Int /\ x0 \in Int
  <2>1. x1 \in E \cup {i} /\ x0 \in E \cup {i} /\ i \in Nat
    BY LimitNumbers DEF Growing, Place
  <2>2. E \subseteq 0 .. i - 1
    BY DEF Entrants
  <2>3. x1 \in Int /\ x0 \in Int
    BY <2>1, <2>2
  <2> QED BY <1>2, <2>1, <2>3 DEF Near
<1>7. m # x1 /\ m # x0 /\ m # i
  BY <1>2, <1>5, <1>6
<1>8. Slot(q, i - m) \in Int /\ q.son \in Int
  <2>1. /\ q.cyclicBufferPos \in Nat /\ q.cyclicBufferSize \in Nat
        /\ q.cyclicBufferPos < q.cyclicBufferSize
    BY LimitNumbers
  <2>2. i - m \in Int /\ 0 <= i - m /\ i - m < q.cyclicBufferSize
    BY <1>2, <1>6
  <2>3. Slot(q, i - m) \in 0 .. q.cyclicBufferSize - 1
    BY <2>1, <2>2, Slots
  <2>4. q.son \in Nat
    BY Sons
  <2> QED BY <2>3, <2>4
<1>9. Cell(q, i, m, 0) = q.son + 2 * Slot(q, i - m) /\ Cell(q, i, m, 1) = q.son + 2 * Slot(q,
        i - m) + 1
  BY <1>8 DEF Cell
<1>11. Following(q, i, E, w, G, S, x1, x0, m)
  BY <1>2, <1>3, <1>4, <1>5, <1>7, <1>9, <1>10 DEF Following
<1> QED BY <1>11 DEF m

\* The bytes that are known to agree do, so that Agree() is right.
LEMMA NextLength ==
  ASSUME NEW q, NEW d, NEW i, Ready(q, d, i), NEW E, NEW w \in Searches,
         NEW G, NEW S, NEW x1, NEW b1, NEW x0, NEW b0,
         Growing(q, d, i, E, w, G, S, x1, b1, x0, b0), NEW m \in S, Near(q, i, m)
  PROVE  IsLength(d, m, i, q.lenLimit, Agree(q, i - m, Min2(w.len0, w.len1)))
<1> DEFINE l == Min2(w.len0, w.len1)
<1>1. w.len0 \in Nat /\ w.len1 \in Nat /\ q.lenLimit \in Nat /\ i \in Nat /\ m \in Nat /\ m <= i
  BY SearchFields, LimitNumbers DEF Near
<1>2. w.len0 <= q.lenLimit /\ w.len1 <= q.lenLimit
  BY DEF Growing
<1>3. l \in 0 .. q.lenLimit /\ l \in Nat /\ l <= w.len0 /\ l <= w.len1
  BY <1>1, <1>2 DEF Min2
<1> HIDE DEF l
<1>4. Le(d, i, m, w.len1) /\ Le(d, m, i, w.len0)
  BY DEF Growing
<1>5. Le(d, i, m, l) /\ Le(d, m, i, l)
  BY <1>1, <1>3, <1>4, LeShorter
<1>6. Room(m, i, l)
  <2>1. Room(m, i, q.lenLimit) /\ StreamLen \in Nat
    BY <1>1, RoomFor, SettingsAssumption
  <2> QED BY <1>1, <1>3, <2>1 DEF Room
<1>7. Equal(d, m, i, l)
  BY <1>5, <1>6, LeBoth DEF Ready
<1>8. IsLength(d, m, i, q.lenLimit, Agree(q, i - m, l))
  BY <1>3, <1>7, AgreeIs
<1> QED BY <1>8 DEF l

\* The byte behind them says on which side the place lies.
LEMMA NextSide ==
  ASSUME NEW q, NEW d, NEW i, Ready(q, d, i), NEW m, Near(q, i, m),
         NEW len, IsLength(d, m, i, q.lenLimit, len)
  PROVE  /\ len \in Nat /\ len <= q.lenLimit
         /\ len = q.lenLimit => Equal(d, m, i, q.lenLimit)
         /\ len # q.lenLimit /\ Byte(q, len - (i - m)) < Byte(q, len) => Le(d, m, i, q.lenLimit)
         /\ len # q.lenLimit /\ ~(Byte(q, len - (i - m)) < Byte(q, len)) => Le(d, i, m,
             q.lenLimit)
<1>1. /\ len \in 0 .. q.lenLimit /\ q.lenLimit \in Nat /\ Equal(d, m, i, len) /\ m \in Nat
      /\ m <= i /\ i \in Nat
  BY LimitNumbers DEF IsLength, Near
<1>2. len \in Nat /\ len <= q.lenLimit
  BY <1>1
<1>3. ASSUME len # q.lenLimit
      PROVE  /\ Byte(q, len - (i - m)) < Byte(q, len) => Le(d, m, i, q.lenLimit)
             /\ ~(Byte(q, len - (i - m)) < Byte(q, len)) => Le(d, i, m, q.lenLimit)
  <2>1. len \in 0 .. q.lenLimit - 1
    BY <1>1, <1>3
  <2>2. /\ Byte(q, len - (i - m)) = d[m + len + 1] /\ Byte(q, len) = d[i + len + 1]
        /\ d[m + len + 1] \in {0, 1} /\ d[i + len + 1] \in {0, 1}
    BY <2>1, SameIs
  <2>3. d[m + len + 1] # d[i + len + 1]
    <3>1. len < q.lenLimit
      BY <1>1, <2>1
    <3> QED BY <3>1 DEF IsLength
  <2>4. Room(m, i, q.lenLimit) /\ Room(i, m, q.lenLimit) /\ d \in Streams
    BY <1>1, RoomFor DEF Ready
  <2>5. Equal(d, i, m, len)
    BY <1>1 DEF Equal
  <2>6. CASE d[m + len + 1] < d[i + len + 1]
    <3>1. Le(d, m, i, q.lenLimit)
      BY <1>1, <2>1, <2>4, <2>6, LeByDifference
    <3> QED BY <2>2, <2>6, <3>1
  <2>7. CASE d[i + len + 1] < d[m + len + 1]
    <3>1. Le(d, i, m, q.lenLimit)
      BY <2>1, <2>4, <2>5, <2>7, LeByDifference
    <3> QED BY <2>2, <2>7, <3>1
  <2> QED BY <2>2, <2>3, <2>6, <2>7
<1> QED BY <1>1, <1>2, <1>3

\* The sets below a place that was followed.
LEMMA BelowNext ==
  ASSUME NEW q, NEW d, NEW i, Ready(q, d, i), IsBt(q), NEW E, Entrants(q, d, i, E),
         NEW w \in Searches, NEW G, NEW S, NEW x1, NEW b1, NEW x0, NEW b0,
         Growing(q, d, i, E, w, G, S, x1, b1, x0, b0),
         NEW m, Following(q, i, E, w, G, S, x1, x0, m)
  PROVE  /\ G[<<m, 0>>] \subseteq S /\ G[<<m, 1>>] \subseteq S
         /\ \A y \in G[<<m, 0>>] : y \in Nat /\ y < m /\ Le(d, y, m, q.lenLimit)
         /\ \A y \in G[<<m, 1>>] : y \in Nat /\ y < m /\ Le(d, m, y, q.lenLimit)
         /\ CellOK(q, w.hash, i, E \cup {i}, G, m, 0) /\ CellOK(q, w.hash, i, E \cup {i}, G, m,
             1)
<1>8. m \in E /\ Near(q, i, m) /\ m # x1 /\ m # x0 /\ Below(G, m) \subseteq S
  BY DEF Following
<1>1. G[<<m, 0>>] \subseteq S /\ G[<<m, 1>>] \subseteq S
  BY <1>8 DEF Below
<1>2. \A y \in S : y \in Nat
  <2>1. E \subseteq 0 .. i - 1 /\ S \subseteq E
    BY DEF Entrants, Growing
  <2> QED BY <2>1
<1>3. Structure(q, d, i, E \cup {i}, w.hash, G, x1, b1, x0, b0)
  BY DEF Growing
<1>4. Ordered(d, E \cup {i}, G, q.lenLimit)
  BY <1>3 DEF Structure
<1>5. /\ \A y \in G[<<m, 0>>] : y < m /\ Le(d, y, m, q.lenLimit)
      /\ \A y \in G[<<m, 1>>] : y < m /\ Le(d, m, y, q.lenLimit)
  <2> HIDE DEF Le
  <2> QED BY <1>4, <1>8 DEF Ordered
<1>6. 0 \in Sides /\ 1 \in Sides /\ i - m < q.cyclicBufferSize /\ m \in E \cup {i}
  BY <1>8 DEF Sides, Near
<1>7. CellOK(q, w.hash, i, E \cup {i}, G, m, 0) /\ CellOK(q, w.hash, i, E \cup {i}, G, m, 1)
  BY <1>3, <1>6, <1>8 DEF Structure
<1> QED BY <1>1, <1>2, <1>5, <1>7

\* The place followed is below the current one: its upper cell is pending now.
LEMMA Smaller ==
  ASSUME NEW q, NEW d, NEW i, Ready(q, d, i), IsBt(q), NEW E, Entrants(q, d, i, E),
         NEW w \in Searches, Kept(q, w.hash), NEW G, NEW S, NEW x1, NEW b1, NEW x0, NEW b0,
         Growing(q, d, i, E, w, G, S, x1, b1, x0, b0),
         NEW m, Following(q, i, E, w, G, S, x1, x0, m),
         NEW len, IsLength(d, m, i, q.lenLimit, len), Le(d, m, i, q.lenLimit),
         NEW n \in Searches, n.hash = [w.hash EXCEPT ![w.ptr1] = w.curMatch],
         n.ptr1 = Cell(q, i, m, 1), n.ptr0 = w.ptr0, n.curMatch = w.hash[Cell(q, i, m, 1)],
         n.len1 = len, n.len0 = w.len0,
         \A back \in Int : back > i - m => Farther(n, back)
  PROVE  \E F, T : Growing(q, d, i, E, n, F, T, m, 1, x0, b0)
<1> DEFINE B == E \cup {i}
           T == G[<<m, 1>>]
           U == {y \in T : Le(d, y, i, q.lenLimit)}
           F == Shrunk(B, G, m, 1, U)
<1>1. /\ m \in S /\ m \in E /\ m \in Nat /\ Near(q, i, m) /\ Live(q, w.curMatch)
      /\ q.pos - w.curMatch = i - m /\ m # x1 /\ m # x0 /\ m # i /\ Below(G, m) \subseteq S
  BY DEF Following
<1>2. /\ G[<<m, 0>>] \subseteq S /\ T \subseteq S
      /\ \A y \in G[<<m, 0>>] : y \in Nat /\ y < m /\ Le(d, y, m, q.lenLimit)
      /\ \A y \in T : y \in Nat /\ y < m /\ Le(d, m, y, q.lenLimit)
      /\ CellOK(q, w.hash, i, B, G, m, 1)
  <2>1. /\ G[<<m, 0>>] \subseteq S /\ G[<<m, 1>>] \subseteq S
        /\ \A y \in G[<<m, 0>>] : y \in Nat /\ y < m /\ Le(d, y, m, q.lenLimit)
        /\ \A y \in G[<<m, 1>>] : y \in Nat /\ y < m /\ Le(d, m, y, q.lenLimit)
        /\ CellOK(q, w.hash, i, E \cup {i}, G, m, 0)
        /\ CellOK(q, w.hash, i, E \cup {i}, G, m, 1)
    BY BelowNext
  <2> QED BY <2>1
<1>3. /\ i \in Nat /\ q.lenLimit \in Nat /\ m < i /\ i - m < q.cyclicBufferSize /\ d \in Streams
      /\ q.cyclicBufferSize \in Nat
  BY <1>1, LimitNumbers DEF Near, Ready
<1>4. B \subseteq 0 .. i /\ E \subseteq 0 .. i - 1
  <2>1. E \subseteq 0 .. i - 1
    BY DEF Entrants
  <2>2. i \in 0 .. i /\ 0 .. i - 1 \subseteq 0 .. i
    BY <1>3
  <2> QED BY <2>1, <2>2
<1>5. 0 \in Sides /\ 1 \in Sides
  BY DEF Sides
<1>6. IsShrunk(F, B, G, m, 1, U)
  BY DEF IsShrunk
<1> HIDE DEF F
<1>7. /\ F[<<m, 1>>] = U /\ F[<<m, 0>>] = G[<<m, 0>>]
      /\ \A x \in B : \A e \in Sides : x # m => F[<<x, e>>] = G[<<x, e>>]
  <2> DEFINE lower == 0  upper == 1
  <2>1. lower \in Sides /\ upper \in Sides /\ lower # upper /\ m \in B
    BY <1>1, <1>5
  <2>2. IsShrunk(F, B, G, m, upper, U)
    BY <1>6
  <2> HIDE DEF lower, upper, U, B
  <2>3. F[<<m, upper>>] = U
    BY <2>1, <2>2, ShrunkAt
  <2>4. F[<<m, lower>>] = G[<<m, lower>>]
    <3>1. ~(m = m /\ lower = upper)
      BY <2>1
    <3> QED BY <2>1, <2>2, <3>1, ShrunkElse
  <2>5. ASSUME NEW x \in B, NEW e \in Sides, x # m PROVE F[<<x, e>>] = G[<<x, e>>]
    <3>1. ~(x = m /\ e = upper)
      BY <2>5
    <3> QED BY <2>1, <2>2, <3>1, ShrunkElse
  <2> QED BY <2>3, <2>4, <2>5 DEF lower, upper
<1>8. m \in B
  BY <1>1
<1>9. \A y \in Below(F, m) : y \in S /\ Le(d, y, i, q.lenLimit)
  <2>1. SUFFICES ASSUME NEW y \in Below(F, m) PROVE y \in S /\ Le(d, y, i, q.lenLimit)
    OBVIOUS
  <2>2. y = m \/ y \in G[<<m, 0>>] \/ y \in U
    BY <1>7 DEF Below
  <2>3. CASE y = m
    BY <1>1, <2>3
  <2>4. CASE y \in U
    BY <1>2, <2>4
  <2>5. CASE y \in G[<<m, 0>>]
    <3>1. y \in Nat /\ y < m /\ Le(d, y, m, q.lenLimit) /\ y \in S
      BY <1>2, <2>5
    <3>2. Room(y, i, q.lenLimit) /\ Room(m, i, q.lenLimit)
      <4>1. y <= i /\ m <= i
        BY <1>1, <1>3, <3>1
      <4> QED BY <1>1, <3>1, <4>1, RoomFor
    <3>3. Room(y, m, q.lenLimit)
      BY <3>2 DEF Room
    <3>4. Le(d, y, i, q.lenLimit)
      BY <1>3, <3>1, <3>2, <3>3, LeTransitive
    <3> QED BY <3>1, <3>4
  <2> QED BY <2>2, <2>3, <2>4, <2>5
<1>10. Below(F, m) \subseteq G[<<x1, b1>>]
  BY <1>9 DEF Growing
<1>11. w.curMatch \in Int /\ w.curMatch \in Nat /\ w.hash \in Arrays
         /\ DOMAIN w.hash = DOMAIN q.hash
  BY SearchFields DEF Kept
<1>12. RefOK(q, i, B, w.curMatch)
  <2>1. RefOK(q, i, E, w.curMatch)
    BY DEF Growing, Leads
  <2> QED BY <2>1 DEF RefOK
<1>13. /\ Place(q, i, B, x1) /\ Place(q, i, B, x0) /\ b1 \in Sides /\ b0 \in Sides
       /\ Structure(q, d, i, B, w.hash, G, x1, b1, x0, b0) /\ w.ptr1 = Cell(q, i, x1, b1)
       /\ w.ptr0 = Cell(q, i, x0, b0)
  BY DEF Growing
<1> DEFINE g == [w.hash EXCEPT ![Cell(q, i, x1, b1)] = w.curMatch]
<1>14. n.hash = g
  BY <1>13
<1> HIDE DEF g, T, U
<1>15. Structure(q, d, i, B, g, F, m, 1, x0, b0)
  <2> DEFINE C == B
  <2>1. g = [w.hash EXCEPT ![Cell(q, i, x1, b1)] = w.curMatch]
    BY DEF g
  <2>2. C \subseteq 0 .. i /\ Place(q, i, C, x1) /\ Structure(q, d, i, C, w.hash, G, x1, b1,
          x0, b0)
        /\ RefOK(q, i, C, w.curMatch) /\ IsShrunk(F, C, G, m, 1, U)
    BY <1>4, <1>6, <1>12, <1>13
  <2>3. Live(q, w.curMatch) => Index(q, i, w.curMatch) = m
    BY DEF Following
  <2> HIDE DEF C
  <2>4. Structure(q, d, i, C, g, F, m, 1, x0, b0)
    BY <1>1, <1>5, <1>10, <1>11, <1>13, <2>1, <2>2, <2>3, Descends
  <2> QED BY <2>4 DEF C
<1>16. Place(q, i, B, m)
  BY <1>3, <1>8 DEF Place
<1>17. ASSUME NEW y \in T
       PROVE  /\ y < m /\ y < x0
              /\ Le(d, i, y, n.len1) /\ Le(d, y, i, n.len0) /\ Farther(n, i - y)
              /\ Le(d, y, i, q.lenLimit) => y \in F[<<m, 1>>]
              /\ Le(d, i, y, q.lenLimit) => y \in F[<<x0, b0>>]
  <2>1. y \in S /\ y \in Nat /\ y < m /\ Le(d, m, y, q.lenLimit)
    BY <1>2
  <2>2. y < x0 /\ Le(d, y, i, n.len0)
    BY <2>1 DEF Growing
  <2>3. Le(d, i, y, n.len1)
    <3>1. Equal(d, m, i, len) /\ len \in Nat /\ len <= q.lenLimit
      BY NextSide, <1>1 DEF IsLength
    <3> QED BY <1>3, <2>1, <3>1, LeInstead
  <2>4. Farther(n, i - y)
    <3>1. i - y \in Int /\ i - y > i - m
      BY <1>1, <1>3, <2>1
    <3> QED BY <3>1
  <2>5. Le(d, y, i, q.lenLimit) => y \in F[<<m, 1>>]
    BY <1>7 DEF U
  <2>6. Le(d, i, y, q.lenLimit) => y \in F[<<x0, b0>>]
    <3>1. Le(d, i, y, q.lenLimit) => y \in G[<<x0, b0>>]
      BY <2>1 DEF Growing
    <3>2. x0 \in B /\ b0 \in Sides
      BY <1>13 DEF Place
    <3>3. F[<<x0, b0>>] = G[<<x0, b0>>]
      BY <1>1, <1>7, <3>2
    <3> QED BY <3>1, <3>3
  <2> QED BY <2>1, <2>2, <2>3, <2>4, <2>5, <2>6
<1>18. Leads(q, i, E, F, n.curMatch, T)
  <2> DEFINE r == w.hash[Cell(q, i, m, 1)]
  <2>1. Leads(q, i, B, G, r, T)
    BY <1>2 DEF CellOK, T
  <2> HIDE DEF r
  <2>2. RefOK(q, i, B, r) /\ (Live(q, r) => Below(G, Index(q, i, r)) \subseteq T)
    BY <2>1 DEF Leads
  <2>3. ASSUME Live(q, r)
        PROVE  Index(q, i, r) \in E /\ Below(F, Index(q, i, r)) \subseteq T
    <3>1. Index(q, i, r) \in T
      BY <2>2, <2>3 DEF Below
    <3>2. S \subseteq E
      BY DEF Growing
    <3>3. Index(q, i, r) \in E
      BY <1>2, <3>1, <3>2
    <3>4. Below(F, Index(q, i, r)) \subseteq Below(G, Index(q, i, r))
      <4> DEFINE z == Index(q, i, r)
      <4>1. z \in B
        BY <3>3
      <4> HIDE DEF z
      <4>2. Below(F, z) \subseteq Below(G, z)
        BY <1>5, <1>6, <4>1, ShrunkBelow
      <4> QED BY <4>2 DEF z
    <3> QED BY <2>2, <2>3, <3>3, <3>4
  <2>4. Leads(q, i, E, F, r, T)
    BY <2>2, <2>3 DEF Leads, RefOK
  <2> QED BY <2>4 DEF r
<1>19. T \subseteq E /\ n.len0 <= q.lenLimit /\ n.len1 <= q.lenLimit
  <2>1. S \subseteq E /\ w.len0 <= q.lenLimit
    BY DEF Growing
  <2>2. len <= q.lenLimit
    BY <1>1, NextSide
  <2> QED BY <1>2, <2>1, <2>2
<1>20. Growing(q, d, i, E, n, F, T, m, 1, x0, b0)
  BY <1>1, <1>5, <1>13, <1>14, <1>15, <1>16, <1>17, <1>18, <1>19 DEF Growing
<1> QED BY <1>20

\* It is above: its lower cell is pending now.
LEMMA Larger ==
  ASSUME NEW q, NEW d, NEW i, Ready(q, d, i), IsBt(q), NEW E, Entrants(q, d, i, E),
         NEW w \in Searches, Kept(q, w.hash), NEW G, NEW S, NEW x1, NEW b1, NEW x0, NEW b0,
         Growing(q, d, i, E, w, G, S, x1, b1, x0, b0),
         NEW m, Following(q, i, E, w, G, S, x1, x0, m),
         NEW len, IsLength(d, m, i, q.lenLimit, len), Le(d, i, m, q.lenLimit),
         NEW n \in Searches, n.hash = [w.hash EXCEPT ![w.ptr0] = w.curMatch],
         n.ptr0 = Cell(q, i, m, 0), n.ptr1 = w.ptr1, n.curMatch = w.hash[Cell(q, i, m, 0)],
         n.len0 = len, n.len1 = w.len1,
         \A back \in Int : back > i - m => Farther(n, back)
  PROVE  \E F, T : Growing(q, d, i, E, n, F, T, x1, b1, m, 0)
<1> DEFINE B == E \cup {i}
           T == G[<<m, 0>>]
           U == {y \in T : Le(d, i, y, q.lenLimit)}
           F == Shrunk(B, G, m, 0, U)
<1>1. /\ m \in S /\ m \in E /\ m \in Nat /\ Near(q, i, m) /\ Live(q, w.curMatch)
      /\ q.pos - w.curMatch = i - m /\ m # x1 /\ m # x0 /\ m # i /\ Below(G, m) \subseteq S
  BY DEF Following
<1>2. /\ G[<<m, 1>>] \subseteq S /\ T \subseteq S
      /\ \A y \in G[<<m, 1>>] : y \in Nat /\ y < m /\ Le(d, m, y, q.lenLimit)
      /\ \A y \in T : y \in Nat /\ y < m /\ Le(d, y, m, q.lenLimit)
      /\ CellOK(q, w.hash, i, B, G, m, 0)
  <2>1. /\ G[<<m, 0>>] \subseteq S /\ G[<<m, 1>>] \subseteq S
        /\ \A y \in G[<<m, 0>>] : y \in Nat /\ y < m /\ Le(d, y, m, q.lenLimit)
        /\ \A y \in G[<<m, 1>>] : y \in Nat /\ y < m /\ Le(d, m, y, q.lenLimit)
        /\ CellOK(q, w.hash, i, E \cup {i}, G, m, 0)
        /\ CellOK(q, w.hash, i, E \cup {i}, G, m, 1)
    BY BelowNext
  <2> QED BY <2>1
<1>3. /\ i \in Nat /\ q.lenLimit \in Nat /\ m < i /\ i - m < q.cyclicBufferSize /\ d \in Streams
      /\ q.cyclicBufferSize \in Nat
  BY <1>1, LimitNumbers DEF Near, Ready
<1>4. B \subseteq 0 .. i /\ E \subseteq 0 .. i - 1
  <2>1. E \subseteq 0 .. i - 1
    BY DEF Entrants
  <2>2. i \in 0 .. i /\ 0 .. i - 1 \subseteq 0 .. i
    BY <1>3
  <2> QED BY <2>1, <2>2
<1>5. 0 \in Sides /\ 1 \in Sides
  BY DEF Sides
<1>6. IsShrunk(F, B, G, m, 0, U)
  BY DEF IsShrunk
<1> HIDE DEF F
<1>7. /\ F[<<m, 0>>] = U /\ F[<<m, 1>>] = G[<<m, 1>>]
      /\ \A x \in B : \A e \in Sides : x # m => F[<<x, e>>] = G[<<x, e>>]
  <2> DEFINE upper == 1  lower == 0
  <2>1. upper \in Sides /\ lower \in Sides /\ upper # lower /\ m \in B
    BY <1>1, <1>5
  <2>2. IsShrunk(F, B, G, m, lower, U)
    BY <1>6
  <2> HIDE DEF upper, lower, U, B
  <2>3. F[<<m, lower>>] = U
    BY <2>1, <2>2, ShrunkAt
  <2>4. F[<<m, upper>>] = G[<<m, upper>>]
    <3>1. ~(m = m /\ upper = lower)
      BY <2>1
    <3> QED BY <2>1, <2>2, <3>1, ShrunkElse
  <2>5. ASSUME NEW x \in B, NEW e \in Sides, x # m PROVE F[<<x, e>>] = G[<<x, e>>]
    <3>1. ~(x = m /\ e = lower)
      BY <2>5
    <3> QED BY <2>1, <2>2, <3>1, ShrunkElse
  <2> QED BY <2>3, <2>4, <2>5 DEF upper, lower
<1>8. m \in B
  BY <1>1
<1>9. \A y \in Below(F, m) : y \in S /\ Le(d, i, y, q.lenLimit)
  <2>1. SUFFICES ASSUME NEW y \in Below(F, m) PROVE y \in S /\ Le(d, i, y, q.lenLimit)
    OBVIOUS
  <2>2. y = m \/ y \in G[<<m, 1>>] \/ y \in U
    BY <1>7 DEF Below
  <2>3. CASE y = m
    BY <1>1, <2>3
  <2>4. CASE y \in U
    BY <1>2, <2>4
  <2>5. CASE y \in G[<<m, 1>>]
    <3>1. y \in Nat /\ y < m /\ Le(d, m, y, q.lenLimit) /\ y \in S
      BY <1>2, <2>5
    <3>2. Room(i, y, q.lenLimit) /\ Room(i, m, q.lenLimit)
      <4>1. y <= i /\ m <= i
        BY <1>1, <1>3, <3>1
      <4> QED BY <1>1, <3>1, <4>1, RoomFor
    <3>3. Room(m, y, q.lenLimit)
      BY <3>2 DEF Room
    <3>4. Le(d, i, y, q.lenLimit)
      BY <1>3, <3>1, <3>2, <3>3, LeTransitive
    <3> QED BY <3>1, <3>4
  <2> QED BY <2>2, <2>3, <2>4, <2>5
<1>10. Below(F, m) \subseteq G[<<x0, b0>>]
  BY <1>9 DEF Growing
<1>11. w.curMatch \in Int /\ w.curMatch \in Nat /\ w.hash \in Arrays
         /\ DOMAIN w.hash = DOMAIN q.hash
  BY SearchFields DEF Kept
<1>12. RefOK(q, i, B, w.curMatch)
  <2>1. RefOK(q, i, E, w.curMatch)
    BY DEF Growing, Leads
  <2> QED BY <2>1 DEF RefOK
<1>13. /\ Place(q, i, B, x1) /\ Place(q, i, B, x0) /\ b1 \in Sides /\ b0 \in Sides
       /\ Structure(q, d, i, B, w.hash, G, x0, b0, x1, b1) /\ w.ptr1 = Cell(q, i, x1, b1)
       /\ w.ptr0 = Cell(q, i, x0, b0)
  BY StructureTurned DEF Growing
<1> DEFINE g == [w.hash EXCEPT ![Cell(q, i, x0, b0)] = w.curMatch]
<1>14. n.hash = g
  BY <1>13
<1> HIDE DEF g, T, U
<1>15. Structure(q, d, i, B, g, F, x1, b1, m, 0)
  <2> DEFINE C == B
  <2>1. g = [w.hash EXCEPT ![Cell(q, i, x0, b0)] = w.curMatch]
    BY DEF g
  <2>2. C \subseteq 0 .. i /\ Place(q, i, C, x0) /\ Structure(q, d, i, C, w.hash, G, x0, b0,
          x1, b1)
        /\ RefOK(q, i, C, w.curMatch) /\ IsShrunk(F, C, G, m, 0, U)
    BY <1>4, <1>6, <1>12, <1>13
  <2>3. Live(q, w.curMatch) => Index(q, i, w.curMatch) = m
    BY DEF Following
  <2> HIDE DEF C
  <2>4. Structure(q, d, i, C, g, F, m, 0, x1, b1)
    BY <1>1, <1>5, <1>10, <1>11, <1>13, <2>1, <2>2, <2>3, Descends
  <2>5. Structure(q, d, i, C, g, F, x1, b1, m, 0)
    BY <2>4, StructureTurned
  <2> QED BY <2>5 DEF C
<1>16. Place(q, i, B, m)
  BY <1>3, <1>8 DEF Place
<1>17. ASSUME NEW y \in T
       PROVE  /\ y < x1 /\ y < m
              /\ Le(d, i, y, n.len1) /\ Le(d, y, i, n.len0) /\ Farther(n, i - y)
              /\ Le(d, y, i, q.lenLimit) => y \in F[<<x1, b1>>]
              /\ Le(d, i, y, q.lenLimit) => y \in F[<<m, 0>>]
  <2>1. y \in S /\ y \in Nat /\ y < m /\ Le(d, y, m, q.lenLimit)
    BY <1>2
  <2>2. y < x1 /\ Le(d, i, y, n.len1)
    BY <2>1 DEF Growing
  <2>3. Le(d, y, i, n.len0)
    <3>1. Equal(d, m, i, len) /\ len \in Nat /\ len <= q.lenLimit
      BY NextSide, <1>1 DEF IsLength
    <3> QED BY <1>3, <2>1, <3>1, LeInstead
  <2>4. Farther(n, i - y)
    <3>1. i - y \in Int /\ i - y > i - m
      BY <1>1, <1>3, <2>1
    <3> QED BY <3>1
  <2>5. Le(d, i, y, q.lenLimit) => y \in F[<<m, 0>>]
    BY <1>7 DEF U
  <2>6. Le(d, y, i, q.lenLimit) => y \in F[<<x1, b1>>]
    <3>1. Le(d, y, i, q.lenLimit) => y \in G[<<x1, b1>>]
      BY <2>1 DEF Growing
    <3>2. x1 \in B /\ b1 \in Sides
      BY <1>13 DEF Place
    <3>3. F[<<x1, b1>>] = G[<<x1, b1>>]
      BY <1>1, <1>7, <3>2
    <3> QED BY <3>1, <3>3
  <2> QED BY <2>1, <2>2, <2>3, <2>4, <2>5, <2>6
<1>18. Leads(q, i, E, F, n.curMatch, T)
  <2> DEFINE r == w.hash[Cell(q, i, m, 0)]
  <2>1. Leads(q, i, B, G, r, T)
    BY <1>2 DEF CellOK, T
  <2> HIDE DEF r
  <2>2. RefOK(q, i, B, r) /\ (Live(q, r) => Below(G, Index(q, i, r)) \subseteq T)
    BY <2>1 DEF Leads
  <2>3. ASSUME Live(q, r)
        PROVE  Index(q, i, r) \in E /\ Below(F, Index(q, i, r)) \subseteq T
    <3>1. Index(q, i, r) \in T
      BY <2>2, <2>3 DEF Below
    <3>2. S \subseteq E
      BY DEF Growing
    <3>3. Index(q, i, r) \in E
      BY <1>2, <3>1, <3>2
    <3>4. Below(F, Index(q, i, r)) \subseteq Below(G, Index(q, i, r))
      <4> DEFINE z == Index(q, i, r)
      <4>1. z \in B
        BY <3>3
      <4> HIDE DEF z
      <4>2. Below(F, z) \subseteq Below(G, z)
        BY <1>5, <1>6, <4>1, ShrunkBelow
      <4> QED BY <4>2 DEF z
    <3> QED BY <2>2, <2>3, <3>3, <3>4
  <2>4. Leads(q, i, E, F, r, T)
    BY <2>2, <2>3 DEF Leads, RefOK
  <2> QED BY <2>4 DEF r
<1>19. T \subseteq E /\ n.len0 <= q.lenLimit /\ n.len1 <= q.lenLimit
  <2>1. S \subseteq E /\ w.len1 <= q.lenLimit
    BY DEF Growing
  <2>2. len <= q.lenLimit
    BY <1>1, NextSide
  <2> QED BY <1>2, <2>1, <2>2
<1>20. Growing(q, d, i, E, n, F, T, x1, b1, m, 0)
  BY <1>1, <1>5, <1>13, <1>14, <1>15, <1>16, <1>17, <1>18, <1>19 DEF Growing
<1> QED BY <1>20

\* Cells of the ring may be set.
LEMMA KeptExcept ==
  ASSUME NEW q, NEW h \in Arrays, Kept(q, h), NEW c \in DOMAIN q.hash, c >= q.hashSizeSum,
         q.hashSizeSum \in Nat, c \in Int, NEW r \in Nat
  PROVE  Kept(q, [h EXCEPT ![c] = r]) /\ [h EXCEPT ![c] = r] \in Arrays
<1> DEFINE g == [h EXCEPT ![c] = r]
<1>1. c \in DOMAIN h /\ r \in Int /\ DOMAIN h = DOMAIN q.hash
  BY DEF Kept
<1>2. g \in Arrays /\ DOMAIN g = DOMAIN h /\ g[c] = r /\ \A n \in DOMAIN h : n # c
        => g[n] = h[n]
  BY <1>1, ArrayExcept
<1> HIDE DEF g
<1>3. ASSUME NEW n \in DOMAIN q.hash
      PROVE  g[n] \in Nat /\ (n < q.hashSizeSum => g[n] = Filed(q).hash[n])
  <2>1. CASE n = c
    <3>1. ~(n < q.hashSizeSum)
      BY <2>1
    <3> QED BY <1>2, <2>1, <3>1
  <2>2. CASE n # c
    BY <1>1, <1>2, <2>2 DEF Kept
  <2> QED BY <2>1, <2>2
<1>4. Kept(q, g)
  BY <1>1, <1>2, <1>3 DEF Kept
<1> QED BY <1>2, <1>4 DEF g

\* The two cells that are set at the end of a search.
LEMMA EndCells ==
  ASSUME NEW q, NEW d, NEW i, Ready(q, d, i), IsBt(q), NEW E, Entrants(q, d, i, E),
         NEW w \in Searches, Kept(q, w.hash), NEW G, NEW S, NEW x1, NEW b1, NEW x0, NEW b0,
         Growing(q, d, i, E, w, G, S, x1, b1, x0, b0), NEW r1 \in Nat, NEW r0 \in Nat,
         Leads(q, i, E \cup {i}, G, r1, G[<<x1, b1>>]),
         Leads(q, i, E \cup {i}, G, r0, G[<<x0, b0>>]),
         NEW g, IsEnded(g, w.hash, w.ptr1, r1, w.ptr0, r0)
  PROVE  /\ TreesOK(q, g, d, i, E \cup {i}, G)
         /\ Kept(q, g) /\ g \in Arrays
<1> DEFINE B == E \cup {i}
           h == w.hash
           c1 == Cell(q, i, x1, b1)
           c0 == Cell(q, i, x0, b0)
<1>1. /\ Place(q, i, B, x1) /\ Place(q, i, B, x0) /\ b1 \in Sides /\ b0 \in Sides
      /\ ~(x1 = x0 /\ b1 = b0) /\ Structure(q, d, i, B, h, G, x1, b1, x0, b0)
      /\ w.ptr1 = c1 /\ w.ptr0 = c0
  BY DEF Growing
<1>2. B \subseteq 0 .. i /\ i \in Nat
  <2>1. E \subseteq 0 .. i - 1 /\ i \in Nat
    BY LimitNumbers DEF Entrants
  <2>2. i \in 0 .. i /\ 0 .. i - 1 \subseteq 0 .. i
    BY <2>1
  <2> QED BY <2>1, <2>2
<1>3. h \in Arrays /\ DOMAIN h = DOMAIN q.hash
  BY SearchFields DEF Kept
<1>4. /\ x1 \in Int /\ x1 <= i /\ i - x1 < q.cyclicBufferSize
      /\ x0 \in Int /\ x0 <= i /\ i - x0 < q.cyclicBufferSize
  <2>1. x1 \in B /\ x0 \in B
    BY <1>1 DEF Place
  <2>2. x1 \in 0 .. i /\ x0 \in 0 .. i
    BY <1>2, <2>1
  <2> QED BY <1>1, <1>2, <2>2 DEF Place
<1>5. /\ c1 \in DOMAIN q.hash /\ c1 \in Int /\ c1 >= q.hashSizeSum
      /\ c0 \in DOMAIN q.hash /\ c0 \in Int /\ c0 >= q.hashSizeSum
  BY <1>1, <1>4, TreeCells
<1>6. IsEnded(g, h, c1, r1, c0, r0) /\ g = [[h EXCEPT ![c1] = r1] EXCEPT ![c0] = r0]
  <2>1. IsEnded(g, h, c1, r1, c0, r0)
    BY <1>1
  <2> QED BY <2>1 DEF IsEnded
<1>7. TreesOK(q, g, d, i, B, G)
  <2> DEFINE C == B
  <2>1. /\ C \subseteq 0 .. i /\ Place(q, i, C, x1) /\ Place(q, i, C, x0)
        /\ Structure(q, d, i, C, h, G, x1, b1, x0, b0)
        /\ Leads(q, i, C, G, r1, G[<<x1, b1>>]) /\ Leads(q, i, C, G, r0, G[<<x0, b0>>])
    BY <1>1, <1>2
  <2>2. IsEnded(g, h, Cell(q, i, x1, b1), r1, Cell(q, i, x0, b0), r0)
    BY <1>6
  <2>3. r1 \in Int /\ r0 \in Int
    OBVIOUS
  <2> HIDE DEF C, h
  <2>4. TreesOK(q, g, d, i, C, G)
    BY <1>1, <1>3, <2>1, <2>2, <2>3, Closes
  <2> QED BY <2>4 DEF C
<1>8. Kept(q, g) /\ g \in Arrays
  <2>1. q.hashSizeSum \in Nat /\ Kept(q, h)
    BY Sons
  <2> DEFINE f == [h EXCEPT ![c1] = r1]
  <2> HIDE DEF h, c1, c0
  <2>2. Kept(q, f) /\ f \in Arrays
    BY <1>3, <1>5, <2>1, KeptExcept
  <2>3. g = [f EXCEPT ![c0] = r0]
    BY <1>6
  <2> HIDE DEF f
  <2>4. Kept(q, [f EXCEPT ![c0] = r0]) /\ [f EXCEPT ![c0] = r0] \in Arrays
    BY <1>5, <2>1, <2>2, KeptExcept
  <2> QED BY <2>3, <2>4
<1> QED BY <1>7, <1>8

\* A search that is given up leaves nothing below its pending cells.
LEMMA GivenUp ==
  ASSUME NEW q, NEW d, NEW i, Ready(q, d, i), IsBt(q), NEW E, Entrants(q, d, i, E),
         NEW w \in Searches, Kept(q, w.hash), NEW G, NEW S, NEW x1, NEW b1, NEW x0, NEW b0,
         Growing(q, d, i, E, w, G, S, x1, b1, x0, b0),
         NEW g, IsEnded(g, w.hash, w.ptr1, kEmptyHashValue, w.ptr0, kEmptyHashValue)
  PROVE  /\ TreesOK(q, g, d, i, E \cup {i}, G)
         /\ Kept(q, g) /\ g \in Arrays
<1>1. q.pos \in Nat /\ q.cyclicBufferSize \in Nat /\ q.cyclicBufferSize <= q.pos
  BY LimitNumbers
<1>2. kEmptyHashValue \in Nat /\ kEmptyHashValue <= q.pos /\ ~Live(q, kEmptyHashValue)
  BY <1>1 DEF kEmptyHashValue, Live
<1>3. /\ Leads(q, i, E \cup {i}, G, kEmptyHashValue, G[<<x1, b1>>])
      /\ Leads(q, i, E \cup {i}, G, kEmptyHashValue, G[<<x0, b0>>])
  BY <1>2 DEF Leads, RefOK
<1> QED BY <1>2, <1>3, EndCells

\* One that finds all the bytes it may find takes the place of what it found.
LEMMA Replaces ==
  ASSUME NEW q, NEW d, NEW i, Ready(q, d, i), IsBt(q), NEW E, Entrants(q, d, i, E),
         NEW w \in Searches, Kept(q, w.hash), NEW G, NEW S, NEW x1, NEW b1, NEW x0, NEW b0,
         Growing(q, d, i, E, w, G, S, x1, b1, x0, b0),
         NEW m, Following(q, i, E, w, G, S, x1, x0, m), Equal(d, m, i, q.lenLimit),
         NEW g, IsEnded(g, w.hash, w.ptr1, w.hash[Cell(q, i, m, 0)],
                        w.ptr0, w.hash[Cell(q, i, m, 1)])
  PROVE  /\ TreesOK(q, g, d, i, E \cup {i}, G)
         /\ Kept(q, g) /\ g \in Arrays
<1> DEFINE r1 == w.hash[Cell(q, i, m, 0)]
           r0 == w.hash[Cell(q, i, m, 1)]
           B == E \cup {i}
<1>1. /\ G[<<m, 0>>] \subseteq S /\ G[<<m, 1>>] \subseteq S
      /\ \A y \in G[<<m, 0>>] : y \in Nat /\ y < m /\ Le(d, y, m, q.lenLimit)
      /\ \A y \in G[<<m, 1>>] : y \in Nat /\ y < m /\ Le(d, m, y, q.lenLimit)
      /\ CellOK(q, w.hash, i, E \cup {i}, G, m, 0)
      /\ CellOK(q, w.hash, i, E \cup {i}, G, m, 1)
  BY BelowNext
<1>2. /\ Leads(q, i, B, G, r1, G[<<m, 0>>]) /\ Leads(q, i, B, G, r0, G[<<m, 1>>])
  BY <1>1 DEF CellOK
<1>3. q.lenLimit \in Nat /\ q.lenLimit <= q.lenLimit
  BY LimitNumbers
<1>4. G[<<m, 0>>] \subseteq G[<<x1, b1>>]
  <2>1. SUFFICES ASSUME NEW y \in G[<<m, 0>>] PROVE y \in G[<<x1, b1>>]
    OBVIOUS
  <2>2. y \in S /\ Le(d, y, m, q.lenLimit)
    BY <1>1
  <2>3. Le(d, y, i, q.lenLimit)
    BY <1>3, <2>2, LeInstead
  <2> QED BY <2>2, <2>3 DEF Growing
<1>5. G[<<m, 1>>] \subseteq G[<<x0, b0>>]
  <2>1. SUFFICES ASSUME NEW y \in G[<<m, 1>>] PROVE y \in G[<<x0, b0>>]
    OBVIOUS
  <2>2. y \in S /\ Le(d, m, y, q.lenLimit)
    BY <1>1
  <2>3. Le(d, i, y, q.lenLimit)
    BY <1>3, <2>2, LeInstead
  <2> QED BY <2>2, <2>3 DEF Growing
<1> HIDE DEF r1, r0
<1>6. /\ Leads(q, i, B, G, r1, G[<<x1, b1>>]) /\ Leads(q, i, B, G, r0, G[<<x0, b0>>])
  BY <1>2, <1>4, <1>5 DEF Leads
<1>7. r1 \in Nat /\ r0 \in Nat
  BY <1>2 DEF Leads, RefOK
<1>8. IsEnded(g, w.hash, w.ptr1, r1, w.ptr0, r0)
  BY DEF r1, r0
<1> QED BY <1>6, <1>7, <1>8, EndCells

\* A search after k turns.
TreeAt(q, d, i, E, l, k, w) ==
  /\ w \in Searches /\ Matching(q, d, i, E, l, w) /\ Kept(q, w.hash)
  /\ ~w.done => w.cut = CutValue - k /\ k <= CutValue
  /\ w.done => \E G : TreesOK(q, w.hash, d, i, E \cup {i}, G)
  /\ ~w.done => \E G, S, x1, b1, x0, b0 : Growing(q, d, i, E, w, G, S, x1, b1, x0, b0)

IsTurn(next, y) == next = [y EXCEPT !.cut = @ - 1]

\* The state a turn leaves, when a match of len bytes was found at this distance.
LEMMA TurnIs ==
  ASSUME NEW q, NEW d, NEW i, Ready(q, d, i), NEW E, NEW l \in Nat, NEW w \in Searches,
         Matching(q, d, i, E, l, w), NEW m \in E, Near(q, i, m),
         NEW len, IsLength(d, m, i, q.lenLimit, len), Farther(w, i - m),
         NEW next, IsTurn(next, Longer(w, len, i - m))
  PROVE  /\ next \in Searches /\ Matching(q, d, i, E, l, next)
         /\ next.hash = w.hash /\ next.curMatch = w.curMatch /\ next.cut = w.cut - 1
         /\ next.ptr0 = w.ptr0 /\ next.ptr1 = w.ptr1 /\ next.len0 = w.len0
         /\ next.len1 = w.len1 /\ next.done = w.done
         /\ \A back \in Int : back > i - m => Farther(next, back)
<1> DEFINE delta == i - m
           y == Longer(w, len, delta)
<1>1. len \in Nat /\ delta \in Nat /\ delta > 0
  BY LimitNumbers DEF IsLength, Near
<1>2. Matching(q, d, i, E, l, y) /\ \A back \in Int : back > i - m => Farther(y, back)
  BY LongerKeeps
<1> HIDE DEF delta
<1>3. /\ y \in Searches /\ y.hash = w.hash /\ y.curMatch = w.curMatch /\ y.cut = w.cut
      /\ y.ptr0 = w.ptr0 /\ y.ptr1 = w.ptr1 /\ y.len0 = w.len0 /\ y.len1 = w.len1
      /\ y.done = w.done
  BY <1>1, LongerLeaves, ZenonT(60)
<1>4. next = [y EXCEPT !.cut = y.cut - 1]
  <2>1. next = [y EXCEPT !.cut = @ - 1]
    BY DEF delta, IsTurn
  <2> HIDE DEF y
  <2> QED BY <1>3, <2>1 DEF Searches
<1> HIDE DEF y
<1>5. y.cut - 1 \in Int
  BY <1>3, SearchFields
<1> DEFINE c == y.cut - 1
<1>6. next = [y EXCEPT !.cut = c] /\ c \in Int
  BY <1>4, <1>5
<1> HIDE DEF c
<1>7. /\ next \in Searches /\ next.hash = y.hash /\ next.curMatch = y.curMatch
      /\ next.cut = c /\ next.ptr0 = y.ptr0 /\ next.ptr1 = y.ptr1 /\ next.len0 = y.len0
      /\ next.len1 = y.len1 /\ next.done = y.done /\ next.pairs = y.pairs
      /\ next.maxLen = y.maxLen
  BY <1>3, <1>6 DEF Searches
<1>8. Matching(q, d, i, E, l, next)
  BY <1>2, <1>7 DEF Matching
<1>9. \A back \in Int : back > i - m => Farther(next, back)
  BY <1>2, <1>7 DEF Farther
<1>10. next.cut = w.cut - 1
  BY <1>3, <1>7 DEF c
<1> QED BY <1>3, <1>7, <1>8, <1>9, <1>10

\* A turn that ends the search.
LEMMA Stops ==
  ASSUME NEW q, NEW d, NEW i, NEW E, NEW l, NEW y \in Searches, Matching(q, d, i, E, l, y),
         NEW g \in Arrays, Kept(q, g), NEW G, TreesOK(q, g, d, i, E \cup {i}, G),
         NEW n, n = [y EXCEPT !.hash = g, !.done = TRUE], NEW k
  PROVE  TreeAt(q, d, i, E, l, k, n)
<1>1. n \in Searches /\ n.hash = g /\ n.done = TRUE /\ n.pairs = y.pairs /\ n.maxLen = y.maxLen
  BY DEF Searches
<1>2. Matching(q, d, i, E, l, n)
  BY <1>1 DEF Matching
<1> QED BY <1>1, <1>2 DEF TreeAt

\* A turn keeps it.
LEMMA TreeRoundKeeps ==
  ASSUME NEW q, NEW d, NEW i, Ready(q, d, i), IsBt(q), NEW E, Entrants(q, d, i, E),
         NEW l \in Nat, NEW k \in 1 .. CutValue + 1, NEW w, TreeAt(q, d, i, E, l, k - 1, w)
  PROVE  TreeAt(q, d, i, E, l, k, TreeRound(q, w))
<1> DEFINE z == TreeRound(q, w)
           delta == q.pos - w.curMatch
           pair == q.son + 2 * Slot(q, delta)
           len == Agree(q, delta, Min2(w.len0, w.len1))
           next == [Longer(w, len, delta) EXCEPT !.cut = @ - 1]
           empty == [w.hash EXCEPT ![w.ptr1] = kEmptyHashValue, ![w.ptr0] = kEmptyHashValue]
           joined == [w.hash EXCEPT ![w.ptr1] = w.hash[pair], ![w.ptr0] = w.hash[pair + 1]]
           lower == [w.hash EXCEPT ![w.ptr1] = w.curMatch]
           upper == [w.hash EXCEPT ![w.ptr0] = w.curMatch]
<1>1. /\ w \in Searches /\ Matching(q, d, i, E, l, w) /\ Kept(q, w.hash) /\ w.done \in BOOLEAN
      /\ CutValue \in Nat
  BY SearchFields, SettingsAssumption DEF TreeAt
<1>2. CASE w.done
  <2>1. z = w
    BY <1>2 DEF TreeRound
  <2>2. TreeAt(q, d, i, E, l, k, w)
    BY <1>2 DEF TreeAt
  <2> QED BY <2>1, <2>2
<1>3. ASSUME ~w.done
      PROVE  \E G, S, x1, b1, x0, b0 : Growing(q, d, i, E, w, G, S, x1, b1, x0, b0)
  BY <1>3 DEF TreeAt
<1>4. CASE ~w.done /\ (w.cut = 0 \/ OutOfHistory(q, delta))
  <2>1. z = [w EXCEPT !.hash = empty, !.done = TRUE]
    BY <1>4 DEF TreeRound
  <2>2. PICK G, S, x1, b1, x0, b0 : Growing(q, d, i, E, w, G, S, x1, b1, x0, b0)
    BY <1>3, <1>4
  <2>3. IsEnded(empty, w.hash, w.ptr1, kEmptyHashValue, w.ptr0, kEmptyHashValue)
    BY DEF IsEnded
  <2> HIDE DEF z, empty
  <2>4. TreesOK(q, empty, d, i, E \cup {i}, G) /\ Kept(q, empty) /\ empty \in Arrays
    BY <1>1, <2>2, <2>3, GivenUp
  <2>5. TreeAt(q, d, i, E, l, k, z)
    BY <1>1, <2>1, <2>4, Stops
  <2> QED BY <2>5 DEF z
<1>5. CASE ~w.done /\ ~(w.cut = 0 \/ OutOfHistory(q, delta))
  <2> DEFINE m == Index(q, i, w.curMatch)
  <2>1. PICK G, S, x1, b1, x0, b0 : Growing(q, d, i, E, w, G, S, x1, b1, x0, b0)
    BY <1>3, <1>5
  <2>2. Following(q, i, E, w, G, S, x1, x0, m)
    BY <1>1, <1>5, <2>1, NextPlace
  <2> HIDE DEF m
  <2>3. /\ m \in S /\ m \in E /\ m \in Nat /\ Near(q, i, m) /\ delta = i - m
        /\ pair = Cell(q, i, m, 0) /\ pair + 1 = Cell(q, i, m, 1) /\ Farther(w, i - m)
    BY <2>2 DEF Following
  <2>4. IsLength(d, m, i, q.lenLimit, len)
    <3>1. IsLength(d, m, i, q.lenLimit, Agree(q, i - m, Min2(w.len0, w.len1)))
      BY <1>1, <2>1, <2>3, NextLength
    <3> HIDE DEF delta
    <3> QED BY <2>3, <3>1
  <2>5. /\ z = CASE len = q.lenLimit -> [next EXCEPT !.hash = joined, !.done = TRUE]
                 [] len # q.lenLimit /\ Byte(q, len - delta) < Byte(q, len) ->
                      [next EXCEPT !.hash = [@ EXCEPT ![w.ptr1] = w.curMatch],
                                   !.ptr1 = pair + 1, !.curMatch = w.hash[pair + 1],
                                     !.len1 = len]
                 [] OTHER ->
                      [next EXCEPT !.hash = [@ EXCEPT ![w.ptr0] = w.curMatch],
                                   !.ptr0 = pair, !.curMatch = w.hash[pair], !.len0 = len]
    BY <1>5 DEF TreeRound
  <2>6. /\ next \in Searches /\ Matching(q, d, i, E, l, next)
        /\ next.hash = w.hash /\ next.curMatch = w.curMatch /\ next.cut = w.cut - 1
        /\ next.ptr0 = w.ptr0 /\ next.ptr1 = w.ptr1 /\ next.len0 = w.len0
        /\ next.len1 = w.len1 /\ next.done = w.done
        /\ \A back \in Int : back > i - m => Farther(next, back)
    <3>1. IsTurn(next, Longer(w, len, i - m))
      BY <2>3 DEF IsTurn
    <3> HIDE DEF next, len, delta
    <3> QED BY <1>1, <2>3, <2>4, <3>1, TurnIs
  <2>7. /\ len \in Nat /\ len <= q.lenLimit
        /\ len = q.lenLimit => Equal(d, m, i, q.lenLimit)
        /\ len # q.lenLimit /\ Byte(q, len - delta) < Byte(q, len) => Le(d, m, i, q.lenLimit)
        /\ len # q.lenLimit /\ ~(Byte(q, len - delta) < Byte(q, len)) => Le(d, i, m, q.lenLimit)
    <3> HIDE DEF len, delta
    <3>1. /\ len \in Nat /\ len <= q.lenLimit
          /\ len = q.lenLimit => Equal(d, m, i, q.lenLimit)
          /\ len # q.lenLimit /\ Byte(q, len - (i - m)) < Byte(q, len) => Le(d, m, i,
              q.lenLimit)
          /\ len # q.lenLimit /\ ~(Byte(q, len - (i - m)) < Byte(q, len)) => Le(d, i, m,
              q.lenLimit)
      BY <2>3, <2>4, NextSide, ZenonT(60)
    <3> QED BY <2>3, <3>1
  <2>8. /\ pair \in DOMAIN q.hash /\ pair + 1 \in DOMAIN q.hash /\ pair \in Nat
            /\ pair + 1 \in Nat
        /\ w.hash[pair] \in Nat /\ w.hash[pair + 1] \in Nat
        /\ w.ptr1 \in DOMAIN q.hash /\ w.ptr0 \in DOMAIN q.hash
        /\ w.ptr1 >= q.hashSizeSum /\ w.ptr0 >= q.hashSizeSum
    <3>1. m \in Int /\ m <= i /\ i - m < q.cyclicBufferSize /\ 0 \in Sides /\ 1 \in Sides
      BY <2>3, LimitNumbers DEF Near, Sides
    <3>2. /\ Cell(q, i, m, 0) \in DOMAIN q.hash /\ Cell(q, i, m, 0) \in Int
          /\ Cell(q, i, m, 0) >= q.hashSizeSum
          /\ Cell(q, i, m, 1) \in DOMAIN q.hash /\ Cell(q, i, m, 1) \in Int
          /\ Cell(q, i, m, 1) >= q.hashSizeSum
      BY <3>1, TreeCells
    <3>3. q.hashSizeSum \in Nat
      BY Sons
    <3>4. /\ x1 \in Int /\ x1 <= i /\ i - x1 < q.cyclicBufferSize
          /\ x0 \in Int /\ x0 <= i /\ i - x0 < q.cyclicBufferSize
      <4>1. Place(q, i, E \cup {i}, x1) /\ Place(q, i, E \cup {i}, x0)
        BY <2>1 DEF Growing
      <4>2. E \subseteq 0 .. i - 1 /\ i \in Nat
        BY LimitNumbers DEF Entrants
      <4>3. (x1 \in E \/ x1 = i) /\ (x0 \in E \/ x0 = i)
        BY <4>1 DEF Place
      <4>5. \A y \in E : y \in Int /\ y <= i
        BY <4>2
      <4>4. ASSUME NEW x, x \in E \/ x = i PROVE x \in Int /\ x <= i
        <5>1. CASE x \in E
          BY <4>5, <5>1
        <5>2. CASE x = i
          BY <4>2, <5>2
        <5> QED BY <4>4, <5>1, <5>2
      <4>6. x1 \in Int /\ x1 <= i /\ x0 \in Int /\ x0 <= i
        BY <4>3, <4>4
      <4> QED BY <4>1, <4>6 DEF Place
    <3>5. /\ b1 \in Sides /\ b0 \in Sides /\ w.ptr1 = Cell(q, i, x1, b1)
          /\ w.ptr0 = Cell(q, i, x0, b0)
      BY <2>1 DEF Growing
    <3>6. /\ w.ptr1 \in DOMAIN q.hash /\ w.ptr0 \in DOMAIN q.hash
          /\ w.ptr1 >= q.hashSizeSum /\ w.ptr0 >= q.hashSizeSum
      BY <3>4, <3>5, TreeCells
    <3> HIDE DEF pair
    <3>7. pair \in DOMAIN q.hash /\ pair + 1 \in DOMAIN q.hash /\ pair \in Nat
            /\ pair + 1 \in Nat
      BY <2>3, <3>2, <3>3
    <3>8. w.hash[pair] \in Nat /\ w.hash[pair + 1] \in Nat
      BY <1>1, <3>7 DEF Kept
    <3> QED BY <3>6, <3>7, <3>8
  <2>9. w.cut - 1 = CutValue - k /\ k <= CutValue
    <3>1. w.cut = CutValue - (k - 1) /\ k - 1 <= CutValue /\ w.cut # 0
      BY <1>5 DEF TreeAt
    <3> QED BY <1>1, <3>1
  <2>10. w.curMatch \in Nat /\ w.hash \in Arrays /\ w.ptr1 \in Int /\ w.ptr0 \in Int
         /\ q.hashSizeSum \in Nat
    BY <1>1, SearchFields, Sons
  <2>11. CASE len = q.lenLimit
    <3>1. z = [next EXCEPT !.hash = joined, !.done = TRUE]
      BY <2>5, <2>11
    <3>2. IsEnded(joined, w.hash, w.ptr1, w.hash[Cell(q, i, m, 0)], w.ptr0,
                  w.hash[Cell(q, i, m, 1)])
      BY <2>3 DEF IsEnded
    <3> HIDE DEF z, joined, next
    <3>3. TreesOK(q, joined, d, i, E \cup {i}, G) /\ Kept(q, joined) /\ joined \in Arrays
      BY <1>1, <2>1, <2>2, <2>7, <2>11, <3>2, Replaces
    <3>4. TreeAt(q, d, i, E, l, k, z)
      BY <2>6, <3>1, <3>3, Stops
    <3> QED BY <3>4 DEF z
  <2>12. CASE len # q.lenLimit /\ Byte(q, len - delta) < Byte(q, len)
    <3>1. z = [next EXCEPT !.hash = lower, !.ptr1 = pair + 1, !.curMatch = w.hash[pair + 1],
                           !.len1 = len]
      <4>1. z = [next EXCEPT !.hash = [@ EXCEPT ![w.ptr1] = w.curMatch],
                             !.ptr1 = pair + 1, !.curMatch = w.hash[pair + 1], !.len1 = len]
        BY <2>5, <2>12
      <4> HIDE DEF z, next, pair, len
      <4> QED BY <2>6, <4>1 DEF Searches
    <3> DEFINE v == w.hash[pair + 1]
    <3>2. v \in Nat /\ v = w.hash[Cell(q, i, m, 1)] /\ pair + 1 \in Nat
      BY <2>3, <2>8
    <3>3. lower \in Arrays /\ Kept(q, lower)
      BY <1>1, <2>8, <2>10, KeptExcept
    <3> DEFINE c == pair + 1
    <3>4. /\ z = [next EXCEPT !.hash = lower, !.ptr1 = c, !.curMatch = v, !.len1 = len]
          /\ c \in Nat /\ c = Cell(q, i, m, 1)
      BY <2>3, <3>1, <3>2
    <3> HIDE DEF z, next, c, v, lower, len
    <3>5. /\ z \in Searches /\ z.hash = lower /\ z.ptr1 = c /\ z.ptr0 = next.ptr0
          /\ z.curMatch = v /\ z.len1 = len /\ z.len0 = next.len0 /\ z.cut = next.cut
          /\ z.done = next.done /\ z.pairs = next.pairs /\ z.maxLen = next.maxLen
      BY <2>6, <2>7, <3>2, <3>3, <3>4 DEF Searches
    <3>6. Matching(q, d, i, E, l, z)
      BY <2>6, <3>5 DEF Matching
    <3>7. \A back \in Int : back > i - m => Farther(z, back)
      BY <2>6, <3>5 DEF Farther
    <3>8. \E F, T : Growing(q, d, i, E, z, F, T, m, 1, x0, b0)
      <4>1. /\ z.hash = [w.hash EXCEPT ![w.ptr1] = w.curMatch] /\ z.ptr1 = Cell(q, i, m, 1)
            /\ z.ptr0 = w.ptr0 /\ z.curMatch = w.hash[Cell(q, i, m, 1)] /\ z.len1 = len
            /\ z.len0 = w.len0
        BY <2>6, <3>2, <3>4, <3>5 DEF lower
      <4>2. Le(d, m, i, q.lenLimit)
        BY <2>7, <2>12
      <4> QED BY <1>1, <2>1, <2>2, <2>4, <3>5, <3>7, <4>1, <4>2, Smaller
    <3>9. TreeAt(q, d, i, E, l, k, z)
      <4>1. z.done = FALSE /\ z.cut = CutValue - k
        BY <1>5, <1>1, <2>6, <2>9, <3>5
      <4> QED BY <2>9, <3>3, <3>5, <3>6, <3>8, <4>1 DEF TreeAt
    <3> QED BY <3>9 DEF z
  <2>13. CASE len # q.lenLimit /\ ~(Byte(q, len - delta) < Byte(q, len))
    <3>1. z = [next EXCEPT !.hash = upper, !.ptr0 = pair, !.curMatch = w.hash[pair],
            !.len0 = len]
      <4>1. z = [next EXCEPT !.hash = [@ EXCEPT ![w.ptr0] = w.curMatch],
                             !.ptr0 = pair, !.curMatch = w.hash[pair], !.len0 = len]
        BY <2>5, <2>13
      <4> HIDE DEF z, next, pair, len
      <4> QED BY <2>6, <4>1 DEF Searches
    <3> DEFINE v == w.hash[pair]
    <3>2. v \in Nat /\ v = w.hash[Cell(q, i, m, 0)]
      BY <2>3, <2>8
    <3>3. upper \in Arrays /\ Kept(q, upper)
      BY <1>1, <2>8, <2>10, KeptExcept
    <3>4. /\ z = [next EXCEPT !.hash = upper, !.ptr0 = pair, !.curMatch = v, !.len0 = len]
          /\ pair \in Nat /\ pair = Cell(q, i, m, 0)
      BY <2>3, <2>8, <3>1, <3>2
    <3> HIDE DEF z, next, pair, v, upper, len
    <3>5. /\ z \in Searches /\ z.hash = upper /\ z.ptr0 = pair /\ z.ptr1 = next.ptr1
          /\ z.curMatch = v /\ z.len0 = len /\ z.len1 = next.len1 /\ z.cut = next.cut
          /\ z.done = next.done /\ z.pairs = next.pairs /\ z.maxLen = next.maxLen
      BY <2>6, <2>7, <3>2, <3>3, <3>4 DEF Searches
    <3>6. Matching(q, d, i, E, l, z)
      BY <2>6, <3>5 DEF Matching
    <3>7. \A back \in Int : back > i - m => Farther(z, back)
      BY <2>6, <3>5 DEF Farther
    <3>8. \E F, T : Growing(q, d, i, E, z, F, T, x1, b1, m, 0)
      <4>1. /\ z.hash = [w.hash EXCEPT ![w.ptr0] = w.curMatch] /\ z.ptr0 = Cell(q, i, m, 0)
            /\ z.ptr1 = w.ptr1 /\ z.curMatch = w.hash[Cell(q, i, m, 0)] /\ z.len0 = len
            /\ z.len1 = w.len1
        BY <2>6, <3>2, <3>4, <3>5 DEF upper
      <4>2. Le(d, i, m, q.lenLimit)
        BY <2>7, <2>13
      <4> QED BY <1>1, <2>1, <2>2, <2>4, <3>5, <3>7, <4>1, <4>2, Larger
    <3>9. TreeAt(q, d, i, E, l, k, z)
      <4>1. z.done = FALSE /\ z.cut = CutValue - k
        BY <1>5, <1>1, <2>6, <2>9, <3>5
      <4> QED BY <2>9, <3>3, <3>5, <3>6, <3>8, <4>1 DEF TreeAt
    <3> QED BY <3>9 DEF z
  <2> QED BY <2>11, <2>12, <2>13
<1> QED BY <1>1, <1>2, <1>4, <1>5

\* What is below each place, with the new one on top of what its head leads to.
Topped(q, d, i, E, G, S) ==
  [z \in (E \cup {i}) \X Sides |->
     IF z[1] = i THEN {y \in S : IF z[2] = 0 THEN Le(d, y, i, q.lenLimit) ELSE Le(d, i, y,
       q.lenLimit)}
                 ELSE G[z] \cap E]
IsTopped(F, q, d, i, E, G, S) == F = Topped(q, d, i, E, G, S)

Tops(F, q, d, i, E, G, S) ==
  /\ \A y : y \in F[<<i, 0>>] <=> y \in S /\ Le(d, y, i, q.lenLimit)
  /\ \A y : y \in F[<<i, 1>>] <=> y \in S /\ Le(d, i, y, q.lenLimit)
  /\ \A x \in E : F[<<x, 0>>] = G[<<x, 0>>] \cap E /\ F[<<x, 1>>] = G[<<x, 1>>] \cap E

\* What is on top has nothing else changed.
LEMMA ToppedIs ==
  ASSUME NEW q, NEW d, NEW i, NEW E, i \notin E, NEW G, NEW S,
         NEW F, IsTopped(F, q, d, i, E, G, S)
  PROVE  Tops(F, q, d, i, E, G, S)
<1> DEFINE B == E \cup {i}
<1>1. F = [z \in B \X Sides |->
             IF z[1] = i
             THEN {y \in S : IF z[2] = 0 THEN Le(d, y, i, q.lenLimit) ELSE Le(d, i, y,
               q.lenLimit)}
             ELSE G[z] \cap E]
  BY DEF Topped, IsTopped
<1>2. 0 \in Sides /\ 1 \in Sides /\ i \in B /\ \A x \in E : x \in B /\ x # i
  BY DEF Sides
<1> HIDE DEF B, Le
<1>3. <<i, 0>> \in B \X Sides /\ <<i, 1>> \in B \X Sides
  BY <1>2
<1>4. F[<<i, 0>>] = {y \in S : Le(d, y, i, q.lenLimit)}
  BY <1>1, <1>3
<1>5. F[<<i, 1>>] = {y \in S : Le(d, i, y, q.lenLimit)}
  BY <1>1, <1>3
<1>6. ASSUME NEW x \in E
      PROVE  F[<<x, 0>>] = G[<<x, 0>>] \cap E /\ F[<<x, 1>>] = G[<<x, 1>>] \cap E
  <2>1. <<x, 0>> \in B \X Sides /\ <<x, 1>> \in B \X Sides /\ x # i
    BY <1>2
  <2> QED BY <1>1, <2>1
<1> QED BY <1>4, <1>5, <1>6 DEF Tops

\* The search begins with both cells of the new place pending.
LEMMA TreeBegins ==
  ASSUME NEW q, NEW d, NEW i, Ready(q, d, i), q.lenLimit >= MinLen(q), IsBt(q),
         NEW E, Entrants(q, d, i, E), HeadsOK(q, i, E),
         NEW G, TreesOK(q, q.hash, d, i, E, G), NEW l \in Nat
  PROVE  TreeAt(q, d, i, E, l, 0, First(q, l))
<1> DEFINE w == First(q, l)
           r == q.hash[HashMain(q)]
           x == Index(q, i, r)
           S == IF Live(q, r) THEN Below([z \in E \X Sides |-> G[z] \cap E], x) ELSE {}
           F == Topped(q, d, i, E, G, S)
           B == E \cup {i}
           h == Filed(q).hash
<1>1. /\ w \in Searches /\ Matching(q, d, i, E, l, w) /\ \A back : Farther(w, back)
  BY FirstIs
<1>2. /\ w.hash = h /\ w.curMatch = r /\ w.cut = CutValue /\ w.done = FALSE
      /\ w.ptr1 = q.son + 2 * q.cyclicBufferPos /\ w.ptr0 = q.son + 2 * q.cyclicBufferPos + 1
      /\ w.len0 = 0 /\ w.len1 = 0
  BY DEF First
<1>3. RefOK(q, i, E, r) /\ r \in Nat
  BY HeadIs
<1>4. /\ h \in Arrays /\ DOMAIN h = DOMAIN q.hash
      /\ \A n \in DOMAIN q.hash : h[n] = IF n \in Heads(q) THEN q.pos ELSE q.hash[n]
      /\ \A n \in DOMAIN q.hash : n >= q.hashSizeSum => h[n] = q.hash[n]
  BY FiledIs
<1>5. /\ i \in Nat /\ q.cyclicBufferSize \in Nat /\ q.cyclicBufferPos < q.cyclicBufferSize
      /\ q.pos \in Nat /\ q.lenLimit \in Nat /\ q.cyclicBufferPos \in Nat /\ CutValue \in Nat
  BY LimitNumbers, SettingsAssumption
<1>6. E \subseteq 0 .. i - 1
  BY DEF Entrants
<1>7. \A y \in E : y \in Nat /\ y < i /\ y # i
  BY <1>5, <1>6
<1>8. Kept(q, h)
  <2>1. \A n \in DOMAIN q.hash : h[n] \in Nat
    <3>1. \A n \in DOMAIN q.hash : q.hash[n] \in Nat
      BY Sons
    <3> QED BY <1>4, <1>5, <3>1
  <2> QED BY <1>4, <2>1 DEF Kept
<1>9. S \subseteq E
  <2>1. CASE Live(q, r)
    <3>1. x \in E /\ S = Below([z \in E \X Sides |-> G[z] \cap E], x)
      BY <1>3, <2>1 DEF RefOK
    <3>2. <<x, 0>> \in E \X Sides /\ <<x, 1>> \in E \X Sides
      BY <3>1 DEF Sides
    <3> HIDE DEF x, S
    <3> QED BY <3>1, <3>2 DEF Below
  <2>2. CASE ~Live(q, r)
    BY <2>2
  <2> QED BY <2>1, <2>2
<1>10. /\ \A y : y \in F[<<i, 0>>] <=> y \in S /\ Le(d, y, i, q.lenLimit)
       /\ \A y : y \in F[<<i, 1>>] <=> y \in S /\ Le(d, i, y, q.lenLimit)
       /\ \A y \in E : F[<<y, 0>>] = G[<<y, 0>>] \cap E /\ F[<<y, 1>>] = G[<<y, 1>>] \cap E
  <2>1. i \notin E
    BY <1>7
  <2>2. IsTopped(F, q, d, i, E, G, S)
    BY DEF IsTopped
  <2> HIDE DEF S, Le, F
  <2>3. Tops(F, q, d, i, E, G, S)
    BY <2>1, <2>2, ToppedIs
  <2> QED BY <2>3 DEF Tops
<1>11. Live(q, r) => Below(F, x) = S
  <2>1. SUFFICES ASSUME Live(q, r) PROVE Below(F, x) = S
    OBVIOUS
  <2>2. x \in E /\ S = Below([z \in E \X Sides |-> G[z] \cap E], x)
    BY <1>3, <2>1 DEF RefOK
  <2>3. <<x, 0>> \in E \X Sides /\ <<x, 1>> \in E \X Sides
    BY <2>2 DEF Sides
  <2> HIDE DEF x, S, F
  <2>4. S = {x} \cup (G[<<x, 0>>] \cap E) \cup (G[<<x, 1>>] \cap E)
    BY <2>2, <2>3 DEF Below
  <2> QED BY <1>10, <2>2, <2>4 DEF Below
<1> HIDE DEF S, F, w, x, h
<1>12. Leads(q, i, E, F, w.curMatch, S)
  <2>1. Live(q, r) => Below(F, Index(q, i, r)) \subseteq S
    BY <1>11 DEF x
  <2> QED BY <1>2, <1>3, <2>1 DEF Leads
<1>13. Ordered(d, B, F, q.lenLimit)
  <2> HIDE DEF Le
  <2>1. Ordered(d, E, G, q.lenLimit)
    BY DEF TreesOK
  <2>2. ASSUME NEW y \in B
        PROVE  /\ \A u \in F[<<y, 0>>] : u < y /\ Le(d, u, y, q.lenLimit)
               /\ \A u \in F[<<y, 1>>] : u < y /\ Le(d, y, u, q.lenLimit)
    <3>1. CASE y = i
      BY <1>7, <1>9, <1>10, <3>1
    <3>2. CASE y \in E
      BY <1>10, <2>1, <3>2 DEF Ordered
    <3> QED BY <3>1, <3>2
  <2> QED BY <2>2 DEF Ordered
<1>14. ASSUME NEW y \in B, NEW b \in Sides, i - y < q.cyclicBufferSize,
              ~(y = i /\ b = 0), ~(y = i /\ b = 1)
       PROVE  CellOK(q, h, i, B, F, y, b)
  <2>1. y \in E /\ (b = 0 \/ b = 1)
    BY <1>14 DEF Sides
  <2>2. CellOK(q, q.hash, i, E, G, y, 0) /\ CellOK(q, q.hash, i, E, G, y, 1)
    BY <1>14, <2>1 DEF TreesOK
  <2>3. CellOK(q, q.hash, i, E, G, y, b) /\ F[<<y, b>>] = G[<<y, b>>] \cap E
    <3>1. CASE b = 0
      BY <1>10, <2>1, <2>2, <3>1
    <3>2. CASE b = 1
      BY <1>10, <2>1, <2>2, <3>2
    <3> QED BY <2>1, <3>1, <3>2
  <2> DEFINE c == Cell(q, i, y, b)
             v == q.hash[c]
  <2>4. Leads(q, i, E, G, v, G[<<y, b>>])
    BY <2>3 DEF CellOK
  <2>5. h[c] = v
    <3>1. y \in Int /\ y <= i
      BY <1>5, <1>7, <2>1
    <3>2. c \in DOMAIN q.hash /\ c >= q.hashSizeSum
      BY <1>14, <3>1, TreeCells
    <3> HIDE DEF c
    <3> QED BY <1>4, <3>2
  <2> HIDE DEF v
  <2>6. Leads(q, i, B, F, v, F[<<y, b>>])
    <3>1. RefOK(q, i, E, v) /\ (Live(q, v) => Below(G, Index(q, i, v)) \subseteq G[<<y, b>>])
      BY <2>4 DEF Leads
    <3>2. RefOK(q, i, B, v)
      BY <3>1 DEF RefOK
    <3>3. ASSUME Live(q, v) PROVE Below(F, Index(q, i, v)) \subseteq F[<<y, b>>]
      <4> DEFINE u == Index(q, i, v)
      <4>1. u \in E /\ Below(G, u) \subseteq G[<<y, b>>]
        BY <3>1, <3>3 DEF RefOK
      <4> HIDE DEF u
      <4>2. Below(F, u) = {u} \cup (G[<<u, 0>>] \cap E) \cup (G[<<u, 1>>] \cap E)
        BY <1>10, <4>1 DEF Below
      <4>3. Below(F, u) \subseteq F[<<y, b>>]
        BY <2>3, <4>1, <4>2 DEF Below
      <4> QED BY <4>3 DEF u
    <3> QED BY <3>2, <3>3 DEF Leads
  <2> QED BY <2>5, <2>6 DEF CellOK
<1>15. Structure(q, d, i, B, w.hash, F, i, 0, i, 1)
  <2>1. Structure(q, d, i, B, h, F, i, 0, i, 1)
    <3> HIDE DEF B
    <3> QED BY <1>13, <1>14 DEF Structure
  <2> QED BY <1>2, <2>1
<1>16. /\ w.ptr1 = Cell(q, i, i, 0) /\ w.ptr0 = Cell(q, i, i, 1)
  <2>1. i \in Int /\ i <= i /\ i - i < q.cyclicBufferSize /\ 0 \in Sides /\ 1 \in Sides
    BY <1>5 DEF Sides
  <2>2. /\ Cell(q, i, i, 0) = q.son + 2 * q.cyclicBufferPos + 0
        /\ Cell(q, i, i, 1) = q.son + 2 * q.cyclicBufferPos + 1
    BY <2>1, TreeCells
  <2>3. q.son + 2 * q.cyclicBufferPos + 0 = q.son + 2 * q.cyclicBufferPos
    <3>1. q.son \in Nat
      BY Sons
    <3> QED BY <1>5, <3>1
  <2> QED BY <1>2, <2>2, <2>3
<1>17. ASSUME NEW y \in S
       PROVE  /\ y < i /\ y < i
              /\ Le(d, i, y, w.len1) /\ Le(d, y, i, w.len0) /\ Farther(w, i - y)
              /\ Le(d, y, i, q.lenLimit) => y \in F[<<i, 0>>]
              /\ Le(d, i, y, q.lenLimit) => y \in F[<<i, 1>>]
  <2>1. Le(d, i, y, 0) /\ Le(d, y, i, 0)
    BY DEF Le
  <2> HIDE DEF Le
  <2> QED BY <1>1, <1>2, <1>7, <1>9, <1>10, <2>1
<1>18. Growing(q, d, i, E, w, F, S, i, 0, i, 1)
  <2>1. Place(q, i, B, i)
    BY <1>5 DEF Place
  <2>2. 0 \in Sides /\ 1 \in Sides /\ ~(i = i /\ 0 = 1)
    BY DEF Sides
  <2> HIDE DEF Le
  <2>3. w.len0 <= q.lenLimit /\ w.len1 <= q.lenLimit
    BY <1>2, <1>5
  <2> QED BY <1>9, <1>12, <1>15, <1>16, <1>17, <2>1, <2>2, <2>3 DEF Growing
<1>19. w.cut = CutValue - 0 /\ 0 <= CutValue
  BY <1>2, <1>5
<1>20. TreeAt(q, d, i, E, l, 0, w)
  BY <1>1, <1>2, <1>8, <1>18, <1>19 DEF TreeAt
<1> QED BY <1>20 DEF w

\* The search of a tree answers real matches, and leaves the position on top of its tree.
LEMMA TreeSearch ==
  ASSUME NEW q, NEW d, NEW i, Ready(q, d, i), q.lenLimit >= MinLen(q), IsBt(q),
         NEW E, Entrants(q, d, i, E), HeadsOK(q, i, E),
         NEW G, TreesOK(q, q.hash, d, i, E, G), NEW l \in Nat
  PROVE  /\ Search(q, l).hash \in Arrays /\ Kept(q, Search(q, l).hash)
         /\ Matching(q, d, i, E, l, Search(q, l))
         /\ \E F : TreesOK(q, Search(q, l).hash, d, i, E \cup {i}, F)
<1> DEFINE w == First(q, l)
           P == {z \in Nat \X Searches : TreeAt(q, d, i, E, l, z[1], z[2])}
           s == GetMatchesSpec1(q, w)
<1>1. TreeAt(q, d, i, E, l, 0, w)
  BY TreeBegins
<1> HIDE DEF w
<1>2. <<0, w>> \in P
  BY <1>1 DEF TreeAt
<1>3. \A k \in 1 .. CutValue + 1 : \A t : <<k - 1, t>> \in P => <<k, TreeRound(q, t)>> \in P
  <2>1. SUFFICES ASSUME NEW k \in 1 .. CutValue + 1, NEW t, <<k - 1, t>> \in P
                 PROVE  <<k, TreeRound(q, t)>> \in P
    OBVIOUS
  <2>2. TreeAt(q, d, i, E, l, k - 1, t)
    BY <2>1
  <2>3. TreeAt(q, d, i, E, l, k, TreeRound(q, t))
    BY <2>2, TreeRoundKeeps
  <2>4. k \in Nat
    OBVIOUS
  <2>5. TreeRound(q, t) \in Searches
    BY <2>3 DEF TreeAt
  <2> QED BY <2>3, <2>4, <2>5
<1> HIDE DEF P
<1>4. <<CutValue + 1, s>> \in P
  BY <1>2, <1>3, TreeLoop
<1> HIDE DEF s
<1>5. TreeAt(q, d, i, E, l, CutValue + 1, s)
  BY <1>4 DEF P
<1>6. s.done
  <2>1. CutValue \in Nat /\ ~(CutValue + 1 <= CutValue)
    BY SettingsAssumption
  <2> QED BY <1>5, <2>1 DEF TreeAt
<1>7. Search(q, l) = s
  BY SearchIs DEF w, s
<1>8. s.hash \in Arrays
  BY <1>5, SearchFields DEF TreeAt
<1> QED BY <1>5, <1>6, <1>7, <1>8 DEF TreeAt

-----------------------------------------------------------------------------
(* The position is filed *)

\* What is left behind: the heads name the position, and it is in the ring.
Files(q, d, i, E, h) ==
  /\ h \in Arrays /\ Kept(q, h)
  /\ IsBt(q) => \E F : TreesOK(q, h, d, i, E \cup {i}, F)
  /\ ~IsBt(q) => ChainOK(q, h, i, E \cup {i})

\* A chain is filed.
LEMMA ChainFiles ==
  ASSUME NEW q, NEW d, NEW i, Ready(q, d, i), q.lenLimit >= MinLen(q), ~IsBt(q),
         NEW E, Entrants(q, d, i, E), HeadsOK(q, i, E), ChainOK(q, q.hash, i, E)
  PROVE  Files(q, d, i, E, ChainFiled(q))
<1> DEFINE h == ChainFiled(q)
           r == q.hash[HashMain(q)]
           c == q.son + q.cyclicBufferPos
           B == E \cup {i}
<1>1. /\ h \in Arrays /\ DOMAIN h = DOMAIN q.hash
      /\ \A n \in DOMAIN q.hash : h[n] \in Nat
      /\ \A n \in DOMAIN q.hash : n < q.hashSizeSum => h[n] = Filed(q).hash[n]
      /\ ChainOK(q, h, i, E) /\ h[c] = r
  BY ChainFiledIs
<1>2. /\ i \in Nat /\ q.pos \in Nat /\ q.cyclicBufferSize \in Nat /\ q.cyclicBufferPos \in Nat
      /\ q.cyclicBufferPos < q.cyclicBufferSize /\ E \subseteq 0 .. i - 1
  BY LimitNumbers DEF Entrants
<1>3. RefOK(q, i, E, r) /\ r \in Nat
  BY HeadIs
<1> HIDE DEF h, r, c
<1>4. \A s : RefOK(q, i, E, s) => RefOK(q, i, B, s)
  BY DEF RefOK
<1>5. q.pos - r > 0
  <2>1. r <= q.pos
    BY <1>3 DEF RefOK
  <2>2. r # q.pos
    <3>1. SUFFICES ASSUME r = q.pos PROVE FALSE
      OBVIOUS
    <3>2. Live(q, r) /\ Index(q, i, r) = i
      BY <1>2, <3>1 DEF Live, Index
    <3>3. i \in E
      BY <1>3, <3>2 DEF RefOK
    <3>4. i \in 0 .. i - 1
      BY <1>2, <3>3
    <3> QED BY <1>2, <3>4
  <2> QED BY <1>2, <1>3, <2>1, <2>2
<1>6. Slot(q, 0) = q.cyclicBufferPos
  BY <1>2, Slots
<1>7. ASSUME NEW x \in B, i - x < q.cyclicBufferSize
      PROVE  /\ RefOK(q, i, B, h[q.son + Slot(q, i - x)])
             /\ q.pos - h[q.son + Slot(q, i - x)] > i - x
  <2>1. CASE x \in E
    <3>1. /\ RefOK(q, i, E, h[q.son + Slot(q, i - x)])
          /\ q.pos - h[q.son + Slot(q, i - x)] > i - x
      BY <1>1, <1>7, <2>1 DEF ChainOK
    <3> HIDE DEF B
    <3> QED BY <1>4, <3>1
  <2>2. CASE x = i
    <3>1. i - x = 0
      BY <1>2, <2>2
    <3>2. h[q.son + Slot(q, i - x)] = r
      BY <1>1, <1>6, <3>1 DEF c
    <3> HIDE DEF B
    <3> QED BY <1>3, <1>4, <1>5, <3>1, <3>2
  <2> QED BY <2>1, <2>2
<1>8. ChainOK(q, h, i, B)
  <2> HIDE DEF B
  <2> QED BY <1>7 DEF ChainOK
<1>9. Kept(q, h)
  BY <1>1 DEF Kept
<1> QED BY <1>1, <1>8, <1>9 DEF Files, h

\* What a search leaves, and finds.
LEMMA SearchFiles ==
  ASSUME NEW q, NEW d, NEW i, Ready(q, d, i), q.lenLimit >= MinLen(q),
         NEW E, Entrants(q, d, i, E), HeadsOK(q, i, E), RingOK(q, d, i, E), NEW l \in Nat
  PROVE  /\ Files(q, d, i, E, Search(q, l).hash)
         /\ Matching(q, d, i, E, l, Search(q, l))
<1>1. CASE IsBt(q)
  <2>1. PICK G : TreesOK(q, q.hash, d, i, E, G)
    BY <1>1 DEF RingOK
  <2> QED BY <1>1, <2>1, TreeSearch DEF Files
<1>2. CASE ~IsBt(q)
  <2>1. ChainOK(q, q.hash, i, E)
    BY <1>2 DEF RingOK
  <2>2. Files(q, d, i, E, ChainFiled(q))
    BY <1>2, <2>1, ChainFiles
  <2>3. Search(q, l).hash = ChainFiled(q) /\ Matching(q, d, i, E, l, Search(q, l))
    BY <1>2, <2>1, ChainSearch
  <2> QED BY <2>2, <2>3
<1> QED BY <1>1, <1>2

\* A finder of which only the array is another.
Refiled(n, q, h) == n = [q EXCEPT !.hash = h]

\* Skip() files as a search does, and finds nothing.
LEMMA SkipFiles ==
  ASSUME NEW q, NEW d, NEW i, Ready(q, d, i), q.lenLimit >= MinLen(q),
         NEW E, Entrants(q, d, i, E), HeadsOK(q, i, E), RingOK(q, d, i, E)
  PROVE  \E h : Files(q, d, i, E, h) /\ Refiled(Skipped(q), q, h)
<1>1. ~(q.lenLimit < MinLen(q))
  <2>1. q.lenLimit \in Nat /\ MinLen(q) \in Nat
    BY LimitNumbers, Numbers DEF MinLen, Ready, Kinds
  <2> QED BY <2>1
<1>2. CASE IsBt(q)
  <2>1. Files(q, d, i, E, Search(q, 0).hash)
    BY SearchFiles
  <2>2. Refiled(Skipped(q), q, Search(q, 0).hash)
    BY <1>1, <1>2 DEF Skipped, Refiled
  <2> QED BY <2>1, <2>2
<1>3. CASE ~IsBt(q)
  <2>1. ChainOK(q, q.hash, i, E)
    BY <1>3 DEF RingOK
  <2>2. Files(q, d, i, E, ChainFiled(q))
    BY <1>3, <2>1, ChainFiles
  <2>3. Skipped(q) = [Filed(q) EXCEPT !.hash =
                        [@ EXCEPT ![q.son + q.cyclicBufferPos] = q.hash[HashMain(q)]]]
    BY <1>1, <1>3 DEF Skipped
  <2> DEFINE f == Filed(q).hash
             g == [f EXCEPT ![q.son + q.cyclicBufferPos] = q.hash[HashMain(q)]]
  <2>4. Filed(q) = [q EXCEPT !.hash = f] /\ q \in Finders /\ f \in Arrays
    BY FiledIs DEF Ready
  <2>5. g = ChainFiled(q)
    BY DEF ChainFiled
  <2> HIDE DEF f
  <2>6. Skipped(q) = [q EXCEPT !.hash = g]
    BY <2>3, <2>4 DEF Finders
  <2>7. Refiled(Skipped(q), q, ChainFiled(q))
    BY <2>5, <2>6 DEF Refiled
  <2> QED BY <2>2, <2>7
<1> QED BY <1>2, <1>3

\* Nothing else is touched.
LEMMA RefiledFields ==
  ASSUME NEW q \in Finders, NEW h \in Arrays, NEW n, Refiled(n, q, h)
  PROVE  /\ n \in Finders /\ n.hash = h /\ n.kind = q.kind /\ n.historySize = q.historySize
         /\ n.cyclicBufferSize = q.cyclicBufferSize /\ n.keepSizeBefore = q.keepSizeBefore
         /\ n.keepSizeAfter = q.keepSizeAfter /\ n.blockSize = q.blockSize
         /\ n.hashSizeSum = q.hashSizeSum /\ n.numSons = q.numSons /\ n.son = q.son
         /\ n.bufferBase = q.bufferBase /\ n.buffer = q.buffer /\ n.pos = q.pos
         /\ n.streamPos = q.streamPos /\ n.posLimit = q.posLimit /\ n.lenLimit = q.lenLimit
         /\ n.cyclicBufferPos = q.cyclicBufferPos /\ n.read = q.read /\ n.result = q.result
         /\ n.streamEndWasReached = q.streamEndWasReached
BY DEF Finders, Refiled

\* The finder stays ready.
LEMMA RefiledReady ==
  ASSUME NEW q, NEW d, NEW i, Ready(q, d, i), NEW h \in Arrays, NEW n, Refiled(n, q, h),
         Kept(q, h)
  PROVE  Ready(n, d, i)
<1>1. /\ n \in Finders /\ n.hash = h /\ n.kind = q.kind /\ n.historySize = q.historySize
      /\ n.cyclicBufferSize = q.cyclicBufferSize /\ n.keepSizeBefore = q.keepSizeBefore
      /\ n.keepSizeAfter = q.keepSizeAfter /\ n.blockSize = q.blockSize
      /\ n.hashSizeSum = q.hashSizeSum /\ n.numSons = q.numSons /\ n.son = q.son
      /\ n.bufferBase = q.bufferBase /\ n.buffer = q.buffer /\ n.pos = q.pos
      /\ n.streamPos = q.streamPos /\ n.posLimit = q.posLimit /\ n.lenLimit = q.lenLimit
      /\ n.cyclicBufferPos = q.cyclicBufferPos /\ n.read = q.read /\ n.result = q.result
      /\ n.streamEndWasReached = q.streamEndWasReached
  BY RefiledFields DEF Ready
<1>2. IsBt(n) <=> IsBt(q)
  BY <1>1 DEF IsBt
<1>3. Avail(n) = Avail(q)
  BY <1>1 DEF Avail
<1>4. DOMAIN h = DOMAIN q.hash /\ \A c \in DOMAIN q.hash : h[c] \in Nat
  BY DEF Kept
<1>5. Shape(n)
  BY <1>1, <1>2, <1>4 DEF Ready, Shape
<1>6. Window(n, d, i)
  BY <1>1, <1>3 DEF Ready, Window
<1>7. Limits(n)
  BY <1>1, <1>3 DEF Ready, Limits
<1> QED BY <1>1, <1>5, <1>6, <1>7 DEF Ready

\* Every reference of a finder leads to what was filed.
Refers(q, d, i, E) == HeadsOK(q, i, E) /\ ShortOK(q, d, i, E) /\ RingOK(q, d, i, E)

\* The position itself is nearest.
LEMMA FiledNearest ==
  ASSUME NEW q, NEW d, NEW i, Ready(q, d, i), NEW E, E \subseteq 0 .. i - 1,
         NEW r, Nearest(q, i, r, E)
  PROVE  Nearest(q, i, q.pos, E \cup {i})
<1>1. i \in Nat /\ q.pos \in Nat /\ q.cyclicBufferSize \in Nat
  BY LimitNumbers
<1>2. Index(q, i, q.pos) = i /\ q.pos - q.pos = 0
  BY <1>1 DEF Index
<1>3. \A x \in E \cup {i} : 0 <= i - x
  BY <1>1
<1> QED BY <1>2, <1>3 DEF Nearest

\* With the position filed, the references lead to the entries and to it.
LEMMA Filing ==
  ASSUME NEW q, NEW d, NEW i, Ready(q, d, i), q.lenLimit >= MinLen(q),
         NEW E, Entrants(q, d, i, E), Refers(q, d, i, E),
         NEW h, Files(q, d, i, E, h), NEW n, Refiled(n, q, h)
  PROVE  Ready(n, d, i) /\ Refers(n, d, i, E \cup {i})
<1> DEFINE B == E \cup {i}
<1>1. h \in Arrays /\ Kept(q, h) /\ q \in Finders
  BY DEF Files, Ready
<1>2. /\ n.hash = h /\ n.kind = q.kind
      /\ n.cyclicBufferSize = q.cyclicBufferSize
      /\ n.hashSizeSum = q.hashSizeSum /\ n.son = q.son
      /\ n.pos = q.pos /\ n.lenLimit = q.lenLimit
      /\ n.cyclicBufferPos = q.cyclicBufferPos
  BY <1>1, RefiledFields
<1>3. Ready(n, d, i)
  BY <1>1, RefiledReady
<1>4. /\ IsBt(n) <=> IsBt(q)
      /\ Has2(n) <=> Has2(q)
      /\ Has3(n) <=> Has3(q)
  BY <1>2 DEF IsBt, Has2, Has3
<1>5. /\ \A r : Live(n, r) <=> Live(q, r)
      /\ \A r : Index(n, i, r) = Index(q, i, r)
      /\ \A x : Slot(n, x) = Slot(q, x)
  BY <1>2 DEF Live, Index, Slot
<1>6. \A r : \A D : RefOK(n, i, D, r) <=> RefOK(q, i, D, r)
  BY <1>2, <1>5 DEF RefOK
<1>7. /\ i \in Nat /\ q.pos \in Nat /\ q.cyclicBufferSize \in Nat /\ q.cyclicBufferSize > 0
      /\ E \subseteq 0 .. i - 1
  BY LimitNumbers DEF Entrants
<1>8. /\ Index(q, i, q.pos) = i /\ q.pos \in Nat /\ q.pos <= q.pos
  BY <1>7 DEF Index
<1>9. /\ Heads(q) \subseteq 0 .. q.hashSizeSum - 1
      /\ Has2(q) => /\ 3 <= q.lenLimit
                    /\ \A k \in 0 .. 1 : k \in Heads(q) <=> k = Hash2(q)
      /\ Has3(q) => /\ 4 <= q.lenLimit
                    /\ \A k \in 0 .. 3 : kFix3HashSize + k \in Heads(q) <=> k = Hash3(q)
  BY HeadsAre
<1>10. \A c \in 0 .. q.hashSizeSum - 1 :
         /\ c \in DOMAIN q.hash
         /\ h[c] = IF c \in Heads(q) THEN q.pos ELSE q.hash[c]
  <2>1. SUFFICES ASSUME NEW c \in 0 .. q.hashSizeSum - 1
                 PROVE  /\ c \in DOMAIN q.hash
                        /\ h[c] = IF c \in Heads(q) THEN q.pos ELSE q.hash[c]
    OBVIOUS
  <2>2. c \in DOMAIN q.hash
    BY HashCells
  <2>3. c < q.hashSizeSum
    BY Sons
  <2>4. h[c] = Filed(q).hash[c]
    BY <1>1, <2>2, <2>3 DEF Kept
  <2> QED BY <2>2, <2>4, FiledIs
<1>11. HeadsOK(n, i, B)
  <2>1. SUFFICES ASSUME NEW c \in 0 .. q.hashSizeSum - 1 PROVE RefOK(q, i, B, h[c])
    BY <1>2, <1>6 DEF HeadsOK
  <2>2. RefOK(q, i, E, q.hash[c])
    BY DEF HeadsOK, Refers
  <2>3. RefOK(q, i, B, q.hash[c]) /\ RefOK(q, i, B, q.pos)
    BY <1>8, <2>2 DEF RefOK
  <2> HIDE DEF B
  <2> QED BY <1>10, <2>3
<1>12. ShortOK(n, d, i, B)
  <2>1. \A r : \A X : Nearest(n, i, r, X) <=> Nearest(q, i, r, X)
    BY <1>2, <1>5 DEF Nearest
  <2>2. ASSUME Has2(q), NEW k \in 0 .. 1
        PROVE  Nearest(q, i, h[k], {x \in B : Hash2At(d, x) = k})
    <3> DEFINE X == {x \in E : Hash2At(d, x) = k}
               Y == {x \in B : Hash2At(d, x) = k}
    <3>1. Nearest(q, i, q.hash[k], X) /\ X \subseteq 0 .. i - 1
      BY <1>7, <2>2 DEF Refers, ShortOK
    <3>2. Hash2(q) = Hash2At(d, i)
      <4>1. 2 <= q.lenLimit
        BY <1>9, <2>2, LimitNumbers
      <4> QED BY <4>1, Hash2Is
    <3>3. k \in 0 .. q.hashSizeSum - 1
      <4>1. q.hashSizeSum = HashSizeSum(q.kind) /\ q.hashSizeSum \in Nat
        BY Sons DEF Ready, Shape
      <4>2. q.hashSizeSum >= 2
        BY <2>2, <4>1 DEF Has2, HashSizeSum, kFix3HashSize, kFix4HashSize
      <4> QED BY <4>1, <4>2
    <3>4. CASE k = Hash2(q)
      <4>1. h[k] = q.pos
        BY <1>9, <1>10, <2>2, <3>3, <3>4
      <4>2. Y = X \cup {i}
        BY <3>2, <3>4
      <4> HIDE DEF X, Y
      <4>3. Nearest(q, i, q.pos, X \cup {i})
        BY <3>1, FiledNearest
      <4>4. Nearest(q, i, h[k], Y)
        BY <4>1, <4>2, <4>3
      <4> QED BY <4>4 DEF Y
    <3>5. CASE k # Hash2(q)
      <4>1. h[k] = q.hash[k]
        BY <1>9, <1>10, <2>2, <3>3, <3>5
      <4>2. Y = X
        BY <3>2, <3>5
      <4> HIDE DEF X, Y
      <4>3. Nearest(q, i, h[k], Y)
        BY <3>1, <4>1, <4>2
      <4> QED BY <4>3 DEF Y
    <3> QED BY <3>4, <3>5
  <2>3. ASSUME Has3(q), NEW k \in 0 .. 3
        PROVE  Nearest(q, i, h[kFix3HashSize + k], {x \in B : Hash3At(d, x) = k})
    <3> DEFINE X == {x \in E : Hash3At(d, x) = k}
               Y == {x \in B : Hash3At(d, x) = k}
               c == kFix3HashSize + k
    <3>1. Nearest(q, i, q.hash[c], X) /\ X \subseteq 0 .. i - 1
      BY <1>7, <2>3 DEF Refers, ShortOK
    <3>2. Hash3(q) = Hash3At(d, i)
      <4>1. 3 <= q.lenLimit
        BY <1>9, <2>3, LimitNumbers
      <4> QED BY <4>1, Hash3Is
    <3>3. c \in 0 .. q.hashSizeSum - 1
      <4>1. q.hashSizeSum = HashSizeSum(q.kind) /\ q.hashSizeSum \in Nat
        BY Sons DEF Ready, Shape
      <4>2. q.hashSizeSum >= 6
        BY <2>3, <4>1 DEF Has3, HashSizeSum, kFix3HashSize, kFix4HashSize
      <4> QED BY <4>1, <4>2 DEF kFix3HashSize
    <3>6. c \in Heads(q) <=> k = Hash3(q)
      BY <1>9, <2>3
    <3>4. CASE k = Hash3(q)
      <4>2. Y = X \cup {i}
        BY <3>2, <3>4
      <4> HIDE DEF X, Y, c
      <4>1. h[c] = q.pos
        BY <1>10, <3>3, <3>4, <3>6
      <4>3. Nearest(q, i, q.pos, X \cup {i})
        BY <3>1, FiledNearest
      <4>4. Nearest(q, i, h[c], Y)
        BY <4>1, <4>2, <4>3
      <4> QED BY <4>4 DEF Y, c
    <3>5. CASE k # Hash3(q)
      <4>2. Y = X
        BY <3>2, <3>5
      <4> HIDE DEF X, Y, c
      <4>1. h[c] = q.hash[c]
        BY <1>10, <3>3, <3>5, <3>6
      <4>3. Nearest(q, i, h[c], Y)
        BY <3>1, <4>1, <4>2
      <4> QED BY <4>3 DEF Y, c
    <3> QED BY <3>4, <3>5
  <2> HIDE DEF B
  <2> QED BY <1>2, <1>4, <2>1, <2>2, <2>3 DEF ShortOK
<1>13. RingOK(n, d, i, B)
  <2> HIDE DEF B
  <2>1. \A G : TreesOK(q, h, d, i, B, G) => TreesOK(n, h, d, i, B, G)
    <3>1. \A x, b : Cell(n, i, x, b) = Cell(q, i, x, b)
      BY <1>2, <1>5 DEF Cell
    <3>2. \A G, r, X : Leads(q, i, B, G, r, X) => Leads(n, i, B, G, r, X)
      BY <1>5, <1>6 DEF Leads
    <3>3. \A G, x, b : CellOK(q, h, i, B, G, x, b) => CellOK(n, h, i, B, G, x, b)
      BY <3>1, <3>2 DEF CellOK
    <3> QED BY <1>2, <3>3 DEF TreesOK
  <2>2. ChainOK(q, h, i, B) => ChainOK(n, h, i, B)
    BY <1>2, <1>5, <1>6 DEF ChainOK
  <2>3. /\ IsBt(q) => \E F : TreesOK(q, h, d, i, B, F)
        /\ ~IsBt(q) => ChainOK(q, h, i, B)
    BY DEF Files, B
  <2> QED BY <1>2, <1>4, <2>1, <2>2, <2>3 DEF RingOK
<1> QED BY <1>3, <1>11, <1>12, <1>13 DEF Refers

\* Where fewer bytes are left than the kind hashes, nothing is filed and nothing found.
LEMMA FewBytes ==
  ASSUME NEW q, NEW d, NEW i, Ready(q, d, i), q.lenLimit < MinLen(q)
  PROVE  Skipped(q) = q /\ Matches(q).q = q /\ Matches(q).pairs = <<>>
<1>1. ~(q.lenLimit >= MinLen(q))
  <2>1. q.lenLimit \in Nat /\ MinLen(q) \in Nat
    BY LimitNumbers, Numbers DEF MinLen, Ready, Kinds
  <2> QED BY <2>1
<1>2. Matches(q) = [q |-> q, pairs |-> <<>>]
  BY <1>1 DEF Matches
<1> QED BY <1>2 DEF Skipped

\* What the short tables found and what the search finds are one answer.
LEMMA MatchesFile ==
  ASSUME NEW q, NEW d, NEW i, Ready(q, d, i), q.lenLimit >= MinLen(q),
         NEW E, Entrants(q, d, i, E), Refers(q, d, i, E)
  PROVE  /\ \E h : Files(q, d, i, E, h) /\ Refiled(Matches(q).q, q, h)
         /\ Answer(q, d, i, Matches(q).pairs)
<1> DEFINE quick == Quick(q)
           full == quick.pairs # <<>> /\ quick.maxLen = q.lenLimit
           s == Search(q, quick.maxLen)
<1>1. ~(q.lenLimit < MinLen(q))
  <2>1. q.lenLimit \in Nat /\ MinLen(q) \in Nat
    BY LimitNumbers, Numbers DEF MinLen, Ready, Kinds
  <2> QED BY <2>1
<1>2. HeadsOK(q, i, E) /\ ShortOK(q, d, i, E) /\ RingOK(q, d, i, E)
  BY DEF Refers
<1>3. QuickIs(q, d, i, E, quick)
  BY <1>2, QuickCorrect
<1>4. CASE full
  <2>1. Matches(q) = [q |-> Skipped(q), pairs |-> quick.pairs]
    BY <1>1, <1>4 DEF Matches
  <2>2. \E h : Files(q, d, i, E, h) /\ Refiled(Skipped(q), q, h)
    BY <1>2, SkipFiles
  <2> HIDE DEF quick
  <2>3. Answer(q, d, i, quick.pairs)
    BY <1>3 DEF QuickIs
  <2> QED BY <2>1, <2>2, <2>3
<1>5. CASE ~full
  <2>1. Matches(q) = [q |-> [q EXCEPT !.hash = s.hash], pairs |-> quick.pairs \o s.pairs]
    BY <1>1, <1>5 DEF Matches
  <2> HIDE DEF quick
  <2>2. quick.maxLen \in Nat
    BY <1>3 DEF QuickIs
  <2>3. Files(q, d, i, E, s.hash) /\ Matching(q, d, i, E, quick.maxLen, s)
    BY <1>2, <2>2, SearchFiles
  <2> HIDE DEF s
  <2>4. Answer(q, d, i, quick.pairs) /\ Answer(q, d, i, s.pairs)
    BY <1>3, <2>3 DEF QuickIs, Matching
  <2> DEFINE zs == quick.pairs
             ys == s.pairs
  <2>5. zs # <<>> /\ ys # <<>> => zs[Len(zs)][1] < ys[1][1] /\ zs[Len(zs)][2] < ys[1][2]
    <3>1. SUFFICES ASSUME zs # <<>>, ys # <<>>
                   PROVE  zs[Len(zs)][1] < ys[1][1] /\ zs[Len(zs)][2] < ys[1][2]
      OBVIOUS
    <3>2. /\ zs[Len(zs)][1] <= quick.maxLen
          /\ Beyond(q, d, i, E, quick.maxLen, zs[Len(zs)][2] + 1)
      BY <1>3, <3>1 DEF QuickIs
    <3>3. PICK x \in E : /\ Near(q, i, x) /\ ys[1][2] + 1 = i - x
                         /\ IsLength(d, x, i, q.lenLimit, ys[1][1])
      BY <2>3, <3>1 DEF Matching
    <3>4. ys[1][1] > quick.maxLen
      BY <2>3, <3>1 DEF Matching
    <3>5. zs \in Seq(Nat \X Nat) /\ ys \in Seq(Nat \X Nat)
      BY <2>4 DEF Answer
    <3>6. Len(zs) \in 1 .. Len(zs) /\ 1 \in 1 .. Len(ys)
      BY <3>1, <3>5
    <3>7. zs[Len(zs)] \in Nat \X Nat /\ ys[1] \in Nat \X Nat
      BY <3>5, <3>6
    <3>8. /\ zs[Len(zs)][1] \in Nat /\ zs[Len(zs)][2] \in Nat
          /\ ys[1][1] \in Nat /\ ys[1][2] \in Nat
      BY <3>7
    <3>9. i - x > zs[Len(zs)][2] + 1
      BY <3>2, <3>3, <3>4, <3>8 DEF Beyond
    <3> HIDE DEF zs, ys
    <3> QED BY <2>2, <3>2, <3>3, <3>4, <3>8, <3>9
  <2>6. Answer(q, d, i, zs \o ys)
    <3> HIDE DEF zs, ys
    <3>1. Answer(q, d, i, zs) /\ Answer(q, d, i, ys)
      BY <2>4 DEF zs, ys
    <3> QED BY <2>5, <3>1, AnswerConcat
  <2>7. Refiled(Matches(q).q, q, s.hash)
    BY <2>1 DEF Refiled
  <2> QED BY <2>1, <2>3, <2>6, <2>7
<1> QED BY <1>4, <1>5

-----------------------------------------------------------------------------
(* The position is moved *)

\* What no step changes.
Frame(t, q) ==
  /\ t.kind = q.kind /\ t.historySize = q.historySize
  /\ t.cyclicBufferSize = q.cyclicBufferSize /\ t.keepSizeBefore = q.keepSizeBefore
  /\ t.keepSizeAfter = q.keepSizeAfter /\ t.blockSize = q.blockSize
  /\ t.hashSizeSum = q.hashSizeSum /\ t.numSons = q.numSons /\ t.son = q.son

\* A finder in the middle of a step, before its limits are set.
Half(q, d, i) ==
  /\ q \in Finders /\ d \in Streams /\ i \in Nat
  /\ Shape(q) /\ Window(q, d, i)
  /\ q.cyclicBufferSize <= q.pos
  /\ q.streamEndWasReached => q.read = StreamLen

\* The shape depends on the frame and on where the arrays end.
LEMMA ShapeKept ==
  ASSUME NEW q, Shape(q), NEW t, Frame(t, q), DOMAIN t.hash = DOMAIN q.hash,
         \A c \in DOMAIN t.hash : t.hash[c] \in Nat, DOMAIN t.bufferBase = DOMAIN q.bufferBase
  PROVE  Shape(t)
<1>1. IsBt(t) <=> IsBt(q)
  BY DEF IsBt, Frame
<1>2. PICK s \in Settings : s.kind = q.kind /\ s.historySize = q.historySize
  BY DEF Shape
<1>3. \E u \in Settings : u.kind = t.kind /\ u.historySize = t.historySize
  BY <1>2 DEF Frame
<1> QED BY <1>1, <1>3 DEF Shape, Frame

\* The numbers of the shape.
LEMMA Sizes ==
  ASSUME NEW q, q \in Finders, Shape(q)
  PROVE  /\ q.cyclicBufferSize = q.historySize + 1 /\ q.historySize \in Nat
         /\ q.historySize > 0
         /\ q.keepSizeBefore = q.historySize + 1 /\ q.keepSizeAfter = MatchMaxLen
         /\ q.blockSize = q.historySize + 1 + MatchMaxLen + Reserve
         /\ MatchMaxLen \in Nat /\ Reserve \in Nat /\ Reserve > 0 /\ StreamLen \in Nat
         /\ MaxVal >= q.historySize + 1 + NormalizeStep
         /\ NormalizeStep \in Nat /\ NormalizeStep > 0
<1>1. PICK s \in Settings : s.kind = q.kind /\ s.historySize = q.historySize
  BY DEF Shape
<1>2. s.historySize \in Nat \ {0} /\ MaxVal >= s.historySize + 1 + NormalizeStep
  BY SettingsAssumption
<1>3. /\ MatchMaxLen \in Nat /\ Reserve \in Nat \ {0} /\ StreamLen \in Nat
      /\ NormalizeStep \in Nat \ {0}
  BY SettingsAssumption
<1>4. /\ q.cyclicBufferSize = q.historySize + 1
      /\ q.keepSizeBefore = q.historySize + 1 /\ q.keepSizeAfter = MatchMaxLen
      /\ q.blockSize = q.historySize + 1 + MatchMaxLen + Reserve
  BY DEF Shape
<1> QED BY <1>1, <1>2, <1>3, <1>4

\* One byte on.
Stepped(q) == [q EXCEPT !.cyclicBufferPos = @ + 1, !.buffer = @ + 1, !.pos = @ + 1]

\* The finder one byte on, before the limits are looked at.
LEMMA SteppedIs ==
  ASSUME NEW q, NEW d, NEW i, Ready(q, d, i), Avail(q) > 0, NEW n, n = Stepped(q)
  PROVE  /\ Half(n, d, i + 1) /\ Frame(n, q)
         /\ n.hash = q.hash /\ n.pos = q.pos + 1 /\ n.streamPos = q.streamPos
         /\ n.posLimit = q.posLimit /\ n.lenLimit = q.lenLimit /\ n.read = q.read
         /\ n.cyclicBufferPos = q.cyclicBufferPos + 1 /\ n.result = q.result
         /\ n.streamEndWasReached = q.streamEndWasReached
         /\ Avail(n) = Avail(q) - 1
<1>1. q \in Finders /\ d \in Streams /\ i \in Nat /\ Shape(q) /\ Window(q, d, i) /\ Limits(q)
  BY DEF Ready
<1>2. /\ q.cyclicBufferPos \in Nat /\ q.buffer \in Nat /\ q.pos \in Nat /\ q.streamPos \in Nat
      /\ q.cyclicBufferSize \in Nat /\ q.blockSize \in Nat /\ q.read \in Nat
  BY <1>1, Numbers
<1> DEFINE a == q.cyclicBufferPos + 1
           b == q.buffer + 1
           c == q.pos + 1
<1>3. a \in Nat /\ b \in Nat /\ c \in Nat
  BY <1>2
<1>4. n = [q EXCEPT !.cyclicBufferPos = a, !.buffer = b, !.pos = c]
  BY <1>1 DEF Stepped, Finders
<1> HIDE DEF a, b, c
<1>5. /\ n \in Finders /\ n.cyclicBufferPos = a /\ n.buffer = b /\ n.pos = c
      /\ n.kind = q.kind /\ n.historySize = q.historySize
      /\ n.cyclicBufferSize = q.cyclicBufferSize /\ n.keepSizeBefore = q.keepSizeBefore
      /\ n.keepSizeAfter = q.keepSizeAfter /\ n.blockSize = q.blockSize
      /\ n.hashSizeSum = q.hashSizeSum /\ n.numSons = q.numSons /\ n.son = q.son
      /\ n.hash = q.hash /\ n.bufferBase = q.bufferBase /\ n.streamPos = q.streamPos
      /\ n.posLimit = q.posLimit /\ n.lenLimit = q.lenLimit /\ n.read = q.read
      /\ n.result = q.result /\ n.streamEndWasReached = q.streamEndWasReached
  BY <1>1, <1>3, <1>4 DEF Finders
<1>6. Frame(n, q)
  BY <1>5 DEF Frame
<1>7. Shape(n)
  <2>1. \A k \in DOMAIN q.hash : q.hash[k] \in Nat
    BY <1>1 DEF Shape
  <2> QED BY <1>1, <1>5, <1>6, <2>1, ShapeKept
<1>8. Avail(n) = Avail(q) - 1 /\ Avail(q) \in Int
  BY <1>2, <1>5 DEF Avail, c
<1>9. Window(n, d, i + 1)
  <2>1. n.pos <= n.streamPos
    BY <1>2, <1>5 DEF Avail, c
  <2>2. n.read = (i + 1) + Avail(n) /\ n.read <= StreamLen
    BY <1>1, <1>5, <1>8 DEF Window
  <2>3. n.buffer + Avail(n) <= n.blockSize
    BY <1>1, <1>2, <1>5, <1>8 DEF Window, b
  <2>4. n.buffer >= Min2(i + 1, n.cyclicBufferSize)
    BY <1>1, <1>2, <1>5 DEF Window, b, Min2
  <2>5. ASSUME NEW j \in Int, -Min2(i + 1, n.cyclicBufferSize) <= j, j < Avail(n)
        PROVE  n.bufferBase[n.buffer + j] = d[(i + 1) + j + 1]
    <3> DEFINE k == j + 1
    <3>1. k \in Int /\ -Min2(i, q.cyclicBufferSize) <= k /\ k < Avail(q)
      BY <1>1, <1>2, <1>5, <1>8, <2>5 DEF Min2
    <3>2. n.buffer + j = q.buffer + k /\ (i + 1) + j + 1 = i + k + 1
      BY <1>1, <1>2, <1>5 DEF b
    <3> HIDE DEF k
    <3>3. q.bufferBase[q.buffer + k] = d[i + k + 1]
      BY <1>1, <3>1 DEF Window
    <3> QED BY <1>5, <3>2, <3>3
  <2> QED BY <2>1, <2>2, <2>3, <2>4, <2>5 DEF Window
<1>10. n.cyclicBufferSize <= n.pos
  BY <1>1, <1>2, <1>5 DEF Limits, c
<1>11. n.streamEndWasReached => n.read = StreamLen
  BY <1>1, <1>5 DEF Limits
<1>12. i + 1 \in Nat
  BY <1>1
<1>13. Half(n, d, i + 1)
  BY <1>1, <1>5, <1>7, <1>9, <1>10, <1>11, <1>12 DEF Half
<1> QED BY <1>5, <1>6, <1>8, <1>13 DEF a, c

\* The value by which the references come down.
LEMMA SubIs ==
  ASSUME NEW q, q \in Finders, Shape(q), q.cyclicBufferSize <= q.pos
  PROVE  /\ GetSubValue(q) \in Nat /\ GetSubValue(q) + q.cyclicBufferSize <= q.pos
         /\ q.pos - GetSubValue(q) < q.cyclicBufferSize + NormalizeStep
<1> DEFINE low == q.pos - q.historySize - 1
           step == NormalizeStep
<1>1. low \in Nat /\ step \in Nat /\ step > 0 /\ q.pos \in Nat /\ q.historySize \in Nat
      /\ q.cyclicBufferSize = q.historySize + 1
  BY Sizes, Numbers
<1>2. GetSubValue(q) = low - (low % step)
  BY DEF GetSubValue
<1>3. low % step \in 0 .. step - 1
  <2> HIDE DEF low, step
  <2> QED BY <1>1
<1>4. low % step <= low
  <2> HIDE DEF low, step
  <2> QED BY <1>1
<1> DEFINE rest == low % step
<1> HIDE DEF rest
<1>5. rest \in Nat /\ rest < step /\ rest <= low /\ GetSubValue(q) = low - rest
  BY <1>1, <1>2, <1>3, <1>4 DEF rest
<1> QED BY <1>1, <1>5

\* A reference r becomes v: as far behind, or out of the history as it was.
Carried(q, t, r, v) ==
  /\ v \in Nat
  /\ r <= q.pos =>
       /\ v <= t.pos
       /\ t.pos - v = q.pos - r \/ (t.pos - v >= q.cyclicBufferSize
           /\ q.pos - r >= q.cyclicBufferSize)

\* It is a struct ...
LEMMA NumberedFinder ==
  ASSUME NEW q \in Finders, NEW f \in Arrays, NEW x \in Nat, NEW y \in Nat, NEW z \in Nat
  PROVE  [q EXCEPT !.hash = f, !.pos = x, !.streamPos = y, !.posLimit = z] \in Finders
BY DEF Finders

\* ... in which the references and the position have come down together: Normalize().
LEMMA NormalizeIs ==
  ASSUME NEW q, NEW d, NEW i, Half(q, d, i), q.posLimit = q.pos, NEW n, n = Normalize(q)
  PROVE  /\ Half(n, d, i) /\ Frame(n, q)
         /\ DOMAIN n.hash = DOMAIN q.hash
         /\ \A c \in DOMAIN q.hash : Carried(q, n, q.hash[c], n.hash[c])
         /\ n.pos < MaxVal /\ Avail(n) = Avail(q) /\ n.lenLimit = q.lenLimit
         /\ n.read = q.read /\ n.cyclicBufferPos = q.cyclicBufferPos /\ n.result = q.result
         /\ n.streamEndWasReached = q.streamEndWasReached /\ n.buffer = q.buffer
<1>1. q \in Finders /\ d \in Streams /\ i \in Nat /\ Shape(q) /\ Window(q, d, i)
  BY DEF Half
<1> DEFINE sub == GetSubValue(q)
           f == [c \in DOMAIN q.hash |-> IF q.hash[c] <= sub THEN kEmptyHashValue
             ELSE q.hash[c] - sub]
           x == q.pos - sub
           y == q.streamPos - sub
           z == q.posLimit - sub
<1>2. /\ sub \in Nat /\ sub + q.cyclicBufferSize <= q.pos
      /\ q.pos - sub < q.cyclicBufferSize + NormalizeStep
  BY <1>1, SubIs DEF Half
<1>3. /\ q.pos \in Nat /\ q.streamPos \in Nat /\ q.cyclicBufferSize \in Nat /\ q.hash \in Arrays
      /\ q.buffer \in Nat /\ q.blockSize \in Nat /\ q.read \in Nat
  BY <1>1, Numbers
<1>4. q.pos <= q.streamPos
  BY <1>1 DEF Window
<1>5. \A c \in DOMAIN q.hash : q.hash[c] \in Nat
  BY <1>1 DEF Shape
<1>6. n = [q EXCEPT !.hash = f, !.pos = x, !.streamPos = y, !.posLimit = z]
  BY <1>1 DEF Normalize, Finders
<1> HIDE DEF sub
<1>7. x \in Nat /\ y \in Nat /\ z \in Nat
  BY <1>2, <1>3, <1>4
<1>8. \A c \in DOMAIN q.hash : f[c] \in Nat
  BY <1>2, <1>5 DEF kEmptyHashValue
<1>9. \A c \in DOMAIN q.hash : f[c] = IF q.hash[c] <= sub THEN 0 ELSE q.hash[c] - sub
  BY DEF kEmptyHashValue
<1>10. f = [c \in DOMAIN q.hash |-> f[c]]
  OBVIOUS
<1> HIDE DEF f
<1>11. f \in Arrays /\ DOMAIN f = DOMAIN q.hash
  BY <1>3, <1>8, <1>10, ArrayOf
<1> HIDE DEF x, y, z
<1>20. n \in Finders
  <2>1. q \in Finders /\ f \in Arrays /\ x \in Nat /\ y \in Nat /\ z \in Nat
    BY <1>1, <1>7, <1>11
  <2>2. [q EXCEPT !.hash = f, !.pos = x, !.streamPos = y, !.posLimit = z] \in Finders
    BY <2>1, NumberedFinder, ZenonT(60)
  <2> QED BY <1>6, <2>2, Zenon
<1>12. /\ n.hash = f /\ n.pos = x /\ n.streamPos = y /\ n.posLimit = z
       /\ n.kind = q.kind /\ n.historySize = q.historySize
       /\ n.cyclicBufferSize = q.cyclicBufferSize /\ n.keepSizeBefore = q.keepSizeBefore
       /\ n.keepSizeAfter = q.keepSizeAfter /\ n.blockSize = q.blockSize
       /\ n.hashSizeSum = q.hashSizeSum /\ n.numSons = q.numSons /\ n.son = q.son
       /\ n.bufferBase = q.bufferBase /\ n.buffer = q.buffer
       /\ n.cyclicBufferPos = q.cyclicBufferPos /\ n.lenLimit = q.lenLimit /\ n.read = q.read
       /\ n.result = q.result /\ n.streamEndWasReached = q.streamEndWasReached
  BY <1>1, <1>6, SMTT(60) DEF Finders
<1>13. Frame(n, q)
  BY <1>12 DEF Frame
<1>14. Shape(n)
  BY <1>1, <1>8, <1>11, <1>12, <1>13, ShapeKept
<1>15. Avail(n) = Avail(q) /\ n.pos <= n.streamPos
  BY <1>2, <1>3, <1>4, <1>12 DEF Avail, x, y
<1>16. Window(n, d, i)
  BY <1>1, <1>12, <1>15 DEF Window
<1>17. n.cyclicBufferSize <= n.pos /\ n.pos < MaxVal
  <2>1. MaxVal >= q.cyclicBufferSize + NormalizeStep /\ NormalizeStep \in Nat /\ MaxVal \in Int
    <3>1. MaxVal >= q.historySize + 1 + NormalizeStep
      BY <1>1, Sizes
    <3>2. NormalizeStep \in Nat /\ MaxVal \in Nat
      BY SettingsAssumption
    <3>3. q.cyclicBufferSize = q.historySize + 1
      BY <1>1, Sizes
    <3> QED BY <3>1, <3>2, <3>3
  <2> QED BY <1>2, <1>3, <1>12, <2>1 DEF x
<1>18. Half(n, d, i)
  BY <1>1, <1>12, <1>14, <1>16, <1>17, <1>20 DEF Half
<1>19. ASSUME NEW c \in DOMAIN q.hash PROVE Carried(q, n, q.hash[c], n.hash[c])
  <2> DEFINE r == q.hash[c]
             v == f[c]
  <2>1. r \in Nat /\ v \in Nat /\ v = IF r <= sub THEN 0 ELSE r - sub
    BY <1>5, <1>8, <1>9
  <2> HIDE DEF r, v
  <2>2. Carried(q, n, r, v)
    BY <1>2, <1>3, <1>12, <2>1 DEF Carried, x
  <2> QED BY <1>12, <2>2 DEF r, v
<1> QED BY <1>11, <1>12, <1>13, <1>15, <1>17, <1>18, <1>19

\* What is done to the block leaves alone.
Apart(t, q) ==
  /\ Frame(t, q) /\ t.hash = q.hash /\ t.pos = q.pos
  /\ t.cyclicBufferPos = q.cyclicBufferPos /\ t.lenLimit = q.lenLimit

\* It is a struct.
LEMMA MovedFinder ==
  ASSUME NEW q \in Finders, NEW f \in Arrays, NEW x \in Nat
  PROVE  [q EXCEPT !.bufferBase = f, !.buffer = x] \in Finders
BY DEF Finders

\* The bytes that are kept are moved to the front of the block.
LEMMA MoveBlockIs ==
  ASSUME NEW q, NEW d, NEW i, Half(q, d, i), NeedMove(q), NEW n, n = MoveBlock(q)
  PROVE  /\ Half(n, d, i) /\ Apart(n, q) /\ ~NeedMove(n)
         /\ Avail(n) = Avail(q) /\ n.read = q.read /\ n.result = q.result
         /\ n.streamEndWasReached = q.streamEndWasReached
<1>1. q \in Finders /\ d \in Streams /\ i \in Nat /\ Shape(q) /\ Window(q, d, i)
  BY DEF Half
<1> DEFINE f == [k \in DOMAIN q.bufferBase |->
                   IF k < Avail(q) + q.keepSizeBefore
                     THEN q.bufferBase[k + q.buffer - q.keepSizeBefore]
                                                      ELSE q.bufferBase[k]]
           x == q.keepSizeBefore
           H == q.historySize + 1
<1>2. /\ q.pos \in Nat /\ q.streamPos \in Nat /\ q.buffer \in Nat /\ q.blockSize \in Nat
      /\ q.read \in Nat /\ q.bufferBase \in Arrays
  BY <1>1, Numbers
<1>3. /\ H \in Nat /\ q.cyclicBufferSize = H /\ x = H /\ q.keepSizeAfter = MatchMaxLen
      /\ q.blockSize = H + MatchMaxLen + Reserve /\ MatchMaxLen \in Nat /\ Reserve \in Nat
      /\ Reserve > 0
  BY <1>1, Sizes
<1>4. /\ q.pos <= q.streamPos /\ q.read = i + Avail(q) /\ q.read <= StreamLen
      /\ q.buffer + Avail(q) <= q.blockSize
      /\ DOMAIN q.bufferBase = 0 .. q.blockSize - 1
  BY <1>1 DEF Window, Shape
<1>5. Avail(q) \in Nat
  BY <1>2, <1>4 DEF Avail
<1> DEFINE a == Avail(q)
<1>6. q.buffer >= H + Reserve /\ a <= MatchMaxLen
  <2>1. q.blockSize - q.buffer <= MatchMaxLen
    BY <1>3 DEF NeedMove
  <2> HIDE DEF H
  <2> QED BY <1>2, <1>3, <1>4, <1>5, <2>1
<1>7. n = [q EXCEPT !.bufferBase = f, !.buffer = x]
  BY <1>1 DEF MoveBlock, Finders
<1>8. \A k \in DOMAIN q.bufferBase : f[k] = IF k < a + H THEN q.bufferBase[k + q.buffer - H]
                                                         ELSE q.bufferBase[k]
  BY <1>3
<1>9. f = [k \in DOMAIN q.bufferBase |-> f[k]]
  OBVIOUS
<1> HIDE DEF f, x, a, H
<1>10. \A k \in DOMAIN q.bufferBase : f[k] \in Int
  <2>1. SUFFICES ASSUME NEW k \in DOMAIN q.bufferBase PROVE f[k] \in Int
    OBVIOUS
  <2>2. \A c \in DOMAIN q.bufferBase : q.bufferBase[c] \in Int
    BY <1>2, ArrayIs
  <2>3. k \in 0 .. q.blockSize - 1
    BY <1>4
  <2>4. CASE k < a + H
    <3>1. k + q.buffer - H \in 0 .. q.blockSize - 1
      BY <1>2, <1>3, <1>4, <1>5, <1>6, <2>3, <2>4 DEF a
    <3> QED BY <1>4, <1>8, <2>2, <2>4, <3>1
  <2>5. CASE ~(k < a + H)
    BY <1>8, <2>2, <2>5
  <2> QED BY <2>4, <2>5
<1>11. f \in Arrays /\ DOMAIN f = DOMAIN q.bufferBase
  BY <1>2, <1>9, <1>10, ArrayOf
<1>12. n \in Finders
  <2>1. q \in Finders /\ f \in Arrays /\ x \in Nat
    BY <1>1, <1>3, <1>11
  <2>2. [q EXCEPT !.bufferBase = f, !.buffer = x] \in Finders
    BY <2>1, MovedFinder, ZenonT(60)
  <2> QED BY <1>7, <2>2, Zenon
<1>13. /\ n.bufferBase = f /\ n.buffer = x
       /\ n.kind = q.kind /\ n.historySize = q.historySize
       /\ n.cyclicBufferSize = q.cyclicBufferSize /\ n.keepSizeBefore = q.keepSizeBefore
       /\ n.keepSizeAfter = q.keepSizeAfter /\ n.blockSize = q.blockSize
       /\ n.hashSizeSum = q.hashSizeSum /\ n.numSons = q.numSons /\ n.son = q.son
       /\ n.hash = q.hash /\ n.pos = q.pos /\ n.streamPos = q.streamPos
       /\ n.cyclicBufferPos = q.cyclicBufferPos /\ n.lenLimit = q.lenLimit /\ n.read = q.read
       /\ n.result = q.result /\ n.streamEndWasReached = q.streamEndWasReached
  BY <1>1, <1>7, SMTT(60) DEF Finders
<1>14. Frame(n, q) /\ Apart(n, q)
  BY <1>13 DEF Frame, Apart
<1>15. Shape(n)
  <2>1. \A c \in DOMAIN n.hash : n.hash[c] \in Nat
    BY <1>1, <1>13 DEF Shape
  <2> QED BY <1>1, <1>11, <1>13, <1>14, <2>1, ShapeKept
<1>16. Avail(n) = Avail(q)
  BY <1>13 DEF Avail
<1>17. Window(n, d, i)
  <2>1. ASSUME NEW j \in Int, -Min2(i, n.cyclicBufferSize) <= j, j < Avail(n)
        PROVE  n.bufferBase[n.buffer + j] = d[i + j + 1]
    <3>1. -Min2(i, q.cyclicBufferSize) <= j /\ j < Avail(q) /\ -H <= j /\ j < a
      BY <1>1, <1>3, <1>13, <1>16, <2>1 DEF Min2, a
    <3>2. q.bufferBase[q.buffer + j] = d[i + j + 1]
      BY <1>1, <3>1 DEF Window
    <3> DEFINE k == H + j
    <3>3. k \in DOMAIN q.bufferBase /\ k < a + H /\ k + q.buffer - H = q.buffer + j
      <4>1. k \in 0 .. q.blockSize - 1
        BY <1>2, <1>3, <1>4, <1>5, <1>6, <3>1 DEF a
      <4>2. k < a + H /\ k + q.buffer - H = q.buffer + j
        BY <1>2, <1>3, <1>5, <3>1 DEF a
      <4> QED BY <1>4, <4>1, <4>2
    <3>4. n.buffer + j = k
      BY <1>3, <1>13
    <3> HIDE DEF k
    <3>5. f[k] = q.bufferBase[q.buffer + j]
      BY <1>8, <3>3
    <3> QED BY <1>13, <3>2, <3>4, <3>5
  <2>2. n.buffer + Avail(n) <= n.blockSize
    BY <1>3, <1>5, <1>6, <1>13, <1>16 DEF a
  <2>3. n.buffer >= Min2(i, n.cyclicBufferSize)
    BY <1>1, <1>3, <1>13 DEF Min2
  <2>4. n.pos <= n.streamPos /\ n.read = i + Avail(n) /\ n.read <= StreamLen
    BY <1>4, <1>13, <1>16
  <2> QED BY <2>1, <2>2, <2>3, <2>4 DEF Window
<1>18. Half(n, d, i)
  BY <1>1, <1>12, <1>13, <1>15, <1>17 DEF Half
<1>19. ~NeedMove(n)
  BY <1>3, <1>13 DEF NeedMove
<1> QED BY <1>13, <1>14, <1>16, <1>18, <1>19

\* The block with r bytes of the device.
Got(q, r) ==
  [q EXCEPT !.streamPos = @ + r, !.read = @ + r,
            !.bufferBase = [k \in DOMAIN @ |->
              IF k \in q.buffer + Avail(q) .. q.buffer + Avail(q) + r - 1
              THEN data[q.read + 1 + k - (q.buffer + Avail(q))] ELSE @[k]]]

\* It is a struct.
LEMMA ReadFinder ==
  ASSUME NEW q \in Finders, NEW f \in Arrays, NEW x \in Nat, NEW y \in Nat
  PROVE  [q EXCEPT !.streamPos = x, !.read = y, !.bufferBase = f] \in Finders
BY DEF Finders

\* The bytes that were read lie behind those that were there.
LEMMA GotIs ==
  ASSUME NEW q, NEW i, Half(q, data, i), ~q.streamEndWasReached, NEW r \in Nat,
         q.buffer + Avail(q) + r <= q.blockSize, q.read + r <= StreamLen,
         NEW n, n = Got(q, r)
  PROVE  /\ Half(n, data, i) /\ Apart(n, q) /\ Avail(n) = Avail(q) + r
         /\ n.read = q.read + r /\ n.result = q.result /\ n.buffer = q.buffer
         /\ n.streamEndWasReached = q.streamEndWasReached
<1>1. q \in Finders /\ data \in Streams /\ i \in Nat /\ Shape(q) /\ Window(q, data, i)
  BY DEF Half
<1> DEFINE dest == q.buffer + Avail(q)
           f == [k \in DOMAIN q.bufferBase |->
                   IF k \in dest .. dest + r - 1 THEN data[q.read + 1 + k - dest]
                                                 ELSE q.bufferBase[k]]
           x == q.streamPos + r
           y == q.read + r
<1>2. /\ q.pos \in Nat /\ q.streamPos \in Nat /\ q.buffer \in Nat /\ q.blockSize \in Nat
      /\ q.read \in Nat /\ q.bufferBase \in Arrays /\ q.cyclicBufferSize \in Nat
      /\ StreamLen \in Nat
  BY <1>1, Numbers, SettingsAssumption
<1>3. /\ q.pos <= q.streamPos /\ q.read = i + Avail(q) /\ q.read <= StreamLen
      /\ DOMAIN q.bufferBase = 0 .. q.blockSize - 1
      /\ q.buffer >= Min2(i, q.cyclicBufferSize)
  BY <1>1 DEF Window, Shape
<1>4. Avail(q) \in Nat /\ dest \in Nat
  BY <1>2, <1>3 DEF Avail
<1>5. n = [q EXCEPT !.streamPos = x, !.read = y, !.bufferBase = f]
  BY <1>1 DEF Got, Finders
<1>6. \A k \in DOMAIN q.bufferBase : f[k] = IF k \in dest .. dest + r - 1
                                            THEN data[q.read + 1 + k - dest]
                                              ELSE q.bufferBase[k]
  OBVIOUS
<1>7. f = [k \in DOMAIN q.bufferBase |-> f[k]]
  OBVIOUS
<1>8. x \in Nat /\ y \in Nat
  BY <1>2
<1> HIDE DEF f, x, y
<1>9. \A k \in DOMAIN q.bufferBase : f[k] \in Int
  <2>1. SUFFICES ASSUME NEW k \in DOMAIN q.bufferBase PROVE f[k] \in Int
    OBVIOUS
  <2>2. \A c \in DOMAIN q.bufferBase : q.bufferBase[c] \in Int
    BY <1>2, ArrayIs
  <2>3. CASE k \in dest .. dest + r - 1
    <3>1. q.read + 1 + k - dest \in 1 .. StreamLen
      BY <1>2, <1>4, <2>3
    <3>2. data[q.read + 1 + k - dest] \in {0, 1}
      BY <1>1, <3>1 DEF Streams
    <3>3. f[k] \in {0, 1}
      BY <1>6, <2>3, <3>2
    <3> QED BY <3>3
  <2>4. CASE k \notin dest .. dest + r - 1
    BY <1>6, <2>2, <2>4
  <2> QED BY <2>3, <2>4
<1>10. f \in Arrays /\ DOMAIN f = DOMAIN q.bufferBase
  BY <1>2, <1>7, <1>9, ArrayOf
<1>11. n \in Finders
  <2>1. q \in Finders /\ f \in Arrays /\ x \in Nat /\ y \in Nat
    BY <1>1, <1>8, <1>10
  <2>2. [q EXCEPT !.streamPos = x, !.read = y, !.bufferBase = f] \in Finders
    BY <2>1, ReadFinder, ZenonT(60)
  <2> QED BY <1>5, <2>2, Zenon
<1>12. /\ n.bufferBase = f /\ n.streamPos = x /\ n.read = y /\ n.buffer = q.buffer
       /\ n.kind = q.kind /\ n.historySize = q.historySize
       /\ n.cyclicBufferSize = q.cyclicBufferSize /\ n.keepSizeBefore = q.keepSizeBefore
       /\ n.keepSizeAfter = q.keepSizeAfter /\ n.blockSize = q.blockSize
       /\ n.hashSizeSum = q.hashSizeSum /\ n.numSons = q.numSons /\ n.son = q.son
       /\ n.hash = q.hash /\ n.pos = q.pos
       /\ n.cyclicBufferPos = q.cyclicBufferPos /\ n.lenLimit = q.lenLimit
       /\ n.result = q.result /\ n.streamEndWasReached = q.streamEndWasReached
  BY <1>1, <1>5, SMTT(60) DEF Finders
<1>13. Frame(n, q) /\ Apart(n, q)
  BY <1>12 DEF Frame, Apart
<1>14. Shape(n)
  <2>1. \A c \in DOMAIN n.hash : n.hash[c] \in Nat
    BY <1>1, <1>12 DEF Shape
  <2> QED BY <1>1, <1>10, <1>12, <1>13, <2>1, ShapeKept
<1>15. Avail(n) = Avail(q) + r /\ n.pos <= n.streamPos
  BY <1>2, <1>3, <1>12 DEF Avail, x
<1>16. Window(n, data, i)
  <2>1. ASSUME NEW j \in Int, -Min2(i, n.cyclicBufferSize) <= j, j < Avail(n)
        PROVE  n.bufferBase[n.buffer + j] = data[i + j + 1]
    <3> DEFINE k == q.buffer + j
    <3>1. /\ -Min2(i, q.cyclicBufferSize) <= j /\ j < Avail(q) + r
      BY <1>12, <1>15, <2>1
    <3>2. k \in 0 .. q.blockSize - 1
      <4>1. Min2(i, q.cyclicBufferSize) \in Nat
        BY <1>1, <1>2 DEF Min2
      <4>2. k \in Int /\ k >= 0
        BY <1>2, <1>3, <3>1, <4>1
      <4>3. k < q.blockSize
        BY <1>2, <1>4, <3>1
      <4> QED BY <1>2, <4>2, <4>3
    <3>3. CASE j < Avail(q)
      <4>1. q.bufferBase[k] = data[i + j + 1]
        BY <1>1, <3>1, <3>3 DEF Window
      <4>2. k \notin dest .. dest + r - 1
        BY <1>2, <1>4, <3>3
      <4> HIDE DEF k
      <4>3. f[k] = q.bufferBase[k]
        BY <1>3, <1>6, <3>2, <4>2
      <4> QED BY <1>12, <4>1, <4>3 DEF k
    <3>4. CASE ~(j < Avail(q))
      <4>3. k \in dest .. dest + r - 1
        BY <1>2, <1>4, <3>1, <3>4
      <4>4. q.read + 1 + k - dest = i + j + 1
        BY <1>1, <1>2, <1>3, <1>4
      <4>1. k \in dest .. dest + r - 1 /\ q.read + 1 + k - dest = i + j + 1
        BY <4>3, <4>4
      <4> HIDE DEF k
      <4>2. f[k] = data[q.read + 1 + k - dest]
        BY <1>3, <1>6, <3>2, <4>1
      <4> QED BY <1>12, <4>1, <4>2 DEF k
    <3> QED BY <3>3, <3>4
  <2>2. n.buffer + Avail(n) <= n.blockSize
    BY <1>2, <1>4, <1>12, <1>15
  <2>3. n.buffer >= Min2(i, n.cyclicBufferSize)
    BY <1>3, <1>12
  <2>4. n.read = i + Avail(n) /\ n.read <= StreamLen
    BY <1>1, <1>2, <1>3, <1>4, <1>12, <1>15 DEF y
  <2> QED BY <1>15, <2>1, <2>2, <2>3, <2>4 DEF Window
<1>17. Half(n, data, i)
  BY <1>1, <1>11, <1>12, <1>14, <1>16 DEF Half
<1> QED BY <1>12, <1>13, <1>15, <1>17 DEF y

\* Marked: the end was reached, or the read failed.
LEMMA EndedFinder ==
  ASSUME NEW q, NEW d, NEW i, Half(q, d, i), NEW n,
         \/ n = [q EXCEPT !.streamEndWasReached = TRUE] /\ q.read = StreamLen
         \/ n = [q EXCEPT !.result = FALSE]
  PROVE  /\ Half(n, d, i) /\ Apart(n, q) /\ Avail(n) = Avail(q) /\ n.read = q.read
         /\ n.streamEndWasReached \/ ~n.result
         /\ n.result => q.result
<1>1. q \in Finders /\ d \in Streams /\ i \in Nat /\ Shape(q) /\ Window(q, d, i)
  BY DEF Half
<1>2. n \in Finders
  <2>1. [q EXCEPT !.streamEndWasReached = TRUE] \in Finders
    BY <1>1 DEF Finders
  <2>2. [q EXCEPT !.result = FALSE] \in Finders
    BY <1>1 DEF Finders
  <2> QED BY <2>1, <2>2
<1>3. /\ n.bufferBase = q.bufferBase /\ n.streamPos = q.streamPos /\ n.read = q.read
      /\ n.buffer = q.buffer
      /\ n.kind = q.kind /\ n.historySize = q.historySize
      /\ n.cyclicBufferSize = q.cyclicBufferSize /\ n.keepSizeBefore = q.keepSizeBefore
      /\ n.keepSizeAfter = q.keepSizeAfter /\ n.blockSize = q.blockSize
      /\ n.hashSizeSum = q.hashSizeSum /\ n.numSons = q.numSons /\ n.son = q.son
      /\ n.hash = q.hash /\ n.pos = q.pos
      /\ n.cyclicBufferPos = q.cyclicBufferPos /\ n.lenLimit = q.lenLimit
  BY <1>1, SMTT(60) DEF Finders
<1>4. /\ n.streamEndWasReached \/ ~n.result
      /\ n.result => q.result
      /\ n.streamEndWasReached => n.read = StreamLen
  <2>1. CASE n = [q EXCEPT !.streamEndWasReached = TRUE] /\ q.read = StreamLen
    <3>1. n.streamEndWasReached = TRUE /\ n.result = q.result
      BY <1>1, <2>1 DEF Finders
    <3> QED BY <1>3, <2>1, <3>1
  <2>2. CASE n = [q EXCEPT !.result = FALSE]
    <3>1. n.result = FALSE /\ n.streamEndWasReached = q.streamEndWasReached
      BY <1>1, <2>2 DEF Finders
    <3> QED BY <1>3, <3>1 DEF Half
  <2> QED BY <2>1, <2>2
<1>5. Frame(n, q) /\ Apart(n, q)
  BY <1>3 DEF Frame, Apart
<1>6. Shape(n)
  <2>1. \A c \in DOMAIN n.hash : n.hash[c] \in Nat
    BY <1>1, <1>3 DEF Shape
  <2> QED BY <1>1, <1>3, <1>5, <2>1, ShapeKept
<1>7. Avail(n) = Avail(q)
  BY <1>3 DEF Avail
<1>8. Window(n, d, i)
  BY <1>1, <1>3, <1>7 DEF Window
<1>9. Half(n, d, i)
  BY <1>1, <1>2, <1>3, <1>4, <1>6, <1>8 DEF Half
<1> QED BY <1>3, <1>4, <1>5, <1>7, <1>9

\* What may be left by a read: more than a match ahead, or the end, or an error.
LEMMA ReadBlockIs ==
  ASSUME NEW q, NEW i, Half(q, data, i), ~NeedMove(q), ~q.streamEndWasReached,
         Avail(q) <= MatchMaxLen, NEW t \in ReadBlock(q)
  PROVE  /\ Half(t, data, i) /\ Apart(t, q)
         /\ t.read >= q.read /\ Avail(t) >= Avail(q)
         /\ t.result /\ ~t.streamEndWasReached => Avail(t) > MatchMaxLen
         /\ ~q.result => ~t.result /\ t.read = q.read
<1> DEFINE dest == q.buffer + Avail(q)
           size == q.blockSize - dest
           left == StreamLen - q.read
           enough(r) == Avail(q) + r > q.keepSizeAfter
           sizes == 0 .. Min2(size, left)
<1>1. q \in Finders /\ Shape(q) /\ Window(q, data, i)
  BY DEF Half
<1>2. /\ q.pos \in Nat /\ q.streamPos \in Nat /\ q.buffer \in Nat /\ q.blockSize \in Nat
      /\ q.read \in Nat /\ StreamLen \in Nat /\ MatchMaxLen \in Nat
      /\ q.keepSizeAfter = MatchMaxLen /\ q.result \in BOOLEAN
  BY <1>1, Numbers, SettingsAssumption, Sizes
<1>3. Avail(q) \in Nat /\ dest <= q.blockSize /\ q.read <= StreamLen
  BY <1>1, <1>2 DEF Window, Avail
<1>4. q.blockSize - q.buffer > MatchMaxLen
  BY <1>2 DEF NeedMove
<1>5. size \in Nat /\ size # 0 /\ left \in Nat /\ Avail(q) + size > MatchMaxLen
  BY <1>2, <1>3, <1>4
<1>6. CASE ~q.result
  <2>1. t = q
    BY <1>6 DEF ReadBlock
  <2>2. Frame(q, q) /\ Apart(q, q)
    BY DEF Frame, Apart
  <2> QED BY <1>2, <1>3, <1>6, <2>1, <2>2
<1>7. CASE q.result
  <2>1. \E r \in sizes :
          \/ t = Got(q, r) /\ (enough(r) \/ r = size)
          \/ t = [Got(q, r) EXCEPT !.streamEndWasReached = TRUE] /\ r = left
          \/ t = [Got(q, r) EXCEPT !.result = FALSE]
    BY <1>5, <1>7 DEF ReadBlock, Got
  <2>2. PICK r \in sizes :
          \/ t = Got(q, r) /\ (enough(r) \/ r = size)
          \/ t = [Got(q, r) EXCEPT !.streamEndWasReached = TRUE] /\ r = left
          \/ t = [Got(q, r) EXCEPT !.result = FALSE]
    BY <2>1
  <2>3. r \in Nat /\ r <= size /\ r <= left
    BY <1>5 DEF Min2
  <2> DEFINE n == Got(q, r)
  <2>4. q.buffer + Avail(q) + r <= q.blockSize /\ q.read + r <= StreamLen
    BY <1>2, <1>3, <2>3
  <2>5. /\ Half(n, data, i) /\ Apart(n, q) /\ Avail(n) = Avail(q) + r
        /\ n.read = q.read + r /\ n.result = q.result
        /\ n.streamEndWasReached = q.streamEndWasReached
    <3>1. r \in Nat
      BY <2>3
    <3> QED BY <2>4, <3>1, GotIs
  <2> HIDE DEF n
  <2>6. CASE t = n /\ (enough(r) \/ r = size)
    <3>1. Avail(t) > MatchMaxLen
      BY <1>2, <1>5, <2>5, <2>6
    <3>2. t.read >= q.read /\ Avail(t) >= Avail(q)
      BY <1>2, <1>3, <2>3, <2>5, <2>6
    <3> QED BY <1>7, <2>5, <2>6, <3>1, <3>2
  <2>7. CASE \/ t = [n EXCEPT !.streamEndWasReached = TRUE] /\ r = left
             \/ t = [n EXCEPT !.result = FALSE]
    <3>1. r = left => n.read = StreamLen
      BY <1>2, <2>5
    <3>2. \/ t = [n EXCEPT !.streamEndWasReached = TRUE] /\ n.read = StreamLen
          \/ t = [n EXCEPT !.result = FALSE]
      BY <2>7, <3>1
    <3>3. /\ Half(t, data, i) /\ Apart(t, n) /\ Avail(t) = Avail(n) /\ t.read = n.read
          /\ t.streamEndWasReached \/ ~t.result
          /\ t.result => n.result
      BY <2>5, <3>2, EndedFinder
    <3>4. t.read >= q.read /\ Avail(t) >= Avail(q)
      BY <1>2, <1>3, <2>3, <2>5, <3>3
    <3>5. Apart(t, q)
      BY <2>5, <3>3 DEF Apart, Frame
    <3> QED BY <1>7, <3>3, <3>4, <3>5
  <2> QED BY <2>2, <2>6, <2>7 DEF n
<1> QED BY <1>2, <1>6, <1>7

\* It is a struct.
LEMMA LimitedFinder ==
  ASSUME NEW q \in Finders, NEW x \in Nat, NEW y \in Nat
  PROVE  /\ [q EXCEPT !.lenLimit = x, !.posLimit = y] \in Finders
         /\ [q EXCEPT !.cyclicBufferPos = x] \in Finders
BY DEF Finders

\* The limits keep the search in the block and the position in its range.
LEMMA SetLimitsIs ==
  ASSUME NEW q, NEW d, NEW i, Half(q, d, i), q.pos < MaxVal,
           q.cyclicBufferPos < q.cyclicBufferSize,
         q.result /\ ~q.streamEndWasReached => Avail(q) > MatchMaxLen,
         NEW n, n = SetLimits(q)
  PROVE  /\ Ready(n, d, i) /\ Frame(n, q) /\ n.hash = q.hash /\ n.pos = q.pos
         /\ n.read = q.read /\ n.cyclicBufferPos = q.cyclicBufferPos /\ n.result = q.result
         /\ n.lenLimit = Min2(Avail(q), MatchMaxLen)
<1>1. q \in Finders /\ d \in Streams /\ i \in Nat /\ Shape(q) /\ Window(q, d, i)
  BY DEF Half
<1> DEFINE ahead == IF Avail(q) <= q.keepSizeAfter THEN Min2(Avail(q), 1)
                                                   ELSE Avail(q) - q.keepSizeAfter
           a == MaxVal - q.pos
           b == q.cyclicBufferSize - q.cyclicBufferPos
           limit == Min({a, b, ahead})
           x == Min2(Avail(q), MatchMaxLen)
           y == q.pos + limit
<1>2. /\ q.pos \in Nat /\ q.streamPos \in Nat /\ q.cyclicBufferPos \in Nat
      /\ q.cyclicBufferSize \in Nat /\ MaxVal \in Nat /\ MatchMaxLen \in Nat
      /\ q.keepSizeAfter = MatchMaxLen /\ q.pos <= q.streamPos
  BY <1>1, Numbers, Sizes, SettingsAssumption DEF Window
<1>3. Avail(q) \in Nat
  BY <1>2 DEF Avail
<1>4. a \in Nat /\ b \in Nat /\ ahead \in Nat /\ a > 0 /\ b > 0
  BY <1>2, <1>3 DEF Min2
<1>5. Avail(q) > 0 => ahead > 0 /\ ahead <= Max2(1, Avail(q) - MatchMaxLen)
  BY <1>2, <1>3 DEF Min2, Max2
<1> HIDE DEF ahead, a, b
<1>6. limit \in {a, b, ahead} /\ \A k \in {a, b, ahead} : limit <= k
  <2> DEFINE T == {a, b, ahead}
  <2>1. T \subseteq Nat /\ T # {}
    BY <1>4
  <2>2. a \in T
    OBVIOUS
  <2> HIDE DEF T
  <2>3. Min(T) \in T /\ \A k \in T : Min(T) <= k
    BY <2>1, <2>2, MinIsLeast
  <2> QED BY <2>3 DEF T
<1> HIDE DEF limit
<1>7. limit \in Nat /\ limit <= a /\ limit <= b /\ limit <= ahead /\ (ahead > 0 => limit > 0)
  BY <1>4, <1>6
<1>8. x \in Nat /\ y \in Nat
  BY <1>2, <1>3, <1>7 DEF Min2
<1>9. n = [q EXCEPT !.lenLimit = x, !.posLimit = y]
  BY <1>1 DEF SetLimits, limit, ahead, a, b
<1> HIDE DEF x, y
<1>10. n \in Finders
  <2>1. [q EXCEPT !.lenLimit = x, !.posLimit = y] \in Finders
    BY <1>1, <1>8, LimitedFinder, ZenonT(60)
  <2> QED BY <1>9, <2>1, Zenon
<1>11. /\ n.bufferBase = q.bufferBase /\ n.streamPos = q.streamPos /\ n.read = q.read
       /\ n.buffer = q.buffer
       /\ n.kind = q.kind /\ n.historySize = q.historySize
       /\ n.cyclicBufferSize = q.cyclicBufferSize /\ n.keepSizeBefore = q.keepSizeBefore
       /\ n.keepSizeAfter = q.keepSizeAfter /\ n.blockSize = q.blockSize
       /\ n.hashSizeSum = q.hashSizeSum /\ n.numSons = q.numSons /\ n.son = q.son
       /\ n.hash = q.hash /\ n.pos = q.pos /\ n.cyclicBufferPos = q.cyclicBufferPos
       /\ n.result = q.result /\ n.streamEndWasReached = q.streamEndWasReached
       /\ n.lenLimit = x /\ n.posLimit = y
  BY <1>1, <1>9, SMTT(60) DEF Finders
<1>12. Frame(n, q)
  BY <1>11 DEF Frame
<1>13. Shape(n)
  <2>1. \A c \in DOMAIN n.hash : n.hash[c] \in Nat
    BY <1>1, <1>11 DEF Shape
  <2> QED BY <1>1, <1>11, <1>12, <2>1, ShapeKept
<1>14. Avail(n) = Avail(q)
  BY <1>11 DEF Avail
<1>15. Window(n, d, i)
  BY <1>1, <1>11, <1>14 DEF Window
<1>16. Limits(n)
  <2>1. n.cyclicBufferSize <= n.pos /\ n.pos < MaxVal /\ n.cyclicBufferPos < n.cyclicBufferSize
    BY <1>11 DEF Half
  <2>2. n.lenLimit = Min2(Avail(n), MatchMaxLen)
    BY <1>11, <1>14 DEF x
  <2>3. ASSUME Avail(n) > 0
        PROVE  /\ n.pos < n.posLimit /\ n.posLimit <= MaxVal
               /\ n.posLimit - n.pos <= n.cyclicBufferSize - n.cyclicBufferPos
               /\ n.posLimit - n.pos <= Max2(1, Avail(n) - MatchMaxLen)
    <3>1. limit > 0 /\ ahead <= Max2(1, Avail(q) - MatchMaxLen)
      BY <1>5, <1>7, <1>14, <2>3
    <3>2. n.posLimit = n.pos + limit /\ limit <= MaxVal - n.pos
          /\ limit <= n.cyclicBufferSize - n.cyclicBufferPos
      BY <1>7, <1>11 DEF y, a, b
    <3>3. Max2(1, Avail(q) - MatchMaxLen) \in Nat
      BY <1>2, <1>3 DEF Max2
    <3>4. limit <= Max2(1, Avail(n) - MatchMaxLen)
      BY <1>4, <1>7, <1>14, <3>1, <3>3
    <3>5. n.pos \in Nat
      BY <1>2, <1>11
    <3>6. n.posLimit - n.pos = limit
      BY <1>7, <3>2, <3>5
    <3>7. n.pos < n.posLimit /\ n.posLimit <= MaxVal
      BY <1>2, <1>7, <3>1, <3>2, <3>5
    <3> QED BY <3>2, <3>4, <3>6, <3>7
  <2>4. /\ n.streamEndWasReached => n.read = StreamLen
        /\ n.result /\ ~n.streamEndWasReached => Avail(n) > MatchMaxLen
    BY <1>11, <1>14 DEF Half
  <2> QED BY <2>1, <2>2, <2>3, <2>4 DEF Limits
<1>17. Ready(n, d, i)
  BY <1>1, <1>10, <1>13, <1>15, <1>16 DEF Ready
<1> QED BY <1>11, <1>12, <1>17 DEF x

\* The ring wraps.
Wrapped(q) == [q EXCEPT !.cyclicBufferPos = IF @ = q.cyclicBufferSize THEN 0 ELSE @]

\* Nothing else changes.
LEMMA WrappedIs ==
  ASSUME NEW q, NEW d, NEW i, Half(q, d, i), q.cyclicBufferPos <= q.cyclicBufferSize,
         NEW n, n = Wrapped(q)
  PROVE  /\ Half(n, d, i) /\ Frame(n, q) /\ n.hash = q.hash /\ n.pos = q.pos
         /\ n.read = q.read /\ n.result = q.result
         /\ n.streamEndWasReached = q.streamEndWasReached /\ Avail(n) = Avail(q)
         /\ n.cyclicBufferPos = IF q.cyclicBufferPos = q.cyclicBufferSize THEN 0
                                                                          ELSE q.cyclicBufferPos
         /\ n.cyclicBufferPos < n.cyclicBufferSize
<1>1. q \in Finders /\ d \in Streams /\ i \in Nat /\ Shape(q) /\ Window(q, d, i)
  BY DEF Half
<1>2. q.cyclicBufferPos \in Nat /\ q.cyclicBufferSize \in Nat /\ q.cyclicBufferSize > 0
  BY <1>1, Numbers, Sizes
<1> DEFINE x == IF q.cyclicBufferPos = q.cyclicBufferSize THEN 0 ELSE q.cyclicBufferPos
<1>3. x \in Nat /\ x < q.cyclicBufferSize
  BY <1>2
<1>4. n = [q EXCEPT !.cyclicBufferPos = x]
  BY <1>1 DEF Wrapped, Finders
<1> HIDE DEF x
<1>5. n \in Finders
  <2>1. [q EXCEPT !.cyclicBufferPos = x] \in Finders
    BY <1>1, <1>3 DEF Finders
  <2> QED BY <1>4, <2>1, Zenon
<1>6. /\ n.bufferBase = q.bufferBase /\ n.streamPos = q.streamPos /\ n.read = q.read
      /\ n.buffer = q.buffer
      /\ n.kind = q.kind /\ n.historySize = q.historySize
      /\ n.cyclicBufferSize = q.cyclicBufferSize /\ n.keepSizeBefore = q.keepSizeBefore
      /\ n.keepSizeAfter = q.keepSizeAfter /\ n.blockSize = q.blockSize
      /\ n.hashSizeSum = q.hashSizeSum /\ n.numSons = q.numSons /\ n.son = q.son
      /\ n.hash = q.hash /\ n.pos = q.pos /\ n.cyclicBufferPos = x
      /\ n.result = q.result /\ n.streamEndWasReached = q.streamEndWasReached
  BY <1>1, <1>4, SMTT(60) DEF Finders
<1>7. Frame(n, q)
  BY <1>6 DEF Frame
<1>8. Shape(n)
  <2>1. \A c \in DOMAIN n.hash : n.hash[c] \in Nat
    BY <1>1, <1>6 DEF Shape
  <2> QED BY <1>1, <1>6, <1>7, <2>1, ShapeKept
<1>9. Avail(n) = Avail(q)
  BY <1>6 DEF Avail
<1>10. Window(n, d, i)
  BY <1>1, <1>6, <1>9 DEF Window
<1>11. Half(n, d, i)
  BY <1>1, <1>5, <1>6, <1>8, <1>10 DEF Half
<1>12. n.cyclicBufferPos < n.cyclicBufferSize
  BY <1>3, <1>6
<1> QED BY <1>6, <1>7, <1>9, <1>11, <1>12 DEF x

\* A reference r becomes v: one further behind, or out of the history.
Behind(q, t, r, v) ==
  /\ v \in Nat
  /\ r <= q.pos =>
       /\ v <= t.pos
       /\ t.pos - v = (q.pos - r) + 1
            \/ (t.pos - v >= q.cyclicBufferSize /\ (q.pos - r) + 1 >= q.cyclicBufferSize)

\* What a step does to all references at once, and to the ring.
Moved(q, t) ==
  /\ Frame(t, q) /\ DOMAIN t.hash = DOMAIN q.hash
  /\ \A c \in DOMAIN q.hash : Behind(q, t, q.hash[c], t.hash[c])
  /\ \A a \in Nat : a + 1 < q.cyclicBufferSize => Slot(t, a + 1) = Slot(q, a)
  /\ t.lenLimit <= q.lenLimit /\ t.read >= q.read
  /\ ~q.result => ~t.result /\ t.read = q.read

\* The ring turns by one slot.
LEMMA NextSlot ==
  ASSUME NEW q, NEW t, q.cyclicBufferPos \in Nat, q.cyclicBufferSize \in Nat,
         q.cyclicBufferPos < q.cyclicBufferSize, t.cyclicBufferSize = q.cyclicBufferSize,
         t.cyclicBufferPos = (IF q.cyclicBufferPos + 1 = q.cyclicBufferSize
           THEN 0 ELSE q.cyclicBufferPos + 1),
         NEW a \in Nat, a + 1 < q.cyclicBufferSize
  PROVE  Slot(t, a + 1) = Slot(q, a)
<1> DEFINE c == q.cyclicBufferPos  n == t.cyclicBufferPos  H == q.cyclicBufferSize
<1>1. /\ Slot(t, a + 1) = n - (a + 1) + (IF a + 1 > n THEN H ELSE 0)
      /\ Slot(q, a) = c - a + (IF a > c THEN H ELSE 0)
  BY DEF Slot
<1>2. c \in Nat /\ H \in Nat /\ c < H /\ n = (IF c + 1 = H THEN 0 ELSE c + 1) /\ a + 1 < H
  OBVIOUS
<1> HIDE DEF c, n, H
<1>3. CASE c + 1 = H
  BY <1>1, <1>2, <1>3
<1>4. CASE c + 1 # H
  BY <1>1, <1>2, <1>4
<1> QED BY <1>3, <1>4

\* The state in which CheckLimits() reads.
LEMMA Checked ==
  ASSUME NEW q, NEW i, Ready(q, data, i), Avail(q) > 0,
         NEW n, n = Stepped(q), n.pos = n.posLimit,
         NEW m, m = IF n.pos = MaxVal THEN Normalize(n) ELSE n
  PROVE  /\ Half(m, data, i + 1) /\ Frame(m, q) /\ DOMAIN m.hash = DOMAIN q.hash
         /\ \A c \in DOMAIN q.hash : Behind(q, m, q.hash[c], m.hash[c])
         /\ m.pos < MaxVal /\ Avail(m) = Avail(q) - 1 /\ m.read = q.read
         /\ m.cyclicBufferPos = q.cyclicBufferPos + 1 /\ m.result = q.result
         /\ m.streamEndWasReached = q.streamEndWasReached
<1>1. /\ Half(n, data, i + 1) /\ Frame(n, q)
      /\ n.hash = q.hash /\ n.pos = q.pos + 1 /\ n.posLimit = q.posLimit /\ n.read = q.read
      /\ n.cyclicBufferPos = q.cyclicBufferPos + 1 /\ n.result = q.result
      /\ n.streamEndWasReached = q.streamEndWasReached
      /\ Avail(n) = Avail(q) - 1
  <2> HIDE DEF Stepped
  <2> QED BY SteppedIs
<1>2. q.pos \in Nat /\ q.cyclicBufferSize \in Nat /\ MaxVal \in Nat
  BY LimitNumbers, SettingsAssumption
<1>3. \A c \in DOMAIN q.hash : q.hash[c] \in Nat
  BY Sons
<1>4. n.pos <= MaxVal
  BY <1>1 DEF Ready, Limits
<1>5. CASE n.pos = MaxVal
  <2>1. m = Normalize(n)
    BY <1>5
  <2>2. /\ Half(m, data, i + 1) /\ Frame(m, n)
        /\ DOMAIN m.hash = DOMAIN n.hash
        /\ \A c \in DOMAIN n.hash : Carried(n, m, n.hash[c], m.hash[c])
        /\ m.pos < MaxVal /\ Avail(m) = Avail(n)
        /\ m.read = n.read /\ m.cyclicBufferPos = n.cyclicBufferPos /\ m.result = n.result
        /\ m.streamEndWasReached = n.streamEndWasReached
    <3>1. n.posLimit = n.pos
      OBVIOUS
    <3> HIDE DEF Normalize
    <3>2. Half(n, data, i + 1)
      BY <1>1
    <3> QED BY ZenonT(60), <2>1, <3>1, <3>2, NormalizeIs
  <2>3. ASSUME NEW c \in DOMAIN q.hash PROVE Behind(q, m, q.hash[c], m.hash[c])
    <3> DEFINE r == q.hash[c]
               v == m.hash[c]
    <3>1. Carried(n, m, r, v) /\ r \in Nat
      BY <1>1, <1>3, <2>2
    <3>2. m.pos \in Nat /\ n.cyclicBufferSize = q.cyclicBufferSize
      BY <1>1, <2>2, Numbers DEF Half, Frame
    <3> HIDE DEF r, v
    <3>3. Behind(q, m, r, v)
      BY <1>1, <1>2, <3>1, <3>2 DEF Carried, Behind
    <3> QED BY <3>3 DEF r, v
  <2>4. Frame(m, q)
    BY <1>1, <2>2 DEF Frame
  <2> QED BY <1>1, <2>2, <2>3, <2>4
<1>6. CASE n.pos # MaxVal
  <2>1. m = n
    BY <1>6
  <2>2. ASSUME NEW c \in DOMAIN q.hash PROVE Behind(q, n, q.hash[c], n.hash[c])
    <3> DEFINE r == q.hash[c]
    <3>1. r \in Nat /\ n.hash[c] = r
      BY <1>1, <1>3
    <3> HIDE DEF r
    <3>2. Behind(q, n, r, r)
      BY <1>1, <1>2, <3>1 DEF Behind
    <3> QED BY <3>1, <3>2 DEF r
  <2>3. n.pos < MaxVal
    BY <1>1, <1>2, <1>4, <1>6
  <2> QED BY <1>1, <2>1, <2>2, <2>3
<1> QED BY <1>5, <1>6

\* CheckLimits().
LEMMA CheckLimitsIs ==
  ASSUME NEW q, NEW i, Ready(q, data, i), Avail(q) > 0,
         NEW n, n = Stepped(q), n.pos = n.posLimit, NEW t \in CheckLimits(n)
  PROVE  Ready(t, data, i + 1) /\ Moved(q, t)
<1> DEFINE m == IF n.pos = MaxVal THEN Normalize(n) ELSE n
           u == IF NeedMove(m) THEN MoveBlock(m) ELSE m
           read == IF ~m.streamEndWasReached /\ m.keepSizeAfter = Avail(m)
                   THEN ReadBlock(u) ELSE {m}
<1>1. PICK r \in read : t = SetLimits(Wrapped(r))
  BY DEF CheckLimits, Wrapped
<1>2. /\ Half(m, data, i + 1) /\ Frame(m, q) /\ DOMAIN m.hash = DOMAIN q.hash
      /\ \A c \in DOMAIN q.hash : Behind(q, m, q.hash[c], m.hash[c])
      /\ m.pos < MaxVal /\ Avail(m) = Avail(q) - 1 /\ m.read = q.read
      /\ m.cyclicBufferPos = q.cyclicBufferPos + 1 /\ m.result = q.result
      /\ m.streamEndWasReached = q.streamEndWasReached
  <2> DEFINE k == m
  <2>1. k = IF n.pos = MaxVal THEN Normalize(n) ELSE n
    OBVIOUS
  <2> HIDE DEF k, Stepped, Normalize
  <2>2. /\ Half(k, data, i + 1) /\ Frame(k, q) /\ DOMAIN k.hash = DOMAIN q.hash
        /\ \A c \in DOMAIN q.hash : Behind(q, k, q.hash[c], k.hash[c])
        /\ k.pos < MaxVal /\ Avail(k) = Avail(q) - 1 /\ k.read = q.read
        /\ k.cyclicBufferPos = q.cyclicBufferPos + 1 /\ k.result = q.result
        /\ k.streamEndWasReached = q.streamEndWasReached
    BY <2>1, Checked
  <2> QED BY <2>2 DEF k
<1> HIDE DEF m
<1>3. /\ q \in Finders /\ i \in Nat /\ Limits(q) /\ Avail(q) \in Nat /\ MatchMaxLen \in Nat
      /\ q.keepSizeAfter = MatchMaxLen /\ q.cyclicBufferPos \in Nat
          /\ q.cyclicBufferSize \in Nat
      /\ q.cyclicBufferPos < q.cyclicBufferSize /\ q.read \in Nat
      /\ q.lenLimit = Min2(Avail(q), MatchMaxLen)
  BY LimitNumbers, Sizes, Numbers DEF Ready, Limits
<1>4. /\ Half(r, data, i + 1) /\ Apart(r, m)
      /\ r.read >= q.read
      /\ r.result /\ ~r.streamEndWasReached => Avail(r) > MatchMaxLen
      /\ ~q.result => ~r.result /\ r.read = q.read
      /\ Min2(Avail(r), MatchMaxLen) <= q.lenLimit
  <2>1. CASE ~m.streamEndWasReached /\ m.keepSizeAfter = Avail(m)
    <3>1. r \in ReadBlock(u)
      BY <2>1
    <3>2. Avail(m) = MatchMaxLen
      BY <1>2, <1>3, <2>1 DEF Frame
    <3>3. /\ Half(u, data, i + 1) /\ Apart(u, m) /\ ~NeedMove(u) /\ Avail(u) = Avail(m)
          /\ u.read = m.read /\ u.result = m.result
          /\ u.streamEndWasReached = m.streamEndWasReached
      <4>1. CASE NeedMove(m)
        <5>1. u = MoveBlock(m)
          BY <4>1
        <5> HIDE DEF u, MoveBlock
        <5> QED BY <1>2, <4>1, <5>1, MoveBlockIs
      <4>2. CASE ~NeedMove(m)
        <5>1. u = m
          BY <4>2
        <5>2. Apart(m, m)
          BY DEF Apart, Frame
        <5> HIDE DEF u
        <5> QED BY <1>2, <4>2, <5>1, <5>2
      <4> QED BY <4>1, <4>2
    <3> HIDE DEF u
    <3>4. Avail(u) <= MatchMaxLen /\ ~u.streamEndWasReached
      BY <1>3, <2>1, <3>2, <3>3
    <3>5. /\ Half(r, data, i + 1) /\ Apart(r, u)
          /\ r.read >= u.read /\ Avail(r) >= Avail(u)
          /\ r.result /\ ~r.streamEndWasReached => Avail(r) > MatchMaxLen
          /\ ~u.result => ~r.result /\ r.read = u.read
      BY <3>1, <3>3, <3>4, ReadBlockIs
    <3>6. Apart(r, m)
      BY <3>3, <3>5 DEF Apart, Frame
    <3>7. q.lenLimit = MatchMaxLen
      BY <1>2, <1>3, <3>2 DEF Min2
    <3>8. Min2(Avail(r), MatchMaxLen) <= q.lenLimit
      <4>1. Avail(r) \in Int
        BY <3>5, Numbers DEF Half, Avail
      <4> QED BY <1>3, <3>7, <4>1 DEF Min2
    <3> QED BY <1>2, <3>3, <3>5, <3>6, <3>8
  <2>2. CASE ~(~m.streamEndWasReached /\ m.keepSizeAfter = Avail(m))
    <3>1. r = m
      BY <2>2
    <3>2. Apart(m, m)
      BY DEF Apart, Frame
    <3>3. m.result /\ ~m.streamEndWasReached => Avail(m) > MatchMaxLen
      BY <1>2, <1>3, <2>2 DEF Limits, Frame
    <3>4. Min2(Avail(m), MatchMaxLen) <= q.lenLimit
      BY <1>2, <1>3 DEF Min2
    <3>5. m.read >= q.read
      BY <1>2, <1>3
    <3> QED BY <1>2, <3>1, <3>2, <3>3, <3>4, <3>5
  <2> QED BY <2>1, <2>2
<1> HIDE DEF u, read
<1>5. /\ r.cyclicBufferPos = q.cyclicBufferPos + 1 /\ r.cyclicBufferSize = q.cyclicBufferSize
      /\ r.hash = m.hash /\ r.pos = m.pos /\ Frame(r, q)
  BY <1>2, <1>4 DEF Apart, Frame
<1> DEFINE s == Wrapped(r)
<1>6. /\ Half(s, data, i + 1) /\ Frame(s, r) /\ s.hash = r.hash /\ s.pos = r.pos
      /\ s.read = r.read /\ s.result = r.result
      /\ s.streamEndWasReached = r.streamEndWasReached /\ Avail(s) = Avail(r)
      /\ s.cyclicBufferPos = IF r.cyclicBufferPos = r.cyclicBufferSize THEN 0
                                                                       ELSE r.cyclicBufferPos
      /\ s.cyclicBufferPos < s.cyclicBufferSize
  <2>1. r.cyclicBufferPos <= r.cyclicBufferSize
    BY <1>3, <1>5
  <2> HIDE DEF Wrapped
  <2> QED BY <1>4, <2>1, WrappedIs
<1>7. t = SetLimits(s)
  BY <1>1
<1> HIDE DEF s
<1>8. /\ Ready(t, data, i + 1) /\ Frame(t, s) /\ t.hash = s.hash /\ t.pos = s.pos
      /\ t.read = s.read /\ t.cyclicBufferPos = s.cyclicBufferPos /\ t.result = s.result
      /\ t.lenLimit = Min2(Avail(s), MatchMaxLen)
  <2>1. s.pos < MaxVal /\ (s.result /\ ~s.streamEndWasReached => Avail(s) > MatchMaxLen)
    BY <1>2, <1>4, <1>5, <1>6
  <2> HIDE DEF SetLimits
  <2> QED BY <1>6, <1>7, <2>1, SetLimitsIs
<1>9. Frame(t, q)
  BY <1>5, <1>6, <1>8 DEF Frame
<1>10. \A c \in DOMAIN q.hash : Behind(q, t, q.hash[c], t.hash[c])
  BY <1>2, <1>5, <1>6, <1>8 DEF Behind
<1>11. \A a \in Nat : a + 1 < q.cyclicBufferSize => Slot(t, a + 1) = Slot(q, a)
  <2>1. t.cyclicBufferPos = (IF q.cyclicBufferPos + 1 = q.cyclicBufferSize
          THEN 0 ELSE q.cyclicBufferPos + 1)
    BY <1>5, <1>6, <1>8
  <2>2. t.cyclicBufferSize = q.cyclicBufferSize
    BY <1>9 DEF Frame
  <2> QED BY <1>3, <2>1, <2>2, NextSlot
<1>12. t.lenLimit <= q.lenLimit /\ t.read >= q.read /\ (~q.result => ~t.result
         /\ t.read = q.read)
  BY <1>4, <1>6, <1>8
<1>13. DOMAIN t.hash = DOMAIN q.hash
  BY <1>2, <1>5, <1>6, <1>8
<1> QED BY <1>8, <1>9, <1>10, <1>11, <1>12, <1>13 DEF Moved

\* A step that reaches no limit.
LEMMA SteppedFar ==
  ASSUME NEW q, NEW i, Ready(q, data, i), Avail(q) > 0,
         NEW n, n = Stepped(q), n.pos # n.posLimit
  PROVE  Ready(n, data, i + 1) /\ Moved(q, n)
<1>1. /\ Half(n, data, i + 1) /\ Frame(n, q)
      /\ n.hash = q.hash /\ n.pos = q.pos + 1 /\ n.streamPos = q.streamPos
      /\ n.posLimit = q.posLimit /\ n.lenLimit = q.lenLimit /\ n.read = q.read
      /\ n.cyclicBufferPos = q.cyclicBufferPos + 1 /\ n.result = q.result
      /\ n.streamEndWasReached = q.streamEndWasReached
      /\ Avail(n) = Avail(q) - 1
  <2> HIDE DEF Stepped
  <2> QED BY SteppedIs
<1>2. /\ q \in Finders /\ i \in Nat /\ Limits(q) /\ Avail(q) \in Nat /\ MatchMaxLen \in Nat
      /\ q.cyclicBufferPos \in Nat /\ q.cyclicBufferSize \in Nat
      /\ q.cyclicBufferPos < q.cyclicBufferSize /\ q.read \in Nat /\ q.pos \in Nat
      /\ q.posLimit \in Nat /\ MaxVal \in Nat /\ q.lenLimit \in Nat
      /\ q.lenLimit = Min2(Avail(q), MatchMaxLen)
  BY LimitNumbers, Numbers, SettingsAssumption DEF Ready, Limits
<1>3. /\ q.pos < q.posLimit /\ q.posLimit <= MaxVal
      /\ q.posLimit - q.pos <= q.cyclicBufferSize - q.cyclicBufferPos
      /\ q.posLimit - q.pos <= Max2(1, Avail(q) - MatchMaxLen)
      /\ q.streamEndWasReached => q.read = StreamLen
      /\ q.result /\ ~q.streamEndWasReached => Avail(q) > MatchMaxLen
  BY <1>2 DEF Limits
<1>4. q.pos + 1 # q.posLimit
  BY <1>1
<1>5. Avail(q) >= MatchMaxLen + 2 /\ q.pos + 1 < q.posLimit
  <2> DEFINE A == Avail(q)  a == q.posLimit - q.pos  M == MatchMaxLen
  <2>1. a \in Int /\ a >= 2 /\ A \in Int /\ M \in Int /\ a <= Max2(1, A - M)
    BY <1>2, <1>3, <1>4
  <2>3. q.pos + 1 < q.posLimit
    BY <1>2, <1>3, <1>4
  <2> HIDE DEF A, a, M
  <2>2. A >= M + 2
    BY <2>1 DEF Max2
  <2> QED BY <2>2, <2>3 DEF A, M
<1>6. Limits(n)
  <2>1. n.cyclicBufferSize <= n.pos /\ n.pos < MaxVal /\ n.cyclicBufferPos < n.cyclicBufferSize
    BY <1>1, <1>2, <1>3, <1>5 DEF Half, Frame
  <2>2. n.lenLimit = Min2(Avail(n), MatchMaxLen)
    BY <1>1, <1>2, <1>5 DEF Min2
  <2>3. /\ n.pos < n.posLimit /\ n.posLimit <= MaxVal
        /\ n.posLimit - n.pos <= n.cyclicBufferSize - n.cyclicBufferPos
        /\ n.posLimit - n.pos <= Max2(1, Avail(n) - MatchMaxLen)
    BY <1>1, <1>2, <1>3, <1>5 DEF Max2, Frame
  <2>4. n.streamEndWasReached => n.read = StreamLen
    BY <1>1, <1>3
  <2>5. n.result /\ ~n.streamEndWasReached => Avail(n) > MatchMaxLen
    BY <1>1, <1>2, <1>5
  <2> QED BY <2>1, <2>2, <2>3, <2>4, <2>5 DEF Limits
<1>7. Ready(n, data, i + 1)
  BY <1>1, <1>6 DEF Ready, Half
<1>8. \A c \in DOMAIN q.hash : q.hash[c] \in Nat
  BY Sons
<1>9. ASSUME NEW c \in DOMAIN q.hash PROVE Behind(q, n, q.hash[c], n.hash[c])
  <2> DEFINE r == q.hash[c]
  <2>1. r \in Nat /\ n.hash[c] = r
    BY <1>1, <1>8
  <2> HIDE DEF r
  <2>2. Behind(q, n, r, r)
    BY <1>1, <1>2, <2>1 DEF Behind
  <2> QED BY <2>1, <2>2 DEF r
<1>10. n.cyclicBufferSize = q.cyclicBufferSize
  BY <1>1 DEF Frame
<1>11. n.cyclicBufferPos = (IF q.cyclicBufferPos + 1 = q.cyclicBufferSize
         THEN 0 ELSE q.cyclicBufferPos + 1)
  BY <1>1, <1>2, <1>6, <1>10 DEF Limits
<1>12. \A a \in Nat : a + 1 < q.cyclicBufferSize => Slot(n, a + 1) = Slot(q, a)
  BY <1>2, <1>10, <1>11, NextSlot
<1>13. n.lenLimit <= q.lenLimit /\ n.read >= q.read /\ (~q.result => ~n.result
         /\ n.read = q.read)
  BY <1>1, <1>2
<1> QED BY <1>1, <1>7, <1>9, <1>12, <1>13 DEF Moved

\* MovePos().
LEMMA MovePosIs ==
  ASSUME NEW q, NEW i, Ready(q, data, i), Avail(q) > 0, NEW t \in MovePos(q)
  PROVE  Ready(t, data, i + 1) /\ Moved(q, t)
<1> DEFINE n == Stepped(q)
<1>1. t \in IF n.pos = n.posLimit THEN CheckLimits(n) ELSE {n}
  BY DEF MovePos, Stepped
<1>2. n = Stepped(q)
  OBVIOUS
<1> HIDE DEF n, Stepped, CheckLimits
<1>3. CASE n.pos = n.posLimit
  <2>1. t \in CheckLimits(n)
    BY <1>1, <1>3
  <2> QED BY ZenonT(60), <1>2, <1>3, <2>1, CheckLimitsIs
<1>4. CASE n.pos # n.posLimit
  <2>1. t = n
    BY <1>1, <1>4
  <2>2. Ready(n, data, i + 1) /\ Moved(q, n)
    BY ZenonT(60), <1>2, <1>4, SteppedFar
  <2> QED BY <2>1, <2>2
<1> QED BY <1>3, <1>4

-----------------------------------------------------------------------------
(* What the references mean after a step *)

\* One that is live refers to the entry it referred to.
LEMMA RefCarried ==
  ASSUME NEW n, NEW t, NEW d, NEW i, Ready(n, d, i), Ready(t, d, i + 1), Moved(n, t),
         NEW r \in Nat, r <= n.pos, NEW v, Behind(n, t, r, v)
  PROVE  /\ v \in Nat /\ v <= t.pos
         /\ Live(t, v) => /\ Live(n, r) /\ Index(t, i + 1, v) = Index(n, i, r)
                          /\ t.pos - v = (n.pos - r) + 1
<1>1. i \in Nat /\ n.pos \in Nat /\ t.pos \in Nat /\ n.cyclicBufferSize \in Nat
  BY LimitNumbers
<1>2. t.cyclicBufferSize = n.cyclicBufferSize
  BY DEF Moved, Frame
<1>3. /\ v \in Nat /\ v <= t.pos
      /\ t.pos - v = (n.pos - r) + 1
           \/ (t.pos - v >= n.cyclicBufferSize /\ (n.pos - r) + 1 >= n.cyclicBufferSize)
  BY DEF Behind
<1>4. ASSUME Live(t, v) PROVE t.pos - v = (n.pos - r) + 1 /\ Live(n, r)
  <2>1. t.pos - v < n.cyclicBufferSize
    BY <1>2, <1>4 DEF Live
  <2>2. t.pos - v = (n.pos - r) + 1
    BY <1>1, <1>3, <2>1
  <2> QED BY <1>1, <2>1, <2>2 DEF Live
<1>5. ASSUME t.pos - v = (n.pos - r) + 1 PROVE Index(t, i + 1, v) = Index(n, i, r)
  BY <1>1, <1>3, <1>5 DEF Index
<1> QED BY <1>3, <1>4, <1>5

\* A good reference stays one ...
LEMMA RefOKCarried ==
  ASSUME NEW n, NEW t, NEW d, NEW i, Ready(n, d, i), Ready(t, d, i + 1), Moved(n, t),
         NEW E, NEW r, RefOK(n, i, E, r), NEW v, Behind(n, t, r, v)
  PROVE  RefOK(t, i + 1, E, v)
<1>1. r \in Nat /\ r <= n.pos /\ (Live(n, r) => Index(n, i, r) \in E)
  BY DEF RefOK
<1>2. /\ v \in Nat /\ v <= t.pos
      /\ Live(t, v) => Live(n, r) /\ Index(t, i + 1, v) = Index(n, i, r)
  BY <1>1, RefCarried
<1> QED BY <1>1, <1>2 DEF RefOK

\* ... and the nearest of its kind stays it.
LEMMA NearestCarried ==
  ASSUME NEW n, NEW t, NEW d, NEW i, Ready(n, d, i), Ready(t, d, i + 1), Moved(n, t),
         NEW E, E \subseteq 0 .. i, NEW X, X \subseteq E,
         NEW r \in Nat, r <= n.pos, Nearest(n, i, r, X), NEW v, Behind(n, t, r, v)
  PROVE  Nearest(t, i + 1, v, X)
<1>1. /\ v \in Nat /\ v <= t.pos
      /\ Live(t, v) => Live(n, r) /\ Index(t, i + 1, v) = Index(n, i, r)
  BY RefCarried
<1>2. /\ Live(n, r) => Index(n, i, r) \in X
      /\ \A x \in X : i - x < n.cyclicBufferSize => n.pos - r <= i - x
  BY DEF Nearest
<1>3. i \in Nat /\ n.pos \in Nat /\ t.pos \in Nat /\ n.cyclicBufferSize \in Nat
  BY LimitNumbers
<1>4. t.cyclicBufferSize = n.cyclicBufferSize
  BY DEF Moved, Frame
<1>5. ASSUME NEW x \in X, (i + 1) - x < t.cyclicBufferSize PROVE t.pos - v <= (i + 1) - x
  <2>1. x \in Nat /\ x <= i
    OBVIOUS
  <2>2. i - x < n.cyclicBufferSize
    BY <1>3, <1>4, <1>5, <2>1
  <2>3. n.pos - r <= i - x
    BY <1>2, <2>2
  <2>4. (n.pos - r) + 1 < n.cyclicBufferSize
    BY <1>3, <1>4, <1>5, <2>1, <2>3
  <2>5. t.pos - v = (n.pos - r) + 1
    <3>1. t.pos - v = (n.pos - r) + 1
           \/ (t.pos - v >= n.cyclicBufferSize /\ (n.pos - r) + 1 >= n.cyclicBufferSize)
      BY DEF Behind
    <3> QED BY <1>3, <2>4, <3>1
  <2> QED BY <1>1, <1>3, <2>1, <2>3, <2>5
<1> QED BY <1>1, <1>2, <1>5 DEF Nearest

\* The slot of an entry is where it was.
LEMMA SlotCarried ==
  ASSUME NEW n, NEW t, NEW d, NEW i, Ready(n, d, i), Ready(t, d, i + 1), Moved(n, t),
         NEW x \in Nat, x <= i, (i + 1) - x < t.cyclicBufferSize
  PROVE  i - x < n.cyclicBufferSize /\ Slot(t, (i + 1) - x) = Slot(n, i - x)
<1>1. i \in Nat /\ n.cyclicBufferSize \in Nat /\ t.cyclicBufferSize = n.cyclicBufferSize
  BY LimitNumbers DEF Moved, Frame
<1> DEFINE a == i - x
<1>2. a \in Nat /\ a + 1 < n.cyclicBufferSize /\ (i + 1) - x = a + 1 /\ a < n.cyclicBufferSize
  BY <1>1
<1>3. \A b \in Nat : b + 1 < n.cyclicBufferSize => Slot(t, b + 1) = Slot(n, b)
  BY DEF Moved
<1> HIDE DEF a
<1>4. Slot(t, a + 1) = Slot(n, a)
  BY <1>2, <1>3
<1> QED BY <1>2, <1>4 DEF a

\* The cells of an entry are where they were.
LEMMA CellCarried ==
  ASSUME NEW n, NEW t, NEW d, NEW i, Ready(n, d, i), Ready(t, d, i + 1), Moved(n, t), IsBt(n),
         NEW x \in Nat, x <= i, (i + 1) - x < t.cyclicBufferSize, NEW b \in Sides
  PROVE  /\ Cell(t, i + 1, x, b) = Cell(n, i, x, b)
         /\ Behind(n, t, n.hash[Cell(n, i, x, b)], t.hash[Cell(t, i + 1, x, b)])
<1>1. i - x < n.cyclicBufferSize /\ Slot(t, (i + 1) - x) = Slot(n, i - x)
  BY SlotCarried
<1>2. t.son = n.son
  BY DEF Moved, Frame
<1>3. Cell(t, i + 1, x, b) = Cell(n, i, x, b)
  BY <1>1, <1>2 DEF Cell
<1>4. Cell(n, i, x, b) \in DOMAIN n.hash
  BY <1>1, TreeCells
<1> QED BY <1>3, <1>4 DEF Moved

\* The trees are carried over a step ...
LEMMA TreesCarried ==
  ASSUME NEW n, NEW t, NEW d, NEW i, Ready(n, d, i), Ready(t, d, i + 1), Moved(n, t), IsBt(n),
         NEW E, E \subseteq 0 .. i, NEW G, TreesOK(n, n.hash, d, i, E, G)
  PROVE  TreesOK(t, t.hash, d, i + 1, E, G)
<1>1. n.lenLimit \in Nat /\ t.lenLimit \in Nat /\ t.lenLimit <= n.lenLimit /\ i \in Nat
  BY LimitNumbers DEF Moved
<1>2. Ordered(d, E, G, t.lenLimit)
  <2>1. Ordered(d, E, G, n.lenLimit)
    BY DEF TreesOK
  <2> QED BY <1>1, <2>1, LeShorter DEF Ordered
<1>3. ASSUME NEW x \in E, (i + 1) - x < t.cyclicBufferSize, NEW b \in Sides
      PROVE  CellOK(t, t.hash, i + 1, E, G, x, b)
  <2>1. x \in Nat /\ x <= i
    OBVIOUS
  <2> DEFINE r == n.hash[Cell(n, i, x, b)]
             v == t.hash[Cell(t, i + 1, x, b)]
  <2>2. Behind(n, t, r, v)
    BY <1>3, <2>1, CellCarried
  <2>3. i - x < n.cyclicBufferSize
    BY <1>3, <2>1, SlotCarried
  <2>4. b = 0 \/ b = 1
    BY DEF Sides
  <2>5. CellOK(n, n.hash, i, E, G, x, b)
    BY <2>3, <2>4 DEF TreesOK
  <2>6. RefOK(n, i, E, r) /\ (Live(n, r) => Below(G, Index(n, i, r)) \subseteq G[<<x, b>>])
    BY <2>5 DEF CellOK, Leads
  <2> SUFFICES RefOK(t, i + 1, E, v)
               /\ (Live(t, v) => Below(G, Index(t, i + 1, v)) \subseteq G[<<x, b>>])
    BY DEF CellOK, Leads
  <2> HIDE DEF r, v
  <2>7. RefOK(t, i + 1, E, v)
    BY <2>2, <2>6, RefOKCarried
  <2>8. r \in Nat /\ r <= n.pos
    BY <2>6 DEF RefOK
  <2>9. Live(t, v) => Live(n, r) /\ Index(t, i + 1, v) = Index(n, i, r)
    BY <2>2, <2>8, RefCarried
  <2> QED BY <2>6, <2>7, <2>9
<1>4. 0 \in Sides /\ 1 \in Sides
  BY DEF Sides
<1> QED BY <1>2, <1>3, <1>4 DEF TreesOK

\* ... and the chains.
LEMMA ChainCarried ==
  ASSUME NEW n, NEW t, NEW d, NEW i, Ready(n, d, i), Ready(t, d, i + 1), Moved(n, t), ~IsBt(n),
         NEW E, E \subseteq 0 .. i, ChainOK(n, n.hash, i, E)
  PROVE  ChainOK(t, t.hash, i + 1, E)
<1> SUFFICES ASSUME NEW x \in E, (i + 1) - x < t.cyclicBufferSize
             PROVE  /\ RefOK(t, i + 1, E, t.hash[t.son + Slot(t, (i + 1) - x)])
                    /\ t.pos - t.hash[t.son + Slot(t, (i + 1) - x)] > (i + 1) - x
  BY DEF ChainOK
<1>1. x \in Nat /\ x <= i
  OBVIOUS
<1>2. i - x < n.cyclicBufferSize /\ Slot(t, (i + 1) - x) = Slot(n, i - x)
  BY <1>1, SlotCarried
<1>3. t.son = n.son /\ t.cyclicBufferSize = n.cyclicBufferSize
  BY DEF Moved, Frame
<1> DEFINE c == n.son + Slot(n, i - x)
           r == n.hash[c]
           v == t.hash[c]
<1>4. t.son + Slot(t, (i + 1) - x) = c
  BY <1>2, <1>3
<1>5. c \in DOMAIN n.hash
  BY <1>1, <1>2, ChainCells
<1>6. Behind(n, t, r, v)
  BY <1>5 DEF Moved
<1>7. RefOK(n, i, E, r) /\ n.pos - r > i - x
  BY <1>2 DEF ChainOK
<1> HIDE DEF c, r, v
<1>8. RefOK(t, i + 1, E, v)
  BY <1>6, <1>7, RefOKCarried
<1>9. r \in Nat /\ r <= n.pos
  BY <1>7 DEF RefOK
<1>10. t.pos - v > (i + 1) - x
  <2>1. i \in Nat /\ n.pos \in Nat /\ t.pos \in Nat /\ n.cyclicBufferSize \in Nat
    BY LimitNumbers
  <2>2. /\ v \in Nat
        /\ t.pos - v = (n.pos - r) + 1
             \/ (t.pos - v >= n.cyclicBufferSize /\ (n.pos - r) + 1 >= n.cyclicBufferSize)
    BY <1>6, <1>9 DEF Behind
  <2> QED BY <1>1, <1>3, <1>7, <1>9, <2>1, <2>2
<1> QED BY <1>4, <1>8, <1>10 DEF v

\* The short tables lie before the array of the references.
LEMMA ShortHeads ==
  ASSUME NEW n, NEW d, NEW i, Ready(n, d, i)
  PROVE  /\ Has2(n) => 0 .. 1 \subseteq 0 .. n.hashSizeSum - 1
         /\ Has3(n) => \A h \in 0 .. 3 : kFix3HashSize + h \in 0 .. n.hashSizeSum - 1
         /\ 0 .. n.hashSizeSum - 1 \subseteq DOMAIN n.hash
<1>1. n.hashSizeSum = HashSizeSum(n.kind)
  BY DEF Ready, Shape
<1>2. Has2(n) => n.hashSizeSum \in Nat /\ n.hashSizeSum >= 6
  BY <1>1 DEF Has2, HashSizeSum, kFix3HashSize, kFix4HashSize
<1>3. Has3(n) => n.hashSizeSum \in Nat /\ n.hashSizeSum >= 8
  BY <1>1 DEF Has3, HashSizeSum, kFix3HashSize, kFix4HashSize
<1>4. 0 .. n.hashSizeSum - 1 \subseteq DOMAIN n.hash
  <2>1. n.hashSizeSum \in Nat /\ n.cyclicBufferSize \in Nat
    BY Sons, LimitNumbers
  <2>2. CASE IsBt(n)
    <3>1. DOMAIN n.hash = 0 .. n.hashSizeSum + 2 * n.cyclicBufferSize - 1
      BY <2>2, Sons
    <3> QED BY <2>1, <3>1
  <2>3. CASE ~IsBt(n)
    <3>1. DOMAIN n.hash = 0 .. n.hashSizeSum + n.cyclicBufferSize - 1
      BY <2>3, Sons
    <3> QED BY <2>1, <3>1
  <2> QED BY <2>2, <2>3
<1> QED BY <1>2, <1>3, <1>4 DEF kFix3HashSize

\* All references are carried over a step.
LEMMA RefersCarried ==
  ASSUME NEW n, NEW t, NEW d, NEW i, Ready(n, d, i), Ready(t, d, i + 1), Moved(n, t),
         NEW E, E \subseteq 0 .. i, Refers(n, d, i, E)
  PROVE  Refers(t, d, i + 1, E)
<1>1. HeadsOK(n, i, E) /\ ShortOK(n, d, i, E) /\ RingOK(n, d, i, E)
  BY DEF Refers
<1>2. t.kind = n.kind /\ t.hashSizeSum = n.hashSizeSum
  BY DEF Moved, Frame
<1>3. \A c \in 0 .. n.hashSizeSum - 1 : Behind(n, t, n.hash[c], t.hash[c])
  BY ShortHeads DEF Moved
<1>4. \A c \in 0 .. n.hashSizeSum - 1 : RefOK(n, i, E, n.hash[c])
  BY <1>1 DEF HeadsOK
<1>5. HeadsOK(t, i + 1, E)
  <2>1. ASSUME NEW c \in 0 .. n.hashSizeSum - 1 PROVE RefOK(t, i + 1, E, t.hash[c])
    BY <1>3, <1>4, RefOKCarried
  <2> QED BY <1>2, <2>1 DEF HeadsOK
<1>6. ASSUME NEW c \in 0 .. n.hashSizeSum - 1, NEW X, X \subseteq E, Nearest(n, i, n.hash[c], X)
      PROVE  Nearest(t, i + 1, t.hash[c], X)
  <2> DEFINE r == n.hash[c]  v == t.hash[c]
  <2>1. Behind(n, t, r, v) /\ r \in Nat /\ r <= n.pos /\ Nearest(n, i, r, X)
    BY <1>3, <1>4, <1>6 DEF RefOK
  <2> HIDE DEF r, v
  <2>2. Nearest(t, i + 1, v, X)
    BY <1>6, <2>1, NearestCarried
  <2> QED BY <2>2 DEF v
<1>7. ShortOK(t, d, i + 1, E)
  <2>1. ASSUME Has2(n), NEW h \in 0 .. 1
        PROVE  Nearest(t, i + 1, t.hash[h], {x \in E : Hash2At(d, x) = h})
    <3> DEFINE X == {x \in E : Hash2At(d, x) = h}
    <3>1. X \subseteq E /\ Nearest(n, i, n.hash[h], X)
      BY <1>1, <2>1 DEF ShortOK
    <3>2. h \in 0 .. n.hashSizeSum - 1
      BY <2>1, ShortHeads
    <3> HIDE DEF X
    <3>3. Nearest(t, i + 1, t.hash[h], X)
      BY <1>6, <3>1, <3>2
    <3> QED BY <3>3 DEF X
  <2>2. ASSUME Has3(n), NEW h \in 0 .. 3
        PROVE  Nearest(t, i + 1, t.hash[kFix3HashSize + h], {x \in E : Hash3At(d, x) = h})
    <3> DEFINE X == {x \in E : Hash3At(d, x) = h}  c == kFix3HashSize + h
    <3>1. X \subseteq E /\ Nearest(n, i, n.hash[c], X)
      BY <1>1, <2>2 DEF ShortOK
    <3>2. c \in 0 .. n.hashSizeSum - 1
      BY <2>2, ShortHeads
    <3> HIDE DEF X, c
    <3>3. Nearest(t, i + 1, t.hash[c], X)
      BY <1>6, <3>1, <3>2
    <3> QED BY <3>3 DEF X, c
  <2>3. (Has2(t) <=> Has2(n)) /\ (Has3(t) <=> Has3(n))
    BY <1>2 DEF Has2, Has3
  <2> QED BY <2>1, <2>2, <2>3 DEF ShortOK
<1>8. IsBt(t) <=> IsBt(n)
  BY <1>2 DEF IsBt
<1>9. RingOK(t, d, i + 1, E)
  <2>1. CASE IsBt(n)
    <3>1. PICK G : TreesOK(n, n.hash, d, i, E, G)
      BY <1>1, <2>1 DEF RingOK
    <3>2. TreesOK(t, t.hash, d, i + 1, E, G)
      BY <2>1, <3>1, TreesCarried
    <3> QED BY <1>8, <2>1, <3>2 DEF RingOK
  <2>2. CASE ~IsBt(n)
    <3>1. ChainOK(n, n.hash, i, E)
      BY <1>1, <2>2 DEF RingOK
    <3>2. ChainOK(t, t.hash, i + 1, E)
      BY <2>2, <3>1, ChainCarried
    <3> QED BY <1>8, <2>2, <3>2 DEF RingOK
  <2> QED BY <2>1, <2>2
<1> QED BY <1>5, <1>7, <1>9 DEF Refers

\* What the finder has entered at i: some set of places it may refer to.
Filled(q, d, i) == Ready(q, d, i) /\ \E E : Entrants(q, d, i, E) /\ Refers(q, d, i, E)

\* One whole step: the position filed, or too few bytes for it, and moved.
LEMMA FilledMoves ==
  ASSUME NEW q, NEW i, Ready(q, data, i), Avail(q) > 0, q.lenLimit >= MinLen(q),
         NEW E, Entrants(q, data, i, E), Refers(q, data, i, E),
         NEW h, Files(q, data, i, E, h), NEW n, Refiled(n, q, h), NEW t \in MovePos(n)
  PROVE  Filled(t, data, i + 1) /\ Moved(n, t)
<1> DEFINE B == E \cup {i}
<1>1. Ready(n, data, i) /\ Refers(n, data, i, B)
  BY Filing
<1>2. /\ q \in Finders /\ h \in Arrays
  BY DEF Ready, Files
<1>3. n.kind = q.kind /\ Avail(n) = Avail(q)
  BY <1>2, RefiledFields DEF Avail
<1>4. Ready(t, data, i + 1) /\ Moved(n, t)
  BY <1>1, <1>3, MovePosIs
<1>5. i \in Nat /\ q.lenLimit \in Nat /\ q.lenLimit <= Avail(q) /\ i + Avail(q) = q.read
      /\ q.read <= StreamLen /\ StreamLen \in Nat /\ Avail(q) \in Nat
  BY LimitNumbers
<1>6. B \subseteq 0 .. i
  BY <1>5 DEF Entrants
<1>7. Entrants(t, data, i + 1, B)
  <2>1. t.kind = q.kind
    BY <1>3, <1>4 DEF Moved, Frame
  <2>2. MinLen(t) = MinLen(q)
    BY <2>1 DEF MinLen
  <2>3. MinLen(q) \in Nat
    BY <1>2, Numbers DEF MinLen, Kinds
  <2>4. B \subseteq 0 .. (i + 1) - 1
    BY <1>5, <1>6
  <2>5. ASSUME NEW x \in B PROVE x + MinLen(t) <= StreamLen
    <3>1. CASE x \in E
      BY <2>2, <3>1 DEF Entrants
    <3>2. CASE x = i
      <4>1. i + MinLen(q) <= StreamLen
        BY <1>5, <2>3
      <4> QED BY <2>2, <3>2, <4>1
    <3> QED BY <3>1, <3>2
  <2> QED BY <2>4, <2>5 DEF Entrants
<1> HIDE DEF B
<1>8. Refers(t, data, i + 1, B)
  BY <1>1, <1>4, <1>6, RefersCarried
<1> QED BY <1>4, <1>7, <1>8 DEF Filled

\* A step of which nothing is filed.
LEMMA UnfiledMoves ==
  ASSUME NEW q, NEW i, Filled(q, data, i), Avail(q) > 0, NEW t \in MovePos(q)
  PROVE  Filled(t, data, i + 1) /\ Moved(q, t)
<1>1. PICK E : Entrants(q, data, i, E) /\ Refers(q, data, i, E)
  BY DEF Filled
<1>2. Ready(q, data, i) /\ i \in Nat
  BY DEF Filled, Ready
<1>3. Ready(t, data, i + 1) /\ Moved(q, t)
  BY <1>2, MovePosIs
<1>4. E \subseteq 0 .. i
  BY <1>1, <1>2 DEF Entrants
<1>5. Refers(t, data, i + 1, E)
  BY <1>1, <1>2, <1>3, <1>4, RefersCarried
<1>6. Entrants(t, data, i + 1, E)
  <2>1. t.kind = q.kind
    BY <1>3 DEF Moved, Frame
  <2>2. MinLen(t) = MinLen(q)
    BY <2>1 DEF MinLen
  <2>3. E \subseteq 0 .. (i + 1) - 1
    BY <1>2, <1>4
  <2> QED BY <1>1, <2>2, <2>3 DEF Entrants
<1> QED BY <1>3, <1>5, <1>6 DEF Filled

\* How far a match could be asked for before the step, seen after it.
LEMMA LimitSeen ==
  ASSUME NEW q, NEW i, Ready(q, data, i), NEW t, Ready(t, data, i + 1),
         t.read >= q.read, ~q.result => ~t.result /\ t.read = q.read
  PROVE  q.lenLimit = Min2(MatchMaxLen, (IF t.result THEN StreamLen ELSE t.read) - i)
<1>1. /\ i \in Nat /\ Avail(q) \in Nat /\ MatchMaxLen \in Nat /\ StreamLen \in Nat
      /\ q.read = i + Avail(q) /\ q.read \in Nat /\ q.read <= StreamLen
      /\ t.read \in Nat /\ t.read <= StreamLen
  BY LimitNumbers, Numbers DEF Ready
<1>2. /\ q.lenLimit = Min2(Avail(q), MatchMaxLen)
      /\ q.streamEndWasReached => q.read = StreamLen
      /\ q.result /\ ~q.streamEndWasReached => Avail(q) > MatchMaxLen
  BY DEF Ready, Limits
<1> DEFINE end == IF t.result THEN StreamLen ELSE t.read
<1>3. end \in Nat /\ end >= q.read
  BY <1>1
<1>4. Avail(q) > MatchMaxLen \/ end = q.read
  <2>1. CASE q.result
    <3>1. CASE q.streamEndWasReached
      BY <1>1, <1>2, <1>3, <3>1
    <3>2. CASE ~q.streamEndWasReached
      BY <1>2, <2>1, <3>2
    <3> QED BY <3>1, <3>2
  <2>2. CASE ~q.result
    BY <2>2
  <2> QED BY <2>1, <2>2
<1> HIDE DEF end
<1>5. Min2(Avail(q), MatchMaxLen) = Min2(MatchMaxLen, end - i)
  BY <1>1, <1>3, <1>4 DEF Min2
<1> QED BY <1>2, <1>5 DEF end

\* Skip() and GetMatches(): the finder is filled again, one byte on.
LEMMA SkipMoves ==
  ASSUME NEW q, NEW i, Filled(q, data, i), Avail(q) > 0, NEW t \in MovePos(Skipped(q))
  PROVE  Filled(t, data, i + 1) /\ Frame(t, q)
<1>1. PICK E : Entrants(q, data, i, E) /\ Refers(q, data, i, E)
  BY DEF Filled
<1>2. Ready(q, data, i) /\ q \in Finders
  BY DEF Filled, Ready
<1>3. CASE q.lenLimit < MinLen(q)
  <2>1. Skipped(q) = q
    BY <1>2, <1>3, FewBytes
  <2>2. t \in MovePos(q)
    BY <2>1
  <2>3. Filled(t, data, i + 1) /\ Moved(q, t)
    BY <2>2, UnfiledMoves
  <2> QED BY <2>3 DEF Moved
<1>4. CASE q.lenLimit >= MinLen(q)
  <2>1. PICK h : Files(q, data, i, E, h) /\ Refiled(Skipped(q), q, h)
    BY <1>1, <1>2, <1>4, SkipFiles DEF Refers
  <2> DEFINE n == Skipped(q)
  <2>2. Refiled(n, q, h) /\ t \in MovePos(n) /\ h \in Arrays
    BY <2>1 DEF Files
  <2> HIDE DEF n
  <2>3. Filled(t, data, i + 1) /\ Moved(n, t)
    BY <1>1, <1>2, <1>4, <2>1, <2>2, FilledMoves
  <2>4. Frame(n, q)
    BY <1>2, <2>2, RefiledFields DEF Frame
  <2> QED BY <2>3, <2>4 DEF Moved, Frame
<1> QED
  <2>1. q.lenLimit \in Nat /\ MinLen(q) \in Nat
    BY <1>2, LimitNumbers, Numbers DEF MinLen, Kinds
  <2> QED BY <1>3, <1>4, <2>1

\* ... and the answer is one, up to the limit that is seen after the step.
LEMMA MatchesMoves ==
  ASSUME NEW q, NEW i, Filled(q, data, i), Avail(q) > 0, NEW t \in MovePos(Matches(q).q)
  PROVE  /\ Filled(t, data, i + 1) /\ Frame(t, q)
         /\ Answer(q, data, i, Matches(q).pairs)
         /\ q.lenLimit = Min2(MatchMaxLen, (IF t.result THEN StreamLen ELSE t.read) - i)
<1>1. PICK E : Entrants(q, data, i, E) /\ Refers(q, data, i, E)
  BY DEF Filled
<1>2. Ready(q, data, i) /\ q \in Finders
  BY DEF Filled, Ready
<1> DEFINE z == Matches(q).pairs
           limit == Min2(MatchMaxLen, (IF t.result THEN StreamLen ELSE t.read) - i)
<1>3. CASE q.lenLimit < MinLen(q)
  <2>1. Matches(q).q = q /\ z = <<>>
    BY <1>2, <1>3, FewBytes
  <2>2. t \in MovePos(q)
    BY <2>1
  <2>3. Filled(t, data, i + 1) /\ Moved(q, t)
    BY <2>2, UnfiledMoves
  <2>4. Answer(q, data, i, <<>>)
    BY DEF Answer
  <2>5. /\ Ready(t, data, i + 1) /\ t.read >= q.read
        /\ ~q.result => ~t.result /\ t.read = q.read
    BY <2>3 DEF Moved, Filled
  <2>6. q.lenLimit = limit
    BY <1>2, <2>5, LimitSeen
  <2> QED BY <2>1, <2>3, <2>4, <2>6 DEF Moved
<1>4. CASE q.lenLimit >= MinLen(q)
  <2> DEFINE n == Matches(q).q
  <2>1. (\E h : Files(q, data, i, E, h) /\ Refiled(n, q, h)) /\ Answer(q, data, i, z)
    BY <1>1, <1>2, <1>4, MatchesFile
  <2>2. PICK h : Files(q, data, i, E, h) /\ Refiled(n, q, h)
    BY <2>1
  <2>3. t \in MovePos(n) /\ h \in Arrays
    BY <2>2 DEF Files
  <2> HIDE DEF n
  <2>4. Filled(t, data, i + 1) /\ Moved(n, t)
    BY <1>1, <1>2, <1>4, <2>2, <2>3, FilledMoves
  <2>5. Frame(n, q) /\ n.read = q.read /\ n.result = q.result
    BY <1>2, <2>2, <2>3, RefiledFields DEF Frame
  <2>6. /\ Ready(t, data, i + 1) /\ t.read >= q.read
        /\ ~q.result => ~t.result /\ t.read = q.read
    BY <2>4, <2>5 DEF Moved, Filled
  <2>7. q.lenLimit = limit
    BY <1>2, <2>6, LimitSeen
  <2> QED BY <2>1, <2>4, <2>5, <2>7 DEF Moved, Frame
<1> QED
  <2>1. q.lenLimit \in Nat /\ MinLen(q) \in Nat
    BY <1>2, LimitNumbers, Numbers DEF MinLen, Kinds
  <2> QED BY <1>3, <1>4, <2>1

-----------------------------------------------------------------------------
(* The answer, as the property states it *)

\* What MatchesAreReal says of an answer.
RealPairs(q, d, i, zs) ==
  \A k \in DOMAIN zs :
    /\ zs[k][2] + 1 \in 1 .. Min2(q.historySize, i)
    /\ zs[k][1] = Min({l \in 0 .. Min2(MatchMaxLen, (IF q.result THEN StreamLen
        ELSE q.read) - i) :
                         l = Min2(MatchMaxLen, (IF q.result THEN StreamLen ELSE q.read) - i)
                           \/ d[i + 1 + l] # d[(i - (zs[k][2] + 1)) + 1 + l]})
    /\ k > 1 => zs[k - 1][1] < zs[k][1] /\ zs[k - 1][2] < zs[k][2]

\* The answers of the search are such.
LEMMA AnswerIsReal ==
  ASSUME NEW q, NEW d, NEW i, Ready(q, d, i), NEW zs, Answer(q, d, i, zs), NEW t, Frame(t, q),
         q.lenLimit = Min2(MatchMaxLen, (IF t.result THEN StreamLen ELSE t.read) - i)
  PROVE  RealPairs(t, d, i, zs)
<1> DEFINE K == Min2(MatchMaxLen, (IF t.result THEN StreamLen ELSE t.read) - i)
<1>1. q.lenLimit = K /\ q.lenLimit \in Nat /\ i \in Nat /\ q.historySize \in Nat
  BY LimitNumbers
<1>2. zs \in Seq(Nat \X Nat) /\ DOMAIN zs = 1 .. Len(zs)
  BY DEF Answer
<1>3. t.historySize = q.historySize
  BY DEF Frame
<1> HIDE DEF K
<1>4. ASSUME NEW k \in 1 .. Len(zs)
      PROVE  /\ zs[k][2] + 1 \in 1 .. Min2(t.historySize, i)
             /\ zs[k][1] = Min({l \in 0 .. K : l = K
                 \/ d[i + 1 + l] # d[(i - (zs[k][2] + 1)) + 1 + l]})
             /\ k > 1 => zs[k - 1][1] < zs[k][1] /\ zs[k - 1][2] < zs[k][2]
  <2> DEFINE b == zs[k][2] + 1  y == i - b  len == zs[k][1]
  <2>1. b \in 1 .. Min2(q.historySize, i) /\ IsLength(d, y, i, K, len)
    BY <1>1 DEF Answer, Real
  <2>2. y \in Nat
    <3> HIDE DEF b
    <3> QED BY <1>1, <2>1 DEF Min2
  <2>3. k > 1 => zs[k - 1][1] < zs[k][1] /\ zs[k - 1][2] < zs[k][2]
    BY DEF Answer
  <2>4. len = Min({l \in 0 .. K : l = K \/ d[i + 1 + l] # d[y + 1 + l]})
    <3> HIDE DEF y, len
    <3>1. IsLength(d, i, y, K, len)
      BY <2>1, LengthTurned
    <3>2. K \in Nat
      BY <1>1
    <3>3. i \in Nat
      BY <1>1
    <3> QED BY ZenonT(60), <2>2, <3>1, <3>2, <3>3, LengthIsMin
  <2> QED BY <1>3, <2>1, <2>3, <2>4
<1> QED BY <1>2, <1>4 DEF RealPairs, K

-----------------------------------------------------------------------------
(* Create() and Init() *)

\* A finder that was made and not yet started.
Made(q) == q \in Finders /\ Shape(q) /\ q.read = 0

\* The sizes of the hash tables and of the ring.
TableSize(s) == HashSizeSum(s.kind)
SonCount(s) == IF IsBt(s) THEN 2 * (s.historySize + 1) ELSE s.historySize + 1

\* The struct with arrays of its own.
Fresh(s) ==
  [kind |-> s.kind, historySize |-> s.historySize,
   cyclicBufferSize |-> s.historySize + 1, keepSizeBefore |-> s.historySize + 1,
   keepSizeAfter |-> MatchMaxLen, blockSize |-> s.historySize + 1 + MatchMaxLen + Reserve,
   hashSizeSum |-> TableSize(s), numSons |-> SonCount(s), son |-> TableSize(s),
   hash |-> [i \in 0 .. TableSize(s) + SonCount(s) - 1 |-> s.historySize + 1],
   bufferBase |-> [i \in 0 .. (s.historySize + 1 + MatchMaxLen + Reserve) - 1 |-> NoByte],
   buffer |-> 0, pos |-> 0, streamPos |-> 0, posLimit |-> 0, lenLimit |-> 0,
   cyclicBufferPos |-> 0, read |-> 0,
   result |-> TRUE, streamEndWasReached |-> FALSE]

\* The numbers of a setting.
LEMMA SettingNumbers ==
  ASSUME NEW s \in Settings
  PROVE  /\ s.kind \in Kinds /\ s.historySize \in Nat /\ s.historySize > 0
         /\ TableSize(s) \in Nat /\ TableSize(s) > 0 /\ SonCount(s) \in Nat /\ SonCount(s) > 0
         /\ MatchMaxLen \in Nat /\ Reserve \in Nat
<1>1. s.kind \in Kinds /\ s.historySize \in Nat /\ s.historySize > 0
  BY SettingsAssumption
<1>2. TableSize(s) \in Nat /\ TableSize(s) > 0
  BY DEF TableSize, HashSizeSum, kFix3HashSize, kFix4HashSize
<1>3. SonCount(s) \in Nat /\ SonCount(s) > 0
  BY <1>1 DEF SonCount
<1>4. MatchMaxLen \in Nat /\ Reserve \in Nat
  BY SettingsAssumption
<1> QED BY <1>1, <1>2, <1>3, <1>4

\* It is a struct.
LEMMA FreshFinder ==
  ASSUME NEW k \in Kinds, NEW x1 \in Nat, NEW x2 \in Nat, NEW x3 \in Nat, NEW x4 \in Nat,
         NEW x5 \in Nat, NEW x6 \in Nat, NEW x7 \in Nat, NEW f \in Arrays, NEW g \in Arrays
  PROVE  [kind |-> k, historySize |-> x1, cyclicBufferSize |-> x2, keepSizeBefore |-> x2,
          keepSizeAfter |-> x3, blockSize |-> x4, hashSizeSum |-> x5, numSons |-> x6,
            son |-> x7,
          hash |-> f, bufferBase |-> g,
          buffer |-> 0, pos |-> 0, streamPos |-> 0, posLimit |-> 0, lenLimit |-> 0,
          cyclicBufferPos |-> 0, read |-> 0,
          result |-> TRUE, streamEndWasReached |-> FALSE] \in Finders
BY DEF Finders

\* A new array is one.
LEMMA ConstantArray ==
  ASSUME NEW m \in Nat, NEW x \in Int
  PROVE  [i \in 0 .. m |-> x] \in Arrays
<1>1. [i \in 0 .. m |-> x] \in [0 .. m -> Int]
  OBVIOUS
<1> QED BY ZenonT(60), <1>1 DEF Arrays

\* It has the shape.
LEMMA FreshIs ==
  ASSUME NEW s \in Settings
  PROVE  Made(Fresh(s))
<1>1. /\ s.kind \in Kinds /\ s.historySize \in Nat /\ s.historySize > 0
      /\ TableSize(s) \in Nat /\ TableSize(s) > 0 /\ SonCount(s) \in Nat /\ SonCount(s) > 0
      /\ MatchMaxLen \in Nat /\ Reserve \in Nat
  BY SettingNumbers
<1> DEFINE x2 == s.historySize + 1
           x4 == s.historySize + 1 + MatchMaxLen + Reserve
           f == [i \in 0 .. TableSize(s) + SonCount(s) - 1 |-> s.historySize + 1]
           g == [i \in 0 .. (s.historySize + 1 + MatchMaxLen + Reserve) - 1 |-> NoByte]
           q == Fresh(s)
<1>2. x2 \in Nat /\ x4 \in Nat /\ x4 > 0 /\ TableSize(s) + SonCount(s) \in Nat
      /\ TableSize(s) + SonCount(s) > 0 /\ NoByte \in Int /\ x2 \in Int
  BY <1>1 DEF NoByte
<1>3. f \in Arrays
  <2> DEFINE n == TableSize(s) + SonCount(s) - 1
  <2>1. n \in Nat /\ x2 \in Int
    <3> DEFINE a == TableSize(s)  b == SonCount(s)
    <3>1. a \in Nat /\ b \in Nat /\ b > 0
      BY <1>1
    <3> HIDE DEF a, b
    <3>2. a + b - 1 \in Nat
      BY <3>1
    <3> QED BY <1>2, <3>2 DEF a, b
  <2> QED BY ZenonT(60), <2>1, ConstantArray
<1>4. g \in Arrays
  <2> DEFINE n == x4 - 1
  <2>1. n \in Nat /\ NoByte \in Int
    BY <1>2
  <2> QED BY ZenonT(60), <2>1, ConstantArray
<1>5. q \in Finders
  <2>1. q = [kind |-> s.kind, historySize |-> s.historySize, cyclicBufferSize |-> x2,
             keepSizeBefore |-> x2,
             keepSizeAfter |-> MatchMaxLen, blockSize |-> x4, hashSizeSum |-> TableSize(s),
             numSons |-> SonCount(s), son |-> TableSize(s),
             hash |-> f, bufferBase |-> g,
             buffer |-> 0, pos |-> 0, streamPos |-> 0, posLimit |-> 0, lenLimit |-> 0,
             cyclicBufferPos |-> 0, read |-> 0,
             result |-> TRUE, streamEndWasReached |-> FALSE]
    BY DEF Fresh
  <2> HIDE DEF f, g, q, x2, x4
  <2> QED BY <1>1, <1>2, <1>3, <1>4, <2>1, FreshFinder
<1>6. /\ q.kind = s.kind /\ q.historySize = s.historySize
      /\ q.cyclicBufferSize = s.historySize + 1 /\ q.keepSizeBefore = s.historySize + 1
      /\ q.keepSizeAfter = MatchMaxLen
      /\ q.blockSize = s.historySize + 1 + MatchMaxLen + Reserve
      /\ q.hashSizeSum = TableSize(s) /\ q.numSons = SonCount(s) /\ q.son = TableSize(s)
      /\ q.hash = f /\ q.bufferBase = g /\ q.read = 0
  BY DEF Fresh
<1>7. DOMAIN f = 0 .. TableSize(s) + SonCount(s) - 1 /\ \A c \in DOMAIN f : f[c] \in Nat
  BY <1>2
<1>8. DOMAIN g = 0 .. (s.historySize + 1 + MatchMaxLen + Reserve) - 1
  OBVIOUS
<1>9. TableSize(s) = HashSizeSum(s.kind)
  BY DEF TableSize
<1>10. IsBt(q) <=> IsBt(s)
  BY <1>6 DEF IsBt
<1>11. SonCount(s) = IF IsBt(q) THEN 2 * (s.historySize + 1) ELSE s.historySize + 1
  BY <1>10 DEF SonCount
<1> HIDE DEF q, f, g
<1>12. Shape(q)
  <2>1. \E u \in Settings : u.kind = q.kind /\ u.historySize = q.historySize
    BY <1>6
  <2>2. /\ q.cyclicBufferSize = q.historySize + 1 /\ q.keepSizeBefore = q.historySize + 1
        /\ q.keepSizeAfter = MatchMaxLen
        /\ q.blockSize = q.historySize + 1 + MatchMaxLen + Reserve
        /\ q.son = q.hashSizeSum
    BY <1>6
  <2>3. q.hashSizeSum = HashSizeSum(q.kind)
    BY <1>6, <1>9
  <2>4. q.numSons = IF IsBt(q) THEN 2 * q.cyclicBufferSize ELSE q.cyclicBufferSize
    BY <1>6, <1>11
  <2>5. DOMAIN q.hash = 0 .. q.hashSizeSum + q.numSons - 1
          /\ \A c \in DOMAIN q.hash : q.hash[c] \in Nat
    BY <1>6, <1>7
  <2>6. DOMAIN q.bufferBase = 0 .. q.blockSize - 1
    <3>1. q.bufferBase = g /\ q.blockSize = s.historySize + 1 + MatchMaxLen + Reserve
      BY <1>6
    <3> QED BY Zenon, <1>8, <3>1
  <2> QED BY <2>1, <2>2, <2>3, <2>4, <2>5, <2>6 DEF Shape
<1> QED BY <1>5, <1>6, <1>12 DEF Made, q

\* It is a struct with the arrays of another.
LEMMA KeptFinder ==
  ASSUME NEW q \in Finders, NEW x \in Nat, NEW f \in Arrays
  PROVE  [q EXCEPT !.son = x, !.hash = f] \in Finders
BY DEF Finders

\* Create(): the arrays are kept only where the hash tables have one size.
LEMMA CreateIs ==
  ASSUME SumsDiffer, NEW q, q = NoFinder \/ Made(q), NEW s \in Settings
  PROVE  Made(Create(q, s))
<1> DEFINE n == Fresh(s)
           same == q # NoFinder /\ q.hashSizeSum + q.numSons = TableSize(s) + SonCount(s)
<1>1. Create(q, s) = IF same THEN [n EXCEPT !.son = q.son, !.hash = q.hash] ELSE n
  BY ZenonT(60) DEF Create, Fresh, TableSize, SonCount
<1>2. Made(n)
  BY FreshIs
<1>3. ASSUME same PROVE Made([n EXCEPT !.son = q.son, !.hash = q.hash])
  <2>1. q \in Finders /\ Shape(q)
    BY <1>3 DEF Made
  <2>2. PICK u \in Settings : u.kind = q.kind /\ u.historySize = q.historySize
    BY <2>1 DEF Shape
  <2>3. IsBt(u) <=> IsBt(q)
    BY <2>2 DEF IsBt
  <2>4. q.hashSizeSum = TableSize(u) /\ q.numSons = SonCount(u)
    <3>1. q.hashSizeSum = HashSizeSum(q.kind) /\ q.cyclicBufferSize = q.historySize + 1
          /\ q.numSons = IF IsBt(q) THEN 2 * q.cyclicBufferSize ELSE q.cyclicBufferSize
      BY <2>1 DEF Shape
    <3> QED BY <2>2, <2>3, <3>1 DEF TableSize, SonCount
  <2>5. TableSize(u) + SonCount(u) = TableSize(s) + SonCount(s)
    BY <1>3, <2>4
  <2>6. \A v \in Settings : ArraySize(v) = TableSize(v) + SonCount(v)
    <3> SUFFICES ASSUME NEW v \in Settings PROVE ArraySize(v) = TableSize(v) + SonCount(v)
      OBVIOUS
    <3>1. v.historySize \in Nat /\ TableSize(v) \in Nat
      BY SettingNumbers
    <3> QED BY <3>1 DEF ArraySize, TableSize, SonCount
  <2>7. TableSize(u) = TableSize(s)
    <3>1. ArraySize(u) = ArraySize(s)
      BY <2>5, <2>6
    <3> QED BY <3>1 DEF SumsDiffer, TableSize
  <2>8. SonCount(u) = SonCount(s)
    <3>1. TableSize(s) \in Nat /\ SonCount(s) \in Nat /\ SonCount(u) \in Nat
      BY SettingNumbers
    <3> QED BY <2>5, <2>7, <3>1
  <2> DEFINE t == [n EXCEPT !.son = q.son, !.hash = q.hash]
  <2>9. n \in Finders /\ q.son \in Nat /\ q.hash \in Arrays
    BY <1>2, <2>1, Numbers DEF Made
  <2> HIDE DEF n
  <2>10. t \in Finders
    BY ZenonT(60), <2>9, KeptFinder
  <2>11. /\ t.kind = n.kind /\ t.historySize = n.historySize
         /\ t.cyclicBufferSize = n.cyclicBufferSize /\ t.keepSizeBefore = n.keepSizeBefore
         /\ t.keepSizeAfter = n.keepSizeAfter /\ t.blockSize = n.blockSize
         /\ t.hashSizeSum = n.hashSizeSum /\ t.numSons = n.numSons
         /\ t.son = q.son /\ t.hash = q.hash /\ t.bufferBase = n.bufferBase /\ t.read = n.read
    BY <2>9, SMTT(60) DEF Finders
  <2>12. n.hashSizeSum = TableSize(s) /\ n.numSons = SonCount(s) /\ n.son = TableSize(s)
    BY DEF n, Fresh
  <2>13. /\ q.son = TableSize(s) /\ DOMAIN q.hash = 0 .. TableSize(s) + SonCount(s) - 1
         /\ \A c \in DOMAIN q.hash : q.hash[c] \in Nat
    BY <2>1, <2>4, <2>7, <2>8 DEF Shape
  <2> HIDE DEF t
  <2>14. Frame(t, n)
    BY <2>11, <2>12, <2>13 DEF Frame
  <2>15. Shape(n) /\ n.read = 0
    BY <1>2 DEF Made
  <2>16. DOMAIN n.hash = 0 .. TableSize(s) + SonCount(s) - 1
    BY <2>12, <2>15 DEF Shape
  <2>17. Shape(t)
    BY <2>11, <2>13, <2>14, <2>15, <2>16, ShapeKept
  <2> QED BY <2>10, <2>11, <2>15, <2>17 DEF Made, t
<1> QED BY <1>1, <1>2, <1>3

\* What MatchFinder_Init() makes of the struct before it reads.
Cleared(q) == [i \in DOMAIN q.hash |-> IF i < q.hashSizeSum THEN kEmptyHashValue ELSE q.hash[i]]
Rewound(q) ==
  [q EXCEPT !.hash = [i \in DOMAIN @ |-> IF i < q.hashSizeSum THEN kEmptyHashValue ELSE @[i]],
            !.cyclicBufferPos = 0, !.buffer = 0, !.result = TRUE,
            !.pos = q.cyclicBufferSize, !.streamPos = q.cyclicBufferSize,
            !.streamEndWasReached = FALSE]

\* It is a struct.
LEMMA RewoundFinder ==
  ASSUME NEW q \in Finders, NEW f \in Arrays, NEW x \in Nat
  PROVE  [q EXCEPT !.hash = f, !.cyclicBufferPos = 0, !.buffer = 0, !.result = TRUE,
                   !.pos = x, !.streamPos = x, !.streamEndWasReached = FALSE] \in Finders
BY DEF Finders

\* The heads are emptied, the ring is not.
LEMMA ClearedIs ==
  ASSUME NEW q, Made(q)
  PROVE  /\ Cleared(q) \in Arrays /\ DOMAIN Cleared(q) = DOMAIN q.hash
         /\ \A c \in DOMAIN q.hash : Cleared(q)[c] \in Nat
         /\ \A c \in DOMAIN q.hash : c < q.hashSizeSum => Cleared(q)[c] = 0
<1>1. q \in Finders /\ Shape(q)
  BY DEF Made
<1> DEFINE f == Cleared(q)
<1>2. /\ DOMAIN f = DOMAIN q.hash
      /\ \A c \in DOMAIN q.hash : f[c] = IF c < q.hashSizeSum THEN 0 ELSE q.hash[c]
  BY DEF Cleared, kEmptyHashValue
<1>3. f = [c \in DOMAIN q.hash |-> f[c]]
  BY DEF Cleared
<1>4. \A c \in DOMAIN q.hash : q.hash[c] \in Nat
  BY <1>1 DEF Shape
<1> HIDE DEF f
<1>5. \A c \in DOMAIN q.hash : f[c] \in Nat
  BY <1>2, <1>4
<1>6. PICK n \in Nat : DOMAIN q.hash = 0 .. n
  <2>1. q.hash \in Arrays
    BY <1>1, Numbers
  <2> QED BY <2>1, ArrayIs
<1>7. f \in [0 .. n -> Int]
  BY <1>3, <1>5, <1>6
<1>8. f \in Arrays
  BY <1>7 DEF Arrays
<1> QED BY <1>2, <1>5, <1>8 DEF f

\* An empty window at the begin of the stream.
LEMMA RewoundIs ==
  ASSUME NEW q, Made(q), data \in Streams
  PROVE  /\ Half(Rewound(q), data, 0) /\ Frame(Rewound(q), q) /\ ~NeedMove(Rewound(q))
         /\ ~Rewound(q).streamEndWasReached /\ Rewound(q).result /\ Avail(Rewound(q)) = 0
         /\ Rewound(q).cyclicBufferPos = 0 /\ Rewound(q).pos = q.cyclicBufferSize
         /\ Rewound(q).hash = Cleared(q)
<1>1. q \in Finders /\ Shape(q) /\ q.read = 0
  BY DEF Made
<1> DEFINE f == Cleared(q)
           r == Rewound(q)
<1>2. /\ f \in Arrays /\ DOMAIN f = DOMAIN q.hash
      /\ \A c \in DOMAIN q.hash : f[c] \in Nat
  BY ClearedIs
<1>3. /\ q.cyclicBufferSize \in Nat /\ q.cyclicBufferSize = q.historySize + 1
          /\ q.historySize \in Nat
      /\ q.blockSize = q.historySize + 1 + MatchMaxLen + Reserve
          /\ q.keepSizeAfter = MatchMaxLen
      /\ MatchMaxLen \in Nat /\ Reserve \in Nat /\ Reserve > 0 /\ StreamLen \in Nat
  BY <1>1, Sizes
<1>4. r = [q EXCEPT !.hash = f, !.cyclicBufferPos = 0, !.buffer = 0, !.result = TRUE,
                    !.pos = q.cyclicBufferSize, !.streamPos = q.cyclicBufferSize,
                    !.streamEndWasReached = FALSE]
  BY ZenonT(60) DEF Rewound, Cleared
<1> HIDE DEF f, r
<1>5. r \in Finders
  <2>1. [q EXCEPT !.hash = f, !.cyclicBufferPos = 0, !.buffer = 0, !.result = TRUE,
                  !.pos = q.cyclicBufferSize, !.streamPos = q.cyclicBufferSize,
                  !.streamEndWasReached = FALSE] \in Finders
    <3>1. q.cyclicBufferSize \in Nat
      BY <1>3
    <3>2. f \in Arrays
      BY <1>2
    <3>3. q \in Finders
      BY <1>1
    <3> QED BY ZenonT(60), <3>1, <3>2, <3>3, RewoundFinder
  <2> QED BY Zenon, <1>4, <2>1
<1>6. /\ r.kind = q.kind /\ r.historySize = q.historySize
      /\ r.cyclicBufferSize = q.cyclicBufferSize /\ r.keepSizeBefore = q.keepSizeBefore
      /\ r.keepSizeAfter = q.keepSizeAfter /\ r.blockSize = q.blockSize
      /\ r.hashSizeSum = q.hashSizeSum /\ r.numSons = q.numSons /\ r.son = q.son
      /\ r.bufferBase = q.bufferBase /\ r.read = q.read
      /\ r.hash = f /\ r.cyclicBufferPos = 0 /\ r.buffer = 0 /\ r.result = TRUE
      /\ r.pos = q.cyclicBufferSize /\ r.streamPos = q.cyclicBufferSize
      /\ r.streamEndWasReached = FALSE
  BY <1>1, <1>4, SMTT(60) DEF Finders
<1>7. Frame(r, q)
  BY <1>6 DEF Frame
<1>8. Shape(r)
  BY <1>1, <1>2, <1>6, <1>7, ShapeKept
<1>9. Avail(r) = 0
  BY <1>3, <1>6 DEF Avail
<1>10. ~NeedMove(r)
  BY <1>3, <1>6 DEF NeedMove
<1>11. Window(r, data, 0)
  <2>1. Min2(0, r.cyclicBufferSize) = 0
    BY <1>3, <1>6 DEF Min2
  <2>2. r.read = 0 + Avail(r) /\ r.read <= StreamLen /\ r.buffer + Avail(r) <= r.blockSize
    BY <1>1, <1>3, <1>6, <1>9
  <2>3. \A j \in Int : ~(0 <= j /\ j < 0)
    OBVIOUS
  <2>4. \A j \in Int : ~(-Min2(0, r.cyclicBufferSize) <= j /\ j < Avail(r))
    BY <1>9, <2>1, <2>3
  <2>5. r.pos <= r.streamPos /\ r.buffer >= Min2(0, r.cyclicBufferSize)
    BY <1>3, <1>6, <2>1
  <2> QED BY <2>2, <2>4, <2>5 DEF Window
<1>12. Half(r, data, 0)
  BY <1>3, <1>5, <1>6, <1>8, <1>11 DEF Half
<1>13. r.hash = Cleared(q)
  BY <1>6 DEF f
<1> QED BY <1>6, <1>7, <1>9, <1>10, <1>12, <1>13 DEF r

\* MatchFinder_Init(): no reference is live.
LEMMA InitIs ==
  ASSUME NEW q, Made(q), data \in Streams, NEW m \in ReadBlock(Rewound(q)),
         NEW t, t = SetLimits(m)
  PROVE  Filled(t, data, 0)
<1> DEFINE r == Rewound(q)
<1>1. /\ Half(r, data, 0) /\ Frame(r, q) /\ ~NeedMove(r)
      /\ ~r.streamEndWasReached /\ r.result /\ Avail(r) = 0
      /\ r.cyclicBufferPos = 0 /\ r.pos = q.cyclicBufferSize
      /\ r.hash = Cleared(q)
  BY RewoundIs
<1>2. q \in Finders /\ Shape(q)
  BY DEF Made
<1>3. /\ q.cyclicBufferSize \in Nat /\ q.cyclicBufferSize > 0 /\ q.cyclicBufferSize < MaxVal
      /\ MatchMaxLen \in Nat
  <2>1. /\ q.cyclicBufferSize = q.historySize + 1 /\ q.historySize \in Nat
        /\ MaxVal >= q.historySize + 1 + NormalizeStep
        /\ NormalizeStep \in Nat /\ NormalizeStep > 0 /\ MatchMaxLen \in Nat
    BY <1>2, Sizes
  <2>2. MaxVal \in Nat
    BY SettingsAssumption
  <2> QED BY <2>1, <2>2
<1>4. m \in ReadBlock(r)
  OBVIOUS
<1> HIDE DEF r
<1>5. /\ Half(m, data, 0) /\ Apart(m, r)
      /\ m.result /\ ~m.streamEndWasReached => Avail(m) > MatchMaxLen
  <2>1. Avail(r) <= MatchMaxLen
    BY <1>1, <1>3
  <2> QED BY <1>1, <1>4, <2>1, ReadBlockIs
<1>6. /\ m.pos = q.cyclicBufferSize /\ m.cyclicBufferPos = 0 /\ m.hash = Cleared(q)
      /\ m.cyclicBufferSize = q.cyclicBufferSize
  BY <1>1, <1>5 DEF Apart, Frame
<1>7. m.pos < MaxVal /\ m.cyclicBufferPos < m.cyclicBufferSize
  BY <1>3, <1>6
<1>8. Ready(t, data, 0) /\ Frame(t, m) /\ t.hash = m.hash /\ t.pos = m.pos
  <2>1. t = SetLimits(m)
    OBVIOUS
  <2> HIDE DEF SetLimits
  <2> QED BY <1>5, <1>7, <2>1, SetLimitsIs
<1>9. /\ t.hash = Cleared(q) /\ t.pos = q.cyclicBufferSize
      /\ t.cyclicBufferSize = q.cyclicBufferSize /\ t.hashSizeSum = q.hashSizeSum
  BY <1>1, <1>5, <1>6, <1>8 DEF Apart, Frame
<1>10. \A c \in 0 .. t.hashSizeSum - 1 : t.hash[c] = 0
  <2>1. 0 .. t.hashSizeSum - 1 \subseteq DOMAIN t.hash /\ t.hashSizeSum \in Nat
    BY <1>8, ShortHeads, Sons
  <2>2. \A c \in DOMAIN q.hash : c < q.hashSizeSum => Cleared(q)[c] = 0
    BY ClearedIs
  <2>3. DOMAIN t.hash = DOMAIN q.hash
    BY <1>9, ClearedIs
  <2> QED BY <1>9, <2>1, <2>2, <2>3
<1>11. ~Live(t, 0)
  BY <1>3, <1>9 DEF Live
<1>12. 0 <= t.pos
  BY <1>3, <1>9
<1>13. HeadsOK(t, 0, {})
  BY <1>10, <1>11, <1>12 DEF HeadsOK, RefOK
<1>14. ShortOK(t, data, 0, {})
  <2>1. ASSUME NEW c \in 0 .. t.hashSizeSum - 1, NEW X, X = {} PROVE Nearest(t, 0, t.hash[c], X)
    BY <1>10, <1>11, <2>1 DEF Nearest
  <2>2. ASSUME NEW h \in 0 .. 1, Has2(t)
        PROVE  Nearest(t, 0, t.hash[h], {x \in {} : Hash2At(data, x) = h})
    <3>1. {x \in {} : Hash2At(data, x) = h} = {}
      OBVIOUS
    <3>2. h \in 0 .. t.hashSizeSum - 1
      BY <1>8, <2>2, ShortHeads
    <3> QED BY <2>1, <3>1, <3>2
  <2>3. ASSUME NEW h \in 0 .. 3, Has3(t)
        PROVE  Nearest(t, 0, t.hash[kFix3HashSize + h], {x \in {} : Hash3At(data, x) = h})
    <3>1. {x \in {} : Hash3At(data, x) = h} = {}
      OBVIOUS
    <3>2. kFix3HashSize + h \in 0 .. t.hashSizeSum - 1
      BY <1>8, <2>3, ShortHeads
    <3> QED BY <2>1, <3>1, <3>2
  <2> QED BY <2>2, <2>3 DEF ShortOK
<1>15. RingOK(t, data, 0, {})
  BY DEF RingOK, TreesOK, Ordered, ChainOK
<1>16. Entrants(t, data, 0, {})
  BY DEF Entrants
<1> QED BY <1>8, <1>13, <1>14, <1>15, <1>16 DEF Filled, Refers

-----------------------------------------------------------------------------
(* The invariant *)

\* Before Init() nothing was read and nothing answered.
Idle == started = FALSE /\ (p = NoFinder \/ Made(p)) /\ at = 0 /\ found = NoAnswer

\* The inductive invariant: the finder is made, or ready with all its references leading to
\* entries; and the last answer is one of matches.
IInv ==
  /\ data \in Streams
  /\ Idle \/ (started = TRUE /\ Filled(p, data, at))
  /\ RealPairs(p, data, found.at, found.pairs)

\* An empty answer is right.
LEMMA NothingIsReal ==
  ASSUME NEW q, NEW d, NEW i
  PROVE  RealPairs(q, d, i, <<>>)
BY DEF RealPairs

\* It holds before anything is called ...
LEMMA InitIInv == Init => IInv
<1> SUFFICES ASSUME Init PROVE IInv
  OBVIOUS
<1>1. found.pairs = <<>>
  BY DEF Init, NoAnswer
<1> QED BY <1>1, NothingIsReal DEF Init, IInv, Idle, Streams

\* ... and Create() keeps it ...
LEMMA CreateKeeps ==
  ASSUME SumsDiffer, IInv, NEW s \in Settings, MatchFinder_Create(s)
  PROVE  IInv'
<1>1. Idle /\ p' = Create(p, s) /\ UNCHANGED <<data, at, started, found>>
  BY DEF MatchFinder_Create, IInv
<1>2. Made(p')
  <2>1. p = NoFinder \/ Made(p)
    BY <1>1 DEF Idle
  <2> HIDE DEF Create
  <2> QED BY <1>1, <2>1, CreateIs
<1>3. Idle'
  BY <1>1, <1>2 DEF Idle
<1>4. RealPairs(p, data, found.at, found.pairs)'
  <2>1. found'.pairs = <<>>
    BY <1>1 DEF Idle, NoAnswer
  <2> QED BY <2>1, NothingIsReal
<1> QED BY <1>1, <1>3, <1>4 DEF IInv

\* ... Init() ...
LEMMA InitKeeps ==
  ASSUME IInv, MatchFinder_Init
  PROVE  IInv'
<1>1. /\ Idle /\ p # NoFinder /\ started' = TRUE /\ UNCHANGED <<data, at, found>>
      /\ data \in Streams
      /\ \E q \in ReadBlock(Rewound(p)) : p' = SetLimits(q)
  BY DEF MatchFinder_Init, IInv, Rewound
<1>2. PICK q \in ReadBlock(Rewound(p)) : p' = SetLimits(q)
  BY <1>1
<1>3. Made(p) /\ at = 0
  BY <1>1 DEF Idle
<1>4. Filled(p', data, 0)
  <2> HIDE DEF SetLimits, ReadBlock, Rewound
  <2> QED BY <1>1, <1>2, <1>3, InitIs
<1>5. Filled(p, data, at)'
  BY <1>1, <1>3, <1>4
<1>6. RealPairs(p, data, found.at, found.pairs)'
  <2>1. found'.pairs = <<>>
    BY <1>1 DEF Idle, NoAnswer
  <2> QED BY <2>1, NothingIsReal
<1> QED BY <1>1, <1>5, <1>6 DEF IInv

\* ... GetMatches() ...
LEMMA GetMatchesKeeps ==
  ASSUME IInv, GetMatches
  PROVE  IInv'
<1>1. /\ started /\ Avail(p) > 0 /\ p' \in MovePos(Matches(p).q)
      /\ found' = [at |-> at, pairs |-> Matches(p).pairs]
      /\ at' = at + 1 /\ UNCHANGED <<data, started>>
  BY DEF GetMatches, CanAdvance
<1>2. Filled(p, data, at) /\ started = TRUE /\ data \in Streams
  BY <1>1 DEF IInv, Idle
<1>3. /\ Filled(p', data, at + 1) /\ Frame(p', p)
      /\ Answer(p, data, at, Matches(p).pairs)
      /\ p.lenLimit = Min2(MatchMaxLen, (IF p'.result THEN StreamLen ELSE p'.read) - at)
  <2> HIDE DEF MovePos, Matches
  <2> QED BY <1>1, <1>2, MatchesMoves
<1>4. Ready(p, data, at)
  BY <1>2 DEF Filled
<1>5. RealPairs(p', data, at, Matches(p).pairs)
  BY ZenonT(60), <1>3, <1>4, AnswerIsReal
<1>6. found'.at = at /\ found'.pairs = Matches(p).pairs
  BY <1>1
<1> QED BY <1>1, <1>2, <1>3, <1>5, <1>6 DEF IInv

\* ... and Skip().
LEMMA SkipKeeps ==
  ASSUME IInv, Skip
  PROVE  IInv'
<1>1. /\ started /\ Avail(p) > 0 /\ p' \in MovePos(Skipped(p))
      /\ found' = NoAnswer /\ at' = at + 1 /\ UNCHANGED <<data, started>>
  BY DEF Skip, CanAdvance
<1>2. Filled(p, data, at) /\ started = TRUE /\ data \in Streams
  BY <1>1 DEF IInv, Idle
<1>3. Filled(p', data, at + 1)
  <2> HIDE DEF MovePos, Skipped
  <2> QED BY <1>1, <1>2, SkipMoves
<1>4. found'.pairs = <<>>
  BY <1>1 DEF NoAnswer
<1>5. RealPairs(p, data, found.at, found.pairs)'
  BY <1>4, NothingIsReal
<1> QED BY <1>1, <1>2, <1>3, <1>5 DEF IInv

\* So does every step.
LEMMA IInvKept ==
  ASSUME SumsDiffer, IInv, [Next]_vars
  PROVE  IInv'
<1>1. CASE \E s \in Settings : MatchFinder_Create(s)
  BY <1>1, CreateKeeps
<1>2. CASE MatchFinder_Init
  BY <1>2, InitKeeps
<1>3. CASE GetMatches
  BY <1>3, GetMatchesKeeps
<1>4. CASE Skip
  BY <1>4, SkipKeeps
<1>5. CASE UNCHANGED vars
  BY <1>5 DEF vars, IInv, Idle
<1> QED BY <1>1, <1>2, <1>3, <1>4, <1>5 DEF Next

\* IInv is an invariant of every finder whose settings do not mix up hash and sons.
THEOREM Invariance == SumsDiffer /\ Spec => []IInv
<1> SUFFICES ASSUME SumsDiffer PROVE Spec => []IInv
  OBVIOUS
<1>1. Init => IInv
  BY InitIInv
<1>2. IInv /\ [Next]_vars => IInv'
  BY IInvKept
<1> QED BY <1>1, <1>2, PTL DEF Spec

\* It says what the property says.
LEMMA IInvIsReal == IInv => MatchesAreReal
BY DEF IInv, RealPairs, MatchesAreReal, AgreeAt, LimitAt

\* Whatever wraps, is moved or is brought down, GetMatches() answers with matches of the stream
\* only, at their length and distance, inside the history, ever longer and farther.
THEOREM AnswersAreMatches == SumsDiffer /\ Spec => []MatchesAreReal
<1> SUFFICES ASSUME SumsDiffer PROVE Spec => []MatchesAreReal
  OBVIOUS
<1>1. IInv => MatchesAreReal
  BY IInvIsReal
<1>2. Spec => []IInv
  BY Invariance
<1> QED BY <1>1, <1>2, PTL

\* The array of references lies behind the hash tables, also after a second Create().
THEOREM SonsInPlace == SumsDiffer /\ Spec => []SonsFollowHash
<1> SUFFICES ASSUME SumsDiffer PROVE Spec => []SonsFollowHash
  OBVIOUS
<1>1. IInv => SonsFollowHash
  BY DEF IInv, Idle, Made, Filled, Ready, Shape, SonsFollowHash
<1>2. Spec => []IInv
  BY Invariance
<1> QED BY <1>1, <1>2, PTL

\* It bounds the indices.
LEMMA IInvIsTyped == IInv => TypeOK
<1> SUFFICES ASSUME IInv PROVE TypeOK
  OBVIOUS
<1>1. CASE Idle
  <2>1. StreamLen \in Nat
    BY SettingsAssumption
  <2>2. at \in 0 .. StreamLen
    BY <1>1, <2>1 DEF Idle
  <2>3. started \in BOOLEAN /\ ~started
    BY <1>1 DEF Idle
  <2> QED BY Zenon, <2>2, <2>3 DEF TypeOK
<1>2. CASE started = TRUE /\ Filled(p, data, at)
  <2>1. Ready(p, data, at)
    BY <1>2 DEF Filled
  <2>2. /\ at \in Nat /\ Avail(p) \in Nat /\ at + Avail(p) = p.read /\ p.read <= StreamLen
        /\ p.pos \in Nat /\ StreamLen \in Nat /\ p.cyclicBufferPos \in Nat
        /\ p.cyclicBufferSize \in Nat /\ p.cyclicBufferPos < p.cyclicBufferSize
    BY <2>1, LimitNumbers
  <2>3. p.pos < MaxVal /\ MaxVal \in Nat
    BY <2>1, SettingsAssumption DEF Ready, Limits
  <2>4. p.buffer \in Nat /\ p.blockSize \in Nat /\ p.buffer + Avail(p) <= p.blockSize
    BY <2>1, Numbers DEF Ready, Window
  <2>5. p.streamPos - p.pos \in 0 .. p.blockSize - p.buffer
    BY <2>2, <2>4 DEF Avail
  <2>6. p.cyclicBufferPos \in 0 .. p.cyclicBufferSize - 1 /\ p.pos \in 0 .. MaxVal - 1
        /\ at \in 0 .. StreamLen
    BY <2>2, <2>3
  <2> QED BY <1>2, <2>2, <2>5, <2>6 DEF TypeOK
<1> QED BY <1>1, <1>2 DEF IInv

\* The position stays below its limit, the block is never read or written beyond its end, and
\* the finder has read as far as it says.
THEOREM TypeCorrect == SumsDiffer /\ Spec => []TypeOK
<1> SUFFICES ASSUME SumsDiffer PROVE Spec => []TypeOK
  OBVIOUS
<1>1. IInv => TypeOK
  BY IInvIsTyped
<1>2. Spec => []IInv
  BY Invariance
<1> QED BY <1>1, <1>2, PTL
===============================================================================
