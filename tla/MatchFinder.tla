------------------------------ MODULE MatchFinder ------------------------------
(***************************************************************************)
(* The match finder of the LZ encoders                                     *)
(* (plugins/codecs/support/MatchFinder.cpp): it reads a stream into a      *)
(* block, files every position in hash tables and in a ring of binary      *)
(* trees (Bt) or hash chains (Hc), and answers with the earlier positions  *)
(* whose bytes repeat at the current one.  Three things wrap or are cut    *)
(* while it runs: the ring, the block (its last bytes are moved to the     *)
(* front) and the position itself, which is brought down, with every       *)
(* reference to it, before it overflows.                                   *)
(*                                                                         *)
(* `p' is the struct the C functions share; each of them is an operator    *)
(* on that record, and those that read the device give the set of its      *)
(* results.  Bytes are bits and the constants of the code are scaled down. *)
(***************************************************************************)
EXTENDS Integers, Sequences, FiniteSetsExt

CONSTANTS
    Settings,        \* the [kind, historySize] that Create() may be given
    StreamLen,       \* the bytes of the stream
    MatchMaxLen,     \* the longest match
    Reserve,         \* the bytes of the block beyond those that are kept
    MaxVal,          \* kMaxValForNormalize
    NormalizeStep,   \* kNormalizeStepMin
    CutValue         \* the references one search follows

Kinds == {"Bt2", "Bt3", "Bt3Zip", "Bt4", "Hc3Zip", "Hc4"}

ASSUME SettingsAssumption ==
    /\ Settings \subseteq [kind : Kinds, historySize : Nat \ {0}]
    /\ {StreamLen, MatchMaxLen, Reserve, MaxVal, NormalizeStep, CutValue} \subseteq Nat \ {0}
    /\ MatchMaxLen >= 4
    /\ \A s \in Settings : MaxVal >= s.historySize + 1 + NormalizeStep

VARIABLES
    p,         \* the MatchFinder, NoFinder before the first Create()
    data,      \* the stream of its device
    at,        \* the index in `data' of the current position
    started,   \* Init() was called
    found      \* the last answer: the position it is for, and its pairs

vars == <<p, data, at, started, found>>

NoFinder == [kind |-> "none"]
NoAnswer == [at |-> 0, pairs |-> <<>>]
kEmptyHashValue == 0
NoByte == -1                         \* memory nothing was written to, or beyond

Min2(a, b) == IF a < b THEN a ELSE b
Max2(a, b) == IF a < b THEN b ELSE a

-----------------------------------------------------------------------------
(* The tables *)

IsBt(q) == q.kind \in {"Bt2", "Bt3", "Bt3Zip", "Bt4"}

MinLen(q) == CASE q.kind = "Bt2" -> 2
               [] q.kind \in {"Bt3", "Bt3Zip", "Hc3Zip"} -> 3
               [] q.kind \in {"Bt4", "Hc4"} -> 4

\* The scaled tables: two values of the hash of two bytes (which says the
\* second byte when the first is known), four of the hash of three.
kFix3HashSize == 2
kFix4HashSize == 6
HashSizeSum(kind) == CASE kind \in {"Bt4", "Hc4"} -> kFix4HashSize + 2
                       [] kind = "Bt3" -> kFix3HashSize + 4
                       [] OTHER -> 4

Byte(q, i) == IF q.buffer + i \in DOMAIN q.bufferBase THEN q.bufferBase[q.buffer + i] ELSE NoByte

\* Do the bytes at `i' and `j' agree?  One that was never read from the device
\* may hold anything: it agrees, which misleads the search.
Same(q, i, j) == Byte(q, i) = Byte(q, j) \/ Byte(q, i) = NoByte

Xor(a, b) == (a + b) % 2

Hash2(q) == Xor(Byte(q, 0), Byte(q, 1))
Hash3(q) == Hash2(q) + 2 * Byte(q, 2)
HashMain(q) ==
    CASE q.kind = "Bt2" -> Byte(q, 0) + 2 * Byte(q, 1)
      [] q.kind \in {"Bt3Zip", "Hc3Zip"} -> Xor(Byte(q, 2), Byte(q, 1)) + 2 * Byte(q, 0)
      [] q.kind = "Bt3" -> kFix3HashSize + Hash3(q)
      [] q.kind \in {"Bt4", "Hc4"} ->
           kFix4HashSize + Xor(Hash2(q), Xor(Byte(q, 2), Byte(q, 3)))

\* Where the current position is filed: the main table, and the tables of the
\* first two and three bytes where the kind has them.
Heads(q) ==
    {HashMain(q)}
      \cup (IF q.kind \in {"Bt3", "Bt4", "Hc4"} THEN {Hash2(q)} ELSE {})
      \cup (IF q.kind \in {"Bt4", "Hc4"} THEN {kFix3HashSize + Hash3(q)} ELSE {})

Filed(q) == [q EXCEPT !.hash = [i \in DOMAIN @ |-> IF i \in Heads(q) THEN q.pos ELSE @[i]]]

\* Create().  The arrays are allocated again only when their size changes, and
\* then `son' is set: hash and son are one array.
Create(q, s) ==
    LET cyclic == s.historySize + 1
        before == s.historySize + 1
        block  == before + MatchMaxLen + Reserve
        sum    == HashSizeSum(s.kind)
        sons   == IF IsBt(s) THEN 2 * cyclic ELSE cyclic
        fresh  == [kind |-> s.kind, historySize |-> s.historySize,
                   cyclicBufferSize |-> cyclic, keepSizeBefore |-> before,
                   keepSizeAfter |-> MatchMaxLen, blockSize |-> block,
                   hashSizeSum |-> sum, numSons |-> sons, son |-> sum,
                   \* whatever `new' finds in the memory: a low position here
                   hash |-> [i \in 0 .. sum + sons - 1 |-> cyclic],
                   bufferBase |-> [i \in 0 .. block - 1 |-> NoByte],
                   buffer |-> 0, pos |-> 0, streamPos |-> 0, posLimit |-> 0, lenLimit |-> 0,
                   cyclicBufferPos |-> 0, read |-> 0,
                   result |-> TRUE, streamEndWasReached |-> FALSE]
    IN  IF q # NoFinder /\ q.hashSizeSum + q.numSons = sum + sons
        THEN [fresh EXCEPT !.son = q.son, !.hash = q.hash]
        ELSE fresh

-----------------------------------------------------------------------------
(* The block *)

\* GetNumAvailableBytes()
Avail(q) == q.streamPos - q.pos

\* ReadBlock(): what it may leave.  It reads until more than keepSizeAfter
\* bytes are ahead, the block is full, the device has no more, or it fails.
ReadBlock(q) ==
    LET dest == q.buffer + Avail(q)
        size == q.blockSize - dest
        left == StreamLen - q.read
        Got(r) == [q EXCEPT !.streamPos = @ + r, !.read = @ + r,
                            !.bufferBase = [i \in DOMAIN @ |->
                                IF i \in dest .. dest + r - 1 THEN data[q.read + 1 + i - dest]
                                                              ELSE @[i]]]
        enough(r) == Avail(q) + r > q.keepSizeAfter
        sizes == 0 .. Min2(size, left)
    IN  IF q.streamEndWasReached \/ ~q.result \/ size = 0 THEN {q}
        ELSE {Got(r) : r \in {r \in sizes \ {0} : enough(r) \/ r = size}}
               \cup {[Got(r) EXCEPT !.streamEndWasReached = TRUE] :
                        r \in {r \in sizes : r = left /\ r # size /\ ~enough(r)}}
               \cup {[Got(r) EXCEPT !.result = FALSE] :
                        r \in {r \in sizes : r # size /\ ~enough(r)}}

MoveBlock(q) ==
    [q EXCEPT !.bufferBase = [i \in DOMAIN @ |->
                  IF i < Avail(q) + q.keepSizeBefore THEN @[i + q.buffer - q.keepSizeBefore]
                                                     ELSE @[i]],
              !.buffer = q.keepSizeBefore]

NeedMove(q) == q.blockSize - q.buffer <= q.keepSizeAfter

SetLimits(q) ==
    LET ahead == IF Avail(q) <= q.keepSizeAfter THEN Min2(Avail(q), 1)
                                                ELSE Avail(q) - q.keepSizeAfter
        limit == Min({MaxVal - q.pos, q.cyclicBufferSize - q.cyclicBufferPos, ahead})
    IN  [q EXCEPT !.lenLimit = Min2(Avail(q), MatchMaxLen), !.posLimit = q.pos + limit]

GetSubValue(q) == LET low == q.pos - q.historySize - 1 IN low - (low % NormalizeStep)

\* Mutant: only the hash tables come down, not the references of the trees.
NormalizeHeads(q) ==
    LET sub == GetSubValue(q)
    IN  [q EXCEPT !.hash = [i \in DOMAIN @ |->
                      IF i >= q.hashSizeSum THEN @[i]
                      ELSE IF @[i] <= sub THEN kEmptyHashValue ELSE @[i] - sub],
                  !.pos = @ - sub, !.streamPos = @ - sub, !.posLimit = @ - sub]

\* Normalize(): every reference and every position comes down by the same value;
\* a reference that would come out of the history is emptied.
Normalize(q) ==
    LET sub == GetSubValue(q)
    IN  [q EXCEPT !.hash = [i \in DOMAIN @ |-> IF @[i] <= sub THEN kEmptyHashValue ELSE @[i] - sub],
                  !.pos = @ - sub, !.streamPos = @ - sub, !.posLimit = @ - sub]

CheckLimits(q) ==
    LET n == IF q.pos = MaxVal THEN Normalize(q) ELSE q
        moved == IF NeedMove(n) THEN MoveBlock(n) ELSE n
        read == IF ~n.streamEndWasReached /\ n.keepSizeAfter = Avail(n)
                THEN ReadBlock(moved) ELSE {n}
    IN  {SetLimits([r EXCEPT !.cyclicBufferPos = IF @ = r.cyclicBufferSize THEN 0 ELSE @]) :
            r \in read}

MovePos(q) ==
    LET n == [q EXCEPT !.cyclicBufferPos = @ + 1, !.buffer = @ + 1, !.pos = @ + 1]
    IN  IF n.pos = n.posLimit THEN CheckLimits(n) ELSE {n}

-----------------------------------------------------------------------------
(* The search.  Its state `w' is the array, the reference to follow, how many *)
(* may still be followed, the longest match and the pairs; in a tree also the *)
(* two links to be set and the bytes known to agree on either side.           *)

\* A distance is unsigned: a reference ahead of the position is far behind it.
\* Mutant: a reference one byte beyond the history is followed.
OutOfHistoryLate(q, delta) == delta < 0 \/ delta > q.cyclicBufferSize
OutOfHistory(q, delta) == delta < 0 \/ delta >= q.cyclicBufferSize

\* The slot of the ring of the position `delta' back.
Slot(q, delta) ==
    q.cyclicBufferPos - delta + (IF delta > q.cyclicBufferPos THEN q.cyclicBufferSize ELSE 0)

\* How far the bytes `delta' back agree with the current ones, known up to `from'.
Agree(q, delta, from) ==
    Min({l \in from .. q.lenLimit : l = q.lenLimit \/ ~Same(q, l - delta, l)})

Longer(w, len, delta) ==
    IF w.maxLen < len
    THEN [w EXCEPT !.maxLen = len, !.pairs = Append(@, <<len, delta - 1>>)] ELSE w

\* One turn of the loop of GetMatchesSpec1(); what is pending is set when it ends.
TreeRound(q, w) ==
    LET delta == q.pos - w.curMatch
        pair  == q.son + 2 * Slot(q, delta)
        len   == Agree(q, delta, Min2(w.len0, w.len1))
        next  == [Longer(w, len, delta) EXCEPT !.cut = @ - 1]
        Set(ref1, ref0) == [w.hash EXCEPT ![w.ptr1] = ref1, ![w.ptr0] = ref0]
    IN  CASE w.done -> w
          [] ~w.done /\ (w.cut = 0 \/ OutOfHistory(q, delta)) ->
               [w EXCEPT !.hash = Set(kEmptyHashValue, kEmptyHashValue), !.done = TRUE]
          [] OTHER ->
               CASE len = q.lenLimit ->
                      [next EXCEPT !.hash = Set(w.hash[pair], w.hash[pair + 1]), !.done = TRUE]
                 [] len # q.lenLimit /\ Byte(q, len - delta) < Byte(q, len) ->
                      [next EXCEPT !.hash = [@ EXCEPT ![w.ptr1] = w.curMatch],
                                   !.ptr1 = pair + 1, !.curMatch = w.hash[pair + 1], !.len1 = len]
                 [] OTHER ->
                      [next EXCEPT !.hash = [@ EXCEPT ![w.ptr0] = w.curMatch],
                                   !.ptr0 = pair, !.curMatch = w.hash[pair], !.len0 = len]

\* One turn of the loop of Hc_GetMatchesSpec().
ChainRound(q, w) ==
    LET delta == q.pos - w.curMatch
        len   == Agree(q, delta, 0)
        longer == Same(q, w.maxLen - delta, w.maxLen) /\ w.maxLen < len
        next  == IF longer THEN Longer(w, len, delta) ELSE w
    IN  CASE w.done -> w
          [] ~w.done /\ (w.cut = 0 \/ OutOfHistory(q, delta)) -> [w EXCEPT !.done = TRUE]
          [] OTHER -> [next EXCEPT !.cut = @ - 1, !.curMatch = w.hash[q.son + Slot(q, delta)],
                                   !.done = longer /\ len = q.lenLimit]

GetMatchesSpec1(q, w) ==
    LET r[k \in 0 .. CutValue + 1] == IF k = 0 THEN w ELSE TreeRound(q, r[k - 1])
    IN  r[CutValue + 1]

\* Hc_GetMatchesSpec(): files the old head of the chain before it is followed.
Hc_GetMatchesSpec(q, w) ==
    LET filed == [w EXCEPT !.hash = [@ EXCEPT ![q.son + q.cyclicBufferPos] = w.curMatch]]
        r[k \in 0 .. CutValue + 1] == IF k = 0 THEN filed ELSE ChainRound(q, r[k - 1])
    IN  r[CutValue + 1]

\* What the short tables give without a search: the pairs and the longest.
Quick(q) ==
    LET delta2 == q.pos - q.hash[Hash2(q)]
        delta3 == q.pos - q.hash[kFix3HashSize + Hash3(q)]
        Near(delta) == ~OutOfHistory(q, delta) /\ Same(q, -delta, 0)
        near2 == Near(delta2)
        near3 == delta3 # delta2 /\ Near(delta3)
        len2  == Agree(q, delta2, 2)
        len3  == Agree(q, delta3, 3)
    IN  CASE q.kind = "Bt2" -> [maxLen |-> 1, pairs |-> <<>>]
          [] q.kind \in {"Bt3Zip", "Hc3Zip"} -> [maxLen |-> 2, pairs |-> <<>>]
          [] q.kind = "Bt3" ->
               IF near2 THEN [maxLen |-> len2, pairs |-> << <<len2, delta2 - 1>> >>]
                        ELSE [maxLen |-> 2, pairs |-> <<>>]
          [] OTHER ->
               IF near3
               THEN [maxLen |-> len3,
                     pairs |-> (IF near2 THEN << <<2, delta2 - 1>> >> ELSE <<>>)
                                 \o << <<len3, delta3 - 1>> >>]
               ELSE IF near2 THEN [maxLen |-> Max2(len2, 3), pairs |-> << <<len2, delta2 - 1>> >>]
                             ELSE [maxLen |-> 3, pairs |-> <<>>]

\* The search from `maxLen' on: the array it leaves and the pairs it adds.
Search(q, maxLen) ==
    LET w == [hash |-> Filed(q).hash, curMatch |-> q.hash[HashMain(q)], cut |-> CutValue,
              maxLen |-> maxLen, pairs |-> <<>>,
              ptr0 |-> q.son + 2 * q.cyclicBufferPos + 1, ptr1 |-> q.son + 2 * q.cyclicBufferPos,
              len0 |-> 0, len1 |-> 0, done |-> FALSE]
    IN  IF IsBt(q) THEN GetMatchesSpec1(q, w) ELSE Hc_GetMatchesSpec(q, w)

\* Skip(): the position is filed, nothing is answered.
Skipped(q) ==
    IF q.lenLimit < MinLen(q) THEN q
    ELSE IF IsBt(q) THEN [q EXCEPT !.hash = Search(q, 0).hash]
    ELSE [Filed(q) EXCEPT !.hash = [@ EXCEPT ![q.son + q.cyclicBufferPos] = q.hash[HashMain(q)]]]

\* GetMatches(): nothing where fewer bytes are left than the kind hashes; no
\* search where the short tables gave a match as long as there may be.
Matches(q) ==
    LET quick == Quick(q)
        full  == quick.pairs # <<>> /\ quick.maxLen = q.lenLimit
        found0 == Search(q, quick.maxLen)
    IN  CASE q.lenLimit < MinLen(q) -> [q |-> q, pairs |-> <<>>]
          [] q.lenLimit >= MinLen(q) /\ full -> [q |-> Skipped(q), pairs |-> quick.pairs]
          [] OTHER -> [q |-> [q EXCEPT !.hash = found0.hash],
                       pairs |-> quick.pairs \o found0.pairs]

-----------------------------------------------------------------------------
(* The caller: Create(), Init(), then one GetMatches() or Skip(1) for each    *)
(* byte, while there are any.  Skip(num) is `num' such steps.                 *)

Init ==
    /\ p = NoFinder
    /\ data \in [1 .. StreamLen -> {0, 1}]
    /\ at = 0
    /\ started = FALSE
    /\ found = NoAnswer

MatchFinder_Create(s) ==
    /\ ~started
    /\ p' = Create(p, s)
    /\ UNCHANGED <<data, at, started, found>>

MatchFinder_Init ==
    /\ p # NoFinder
    /\ ~started
    /\ \E q \in ReadBlock([p EXCEPT
                    !.hash = [i \in DOMAIN @ |-> IF i < p.hashSizeSum THEN kEmptyHashValue ELSE @[i]],
                    !.cyclicBufferPos = 0, !.buffer = 0, !.result = TRUE,
                    !.pos = p.cyclicBufferSize, !.streamPos = p.cyclicBufferSize,
                    !.streamEndWasReached = FALSE]) :
         p' = SetLimits(q)
    /\ started' = TRUE
    /\ UNCHANGED <<data, at, found>>

CanAdvance == started /\ Avail(p) > 0

GetMatches ==
    /\ CanAdvance
    /\ LET m == Matches(p)
       IN  /\ p' \in MovePos(m.q)
           /\ found' = [at |-> at, pairs |-> m.pairs]
    /\ at' = at + 1
    /\ UNCHANGED <<data, started>>

Skip ==
    /\ CanAdvance
    /\ p' \in MovePos(Skipped(p))
    /\ found' = NoAnswer
    /\ at' = at + 1
    /\ UNCHANGED <<data, started>>

Next == (\E s \in Settings : MatchFinder_Create(s)) \/ MatchFinder_Init \/ GetMatches \/ Skip

Spec == Init /\ [][Next]_vars

-----------------------------------------------------------------------------
(* Properties *)

\* The structure of the record, and the bounds the code keeps for its indices.
TypeOK ==
    /\ at \in 0 .. StreamLen
    /\ started \in BOOLEAN
    /\ p # NoFinder /\ started =>
         /\ p.pos \in 0 .. MaxVal - 1
         /\ p.streamPos - p.pos \in 0 .. p.blockSize - p.buffer
         /\ p.cyclicBufferPos \in 0 .. p.cyclicBufferSize - 1
         /\ p.read = at + Avail(p)

\* The bytes that agree at `i' and `j' of the stream, at most `limit'.
AgreeAt(i, j, limit) ==
    Min({l \in 0 .. limit : l = limit \/ data[i + 1 + l] # data[j + 1 + l]})

\* What may be asked of a match at `i': the stream to its end, or as far as it
\* was read before a read failed.
LimitAt(i) == Min2(MatchMaxLen, (IF p.result THEN StreamLen ELSE p.read) - i)

\* Every pair of an answer is a match of exactly that length at exactly that
\* distance in the stream, inside the history, and each is longer and farther
\* than the one before: whatever was moved, wrapped or brought down before.
MatchesAreReal ==
    LET pairs == found.pairs
        i == found.at
    IN  \A k \in DOMAIN pairs :
          LET len == pairs[k][1]
              back == pairs[k][2] + 1
          IN  /\ back \in 1 .. Min2(p.historySize, i)
              /\ len = AgreeAt(i, i - back, LimitAt(i))
              /\ k > 1 => pairs[k - 1][1] < len /\ pairs[k - 1][2] < pairs[k][2]

\* An answer holds the longest match of the history, at its nearest distance,
\* whenever one as long as the hashed bytes exists and the search is not cut:
\* no reference is lost by a wrap, a move of the block or a normalization, and
\* the block never runs short of bytes while the stream has them.
LongestIsFound ==
    LET i == found.at
        back == 1 .. Min2(p.historySize, i)
        length == [b \in back |-> AgreeAt(i, i - b, LimitAt(i))]
        best == Max({length[b] : b \in back})
    IN  started /\ found # NoAnswer /\ back # {} =>
          (best >= MinLen(p) =>
             /\ found.pairs # <<>>
             /\ found.pairs[Len(found.pairs)] =
                  <<best, Min({b \in back : length[b] = best}) - 1>>)

\* The array of the references lies behind the hash tables (broken by a second
\* Create() whose arrays have the same size in all: README, section 4).
SonsFollowHash == p # NoFinder => p.son = p.hashSizeSum
=============================================================================
