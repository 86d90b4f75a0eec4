------------------------- MODULE GzipArchive_proofs -------------------------
(***************************************************************************)
(* Proofs about Archive, for all items, bounds and sequences of edits of   *)
(* an archive that is opened before it is edited; and about GzipArchive,   *)
(* for all files, windows, interrupts and failures.                        *)
(***************************************************************************)
EXTENDS GzipArchive, FiniteSetTheorems, SequenceTheorems, TLAPS

\* The identifiers of the items that were appended and not deleted.
Added == DOMAIN mModifications \ Originals

\* Identifiers of appended items lie between the items of the archive and mNextId.
AddedInRange ==
  /\ mNextId = 0 => Added = {}
  /\ mNextId > 0 => Len(mItems) < mNextId
  /\ \A id \in Added : id < mNextId

\* What is appended is deleted by being forgotten.
AddedAreValid == \A id \in Added : mModifications[id] # Invalid

AInv ==
  /\ TypeOK
  /\ AddedAreValid
  /\ AddedInRange
  /\ mAddedItems = Cardinality(Added)
  /\ opened \/ mItems = <<>>

\* Callers open an archive, if at all, before they edit it.
OpenedFirst == EditsBeforeOpen = FALSE

Bound == IF mNextId = 0 THEN Len(mItems) ELSE mNextId

-----------------------------------------------------------------------------
LEMMA Finite == ASSUME TypeOK PROVE IsFiniteSet(Added) /\ IsFiniteSet(Originals)
<1>1. 0 \in Int /\ MaxId \in Int /\ Len(mItems) - 1 \in Int
  BY ArchiveAssumption DEF TypeOK
<1>2. IsFiniteSet(Ids) /\ IsFiniteSet(Originals)
  BY <1>1, FS_Interval DEF Ids, Originals
<1>3. Added \subseteq Ids
  BY DEF TypeOK, Added
<1> QED BY <1>2, <1>3, FS_Subset

LEMMA InitA == Init => AInv
<1> SUFFICES ASSUME Init PROVE AInv
  OBVIOUS
<1>1. TypeOK
  <2>1. mItems \in Seq(Contents)
    BY DEF Init
  <2>2. DOMAIN mModifications = {}
    BY DEF Init
  <2>3. mModifications \in [DOMAIN mModifications -> Contents \cup {Invalid}]
    BY DEF Init
  <2> QED BY <2>1, <2>2, <2>3 DEF Init, TypeOK
<1>2. Added = {} /\ Cardinality(Added) = 0
  BY FS_EmptySet DEF Init, Added
<1> QED BY <1>1, <1>2 DEF Init, AInv, AddedInRange, AddedAreValid

\* The archive is filled with the items of a file.
Filled ==
  /\ mNextId = 0 /\ mItems = <<>> /\ mItems' \in Seq(Contents) /\ opened' = TRUE
  /\ UNCHANGED <<mModifications, mAddedItems, mNextId>>

LEMMA AddItemsFill == OpenedFirst /\ AInv /\ addItems => Filled
<1> SUFFICES ASSUME OpenedFirst, AInv, addItems PROVE Filled
  OBVIOUS
<1>1. mNextId = 0 /\ mItems = <<>> /\ opened' = TRUE
      /\ UNCHANGED <<mModifications, mAddedItems, mNextId>>
  BY DEF OpenedFirst, addItems, AInv
<1>2. PICK n \in 0 .. MaxItems : mItems' \in [1 .. n -> Contents]
  BY DEF addItems
<1>3. mItems' \in Seq(Contents)
  BY <1>2, ArchiveAssumption
<1> QED BY <1>1, <1>3 DEF Filled

LEMMA OpenFills == OpenedFirst /\ AInv /\ open => Filled
<1> SUFFICES ASSUME OpenedFirst, AInv, open PROVE Filled
  OBVIOUS
<1>1. mNextId = 0 /\ mItems = <<>> /\ opened' = TRUE
      /\ UNCHANGED <<mModifications, mAddedItems, mNextId>> /\ mItems' = Append(mItems, Opened)
  BY DEF OpenedFirst, open, openVars, AInv
<1>2. mItems' \in Seq(Contents)
  BY <1>1, GzipAssumption
<1> QED BY <1>1, <1>2 DEF Filled

LEMMA FilledA ==
  ASSUME AInv, Filled
  PROVE  AInv' /\ mModifications = [id \in {} |-> Invalid]
<1>1. mNextId = 0 /\ mItems = <<>> /\ opened' = TRUE
      /\ UNCHANGED <<mModifications, mAddedItems, mNextId>>
  BY DEF Filled
<1>3. mItems' \in Seq(Contents)
  BY DEF Filled
<1>4. DOMAIN mModifications = {}
  <2>1. Added = {}
    BY <1>1 DEF AInv, AddedInRange
  <2>2. Originals = {}
    BY <1>1 DEF Originals
  <2> QED BY <2>1, <2>2 DEF Added
<1>5. Added = {} /\ Added' = {}
  BY <1>1, <1>4 DEF Added
<1>6. TypeOK'
  BY <1>1, <1>3 DEF AInv, TypeOK, Ids
<1>7. mModifications = [id \in {} |-> Invalid]
  BY <1>4 DEF AInv, TypeOK
<1>8. AddedInRange' /\ AddedAreValid'
  BY <1>1, <1>5 DEF AddedInRange, AddedAreValid
<1>9. mAddedItems' = Cardinality(Added')
  BY <1>1, <1>5 DEF AInv
<1> QED BY <1>1, <1>6, <1>7, <1>8, <1>9 DEF AInv

LEMMA ReplaceA ==
  ASSUME AInv, NEW id \in Ids, NEW it \in Contents, replaceItem(id, it)
  PROVE  AInv'
<1>1. /\ mModifications' = Inserted(id, it) /\ id \in DOMAIN mModifications \cup Originals
      /\ UNCHANGED <<mItems, mAddedItems, mNextId, opened>>
  BY DEF replaceItem, Exists
<1>2. DOMAIN mModifications' = DOMAIN mModifications \cup {id} /\ Originals' = Originals
  BY <1>1 DEF Inserted, Originals
<1>3. Added' = Added
  BY <1>1, <1>2 DEF Added
<1>4. TypeOK'
  BY <1>1, <1>2 DEF AInv, TypeOK, Inserted, Ids
<1>5. AddedAreValid'
  BY <1>1, <1>3, ArchiveAssumption DEF AInv, AddedAreValid, Inserted, Added
<1> QED BY <1>1, <1>3, <1>4, <1>5 DEF AInv, AddedInRange

LEMMA DeleteA ==
  ASSUME AInv, NEW id \in Ids, deleteItem(id)
  PROVE  AInv'
<1>1. id \in DOMAIN mModifications \cup Originals /\ UNCHANGED <<mItems, mNextId, opened>>
      /\ Originals' = Originals
  BY DEF deleteItem, Exists, Originals
<1>2. CASE id \in Originals
  <2>1. mModifications' = Inserted(id, Invalid) /\ UNCHANGED mAddedItems
    BY <1>2 DEF deleteItem
  <2>2. DOMAIN mModifications' = DOMAIN mModifications \cup {id}
    BY <2>1 DEF Inserted
  <2>3. Added' = Added
    BY <1>1, <1>2, <2>2 DEF Added
  <2>4. TypeOK'
    BY <1>1, <2>1, <2>2 DEF AInv, TypeOK, Inserted, Ids
  <2>5. AddedAreValid'
    BY <1>2, <2>1, <2>3 DEF AInv, AddedAreValid, Inserted, Added
  <2> QED BY <1>1, <2>1, <2>3, <2>4, <2>5 DEF AInv, AddedInRange
<1>3. CASE id \notin Originals
  <2>1. mModifications' = Removed(id) /\ mAddedItems' = mAddedItems - 1
    BY <1>3 DEF deleteItem
  <2>2. DOMAIN mModifications' = DOMAIN mModifications \ {id} /\ id \in Added
    BY <1>1, <1>3, <2>1 DEF Removed, Added
  <2>3. Added' = Added \ {id}
    BY <1>1, <2>2 DEF Added
  <2>4. Cardinality(Added') = Cardinality(Added) - 1 /\ Cardinality(Added) \in Nat
        /\ Cardinality(Added') \in Nat
    BY <2>2, <2>3, Finite, FS_RemoveElement, FS_CardinalityType DEF AInv
  <2>5. TypeOK'
    BY <1>1, <2>1, <2>2, <2>4 DEF AInv, TypeOK, Removed, Ids
  <2>6. AddedAreValid'
    BY <2>1, <2>3 DEF AInv, AddedAreValid, Removed, Added
  <2> QED BY <1>1, <2>1, <2>2, <2>3, <2>4, <2>5, <2>6 DEF AInv, AddedInRange
<1> QED BY <1>2, <1>3

\* A new identifier is none that ever was.
LEMMA NewIdIsNew ==
  ASSUME AInv
  PROVE  NewId = Bound /\ NewId \in Nat /\ NewId \notin DOMAIN mModifications \cup Originals
         /\ Len(mItems) <= NewId
<1>1. mNextId \in Nat /\ Len(mItems) \in Nat
  BY DEF AInv, TypeOK
<1>2. CASE mNextId = 0
  <2>1. Added = {} /\ mAddedItems = 0
    BY <1>2, FS_EmptySet DEF AInv, AddedInRange
  <2> QED BY <1>1, <1>2, <2>1 DEF NewId, count, Bound, Added, Originals
<1>3. CASE mNextId # 0
  <2>1. mNextId > 0
    BY <1>1, <1>3
  <2> QED BY <1>1, <1>3, <2>1 DEF NewId, Bound, AInv, AddedInRange, Added, Originals
<1> QED BY <1>2, <1>3

LEMMA AppendA ==
  ASSUME AInv, NEW it \in Contents, appendItem(it)
  PROVE  AInv'
<1>1. /\ NewId <= MaxId /\ mNextId' = NewId + 1 /\ mAddedItems' = mAddedItems + 1
      /\ mModifications' = Inserted(NewId, it) /\ UNCHANGED <<mItems, opened>>
      /\ Originals' = Originals
  BY DEF appendItem, Originals
<1>2. NewId \in Nat /\ NewId \notin DOMAIN mModifications \cup Originals
      /\ Len(mItems) <= NewId /\ Len(mItems) \in Nat /\ mNextId \in Nat
  BY NewIdIsNew DEF AInv, TypeOK
<1>3. DOMAIN mModifications' = DOMAIN mModifications \cup {NewId} /\ NewId \in Ids
  BY <1>1, <1>2, ArchiveAssumption DEF Inserted, Ids
<1>4. Added' = Added \cup {NewId} /\ NewId \notin Added
  BY <1>1, <1>2, <1>3 DEF Added
<1>5. Cardinality(Added') = Cardinality(Added) + 1
  BY <1>4, Finite, FS_AddElement DEF AInv
<1>6. TypeOK'
  BY <1>1, <1>2, <1>3 DEF AInv, TypeOK, Inserted
<1>7. \A id \in Added : id < NewId /\ id \in Nat
  <2>1. CASE mNextId = 0
    BY <2>1 DEF AInv, AddedInRange
  <2>2. CASE mNextId # 0
    BY <2>2 DEF AInv, AddedInRange, NewId, TypeOK, Added, Ids
  <2> QED BY <2>1, <2>2
<1>8. AddedInRange'
  BY <1>1, <1>2, <1>4, <1>7 DEF AddedInRange
<1>9. AddedAreValid'
  BY <1>1, <1>2, <1>4, ArchiveAssumption DEF AInv, AddedAreValid, Inserted, Added
<1> QED BY <1>1, <1>5, <1>6, <1>8, <1>9 DEF AInv

LEMMA StepA == OpenedFirst /\ AInv /\ [Next]_vars => AInv'
<1> SUFFICES ASSUME OpenedFirst, AInv, [Next]_vars PROVE AInv'
  OBVIOUS
<1>1. CASE addItems
  BY <1>1, AddItemsFill, FilledA
<1>2. ASSUME NEW id \in Ids, NEW it \in Contents, replaceItem(id, it) PROVE AInv'
  BY <1>2, ReplaceA
<1>3. ASSUME NEW id \in Ids, deleteItem(id) PROVE AInv'
  BY <1>3, DeleteA
<1>4. ASSUME NEW it \in Contents, appendItem(it) PROVE AInv'
  BY <1>4, AppendA
<1>5. CASE UNCHANGED vars
  BY <1>5 DEF vars, AInv, TypeOK, AddedInRange, AddedAreValid, Added, Originals
<1> QED BY <1>1, <1>2, <1>3, <1>4, <1>5 DEF Next

\* A gzip archive changes its items when it is opened, and otherwise as any archive does.
LEMMA OnlyTheseEdit == [GzNext]_allVars => open \/ [Next]_vars
<1> SUFFICES ASSUME [GzNext]_allVars PROVE open \/ [Next]_vars
  OBVIOUS
<1>1. CASE edit
  BY <1>1 DEF edit, Next
<1>2. ASSUME NEW x \in Ids, extractTo(x) PROVE UNCHANGED vars
  BY <1>2 DEF extractTo
<1>3. CASE openFails
  BY <1>3 DEF openFails, openVars, vars
<1>4. CASE extractFails \/ extractBegins \/ streamBegins
  BY <1>4 DEF extractFails, extractBegins, streamBegins
<1>5. CASE readSome \/ readFails \/ putUnit
  BY <1>5 DEF readSome, readFails, putUnit
<1>6. CASE writeErrorSeen \/ stopSingle \/ streamEnds \/ report
  BY <1>6 DEF writeErrorSeen, stopSingle, streamEnds, report
<1>7. CASE interruptCodec \/ interruptFlag
  BY <1>7 DEF interruptCodec, interruptFlag
<1>8. CASE UNCHANGED allVars
  BY <1>8 DEF allVars
<1> QED BY <1>1, <1>2, <1>3, <1>4, <1>5, <1>6, <1>7, <1>8 DEF GzNext

\* The invariant of an archive that is opened before it is edited.
EInv == EditsBeforeOpen = FALSE => AInv

LEMMA GzStepA == EInv /\ [GzNext]_allVars => EInv'
<1> SUFFICES ASSUME EInv, [GzNext]_allVars PROVE EInv'
  OBVIOUS
<1>1. CASE [Next]_vars
  BY <1>1, StepA DEF EInv, OpenedFirst
<1>2. CASE open
  BY <1>2, OpenFills, FilledA DEF EInv, OpenedFirst
<1> QED BY <1>1, <1>2, OnlyTheseEdit

\* Identifiers and the number of items stay consistent, whatever is edited in which order,
\* in an archive of any kind.
THEOREM AInvariant == Spec => []EInv
<1>1. Init => EInv
  BY InitA DEF EInv
<1>2. EInv /\ [Next]_vars => EInv'
  BY StepA DEF EInv, OpenedFirst
<1> QED BY <1>1, <1>2, PTL DEF Spec

\* The same of a gzip archive.
THEOREM GzAInvariant == GzSpec => []EInv
<1>1. GzInit => EInv
  BY InitA DEF EInv, GzInit
<1> QED BY <1>1, GzStepA, PTL DEF GzSpec

-----------------------------------------------------------------------------
\* The variables have their types: what is deleted is no longer counted, and the number of
\* added items never wraps around.
THEOREM TypeCorrect == Spec => [](EditsBeforeOpen = FALSE => TypeOK)
<1>1. EInv => (EditsBeforeOpen = FALSE => TypeOK)
  BY DEF EInv, AInv
<1> QED BY <1>1, AInvariant, PTL

LEMMA CountsA == AInv => CountIsItems
<1> SUFFICES ASSUME AInv PROVE CountIsItems
  OBVIOUS
<1>1. IsFiniteSet(Added) /\ IsFiniteSet(Originals)
  BY Finite DEF AInv
<1>2. Cardinality(Originals) = Len(mItems) /\ Len(mItems) \in Nat
  <2>1. Len(mItems) \in Nat
    BY DEF AInv, TypeOK
  <2>2. Cardinality(0 .. Len(mItems) - 1)
          = IF 0 > Len(mItems) - 1 THEN 0 ELSE (Len(mItems) - 1) - 0 + 1
    BY <2>1, FS_Interval
  <2> QED BY <2>1, <2>2 DEF Originals
<1>3. Originals \cup DOMAIN mModifications = Originals \cup Added
      /\ Originals \cap Added = {}
  BY DEF Added
<1>4. Cardinality(Originals \cup Added)
        = Cardinality(Originals) + Cardinality(Added) - Cardinality({})
  BY <1>1, <1>3, FS_Union
<1>5. Cardinality(Added) \in Nat /\ Cardinality({}) = 0
  BY <1>1, FS_CardinalityType, FS_EmptySet
<1>6. Cardinality(Originals \cup Added) = Len(mItems) + Cardinality(Added)
  BY <1>2, <1>4, <1>5
<1>7. mAddedItems = Cardinality(Added)
  BY DEF AInv
<1> QED BY <1>3, <1>6, <1>7 DEF CountIsItems, count

-----------------------------------------------------------------------------
(* The archive implements ItemEdits *)

LEMMA InitE == Init => Edits!Init
<1> SUFFICES ASSUME Init PROVE Edits!Init
  OBVIOUS
<1>1. mItems = <<>> /\ DOMAIN mModifications = {} /\ mNextId = 0
  BY DEF Init
<1>2. Originals = {}
  BY <1>1 DEF Originals
<1>3. Live = {}
  BY <1>1, <1>2 DEF Live
<1> QED BY <1>1, <1>2, <1>3 DEF Edits!Init

LEMMA FilledE ==
  ASSUME AInv, Filled
  PROVE  Edits!Open
<1>1. AInv' /\ mModifications = [id \in {} |-> Invalid] /\ mNextId = 0 /\ mItems = <<>>
      /\ mModifications' = mModifications /\ mNextId' = 0
  BY FilledA DEF Filled
<1>2. mItems' \in Seq(Contents) /\ Len(mItems') \in Nat
  BY <1>1 DEF AInv, TypeOK
<1>3. \A id \in Originals' : item(id)' = mItems'[id + 1] /\ mItems'[id + 1] \in Contents
  BY <1>1, <1>2 DEF item, Originals
<1>4. Live' = Originals'
  BY <1>1, <1>3, ArchiveAssumption DEF Live
<1>5. Originals' = 0 .. Len(mItems') - 1
  BY DEF Originals
<1> QED BY <1>1, <1>2, <1>3, <1>4, <1>5 DEF Edits!Open

\* An identifier that item() knows was given to an item.
LEMMA KnownAreTaken ==
  ASSUME AInv, NEW id \in DOMAIN mModifications \cup Originals
  PROVE  id \in 0 .. Bound - 1
<1>1. mNextId \in Nat /\ Len(mItems) \in Nat /\ MaxId \in Nat
  BY ArchiveAssumption DEF AInv, TypeOK
<1>2. CASE id \in Originals
  BY <1>1, <1>2 DEF Bound, Originals, AInv, AddedInRange
<1>3. CASE id \notin Originals
  <2>1. id \in Added /\ id \in Ids
    BY <1>3 DEF Added, AInv, TypeOK
  <2>2. mNextId # 0 /\ id < mNextId
    BY <2>1 DEF AInv, AddedInRange
  <2> QED BY <1>1, <2>1, <2>2 DEF Bound, Ids
<1> QED BY <1>2, <1>3

LEMMA ReplaceE ==
  ASSUME AInv, NEW id \in Ids, NEW it \in Contents, replaceItem(id, it)
  PROVE  \E x \in 0 .. Bound - 1 : Edits!Replace(x, it)
<1>1. /\ mModifications' = Inserted(id, it) /\ id \in DOMAIN mModifications \cup Originals
      /\ UNCHANGED <<mItems, mNextId>> /\ Originals' = Originals
  BY DEF replaceItem, Exists, Originals
<1>2. DOMAIN mModifications' = DOMAIN mModifications \cup {id}
  BY <1>1 DEF Inserted
<1>3. \A x : item(x)' = IF x = id THEN it ELSE item(x)
  BY <1>1, <1>2 DEF item, Inserted
<1>4. Live' = Live \cup {id}
  BY <1>1, <1>2, <1>3, ArchiveAssumption DEF Live
<1>5. id \in Live \cup Originals
  BY <1>1 DEF AInv, AddedAreValid, Added, Live, item
<1>6. id \in 0 .. Bound - 1
  BY <1>1, KnownAreTaken
<1>7. Edits!Replace(id, it)
  BY <1>1, <1>3, <1>4, <1>5 DEF Edits!Replace, Edits!With
<1> QED BY <1>6, <1>7

LEMMA DeleteE ==
  ASSUME AInv, NEW id \in Ids, deleteItem(id)
  PROVE  \E x \in 0 .. Bound - 1 : Edits!Delete(x)
<1>1. id \in DOMAIN mModifications \cup Originals /\ UNCHANGED <<mItems, mNextId>>
      /\ Originals' = Originals
  BY DEF deleteItem, Exists, Originals
<1>2. /\ \A x \in Live \ {id} : x \in Live' /\ item(x)' = item(x)
      /\ Live' = Live \ {id}
  <2>1. CASE id \in Originals
    <3>1. mModifications' = Inserted(id, Invalid)
      BY <2>1 DEF deleteItem
    <3>2. DOMAIN mModifications' = DOMAIN mModifications \cup {id}
      BY <3>1 DEF Inserted
    <3>3. \A x : item(x)' = IF x = id THEN Invalid ELSE item(x)
      BY <1>1, <3>1, <3>2 DEF item, Inserted
    <3> QED BY <1>1, <3>2, <3>3 DEF Live
  <2>2. CASE id \notin Originals
    <3>1. mModifications' = Removed(id)
      BY <2>2 DEF deleteItem
    <3>2. DOMAIN mModifications' = DOMAIN mModifications \ {id}
      BY <3>1 DEF Removed
    <3>3. \A x : x # id => item(x)' = item(x)
      BY <1>1, <3>1, <3>2 DEF item, Removed
    <3> QED BY <1>1, <2>2, <3>2, <3>3 DEF Live
  <2> QED BY <2>1, <2>2
<1>3. id \in Live \cup Originals
  BY <1>1 DEF AInv, AddedAreValid, Added, Live, item
<1>4. id \in 0 .. Bound - 1
  BY <1>1, KnownAreTaken
<1>5. Edits!Delete(id)
  BY <1>1, <1>2, <1>3 DEF Edits!Delete
<1> QED BY <1>4, <1>5

LEMMA AppendE ==
  ASSUME AInv, NEW it \in Contents, appendItem(it)
  PROVE  Bound \in (0 .. Bound - 1)' /\ Edits!Append(Bound, it)
<1>1. /\ mNextId' = Bound + 1 /\ mModifications' = Inserted(Bound, it)
      /\ UNCHANGED mItems /\ Originals' = Originals
      /\ Bound \in Nat /\ Bound \notin DOMAIN mModifications \cup Originals
  BY NewIdIsNew DEF appendItem, Originals
<1>2. DOMAIN mModifications' = DOMAIN mModifications \cup {Bound}
  BY <1>1 DEF Inserted
<1>3. \A x : item(x)' = IF x = Bound THEN it ELSE item(x)
  BY <1>1, <1>2 DEF item, Inserted
<1>4. Live' = Live \cup {Bound}
  BY <1>1, <1>2, <1>3, ArchiveAssumption DEF Live
<1>5. Bound' = Bound + 1
  <2>1. mNextId' # 0
    BY <1>1
  <2> QED BY <1>1, <2>1 DEF Bound
<1>6. (0 .. Bound - 1)' = (0 .. Bound - 1) \cup {Bound} /\ \A x \in 0 .. Bound - 1 : x < Bound
  BY <1>1, <1>5
<1>7. Edits!Append(Bound, it)
  BY <1>1, <1>3, <1>4, <1>6 DEF Edits!Append, Edits!With, Bound
<1> QED BY <1>6, <1>7

LEMMA StepE ==
  EditsBeforeOpen = FALSE /\ AInv /\ [Next]_vars => [Edits!Next]_(Edits!vars)
<1> SUFFICES ASSUME OpenedFirst, AInv, [Next]_vars PROVE [Edits!Next]_(Edits!vars)
  BY DEF OpenedFirst
<1>1. CASE addItems
  BY <1>1, AddItemsFill, FilledE DEF Edits!Next
<1>2. ASSUME NEW id \in Ids, NEW it \in Contents, replaceItem(id, it) PROVE Edits!Next
  BY <1>2, ReplaceE DEF Edits!Next, Bound
<1>3. ASSUME NEW id \in Ids, deleteItem(id) PROVE Edits!Next
  BY <1>3, DeleteE DEF Edits!Next, Bound
<1>4. ASSUME NEW it \in Contents, appendItem(it) PROVE Edits!Next
  BY <1>4, AppendE DEF Edits!Next, Bound
<1>5. CASE UNCHANGED vars
  BY <1>5 DEF vars, Edits!vars, Live, Originals, item
<1> QED BY <1>1, <1>2, <1>3, <1>4, <1>5 DEF Next

\* An archive that is opened before it is edited does what ItemEdits promises: an item
\* keeps its identifier, edits of others leave it alone, and appendItem() never gives
\* an identifier a second time.
THEOREM ImplementsItemEdits == EditsBeforeOpen = FALSE /\ Spec => IsItemEdits
<1>1. EditsBeforeOpen = FALSE => (EditsBeforeOpen = FALSE)'
  OBVIOUS
<1>2. EditsBeforeOpen = FALSE /\ EInv => AInv
  BY DEF EInv
<1> QED BY <1>1, <1>2, AInvariant, InitE, StepE, PTL DEF Spec, IsItemEdits, Edits!Spec

-----------------------------------------------------------------------------
(* The items that are to be written *)

\* How many of some identifiers come up to one.
Rank(S, id) == Cardinality({x \in S : x <= id})

LEMMA RankLemma ==
  ASSUME NEW S \in SUBSET Int, IsFiniteSet(S)
  PROVE  /\ Cardinality(S) \in Nat
         /\ \A id \in S : Rank(S, id) \in 1 .. Cardinality(S)
         /\ \A x, y \in S : x < y => Rank(S, x) < Rank(S, y)
<1>1. Cardinality(S) \in Nat
  BY FS_CardinalityType
<1>2. ASSUME NEW id \in S
      PROVE  /\ {x \in S : x <= id} \subseteq S /\ IsFiniteSet({x \in S : x <= id})
             /\ Rank(S, id) \in 1 .. Cardinality(S)
  <2> DEFINE U == {x \in S : x <= id}
  <2>1. U \subseteq S /\ IsFiniteSet(U) /\ Cardinality(U) \in Nat
        /\ Cardinality(U) <= Cardinality(S)
    BY FS_Subset, FS_CardinalityType
  <2>2. id \in U
    OBVIOUS
  <2>3. Cardinality(U) # 0
    BY <2>1, <2>2, FS_EmptySet
  <2> QED BY <1>1, <2>1, <2>3 DEF Rank
<1>3. ASSUME NEW x \in S, NEW y \in S, x < y
      PROVE  Rank(S, x) < Rank(S, y)
  <2> DEFINE U == {z \in S : z <= x}
             V == {z \in S : z <= y}
  <2>1. x \in Int /\ y \in Int /\ ~(y <= x) /\ \A z \in S : z <= x => z <= y
    <3>1. \A z \in S : z \in Int
      OBVIOUS
    <3> QED BY <1>3, <3>1
  <2>2. U \subseteq V /\ y \in V /\ y \notin U
    <3>1. y <= y
      BY <2>1
    <3> QED BY <2>1, <3>1, Zenon
  <2>3. IsFiniteSet(V) /\ U # V
    BY <1>2, <2>2
  <2>4. Cardinality(U) <= Cardinality(V) /\ Cardinality(U) # Cardinality(V)
        /\ Cardinality(U) \in Int /\ Cardinality(V) \in Int
    <3> HIDE DEF U, V
    <3>1. IsFiniteSet(U) /\ Cardinality(U) <= Cardinality(V)
          /\ (Cardinality(V) = Cardinality(U) => V = U)
      BY <2>2, <2>3, FS_Subset
    <3>2. Cardinality(U) \in Nat /\ Cardinality(V) \in Nat
      BY <2>3, <3>1, FS_CardinalityType
    <3> QED BY <2>3, <3>1, <3>2
  <2>5. Cardinality(U) < Cardinality(V)
    <3> HIDE DEF U, V
    <3> QED BY <2>4
  <2> QED BY <2>5 DEF Rank
<1> QED BY <1>1, <1>2, <1>3

\* An identifier is found by its place among all of them.
LEMMA ListedLemma ==
  ASSUME NEW S \in SUBSET Int, IsFiniteSet(S)
  PROVE  /\ Listed(S) \in Seq({Listed(S)[k] : k \in 1 .. Cardinality(S)})
         /\ Len(Listed(S)) = Cardinality(S)
         /\ \A id \in S : Listed(S)[Rank(S, id)] = item(id)
<1>1. Cardinality(S) \in Nat
  BY RankLemma
<1>2. ASSUME NEW id \in S
      PROVE  (CHOOSE x \in S : Rank(S, x) = Rank(S, id)) = id
  <2> DEFINE y == CHOOSE x \in S : Rank(S, x) = Rank(S, id)
  <2>1. y \in S /\ Rank(S, y) = Rank(S, id)
    OBVIOUS
  <2> HIDE DEF y
  <2>2. Rank(S, id) \in Int /\ y \in Int /\ id \in Int
    BY <2>1, RankLemma
  <2>3. ~(y < id)
    <3>1. SUFFICES ASSUME y < id PROVE FALSE
      OBVIOUS
    <3>2. Rank(S, y) < Rank(S, id)
      BY <2>1, <3>1, RankLemma
    <3> QED BY <2>1, <2>2, <3>2
  <2>4. ~(id < y)
    <3>1. SUFFICES ASSUME id < y PROVE FALSE
      OBVIOUS
    <3>2. Rank(S, id) < Rank(S, y)
      BY <2>1, <3>1, RankLemma
    <3> QED BY <2>1, <2>2, <3>2
  <2>5. y = id
    BY <2>2, <2>3, <2>4
  <2> QED BY <2>5 DEF y
<1>3. Listed(S) = [k \in 1 .. Cardinality(S) |-> item(CHOOSE id \in S : Rank(S, id) = k)]
  BY DEF Listed, Rank
<1>4. \A id \in S : Listed(S)[Rank(S, id)] = item(id)
  <2>1. SUFFICES ASSUME NEW id \in S PROVE Listed(S)[Rank(S, id)] = item(id)
    OBVIOUS
  <2>2. Rank(S, id) \in 1 .. Cardinality(S)
    BY RankLemma
  <2>3. Listed(S)[Rank(S, id)] = item(CHOOSE x \in S : Rank(S, x) = Rank(S, id))
    BY <1>3, <2>2
  <2> QED BY <1>2, <2>3
<1>5. Listed(S) \in [1 .. Cardinality(S) -> {Listed(S)[k] : k \in 1 .. Cardinality(S)}]
  BY <1>3
<1>6. Listed(S) \in Seq({Listed(S)[k] : k \in 1 .. Cardinality(S)})
      /\ Len(Listed(S)) = Cardinality(S)
  <2> DEFINE X == {Listed(S)[k] : k \in 1 .. Cardinality(S)}
  <2>1. Listed(S) \in [1 .. Cardinality(S) -> X]
    BY <1>5
  <2> HIDE DEF X
  <2>2. Listed(S) \in Seq(X) /\ Len(Listed(S)) = Cardinality(S)
    BY <1>1, <2>1
  <2> QED BY <2>2 DEF X
<1> QED BY <1>4, <1>6

\* Places among a set that lies behind another.
LEMMA RankBehind ==
  ASSUME NEW S \in SUBSET Int, NEW R \in SUBSET Int, IsFiniteSet(S), IsFiniteSet(R),
         \A x \in S, y \in R : x < y
  PROVE  /\ IsFiniteSet(S \cup R)
         /\ Cardinality(S \cup R) = Cardinality(S) + Cardinality(R)
         /\ \A x \in S : Rank(S \cup R, x) = Rank(S, x)
         /\ \A y \in R : Rank(S \cup R, y) = Cardinality(S) + Rank(R, y)
<1>1. \A z \in S \cup R : z \in Int
  OBVIOUS
<1>2. ASSUME NEW T \in SUBSET R
      PROVE  /\ IsFiniteSet(S \cup T)
             /\ Cardinality(S \cup T) = Cardinality(S) + Cardinality(T)
  <2>1. S \cap T = {}
    <3>1. ASSUME NEW z \in S, z \in T PROVE FALSE
      <4>1. z < z /\ z \in Int
        BY <3>1
      <4> QED BY <4>1
    <3> QED BY <3>1
  <2>2. IsFiniteSet(T)
    BY FS_Subset
  <2>3. Cardinality(S \cup T) = Cardinality(S) + Cardinality(T) - Cardinality({})
        /\ IsFiniteSet(S \cup T)
    BY <2>1, <2>2, FS_Union
  <2>4. Cardinality(S) \in Int /\ Cardinality(T) \in Int /\ Cardinality({}) = 0
    BY <2>2, FS_CardinalityType, FS_EmptySet
  <2> QED BY <2>3, <2>4
<1>3. ASSUME NEW x \in S
      PROVE  Rank(S \cup R, x) = Rank(S, x)
  <2>1. \A y \in R : ~(y <= x)
    BY <1>1
  <2>2. {z \in S \cup R : z <= x} = {z \in S : z <= x}
    BY <2>1
  <2> QED BY <2>2 DEF Rank
<1>4. ASSUME NEW y \in R
      PROVE  Rank(S \cup R, y) = Cardinality(S) + Rank(R, y)
  <2>1. \A x \in S : x <= y
    BY <1>1
  <2>2. {z \in S \cup R : z <= y} = S \cup {z \in R : z <= y}
    BY <2>1
  <2>3. {z \in R : z <= y} \in SUBSET R
    OBVIOUS
  <2> QED BY <1>2, <2>2, <2>3 DEF Rank
<1> QED BY <1>2, <1>3, <1>4

LEMMA NormalizedA == AInv => NormalizedIsContents
<1> SUFFICES ASSUME AInv PROVE NormalizedIsContents
  OBVIOUS
<1> DEFINE Old == {id \in Originals : item(id) # Invalid}
<1>1. Live = Old \cup Added
  BY DEF AInv, AddedAreValid, Added, Live, item
<1>2. IsFiniteSet(Added) /\ IsFiniteSet(Old) /\ Added \in SUBSET Int /\ Old \in SUBSET Int
  <2>1. IsFiniteSet(Added) /\ IsFiniteSet(Originals)
    BY Finite DEF AInv
  <2>2. Old \subseteq Originals
    OBVIOUS
  <2>3. Originals \subseteq Int /\ Added \subseteq Int
    BY ArchiveAssumption DEF AInv, TypeOK, Originals, Added, Ids
  <2> QED BY <2>1, <2>2, <2>3, FS_Subset
<1>3. \A x \in Old, y \in Added : x < y
  BY ArchiveAssumption DEF AInv, TypeOK, Originals, Added, Ids
<1> HIDE DEF Old
<1>4. /\ Cardinality(Live) = Cardinality(Old) + Cardinality(Added)
      /\ \A x \in Old : Rank(Live, x) = Rank(Old, x)
      /\ \A y \in Added : Rank(Live, y) = Cardinality(Old) + Rank(Added, y)
  BY <1>1, <1>2, <1>3, RankBehind
<1>5. normalizedItems = Listed(Old) \o Listed(Added)
  BY DEF normalizedItems, NormalizedOld, NormalizedAdded, Old, Added
<1> DEFINE X == {Listed(Old)[k] : k \in 1 .. Cardinality(Old)}
           Y == {Listed(Added)[k] : k \in 1 .. Cardinality(Added)}
<1>6. /\ Listed(Old) \in Seq(X \cup Y) /\ Listed(Added) \in Seq(X \cup Y)
      /\ Len(Listed(Old)) = Cardinality(Old) /\ Len(Listed(Added)) = Cardinality(Added)
      /\ \A id \in Old : Listed(Old)[Rank(Old, id)] = item(id)
      /\ \A id \in Added : Listed(Added)[Rank(Added, id)] = item(id)
  <2>1. /\ Listed(Old) \in Seq(X) /\ Len(Listed(Old)) = Cardinality(Old)
        /\ \A id \in Old : Listed(Old)[Rank(Old, id)] = item(id)
    BY <1>2, ListedLemma
  <2>2. /\ Listed(Added) \in Seq(Y) /\ Len(Listed(Added)) = Cardinality(Added)
        /\ \A id \in Added : Listed(Added)[Rank(Added, id)] = item(id)
    BY <1>2, ListedLemma
  <2> HIDE DEF X, Y
  <2>3. Listed(Old) \in Seq(X \cup Y) /\ Listed(Added) \in Seq(X \cup Y)
    BY <2>1, <2>2, SeqMonotonic
  <2> QED BY <2>1, <2>2, <2>3
<1> HIDE DEF X, Y
<1>7. /\ Cardinality(Old) \in Nat /\ Cardinality(Added) \in Nat
      /\ \A id \in Old : Rank(Old, id) \in 1 .. Cardinality(Old)
      /\ \A id \in Added : Rank(Added, id) \in 1 .. Cardinality(Added)
  BY <1>2, RankLemma
<1>8. /\ Len(normalizedItems) = Cardinality(Old) + Cardinality(Added)
      /\ \A k \in 1 .. Cardinality(Old) : normalizedItems[k] = Listed(Old)[k]
      /\ \A k \in 1 .. Cardinality(Added) :
           normalizedItems[Cardinality(Old) + k] = Listed(Added)[k]
  <2> DEFINE s == Listed(Old)
             t == Listed(Added)
  <2>1. s \in Seq(X \cup Y) /\ t \in Seq(X \cup Y) /\ Len(s) \in Nat /\ Len(t) \in Nat
    BY <1>6, LenProperties
  <2> HIDE DEF s, t
  <2>2. /\ Len(s \o t) = Len(s) + Len(t)
        /\ \A k \in 1 .. Len(s) : (s \o t)[k] = s[k]
    BY <2>1
  <2>3. ASSUME NEW k \in 1 .. Len(t)
        PROVE  (s \o t)[Len(s) + k] = t[k]
    BY <2>1
  <2> QED BY <1>5, <1>6, <2>2, <2>3 DEF s, t
<1>9. ASSUME NEW id \in Live
      PROVE  normalizedItems[Rank(Live, id)] = item(id)
  <2>1. CASE id \in Old
    BY <1>4, <1>6, <1>7, <1>8, <2>1
  <2>2. CASE id \in Added
    BY <1>4, <1>6, <1>7, <1>8, <2>2
  <2> QED BY <1>1, <2>1, <2>2
<1>10. Len(normalizedItems) = Cardinality(Live)
  BY <1>4, <1>8
<1> QED BY <1>9, <1>10 DEF NormalizedIsContents, Rank

\* count() is the number of identifiers that item() knows, and what is to be written are
\* all items that are not deleted, each once and in the order of their identifiers, after
\* any edits.
THEOREM ContentsCorrect == Spec => [](EditsBeforeOpen = FALSE => CountAndContents)
<1>1. EInv => (EditsBeforeOpen = FALSE => CountAndContents)
  BY CountsA, NormalizedA DEF EInv, CountAndContents
<1> QED BY <1>1, AInvariant, PTL

-----------------------------------------------------------------------------
(* Gzip archives are such archives *)

\* All that is proved of edits holds of a gzip archive, too, with its calls of
\* extractTo() and interrupts between the edits: count() is the number of identifiers,
\* and what is to be written are the items that are not deleted.
THEOREM GzCounts == GzSpec => [](EditsBeforeOpen = FALSE => CountAndContents)
<1>1. EInv => (EditsBeforeOpen = FALSE => CountAndContents)
  BY CountsA, NormalizedA DEF EInv, CountAndContents
<1> QED BY <1>1, GzAInvariant, PTL

\* A gzip archive does what ItemEdits promises: opening it is one of the ways to fill it.
THEOREM GzImplementsItemEdits == EditsBeforeOpen = FALSE /\ GzSpec => IsItemEdits
<1>1. EditsBeforeOpen = FALSE => (EditsBeforeOpen = FALSE)'
  OBVIOUS
<1>2. EditsBeforeOpen = FALSE /\ EInv => AInv
  BY DEF EInv
<1>3. GzInit => Edits!Init
  BY InitE DEF GzInit
<1>4. EditsBeforeOpen = FALSE /\ AInv /\ [GzNext]_allVars => [Edits!Next]_(Edits!vars)
  <2> SUFFICES ASSUME OpenedFirst, AInv, [GzNext]_allVars PROVE [Edits!Next]_(Edits!vars)
    BY DEF OpenedFirst
  <2>1. CASE open
    BY <2>1, OpenFills, FilledE DEF Edits!Next
  <2>2. CASE [Next]_vars
    BY <2>2, StepE DEF OpenedFirst
  <2> QED BY <2>1, <2>2, OnlyTheseEdit
<1> QED BY <1>1, <1>2, <1>3, <1>4, GzAInvariant, PTL DEF GzSpec, IsItemEdits, Edits!Spec

-----------------------------------------------------------------------------
(* extractTo() *)

Units == Nat \ {0}

\* What an archive has opened.
FileInv ==
  /\ pos = None => pc = "idle" /\ result = "none"
  /\ pos # None => file \in Files /\ pos \in Nat
  /\ opened /\ pos # None => limit = FileSize(file) - headerSize(file) - 8

\* The first units of the data, and the last window of them.
Prefix(n) == SubSeq(file.decodes, 1, n)
LastWindow(n) == SubSeq(file.decodes, n - RingSize + 1, n)

\* The file and the limited stream are where the decoder is in the data.
Reading ==
  /\ used \in 0 .. Len(file.decodes)
  /\ taken \in Nat /\ used <= taken
  /\ pos = HeaderEnd(file) + taken /\ mBytesLeft = limit - taken

\* A decoder that had no write error has shown and written the same, and the rest is in
\* its window; behind an error, the window is what was shown last.
Writing ==
  /\ analyzed \in Seq(Units) /\ window \in Seq(Units)
  /\ writer = "runs" =>
       /\ ~broken /\ target = analyzed
       /\ analyzed \o window = Prefix(used) /\ Len(window) < RingSize
  /\ writer # "runs" =>
       /\ broken /\ excused
       /\ used >= RingSize /\ analyzed = Prefix(used) /\ window = LastWindow(used)

\* What was shown and written when the decoder says "true": all of it, unless it was
\* interrupted; or, with a part missing in the target, the last window twice.
Ends ==
  /\ analyzed \in Seq(Units)
  /\ ~broken => target = analyzed
  /\ ~excused => analyzed = file.decodes
  /\ broken =>
       /\ WriteErrorsPersist = FALSE
       /\ \E n \in RingSize .. Len(file.decodes) : analyzed = Prefix(n) \o LastWindow(n)

CallInv ==
  /\ pc # "idle" => result = "none" /\ pos # None /\ opened
  /\ pc \in {"begin", "stream"} => ~broken /\ target = <<>>
  /\ pc = "stream" => pos = HeaderEnd(file)
  /\ pc = "decode" => Reading /\ Writing /\ (stopping => excused)
  /\ pc = "report" /\ outcome = "false" => excused \/ file.cut # 0
  /\ pc = "report" /\ outcome = "true" => Ends

\* count() is a number.
CountInv == mItems \in Seq(Contents) /\ mAddedItems \in Int

GInv == CountInv /\ FileInv /\ CallInv /\ IntactIsExtracted

\* The checksum notices a window written twice: not so for data that is one window again
\* and again.
NothingRepeats ==
  \A f \in Files : \A n \in RingSize .. Len(f.decodes) :
    SubSeq(f.decodes, 1, n) \o SubSeq(f.decodes, n - RingSize + 1, n) # f.original

\* Writes that fail go on failing, or the checksum notices that they do not.
NoticesErrors == WriteErrorsPersist = TRUE \/ NothingRepeats

-----------------------------------------------------------------------------
(* Files *)

\* Sizes, and what a file is made of.
LEMMA FileLemma ==
  ASSUME NEW f \in Files
  PROVE  /\ HeaderEnd(f) \in Nat /\ headerSize(f) \in Nat
         /\ headerSize(f) <= HeaderEnd(f)
         /\ DeflateSize(f) = Len(f.decodes) + 1
         /\ FileSize(f) = HeaderEnd(f) + DeflateSize(f) + 8 - f.cut
         /\ FileSize(f) \in Nat /\ f.cut \in Nat
         /\ Len(f.decodes) \in Nat
         /\ f.decodes \in Seq(Units) /\ f.original \in Seq(Units)
<1>1. IsFile(f)
  BY GzipAssumption
<1>2. /\ f.extra \in Nat \cup {None} /\ f.name \in Nat \cup {None}
      /\ f.comment \in Nat \cup {None} /\ f.cut \in 0 .. 8
      /\ f.decodes \in Seq(Units) /\ f.original \in Seq(Units)
  BY <1>1 DEF IsFile, Units
<1>3. Len(f.decodes) \in Nat
  BY <1>2, LenProperties
<1>4. /\ ExtraSize(f) \in Nat /\ CrcSize(f) \in Nat
      /\ \A n \in Nat \cup {None} :
           /\ StringSize(n) \in Nat /\ StringLength(n) \in Nat
           /\ StringLength(n) <= StringSize(n)
  BY <1>2 DEF ExtraSize, CrcSize, StringSize, StringLength, None
<1>5. /\ HeaderEnd(f) \in Nat /\ headerSize(f) \in Nat
      /\ headerSize(f) <= HeaderEnd(f) /\ HeaderEnd(f) >= 10
  <2> DEFINE name == StringSize(f.name)
             comment == StringSize(f.comment)
             nameLength == StringLength(f.name)
             commentLength == StringLength(f.comment)
             extra == ExtraSize(f)
             crcSize == CrcSize(f)
  <2>1. /\ name \in Nat /\ nameLength \in Nat /\ nameLength <= name
        /\ comment \in Nat /\ commentLength \in Nat /\ commentLength <= comment
        /\ extra \in Nat /\ crcSize \in Nat
    BY <1>2, <1>4, Zenon
  <2>2. /\ HeaderEnd(f) = 10 + extra + name + comment + crcSize
        /\ headerSize(f) = 10 + extra + nameLength + commentLength + crcSize
    BY DEF HeaderEnd, headerSize
  <2> HIDE DEF name, comment, nameLength, commentLength, extra, crcSize
  <2> QED BY ONLY <2>1, <2>2
<1>6. DeflateSize(f) = Len(f.decodes) + 1
  BY DEF DeflateSize
<1>7. FileSize(f) = HeaderEnd(f) + DeflateSize(f) + 8 - f.cut
  BY DEF FileSize
<1>8. FileSize(f) \in Nat /\ f.cut \in Nat
  <2> DEFINE end == HeaderEnd(f)
             cut == f.cut
             length == Len(f.decodes)
  <2>1. end \in Nat /\ end >= 10 /\ cut \in 0 .. 8 /\ length \in Nat
        /\ FileSize(f) = end + (length + 1) + 8 - cut
    BY <1>2, <1>3, <1>5, <1>6, <1>7
  <2> HIDE DEF end, cut, length
  <2>2. FileSize(f) \in Nat /\ cut \in Nat
    BY ONLY <2>1
  <2> QED BY <2>2 DEF cut
<1> QED BY <1>2, <1>3, <1>5, <1>6, <1>7, <1>8

-----------------------------------------------------------------------------
(* Sequences of units *)

\* The units up to one more.
LEMMA PrefixAppend ==
  ASSUME file \in Files, NEW a \in Seq(Units), NEW w \in Seq(Units),
         NEW n \in Nat, n < Len(file.decodes), a \o w = Prefix(n)
  PROVE  /\ Append(w, file.decodes[n + 1]) \in Seq(Units)
         /\ Len(Append(w, file.decodes[n + 1])) = Len(w) + 1
         /\ a \o Append(w, file.decodes[n + 1]) = Prefix(n + 1)
<1> DEFINE d == file.decodes
           x == d[n + 1]
<1>1. d \in Seq(Units) /\ Len(d) \in Nat
  BY FileLemma
<1>2. n + 1 \in 1 .. Len(d) /\ x \in Units
  <2>1. n + 1 \in 1 .. Len(d)
    BY <1>1
  <2> QED BY <1>1, <2>1, ElementOfSeq
<1> HIDE DEF x
<1>3. Append(w, x) \in Seq(Units) /\ Len(Append(w, x)) = Len(w) + 1
  BY <1>2, AppendProperties
<1>4. a \o Append(w, x) = Append(a \o w, x)
  BY <1>2
<1>5. Append(SubSeq(d, 1, n), x) = SubSeq(d, 1, n + 1)
  <2>1. SubSeq(d, 1, n) \in Seq(Units) /\ Len(SubSeq(d, 1, n)) = n
    BY <1>1, <1>2
  <2> QED BY <1>1, <1>2, <2>1 DEF x
<1> QED BY <1>3, <1>4, <1>5 DEF Prefix, x

\* What is behind a part of the first units are the last of them.
LEMMA WindowIsLast ==
  ASSUME file \in Files, NEW a \in Seq(Units), NEW w \in Seq(Units),
         NEW n \in 0 .. Len(file.decodes), a \o w = Prefix(n), Len(w) = RingSize
  PROVE  n >= RingSize /\ w = LastWindow(n)
<1> DEFINE d == file.decodes
<1>1. d \in Seq(Units) /\ Len(d) \in Nat /\ n \in Nat /\ n <= Len(d)
  BY FileLemma
<1>2. Len(Prefix(n)) = n /\ \A k \in 1 .. n : Prefix(n)[k] = d[k]
  BY <1>1 DEF Prefix
<1>3. /\ Len(a) \in Nat /\ RingSize \in Nat /\ RingSize >= 1
      /\ Len(a \o w) = Len(a) + RingSize
      /\ \A k \in 1 .. RingSize : (a \o w)[Len(a) + k] = w[k]
  <2>1. RingSize \in Nat /\ RingSize >= 1
    BY GzipAssumption
  <2>2. Len(a) \in Nat /\ Len(a \o w) = Len(a) + RingSize
    BY LenProperties, ConcatProperties
  <2>3. ASSUME NEW k \in 1 .. RingSize
        PROVE  (a \o w)[Len(a) + k] = w[k]
    BY <2>1, <2>2
  <2> QED BY <2>1, <2>2, <2>3
<1>4. n = Len(a) + RingSize
  BY <1>2, <1>3
<1>5. ASSUME NEW k \in 1 .. RingSize
      PROVE  w[k] = d[n - RingSize + k]
  <2>1. Len(a) + k \in 1 .. n /\ Len(a) + k = n - RingSize + k
    BY <1>3, <1>4
  <2>2. w[k] = Prefix(n)[Len(a) + k]
    BY <1>3
  <2> QED BY <1>2, <2>1, <2>2
<1>6. /\ LastWindow(n) \in Seq(Units) /\ Len(LastWindow(n)) = RingSize
      /\ \A k \in 1 .. RingSize : LastWindow(n)[k] = d[n - RingSize + k]
  <2>1. /\ n - RingSize + 1 \in 1 .. Len(d) + 1 /\ n \in 0 .. Len(d)
        /\ n - (n - RingSize + 1) + 1 = RingSize
    BY <1>1, <1>3, <1>4
  <2> DEFINE m == n - RingSize + 1
  <2>2. SubSeq(d, m, n) \in Seq(Units) /\ Len(SubSeq(d, m, n)) = RingSize
        /\ \A k \in 1 .. RingSize : SubSeq(d, m, n)[k] = d[m + k - 1]
    BY <1>1, <1>3, <1>4
  <2>3. \A k \in 1 .. RingSize : m + k - 1 = n - RingSize + k
    BY <1>1, <1>3
  <2> QED BY <2>2, <2>3 DEF LastWindow
<1>7. w = LastWindow(n)
  BY <1>5, <1>6, SeqEqual
<1> QED BY <1>1, <1>3, <1>4, <1>7

\* Not all of the data is what the prefix of its length is.
LEMMA PrefixWhole ==
  ASSUME file \in Files
  PROVE  /\ Prefix(0) = <<>> /\ Prefix(Len(file.decodes)) = file.decodes
         /\ \A n \in 0 .. Len(file.decodes) : Prefix(n) \in Seq(Units)
         /\ \A n \in 0 .. Len(file.decodes) : n >= RingSize =>
              LastWindow(n) \in Seq(Units) /\ Len(LastWindow(n)) = RingSize
<1> DEFINE d == file.decodes
<1>1. d \in Seq(Units) /\ Len(d) \in Nat /\ RingSize \in Nat /\ RingSize >= 1
  BY FileLemma, GzipAssumption
<1> HIDE DEF d
<1>2. SubSeq(d, 1, 0) = <<>> /\ SubSeq(d, 1, Len(d)) = d
  BY <1>1
<1>3. \A n \in 0 .. Len(d) : SubSeq(d, 1, n) \in Seq(Units)
  BY <1>1
<1>4. \A n \in 0 .. Len(d) : n >= RingSize =>
        /\ SubSeq(d, n - RingSize + 1, n) \in Seq(Units)
        /\ Len(SubSeq(d, n - RingSize + 1, n)) = RingSize
  BY <1>1
<1> QED BY <1>2, <1>3, <1>4 DEF Prefix, LastWindow, d

-----------------------------------------------------------------------------
(* Steps *)

LEMMA GzStarts == GzInit => GInv
<1>1. ASSUME GzInit
      PROVE  CountInv
  <2>1. <<>> \in Seq(Contents)
    OBVIOUS
  <2>2. mItems = <<>> /\ mAddedItems = 0
    BY <1>1 DEF GzInit, Init
  <2> QED BY <2>1, <2>2 DEF CountInv
<1> QED BY <1>1 DEF GzInit, Init, GInv, FileInv, CallInv, IntactIsExtracted

\* Only edits and the opening of the archive change its items.
LEMMA CountKept == ASSUME CountInv, UNCHANGED vars PROVE CountInv'
BY DEF CountInv, vars

LEMMA CountEdited == ASSUME CountInv, edit PROVE CountInv'
<1>1. CASE addItems
  <2>1. PICK n \in 0 .. MaxItems : mItems' \in [1 .. n -> Contents]
    BY <1>1 DEF addItems
  <2>2. mItems' \in Seq(Contents)
    BY <2>1, ArchiveAssumption
  <2> QED BY <1>1, <2>2 DEF CountInv, addItems
<1>2. CASE ~addItems
  BY <1>2 DEF CountInv, edit, replaceItem, deleteItem, appendItem
<1> QED BY <1>1, <1>2

\* Nothing the invariant is about changes, but for what an interrupt excuses.
LEMMA GzKept ==
  ASSUME GInv, UNCHANGED <<vars, file, pos, limit, pc, result, wanted, outcome, target, broken,
           used, taken, mBytesLeft, writer, window, analyzed>>,
         excused => excused', pc = "idle" => (excused' => excused),
         pc # "idle" /\ stopping' # stopping => excused'
  PROVE  GInv'
<1>0. UNCHANGED opened /\ CountInv'
  BY CountKept DEF vars, GInv
<1>1. FileInv'
  BY <1>0 DEF GInv, FileInv, FileSize, HeaderEnd, DeflateSize, headerSize, ExtraSize, CrcSize,
         StringSize, StringLength
<1>2. CallInv'
  <2>1. pc = "decode" => Reading' /\ Writing' /\ (stopping' => excused')
    BY DEF GInv, CallInv, Reading, Writing, HeaderEnd, ExtraSize, CrcSize, StringSize, Prefix,
         LastWindow
  <2>2. pc = "report" /\ outcome = "true" => Ends'
    BY DEF GInv, CallInv, Ends, Prefix, LastWindow
  <2>3. pc = "stream" => pos' = HeaderEnd(file)'
    BY DEF GInv, CallInv, HeaderEnd, ExtraSize, CrcSize, StringSize
  <2> QED BY <1>0, <2>1, <2>2, <2>3 DEF GInv, CallInv
<1>3. IntactIsExtracted'
  BY DEF GInv, IntactIsExtracted, CallInv
<1> QED BY <1>0, <1>1, <1>2, <1>3 DEF GInv

LEMMA EditKeeps == ASSUME GInv, edit PROVE GInv'
<1>1. pc = "idle" /\ UNCHANGED gzVars
  BY DEF edit
<1>2. UNCHANGED <<file, pos, limit, pc, result, wanted, outcome, target, broken, excused>>
  BY <1>1 DEF gzVars, fileVars, callVars, streamVars, flagVars
<1>3. opened' = opened \/ pos = None
  BY DEF edit, addItems, replaceItem, deleteItem, appendItem
<1>4. FileInv'
  BY <1>2, <1>3 DEF GInv, FileInv
<1>5. CallInv'
  BY <1>1, <1>2 DEF GInv, CallInv
<1>6. IntactIsExtracted'
  BY <1>2 DEF GInv, IntactIsExtracted
<1>10. CountInv'
  BY CountEdited DEF GInv
<1> QED BY <1>10, <1>4, <1>5, <1>6 DEF GInv

LEMMA OpenFailsKeeps == ASSUME GInv, openFails PROVE GInv'
<1>1. /\ pc = "idle" /\ (opened => pos # None) /\ UNCHANGED <<opened, limit>>
      /\ UNCHANGED <<pc, result, wanted, excused>>
      /\ file' \in Files /\ (pos # None => file' = file)
      /\ pos' \in {0, 1, FileSize(file')}
  BY DEF openFails, openFile, openVars, callVars, flagVars
<1>2. pos' \in Nat /\ pos' # None
  <2>1. FileSize(file') \in Nat
    BY <1>1, FileLemma
  <2> QED BY <1>1, <2>1 DEF None
<1>3. FileInv'
  BY <1>1, <1>2 DEF GInv, FileInv
<1>4. CallInv'
  BY <1>1 DEF GInv, CallInv
<1>5. IntactIsExtracted'
  BY <1>1 DEF GInv, FileInv, IntactIsExtracted
<1>10. CountInv'
  BY CountKept DEF GInv, openFails, openVars, vars
<1> QED BY <1>10, <1>3, <1>4, <1>5 DEF GInv

LEMMA OpenKeeps == ASSUME GInv, open PROVE GInv'
<1>1. /\ pc = "idle" /\ UNCHANGED <<pc, result, wanted, excused>>
      /\ file' \in Files /\ (pos # None => file' = file)
      /\ pos' = FileSize(file') /\ limit' = FileSize(file') - headerSize(file') - 8
  BY DEF open, openFile, openVars, callVars, flagVars
<1>2. pos' \in Nat /\ pos' # None
  <2>1. FileSize(file') \in Nat
    BY <1>1, FileLemma
  <2> QED BY <1>1, <2>1 DEF None
<1>3. FileInv'
  <2>1. (limit = FileSize(file) - headerSize(file) - 8)'
    BY <1>1 DEF FileSize, HeaderEnd, DeflateSize, headerSize
  <2> QED BY <1>1, <1>2, <2>1 DEF FileInv
<1>4. CallInv'
  BY <1>1 DEF GInv, CallInv
<1>5. IntactIsExtracted'
  BY <1>1 DEF GInv, FileInv, IntactIsExtracted
<1>10. CountInv'
  BY GzipAssumption DEF GInv, CountInv, open, openVars
<1> QED BY <1>10, <1>3, <1>4, <1>5 DEF GInv

LEMMA InterruptKeeps == ASSUME GInv, interruptCodec \/ interruptFlag PROVE GInv'
BY GzKept DEF interruptCodec, interruptFlag, vars, fileVars, streamVars, callVars

\* The file stays as it is.
LEMMA FileKept ==
  ASSUME FileInv, UNCHANGED <<file, limit, opened>>, pos # None, pos' \in Nat
  PROVE  FileInv'
<1>1. pos' # None
  BY DEF None
<1> QED BY <1>1 DEF FileInv, FileSize, HeaderEnd, DeflateSize, headerSize, ExtraSize, CrcSize,
                    StringSize, StringLength

LEMMA ExtractToKeeps == ASSUME GInv, NEW x \in Ids, extractTo(x) PROVE GInv'
<1>0. x < count => ~(x >= count)
  <2>1. x \in Int /\ count \in Int
    BY ArchiveAssumption, LenProperties DEF Ids, count, GInv, CountInv
  <2> QED BY <2>1
<1>1. /\ pc = "idle" /\ pos # None /\ opened /\ pos \in Nat
      /\ UNCHANGED <<file, pos, limit, opened>>
      /\ ~broken' /\ target' = <<>>
      /\ \/ pc' = "idle" /\ result' = "false" /\ wanted' = Invalid
         \/ pc' = "crashed" /\ result' = "none"
         \/ pc' = "begin" /\ result' = "none"
  BY <1>0 DEF extractTo, Returns, vars, fileVars, GInv, FileInv, None
<1>2. FileInv'
  BY <1>1, FileKept DEF GInv
<1>3. CallInv'
  BY <1>1 DEF CallInv
<1>4. IntactIsExtracted'
  BY <1>1, ArchiveAssumption, GzipAssumption DEF IntactIsExtracted
<1>10. CountInv'
  BY CountKept DEF GInv, extractTo
<1> QED BY <1>10, <1>2, <1>3, <1>4 DEF GInv

LEMMA ExtractFailsKeeps == ASSUME GInv, extractFails PROVE GInv'
<1>1. /\ pc = "begin" /\ pos # None /\ pos \in Nat
      /\ UNCHANGED <<file, pos, limit, opened>>
      /\ pc' = "idle" /\ result' = "false"
      /\ ~file.isDeflate \/ excused'
  BY DEF extractFails, Returns, vars, fileVars, GInv, FileInv, CallInv
<1>2. FileInv'
  BY <1>1, FileKept DEF GInv
<1>3. CallInv'
  BY <1>1 DEF CallInv
<1>4. IntactIsExtracted'
  BY <1>1 DEF IntactIsExtracted
<1>10. CountInv'
  BY CountKept DEF GInv, extractFails
<1> QED BY <1>10, <1>2, <1>3, <1>4 DEF GInv

LEMMA ExtractBeginsKeeps == ASSUME GInv, extractBegins PROVE GInv'
<1>1. /\ pc = "begin" /\ pos # None /\ opened /\ file \in Files /\ ~broken /\ target = <<>>
      /\ UNCHANGED <<file, limit, opened, broken, target, result>>
      /\ pc' = "stream" /\ pos' = HeaderEnd(file) /\ result = "none"
  BY DEF extractBegins, Returns, vars, streamVars, GInv, FileInv, CallInv
<1>2. pos' \in Nat /\ pos' # None
  <2>1. HeaderEnd(file) \in Nat
    BY <1>1, FileLemma
  <2> QED BY <1>1, <2>1 DEF None
<1>3. FileInv'
  BY <1>1, <1>2, FileKept DEF GInv
<1>4. CallInv'
  BY <1>1, <1>2 DEF CallInv, HeaderEnd, ExtraSize, CrcSize, StringSize
<1>5. IntactIsExtracted'
  BY <1>1 DEF IntactIsExtracted
<1>10. CountInv'
  BY CountKept DEF GInv, extractBegins
<1> QED BY <1>10, <1>3, <1>4, <1>5 DEF GInv

LEMMA StreamBeginsKeeps == ASSUME GInv, streamBegins PROVE GInv'
<1>1. /\ pc = "stream" /\ pos # None /\ opened /\ file \in Files /\ ~broken /\ target = <<>>
      /\ UNCHANGED <<file, limit, pos, opened, broken, target, result>>
      /\ pos = HeaderEnd(file) /\ result = "none" /\ pos \in Nat
      /\ pc' = "decode" /\ ~stopping'
      /\ mBytesLeft' = limit /\ taken' = 0 /\ used' = 0
      /\ writer' = "runs" /\ window' = <<>> /\ analyzed' = <<>>
  BY DEF streamBegins, vars, fileVars, GInv, FileInv, CallInv
<1>2. FileInv'
  BY <1>1, FileKept DEF GInv
<1>3. Len(file.decodes) \in Nat /\ limit \in Int
  <2>1. limit = FileSize(file) - headerSize(file) - 8
    BY <1>1 DEF GInv, FileInv
  <2> QED BY <1>1, <2>1, FileLemma
<1>4. Reading'
  BY <1>1, <1>3 DEF Reading, HeaderEnd, ExtraSize, CrcSize, StringSize
<1>5. Writing'
  <2>1. <<>> \in Seq(Units) /\ Len(<<>>) < RingSize /\ <<>> \o <<>> = Prefix(0)
    BY <1>1, PrefixWhole, GzipAssumption
  <2> QED BY <1>1, <2>1 DEF Writing, Prefix
<1>6. CallInv'
  BY <1>1, <1>4, <1>5 DEF CallInv
<1>7. IntactIsExtracted'
  BY <1>1 DEF IntactIsExtracted
<1>10. CountInv'
  BY CountKept DEF GInv, streamBegins
<1> QED BY <1>10, <1>2, <1>6, <1>7 DEF GInv

\* A decoder goes on with the same file and streams.
LEMMA ReadingKept ==
  ASSUME Reading, UNCHANGED <<file, pos, limit, used, taken, mBytesLeft>>
  PROVE  Reading'
BY DEF Reading, HeaderEnd, ExtraSize, CrcSize, StringSize

LEMMA WritingKept ==
  ASSUME Writing, UNCHANGED <<file, used, writer, window, analyzed, target, broken>>,
         excused => excused'
  PROVE  Writing'
BY DEF Writing, Prefix, LastWindow

\* The decoder has some of the data before it, if it has not decoded all.
LEMMA SomeIsLeft ==
  ASSUME FileInv, opened, pos # None, Reading, file.cut = 0, taken = used
  PROVE  mBytesLeft > 0 /\ pos # FileSize(file)
<1> DEFINE end == HeaderEnd(file)
           size == FileSize(file)
           head == headerSize(file)
           length == Len(file.decodes)
<1>1. /\ end \in Nat /\ head \in Nat /\ head <= end
      /\ size = end + (length + 1) + 8 - 0 /\ length \in Nat
  BY FileLemma DEF FileInv
<1>2. /\ used \in 0 .. length /\ pos = end + used /\ mBytesLeft = limit - used
      /\ limit = size - head - 8
  BY DEF FileInv, Reading
<1> HIDE DEF end, size, head, length
<1>3. mBytesLeft > 0 /\ pos # size
  BY ONLY <1>1, <1>2
<1> QED BY <1>3 DEF size

\* What holds of a call that decodes.
LEMMA Decodes ==
  ASSUME GInv, pc = "decode"
  PROVE  /\ pos # None /\ opened /\ result = "none" /\ file \in Files /\ pos \in Nat
         /\ Reading /\ Writing /\ (stopping => excused)
BY DEF GInv, CallInv, FileInv

\* It fails.
LEMMA StreamStops ==
  ASSUME GInv, pc = "decode", UNCHANGED <<vars, file, limit, result>>, pos' \in Nat,
         pc' = "report", outcome' = "false", excused' \/ file.cut # 0
  PROVE  GInv'
<1>1. pos # None /\ opened /\ result = "none"
  BY Decodes
<1>2. FileInv' /\ CountInv'
  BY <1>1, FileKept, CountKept DEF GInv, vars
<1>3. pos' # None /\ opened' /\ result' = "none"
  BY <1>1 DEF vars, None
<1>4. CallInv'
  BY <1>3 DEF CallInv
<1>5. IntactIsExtracted'
  BY <1>3 DEF IntactIsExtracted
<1> QED BY <1>2, <1>4, <1>5 DEF GInv

\* It goes on.
LEMMA StreamGoesOn ==
  ASSUME GInv, pc = "decode", UNCHANGED <<vars, file, limit, result, pc>>, pos' \in Nat,
         Reading', Writing', stopping' => excused'
  PROVE  GInv'
<1>1. pos # None /\ opened /\ result = "none"
  BY Decodes
<1>2. FileInv' /\ CountInv'
  BY <1>1, FileKept, CountKept DEF GInv, vars
<1>3. pos' # None /\ opened' /\ result' = "none"
  BY <1>1 DEF vars, None
<1>4. CallInv'
  BY <1>3 DEF CallInv
<1>5. IntactIsExtracted'
  BY <1>3 DEF IntactIsExtracted
<1> QED BY <1>2, <1>4, <1>5 DEF GInv

LEMMA ReadSomeKeeps == ASSUME GInv, readSome PROVE GInv'
<1>1. /\ pc = "decode" /\ taken = used
      /\ UNCHANGED <<vars, file, limit, used, writer, window, analyzed, target, broken, result,
                     stopping, excused>>
  BY DEF readSome, flagVars
<1>2. PICK r \in {0} \cup 1 .. Lesser(mBytesLeft, FileSize(file) - pos) :
       /\ r = 0 => mBytesLeft <= 0 \/ pos = FileSize(file)
       /\ mBytesLeft' = mBytesLeft - r /\ pos' = pos + r /\ taken' = taken + r
       /\ IF r = 0 THEN StreamFails("truncated")
          ELSE UNCHANGED <<pc, outcome, mErrorString>>
  BY DEF readSome
<1>3. /\ pos # None /\ opened /\ file \in Files /\ pos \in Nat /\ FileInv
      /\ Reading /\ Writing /\ (stopping => excused)
  BY <1>1, Decodes DEF GInv
<1>4. r \in Nat /\ pos' \in Nat
  BY <1>2, <1>3 DEF Lesser
<1>5. CASE r = 0
  <2>1. pc' = "report" /\ outcome' = "false"
    BY <1>2, <1>5 DEF StreamFails
  <2>2. mBytesLeft <= 0 \/ pos = FileSize(file)
    BY <1>2, <1>5
  <2>3. file.cut # 0
    <3>1. limit \in Int
      BY <1>3, FileLemma DEF FileInv
    <3>2. taken \in Nat /\ mBytesLeft = limit - taken
      BY <1>3 DEF Reading
    <3>3. file.cut = 0 => mBytesLeft > 0 /\ pos # FileSize(file)
      BY <1>1, <1>3, SomeIsLeft
    <3> QED BY <2>2, <3>1, <3>2, <3>3
  <2> QED BY <1>1, <1>4, <2>1, <2>3, StreamStops
<1>6. CASE r # 0
  <2>1. pc' = pc
    BY <1>2, <1>6
  <2>2. HeaderEnd(file) \in Nat /\ limit \in Int
    BY <1>3, FileLemma DEF FileInv
  <2>3. /\ used \in Nat /\ used <= taken + r /\ taken + r \in Nat
        /\ pos + r = HeaderEnd(file) + (taken + r) /\ mBytesLeft - r = limit - (taken + r)
    <3>1. /\ used \in Nat /\ taken \in Nat /\ used <= taken
          /\ pos = HeaderEnd(file) + taken /\ mBytesLeft = limit - taken
      BY <1>3 DEF Reading
    <3> QED BY <1>4, <2>2, <3>1
  <2>4. Reading'
    BY <1>1, <1>2, <1>3, <2>3 DEF Reading, HeaderEnd, ExtraSize, CrcSize, StringSize
  <2>5. Writing'
    BY <1>1, <1>3, WritingKept
  <2> QED BY <1>1, <1>3, <1>4, <2>1, <2>4, <2>5, StreamGoesOn
<1> QED BY <1>5, <1>6

LEMMA ReadFailsKeeps == ASSUME GInv, readFails PROVE GInv'
<1>1. /\ pc = "decode" /\ UNCHANGED <<vars, file, pos, limit, result>>
      /\ pc' = "report" /\ outcome' = "false" /\ excused'
  BY DEF readFails, StreamFails, fileVars
<1>2. pos' \in Nat
  BY <1>1, Decodes
<1> QED BY <1>1, <1>2, StreamStops

LEMMA WriteErrorSeenKeeps == ASSUME GInv, writeErrorSeen PROVE GInv'
<1>1. /\ pc = "decode" /\ UNCHANGED <<vars, file, pos, limit, result, excused>>
      /\ writer = "failed"
  BY DEF writeErrorSeen, fileVars, flagVars
<1>2. pos \in Nat /\ Writing /\ pos # None /\ opened /\ result = "none"
  BY <1>1, Decodes
<1>3. excused'
  BY <1>1, <1>2 DEF Writing
<1>4. CASE StreamFails("write")
  BY <1>1, <1>2, <1>3, <1>4, StreamStops DEF StreamFails
<1>5. CASE pc' = "crashed"
  <2>1. FileInv' /\ CountInv'
    BY <1>1, <1>2, FileKept, CountKept DEF GInv, vars
  <2>2. CallInv' /\ IntactIsExtracted'
    BY <1>1, <1>2, <1>5 DEF CallInv, IntactIsExtracted, vars
  <2> QED BY <2>1, <2>2 DEF GInv
<1> QED BY <1>4, <1>5 DEF writeErrorSeen

LEMMA StopSingleKeeps == ASSUME GInv, stopSingle PROVE GInv'
<1>1. /\ pc = "decode" /\ UNCHANGED <<vars, file, pos, limit, result, excused>> /\ stopping
      /\ pc' = "report" /\ outcome' = "false"
  BY DEF stopSingle, StreamFails, fileVars, flagVars
<1>2. pos' \in Nat /\ excused'
  BY <1>1, Decodes
<1> QED BY <1>1, <1>2, StreamStops

\* A unit is put into the window.  One that is full is written; if that fails, it is the
\* last of what was shown.
LEMMA PutUnitKeeps == ASSUME GInv, putUnit PROVE GInv'
<1> DEFINE filled == Append(window, file.decodes[used + 1])
<1>1. /\ pc = "decode" /\ used < taken /\ used < Len(file.decodes) /\ writer = "runs"
      /\ used' = used + 1
      /\ UNCHANGED <<vars, file, pos, limit, taken, mBytesLeft, stopping, result>>
  BY DEF putUnit, fileVars
<1>2. /\ file \in Files /\ pos \in Nat /\ Reading /\ Writing /\ (stopping => excused)
  BY <1>1, Decodes
<1>3. /\ used \in Nat /\ Len(file.decodes) \in Nat /\ taken \in Nat /\ RingSize \in Nat
  BY <1>2, FileLemma, GzipAssumption DEF Reading
<1>4. used + 1 \in 0 .. Len(file.decodes) /\ used + 1 <= taken
  BY <1>1, <1>3
<1>5. Reading'
  BY <1>1, <1>2, <1>4 DEF Reading, HeaderEnd, ExtraSize, CrcSize, StringSize
<1>6. /\ analyzed \in Seq(Units) /\ window \in Seq(Units) /\ ~broken /\ target = analyzed
      /\ analyzed \o window = Prefix(used) /\ Len(window) < RingSize /\ Len(window) \in Nat
  BY <1>1, <1>2, LenProperties DEF Writing
<1>7. /\ filled \in Seq(Units) /\ Len(filled) = Len(window) + 1
      /\ analyzed \o filled = Prefix(used + 1)
  BY <1>1, <1>2, <1>3, <1>6, PrefixAppend
<1>8. Prefix(used)' = Prefix(used + 1) /\ LastWindow(used)' = LastWindow(used + 1)
  BY <1>1 DEF Prefix, LastWindow
<1> HIDE DEF filled
<1>9. CASE Len(filled) < RingSize
  <2>1. /\ window' = filled
        /\ UNCHANGED <<analyzed, target, broken, writer, pc, excused>>
    BY <1>9 DEF putUnit, filled
  <2>2. Writing'
    BY <1>1, <1>6, <1>7, <1>8, <1>9, <2>1 DEF Writing
  <2> QED BY <1>1, <1>2, <1>5, <2>1, <2>2, StreamGoesOn
<1>10. CASE ~(Len(filled) < RingSize)
  <2>1. Len(filled) = RingSize
    BY <1>3, <1>6, <1>7, <1>10
  <2>2. used + 1 >= RingSize /\ filled = LastWindow(used + 1)
    BY <1>2, <1>4, <1>6, <1>7, <2>1, WindowIsLast
  <2>3. /\ analyzed \o filled \in Seq(Units)
        /\ (analyzed \o filled) \o <<>> = analyzed \o filled
        /\ <<>> \in Seq(Units) /\ Len(<<>>) < RingSize
    <3>1. analyzed \o filled \in Seq(Units)
      BY <1>6, <1>7, ConcatProperties
    <3> QED BY <3>1, ConcatEmptySeq, GzipAssumption
  <2>4. CASE write(filled, TRUE) /\ window' = <<>> /\ UNCHANGED <<writer, pc, excused>>
    <3>1. /\ analyzed' = analyzed \o filled /\ ~broken' /\ target' = target \o filled
      BY <1>6, <2>4 DEF write
    <3>2. Writing'
      BY <1>1, <1>6, <1>7, <1>8, <2>3, <2>4, <3>1 DEF Writing
    <3> QED BY <1>1, <1>2, <1>5, <2>4, <3>2, StreamGoesOn
  <2>5. CASE /\ write(filled, FALSE) /\ window' = filled /\ excused'
             /\ \/ decoder = "multi" /\ writer' = "failed" /\ UNCHANGED pc
                \/ StreamFails("write")
    <3>1. /\ analyzed' = analyzed \o filled /\ broken'
      BY <1>6, <2>5 DEF write
    <3>2. CASE decoder = "multi" /\ writer' = "failed" /\ UNCHANGED pc
      <4>1. Writing'
        BY <1>1, <1>7, <1>8, <2>2, <2>3, <2>5, <3>1, <3>2 DEF Writing
      <4> QED BY <1>1, <1>2, <1>5, <2>5, <3>2, <4>1, StreamGoesOn
    <3>3. CASE StreamFails("write")
      BY <1>1, <1>2, <2>5, <3>3, StreamStops DEF StreamFails
    <3> QED BY <2>5, <3>2, <3>3
  <2> QED BY <1>10, <2>4, <2>5 DEF putUnit, filled
<1> QED BY <1>9, <1>10

\* The last flush: of an undisturbed decoder it completes the data.
LEMMA StreamEndsKeeps == ASSUME GInv, streamEnds PROVE GInv'
<1>1. /\ pc = "decode" /\ Ended
      /\ UNCHANGED <<vars, file, pos, limit, used, taken, mBytesLeft, writer, stopping, result>>
  BY DEF streamEnds, fileVars
<1>2. /\ pos # None /\ opened /\ result = "none" /\ file \in Files /\ pos \in Nat
      /\ Reading /\ Writing /\ (stopping => excused)
  BY <1>1, Decodes
<1>3. /\ analyzed \in Seq(Units) /\ window \in Seq(Units) /\ used \in 0 .. Len(file.decodes)
      /\ analyzed \o window \in Seq(Units)
  BY <1>2, ConcatProperties DEF Writing, Reading
<1>4. CASE write(window, FALSE) /\ StreamFails("write") /\ excused'
  BY <1>1, <1>2, <1>4, StreamStops DEF StreamFails
<1>5. CASE /\ write(window, TRUE) /\ pc' = "report" /\ outcome' = "true"
           /\ UNCHANGED excused
  <2>1. /\ analyzed' = analyzed \o window /\ target' = target \o window /\ (broken' <=> broken)
        /\ ~(broken /\ WriteErrorsPersist /\ window # <<>>)
    BY <1>5 DEF write
  <2>2. ~broken => target = analyzed
    BY <1>2 DEF Writing
  <2>3. ~excused => analyzed \o window = file.decodes
    <3>1. SUFFICES ASSUME ~excused PROVE analyzed \o window = file.decodes
      OBVIOUS
    <3>2. writer = "runs" /\ ~stopping
      BY <1>2, <3>1 DEF Writing
    <3>3. used = Len(file.decodes)
      BY <1>1, <3>2 DEF Ended
    <3> QED BY <1>2, <3>2, <3>3, PrefixWhole DEF Writing
  <2>4. ASSUME broken
        PROVE  /\ WriteErrorsPersist = FALSE
               /\ \E n \in RingSize .. Len(file.decodes) :
                    analyzed \o window = Prefix(n) \o LastWindow(n)
    <3>1. writer # "runs"
      BY <1>2, <2>4 DEF Writing
    <3>2. used >= RingSize /\ analyzed = Prefix(used) /\ window = LastWindow(used)
      BY <1>2, <3>1 DEF Writing
    <3>3. Len(window) = RingSize /\ RingSize >= 1 /\ RingSize \in Nat
      BY <1>2, <1>3, <3>2, PrefixWhole, GzipAssumption
    <3>4. window # <<>>
      BY <3>3
    <3>5. WriteErrorsPersist = FALSE
      BY <2>1, <2>4, <3>4, GzipAssumption
    <3>6. used \in RingSize .. Len(file.decodes)
      BY <1>3, <3>2, <3>3
    <3> QED BY <3>2, <3>5, <3>6
  <2>5. Ends'
    BY <1>1, <1>3, <2>1, <2>2, <2>3, <2>4, <1>5 DEF Ends, Prefix, LastWindow
  <2>6. FileInv' /\ CountInv'
    BY <1>1, <1>2, FileKept, CountKept DEF GInv, vars
  <2>7. CallInv' /\ IntactIsExtracted'
    BY <1>1, <1>2, <1>5, <2>5 DEF CallInv, IntactIsExtracted, vars
  <2> QED BY <2>6, <2>7 DEF GInv
<1> QED BY <1>4, <1>5 DEF streamEnds

\* "true" is said of the data only, and "false" of a sound file only with an excuse.
LEMMA ReportKeeps == ASSUME GInv, report PROVE GInv'
<1>1. /\ pc = "report" /\ pc' = "idle" /\ pos # None /\ opened /\ pos \in Nat
      /\ UNCHANGED <<vars, file, pos, limit, excused, wanted>>
  BY DEF report, Returns, fileVars, flagVars, GInv, CallInv, FileInv
<1>2. FileInv' /\ CountInv'
  BY <1>1, FileKept, CountKept DEF GInv, vars
<1>3. CallInv'
  BY <1>1 DEF CallInv
<1>4. IntactIsExtracted'
  <2>1. ASSUME wanted = Opened, ~excused, file.cut = 0, file.decodes = file.original
        PROVE  result' # "false"
    <3>1. outcome # "false"
      BY <1>1, <2>1 DEF GInv, CallInv
    <3>2. outcome = "true" => analyzed = file.original
      BY <1>1, <2>1 DEF GInv, CallInv, Ends
    <3>3. crc(wanted) = file.original
      BY <2>1 DEF crc
    <3> QED BY <3>1, <3>2, <3>3 DEF report, Returns
  <2> QED BY <1>1, <2>1 DEF IntactIsExtracted
<1> QED BY <1>2, <1>3, <1>4 DEF GInv

LEMMA GzStep == GInv /\ [GzNext]_allVars => GInv'
<1> SUFFICES ASSUME GInv, [GzNext]_allVars PROVE GInv'
  OBVIOUS
<1>1. CASE edit
  BY <1>1, EditKeeps
<1>2. CASE open
  BY <1>2, OpenKeeps
<1>3. CASE openFails
  BY <1>3, OpenFailsKeeps
<1>4. ASSUME NEW x \in Ids, extractTo(x) PROVE GInv'
  BY <1>4, ExtractToKeeps
<1>5. CASE extractFails \/ extractBegins \/ streamBegins
  BY <1>5, ExtractFailsKeeps, ExtractBeginsKeeps, StreamBeginsKeeps
<1>6. CASE readSome \/ readFails \/ putUnit
  BY <1>6, ReadSomeKeeps, ReadFailsKeeps, PutUnitKeeps
<1>7. CASE writeErrorSeen \/ stopSingle \/ streamEnds \/ report
  BY <1>7, WriteErrorSeenKeeps, StopSingleKeeps, StreamEndsKeeps, ReportKeeps
<1>8. CASE interruptCodec \/ interruptFlag
  BY <1>8, InterruptKeeps
<1>9. CASE UNCHANGED allVars
  BY <1>9, GzKept DEF allVars, gzVars, fileVars, streamVars, callVars, flagVars
<1> QED BY <1>1, <1>2, <1>3, <1>4, <1>5, <1>6, <1>7, <1>8, <1>9 DEF GzNext

\* extractTo() of the item as it was opened extracts a sound file, unless a read or a write
\* failed or an interrupt overlapped the call: for all files, whatever calls were before.
THEOREM IntactExtracted == GzSpec => []IntactIsExtracted
<1>1. GInv => IntactIsExtracted
  BY DEF GInv
<1> QED BY <1>1, GzStarts, GzStep, PTL DEF GzSpec

-----------------------------------------------------------------------------
(* What "true" means *)

LEMMA ReportIsTrue ==
  ASSUME NoticesErrors, GInv, report, result' = "true"
  PROVE  target = file.original
<1>1. /\ pc = "report" /\ outcome = "true" /\ analyzed = crc(wanted) /\ file \in Files
  BY DEF report, Returns, GInv, CallInv, FileInv
<1>2. Ends
  BY <1>1 DEF GInv, CallInv
<1>3. analyzed # NoCrc
  <2>1. SUFFICES ASSUME analyzed = NoCrc PROVE FALSE
    OBVIOUS
  <2>2. Len(analyzed) = 1 /\ analyzed[1] = 0
    BY <2>1 DEF NoCrc
  <2>3. analyzed \in Seq(Units)
    BY <1>2 DEF Ends
  <2>4. analyzed[1] \in Units
    BY <2>2, <2>3, ElementOfSeq
  <2> QED BY <2>2, <2>4 DEF Units
<1>4. analyzed = file.original
  BY <1>1, <1>3 DEF crc
<1>5. ~broken
  <2>1. SUFFICES ASSUME broken PROVE FALSE
    OBVIOUS
  <2>2. /\ WriteErrorsPersist = FALSE
        /\ \E n \in RingSize .. Len(file.decodes) : analyzed = Prefix(n) \o LastWindow(n)
    BY <1>2, <2>1 DEF Ends
  <2> QED BY <1>1, <1>4, <2>2 DEF NoticesErrors, NothingRepeats, Prefix, LastWindow
<1> QED BY <1>2, <1>4, <1>5 DEF Ends

LEMMA TrueStep ==
  ASSUME NoticesErrors, GInv, ExtractedIsTheData, [GzNext]_allVars
  PROVE  ExtractedIsTheData'
<1> SUFFICES ASSUME result' = "true" PROVE target' = file'.original
  BY DEF ExtractedIsTheData
<1>1. CASE report
  BY <1>1, ReportIsTrue DEF report, streamVars, fileVars
<1>2. CASE ~report
  <2>1. result = "true" /\ pc = "idle" /\ pos # None /\ target = file.original
    <3>1. result = "true"
      BY <1>2 DEF GzNext, edit, open, openFails, extractTo, extractFails, extractBegins,
         streamBegins, readSome, readFails, putUnit, writeErrorSeen, stopSingle, streamEnds,
         interruptCodec, interruptFlag, Returns, allVars, gzVars, openVars, callVars
    <3> QED BY <3>1 DEF GInv, CallInv, FileInv, ExtractedIsTheData
  <2>2. UNCHANGED <<target, file>>
      BY <1>2, <2>1 DEF GzNext, edit, open, openFails, extractTo, extractFails, extractBegins,
         streamBegins, readSome, readFails, putUnit, writeErrorSeen, stopSingle, streamEnds,
         interruptCodec, interruptFlag, Returns, allVars, gzVars, openVars, callVars, fileVars,
         streamVars, openFile
  <2> QED BY <2>1, <2>2
<1> QED BY <1>1, <1>2

\* When extractTo() says "true", the target got the data: for all files, whatever failed
\* and whoever interrupted, if write errors persist or no file has data that repeats
\* itself such that the checksum of a window written twice fits.
THEOREM TrueIsTheData ==
  ASSUME NoticesErrors
  PROVE  GzSpec => []ExtractedIsTheData
<1>1. GzInit => ExtractedIsTheData
  BY DEF GzInit, ExtractedIsTheData
<1> QED BY <1>1, GzStarts, GzStep, TrueStep, PTL DEF GzSpec

=============================================================================
