------------------------------- MODULE Archive -------------------------------
(***************************************************************************)
(* Archive (Archive.h, Archive.cpp): the items of an archive and the       *)
(* modifications of them that wait for writeTo().  An item is a member of  *)
(* Contents, or Invalid, which ArchiveItem() is.                           *)
(***************************************************************************)
EXTENDS Integers, Sequences, FiniteSets

CONSTANTS
  Contents,          \* what an item can be
  Invalid,
  EditsBeforeOpen,   \* whether callers edit an archive and then open it
  MaxItems,          \* bound: the items of the archive opened
  MaxId              \* bound: identifiers

ASSUME ArchiveAssumption ==
  /\ Invalid \notin Contents
  /\ EditsBeforeOpen \in BOOLEAN
  /\ MaxItems \in Nat /\ MaxId \in Nat

VARIABLES
  mItems,           \* the items read by open()
  mModifications,   \* what takes the place of an item, or is new, by identifier
  mAddedItems,
  mNextId,
  opened            \* open() has been called

vars == <<mItems, mModifications, mAddedItems, mNextId, opened>>

Ids == 0 .. MaxId

\* The identifiers of the items in mItems.
Originals == 0 .. Len(mItems) - 1

TypeOK ==
  /\ mItems \in Seq(Contents)
  /\ DOMAIN mModifications \subseteq Ids
  /\ mModifications \in [DOMAIN mModifications -> Contents \cup {Invalid}]
  /\ mAddedItems \in Nat /\ mNextId \in Nat
  /\ opened \in BOOLEAN

Init ==
  /\ mItems = <<>> /\ mModifications = [id \in {} |-> Invalid]
  /\ mAddedItems = 0 /\ mNextId = 0
  /\ opened = FALSE

-----------------------------------------------------------------------------
count == Len(mItems) + mAddedItems

\* What item() asserts.
Exists(id) == id \in DOMAIN mModifications \cup Originals

item(id) ==
  IF id \in DOMAIN mModifications THEN mModifications[id] ELSE mItems[id + 1]

\* QMap::insert() and QMap::remove().
Inserted(id, it) ==
  [x \in DOMAIN mModifications \cup {id} |-> IF x = id THEN it ELSE mModifications[x]]

Removed(id) == [x \in DOMAIN mModifications \ {id} |-> mModifications[x]]

\* addItem(), for each item open() finds.
addItems ==
  /\ ~opened /\ (EditsBeforeOpen \/ mNextId = 0)
  /\ opened' = TRUE
  /\ mItems' \in UNION {[1 .. n -> Contents] : n \in 0 .. MaxItems}
  /\ UNCHANGED <<mModifications, mAddedItems, mNextId>>

replaceItem(id, it) ==
  /\ Exists(id)
  /\ mModifications' = Inserted(id, it)
  /\ UNCHANGED <<mItems, mAddedItems, mNextId, opened>>

\* An item of the archive gets an invalid modification, an appended one is forgotten.
deleteItem(id) ==
  /\ Exists(id)
  /\ IF id \in Originals
       THEN mModifications' = Inserted(id, Invalid) /\ UNCHANGED mAddedItems
       ELSE mModifications' = Removed(id) /\ mAddedItems' = mAddedItems - 1
  /\ UNCHANGED <<mItems, mNextId, opened>>

\* Mutant: the identifier is the number of items.
NewIdCounted == count

\* mNextId is set at the first call.
NewId == IF mNextId = 0 THEN count ELSE mNextId

appendItem(it) ==
  /\ NewId <= MaxId
  /\ mNextId' = NewId + 1
  /\ mAddedItems' = mAddedItems + 1
  /\ mModifications' = Inserted(NewId, it)
  /\ UNCHANGED <<mItems, opened>>

Next ==
  \/ addItems
  \/ \E id \in Ids, it \in Contents : replaceItem(id, it)
  \/ \E id \in Ids : deleteItem(id)
  \/ \E it \in Contents : appendItem(it)

Spec == Init /\ [][Next]_vars

-----------------------------------------------------------------------------
(* normalizedItems(): the items as they are to be written *)

\* The items of some identifiers, in the order of these.
Listed(ids) ==
  [k \in 1 .. Cardinality(ids) |->
     item(CHOOSE id \in ids : Cardinality({x \in ids : x <= id}) = k)]

\* Mutant: the modification of an old item is written whether it is valid or not.
NormalizedOldWhole == Listed(Originals)

\* The items of the archive, or what is valid of their modifications.
NormalizedOld == Listed({id \in Originals : item(id) # Invalid})

\* The modifications that remain.
NormalizedAdded == Listed(DOMAIN mModifications \ Originals)

normalizedItems == NormalizedOld \o NormalizedAdded

-----------------------------------------------------------------------------
(* Properties *)

\* The identifiers of the items that are not deleted.
Live == {id \in Originals \cup DOMAIN mModifications : item(id) # Invalid}

\* count() is the number of identifiers that item() knows, however often items were
\* appended, replaced and deleted.
CountIsItems == count = Cardinality(Originals \cup DOMAIN mModifications)

\* What is to be written are all items that are not deleted, each once, in the order
\* of their identifiers.
NormalizedIsContents ==
  /\ Len(normalizedItems) = Cardinality(Live)
  /\ \A id \in Live : normalizedItems[Cardinality({x \in Live : x <= id})] = item(id)

\* Both questions about the contents get answers that fit the edits: how many
\* identifiers there are, and what is to be written.
CountAndContents == CountIsItems /\ NormalizedIsContents

\* An identifier below count() is that of an item, as GzipArchive::extractTo() takes
\* it.  The code does not keep this once an appended item is deleted.
IdsAreBelowCount == \A id \in 0 .. count - 1 : Exists(id)

\* Identifiers stay what they are, see ItemEdits.
Edits == INSTANCE ItemEdits WITH
  contents <- [id \in Live |-> item(id)], originals <- Originals,
  taken <- 0 .. (IF mNextId = 0 THEN Len(mItems) ELSE mNextId) - 1

IsItemEdits == Edits!Spec

=============================================================================
