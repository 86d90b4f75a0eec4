------------------------------ MODULE ItemEdits ------------------------------
(***************************************************************************)
(* What an Archive owes those who edit it: items with identifiers that     *)
(* stay theirs.  An item that is deleted is gone, all others remain as     *)
(* they are, and a new one comes behind all that ever were.                *)
(***************************************************************************)
EXTENDS Integers

CONSTANTS Contents   \* what an item can be

VARIABLES
  contents,   \* the items there are, by identifier
  originals,  \* the identifiers of those the archive was opened with
  taken       \* the identifiers ever given to an item

vars == <<contents, originals, taken>>

Init == contents = [id \in {} |-> 0] /\ originals = {} /\ taken = {}

\* The archive is opened with the items 0, 1, ...
Open ==
  /\ taken = {}
  /\ \A x \in taken' : x \in Nat /\ \A y \in 0 .. x : y \in taken'
  /\ contents' \in [taken' -> Contents] /\ originals' = taken'

With(id, item) ==
  [x \in DOMAIN contents \cup {id} |-> IF x = id THEN item ELSE contents[x]]

Append(id, item) ==
  /\ \A x \in taken : x < id
  /\ contents' = With(id, item) /\ taken' = taken \cup {id}
  /\ UNCHANGED originals

\* Also brings back an original that was deleted.
Replace(id, item) ==
  /\ id \in DOMAIN contents \cup originals
  /\ contents' = With(id, item)
  /\ UNCHANGED <<originals, taken>>

Delete(id) ==
  /\ id \in DOMAIN contents \cup originals
  /\ contents' = [x \in DOMAIN contents \ {id} |-> contents[x]]
  /\ UNCHANGED <<originals, taken>>

Next ==
  \/ Open
  \/ \E id \in taken', item \in Contents : Append(id, item)
  \/ \E id \in taken, item \in Contents : Replace(id, item)
  \/ \E id \in taken : Delete(id)

Spec == Init /\ [][Next]_vars

=============================================================================
