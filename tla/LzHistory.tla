------------------------------ MODULE LzHistory ------------------------------
(***************************************************************************)
(* The history of an LZ77 decoder, without a buffer: everything it put     *)
(* since it was cleared.  Bytes are put as they are, or a match is copied: *)
(* byte by byte from a fixed distance back, so that it may run into its    *)
(* own output; what lies before the start reads as 0.                      *)
(***************************************************************************)
EXTENDS Naturals, Sequences

CONSTANTS
  Bytes,     \* the byte values
  Window     \* how far back a byte can be copied from

VARIABLES
  history,
  distance,  \* of the match being copied
  left       \* what is still to copy of it

vars == <<history, distance, left>>

ByteBack(d) == IF d < Len(history) THEN history[Len(history) - d] ELSE 0

Init == history = <<>> /\ distance = 0 /\ left = 0

Put ==
  /\ left = 0
  /\ \E b \in Bytes : history' = Append(history, b)
  /\ UNCHANGED <<distance, left>>

StartCopy ==
  /\ left = 0
  /\ distance' \in 0 .. Window - 1
  /\ left' \in Nat \ {0}
  /\ UNCHANGED history

Copy ==
  /\ left > 0
  /\ history' = Append(history, ByteBack(distance))
  /\ left' = left - 1
  /\ distance' = IF left = 1 THEN 0 ELSE distance

\* The output of the copied byte failed, and the match is given up.
CopyFails ==
  /\ left > 0
  /\ history' = Append(history, ByteBack(distance))
  /\ left' = 0 /\ distance' = 0

Clear ==
  /\ left = 0
  /\ history' = <<>>
  /\ UNCHANGED <<distance, left>>

Next == Put \/ StartCopy \/ Copy \/ CopyFails \/ Clear

Spec == Init /\ [][Next]_vars

=============================================================================
