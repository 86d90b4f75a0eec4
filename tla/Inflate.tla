------------------------------- MODULE Inflate -------------------------------
(***************************************************************************)
(* What a call of stream() owes for the bytes it writes: the positions     *)
(* 1, 2, 3, ... of the uncompressed data in this order, at most as many as *)
(* the caller expects, and "true" only when all of them are out.           *)
(***************************************************************************)
EXTENDS Naturals, Sequences

VARIABLES
  busy,        \* a call is under way
  size,        \* the bytes the compressed data stands for
  expected,    \* the bytes the caller wants, 0: all there are
  out,         \* the positions written by this call
  result       \* of the last call, "none" while it is under way

vars == <<busy, size, expected, out, result>>

Limit == IF expected = 0 \/ size < expected THEN size ELSE expected

Positions(n) == [i \in 1 .. n |-> i]

Init == busy = FALSE /\ size \in Nat /\ expected \in Nat /\ out = <<>> /\ result = "none"

Call ==
  /\ ~busy
  /\ busy' = TRUE /\ size' \in Nat /\ expected' \in Nat
  /\ out' = <<>> /\ result' = "none"

\* The output grows by the next bytes of the data.
Grow == Len(out') >= Len(out) /\ Len(out') <= Limit /\ out' = Positions(Len(out'))

Put == busy /\ Grow /\ UNCHANGED <<busy, size, expected, result>>

\* What is left may be written right before the return.
Return ==
  /\ busy
  /\ Grow
  /\ busy' = FALSE
  /\ result' \in {"true", "false", "error"}
  /\ result' = "true" => Len(out') = Limit
  /\ UNCHANGED <<size, expected>>

Spec == Init /\ [][Call \/ Put \/ Return]_vars

=============================================================================
