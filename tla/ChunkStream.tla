----------------------------- MODULE ChunkStream -----------------------------
(***************************************************************************)
(* What DeflateDecoderMT::stream() promises its caller, with no threads,   *)
(* queue or blocks: the chunks of a stream are delivered in the order they *)
(* are produced, at most Capacity of them are on their way, the call ends, *)
(* and it says "true" only when every chunk was delivered.                 *)
(***************************************************************************)
EXTENDS Naturals, Sequences

CONSTANTS
  Capacity,    \* the number of blocks between producer and consumer
  MaxStreams   \* bound: calls

VARIABLES
  busy,        \* a call is under way
  calls,       \* the calls made
  produced,    \* the number of the last chunk produced
  before,      \* the number of the last chunk of the calls before
  delivered,   \* the chunks of this call delivered, in order
  outcome      \* of the last call, "none" while it is under way

vars == <<busy, calls, produced, before, delivered, outcome>>

Outcomes == {"true", "false", "error"}

Pending == produced - before - Len(delivered)

Init ==
  /\ busy = FALSE /\ calls = 0
  /\ produced = 0 /\ before = 0 /\ delivered = <<>>
  /\ outcome = "none"

Call ==
  /\ ~busy /\ calls < MaxStreams
  /\ busy' = TRUE /\ calls' = calls + 1
  /\ before' = produced /\ delivered' = <<>> /\ outcome' = "none"
  /\ UNCHANGED produced

Produce ==
  /\ busy /\ Pending < Capacity
  /\ produced' = produced + 1
  /\ UNCHANGED <<busy, calls, before, delivered, outcome>>

Deliver ==
  /\ busy /\ Pending > 0
  /\ delivered' = Append(delivered, before + Len(delivered) + 1)
  /\ UNCHANGED <<busy, calls, produced, before, outcome>>

Return(r) ==
  /\ busy
  /\ r = "true" => Pending = 0
  /\ busy' = FALSE /\ outcome' = r
  /\ UNCHANGED <<calls, produced, before, delivered>>

Next == Call \/ Produce \/ Deliver \/ \E r \in Outcomes : Return(r)

Spec == Init /\ [][Next]_vars

=============================================================================
