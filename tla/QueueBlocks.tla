----------------------------- MODULE QueueBlocks -----------------------------
(***************************************************************************)
(* What goes into a queue block of DeflateDecoderMT, seen twice, one view  *)
(* at a time: the bytes it counts (DecodeBlock) and the bits of its        *)
(* instructions (DecodeInst).  The two share no state, but the block size. *)
(***************************************************************************)
EXTENDS DecodeBlock

CONSTANTS
  Literals, InstLengths, Distances, Leftovers, MaxBlocks    \* of DecodeInst

VARIABLES
  view,      \* "bytes", "bits"
  instBlock, instIx, avail, symbols, blocks

instVars == <<instBlock, instIx, avail, symbols, blocks>>

Bits == INSTANCE DecodeInst WITH Lengths <- InstLengths, block <- instBlock,
                                ix <- instIx

ASSUME BitsAssumption ==
  /\ Literals \subseteq 0 .. 255
  /\ InstLengths \subseteq 0 .. 65535 /\ Distances \subseteq 0 .. 65535
  /\ Leftovers \subseteq Bits!Inst /\ Leftovers # {}
  /\ MaxBlocks \in Nat

QueueInit ==
  /\ Init /\ Bits!Init
  /\ view \in {"bytes", "bits"}
  /\ view = "bytes" => \E l \in Leftovers : instBlock = [i \in Bits!Index |-> l]

BytesStep == view = "bytes" /\ Next /\ UNCHANGED <<instVars, view>>
BitsStep == view = "bits" /\ Bits!Next /\ UNCHANGED <<vars, view>>

QueueNext == BytesStep \/ BitsStep

QueueSpec == QueueInit /\ [][QueueNext]_<<vars, instVars, view>>

-----------------------------------------------------------------------------
(* Properties *)

\* Whatever the block held before, the writer executes exactly the symbols the
\* decoder packed into it, and does not take it for a stop block
\* (DecodeInst in DeflateDecoderMT_p.h, and the loops that fill and run it).
BlockSaysTheSymbols == Bits!BlockSaysTheSymbols

\* The assertion of DecodeInst::literal() that n is valid is not reached.
LiteralIndexValid == Bits!LiteralIndexValid

=============================================================================
