------------------------------- MODULE Huffman -------------------------------
(***************************************************************************)
(* HuffmanDecoder and Huffman_Generate(), one of them at a time.  That one *)
(* decodes what the other encodes is that both keep to the closed form of  *)
(* the canonical codes.                                                    *)
(***************************************************************************)
EXTENDS HuffmanDecoder, HuffmanEncode

VARIABLE side    \* "decoder", "encoder"

huffmanVars == <<vars, encVars, side>>

HuffmanInit ==
  /\ Init /\ EncInit
  /\ side \in {"decoder", "encoder"}
  /\ side = "decoder" => freqs = [s \in EncRange |-> 0]

Decoder == side = "decoder" /\ Next /\ UNCHANGED <<encVars, side>>
Encoder == side = "encoder" /\ EncNext /\ UNCHANGED <<vars, side>>

HuffmanNext == Decoder \/ Encoder

HuffmanSpec == HuffmanInit /\ [][HuffmanNext]_huffmanVars

=============================================================================
