------------------------- MODULE MCDeflateDecoderST -------------------------
\* Instances of DeflateDecoderST for TLC: chunks that cut matches and stored
\* blocks, and a ring buffer that flushes itself in the middle of a chunk.
EXTENDS DeflateDecoderST
=============================================================================
