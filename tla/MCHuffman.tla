------------------------------ MODULE MCHuffman ------------------------------
\* Instances of Huffman for TLC.
EXTENDS Huffman

=============================================================================
