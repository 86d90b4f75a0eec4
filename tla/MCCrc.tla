-------------------------------- MODULE MCCrc --------------------------------
\* Instances of Crc for TLC: bytes of two bits, three words of memory.
EXTENDS Crc

MCMemory == {[a \in 0 .. 11 |-> (a * a + a) % 4], [a \in 0 .. 11 |-> (3 * a + 1) % 4]}
=============================================================================
