---------------------------- MODULE MCRingBuffer ----------------------------
\* Instances of RingBuffer for TLC: a buffer of three bytes, so that a call
\* wraps, overlaps its own output and is flushed in the middle.
EXTENDS RingBuffer
=============================================================================
