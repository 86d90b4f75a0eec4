---------------------------- MODULE MCQueueBlocks ----------------------------
\* Instances of QueueBlocks for TLC: queue blocks of three instructions, and
\* portions that cut matches.
EXTENDS QueueBlocks

\* A cleared instruction, two literals, a stop mark, a match.
MCLeftovers ==
  {[mCode |-> 0, mDistance |-> 65535], [mCode |-> 32768 + 512 + 7, mDistance |-> 9],
   [mCode |-> 65535, mDistance |-> 0], [mCode |-> 258, mDistance |-> 32767]}
=============================================================================
