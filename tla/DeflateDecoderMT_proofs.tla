----------------------- MODULE DeflateDecoderMT_proofs -----------------------
(***************************************************************************)
(* Proofs about DeflateDecoderMT, for every number of blocks, every choice *)
(* of faults and every bound.                                              *)
(***************************************************************************)
EXTENDS DeflateDecoderMT, TLAPS

\* The decoder holds the block before mNextAlloc while it fills, enqueues or stops
\* it, and none otherwise; so writeError(), which frees mNextAlloc, cannot free it.
DecoderBlock ==
  IF pc \in {"fill", "enqueue", "stop"}
    THEN /\ block \in Blocks
         /\ mStatuses[block] = "Allocated"
         /\ mNextAlloc = NextBlock(block)
    ELSE block = NoBlock

WriterBlock ==
  wpc \in {"write", "wrote"} => wblock \in Blocks /\ mStatuses[wblock] = "Dequeued"

\* A thread sleeps only where it calls allocBlock or dequeueBlock.
SleepersWait ==
  /\ "decoder" \in waiters => pc \in {"alloc", "last"}
  /\ "writer" \in waiters => wpc = "dequeue"

ControlInv ==
  /\ DecoderBlock
  /\ WriterBlock
  /\ RingHasOneUser
  /\ SleepersWait
  /\ NoLostWakeup

IInv == TypeOK /\ ControlInv

-----------------------------------------------------------------------------
\* The next index is an index, and another one.
LEMMA NextBlockLemma ==
  ASSUME NEW b \in Blocks
  PROVE  NextBlock(b) \in Blocks /\ NextBlock(b) # b
BY NrBlocksAssumption DEF Blocks, NextBlock

\* Init establishes the inductive invariant.
LEMMA InitIInv == Init => IInv
BY NrBlocksAssumption, SMTT(60)
DEF Init, QueueInit, IInv, ControlInv, TypeOK, QueueTypeOK, DecoderBlock, WriterBlock,
    RingHasOneUser, SleepersWait, NoLostWakeup, Blocks, NoBlock, Cleared, Stop,
    Statuses, Threads, FillEnds

\* TypeOK, action by action; the Boolean facts are steps of their own.
LEMMA TypeStep == IInv /\ [Next]_vars => TypeOK'
<1> SUFFICES ASSUME TypeOK, WriterBlock, DecoderBlock, [Next]_vars PROVE TypeOK'
  BY DEF IInv, ControlInv
<1> USE NrBlocksAssumption
    DEF TypeOK, QueueTypeOK, Blocks, FillEnds, Statuses, Threads, Cleared, Stop,
        NoBlock, writerVars, interrupterVars
<1>1. CASE Stream
  <2>1. streaming' \in BOOLEAN /\ mKeepHistory' \in BOOLEAN /\ broken' \in BOOLEAN
    BY <1>1, ConfigAssumption DEF Stream
  <2> QED BY <1>1, <2>1 DEF Stream, queueVars
<1>2. CASE Begin
  <2>1. mInterrupted' \in BOOLEAN BY <1>2 DEF Begin
  <2> QED BY <1>2, <2>1 DEF Begin, queueVars
<1>3. CASE Setup
  BY <1>3 DEF Setup, queueVars
<1>4. CASE ResetBlocks
  BY <1>4 DEF ResetBlocks, ResetBlock, NextBlock
<1>5. CASE ResetAlloc
  BY <1>5 DEF ResetAlloc, ResetNextAlloc
<1>6. CASE ResetDequeue
  BY <1>6 DEF ResetDequeue, ResetNextDequeue
<1>7. CASE CreateWriter
  BY <1>7 DEF CreateWriter, queueVars
<1>8. CASE Loop
  BY <1>8 DEF Loop, queueVars
<1>9. CASE DecoderWaits
  BY <1>9 DEF DecoderWaits, AllocWait, decoderVars
<1>10. CASE Alloc
  BY <1>10 DEF Alloc, AllocBlock, NextBlock
<1>11. CASE AllocReportsError
  BY <1>11 DEF AllocReportsError, AllocRefused, queueVars
<1>12. CASE FillFails
  BY <1>12 DEF FillFails, DecoderBlock
<1>13. CASE Corrupted
  BY <1>13 DEF Corrupted, Interrupt
<1>14. CASE LastBlock
  BY <1>14 DEF LastBlock, AllocBlock, NextBlock
<1>15. CASE LastBlockNull
  BY <1>15 DEF LastBlockNull, AllocRefused, queueVars, decoderVars
<1>16. CASE EnqueueStop
  BY <1>16, SMTT(40) DEF EnqueueStop, DecoderBlock
<1>17. CASE WriterWaits
  BY <1>17 DEF WriterWaits, DequeueWait, decoderVars
<1>18. CASE WriterStops
  BY <1>18 DEF WriterStops, DequeueStop, queueVars, decoderVars
<1>19. CASE WriterDequeues
  BY <1>19 DEF WriterDequeues, DequeueBlock, NextBlock, decoderVars
<1>20. CASE WriterPutsOutside
  BY <1>20 DEF WriterPutsOutside, queueVars, decoderVars
<1>21. CASE WriterFrees
  BY <1>21 DEF WriterFrees, WroteBlock, WriterBlock, decoderVars
<1>22. CASE WriterReportsError
  BY <1>22 DEF WriterReportsError, WriteError, decoderVars
<1>23. CASE InterruptQueue
  BY <1>23 DEF InterruptQueue, Interrupt, decoderVars
<1>24. CASE InterruptNullQueue
  BY <1>24 DEF InterruptNullQueue, queueVars, decoderVars
<1>25. CASE \E n \in 0 .. 1, end \in FillEnds : Fill(n, end)
  BY <1>25 DEF Fill, DecoderBlock
<1>26. CASE Enqueue
  <2>1. pc' \in {"loop", "alloc", "last"}
    BY <1>26 DEF Enqueue, AfterEnqueue
  <2> QED BY <1>26, <2>1 DEF Enqueue, EnqueueBlock, DecoderBlock
<1>27. CASE Join
  <2>1. /\ pc' \in {"idle", "flush"}
        /\ result' \in {"none", "true", "false", "error"}
    BY <1>27 DEF Join
  <2> QED BY <1>27, <2>1 DEF Join, queueVars
<1>28. CASE Flush
  <2>1. broken' \in BOOLEAN /\ ringFull' \in BOOLEAN BY <1>28 DEF Flush
  <2> QED BY <1>28, <2>1 DEF Flush, queueVars
<1>29. CASE WriterWrites
  <2>1. out' \in Seq(Int)
    BY <1>29 DEF WriterWrites, WriterBlock
  <2> QED BY <1>29, <2>1 DEF WriterWrites, queueVars, decoderVars
<1>30. CASE WriterFails
  <2>1. broken' \in BOOLEAN BY <1>30 DEF WriterFails
  <2> QED BY <1>30, <2>1 DEF WriterFails, queueVars, decoderVars
<1>31. CASE InterruptFlag
  <2>1. mInterrupted' \in BOOLEAN BY <1>31 DEF InterruptFlag
  <2> QED BY <1>31, <2>1 DEF InterruptFlag, queueVars, decoderVars
<1>32. CASE UNCHANGED vars
  BY <1>32 DEF vars, queueVars, decoderVars
<1> QED
  BY <1>1, <1>2, <1>3, <1>4, <1>5, <1>6, <1>7, <1>8, <1>9, <1>10, <1>11,
     <1>12, <1>13, <1>14, <1>15, <1>16, <1>17, <1>18, <1>19, <1>20, <1>21, <1>22,
     <1>23, <1>24, <1>25, <1>26, <1>27, <1>28, <1>29, <1>30, <1>31, <1>32
     DEF Next, Decoder, Writer, Interrupter, Finished

\* What interrupt() and corrupted() leave alone: the blocks in use and mNextAlloc.
\* Afterwards nobody sleeps.
LEMMA InterruptLemma ==
  ASSUME QueueTypeOK, Interrupt
  PROVE  /\ \A b \in Blocks : Held(b) => mStatuses'[b] = mStatuses[b]
         /\ mNextAlloc' = mNextAlloc
         /\ waiters' = {}
BY DEF Interrupt, FirstNotHeld, Held, QueueTypeOK

\* The rest of the inductive invariant, action by action.
LEMMA ControlStep == IInv /\ [Next]_vars => ControlInv'
<1> SUFFICES ASSUME TypeOK, ControlInv, [Next]_vars PROVE ControlInv'
  BY DEF IInv
<1> USE NrBlocksAssumption
    DEF ControlInv, TypeOK, QueueTypeOK, DecoderBlock, WriterBlock, RingHasOneUser,
        SleepersWait, NoLostWakeup, Blocks, NextBlock, Statuses, NoBlock,
        writerVars, interrupterVars
<1>1. CASE Stream
  BY <1>1 DEF Stream, queueVars
<1>2. CASE Begin
  BY <1>2 DEF Begin, queueVars
<1>3. CASE Setup
  BY <1>3 DEF Setup, queueVars
<1>4. CASE ResetBlocks
  BY <1>4 DEF ResetBlocks, ResetBlock
<1>5. CASE ResetAlloc
  BY <1>5 DEF ResetAlloc, ResetNextAlloc
<1>6. CASE ResetDequeue
  BY <1>6 DEF ResetDequeue, ResetNextDequeue
<1>7. CASE CreateWriter
  BY <1>7 DEF CreateWriter, queueVars
<1>8. CASE Loop
  BY <1>8 DEF Loop, queueVars
<1>9. CASE DecoderWaits
  BY <1>9 DEF DecoderWaits, AllocWait, decoderVars
<1>10. CASE Alloc
  BY <1>10 DEF Alloc, AllocBlock
<1>11. CASE AllocReportsError
  BY <1>11 DEF AllocReportsError, AllocRefused, queueVars
<1>12. CASE FillFails
  BY <1>12 DEF FillFails
<1>13. CASE Enqueue
  BY <1>13 DEF Enqueue, EnqueueBlock, AfterEnqueue
<1>14. CASE LastBlock
  BY <1>14 DEF LastBlock, AllocBlock
<1>15. CASE LastBlockNull
  BY <1>15 DEF LastBlockNull, AllocRefused, queueVars, decoderVars
<1>16. CASE EnqueueStop
  BY <1>16 DEF EnqueueStop
<1>17. CASE Join
  BY <1>17 DEF Join, queueVars
<1>18. CASE Flush
  BY <1>18 DEF Flush, queueVars
<1>19. CASE WriterWaits
  BY <1>19 DEF WriterWaits, DequeueWait, decoderVars
<1>20. CASE WriterStops
  BY <1>20 DEF WriterStops, DequeueStop, queueVars, decoderVars
<1>21. CASE WriterDequeues
  BY <1>21 DEF WriterDequeues, DequeueBlock, decoderVars
<1>22. CASE WriterWrites
  BY <1>22 DEF WriterWrites, queueVars, decoderVars
<1>23. CASE WriterFails
  BY <1>23 DEF WriterFails, queueVars, decoderVars
<1>24. CASE WriterPutsOutside
  BY <1>24 DEF WriterPutsOutside, queueVars, decoderVars
<1>25. CASE WriterFrees
  BY <1>25 DEF WriterFrees, WroteBlock, decoderVars
<1>26. CASE WriterReportsError
  BY <1>26 DEF WriterReportsError, WriteError, decoderVars
<1>27. CASE InterruptFlag
  BY <1>27 DEF InterruptFlag, queueVars, decoderVars
<1>28. CASE InterruptNullQueue
  BY <1>28 DEF InterruptNullQueue, queueVars, decoderVars
<1>29. CASE \E n \in 0 .. 1, end \in FillEnds : Fill(n, end)
  BY <1>29 DEF Fill
<1>30. CASE Corrupted
  BY <1>30, InterruptLemma DEF Corrupted, Held
<1>31. CASE InterruptQueue
  BY <1>31, InterruptLemma DEF InterruptQueue, Held, decoderVars
<1>32. CASE UNCHANGED vars
  BY <1>32 DEF vars, queueVars, decoderVars
<1> QED
  BY <1>1, <1>2, <1>3, <1>4, <1>5, <1>6, <1>7, <1>8, <1>9, <1>10, <1>11,
     <1>12, <1>13, <1>14, <1>15, <1>16, <1>17, <1>18, <1>19, <1>20, <1>21,
     <1>22, <1>23, <1>24, <1>25, <1>26, <1>27, <1>28, <1>29, <1>30, <1>31,
     <1>32
     DEF Next, Decoder, Writer, Interrupter, Finished

-----------------------------------------------------------------------------
\* The inductive invariant holds in every reachable state.
THEOREM Invariant == Spec => []IInv
<1>1. IInv /\ [Next]_vars => IInv'
  BY TypeStep, ControlStep DEF IInv
<1> QED BY InitIInv, <1>1, PTL DEF Spec

\* Every variable keeps its type.
THEOREM TypeCorrect == Spec => []TypeOK
BY Invariant, PTL DEF IInv, ControlInv

\* No wakeup is lost: a thread sleeping in allocBlock or dequeueBlock still has to.
THEOREM WakeupsKept == Spec => []NoLostWakeup
BY Invariant, PTL DEF IInv, ControlInv

\* Each block in use belongs to one thread.
THEOREM BlocksOwned == Spec => []BlockOwnership
<1>1. IInv => BlockOwnership
  BY DEF IInv, ControlInv, DecoderBlock, WriterBlock, BlockOwnership
<1> QED BY Invariant, <1>1, PTL

\* The writer thread runs only inside stream(), between start() and wait().
THEOREM RingOwned == Spec => []RingHasOneUser
BY Invariant, PTL DEF IInv, ControlInv

-----------------------------------------------------------------------------
(* The loop of DecodeInstQueue::interrupt() ends: with four blocks or more, and a *)
(* queue that is reset for each stream, not all of them are in use.  An exception *)
(* leaves one block Allocated for ever, lastBlock() allocates another, and the    *)
(* writer has a third, so that three would not do.                                *)

\* Before the writer starts, the reset queue has no block in use; the blocks the
\* loop of reset() has been through have none either.
ResetDone ==
  /\ pc # "resetBlocks" => ri = 0
  /\ pc = "resetBlocks" => \A b \in Blocks : b < ri => ~Held(b)
  /\ pc \in {"resetAlloc", "resetDequeue", "start"} => \A b \in Blocks : ~Held(b)

\* The blocks still allocated are among the last two that were handed out: the one
\* the decoder fills or stops, and the one an exception made it forget.
AllocatedBlocks ==
  \A b \in Blocks : mStatuses[b] = "Allocated" =>
    /\ pc \notin {"loop", "alloc"}
    /\ pc \in {"fill", "enqueue"} => b = block
    /\ pc \in {"corrupted", "last"} => NextBlock(b) = mNextAlloc
    /\ pc # "resetDequeue" =>
         NextBlock(b) = mNextAlloc \/ NextBlock(NextBlock(b)) = mNextAlloc

\* At most one block is dequeued: the writer's, or the one on which it failed.
DequeuedBlocks ==
  /\ wpc = "dequeue" => \A b \in Blocks : mStatuses[b] # "Dequeued"
  /\ wpc \in {"write", "wrote", "failed"} =>
       \A b \in Blocks : mStatuses[b] = "Dequeued" => b = wblock
  /\ \A b, c \in Blocks : mStatuses[b] = "Dequeued" /\ mStatuses[c] = "Dequeued" => b = c

HeldInv ==
  /\ ~mKeepHistory
  /\ ResetDone
  /\ AllocatedBlocks
  /\ DequeuedBlocks

-----------------------------------------------------------------------------
\* NextBlock walks a cycle: no two blocks have the same next one.
LEMMA NextBlockInjective ==
  ASSUME NEW b \in Blocks, NEW c \in Blocks, NextBlock(b) = NextBlock(c)
  PROVE  b = c
BY NrBlocksAssumption DEF Blocks, NextBlock

\* What interrupt() does to the statuses: no block gets into use by it.
LEMMA InterruptHolds ==
  ASSUME QueueTypeOK, Interrupt
  PROVE  \A b \in Blocks : mStatuses'[b] = mStatuses[b] \/ mStatuses'[b] = "Enqueued"
BY DEF Interrupt, QueueTypeOK

\* Init establishes the invariant.
LEMMA InitHeld == Init => HeldInv
BY DEF Init, QueueInit, HeldInv, ResetDone, AllocatedBlocks, DequeuedBlocks, Held

\* Each step keeps it, provided the history is never kept.
LEMMA HeldStep ==
  ASSUME Histories \subseteq {FALSE}
  PROVE  IInv /\ HeldInv /\ [Next]_vars => HeldInv'
<1> SUFFICES ASSUME TypeOK, ControlInv, HeldInv, [Next]_vars PROVE HeldInv'
  BY DEF IInv
<1> USE NrBlocksAssumption, NextBlockInjective
    DEF HeldInv, ControlInv, TypeOK, QueueTypeOK, DecoderBlock, WriterBlock,
        RingHasOneUser, ResetDone, AllocatedBlocks, DequeuedBlocks, Held, Statuses,
        NoBlock, writerVars, interrupterVars
<1>1. CASE Stream
  BY <1>1 DEF Stream, queueVars
<1>2. CASE Begin
  BY <1>2 DEF Begin, queueVars
<1>3. CASE Setup
  <2>1. /\ pc' \in {"start", "resetBlocks"}
        /\ UNCHANGED <<queueVars, wpc, wblock, avail, block, ri>>
    BY <1>3 DEF Setup
  <2>2. wpc' = "none" /\ block' = NoBlock
    BY <1>3, <2>1 DEF Setup
  <2> QED BY <1>3, <2>1, <2>2 DEF Setup, queueVars
<1>4. CASE ResetBlocks
  BY <1>4 DEF ResetBlocks, ResetBlock, NextBlock, Blocks
<1>5. CASE ResetAlloc
  BY <1>5 DEF ResetAlloc, ResetNextAlloc
<1>6. CASE ResetDequeue
  BY <1>6 DEF ResetDequeue, ResetNextDequeue
<1>7. CASE CreateWriter
  BY <1>7 DEF CreateWriter, queueVars
<1>8. CASE Loop
  BY <1>8 DEF Loop, queueVars
<1>9. CASE DecoderWaits
  BY <1>9 DEF DecoderWaits, AllocWait, decoderVars
<1>10. CASE Alloc
  BY <1>10 DEF Alloc, AllocBlock, NextBlock, Blocks
<1>11. CASE AllocReportsError
  BY <1>11 DEF AllocReportsError, AllocRefused, queueVars
<1>12. CASE FillFails
  BY <1>12 DEF FillFails
<1>13. CASE Enqueue
  BY <1>13 DEF Enqueue, EnqueueBlock, AfterEnqueue
<1>14. CASE LastBlock
  BY <1>14, ZenonT(60) DEF LastBlock, AllocBlock, NextBlock, Blocks
<1>15. CASE LastBlockNull
  BY <1>15 DEF LastBlockNull, AllocRefused, queueVars, decoderVars
<1>16. CASE EnqueueStop
  BY <1>16 DEF EnqueueStop
<1>17. CASE Join
  BY <1>17 DEF Join, queueVars
<1>18. CASE Flush
  BY <1>18 DEF Flush, queueVars
<1>19. CASE WriterWaits
  BY <1>19 DEF WriterWaits, DequeueWait, decoderVars
<1>20. CASE WriterStops
  BY <1>20 DEF WriterStops, DequeueStop, queueVars, decoderVars
<1>21. CASE WriterDequeues
  BY <1>21 DEF WriterDequeues, DequeueBlock, decoderVars
<1>22. CASE WriterWrites
  BY <1>22 DEF WriterWrites, queueVars, decoderVars
<1>23. CASE WriterFails
  BY <1>23 DEF WriterFails, queueVars, decoderVars
<1>24. CASE WriterPutsOutside
  BY <1>24 DEF WriterPutsOutside, queueVars, decoderVars
<1>25. CASE WriterFrees
  BY <1>25 DEF WriterFrees, WroteBlock, decoderVars
<1>26. CASE WriterReportsError
  BY <1>26 DEF WriterReportsError, WriteError, decoderVars
<1>27. CASE InterruptFlag
  BY <1>27 DEF InterruptFlag, queueVars, decoderVars
<1>28. CASE InterruptNullQueue
  BY <1>28 DEF InterruptNullQueue, queueVars, decoderVars
<1>29. CASE \E n \in 0 .. 1, end \in FillEnds : Fill(n, end)
  BY <1>29 DEF Fill
<1>30. CASE Corrupted
  BY <1>30, InterruptHolds, InterruptLemma DEF Corrupted
<1>31. CASE InterruptQueue
  BY <1>31, InterruptHolds, InterruptLemma DEF InterruptQueue, decoderVars
<1>32. CASE UNCHANGED vars
  BY <1>32 DEF vars, queueVars, decoderVars
<1> QED
  BY <1>1, <1>2, <1>3, <1>4, <1>5, <1>6, <1>7, <1>8, <1>9, <1>10, <1>11,
     <1>12, <1>13, <1>14, <1>15, <1>16, <1>17, <1>18, <1>19, <1>20, <1>21,
     <1>22, <1>23, <1>24, <1>25, <1>26, <1>27, <1>28, <1>29, <1>30, <1>31,
     <1>32
     DEF Next, Decoder, Writer, Interrupter, Finished

\* Of four blocks at most two are allocated and one is dequeued.
LEMMA HeldBound ==
  ASSUME NR_BLOCKS >= 4, TypeOK, HeldInv
  PROVE  InterruptLoopEnds
<1> SUFFICES ASSUME \A b \in Blocks : Held(b) PROVE FALSE
  BY DEF InterruptLoopEnds
<1>1. 0 \in Blocks /\ 1 \in Blocks /\ 2 \in Blocks /\ 3 \in Blocks
  BY NrBlocksAssumption DEF Blocks
<1>2. \A b \in Blocks : mStatuses[b] = "Allocated" \/ mStatuses[b] = "Dequeued"
  BY DEF Held
<1>3. pc # "resetDequeue"
  BY <1>1 DEF HeldInv, ResetDone
<1>4. ASSUME NEW a \in Blocks, NEW b \in Blocks, NEW c \in Blocks,
             mStatuses[a] = "Allocated", mStatuses[b] = "Allocated",
             mStatuses[c] = "Allocated"
      PROVE  a = b \/ a = c \/ b = c
  <2>1. \A d \in {a, b, c} :
          NextBlock(d) = mNextAlloc \/ NextBlock(NextBlock(d)) = mNextAlloc
    BY <1>3, <1>4 DEF HeldInv, AllocatedBlocks
  <2>2. \A d \in {a, b, c} : NextBlock(d) \in Blocks
    BY NextBlockLemma
  <2> QED BY <2>1, <2>2, NextBlockInjective
<1>5. \A a, b \in Blocks :
        mStatuses[a] = "Dequeued" /\ mStatuses[b] = "Dequeued" => a = b
  BY DEF HeldInv, DequeuedBlocks
<1> QED
  BY <1>1, <1>2, <1>4, <1>5

-----------------------------------------------------------------------------
\* interrupt() and corrupted() always find a block that is not in use, so that
\* their loop, which holds mLock, ends.
THEOREM InterruptEnds ==
  ASSUME NR_BLOCKS >= 4, Histories \subseteq {FALSE}
  PROVE  Spec => []InterruptLoopEnds
<1>1. HeldInv /\ IInv /\ [Next]_vars => HeldInv'
  BY HeldStep
<1>2. IInv /\ HeldInv => InterruptLoopEnds
  BY HeldBound DEF IInv
<1> QED BY InitHeld, Invariant, <1>1, <1>2, PTL DEF Spec

-----------------------------------------------------------------------------
(* The queue is a FIFO, for every number of blocks and whatever faults there *)
(* are: the writer executes the chunks in order, and progress() reports what *)
(* it executed.                                                              *)

\* The blocks that wait for the writer, with instructions.
Waiting == {b \in Blocks : mStatuses[b] = "Enqueued" /\ ~IsStop(b)}

\* The places of the blocks in the queue, from mNextDequeue on.
Place == [b \in Blocks |-> Ahead(b)]

\* Between the reset of the queue and the end of stream().
Active == {"start", "loop", "alloc", "fill", "enqueue", "corrupted", "last", "stop",
           "join", "flush"}

\* Where a loop decodes.
Decoding == {"start", "loop", "alloc", "fill", "enqueue"}

\* The block to be enqueued next, and how many wait before it.
Border == IF pc \in {"fill", "enqueue"} THEN block ELSE mNextAlloc

Depth == IF Border \in Waiting THEN NR_BLOCKS ELSE Place[Border]

\* The last chunk the writer took.
Taken == base + Len(out) + (IF wpc = "write" THEN avail ELSE 0)

\* The last chunk enqueued, while a loop decodes.
Given == chunks - (IF pc = "enqueue" THEN ix ELSE 0)

\* The writer takes no block any more in this stream.
Halted ==
  \/ mStatuses[mNextDequeue] = "Enqueued" /\ IsStop(mNextDequeue)
  \/ wpc = "failed"
  \/ wpc = "none" /\ pc # "start"

\* What the reset has achieved: no chunk of an earlier stream is left.
FreshInv ==
  /\ pc \in {"begin", "setup", "resetBlocks", "resetAlloc", "resetDequeue", "start"}
       => chunks = base /\ out = <<>>
  /\ pc # "resetBlocks" => ri = 0
  /\ pc = "resetBlocks" => \A b \in Waiting : b >= ri
  /\ pc \in {"resetAlloc", "resetDequeue"} => Waiting = {}
  /\ pc = "resetDequeue" => mNextAlloc = 0

\* The block about to be enqueued holds the last chunk, or nothing and is the last.
FillInv ==
  pc = "enqueue" =>
    /\ ix = 1 => mBlocks[block] = chunks
    /\ ix = 0 => fillEnd = "final"
    /\ ~IsStop(block)

\* The writer's block holds the chunk that is next.
WriterInv == wpc = "write" /\ avail = 1 => mBlocks[wblock] = base + Len(out) + 1

\* A block that waits holds the chunk that its place says, and the blocks before it
\* wait too, with a chunk each.
ChainInv ==
  \A b \in Waiting :
    /\ mLengths[b] = 1 => mBlocks[b] = Taken + Place[b] + 1
    /\ \A c \in Blocks : Place[c] < Place[b] => c \in Waiting /\ mLengths[c] = 1

\* While a loop decodes, the blocks that wait are those before the border, with a
\* chunk each, and no chunk is anywhere else.
BorderInv ==
  pc \in Decoding =>
    /\ \A b \in Blocks : b \in Waiting <=> Place[b] < Depth
    /\ \A b \in Waiting : mLengths[b] = 1
    /\ Taken + Depth = Given
    /\ Border \in Waiting => Border = mNextDequeue

\* The order is kept by the writer's block alone once the writer is halted.
OrderInv ==
  /\ FreshInv
  /\ FillInv
  /\ ~mKeepHistory =>
       /\ WriterInv
       /\ OutputInOrder
       /\ pc \in Active /\ ~Halted => ChainInv /\ BorderInv

-----------------------------------------------------------------------------
\* Places are numbered from mNextDequeue on, each block once, and the next block has
\* the next place.
LEMMA PlaceLemma ==
  ASSUME mNextDequeue \in Blocks
  PROVE  /\ Place \in [Blocks -> 0 .. NR_BLOCKS - 1]
         /\ \A b, c \in Blocks : Place[b] = Place[c] => b = c
         /\ Place[mNextDequeue] = 0
         /\ \A b \in Blocks :
              Place[NextBlock(b)] = IF Place[b] = NR_BLOCKS - 1 THEN 0 ELSE Place[b] + 1
<1>1. \A b \in Blocks : Place[b] = IF b >= mNextDequeue THEN b - mNextDequeue
                                   ELSE b - mNextDequeue + NR_BLOCKS
  BY DEF Place, Ahead
<1>2. \A b \in Blocks : NextBlock(b) \in Blocks
  BY NextBlockLemma
<1>3. Place \in [Blocks -> 0 .. NR_BLOCKS - 1]
  BY <1>1, NrBlocksAssumption DEF Place, Blocks, Ahead
<1>4. \A b, c \in Blocks : Place[b] = Place[c] => b = c
  BY <1>1, NrBlocksAssumption DEF Blocks
<1>5. Place[mNextDequeue] = 0
  BY <1>1, NrBlocksAssumption DEF Blocks
<1>6. \A b \in Blocks :
        Place[NextBlock(b)] = IF Place[b] = NR_BLOCKS - 1 THEN 0 ELSE Place[b] + 1
  BY <1>1, <1>2, NrBlocksAssumption DEF Blocks, NextBlock
<1> QED BY <1>3, <1>4, <1>5, <1>6

\* What dequeueBlock() does to the numbering.
LEMMA PlaceShift ==
  ASSUME mNextDequeue \in Blocks, mNextDequeue' = NextBlock(mNextDequeue)
  PROVE  \A b \in Blocks :
           Place'[b] = IF b = mNextDequeue THEN NR_BLOCKS - 1 ELSE Place[b] - 1
<1>1. \A b \in Blocks :
        /\ Place[b] = IF b >= mNextDequeue THEN b - mNextDequeue
                      ELSE b - mNextDequeue + NR_BLOCKS
        /\ Place'[b] = IF b >= mNextDequeue' THEN b - mNextDequeue'
                       ELSE b - mNextDequeue' + NR_BLOCKS
  BY DEF Place, Ahead
<1> QED BY <1>1, NrBlocksAssumption DEF Blocks, NextBlock

\* What the blocks in the reset and in the fill hold.
LEMMA FreshStep == IInv /\ OrderInv /\ [Next]_vars => FreshInv' /\ FillInv'
<1> SUFFICES ASSUME TypeOK, ControlInv, FreshInv, FillInv, [Next]_vars
             PROVE  FreshInv' /\ FillInv'
  BY DEF IInv, OrderInv
<1> USE NrBlocksAssumption
    DEF ControlInv, TypeOK, QueueTypeOK, DecoderBlock, WriterBlock, RingHasOneUser,
        FreshInv, FillInv, Waiting, IsStop, Stop, Cleared, Blocks, NextBlock, NoBlock,
        writerVars, interrupterVars
<1>1. CASE Stream
  BY <1>1 DEF Stream, queueVars
<1>2. CASE Begin
  BY <1>2 DEF Begin, queueVars
<1>3. CASE Setup
  BY <1>3 DEF Setup, queueVars
<1>4. CASE ResetBlocks
  BY <1>4 DEF ResetBlocks, ResetBlock
<1>5. CASE ResetAlloc
  BY <1>5 DEF ResetAlloc, ResetNextAlloc
<1>6. CASE ResetDequeue
  BY <1>6 DEF ResetDequeue, ResetNextDequeue
<1>7. CASE CreateWriter
  BY <1>7 DEF CreateWriter, queueVars
<1>8. CASE Loop
  BY <1>8 DEF Loop, queueVars
<1>9. CASE DecoderWaits
  BY <1>9 DEF DecoderWaits, AllocWait, decoderVars
<1>10. CASE Alloc
  BY <1>10 DEF Alloc, AllocBlock
<1>11. CASE AllocReportsError
  BY <1>11 DEF AllocReportsError, AllocRefused, queueVars
<1>12. CASE FillFails
  BY <1>12 DEF FillFails
<1>13. CASE Enqueue
  BY <1>13 DEF Enqueue, EnqueueBlock, AfterEnqueue
<1>14. CASE LastBlock
  BY <1>14 DEF LastBlock, AllocBlock
<1>15. CASE LastBlockNull
  BY <1>15 DEF LastBlockNull, AllocRefused, queueVars, decoderVars
<1>16. CASE EnqueueStop
  BY <1>16 DEF EnqueueStop
<1>17. CASE Join
  BY <1>17 DEF Join, queueVars
<1>18. CASE Flush
  BY <1>18 DEF Flush, queueVars
<1>19. CASE WriterWaits
  BY <1>19 DEF WriterWaits, DequeueWait, decoderVars
<1>20. CASE WriterStops
  BY <1>20 DEF WriterStops, DequeueStop, queueVars, decoderVars
<1>21. CASE WriterDequeues
  BY <1>21 DEF WriterDequeues, DequeueBlock, decoderVars
<1>22. CASE WriterWrites
  BY <1>22 DEF WriterWrites, queueVars, decoderVars
<1>23. CASE WriterFails
  BY <1>23 DEF WriterFails, queueVars, decoderVars
<1>24. CASE WriterPutsOutside
  BY <1>24 DEF WriterPutsOutside, queueVars, decoderVars
<1>25. CASE WriterFrees
  BY <1>25 DEF WriterFrees, WroteBlock, decoderVars
<1>26. CASE WriterReportsError
  BY <1>26 DEF WriterReportsError, WriteError, decoderVars
<1>27. CASE InterruptFlag
  BY <1>27 DEF InterruptFlag, queueVars, decoderVars
<1>28. CASE InterruptNullQueue
  BY <1>28 DEF InterruptNullQueue, queueVars, decoderVars
<1>29. CASE \E n \in 0 .. 1, end \in FillEnds : Fill(n, end)
  BY <1>29 DEF Fill
<1>30. CASE Corrupted
  BY <1>30 DEF Corrupted, Interrupt, FirstNotHeld, Held
<1>31. CASE InterruptQueue
  BY <1>31, SMTT(40) DEF InterruptQueue, Interrupt, FirstNotHeld, Held, decoderVars
<1>32. CASE UNCHANGED vars
  BY <1>32 DEF vars, queueVars, decoderVars
<1> QED
  BY <1>1, <1>2, <1>3, <1>4, <1>5, <1>6, <1>7, <1>8, <1>9, <1>10, <1>11,
     <1>12, <1>13, <1>14, <1>15, <1>16, <1>17, <1>18, <1>19, <1>20, <1>21,
     <1>22, <1>23, <1>24, <1>25, <1>26, <1>27, <1>28, <1>29, <1>30, <1>31,
     <1>32
     DEF Next, Decoder, Writer, Interrupter, Finished

\* What an Append does.
LEMMA AppendLemma ==
  ASSUME NEW s \in Seq(Int), NEW e \in Int
  PROVE  /\ Len(s) \in Nat
         /\ Len(Append(s, e)) = Len(s) + 1
         /\ \A i \in 1 .. Len(s) : Append(s, e)[i] = s[i]
         /\ Append(s, e)[Len(s) + 1] = e
OBVIOUS

\* What the writer holds, and what it has written.
LEMMA WriterStep ==
  IInv /\ OrderInv /\ [Next]_vars /\ ~mKeepHistory' => WriterInv' /\ OutputInOrder'
<1> SUFFICES ASSUME TypeOK, ControlInv, FreshInv, [Next]_vars, ~mKeepHistory',
                    ~mKeepHistory => WriterInv /\ OutputInOrder,
                    ~mKeepHistory /\ pc \in Active /\ ~Halted => ChainInv
             PROVE  WriterInv' /\ OutputInOrder'
  BY DEF IInv, OrderInv
<1> USE NrBlocksAssumption
    DEF ControlInv, TypeOK, QueueTypeOK, DecoderBlock, WriterBlock, RingHasOneUser,
        FreshInv, WriterInv, OutputInOrder, Blocks, NoBlock, writerVars,
        interrupterVars
<1>1. CASE Stream
  BY <1>1 DEF Stream, queueVars
<1>2. CASE Begin
  BY <1>2 DEF Begin, queueVars
<1>3. CASE Setup
  BY <1>3 DEF Setup, queueVars
<1>4. CASE ResetBlocks
  BY <1>4 DEF ResetBlocks, ResetBlock
<1>5. CASE ResetAlloc
  BY <1>5 DEF ResetAlloc, ResetNextAlloc
<1>6. CASE ResetDequeue
  BY <1>6 DEF ResetDequeue, ResetNextDequeue
<1>7. CASE CreateWriter
  BY <1>7 DEF CreateWriter, queueVars
<1>8. CASE Loop
  BY <1>8 DEF Loop, queueVars
<1>9. CASE DecoderWaits
  BY <1>9 DEF DecoderWaits, AllocWait, decoderVars
<1>10. CASE Alloc
  BY <1>10 DEF Alloc, AllocBlock
<1>11. CASE AllocReportsError
  BY <1>11 DEF AllocReportsError, AllocRefused, queueVars
<1>12. CASE FillFails
  BY <1>12 DEF FillFails
<1>13. CASE Enqueue
  BY <1>13 DEF Enqueue, EnqueueBlock, AfterEnqueue
<1>14. CASE LastBlock
  BY <1>14 DEF LastBlock, AllocBlock
<1>15. CASE LastBlockNull
  BY <1>15 DEF LastBlockNull, AllocRefused, queueVars, decoderVars
<1>16. CASE EnqueueStop
  BY <1>16 DEF EnqueueStop
<1>17. CASE Join
  BY <1>17 DEF Join, queueVars
<1>18. CASE Flush
  BY <1>18 DEF Flush, queueVars
<1>19. CASE WriterWaits
  BY <1>19 DEF WriterWaits, DequeueWait, decoderVars
<1>20. CASE WriterStops
  BY <1>20 DEF WriterStops, DequeueStop, queueVars, decoderVars
<1>21. CASE WriterDequeues
  <2>1. mNextDequeue \in Waiting /\ pc \in Active /\ ~Halted
    BY <1>21 DEF WriterDequeues, DequeueBlock, Waiting, IsStop, Active, Halted
  <2>2. mLengths[mNextDequeue] = 1 => mBlocks[mNextDequeue] = base + Len(out) + 1
    BY <1>21, <2>1, PlaceLemma DEF WriterDequeues, decoderVars, ChainInv, Taken
  <2> QED BY <1>21, <2>2 DEF WriterDequeues, DequeueBlock, decoderVars
<1>22. CASE WriterWrites
  <2>1. /\ wpc = "write" /\ wpc' = "wrote" /\ mKeepHistory' = mKeepHistory
        /\ base' = base
        /\ out' = IF avail = 0 THEN out ELSE Append(out, mBlocks[wblock])
    BY <1>22 DEF WriterWrites, decoderVars
  <2>2. WriterInv'
    BY <2>1
  <2>3. CASE avail = 0
    BY <2>1, <2>2, <2>3
  <2>4. CASE avail = 1
    <3> DEFINE e == mBlocks[wblock]
    <3>1. e \in Int /\ e = base + Len(out) + 1
      BY <2>1, <2>4 DEF Stop
    <3>2. out' = Append(out, e)
      BY <2>1, <2>4
    <3> HIDE DEF e
    <3>3. /\ Len(out) \in Nat
          /\ Len(out') = Len(out) + 1
          /\ \A i \in 1 .. Len(out) : out'[i] = out[i]
          /\ out'[Len(out) + 1] = e
      BY <3>1, <3>2, AppendLemma
    <3>4. \A i \in 1 .. Len(out) : out[i] = base + i
      BY <2>1
    <3>5. \A i \in 1 .. Len(out') : i \in 1 .. Len(out) \/ i = Len(out) + 1
      BY <3>3
    <3>6. ASSUME NEW i \in 1 .. Len(out') PROVE out'[i] = base + i
      <4>1. CASE i \in 1 .. Len(out)
        BY <4>1, <3>3, <3>4
      <4>2. CASE i = Len(out) + 1
        BY <4>2, <3>1, <3>3
      <4> QED BY <3>5, <4>1, <4>2
    <3> QED BY <2>1, <2>2, <3>6
  <2> QED BY <2>3, <2>4
<1>23. CASE WriterFails
  BY <1>23 DEF WriterFails, queueVars, decoderVars
<1>24. CASE WriterPutsOutside
  BY <1>24 DEF WriterPutsOutside, queueVars, decoderVars
<1>25. CASE WriterFrees
  BY <1>25 DEF WriterFrees, WroteBlock, decoderVars
<1>26. CASE WriterReportsError
  BY <1>26 DEF WriterReportsError, WriteError, decoderVars
<1>27. CASE InterruptFlag
  BY <1>27 DEF InterruptFlag, queueVars, decoderVars
<1>28. CASE InterruptNullQueue
  BY <1>28 DEF InterruptNullQueue, queueVars, decoderVars
<1>29. CASE \E n \in 0 .. 1, end \in FillEnds : Fill(n, end)
  BY <1>29 DEF Fill
<1>30. CASE Corrupted
  BY <1>30 DEF Corrupted, Interrupt, FirstNotHeld, Held
<1>31. CASE InterruptQueue
  BY <1>31 DEF InterruptQueue, Interrupt, FirstNotHeld, Held, decoderVars
<1>32. CASE UNCHANGED vars
  BY <1>32 DEF vars, queueVars, decoderVars
<1> QED
  BY <1>1, <1>2, <1>3, <1>4, <1>5, <1>6, <1>7, <1>8, <1>9, <1>10, <1>11,
     <1>12, <1>13, <1>14, <1>15, <1>16, <1>17, <1>18, <1>19, <1>20, <1>21,
     <1>22, <1>23, <1>24, <1>25, <1>26, <1>27, <1>28, <1>29, <1>30, <1>31,
     <1>32
     DEF Next, Decoder, Writer, Interrupter, Finished

\* A step that leaves alone what waits keeps the chain, and the border if that stays.
LEMMA ChainStays ==
  ASSUME ChainInv, BorderInv, Place' = Place, Waiting' = Waiting, Taken' = Taken,
         mNextDequeue' = mNextDequeue,
         \A b \in Waiting : mBlocks'[b] = mBlocks[b] /\ mLengths'[b] = mLengths[b],
         pc' \in Decoding => pc \in Decoding /\ Border' = Border /\ Given' = Given
  PROVE  ChainInv' /\ BorderInv'
BY DEF ChainInv, BorderInv, Depth

\* Most steps are such steps.
LEMMA QuietStep ==
  ASSUME TypeOK, ControlInv, FreshInv, [Next]_vars,
         ~mKeepHistory', pc' \in Active, ~Halted',
         ~WriterDequeues, ~Enqueue, ~ResetDequeue
  PROVE  /\ pc \in Active /\ ~mKeepHistory /\ ~Halted
         /\ mNextDequeue' = mNextDequeue
         /\ Waiting' = Waiting
         /\ Taken' = Taken
         /\ \A b \in Waiting : mBlocks'[b] = mBlocks[b] /\ mLengths'[b] = mLengths[b]
         /\ pc' \in Decoding => pc \in Decoding /\ Border' = Border /\ Given' = Given
<1> USE NrBlocksAssumption
    DEF ControlInv, TypeOK, QueueTypeOK, DecoderBlock, WriterBlock, RingHasOneUser,
        FreshInv, Halted, Taken, Given, Border, Decoding, Active, Waiting, IsStop,
        Stop, Cleared, Blocks, NextBlock, NoBlock, writerVars, interrupterVars
<1>1. CASE Stream
  BY <1>1 DEF Stream, queueVars
<1>2. CASE Begin
  BY <1>2 DEF Begin, queueVars
<1>3. CASE Setup
  BY <1>3 DEF Setup, queueVars
<1>4. CASE ResetBlocks
  BY <1>4 DEF ResetBlocks, ResetBlock
<1>5. CASE ResetAlloc
  BY <1>5 DEF ResetAlloc, ResetNextAlloc
<1>6. CASE ResetDequeue
  BY <1>6 DEF ResetDequeue, ResetNextDequeue
<1>7. CASE CreateWriter
  BY <1>7 DEF CreateWriter, queueVars
<1>8. CASE Loop
  BY <1>8 DEF Loop, queueVars
<1>9. CASE DecoderWaits
  BY <1>9 DEF DecoderWaits, AllocWait, decoderVars
<1>10. CASE Alloc
  BY <1>10 DEF Alloc, AllocBlock
<1>11. CASE AllocReportsError
  BY <1>11 DEF AllocReportsError, AllocRefused, queueVars
<1>12. CASE FillFails
  BY <1>12 DEF FillFails
<1>13. CASE Enqueue
  BY <1>13 DEF Enqueue, EnqueueBlock, AfterEnqueue
<1>14. CASE LastBlock
  BY <1>14 DEF LastBlock, AllocBlock
<1>15. CASE LastBlockNull
  BY <1>15 DEF LastBlockNull, AllocRefused, queueVars, decoderVars
<1>16. CASE EnqueueStop
  BY <1>16 DEF EnqueueStop
<1>17. CASE Join
  BY <1>17 DEF Join, queueVars
<1>18. CASE Flush
  BY <1>18 DEF Flush, queueVars
<1>19. CASE WriterWaits
  BY <1>19 DEF WriterWaits, DequeueWait, decoderVars
<1>20. CASE WriterStops
  BY <1>20 DEF WriterStops, DequeueStop, queueVars, decoderVars
<1>21. CASE WriterDequeues
  BY <1>21 DEF WriterDequeues, DequeueBlock, decoderVars
<1>22. CASE WriterWrites
  <2>1. CASE avail = 0
    BY <1>22, <2>1 DEF WriterWrites, queueVars, decoderVars
  <2>2. CASE avail = 1
    <3>1. out' = Append(out, mBlocks[wblock]) /\ mBlocks[wblock] \in Int /\ out \in Seq(Int)
      BY <1>22, <2>2 DEF WriterWrites, Stop
    <3>2. Len(out') = Len(out) + 1 /\ Len(out) \in Nat
      BY <3>1, AppendLemma
    <3> QED BY <1>22, <2>2, <3>2 DEF WriterWrites, queueVars, decoderVars
  <2>3. avail = 0 \/ avail = 1
    OBVIOUS
  <2> QED BY <2>1, <2>2, <2>3, Zenon
<1>23. CASE WriterFails
  BY <1>23 DEF WriterFails, queueVars, decoderVars
<1>24. CASE WriterPutsOutside
  BY <1>24 DEF WriterPutsOutside, queueVars, decoderVars
<1>25. CASE WriterFrees
  BY <1>25 DEF WriterFrees, WroteBlock, decoderVars
<1>26. CASE WriterReportsError
  BY <1>26 DEF WriterReportsError, WriteError, decoderVars
<1>27. CASE InterruptFlag
  BY <1>27 DEF InterruptFlag, queueVars, decoderVars
<1>28. CASE InterruptNullQueue
  BY <1>28 DEF InterruptNullQueue, queueVars, decoderVars
<1>29. CASE \E n \in 0 .. 1, end \in FillEnds : Fill(n, end)
  BY <1>29 DEF Fill
<1>30. CASE Corrupted
  BY <1>30 DEF Corrupted, Interrupt, FirstNotHeld, Held
<1>31. CASE InterruptQueue
  BY <1>31 DEF InterruptQueue, Interrupt, FirstNotHeld, Held, decoderVars
<1>32. CASE UNCHANGED vars
  BY <1>32 DEF vars, queueVars, decoderVars
<1> QED
  BY <1>1, <1>2, <1>3, <1>4, <1>5, <1>6, <1>7, <1>8, <1>9, <1>10, <1>11,
     <1>12, <1>13, <1>14, <1>15, <1>16, <1>17, <1>18, <1>19, <1>20, <1>21,
     <1>22, <1>23, <1>24, <1>25, <1>26, <1>27, <1>28, <1>29, <1>30, <1>31,
     <1>32
     DEF Next, Decoder, Writer, Interrupter, Finished
\* enqueueBlock() of a decoded block adds it behind those that wait.
LEMMA EnqueueStep ==
  ASSUME TypeOK, ControlInv, FillInv, ChainInv, BorderInv, Enqueue
  PROVE  ChainInv' /\ BorderInv'
<1>1. /\ block \in Blocks /\ NextBlock(block) \in Blocks /\ mNextDequeue \in Blocks
      /\ mNextAlloc = NextBlock(block) /\ NextBlock(block) # block
      /\ mStatuses[block] = "Allocated" /\ pc = "enqueue" /\ ix \in 0 .. 1
  BY NextBlockLemma DEF TypeOK, QueueTypeOK, ControlInv, DecoderBlock, Enqueue
<1>2. /\ Waiting' = Waiting \cup {block} /\ block \notin Waiting
      /\ Place' = Place /\ mBlocks' = mBlocks
      /\ \A b \in Waiting : mLengths'[b] = mLengths[b]
      /\ mLengths'[block] = ix
  BY <1>1 DEF Enqueue, EnqueueBlock, Waiting, IsStop, FillInv, TypeOK, QueueTypeOK,
              Place, Ahead
<1>3. /\ Taken' = Taken /\ Taken \in Int /\ Given = chunks - ix /\ chunks \in Int
      /\ Depth = Place[block]
  BY <1>1, <1>2 DEF Taken, Given, Depth, Border, TypeOK, Enqueue, EnqueueBlock, writerVars
<1>4. /\ \A b \in Blocks : b \in Waiting <=> Place[b] < Place[block]
      /\ \A b \in Waiting : mLengths[b] = 1
      /\ chunks - ix = Taken + Place[block]
      /\ ix = 1 => mBlocks[block] = chunks
  BY <1>1, <1>3 DEF BorderInv, Decoding, FillInv
<1>5. /\ Place \in [Blocks -> 0 .. NR_BLOCKS - 1]
      /\ \A b, c \in Blocks : Place[b] = Place[c] => b = c
      /\ Place[NextBlock(block)]
           = IF Place[block] = NR_BLOCKS - 1 THEN 0 ELSE Place[block] + 1
      /\ Waiting \subseteq Blocks
  BY <1>1, PlaceLemma DEF Waiting
<1>6. ChainInv'
  <2> SUFFICES ASSUME NEW b \in Waiting'
               PROVE  /\ mLengths'[b] = 1 => mBlocks'[b] = Taken' + Place'[b] + 1
                      /\ \A c \in Blocks : Place'[c] < Place'[b]
                                             => c \in Waiting' /\ mLengths'[c] = 1
    BY DEF ChainInv
  <2>1. CASE b = block
    BY <2>1, <1>1, <1>2, <1>3, <1>4, <1>5
  <2>2. CASE b \in Waiting
    BY <2>2, <1>2, <1>3 DEF ChainInv
  <2> QED BY <2>1, <2>2, <1>2
<1>7. BorderInv'
  <2> SUFFICES ASSUME pc' \in Decoding PROVE BorderInv'
    BY DEF BorderInv
  <2>0. ix = 1 /\ pc' \in {"loop", "alloc"}
    BY <1>1 DEF Enqueue, AfterEnqueue, FillInv, Decoding
  <2>1. ix = 1 /\ Given' = chunks /\ Border' = NextBlock(block)
    BY <2>0, <1>1, <1>3 DEF Enqueue, EnqueueBlock, Given, Border
  <2>2. Depth' = Place[block] + 1
    <3>1. CASE Place[block] = NR_BLOCKS - 1
      <4>1. Place[NextBlock(block)] < Place[block]
        BY <3>1, <1>1, <1>5, NrBlocksAssumption
      <4> QED BY <3>1, <4>1, <2>1, <1>1, <1>2, <1>4, NrBlocksAssumption DEF Depth
    <3>2. CASE Place[block] # NR_BLOCKS - 1
      BY <3>2, <2>1, <1>1, <1>2, <1>4, <1>5, NrBlocksAssumption DEF Depth
    <3> QED BY <3>1, <3>2
  <2>3. \A b \in Blocks : b \in Waiting' <=> Place'[b] < Depth'
    BY <2>2, <1>1, <1>2, <1>4, <1>5, NrBlocksAssumption
  <2>4. \A b \in Waiting' : mLengths'[b] = 1
    BY <2>1, <1>2, <1>4
  <2>5. Taken' + Depth' = Given'
    BY <2>1, <2>2, <1>1, <1>3, <1>4, <1>5, NrBlocksAssumption
  <2>6. Border' \in Waiting' => Border' = mNextDequeue'
    <3>1. mNextDequeue' = mNextDequeue /\ Place[mNextDequeue] = 0
      BY <1>1, PlaceLemma DEF Enqueue, EnqueueBlock
    <3>2. Border' \in Waiting' => Place[NextBlock(block)] = 0
      BY <2>1, <1>1, <1>2, <1>4, <1>5, NrBlocksAssumption
    <3> QED BY <3>1, <3>2, <2>1, <1>1, <1>5
  <2> QED BY <2>3, <2>4, <2>5, <2>6 DEF BorderInv
<1> QED BY <1>6, <1>7

\* dequeueBlock() takes the first of those that wait.
LEMMA DequeueStep ==
  ASSUME TypeOK, ControlInv, ChainInv, BorderInv, WriterDequeues
  PROVE  ChainInv' /\ BorderInv'
<1> DEFINE d == mNextDequeue
<1>1. /\ d \in Waiting /\ d \in Blocks /\ Waiting' = Waiting \ {d}
      /\ mBlocks' = mBlocks /\ mLengths' = mLengths /\ mLengths[d] \in 0 .. 1
      /\ mNextDequeue' = NextBlock(d)
  BY DEF WriterDequeues, DequeueBlock, Waiting, IsStop, TypeOK, QueueTypeOK
<1>2. \A b \in Blocks : Place'[b] = IF b = d THEN NR_BLOCKS - 1 ELSE Place[b] - 1
  BY <1>1, PlaceShift
<1>3. /\ Place \in [Blocks -> 0 .. NR_BLOCKS - 1]
      /\ \A b \in Blocks : b # d => Place[b] > 0
      /\ Place[d] = 0
      /\ Waiting \subseteq Blocks
  <2>1. Place \in [Blocks -> 0 .. NR_BLOCKS - 1] /\ Place[d] = 0
        /\ \A b, c \in Blocks : Place[b] = Place[c] => b = c
    BY <1>1, PlaceLemma
  <2>2. Waiting \subseteq Blocks
    BY DEF Waiting
  <2> QED BY <2>1, <2>2, <1>1, NrBlocksAssumption
<1>4. Taken' = Taken + mLengths[d] /\ Taken \in Int
  BY <1>1 DEF Taken, WriterDequeues, DequeueBlock, TypeOK, decoderVars
<1>5. (\E b \in Waiting : b # d) => mLengths[d] = 1
  BY <1>1, <1>3 DEF ChainInv
<1>6. ChainInv'
  <2> SUFFICES ASSUME NEW b \in Waiting'
               PROVE  /\ mLengths'[b] = 1 => mBlocks'[b] = Taken' + Place'[b] + 1
                      /\ \A c \in Blocks : Place'[c] < Place'[b]
                                             => c \in Waiting' /\ mLengths'[c] = 1
    BY DEF ChainInv
  <2>1. b \in Waiting /\ b # d /\ b \in Blocks /\ mLengths[d] = 1
    BY <1>1, <1>3, <1>5
  <2>2. /\ mLengths[b] = 1 => mBlocks[b] = Taken + Place[b] + 1
        /\ \A c \in Blocks : Place[c] < Place[b] => c \in Waiting /\ mLengths[c] = 1
    BY <2>1 DEF ChainInv
  <2> QED BY <2>1, <2>2, <1>1, <1>2, <1>3, <1>4, NrBlocksAssumption
<1>7. BorderInv'
  <2> SUFFICES ASSUME pc' \in Decoding PROVE BorderInv'
    BY DEF BorderInv
  <2>1. /\ pc \in Decoding /\ Border' = Border /\ Given' = Given /\ Border \in Blocks
        /\ Given \in Int
    BY NrBlocksAssumption
       DEF WriterDequeues, DequeueBlock, decoderVars, Border, Given, TypeOK,
           QueueTypeOK, ControlInv, DecoderBlock
  <2>2. /\ \A b \in Blocks : b \in Waiting <=> Place[b] < Depth
        /\ \A b \in Waiting : mLengths[b] = 1
        /\ Taken + Depth = Given
    BY <2>1 DEF BorderInv
  <2>3. Depth' = Depth - 1 /\ Depth \in 0 .. NR_BLOCKS
    <3>1. CASE Border \in Waiting
      <4>1. Depth = NR_BLOCKS
        BY <3>1 DEF Depth
      <4>2. Border = d
        BY <2>1, <3>1 DEF BorderInv
      <4> QED BY <4>1, <4>2, <2>1, <1>1, <1>2, NrBlocksAssumption DEF Depth
    <3>2. CASE Border \notin Waiting
      BY <3>2, <2>1, <1>1, <1>2, <1>3, NrBlocksAssumption DEF Depth
    <3> QED BY <3>1, <3>2
  <2>4. \A b \in Blocks : b \in Waiting' <=> Place'[b] < Depth'
    BY <2>2, <2>3, <1>1, <1>2, <1>3, NrBlocksAssumption
  <2>5. Border' \in Waiting' => Border' = mNextDequeue'
    BY <2>1, <1>1 DEF BorderInv
  <2> QED BY <2>1, <2>2, <2>3, <2>4, <2>5, <1>1, <1>4 DEF BorderInv
<1> QED BY <1>6, <1>7

\* Behind the reset nothing waits.
LEMMA ResetStep ==
  ASSUME TypeOK, ControlInv, FreshInv, ResetDequeue
  PROVE  ChainInv' /\ BorderInv'
<1>1. /\ Waiting' = {} /\ mNextDequeue' = 0 /\ mNextAlloc' = 0 /\ pc' = "start"
      /\ chunks' = base' /\ base' \in Nat /\ out' = <<>> /\ wpc' = "none"
  BY DEF ResetDequeue, ResetNextDequeue, Waiting, IsStop, FreshInv, TypeOK, writerVars,
         ControlInv, RingHasOneUser
<1>2. Place' = [b \in Blocks |-> b]
  BY <1>1 DEF Place, Ahead, Blocks
<1>3. Taken' = base' /\ Given' = base' /\ Depth' = 0
  BY <1>1, <1>2, NrBlocksAssumption DEF Taken, Given, Depth, Border, Blocks
<1>4. \A b \in Blocks : ~(Place'[b] < Depth')
  BY <1>2, <1>3, NrBlocksAssumption DEF Blocks
<1>5. ChainInv'
  BY <1>1 DEF ChainInv
<1>6. Taken' + Depth' = Given'
  <2>1. PICK n \in Int : base' = n
    BY <1>1
  <2> QED BY <2>1, <1>3
<1> QED BY <1>1, <1>4, <1>5, <1>6 DEF BorderInv

\* The three steps, and the quiet ones, keep the invariant.
LEMMA OrderStep == IInv /\ OrderInv /\ [Next]_vars => OrderInv'
<1> SUFFICES ASSUME IInv, OrderInv, [Next]_vars, ~mKeepHistory', pc' \in Active, ~Halted'
             PROVE  ChainInv' /\ BorderInv'
  BY FreshStep, WriterStep DEF OrderInv
<1> USE DEF IInv, OrderInv
<1>1. CASE Enqueue
  <2>1. ~mKeepHistory /\ pc \in Active /\ ~Halted
    BY <1>1
       DEF Enqueue, EnqueueBlock, AfterEnqueue, Active, Halted, ControlInv,
           DecoderBlock, TypeOK, QueueTypeOK, writerVars, IsStop
  <2> QED BY <1>1, <2>1, EnqueueStep
<1>2. CASE WriterDequeues
  <2>1. ~mKeepHistory /\ pc \in Active /\ ~Halted
    BY <1>2 DEF WriterDequeues, DequeueBlock, Active, Halted, ControlInv, RingHasOneUser,
                TypeOK, decoderVars, IsStop
  <2> QED BY <1>2, <2>1, DequeueStep
<1>3. CASE ResetDequeue
  BY <1>3, ResetStep
<1>4. CASE ~Enqueue /\ ~WriterDequeues /\ ~ResetDequeue
  <2>1. /\ pc \in Active /\ ~mKeepHistory /\ ~Halted
        /\ mNextDequeue' = mNextDequeue
        /\ Waiting' = Waiting
        /\ Taken' = Taken
        /\ \A b \in Waiting : mBlocks'[b] = mBlocks[b] /\ mLengths'[b] = mLengths[b]
        /\ pc' \in Decoding => pc \in Decoding /\ Border' = Border /\ Given' = Given
    BY <1>4, QuietStep
  <2>2. Place' = Place
    BY <2>1 DEF Place, Ahead
  <2>3. ChainInv /\ BorderInv
    BY <2>1
  <2> HIDE DEF OrderInv, IInv
  <2>4. mNextDequeue' = mNextDequeue
    BY <2>1
  <2>5. Waiting' = Waiting
    BY <2>1
  <2>6. Taken' = Taken
    BY <2>1
  <2>7. \A b \in Waiting : mBlocks'[b] = mBlocks[b] /\ mLengths'[b] = mLengths[b]
    BY <2>1
  <2>8. pc' \in Decoding => pc \in Decoding /\ Border' = Border /\ Given' = Given
    BY <2>1
  <2> QED BY <2>2, <2>3, <2>4, <2>5, <2>6, <2>7, <2>8, ChainStays
<1> QED BY <1>1, <1>2, <1>3, <1>4

\* Init establishes it.
LEMMA InitOrder == Init => OrderInv
BY DEF Init, OrderInv, FreshInv, FillInv, WriterInv, OutputInOrder, Active

\* The invariant holds in every reachable state.
LEMMA OrderInvariant == Spec => []OrderInv
BY Invariant, InitOrder, OrderStep, PTL DEF Spec

\* The writer executes the chunks in the order they were decoded, whatever errors and
\* interrupts take out of the queue.
THEOREM Ordered == Spec => []OutputInOrder
<1>1. OrderInv => OutputInOrder
  BY DEF OrderInv, OutputInOrder
<1> QED BY <1>1, OrderInvariant, PTL


-----------------------------------------------------------------------------
\* What progress() sees is what the writer has executed, but for the block it has
\* not yet given back.
CountInv ==
  /\ ~mKeepHistory /\ pc \in Active \cup {"idle"} =>
       /\ mWritten + (IF wpc = "wrote" THEN avail ELSE 0) = Len(out)
       /\ reported <= mWritten
  /\ pc \notin Active \cup {"idle"} => reported = 0
  /\ pc \in {"resetAlloc", "resetDequeue"} => mWritten = 0

\* The counts, action by action.
LEMMA CountStep == IInv /\ FreshInv /\ CountInv /\ [Next]_vars => CountInv'
<1> SUFFICES ASSUME TypeOK, ControlInv, FreshInv, CountInv, [Next]_vars PROVE CountInv'
  BY DEF IInv
<1> USE NrBlocksAssumption
    DEF ControlInv, TypeOK, QueueTypeOK, DecoderBlock, WriterBlock, RingHasOneUser,
        FreshInv, CountInv, Active, Blocks, NoBlock, writerVars, interrupterVars
<1>1. CASE Stream
  BY <1>1 DEF Stream, queueVars
<1>2. CASE Begin
  BY <1>2 DEF Begin, queueVars
<1>3. CASE Setup
  BY <1>3 DEF Setup, queueVars
<1>4. CASE ResetBlocks
  BY <1>4 DEF ResetBlocks, ResetBlock
<1>5. CASE ResetAlloc
  BY <1>5 DEF ResetAlloc, ResetNextAlloc
<1>6. CASE ResetDequeue
  BY <1>6 DEF ResetDequeue, ResetNextDequeue
<1>7. CASE CreateWriter
  BY <1>7 DEF CreateWriter, queueVars
<1>8. CASE Loop
  BY <1>8 DEF Loop, queueVars
<1>9. CASE DecoderWaits
  BY <1>9 DEF DecoderWaits, AllocWait, decoderVars
<1>10. CASE Alloc
  BY <1>10 DEF Alloc, AllocBlock
<1>11. CASE AllocReportsError
  BY <1>11 DEF AllocReportsError, AllocRefused, queueVars
<1>12. CASE FillFails
  BY <1>12 DEF FillFails
<1>13. CASE Enqueue
  BY <1>13 DEF Enqueue, EnqueueBlock, AfterEnqueue
<1>14. CASE LastBlock
  BY <1>14 DEF LastBlock, AllocBlock
<1>15. CASE LastBlockNull
  BY <1>15 DEF LastBlockNull, AllocRefused, queueVars, decoderVars
<1>16. CASE EnqueueStop
  BY <1>16 DEF EnqueueStop
<1>17. CASE Join
  BY <1>17 DEF Join, queueVars
<1>18. CASE Flush
  BY <1>18 DEF Flush, queueVars
<1>19. CASE WriterWaits
  BY <1>19 DEF WriterWaits, DequeueWait, decoderVars
<1>20. CASE WriterStops
  BY <1>20 DEF WriterStops, DequeueStop, queueVars, decoderVars
<1>21. CASE WriterDequeues
  BY <1>21 DEF WriterDequeues, DequeueBlock, decoderVars
<1>22. CASE WriterWrites
  <2>1. CASE avail = 0
    BY <1>22, <2>1 DEF WriterWrites, queueVars, decoderVars
  <2>2. CASE avail = 1
    <3>1. out' = Append(out, mBlocks[wblock]) /\ mBlocks[wblock] \in Int /\ out \in Seq(Int)
      BY <1>22, <2>2 DEF WriterWrites, Stop
    <3>2. Len(out') = Len(out) + 1 /\ Len(out) \in Nat
      BY <3>1, AppendLemma
    <3> QED BY <1>22, <2>2, <3>2 DEF WriterWrites, queueVars, decoderVars
  <2>3. avail = 0 \/ avail = 1
    OBVIOUS
  <2> QED BY <2>1, <2>2, <2>3, Zenon
<1>23. CASE WriterFails
  BY <1>23 DEF WriterFails, queueVars, decoderVars
<1>24. CASE WriterPutsOutside
  BY <1>24 DEF WriterPutsOutside, queueVars, decoderVars
<1>25. CASE WriterFrees
  BY <1>25 DEF WriterFrees, WroteBlock, decoderVars
<1>26. CASE WriterReportsError
  BY <1>26 DEF WriterReportsError, WriteError, decoderVars
<1>27. CASE InterruptFlag
  BY <1>27 DEF InterruptFlag, queueVars, decoderVars
<1>28. CASE InterruptNullQueue
  BY <1>28 DEF InterruptNullQueue, queueVars, decoderVars
<1>29. CASE \E n \in 0 .. 1, end \in FillEnds : Fill(n, end)
  BY <1>29 DEF Fill
<1>30. CASE Corrupted
  BY <1>30 DEF Corrupted, Interrupt, FirstNotHeld, Held
<1>31. CASE InterruptQueue
  BY <1>31 DEF InterruptQueue, Interrupt, FirstNotHeld, Held, decoderVars
<1>32. CASE UNCHANGED vars
  BY <1>32 DEF vars, queueVars, decoderVars
<1> QED
  BY <1>1, <1>2, <1>3, <1>4, <1>5, <1>6, <1>7, <1>8, <1>9, <1>10, <1>11,
     <1>12, <1>13, <1>14, <1>15, <1>16, <1>17, <1>18, <1>19, <1>20, <1>21,
     <1>22, <1>23, <1>24, <1>25, <1>26, <1>27, <1>28, <1>29, <1>30, <1>31,
     <1>32
     DEF Next, Decoder, Writer, Interrupter, Finished
-----------------------------------------------------------------------------
\* A block that waits leaves its place by being dequeued, by a write error or a reset.
LEMMA DeliveredStep ==
  ASSUME IInv, [Next]_vars
  PROVE  [\A b \in Blocks :
            mStatuses[b] = "Enqueued" /\ mStatuses'[b] # "Enqueued" =>
              \/ mStatuses'[b] = "Dequeued" /\ wblock' = b
              \/ wpc = "failed" \/ pc = "resetBlocks"]_vars
<1> USE NrBlocksAssumption
    DEF IInv, ControlInv, TypeOK, QueueTypeOK, DecoderBlock, WriterBlock, Blocks, NoBlock,
        writerVars, interrupterVars
<1>1. CASE Stream
  BY <1>1 DEF Stream, queueVars
<1>2. CASE Begin
  BY <1>2 DEF Begin, queueVars
<1>3. CASE Setup
  BY <1>3 DEF Setup, queueVars
<1>4. CASE ResetBlocks
  BY <1>4 DEF ResetBlocks, ResetBlock
<1>5. CASE ResetAlloc
  BY <1>5 DEF ResetAlloc, ResetNextAlloc
<1>6. CASE ResetDequeue
  BY <1>6 DEF ResetDequeue, ResetNextDequeue
<1>7. CASE CreateWriter
  BY <1>7 DEF CreateWriter, queueVars
<1>8. CASE Loop
  BY <1>8 DEF Loop, queueVars
<1>9. CASE DecoderWaits
  BY <1>9 DEF DecoderWaits, AllocWait, decoderVars
<1>10. CASE Alloc
  BY <1>10 DEF Alloc, AllocBlock
<1>11. CASE AllocReportsError
  BY <1>11 DEF AllocReportsError, AllocRefused, queueVars
<1>12. CASE FillFails
  BY <1>12 DEF FillFails
<1>13. CASE Enqueue
  BY <1>13 DEF Enqueue, EnqueueBlock, AfterEnqueue
<1>14. CASE LastBlock
  BY <1>14 DEF LastBlock, AllocBlock
<1>15. CASE LastBlockNull
  BY <1>15 DEF LastBlockNull, AllocRefused, queueVars, decoderVars
<1>16. CASE EnqueueStop
  BY <1>16 DEF EnqueueStop
<1>17. CASE Join
  BY <1>17 DEF Join, queueVars
<1>18. CASE Flush
  BY <1>18 DEF Flush, queueVars
<1>19. CASE WriterWaits
  BY <1>19 DEF WriterWaits, DequeueWait, decoderVars
<1>20. CASE WriterStops
  BY <1>20 DEF WriterStops, DequeueStop, queueVars, decoderVars
<1>21. CASE WriterDequeues
  BY <1>21 DEF WriterDequeues, DequeueBlock, decoderVars
<1>22. CASE WriterWrites
  BY <1>22 DEF WriterWrites, queueVars, decoderVars
<1>23. CASE WriterFails
  BY <1>23 DEF WriterFails, queueVars, decoderVars
<1>24. CASE WriterPutsOutside
  BY <1>24 DEF WriterPutsOutside, queueVars, decoderVars
<1>25. CASE WriterFrees
  BY <1>25 DEF WriterFrees, WroteBlock, decoderVars
<1>26. CASE WriterReportsError
  BY <1>26 DEF WriterReportsError, WriteError, decoderVars
<1>27. CASE InterruptFlag
  BY <1>27 DEF InterruptFlag, queueVars, decoderVars
<1>28. CASE InterruptNullQueue
  BY <1>28 DEF InterruptNullQueue, queueVars, decoderVars
<1>29. CASE \E n \in 0 .. 1, end \in FillEnds : Fill(n, end)
  BY <1>29 DEF Fill
<1>30. CASE Corrupted
  BY <1>30 DEF Corrupted, Interrupt, FirstNotHeld, Held
<1>31. CASE InterruptQueue
  BY <1>31 DEF InterruptQueue, Interrupt, FirstNotHeld, Held, decoderVars
<1>32. CASE UNCHANGED vars
  BY <1>32 DEF vars, queueVars, decoderVars
<1> QED
  BY <1>1, <1>2, <1>3, <1>4, <1>5, <1>6, <1>7, <1>8, <1>9, <1>10, <1>11,
     <1>12, <1>13, <1>14, <1>15, <1>16, <1>17, <1>18, <1>19, <1>20, <1>21,
     <1>22, <1>23, <1>24, <1>25, <1>26, <1>27, <1>28, <1>29, <1>30, <1>31,
     <1>32
     DEF Next, Decoder, Writer, Interrupter, Finished

\* Init establishes it.
LEMMA InitCount == Init => CountInv
BY DEF Init, QueueInit, CountInv, Active

\* progress() never reports more than the writer wrote.
THEOREM ProgressHonest == Spec => []ProgressIsHonest
<1>1. IInv /\ CountInv => ProgressIsHonest
  BY DEF IInv, TypeOK, QueueTypeOK, CountInv, ProgressIsHonest, Active
<1>2. Spec => []CountInv
  <2>1. IInv /\ OrderInv /\ CountInv /\ [Next]_vars => CountInv'
    BY CountStep DEF OrderInv
  <2> QED BY Invariant, OrderInvariant, InitCount, <2>1, PTL DEF Spec
<1> QED BY Invariant, <1>1, <1>2, PTL

\* No block is taken out of the queue unwritten, but by an error or a reset.
THEOREM Delivered == Spec => EnqueuedIsDelivered
BY Invariant, DeliveredStep, PTL DEF Spec, EnqueuedIsDelivered

-----------------------------------------------------------------------------
(* What stream() promises: without interrupts and exceptions, and with write errors that  *)
(* persist, "true" means that everything was written, and the threads implement           *)
(* ChunkStream.                                                                           *)

\* Under what the promise is kept.  Section 4 of the README has what breaks it.
WriteFaultsOnly ==
  /\ Faults \subseteq {"write"}
  /\ WriteErrorsPersist
  /\ Histories \subseteq {FALSE}

Ending == {"last", "stop", "join", "flush"}

\* Nobody interrupts, and the history is never kept.
CalmInv ==
  /\ ipc = "idle" /\ ~mInterrupted /\ ~mKeepHistory /\ pc # "corrupted"
  /\ leaving = "interrupted" => pc \notin Ending
  /\ wpc \in {"write", "wrote", "failed"} => wblock \in Blocks /\ mNextDequeue = NextBlock(wblock)

\* No block carries a stop mark while the writer runs and lastBlock() was not called;
\* the writer gives up at errors only.
StopInv ==
  /\ wpc = "failed" => broken /\ avail = 1
  /\ pc \in {"loop", "alloc", "fill", "enqueue", "last", "stop"} =>
       IF wpc = "none" THEN broken ELSE \A b \in Blocks : ~IsStop(b)
  /\ pc \in {"resetAlloc", "resetDequeue", "start"} => \A b \in Blocks : ~IsStop(b)
  /\ pc = "resetBlocks" => \A b \in Blocks : b < ri => ~IsStop(b)
  /\ \A b \in Blocks : mBlocks[b] <= chunks

-----------------------------------------------------------------------------
\* The two, action by action.
LEMMA CalmStep ==
  ASSUME WriteFaultsOnly, TypeOK, ControlInv, FreshInv, FillInv, CalmInv, StopInv, [Next]_vars
  PROVE  CalmInv' /\ StopInv'
<1> USE NrBlocksAssumption
    DEF WriteFaultsOnly, ControlInv, TypeOK, QueueTypeOK, DecoderBlock, WriterBlock,
        RingHasOneUser, FreshInv, FillInv, CalmInv, StopInv, Ending, IsStop, Stop,
        Cleared, Blocks, NextBlock, NoBlock, writerVars, interrupterVars
<1>1. CASE Stream
  BY <1>1 DEF Stream, queueVars
<1>2. CASE Begin
  BY <1>2 DEF Begin, queueVars
<1>3. CASE Setup
  BY <1>3 DEF Setup, queueVars
<1>4. CASE ResetBlocks
  BY <1>4 DEF ResetBlocks, ResetBlock
<1>5. CASE ResetAlloc
  BY <1>5 DEF ResetAlloc, ResetNextAlloc
<1>6. CASE ResetDequeue
  BY <1>6 DEF ResetDequeue, ResetNextDequeue
<1>7. CASE CreateWriter
  BY <1>7 DEF CreateWriter, queueVars
<1>8. CASE Loop
  BY <1>8 DEF Loop, queueVars
<1>9. CASE DecoderWaits
  BY <1>9 DEF DecoderWaits, AllocWait, decoderVars
<1>10. CASE Alloc
  BY <1>10 DEF Alloc, AllocBlock
<1>11. CASE AllocReportsError
  BY <1>11 DEF AllocReportsError, AllocRefused, queueVars
<1>12. CASE FillFails
  BY <1>12 DEF FillFails
<1>13. CASE Enqueue
  BY <1>13 DEF Enqueue, EnqueueBlock, AfterEnqueue
<1>14. CASE LastBlock
  BY <1>14 DEF LastBlock, AllocBlock
<1>15. CASE LastBlockNull
  BY <1>15 DEF LastBlockNull, AllocRefused, queueVars, decoderVars
<1>16. CASE EnqueueStop
  BY <1>16 DEF EnqueueStop
<1>17. CASE Join
  BY <1>17 DEF Join, queueVars
<1>18. CASE Flush
  BY <1>18 DEF Flush, queueVars
<1>19. CASE WriterWaits
  BY <1>19 DEF WriterWaits, DequeueWait, decoderVars
<1>20. CASE WriterStops
  BY <1>20 DEF WriterStops, DequeueStop, queueVars, decoderVars
<1>21. CASE WriterDequeues
  BY <1>21 DEF WriterDequeues, DequeueBlock, decoderVars
<1>22. CASE WriterWrites
  BY <1>22 DEF WriterWrites, queueVars, decoderVars
<1>23. CASE WriterFails
  BY <1>23 DEF WriterFails, queueVars, decoderVars
<1>24. CASE WriterPutsOutside
  BY <1>24 DEF WriterPutsOutside, queueVars, decoderVars
<1>25. CASE WriterFrees
  BY <1>25 DEF WriterFrees, WroteBlock, decoderVars
<1>26. CASE WriterReportsError
  BY <1>26 DEF WriterReportsError, WriteError, decoderVars
<1>27. CASE InterruptFlag
  BY <1>27 DEF InterruptFlag, queueVars, decoderVars
<1>28. CASE InterruptNullQueue
  BY <1>28 DEF InterruptNullQueue, queueVars, decoderVars
<1>29. CASE \E n \in 0 .. 1, end \in FillEnds : Fill(n, end)
  <2>1. PICK n \in 0 .. 1, end \in FillEnds : Fill(n, end)
    BY <1>29
  <2>2. /\ pc = "fill" /\ pc' = "enqueue" /\ chunks' = chunks + n
        /\ mBlocks' = [mBlocks EXCEPT ![block] = IF n = 0 THEN 0 ELSE chunks + 1]
        /\ UNCHANGED <<mNextDequeue, mInterrupted, mKeepHistory, ipc, wpc, wblock, avail,
                       broken, leaving>>
    BY <2>1 DEF Fill
  <2>3. CalmInv'
    BY <2>2
  <2>4. \A b \in Blocks : mBlocks'[b] # -1 \/ mBlocks'[b] = mBlocks[b]
    BY <2>2
  <2>5. ASSUME NEW b \in Blocks PROVE mBlocks'[b] <= chunks'
    <3>1. mBlocks[b] \in Int /\ mBlocks[b] <= chunks /\ chunks \in Nat
      OBVIOUS
    <3>2. CASE b = block
      BY <2>2, <3>2, <3>1
    <3>3. CASE b # block
      BY <2>2, <3>3, <3>1
    <3> QED BY <3>2, <3>3
  <2> QED BY <2>2, <2>3, <2>4, <2>5
<1>30. CASE Corrupted
  BY <1>30 DEF Corrupted, Interrupt, FirstNotHeld, Held
<1>31. CASE InterruptQueue
  BY <1>31 DEF InterruptQueue, Interrupt, FirstNotHeld, Held, decoderVars
<1>32. CASE UNCHANGED vars
  BY <1>32 DEF vars, queueVars, decoderVars
<1> QED
  BY <1>1, <1>2, <1>3, <1>4, <1>5, <1>6, <1>7, <1>8, <1>9, <1>10, <1>11,
     <1>12, <1>13, <1>14, <1>15, <1>16, <1>17, <1>18, <1>19, <1>20, <1>21,
     <1>22, <1>23, <1>24, <1>25, <1>26, <1>27, <1>28, <1>29, <1>30, <1>31,
     <1>32
     DEF Next, Decoder, Writer, Interrupter, Finished

-----------------------------------------------------------------------------
\* The last chunk waits.
LastWaits == \E b \in Waiting : mLengths[b] = 1 /\ mBlocks[b] = chunks

\* When the data was decoded to its end, the writer has its last chunk, or will get it.
EndInv ==
  pc \in Ending /\ leaving = "finished" =>
    /\ fillEnd \in {"final", "expected"}
    /\ ~broken => Taken = chunks \/ (~Halted /\ LastWaits)

\* Most steps change nothing of it.
LEMMA EndQuiet ==
  ASSUME WriteFaultsOnly, TypeOK, ControlInv, CalmInv, StopInv, [Next]_vars,
         ~WriterDequeues, ~Enqueue, ~EnqueueStop, pc' \in Ending, leaving' = "finished"
  PROVE  /\ pc \in Ending /\ leaving = "finished" /\ fillEnd' = fillEnd
         /\ ~broken' =>
              /\ ~broken
              /\ Taken' = Taken /\ chunks' = chunks /\ Waiting' = Waiting
              /\ Halted' => Halted
              /\ \A b \in Waiting : mBlocks'[b] = mBlocks[b] /\ mLengths'[b] = mLengths[b]
<1> USE NrBlocksAssumption
    DEF WriteFaultsOnly, ControlInv, TypeOK, QueueTypeOK, DecoderBlock, WriterBlock,
        RingHasOneUser, CalmInv, StopInv, Ending, Halted, Taken, Waiting, IsStop,
        Stop, Cleared, Blocks, NextBlock, NoBlock, writerVars, interrupterVars
<1>1. CASE Stream
  BY <1>1 DEF Stream, queueVars
<1>2. CASE Begin
  BY <1>2 DEF Begin, queueVars
<1>3. CASE Setup
  BY <1>3 DEF Setup, queueVars
<1>4. CASE ResetBlocks
  BY <1>4 DEF ResetBlocks, ResetBlock
<1>5. CASE ResetAlloc
  BY <1>5 DEF ResetAlloc, ResetNextAlloc
<1>6. CASE ResetDequeue
  BY <1>6 DEF ResetDequeue, ResetNextDequeue
<1>7. CASE CreateWriter
  BY <1>7 DEF CreateWriter, queueVars
<1>8. CASE Loop
  BY <1>8 DEF Loop, queueVars
<1>9. CASE DecoderWaits
  BY <1>9 DEF DecoderWaits, AllocWait, decoderVars
<1>10. CASE Alloc
  BY <1>10 DEF Alloc, AllocBlock
<1>11. CASE AllocReportsError
  BY <1>11 DEF AllocReportsError, AllocRefused, queueVars
<1>12. CASE FillFails
  BY <1>12 DEF FillFails
<1>13. CASE Enqueue
  BY <1>13 DEF Enqueue, EnqueueBlock, AfterEnqueue
<1>14. CASE LastBlock
  BY <1>14 DEF LastBlock, AllocBlock
<1>15. CASE LastBlockNull
  BY <1>15 DEF LastBlockNull, AllocRefused, queueVars, decoderVars
<1>16. CASE EnqueueStop
  BY <1>16 DEF EnqueueStop
<1>17. CASE Join
  BY <1>17 DEF Join, queueVars
<1>18. CASE Flush
  BY <1>18 DEF Flush, queueVars
<1>19. CASE WriterWaits
  BY <1>19 DEF WriterWaits, DequeueWait, decoderVars
<1>20. CASE WriterStops
  BY <1>20 DEF WriterStops, DequeueStop, queueVars, decoderVars
<1>21. CASE WriterDequeues
  BY <1>21 DEF WriterDequeues, DequeueBlock, decoderVars
<1>22. CASE WriterWrites
  <2>1. CASE avail = 0
    BY <1>22, <2>1 DEF WriterWrites, queueVars, decoderVars
  <2>2. CASE avail = 1
    <3>1. out' = Append(out, mBlocks[wblock]) /\ mBlocks[wblock] \in Int /\ out \in Seq(Int)
      BY <1>22, <2>2 DEF WriterWrites, Stop
    <3>2. Len(out') = Len(out) + 1 /\ Len(out) \in Nat
      BY <3>1, AppendLemma
    <3> QED BY <1>22, <2>2, <3>2 DEF WriterWrites, queueVars, decoderVars
  <2>3. avail = 0 \/ avail = 1
    OBVIOUS
  <2> QED BY <2>1, <2>2, <2>3, Zenon
<1>23. CASE WriterFails
  BY <1>23 DEF WriterFails, queueVars, decoderVars
<1>24. CASE WriterPutsOutside
  BY <1>24 DEF WriterPutsOutside, queueVars, decoderVars
<1>25. CASE WriterFrees
  BY <1>25 DEF WriterFrees, WroteBlock, decoderVars
<1>26. CASE WriterReportsError
  BY <1>26 DEF WriterReportsError, WriteError, decoderVars
<1>27. CASE InterruptFlag
  BY <1>27 DEF InterruptFlag, queueVars, decoderVars
<1>28. CASE InterruptNullQueue
  BY <1>28 DEF InterruptNullQueue, queueVars, decoderVars
<1>29. CASE \E n \in 0 .. 1, end \in FillEnds : Fill(n, end)
  BY <1>29 DEF Fill
<1>30. CASE Corrupted
  BY <1>30 DEF Corrupted, Interrupt, FirstNotHeld, Held
<1>31. CASE InterruptQueue
  BY <1>31 DEF InterruptQueue, Interrupt, FirstNotHeld, Held, decoderVars
<1>32. CASE UNCHANGED vars
  BY <1>32 DEF vars, queueVars, decoderVars
<1> QED
  BY <1>1, <1>2, <1>3, <1>4, <1>5, <1>6, <1>7, <1>8, <1>9, <1>10, <1>11,
     <1>12, <1>13, <1>14, <1>15, <1>16, <1>17, <1>18, <1>19, <1>20, <1>21,
     <1>22, <1>23, <1>24, <1>25, <1>26, <1>27, <1>28, <1>29, <1>30, <1>31,
     <1>32
     DEF Next, Decoder, Writer, Interrupter, Finished

\* There is a place before each but the first.
LEMMA PlaceBefore ==
  ASSUME mNextDequeue \in Blocks, NEW b \in Blocks, Place[b] > 0
  PROVE  \E c \in Blocks : Place[c] = Place[b] - 1
<1> DEFINE c == IF b = 0 THEN NR_BLOCKS - 1 ELSE b - 1
<1>1. c \in Blocks
  BY NrBlocksAssumption DEF Blocks
<1>2. Place[c] = Place[b] - 1
  BY <1>1, NrBlocksAssumption DEF Place, Ahead, Blocks
<1> QED BY <1>1, <1>2

\* enqueueBlock() of the block in which the data ends.
LEMMA EndEnqueue ==
  ASSUME IInv, OrderInv, CalmInv, StopInv, Enqueue, pc' \in Ending, ~broken'
  PROVE  /\ fillEnd' \in {"final", "expected"}
         /\ Taken' = chunks' \/ (~Halted' /\ LastWaits')
<1>1. /\ block \in Blocks /\ mStatuses[block] = "Allocated" /\ pc = "enqueue"
      /\ ix \in 0 .. 1 /\ mNextDequeue \in Blocks /\ ~mKeepHistory /\ ~broken
      /\ wpc \in {"dequeue", "write", "wrote"} /\ \A b \in Blocks : ~IsStop(b)
  BY DEF IInv, TypeOK, QueueTypeOK, ControlInv, DecoderBlock, Enqueue, CalmInv, StopInv
<1>2. ~Halted /\ pc \in Active
  BY <1>1 DEF Halted, Active
<1>3. ChainInv /\ BorderInv /\ FillInv
  BY <1>1, <1>2 DEF OrderInv
<1>4. /\ Waiting' = Waiting \cup {block} /\ mBlocks' = mBlocks
      /\ \A b \in Waiting : mLengths'[b] = mLengths[b]
      /\ mLengths'[block] = ix
      /\ chunks' = chunks /\ Taken' = Taken /\ Taken \in Int
      /\ fillEnd' = fillEnd /\ fillEnd \in {"final", "expected"}
  BY <1>1 DEF IInv, Enqueue, EnqueueBlock, AfterEnqueue, Ending, Waiting, IsStop, TypeOK,
              QueueTypeOK, Taken, writerVars
<1>5. ~Halted'
  BY <1>1 DEF Enqueue, EnqueueBlock, Halted, IsStop, writerVars
<1>6. CASE ix = 1
  <2>1. block \in Waiting' /\ mLengths'[block] = 1 /\ mBlocks'[block] = chunks'
    BY <1>1, <1>3, <1>4, <1>6 DEF FillInv
  <2> QED BY <2>1, <1>4, <1>5 DEF LastWaits
<1>7. CASE ix = 0
  <2>1. block \notin Waiting
    BY <1>1 DEF Waiting
  <2>2. /\ \A b \in Blocks : b \in Waiting <=> Place[b] < Place[block]
        /\ \A b \in Waiting : mLengths[b] = 1
        /\ chunks = Taken + Place[block]
    BY <2>1, <1>1, <1>3, <1>7 DEF BorderInv, Depth, Border, Given, Decoding, IInv, TypeOK
  <2>3. Place \in [Blocks -> 0 .. NR_BLOCKS - 1]
    BY <1>1, PlaceLemma
  <2>4. CASE Place[block] = 0
    BY <2>2, <2>4, <1>4
  <2>5. CASE Place[block] > 0
    <3>1. PICK b \in Blocks : Place[b] = Place[block] - 1
      BY <2>5, <1>1, PlaceBefore
    <3>2. b \in Waiting /\ Taken + Place[b] + 1 = chunks
      BY <3>1, <2>2, <2>3, <1>1, <1>4, NrBlocksAssumption
    <3>3. mLengths[b] = 1 /\ mBlocks[b] = chunks
      BY <3>2, <2>2, <1>3 DEF ChainInv
    <3>4. b \in Waiting' /\ mLengths'[b] = 1 /\ mBlocks'[b] = chunks'
      BY <3>2, <3>3, <1>4
    <3> QED BY <3>4, <1>4, <1>5 DEF LastWaits
  <2> QED BY <2>3, <2>4, <2>5, <1>1, NrBlocksAssumption
<1> QED BY <1>1, <1>6, <1>7

\* dequeueBlock() while the last chunk waits, or is taken.
LEMMA EndDequeue ==
  ASSUME IInv, OrderInv, CalmInv, StopInv, EndInv, WriterDequeues, pc \in Ending,
         leaving = "finished", ~broken
  PROVE  Taken' = chunks' \/ (~Halted' /\ LastWaits')
<1> DEFINE d == mNextDequeue
<1>1. /\ d \in Waiting /\ d \in Blocks /\ Waiting' = Waiting \ {d}
      /\ mBlocks' = mBlocks /\ mLengths' = mLengths /\ mLengths[d] \in 0 .. 1
      /\ mNextDequeue' = NextBlock(d) /\ chunks' = chunks /\ wpc' = "write"
      /\ mStatuses' = [mStatuses EXCEPT ![d] = "Dequeued"]
  BY DEF IInv, WriterDequeues, DequeueBlock, Waiting, IsStop, TypeOK, QueueTypeOK,
         decoderVars
<1>2. ~Halted /\ pc \in Active /\ ~mKeepHistory
  BY <1>1 DEF Halted, Active, Ending, Waiting, WriterDequeues, CalmInv
<1>3. ChainInv
  BY <1>2 DEF OrderInv
<1>4. Taken' = Taken + mLengths[d] /\ Taken \in Int
  BY <1>1 DEF IInv, Taken, WriterDequeues, DequeueBlock, TypeOK, decoderVars
<1>5. Place[d] = 0 /\ Place \in [Blocks -> 0 .. NR_BLOCKS - 1] /\ Waiting \subseteq Blocks
  BY <1>1, PlaceLemma DEF Waiting
<1>6. mLengths[d] = 1 => mBlocks[d] = Taken + 1
  BY <1>1, <1>3, <1>4, <1>5 DEF ChainInv
<1>7. CASE LastWaits
  <2>1. PICK b \in Waiting : mLengths[b] = 1 /\ mBlocks[b] = chunks
    BY <1>7 DEF LastWaits
  <2>2. CASE b = d
    BY <2>1, <2>2, <1>1, <1>4, <1>6
  <2>3. CASE b # d
    <3>1. LastWaits'
      BY <2>1, <2>3, <1>1 DEF LastWaits
    <3>2. NextBlock(d) \in Waiting
      <4>1. NextBlock(d) \in Blocks /\ Place[NextBlock(d)] \in 0 .. 1
        BY <1>1, <1>5, NextBlockLemma, PlaceLemma, NrBlocksAssumption
      <4>2. Place[b] # 0 /\ Place[b] \in Nat
        BY <2>1, <2>3, <1>1, <1>5, PlaceLemma
      <4>3. Place[NextBlock(d)] = Place[b] => NextBlock(d) = b
        BY <4>1, <2>1, <1>1, <1>5, PlaceLemma
      <4> QED BY <4>1, <4>2, <4>3, <2>1, <1>3 DEF ChainInv
    <3>3. ~Halted'
      BY <3>2, <1>1 DEF Halted, Waiting, IsStop
    <3> QED BY <3>1, <3>3
  <2> QED BY <2>2, <2>3
<1>8. CASE Taken = chunks
  <2>1. mLengths[d] # 1
    BY <1>1, <1>6, <1>8, <1>4 DEF StopInv
  <2> QED BY <2>1, <1>1, <1>4, <1>8
<1> QED BY <1>2, <1>7, <1>8 DEF EndInv

\* lastBlock() puts its mark behind the last chunk, or where the writer looks next
\* when that is taken.
LEMMA EndStop ==
  ASSUME IInv, OrderInv, CalmInv, StopInv, EndInv, EnqueueStop,
         leaving = "finished", ~broken
  PROVE  Taken' = chunks' \/ (~Halted' /\ LastWaits')
<1>1. /\ block \in Blocks /\ mStatuses[block] = "Allocated" /\ pc = "stop"
      /\ mNextDequeue \in Blocks /\ block \notin Waiting
      /\ chunks' = chunks /\ Taken' = Taken /\ Waiting' = Waiting
      /\ mNextDequeue' = mNextDequeue /\ wpc' = wpc
      /\ wpc \in {"dequeue", "write", "wrote"} /\ ~mKeepHistory
      /\ \A b \in Blocks : ~IsStop(b)
      /\ \A b \in Waiting : mBlocks'[b] = mBlocks[b] /\ mLengths'[b] = mLengths[b]
      /\ \A b \in Blocks : b # block => mStatuses'[b] = mStatuses[b] /\ mBlocks'[b] = mBlocks[b]
  BY DEF IInv, TypeOK, QueueTypeOK, ControlInv, DecoderBlock, EnqueueStop, Waiting, IsStop,
         Taken, CalmInv, StopInv, writerVars
<1>2. ~Halted
  BY <1>1 DEF Halted
<1>3. CASE mNextDequeue = block
  <2>1. ChainInv /\ Place[block] = 0 /\ Place \in [Blocks -> 0 .. NR_BLOCKS - 1]
    BY <1>1, <1>2, <1>3, PlaceLemma DEF OrderInv, Active
  <2>2. \A b \in Waiting : b \in Blocks /\ b # block /\ Place[b] # 0
    BY <1>1, <1>3, PlaceLemma DEF Waiting
  <2>3. Waiting = {}
    BY <2>1, <2>2, <1>1, NrBlocksAssumption DEF ChainInv
  <2> QED BY <2>3, <1>1 DEF EndInv, Ending, LastWaits
<1>4. CASE mNextDequeue # block
  <2>1. ~Halted'
    BY <1>1, <1>4, <1>2 DEF Halted, IsStop, IInv, TypeOK, QueueTypeOK
  <2> QED BY <2>1, <1>1 DEF EndInv, Ending, LastWaits
<1> QED BY <1>3, <1>4

\* What is said of the end holds in every step.
LEMMA EndStep ==
  ASSUME WriteFaultsOnly, IInv, OrderInv, CalmInv, StopInv, EndInv, [Next]_vars
  PROVE  EndInv'
<1> SUFFICES ASSUME pc' \in Ending, leaving' = "finished"
             PROVE  /\ fillEnd' \in {"final", "expected"}
                    /\ ~broken' => Taken' = chunks' \/ (~Halted' /\ LastWaits')
  BY DEF EndInv
<1>1. CASE Enqueue
  <2>1. fillEnd' = fillEnd /\ fillEnd \in {"final", "expected"}
    BY <1>1 DEF Enqueue, AfterEnqueue, Ending
  <2> QED BY <1>1, <2>1, EndEnqueue
<1>2. CASE WriterDequeues
  <2>1. pc' = pc /\ leaving' = leaving /\ fillEnd' = fillEnd /\ broken' = broken
    BY <1>2 DEF WriterDequeues, decoderVars
  <2> QED BY <1>2, <2>1, EndDequeue DEF EndInv
<1>3. CASE EnqueueStop
  <2>1. /\ pc \in Ending /\ leaving' = leaving /\ fillEnd' = fillEnd
        /\ broken' = broken
    BY <1>3 DEF EnqueueStop, Ending
  <2> QED BY <1>3, <2>1, EndStop DEF EndInv
<1>4. CASE ~Enqueue /\ ~WriterDequeues /\ ~EnqueueStop
  <2>1. /\ pc \in Ending /\ leaving = "finished" /\ fillEnd' = fillEnd
        /\ ~broken' =>
             /\ ~broken
             /\ Taken' = Taken /\ chunks' = chunks /\ Waiting' = Waiting
             /\ Halted' => Halted
             /\ \A b \in Waiting : mBlocks'[b] = mBlocks[b] /\ mLengths'[b] = mLengths[b]
    BY <1>4, EndQuiet DEF IInv
  <2>2. fillEnd \in {"final", "expected"}
    BY <2>1 DEF EndInv
  <2>3. ASSUME ~broken' PROVE Taken' = chunks' \/ (~Halted' /\ LastWaits')
    <3>1. Taken' = Taken /\ chunks' = chunks /\ Waiting' = Waiting /\ (Halted' => Halted)
      BY <2>1, <2>3
    <3>2. \A b \in Waiting : mBlocks'[b] = mBlocks[b] /\ mLengths'[b] = mLengths[b]
      BY <2>1, <2>3
    <3>3. Taken = chunks \/ (~Halted /\ LastWaits)
      BY <2>1, <2>3 DEF EndInv
    <3>4. LastWaits => LastWaits'
      BY <3>1, <3>2 DEF LastWaits
    <3> QED BY <3>1, <3>3, <3>4
  <2> QED BY <2>1, <2>2, <2>3
<1> QED BY <1>1, <1>2, <1>3, <1>4

\* A result of true is there from the flush to the next call.
ResultInv ==
  /\ pc = "flush" => leaving = "finished"
  /\ result = "true" => pc = "idle" /\ SuccessMeansComplete

\* The flush makes it so, and nothing else does.
LEMMA ResultStep ==
  ASSUME WriteFaultsOnly, IInv, EndInv, ResultInv, [Next]_vars
  PROVE  ResultInv'
<1> USE DEF IInv, ControlInv, TypeOK, RingHasOneUser, ResultInv, SuccessMeansComplete,
            writerVars, interrupterVars
<1>1. CASE Stream
  BY <1>1 DEF Stream, queueVars
<1>2. CASE Begin
  BY <1>2 DEF Begin, queueVars
<1>3. CASE Setup
  BY <1>3 DEF Setup, queueVars
<1>4. CASE ResetBlocks
  BY <1>4 DEF ResetBlocks, ResetBlock
<1>5. CASE ResetAlloc
  BY <1>5 DEF ResetAlloc, ResetNextAlloc
<1>6. CASE ResetDequeue
  BY <1>6 DEF ResetDequeue, ResetNextDequeue
<1>7. CASE CreateWriter
  BY <1>7 DEF CreateWriter, queueVars
<1>8. CASE Loop
  BY <1>8 DEF Loop, queueVars
<1>9. CASE DecoderWaits
  BY <1>9 DEF DecoderWaits, AllocWait, decoderVars
<1>10. CASE Alloc
  BY <1>10 DEF Alloc, AllocBlock
<1>11. CASE AllocReportsError
  BY <1>11 DEF AllocReportsError, AllocRefused, queueVars
<1>12. CASE FillFails
  BY <1>12 DEF FillFails
<1>13. CASE Enqueue
  BY <1>13 DEF Enqueue, EnqueueBlock, AfterEnqueue
<1>14. CASE LastBlock
  BY <1>14 DEF LastBlock, AllocBlock
<1>15. CASE LastBlockNull
  BY <1>15 DEF LastBlockNull, AllocRefused, queueVars, decoderVars
<1>16. CASE EnqueueStop
  BY <1>16 DEF EnqueueStop
<1>17. CASE Join
  BY <1>17 DEF Join, queueVars
<1>18. CASE Flush
  <2>1. CASE result' = "true"
    <3>1. pc = "flush" /\ wpc = "none" /\ ~broken /\ leaving = "finished"
      BY <1>18, <2>1 DEF Flush, WriteFaultsOnly
    <3>2. fillEnd \in {"final", "expected"} /\ base + Len(out) = chunks
      BY <3>1 DEF EndInv, Ending, Halted, Taken
    <3>3. Len(out) = chunks - base
      BY <3>2
    <3>4. /\ pc' = "idle" /\ fillEnd' = fillEnd /\ out' = out /\ chunks' = chunks
          /\ base' = base
      BY <1>18 DEF Flush
    <3> QED BY <3>2, <3>3, <3>4
  <2>2. CASE result' # "true"
    BY <1>18, <2>2 DEF Flush
  <2> QED BY <2>1, <2>2
<1>19. CASE WriterWaits
  BY <1>19 DEF WriterWaits, DequeueWait, decoderVars
<1>20. CASE WriterStops
  BY <1>20 DEF WriterStops, DequeueStop, queueVars, decoderVars
<1>21. CASE WriterDequeues
  BY <1>21 DEF WriterDequeues, DequeueBlock, decoderVars
<1>22. CASE WriterWrites
  BY <1>22 DEF WriterWrites, queueVars, decoderVars
<1>23. CASE WriterFails
  BY <1>23 DEF WriterFails, queueVars, decoderVars
<1>24. CASE WriterPutsOutside
  BY <1>24 DEF WriterPutsOutside, queueVars, decoderVars
<1>25. CASE WriterFrees
  BY <1>25 DEF WriterFrees, WroteBlock, decoderVars
<1>26. CASE WriterReportsError
  BY <1>26 DEF WriterReportsError, WriteError, decoderVars
<1>27. CASE InterruptFlag
  BY <1>27 DEF InterruptFlag, queueVars, decoderVars
<1>28. CASE InterruptNullQueue
  BY <1>28 DEF InterruptNullQueue, queueVars, decoderVars
<1>29. CASE \E n \in 0 .. 1, end \in FillEnds : Fill(n, end)
  BY <1>29 DEF Fill
<1>30. CASE Corrupted
  BY <1>30 DEF Corrupted, Interrupt, FirstNotHeld, Held
<1>31. CASE InterruptQueue
  BY <1>31 DEF InterruptQueue, Interrupt, FirstNotHeld, Held, decoderVars
<1>32. CASE UNCHANGED vars
  BY <1>32 DEF vars, queueVars, decoderVars
<1> QED
  BY <1>1, <1>2, <1>3, <1>4, <1>5, <1>6, <1>7, <1>8, <1>9, <1>10, <1>11,
     <1>12, <1>13, <1>14, <1>15, <1>16, <1>17, <1>18, <1>19, <1>20, <1>21,
     <1>22, <1>23, <1>24, <1>25, <1>26, <1>27, <1>28, <1>29, <1>30, <1>31,
     <1>32
     DEF Next, Decoder, Writer, Interrupter, Finished
-----------------------------------------------------------------------------
\* What is known in every reachable state.
PromiseInv == IInv /\ OrderInv /\ CalmInv /\ StopInv /\ EndInv /\ ResultInv

\* Init establishes them all.
LEMMA InitPromise == Init => PromiseInv
<1>1. Init => CalmInv /\ StopInv /\ EndInv /\ ResultInv
  BY DEF Init, QueueInit, CalmInv, StopInv, EndInv, ResultInv, Ending, IsStop, Cleared, Stop,
         SuccessMeansComplete
<1> QED BY <1>1, InitIInv, InitOrder DEF PromiseInv

\* Each step keeps them.
LEMMA PromiseStep ==
  ASSUME WriteFaultsOnly, PromiseInv, [Next]_vars
  PROVE  PromiseInv'
<1>1. IInv' /\ OrderInv'
  BY TypeStep, ControlStep, OrderStep DEF PromiseInv, IInv
<1>2. CalmInv' /\ StopInv'
  BY CalmStep DEF PromiseInv, IInv, OrderInv
<1>3. EndInv' /\ ResultInv'
  BY EndStep, ResultStep DEF PromiseInv
<1> QED BY <1>1, <1>2, <1>3 DEF PromiseInv

\* They hold in every reachable state.
LEMMA PromiseInvariant ==
  ASSUME WriteFaultsOnly
  PROVE  Spec => []PromiseInv
<1>1. PromiseInv /\ [Next]_vars => PromiseInv'
  BY PromiseStep
<1> QED BY InitPromise, <1>1, PTL DEF Spec

\* stream() returning true means that the data was decoded to its end and every chunk
\* written, when nobody interrupts and write errors persist.
THEOREM TrueMeansComplete ==
  ASSUME WriteFaultsOnly
  PROVE  Spec => []SuccessMeansComplete
<1>1. PromiseInv => SuccessMeansComplete
  BY DEF PromiseInv, ResultInv, SuccessMeansComplete
<1> QED BY PromiseInvariant, <1>1, PTL

-----------------------------------------------------------------------------
\* When the writer gave up, one chunk is lost, those before the border wait, and the
\* block behind them all is not handed out again.
BrokenInv ==
  wpc \in {"failed", "none"} /\ pc \in Decoding /\ pc # "start" =>
    /\ \A b \in Blocks : b \in Waiting <=> Place[b] < Place[Border]
    /\ base + Len(out) + 1 + Place[Border] = Given
    /\ \A b \in Blocks : Place[b] = NR_BLOCKS - 1 =>
         mStatuses[b] = "Dequeued" \/ (mStatuses[b] = "Free" /\ IsStop(b))

\* Most steps change nothing of it.
LEMMA BrokenQuiet ==
  ASSUME WriteFaultsOnly, TypeOK, ControlInv, CalmInv, StopInv, [Next]_vars,
         ~WriterFails, ~WriterReportsError, ~Enqueue,
         wpc' \in {"failed", "none"}, pc' \in Decoding, pc' # "start"
  PROVE  /\ wpc \in {"failed", "none"} /\ pc \in Decoding /\ pc # "start"
         /\ Waiting' = Waiting /\ mNextDequeue' = mNextDequeue
         /\ Border' = Border /\ Given' = Given
         /\ base' = base /\ out' = out
         /\ \A b \in Blocks :
              mStatuses[b] = "Dequeued" \/ (mStatuses[b] = "Free" /\ IsStop(b)) =>
                mStatuses'[b] = "Dequeued" \/ (mStatuses'[b] = "Free" /\ IsStop(b)')
<1> USE NrBlocksAssumption
    DEF WriteFaultsOnly, ControlInv, TypeOK, QueueTypeOK, DecoderBlock, WriterBlock,
        RingHasOneUser, CalmInv, StopInv, Decoding, Given, Border, Waiting, IsStop,
        Stop, Cleared, Blocks, NextBlock, NoBlock, writerVars, interrupterVars
<1>1. CASE Stream
  BY <1>1 DEF Stream, queueVars
<1>2. CASE Begin
  BY <1>2 DEF Begin, queueVars
<1>3. CASE Setup
  BY <1>3 DEF Setup, queueVars
<1>4. CASE ResetBlocks
  BY <1>4 DEF ResetBlocks, ResetBlock
<1>5. CASE ResetAlloc
  BY <1>5 DEF ResetAlloc, ResetNextAlloc
<1>6. CASE ResetDequeue
  BY <1>6 DEF ResetDequeue, ResetNextDequeue
<1>7. CASE CreateWriter
  BY <1>7 DEF CreateWriter, queueVars
<1>8. CASE Loop
  BY <1>8 DEF Loop, queueVars
<1>9. CASE DecoderWaits
  BY <1>9 DEF DecoderWaits, AllocWait, decoderVars
<1>10. CASE Alloc
  BY <1>10 DEF Alloc, AllocBlock
<1>11. CASE AllocReportsError
  BY <1>11 DEF AllocReportsError, AllocRefused, queueVars
<1>12. CASE FillFails
  BY <1>12 DEF FillFails
<1>13. CASE Enqueue
  BY <1>13 DEF Enqueue, EnqueueBlock, AfterEnqueue
<1>14. CASE LastBlock
  BY <1>14 DEF LastBlock, AllocBlock
<1>15. CASE LastBlockNull
  BY <1>15 DEF LastBlockNull, AllocRefused, queueVars, decoderVars
<1>16. CASE EnqueueStop
  BY <1>16 DEF EnqueueStop
<1>17. CASE Join
  BY <1>17 DEF Join, queueVars
<1>18. CASE Flush
  BY <1>18 DEF Flush, queueVars
<1>19. CASE WriterWaits
  BY <1>19 DEF WriterWaits, DequeueWait, decoderVars
<1>20. CASE WriterStops
  BY <1>20 DEF WriterStops, DequeueStop, queueVars, decoderVars
<1>21. CASE WriterDequeues
  BY <1>21 DEF WriterDequeues, DequeueBlock, decoderVars
<1>22. CASE WriterWrites
  BY <1>22 DEF WriterWrites, queueVars, decoderVars
<1>23. CASE WriterFails
  BY <1>23 DEF WriterFails, queueVars, decoderVars
<1>24. CASE WriterPutsOutside
  BY <1>24 DEF WriterPutsOutside, queueVars, decoderVars
<1>25. CASE WriterFrees
  BY <1>25 DEF WriterFrees, WroteBlock, decoderVars
<1>26. CASE WriterReportsError
  BY <1>26 DEF WriterReportsError, WriteError, decoderVars
<1>27. CASE InterruptFlag
  BY <1>27 DEF InterruptFlag, queueVars, decoderVars
<1>28. CASE InterruptNullQueue
  BY <1>28 DEF InterruptNullQueue, queueVars, decoderVars
<1>29. CASE \E n \in 0 .. 1, end \in FillEnds : Fill(n, end)
  BY <1>29 DEF Fill
<1>30. CASE Corrupted
  BY <1>30 DEF Corrupted, Interrupt, FirstNotHeld, Held
<1>31. CASE InterruptQueue
  BY <1>31 DEF InterruptQueue, Interrupt, FirstNotHeld, Held, decoderVars
<1>32. CASE UNCHANGED vars
  BY <1>32 DEF vars, queueVars, decoderVars
<1> QED
  BY <1>1, <1>2, <1>3, <1>4, <1>5, <1>6, <1>7, <1>8, <1>9, <1>10, <1>11,
     <1>12, <1>13, <1>14, <1>15, <1>16, <1>17, <1>18, <1>19, <1>20, <1>21,
     <1>22, <1>23, <1>24, <1>25, <1>26, <1>27, <1>28, <1>29, <1>30, <1>31,
     <1>32
     DEF Next, Decoder, Writer, Interrupter, Finished

\* A write fails.
LEMMA BrokenFails ==
  ASSUME IInv, OrderInv, CalmInv, StopInv, WriterFails
  PROVE  BrokenInv'
<1> SUFFICES ASSUME pc \in Decoding, pc # "start" PROVE BrokenInv'
  BY DEF WriterFails, BrokenInv, decoderVars
<1>1. /\ wblock \in Blocks /\ mStatuses[wblock] = "Dequeued" /\ wpc = "write" /\ avail = 1
      /\ mNextDequeue = NextBlock(wblock) /\ mNextDequeue \in Blocks
      /\ \A b \in Blocks : ~IsStop(b)
      /\ ~mKeepHistory /\ pc \in Active
  BY DEF IInv, TypeOK, QueueTypeOK, ControlInv, WriterBlock, WriterFails, CalmInv, StopInv,
         Decoding, Active
<1>2. BorderInv
  BY <1>1 DEF Halted, OrderInv
<1>3. /\ UNCHANGED <<mStatuses, mBlocks, mNextDequeue, base, out, pc>>
      /\ Waiting' = Waiting /\ Place' = Place /\ Border' = Border /\ Given' = Given
  BY DEF WriterFails, queueVars, decoderVars, Waiting, IsStop, Place, Ahead, Border, Given
<1>4. /\ Place \in [Blocks -> 0 .. NR_BLOCKS - 1]
      /\ \A b, c \in Blocks : Place[b] = Place[c] => b = c
      /\ Place[wblock] = NR_BLOCKS - 1
  <2>1. /\ Place \in [Blocks -> 0 .. NR_BLOCKS - 1]
        /\ \A b, c \in Blocks : Place[b] = Place[c] => b = c
        /\ Place[mNextDequeue] = 0
        /\ Place[NextBlock(wblock)] = IF Place[wblock] = NR_BLOCKS - 1
                                        THEN 0 ELSE Place[wblock] + 1
    BY <1>1, PlaceLemma
  <2> QED BY <2>1, <1>1, NrBlocksAssumption
<1>5. wblock \notin Waiting
  BY <1>1 DEF Waiting
<1>6. Depth = Place[Border]
  <2>1. Border \in Waiting => Depth = NR_BLOCKS
    BY DEF Depth
  <2>2. wblock \in Waiting <=> Place[wblock] < Depth
    BY <1>1, <1>2 DEF BorderInv
  <2> QED BY <2>1, <2>2, <1>1, <1>4, <1>5, NrBlocksAssumption DEF Depth
<1>7. \A b \in Blocks : b \in Waiting <=> Place[b] < Place[Border]
  BY <1>2, <1>6 DEF BorderInv
<1>8. base + Len(out) + 1 + Place[Border] = Given
  BY <1>1, <1>2, <1>6 DEF BorderInv, Taken
<1>9. \A b \in Blocks : Place[b] = NR_BLOCKS - 1 => mStatuses[b] = "Dequeued"
  BY <1>1, <1>4
<1> QED BY <1>3, <1>7, <1>8, <1>9 DEF BrokenInv

\* The writer reports it.
LEMMA BrokenReports ==
  ASSUME IInv, StopInv, BrokenInv, WriterReportsError
  PROVE  BrokenInv'
<1> SUFFICES ASSUME pc \in Decoding, pc # "start" PROVE BrokenInv'
  BY DEF WriterReportsError, BrokenInv, decoderVars
<1> DEFINE a == mNextAlloc
<1>1. /\ a \in Blocks /\ mNextDequeue \in Blocks /\ wpc = "failed"
      /\ UNCHANGED <<mNextDequeue, mNextAlloc, base, out, pc, chunks, block, ix>>
      /\ mStatuses' = [mStatuses EXCEPT ![a] = "Free"]
      /\ mBlocks' = [mBlocks EXCEPT ![a] = Stop]
      /\ mStatuses \in [Blocks -> Statuses]
      /\ mBlocks \in [Blocks -> Nat \cup {Stop}]
  BY DEF IInv, TypeOK, QueueTypeOK, WriterReportsError, WriteError, decoderVars
<1>2. /\ \A b \in Blocks : b \in Waiting <=> Place[b] < Place[Border]
      /\ base + Len(out) + 1 + Place[Border] = Given
      /\ \A b \in Blocks : Place[b] = NR_BLOCKS - 1 =>
           mStatuses[b] = "Dequeued" \/ (mStatuses[b] = "Free" /\ IsStop(b))
  BY <1>1 DEF BrokenInv
<1>3. Place' = Place /\ Border' = Border /\ Given' = Given
  BY <1>1 DEF Place, Ahead, Border, Given
<1>4. a \notin Waiting
  <2>1. CASE pc \in {"fill", "enqueue"}
    <3>1. block \in Blocks /\ mStatuses[block] = "Allocated" /\ a = NextBlock(block)
          /\ Border = block
      BY <2>1 DEF IInv, ControlInv, DecoderBlock, Border
    <3>2. Place[block] # NR_BLOCKS - 1
      BY <3>1, <1>2
    <3>3. Place[a] = Place[block] + 1 /\ Place[block] \in 0 .. NR_BLOCKS - 1
      BY <3>1, <3>2, <1>1, PlaceLemma
    <3> QED BY <3>1, <3>3, <1>1, <1>2, NrBlocksAssumption
  <2>2. CASE pc \notin {"fill", "enqueue"}
    <3>1. Border = a
      BY <2>2 DEF Border
    <3>2. Place[a] \in 0 .. NR_BLOCKS - 1
      BY <1>1, PlaceLemma
    <3> QED BY <3>1, <3>2, <1>1, <1>2, NrBlocksAssumption
  <2> QED BY <2>1, <2>2
<1>5. Waiting' = Waiting
  BY <1>1, <1>4 DEF Waiting, IsStop
<1>6. \A b \in Blocks : Place[b] = NR_BLOCKS - 1 =>
        mStatuses'[b] = "Dequeued" \/ (mStatuses'[b] = "Free" /\ IsStop(b)')
  BY <1>1, <1>2 DEF IsStop
<1> QED BY <1>1, <1>2, <1>3, <1>5, <1>6 DEF BrokenInv

\* The decoder, which does not know yet, enqueues the block it has.
LEMMA BrokenEnqueue ==
  ASSUME IInv, OrderInv, BrokenInv, Enqueue
  PROVE  BrokenInv'
<1> SUFFICES ASSUME wpc \in {"failed", "none"}, pc' \in Decoding PROVE BrokenInv'
  BY DEF Enqueue, BrokenInv, writerVars
<1>1. /\ block \in Blocks /\ NextBlock(block) \in Blocks /\ mNextDequeue \in Blocks
      /\ mNextAlloc = NextBlock(block) /\ NextBlock(block) # block
      /\ mStatuses[block] = "Allocated" /\ pc = "enqueue" /\ chunks \in Int
      /\ ix = 1 /\ pc' \in {"loop", "alloc"} /\ Border = block
  BY NextBlockLemma DEF IInv, TypeOK, QueueTypeOK, ControlInv, DecoderBlock, Enqueue,
     AfterEnqueue, Decoding, OrderInv, FillInv, Border
<1>2. /\ \A b \in Blocks : b \in Waiting <=> Place[b] < Place[block]
      /\ base + Len(out) + 1 + Place[block] = Given
      /\ \A b \in Blocks : Place[b] = NR_BLOCKS - 1 =>
           mStatuses[b] = "Dequeued" \/ (mStatuses[b] = "Free" /\ IsStop(b))
  BY <1>1 DEF BrokenInv, Decoding
<1>3. /\ Waiting' = Waiting \cup {block} /\ block \notin Waiting
      /\ Place' = Place /\ base' = base /\ out' = out
      /\ Border' = NextBlock(block)
      /\ \A b \in Blocks \ {block} : mStatuses'[b] = mStatuses[b] /\ mBlocks'[b] = mBlocks[b]
  BY <1>1 DEF Enqueue, EnqueueBlock, Waiting, IsStop, OrderInv, FillInv, IInv, TypeOK,
              QueueTypeOK, Place, Ahead, Border
<1>4. Given = chunks - 1 /\ Given' = chunks
  BY <1>1 DEF Given, Enqueue
<1>5. /\ Place \in [Blocks -> 0 .. NR_BLOCKS - 1]
      /\ \A b, c \in Blocks : Place[b] = Place[c] => b = c
      /\ Place[NextBlock(block)]
           = IF Place[block] = NR_BLOCKS - 1 THEN 0 ELSE Place[block] + 1
  BY <1>1, PlaceLemma
<1>6. Place[block] # NR_BLOCKS - 1 /\ Place[NextBlock(block)] = Place[block] + 1
  BY <1>1, <1>2, <1>5
<1>7. \A b \in Blocks : b \in Waiting' <=> Place'[b] < Place'[Border']
  BY <1>1, <1>2, <1>3, <1>5, <1>6, NrBlocksAssumption
<1>8. base' + Len(out') + 1 + Place'[Border'] = Given'
  <2>1. base \in Int /\ Len(out) \in Int /\ Place[block] \in Int
    BY <1>1, <1>5, NrBlocksAssumption DEF IInv, TypeOK
  <2> QED BY <2>1, <1>1, <1>2, <1>3, <1>4, <1>6
<1>9. \A b \in Blocks : Place'[b] = NR_BLOCKS - 1 =>
        mStatuses'[b] = "Dequeued" \/ (mStatuses'[b] = "Free" /\ IsStop(b)')
  BY <1>2, <1>3, <1>6 DEF IsStop
<1> QED BY <1>7, <1>8, <1>9 DEF BrokenInv

\* So it holds in every step.
LEMMA BrokenStep ==
  ASSUME WriteFaultsOnly, PromiseInv, BrokenInv, [Next]_vars
  PROVE  BrokenInv'
<1> SUFFICES ASSUME wpc' \in {"failed", "none"}, pc' \in Decoding, pc' # "start"
             PROVE  BrokenInv'
  BY DEF BrokenInv
<1>1. CASE WriterFails
  BY <1>1, BrokenFails DEF PromiseInv
<1>2. CASE WriterReportsError
  BY <1>2, BrokenReports DEF PromiseInv
<1>3. CASE Enqueue
  BY <1>3, BrokenEnqueue DEF PromiseInv
<1>4. CASE ~WriterFails /\ ~WriterReportsError /\ ~Enqueue
  <2>1. /\ wpc \in {"failed", "none"} /\ pc \in Decoding /\ pc # "start"
        /\ Waiting' = Waiting /\ mNextDequeue' = mNextDequeue
        /\ Border' = Border /\ Given' = Given
        /\ base' = base /\ out' = out
        /\ \A b \in Blocks :
             mStatuses[b] = "Dequeued" \/ (mStatuses[b] = "Free" /\ IsStop(b)) =>
               mStatuses'[b] = "Dequeued" \/ (mStatuses'[b] = "Free" /\ IsStop(b)')
    BY <1>4, BrokenQuiet DEF PromiseInv, IInv
  <2>2. /\ \A b \in Blocks : b \in Waiting <=> Place[b] < Place[Border]
        /\ base + Len(out) + 1 + Place[Border] = Given
        /\ \A b \in Blocks : Place[b] = NR_BLOCKS - 1 =>
             mStatuses[b] = "Dequeued" \/ (mStatuses[b] = "Free" /\ IsStop(b))
    BY <2>1 DEF BrokenInv
  <2>3. Place' = Place
    BY <2>1 DEF Place, Ahead
  <2>4. \A b \in Blocks : b \in Waiting' <=> Place'[b] < Place'[Border']
    BY <2>1, <2>2, <2>3
  <2>5. base' + Len(out') + 1 + Place'[Border'] = Given'
    BY <2>1, <2>2, <2>3
  <2>6. \A b \in Blocks : Place'[b] = NR_BLOCKS - 1 =>
          mStatuses'[b] = "Dequeued" \/ (mStatuses'[b] = "Free" /\ IsStop(b)')
    BY <2>1, <2>2, <2>3
  <2> QED BY <2>4, <2>5, <2>6 DEF BrokenInv
<1> QED BY <1>1, <1>2, <1>3, <1>4

-----------------------------------------------------------------------------
\* A chunk is decoded only when there is a block for it: fewer than NR_BLOCKS are
\* on their way.
LEMMA RoomForChunk ==
  ASSUME PromiseInv, BrokenInv, pc = "fill"
  PROVE  chunks - base - Len(out) < NR_BLOCKS
<1>1. /\ block \in Blocks /\ mStatuses[block] = "Allocated" /\ mNextDequeue \in Blocks
      /\ ~mKeepHistory /\ Border = block /\ Given = chunks /\ block \notin Waiting
      /\ chunks \in Int /\ base \in Int /\ Len(out) \in Int /\ avail \in 0 .. 1
      /\ wpc \in {"none", "dequeue", "write", "wrote", "failed"}
  BY DEF PromiseInv, IInv, TypeOK, QueueTypeOK, ControlInv, DecoderBlock, CalmInv, Border,
         Given, Waiting
<1>2. /\ Place \in [Blocks -> 0 .. NR_BLOCKS - 1]
      /\ \A b, c \in Blocks : Place[b] = Place[c] => b = c
  BY <1>1, PlaceLemma
<1>3. CASE wpc \in {"failed", "none"}
  <2>1. /\ chunks - base - Len(out) = Place[block] + 1
        /\ Place[block] # NR_BLOCKS - 1
    BY <1>1, <1>2, <1>3 DEF BrokenInv, Decoding
  <2> QED BY <2>1, <1>1, <1>2, NrBlocksAssumption
<1>4. CASE wpc \in {"dequeue", "write", "wrote"}
  <2>1. BorderInv
    BY <1>1, <1>4 DEF PromiseInv, OrderInv, StopInv, Halted, Active
  <2>2. /\ Depth = Place[block] /\ Taken + Place[block] = chunks
        /\ \A b \in Blocks : b \in Waiting <=> Place[b] < Place[block]
    BY <2>1, <1>1 DEF BorderInv, Depth, Decoding
  <2>3. CASE wpc = "write"
    <3>1. wblock \in Blocks /\ wblock \notin Waiting /\ wblock # block
      BY <2>3, <1>1 DEF PromiseInv, IInv, ControlInv, WriterBlock, Waiting
    <3>2. Place[block] < Place[wblock]
      BY <3>1, <2>2, <1>1, <1>2, NrBlocksAssumption
    <3> QED BY <3>1, <3>2, <2>2, <2>3, <1>1, <1>2, NrBlocksAssumption DEF Taken
  <2>4. CASE wpc # "write"
    BY <2>2, <2>4, <1>1, <1>2, NrBlocksAssumption DEF Taken
  <2> QED BY <2>3, <2>4
<1> QED BY <1>1, <1>3, <1>4

\* Every step is one of ChunkStream, or changes nothing it speaks of.
LEMMA Simulation ==
  ASSUME WriteFaultsOnly, PromiseInv, BrokenInv, [Next]_vars
  PROVE  [Promise!Next]_Promise!vars
<1> USE DEF Promise!vars, PromiseInv, IInv, TypeOK, ControlInv, RingHasOneUser,
            writerVars, interrupterVars
<1>1. CASE Stream
  <2>1. Promise!Call
    BY <1>1 DEF Stream, Promise!Call
  <2> QED BY <2>1 DEF Promise!Next
<1>2. CASE Begin
  BY <1>2 DEF Begin, queueVars
<1>3. CASE Setup
  BY <1>3 DEF Setup, queueVars
<1>4. CASE ResetBlocks
  BY <1>4 DEF ResetBlocks, ResetBlock
<1>5. CASE ResetAlloc
  BY <1>5 DEF ResetAlloc, ResetNextAlloc
<1>6. CASE ResetDequeue
  BY <1>6 DEF ResetDequeue, ResetNextDequeue
<1>7. CASE CreateWriter
  BY <1>7 DEF CreateWriter, queueVars
<1>8. CASE Loop
  BY <1>8 DEF Loop, queueVars
<1>9. CASE DecoderWaits
  BY <1>9 DEF DecoderWaits, AllocWait, decoderVars
<1>10. CASE Alloc
  BY <1>10 DEF Alloc, AllocBlock
<1>11. CASE AllocReportsError
  BY <1>11 DEF AllocReportsError, AllocRefused, queueVars
<1>12. CASE FillFails
  BY <1>12 DEF FillFails
<1>13. CASE Enqueue
  BY <1>13 DEF Enqueue, EnqueueBlock, AfterEnqueue
<1>14. CASE LastBlock
  BY <1>14 DEF LastBlock, AllocBlock
<1>15. CASE LastBlockNull
  BY <1>15 DEF LastBlockNull, AllocRefused, queueVars, decoderVars
<1>16. CASE EnqueueStop
  BY <1>16 DEF EnqueueStop
<1>17. CASE Join
  <2>1. CASE leaving = "finished"
    BY <1>17, <2>1 DEF Join
  <2>2. CASE leaving = "error"
    <3>1. Promise!Return("error")
      BY <1>17, <2>2 DEF Join, Promise!Return
    <3> QED BY <3>1 DEF Promise!Next, Promise!Outcomes
  <2>3. leaving # "interrupted"
    BY <1>17 DEF Join, CalmInv, Ending
  <2> QED BY <1>17, <2>1, <2>2, <2>3 DEF Join
<1>18. CASE Flush
  <2>1. CASE result' = "true"
    <3>1. ResultInv'
      BY <1>18, ResultStep DEF Next, Decoder
    <3>2. Len(out) = chunks - base /\ chunks \in Nat /\ base \in Nat
      BY <1>18, <2>1, <3>1 DEF ResultInv, SuccessMeansComplete, Flush
    <3>3. Promise!Pending = 0
      BY <3>2 DEF Promise!Pending
    <3>4. Promise!Return("true")
      BY <1>18, <2>1, <3>3 DEF Flush, Promise!Return
    <3> QED BY <3>4 DEF Promise!Next, Promise!Outcomes
  <2>2. CASE result' = "error"
    <3>1. Promise!Return("error")
      BY <1>18, <2>2 DEF Flush, Promise!Return
    <3> QED BY <3>1 DEF Promise!Next, Promise!Outcomes
  <2> QED BY <1>18, <2>1, <2>2 DEF Flush
<1>19. CASE WriterWaits
  BY <1>19 DEF WriterWaits, DequeueWait, decoderVars
<1>20. CASE WriterStops
  BY <1>20 DEF WriterStops, DequeueStop, queueVars, decoderVars
<1>21. CASE WriterDequeues
  BY <1>21 DEF WriterDequeues, DequeueBlock, decoderVars
<1>22. CASE WriterWrites
  <2>1. CASE avail = 0
    BY <1>22, <2>1 DEF WriterWrites, decoderVars
  <2>2. CASE avail = 1
    <3>1. /\ wpc = "write" /\ mBlocks[wblock] = base + Len(out) + 1 /\ mBlocks[wblock] <= chunks
          /\ out' = Append(out, mBlocks[wblock]) /\ pc # "idle" /\ Len(out) \in Nat
      BY <1>22, <2>2 DEF WriterWrites, OrderInv, WriterInv, CalmInv, StopInv, WriterBlock
    <3>2. Promise!Pending > 0
      BY <3>1 DEF Promise!Pending
    <3>3. Promise!Deliver
      BY <1>22, <3>1, <3>2 DEF WriterWrites, decoderVars, Promise!Deliver
    <3> QED BY <3>3 DEF Promise!Next
  <2>3. avail = 0 \/ avail = 1
    OBVIOUS
  <2> QED BY <2>1, <2>2, <2>3, Zenon
<1>23. CASE WriterFails
  BY <1>23 DEF WriterFails, queueVars, decoderVars
<1>24. CASE WriterPutsOutside
  BY <1>24 DEF WriterPutsOutside, queueVars, decoderVars
<1>25. CASE WriterFrees
  BY <1>25 DEF WriterFrees, WroteBlock, decoderVars
<1>26. CASE WriterReportsError
  BY <1>26 DEF WriterReportsError, WriteError, decoderVars
<1>27. CASE InterruptFlag
  BY <1>27 DEF InterruptFlag, queueVars, decoderVars
<1>28. CASE InterruptNullQueue
  BY <1>28 DEF InterruptNullQueue, queueVars, decoderVars
<1>29. CASE \E n \in 0 .. 1, end \in FillEnds : Fill(n, end)
  <2>1. PICK n \in 0 .. 1, end \in FillEnds : Fill(n, end)
    BY <1>29
  <2>2. CASE n = 0
    BY <2>1, <2>2 DEF Fill
  <2>3. CASE n = 1
    <3>1. Promise!Pending < NR_BLOCKS
      BY <2>1, RoomForChunk DEF Fill, Promise!Pending
    <3>2. Promise!Produce
      BY <2>1, <2>3, <3>1 DEF Fill, Promise!Produce
    <3> QED BY <3>2 DEF Promise!Next
  <2> QED BY <2>2, <2>3
<1>30. CASE Corrupted
  BY <1>30 DEF Corrupted, Interrupt, FirstNotHeld, Held
<1>31. CASE InterruptQueue
  BY <1>31 DEF InterruptQueue, Interrupt, FirstNotHeld, Held, decoderVars
<1>32. CASE UNCHANGED vars
  BY <1>32 DEF vars, queueVars, decoderVars
<1> QED
  BY <1>1, <1>2, <1>3, <1>4, <1>5, <1>6, <1>7, <1>8, <1>9, <1>10, <1>11,
     <1>12, <1>13, <1>14, <1>15, <1>16, <1>17, <1>18, <1>19, <1>20, <1>21,
     <1>22, <1>23, <1>24, <1>25, <1>26, <1>27, <1>28, <1>29, <1>30, <1>31,
     <1>32
     DEF Next, Decoder, Writer, Interrupter, Finished
\* So the threads implement what stream() promises: chunks in order, no more on their
\* way than there are blocks, and "true" only when all are delivered.
THEOREM PromiseKept ==
  ASSUME WriteFaultsOnly
  PROVE  Spec => KeepsPromise
<1>1. Init => Promise!Init /\ BrokenInv
  BY DEF Init, QueueInit, Promise!Init, BrokenInv, Decoding
<1>2. Spec => []BrokenInv
  <2>1. PromiseInv /\ BrokenInv /\ [Next]_vars => BrokenInv'
    BY BrokenStep
  <2> QED BY <1>1, <2>1, PromiseInvariant, PTL DEF Spec
<1>3. PromiseInv /\ BrokenInv /\ [Next]_vars => [Promise!Next]_Promise!vars
  BY Simulation
<1> QED BY <1>1, <1>2, <1>3, PromiseInvariant, PTL DEF Spec, KeepsPromise, Promise!Spec

=============================================================================
