--------------------------- MODULE DecodeInstQueue ---------------------------
(***************************************************************************)
(* DecodeInstQueue (DeflateDecoderMT.cpp): the fixed ring of instruction   *)
(* blocks between the decoder thread, which fills blocks, and the writer   *)
(* thread, which executes them.  Every method but reset() holds mLock from *)
(* its first to its last statement, so a method is one action; a method    *)
(* that waits on mWaiter is one action that joins the wait set and one     *)
(* that goes on.  Waking everybody is what mWaiter.wakeAll() does.         *)
(***************************************************************************)
EXTENDS Integers

CONSTANT NR_BLOCKS

\* The decoder and the writer each hold a block, so that one block is not a queue.
ASSUME NrBlocksAssumption == NR_BLOCKS \in Nat /\ NR_BLOCKS >= 2

VARIABLES
  mWritten,      \* amount written so far, as reported to progress()
  mBlocks,       \* the first instruction of each block, which isStop() reads
  mStatuses,     \* Free, Allocated, Enqueued or Dequeued
  mLengths,      \* the number of instructions in each enqueued block
  mNextAlloc,    \* the block allocBlock hands out next
  mNextDequeue,  \* the block dequeueBlock looks at next
  waiters        \* the threads asleep in mWaiter

queueVars == <<mWritten, mBlocks, mStatuses, mLengths, mNextAlloc, mNextDequeue,
               waiters>>

Blocks == 0 .. NR_BLOCKS - 1

\* A block's first instruction: cleared, the stop mark, or the data chunk (a
\* positive number) whose instructions fill the block.
Cleared == 0
Stop == -1

Statuses == {"Free", "Allocated", "Enqueued", "Dequeued"}

Threads == {"decoder", "writer"}

\* (i + 1) % NR_BLOCKS, for the indices that occur.
NextBlock(i) == IF i = NR_BLOCKS - 1 THEN 0 ELSE i + 1

IsStop(b) == mBlocks[b] = Stop

Held(b) == mStatuses[b] \in {"Allocated", "Dequeued"}

\* How many steps (i + 1) % NR_BLOCKS leads from mNextDequeue to b.
Ahead(b) == IF b >= mNextDequeue THEN b - mNextDequeue
                                 ELSE b - mNextDequeue + NR_BLOCKS

QueueTypeOK ==
  /\ mWritten \in Nat
  /\ mBlocks \in [Blocks -> Nat \cup {Stop}]
  /\ mStatuses \in [Blocks -> Statuses]
  /\ mLengths \in [Blocks -> 0 .. 1]
  /\ mNextAlloc \in Blocks
  /\ mNextDequeue \in Blocks
  /\ waiters \subseteq Threads

-----------------------------------------------------------------------------
\* A fresh queue, which the constructor leaves after its call of reset().
QueueInit ==
  /\ mWritten = 0
  /\ mBlocks = [b \in Blocks |-> Cleared]
  /\ mStatuses = [b \in Blocks |-> "Free"]
  /\ mLengths = [b \in Blocks |-> 0]
  /\ mNextAlloc = 0
  /\ mNextDequeue = 0
  /\ waiters = {}

\* reset() takes no lock: another thread's interrupt() may fall between two of
\* its statements.  One action per iteration of its loop and one per index; the
\* first statement, mWritten = 0, is part of the iterations, for nobody else
\* uses mWritten then.
ResetBlock(b) ==
  /\ mWritten' = 0
  /\ mStatuses' = [mStatuses EXCEPT ![b] = "Free"]
  /\ mLengths' = [mLengths EXCEPT ![b] = 0]
  /\ mBlocks' = [mBlocks EXCEPT ![b] = Cleared]
  /\ UNCHANGED <<mNextAlloc, mNextDequeue, waiters>>

ResetNextAlloc ==
  /\ mNextAlloc' = 0
  /\ UNCHANGED <<mWritten, mBlocks, mStatuses, mLengths, mNextDequeue, waiters>>

ResetNextDequeue ==
  /\ mNextDequeue' = 0
  /\ UNCHANGED <<mWritten, mBlocks, mStatuses, mLengths, mNextAlloc, waiters>>

-----------------------------------------------------------------------------
\* allocBlock, while the next block is not free: sleep until woken.
AllocWait ==
  /\ mStatuses[mNextAlloc] # "Free"
  /\ waiters' = waiters \cup {"decoder"}
  /\ UNCHANGED <<mWritten, mBlocks, mStatuses, mLengths, mNextAlloc, mNextDequeue>>

\* allocBlock returning 0: the free block carries the stop mark of writeError.
AllocRefused ==
  /\ mStatuses[mNextAlloc] = "Free"
  /\ IsStop(mNextAlloc)
  /\ UNCHANGED queueVars

\* Mutant: a block is handed out without a look at its status.
AllocBlockBusy ==
  /\ ~IsStop(mNextAlloc)
  /\ mStatuses' = [mStatuses EXCEPT ![mNextAlloc] = "Allocated"]
  /\ mNextAlloc' = NextBlock(mNextAlloc)
  /\ UNCHANGED <<mWritten, mBlocks, mLengths, mNextDequeue, waiters>>

\* allocBlock returning the block mNextAlloc.
AllocBlock ==
  /\ mStatuses[mNextAlloc] = "Free"
  /\ ~IsStop(mNextAlloc)
  /\ mStatuses' = [mStatuses EXCEPT ![mNextAlloc] = "Allocated"]
  /\ mNextAlloc' = NextBlock(mNextAlloc)
  /\ UNCHANGED <<mWritten, mBlocks, mLengths, mNextDequeue, waiters>>

\* Mutant: wakeAll() is forgotten.
EnqueueBlockSilent(b, avail) ==
  /\ mLengths' = [mLengths EXCEPT ![b] = avail]
  /\ mStatuses' = [mStatuses EXCEPT ![b] = "Enqueued"]
  /\ UNCHANGED <<mWritten, mBlocks, mNextAlloc, mNextDequeue, waiters>>

EnqueueBlock(b, avail) ==
  /\ mLengths' = [mLengths EXCEPT ![b] = avail]
  /\ mStatuses' = [mStatuses EXCEPT ![b] = "Enqueued"]
  /\ waiters' = {}
  /\ UNCHANGED <<mWritten, mBlocks, mNextAlloc, mNextDequeue>>

-----------------------------------------------------------------------------
\* dequeueBlock, while the next block is not enqueued: sleep until woken.
DequeueWait ==
  /\ mStatuses[mNextDequeue] # "Enqueued"
  /\ waiters' = waiters \cup {"writer"}
  /\ UNCHANGED <<mWritten, mBlocks, mStatuses, mLengths, mNextAlloc, mNextDequeue>>

\* dequeueBlock returning 0: the stop mark of lastBlock or of interrupt.
DequeueStop ==
  /\ mStatuses[mNextDequeue] = "Enqueued"
  /\ IsStop(mNextDequeue)
  /\ UNCHANGED queueVars

\* Mutant: the block is freed when it is dequeued, before it is written out.
DequeueBlockFreed ==
  /\ mStatuses[mNextDequeue] = "Enqueued"
  /\ ~IsStop(mNextDequeue)
  /\ mStatuses' = [mStatuses EXCEPT ![mNextDequeue] = "Free"]
  /\ mNextDequeue' = NextBlock(mNextDequeue)
  /\ UNCHANGED <<mWritten, mBlocks, mLengths, mNextAlloc, waiters>>

\* dequeueBlock returning the block mNextDequeue.
DequeueBlock ==
  /\ mStatuses[mNextDequeue] = "Enqueued"
  /\ ~IsStop(mNextDequeue)
  /\ mStatuses' = [mStatuses EXCEPT ![mNextDequeue] = "Dequeued"]
  /\ mNextDequeue' = NextBlock(mNextDequeue)
  /\ UNCHANGED <<mWritten, mBlocks, mLengths, mNextAlloc, waiters>>

\* Mutant: the length of the block is counted twice.
WroteBlockTwice(b, written) ==
  /\ mWritten' = mWritten + written + written
  /\ mBlocks' = [mBlocks EXCEPT ![b] = Cleared]
  /\ mStatuses' = [mStatuses EXCEPT ![b] = "Free"]
  /\ waiters' = {}
  /\ UNCHANGED <<mLengths, mNextAlloc, mNextDequeue>>

\* Mutant: the block stays Dequeued.
WroteBlockKept(b, written) ==
  /\ mWritten' = mWritten + written
  /\ mBlocks' = [mBlocks EXCEPT ![b] = Cleared]
  /\ waiters' = {}
  /\ UNCHANGED <<mStatuses, mLengths, mNextAlloc, mNextDequeue>>

WroteBlock(b, written) ==
  /\ mWritten' = mWritten + written
  /\ mBlocks' = [mBlocks EXCEPT ![b] = Cleared]
  /\ mStatuses' = [mStatuses EXCEPT ![b] = "Free"]
  /\ waiters' = {}
  /\ UNCHANGED <<mLengths, mNextAlloc, mNextDequeue>>

\* Mutant: wakeAll() is forgotten.
WriteErrorSilent ==
  /\ mStatuses' = [mStatuses EXCEPT ![mNextAlloc] = "Free"]
  /\ mBlocks' = [mBlocks EXCEPT ![mNextAlloc] = Stop]
  /\ UNCHANGED <<mWritten, mLengths, mNextAlloc, mNextDequeue, waiters>>

\* "the next block we try to allocate will report the write error"
WriteError ==
  /\ mStatuses' = [mStatuses EXCEPT ![mNextAlloc] = "Free"]
  /\ mBlocks' = [mBlocks EXCEPT ![mNextAlloc] = Stop]
  /\ waiters' = {}
  /\ UNCHANGED <<mWritten, mLengths, mNextAlloc, mNextDequeue>>

-----------------------------------------------------------------------------
\* The block at which the loop of interrupt() ends: the first one from
\* mNextDequeue on that neither thread holds.  While there is none, the loop
\* spins with mLock held and the action is disabled.
FirstNotHeld(b) ==
  /\ ~Held(b)
  /\ \A c \in Blocks : Ahead(c) < Ahead(b) => Held(c)

\* Mutant: the block at mNextDequeue is taken whoever holds it.
InterruptHeld ==
  /\ mStatuses' = [mStatuses EXCEPT ![mNextDequeue] = "Enqueued"]
  /\ mBlocks' = [mBlocks EXCEPT ![mNextDequeue] = Stop]
  /\ waiters' = {}
  /\ UNCHANGED <<mWritten, mLengths, mNextAlloc, mNextDequeue>>

Interrupt ==
  \E b \in Blocks :
    /\ FirstNotHeld(b)
    /\ mNextDequeue' = b
    /\ mStatuses' = [mStatuses EXCEPT ![b] = "Enqueued"]
    /\ mBlocks' = [mBlocks EXCEPT ![b] = Stop]
    /\ waiters' = {}
    /\ UNCHANGED <<mWritten, mLengths, mNextAlloc>>

=============================================================================
