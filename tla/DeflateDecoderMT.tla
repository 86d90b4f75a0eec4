-------------------------- MODULE DeflateDecoderMT --------------------------
(***************************************************************************)
(* The multithreaded inflate of libqz7 (DeflateDecoderMT.cpp): the thread  *)
(* that called stream() decodes into the blocks of the queue, the writer   *)
(* thread executes the blocks against the ring buffer, and any other       *)
(* thread may call interrupt().  What a block holds is abstracted to a     *)
(* chunk number; what the decoder finds in the compressed data, and when a *)
(* write fails, is chosen nondeterministically.                            *)
(***************************************************************************)
EXTENDS DecodeInstQueue, Sequences

CONSTANTS
  Faults,             \* which of FaultKinds can happen
  WriteErrorsPersist, \* a destination that failed once fails ever after
  Histories,          \* the values of setKeepHistory the caller uses
  MaxChunks,          \* bound: data blocks in a stream
  MaxStreams,         \* bound: calls of stream()
  MaxInterrupts       \* bound: calls of interrupt()

\* corrupted() is called; Error is thrown out of the decoding (the read stream
\* fails or ends, a Huffman table is bad); a write fails; interrupt() is called.
FaultKinds == {"corrupted", "exception", "write", "interrupt"}

ASSUME ConfigAssumption ==
  /\ Faults \subseteq FaultKinds
  /\ WriteErrorsPersist \in BOOLEAN
  /\ Histories \subseteq BOOLEAN
  /\ MaxChunks \in Nat /\ MaxStreams \in Nat /\ MaxInterrupts \in Nat

VARIABLES
  pc,            \* where the thread in stream() is
  streaming,     \* mBytesExpected = 0
  mKeepHistory,
  mInterrupted,
  queueExists,   \* mQueue # 0
  ringSized,     \* mOutBuffer has a buffer
  ringFull,      \* it has no room: a flush of the full buffer failed
  ri,            \* the loop index of reset()
  block, ix,     \* the block being filled and its number of instructions
  fillEnd,       \* what ended the filling of the block
  leaving,       \* what stream() does after lastBlock() and wait()
  wpc,           \* where the writer thread is; "none": it does not run
  wblock, avail, \* the block it executes and its number of instructions
  ipc,           \* where the interrupting thread is
  chunks,        \* the number of the last chunk decoded
  base,          \* the number of the last chunk of the streams before
  out,           \* the chunks the writer executed in this stream, in order
  broken,        \* the destination failed a write of this stream
  reported,      \* the last amount written that progress() reported
  result,        \* what the last stream() returned, or "error": it threw
  crash,         \* what no program survives for sure: a null pointer, or an overrun
  streams, interrupts

decoderVars == <<pc, streaming, mKeepHistory, queueExists, ringSized, ri, block,
                 ix, fillEnd, leaving, chunks, base, reported, result, streams>>
writerVars == <<wpc, wblock, avail, ringFull>>
interrupterVars == <<ipc, interrupts>>
vars == <<queueVars, decoderVars, writerVars, interrupterVars, mInterrupted, out,
          broken, crash>>

NoBlock == -1

FillEnds == {"full", "chunk", "expected", "final"}

TypeOK ==
  /\ QueueTypeOK
  /\ pc \in {"idle", "begin", "setup", "resetBlocks", "resetAlloc",
             "resetDequeue", "start", "loop", "alloc", "fill", "enqueue",
             "corrupted", "last", "stop", "join", "flush"}
  /\ streaming \in BOOLEAN /\ mKeepHistory \in BOOLEAN
  /\ mInterrupted \in BOOLEAN
  /\ queueExists \in BOOLEAN /\ ringSized \in BOOLEAN /\ ringFull \in BOOLEAN
  /\ ri \in Blocks
  /\ block \in Blocks \cup {NoBlock} /\ ix \in 0 .. 1
  /\ fillEnd \in FillEnds
  /\ leaving \in {"finished", "interrupted", "error"}
  /\ wpc \in {"none", "dequeue", "write", "wrote", "failed"}
  /\ wblock \in Blocks \cup {NoBlock} /\ avail \in 0 .. 1
  /\ ipc \in {"idle", "flagged"}
  /\ chunks \in Nat /\ base \in Nat
  /\ out \in Seq(Int)
  /\ broken \in BOOLEAN
  /\ reported \in Nat
  /\ result \in {"none", "true", "false", "error"}
  /\ crash \in {"none", "nullBlock", "nullQueue", "nullBuffer", "overrun"}
  /\ streams \in Nat /\ interrupts \in Nat

Init ==
  /\ QueueInit
  /\ pc = "idle" /\ streaming = TRUE /\ mKeepHistory = FALSE
  /\ mInterrupted = FALSE
  /\ queueExists = FALSE /\ ringSized = FALSE /\ ringFull = FALSE
  /\ ri = 0 /\ block = NoBlock /\ ix = 0 /\ fillEnd = "full"
  /\ leaving = "finished"
  /\ wpc = "none" /\ wblock = NoBlock /\ avail = 0
  /\ ipc = "idle"
  /\ chunks = 0 /\ base = 0 /\ out = <<>> /\ broken = FALSE /\ reported = 0
  /\ result = "none" /\ crash = "none"
  /\ streams = 0 /\ interrupts = 0

-----------------------------------------------------------------------------
(* stream(): up to the start of the writer *)

\* BaseDeflateDecoder::stream creates the decoder, sets its two properties and
\* calls it.
Stream ==
  /\ pc = "idle" /\ streams < MaxStreams
  /\ pc' = "begin"
  /\ streams' = streams + 1
  /\ streaming' \in BOOLEAN /\ mKeepHistory' \in Histories
  /\ base' = chunks /\ out' = <<>> /\ broken' = FALSE
  /\ reported' = 0 /\ result' = "none" /\ fillEnd' = "full"
  /\ UNCHANGED <<queueVars, writerVars, interrupterVars, mInterrupted, queueExists,
                 ringSized, ri, block, ix, leaving, chunks, crash>>

\* mInterrupted = 0, and the backing streams are set.
Begin ==
  /\ pc = "begin"
  /\ pc' = "setup"
  /\ mInterrupted' = FALSE
  /\ UNCHANGED <<queueVars, writerVars, interrupterVars, streaming, mKeepHistory,
                 queueExists, ringSized, ri, block, ix, fillEnd, leaving, chunks,
                 base, reported, result, streams, out, broken, crash>>

\* setup(): the queue is created once; unless the history is kept, the ring
\* buffer is sized and cleared and the queue reset.
Setup ==
  /\ pc = "setup"
  /\ queueExists' = TRUE
  /\ ringSized' = (ringSized \/ ~mKeepHistory)
  /\ ringFull' = (ringFull /\ mKeepHistory)
  /\ pc' = IF mKeepHistory THEN "start" ELSE "resetBlocks"
  /\ UNCHANGED <<queueVars, wpc, wblock, avail, interrupterVars, mInterrupted,
                 streaming, mKeepHistory, ri, block, ix, fillEnd, leaving, chunks,
                 base, reported, result, streams, out, broken, crash>>

ResetBlocks ==
  /\ pc = "resetBlocks"
  /\ ResetBlock(ri)
  /\ ri' = NextBlock(ri)
  /\ pc' = IF ri = NR_BLOCKS - 1 THEN "resetAlloc" ELSE "resetBlocks"
  /\ UNCHANGED <<writerVars, interrupterVars, mInterrupted, streaming, mKeepHistory,
                 queueExists, ringSized, block, ix, fillEnd, leaving, chunks, base,
                 reported, result, streams, out, broken, crash>>

ResetAlloc ==
  /\ pc = "resetAlloc"
  /\ ResetNextAlloc
  /\ pc' = "resetDequeue"
  /\ UNCHANGED <<writerVars, interrupterVars, mInterrupted, streaming, mKeepHistory,
                 queueExists, ringSized, ri, block, ix, fillEnd, leaving, chunks,
                 base, reported, result, streams, out, broken, crash>>

ResetDequeue ==
  /\ pc = "resetDequeue"
  /\ ResetNextDequeue
  /\ pc' = "start"
  /\ UNCHANGED <<writerVars, interrupterVars, mInterrupted, streaming, mKeepHistory,
                 queueExists, ringSized, ri, block, ix, fillEnd, leaving, chunks,
                 base, reported, result, streams, out, broken, crash>>

\* createWriter(): QThread::start() of a thread that does not run.
CreateWriter ==
  /\ pc = "start" /\ wpc = "none"
  /\ wpc' = "dequeue" /\ wblock' = NoBlock
  /\ pc' = "loop"
  /\ UNCHANGED <<queueVars, interrupterVars, mInterrupted, streaming, mKeepHistory,
                 queueExists, ringSized, ri, block, ix, fillEnd, leaving, chunks,
                 base, reported, result, streams, out, broken, crash, avail,
                 ringFull>>

-----------------------------------------------------------------------------
(* streamingDecode() and decodeBlock() *)

\* The head of either loop.  An interrupted streamingDecode returns like a
\* finished one; the loop over decodeBlock returns false.
Loop ==
  /\ pc = "loop"
  /\ IF mInterrupted
       THEN /\ pc' = "last"
            /\ leaving' = IF streaming THEN "finished" ELSE "interrupted"
       ELSE /\ pc' = "alloc"
            /\ UNCHANGED leaving
  /\ UNCHANGED <<queueVars, writerVars, interrupterVars, mInterrupted, streaming,
                 mKeepHistory, queueExists, ringSized, ri, block, ix, fillEnd,
                 chunks, base, reported, result, streams, out, broken, crash>>

\* The decoder sleeps in allocBlock, called from a decoding loop or lastBlock.
DecoderWaits ==
  /\ pc \in {"alloc", "last"} /\ "decoder" \notin waiters
  /\ AllocWait
  /\ UNCHANGED <<decoderVars, writerVars, interrupterVars, mInterrupted, out,
                 broken, crash>>

Alloc ==
  /\ pc = "alloc" /\ "decoder" \notin waiters
  /\ AllocBlock
  /\ block' = mNextAlloc
  /\ reported' = mWritten
  /\ pc' = "fill"
  /\ UNCHANGED <<writerVars, interrupterVars, mInterrupted, streaming, mKeepHistory,
                 queueExists, ringSized, ri, ix, fillEnd, leaving, chunks, base,
                 result, streams, out, broken, crash>>

\* allocBlock returned 0: WriteError is thrown, and stream() catches it.
AllocReportsError ==
  /\ pc = "alloc" /\ "decoder" \notin waiters
  /\ AllocRefused
  /\ pc' = "last" /\ leaving' = "error"
  /\ UNCHANGED <<writerVars, interrupterVars, mInterrupted, streaming, mKeepHistory,
                 queueExists, ringSized, ri, block, ix, fillEnd, chunks, base,
                 reported, result, streams, out, broken, crash>>

\* The instructions of n chunks (none or one) are decoded into the block, until
\* the block is full, decodeBlock's 2^18 bytes or the expected number of bytes
\* are decoded, or the final deflate block ends.
Fill(n, end) ==
  /\ pc = "fill"
  /\ streaming => end \in {"full", "final"}
  /\ IF n = 0 THEN end = "final" ELSE chunks - base < MaxChunks
  /\ mBlocks' = [mBlocks EXCEPT ![block] = IF n = 0 THEN Cleared ELSE chunks + 1]
  /\ chunks' = chunks + n
  /\ ix' = n /\ fillEnd' = end
  /\ pc' = "enqueue"
  /\ UNCHANGED <<mWritten, mStatuses, mLengths, mNextAlloc, mNextDequeue, waiters,
                 writerVars, interrupterVars, mInterrupted, streaming, mKeepHistory,
                 queueExists, ringSized, ri, block, leaving, base, reported, result,
                 streams, out, broken, crash>>

\* The decoding of the block ends in corrupted(), or in another Error, which
\* stream() catches: nobody enqueues the block any more.
FillFails ==
  /\ pc = "fill"
  /\ \/ "corrupted" \in Faults /\ pc' = "corrupted"
     \/ "exception" \in Faults /\ pc' = "last"
  /\ leaving' = "error"
  /\ mBlocks' = [mBlocks EXCEPT ![block] = Cleared]
  /\ block' = NoBlock
  /\ UNCHANGED <<mWritten, mStatuses, mLengths, mNextAlloc, mNextDequeue, waiters,
                 writerVars, interrupterVars, mInterrupted, streaming, mKeepHistory,
                 queueExists, ringSized, ri, ix, fillEnd, chunks, base, reported,
                 result, streams, out, broken, crash>>

\* corrupted(): "clean up the writer thread", then throw.
Corrupted ==
  /\ pc = "corrupted"
  /\ Interrupt
  /\ pc' = "last"
  /\ UNCHANGED <<writerVars, interrupterVars, mInterrupted, streaming, mKeepHistory,
                 queueExists, ringSized, ri, block, ix, fillEnd, leaving, chunks,
                 base, reported, result, streams, out, broken, crash>>

\* Where a loop goes on after the block: decodeBlock, unlike streamingDecode,
\* does not look at mInterrupted between two blocks of one call.
AfterEnqueue ==
  IF fillEnd \in {"final", "expected"} THEN "last"
  ELSE IF fillEnd = "chunk" \/ streaming THEN "loop"
  ELSE "alloc"

Enqueue ==
  /\ pc = "enqueue"
  /\ EnqueueBlock(block, ix)
  /\ block' = NoBlock
  /\ pc' = AfterEnqueue
  /\ leaving' = "finished"
  /\ UNCHANGED <<writerVars, interrupterVars, mInterrupted, streaming, mKeepHistory,
                 queueExists, ringSized, ri, ix, fillEnd, chunks, base, reported,
                 result, streams, out, broken, crash>>

-----------------------------------------------------------------------------
(* stream(): lastBlock(), wait(), and the three ways out *)

LastBlock ==
  /\ pc = "last" /\ "decoder" \notin waiters
  /\ AllocBlock
  /\ block' = mNextAlloc
  /\ pc' = "stop"
  /\ UNCHANGED <<writerVars, interrupterVars, mInterrupted, streaming, mKeepHistory,
                 queueExists, ringSized, ri, ix, fillEnd, leaving, chunks, base,
                 reported, result, streams, out, broken, crash>>

\* lastBlock does not test the block allocBlock returned: block->setStop() is
\* called on the null pointer.
LastBlockNull ==
  /\ pc = "last" /\ "decoder" \notin waiters
  /\ AllocRefused
  /\ crash' = "nullBlock"
  /\ UNCHANGED <<decoderVars, writerVars, interrupterVars, mInterrupted, out, broken>>

\* setStop() without the lock, then enqueueBlock(block, 0).
EnqueueStop ==
  /\ pc = "stop"
  /\ mLengths' = [mLengths EXCEPT ![block] = 0]
  /\ mStatuses' = [mStatuses EXCEPT ![block] = "Enqueued"]
  /\ mBlocks' = [mBlocks EXCEPT ![block] = Stop]
  /\ waiters' = {}
  /\ block' = NoBlock
  /\ pc' = "join"
  /\ UNCHANGED <<mWritten, mNextAlloc, mNextDequeue, writerVars, interrupterVars,
                 mInterrupted, streaming, mKeepHistory, queueExists, ringSized, ri,
                 ix, fillEnd, leaving, chunks, base, reported, result, streams, out,
                 broken, crash>>

\* Mutant: the result is not made to wait for the writer.
JoinEarly ==
  /\ pc = "join"
  /\ \/ leaving = "finished" /\ pc' = "flush" /\ UNCHANGED result
     \/ leaving = "interrupted" /\ pc' = "idle" /\ result' = "false"
     \/ leaving = "error" /\ pc' = "idle" /\ result' = "error"
  /\ UNCHANGED <<queueVars, writerVars, interrupterVars, mInterrupted, streaming,
                 mKeepHistory, queueExists, ringSized, ri, block, ix, fillEnd,
                 leaving, chunks, base, reported, streams, out, broken, crash>>

\* mWriterThread->wait().
Join ==
  /\ pc = "join" /\ wpc = "none"
  /\ \/ leaving = "finished" /\ pc' = "flush" /\ UNCHANGED result
     \/ leaving = "interrupted" /\ pc' = "idle" /\ result' = "false"
     \/ leaving = "error" /\ pc' = "idle" /\ result' = "error"
  /\ UNCHANGED <<queueVars, writerVars, interrupterVars, mInterrupted, streaming,
                 mKeepHistory, queueExists, ringSized, ri, block, ix, fillEnd,
                 leaving, chunks, base, reported, streams, out, broken, crash>>

\* mOutBuffer.flush(), which throws when the write fails; else return true.
Flush ==
  /\ pc = "flush"
  /\ \/ /\ ~(broken /\ WriteErrorsPersist)
        /\ result' = "true" /\ ringFull' = FALSE
        /\ UNCHANGED broken
     \/ /\ "write" \in Faults
        /\ result' = "error"
        /\ broken' = TRUE
        /\ UNCHANGED ringFull
  /\ pc' = "idle"
  /\ UNCHANGED <<queueVars, wpc, wblock, avail, interrupterVars, mInterrupted, streaming,
                 mKeepHistory, queueExists, ringSized, ri, block, ix, fillEnd,
                 leaving, chunks, base, reported, streams, out, crash>>

-----------------------------------------------------------------------------
(* DecodeWriterThread::run() *)

WriterWaits ==
  /\ wpc = "dequeue" /\ "writer" \notin waiters
  /\ DequeueWait
  /\ UNCHANGED <<decoderVars, writerVars, interrupterVars, mInterrupted, out,
                 broken, crash>>

WriterStops ==
  /\ wpc = "dequeue" /\ "writer" \notin waiters
  /\ DequeueStop
  /\ wpc' = "none"
  /\ UNCHANGED <<decoderVars, interrupterVars, mInterrupted, out, broken, crash,
                 wblock, avail, ringFull>>

WriterDequeues ==
  /\ wpc = "dequeue" /\ "writer" \notin waiters
  /\ DequeueBlock
  /\ wblock' = mNextDequeue /\ avail' = mLengths[mNextDequeue]
  /\ wpc' = "write"
  /\ UNCHANGED <<decoderVars, interrupterVars, mInterrupted, out, broken, crash,
                 ringFull>>

\* All the instructions of the block go to the ring buffer.
WriterWrites ==
  /\ wpc = "write" /\ (avail = 0 \/ (ringSized /\ ~ringFull))
  /\ out' = IF avail = 0 THEN out ELSE Append(out, mBlocks[wblock])
  /\ wpc' = "wrote"
  /\ UNCHANGED <<queueVars, decoderVars, interrupterVars, mInterrupted, broken,
                 crash, wblock, avail, ringFull>>

\* A flush of the full ring buffer throws in the middle of the block, and leaves it
\* full.
WriterFails ==
  /\ wpc = "write" /\ avail = 1 /\ ringSized /\ ~ringFull
  /\ "write" \in Faults
  /\ broken' = TRUE /\ ringFull' = TRUE
  /\ wpc' = "failed"
  /\ UNCHANGED <<queueVars, decoderVars, interrupterVars, mInterrupted, out, crash,
                 wblock, avail>>

\* putByte() or repeatBytes() through the null mBuffer of a ring buffer that was
\* never sized, or behind one that an earlier stream left full: see RingBuffer.
WriterPutsOutside ==
  /\ wpc = "write" /\ avail = 1
  /\ \/ ~ringSized /\ crash' = "nullBuffer"
     \/ ringSized /\ ringFull /\ crash' = "overrun"
  /\ UNCHANGED <<queueVars, decoderVars, writerVars, interrupterVars, mInterrupted,
                 out, broken>>

WriterFrees ==
  /\ wpc = "wrote"
  /\ WroteBlock(wblock, avail)
  /\ wblock' = NoBlock /\ wpc' = "dequeue"
  /\ UNCHANGED <<decoderVars, interrupterVars, mInterrupted, out, broken, crash,
                 avail, ringFull>>

WriterReportsError ==
  /\ wpc = "failed"
  /\ WriteError
  /\ wblock' = NoBlock /\ wpc' = "none"
  /\ UNCHANGED <<decoderVars, interrupterVars, mInterrupted, out, broken, crash,
                 avail, ringFull>>

-----------------------------------------------------------------------------
(* DeflateDecoderMT::interrupt(), from another thread: two steps *)

\* The decoder exists from the first call of BaseDeflateDecoder::stream on.
InterruptFlag ==
  /\ "interrupt" \in Faults
  /\ ipc = "idle" /\ streams > 0 /\ interrupts < MaxInterrupts
  /\ mInterrupted' = TRUE
  /\ ipc' = "flagged" /\ interrupts' = interrupts + 1
  /\ UNCHANGED <<queueVars, decoderVars, writerVars, out, broken, crash>>

InterruptQueue ==
  /\ ipc = "flagged" /\ queueExists
  /\ Interrupt
  /\ ipc' = "idle"
  /\ UNCHANGED <<decoderVars, writerVars, mInterrupted, out, broken, crash,
                 interrupts>>

\* mQueue->interrupt() before setup() has created the queue.
InterruptNullQueue ==
  /\ ipc = "flagged" /\ ~queueExists
  /\ crash' = "nullQueue"
  /\ UNCHANGED <<queueVars, decoderVars, writerVars, interrupterVars, mInterrupted,
                 out, broken>>

-----------------------------------------------------------------------------
\* The steps of the thread in stream(), without the call itself.
Decoder ==
  \/ Begin \/ Setup \/ ResetBlocks \/ ResetAlloc \/ ResetDequeue \/ CreateWriter
  \/ Loop \/ DecoderWaits \/ Alloc \/ AllocReportsError
  \/ \E n \in 0 .. 1, end \in FillEnds : Fill(n, end)
  \/ FillFails \/ Corrupted \/ Enqueue
  \/ LastBlock \/ LastBlockNull \/ EnqueueStop \/ Join \/ Flush

Writer ==
  \/ WriterWaits \/ WriterStops \/ WriterDequeues \/ WriterWrites \/ WriterFails
  \/ WriterPutsOutside \/ WriterFrees \/ WriterReportsError

Interrupter == InterruptFlag \/ InterruptQueue \/ InterruptNullQueue

\* All calls of stream() are made and have returned.
Finished ==
  /\ pc = "idle" /\ streams = MaxStreams /\ ipc = "idle"
  /\ UNCHANGED vars

Next == crash = "none" /\ (Stream \/ Decoder \/ Writer \/ Interrupter \/ Finished)

Spec == Init /\ [][Next]_vars

\* The operating system runs both threads; nobody has to call stream() or
\* interrupt(), nor has an interrupting thread to go on.
FairSpec ==
  /\ Spec
  /\ WF_vars(crash = "none" /\ Decoder)
  /\ WF_vars(crash = "none" /\ Writer)

-----------------------------------------------------------------------------
(* Properties *)

\* No thread sleeps on mWaiter while what it waits for is already the case: each
\* change of a status it tests is followed by wakeAll() in the same lock.
NoLostWakeup ==
  /\ "decoder" \in waiters => mStatuses[mNextAlloc] # "Free"
  /\ "writer" \in waiters => mStatuses[mNextDequeue] # "Enqueued"

\* The blocks are read and written without mLock, so each must belong to one
\* thread: the decoder's block is Allocated, the writer's Dequeued, whatever
\* interrupt(), writeError() and reset() do to the other blocks meanwhile.
BlockOwnership ==
  /\ block # NoBlock => mStatuses[block] = "Allocated"
  /\ wpc \in {"write", "wrote"} => mStatuses[wblock] = "Dequeued"

\* interrupt() and corrupted() skip the blocks in use with mLock held, in a loop
\* that ends only because at least one block is never in use.
InterruptLoopEnds == \E b \in Blocks : ~Held(b)

\* The ring buffer has no lock: while the decoder thread clears or flushes it
\* and resets the queue, and while no stream() runs, the writer does not run.
RingHasOneUser ==
  pc \in {"idle", "begin", "setup", "resetBlocks", "resetAlloc", "resetDequeue",
          "start", "flush"} => wpc = "none"

\* The writer executes the chunks in the order they were decoded, each once and
\* none skipped, whatever blocks errors and interrupts take out of the queue.  With
\* kept history the queue is not reset, and blocks of an earlier stream come first.
OutputInOrder == ~mKeepHistory => \A i \in 1 .. Len(out) : out[i] = base + i

\* stream() "returns true on success" (Codec.h): the end of the data was reached
\* and every chunk decoded was written out.
SuccessMeansComplete ==
  result = "true" => /\ fillEnd \in {"final", "expected"}
                     /\ Len(out) = chunks - base

\* What progress() reports as written never exceeds what the writer wrote, since the
\* queue was reset.
ProgressIsHonest == ~mKeepHistory => reported <= Len(out)

\* A block the decoder has filled is not touched until the writer took it: a
\* block leaves Enqueued for Dequeued only, unless an error or an interrupt
\* discards it or a new stream resets the queue.
EnqueuedIsDelivered ==
  [][\A b \in Blocks :
       mStatuses[b] = "Enqueued" /\ mStatuses'[b] # "Enqueued" =>
         \/ mStatuses'[b] = "Dequeued" /\ wblock' = b
         \/ wpc = "failed" \/ pc = "resetBlocks"]_vars

\* Each call of stream() returns: neither thread waits for the other for ever.
\* The code keeps this without faults only.
StreamReturns == pc # "idle" ~> pc = "idle"

\* As StreamReturns, or the process dies of the null block in lastBlock().
StreamReturnsOrCrashes == pc # "idle" ~> (pc = "idle" \/ crash # "none")

\* lastBlock() never calls setStop() through the null pointer by which
\* allocBlock reports a write error.  The code does, at a write error the decoder sees.
NoNullBlock == crash # "nullBlock"

\* interrupt() may be called at any time during stream().  In the code the queue it
\* interrupts does not exist before the first setup().
NoNullQueue == crash # "nullQueue"

\* The writer puts nothing behind the ring buffer.  In the code it does, where the
\* history is kept and the stream before could not write a full buffer.
NeverOverruns == crash # "overrun"

\* What a caller of stream() is promised, see ChunkStream.
Promise == INSTANCE ChunkStream WITH
  Capacity <- NR_BLOCKS, MaxStreams <- MaxStreams, calls <- streams,
  busy <- pc # "idle", produced <- chunks, delivered <- out, before <- base,
  outcome <- result

KeepsPromise == Promise!Spec

=============================================================================
