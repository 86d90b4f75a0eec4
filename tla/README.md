# A TLA+ verification project for libqz7

qz7 is a library for archives, built on Qt. Its core is inflate, in a single-threaded and in a
multithreaded form, with the bit streams, Huffman codes, ring buffer and archive classes around
it, up to a gzip archive, and the beginnings of a deflate encoder. This directory holds TLA+
models of the parts that are hard to get right, the TLC configurations that check them, and proofs
which TLAPS checks.

    tlc -config MT_faults.cfg MCDeflateDecoderMT      # one run
    tlapm DeflateDecoderMT_proofs.tla                 # one module of proofs

`PROJECT.json` lists the runs, the lines of source that each definition models, the mutants that
show that a property can fail, the findings and the hazards.

## 1. The system

The CMake files build `libqz7/` and its tests. `inherited-from-7zip/` is the 7-Zip source as a
quarry, and `inherited-from-arkive/` an earlier KDE program; neither is built.

| Component | State | Operations | Works with |
|---|---|---|---|
| `DeflateDecoderMT` | flags, bit reader, Huffman decoders, pending match, ring buffer | `stream`, `interrupt`, `setBytesExpected`, `setKeepHistory` | fills blocks of the queue; starts and joins the writer thread |
| `DecodeInstQueue` | four blocks, their statuses, two indices, one mutex, one condition | `allocBlock`, `enqueueBlock`, `lastBlock`, `dequeueBlock`, `wroteBlock`, `writeError`, `interrupt`, `reset` | decoder thread, writer thread, any interrupting thread |
| `DecodeWriterThread` | the block it executes | `run` | takes blocks, writes to the ring buffer |
| `DecodeInst` | 2 × 16 bits | `setLiteral`, `setLength`, `setDistance`, `setStop` | what is in a block |
| `DeflateDecoderST` | mode of the block, rest of a match, ring buffer | `stream`, `codeChunk`, `interrupt` | the same formats in one thread |
| `DeflateDecoder` | one of the two decoders | `stream`, `interrupt`, `setProperty` | picks the decoder by the number of processors |
| `RingBuffer` | window, position | `putByte`, `putBytes`, `repeatBytes`, `flush`, `clear` | flushes to a `WriteStream`, may throw |
| `BitReaderLE`, `BitReaderBE` | buffer, position in bits | `peekBits`, `consumeBits`, `readBits`, `alignToByte` | read ahead from a `ReadStream`, may throw |
| `BitWriterLE`, `BitWriterBE` | buffer, position, bits of a byte | `writeBits`, `flushByte`, `flush` | write to a `WriteStream`, may throw |
| `HuffmanDecoder` | limits, positions, table of short codes | `setCodeLengths`, `decodeSymbol` | peeks at and consumes bits |
| Streams, analyzers | counts, limits, checksums | `read`, `readSome`, `skipForward`, `write` | Qt devices, which may be short or fail |
| `Crc32` | the CRC so far | `update` | the tables of `Crc.cpp`, set up once |
| `Archive` | items, modifications, two counters | `count`, `item`, `appendItem`, `replaceItem`, `deleteItem`, `normalizedItems` | filled by `open()` of an archive |
| `GzipArchive` | codec, read stream, a flag | `open`, `extractTo`, `interrupt` | codec, limited and checksum streams, volume; any interrupting thread |
| `Registry`, plugins, `Volume` | factories | look-ups, opening a file | created once |
| `MatchFinder` | block, hash tables, ring of sons, position | `Create`, `Init`, `GetMatches`, `Skip` | a read stream; built, but used by nothing that is built |
| `HuffmanEncode`, `Sort` | — | `Huffman_Generate`, `HeapSort` | the same |
| `DeflateEncoder` | tables, prices, a block | `code` | commented out of the build |

How they interact: an archive gives `stream()` a read stream and a write stream. The decoder pulls
bits, each pull possibly a refill that fails or ends short; it turns them into literals and
matches; these go to the ring buffer, directly (ST) or through the queue (MT); the ring buffer
flushes to the write stream whenever it is full. Errors are exceptions. `interrupt()` may come from
another thread at any time (`Codec.h:28`).

What is hard here, and what makes each part correct:

* *MT, the threads.* Two threads, one condition variable, a third thread that rewrites the queue.
  Every call returns; no thread sleeps beside what it waits for; a block has one owner; output is
  in order; "true" means everything was written.
* *MT and ST, the data.* Three units cut the data at different places: blocks of the format, blocks
  of the queue or portions of 2^18 bytes, and `bytesExpected`. No cut loses, repeats or displaces
  a byte.
* *DecodeInst.* Kinds of instruction share 16 bits. What goes in comes out.
* *RingBuffer.* Overlapping copies, wrap and flush in one loop. The window is the last bytes put,
  and the stream gets all of them.
* *Bit readers and writers.* A buffer, an index in bits, short reads, padding at the end, flushes that
  fail and are tried again. A value is always the next bits, "truncated" means the end, and the
  bits come out in the order in which they were put in.
* *Huffman codes.* Tables left from the code before; incomplete and oversubscribed sets. The encoder
  forces its lengths under a limit; what it makes must be complete all the same, and canonical.
* *Code lengths.* Runs over two tables in one sequence; uninitialised arrays. The encoder goes through
  its runs twice, with two copies of one loop; what it counts must be what it writes.
* *Archive.* Identifiers outlive deletion, old items and new ones are deleted differently, and `count()`
  is kept apart from what it counts. Items keep their identifiers, and none is given twice.
* *GzipArchive.* "True" rests on a checksum that is computed in front of a write which may fail, on
  another thread's errors, and on a size taken from the header. True means that the target has the
  data, and a sound file is refused only for a reason.
* *MatchFinder.* Three things wrap or move while it runs: the ring, the block and the position. A match
  it reports is one, and it does not miss the longest.
* *Crc.* Bytes in single steps and in steps of four, by the address of the block. A CRC is that of the
  bytes given.
* *Streams.* What is counted when a read fails.

## 2. Modules

| Module | Models | Abstraction |
|---|---|---|
| `DecodeInstQueue` | the queue; each locked method is an action | a block is `Cleared`, `Stop` or a chunk number |
| `DeflateDecoderMT` | EXTENDS it: both threads, `interrupt()` | what the bits say is chosen; a block of instructions is a chunk |
| `ChunkStream` | abstract: what `stream()` of MT promises | no threads |
| `DecodeBlock` | the loops of `decodeBlock()` and `streamingDecode()` over one stream | positions of the output instead of bytes; an instruction is the positions it will write |
| `DecodeInst` | 16-bit fields, `addLiteral`, `addLenDist`, `run()` unpacking | real widths |
| `QueueBlocks` | composes these two: what goes into a queue block | one `view` at a time |
| `DeflateDecoderST` | `stream()` and `codeChunk()` of ST over several streams | positions of the output instead of bytes |
| `Inflate` | abstract: what a call owes for the bytes it writes | — |
| `RingBuffer` | the loops of put and repeat, one iteration an action | two byte values |
| `LzHistory` | abstract: the output of an LZ77 decoder | — |
| `BitReaderLE` | buffer, refill, peek, consume, align | a byte is its number in the stream, a bit its number |
| `BitReaderBE` | EXTENDS it: the other order of bits, and the step behind the buffer | the same |
| `BitWriter` | both writers: buffer, flushes, widths over byte borders | a bit is its number among those written |
| `BitIo` | composes the readers and the writers | one `kind` at a time |
| `DeflateTables` | `readTables()`, `decodeLevelTable()` | fields have any value |
| `LevelTableCode` | EXTENDS it: the same levels as the encoder counts and writes them | numbers instead of their codes |
| `HeaderBits` | composes `BitIo` and `LevelTableCode` | one `part` at a time |
| `HuffmanDecoder` | `setCodeLengths()` and `decodeSymbol()` | bits as one number |
| `HuffmanEncode` | `Huffman_Generate()`, `HeapSort()` | packed words as records |
| `Huffman` | composes the two | one `side` at a time |
| `Archive` | edits of items, and `normalizedItems()` | an item is one value |
| `ItemEdits` | abstract: items with identifiers that stay theirs | no counters, no modifications |
| `GzipArchive` | EXTENDS `Archive`: files, streams, checksum, facade, decoder, `interrupt()` | units of data; a checksum is what it was computed from |
| `MatchFinder` | `MatchFinder.cpp`, all kinds | bits for bytes, all sizes scaled down |
| `Crc` | `CrcUpdate()`, its tables | narrower bytes |
| `MC...` | instances for TLC | |
| `..._proofs` | theorems | |

`QueueBlocks`, `BitIo`, `HeaderBits` and `Huffman` put components that share no state into one
run: a variable says which of them is at work, for good, and the others stand still. They make the
runs fewer, not the behaviours. `DeflateDecoderMT` with its queue, and `GzipArchive` with the
streams, the decoder and the interrupting thread, are compositions proper.

How the state corresponds: variables keep the names of the members (`mStatuses`, `mNextAlloc`,
`mPendingLen`, `mRemainLen`, ...). `pc`, `wpc` and `ipc` of `DeflateDecoderMT` say where the thread
in `stream()`, the writer and the interrupting thread are. A method that holds `mLock` throughout
is one action. A wait is two: one that joins `waiters`, and the rest of the method, which needs the
thread out of `waiters` and tests the condition again. `wakeAll()` empties `waiters`. `reset()`,
which has no lock, and `interrupt()` of the decoder, which sets a flag and then calls the queue,
are one action per statement or iteration that another thread could see. `crash` of `DeflateDecoderMT`
records a null pointer that was dereferenced or a put behind the ring buffer, whereafter nothing
happens. `overrun` of `RingBuffer` records the latter where it is done, and `ringFull` of
`DeflateDecoderMT` is all that it has to know of the ring buffer for it: that a flush of the full
buffer failed, and `mPos` is still `mSize`.

`out`, `hist`, `sent`, `failed`, `origin`, `base`, `runs`, `codeLengths`, `symbols`, `target`, `excused` and `stream` of
`Crc` are history variables: they record what was put, written or read and no guard of the code reads
them.

How the modules fit: `DeflateDecoderMT` is about when a block travels and `DecodeBlock` about what
is in it, with the queue between them as the FIFO that `OutputInOrder` shows it to be.
`DecodeInst` is about how an instruction of `DecodeBlock` is stored. `DeflateTables` yields the
lengths `HuffmanDecoder` takes, and bits come from `BitReaderLE`. The output of either decoder is
put into `RingBuffer`. `GzipArchive` has a decoder reduced to what the modules above show of it: units
decoded in order, a window that is flushed when it is full, and the two ways in which a failing write
gets to the caller. For the encoder, `HuffmanEncode` and `HuffmanDecoder` are held to one closed form of
the canonical codes, and `LevelTableCode` writes what `DeflateTables` can read.

Every module states a `TypeOK`. It is proved where there are proofs and is in no run; a line
`INVARIANT TypeOK` in a `.cfg` checks it.

## 3. Runs

There are few runs, one for each part, each with several properties; parts that need the same bounds
share one. Constants of the code are scaled
down where only their relation matters; the bounds are the constants named `Max...`, and the small
sets in each `.cfg`. Every run says `CHECK_DEADLOCK FALSE`: all the models stop at their bound, and
the liveness property of `MT_write` says more than the absence of deadlock.

**Threads** (`MCDeflateDecoderMT`, four blocks as in the code). In `MT_faults` everything may happen
at once: corrupted data, exceptions, write errors that come and go, two calls of `interrupt()` at any
moment, and a caller that switches `keepHistory`. Five chunks through four blocks make the ring go
round and the decoder wait. Three streams: the second meets what the first left in the queue, the
third what both left. Two interrupts cover one on top of another. Ownership of the blocks, wakeups,
one user of the ring buffer, the end of the loop in `interrupt()` and the delivery of what was
enqueued hold throughout; order of the output and an honest `progress()` are stated while history is
not kept, for with it blocks of the stream before are written first. A stream that keeps the history
of one whose write failed may put behind the ring buffer, and ends there (section 4). `MT_write` allows write errors
only: there the call returns, or dies of the null pointer of section 4, true means complete, and the
safety part of `ChunkStream` holds. With the other faults these do not hold (section 4).

**Ring buffer** (`RB_window`). Size 3, matches up to 4 and seven bytes in total: every match wraps,
overlaps itself, or spans a flush, from every position. Flushes fail, of the full buffer and in the
middle. A new stream clears the buffer or takes it over as it is, a full one that could not be written
included. The first put then stores behind the buffer: neither `RingBuffer` nor the decoders look. The
window, the stream and the refinement of `LzHistory` are stated up to such a put, `OverrunIsInherited` says what
it takes, and section 4 has the run that finds it.

**Single-threaded decoder** (`ST_streams`). Portions of 4, a ring of 3, matches of 3 and 6, up to 9
bytes: a match spans one or two portions and a flush; stored blocks too. `bytesExpected` takes values
at, before and behind each of these borders. Two streams, of which the first may fail or be
interrupted. `Careful` excludes one thing callers could do, see section 4.

**Blocks of the multithreaded decoder** (`DB_blocks`, 95,000 states). Three instructions per block,
portions of 4, matches of 3 and 6, so that a match is cut by a portion once and twice. `Careful`
excludes stored blocks and data longer than `bytesExpected` where `bytesExpected` is set, which is what
two of the divergences below are about; `streamingDecode()`, used when it is not set, has both kinds
of blocks. The other view has real widths: literals 0 and 255, lengths 3 and 258, distances 1 and
32768 (less one, as they are stored), two uses of a block that holds whatever an earlier use may have
left: a stop mark, literals, a match.

**Bits and code lengths** (`HB_header`, 312,000 states). Readers: four bytes of buffer, counts 1, 3, 8
and 15, streams of 0 to 6 bytes, each read returning as little or as much as it may, or failing, and
`alignToByte()` at any moment. Writers: widths 1 to 21 up to 48 bits, each flush failing or not.
Decoder's tables of 3 to 5 and 1 to 3, runs of 3, 4 and 11, so that runs end before, at and behind the
border of the tables and are cut at the end. Encoder's tables of 8 and 2 levels, with runs longer and
shorter than the longest repetition, of zeros and of others.

**Huffman codes** (`HD_canonical`, 234,000 states). All sets of lengths 0 to 5 of four symbols, maximum
4, a table for 2 bits, one set after any other: codes shorter and longer than the table, at its
border, incomplete, complete and oversubscribed. The reference is RFC 1951, 3.2.2, in closed form.
The encoder: all frequencies of five symbols out of six values, under limits of 3, which bites, and
of 4, which does not; three counters, so that frequencies go into the counting and into the heap sort.

**Archives** (`AR_gzip`, 1.1 million states). Up to two items to open, identifiers up to 4: old items and
new ones deleted in any order, all new ones deleted and others appended, an old one deleted and brought
back by `replaceItem()`. Callers pass identifiers that exist, as the code asserts, and open an
archive before they edit it. Eleven files: each field of the header there or not, damaged data, data
with another length, files cut by a byte and by all of the trailer, other methods and other kinds of
files. Three units through a window of two, so that a flush happens inside and at the end; two calls, so that
the second meets what the first left; an interrupt at every step.

**Match finder** (`MF_matches`, 1.65 million states, two minutes). Every stream of eleven bits, a history
of four, matches up to four, normalization at nine: the ring goes round twice, the block is moved, and
positions are brought down between. Bits collide in every hash. `CutValue` is large enough not to cut a
search, which it may by design.

**CRC** (`V_crc_of_blocks`). Bytes of two bits, three words of memory, two blocks of up to nine
bytes: all alignments of begin and end. The run finds the violation of section 4; without the
blocks that cause it (`Careful = TRUE`) the property holds.

## 4. Where the code and its comments disagree

Three runs have TLC find a counterexample to what `Codec.h` or a comment says:

| Run | What happens |
|---|---|
| `V_corrupted_hangs` | corrupted data ends the writer, and `stream()` then waits for ever |
| `V_interrupted_is_success` | an interrupted stream returns true |
| `V_crc_of_blocks` | the CRC of a block inside one word of memory takes bytes from before the block |

The models show more of them. Each is found by changing the constants of the run named, in a copy of
its `.cfg`, and checking the property in the last column alone, as an invariant where nothing else is
said; `MT` stands for `MT_faults` with
`MaxStreams = 1`, and `MaxStreams = 2` in the two lines that name `DeflateDecoderMT.cpp:527`.

| What happens | Where | Run and constants | Property |
|---|---|---|---|
| an `Error` inside a block leaves the queue blocked, and `stream()` waits for ever | `DeflateDecoderMT.cpp:575` | `MT_write`: `Faults = {"exception"}` | `StreamReturns` |
| `interrupt()` ends the writer, and the decoder waits for ever | `DeflateDecoderMT.cpp:589` | `MT_write`: `Faults = {"interrupt"}`, `MaxInterrupts = 1` | `StreamReturnsOrCrashes` |
| a write error makes `lastBlock()` use a null pointer | `DeflateDecoderMT.cpp:80` | `MT_write` | `NoNullBlock` |
| a write error behind the last allocation is not noticed | `DeflateDecoderMT.cpp:581` | `MT_write`: `WriteErrorsPersist = FALSE` | `SuccessMeansComplete` |
| with `keepHistory` the stop block of the last stream ends the new writer | `DeflateDecoderMT.cpp:527` | `MT`: `Faults = {}`, `MaxInterrupts = 0` | `SuccessMeansComplete` |
| with `keepHistory` the stream behind one that could not write a full ring buffer puts behind that buffer | `RingBuffer.h:54`, `:97` | `RB_window` | `NeverOverruns` |
| the same, where the decoders change the stream of a buffer that they do not clear | `DeflateDecoderMT.cpp:527`, `DeflateDecoderST.cpp:142` | `MT`: `Faults = {"write"}` | `NeverOverruns` |
| `interrupt()` before the queue exists calls through a null pointer | `DeflateDecoderMT.cpp:589` | `MT`: `Faults = {"interrupt"}` | `NoNullQueue` |
| `putBytes()` repeats its first bytes behind the wrap | `RingBuffer.h:67` | `RB_window` | `PutBytesPutsBytes` |
| a failed stream's output is written to the next stream | `DeflateDecoderST.cpp:251` | `ST_streams`: `Careful = FALSE` | `SuccessMeansTheData` |
| a stored block is read past its end when `bytesExpected` is set | `DeflateDecoderMT.cpp:472` | `DB_blocks`: `Careful = FALSE`, `Formats = {"stored"}` | `SuccessMeansTheData` |
| a match cut at `bytesExpected` is computed from the wrong length | `DeflateDecoderMT.cpp:498` | `DB_blocks`: `Careful = FALSE`, `Formats = {"coded"}`, `ChunkSize = 12`, `Sizes = {12}`, `Expected = {10}` | `SuccessMeansTheData` |
| long matches of Deflate64 read as literals | `DeflateDecoderMT_p.h:24` | `DB_blocks`: `InstLengths = {3, 36000}` | `LiteralIndexValid` |
| `alignToByte()` reports a truncated archive with a byte to spare | `BitIoLE.h:71` | `HB_header` | `CannotAlignMeansEnd` |
| `BitReaderBE` shows old bits behind the end, not the padding | `BitIoBE.h:39` | `HB_header` | `PaddedWithOnes` |
| `BitReaderBE` copies from before its buffer | `BitIoBE.h:39` | `HB_header` | `NeverCrashes` |
| `BitWriterLE` mixes in the bits above the width of a value | `BitIoLE.h:139` | `HB_header`: `HighBitsClear = FALSE` | `BitsInOrder` |
| an identifier below `count()` is not that of an item once an appended one was deleted, and `extractTo()` takes it | `GzipArchive.cpp:163`, `Archive.cpp:52` | `AR_gzip` | `OnlyItemsAreTaken` (PROPERTY) |
| items appended before `open()` get identifiers of the items it finds | `Archive.cpp:63` | `AR_gzip`: `EditsBeforeOpen = TRUE` | `CountIsItems` |
| the limit of the compressed data does not count the zeros behind the strings of the header | `GzipArchive.cpp:125` | `AR_gzip` | `LimitIsTheData` |
| a sound header with a checksum and a string is refused | `GzipArchive.cpp:126` | `AR_gzip` | `SoundIsAccepted` |
| an interrupted extraction reports another error, or a wrong checksum | `GzipArchive.cpp:213`, `:186` | `AR_gzip` | `InterruptIsReported` (PROPERTY) |
| a window whose write failed is shown to the checksum and written again at the end: for data that repeats itself the checksum fits, and a part is missing | `GzipArchive.cpp:190` | `AR_gzip`: `RingSize = 1`, `Files <- RepeatingFiles` | `ExtractedIsTheData` |
| a finder made again with another kind keeps its sons at the place of the old hash | `MatchFinder.cpp:246` | `MF_matches`: `Settings <- SameSize` | `SonsFollowHash` |
| a search that is cut misses the longest match, by design | `MatchFinder.cpp:345` | `MF_matches`: `CutValue = 2` | `LongestIsFound` |

## 5. Fairness

Only `DeflateDecoderMT` has liveness properties. `FairSpec` asks for weak fairness of the decoder
thread and of the writer thread: the operating system runs both, and each step of either, once
possible, stays so until it or the thread's own alternative is taken, the only disabling by another
thread being that of a status under the lock, which a wait then turns into another step of the same
thread. Nothing is assumed of callers: nobody must call `stream()`, and an interrupting thread may
stop between its two steps. No strong fairness is used: no two threads compete for a block.

## 6. Proofs

All are for every value of the constants under the named assumptions of the modules, without
bounds on streams, chunks or sizes.

*Threads.* `DeflateDecoderMT_proofs` proves type correctness, `NoLostWakeup`, `BlockOwnership` and
`RingHasOneUser` for all faults and any number of blocks from two. None is inductive alone. The
strengthening `IInv` adds where the decoder's block is: right before `mNextAlloc`. That is why
`writeError()`, which frees `mNextAlloc` whatever its status, never frees a block in use. It also
says that a thread sleeps only where it waits.

*The loop of `interrupt()`.* The same module shows `InterruptLoopEnds` for four blocks or more
and without kept history: `HeldInv` counts the blocks in use. An exception leaves one allocated,
`lastBlock()` takes another, the writer has a third, and there can be no fourth. With three blocks
the loop may not end; the constant 4 of the code is just enough.
The run checks it with kept history too, for three streams.

*The queue is a FIFO.* The same module: `OutputInOrder`, `ProgressIsHonest` and
`EnqueuedIsDelivered` under all faults. `OrderInv` says of each block that waits which chunk it has: its
place, counted from `mNextDequeue`, behind the last chunk the writer took (`ChainInv`), and that the
blocks that wait are those before the border where the decoder enqueues (`BorderInv`). An interrupt or
an error breaks that, but then the writer is `Halted`: it takes no block any more in this stream. A
reset makes all of it true again (`FreshInv`). All this is without kept history; with it nothing
is claimed of the order.

*The promise.* The same module: with write errors that persist, and no other fault, `SuccessMeansComplete`
and the step simulation of `ChunkStream` (`WriteFaultsOnly`; section 4 has what the others do).
`StopInv` says that the writer gives up at errors only, and that no block carries a stop mark
before `lastBlock()`; `EndInv` that at the end of the data the writer has the last chunk, or will get
it, unless a write failed; `ResultInv` that "true" is said only behind that. `BrokenInv` bounds what is in
flight once the writer gave up: one chunk is lost, those before the border wait, and the block behind
them is not handed out again.

*Single-threaded decoder.* `DecoderST_proofs`: type correctness, `NothingSkipped` and the refinement of
`Inflate`, for every size of a portion, of the ring and of the data. `BlockInv` says where
`codeChunk()` stands in the data, `OutInv` that what is in the stream and in the ring is the positions
up to there but for the rest of a match. `CarefulCaller` is the `Careful` of the run, without kept history.

*What goes into a queue block.* `QueueBlocks_proofs`, the bytes: `AvailFits` without any assumption
(`IndexInv`), and under `CarefulCaller` type correctness, `CountsTheOutput` and the refinement of
`Inflate`. `LaidInv` says that what is enqueued, what is in the block and the literals being collected
are, one behind the other, the first positions of the data; `LoopInv` that a match is pending only at
the end of a portion; `PortionInv` what is left of `bytesExpected`. The simulation needs one more
assumption than the run suggests: a match that does not fit into a portion is cut at
`mBytesExpected - len`, not at the bytes that are left, and that is right only as long as this
difference is no less than the portion. With portions of at least twice the longest match, as in
the code, it is. The bits: for all literals, distances and lengths below 2^15 (`FitsTheFields`), no
field overflows and `LiteralIndexValid`. `PackedInv` says which instructions are complete, and that the
one being packed still has its high byte of zeros. `BlockSaysTheSymbols` for the same: `SaysInv` keeps, for
the instructions that are complete and the literals in the one that is not, what they say one behind
the other, so that a symbol more changes the end of that only (`OneMore`).

*Ring buffer.* `RingBuffer_proofs`: `WindowIsHistory`, `StreamIsHistory`, and the refinement of
`LzHistory`, for every size, byte and match, up to a put that stores behind the buffer; and
`OverrunIsInherited`, that this happens only behind a failed write of the same stream or as the first
put of a stream that took over a full buffer. `RInv` says what is known inside a call: there is room,
and the source of a match is `offset + 1` behind the position. `SentInv` relates what was flushed
to the history without naming the window, so that a flush and a put can be treated apart; from it
follows `OverrunIsInherited`, for with a full buffer and no failed write nothing was sent yet.

*Bit streams.* `HeaderBits_proofs`, for every buffer of three bytes or more. The readers, with counts up to
25 (`BitsRead`, `NoBitIsSkipped`, `TruncatedAtEnd`, `StaleAtEnd`): `Good` says of a reader that its indices are in the buffer, that each valid byte is the one of the
stream that belongs there, and that bits taken minus bits buffered are the bits consumed; a refill
keeps it whatever the read returns. `PeekedIsRead` is what makes `TruncatedArchiveError` out of
`consumeBits()` mean the end of the stream; for that of `alignToByte()` see section 4. The big-endian
reader may stand on the byte behind those buffered, and does so at the end of the stream only
(`GoodIndicesBE`, `BitsInvBE`), which is `StaleOnlyAtEnd`. The writers: `WInv` says that the bits in use
of the buffer are the last ones written, the rest of it zeros, and that the target has those before.
For callers that set no bit above the width (`HighBitsClear`), the bits then arrive in order, in both
orders of bits, over flushes that fail and are tried again. All of this is lifted to
`HeaderSpec`, the specification that the run checks.

*Block headers.* `HeaderBits_proofs`: `LevelsAreTheRuns` and `NoUndefinedLevel` (`LevelsRead`,
`LevelsDefined`) for code tables of any size. `Reads` says that the levels stored so far are what the runs read so far stand for, a last run
being cut where the table ends. For the encoder, `NumbersSayTheLevels`: `LoopAt` relates the state of
the loop to the levels it has passed. The run it is in, with the bounds of its length, is that of the level
that comes; what was written for the runs before stands for their levels; and what was counted is how
often each symbol was written. Counting and writing are two uses of one loop, so that holds of both.

*Huffman decoder.* `Huffman_proofs`: type correctness, `RefusesOversubscribed` and
`DecodesCanonical`, for all sizes of codes and tables and any sequence of sets of lengths. The invariant is
short (`DInv`): the tables of a decoder that is ready are those of the lengths set last, and of
`mLengths`, which is not cleared, only the entries below the limit of the short codes. The work is in
what the tables mean. The values that begin with codes are counted as cells, one for each code and value
(`Area`), so that the sum of the property and `startPos` are both sizes of sets (`SumIsArea`,
`StartPosLemma`) and no sum is taken apart by hand. `SomeCode` finds the code of a value below the last
limit: the last one, in the order of the codes, that does not begin behind it. `PlaceIsPrec` says that a
symbol is put behind as many as have codes before its own, so no two are put at one place; and
`LimitsAreMultiples` that an entry of the table lies on one side of a limit, never on both. These
theorems are about `Spec` of `HuffmanDecoder`; `HuffmanDecodes` lifts them to `HuffmanSpec`, which the
run checks.

*Huffman encoder.* The same module: `CodesAreCanonical` for all frequencies, numbers of symbols and limits
`m` with no more than `2^m` symbols. There is one call, so the invariant (`EncInv`) is what it leaves, and the
work is in its loops, which `HuffmanEncode` has as recursive functions (`RoundsExist` and `UpToAll` are
all that is needed of those). Along the code: the heap sort only rearranges, since what it carries in
`temp` fills the hole wherever that has got to (`HeapSortDownOrders`), so `Sorted` puts every symbol that
occurs in one place (`SortedOrders`). That the order is that of the frequencies is not needed, and neither are
the weights: in the tree the places of parents rise with those of the children, each has two
(`TreeFamily`). Going down it, depths never fall, so the inner nodes of one depth come one behind the other;
as long as the limit is not reached, the leaves of a depth and the inner nodes already made there are twice
the inner nodes of the depth above (`Deep`), so a leaf to be split is there. From the limit on what
counts is that the shares of the leaves stay `2^m` (`SplitSums`): fewer leaves than that cannot all be at
the limit, so the search for one above it ends (`LeafAbove`) and `lenCounters[0]` is never reached. There
are as many leaves as symbols, every rank has one length (`OneLength`), and the first code of a length is
what shorter ones take (`FirstCodeRight`). Sums are sizes of sets of cells once more (`Total`).

*Round trip.* `RoundTrip`, there too: whatever encoder and decoder went through before, a decoder
whose lengths are those an encoder has made is not corrupted, and decodes each code, with any bits behind
it, to its symbol and length. No run has both at work; the theorem is about `Spec /\ EncSpec`, two that
share nothing, and follows as both keep to one closed form.

*Induction over data.* Where a definition recurs over a sequence, a set or lengths, as in the parts
above and in `BlockSaysTheSymbols`, the induction is done by hand: `LeastNumber` gives the least counterexample, a
recursive function is shown to exist up to each length (`ExpandsExists` and others), and what it
yields for one element more follows from that (`ExpansionAppend`, `CodeAppend`, `FreqsAppend`).

*Archive.* `GzipArchive_proofs`: for any items and any number of edits, `TypeOK`, `CountAndContents`
(`CountIsItems` and `NormalizedIsContents`) and the refinement of `ItemEdits`, all for archives that are opened before they are
edited, of any kind (`Spec`) and of gzip (`GzSpec`). `AInv` says that the modifications outside the
items opened are the appended ones: they lie between those items and `mNextId`, are valid, and
`mAddedItems` counts them. From that follow that a new identifier is one that never was (`NewIdIsNew`)
and that a deleted one was given (`KnownAreTaken`), without which no step would be one of `ItemEdits`;
and that the modifications that remain lie behind the items, so that the two parts of
`normalizedItems()` make one order (`RankBehind`).

*Gzip.* The same module: `IntactIsExtracted` without any assumption, and `ExtractedIsTheData`, for all
files, windows, failures and interrupts. `Reading` says that the position of the file and what is left of the
limited stream are those of the decoder in the data, so that a sound file never ends early: the
limit is too large by the zeros of the header, never too small. `Writing` says that without a write error
what was shown to the checksum is what was written, and with the window the data up to there; and that
behind an error the window is the last of what was shown. `Ends` is what that leaves when the decoder
says "true": the checksum is that of the target, or that of the data with one window twice. The
second is why `ExtractedIsTheData` assumes `NoticesErrors`: that write errors persist, or that no file
has data whose checksum fits with a window twice. The files of the run are of that kind (it lets write
errors go away); section 4 has a file that is not.

*Match finder.* `MatchFinder_proofs`: `MatchesAreReal`, `SonsFollowHash` and type correctness, for all six
kinds, every stream, history, size of the block, limit of the position and length of a search, and reads that give
any number of bytes or fail. The invariant (`IInv`) has two parts. `Ready` is about the block and the limits: the
bytes of the history and those read ahead are in the block (`Window`), and more than a match is ahead
unless the stream ended or a read failed (`Limits`), which is what makes an answer as long as it can be.
`Refers` is about the references, for some set `E` of positions that were filed. Only references inside the history
count; what a wrap of the ring leaves in a slot is out of it by then. A head stands for an entry, that of a short
table for the nearest with its hash; the links of a chain lead ever farther back (`ChainOK`); and the
trees are ordered (`Structure`): a map `G` names the entries below each cell, those of the left cell of a node not
behind it in the order of their bytes, those of the right cell not before it.

An entry is compared by as many bytes as were in reach when it was filed, at least as many as now, since `lenLimit` never
grows. While a search takes a tree apart two cells are open, and `Growing` says what may still be put in
each: of the entries left all are farther than any match found, and at least as close in the order, on
either side, as the bytes known to agree (`len0`, `len1`) tell. That is why the comparison may begin at the lesser of the two,
why each match is longer and farther than the one before, and why the pairs need no second look. Moving on, normalizing, moving
the block and reading carry all this over at once (`Moved`): each reference keeps its distance, or was out of
the history and stays so (`Behind`).

All of it holds for `SumsDiffer`: of the settings that `Create()` is given, no two have arrays of the same size
with hash tables of different sizes. With settings of one kind that is so (`OneKind`), and for the settings of the run
too. Without it the references may lie in the hash tables: section 4.

Model-checked only:

* liveness (`StreamReturnsOrCrashes`), which needs fairness and ENABLED;
* `ShortestWithinLimit` of `HuffmanEncode`, which compares with all other codes there are: that is an
  induction over codes;
* `LongestIsFound` of `MatchFinder`: the invariant above says that nothing false is reached; that nothing is
  missed needs one that says which entries a tree may have dropped, and what nearer entry stands for each of them;
* `Crc`, whose one run shows a violation: its property does not hold.

## 7. Not modelled

* `inherited-from-7zip/` and `inherited-from-arkive/`, 150,000 of the 156,000 lines of the repository: no build file
  refers to them, and qz7 shares no state with them. What was ported from them is in `libqz7/`, and
  is modelled there. The share of the whole repository that the models cover stays small for that.
* The search of `DeflateEncoder` (`GetOptimal`, `TryBlock`, prices): it decides how small the output is,
  not what it says, and is not built.
* `copyData()`, `read()`, `skipForward()` and byte counts of the streams: nothing built but the reading
  of headers calls them.
* `serializeProperties()`, `applyProperties()`, and a change of `multithreaded` between two calls.
* `Registry`: tables filled once, and a singleton created without a lock, a hazard without a property.
* `HeapSortRef()`, commented out; hashes of five bytes and `directInput` of the match finder, never set.
* Wrong checksums of gzip headers other than those of their strings: `GzipArchive` takes `Crc32` to be
  right for the single bytes of a header, as it is where the compiler puts them at a word
  boundary. Section 4 has the other places.
* `setBufferSize()` of the ring buffer: sizing is the flag `ringSized` in `DeflateDecoderMT`.
* What becomes of the program behind a put that stores outside the ring buffer: the models end there.
  `DeflateDecoderST` takes its writes to succeed, and its runs keep no history; a failed flush under it
  is the business of `RingBuffer`.
* `mBlocks[-1]`, which `enqueueBlock()` and `wroteBlock()` read when their index has just wrapped to 0: the
  search starts there and finds the block farther on.
* `MatchFinder_Create()` with bytes kept besides the history and the match: `keepAddBufferBefore` and
  `keepAddBufferAfter` are 0, and the only caller that passes others is not built.
* The two copies of the loop over runs in `DeflateEncoder.cpp` as two: `LevelTableCode` has one, for both
  uses, and would not show a change of one copy alone.
* Data races on plain flags beyond the interleavings of their reads and writes.
* Formats and texts: error messages, the contents of gzip fields.
* The ST decoder with `keepHistory`: in the model, not in the runs, for want of a statement of what
  such a stream owes.
* See `PROJECT.json`, "components", for the parts left out and why.

## 8. Plan

Done, most important behaviour first: queue and threads, ring buffer, ST decoder, inside of blocks,
instructions, bit readers and writers, codes on both sides, tables on both sides, archives up to gzip,
match finder, CRC; and the proofs of section 6.

Next, to model:

1. The creation of `Registry` by two threads, and the plugins found in it.
2. The switch `multithreaded` of the facade between two calls, with what each decoder keeps.
3. `TryBlock` and `CodeBlock` of the encoder: the borders of blocks, with the window of `MatchFinder`.
4. Streams whose `bytesRead()` is asked for after a failed read, once something built does so.

Next, to prove:

1. `LongestIsFound` of `MatchFinder`, from the invariant of `MatchesAreReal` and what trees may drop.
2. Of `ShortestWithinLimit` that no symbol has got a longer code than one that is less frequent.
