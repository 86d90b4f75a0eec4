----------------------------- MODULE GzipArchive -----------------------------
(***************************************************************************)
(* GzipArchive (GzipArchive.cpp) on top of Archive, with what it is put    *)
(* together from: the file it opens, the limited stream the decoder reads, *)
(* the checksum stream and the target it writes to (Stream.cpp,            *)
(* Analyzer.h), the decoder behind the facade DeflateDecoder, and another  *)
(* thread that calls interrupt().                                          *)
(*                                                                         *)
(* The uncompressed data is a sequence of units, each decoded from one     *)
(* byte of the file, with one more byte for the end.  A checksum is the    *)
(* sequence it was computed from: no two sequences that occur collide.     *)
(***************************************************************************)
EXTENDS Archive

CONSTANTS
  Opened,        \* the item doOpen() makes; any other content is a changed copy of it
  Files,         \* the files that occur, see IsFile
  RingSize,      \* the window of the decoder, in units
  WriteErrorsPersist,   \* whether all writes of a call fail behind one that failed
  MaxNewId,      \* bound: identifiers of items appended to a gzip archive
  MaxCalls,      \* bound: calls of extractTo()
  MaxInterrupts  \* bound: calls of interrupt()

None == -1       \* a field the header has not got

\* A file: the lengths of the fields of its header, what deflate makes of its data,
\* what the checksum at its end was computed from, and how many bytes are missing.
IsFile(f) ==
  /\ {f.extra, f.name, f.comment} \subseteq Nat \cup {None}
  /\ {f.isGzip, f.isDeflate, f.headerCrc} \subseteq BOOLEAN
  /\ f.decodes \in Seq(Nat \ {0}) /\ f.original \in Seq(Nat \ {0})
  /\ f.cut \in 0 .. 8

NoFile == <<>>

ASSUME GzipAssumption ==
  /\ Opened \in Contents
  /\ \A f \in Files : IsFile(f)
  /\ RingSize \in Nat \ {0}
  /\ WriteErrorsPersist \in BOOLEAN
  /\ {MaxNewId, MaxCalls, MaxInterrupts} \subseteq Nat

VARIABLES
  file,           \* the file of the volume, NoFile before it is opened
  pos,            \* mStream->pos(), None: mStream is 0
  limit,          \* compressedSize() of the item opened
  mInterrupted,   \* of the archive
  ipc,            \* "idle", "flag": between the two statements of interrupt()
  pc,             \* "idle", "begin", "stream", "decode", "report", "crashed"
  wanted,         \* extractTo()'s copy of the item it was called for, Invalid: refused
  decoder,        \* "none", "codec": mCodec is set, "multi", "single": its decoder is, too
  stopping,       \* mInterrupted of the decoder
  mBytesLeft,     \* of the limited stream
  taken,          \* the bytes the decoder took from it
  used,           \* the units decoded, and put into the window
  writer,         \* "runs", "failed": the writer thread of a multithreaded decoder
  window,         \* the units in the window that are not flushed
  analyzed,       \* what the checksum of the target was computed from
  target,         \* what the target got in this call
  outcome,        \* what stream() returned: "true", "false"
  result,         \* of the last call of extractTo(): "none" while it is under way
  mErrorString,   \* the error extractTo() set last
  broken,         \* a write of this call has failed
  excused,        \* a read or a write of this call failed, or interrupt() overlapped it
  calls, interrupts

fileVars == <<file, pos, limit>>
streamVars == <<mBytesLeft, taken, used, writer, window, analyzed, target, broken>>
otherVars == <<ipc, interrupts>>
callVars == <<pc, wanted, decoder, outcome, result, mErrorString, calls>>
flagVars == <<mInterrupted, stopping, excused>>
gzVars == <<fileVars, streamVars, otherVars, callVars, flagVars>>
allVars == <<vars, gzVars>>

GzInit ==
  /\ Init
  /\ file = NoFile /\ pos = None /\ limit = 0
  /\ mInterrupted \in BOOLEAN      \* no constructor sets it
  /\ ipc = "idle" /\ interrupts = 0
  /\ pc = "idle" /\ wanted = Invalid /\ decoder = "none" /\ stopping = FALSE
  /\ mBytesLeft = 0 /\ taken = 0 /\ used = 0
  /\ writer = "runs" /\ window = <<>> /\ analyzed = <<>> /\ target = <<>>
  /\ outcome = "false" /\ result = "none" /\ mErrorString = "" /\ calls = 0
  /\ broken = FALSE /\ excused = FALSE

-----------------------------------------------------------------------------
(* The file *)

\* What a field takes in the file: a length in front of the extra field, a zero
\* behind a string.
ExtraSize(f) == IF f.extra = None THEN 0 ELSE f.extra + 2
StringSize(n) == IF n = None THEN 0 ELSE n + 1
CrcSize(f) == IF f.headerCrc THEN 2 ELSE 0

\* Where the compressed data begins, and how long it is.
HeaderEnd(f) == 10 + ExtraSize(f) + StringSize(f.name) + StringSize(f.comment) + CrcSize(f)
DeflateSize(f) == Len(f.decodes) + 1

FileSize(f) == HeaderEnd(f) + DeflateSize(f) + 8 - f.cut

\* name.length(), which is the length without the zero.
StringLength(n) == IF n = None THEN 0 ELSE n

\* Mutant: the length of the extra field is counted as a string, too.
headerSizeTwice(f) ==
  10 + ExtraSize(f) + StringLength(f.extra) + StringLength(f.name) + StringLength(f.comment)
    + CrcSize(f)

headerSize(f) ==
  10 + ExtraSize(f) + StringLength(f.name) + StringLength(f.comment) + CrcSize(f)

\* The checksum of the header covers the zeros of the strings, crc.update() does not.
HeaderCrcFits(f) == f.headerCrc => f.name = None /\ f.comment = None

\* A checksum that is that of no data: of a file that is cut, or of the copy of an
\* item, whose constructor leaves it undefined.
NoCrc == <<0>>

crc(it) == IF it = Opened /\ file.cut = 0 THEN file.original ELSE NoCrc

openVars == <<mModifications, mAddedItems, mNextId, otherVars, callVars, flagVars, streamVars>>

\* openFile(), at the first call.
openFile(f) == f \in Files /\ (pos # None => f = file)

\* There is no file, or some read fails, or finds what does not look like a gzip file:
\* nothing but the position changes, which is then 0, 1 for any other, or the end; and
\* the text of the error, which is left out.
openFails ==
  /\ pc = "idle" /\ (opened => pos # None)
  /\ \E f \in Files :
       /\ openFile(f)
       /\ file' = f /\ pos' \in {0, 1, FileSize(f)}
       /\ pos # None => pos' >= pos
  /\ UNCHANGED <<mItems, opened, limit, openVars>>

\* doOpen() runs to its end: from the beginning of the file only, where the header is.
open ==
  /\ pc = "idle" /\ ~opened /\ (EditsBeforeOpen \/ mNextId = 0)
  /\ pos \in {None, 0}
  /\ \E f \in Files :
       /\ openFile(f) /\ f.isGzip /\ HeaderCrcFits(f)
       /\ file' = f /\ pos' = FileSize(f)
       /\ limit' = FileSize(f) - headerSize(f) - 8
  /\ mItems' = Append(mItems, Opened) /\ opened' = TRUE
  /\ UNCHANGED openVars

\* interrupt() of the facade: the decoder is there once stream() was called.
interruptCodec ==
  /\ ipc = "idle" /\ interrupts < MaxInterrupts
  /\ stopping' = (stopping \/ decoder \in {"multi", "single"})
  /\ ipc' = "flag" /\ interrupts' = interrupts + 1
  /\ excused' = (excused \/ pc # "idle")
  /\ UNCHANGED <<vars, fileVars, streamVars, callVars, mInterrupted>>

interruptFlag ==
  /\ ipc = "flag"
  /\ mInterrupted' = TRUE
  /\ ipc' = "idle"
  /\ excused' = (excused \/ pc # "idle")
  /\ UNCHANGED <<vars, fileVars, streamVars, callVars, stopping, interrupts>>

-----------------------------------------------------------------------------
(* extractTo() *)

Returns(r) == pc' = "idle" /\ result' = r

\* What extractTo() asks for before it starts the decoder.  An identifier below
\* count() may be that of a deleted item, or of none.
extractTo(x) ==
  /\ pc = "idle" /\ calls < MaxCalls /\ pos # None /\ opened
  /\ mInterrupted' = FALSE
  /\ excused' = (ipc # "idle")
  /\ broken' = FALSE /\ target' = <<>>
  /\ wanted' = IF x < count /\ Exists(x) THEN item(x) ELSE Invalid
  /\ calls' = calls + 1
  /\ IF x >= count THEN Returns("false")
     ELSE pc' = (IF wanted' = Invalid THEN "crashed" ELSE "begin") /\ result' = "none"
  /\ UNCHANGED mErrorString
  /\ UNCHANGED <<vars, fileVars, otherVars, decoder, stopping, outcome, mBytesLeft, taken,
                 used, writer, window, analyzed>>

\* What extractTo() checks: the method of the item, the position, the codec.
extractFails ==
  /\ pc = "begin"
  /\ \/ ~file.isDeflate /\ mErrorString' = "method" /\ UNCHANGED excused
     \/ file.isDeflate /\ mErrorString' \in {"read", "codec"} /\ excused' = TRUE
  /\ Returns("false")
  /\ UNCHANGED <<vars, fileVars, otherVars, streamVars, mInterrupted, stopping, wanted, decoder,
                 outcome, calls>>

\* The position is set and the codec is there.
extractBegins ==
  /\ pc = "begin" /\ file.isDeflate
  /\ pos' = HeaderEnd(file)
  /\ decoder' = IF decoder = "none" THEN "codec" ELSE decoder
  /\ pc' = "stream"
  /\ UNCHANGED <<vars, file, limit, otherVars, streamVars, flagVars, wanted, outcome, result,
                 mErrorString, calls>>

\* stream() of the facade makes the decoder it is set to, and that of the decoder clears its flag,
\* its window and its writer, and takes the streams of this call.
streamBegins ==
  /\ pc = "stream"
  /\ decoder' \in IF decoder = "codec" THEN {"multi", "single"} ELSE {decoder}
  /\ stopping' = FALSE
  /\ mBytesLeft' = limit /\ taken' = 0 /\ used' = 0
  /\ writer' = "runs" /\ window' = <<>> /\ analyzed' = <<>>
  /\ pc' = "decode"
  /\ UNCHANGED <<vars, fileVars, otherVars, mInterrupted, excused, target, broken, wanted, outcome,
                 result, mErrorString, calls>>

\* stream() returns false, with an error if an exception came out of the decoder.
StreamFails(e) == pc' = "report" /\ outcome' = "false" /\ mErrorString' = e

Lesser(a, b) == IF a < b THEN a ELSE b

\* readSome() of the limited stream, for a decoder that needs bytes: some or all of
\* those that are left, none at the end or behind a limit below 0, or an error.
readSome ==
  /\ pc = "decode" /\ taken = used
  /\ \E r \in {0} \cup 1 .. Lesser(mBytesLeft, FileSize(file) - pos) :
       /\ r = 0 => mBytesLeft <= 0 \/ pos = FileSize(file)
       /\ mBytesLeft' = mBytesLeft - r /\ pos' = pos + r /\ taken' = taken + r
       /\ IF r = 0 THEN StreamFails("truncated")
          ELSE UNCHANGED <<pc, outcome, mErrorString>>
  /\ UNCHANGED <<vars, file, limit, otherVars, flagVars, used, writer, window, analyzed,
                 target, broken, wanted, decoder, result, calls>>

readFails ==
  /\ pc = "decode" /\ taken = used /\ mBytesLeft > 0
  /\ StreamFails("read")
  /\ excused' = TRUE
  /\ UNCHANGED <<vars, fileVars, otherVars, streamVars, mInterrupted, stopping, wanted, decoder,
                 result, calls>>

\* Mutant: what could not be written is not shown to the analyzer.
writeFirst(buffer, ok) ==
  /\ analyzed' = IF ok THEN analyzed \o buffer ELSE analyzed
  /\ broken' = (broken \/ ~ok)
  /\ \/ ok /\ target' = target \o buffer /\ ~(broken /\ WriteErrorsPersist /\ buffer # <<>>)
     \/ /\ ~ok
        /\ \E n \in 0 .. Len(buffer) - 1 : target' = target \o SubSeq(buffer, 1, n)

\* write() of the checksum stream, and behind it that of the target: one that fails
\* may have written a part.
write(buffer, ok) ==
  /\ analyzed' = analyzed \o buffer
  /\ broken' = (broken \/ ~ok)
  /\ \/ ok /\ target' = target \o buffer /\ ~(broken /\ WriteErrorsPersist /\ buffer # <<>>)
     \/ /\ ~ok
        /\ \E n \in 0 .. Len(buffer) - 1 : target' = target \o SubSeq(buffer, 1, n)

\* The next unit is put into the window, which is flushed when it is full.  A flush
\* that fails keeps it; in the writer thread it ends the thread, elsewhere the call.
putUnit ==
  /\ pc = "decode" /\ used < taken /\ used < Len(file.decodes) /\ writer = "runs"
  /\ used' = used + 1
  /\ LET filled == Append(window, file.decodes[used + 1]) IN
       IF Len(filled) < RingSize
         THEN /\ window' = filled
              /\ UNCHANGED <<analyzed, target, broken, writer, pc, outcome, mErrorString, excused>>
         ELSE \/ /\ write(filled, TRUE) /\ window' = <<>>
                 /\ UNCHANGED <<writer, pc, outcome, mErrorString, excused>>
              \/ /\ write(filled, FALSE) /\ window' = filled /\ excused' = TRUE
                 /\ IF decoder = "multi"
                      THEN writer' = "failed" /\ UNCHANGED <<pc, outcome, mErrorString>>
                      ELSE StreamFails("write") /\ UNCHANGED writer
  /\ UNCHANGED <<vars, fileVars, otherVars, mInterrupted, stopping, mBytesLeft, taken, wanted,
                 decoder, result, calls>>

\* The decoder thread meets the error of the writer thread: an exception, or the null
\* pointer in lastBlock().
writeErrorSeen ==
  /\ pc = "decode" /\ writer = "failed"
  /\ \/ StreamFails("write")
     \/ pc' = "crashed" /\ UNCHANGED <<outcome, mErrorString>>
  /\ UNCHANGED <<vars, fileVars, otherVars, streamVars, flagVars, wanted, decoder, result, calls>>

\* A single-threaded decoder that finds itself interrupted returns false, without an
\* error; what is in its window is not written.
stopSingle ==
  /\ pc = "decode" /\ stopping /\ decoder = "single"
  /\ StreamFails("")
  /\ UNCHANGED <<vars, fileVars, otherVars, streamVars, flagVars, wanted, decoder, result, calls>>

\* The last flush: behind the end of the data, or, in a multithreaded decoder, behind
\* whatever was executed when an interrupt or a write error ended the writer.
Ended ==
  \/ used = Len(file.decodes) /\ used < taken
  \/ decoder = "multi" /\ (stopping \/ writer = "failed")

streamEnds ==
  /\ pc = "decode" /\ Ended
  /\ \/ /\ write(window, TRUE) /\ window' = <<>>
        /\ pc' = "report" /\ outcome' = "true"
        /\ UNCHANGED <<mErrorString, excused>>
     \/ /\ write(window, FALSE) /\ UNCHANGED window
        /\ StreamFails("write") /\ excused' = TRUE
  /\ UNCHANGED <<vars, fileVars, otherVars, mInterrupted, stopping, mBytesLeft, taken, used,
                 writer, wanted, decoder, result, calls>>

\* stream() has returned: the error of the codec, or that of an interrupt, or the
\* comparison of the checksums.
report ==
  /\ pc = "report"
  /\ \/ /\ outcome = "false"
        /\ mErrorString' = IF mInterrupted THEN "interrupted" ELSE mErrorString
        /\ Returns("false")
     \/ /\ outcome = "true" /\ analyzed # crc(wanted)
        /\ mErrorString' = "crc"
        /\ Returns("false")
     \/ /\ outcome = "true" /\ analyzed = crc(wanted)
        /\ Returns("true") /\ UNCHANGED mErrorString
  /\ UNCHANGED <<vars, fileVars, otherVars, streamVars, flagVars, wanted, decoder, outcome, calls>>

-----------------------------------------------------------------------------
\* Callers edit the archive between calls of extractTo(); an archive of another kind
\* than gzip fills it with addItems.
edit ==
  /\ pc = "idle"
  /\ \/ pos = None /\ addItems
     \/ \E x \in Ids, it \in Contents : replaceItem(x, it)
     \/ \E x \in Ids : deleteItem(x)
     \/ \E it \in Contents : appendItem(it) /\ (pos # None => mNextId' <= MaxNewId + 1)
  /\ UNCHANGED gzVars

GzNext ==
  \/ edit \/ open \/ openFails
  \/ \E x \in Ids : extractTo(x)
  \/ extractFails \/ extractBegins \/ streamBegins
  \/ readSome \/ readFails \/ putUnit \/ writeErrorSeen \/ stopSingle \/ streamEnds \/ report
  \/ interruptCodec \/ interruptFlag

GzSpec == GzInit /\ [][GzNext]_allVars

-----------------------------------------------------------------------------
(* Properties *)

\* extractTo() says "true" only when the target got the data the archive was made
\* from, whatever interrupts, write errors or damage there were: where the decoder
\* says "true" with a part missing, the checksum does not fit, because it is that of
\* all that was tried to write.
ExtractedIsTheData == result = "true" => target = file.original

\* A sound file is extracted: extractTo() of the item as it was opened returns false
\* only if a read or a write failed in this call or interrupt() overlapped it, whatever
\* calls before were interrupted or failed, and however the file was opened.
IntactIsExtracted ==
  (wanted = Opened /\ ~excused /\ file.isDeflate /\ file.cut = 0
       /\ file.decodes = file.original) => result # "false"

\* The limit is the length of the compressed data.  The code counts the zero behind
\* each string of the header as data, too.
LimitIsTheData == opened /\ file # NoFile => limit = DeflateSize(file) - file.cut

\* An interrupted call says so, unless it failed otherwise.  In the code the flag of the
\* archive is set too late, and a multithreaded decoder returns true when interrupted.
InterruptIsReported ==
  [][report /\ (stopping \/ mInterrupted) /\ ~broken /\ result' = "false"
      => mErrorString' \in {"interrupted", "read", "truncated"}]_allVars

\* extractTo() refuses the identifiers that are no item's, and no others.  The code does
\* not keep this when an item was deleted: it compares the identifier with the number of
\* items left.
OnlyItemsAreTaken ==
  [][\A x \in Ids : extractTo(x) => (result' = "false") = (x \notin Live)]_allVars

\* Every sound file can be opened.  The code refuses one with a checksum over a header
\* with a string in it.
SoundIsAccepted == \A f \in Files : f.isGzip /\ f.cut = 0 => HeaderCrcFits(f)

=============================================================================
