-------------------------------- MODULE BitIo --------------------------------
(***************************************************************************)
(* The readers and the writers of bits, any one of them at a time: they    *)
(* share no state, but the same bounds.                                    *)
(***************************************************************************)
EXTENDS BitReaderBE, BitWriter

VARIABLE kind   \* "readerLE", "readerBE", "writer"

ioVars == <<varsBE, wVars, kind>>

IoInit ==
  /\ InitBE /\ WInit
  /\ kind \in {"readerLE", "readerBE", "writer"}
  /\ kind # "writer" => endian = "LE"

ReaderLE == kind = "readerLE" /\ Next /\ UNCHANGED <<stale, crashed, wVars, kind>>
ReaderBE == kind = "readerBE" /\ NextBE /\ UNCHANGED <<wVars, kind>>
Writer == kind = "writer" /\ WNext /\ UNCHANGED <<varsBE, kind>>

IoNext == ReaderLE \/ ReaderBE \/ Writer

IoSpec == IoInit /\ [][IoNext]_ioVars

=============================================================================
