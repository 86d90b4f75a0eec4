---------------------------- MODULE MCGzipArchive ----------------------------
\* Instances of GzipArchive for TLC.
EXTENDS GzipArchive

\* A file with nothing but a header of ten bytes and two windows of data and a half.
PlainFile ==
  [extra |-> None, name |-> None, comment |-> None, headerCrc |-> FALSE, isGzip |-> TRUE,
   isDeflate |-> TRUE, decodes |-> <<1, 2, 3>>, original |-> <<1, 2, 3>>, cut |-> 0]

\* Headers with each field, data that was damaged, files that are cut, and files of
\* another method and of another kind.
MCFiles ==
  {PlainFile,
   [PlainFile EXCEPT !.extra = 2, !.headerCrc = TRUE],
   [PlainFile EXCEPT !.extra = 0, !.name = 2, !.comment = 0],
   [PlainFile EXCEPT !.name = 1, !.headerCrc = TRUE],
   [PlainFile EXCEPT !.decodes = <<1, 2, 4>>],
   [PlainFile EXCEPT !.decodes = <<1, 2>>],
   [PlainFile EXCEPT !.decodes = <<1, 2>>, !.original = <<1, 2>>],
   [PlainFile EXCEPT !.cut = 1], [PlainFile EXCEPT !.cut = 8],
   [PlainFile EXCEPT !.isDeflate = FALSE], [PlainFile EXCEPT !.isGzip = FALSE]}

\* Data that is one window repeated.
RepeatingFiles == {[PlainFile EXCEPT !.decodes = <<1, 1>>, !.original = <<1, 1>>]}

=============================================================================
