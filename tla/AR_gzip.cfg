SPECIFICATION GzSpec
CONSTANTS
  Contents = {a, b}
  Invalid = Invalid
  EditsBeforeOpen = FALSE
  MaxItems = 2
  MaxId = 4
  Opened = a
  Files <- MCFiles
  RingSize = 2
  WriteErrorsPersist = FALSE
  MaxNewId = 1
  MaxCalls = 2
  MaxInterrupts = 1
CHECK_DEADLOCK FALSE
INVARIANT CountAndContents
PROPERTY IsItemEdits
INVARIANT ExtractedIsTheData
INVARIANT IntactIsExtracted
