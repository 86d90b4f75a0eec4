SPECIFICATION Spec
CONSTANTS
  mSize = 3
  Bytes = {0, 1}
  WriteFails = TRUE
  MaxLength = 4
  MaxHistory = 7
CHECK_DEADLOCK FALSE
INVARIANT WindowIsHistory
INVARIANT StreamIsHistory
INVARIANT OverrunIsInherited
PROPERTY IsLzHistory
