SPECIFICATION Spec
CONSTANTS
    HistorySize = 4
    Settings <- EveryKind
    StreamLen = 11
    MatchMaxLen = 4
    Reserve = 1
    MaxVal = 9
    NormalizeStep = 2
    CutValue = 8
INVARIANT MatchesAreReal
INVARIANT LongestIsFound
CHECK_DEADLOCK FALSE
