CONSTANTS
    StrMaxLen = 6
    IntBits = 8
    LongBits = 16
    MemRequests <- MCMemRequests
    MaxSegments = 2
    MaxVersion = 1
    PerFiles <- MCPerFiles
    BreakLines = {0, 1, 2, 3}
    AnnoKeys = 2
    MaxBreaks = 3
    Functions <- MCFunctions
    MaxDepth = 2
    SrcLines = {1, 2}
    MaxCalls = 3
    InfFiles = {"f"}
    MaxTerms = 3
SPECIFICATION CallstackSpec
INVARIANT LinesAreCurrent
\* The model ends with its bound on calls.
CHECK_DEADLOCK FALSE
