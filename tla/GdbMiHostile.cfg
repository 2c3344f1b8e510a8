CONSTANTS
    main = main
    event = event
    NoThread = NoThread
    Issuers <- MCIssuers
    RawWriters <- MCRawWriters
    MaxCmds = 3
    MaxRaw = 2
    GdbMayExit = TRUE
    Unparsable = TRUE
    SpuriousWakeups = TRUE
SPECIFICATION Spec
INVARIANT CallerOwnsToken
CHECK_DEADLOCK FALSE
