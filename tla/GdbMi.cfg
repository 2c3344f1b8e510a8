CONSTANTS
    main = main
    event = event
    NoThread = NoThread
    Issuers <- MCIssuers
    RawWriters <- MCRawWriters
    MaxCmds = 5
    MaxRaw = 0
    GdbMayExit = TRUE
    Unparsable = FALSE
    SpuriousWakeups = FALSE
SPECIFICATION FairSpec
INVARIANTS
    TypeOK
    NoLostReply
PROPERTIES
    ReplyMatchesRequest
    
    AbortReachesWaiter
    ImplementsRpc
\* A call made after gdb has exited never returns.
CHECK_DEADLOCK FALSE
