CONSTANTS
    main = main
    event = event
    NoThread = NoThread
    Callers <- MCCallers
    Main = main
    MaxSeq = 4
    MaxKeys = 2
    VimMayClose = TRUE
    SpuriousWakeups = TRUE
SPECIFICATION FairSpec
INVARIANTS
    ReplyInv
PROPERTIES
    ReplyMatchesAction
    ActionReturns
    
    ImplementsRpc
\* Callers of a vim that has closed the connection never return.
CHECK_DEADLOCK FALSE
