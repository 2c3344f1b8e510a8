CONSTANTS
    main = main
    event = event
    NoThread = NoThread
    Callers <- MCCallers
    Main = main
    MaxSeq = 3
    MaxKeys = 1
    VimMayClose = TRUE
    SpuriousWakeups = FALSE
SPECIFICATION FairSpec
PROPERTIES
    ShutdownReachesMain
CHECK_DEADLOCK FALSE
