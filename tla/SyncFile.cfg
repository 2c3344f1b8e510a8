CONSTANTS
    MaxCmds = 5
    MayTimeOut = TRUE
SPECIFICATION FairSpec
PROPERTIES
    CleanAnswerIsOwn
    CommandEnds
\* All commands have been sent.
CHECK_DEADLOCK FALSE
