CONSTANTS
    MaxCmds = 4
    StopReasons = {"normal", "noreason", "exited", "segv"}
    GdbMayExit = TRUE
SPECIFICATION FairSpec
INVARIANTS
    NoNullEvent
    FlagConverges
    CleanupComesLast
PROPERTY StopsAreShown
\* The main thread may sleep forever in inf_await_update, see GdbEventsLost.
CHECK_DEADLOCK FALSE
