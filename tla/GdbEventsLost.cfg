CONSTANTS
    MaxCmds = 2
    StopReasons = {"normal"}
    GdbMayExit = FALSE
SPECIFICATION StoppingSpec
PROPERTY AwaitReturns
CHECK_DEADLOCK FALSE
