CONSTANTS
    NoThread = NoThread
    Names = {"file"}
    Sources = {"file"}
    AnnoTypes = {"ip", "b"}
    MaxBufs = 1
    MaxLen = 1
    UserCloses = TRUE
    Panels = TRUE
SPECIFICATION Spec
INVARIANTS
    
    AtomicBalanced
    AnnoTypesMatch
    NamesLive
\* An error in memory ends the program.
CHECK_DEADLOCK FALSE
