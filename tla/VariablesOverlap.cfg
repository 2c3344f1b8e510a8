CONSTANTS
    NumExprs = 2
    MaxKids = 1
    RefMod = 3
    Overlap = TRUE
SPECIFICATION Spec
INVARIANTS
    LinesReferToBuffer
CHECK_DEADLOCK FALSE
