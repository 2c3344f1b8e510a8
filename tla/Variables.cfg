CONSTANTS
    NumExprs = 2
    MaxKids = 1
    RefMod = 3
    Overlap = FALSE
SPECIFICATION Spec
INVARIANTS
    TreeIntact
    MapsMirrorGdb
    LinesReferToBuffer
    
