SPECIFICATION SpecRenewed
CONSTANTS
    Sizes <- MCSizes
    Pad = 2
    AllocWasted = 0
    MarkWasted = 0
    MaxEnd = 8
    MaxList = 2
    MaxCreators = 1
INVARIANTS LiveDisjoint
CHECK_DEADLOCK FALSE
