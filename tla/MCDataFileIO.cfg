SPECIFICATION SpecIO
CONSTANTS
    Sizes <- MCSizes
    Pad = 4
    AllocWasted = 0
    MarkWasted = 0
    MaxEnd = 10
    MaxList = 3
    MaxCreators = 1
INVARIANT LiveDisjoint
CHECK_DEADLOCK FALSE
