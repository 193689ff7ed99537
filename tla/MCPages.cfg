SPECIFICATION PagesSpec
CONSTANTS
    Parts = {"index", "page", "thread", "tags", "text"}
    Counts = {1, 2}
    MaxLevel = 2
    MaxMessages = 5
    MaxThreadLevel = 3
    MaxThreadMessages = 7
    S = 2
    Pad = 1
    MaxSlots = 4
INVARIANTS ShapeIsForest ShownToReader CountsRight ListsBalanced OthersNotListed
INVARIANTS StoredAsTyped ExpandedInPlace CutsWhole
PROPERTIES OrderSpec
CHECK_DEADLOCK FALSE
