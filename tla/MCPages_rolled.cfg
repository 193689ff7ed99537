SPECIFICATION PagesSpec
CONSTANTS
    Parts = {"page"}
    Counts = {1, 2}
    MaxLevel = 2
    MaxMessages = 5
    MaxThreadLevel = 3
    MaxThreadMessages = 7
    S = 2
    Pad = 1
    MaxSlots = 4
INVARIANTS AllAskedForShown
CHECK_DEADLOCK FALSE
