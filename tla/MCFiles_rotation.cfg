SPECIFICATION FilesSpec
CONSTANTS
    Parts = {"log"}
    p1 = p1
    p2 = p2
    ann = ann
    bob = bob
    Procs = {p1, p2}
    None = none
    Visits = {v1, v2, v3}
    Nobody = nobody
    Length = 2
    MaxTime = 3
    MaxCounted = 4
    Announcers = {ann, bob}
    Supers = {bob}
    MaxNumber = 5
    Users = {ann, bob}
    Hosts = {h1, h2}
    Period = 2
    MaxLogTime = 11
    MaxVisits = 4
    Threads = {1, 2, 3, 4, 5}
    Favs = 4
    PageLength = 1
    MaxMessages = 2
    Plans <- MCPlans
    Spellings = {sp1, sp2}
    Empty = noSpelling
    Sizes <- MCSizes
    Pad = 2
    AllocWasted = 0
    MarkWasted = 0
    MaxEnd = 8
    MaxList = 4
    MaxCreators = 2
CHECK_DEADLOCK FALSE
INVARIANTS ShownRightAlways
