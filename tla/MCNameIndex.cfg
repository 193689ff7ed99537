SPECIFICATION Spec
CONSTANTS
    p1 = p1
    p2 = p2
    p3 = p3
    None = None
    ann = ann
    bob = bob
    christopher = christopher
    Writers = {p1, p2}
    Readers = {p3}
    Names = {ann, bob, christopher}
    Places = {1, 2}
    Slots = 2
    Hash <- AllInFirst
    Size <- ByLength
    BlockSize = 3
    MaxBlocks = 4
SYMMETRY Symmetry
INVARIANTS RoomForZero ReadersRight
PROPERTIES MapSpec
