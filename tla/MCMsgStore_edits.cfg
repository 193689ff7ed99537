SPECIFICATION Spec
CONSTANTS
    None = None
    p1 = p1
    p2 = p2
    p3 = p3
    Procs = {p1, p2, p3}
    Mortal = {}
    Plans <- TwoEdits
INVARIANTS BodiesNotShared
