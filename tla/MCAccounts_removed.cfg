SPECIFICATION Spec
CONSTANTS
    p1 = p1
    p2 = p2
    p3 = p3
    ann = ann
    bob = bob
    NoName = NoName
    Procs = {p1, p2, p3}
    Names = {ann, bob}
    TTL = 2
    MaxTime = 3
    MaxSessions = 5
    MaxUsers = 4
    Plans <- Removals
SYMMETRY Symmetry
INVARIANT SessionsEndWithAccount
