SPECIFICATION Spec
CONSTANTS
    p1 = p1
    p2 = p2
    c1 = c1
    Producers = {p1, p2}
    Consumers = {c1}
    BufferSize = 8
    Sizes = {2, 3}
    Tries = 1
    MayLap = TRUE
    MaxPos = 18
SYMMETRY ThreadSymmetry
INVARIANT ExclusiveAccess
