SPECIFICATION FairSpec
CONSTANTS
    p1 = p1
    p2 = p2
    c1 = c1
    c2 = c2
    Producers = {p1, p2}
    Consumers = {c1, c2}
    BufferSize = 8
    Sizes = {3}
    Tries = 1
    MayLap = FALSE
    MaxPos = 6
PROPERTY ClaimsAreReleased
