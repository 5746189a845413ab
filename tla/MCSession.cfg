SPECIFICATION FairSpec
CONSTANTS
    t1 = t1
    t2 = t2
    Threads = {t1, t2}
    MaxSessions = 2
    MaxRequests = 2
    Capacity = 1
    PCapacity = 1
    Tries = 1
INVARIANTS
    NoMisdelivery
    OneSession
PROPERTIES
    DisconnectReturns
    Answered
CHECK_DEADLOCK FALSE
