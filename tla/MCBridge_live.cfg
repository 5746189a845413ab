SPECIFICATION FairSpec
CONSTANTS
    t1 = t1
    t2 = t2
    s1 = s1
    h1 = h1
    o1 = o1
    Threads = {t1, t2}
    Updates = {}
    Notices = {}
    Streams = {s1}
    Holidays = {h1}
    Ticks = {}
    Bars = {}
    Timeouts = {o1}
    MaxRecords = 1
    Batch = 2
    ArgvLength = 2
    QCapacity = 2
    PCapacity = 1
PROPERTIES
    ImplementsDelivery
    Answered
    Settles
