SPECIFICATION Spec
CONSTANTS
    t1 = t1
    t2 = t2
    u1 = u1
    k1 = k1
    b1 = b1
    r1 = r1
    Threads = {t1, t2}
    Updates = {u1}
    Notices = {}
    Streams = {}
    Holidays = {}
    Ticks = {k1}
    Bars = {b1}
    Timeouts = {}
    MaxRecords = 1
    Batch = 2
    ArgvLength = 2
    QCapacity = 3
    PCapacity = 1
SYMMETRY ThreadSymmetry
INVARIANTS
    NoLostWakeup
    CountNeverRunsAway
    OneTrueVerdict
    EndIsLast
