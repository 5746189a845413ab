SPECIFICATION FairSpec
CONSTANTS
    Intervals = 3
    MaxRecords = 2
    MaxLogouts = 2
    MaxRaces = 0
    SendMayFail = FALSE
PROPERTY Concludes
CHECK_DEADLOCK FALSE
