SPECIFICATION FairSpec
CONSTANTS
    MaxBars = 2
    MaxCancels = 2
    MaxLogouts = 1
    MayRace = TRUE
    SendMayFail = TRUE
PROPERTIES
    ImplementsHistoryCall
    Concludes
    Forgotten
CHECK_DEADLOCK FALSE
