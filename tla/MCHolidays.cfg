SPECIFICATION FairSpec
CONSTANTS
    FirstYear = 0
    LastYear = 1
    Width = 3
    Order <- MCOrder
    Years <- MCYears
    USStocks = "S U"
    Elsewhere = "F U"
    MaxCancels = 2
    MaxLogouts = 1
    MayRace = TRUE
    SendMayFail = TRUE
INVARIANTS
    WholeYear
PROPERTIES
    ImplementsHistoryCall
    Concludes
CHECK_DEADLOCK FALSE
