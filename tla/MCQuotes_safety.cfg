SPECIFICATION Spec
CONSTANTS
    Intervals = 3
    MaxRecords = 2
    MaxLogouts = 1
    MaxRaces = 2
    SendMayFail = TRUE
INVARIANTS
    IntervalsInOrder
    RecordsInOrder
    CompletedMeansAll
    OneConclusion
PROPERTY CancelStops
CHECK_DEADLOCK FALSE
