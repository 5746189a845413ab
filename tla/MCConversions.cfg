SPECIFICATION MCSpec
CONSTANTS
    Days <- MCDays
    Ticks <- MCTicks
    DayLength = 4500
    Interval = 1500
    Before = 4
    After = 3
    Change = 10
    TradeChoices <- MCTradeChoices
    FlagChoices <- MCFlagChoices
    Max16 = 8
    Max32 = 16
    MaxCount = 12
INVARIANTS
    EveryTickOnce
    ConditionsAreReadable
    ReadAsMeant
    EveryItemOnce
PROPERTY OnlyForward
CHECK_DEADLOCK FALSE
