SPECIFICATION FairSpec
CONSTANTS
    s1 = s1
    f1 = f1
    Symbols = {s1}
    Fetches = {f1}
    MaxSessions = 2
    MaxLinks = 3
    MaxChanges = 3
    MaxAccidents = 1
INVARIANTS
    StreamsWhatIsSubscribed
    EachActionOnce
PROPERTY EventuallyServed
CHECK_DEADLOCK FALSE
