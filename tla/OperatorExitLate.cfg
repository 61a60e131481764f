CONSTANTS
    btc = btc  eth = eth  o1 = o1  o2 = o2
    Symbols <- OneSymbol
    Orders <- OneOrder
    MaxFaults = 1
    MaxCrashes = 1
    MaxEntries = 2
    MaxRequests = 2
SPECIFICATION Spec
CHECK_DEADLOCK FALSE
INVARIANTS ExitVerdictIsTrue
