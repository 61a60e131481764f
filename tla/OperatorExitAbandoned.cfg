CONSTANTS
    btc = btc  eth = eth  o1 = o1  o2 = o2
    Symbols <- OneSymbol
    Orders <- TwoOrders
    MaxFaults = 1
    MaxCrashes = 1
    MaxEntries = 1
    MaxRequests = 1
SPECIFICATION Spec
CHECK_DEADLOCK FALSE
PROPERTIES ConfirmedWorkEnds
