CONSTANTS
    m1 = m1  m2 = m2  s1 = s1  s2 = s2
    Markets <- TwoMarkets
    Strategies <- TwoStrategies
    btc = btc  eth = eth  o1 = o1  o2 = o2
    Symbols <- TwoSymbols
    Orders <- TwoOrders
    MaxFaults = 1
    MaxCrashes = 1
    MaxEntries = 2
    MaxRequests = 2
SPECIFICATION SidesSpec
SYMMETRY Interchangeable
CHECK_DEADLOCK FALSE
INVARIANTS
    OneOwner TradesUnderExactAuthorization OneWorkerUnderReservation ReleasedIsSettled
PROPERTIES ExitsImplementLedger ExitsOnlyConfirmed ExitIsAttributed
