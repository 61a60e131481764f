CONSTANTS
    a1 = a1  a2 = a2
    btc = btc  none = none
    Ids <- TwoIds
    NoId = none
    Symbols <- OneSymbol
    SymbolOf <- SameSymbol
    MaxOpen = 1
    MaxFaults = 1
SPECIFICATION RetrySpec
PROPERTIES ImplementsLedger AcknowledgedConverges
CHECK_DEADLOCK FALSE
