CONSTANTS
    a1 = a1  a2 = a2  a3 = a3
    btc = btc  eth = eth  none = none
    Ids <- ThreeIds
    NoId = none
    Symbols <- TwoSymbols
    SymbolOf <- SharedSymbol
    MaxOpen = 2
SPECIFICATION PairSpec
INVARIANT FilledEntryAccounted
