CONSTANTS
    a1 = a1  a2 = a2  a3 = a3
    btc = btc  eth = eth  none = none
    Ids <- ThreeIds
    NoId = none
    Symbols <- TwoSymbols
    SymbolOf <- SharedSymbol
    MaxOpen = 1
    Universe <- Ranked
    BatchSize = 1
    TopN = 1
    MaxPositions = 2
    MaxBars = 2
    MaxCandidates = 1
    LastCandle = 3
    PaperSymbols = {btc, eth}
    LastTime = 3
    Prices = {2, 3}
    Fee = 1
    Capital = 6
    MaxCuts = 1
SPECIFICATION WaysSpec
CHECK_DEADLOCK FALSE
INVARIANTS
    VerdictIsTrue NoNakedExposure ExposureBounded GateMeansSettled NoOrphanLeg
    OneAttemptPerCandle LotsAccounted
PROPERTIES StagedBeforeDeletion TakenIsFinished EntriesAreNew
