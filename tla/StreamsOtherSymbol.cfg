CONSTANTS
    insert = insert  save = save  replace = replace
    bot = bot  backfill = backfill
    btc = btc  eth = eth  om = om  atom = atom
    telegram = telegram  reconciler = reconciler
    binance = binance  bitget = bitget
    auto = auto  single = single  pinbar = pinbar  pier = pier
    Calls <- ThreeCalls
    Explicit <- Transactions
    Length <- OneOrTwo
    Processes <- TwoProcesses
    LastVersion = 3
    Lines <- ThreeScripts
    Once <- Columns
    Knows <- OlderTool
    MaxHalts = 3
    Candidates = {btc, eth, om}
    Lifetime = 2
    MaxKept = 2
    MaxPrepared = 3
    LastTick = 3
    StreamSymbols = {om, atom}
    Stoppers = {telegram, reconciler}
    Within <- Contained
    Announces = FALSE
    MaxStreams = 3
    StartBalance = 2
    MaxChanges = 3
    MaxOutages = 1
    Connectors = {binance, bitget}
    FirstChoice <- Configured
    Policies = {auto, single}
    NewStrategy = pier
    MaxSwitches = 3
    MaxStarts = 2
    MaxLapses = 1
    MaxId = 4  Top = 2
    Whole = 3  Slice = 2
    MaxTrouble = 2
SPECIFICATION Spec
CHECK_DEADLOCK FALSE
PROPERTY OthersUndisturbed
