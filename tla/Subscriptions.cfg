SPECIFICATION FairSpec
CONSTANTS
    Systems = {portfolio, strategy}
    ticker = ticker
    ohlc = ohlc
    ui = ui
    worker = worker
    Infos <- MCInfos
    MaxTasks = 2
    MaxDrops = 1
CHECK_DEADLOCK FALSE
INVARIANTS
    TypeOK
    RegistryCounts
    ActiveIsServed
PROPERTIES
    WantedIsEventuallyServed
