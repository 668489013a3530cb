SPECIFICATION Spec
CONSTANTS
    Highs = {100, 106, 112}
    Prices = {90, 200}
    Distances <- MCDistances
    MinRising = 1
    MinGain = 50
    MinDelta = 5
    PlacePct = 2
    CancelPct = 4
    InitBudget = 300
    Budgets = {100, 300}
    OrderPct = 50
    MinOrder = 60
    Clients = {"binance", "kraken"}
    Faults = {"refuse", "withdraw", "stop"}
    MaxPositions = 2
    MaxLost = 1
    MaxDelayed = 2
    QueueCap = 1
CHECK_DEADLOCK FALSE
INVARIANTS
    TypeOK
    TrackingAgrees
    LockedIsCommitted
    OneWatching
    KnownUnlessLost
    FirstOrderFitsTop
    FillIsExpected
