SPECIFICATION Spec
CONSTANTS
    Highs = {100, 104, 112}
    Prices = {90, 200}
    Distances <- MCDistances
    MinRising = 2
    MinGain = 50
    MinDelta = 5
    PlacePct = 2
    CancelPct = 4
    InitBudget = 300
    Budgets = {300}
    OrderPct = 50
    MinOrder = 60
    Clients = {"binance"}
    Faults = {}
    MaxPositions = 2
    MaxLost = 1
    MaxDelayed = 1
    QueueCap = 1
CHECK_DEADLOCK FALSE
INVARIANT
    CompletedLeavesNoBuy
