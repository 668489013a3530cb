SPECIFICATION Spec
CONSTANTS
    Quantity = 3
    InitBalance = 3
    Prices = {1, 2, 3}
    BuyTrigger = 1
    BuyCancel = 2
    SellCancel = 2
    SellTrigger = 3
    Starts = {"buy"}
    Faults = {}
    MaxOrders = 3
    MaxLostAcks = 0
    MaxGaps = 0
    QueueCap = 1
CHECK_DEADLOCK FALSE
INVARIANTS
    RealizedIsCumulative
