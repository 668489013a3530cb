SPECIFICATION Spec
CONSTANTS
    Quantity = 3
    InitBalance = 3
    Prices = {1, 2, 3}
    BuyTrigger = 1
    BuyCancel = 2
    SellCancel = 2
    SellTrigger = 3
    Starts = {"buy", "inventory"}
    Faults = {"refuse", "withdraw", "snapshot"}
    MaxOrders = 3
    MaxLostAcks = 1
    MaxGaps = 1
    QueueCap = 1
CHECK_DEADLOCK FALSE
INVARIANTS
    OneWorkingOrder
    OrdersTracked
    BuyStateAgrees
    BuysWithinPlan
    SellingIsPersisted
PROPERTIES
    ImplementsDesk
