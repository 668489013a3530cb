SPECIFICATION Spec
CONSTANTS
    Quote = "USDC"
    Middle = "BTC"
    Coins = {"USDC", "BTC", "ETH"}
    Holdings <- MCHoldings
    CheapFirst <- MCCheapFirst
    Positions = {"1000"}
    Sizes = {2}
    Legs = {"buy", "sell", "hops"}
    MaxUi = 2
    MaxBack = 2
INVARIANTS
    TypeOK
    ProceedsCreditedOnce
    SoldCoinsCreditedOnce
    RowsFollowLots
    BalancesStand
