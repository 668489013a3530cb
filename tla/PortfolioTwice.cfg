SPECIFICATION Spec
CONSTANTS
    Quote = "USDC"
    Middle = "BTC"
    Coins = {"USDC", "BTC", "ETH"}
    Holdings <- MCHoldings
    CheapFirst <- MCCheapFirst
    Positions = {"1000"}
    Sizes = {2}
    Legs = {"buy"}
    MaxUi = 1
    MaxBack = 0
INVARIANT BoughtOnce
