---------------------------- MODULE MCPortfolio ----------------------------
EXTENDS Portfolio
Seed(coin, n) == <<"csv", coin, n>>
MCHoldings == <<[id |-> Seed("USDC", 1), coin |-> "USDC", qty |-> 2],
                [id |-> Seed("BTC", 1), coin |-> "BTC", qty |-> 1],
                [id |-> Seed("BTC", 2), coin |-> "BTC", qty |-> 2]>>
\* The lot bought is dearer than one and cheaper than another.
MCCheapFirst ==
    <<Seed("BTC", 1), HpLot("1000"), Seed("BTC", 2), Seed("USDC", 1),
      Received("1000")>>
=============================================================================
