---------------------------- MODULE HpProperties ----------------------------
(***************************************************************************)
(* What a Hold & Profit position promises: properties of HpManager that    *)
(* relate the strategy's bookkeeping, the exchange and the database.       *)
(***************************************************************************)
EXTENDS HpManager, FiniteSetsExt

BuyIds == {o \in OrderIds : ex[o].side = "BUY"}
SellIds == {o \in OrderIds : ex[o].side = "SELL"}
LiveIds == {o \in OrderIds : ex[o].live}
\* Orders the strategy got the id of.
Known == OrderIds \ lostAck

BookedIn(S) == SumFunctionOnSet(seen, S)
TradedIn(S) == SumFunctionOnSet([o \in OrderIds |-> ex[o].cum], S)
\* The part of live orders whose trading is still to be booked.
Outstanding(S) ==
    SumFunctionOnSet([o \in OrderIds |-> ex[o].qty - seen[o]], S \cap LiveIds)
\* Earlier orders of a side that traded before they were cancelled and resent.
EarlierFills(S, current) == {o \in (S \cap Known) \ {current} : seen[o] > 0}

\* The buy state follows the buy order: unbought means nothing was realized,
\* partly bought something, bought that the order filled.  A callback that
\* awaits the exchange has the old pair until its answer.
BuyStateAgrees ==
    pc \in {"idle", "dead"} /\ HasBuyOrder =>
        /\ buy = "NEW" => bo.real = 0
        /\ buy = "PARTIALLY_BOUGHT" => bo.real > 0
        /\ buy = "BOUGHT" => bo.status = "FILLED"

\* NEW means flat: a fresh buy order for the whole budget is prepared only
\* when no booked fill would be forgotten by it.
NewMeansFlat ==
    state = "NEW" /\ pc = "idle" => \A o \in BuyIds \cap Known : seen[o] = 0

\* With at most one cancelled order that had traded, what was booked and what
\* the open order can still buy stay within the quantity the budget buys.
BuysWithinPlan ==
    Cardinality(EarlierFills(BuyIds, bo.id)) <= 1 =>
        BookedIn(BuyIds \cap Known) + Outstanding(BuyIds \cap Known) <= Quantity

\* Likewise, with at most one sell order that had traded before, what was booked as
\* sold and what the open order still offers stay within what the buy orders traded
\* or, without a buy order, what the position was given to sell.
SellsWithinHolding ==
    Cardinality(EarlierFills(SellIds, so.id)) <= 1 =>
        BookedIn(SellIds \cap Known) + Outstanding(SellIds \cap Known)
            <= IF HasBuyOrder THEN TradedIn(BuyIds) ELSE Quantity

\* The balance never counts money twice: what was paid for booked fills, and
\* what a working buy order may still spend, is not available to send orders.
\* (A lost report leaves quantity_stable too big for good, and a cancellation
\* that overtakes the signal of a filled order credits it once more; see the
\* README.)
BalanceWithinMeans ==
    /\ gaps = 0
    /\ pc = "idle" /\ bo.status # "FILLED" /\ Cardinality(EarlierFills(BuyIds, bo.id)) <= 1
    => balance <= Quantity * (InitBalance - BookedIn(BuyIds \cap Known)
                                          - Outstanding(BuyIds \cap Known))

\* A position is closed as SOLD only when the sell quantity fixed at its first
\* sell traded in full (coins bought later are not in it).
SoldIsComplete ==
    state = "SOLD" /\ Cardinality(EarlierFills(SellIds, so.id)) <= 1 =>
        TradedIn(SellIds) >= so.qty

\* A restart finds a working sell order: while one is open the position is
\* saved as SELLING and the order as open.
SellingIsPersisted ==
    pc = "idle" /\ state = "SELLING" /\ so.id # NoId /\ ex[so.id].live =>
        /\ db.strategy = "SELLING"
        /\ db.rows[so.id].status \in {"NEW", "PARTIALLY_FILLED"}

\* recovery_service.py:199: after orders are resent, the newest order carries
\* the realized quantity of all of them.
RealizedIsCumulative ==
    pc = "idle" /\ bo.id # NoId => bo.real = BookedIn(BuyIds \cap Known)

\* README.md:17: the bot "places the buy order, tracks partial fills": once
\* every report is handled, the trades of each order it knows are booked.
TradesAreBooked ==
    pc = "idle" /\ gaps = 0 /\ (\A i \in DOMAIN queue : queue[i].kind # "report") =>
        \A o \in Known : seen[o] = ex[o].cum

\* hp_manager.py:209: a signal may come when the position "is already bought".
\* Whatever overtook it, it never ends the worker of a position whose buy side
\* is bought and whose sell order has not filled.
LateSignalIsAllowed ==
    [][buy = "BOUGHT" /\ so.status # "FILLED" /\ pc' = "dead"
         => queue = <<>> \/ Head(queue) # Signal]_vars

\* A buy order booked as filled leads to a bought position, unless the worker
\* ends on the way: the signal that closes it is neither lost nor starved by
\* the tickers and cancellations around it.
FilledBuyIsClosed ==
    state = "BUYING" /\ bo.status = "FILLED" ~> buy = "BOUGHT" \/ pc = "dead"

\* A sell order booked as filled leads to a sold position, also when a ticker
\* overtakes the signal, unless the worker ends; and a position sold out
\* stops its strategy.
FilledSellIsClosed ==
    state = "SELLING" /\ sell = "SOLD" ~>
        life = "stopped" \/ state = "SOLD_PART_BOUGHT" \/ pc = "dead"
=============================================================================
