----------------------------- MODULE HpManager -----------------------------
(***************************************************************************)
(* One Hold & Profit position: the state machine HpStrategy, the worker    *)
(* coroutine that feeds it, its buy and its sell order, the exchange those *)
(* orders live on and the position's rows in the database.                 *)
(*                                                                         *)
(* The worker takes one event from its queue at a time.  A transition      *)
(* whose callback calls the exchange is two steps: the first takes the     *)
(* event, checks the condition and does what the code does before the      *)
(* await; pc then names the suspended callback, and the second step is the *)
(* answer of the exchange and the rest of the callback.  Everything else   *)
(* (fills, reports, tickers, the user's sell) interleaves with both.       *)
(* Definitions whose name starts with Bug are deliberate mistakes; nothing *)
(* uses them, they show which property notices which mistake.              *)
(*                                                                         *)
(* Prices are ticks compared with four fixed thresholds, and one coin      *)
(* costs one unit of the quote currency.  Money is counted in units of     *)
(* 1/Quantity, so that the code's                                          *)
(* quantity_stable * (1 - realized / quantity) stays an integer.           *)
(***************************************************************************)
EXTENDS Integers, Sequences, FiniteSets

CONSTANTS
    Quantity,     \* coins the budget buys: budget / buy_price
    InitBalance,  \* USDC in the inventory when the strategy is created
    Prices,       \* ticker prices
    BuyTrigger,   \* a ticker at or below it sends or resends the buy order
    BuyCancel,    \* a ticker at or above it cancels the buy order
    SellTrigger,  \* a ticker at or above it sends or resends the sell order
    SellCancel,   \* a ticker at or below it cancels the sell order
    Starts,       \* how the position comes to be: "buy", "inventory"
    Faults,       \* what may go wrong: "refuse", "withdraw", "snapshot"
    MaxOrders,    \* bound: orders the exchange accepts
    MaxLostAcks,  \* bound: accepted orders whose answer never arrives
    MaxGaps,      \* bound: execution reports lost while reconnecting
    QueueCap      \* bound: events waiting when a new one may still arrive

ASSUME QuantityAssumption == Quantity \in Nat \ {0}
ASSUME PriceAssumption ==
    /\ Prices \subseteq Nat \ {0}
    /\ {BuyTrigger, BuyCancel, SellTrigger, SellCancel} \subseteq Nat \ {0}
    /\ BuyTrigger < BuyCancel
    /\ SellCancel < SellTrigger
ASSUME BoundAssumption ==
    /\ {InitBalance, MaxOrders, MaxLostAcks, MaxGaps, QueueCap} \subseteq Nat
    /\ Starts \subseteq {"buy", "inventory"}
    /\ Faults \subseteq {"refuse", "withdraw", "snapshot"}

VARIABLES
    state,    \* HpStrategy.state
    buy,      \* buy.data.state_info.state
    sell,     \* sell.current_position.state_info.state
    bo,       \* buy.buy_order
    so,       \* sell.current_position.sell_order
    sellSet,  \* the user has configured a sell price
    balance,  \* HpStrategy.balance
    queue,    \* worker_queue
    pc,       \* "idle", the callback awaiting the exchange, or "dead"
    life,     \* the strategy's stop_event and the HPClose that sets it
    ex,       \* the orders at the exchange, by order id
    db,       \* the position's strategy_state column and its order rows
    seen,     \* history: fills of each order the strategy has booked
    lostAck,  \* history: accepted orders whose id the strategy never got
    gaps      \* history: execution reports lost so far

vars == <<state, buy, sell, bo, so, sellSet, balance, queue, pc, life, ex,
          db, seen, lostAck, gaps>>

State == {"NEW", "BUYING", "PARTIALLY_BOUGHT", "BOUGHT", "SELLING",
          "PARTIALLY_SOLD", "PART_SOLD_PART_BOUGHT", "SOLD_PART_BOUGHT",
          "SOLD"}
OrderIds == 1 .. MaxOrders
NoId == 0                              \* order_id = ""
OrderStatus == {"NEW", "PARTIALLY_FILLED", "FILLED", "CANCELED", "EXPIRED"}

BuyCreates == {"send_buy_orders", "resend_buy_orders"}
BuyCancels == {"cancel_unfilled_buy_orders", "cancel_partially_bought_orders"}
SellCreates == {"send_sell_order", "resend_sell_order"}
SellCancels == {"cancel_unfilled_sell_orders", "cancel_partially_sold_orders"}
Callbacks == BuyCreates \cup BuyCancels \cup SellCreates \cup SellCancels

Tick(p) == [kind |-> "tick", price |-> p]
Report(o, status, cum, last) ==
    [kind |-> "report", id |-> o, status |-> status, cum |-> cum, last |-> last]
Signal == [kind |-> "signal"]          \* HP_ALL_ORDERS_FILLED

\* Order(...): never sent, status NEW, nothing realized.
NewBuyOrder == [id |-> NoId, status |-> "NEW", qty |-> Quantity,
                real |-> 0, qs |-> Quantity]
NewSellOrder(q) == [id |-> NoId, status |-> "NEW", qty |-> q, real |-> 0]
\* buy_order = None: the position sells coins of the inventory.
NoBuyOrder == [id |-> NoId, status |-> "NONE", qty |-> 0, real |-> 0, qs |-> 0]
HasBuyOrder == bo.status # "NONE"

Unplaced == [side |-> "NONE", qty |-> 0, cum |-> 0, live |-> FALSE]
Closed(o) ==
    [ex EXCEPT ![o] = [side |-> @.side, qty |-> @.qty, cum |-> @.cum, live |-> FALSE]]
NoRow == [status |-> "NONE", real |-> 0]

\* The quote currency the open part of the buy order stands for: quantity_stable
\* (which every partial fill reduces) times the unfilled fraction.
RemainingBuy == bo.qs * (Quantity - bo.real)

\* With no sell configured sell_price is 0, and both sell thresholds with it.
TriggerSell == IF sellSet THEN SellTrigger ELSE 0
CancelSell == IF sellSet THEN SellCancel ELSE 0

-----------------------------------------------------------------------------
(* The database *)

\* EXPIRED is no column value: the conversion falls back to NEW.
RowOf(order) ==
    [status |-> IF order.status = "EXPIRED" THEN "NEW" ELSE order.status,
     real |-> order.real]
upsert_order(rows, order) ==
    IF order.id = NoId THEN rows ELSE [rows EXCEPT ![order.id] = RowOf(order)]
SaveOrder(order) ==
    db' = [rows |-> upsert_order(db.rows, order), strategy |-> db.strategy]
SavePosition(s) == db' = [rows |-> db.rows, strategy |-> s]
SaveBoth(order, s) ==
    db' = [rows |-> upsert_order(db.rows, order), strategy |-> s]

-----------------------------------------------------------------------------
(* Initial states *)

CommonInit ==
    /\ balance = InitBalance * Quantity
    /\ queue = <<>>
    /\ pc = "idle"
    /\ life = "running"
    /\ ex = [o \in OrderIds |-> Unplaced]
    /\ seen = [o \in OrderIds |-> 0]
    /\ lostAck = {}
    /\ gaps = 0

\* setup_buy_position: a buy order prepared, no sell configured.
InitBuy ==
    /\ "buy" \in Starts
    /\ state = "NEW" /\ buy = "NEW" /\ sell = "NEW"
    /\ bo = NewBuyOrder
    /\ so = NewSellOrder(0)
    /\ sellSet = FALSE
    /\ db = [strategy |-> "NEW", rows |-> [o \in OrderIds |-> NoRow]]

\* setup_sell_position_with_new_hp: coins already held, no buy order at all.
InitInventorySell ==
    /\ "inventory" \in Starts
    /\ state = "BOUGHT" /\ buy = "BOUGHT" /\ sell = "NEW"
    /\ bo = NoBuyOrder
    /\ so = NewSellOrder(Quantity)
    /\ sellSet = TRUE
    /\ db = [strategy |-> "BOUGHT", rows |-> [o \in OrderIds |-> NoRow]]

Init == CommonInit /\ (InitBuy \/ InitInventorySell)

-----------------------------------------------------------------------------
(* The worker: taking an event *)

Running == pc = "idle" /\ life # "stopped"
Waiting(kind) == Running /\ queue # <<>> /\ Head(queue).kind = kind
Take(kind) == Waiting(kind) /\ queue' = Tail(queue)
TakeAndSignal(kind) == Waiting(kind) /\ queue' = Append(Tail(queue), Signal)
price == Head(queue).price
report == Head(queue)

\* Suspend in a callback that runs after ("after") or before the state changes.
Enter(dest, callback) ==
    /\ state' = dest
    /\ pc' = callback
    /\ UNCHANGED <<buy, sell, sellSet, life, ex, db, seen, lostAck, gaps>>
\* An exception leaves worker() and ends its task; nobody restarts it.
Die == pc' = "dead"
Ignore == UNCHANGED <<state, buy, sell, bo, so, sellSet, balance, pc, life, ex,
                      db, seen, lostAck, gaps>>

-----------------------------------------------------------------------------
(* process_ticker: the transitions in the order they are tried *)

CanSendBuy ==                                                       \* 1
    /\ state = "NEW" /\ buy = "NEW"
    /\ price <= BuyTrigger
    /\ balance >= Quantity * Quantity
    /\ bo.status \notin {"FILLED", "NONE"}
\* The buy state is not looked at.
BugCancelAnyBuy ==
    /\ state = "BUYING" /\ sell = "NEW"
    /\ price >= BuyCancel
    /\ bo.status \in {"NEW", "PARTIALLY_FILLED"}
CanCancelUnfilledBuy ==                                             \* 2
    /\ state = "BUYING" /\ buy = "NEW" /\ sell = "NEW"
    /\ price >= BuyCancel
    /\ bo.status \in {"NEW", "PARTIALLY_FILLED"}
CanCancelPartlyBought ==                                            \* 3, 17
    /\ state = "BUYING" /\ buy = "PARTIALLY_BOUGHT"
    /\ sell \in {"NEW", "PARTIALLY_SOLD"}
    /\ price >= BuyCancel
CanResendBuy ==                                                     \* 4
    /\ state = "PARTIALLY_BOUGHT" /\ buy = "PARTIALLY_BOUGHT" /\ sell = "NEW"
    /\ price <= BuyTrigger
    /\ balance >= RemainingBuy
CanSellPartlyBought ==                                              \* 5
    /\ state = "PARTIALLY_BOUGHT" /\ buy = "PARTIALLY_BOUGHT" /\ sell = "NEW"
    /\ price >= TriggerSell
    /\ ~ CanResendBuy
CanSellBought ==                                                    \* 8
    /\ state = "BOUGHT" /\ sell = "NEW" /\ sellSet
    /\ price >= TriggerSell
CanCancelUnfilledSell ==                                            \* 6, 9
    /\ state = "SELLING" /\ sell = "NEW"
    /\ price <= CancelSell
    /\ \/ buy = "PARTIALLY_BOUGHT" /\ so.status = "NEW"
       \/ buy = "BOUGHT"
CanCancelPartlySold ==                                              \* 10, 14
    /\ state = "SELLING"
    /\ price <= CancelSell
    /\ \/ buy = "BOUGHT" /\ so.status # "NEW"
       \/ buy = "PARTIALLY_BOUGHT" /\ sell = "PARTIALLY_SOLD"
    /\ ~ CanCancelUnfilledSell
CanResendSell ==                                                    \* 11
    /\ state = "PARTIALLY_SOLD" /\ sell = "PARTIALLY_SOLD" /\ buy = "BOUGHT"
    /\ price >= TriggerSell
CanResumeSelling ==                                                 \* 15
    /\ state = "PART_SOLD_PART_BOUGHT"
    /\ buy = "PARTIALLY_BOUGHT" /\ sell = "PARTIALLY_SOLD"
    /\ price >= TriggerSell
CanResumeBuying ==                                                  \* 16, 19
    /\ \/ /\ state = "PART_SOLD_PART_BOUGHT" /\ sell = "PARTIALLY_SOLD"
          /\ ~ CanResumeSelling
       \/ state = "SOLD_PART_BOUGHT" /\ sell = "SOLD"
    /\ buy = "PARTIALLY_BOUGHT"
    /\ price <= BuyTrigger
\* A condition itself raises: 11 raises instead of returning False, and 4 reads
\* the buy order an inventory sell does not have.
ConditionRaises ==
    \/ state = "PARTIALLY_SOLD" /\ ~ CanResendSell
    \/ state = "PARTIALLY_BOUGHT" /\ ~ HasBuyOrder

SendBuy ==
    /\ Take("tick") /\ CanSendBuy
    /\ balance' = balance - RemainingBuy
    /\ bo' = NewBuyOrder                                 \* prepare_order
    /\ Enter("BUYING", "send_buy_orders")
    /\ UNCHANGED so

CancelUnfilledBuy ==
    /\ Take("tick") /\ CanCancelUnfilledBuy
    /\ balance' = balance + RemainingBuy
    /\ Enter("NEW", "cancel_unfilled_buy_orders")
    /\ UNCHANGED <<bo, so>>

CancelPartlyBought ==
    /\ Take("tick") /\ CanCancelPartlyBought
    /\ balance' = balance + RemainingBuy
    /\ Enter(IF sell = "NEW" THEN "PARTIALLY_BOUGHT" ELSE "PART_SOLD_PART_BOUGHT",
             "cancel_partially_bought_orders")
    /\ UNCHANGED <<bo, so>>

\* The money of the resent order stays available.
BugResendForFree ==
    /\ Take("tick") /\ (CanResendBuy \/ CanResumeBuying)
    /\ Enter("BUYING", "resend_buy_orders")
    /\ UNCHANGED <<bo, so, balance>>
ResendBuy ==
    /\ Take("tick") /\ (CanResendBuy \/ CanResumeBuying)
    /\ balance' = balance - RemainingBuy
    /\ Enter("BUYING", "resend_buy_orders")
    /\ UNCHANGED <<bo, so>>

\* Operands swapped.
BugSellQuantity == IF so.qty = 0 /\ bo.real > so.real THEN so.real - bo.real ELSE so.qty
\* send_sell_order completes a quantity the user left at 0.
SellQuantity == IF so.qty = 0 /\ bo.real > so.real THEN bo.real - so.real ELSE so.qty
\* The callback is an "after" for 5 and a "before" for 8.  An unconfigured sell
\* has price 0, which validate_order refuses on every retry.
SendSell ==
    /\ Take("tick") /\ (CanSellPartlyBought \/ CanSellBought)
    /\ so' = [so EXCEPT !.qty = SellQuantity]
    /\ Enter(IF state = "BOUGHT" THEN "BOUGHT" ELSE "SELLING",
             IF sellSet THEN "send_sell_order" ELSE "dead")
    /\ UNCHANGED <<bo, balance>>

\* Back to where the buy side stands: PARTIALLY_BOUGHT for 6, BOUGHT for 9.
CancelUnfilledSell ==
    /\ Take("tick") /\ CanCancelUnfilledSell
    /\ Enter(buy, "cancel_unfilled_sell_orders")
    /\ UNCHANGED <<bo, so, balance>>

CancelPartlySold ==
    /\ Take("tick") /\ CanCancelPartlySold
    /\ Enter(IF buy = "BOUGHT" THEN "PARTIALLY_SOLD" ELSE "PART_SOLD_PART_BOUGHT",
             "cancel_partially_sold_orders")
    /\ UNCHANGED <<bo, so, balance>>

\* An "after" for 11, a "before" for 15.
ResendSell ==
    /\ Take("tick") /\ (CanResendSell \/ CanResumeSelling)
    /\ Enter(IF state = "PARTIALLY_SOLD" THEN "SELLING" ELSE state,
             "resend_sell_order")
    /\ UNCHANGED <<bo, so, balance>>

RaiseInCondition ==
    /\ Take("tick") /\ ConditionRaises
    /\ Die
    /\ UNCHANGED <<state, buy, sell, bo, so, sellSet, balance, life, ex, db,
                   seen, lostAck, gaps>>

IgnoreTick ==
    /\ Take("tick")
    /\ ~ \/ CanSendBuy \/ CanCancelUnfilledBuy \/ CanCancelPartlyBought
         \/ CanResendBuy \/ CanSellPartlyBought \/ CanSellBought
         \/ CanCancelUnfilledSell \/ CanCancelPartlySold
         \/ CanResendSell \/ CanResumeSelling \/ CanResumeBuying
         \/ ConditionRaises
    /\ Ignore

-----------------------------------------------------------------------------
(* The exchange answers create_order *)

FreeIds == {o \in OrderIds : ex[o].side = "NONE"}
NextId == CHOOSE o \in FreeIds : TRUE
Placed(side, qty) ==
    [ex EXCEPT ![NextId] = [side |-> side, qty |-> qty, cum |-> 0, live |-> TRUE]]
Sent(order) == [order EXCEPT !.id = NextId, !.status = "NEW"]

\* The retry loop of _create_order: an attempt the exchange accepted but whose
\* answer was lost is tried again, and its order is known to nobody.
LoseAck(side, qty) ==
    /\ FreeIds # {} /\ qty > 0
    /\ Cardinality(lostAck) < MaxLostAcks
    /\ ex' = Placed(side, qty)
    /\ lostAck' = lostAck \cup {NextId}
    /\ UNCHANGED <<state, buy, sell, bo, so, sellSet, balance, queue, pc, life,
                   db, seen, gaps>>

\* All ten attempts fail, or validate_order refuses the quantity.
CreateFails(qty) ==
    /\ "refuse" \in Faults \/ FreeIds = {} \/ qty <= 0
    /\ Die
    /\ UNCHANGED <<state, buy, sell, bo, so, sellSet, balance, queue, life, ex,
                   db, seen, lostAck, gaps>>

AwaitsCreateBuy == pc \in BuyCreates /\ bo.status # "FILLED"
\* The whole order is sent again, not what is left of it.
BugOpenBuy == bo.qty
OpenBuy == bo.qty - bo.real

LoseBuyAck == AwaitsCreateBuy /\ LoseAck("BUY", OpenBuy)
CreateBuyFails == AwaitsCreateBuy /\ CreateFails(OpenBuy)
\* The rest of send_buy_orders and resend_buy_orders.
BuyCreated ==
    /\ AwaitsCreateBuy /\ OpenBuy > 0 /\ FreeIds # {}
    /\ ex' = Placed("BUY", OpenBuy)
    /\ bo' = Sent(bo)
    /\ state' = "BUYING"
    /\ buy' = IF pc = "send_buy_orders" THEN "NEW" ELSE "PARTIALLY_BOUGHT"
    /\ SaveBoth(bo', "BUYING")
    /\ pc' = "idle"
    /\ UNCHANGED <<sell, so, sellSet, balance, queue, life, seen, lostAck, gaps>>

AwaitsCreateSell == pc \in SellCreates /\ so.status # "FILLED"
BugOpenSell == so.qty
OpenSell == so.qty - so.real

LoseSellAck == AwaitsCreateSell /\ LoseAck("SELL", OpenSell)
CreateSellFails == AwaitsCreateSell /\ CreateFails(OpenSell)
\* The sell state is saved for the strategy state, as the buy side does.
BugSellCreated ==
    /\ AwaitsCreateSell /\ OpenSell > 0 /\ FreeIds # {}
    /\ ex' = Placed("SELL", OpenSell)
    /\ so' = Sent(so)
    /\ state' = "SELLING"
    /\ sell' = IF pc = "send_sell_order" THEN sell ELSE "PARTIALLY_SOLD"
    /\ SaveBoth(so', sell')
    /\ pc' = "idle"
    /\ UNCHANGED <<buy, bo, sellSet, balance, queue, life, seen, lostAck, gaps>>
SellCreated ==
    /\ AwaitsCreateSell /\ OpenSell > 0 /\ FreeIds # {}
    /\ ex' = Placed("SELL", OpenSell)
    /\ so' = Sent(so)
    /\ state' = "SELLING"
    /\ sell' = IF pc = "send_sell_order" THEN sell ELSE "PARTIALLY_SOLD"
    /\ SaveBoth(so', "SELLING")
    /\ pc' = "idle"
    /\ UNCHANGED <<buy, bo, sellSet, balance, queue, life, seen, lostAck, gaps>>
\* open_position sends nothing for a filled order; the callback goes on.
ResendNothing ==
    /\ pc = "resend_sell_order" /\ so.status = "FILLED"
    /\ state' = "SELLING"
    /\ sell' = "PARTIALLY_SOLD"
    /\ SaveBoth(so, "SELLING")
    /\ pc' = "idle"
    /\ UNCHANGED <<buy, bo, so, sellSet, balance, queue, life, ex, seen,
                   lostAck, gaps>>

-----------------------------------------------------------------------------
(* The exchange answers cancel_order *)

\* Only untouched orders are cancelled.
BugCancellable(order) == order.status = "NEW" /\ order.id # NoId
\* cancel_position calls the exchange only for an order it believes open.
Cancellable(order) == order.status \in {"NEW", "PARTIALLY_FILLED"} /\ order.id # NoId
Order == IF pc \in BuyCancels THEN bo ELSE so
AwaitsCancel == pc \in BuyCancels \cup SellCancels

\* The exception is swallowed.
BugCancelFails ==
    /\ AwaitsCancel /\ Cancellable(Order)
    /\ ~ ex[Order.id].live \/ "refuse" \in Faults
    /\ pc' = "idle"
    /\ UNCHANGED <<state, buy, sell, bo, so, sellSet, balance, queue, life, ex,
                   db, seen, lostAck, gaps>>

\* The order is closed already, or the call fails: the exception goes up.
CancelFails ==
    /\ AwaitsCancel /\ Cancellable(Order)
    /\ ~ ex[Order.id].live \/ "refuse" \in Faults
    /\ Die
    /\ UNCHANGED <<state, buy, sell, bo, so, sellSet, balance, queue, life, ex,
                   db, seen, lostAck, gaps>>

\* The exchange closes the order where it was open, and the callback goes on.
Cancelled(order) == IF Cancellable(order) THEN [order EXCEPT !.status = "CANCELED"]
                                          ELSE order
CancelAnswered ==
    /\ IF Cancellable(Order)
       THEN /\ ex[Order.id].live
            /\ ex' = Closed(Order.id)
       ELSE UNCHANGED ex
    /\ pc' = "idle"
    /\ UNCHANGED <<sellSet, balance, queue, life, seen, lostAck, gaps>>

\* What was realized before the cancellation is forgotten.
BugBuyAfterCancel(order) ==
    CASE order.status = "CANCELED" -> "NEW"
      [] order.status = "FILLED" -> "BOUGHT"
      [] OTHER -> buy
\* What cancel_position makes of the buy side.
BuyAfterCancel(order) ==
    CASE order.status = "CANCELED" ->
             IF order.real > 0 THEN "PARTIALLY_BOUGHT" ELSE "NEW"
      [] order.status = "FILLED" -> "BOUGHT"
      [] OTHER -> buy

\* The rest of cancel_position, cancel_unfilled_buy_orders and
\* cancel_partially_bought_orders.
BuyCancelled ==
    /\ pc \in BuyCancels
    /\ CancelAnswered
    /\ bo' = Cancelled(bo)
    /\ buy' = IF pc = "cancel_unfilled_buy_orders" THEN "NEW" ELSE BuyAfterCancel(bo')
    /\ IF bo'.status = "CANCELED" THEN SaveBoth(bo', BuyAfterCancel(bo'))
                                  ELSE SavePosition(BuyAfterCancel(bo'))
    /\ UNCHANGED <<state, sell, so>>

\* The rest of cancel_unfilled_sell_orders.
UnfilledSellCancelled ==
    /\ pc = "cancel_unfilled_sell_orders"
    /\ CancelAnswered
    /\ so' = Cancelled(so)
    /\ state' = IF bo.status = "FILLED" THEN "BOUGHT" ELSE "PARTIALLY_BOUGHT"
    /\ SaveBoth(so', state')
    /\ UNCHANGED <<buy, sell, bo>>

\* The rest of cancel_partially_sold_orders; the position row is not saved.
PartlySoldCancelled ==
    /\ pc = "cancel_partially_sold_orders"
    /\ CancelAnswered
    /\ so' = Cancelled(so)
    /\ sell' = "PARTIALLY_SOLD"
    /\ SaveOrder(so')
    /\ UNCHANGED <<state, buy, bo>>

-----------------------------------------------------------------------------
(* process_order: execution reports *)

Book(o, cum) == seen' = [seen EXCEPT ![o] = cum]
\* The realized quantity becomes that of the reported order.
Booked(order, status) == [order EXCEPT !.status = status, !.real = report.cum]

\* The signal is forgotten.
BugBuyFilledReport ==
    /\ Take("report") /\ state = "BUYING"
    /\ report.status = "FILLED" /\ report.id = bo.id
    /\ buy' = "PARTIALLY_BOUGHT"
    /\ sell' = IF sell = "SOLD" THEN "PARTIALLY_SOLD" ELSE sell
    /\ bo' = Booked(bo, "FILLED")
    /\ SaveBoth(bo', state)
    /\ Book(bo.id, report.cum)
    /\ UNCHANGED <<state, so, sellSet, balance, pc, life, ex, lostAck, gaps>>
BuyFilledReport ==
    /\ TakeAndSignal("report") /\ state = "BUYING"
    /\ report.status = "FILLED" /\ report.id = bo.id
    /\ buy' = "PARTIALLY_BOUGHT"
    /\ sell' = IF sell = "SOLD" THEN "PARTIALLY_SOLD" ELSE sell
    /\ bo' = Booked(bo, "FILLED")
    /\ SaveBoth(bo', state)
    /\ Book(bo.id, report.cum)
    /\ UNCHANGED <<state, so, sellSet, balance, pc, life, ex, lostAck, gaps>>

\* The last trade is added, so that a lost report is never caught up with.
BugBuyPartFilledReport ==
    /\ Take("report") /\ state = "BUYING"
    /\ report.status = "PARTIALLY_FILLED" /\ report.id = bo.id
    /\ buy' = "PARTIALLY_BOUGHT"
    /\ bo' = [bo EXCEPT !.status = "PARTIALLY_FILLED", !.real = @ + report.last,
                        !.qs = @ - report.last]
    /\ SaveBoth(bo', buy')
    /\ Book(bo.id, report.cum)
    /\ UNCHANGED <<state, sell, so, sellSet, balance, pc, life, ex, lostAck, gaps>>
\* upsert_buy_price_level gets no strategy state here and saves the buy state.
BuyPartFilledReport ==
    /\ Take("report") /\ state = "BUYING"
    /\ report.status = "PARTIALLY_FILLED" /\ report.id = bo.id
    /\ buy' = "PARTIALLY_BOUGHT"
    /\ bo' = [Booked(bo, "PARTIALLY_FILLED") EXCEPT !.qs = @ - report.last]
    /\ SaveBoth(bo', buy')
    /\ Book(bo.id, report.cum)
    /\ UNCHANGED <<state, sell, so, sellSet, balance, pc, life, ex, lostAck, gaps>>

SellFilledReport ==
    /\ TakeAndSignal("report") /\ state = "SELLING"
    /\ report.status = "FILLED" /\ report.id = so.id
    /\ sell' = "SOLD"
    /\ so' = Booked(so, "FILLED")
    /\ SaveBoth(so', state)
    /\ Book(so.id, report.cum)
    /\ UNCHANGED <<state, buy, bo, sellSet, balance, pc, life, ex, lostAck, gaps>>

\* A partial fill is taken for the fill of the whole order.
BugSellPartFilledReport ==
    /\ TakeAndSignal("report") /\ state = "SELLING"
    /\ report.status = "PARTIALLY_FILLED" /\ report.id = so.id
    /\ sell' = "SOLD"
    /\ so' = Booked(so, "FILLED")
    /\ SaveBoth(so', state)
    /\ Book(so.id, report.cum)
    /\ UNCHANGED <<state, buy, bo, sellSet, balance, pc, life, ex, lostAck, gaps>>
SellPartFilledReport ==
    /\ Take("report") /\ state = "SELLING"
    /\ report.status = "PARTIALLY_FILLED" /\ report.id = so.id
    /\ sell' = "PARTIALLY_SOLD"
    /\ so' = Booked(so, "PARTIALLY_FILLED")
    /\ SaveBoth(so', state)
    /\ Book(so.id, report.cum)
    /\ UNCHANGED <<state, buy, bo, sellSet, balance, pc, life, ex, lostAck, gaps>>

\* The order id is not compared.
BugRestatus(order) == [order EXCEPT !.status = report.status]
\* confirm_new_order, confirm_cancelled_order, confirm_expired_order: in every
\* state, the status alone, nothing saved.
Restatus(order) == IF order.id = report.id THEN [order EXCEPT !.status = report.status]
                                           ELSE order
StatusReport ==
    /\ Take("report") /\ report.status \in {"NEW", "CANCELED", "EXPIRED"}
    /\ bo' = Restatus(bo)
    /\ so' = Restatus(so)
    /\ UNCHANGED <<state, buy, sell, sellSet, balance, pc, life, ex, db, seen,
                   lostAck, gaps>>

\* No transition takes a fill of another order, or one that arrives in another
\* state: the fill is dropped without a trace.
DropFill ==
    /\ Take("report") /\ report.status \in {"FILLED", "PARTIALLY_FILLED"}
    /\ ~ (state = "BUYING" /\ report.id = bo.id)
    /\ ~ (state = "SELLING" /\ report.id = so.id)
    /\ Ignore

-----------------------------------------------------------------------------
(* process_signal: the order of the current side is filled *)

\* 7, 18 and the transition from BOUGHT to itself: close_filled_position_buy.
\* The buy row is saved with the buy state for strategy state, and after it
\* the sell row of a partly sold position.
CloseFilledBuy ==
    /\ Take("signal")
    /\ \/ state = "BUYING" /\ sell = "NEW" /\ bo.status = "FILLED"
       \/ /\ state = "BUYING" /\ sell = "PARTIALLY_SOLD" /\ bo.status = "FILLED"
          /\ buy = "PARTIALLY_BOUGHT"
       \/ state = "BOUGHT"
    /\ state' = IF state = "BUYING" /\ sell = "PARTIALLY_SOLD" THEN "PARTIALLY_SOLD"
                                                               ELSE "BOUGHT"
    /\ buy' = "BOUGHT"
    /\ SavePosition(IF sell = "PARTIALLY_SOLD" THEN "PARTIALLY_SOLD" ELSE "BOUGHT")
    /\ UNCHANGED <<sell, bo, so, sellSet, balance, pc, life, ex, seen, lostAck, gaps>>

\* The HPClose is forgotten.
BugCloseFilledSell ==
    /\ Take("signal")
    /\ state = "SELLING" /\ so.status = "FILLED"
    /\ buy \in {"PARTIALLY_BOUGHT", "BOUGHT"}
    /\ state' = IF buy = "BOUGHT" THEN "SOLD" ELSE "SOLD_PART_BOUGHT"
    /\ sell' = "SOLD"
    /\ SavePosition(state')
    /\ UNCHANGED <<buy, bo, so, sellSet, balance, pc, life, ex, seen, lostAck, gaps>>

\* The HPClose is put for a position that still has to buy, too.
BugCloseSoldPartBought ==
    /\ Take("signal")
    /\ state = "SELLING" /\ so.status = "FILLED"
    /\ buy \in {"PARTIALLY_BOUGHT", "BOUGHT"}
    /\ state' = IF buy = "BOUGHT" THEN "SOLD" ELSE "SOLD_PART_BOUGHT"
    /\ sell' = "SOLD"
    /\ life' = "closing"
    /\ SavePosition(state')
    /\ UNCHANGED <<buy, bo, so, sellSet, balance, pc, ex, seen, lostAck, gaps>>

\* 12, 13: close_sold_position_which_is_part_bought and
\* close_filled_position_sell, which also puts an HPClose for the executor.
CloseFilledSell ==
    /\ Take("signal")
    /\ state = "SELLING" /\ so.status = "FILLED"
    /\ buy \in {"PARTIALLY_BOUGHT", "BOUGHT"}
    /\ state' = IF buy = "BOUGHT" THEN "SOLD" ELSE "SOLD_PART_BOUGHT"
    /\ sell' = "SOLD"
    /\ life' = IF buy = "BOUGHT" THEN "closing" ELSE life
    /\ SavePosition(state')
    /\ UNCHANGED <<buy, bo, so, sellSet, balance, pc, ex, seen, lostAck, gaps>>

\* In BUYING and SELLING a signal whose conditions fail is ignored; a state
\* with no transition for it raises MachineError.
RaiseOnSignal ==
    /\ Take("signal") /\ state \notin {"BUYING", "SELLING", "BOUGHT"}
    /\ Die
    /\ UNCHANGED <<state, buy, sell, bo, so, sellSet, balance, life, ex, db,
                   seen, lostAck, gaps>>

\* The executor's close_position.
ClosePosition ==
    /\ life = "closing"
    /\ life' = "stopped"
    /\ UNCHANGED <<state, buy, sell, bo, so, sellSet, balance, queue, pc, ex,
                   db, seen, lostAck, gaps>>

-----------------------------------------------------------------------------
(* The user, the market and the exchange *)

Deliver(event) == Len(queue) < QueueCap /\ queue' = Append(queue, event)

Ticker(p) ==
    /\ Deliver(Tick(p))
    /\ UNCHANGED <<state, buy, sell, bo, so, sellSet, balance, pc, life, ex, db,
                   seen, lostAck, gaps>>

\* setup_sell_position: the user's sell replaces strategy.sell, unsent.  The
\* quantity is the one the screen shows, the bought quantity or 0.
ConfigureSell(q) ==
    /\ ~ sellSet
    /\ sellSet' = TRUE
    /\ sell' = "NEW"
    /\ so' = NewSellOrder(q)
    /\ SavePosition(state)
    /\ UNCHANGED <<state, buy, bo, balance, queue, pc, life, ex, seen, lostAck, gaps>>

\* n coins of an open order trade.  The report reaches the worker's queue, or
\* is lost while the private stream reconnects.
Fill(o, n) ==
    LET cum == ex[o].cum + n
        full == cum = ex[o].qty
    IN  /\ ex[o].live /\ cum <= ex[o].qty
        /\ ex' = [ex EXCEPT ![o] = [side |-> @.side, qty |-> @.qty, cum |-> cum,
                                    live |-> ~ full]]
        /\ \/ /\ Deliver(Report(o, IF full THEN "FILLED" ELSE "PARTIALLY_FILLED",
                                cum, n))
              /\ UNCHANGED gaps
           \/ /\ gaps < MaxGaps
              /\ gaps' = gaps + 1
              /\ UNCHANGED queue
        /\ UNCHANGED <<state, buy, sell, bo, so, sellSet, balance, pc, life, db,
                       seen, lostAck>>

\* The open orders the executions channel repeats on every reconnect are "open"
\* and not a trade, so they derive to NEW whatever was filled.
Snapshot(o) ==
    /\ "snapshot" \in Faults
    /\ ex[o].live
    /\ Deliver(Report(o, "NEW", ex[o].cum, 0))
    /\ UNCHANGED <<state, buy, sell, bo, so, sellSet, balance, pc, life, ex, db,
                   seen, lostAck, gaps>>

\* The exchange, or the user on its site, closes an order unasked.
Withdraw(o, status) ==
    /\ "withdraw" \in Faults
    /\ ex[o].live
    /\ ex' = Closed(o)
    /\ Deliver(Report(o, status, ex[o].cum, 0))
    /\ UNCHANGED <<state, buy, sell, bo, so, sellSet, balance, pc, life, db,
                   seen, lostAck, gaps>>

-----------------------------------------------------------------------------
process_ticker ==
    \/ SendBuy \/ CancelUnfilledBuy \/ CancelPartlyBought \/ ResendBuy
    \/ SendSell \/ CancelUnfilledSell \/ CancelPartlySold \/ ResendSell
    \/ RaiseInCondition \/ IgnoreTick
process_order ==
    \/ BuyFilledReport \/ BuyPartFilledReport
    \/ SellFilledReport \/ SellPartFilledReport
    \/ StatusReport \/ DropFill
process_signal == CloseFilledBuy \/ CloseFilledSell \/ RaiseOnSignal
Worker == process_ticker \/ process_order \/ process_signal

CreateAnswers ==
    \/ LoseBuyAck \/ CreateBuyFails \/ BuyCreated
    \/ LoseSellAck \/ CreateSellFails \/ SellCreated \/ ResendNothing
CancelAnswers ==
    CancelFails \/ BuyCancelled \/ UnfilledSellCancelled \/ PartlySoldCancelled
Answers == CreateAnswers \/ CancelAnswers

Environment ==
    \/ \E p \in Prices : Ticker(p)
    \/ \E q \in {0, bo.real} : ConfigureSell(q)
    \/ \E o \in OrderIds : \/ \E n \in 1 .. Quantity : Fill(o, n)
                           \/ Snapshot(o)
                           \/ \E s \in {"CANCELED", "EXPIRED"} : Withdraw(o, s)

Next == Worker \/ Answers \/ ClosePosition \/ Environment

Spec == Init /\ [][Next]_vars

\* The event loop keeps running the worker and the executor, and every REST
\* call returns or raises.
FairSpec == Spec /\ WF_vars(Worker) /\ WF_vars(Answers) /\ WF_vars(ClosePosition)

-----------------------------------------------------------------------------
(* Properties *)

BuyOrder == [id : OrderIds \cup {NoId}, status : OrderStatus \cup {"NONE"},
             qty : Nat, real : Nat, qs : Int]
SellOrder == [id : OrderIds \cup {NoId}, status : OrderStatus, qty : Nat, real : Nat]
Event == [kind : {"tick"}, price : Prices]
         \cup [kind : {"report"}, id : OrderIds, status : OrderStatus,
               cum : Nat, last : Nat]
         \cup [kind : {"signal"}]
Row == [status : OrderStatus \cup {"NONE"}, real : Nat]

\* Every variable stays in its type: in particular no callback leaves the
\* machine in a state, or an order with a status, the code has no name for.
TypeOK ==
    /\ state \in State
    /\ buy \in {"NEW", "PARTIALLY_BOUGHT", "BOUGHT"}
    /\ sell \in {"NEW", "PARTIALLY_SOLD", "SOLD"}
    /\ bo \in BuyOrder
    /\ so \in SellOrder
    /\ sellSet \in BOOLEAN
    /\ balance \in Int
    /\ queue \in Seq(Event)
    /\ pc \in Callbacks \cup {"idle", "dead"}
    /\ life \in {"running", "closing", "stopped"}
    /\ ex \in [OrderIds -> [side : {"BUY", "SELL", "NONE"}, qty : Nat,
                            cum : Nat, live : BOOLEAN]]
    /\ db \in [strategy : State, rows : [OrderIds -> Row]]
    /\ seen \in [OrderIds -> Nat]
    /\ lostAck \subseteq OrderIds
    /\ gaps \in 0 .. MaxGaps

\* Orders the exchange works and the strategy knows the id of.
LiveKnown == {o \in OrderIds \ lostAck : ex[o].live}

\* At no moment does the strategy have two working orders it knows of, a buy
\* and a sell or two of a side: every order is closed before another is sent,
\* whatever the interleaving of tickers, fills and cancellations.  Only an
\* order whose answer was lost may work beside it.
OneWorkingOrder == \A o, p \in LiveKnown : o = p

\* Why: the inductive invariant behind OneWorkingOrder.
BuyWorks == pc \in BuyCancels \cup {"dead"} \/ (pc = "idle" /\ state = "BUYING")
SellWorks == pc \in SellCancels \cup {"dead"} \/ (pc = "idle" /\ state = "SELLING")
Open(order) == order.status \in {"NEW", "PARTIALLY_FILLED"}
\* A working order is the buy or the sell order of the strategy, believed open,
\* in a state that will not send another; or the worker is dead.
Tracked ==
    \A o \in LiveKnown : \/ o = bo.id /\ Open(bo) /\ BuyWorks
                         \/ o = so.id /\ Open(so) /\ SellWorks
\* A report on its way that says an order is closed tells the truth.
ReportTrue(event) ==
    event.kind = "report" =>
        /\ ex[event.id].side # "NONE"
        /\ event.status \in {"FILLED", "CANCELED", "EXPIRED"} => ~ ex[event.id].live
ReportsTrue == \A i \in 1 .. Len(queue) : ReportTrue(queue[i])
\* Ids name orders of their side, and a free id was never lost.
IdsAgree ==
    /\ bo.id # NoId => ex[bo.id].side = "BUY"
    /\ so.id # NoId => ex[so.id].side = "SELL"
    /\ \A o \in OrderIds : ex[o].live \/ o \in lostAck => ex[o].side # "NONE"
\* Before the user configures a sell none was ever sent.
NoSellUnlessSet ==
    ~ sellSet => /\ so.id = NoId
                 /\ so.status = "NEW"
                 /\ sell = "NEW"
                 /\ pc \notin SellCreates \cup SellCancels

\* A working order is never forgotten while the worker lives: it is the one the
\* strategy holds and believes open, in BUYING or SELLING or in the midst of its
\* cancellation; and no closing report lies about it.  (Being tracked is not being
\* cancelled: from BUYING with a sold sell side no transition cancels, and the
\* order a dead worker leaves is nobody's to cancel.)
OrdersTracked == Tracked /\ ReportsTrue /\ IdsAgree /\ NoSellUnlessSet

\* What an order is to the rest of the program: one whose answer was lost is
\* nobody's.
DeskOrder ==
    [o \in OrderIds |-> IF o \in lostAck \/ ex[o].side = "NONE" THEN "unknown"
                        ELSE IF ex[o].live THEN "working" ELSE "closed"]
Desk == INSTANCE OrderDesk WITH Orders <- OrderIds, order <- DeskOrder,
                                over <- life # "running"

\* A position trades like an order desk: one order at a time, none opened again
\* after it closed, and none sent after the position was reported as sold,
\* whatever is refused, lost or withdrawn on the way.
ImplementsDesk == Desk!Spec

\* Why: a position that was reported as sold is SOLD, and its worker at rest.
OverIsQuiet == life # "running" => state = "SOLD" /\ pc \in {"idle", "dead"}
=============================================================================
