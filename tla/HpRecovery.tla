----------------------------- MODULE HpRecovery -----------------------------
(***************************************************************************)
(* A Hold & Profit position whose program crashes and starts again.        *)
(*                                                                         *)
(* HpManager runs as long as the program does.  A crash takes its memory,  *)
(* its queue and the answer of a call it awaits; the exchange and the      *)
(* database stay.  A restart verifies the saved orders and rebuilds the    *)
(* strategy from the row of the positions table and the rows of the orders *)
(* table.  The exchange client has no get_order, so the verification of    *)
(* any order that is not saved as FILLED raises: the recovery is given up  *)
(* and the program runs on without its positions.                          *)
(***************************************************************************)
EXTENDS HpProperties

CONSTANT MaxRestarts          \* bound: crashes

ASSUME RestartAssumption == MaxRestarts \in Nat

VARIABLES
    pos,       \* the position's row: its type and its quantity column
    phase,     \* the program is "up", "down", or up with "empty" strategies
    restarts,  \* history: crashes so far
    told       \* history: completions of the position by HPClose

rvars == <<vars, pos, phase, restarts, told>>

\* One row per hp_id: saving either side replaces what the other had saved.
BuyRow == [type |-> "BUY", qty |-> 0]
SellRow(order) == [type |-> "SELL", qty |-> order.qty]

RInit ==
    /\ Init
    /\ pos = IF HasBuyOrder THEN BuyRow ELSE SellRow(so)
    /\ phase = "up"
    /\ restarts = 0
    /\ told = 0

-----------------------------------------------------------------------------
(* The program is up: every step of HpManager, and the row it saves *)

\* Only a restored strategy gets here with an order that is filled already.
SendFilledSell ==
    /\ pc = "send_sell_order" /\ so.status = "FILLED"
    /\ state' = "SELLING"
    /\ sell' = "SOLD"
    /\ SaveBoth(so, "SELLING")
    /\ queue' = Append(queue, Signal)
    /\ pc' = "idle"
    /\ UNCHANGED <<buy, bo, so, sellSet, balance, life, ex, seen, lostAck, gaps>>

SavesBuyRow ==
    \/ BuyCreated \/ BuyCancelled \/ BuyFilledReport \/ BuyPartFilledReport
    \/ CloseFilledBuy /\ sell # "PARTIALLY_SOLD"
\* close_filled_position_buy saves the sell row after the buy row.
SavesSellRow ==
    \/ SellCreated \/ ResendNothing \/ SendFilledSell \/ UnfilledSellCancelled
    \/ SellFilledReport \/ SellPartFilledReport
    \/ CloseFilledSell /\ buy # "BOUGHT"
    \/ CloseFilledBuy /\ sell = "PARTIALLY_SOLD"
    \/ \E q \in {0, bo.real} : ConfigureSell(q)
SavesNoRow ==
    \/ process_ticker \/ StatusReport \/ DropFill \/ RaiseOnSignal
    \/ LoseBuyAck \/ CreateBuyFails \/ LoseSellAck \/ CreateSellFails
    \/ CancelFails \/ PartlySoldCancelled \/ ClosePosition
    \/ \E p \in Prices : Ticker(p)
    \/ \E o \in OrderIds, n \in 1 .. Quantity : Fill(o, n)

Up == phase = "up" /\ UNCHANGED <<phase, restarts>>
StepSavingBuy == Up /\ SavesBuyRow /\ pos' = BuyRow /\ UNCHANGED told
StepSavingSell == Up /\ SavesSellRow /\ pos' = SellRow(so') /\ UNCHANGED told
StepSavingNone == Up /\ SavesNoRow /\ UNCHANGED <<pos, told>>
\* close_filled_position_sell: the executor and the portfolio are told.  (What
\* complete_position sends the portfolio besides, hp_manager.py:1444, is not
\* counted: the credit of a completion is Portfolio's.)
Complete ==
    /\ Up
    /\ CloseFilledSell /\ buy = "BOUGHT"
    /\ pos' = SellRow(so)
    /\ told' = told + 1

-----------------------------------------------------------------------------
(* The crash *)

\* The exchange has carried out the call the program was awaiting.
LosesAnswer ==
    \/ /\ AwaitsCreateBuy /\ OpenBuy > 0 /\ FreeIds # {}
       /\ ex' = Placed("BUY", OpenBuy)
       /\ lostAck' = lostAck \cup {NextId}
    \/ /\ AwaitsCreateSell /\ OpenSell > 0 /\ FreeIds # {}
       /\ ex' = Placed("SELL", OpenSell)
       /\ lostAck' = lostAck \cup {NextId}
    \/ /\ AwaitsCancel /\ Cancellable(Order) /\ ex[Order.id].live
       /\ ex' = Closed(Order.id)
       /\ UNCHANGED lostAck

\* A fill report whose order row was saved and whose position row was not.  In
\* the other callbacks the order row is not FILLED, and no restart reads on.
SplitsSave ==
    \E order \in {bo, so} :
        /\ Waiting("report") /\ report.status = "FILLED" /\ report.id = order.id
        /\ state = IF order = bo THEN "BUYING" ELSE "SELLING"
        /\ db' = [db EXCEPT !.rows = upsert_order(@, Booked(order, "FILLED"))]
        /\ Book(order.id, report.cum)

Crash ==
    /\ phase # "down" /\ restarts < MaxRestarts
    /\ phase' = "down"
    /\ restarts' = restarts + 1
    /\ pc' = "dead"
    /\ queue' = <<>>
    /\ \/ UNCHANGED <<ex, lostAck, db, seen>>
       \/ phase = "up" /\ LosesAnswer /\ UNCHANGED <<db, seen>>
       \/ phase = "up" /\ SplitsSave /\ UNCHANGED <<ex, lostAck>>
    /\ UNCHANGED <<state, buy, sell, bo, so, sellSet, balance, life, gaps, pos, told>>

\* Orders trade on while nobody listens.
FillUnseen(o, n) ==
    /\ phase # "up"
    /\ ex[o].live /\ ex[o].cum + n <= ex[o].qty
    /\ ex' = [ex EXCEPT ![o].cum = @ + n, ![o].live = ex[o].cum + n < ex[o].qty]
    /\ UNCHANGED <<state, buy, sell, bo, so, sellSet, balance, queue, pc, life,
                   db, seen, lostAck, gaps, pos, phase, restarts, told>>

-----------------------------------------------------------------------------
(* The restart *)

Saved(side) == {o \in OrderIds : db.rows[o].status # "NONE" /\ ex[o].side = side}
WithStatus(S, statuses) == {o \in S : db.rows[o].status \in statuses}

\* verify_positions_with_exchange gets past orders only if all are FILLED.
BugVerified == TRUE
BugTrustsClosed == \A o \in OrderIds : db.rows[o].status \in {"NONE", "FILLED", "CANCELED"}
Verified == \A o \in OrderIds : db.rows[o].status \in {"NONE", "FILLED"}

\* RecoveryError is logged, and the executor goes on with no strategies.
RecoveryFails ==
    /\ phase = "down" /\ ~ Verified
    /\ phase' = "empty"
    /\ UNCHANGED <<vars, pos, restarts, told>>

\* Of several orders the last open one, else the last filled one, else the last.
_aggregate_orders(S) ==
    LET open == S \ WithStatus(S, {"FILLED", "CANCELED"})
        filled == WithStatus(S, {"FILLED"})
    IN  Max(CASE open # {} -> open
              [] open = {} /\ filled # {} -> filled
              [] OTHER -> S)
\* The first that is NEW, else the oldest.
_select_current_sell_order(S) ==
    Min(IF WithStatus(S, {"NEW"}) # {} THEN WithStatus(S, {"NEW"}) ELSE S)

\* Filled orders are not looked up.
BugSavedBuys == WithStatus(Saved("BUY"), OrderStatus \ {"FILLED"})
SavedBuys == Saved("BUY")
BugSavedSells == {}
SavedSells == Saved("SELL")

restore_buy_orders ==
    IF SavedBuys = {} THEN NewBuyOrder                   \* prepare_order
    ELSE LET o == _aggregate_orders(SavedBuys)
         IN  [NewBuyOrder EXCEPT !.id = o, !.status = db.rows[o].status,
                                 !.real = db.rows[o].real]
\* Before a resend an order is saved as CANCELED, and no restart reads on; so a
\* row that is read was sent once, and its quantity column is the order's.
RestoredSell(o) == [id |-> o, status |-> db.rows[o].status, qty |-> ex[o].qty,
                    real |-> db.rows[o].real]

\* _update_position_from_orders: the quantity column of a position with orders
\* is the sum over all of them, of both sides.
VerifiedQuantity ==
    LET orders == Saved("BUY") \cup Saved("SELL")
    IN  IF orders = {} THEN pos.qty
        ELSE SumFunctionOnSet([o \in OrderIds |-> ex[o].qty], orders)

\* The USDC row of the inventory may not have been read yet.
NewStrategy ==
    /\ phase = "down" /\ Verified
    /\ phase' = "up"
    /\ \E b \in {0, InitBalance} : balance' = b * Quantity
    /\ pc' = "idle"
    /\ life' = "running"
    /\ sell' = "NEW"
    /\ UNCHANGED <<queue, ex, seen, lostAck, gaps, restarts, told>>

\* The saved state of the strategy is taken for the state of the buy order.
BugBuyStateOf(order) == db.strategy
BuyStateOf(order) ==
    CASE order.status = "FILLED" -> "BOUGHT"
      [] order.status # "FILLED" /\ order.real = 0 -> "NEW"
      [] OTHER -> "PARTIALLY_BOUGHT"

restore_buy_position ==
    /\ pos.type = "BUY"
    /\ NewStrategy
    /\ bo' = restore_buy_orders
    /\ buy' = BuyStateOf(bo')
    /\ so' = IF SavedSells = {} THEN NewSellOrder(0) ELSE RestoredSell(Min(SavedSells))
    /\ sellSet' = FALSE
    /\ state' = db.strategy
    /\ pos' = BuyRow
    /\ UNCHANGED db

\* The saved state is not read.
BugRestoredState == "BOUGHT"
\* Without a buy order the state column is ignored: the coins are held.
RestoredState == IF SavedBuys = {} THEN "BOUGHT" ELSE db.strategy

restore_sell_position ==
    /\ pos.type = "SELL"
    /\ NewStrategy
    /\ bo' = IF SavedBuys = {} THEN NoBuyOrder ELSE restore_buy_orders
    /\ buy' = IF SavedBuys = {} THEN "BOUGHT" ELSE BuyStateOf(bo')
    /\ so' = IF SavedSells = {} THEN NewSellOrder(VerifiedQuantity)
             ELSE RestoredSell(_select_current_sell_order(SavedSells))
    /\ sellSet' = TRUE
    /\ state' = RestoredState
    /\ pos' = [type |-> "SELL", qty |-> VerifiedQuantity]
    /\ SavePosition(state')

Restart == RecoveryFails \/ restore_buy_position \/ restore_sell_position

-----------------------------------------------------------------------------
RNext ==
    \/ StepSavingBuy \/ StepSavingSell \/ StepSavingNone \/ Complete
    \/ Crash \/ Restart
    \/ \E o \in OrderIds, n \in 1 .. Quantity : FillUnseen(o, n)

RSpec == RInit /\ [][RNext]_rvars

-----------------------------------------------------------------------------
(* Properties *)

\* A restored strategy is in a state of the state machine, whatever the rows say.
RestartTypeOK ==
    /\ TypeOK
    /\ pos \in [type : {"BUY", "SELL"}, qty : Nat]
    /\ phase \in {"up", "down", "empty"}
    /\ restarts \in 0 .. MaxRestarts
    /\ told \in Nat

\* A position is brought back only when nothing it did at the exchange is
\* unknown to it: each order whose id it ever got is closed, and booked to the
\* last coin, whatever traded while the program was down.
RestoredIsComplete ==
    [][phase = "down" /\ phase' = "up" =>
           \A o \in Known : ~ ex[o].live /\ seen[o] = ex[o].cum]_rvars

\* A position that bought its coins is reported sold to the executor once,
\* however often the program starts again on the row of a sold position, which
\* nothing closes.  Only completions that ask the executor to close (HPClose) count.
\* (A position that sells coins of the inventory is reported again after every
\* restart; see the README.)
CompletedOnce == BuyIds # {} => told <= 1
=============================================================================
