------------------------------- MODULE BuyDip -------------------------------
(***************************************************************************)
(* The Buy Dip strategy for one symbol: the executor's worker loop, the    *)
(* detection of rising candles, the positions with their levels of buy     *)
(* orders, the invalidation of a top, the sell that follows the ticker,    *)
(* the budget, and the tasks that place orders behind the worker's back.   *)
(*                                                                         *)
(* The worker suspends only where the code awaits a cancellation; orders   *)
(* are created by tasks nobody waits for, and replacements by tasks that   *)
(* sleep first.  The strategy's own data is one record, s, so that the     *)
(* methods that call one another are functions on it.                      *)
(* Definitions whose name starts with Bug are deliberate mistakes; nothing *)
(* uses them, they show which property notices which mistake.              *)
(***************************************************************************)
EXTENDS Integers, Sequences, FiniteSets, FiniteSetsExt

CONSTANTS
    Highs,         \* highs of candles
    Prices,        \* ticker prices
    Distances,     \* dca_distances_pct, a sequence of percentages
    MinRising,     \* min_consecutive_rising
    MinGain,       \* min_total_gain_pct
    MinDelta,      \* invalidation_min_delta_pct
    PlacePct,      \* sell_placement_distance_pct
    CancelPct,     \* sell_cancellation_distance_pct
    InitBudget,    \* total_budget
    Budgets,       \* budgets the user may configure
    OrderPct,      \* order_budget_pct
    MinOrder,      \* min_order_size
    Clients,       \* what is behind the adapter: "binance", "kraken"
    Faults,        \* what may go wrong: "refuse", "withdraw", "stop"
    MaxPositions,  \* bound: positions
    MaxLost,       \* bound: orders given up when another cancellation fails
    MaxDelayed,    \* bound: candles and sleeping replacements together
    QueueCap       \* bound: events waiting when a new one may still arrive

Percent == 1 .. 99
ASSUME MarketAssumption ==
    /\ Highs \subseteq Nat \ {0} /\ Prices \subseteq Nat \ {0}
    /\ Distances \in Seq(Percent) /\ Distances # <<>>
ASSUME ConfigAssumption ==
    /\ MinRising \in Nat \ {0}
    /\ {MinGain, MinDelta, PlacePct, CancelPct} \subseteq Nat
    /\ PlacePct < CancelPct
    /\ OrderPct \in 1 .. 100 /\ MinOrder \in Nat \ {0}
    /\ InitBudget \in Nat /\ Budgets \subseteq Nat
    /\ Clients \subseteq {"binance", "kraken"}
    /\ {MaxPositions, MaxLost, MaxDelayed, QueueCap} \subseteq Nat

VARIABLES
    highs,    \* RisingCandleDetector: the highs is_rising looks at
    s,        \* BuyDipStrategy: positions, budget, tracked orders, creations
    worker,   \* the worker loop: idle, in a candle or a ticker, stopped
    queue,    \* worker_queue
    delayed,  \* replacements that sleep until the cooldown is over
    ex,       \* open orders at the exchange
    client,   \* the client the adapter was given
    lost,     \* history: orders given up without the exchange's word
    late      \* history: orders placed by replacements that slept

vars == <<highs, s, worker, queue, delayed, ex, client, lost, late>>

PosIds == 1 .. MaxPositions
Levels == Len(Distances)

\* Client order ids: one per level, one per replacement (made unique by the
\* time, here by the top, which only rises), and one sell id per position.
DcaId(p, level) == <<p, "dca", level>>
ReplacementId(p, top) == <<p, "replacement", top>>
SellId(p) == <<p, "sell", 0>>
NoOrder == [id |-> <<0, "none", 0>>, price |-> 0, amount |-> 0]
Order(id, price, amount) == [id |-> id, price |-> price, amount |-> amount]

\* spent is a history: what the booked fills were sized at.
NewPosition ==
    [state |-> "WATCHING", top |-> 0, confirmed |-> 0, pending |-> NoOrder,
     sell |-> NoOrder, level |-> 0, qty |-> 0, invested |-> 0, spent |-> 0,
     fresh |-> FALSE, cooling |-> FALSE]
NoPosition == [NewPosition EXCEPT !.state = "NONE"]

InState(t, state) == {p \in PosIds : t.pos[p].state = state}
Watching(t) == InState(t, "WATCHING")
PotentialTops(t) == InState(t, "POTENTIAL_TOP")
\* The positions of P in the order of the list.
InOrder(P) == CHOOSE f \in [1 .. Cardinality(P) -> P] :
                  \A i, j \in DOMAIN f : i < j => f[i] < f[j]
First(P) == CHOOSE p \in P : \A q \in P : p <= q

BuyPrice(top, level) == (top * (100 - Distances[level + 1])) \div 100

-----------------------------------------------------------------------------
(* BudgetManager *)

OrderSize(t) ==
    LET size == (t.avail * OrderPct) \div 100 IN IF size >= MinOrder THEN size ELSE 0
Lock(t, amount) == [t EXCEPT !.avail = @ - amount, !.locked = @ + amount]
Release(t, amount, profit) ==
    [t EXCEPT !.locked = @ - amount, !.avail = @ + amount + profit]

-----------------------------------------------------------------------------
(* BuyDipStrategy, BuyDipPosition, TopInvalidationHandler *)

place_order(t, p, price, id) ==
    LET size == OrderSize(t)
        order == Order(id, price, size)
    IN  IF t.pos[p].pending # NoOrder \/ size = 0 THEN t
        ELSE [Lock(t, size) EXCEPT !.pos[p].pending = order,
                                   !.tracked = @ \cup {id},
                                   !.creating = @ \cup {order}]

\* The money stays locked.
BugForgetPending(t, p) ==
    LET order == t.pos[p].pending
    IN  IF order = NoOrder THEN t
        ELSE [t EXCEPT !.pos[p].pending = NoOrder, !.tracked = @ \ {order.id}]
\* The order is forgotten and its money available again, whatever the exchange
\* said.  Common to an invalidation and to the fill of the sell.
ForgetPending(t, p) ==
    LET order == t.pos[p].pending
    IN  IF order = NoOrder THEN t
        ELSE [Release(t, order.amount, 0) EXCEPT !.pos[p].pending = NoOrder,
                                                 !.tracked = @ \ {order.id}]

\* The new high has to be MinDelta percent above the top.
Significant(t, p, high) == (high - t.pos[p].top) * 100 >= MinDelta * t.pos[p].top

\* The order is not forgotten when its top is.
BugInvalidated(t, p, high) ==
    LET moved == [t EXCEPT !.pos[p].top = high, !.pos[p].fresh = TRUE,
                           !.pos[p].cooling = TRUE]
    IN  place_order(moved, p, BuyPrice(high, 0), ReplacementId(p, high))
\* _invalidate_position_async after the cancellation.
Invalidated(t, p, high) ==
    LET moved == [ForgetPending(t, p) EXCEPT !.pos[p].top = high,
                                             !.pos[p].fresh = TRUE,
                                             !.pos[p].cooling = TRUE]
    IN  place_order(moved, p, BuyPrice(high, 0), ReplacementId(p, high))

\* A watching position is created next to another.
BugPlaceholder(t) ==
    IF InState(t, "NONE") = {} THEN t
    ELSE [t EXCEPT !.pos[First(InState(t, "NONE"))] = NewPosition]
_create_placeholder_watching_position(t) ==
    IF Watching(t) # {} \/ InState(t, "NONE") = {} THEN t
    ELSE [t EXCEPT !.pos[First(InState(t, "NONE"))] = NewPosition]

\* The candle the executor builds has no "timestamp": naming a new position
\* after it raises.
RisingRaises(t) ==
    OrderSize(t) # 0 /\ Watching(t) = {} /\ PotentialTops(t) = {}
_handle_rising_pattern(t, high) ==
    IF OrderSize(t) = 0 \/ Watching(t) = {} THEN t
    ELSE LET p == First(Watching(t))
             topped == [t EXCEPT !.pos[p].state = "POTENTIAL_TOP", !.pos[p].top = high]
         IN  place_order(topped, p, BuyPrice(high, 0), DcaId(p, 0))

\* handle_order_fill: the executor passes the quantity 1.0 for every fill, so
\* that a fill invests its price.
Booked(t, p, id, price) ==
    LET pending == t.pos[p].pending
        first == t.pos[p].state = "POTENTIAL_TOP"
    IN  [t EXCEPT !.tracked = @ \ {id},
            !.pos[p].pending = IF @.id = id THEN NoOrder ELSE @,
            !.pos[p].spent = IF pending.id = id THEN @ + pending.amount ELSE @,
            !.pos[p].invested = @ + price,
            !.pos[p].qty = @ + 1,
            !.pos[p].level = @ + 1,
            !.pos[p].state = IF first THEN "ACTIVE" ELSE @,
            !.pos[p].confirmed = IF first THEN t.pos[p].top ELSE @]
NextLevel(t, p) ==
    LET level == t.pos[p].level
    IN  IF t.pos[p].state # "ACTIVE" \/ level >= Levels THEN t
        ELSE place_order(t, p, BuyPrice(t.pos[p].confirmed, level), DcaId(p, level))
\* The order stays in the map of tracked orders.
BugHandleOrderFill(t, p, id, price) ==
    LET booked == Booked(t, p, id, price)
        watched == IF t.pos[p].state = "POTENTIAL_TOP"
                   THEN _create_placeholder_watching_position(booked) ELSE booked
    IN  IF id \notin t.tracked THEN t
        ELSE [NextLevel(watched, p) EXCEPT !.tracked = @ \cup {id}]
handle_order_fill(t, p, id, price) ==
    LET booked == Booked(t, p, id, price)
        watched == IF t.pos[p].state = "POTENTIAL_TOP"
                   THEN _create_placeholder_watching_position(booked) ELSE booked
    IN  IF id \notin t.tracked THEN t ELSE NextLevel(watched, p)

\* A pending buy order is given up without a call of the exchange.  Nothing
\* reads the data of a completed position again; it is cleared.
handle_sell_fill(t, p, price) ==
    LET forgotten == ForgetPending(t, p)
        invested == t.pos[p].invested
    IN  IF SellId(p) \notin t.tracked THEN t
        ELSE [Release(forgotten, invested, price * t.pos[p].qty - invested)
                 EXCEPT !.pos[p] = [NewPosition EXCEPT !.state = "COMPLETED"],
                        !.tracked = @ \ {SellId(p)}]

Near(t, p, price) == (t.pos[p].confirmed - price) * 100 <= PlacePct * t.pos[p].confirmed
Far(t, p, price) == (t.pos[p].confirmed - price) * 100 >= CancelPct * t.pos[p].confirmed
\* The order is not tracked.
BugPlaceSellOrder(t, p) ==
    LET order == Order(SellId(p), t.pos[p].confirmed, t.pos[p].qty)
    IN  [t EXCEPT !.pos[p].sell = order, !.creating = @ \cup {order}]
place_sell_order(t, p) ==
    LET order == Order(SellId(p), t.pos[p].confirmed, t.pos[p].qty)
    IN  [t EXCEPT !.pos[p].sell = order, !.tracked = @ \cup {SellId(p)},
                  !.creating = @ \cup {order}]
SellCancelled(t, p) ==
    [t EXCEPT !.pos[p].sell = NoOrder, !.tracked = @ \ {SellId(p)}]

\* The unconfirmed top is looked at.
BugCheck(t, price) ==
    [t EXCEPT !.pos = [p \in PosIds |->
        IF @[p].state = "POTENTIAL_TOP" /\ price > @[p].top
        THEN [@[p] EXCEPT !.state = "INVALIDATED"] ELSE @[p]]]
\* A position that waits for its first fill has no confirmed top, so that none
\* is ever found here.
check_for_invalidation(t, price) ==
    [t EXCEPT !.pos = [p \in PosIds |->
        IF @[p].state = "POTENTIAL_TOP" /\ @[p].confirmed # 0 /\ price > @[p].confirmed
        THEN [@[p] EXCEPT !.state = "INVALIDATED"] ELSE @[p]]]

-----------------------------------------------------------------------------
Init ==
    /\ highs = <<>>
    /\ s = [pos |-> [p \in PosIds |-> NoPosition], avail |-> InitBudget,
            locked |-> 0, tracked |-> {}, creating |-> {}]
    /\ worker = [at |-> "idle", price |-> 0, todo |-> <<>>]
    /\ queue = <<>>
    /\ delayed = <<>>
    /\ ex = {}
    /\ client \in Clients
    /\ lost = {} /\ late = {}

Idle == worker.at = "idle"
Busy(at, price, todo) == [at |-> at, price |-> price, todo |-> todo]
Done == worker' = Busy("idle", 0, <<>>)
NextOne == worker' = [worker EXCEPT !.todo = Tail(@)]
Current == Head(worker.todo)
At(at) == worker.at = at /\ worker.todo # <<>>

CancelsBuy == At("candle") /\ s.pos[Current].pending # NoOrder
CancelsSell ==
    /\ At("tick")
    /\ s.pos[Current].sell # NoOrder
    /\ Far(s, Current, worker.price)
\* Other coroutines run only while the worker awaits something.
Yielding == worker.at \in {"idle", "stopped"} \/ CancelsBuy \/ CancelsSell

Take(kind) ==
    /\ Idle /\ queue # <<>> /\ Head(queue).kind = kind
    /\ queue' = Tail(queue)

\* The interface the executor was written for is the one its client speaks.
Routed == client = "binance"

\* Neither the candles nor the reports of the Kraken broker have the form
\* _process_event looks for.
IgnoreUnrouted ==
    /\ ~ Routed
    /\ \E kind \in {"candle", "filled", "closed"} : Take(kind)
    /\ UNCHANGED <<highs, s, worker, delayed, ex, client, lost, late>>

-----------------------------------------------------------------------------
(* process_candle *)

AddHigh(high) ==
    LET all == Append(highs, high)
    IN  IF Len(all) > MinRising THEN Tail(all) ELSE all

IsRising ==
    /\ Len(highs) >= MinRising
    /\ \/ \A i \in 1 .. Len(highs) - 1 : highs[i] < highs[i + 1]
       \/ (highs[Len(highs)] - highs[1]) * 100 >= MinGain * highs[1]

\* The tops the new high invalidates, if it is above one at all.
TakeCandle ==
    /\ Routed /\ Take("candle")
    /\ LET high == Head(queue).price
           tops == PotentialTops(s)
       IN  /\ highs' = AddHigh(high)
           /\ worker' = Busy("candle", high,
                             IF \E p \in tops : high > s.pos[p].top
                             THEN InOrder({p \in tops : Significant(s, p, high)})
                             ELSE <<>>)
    /\ UNCHANGED <<s, delayed, ex, client, lost, late>>

\* A top without an order: nothing to cancel.
MoveTop ==
    /\ At("candle") /\ ~ CancelsBuy
    /\ s' = Invalidated(s, Current, worker.price)
    /\ NextOne
    /\ UNCHANGED <<highs, queue, delayed, ex, client, lost, late>>

IsOpen(id) == \E o \in ex : o.id = id
Without(id) == {o \in ex : o.id # id}

BuyCancelled ==
    /\ CancelsBuy
    /\ LET id == s.pos[Current].pending.id
       IN  /\ IsOpen(id)
           /\ ex' = Without(id)
    /\ s' = Invalidated(s, Current, worker.price)
    /\ NextOne
    /\ UNCHANGED <<highs, queue, delayed, client, lost, late>>

\* The call fails: the order has filled, is not created yet, or the exchange
\* refuses.  The exception is logged and the order forgotten all the same.
BuyCancelFails ==
    /\ CancelsBuy /\ Cardinality(lost) < MaxLost
    /\ LET id == s.pos[Current].pending.id
       IN  /\ "refuse" \in Faults \/ ~ IsOpen(id)
           /\ lost' = lost \cup {id}
    /\ s' = Invalidated(s, Current, worker.price)
    /\ NextOne
    /\ UNCHANGED <<highs, queue, delayed, ex, client, late>>

\* Positions that wait for a buy order get one after the cooldown.  Every task of
\* a candle calls the function the loop defined last: that of the last position.
ToReplace(t) ==
    {p \in PotentialTops(t) : /\ t.pos[p].pending = NoOrder
                              /\ t.pos[p].level = 0
                              /\ ~ t.pos[p].fresh /\ ~ t.pos[p].cooling}
Replacements(t) ==
    LET p == Max(ToReplace(t))
    IN  [i \in 1 .. Cardinality(ToReplace(t)) |->
            [pos |-> p, price |-> BuyPrice(t.pos[p].top, 0)]]
Settled(t) == [t EXCEPT !.pos = [p \in PosIds |-> [@[p] EXCEPT !.fresh = FALSE]]]

FinishCandle ==
    /\ worker.at = "candle" /\ worker.todo = <<>>
    /\ IF IsRising /\ RisingRaises(s)
       THEN UNCHANGED <<s, delayed>>
       ELSE LET t == IF IsRising THEN _handle_rising_pattern(s, worker.price) ELSE s
            IN  /\ delayed' = delayed \o Replacements(t)
                /\ s' = Settled(t)
    /\ Done
    /\ UNCHANGED <<highs, queue, ex, client, lost, late>>

-----------------------------------------------------------------------------
(* process_ticker, check_for_invalidation *)

TakeTicker ==
    /\ Take("tick")
    /\ worker' = Busy("tick", Head(queue).price, InOrder(InState(s, "ACTIVE")))
    /\ UNCHANGED <<highs, s, delayed, ex, client, lost, late>>

ManageSell ==
    /\ At("tick") /\ ~ CancelsSell
    /\ s' = IF s.pos[Current].sell = NoOrder /\ Near(s, Current, worker.price)
            THEN place_sell_order(s, Current) ELSE s
    /\ NextOne
    /\ UNCHANGED <<highs, queue, delayed, ex, client, lost, late>>

CancelSell ==
    /\ CancelsSell
    /\ IsOpen(SellId(Current))
    /\ ex' = Without(SellId(Current))
    /\ s' = SellCancelled(s, Current)
    /\ NextOne
    /\ UNCHANGED <<highs, queue, delayed, client, lost, late>>

\* The order is forgotten all the same.
BugCancelSellFails ==
    /\ CancelsSell
    /\ "refuse" \in Faults \/ ~ IsOpen(SellId(Current))
    /\ s' = SellCancelled(s, Current)
    /\ NextOne
    /\ UNCHANGED <<highs, queue, delayed, ex, client, lost, late>>
\* A failed cancellation keeps the order.
CancelSellFails ==
    /\ CancelsSell
    /\ "refuse" \in Faults \/ ~ IsOpen(SellId(Current))
    /\ NextOne
    /\ UNCHANGED <<highs, s, queue, delayed, ex, client, lost, late>>

\* The check is throttled to one in five seconds.
FinishTicker ==
    /\ worker.at = "tick" /\ worker.todo = <<>>
    /\ \E due \in BOOLEAN : s' = IF due THEN check_for_invalidation(s, worker.price) ELSE s
    /\ Done
    /\ UNCHANGED <<highs, queue, delayed, ex, client, lost, late>>

-----------------------------------------------------------------------------
(* handle_user_stream_update, _handle_config_update *)

TakeFill ==
    /\ Routed /\ Take("filled")
    /\ LET report == Head(queue)
           p == report.id[1]
       IN  IF report.id = SellId(p)
           THEN /\ s' = handle_sell_fill(s, p, report.price)
                /\ lost' = IF s.pos[p].pending # NoOrder /\ s' # s
                           THEN lost \cup {s.pos[p].pending.id} ELSE lost
           ELSE /\ s' = handle_order_fill(s, p, report.id, report.price)
                /\ UNCHANGED lost
    /\ UNCHANGED <<highs, worker, delayed, ex, client, late>>

\* An order the exchange closed unasked: the screen is told, nothing else.
TakeClosed ==
    /\ Routed /\ Take("closed")
    /\ UNCHANGED <<highs, s, worker, delayed, ex, client, lost, late>>

Room == Cardinality(InState(s, "NONE"))
        > Cardinality({i \in DOMAIN queue : queue[i].kind = "filled"})

\* What is locked stays locked under the new budget, if it is more than nothing.
\* (The percentage, which the message may change as well, stays OrderPct.)
Configure(budget) ==
    /\ Idle /\ (Room \/ Watching(s) # {})
    /\ s' = _create_placeholder_watching_position(
                [s EXCEPT !.avail = budget - s.locked,
                          !.locked = IF @ > 0 THEN @ ELSE 0])
    /\ UNCHANGED <<highs, worker, queue, delayed, ex, client, lost, late>>

-----------------------------------------------------------------------------
(* The tasks behind the worker *)

\* _execute_scheduled_placement; sleeps of equal length end in order.
RunDelayed ==
    /\ Yielding /\ delayed # <<>>
    /\ LET task == Head(delayed)
       IN  /\ s' = IF s.pos[task.pos].cooling THEN s
                   ELSE place_order(s, task.pos, task.price, DcaId(task.pos, 0))
           /\ late' = IF s' = s THEN late ELSE late \cup {s'.pos[task.pos].pending}
    /\ delayed' = Tail(delayed)
    /\ UNCHANGED <<highs, worker, queue, ex, client, lost>>

\* A sleep starts when its task first runs, which may be after the next candle
\* has started a cooldown: either may end before the other.
CooldownEnds(p) ==
    /\ s.pos[p].cooling
    /\ s' = [s EXCEPT !.pos[p].cooling = FALSE]
    /\ UNCHANGED <<highs, worker, queue, delayed, ex, client, lost, late>>

\* BuyDipBrokerAdapter.place_order; an open order's id is not accepted again.
CreateSucceeds(o) ==
    /\ Yielding /\ o \in s.creating
    /\ Routed /\ ~ IsOpen(o.id)
    /\ s' = [s EXCEPT !.creating = @ \ {o}]
    /\ ex' = ex \cup {o}
    /\ UNCHANGED <<highs, worker, queue, delayed, client, lost, late>>

\* The exception ends the task and nobody looks at it.  The keywords of the
\* call are not those of the Kraken client.
CreateFails(o) ==
    /\ Yielding /\ o \in s.creating
    /\ "refuse" \in Faults \/ IsOpen(o.id) \/ ~ Routed
    /\ s' = [s EXCEPT !.creating = @ \ {o}]
    /\ UNCHANGED <<highs, worker, queue, delayed, ex, client, lost, late>>

\* stop() cancels the worker where it waits; stop_event stays set, so that a
\* worker started again ends at once.  A cancellation on its way may arrive.
Stop ==
    /\ "stop" \in Faults
    /\ Yielding /\ worker.at # "stopped"
    /\ worker' = Busy("stopped", 0, <<>>)
    /\ ex' \in {ex, IF CancelsBuy THEN Without(s.pos[Current].pending.id)
                    ELSE IF CancelsSell THEN Without(SellId(Current)) ELSE ex}
    /\ UNCHANGED <<highs, s, queue, delayed, client, lost, late>>

-----------------------------------------------------------------------------
(* The market and the exchange *)

\* What comes after the worker stopped is taken by nobody and left out.
Deliver(event) ==
    /\ worker.at # "stopped" /\ Len(queue) < QueueCap
    /\ queue' = Append(queue, event)

Candle(high) ==
    /\ Len(delayed) + Cardinality({i \in DOMAIN queue : queue[i].kind = "candle"})
           < MaxDelayed
    /\ Deliver([kind |-> "candle", price |-> high])
    /\ UNCHANGED <<highs, s, worker, delayed, ex, client, lost, late>>
Ticker(price) ==
    /\ Deliver([kind |-> "tick", price |-> price])
    /\ UNCHANGED <<highs, s, worker, delayed, ex, client, lost, late>>
\* handle_user_stream_update knows no PARTIALLY_FILLED: the report of a part is
\* dropped, and an order that has traded in part is handled like an untouched one, also
\* when it is cancelled.  So orders are whole here; the report of the last part is booked
\* as the fill of the whole order.  The position created for a first fill is within the
\* bound.
Fill(o) ==
    /\ o \in ex /\ (Room \/ s.pos[o.id[1]].state # "POTENTIAL_TOP")
    /\ ex' = ex \ {o}
    /\ Deliver([kind |-> "filled", id |-> o.id, price |-> o.price])
    /\ UNCHANGED <<highs, s, worker, delayed, client, lost, late>>
Withdraw(o) ==
    /\ "withdraw" \in Faults /\ o \in ex
    /\ ex' = ex \ {o}
    /\ Deliver([kind |-> "closed", id |-> o.id])
    /\ UNCHANGED <<highs, s, worker, delayed, client, lost, late>>

process_candle ==
    TakeCandle \/ MoveTop \/ BuyCancelled \/ BuyCancelFails \/ FinishCandle
process_ticker ==
    TakeTicker \/ ManageSell \/ CancelSell \/ CancelSellFails \/ FinishTicker
Worker == IgnoreUnrouted \/ process_candle \/ process_ticker \/ TakeFill \/ TakeClosed
Create(o) == CreateSucceeds(o) \/ CreateFails(o)
Market ==
    \/ \E high \in Highs : Candle(high)
    \/ \E price \in Prices : Ticker(price)
    \/ \E o \in ex : Fill(o) \/ Withdraw(o)

Next ==
    \/ Worker
    \/ \E budget \in Budgets : Configure(budget)
    \/ RunDelayed
    \/ \E p \in PosIds : CooldownEnds(p)
    \/ \E o \in s.creating : Create(o)
    \/ Stop
    \/ Market

Spec == Init /\ [][Next]_vars

-----------------------------------------------------------------------------
(* Properties *)

OrderId == PosIds \X {"dca", "replacement", "sell"} \X Nat
PlacedOrder == [id : OrderId, price : Nat, amount : Nat]
Position ==
    [state : {"NONE", "WATCHING", "POTENTIAL_TOP", "ACTIVE", "COMPLETED"},
     top : Nat, confirmed : Nat, pending : PlacedOrder \cup {NoOrder},
     sell : PlacedOrder \cup {NoOrder}, level : Nat, qty : Nat, invested : Nat,
     spent : Nat, fresh : BOOLEAN, cooling : BOOLEAN]
Strategy ==
    [pos : [PosIds -> Position], avail : Int, locked : Int,
     tracked : SUBSET OrderId, creating : SUBSET PlacedOrder]
Event ==
    [kind : {"candle"}, price : Highs] \cup [kind : {"tick"}, price : Prices]
    \cup [kind : {"filled"}, id : OrderId, price : Nat]
    \cup [kind : {"closed"}, id : OrderId]

\* Every variable stays in its type; in particular no position is INVALIDATED.
TypeOK ==
    /\ highs \in Seq(Highs)
    /\ s \in Strategy
    /\ worker \in [at : {"idle", "candle", "tick", "stopped"}, price : Nat,
                   todo : Seq(PosIds)]
    /\ queue \in Seq(Event)
    /\ delayed \in Seq([pos : PosIds, price : Nat])
    /\ ex \subseteq PlacedOrder
    /\ client \in Clients
    /\ lost \subseteq OrderId
    /\ late \subseteq PlacedOrder

\* The map of tracked orders, by which fills find their position, holds exactly
\* the pending buys and the sells of active positions, whatever is cancelled,
\* replaced or filled while the worker waits.
TrackingAgrees ==
    s.tracked = {s.pos[p].pending.id : p \in {q \in PosIds : s.pos[q].pending # NoOrder}}
                \cup {SellId(p) : p \in {q \in InState(s, "ACTIVE") : s.pos[q].sell # NoOrder}}

\* Until a first sell fills, exactly the money of pending and filled buy orders
\* is locked.  (A sell releases what the position invested, which is not what
\* its orders were sized at; see the README.)
LockedIsCommitted ==
    InState(s, "COMPLETED") = {} =>
        s.locked = SumFunctionOnSet(
                       [p \in PosIds |-> s.pos[p].pending.amount + s.pos[p].spent], PosIds)

\* strategy.py:113 creates a placeholder only where none is: whatever creates
\* positions, a rising pattern has one to start from, never two.
OneWatching == Cardinality(Watching(s)) <= 1

\* No order works, or is about to, that the strategy does not know of, unless
\* it gave it up without the exchange's word.
KnownUnlessLost == \A o \in ex \cup s.creating : o.id \in s.tracked \cup lost

\* A position waiting for its first fill has its order priced from the current
\* top, however often candles moved it while cancellations were awaited.  Only an
\* order placed by a replacement that slept may be left behind, and then it is
\* too low: what a position bids is never above what its top allows.
FirstOrderFitsTop ==
    \A p \in PotentialTops(s) :
        LET order == s.pos[p].pending
        IN  order # NoOrder =>
                /\ order.price <= BuyPrice(s.pos[p].top, 0)
                /\ order \notin late => order.price = BuyPrice(s.pos[p].top, 0)

\* When an order has filled to the last coin, the report finds the order, unless
\* that was given up: no such buy is missing in the position's books, and no such
\* sell leaves its position open, whatever was cancelled while the report was on
\* its way.  (What an order traded in part before it was cancelled or closed is in no
\* book; orders are whole here.)
FillIsExpected ==
    \A i \in DOMAIN queue :
        queue[i].kind = "filled" => queue[i].id \in s.tracked \cup lost

\* strategy.py:721: "Cancel any remaining pending buy orders before closing
\* position".  The cancellation is of the strategy's own records only.
CompletedLeavesNoBuy ==
    \A p \in InState(s, "COMPLETED") : \A o \in ex : o.id[1] # p
=============================================================================
