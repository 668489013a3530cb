------------------------------- MODULE Portfolio -------------------------------
(***************************************************************************)
(* The books of the portfolio: the list of lots the screen works on, the   *)
(* list of the backend it is replaced by, the rows of the database, and    *)
(* the balances of the exchange they follow.                               *)
(*                                                                         *)
(* Three streams meet: the balances messages of the exchange, which go     *)
(* once to the screen's queue and twice to the backend's; what the backend *)
(* relays of them; and the events of the HP strategies, which come after   *)
(* the fills they tell of.  The two lists share their lots: a lot is one   *)
(* object, kept in p.items by its id.                                      *)
(*                                                                         *)
(* Every coin costs one unit of the quote currency.  A handler is atomic:  *)
(* what follows its awaits of the database touches other lots.             *)
(* Definitions whose name starts with Bug are deliberate mistakes.         *)
(***************************************************************************)
EXTENDS Integers, Sequences, FiniteSets, FiniteSetsExt

CONSTANTS
    Quote,      \* "USDC"
    Middle,     \* the coin two hops go through
    Coins,      \* all of them
    Holdings,   \* the inventory table at first, a sequence of [id, coin, qty]
    CheapFirst, \* the ids of all lots, in the order of their buy prices
    Positions,  \* HP ids; each trades once
    Sizes,      \* quantities traded
    Legs,       \* bound: kinds of trades, "buy", "sell", "hops"
    MaxUi,      \* bound: events waiting for the screen when the exchange acts
    MaxBack     \* bound: messages waiting for the backend when it acts

VARIABLES
    p,      \* PortfolioUI: items, inv, lots by coin, processed; rows of the table
    back,   \* PortfolioManager.inventory, as ids
    toUi,   \* PortfolioUI.ui_queue
    toBack, \* PortfolioManager.worker_queue
    wire,   \* per position: fills on their way through its strategy
    hp,     \* the positions as the exchange sees them
    ex,     \* balances at the exchange
    hist    \* history, see the properties

vars == <<p, back, toUi, toBack, wire, hp, ex, hist>>

HpLot(h) == <<"hp", h>>
Received(h) == <<"received", h>>
AllLots ==
    {Holdings[k].id : k \in DOMAIN Holdings}
    \cup {HpLot(h) : h \in Positions} \cup {Received(h) : h \in Positions}

ASSUME CoinsAssumption == {Quote, Middle} \subseteq Coins /\ Quote # Middle
\* The ids are uuids, but for those that are made from a position's.
ASSUME HoldingsAssumption ==
    /\ Holdings \in Seq(Range(Holdings)) /\ Len(Holdings) > 0
    /\ \A k \in DOMAIN Holdings :
        /\ Holdings[k].coin \in Coins /\ Holdings[k].qty \in Nat
        /\ \A h \in Positions : Holdings[k].id \notin {HpLot(h), Received(h)}
        /\ \A l \in DOMAIN Holdings : Holdings[l].id = Holdings[k].id => l = k
ASSUME CheapFirstAssumption ==
    CheapFirst \in Seq(AllLots) /\ IsInjective(CheapFirst) /\ AllLots \subseteq Range(CheapFirst)
ASSUME PositionsAssumption == IsFiniteSet(Positions)
ASSUME SizesAssumption ==
    Sizes \subseteq Nat \ {0} /\ Legs \subseteq {"buy", "sell", "hops"}

Monus(a, b) == IF a > b THEN a - b ELSE 0
Least(a, b) == IF a < b THEN a ELSE b
\* f, with a value for x.
With(f, x, y) == [z \in DOMAIN f \cup {x} |-> IF z = x THEN y ELSE f[z]]
Is(list, i) == \E k \in DOMAIN list : list[k] = i
Rank(list, i) == CHOOSE k \in DOMAIN list : list[k] = i /\ \A l \in 1 .. k - 1 : list[l] # i
\* What a list has at some of its positions, in the same order.
Kept(list, ks) ==
    [n \in 1 .. Cardinality(ks) |->
        list[CHOOSE k \in ks : Cardinality({l \in ks : l <= k}) = n]]
Without(list, i) == Kept(list, DOMAIN list \ {Rank(list, i)})

LotIs(t, i, lot) == [t EXCEPT !.items[i] = lot]
Sum(t, field, lots) == SumFunctionOnSet([i \in lots |-> t.items[i][field]], lots)
LotsOf(t, list, c) == {i \in Range(list) : t.items[i].coin = c}
\* The lots of the same coin that a list has before one of them.
Earlier(t, list, i) ==
    {j \in LotsOf(t, list, t.items[i].coin) : Rank(list, j) < Rank(list, i)}
Before(t, field, list, i) == Sum(t, field, Earlier(t, list, i))
_get_exchange_available(t, c) == Sum(t, "free", LotsOf(t, t.inv, c))
_get_exchange_locked(t, c) == Sum(t, "locked", LotsOf(t, t.inv, c))
_get_database_quantity(t, c) == Sum(t, "qty", LotsOf(t, t.inv, c))

-----------------------------------------------------------------------------
(* The database *)

fetch_all_inventory_items(t) ==
    [i \in DOMAIN t.rows |-> [coin |-> t.rows[i].coin, qty |-> t.rows[i].qty,
                              free |-> 0, locked |-> 0]]
\* A second insert of an id fails; the exception is logged.
insert_inventory_item(t, i) ==
    IF i \in DOMAIN t.rows THEN t
    ELSE [t EXCEPT !.rows = With(@, i, [coin |-> t.items[i].coin, qty |-> t.items[i].qty])]
update_inventory_item(t, i) ==
    IF i \in DOMAIN t.rows THEN [t EXCEPT !.rows[i].qty = t.items[i].qty] ELSE t
delete_inventory_items(t, gone) ==
    [t EXCEPT !.rows = [i \in DOMAIN @ \ gone |-> @[i]]]

-----------------------------------------------------------------------------
(* The handlers of the screen *)

\* The lots of every coin there is a lot of.
ByCoin(items, list) ==
    [c \in {items[list[k]].coin : k \in DOMAIN list} |->
        Kept(list, {k \in DOMAIN list : items[list[k]].coin = c})]
set_inventory(t, list) == [t EXCEPT !.inv = list, !.lots = ByCoin(t.items, list)]

\* The shares are rounded so that they sum up to the balance.
Share(balance, before, own, total) ==
    (balance * (before + own)) \div total - (balance * before) \div total
Synced(t, list, i, balance) ==
    LET Part(amount) == Share(amount, Before(t, "qty", list, i), t.items[i].qty,
                              Sum(t, "qty", LotsOf(t, list, t.items[i].coin)))
    IN  [t.items[i] EXCEPT !.free = Part(balance.free), !.locked = Part(balance.locked)]
\* handle_account_position, of the screen on its list and of the backend on its.
handle_account_position(t, list, balances) ==
    [t EXCEPT !.items = [i \in DOMAIN @ |->
        IF /\ Is(list, i) /\ @[i].coin \in DOMAIN balances
           /\ Sum(t, "qty", LotsOf(t, list, @[i].coin)) > 0
        THEN Synced(t, list, i, balances[@[i].coin]) ELSE @[i]]]

\* From the first lots on, as much as each has.
Shift(t, c, amount, from, to) ==
    LET Part(i) == Least(Monus(amount, Before(t, from, t.inv, i)), t.items[i][from])
        Moved(i) == [t.items[i] EXCEPT ![from] = @ - Part(i), ![to] = @ + Part(i)]
    IN  [t EXCEPT !.items = [i \in DOMAIN @ |->
            IF i \in LotsOf(t, t.inv, c) THEN Moved(i) ELSE @[i]]]
\* All or nothing: HP_SELL_POSITION_CREATED and HP_BUY_ORDERS_PLACED.
Lock(t, c, amount) ==
    IF _get_exchange_available(t, c) < amount THEN t
    ELSE Shift(t, c, amount, "free", "locked")
\* HP_POSITION_CANCELLED: what is locked at most, whoever locked it.
handle_hp_position_cancelled(t, c, amount) == Shift(t, c, amount, "locked", "free")

\* Lots are sold from the cheapest on; a lot may be listed more than once.
Cheaper(list, k) ==
    {l \in DOMAIN list : \/ Rank(CheapFirst, list[l]) < Rank(CheapFirst, list[k])
                         \/ list[l] = list[k] /\ l < k}
Size(t, list, k) == t.items[list[k]].qty
Rest(t, list, amount, k) ==
    Monus(amount, SumFunctionOnSet([l \in Cheaper(list, k) |-> Size(t, list, l)],
                                   Cheaper(list, k)))
SoldWholly(t, list, amount) ==
    {k \in DOMAIN list : Rest(t, list, amount, k) > 0
                         /\ Size(t, list, k) <= Rest(t, list, amount, k)}
SoldPartly(t, list, amount) ==
    {k \in DOMAIN list : Rest(t, list, amount, k) > 0
                         /\ Size(t, list, k) > Rest(t, list, amount, k)}
\* More may be sold of a lot than is locked of it.
BugReduced(item, amount) ==
    [item EXCEPT !.qty = @ - amount, !.free = item.qty - amount, !.locked = @ - amount]
Reduced(item, amount) ==
    [item EXCEPT !.qty = @ - amount, !.free = item.qty - amount,
                 !.locked = Monus(@, amount)]
\* The lots sold wholly go; one at most is sold partly.  (The coin's list is left
\* sorted by price, which nothing sees.)
_update_lots_after_sell(t, c, amount) ==
    IF c \notin DOMAIN t.lots THEN t
    ELSE LET list == t.lots[c]
             whole == SoldWholly(t, list, amount)
             gone == {list[k] : k \in whole}
             left == delete_inventory_items(
                 [t EXCEPT !.inv = Kept(@, {k \in DOMAIN @ : @[k] \notin gone}),
                           !.lots[c] = Kept(@, DOMAIN @ \ whole)], gone)
         IN  IF SoldPartly(t, list, amount) = {} THEN left
             ELSE LET k == CHOOSE l \in SoldPartly(t, list, amount) : TRUE
                  IN  update_inventory_item(
                          LotIs(left, list[k],
                                Reduced(t.items[list[k]], Rest(t, list, amount, k))), list[k])

\* The coin goes with its last lot.
WithoutEmpty(t, c) ==
    IF \E k \in DOMAIN t.lots[c] : Size(t, t.lots[c], k) > 0 THEN t
    ELSE [t EXCEPT !.lots = [d \in DOMAIN @ \ {c} |-> @[d]]]
SoldWhole(t, c, i) ==
    delete_inventory_items([t EXCEPT !.lots[c] = Without(@, i),
                                     !.inv = Without(@, i)], {i})
\* The reduced lot is not written to the table.
BugSoldPart(t, i, amount) ==
    LET left == t.items[i].qty - amount
    IN  LotIs(t, i, [t.items[i] EXCEPT !.qty = left, !.free = left])
SoldPart(t, i, amount) ==
    LET left == t.items[i].qty - amount
    IN  update_inventory_item(
            LotIs(t, i, [t.items[i] EXCEPT !.qty = left, !.free = left]), i)
\* A leg of a two-hop sell looks for the lot of its parent; when the coin has no
\* such lot, other lots are sold.
_update_lots_after_hp_sell(t, h, c, amount) ==
    LET i == HpLot(h)
    IN  IF c \notin DOMAIN t.lots THEN t
        ELSE IF t.lots[c] = <<>> THEN t
        ELSE IF ~ Is(t.lots[c], i) THEN _update_lots_after_sell(t, c, amount)
        ELSE IF ~ Is(t.inv, i) THEN t
        ELSE WithoutEmpty(IF t.items[i].qty <= amount THEN SoldWhole(t, c, i)
                          ELSE SoldPart(t, i, amount), c)

Grown(t, i, amount) ==
    update_inventory_item(
        LotIs(t, i, [t.items[i] EXCEPT !.qty = @ + amount, !.free = @ + amount]), i)
Opened(t, i, c, amount) ==
    insert_inventory_item(
        [t EXCEPT !.items = With(@, i, [coin |-> c, qty |-> amount, free |-> amount,
                                        locked |-> 0]),
                  !.inv = Append(@, i)], i)
Booked(t, i, c, amount) ==
    IF Is(t.inv, i) THEN Grown(t, i, amount) ELSE Opened(t, i, c, amount)
ListedUnder(t, c, i) ==
    [t EXCEPT !.lots = With(@, c, Append(IF c \in DOMAIN @ THEN @[c] ELSE <<>>, i))]
_add_inventory_after_hp_buy_fill(t, h, c, amount) ==
    LET booked == Booked(t, HpLot(h), c, amount)
    IN  IF c \in DOMAIN t.lots /\ Is(t.lots[c], HpLot(h)) THEN booked
        ELSE ListedUnder(booked, c, HpLot(h))
\* The first lot of the currency there is.
FirstLot(t) ==
    CHOOSE i \in LotsOf(t, t.inv, Quote) :
        \A j \in LotsOf(t, t.inv, Quote) : Rank(t.inv, i) <= Rank(t.inv, j)
\* It pays.  What was locked for the position is never recorded, so that what it
\* spent is unlocked.
_reduce_spent_currency_and_unlock_remaining(t, amount) ==
    IF Quote \notin DOMAIN t.lots \/ LotsOf(t, t.inv, Quote) = {} THEN t
    ELSE LET i == FirstLot(t)
         IN  update_inventory_item(
                 LotIs(t, i, [t.items[i] EXCEPT !.qty = Monus(@, amount),
                                                !.locked = Monus(@, amount)]), i)
\* The lot is listed once more, and all that was bought is added to what the
\* partial fills added.
handle_hp_buy_filled(t, h, c, amount) ==
    _reduce_spent_currency_and_unlock_remaining(
        ListedUnder(Booked(t, HpLot(h), c, amount), c, HpLot(h)), amount)

\* An existing lot is not written to the table.
_add_received_currency(t, h, amount) ==
    IF Quote \notin DOMAIN t.lots
    THEN [Opened(t, Received(h), Quote, amount) EXCEPT !.lots = With(@, Quote, <<>>)]
    ELSE IF LotsOf(t, t.inv, Quote) = {} THEN t
    ELSE LET i == FirstLot(t)
         IN  LotIs(t, i, [t.items[i] EXCEPT !.free = @ + amount,
                                            !.qty = t.items[i].free + amount + t.items[i].locked])
\* Nothing remembers which position's currency was added.
BugCompleted(t, h, leg, amount) ==
    IF leg = "a" THEN t ELSE _add_received_currency(t, h, amount)
handle_hp_sell_completed(t, h, leg, amount) ==
    IF leg = "a" \/ h \in t.processed THEN t
    ELSE [_add_received_currency(t, h, amount) EXCEPT !.processed = @ \cup {h}]

-----------------------------------------------------------------------------
Balance == [free : Nat, locked : Nat]
\* "ready": a sell is set up and not sent; "routed": so is one in two hops.
\* again: a sale of which a restart tells again; closed: an order of the position
\* is saved as cancelled, or as open after a restart.
Idle == [phase |-> "idle", coin |-> Quote, left |-> 0, total |-> 0,
         again |-> FALSE, closed |-> FALSE]

\* init_portfolio_source and the first PORTFOLIO_INVENTORY.  The balances are
\* not known: the client has no get_account, and the failure is logged.
Loaded(t) ==
    LET items == fetch_all_inventory_items(t)
        list == Kept(CheapFirst, {k \in DOMAIN CheapFirst : CheapFirst[k] \in DOMAIN t.rows})
    IN  [items |-> items, inv |-> list, lots |-> ByCoin(items, list),
         rows |-> t.rows, processed |-> {}]

FirstRows ==
    [i \in {Holdings[k].id : k \in DOMAIN Holdings} |->
        LET k == CHOOSE l \in DOMAIN Holdings : Holdings[l].id = i
        IN  [coin |-> Holdings[k].coin, qty |-> Holdings[k].qty]]
HeldOf(c) ==
    SumFunctionOnSet([k \in DOMAIN Holdings |-> Holdings[k].qty],
                     {k \in DOMAIN Holdings : Holdings[k].coin = c})

Init ==
    /\ p = Loaded([rows |-> FirstRows])
    /\ back = p.inv
    /\ toUi = <<>> /\ toBack = <<>>
    /\ wire = [h \in Positions |-> <<>>]
    /\ hp = [h \in Positions |-> Idle]
    /\ ex = [c \in Coins |-> [free |-> HeldOf(c), locked |-> 0]]
    /\ hist = [bought |-> [h \in Positions |-> 0], credited |-> [h \in Positions |-> 0],
               before |-> {}, fresh |-> {}, replaced |-> FALSE]

-----------------------------------------------------------------------------
(* The exchange: every step changes balances, reports to a strategy, and is   *)
(* followed by a balances message with the coins that changed.                *)

Room == Len(toUi) <= MaxUi /\ Len(toBack) <= MaxBack
\* handle_user_message: the subscriptions with target PORTFOLIO are the queue of
\* the screen and, twice, the queue of the backend.
Publish(balances, coins) ==
    LET message == [c \in coins |-> balances[c]]
    IN  /\ toUi' = Append(toUi, [kind |-> "balances", of |-> message])
        /\ toBack' = toBack \o <<message, message>>

\* Bound: a position's reports are told before its next one.
Trades(h, phase) == Room /\ hp[h].phase = phase /\ wire[h] = <<>>
Report(h, events) == wire' = [wire EXCEPT ![h] = @ \o events]
HpEvent(kind, h, leg, c, amount) ==
    [kind |-> kind, hp |-> h, leg |-> leg, coin |-> c, amount |-> amount]
Holds(balances, c, amount) ==
    [balances EXCEPT ![c].free = @ - amount, ![c].locked = @ + amount]
Frees(balances, c, amount) ==
    [balances EXCEPT ![c].free = @ + amount, ![c].locked = @ - amount]
Swaps(balances, from, to, amount) ==
    [balances EXCEPT ![from].locked = @ - amount, ![to].free = @ + amount]
Keeping == UNCHANGED <<p, back>>

Subscribed ==
    /\ toUi = <<>> /\ toBack = <<>>
    /\ Publish(ex, Coins)
    /\ Keeping /\ UNCHANGED <<wire, hp, ex, hist>>

\* A cancelled order is sent again as it was.
PlaceBuy(h, c, amount) ==
    /\ Trades(h, "idle") /\ c # Quote /\ ex[Quote].free >= amount
    /\ hp[h].closed => c = hp[h].coin /\ amount = hp[h].total
    /\ ex' = Holds(ex, Quote, amount)
    /\ hp' = [hp EXCEPT ![h].phase = "buying", ![h].coin = c, ![h].left = amount,
                        ![h].total = amount]
    /\ Report(h, <<HpEvent("placed", h, "", Quote, amount)>>)
    /\ Publish(ex', {Quote})
    /\ Keeping /\ UNCHANGED hist

\* A report that completes the order is told as "filled", with all that was
\* bought; another as "bought", with what it brought.
BuyFills(h, amount) ==
    /\ Trades(h, "buying") /\ amount <= hp[h].left
    /\ ex' = Swaps(ex, Quote, hp[h].coin, amount)
    /\ IF amount = hp[h].left
       THEN /\ hp' = [hp EXCEPT ![h].phase = "holding", ![h].left = 0]
            /\ Report(h, <<HpEvent("filled", h, "", hp[h].coin, hp[h].total)>>)
       ELSE /\ hp' = [hp EXCEPT ![h].left = @ - amount]
            /\ Report(h, <<HpEvent("bought", h, "", hp[h].coin, amount)>>)
    /\ hist' = [hist EXCEPT !.bought[h] = @ + amount]
    /\ Publish(ex', {Quote, hp[h].coin})
    /\ Keeping

\* cancel_unfilled_buy_orders.  (Orders that are partly filled are cancelled and sent
\* again too; that is left out here.)
CancelBuy(h) ==
    /\ Trades(h, "buying") /\ hp[h].left = hp[h].total
    /\ ex' = Frees(ex, Quote, hp[h].total)
    /\ hp' = [hp EXCEPT ![h].phase = "idle", ![h].closed = TRUE]
    /\ Report(h, <<HpEvent("cancelled", h, "", Quote, hp[h].total)>>)
    /\ Publish(ex', {Quote})
    /\ Keeping /\ UNCHANGED hist

\* setup_sell_position, setup_sell_position_with_new_hp: the sell of what a position
\* bought, or of inventory; in two hops or one.  Nothing is sent yet.  Bound: the
\* coins are there.
SetUpSell(h, c, amount, hops) ==
    /\ \/ Trades(h, "idle") /\ ~ hp[h].closed /\ "sell" \in Legs
       \/ Trades(h, "holding") /\ c = hp[h].coin /\ amount = hp[h].total
    /\ c # Quote /\ (hops => c # Middle /\ "hops" \in Legs) /\ ex[c].free >= amount
    /\ hp' = [hp EXCEPT ![h].phase = IF hops THEN "routed" ELSE "ready",
                        ![h].coin = c, ![h].left = amount, ![h].total = amount,
                        ![h].again = hops \/ hp[h].phase = "idle"]
    /\ toUi' = Append(toUi, HpEvent("created", h, "", c, amount))
    /\ Keeping /\ UNCHANGED <<toBack, wire, ex, hist>>

\* send_sell_order: nothing is told.
PlaceSell(h) ==
    /\ Trades(h, "ready") \/ Trades(h, "routed")
    /\ ex[hp[h].coin].free >= hp[h].total
    /\ ex' = Holds(ex, hp[h].coin, hp[h].total)
    /\ hp' = [hp EXCEPT ![h].phase = IF @ = "routed" THEN "hopping" ELSE "selling"]
    /\ Publish(ex', {hp[h].coin})
    /\ Keeping /\ UNCHANGED <<wire, hist>>

Completed(h, leg) == HpEvent("completed", h, leg, hp[h].coin, hp[h].total)
\* A direct sell is completed twice, by the strategy and by the executor's
\* close_position; a two-hop sell by its second leg and by its parent.
SellFills(h, amount) ==
    /\ Trades(h, "selling") \/ Trades(h, "second")
    /\ amount <= hp[h].left
    /\ LET second == hp[h].phase = "second"
           leg == IF second THEN "b" ELSE ""
           sold == <<HpEvent("sold", h, leg, hp[h].coin, amount)>>
       IN  IF amount = hp[h].left
           THEN /\ hp' = [hp EXCEPT ![h].phase = "over", ![h].left = 0]
                /\ Report(h, sold \o <<Completed(h, leg), Completed(h, "")>>)
           ELSE /\ hp' = [hp EXCEPT ![h].left = @ - amount]
                /\ Report(h, sold)
    /\ ex' = Swaps(ex, hp[h].coin, Quote, amount)
    /\ Publish(ex', {Quote, hp[h].coin})
    /\ Keeping /\ UNCHANGED hist

\* The first leg fills, and close_filled_position_sell sends the second at once.
FirstLegFills(h) ==
    /\ Trades(h, "hopping")
    /\ hp' = [hp EXCEPT ![h].phase = "second", ![h].coin = Middle]
    /\ Report(h, <<HpEvent("sold", h, "a", hp[h].coin, hp[h].total)>>)
    /\ ex' = Holds(Swaps(ex, hp[h].coin, Middle, hp[h].total), Middle, hp[h].total)
    /\ Publish(ex', {hp[h].coin, Middle})
    /\ Keeping /\ UNCHANGED hist

\* cancel_unfilled_sell_orders; as for buys, orders that are partly filled are left out.
CancelSell(h) ==
    /\ Trades(h, "selling") /\ hp[h].left = hp[h].total
    /\ ex' = Frees(ex, hp[h].coin, hp[h].total)
    /\ hp' = [hp EXCEPT ![h].phase = "ready", ![h].closed = TRUE]
    /\ Report(h, <<HpEvent("cancelled", h, "", hp[h].coin, hp[h].total)>>)
    /\ Publish(ex', {hp[h].coin})
    /\ Keeping /\ UNCHANGED hist

-----------------------------------------------------------------------------
(* The strategies, the backend, the screen *)

\* send_hp_event_to_portfolio
Emit(h) ==
    /\ wire[h] # <<>> /\ Len(toUi) <= MaxUi
    /\ toUi' = Append(toUi, Head(wire[h]))
    /\ wire' = [wire EXCEPT ![h] = Tail(@)]
    /\ UNCHANGED <<p, back, toBack, hp, ex, hist>>

\* The list comes after the balances it goes with.
BugRelay ==
    /\ toBack # <<>>
    /\ p' = handle_account_position(p, back, Head(toBack))
    /\ toUi' = toUi \o <<[kind |-> "balances", of |-> Head(toBack)], [kind |-> "inventory"]>>
    /\ toBack' = Tail(toBack)
    /\ UNCHANGED <<back, wire, hp, ex, hist>>
\* PortfolioManager.handle_account_position: what is sent is the list itself.
Relay ==
    /\ toBack # <<>>
    /\ p' = handle_account_position(p, back, Head(toBack))
    /\ toUi' = toUi \o <<[kind |-> "inventory"], [kind |-> "balances", of |-> Head(toBack)]>>
    /\ toBack' = Tail(toBack)
    /\ UNCHANGED <<back, wire, hp, ex, hist>>

Takes(kind) == toUi # <<>> /\ Head(toUi).kind = kind /\ toUi' = Tail(toUi)
Others == UNCHANGED <<back, toBack, wire, hp, ex>>

TakeInventory ==
    /\ Takes("inventory")
    /\ p' = set_inventory(p, back)
    /\ hist' = [hist EXCEPT !.replaced = @ \/ p.inv # back]
    /\ Others

TakeBalances ==
    /\ Takes("balances")
    /\ p' = handle_account_position(p, p.inv, Head(toUi).of)
    /\ hist' = [hist EXCEPT !.fresh =
           (@ \ DOMAIN Head(toUi).of)
           \cup {c \in DOMAIN Head(toUi).of : _get_database_quantity(p, c) > 0}]
    /\ Others

\* A handler and the coins whose lots it touches.
TakeHp(kind, coins, result) ==
    /\ Takes(kind)
    /\ p' = result
    /\ hist' = [hist EXCEPT !.fresh = @ \ coins]
    /\ Others
TakeLocking ==
    \E kind \in {"created", "placed"} :
        TakeHp(kind, {Head(toUi).coin}, Lock(p, Head(toUi).coin, Head(toUi).amount))
TakeCancelled ==
    TakeHp("cancelled", {Head(toUi).coin},
           handle_hp_position_cancelled(p, Head(toUi).coin, Head(toUi).amount))
TakeBought ==
    TakeHp("bought", {Head(toUi).coin},
           _add_inventory_after_hp_buy_fill(p, Head(toUi).hp, Head(toUi).coin, Head(toUi).amount))
TakeFilled ==
    TakeHp("filled", {Quote, Head(toUi).coin},
           handle_hp_buy_filled(p, Head(toUi).hp, Head(toUi).coin, Head(toUi).amount))
TakeSold ==
    TakeHp("sold", {Head(toUi).coin},
           _update_lots_after_hp_sell(p, Head(toUi).hp, Head(toUi).coin, Head(toUi).amount))
TakeCompleted ==
    /\ Takes("completed")
    /\ LET e == Head(toUi)
       IN  /\ p' = handle_hp_sell_completed(p, e.hp, e.leg, e.amount)
           /\ hist' = [hist EXCEPT !.fresh = @ \ {Quote},
                                   !.credited[e.hp] = IF p'.items # p.items THEN @ + 1 ELSE @]
    /\ Others

\* Everything in memory is gone: the queues, the balances, and what was processed.
Forgets ==
    /\ p' = Loaded(p)
    /\ back' = p'.inv
    /\ toUi' = <<>> /\ toBack' = <<>>
    /\ hist' = [hist EXCEPT !.credited = [h \in Positions |-> 0],
                            !.before = @ \cup {h \in Positions : hist.credited[h] > 0},
                            !.fresh = {}, !.replaced = FALSE]
    /\ UNCHANGED ex

\* verify_positions_with_exchange raises for an order of a position that is not saved
\* as filled; the orders of the legs of a two-hop sell are no position's.
FillUntold(e) == e.kind \in {"bought", "filled", "sold"} /\ e.leg = ""
Unverified(h) ==
    \/ hp[h].closed \/ hp[h].phase \in {"buying", "selling"}
    \/ \E k \in DOMAIN wire[h] : FillUntold(wire[h][k])
Ended(trade) == [trade EXCEPT !.phase = "over", !.left = 0]

\* No position is restored, now or later: nothing removes the rows.
RecoveryFails ==
    /\ \E h \in Positions : Unverified(h)
    /\ Forgets
    /\ hp' = [h \in Positions |-> IF hp[h] = Idle THEN Idle
                                  ELSE [Ended(hp[h]) EXCEPT !.closed = TRUE]]
    /\ wire' = [h \in Positions |-> <<>>]

\* Restored as BOUGHT although it has begun to tell.
BugTellsAgain(h) == hp[h].phase = "over" /\ (hp[h].again \/ Len(wire[h]) > 0)
\* A sale that is over is told again when its position is restored as BOUGHT with a
\* filled order, at the next price that makes it sell; so is one that was not told yet.
TellsAgain(h) == hp[h].phase = "over" /\ (hp[h].again \/ Len(wire[h]) = 2)
\* (A two-hop sell whose legs are open ends here.)
RecoverySucceeds ==
    /\ \A h \in Positions : ~ Unverified(h)
    /\ Forgets
    /\ hp' = [h \in Positions |-> IF hp[h].phase \in {"hopping", "second"}
                                  THEN Ended(hp[h]) ELSE hp[h]]
    /\ \E told \in SUBSET {h \in Positions : TellsAgain(h)} :
        wire' = [h \in Positions |-> IF h \in told THEN <<Completed(h, ""), Completed(h, "")>>
                                    ELSE <<>>]

Restart == RecoveryFails \/ RecoverySucceeds

Exchange ==
    \/ Subscribed
    \/ \E h \in Positions :
        \/ "buy" \in Legs /\ \E c \in Coins, amount \in Sizes : PlaceBuy(h, c, amount)
        \/ \E amount \in 1 .. hp[h].left : BuyFills(h, amount) \/ SellFills(h, amount)
        \/ PlaceSell(h) \/ CancelBuy(h) \/ FirstLegFills(h) \/ CancelSell(h)
Screen ==
    \/ TakeInventory \/ TakeBalances \/ TakeLocking \/ TakeCancelled
    \/ TakeBought \/ TakeFilled \/ TakeSold \/ TakeCompleted

User ==
    \E h \in Positions, c \in Coins, amount \in Sizes, hops \in BOOLEAN :
        SetUpSell(h, c, amount, hops)

Next ==
    \/ Exchange \/ User \/ (\E h \in Positions : Emit(h)) \/ Relay \/ Screen
    \/ Restart

Spec == Init /\ [][Next]_vars

-----------------------------------------------------------------------------
(* Properties.  hist.bought is what the exchange filled, hist.credited how     *)
(* often proceeds were added since the last start, hist.before whose proceeds  *)
(* were added before it, hist.fresh the coins whose lots were last touched by  *)
(* a balances message, hist.replaced whether the backend's list has replaced   *)
(* another one since the last start.                                           *)

Item == [coin : Coins, qty : Nat, free : Nat, locked : Nat]
HpEventOf == [kind : {"created", "placed", "cancelled", "bought", "filled", "sold", "completed"},
              hp : Positions, leg : {"", "a", "b"}, coin : Coins, amount : Nat]
IsMessage(m) == DOMAIN m \subseteq Coins /\ m \in [DOMAIN m -> Balance]
IsUiEvent(e) ==
    \/ e = [kind |-> "inventory"]
    \/ e \in HpEventOf
    \/ e = [kind |-> "balances", of |-> e.of] /\ IsMessage(e.of)
Phase == {"idle", "buying", "holding", "ready", "routed", "selling", "hopping", "second", "over"}
Trade == [phase : Phase, coin : Coins, left : Nat, total : Nat,
          again : BOOLEAN, closed : BOOLEAN]

\* Every variable stays in its type: no quantity, no balance of a lot and no
\* row becomes negative, every listed lot is an object, and neither the screen nor
\* the backend lists a lot twice.
TypeOK ==
    /\ \A i \in DOMAIN p.items : i \in AllLots /\ p.items[i] \in Item
    /\ p.inv \in Seq(DOMAIN p.items) /\ back \in Seq(DOMAIN p.items)
    /\ \A c \in DOMAIN p.lots : p.lots[c] \in Seq(DOMAIN p.items)
    /\ IsInjective(p.inv) /\ IsInjective(back)
    /\ \A i \in DOMAIN p.rows : i \in AllLots /\ p.rows[i] \in [coin : Coins, qty : Nat]
    /\ p.processed \subseteq Positions
    /\ \A k \in DOMAIN toUi : IsUiEvent(toUi[k])
    /\ \A k \in DOMAIN toBack : IsMessage(toBack[k])
    /\ wire \in [Positions -> Seq(HpEventOf)] /\ hp \in [Positions -> Trade]
    /\ ex \in [Coins -> Balance]

\* Between two starts of the program the proceeds of a sell are added once at most,
\* although a direct sell is completed by its strategy and by the executor, a
\* two-hop sell by its second leg and its parent, and what is restored after a
\* start is completed all over again.
ProceedsCreditedOnce == \A h \in Positions : hist.credited[h] <= 1

\* The proceeds of coins a position bought and sold directly are added once ever,
\* wherever the program starts between its two completions and their handling,
\* although portfolio_gui.py:66 remembers what was added in memory only.  (A sell from
\* the inventory, or in two hops, is completed and added again after every start.)
SoldCoinsCreditedOnce == \A h \in hist.before : hist.credited[h] > 0 => hp[h].again

\* Until the backend's list replaces the screen's, a restart would find every
\* lot of a coin with its quantity, and no lot that was sold: fills of several
\* positions, partial and full, and sells that fall back on other lots reach the
\* table.  (Proceeds added to an existing lot of the currency do not.)
RowsFollowLots ==
    ~ hist.replaced =>
        /\ \A k \in DOMAIN p.inv :
            p.items[p.inv[k]].coin # Quote =>
                /\ p.inv[k] \in DOMAIN p.rows
                /\ p.rows[p.inv[k]].qty = p.items[p.inv[k]].qty
        /\ \A i \in DOMAIN p.rows : Is(p.inv, i)

\* When everything sent has been handled, the lots of a coin that were last
\* touched by a balances message add up to the balance the exchange has now,
\* although every message is relayed twice behind later ones and each relay
\* replaces the list.
BalancesStand ==
    toUi = <<>> /\ toBack = <<>> =>
        \A c \in hist.fresh :
            /\ _get_exchange_available(p, c) = ex[c].free
            /\ _get_exchange_locked(p, c) = ex[c].locked

\* hp_manager.py:1533: "Only send PARTIALLY_FILLED if order is not fully filled
\* (to avoid duplicate with FILLED event)": a lot never holds more than its
\* position bought.
BoughtOnce ==
    \A h \in Positions : Is(p.inv, HpLot(h)) => p.items[HpLot(h)].qty <= hist.bought[h]
=============================================================================
