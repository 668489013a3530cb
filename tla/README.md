# A formal model of Cryptocopter

TLA+ specifications of the trading bot in `src/`, the TLC runs that check them on
small instances, and theorems the TLA+ proof system checks for every instance.
Paths below are those of the repository's Python package, `src/src/...`, without
the prefix.

## 1. The system

One asyncio event loop runs everything; components talk through queues, shared
objects and tasks. Every `await` lets every other component run.

| Component | State | Operations | Talks to |
|---|---|---|---|
| **HpStrategy**, one Hold & Profit position (`strategies/hp_manager/hp_manager.py`) | the machine's `state`, the buy and the sell side's own states, `balance`, `worker_queue` | `process_ticker`, `process_order`, `process_signal`, each with conditions and callbacks; `worker()` | its two sides, the database, the executor (`HPClose`), the screen |
| **HPPositionBuy / HPPositionSell** (`position_buy.py`, `position_sell.py`) | the current order: id, status, quantity, realized quantity | open with retries, cancel, (partial) fill | the exchange client, the database |
| **Sell strategies** (`sell_strategies/`) | the legs of a sell | build, recalculate prices, handle completion | HPPositionSell |
| **StrategyExecutor** (`strategy_executor.py`) | the strategies by id, `config_queue` | set up a buy, a sell, close, remove, recover | everything |
| **BrokerSpot** (`broker/spot.py`, `broker/message_handlers.py`) | who subscribed to what, with which queue | subscribe, unsubscribe, run, stop; message to event | WebSocketManager, all worker queues |
| **WebSocketManager** (`websocket/manager.py`) | two sockets, a reference count per stream, a token | connect, replay, adjust, dispatch, refresh | Kraken, BrokerSpot |
| **KrakenClient**, **Symbol** (`common/`) | none | create and cancel orders; rounding, minimum notional | Kraken |
| **Database** (`database/`) | rows of positions, orders, inventory | upserts, queries, status conversions | SQLite |
| **RecoveryService** (`recovery/`) | none of its own | read rows, verify orders at the exchange, rebuild strategies | Database, executor |
| **Buy Dip** (`strategies/buy_dip/`) | candles, detector, positions with their levels, budget | detect a rise and its top, place levels, invalidate, replace after a cooldown, sell | its executor and broker adapter, the exchange client |
| **Portfolio** (`portfolio/`) | two lists of lots, of the screen and of the backend; balances per lot; inventory rows | spread balances over lots, book what positions trade | all HP strategies, the database |
| **GUI** (`gui/`, `portfolio/portfolio_gui.py`) | widgets | send configurations and removals | `config_queue` |

What makes it hard:

* **Concurrency.** A callback of the state machine suspends while the exchange
  answers; fills, tickers and the user's requests go on meanwhile. Some callbacks
  run after the state has changed and some before, and events queue up behind them.
* **Failure.** Every call may raise or be refused. Creating an order is retried ten
  times, although an attempt whose answer was lost may have succeeded. An exception
  in a callback or a condition ends `worker()` for good.
* **Ordering.** The transition to BOUGHT takes two events, the report of the fill and
  a signal the worker sends to itself; tickers get between them.
* **Delivery.** Reports are lost while the private socket is down; the snapshot that
  follows repeats open orders as NEW.
* **Restart.** What is in the database is all a restart knows. A crash may fall between
  the call of the exchange and the row that tells of it, and between two saves.
* **Tasks nobody awaits.** Buy Dip creates its orders, and sleeps before it replaces
  them, in tasks that read the strategy later and whose failure nobody sees.
* **Two lists for one thing.** Backend and screen keep lists over the same lots; a list
  is sent from one to the other and replaces what was done in between.

What must hold: a position never has two working orders; books, balance and orders
agree; nothing is bought beyond the budget or sold beyond the holding; filled orders
close their side; what is stored allows a restart, and a restart sends and reports
nothing twice; a fill finds the order it belongs to; money that is locked is committed
to an order; what was sold is added to the books once; every stream somebody wants is on
the wire. The hazards behind these, with their lines, are listed in `PROJECT.json`.

## 2. Modules

| Module | What it is |
|---|---|
| `HpManager` | one position: state machine, worker, both orders, the exchange they live on, the rows they write |
| `HpProperties` | what the position promises, as properties of `HpManager` |
| `MCHpManager` | the module TLC runs |
| `OrderDesk` | what the rest of the program may rely on of a position's trading; `HpManager` implements it |
| `HpManagerProofs` | its types; one working order at most, and none forgotten; it implements `OrderDesk` |
| `HpBooksProofs` | what is booked agrees with what traded, with the states and with the saved rows |
| `HpMoneyProofs` | what is bought, sold and spent stays within budget, holding and balance |
| `SumProofs` | what the library's sum over a finite set computes |
| `HpRecovery`, `MCHpRecovery` | `HpManager` and its properties, with crashes, the verification of saved orders and the rebuilt strategy |
| `HpRecoveryProofs` | through crashes and restarts: its types, one working order, nothing unknown when restored, a sale reported once, plan and holding |
| `BuyDip`, `MCBuyDip` | the Buy Dip strategy for one symbol, with the tasks, the adapter and the exchange around it |
| `BuyDipProofs` | its types and all its safety invariants |
| `Portfolio`, `MCPortfolio` | the books of screen and backend, fed by the exchange's balances and the positions' events |
| `PortfolioProofs` | its types and its safety invariants: proceeds added once, rows that follow the lots, balances that stand |
| `Subscriptions` | subscription table, reference counts, public socket, replay |
| `MCSubscriptions` | its instance for TLC |
| `SubscriptionsProofs` | its types; counted streams are served; every subscription is counted |

### HpManager

`state`, `buy`, `sell`, `bo`, `so` and `balance` are the strategy's attributes, `queue`
is `worker_queue`, `db` the position's rows, `ex` the orders at the exchange. `pc` is
what the worker does: `"idle"` between events, the name of the callback that waits for
the exchange, or `"dead"` once an exception has left `worker()`. `seen`, `lostAck`
and `gaps` are histories the properties and the bounds need.

An event is taken in one action: a condition and the part of the callback before its
call of the exchange (`SendBuy`, `CancelPartlyBought`, `ResendSell`, ...). The
answer and the rest of the callback, its saves included, are a second action
(`BuyCreated`, `BuyCancelled`, `SellCreated`, ...), or its failure (`CancelFails`,
`CreateBuyFails`, which kill the worker), or a lost answer (`LoseBuyAck`). Callbacks
that call no exchange are one action. The `Can...` guards are the condition methods,
numbered like the comments of `_get_transitions`; where two transitions leave one
state for the same trigger, the later one carries the negation of the earlier.

The environment: `Ticker`; `Fill` (any number of coins of any open order);
`Withdraw` (an order closed unasked); `Snapshot`; `ConfigureSell` (the user's sell);
`ClosePosition` (the executor's answer to `HPClose`). A position starts as a buy
(`InitBuy`) or as a sell of coins already held (`InitInventorySell`).

What is abstracted, and why nothing checked depends on it:

* Prices are four thresholds and the ticker values around them. Orders fill at their
  limit price, so that the thresholds, which the code recomputes from the price of the
  last trade, stay where they are.
* One coin costs one unit; money is kept in 1/`Quantity` so that the rest of a buy
  order (`quantity_stable` times the open fraction) is an integer.
* The database saves of a callback happen with the answer of the exchange: they await
  SQLite, but nothing else writes the position's attributes or rows meanwhile, except
  the executor operations listed as open below. `save_position` replaces the one row of
  an `hp_id`, so `db` has one `strategy_state` for both sides. An order without an
  id is stored under the empty id; that row is left out.
* A cancellation the strategy asked for succeeds once; the report that follows it
  changes a status that is CANCELED already, as the report of a NEW order changes
  one that is NEW. Both are left out of the plain runs and covered by `Withdraw` and
  `Snapshot` in the run with faults.
* Events for the screen and the portfolio change no state of the position.
* Sells are direct ones. `send_sell_order` looks for an order filled at once; the
  client never answers with that status.
* Transition 20 asks for a buy side that is SOLD and a sell side that is
  PARTIALLY_BOUGHT. No code sets these, so it has no action.

### OrderDesk

An order of a position is unknown, working or closed; a position is over when its
`HPClose` was put. `Send` needs that nothing works and nothing is over, `Close` and
`Finish` are the only other steps. `HpManager` maps `ex` and `lostAck` to `order` and
`life` to `over` (`Desk`); its property `ImplementsDesk` is `OrderDesk`'s
specification under that mapping. An accepted order whose answer was lost stays unknown:
the strategy cannot know that it works, and the claim would be false with it.

### HpRecovery

`HpRecovery` extends `HpManager` and uses its actions as they are. `pos` adds the two
columns of the positions row the restart looks at: which side saved it last, since both
sides share one row (`StepSavingBuy`, `StepSavingSell`, `StepSavingNone` say which
callbacks save which), and its quantity. `Crash` may happen in any state, that is, at any
await. It ends the worker and empties its queue. The exchange may have carried out the
awaited call (`LosesAnswer`), and of the two saves of a fill report only the first may
be done (`SplitsSave`). Orders trade while the program is down (`FillUnseen`).

A restart reads the rows, and asks the exchange about every order that is not saved as
FILLED. The client has no `get_order`, so that question raises, the recovery is given up
and the program runs with no strategies at all (`RecoveryFails`; phase `"empty"`).
Otherwise the strategy is rebuilt from the row: `restore_buy_position` or
`restore_sell_position`, with their choice among several orders and the states they
derive. The balance comes from the inventory, which may not be loaded yet.

What the model says about restarts, besides its properties:

* Any saved order that is not FILLED stops the recovery of every position, at this start
  and at all later ones. `README.md:7` of the repository promises persistence and
  recovery; what is left of it are positions without orders and positions whose orders
  have filled.
* A buy position whose sell was configured is saved from the sell side. Without a buy
  order it is restored as BOUGHT and its first sell, of quantity 0, ends the worker.
* A configured sell is lost if the buy side saves after it.
* A crash between a fill and its signal, which is in memory only, leaves a position in
  BUYING or SELLING with a filled order. No later event moves it.
* A create whose answer was lost in the crash is sent again.
* The row of a sold position is never closed. A sell from the inventory is restored as
  BOUGHT with a filled order, and is reported as sold again after every restart
  (`CompletedOnce` is therefore about positions that bought their coins). What that does to
  the books is in `Portfolio` (`SoldCoinsCreditedOnce`).

`told` counts the completions that ask the executor to close (`HPClose`). The event
`complete_position` sends the portfolio besides (`hp_manager.py:1444`) is not counted here;
`Portfolio` has both.

### BuyDip

The strategy's data is one record `s`, and the methods that call one another are
functions on it (`place_order`, `Invalidated`, `handle_order_fill`, `handle_sell_fill`,
...). `worker` is `_worker_loop` at its suspension points: a candle cancels the buy orders
of the tops it invalidates one after the other, a ticker cancels the sells it finds far
from the top, and only there do other coroutines run (`Yielding`). `s.creating` holds
the orders whose `create_order` task has not run, `delayed` the replacements that sleep.
A replacement's sleep and the cooldown of its position are timed apart: the cooldown starts
with the candle that sets it, the sleep when its task first runs, so either may end first
(`CooldownEnds`, `RunDelayed`), and a cooldown of 0 is allowed. `late` is a history of the orders
such replacements placed. Orders are whole: the adapter tells nobody of a part that traded, so
that the strategy treats an order that has traded in part like an untouched one, and books the
report of its last part as the fill of all of it (`Fill`). What such an order traded before it is
cancelled or closed is in no book of the strategy, and in none of the model.
`client` says whether the exchange client speaks the interface the adapter was written
for: with the Kraken client every creation raises and neither candles nor reports have
the form `_process_event` looks for (`IgnoreUnrouted`).

Modelled as they are in the code: a failed cancellation forgets the order all the same;
an order the exchange closes unasked only reaches the screen; a failed creation leaves
its order pending and its money locked; a fill is booked with quantity 1.0; the check for
invalidated tops looks at positions that have no confirmed top, and finds none; a rising
pattern without a watching position raises for want of a timestamp; `stop_event`
is never cleared. `lost` is a history of the orders the strategy gave up.

### Portfolio

`p` is the screen's `PortfolioUI`: lots by id, the list of them, the lists by coin, the
positions whose proceeds were added, and the rows of the table. `back` is the backend's
list, which holds the same lot objects. A balances message goes to the screen and twice
to the backend, whose handler relays it behind its own list (`Relay`). `wire` holds what
the positions' strategies have still to tell; `Exchange` moves the true balances `ex`
and puts reports there. The handlers are translated one by one, with the lot they fall
back on when a position has none and with the writes of the table they leave out.
A position buys, holds what it bought, and sells, or sells what the inventory holds. The
user's configuration of a sell (`SetUpSell`) tells the portfolio that it was created and locks
there what the exchange locks when the order is sent (`PlaceSell`, which tells nothing, nor does
sending it again after a cancellation).

`Restart` is a start of the program on the rows. The books are read again, and the set of
positions whose proceeds were added is empty, since it was in memory only (`Forgets`). Recovery
fails for all positions when an order of one is saved as anything but filled
(`RecoveryFails`; such orders go on trading, but nobody reports it, and they are left out).
Otherwise positions go on where their rows say (`RecoverySucceeds`): one that waits for its
sell waits again, and a sell that is over completes once more if it sold from the
inventory or had not told of its completion (`TellsAgain`), at the first price that makes it sell.
A two-hop sell whose legs are open ends there. Orders are cancelled before anything of them has
traded; cancelling and resending one that traded in part (`hp_manager.py:732`, `1153`) is left out.

A coin costs one unit, so that proceeds equal amounts; prices, totals and wording are not
modelled. The lots are sold in the order of their buy prices, which is the constant
`CheapFirst`. Lists are filtered with `Kept` and sums are folds over sets of ids or of list
places, so that both can be reasoned about.

### Subscriptions

`subs` is the broker's table, `registry` the two reference count dictionaries, `tasks`
the coroutines `ensure_future` has scheduled for a stream, in order. `ws` says that
`_public_ws` is set, `alive` that the connection behind it works, `served` what the
server sends on it, `replay` what `_resubscribe_public_channels` has still to send.
Tasks of different streams run in any order. A frame is on the wire when it is sent
over a working connection. USER subscriptions need no frame and are left out. `Break`
is any loss of the connection; without a subscribed stream there are no heartbeats,
and the silence closes the connection, which is not counted against the bound.

## 3. Runs

| Run | Specification | Bounds | Shows |
|---|---|---|---|
| `hp_core` | `FairSpec`, no faults | 3 coins, 4 orders, 2 waiting events | all safety and both liveness properties |
| `hp_faults` | `Spec`, all faults | 3 coins, 3 orders, 1 waiting event, 1 lost answer, 1 lost report | what survives failures; the refinement of `OrderDesk` |
| `hp_recovery` | `RSpec` | 2 coins, 3 orders, 2 waiting events, 2 crashes | what a restart brings back, and what it does not |
| `buydip` | `Spec`, all faults | 2 positions, 2 levels, 3 highs, 2 ticker prices, 1 waiting event, 2 sleeping tasks or candles on their way, 1 order given up | tracking, money, placeholders, prices; the reports of filled orders find them |
| `buydip_orphan` | `Spec`, no faults | the same, with a high too close to the top to invalidate it | finding 5 |
| `portfolio` | `Spec` | 1 position, 3 coins, 3 lots at first, trades of 2 coins, 2 waiting events of each queue | the books follow the exchange |
| `portfolio_twice` | `Spec` | the same, without sells | finding 6 |
| `hp_late_signal` | `Spec` | 2 waiting events | finding 1 |
| `hp_realized` | `Spec` | 1 waiting event | finding 2 |
| `hp_fills` | `Spec` | 2 waiting events | finding 3 |
| `subscriptions` | `FairSpec` | 2 systems, 2 streams, 3 subscriptions, 2 tasks per stream, 1 lost connection | counts, wire, liveness |
| `subscriptions_early` | `Spec` | the same | finding 4 |

**Why these bounds.** Three coins are the fewest for which an order is filled in part,
cancelled, resent and filled in part again. Four orders allow a buy, its resend, a sell
and its resend. The shortest runs to the findings and to the mutants' violations need
two events queued behind one another; a third only delays them. `FreeIds = {}` stands
for an exchange that accepts no more orders, which is a refusal the code has to handle
anyway; no property relies on ids left over. Prices 1 to 3 put a ticker on each side of
every threshold, and one in the band where the buy is cancelled and the sell too.
A restart needs two coins for an order that is filled in part when the program crashes,
and two crashes for a position that was restored to crash again; its third order is the
resend. Two Buy Dip positions are one that holds and one that waits, which is what the
budget and the placeholders are about; the three highs let a top move twice, each
time by more than the invalidation's threshold; the ticker prices lie on both sides of
the distances at which a sell is placed and cancelled. Three lots give a coin of two lots,
between whose prices the bought one lies, a sell that spans two lots, one that falls
back on other lots, and a coin of which no lot exists before one is bought; one position
suffices because lots, not positions, are what the
handlers share. Two subscriptions of one system to one stream are what makes a release count twice; one
lost connection is enough to lose a frame, a replay, or both.

Deadlock is not checked: a position ends by closing, a worker by dying, an exchange
that has filled every order has nothing to do, a Buy Dip worker that was stopped leaves
its events, and a program that may not crash again may stay down.

**Properties of a position.** `OneWorkingOrder` is the main one. `OrdersTracked` says
why it holds. `BuyStateAgrees`, `NewMeansFlat`, `BuysWithinPlan`,
`SellsWithinHolding`, `BalanceWithinMeans` and `SoldIsComplete` relate the strategy's
books to the exchange; they speak of what was booked: trades whose reports are dropped
(finding 3) are in no book. `SoldIsComplete` is about the sell quantity, which the first sell fixes;
what is bought later is not in it.
Four of them stop at the second resend of an order that had
traded, where the overwritten realized quantity (finding 2) makes them false. What they
show is that nothing else does. `BalanceWithinMeans` also leaves out an order already
FILLED: a cancellation between the fill and its signal credits the order once more,
on the way to finding 1; and it ends with the first lost report, which leaves the
order's remaining quantity too big for good, and with it what its cancellation credits.
`SellingIsPersisted` is what a restart needs of a working sell.

`RestoredIsComplete` is the reason a restarted position is safe: it is brought back only
when all it ever did at the exchange is closed and booked. From it follow, in the same
run, that `OneWorkingOrder`, `BuysWithinPlan` and `SellsWithinHolding` survive restarts;
the mutant that swallows the verification's error breaks the first.

**Properties of Buy Dip.** `TrackingAgrees` relates the map by which fills find their
position to the pending orders, `KnownUnlessLost` the exchange to that map and
`FillIsExpected` the reports on their way to it. It is about
orders that filled to the last coin: the parts of an order that is cancelled or closed are in
no book, and the model, whose orders are whole, does not show them. `LockedIsCommitted` holds until
the first sell fills: that releases what the position invested, which is the sum of its
prices and not what its orders locked. `FirstOrderFitsTop` is what the sleeping
replacements leave of "the updated top": a first order is priced from the present top or, placed by a replacement
that slept through a new one, below it. `OneWatching` catches two dips started from one.

**Properties of the portfolio.** `ProceedsCreditedOnce` holds between one start and
the next although completions come twice; across a start
those of a sell from the inventory, or in two hops, are added again. `SoldCoinsCreditedOnce`
says that those of coins a position bought and sold directly are not, although the memory of
what was added is lost: a position that has begun to tell of its sale is not restored as
BOUGHT. `RowsFollowLots` holds until a list of the backend that differs replaces the
screen's: the backend is not told of lots the screen opens or sells, so the list then
contradicts the rows. `BalancesStand` is about coins whose last touch was a balances
message that found a lot with a quantity: without one the message spreads nothing, and a
coin bought later shows what its position told. An event of a position handled after the
message its own order caused locks, unlocks or adds once more, until that coin's next
message.

**Liveness and fairness.** `FilledBuyIsClosed` and `FilledSellIsClosed` hold under weak
fairness of the worker, of the answers and of the executor: the loop schedules both
coroutines, `worker()` polls without a pause while events wait, and each call of the
exchange returns or raises. No fairness is assumed of tickers, fills or the user. Both
allow for a dead worker, which the code does not restart. `WantedIsEventuallyServed`
needs weak fairness of each stream's tasks and replay, of the creation of the manager, of
the receive loop's timeout and of a reconnect: attempts go on every few seconds until
one succeeds; the bound on lost connections says that losses end.

**Findings** (each the violation of a property that a text of the repository states):

1. `hp_late_signal`. The comment on the transition from BOUGHT to itself
   (`hp_manager.py:209`) wants a late signal to be allowed. When a ticker at the cancel
   price is handled between the report of the fill and the signal, the state is
   PARTIALLY_BOUGHT, which has no transition for the signal: `MachineError`, and the
   position's worker is gone.
2. `hp_realized`. `recovery_service.py:199` takes the newest order to carry the realized
   quantity of all. Reports carry that of one exchange order, and overwrite it.
3. `hp_fills`. `README.md:17` says that partial fills are tracked. A trade during a
   cancellation is reported after the state has changed, and is dropped.
4. `subscriptions_early`. `spot.py:124` says that `subscribe` subscribes. Before `run()`
   has created the manager it only enters the table; nothing sends it later.
5. `buydip_orphan`. `strategies/buy_dip/strategy.py:721` says "Cancel any remaining pending
   buy orders before closing position". The next line cancels them in the strategy's
   own records; no call reaches the exchange, the order works on and its fill finds no
   position.
6. `portfolio_twice`. `hp_manager.py:1533` takes care "to avoid duplicate with FILLED
   event". A buy order that fills in two parts reports the first part, and the filled
   event then carries all that was bought; the portfolio adds both to the lot.
**What the properties leave out.** Three more behaviours of the code limit what the properties
can say. The first and the third show in the states of the runs, the second is left out:

* A replacement may be placed at the price of an old top. The price is computed when the task
  is scheduled (`strategies/buy_dip/strategy.py:221`); the task sleeps and then looks at the
  pending order and the cooldown only (`:283`). When a candle that waits in the queue moves the
  top in between and its cooldown ends first, "the updated top_price" of line 181 is not what
  the order is priced from.
* The parts of an order that is then cancelled are in no book. The adapter reports FILLED and
  closed orders only (`strategies/buy_dip/broker_adapter.py:182`), so what an order bought before
  a new top cancelled it is in no position and is never sold, and a sell that traded in part and
  was cancelled is sent again in full.
* A sell from the inventory, or in two hops, is credited at every start. `portfolio_gui.py:1657`
  marks a position "to avoid duplicates" of its proceeds in a set that is in memory only (`:66`);
  the position is restored at each start as BOUGHT with a filled order
  (`trading_database.py:438` reads every row that is not closed, and nothing closes it),
  completes, and is credited again.

Every property of a passing run has a mutant in `PROJECT.json`: a `Bug...` definition
that stands beside the one it replaces and makes TLC find the property violated.

## 4. Proofs

Each theorem holds for every value of the constants; TLC has checked each inductive
invariant on the bounds of the runs. A proof has one lemma per named part of the
invariant and group of actions, and a `...Step` lemma that combines them.

**The position: orders** (`HpManagerProofs`). Assumed: `QuantityAssumption`,
`PriceAssumption`, `BoundAssumption` (positive quantity and prices, a buy trigger below
its cancel price and a sell trigger above it, natural bounds). `TypeOK` is inductive as
it stands. `OneWorkingOrder` is not: to know that no order works when the next is sent
one has to know that every working order is the one the strategy would cancel, believed
open, in a state from which none is sent (`Tracked`); that a cancellation which answers
was of that order (`IdsAgree`); that a report which says closed is about a closed order
(`ReportsTrue`: it may wait in the queue while the world changes); and that replacing
the sell side does not replace a working order. `IInv == TypeOK /\ OneWorkingOrder /\
KeepsTrack`, `KeepsTrack` being the first three, is kept by every step that finds no
sell order open where none was configured (`NoneHidden`). In a position that never
crashed there is no sell order at all before one is configured (`NoSellUnlessSet`), and
the two together are inductive. The argument: only the two
`...Created` actions open orders, and in the states they leave nothing works
(`NothingWorks`); an order whose answer was lost is outside the claim from the start
(`LiveKnown`); every other action either leaves the exchange alone
(`WorkerLeavesExchange`) or only closes orders (`OthersOpenNothing`).

`Implements` is `Spec => ImplementsDesk`: the initial states map to `OrderDesk`'s, and
every step of `HpManager` is one of its steps or a stutter. `IInv` gives that nothing
works when an order is sent (`SendsAtMostOne`) and when the position is reported as sold
(`DeskStep`); `OverIsQuiet`, that a position reported as sold is SOLD with its worker at
rest or dead: no ticker, report or signal leads out of SOLD.

**The position: books** (`HpBooksProofs`). `BooksInv` adds three parts. `FillsBooked`
follows a report: sent while its order works, it says no more than what traded, a fill
says it all, reports of an order arrive in order, none follows the one that closes it; so
what is booked (`seen`) never exceeds what traded, and an order taken for FILLED has
traded in full with no report of it left. `StatesMatch` says what the buy order has
realized in every state of the buy side and at every await. `SellingIsPersisted` is
inductive with these. `BuyStateAgrees` and `NewMeansFlat` follow.

**The position: money** (`HpMoneyProofs`). Sums over orders are compared with the order
in hand. `BuyPlan` and `SellPlan` say that it was sent for what at most one earlier order
left (`ResentFor`), and `SellPlan` that its quantity is bought; with `BooksInv` they are
inductive with `SoldFilled` (`PlanInv`: SOLD means that the sell order filled) and give `BuysWithinPlan`, `SellsWithinHolding` and
`SoldIsComplete`. The condition "at most one earlier order that traded" is the
properties' own and comes from finding 2. `BalanceWithinMeans` needs to know how the quantity
that is left is counted down: report by report. `ReportsRise` says that the fills of an
order are reported in rising order, `NothingMissed` that without a gap the trades between
two reports are in the later one, `StableLeft` and `BalanceKept` what that makes of the
remaining quantity and of the balance in each state. `MeansInv` is their conjunction with
`PlanInv`. The proof failed without `gaps = 0`, and TLC confirmed why: a lost
report is never made up for, so the code credits its money again.

**The position: crash and restart** (`HpRecoveryProofs`). Assumed besides:
`RestartAssumption` (the bounds are natural numbers). Between crashes a position takes
steps of `HpManager`, and the lemmas about them are used again, but not `NoSellUnlessSet`:
that a restored buy position carries no sell order is clear only at the end of the argument,
and until then it may carry one that filled (`SellAtRest`). `RInv` adds what the rows are worth: one saved as FILLED is of an order that
is closed, booked in full and will not be reported again (`RowsDone`), and each order
whose id arrived has a row (`KnownSaved`). So a restart that finds only FILLED rows finds
everything the position ever did, which is `RestoredIsComplete`, and since nothing works
then, `OneWorkingOrder` holds from there on. `CrashedExchange` and `FillSaved` say what
a crash can leave at the exchange and in the rows, and `UnseenKeeps` that trades nobody
hears of are of orders without a FILLED row. `CompletedOnce` needs a second
invariant, `CInv`: a position without a saved buy order has nothing to sell, whatever it
was restored as (`NothingBought`); one that starts with coins never gets a buy row
(`OnlySells`); a cancelled sell leads back to BOUGHT only if nothing was sold
(`BoughtUnsold`); and a position that was reported is saved as SOLD from the sell side, so
that each restart brings it back as SOLD, which nothing leaves (`SoldForGood`).

`BuysWithinPlan` and `SellsWithinHolding` through crashes need the third invariant, `KInv`.
While the program is up the plans of `HpMoneyProofs` hold; down, only what they offered is
left (`Offers`), and that is enough for both properties. To start again on the plans, a restart has to
rebuild the orders as they were: a row saved as FILLED is of the order in hand of its side and
says what was booked of it (`FilledRows`), so what is read again is that order or none
(`InHand`), and it is taken up for what it was sent for (`RestoredIsResent`). The hard part is the sell
side: a restart sums the orders of both sides up to the quantity of the position, and offers it
when there is no sell order. That this is what was bought holds because the two sides are
never both saved at that point. A buy order that was closed short of its quantity has a row that
is never FILLED, so no restart reads on (`Spoiled`); without one the position only
buys until the one signal of its fill is handled and only sells afterwards (`Staged`), and
its saved state says which (`RowsStaged`). TLC checked `KInv`, with every fault and lost answer, before
it was proved (1.07 million states).

**Sums** (`SumProofs`). `SumFunctionOnSet` is defined by a recursion over subsets, through
a CHOOSE. That the recursion has a solution, and that the sum gains `f[x]` with
an element, changes with one value, is monotonic and zero where the function is, is
proved from the well-foundedness of the strict subset order: a set of
counterexamples would have a minimal one. The induction principle that results
(`SubsetInduction`) takes a set, not a predicate, and so can be used at all.

**Buy Dip** (`BuyDipProofs`). Assumed: `MarketAssumption` and `ConfigAssumption`
(positive prices, percentages, at least one level, a sell placed nearer than it is
cancelled). `BuyDipInv` is the conjunction of `TypeOK` and four parts.
`Fits`: the fields of a position agree with its state, what is tracked is what positions
hold, one position watches at most, and the locked money is the sum of what the positions
committed, until one completes. `Sound`: an order not given up is tracked, and is in one
place only: about to be created, at the exchange, or filled and reported. `WorkFits`: the
worker, which suspends between positions, finds each in the state it took it for.
`DelayedFits`: a replacement that sleeps has the price of the present top or of one before
it, which was lower. `FirstOrdersFitTop` rests on it, and on what the orders in `late` are. Each method of the strategy has a lemma about what it
does to positions that have started (`Drift`), so that what sleeps survives what others do
meanwhile. All seven invariants follow.

**Subscriptions** (`SubscriptionsProofs`). Assumed: `InfosAssumption` (finitely many
subscriptions) and `BoundAssumption`. `TypeOK` includes that no count falls below zero;
`ActiveIsServed` is inductive with it. `RegistryCounts` is not, because of the clamp at zero:
a release that found the count at 0 would be swallowed, and the next subscription
counted too high. `CountInv` says that no prefix of the scheduled tasks ever takes
the count below zero (`NeverClamped`); it holds because a system's releases, one for
each of its subscriptions, are scheduled behind the subscriptions they undo
(`RunKeepsCount`, `TailKeepsCount`), and it fails, with the property, for a subscription
made before the manager exists, which was never counted.

**Portfolio** (`PortfolioProofs`). Assumed: `CoinsAssumption` (the quote currency and the
coin between two hops are two of the coins), `HoldingsAssumption` (the inventory is not
empty, its quantities are natural and its ids differ from each other and from those the
handlers make: ids are uuids, but for the two made from a position's id),
`CheapFirstAssumption` (every lot has one place in the order of prices; the code's sort leaves
equal prices in some order, which is one such order), `PositionsAssumption` (finitely many)
and `SizesAssumption` (orders of more than nothing). All hold of any inventory the program can
be started on.

The handlers come first, on books that are `Sound`: listed lots exist, the screen's list has
none twice, the lists by coin hold lots of that coin, and rows are of known lots. `Handles` says
of each handler that it keeps them so, touches lots of its own coins only (`Touches`) and keeps
the rows in step with the lots (`RowsFollow`). Then `BooksInv`, the inductive invariant of the
books, has six parts. `TypeInv` is `TypeOK` with `Sound`. `Funds`, that what the exchange has
locked of a coin covers, summed over the positions, all that their open orders can still spend,
keeps balances natural. `ProceedsInv`: a completion is on its way, told by the position or queued
for the screen, only while its position is over, and a position whose proceeds were credited is
in the screen's `processed` set as long as another completion may still come; a restart empties
that set, and the queues with it, and what is told after it starts from there (`Restarted`). `ReceivedInv`: a
lot that was made of a position's proceeds is of the quote currency, and as long as nothing of the
position was credited since the start the currency is listed, so that a second credit goes to
a listed lot and does not make this one again. `CarriersInv`: the fills still to be told of a position and its
lot name one coin (`OneCoin`), so that a later fill is never booked on a lot of another coin.
`RowsInv` is `RowsFollowLots`; it needs `replaced`, because the backend's list does not know the
lots the screen opened.

`SoldInv` carries `SoldCoinsCreditedOnce` over starts, which `ProceedsInv` cannot: `processed` is
empty after one. A sale ends with two completions (`CompletesLast`); once one of them is queued or
credited at most one is left to tell, and a start restores as BOUGHT only what has two left, or
what is completed by its saved order every time (`again`).

`BalancesInv` says, for each coin, where its last message is. `BackKnows`: the last one waiting for
the backend tells what the exchange has now, since every step that changes a balance
publishes it. `ScreenHears`: when none waits there, the last one waiting for the screen does, and
it will be handled on the backend's list, which is queued right before it or is the screen's
already. `LotsStand`: when none waits anywhere, the lots of a fresh coin add up to the balance and
the two lists agree on them. The last step of that argument is `SharesAddUp`: the shares of a
balance are differences of rounded running totals and telescope, whatever the quantities are.
Putting the list behind the balances it goes with (`BugRelay`) breaks `ScreenHears`. The proof
also corrected the property: a coin without a quantity was once counted as fresh after a message
that had nothing to spread it over.

**Only model-checked.** All liveness: `FilledBuyIsClosed`, `FilledSellIsClosed` and
`WantedIsEventuallyServed` need fairness and `ENABLED`, which are beyond the prover used, and
so is induction over data other than the finite sets above.

## 5. Plan

Done: the position, its refinement of an abstract desk, crash and recovery, the public
subscriptions, Buy Dip, the portfolio's books. Next, most important first:

1. `remove_record` and the replacement of a configured sell while the worker is
   suspended, the config queue, an exception that ends `run()`.
2. The two legs of a multihop sell as positions of their own: price split, the
   cancellation of one leg, their recovery.
3. The private socket: token refresh, refused subscriptions, account positions.
4. Several positions sharing one balance, and several Buy Dip symbols sharing one budget.

## 6. Not modelled

The GUI's widgets and wording, logging, configuration, the backtester and Kraken's own
behaviour beyond what the code relies on; and, until the plan reaches them, the parts
above. Floating point is replaced by integers: rounding to a symbol's steps is not
modelled, and so a rest that rounds to zero is not either. Code that nothing calls is
left out: `position_manager.py`, `recover_multihop_positions`,
`validate_recovery_integrity`, the top detector and the candle buffer of Buy Dip,
and those functions of the portfolio that only tests use. A write of the database that
fails is logged by the code and goes unnoticed; it is modelled only where a row exists
already (`insert_inventory_item`).
