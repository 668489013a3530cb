--------------------------- MODULE HpManagerProofs ---------------------------
(***************************************************************************)
(* Theorems about HpManager, for every value of its constants: the types;  *)
(* that a position never has two working orders it knows of; and that it   *)
(* implements an order desk.                                               *)
(*                                                                         *)
(* OneWorkingOrder is not inductive: the invariant is its conjunction with *)
(* OrdersTracked, which says why no order is sent while another works.     *)
(* The step simulation of the desk needs that invariant, and OverIsQuiet,  *)
(* which says that a position reported as sold sends none.                 *)
(***************************************************************************)
EXTENDS HpManager, TLAPS

(***************************************************************************)
(* Facts about the helpers                                                 *)
(***************************************************************************)

\* The events the strategy and its surroundings put on the queue are events.
LEMMA SignalIsEvent == Signal \in Event
  BY DEF Signal, Event

LEMMA TickIsEvent ==
  ASSUME NEW p \in Prices
  PROVE  Tick(p) \in Event
  BY DEF Tick, Event

LEMMA ReportIsEvent ==
  ASSUME NEW o \in OrderIds, NEW s \in OrderStatus, NEW c \in Nat, NEW l \in Nat
  PROVE  Report(o, s, c, l) \in Event
  BY DEF Report, Event

\* Taking, signalling and delivering keep a queue of events.
LEMMA QueueType ==
  ASSUME NEW q \in Seq(Event), NEW e \in Event
  PROVE  /\ Append(q, e) \in Seq(Event)
         /\ q # <<>> => /\ Head(q) \in Event
                        /\ Tail(q) \in Seq(Event)
                        /\ Append(Tail(q), e) \in Seq(Event)
  OBVIOUS

\* What a report at the head of the queue carries.
LEMMA ReportFields ==
  ASSUME TypeOK, Waiting("report")
  PROVE  /\ report.id \in OrderIds
         /\ report.status \in OrderStatus
         /\ report.cum \in Nat
         /\ report.last \in Nat
  <1>1. queue \in Seq(Event) /\ queue # <<>> /\ Head(queue).kind = "report"
    BY DEF TypeOK, Waiting
  <1>2. Head(queue) \in Event
    BY <1>1
  <1>3. Head(queue) \in [kind : {"report"}, id : OrderIds,
                         status : OrderStatus, cum : Nat, last : Nat]
    BY <1>1, <1>2 DEF Event
  <1> QED
    BY <1>3 DEF report

\* Saving an order keeps the table of order rows.
LEMMA UpsertType ==
  ASSUME NEW rows \in [OrderIds -> Row], NEW order,
         order.id \in OrderIds \cup {NoId},
         order.status \in OrderStatus \cup {"NONE"}, order.real \in Nat
  PROVE  upsert_order(rows, order) \in [OrderIds -> Row]
  <1>1. RowOf(order) \in Row
    BY DEF RowOf, Row, OrderStatus
  <1> QED
    BY <1>1 DEF upsert_order

\* What the orders the strategy holds become, field by field.
LEMMA BookedFields ==
  ASSUME NEW s \in OrderStatus, report.cum \in Nat
  PROVE  /\ bo \in BuyOrder => /\ Booked(bo, s) \in BuyOrder
                              /\ Booked(bo, s).id = bo.id
                              /\ Booked(bo, s).status = s
         /\ so \in SellOrder => /\ Booked(so, s) \in SellOrder
                               /\ Booked(so, s).id = so.id
                               /\ Booked(so, s).status = s
  <1>1. ASSUME bo \in BuyOrder
        PROVE  /\ Booked(bo, s) \in BuyOrder
               /\ Booked(bo, s).id = bo.id
               /\ Booked(bo, s).status = s
    <2> DEFINE b == [bo EXCEPT !.status = s]
    <2>1. b \in BuyOrder /\ b.id = bo.id /\ b.status = s
      BY <1>1 DEF BuyOrder
    <2>2. Booked(bo, s) = [b EXCEPT !.real = report.cum]
      BY DEF Booked
    <2> HIDE DEF b
    <2> QED
      BY <2>1, <2>2 DEF BuyOrder
  <1>2. ASSUME so \in SellOrder
        PROVE  /\ Booked(so, s) \in SellOrder
               /\ Booked(so, s).id = so.id
               /\ Booked(so, s).status = s
    <2> DEFINE b == [so EXCEPT !.status = s]
    <2>1. b \in SellOrder /\ b.id = so.id /\ b.status = s
      BY <1>2 DEF SellOrder
    <2>2. Booked(so, s) = [b EXCEPT !.real = report.cum]
      BY DEF Booked
    <2> HIDE DEF b
    <2> QED
      BY <2>1, <2>2 DEF SellOrder
  <1> QED
    BY <1>1, <1>2

LEMMA SentFields ==
  ASSUME NextId \in OrderIds
  PROVE  /\ bo \in BuyOrder => /\ Sent(bo) \in BuyOrder
                              /\ Sent(bo).id = NextId
                              /\ Sent(bo).status = "NEW"
         /\ so \in SellOrder => /\ Sent(so) \in SellOrder
                               /\ Sent(so).id = NextId
                               /\ Sent(so).status = "NEW"
  <1>1. ASSUME bo \in BuyOrder
        PROVE  /\ Sent(bo) \in BuyOrder
               /\ Sent(bo).id = NextId
               /\ Sent(bo).status = "NEW"
    <2> DEFINE b == [bo EXCEPT !.id = NextId]
    <2>1. b \in BuyOrder /\ b.id = NextId
      BY <1>1 DEF BuyOrder
    <2>2. Sent(bo) = [b EXCEPT !.status = "NEW"]
      BY DEF Sent
    <2> HIDE DEF b
    <2> QED
      BY <2>1, <2>2 DEF BuyOrder, OrderStatus
  <1>2. ASSUME so \in SellOrder
        PROVE  /\ Sent(so) \in SellOrder
               /\ Sent(so).id = NextId
               /\ Sent(so).status = "NEW"
    <2> DEFINE b == [so EXCEPT !.id = NextId]
    <2>1. b \in SellOrder /\ b.id = NextId
      BY <1>2 DEF SellOrder
    <2>2. Sent(so) = [b EXCEPT !.status = "NEW"]
      BY DEF Sent
    <2> HIDE DEF b
    <2> QED
      BY <2>1, <2>2 DEF SellOrder, OrderStatus
  <1> QED
    BY <1>1, <1>2

\* Closing an order changes nothing else.
LEMMA ClosedType ==
  ASSUME TypeOK, NEW o \in OrderIds
  PROVE  /\ Closed(o) \in [OrderIds -> [side : {"BUY", "SELL", "NONE"}, qty : Nat,
                                        cum : Nat, live : BOOLEAN]]
         /\ \A p \in OrderIds : /\ Closed(o)[p].side = ex[p].side
                                /\ Closed(o)[p].live <=> ex[p].live /\ p # o
  BY DEF Closed, TypeOK

\* The order id the exchange assigns was free.
LEMMA NextIdFree ==
  ASSUME FreeIds # {}
  PROVE  NextId \in FreeIds /\ NextId \in OrderIds /\ ex[NextId].side = "NONE"
  BY DEF NextId, FreeIds

(***************************************************************************)
(* Type correctness                                                        *)
(***************************************************************************)

LEMMA TypeInit == Init => TypeOK
  <1> SUFFICES ASSUME Init PROVE TypeOK
    OBVIOUS
  <1>1. CommonInit /\ (InitBuy \/ InitInventorySell)
    BY DEF Init
  <1>2. Quantity \in Nat /\ InitBalance * Quantity \in Int /\ 0 \in 0 .. MaxGaps
    BY QuantityAssumption, BoundAssumption
  <1>3. /\ balance \in Int /\ queue \in Seq(Event)
        /\ pc \in Callbacks \cup {"idle", "dead"}
        /\ life \in {"running", "closing", "stopped"} /\ seen \in [OrderIds -> Nat]
        /\ lostAck \subseteq OrderIds /\ gaps \in 0 .. MaxGaps
        /\ ex \in [OrderIds -> [side : {"BUY", "SELL", "NONE"}, qty : Nat,
                                cum : Nat, live : BOOLEAN]]
    BY <1>1, <1>2 DEF CommonInit, Unplaced
  <1>4. [o \in OrderIds |-> NoRow] \in [OrderIds -> Row]
    BY DEF NoRow, Row
  <1>5. NewBuyOrder \in BuyOrder /\ NoBuyOrder \in BuyOrder
    BY <1>2 DEF NewBuyOrder, NoBuyOrder, BuyOrder, NoId, OrderStatus
  <1>6. NewSellOrder(0) \in SellOrder /\ NewSellOrder(Quantity) \in SellOrder
    BY <1>2 DEF NewSellOrder, SellOrder, NoId, OrderStatus
  <1>7. CASE InitBuy
    BY <1>3, <1>4, <1>5, <1>6, <1>7 DEF InitBuy, TypeOK, State
  <1>8. CASE InitInventorySell
    BY <1>3, <1>4, <1>5, <1>6, <1>8 DEF InitInventorySell, TypeOK, State
  <1> QED
    BY <1>1, <1>7, <1>8

\* Every transition a ticker triggers, up to its call of the exchange.
LEMMA TickType ==
  ASSUME TypeOK, process_ticker
  PROVE  TypeOK'
  <1> USE QuantityAssumption
  <1>1. queue' = Tail(queue) /\ queue' \in Seq(Event)
    BY QueueType, SignalIsEvent
    DEF process_ticker, TypeOK, Waiting, Take, SendBuy, CancelUnfilledBuy, CancelPartlyBought, ResendBuy,
        SendSell, CancelUnfilledSell, CancelPartlySold, ResendSell,
        RaiseInCondition, IgnoreTick
  <1>2. RemainingBuy \in Int
    BY DEF RemainingBuy, TypeOK, BuyOrder
  <1>3. CASE SendBuy
    BY <1>1, <1>2, <1>3
    DEF SendBuy, Enter, TypeOK, State, BuyOrder, NewBuyOrder, NoId, OrderStatus,
        Callbacks, BuyCreates
  <1>4. CASE CancelUnfilledBuy \/ CancelPartlyBought \/ ResendBuy
    BY <1>1, <1>2, <1>4
    DEF CancelUnfilledBuy, CancelPartlyBought, ResendBuy, Enter, TypeOK, State,
        Callbacks, BuyCancels, BuyCreates
  <1>5. CASE SendSell
    <2>1. SellQuantity \in Nat
      BY DEF SellQuantity, TypeOK, BuyOrder, SellOrder
    <2> QED
      BY <1>1, <1>5, <2>1, ZenonT(40)
      DEF SendSell, Enter, TypeOK, State, SellOrder, Callbacks, SellCreates
  <1>6. CASE CancelUnfilledSell \/ CancelPartlySold \/ ResendSell
    BY <1>1, <1>6
    DEF CancelUnfilledSell, CancelPartlySold, ResendSell, Enter, TypeOK, State,
        Callbacks, SellCancels, SellCreates
  <1>7. CASE RaiseInCondition \/ IgnoreTick
    BY <1>1, <1>7 DEF RaiseInCondition, IgnoreTick, Die, Ignore, TypeOK
  <1> QED
    BY <1>3, <1>4, <1>5, <1>6, <1>7 DEF process_ticker

\* Reports change an order's status and realized quantity, and nothing they
\* book leaves its type.
LEMMA ReportType ==
  ASSUME TypeOK, process_order
  PROVE  TypeOK'
  <1>1. Waiting("report") /\ queue' \in Seq(Event)
    BY QueueType, SignalIsEvent
    DEF process_order, TypeOK, Waiting, Take, TakeAndSignal, BuyFilledReport, BuyPartFilledReport,
        SellFilledReport, SellPartFilledReport, StatusReport, DropFill
  <1>2. /\ report.id \in OrderIds /\ report.status \in OrderStatus
        /\ report.cum \in Nat /\ report.last \in Nat
    BY <1>1, ReportFields
  <1>3. db.rows \in [OrderIds -> Row] /\ db.strategy \in State
    BY DEF TypeOK
  <1>4. CASE BuyFilledReport
    <2>1. bo' \in BuyOrder
      BY <1>2, <1>4, BookedFields DEF BuyFilledReport, TypeOK, OrderStatus
    <2>2. upsert_order(db.rows, bo') \in [OrderIds -> Row]
      BY <1>3, <2>1, UpsertType DEF BuyOrder
    <2> QED
      BY <1>1, <1>2, <1>3, <1>4, <2>1, <2>2
      DEF BuyFilledReport, SaveBoth, Book, TypeOK
  <1>5. CASE BuyPartFilledReport
    <2>1. bo' \in BuyOrder
      <3>1. Booked(bo, "PARTIALLY_FILLED") \in BuyOrder
        BY <1>2, BookedFields DEF TypeOK, OrderStatus
      <3> QED
        BY <1>2, <1>5, <3>1 DEF BuyPartFilledReport, BuyOrder
    <2>2. upsert_order(db.rows, bo') \in [OrderIds -> Row]
      BY <1>3, <2>1, UpsertType DEF BuyOrder
    <2> QED
      BY <1>1, <1>2, <1>3, <1>5, <2>1, <2>2
      DEF BuyPartFilledReport, SaveBoth, Book, TypeOK, State
  <1>6. CASE SellFilledReport
    <2>1. so' \in SellOrder
      BY <1>2, <1>6, BookedFields DEF SellFilledReport, TypeOK, OrderStatus
    <2>2. upsert_order(db.rows, so') \in [OrderIds -> Row]
      BY <1>3, <2>1, UpsertType DEF SellOrder
    <2> QED
      BY <1>1, <1>2, <1>3, <1>6, <2>1, <2>2
      DEF SellFilledReport, SaveBoth, Book, TypeOK
  <1>7. CASE SellPartFilledReport
    <2>1. so' \in SellOrder
      BY <1>2, <1>7, BookedFields DEF SellPartFilledReport, TypeOK, OrderStatus
    <2>2. upsert_order(db.rows, so') \in [OrderIds -> Row]
      BY <1>3, <2>1, UpsertType DEF SellOrder
    <2> QED
      BY <1>1, <1>2, <1>3, <1>7, <2>1, <2>2
      DEF SellPartFilledReport, SaveBoth, Book, TypeOK
  <1>8. CASE StatusReport
    <2>1. bo' \in BuyOrder
      BY <1>2, <1>8 DEF StatusReport, Restatus, TypeOK, BuyOrder
    <2>2. so' \in SellOrder
      BY <1>2, <1>8 DEF StatusReport, Restatus, TypeOK, SellOrder
    <2> QED
      BY <1>1, <1>8, <2>1, <2>2 DEF StatusReport, TypeOK
  <1>9. CASE DropFill
    BY <1>1, <1>9 DEF DropFill, Ignore, TypeOK
  <1> QED
    BY <1>4, <1>5, <1>6, <1>7, <1>8, <1>9 DEF process_order

\* The signal that an order filled, and the executor's close.
LEMMA SignalType ==
  ASSUME TypeOK, process_signal \/ ClosePosition
  PROVE  TypeOK'
  <1>1. ~ ClosePosition => queue' \in Seq(Event)
    BY QueueType, SignalIsEvent
    DEF process_signal, TypeOK, Waiting, Take, CloseFilledBuy, CloseFilledSell,
        RaiseOnSignal
  <1>2. db.rows \in [OrderIds -> Row] /\ db.strategy \in State
    BY DEF TypeOK
  <1>3. CASE CloseFilledBuy
    BY <1>1, <1>2, <1>3 DEF CloseFilledBuy, ClosePosition, SavePosition, TypeOK, State
  <1>4. CASE CloseFilledSell
    BY <1>1, <1>2, <1>4 DEF CloseFilledSell, ClosePosition, SavePosition, TypeOK, State
  <1>5. CASE RaiseOnSignal
    BY <1>1, <1>5 DEF RaiseOnSignal, ClosePosition, Die, TypeOK
  <1>6. CASE ClosePosition
    BY <1>6 DEF ClosePosition, TypeOK
  <1> QED
    BY <1>3, <1>4, <1>5, <1>6 DEF process_signal

\* An order sent, or its answer lost, or its refusal.
LEMMA CreateType ==
  ASSUME TypeOK, CreateAnswers
  PROVE  TypeOK'
  <1>1. db.rows \in [OrderIds -> Row] /\ db.strategy \in State
    BY DEF TypeOK
  <1>2. OpenBuy \in Int /\ OpenSell \in Int
    BY DEF OpenBuy, OpenSell, TypeOK, BuyOrder, SellOrder
  <1>3. ASSUME NEW side \in {"BUY", "SELL"}, NEW qty \in Int, qty > 0, FreeIds # {}
        PROVE  Placed(side, qty) \in [OrderIds -> [side : {"BUY", "SELL", "NONE"},
                                        qty : Nat, cum : Nat, live : BOOLEAN]]
    <2>1. qty \in Nat /\ NextId \in OrderIds
      BY <1>3, NextIdFree
    <2> QED
      BY <2>1 DEF Placed, TypeOK
  <1>4. CASE LoseBuyAck
    BY <1>2, <1>3, <1>4, NextIdFree DEF LoseBuyAck, LoseAck, TypeOK
  <1>5. CASE LoseSellAck
    BY <1>2, <1>3, <1>5, NextIdFree DEF LoseSellAck, LoseAck, TypeOK
  <1>6. CASE CreateBuyFails \/ CreateSellFails
    BY <1>6 DEF CreateBuyFails, CreateSellFails, CreateFails, Die, TypeOK
  <1>7. CASE BuyCreated
    <2>1. bo' \in BuyOrder
      BY <1>7, NextIdFree, SentFields DEF BuyCreated, TypeOK
    <2>2. upsert_order(db.rows, bo') \in [OrderIds -> Row]
      BY <1>1, <2>1, UpsertType DEF BuyOrder
    <2> QED
      BY <1>1, <1>2, <1>3, <1>7, <2>1, <2>2
      DEF BuyCreated, SaveBoth, TypeOK, State
  <1>8. CASE SellCreated
    <2>1. so' \in SellOrder
      BY <1>8, NextIdFree, SentFields DEF SellCreated, TypeOK
    <2>2. upsert_order(db.rows, so') \in [OrderIds -> Row]
      BY <1>1, <2>1, UpsertType DEF SellOrder
    <2> QED
      BY <1>1, <1>2, <1>3, <1>8, <2>1, <2>2
      DEF SellCreated, SaveBoth, TypeOK, State
  <1>9. CASE ResendNothing
    <2>1. upsert_order(db.rows, so) \in [OrderIds -> Row]
      BY <1>1, UpsertType DEF TypeOK, SellOrder
    <2> QED
      BY <1>1, <1>9, <2>1 DEF ResendNothing, SaveBoth, TypeOK, State
  <1> QED
    BY <1>4, <1>5, <1>6, <1>7, <1>8, <1>9 DEF CreateAnswers

\* What the exchange answers to a cancellation.
LEMMA CancelType ==
  ASSUME TypeOK, CancelAnswers
  PROVE  TypeOK'
  <1>1. db.rows \in [OrderIds -> Row] /\ db.strategy \in State
    BY DEF TypeOK
  <1>2. Cancelled(bo) \in BuyOrder /\ Cancelled(so) \in SellOrder
    BY DEF Cancelled, TypeOK, BuyOrder, SellOrder, OrderStatus
  <1>3. CancelAnswered =>
          ex' \in [OrderIds -> [side : {"BUY", "SELL", "NONE"}, qty : Nat,
                                cum : Nat, live : BOOLEAN]]
    <2>1. Cancellable(Order) => Order.id \in OrderIds
      BY DEF Cancellable, Order, TypeOK, BuyOrder, SellOrder
    <2> QED
      BY <2>1, ClosedType DEF CancelAnswered, TypeOK
  <1>4. CASE CancelFails
    BY <1>4 DEF CancelFails, Die, TypeOK
  <1>5. CASE BuyCancelled
    <2>1. BuyAfterCancel(bo') \in {"NEW", "PARTIALLY_BOUGHT", "BOUGHT"}
      <3>1. buy \in {"NEW", "PARTIALLY_BOUGHT", "BOUGHT"}
        BY DEF TypeOK
      <3> QED
        BY <3>1, Zenon DEF BuyAfterCancel
    <2>2. upsert_order(db.rows, bo') \in [OrderIds -> Row]
      BY <1>1, <1>2, <1>5, UpsertType DEF BuyCancelled, BuyOrder
    <2>3. db' \in [strategy : State, rows : [OrderIds -> Row]]
      BY <1>1, <1>5, <2>1, <2>2 DEF BuyCancelled, SaveBoth, SavePosition, State
    <2> QED
      BY <1>2, <1>3, <1>5, <2>1, <2>3 DEF BuyCancelled, CancelAnswered, TypeOK
  <1>6. CASE UnfilledSellCancelled
    <2>1. upsert_order(db.rows, so') \in [OrderIds -> Row]
      BY <1>1, <1>2, <1>6, UpsertType DEF UnfilledSellCancelled, SellOrder
    <2> QED
      BY <1>1, <1>2, <1>3, <1>6, <2>1
      DEF UnfilledSellCancelled, CancelAnswered, SaveBoth, TypeOK, State
  <1>7. CASE PartlySoldCancelled
    <2>1. upsert_order(db.rows, so') \in [OrderIds -> Row]
      BY <1>1, <1>2, <1>7, UpsertType DEF PartlySoldCancelled, SellOrder
    <2> QED
      BY <1>1, <1>2, <1>3, <1>7, <2>1
      DEF PartlySoldCancelled, CancelAnswered, SaveOrder, TypeOK, State
  <1> QED
    BY <1>4, <1>5, <1>6, <1>7 DEF CancelAnswers

\* Tickers, the user's sell, fills, snapshots and withdrawals.
LEMMA EnvironmentType ==
  ASSUME TypeOK, Environment
  PROVE  TypeOK'
  <1>1. ASSUME NEW p \in Prices, Ticker(p)
        PROVE  TypeOK'
    BY <1>1, TickIsEvent, QueueType DEF Ticker, Deliver, TypeOK
  <1>2. ASSUME NEW q \in {0, bo.real}, ConfigureSell(q)
        PROVE  TypeOK'
    <2>1. NewSellOrder(q) \in SellOrder
      BY DEF NewSellOrder, SellOrder, OrderStatus, NoId, TypeOK, BuyOrder
    <2> QED
      BY <1>2, <2>1 DEF ConfigureSell, SavePosition, TypeOK
  <1>3. ASSUME NEW o \in OrderIds, NEW n \in 1 .. Quantity, Fill(o, n)
        PROVE  TypeOK'
    <2> DEFINE cum == ex[o].cum + n
               full == cum = ex[o].qty
               s == IF full THEN "FILLED" ELSE "PARTIALLY_FILLED"
    <2>1. n \in Nat /\ cum \in Nat /\ s \in OrderStatus
      BY QuantityAssumption DEF TypeOK, OrderStatus
    <2>2. ex' \in [OrderIds -> [side : {"BUY", "SELL", "NONE"}, qty : Nat,
                                cum : Nat, live : BOOLEAN]]
      BY <1>3, <2>1 DEF Fill, TypeOK
    <2>3. Report(o, s, cum, n) \in Event
      BY <2>1, ReportIsEvent
    <2>4. queue' \in Seq(Event)
      <3>1. queue' = Append(queue, Report(o, s, cum, n)) \/ queue' = queue
        BY <1>3, Zenon DEF Fill, Deliver
      <3> HIDE DEF cum, full, s
      <3>2. queue \in Seq(Event)
        BY DEF TypeOK
      <3> QED
        BY <2>3, <3>1, <3>2, QueueType
    <2>5. gaps' \in 0 .. MaxGaps
      BY <1>3, BoundAssumption DEF Fill, TypeOK
    <2> QED
      BY <1>3, <2>2, <2>4, <2>5 DEF Fill, TypeOK
  <1>4. ASSUME NEW o \in OrderIds, Snapshot(o)
        PROVE  TypeOK'
    <2>1. Report(o, "NEW", ex[o].cum, 0) \in Event
      BY ReportIsEvent DEF TypeOK, OrderStatus
    <2> QED
      BY <1>4, <2>1, QueueType DEF Snapshot, Deliver, TypeOK
  <1>5. ASSUME NEW o \in OrderIds, NEW s \in {"CANCELED", "EXPIRED"}, Withdraw(o, s)
        PROVE  TypeOK'
    <2>1. Report(o, s, ex[o].cum, 0) \in Event
      BY ReportIsEvent DEF TypeOK, OrderStatus
    <2> QED
      BY <1>5, <2>1, QueueType, ClosedType DEF Withdraw, Deliver, TypeOK
  <1> QED
    BY <1>1, <1>2, <1>3, <1>4, <1>5 DEF Environment

LEMMA TypeStep == TypeOK /\ [Next]_vars => TypeOK'
  <1> SUFFICES ASSUME TypeOK, [Next]_vars PROVE TypeOK'
    OBVIOUS
  <1>1. CASE Worker
    BY <1>1, TickType, ReportType, SignalType DEF Worker
  <1>2. CASE Answers
    BY <1>2, CreateType, CancelType DEF Answers
  <1>3. CASE ClosePosition
    BY <1>3, SignalType
  <1>4. CASE Environment
    BY <1>4, EnvironmentType
  <1>5. CASE UNCHANGED vars
    BY <1>5 DEF vars, TypeOK
  <1> QED
    BY <1>1, <1>2, <1>3, <1>4, <1>5 DEF Next

\* Every variable always has its type, whatever the quantities, the prices and
\* the bounds: no callback leaves a state or a status the code has no name for.
THEOREM TypeCorrect == Spec => []TypeOK
  BY TypeInit, TypeStep, PTL DEF Spec

KeepsTrack == Tracked /\ ReportsTrue /\ IdsAgree
IInv == TypeOK /\ OneWorkingOrder /\ KeepsTrack

\* A sell order that could be replaced while it works: there is none.
NoneHidden == ~ sellSet => so.id = NoId \/ ~ Open(so)

\* What every step but a create keeps of the exchange: no order starts to work,
\* none changes sides, no lost answer is found.
NothingOpens ==
    /\ \A o \in OrderIds : /\ ex'[o].side = ex[o].side
                           /\ ex'[o].live => ex[o].live
    /\ lostAck' = lostAck

\* What every step keeps: only a free id becomes an order.
UsedIdsKept ==
    \A o \in OrderIds : ex[o].side # "NONE" => /\ ex'[o].side = ex[o].side
                                               /\ ex'[o].live => ex[o].live

(***************************************************************************)
(* The exchange                                                            *)
(***************************************************************************)

\* The worker's own steps leave the exchange alone.
LEMMA WorkerLeavesExchange ==
  ASSUME TypeOK, Worker \/ ClosePosition
  PROVE  ex' = ex /\ lostAck' = lostAck
  BY DEF Worker, process_ticker, process_order, process_signal, ClosePosition,
     SendBuy, CancelUnfilledBuy, CancelPartlyBought, ResendBuy, SendSell,
     CancelUnfilledSell, CancelPartlySold, ResendSell, RaiseInCondition,
     IgnoreTick, Enter, Ignore, BuyFilledReport, BuyPartFilledReport,
     SellFilledReport, SellPartFilledReport, StatusReport, DropFill,
     CloseFilledBuy, CloseFilledSell, RaiseOnSignal

\* Cancellations, fills and withdrawals only close orders.
LEMMA OthersOpenNothing ==
  ASSUME TypeOK, CancelAnswers \/ Environment
  PROVE  NothingOpens
  <1>1. CASE CancelFails
    BY <1>1 DEF CancelFails, NothingOpens
  <1>2. ASSUME CancelAnswered
        PROVE  NothingOpens
    <2>1. Cancellable(Order) => Order.id \in OrderIds
      BY DEF Cancellable, Order, TypeOK, BuyOrder, SellOrder
    <2> QED
      BY <1>2, <2>1, ClosedType DEF CancelAnswered, NothingOpens
  <1>3. CASE BuyCancelled \/ UnfilledSellCancelled \/ PartlySoldCancelled
    BY <1>2, <1>3 DEF BuyCancelled, UnfilledSellCancelled, PartlySoldCancelled
  <1>4. ASSUME NEW p \in Prices, Ticker(p)
        PROVE  NothingOpens
    BY <1>4 DEF Ticker, NothingOpens
  <1>5. ASSUME NEW q \in {0, bo.real}, ConfigureSell(q)
        PROVE  NothingOpens
    BY <1>5 DEF ConfigureSell, NothingOpens
  <1>6. ASSUME NEW o \in OrderIds, NEW n \in 1 .. Quantity, Fill(o, n)
        PROVE  NothingOpens
    BY <1>6 DEF Fill, NothingOpens, TypeOK
  <1>7. ASSUME NEW o \in OrderIds, Snapshot(o)
        PROVE  NothingOpens
    BY <1>7 DEF Snapshot, NothingOpens
  <1>8. ASSUME NEW o \in OrderIds, NEW s \in {"CANCELED", "EXPIRED"}, Withdraw(o, s)
        PROVE  NothingOpens
    BY <1>8, ClosedType DEF Withdraw, NothingOpens
  <1> QED
    BY <1>1, <1>3, <1>4, <1>5, <1>6, <1>7, <1>8 DEF CancelAnswers, Environment

\* A create answer opens at most the order with the next free id, and sends
\* nothing that is not awaited.
LEMMA CreateOpensNext ==
  ASSUME TypeOK, CreateAnswers
  PROVE  /\ pc \in BuyCreates \cup SellCreates
         /\ \/ NothingOpens
            \/ /\ FreeIds # {} /\ lostAck' \in {lostAck, lostAck \cup {NextId}}
               /\ \A o \in OrderIds \ {NextId} : ex'[o] = ex[o]
               /\ ex'[NextId].side \in {"BUY", "SELL"}
  <1>1. \A side, qty : FreeIds # {} =>
          /\ \A o \in OrderIds \ {NextId} : Placed(side, qty)[o] = ex[o]
          /\ Placed(side, qty)[NextId].side = side
    BY NextIdFree DEF Placed, TypeOK
  <1>2. CASE LoseBuyAck \/ LoseSellAck
    BY <1>1, <1>2 DEF LoseBuyAck, LoseSellAck, LoseAck, AwaitsCreateBuy, AwaitsCreateSell
  <1>3. CASE BuyCreated \/ SellCreated
    BY <1>1, <1>3 DEF BuyCreated, SellCreated, AwaitsCreateBuy, AwaitsCreateSell
  <1>4. CASE CreateBuyFails \/ CreateSellFails
    BY <1>4 DEF CreateBuyFails, CreateSellFails, CreateFails, NothingOpens,
       AwaitsCreateBuy, AwaitsCreateSell
  <1>5. CASE ResendNothing
    BY <1>5 DEF ResendNothing, NothingOpens, SellCreates
  <1> QED
    BY <1>2, <1>3, <1>4, <1>5 DEF CreateAnswers

\* No step forgets an order the exchange has seen.
LEMMA UsedIdsAreKept ==
  ASSUME TypeOK, [Next]_vars
  PROVE  UsedIdsKept
  <1>1. CASE Worker \/ ClosePosition
    BY <1>1, WorkerLeavesExchange DEF UsedIdsKept
  <1>2. CASE CancelAnswers \/ Environment
    BY <1>2, OthersOpenNothing DEF UsedIdsKept, NothingOpens
  <1>3. CASE CreateAnswers
    BY <1>3, CreateOpensNext, NextIdFree DEF UsedIdsKept, NothingOpens
  <1>4. CASE UNCHANGED vars
    BY <1>4 DEF vars, UsedIdsKept
  <1> QED
    BY <1>1, <1>2, <1>3, <1>4 DEF Next, Answers

(***************************************************************************)
(* OrdersTracked                                                           *)
(***************************************************************************)

\* A closing report stays true until the worker takes it, and a new one is
\* true when it is sent.
LEMMA ReportsStayTrue ==
  ASSUME TypeOK, ReportsTrue, IdsAgree, [Next]_vars
  PROVE  ReportsTrue'
  <1> DEFINE After(e) ==
        e.kind = "report" =>
          /\ ex'[e.id].side # "NONE"
          /\ e.status \in {"FILLED", "CANCELED", "EXPIRED"} => ~ ex'[e.id].live
  <1>1. queue \in Seq(Event) /\ queue' \in Seq(Event)
    BY TypeStep DEF TypeOK
  <1>2. ASSUME NEW i \in 1 .. Len(queue)
        PROVE  After(queue[i])
    <2>1. queue[i] \in Event /\ ReportTrue(queue[i])
      BY <1>1 DEF ReportsTrue
    <2>2. queue[i].kind = "report" => queue[i].id \in OrderIds
      BY <2>1 DEF Event
    <2> QED
      BY <2>1, <2>2, UsedIdsAreKept DEF ReportTrue, UsedIdsKept
  <1>3. After(Signal)
    BY DEF Signal
  <1> HIDE DEF After
  <1>4. ASSUME NEW e \in Event, After(e), queue' = Append(queue, e)
        PROVE  \A i \in 1 .. Len(queue') : After(queue'[i])
    BY <1>1, <1>2, <1>4
  <1>5. CASE Worker
    <2>1. queue # <<>> /\ (queue' = Tail(queue) \/ queue' = Append(Tail(queue), Signal))
      BY <1>5
      DEF Worker, process_ticker, process_order, process_signal, Take, TakeAndSignal,
          Waiting, SendBuy, CancelUnfilledBuy, CancelPartlyBought, ResendBuy,
          SendSell, CancelUnfilledSell, CancelPartlySold, ResendSell,
          RaiseInCondition, IgnoreTick, BuyFilledReport, BuyPartFilledReport,
          SellFilledReport, SellPartFilledReport, StatusReport, DropFill,
          CloseFilledBuy, CloseFilledSell, RaiseOnSignal
    <2>2. \A i \in 1 .. Len(queue) - 1 : Tail(queue)[i] = queue[i + 1]
      BY <1>1, <2>1
    <2>3. \A i \in 1 .. Len(queue') : After(queue'[i])
      BY <1>1, <1>2, <1>3, <2>1, <2>2, SignalIsEvent
    <2> QED
      BY <2>3 DEF ReportsTrue, ReportTrue, After
  <1>6. CASE Answers \/ ClosePosition \/ UNCHANGED vars
    <2>1. queue' = queue
      BY <1>6
      DEF Answers, CreateAnswers, CancelAnswers, ClosePosition, vars, LoseBuyAck,
          LoseSellAck, LoseAck, CreateBuyFails, CreateSellFails, CreateFails,
          BuyCreated, SellCreated, ResendNothing, CancelFails, BuyCancelled,
          UnfilledSellCancelled, PartlySoldCancelled, CancelAnswered
    <2> QED
      BY <1>2, <2>1 DEF ReportsTrue, ReportTrue, After
  <1>7. CASE Environment
    <2>1. ASSUME NEW p \in Prices, Ticker(p)
          PROVE  \A i \in 1 .. Len(queue') : After(queue'[i])
      <3>1. Tick(p) \in Event /\ After(Tick(p))
        BY TickIsEvent DEF Tick, After
      <3> QED
        BY <1>4, <2>1, <3>1 DEF Ticker, Deliver
    <2>2. ASSUME NEW q \in {0, bo.real}, ConfigureSell(q)
          PROVE  \A i \in 1 .. Len(queue') : After(queue'[i])
      BY <1>2, <2>2 DEF ConfigureSell
    <2>3. ASSUME NEW o \in OrderIds, NEW n \in 1 .. Quantity, Fill(o, n)
          PROVE  \A i \in 1 .. Len(queue') : After(queue'[i])
      <3> DEFINE cum == ex[o].cum + n
                 full == cum = ex[o].qty
                 s == IF full THEN "FILLED" ELSE "PARTIALLY_FILLED"
      <3>1. n \in Nat /\ cum \in Nat /\ s \in OrderStatus
        BY QuantityAssumption DEF TypeOK, OrderStatus
      <3>2. queue' = queue \/ queue' = Append(queue, Report(o, s, cum, n))
        BY <2>3, Zenon DEF Fill, Deliver
      <3>3. ex'[o].side = ex[o].side /\ ex'[o].live = (~ full)
        BY <2>3 DEF Fill, TypeOK
      <3>4. ex'[o].side # "NONE"
        BY <2>3, <3>3 DEF Fill, IdsAgree
      <3>5. Report(o, s, cum, n) \in Event
        BY <3>1, ReportIsEvent
      <3>6. After(Report(o, s, cum, n))
        BY <3>3, <3>4 DEF After, Report
      <3> HIDE DEF cum, s
      <3> QED
        BY <1>2, <1>4, <3>2, <3>5, <3>6
    <2>4. ASSUME NEW o \in OrderIds, Snapshot(o)
          PROVE  \A i \in 1 .. Len(queue') : After(queue'[i])
      <3>1. Report(o, "NEW", ex[o].cum, 0) \in Event
        BY ReportIsEvent DEF TypeOK, OrderStatus
      <3>2. After(Report(o, "NEW", ex[o].cum, 0))
        BY <2>4 DEF After, Report, Snapshot, IdsAgree
      <3> QED
        BY <1>4, <2>4, <3>1, <3>2 DEF Snapshot, Deliver
    <2>5. ASSUME NEW o \in OrderIds, NEW s \in {"CANCELED", "EXPIRED"}, Withdraw(o, s)
          PROVE  \A i \in 1 .. Len(queue') : After(queue'[i])
      <3>1. Report(o, s, ex[o].cum, 0) \in Event
        BY ReportIsEvent DEF TypeOK, OrderStatus
      <3>2. After(Report(o, s, ex[o].cum, 0))
        BY <2>5, ClosedType DEF After, Report, Withdraw, IdsAgree
      <3> QED
        BY <1>4, <2>5, <3>1, <3>2 DEF Withdraw, Deliver
    <2>6. \A i \in 1 .. Len(queue') : After(queue'[i])
      BY <1>7, <2>1, <2>2, <2>3, <2>4, <2>5 DEF Environment
    <2> QED
      BY <2>6 DEF ReportsTrue, ReportTrue, After
  <1> QED
    BY <1>5, <1>6, <1>7 DEF Next

\* The orders the worker's own steps and the cancellations leave in bo and so
\* have the ids they had, or none.
LEMMA IdsKept ==
  ASSUME TypeOK, Worker \/ ClosePosition \/ CancelAnswers \/ Environment
  PROVE  bo'.id \in {bo.id, NoId} /\ so'.id \in {so.id, NoId}
  <1> USE DEF TypeOK
  <1>1. CASE process_ticker
    <2>1. [so EXCEPT !.qty = SellQuantity].id = so.id
      BY DEF SellOrder
    <2>2. CASE SendSell
      BY <2>1, <2>2 DEF SendSell
    <2>3. CASE SendBuy
      BY <2>3 DEF SendBuy, NewBuyOrder
    <2> QED
      BY <1>1, <2>2, <2>3 DEF process_ticker, CancelUnfilledBuy, CancelPartlyBought,
         ResendBuy, CancelUnfilledSell, CancelPartlySold, ResendSell,
         RaiseInCondition, IgnoreTick, Ignore
  <1>2. CASE process_order
    <2>1. Waiting("report")
      BY <1>2 DEF process_order, Take, TakeAndSignal, BuyFilledReport,
         BuyPartFilledReport, SellFilledReport, SellPartFilledReport,
         StatusReport, DropFill
    <2>2. /\ report.status \in OrderStatus /\ report.cum \in Nat
          /\ bo \in BuyOrder /\ so \in SellOrder
      BY <2>1, ReportFields
    <2>3. CASE BuyFilledReport \/ SellFilledReport \/ SellPartFilledReport
      BY <2>2, <2>3, BookedFields
      DEF BuyFilledReport, SellFilledReport, SellPartFilledReport, OrderStatus
    <2>4. CASE BuyPartFilledReport
      <3>1. Booked(bo, "PARTIALLY_FILLED") \in BuyOrder
            /\ Booked(bo, "PARTIALLY_FILLED").id = bo.id
        BY <2>2, BookedFields DEF OrderStatus
      <3> QED
        BY <2>4, <3>1 DEF BuyPartFilledReport, BuyOrder
    <2>5. CASE StatusReport
      BY <2>2, <2>5 DEF StatusReport, Restatus, BuyOrder, SellOrder
    <2>6. CASE DropFill
      BY <2>6 DEF DropFill, Ignore
    <2> QED
      BY <1>2, <2>3, <2>4, <2>5, <2>6 DEF process_order
  <1>3. CASE process_signal \/ ClosePosition
    BY <1>3 DEF process_signal, CloseFilledBuy, CloseFilledSell, RaiseOnSignal,
       ClosePosition
  <1>4. CASE CancelAnswers
    <2>1. Cancelled(bo).id = bo.id /\ Cancelled(so).id = so.id
      BY DEF Cancelled, BuyOrder, SellOrder
    <2> QED
      BY <1>4, <2>1 DEF CancelAnswers, CancelFails, BuyCancelled,
         UnfilledSellCancelled, PartlySoldCancelled
  <1>5. CASE Environment
    BY <1>5 DEF Environment, Ticker, ConfigureSell, Fill, Snapshot, Withdraw,
       NewSellOrder
  <1> QED
    BY <1>1, <1>2, <1>3, <1>4, <1>5 DEF Worker

\* Ids keep naming orders of their side, and only used ids are live or lost.
LEMMA IdsStayAgreed ==
  ASSUME TypeOK, IdsAgree, [Next]_vars
  PROVE  IdsAgree'
  <1>1. bo.id \in OrderIds \cup {NoId} /\ so.id \in OrderIds \cup {NoId}
    BY DEF TypeOK, BuyOrder, SellOrder
  <1>2. UsedIdsKept
    BY UsedIdsAreKept
  <1>3. CASE Worker \/ ClosePosition \/ CancelAnswers \/ Environment
    <2>1. bo'.id \in {bo.id, NoId} /\ so'.id \in {so.id, NoId}
      BY <1>3, IdsKept
    <2>2. NothingOpens
      BY <1>3, WorkerLeavesExchange, OthersOpenNothing DEF NothingOpens
    <2> QED
      BY <1>1, <2>1, <2>2 DEF IdsAgree, NothingOpens
  <1>4. CASE CreateAnswers
    <2>1. \A o \in OrderIds : ex'[o].live \/ o \in lostAck' => ex'[o].side # "NONE"
      BY <1>4, CreateOpensNext, NextIdFree DEF IdsAgree, NothingOpens
    <2>2. CASE BuyCreated
      <3>1. bo'.id = NextId /\ so' = so /\ NextId \in OrderIds
        BY <2>2, SentFields, NextIdFree DEF BuyCreated, TypeOK
      <3>2. ex'[NextId].side = "BUY"
        BY <2>2, <3>1 DEF BuyCreated, Placed, TypeOK
      <3> QED
        BY <1>1, <1>2, <2>1, <3>1, <3>2 DEF IdsAgree, UsedIdsKept
    <2>3. CASE SellCreated
      <3>1. so'.id = NextId /\ bo' = bo /\ NextId \in OrderIds
        BY <2>3, SentFields, NextIdFree DEF SellCreated, TypeOK
      <3>2. ex'[NextId].side = "SELL"
        BY <2>3, <3>1 DEF SellCreated, Placed, TypeOK
      <3> QED
        BY <1>1, <1>2, <2>1, <3>1, <3>2 DEF IdsAgree, UsedIdsKept
    <2>4. CASE ~ (BuyCreated \/ SellCreated)
      <3>1. bo' = bo /\ so' = so
        BY <1>4, <2>4 DEF CreateAnswers, LoseBuyAck, LoseSellAck, LoseAck,
           CreateBuyFails, CreateSellFails, CreateFails, ResendNothing
      <3> QED
        BY <1>1, <1>2, <2>1, <3>1 DEF IdsAgree, UsedIdsKept
    <2> QED
      BY <2>2, <2>3, <2>4
  <1>5. CASE UNCHANGED vars
    BY <1>5 DEF vars, IdsAgree
  <1> QED
    BY <1>3, <1>4, <1>5 DEF Next, Answers

\* Without a configured sell no order of it is sent, cancelled or reported.
LEMMA NoSellStaysUnsent ==
  ASSUME TypeOK, NoSellUnlessSet, [Next]_vars
  PROVE  NoSellUnlessSet'
  <1> SUFFICES ASSUME ~ sellSet'
               PROVE  /\ so'.id = NoId /\ so'.status = "NEW" /\ sell' = "NEW"
                      /\ pc' \notin SellCreates \cup SellCancels
    BY DEF NoSellUnlessSet
  <1>1. CASE UNCHANGED vars
    BY <1>1 DEF vars, NoSellUnlessSet
  <1>2. CASE ~ UNCHANGED vars
    <2>1. sellSet' = sellSet
      BY <1>2 DEF Next, Worker, process_ticker, process_order, process_signal,
         ClosePosition, Answers, CreateAnswers, CancelAnswers, Environment,
         SendBuy, CancelUnfilledBuy, CancelPartlyBought, ResendBuy, SendSell,
         CancelUnfilledSell, CancelPartlySold, ResendSell, RaiseInCondition,
         IgnoreTick, Enter, Ignore, BuyFilledReport, BuyPartFilledReport,
         SellFilledReport, SellPartFilledReport, StatusReport, DropFill,
         CloseFilledBuy, CloseFilledSell, RaiseOnSignal, LoseBuyAck, LoseSellAck,
         LoseAck, CreateBuyFails, CreateSellFails, CreateFails, BuyCreated,
         SellCreated, ResendNothing, CancelFails, BuyCancelled,
         UnfilledSellCancelled, PartlySoldCancelled, CancelAnswered, Ticker,
         ConfigureSell, Fill, Snapshot, Withdraw
    <2>2. /\ ~ sellSet /\ so.id = NoId /\ so.status = "NEW" /\ sell = "NEW"
          /\ pc \notin SellCreates \cup SellCancels
      BY <2>1 DEF NoSellUnlessSet
    <2>3. CASE process_ticker
      <3>1. Waiting("tick")
        BY <2>3 DEF process_ticker, Take, SendBuy, CancelUnfilledBuy,
           CancelPartlyBought, ResendBuy, SendSell, CancelUnfilledSell,
           CancelPartlySold, ResendSell, RaiseInCondition, IgnoreTick
      <3>2. price \in Nat \ {0}
        <4>1. Head(queue) \in Event /\ Head(queue).kind = "tick"
          BY <3>1 DEF Waiting, TypeOK
        <4>2. Head(queue).price \in Prices
          BY <4>1 DEF Event
        <4> QED
          BY <4>2, PriceAssumption DEF price
      <3>3. ~ CanCancelUnfilledSell /\ ~ CanCancelPartlySold
        BY <2>2, <3>2 DEF CanCancelUnfilledSell, CanCancelPartlySold, CancelSell
      <3>4. ~ CanResendSell /\ ~ CanResumeSelling
        BY <2>2 DEF CanResendSell, CanResumeSelling
      <3>5. [so EXCEPT !.qty = SellQuantity].id = so.id
            /\ [so EXCEPT !.qty = SellQuantity].status = so.status
        BY DEF TypeOK, SellOrder
      <3> QED
        BY <2>2, <2>3, <3>3, <3>4, <3>5
        DEF process_ticker, SendBuy, CancelUnfilledBuy, CancelPartlyBought,
            ResendBuy, SendSell, CancelUnfilledSell, CancelPartlySold, ResendSell,
            RaiseInCondition, IgnoreTick, Enter, Ignore, Die, SellCreates,
            SellCancels
    <2>4. CASE process_order
      <3>1. Waiting("report")
        BY <2>4 DEF process_order, Take, TakeAndSignal, BuyFilledReport,
           BuyPartFilledReport, SellFilledReport, SellPartFilledReport,
           StatusReport, DropFill
      <3>2. report.id # so.id
        BY <2>2, <3>1, ReportFields DEF NoId, OrderIds
      <3> QED
        BY <2>2, <2>4, <3>2
        DEF process_order, BuyFilledReport, BuyPartFilledReport, SellFilledReport,
            SellPartFilledReport, StatusReport, DropFill, Restatus, Ignore
    <2>5. CASE process_signal \/ ClosePosition
      BY <2>2, <2>5
      DEF process_signal, CloseFilledBuy, CloseFilledSell, RaiseOnSignal,
          ClosePosition, Die, SellCreates, SellCancels
    <2>6. CASE CreateAnswers
      BY <2>2, <2>6
      DEF CreateAnswers, LoseBuyAck, LoseSellAck, LoseAck, CreateBuyFails,
          CreateSellFails, CreateFails, BuyCreated, SellCreated, ResendNothing,
          AwaitsCreateBuy, AwaitsCreateSell, Die, SellCreates, SellCancels
    <2>7. CASE CancelAnswers
      BY <2>2, <2>7
      DEF CancelAnswers, CancelFails, BuyCancelled, UnfilledSellCancelled,
          PartlySoldCancelled, CancelAnswered, AwaitsCancel, Die, SellCreates,
          SellCancels
    <2>8. CASE Environment
      BY <2>1, <2>2, <2>8
      DEF Environment, Ticker, ConfigureSell, Fill, Snapshot, Withdraw
    <2> QED
      BY <1>2, <2>3, <2>4, <2>5, <2>6, <2>7, <2>8 DEF Next, Worker, Answers
  <1> QED
    BY <1>1, <1>2

\* While nothing is believed open and cancellable, nothing the strategy knows
\* of works.
LEMMA NothingWorks ==
  ASSUME Tracked, ~ (BuyWorks /\ Open(bo)), ~ (SellWorks /\ Open(so))
  PROVE  LiveKnown = {}
  BY DEF Tracked, LiveKnown

\* If no order opens and none is working, none works afterwards.
LEMMA NothingWorksAfter ==
  ASSUME LiveKnown = {}, NothingOpens
  PROVE  LiveKnown' = {} /\ Tracked'
  BY DEF NothingOpens, LiveKnown, Tracked

\* The working order stays the one the strategy would cancel: an order is sent
\* only from states and callbacks in which none works, and the strategy gives
\* up on an order only when the exchange has closed it.
LEMMA OrdersStayTracked ==
  ASSUME TypeOK, KeepsTrack, NoneHidden, [Next]_vars
  PROVE  Tracked'
  <1> USE DEF KeepsTrack
  <1>1. ASSUME LiveKnown' \subseteq LiveKnown,
               bo'.id = bo.id, so'.id = so.id, Open(bo) => Open(bo)',
               Open(so) => Open(so)', BuyWorks => BuyWorks', SellWorks => SellWorks'
        PROVE  Tracked'
    BY <1>1 DEF Tracked
  <1>2. NothingOpens => LiveKnown' \subseteq LiveKnown
    BY DEF NothingOpens, LiveKnown
  <1>3. CASE process_ticker
    <2>1. NothingOpens /\ pc = "idle"
      <3>1. Waiting("tick")
        BY <1>3 DEF process_ticker, Take, SendBuy, CancelUnfilledBuy,
           CancelPartlyBought, ResendBuy, SendSell, CancelUnfilledSell,
           CancelPartlySold, ResendSell, RaiseInCondition, IgnoreTick
      <3> QED
        BY <1>3, <3>1, WorkerLeavesExchange DEF Worker, NothingOpens, Waiting, Running
    <2>2. CASE state \notin {"BUYING", "SELLING"}
      BY <2>1, <2>2, NothingWorks, NothingWorksAfter
      DEF BuyWorks, SellWorks, BuyCancels, SellCancels
    <2>3. CASE state = "BUYING"
      <3>1. CASE CancelUnfilledBuy \/ CancelPartlyBought
        <4>1. bo' = bo /\ so' = so /\ pc' \in BuyCancels
          BY <3>1 DEF CancelUnfilledBuy, CancelPartlyBought, Enter, BuyCancels
        <4>2. ~ SellWorks
          BY <2>1, <2>3 DEF SellWorks, SellCancels
        <4> QED
          BY <1>1, <1>2, <2>1, <4>1, <4>2 DEF BuyWorks, Open
      <3>2. CASE IgnoreTick
        BY <1>1, <1>2, <2>1, <3>2 DEF IgnoreTick, Ignore, BuyWorks, SellWorks, Open
      <3> QED
        BY <1>3, <2>3, <3>1, <3>2
        DEF process_ticker, SendBuy, CanSendBuy, ResendBuy, CanResendBuy,
            CanResumeBuying, SendSell, CanSellPartlyBought, CanSellBought,
            CancelUnfilledSell, CanCancelUnfilledSell, CancelPartlySold,
            CanCancelPartlySold, ResendSell, CanResendSell, CanResumeSelling,
            RaiseInCondition, ConditionRaises
    <2>4. CASE state = "SELLING"
      <3>1. CASE CancelUnfilledSell \/ CancelPartlySold
        <4>1. bo' = bo /\ so' = so /\ pc' \in SellCancels
          BY <3>1 DEF CancelUnfilledSell, CancelPartlySold, Enter, SellCancels
        <4>2. ~ BuyWorks
          BY <2>1, <2>4 DEF BuyWorks, BuyCancels
        <4> QED
          BY <1>1, <1>2, <2>1, <4>1, <4>2 DEF SellWorks, Open
      <3>2. CASE IgnoreTick
        BY <1>1, <1>2, <2>1, <3>2 DEF IgnoreTick, Ignore, BuyWorks, SellWorks, Open
      <3> QED
        BY <1>3, <2>4, <3>1, <3>2
        DEF process_ticker, SendBuy, CanSendBuy, ResendBuy, CanResendBuy,
            CanResumeBuying, SendSell, CanSellPartlyBought, CanSellBought,
            CancelUnfilledBuy, CanCancelUnfilledBuy, CancelPartlyBought,
            CanCancelPartlyBought, ResendSell, CanResendSell, CanResumeSelling,
            RaiseInCondition, ConditionRaises
    <2> QED
      BY <2>2, <2>3, <2>4
  <1>4. CASE process_order
    <2>1. Waiting("report")
      BY <1>4 DEF process_order, Take, TakeAndSignal, BuyFilledReport,
         BuyPartFilledReport, SellFilledReport, SellPartFilledReport,
         StatusReport, DropFill
    <2>2. /\ report.id \in OrderIds /\ report.status \in OrderStatus
          /\ report.cum \in Nat /\ bo \in BuyOrder /\ so \in SellOrder
          /\ pc = "idle"
      BY <2>1, ReportFields DEF TypeOK, Waiting, Running
    <2>3. NothingOpens
      BY <1>4, WorkerLeavesExchange DEF Worker, NothingOpens
    <2>4. report.status \in {"FILLED", "CANCELED", "EXPIRED"} => ~ ex[report.id].live
      <3>1. ReportTrue(queue[1]) /\ queue[1] = report
        BY <2>1 DEF ReportsTrue, Waiting, report, TypeOK
      <3> QED
        BY <2>1, <3>1 DEF ReportTrue, Waiting, report
    <2>5. CASE BuyFilledReport
      <3>1. ~ SellWorks /\ \A o \in LiveKnown : o # bo.id
        BY <2>2, <2>4, <2>5 DEF BuyFilledReport, SellWorks, SellCancels, LiveKnown
      <3>2. LiveKnown = {}
        BY <3>1 DEF Tracked, LiveKnown
      <3> QED
        BY <2>3, <3>2, NothingWorksAfter
    <2>6. CASE SellFilledReport
      <3>1. ~ BuyWorks /\ \A o \in LiveKnown : o # so.id
        BY <2>2, <2>4, <2>6 DEF SellFilledReport, BuyWorks, BuyCancels, LiveKnown
      <3>2. LiveKnown = {}
        BY <3>1 DEF Tracked, LiveKnown
      <3> QED
        BY <2>3, <3>2, NothingWorksAfter
    <2>7. CASE BuyPartFilledReport
      <3>1. /\ Booked(bo, "PARTIALLY_FILLED") \in BuyOrder
            /\ Booked(bo, "PARTIALLY_FILLED").id = bo.id
            /\ Booked(bo, "PARTIALLY_FILLED").status = "PARTIALLY_FILLED"
        BY <2>2, BookedFields DEF OrderStatus
      <3>2. bo'.id = bo.id /\ bo'.status = "PARTIALLY_FILLED"
        BY <2>7, <3>1 DEF BuyPartFilledReport, BuyOrder
      <3> QED
        BY <1>1, <1>2, <2>3, <2>7, <3>2
        DEF BuyPartFilledReport, Open, BuyWorks, SellWorks
    <2>8. CASE SellPartFilledReport
      <3>1. so'.id = so.id /\ so'.status = "PARTIALLY_FILLED"
        BY <2>2, <2>8, BookedFields DEF SellPartFilledReport, OrderStatus
      <3> QED
        BY <1>1, <1>2, <2>3, <2>8, <3>1
        DEF SellPartFilledReport, Open, BuyWorks, SellWorks
    <2>9. CASE StatusReport
      <3>1. bo'.id = bo.id /\ so'.id = so.id
        BY <2>2, <2>9 DEF StatusReport, Restatus, BuyOrder, SellOrder
      <3>2. \A o \in LiveKnown : /\ o = bo.id /\ Open(bo) => Open(bo)'
                                 /\ o = so.id /\ Open(so) => Open(so)'
        BY <2>2, <2>4, <2>9
        DEF StatusReport, Restatus, LiveKnown, Open, BuyOrder, SellOrder
      <3>3. (BuyWorks => BuyWorks') /\ (SellWorks => SellWorks')
        BY <2>9 DEF StatusReport, BuyWorks, SellWorks
      <3> QED
        BY <1>2, <2>3, <3>1, <3>2, <3>3 DEF Tracked
    <2>10. CASE DropFill
      BY <1>1, <1>2, <2>3, <2>10 DEF DropFill, Ignore, BuyWorks, SellWorks, Open
    <2> QED
      BY <1>4, <2>5, <2>6, <2>7, <2>8, <2>9, <2>10 DEF process_order
  <1>5. CASE process_signal
    <2>1. NothingOpens
      BY <1>5, WorkerLeavesExchange DEF Worker, NothingOpens
    <2>2. ~ (BuyWorks /\ Open(bo)) /\ ~ (SellWorks /\ Open(so))
      BY <1>5 DEF process_signal, CloseFilledBuy, CloseFilledSell, RaiseOnSignal,
         Take, Waiting, Running, BuyWorks, SellWorks, Open, BuyCancels, SellCancels
    <2> QED
      BY <2>1, <2>2, NothingWorks, NothingWorksAfter
  <1>6. CASE CreateAnswers
    <2>1. LiveKnown = {}
      BY <1>6, CreateOpensNext, NothingWorks
      DEF BuyWorks, SellWorks, BuyCreates, SellCreates, BuyCancels, SellCancels
    <2>2. LiveKnown' \subseteq {NextId}
      BY <1>6, <2>1, CreateOpensNext DEF LiveKnown, NothingOpens
    <2>3. CASE LoseBuyAck \/ LoseSellAck
      BY <2>2, <2>3 DEF LoseBuyAck, LoseSellAck, LoseAck, LiveKnown, Tracked
    <2>4. CASE BuyCreated
      BY <2>2, <2>4, NextIdFree, SentFields
      DEF BuyCreated, Tracked, Open, BuyWorks, TypeOK
    <2>5. CASE SellCreated
      BY <2>2, <2>5, NextIdFree, SentFields
      DEF SellCreated, Tracked, Open, SellWorks, TypeOK
    <2>6. CASE CreateBuyFails \/ CreateSellFails \/ ResendNothing
      BY <2>1, <2>6 DEF CreateBuyFails, CreateSellFails, CreateFails, ResendNothing,
         LiveKnown, Tracked
    <2> QED
      BY <1>6, <2>3, <2>4, <2>5, <2>6 DEF CreateAnswers
  <1>7. CASE CancelAnswers
    <2>1. NothingOpens
      BY <1>7, OthersOpenNothing
    <2>2. CASE CancelFails
      BY <1>1, <1>2, <2>1, <2>2 DEF CancelFails, Die, BuyWorks, SellWorks, Open
    <2>3. ASSUME CancelAnswered, pc \in BuyCancels \cup SellCancels
          PROVE  LiveKnown' = {}
      <3>1. \A o \in LiveKnown : o = Order.id /\ Cancellable(Order)
        BY <2>3 DEF Tracked, LiveKnown, Order, Cancellable, Open, BuyWorks,
           SellWorks, BuyCancels, SellCancels, OrderIds, NoId
      <3>2. \A o \in LiveKnown : ~ ex'[o].live
        BY <2>3, <3>1, ClosedType DEF CancelAnswered, LiveKnown
      <3> QED
        BY <1>2, <2>1, <3>2 DEF LiveKnown
    <2>4. CASE BuyCancelled \/ UnfilledSellCancelled \/ PartlySoldCancelled
      <3>1. LiveKnown' = {}
        BY <2>3, <2>4 DEF BuyCancelled, UnfilledSellCancelled, PartlySoldCancelled,
           SellCancels
      <3> QED
        BY <3>1 DEF Tracked
    <2> QED
      BY <1>7, <2>2, <2>4 DEF CancelAnswers
  <1>8. CASE Environment
    <2>1. NothingOpens
      BY <1>8, OthersOpenNothing
    <2>2. ASSUME NEW q \in {0, bo.real}, ConfigureSell(q)
          PROVE  Tracked'
      <3>1. \A o \in LiveKnown : o = bo.id /\ Open(bo) /\ BuyWorks
        BY <2>2 DEF ConfigureSell, NoneHidden, Tracked, LiveKnown, OrderIds, NoId
      <3>2. bo' = bo /\ BuyWorks' = BuyWorks
        BY <2>2 DEF ConfigureSell, BuyWorks
      <3> QED
        BY <1>2, <2>1, <3>1, <3>2 DEF Tracked, Open
    <2>3. CASE ~ \E q \in {0, bo.real} : ConfigureSell(q)
      <3>1. bo' = bo /\ so' = so /\ pc' = pc /\ state' = state
        BY <1>8, <2>3 DEF Environment, Ticker, Fill, Snapshot, Withdraw
      <3> QED
        BY <1>1, <1>2, <2>1, <3>1 DEF BuyWorks, SellWorks, Open
    <2> QED
      BY <2>2, <2>3
  <1>9. CASE ClosePosition \/ UNCHANGED vars
    <2>1. /\ bo' = bo /\ so' = so /\ pc' = pc /\ state' = state
          /\ ex' = ex /\ lostAck' = lostAck
      BY <1>9 DEF ClosePosition, vars
    <2> QED
      BY <1>1, <2>1 DEF LiveKnown, BuyWorks, SellWorks, Open
  <1> QED
    BY <1>3, <1>4, <1>5, <1>6, <1>7, <1>8, <1>9 DEF Next, Worker, Answers

(***************************************************************************)
(* One working order                                                       *)
(***************************************************************************)

\* A second order could only come from a create answer, and then none works.
LEMMA OneStaysWorking ==
  ASSUME IInv, [Next]_vars
  PROVE  OneWorkingOrder'
  <1> USE DEF IInv, KeepsTrack
  <1>1. CASE CreateAnswers
    <2>1. LiveKnown = {}
      BY <1>1, CreateOpensNext, NothingWorks
      DEF BuyWorks, SellWorks, BuyCreates, SellCreates, BuyCancels, SellCancels
    <2>2. LiveKnown' \subseteq {NextId}
      BY <1>1, <2>1, CreateOpensNext DEF LiveKnown, NothingOpens
    <2> QED
      BY <2>2 DEF OneWorkingOrder
  <1>2. CASE ~ CreateAnswers
    <2>1. NothingOpens
      BY <1>2, WorkerLeavesExchange, OthersOpenNothing
      DEF Next, Answers, NothingOpens, vars
    <2> QED
      BY <2>1 DEF NothingOpens, LiveKnown, OneWorkingOrder
  <1> QED
    BY <1>1, <1>2

LEMMA TrackingInit == Init => IInv /\ NoSellUnlessSet
  <1> SUFFICES ASSUME Init PROVE IInv /\ NoSellUnlessSet
    OBVIOUS
  <1>1. /\ LiveKnown = {} /\ queue = <<>> /\ lostAck = {} /\ pc = "idle"
        /\ \A o \in OrderIds : ~ ex[o].live
    BY DEF Init, CommonInit, Unplaced, LiveKnown
  <1>2. bo.id = NoId /\ so.id = NoId
    BY DEF Init, InitBuy, InitInventorySell, NewBuyOrder, NoBuyOrder, NewSellOrder
  <1>3. NoSellUnlessSet
    BY <1>1 DEF Init, InitBuy, InitInventorySell, NoSellUnlessSet, NewSellOrder,
       SellCreates, SellCancels
  <1> QED
    BY <1>1, <1>2, <1>3, TypeInit
    DEF IInv, OneWorkingOrder, KeepsTrack, Tracked, ReportsTrue, IdsAgree

\* No step breaks the invariant in a state that hides no sell order.
LEMMA IInvStep ==
  ASSUME IInv, NoneHidden, [Next]_vars
  PROVE  IInv'
  <1>1. TypeOK /\ OneWorkingOrder /\ KeepsTrack
    BY DEF IInv
  <1>2. Tracked /\ ReportsTrue /\ IdsAgree
    BY <1>1 DEF KeepsTrack
  <1> QED
    BY <1>1, <1>2, TypeStep, OneStaysWorking, OrdersStayTracked, ReportsStayTrue,
       IdsStayAgreed
    DEF IInv, KeepsTrack

LEMMA TrackingStep == IInv /\ NoSellUnlessSet /\ [Next]_vars => (IInv /\ NoSellUnlessSet)'
  <1> SUFFICES ASSUME IInv, NoSellUnlessSet, [Next]_vars PROVE (IInv /\ NoSellUnlessSet)'
    OBVIOUS
  <1>1. TypeOK /\ NoneHidden
    BY DEF IInv, NoSellUnlessSet, NoneHidden
  <1> QED
    BY <1>1, IInvStep, NoSellStaysUnsent

\* Every order the exchange works and the strategy knows is the one it would
\* cancel, in a state in which it will: for every quantity, price, bound and
\* interleaving of tickers, fills, cancellations and faults.
THEOREM Tracking == Spec => []OrdersTracked
  <1>1. IInv /\ NoSellUnlessSet => OrdersTracked
    BY DEF IInv, KeepsTrack, OrdersTracked
  <1> QED
    BY <1>1, TrackingInit, TrackingStep, PTL DEF Spec

\* The strategy never has two working orders it knows of.
THEOREM OneOrderWorks == Spec => []OneWorkingOrder
  <1>1. IInv => OneWorkingOrder
    BY DEF IInv
  <1> QED
    BY <1>1, TrackingInit, TrackingStep, PTL DEF Spec

(***************************************************************************)
(* A position reported as sold                                             *)
(***************************************************************************)

\* Only the worker, with the fill of a whole sell, and the executor after it
\* change what has been reported.
LEMMA OthersReportNothing ==
  ASSUME Next, ~ CloseFilledSell, ~ ClosePosition
  PROVE  life' = life
  BY DEF Next, Worker, process_ticker, process_order, process_signal, Answers,
     CreateAnswers, CancelAnswers, Environment, SendBuy, CancelUnfilledBuy,
     CancelPartlyBought, ResendBuy, SendSell, CancelUnfilledSell,
     CancelPartlySold, ResendSell, RaiseInCondition, IgnoreTick, Enter, Ignore,
     BuyFilledReport, BuyPartFilledReport, SellFilledReport,
     SellPartFilledReport, StatusReport, DropFill, CloseFilledBuy,
     RaiseOnSignal, LoseBuyAck, LoseSellAck, LoseAck, CreateBuyFails,
     CreateSellFails, CreateFails, BuyCreated, SellCreated, ResendNothing,
     CancelFails, BuyCancelled, UnfilledSellCancelled, PartlySoldCancelled,
     CancelAnswered, Ticker, ConfigureSell, Fill, Snapshot, Withdraw

\* No ticker has a transition out of SOLD.
LEMMA SoldIgnoresTickers ==
  ASSUME state = "SOLD", process_ticker
  PROVE  state' = state /\ pc' = pc
  BY DEF process_ticker, SendBuy, CancelUnfilledBuy, CancelPartlyBought,
     ResendBuy, SendSell, CancelUnfilledSell, CancelPartlySold, ResendSell,
     RaiseInCondition, IgnoreTick, Ignore, CanSendBuy, CanCancelUnfilledBuy,
     CanCancelPartlyBought, CanResendBuy, CanSellPartlyBought, CanSellBought,
     CanCancelUnfilledSell, CanCancelPartlySold, CanResendSell,
     CanResumeSelling, CanResumeBuying, ConditionRaises

\* Once the position is over, the worker does nothing that could change it.
LEMMA OverStaysQuiet ==
  ASSUME TypeOK, OverIsQuiet, [Next]_vars
  PROVE  OverIsQuiet'
  <1> SUFFICES ASSUME life' # "running"
               PROVE  state' = "SOLD" /\ pc' \in {"idle", "dead"}
    BY DEF OverIsQuiet
  <1>1. CASE CloseFilledSell
    BY <1>1 DEF CloseFilledSell, Take, Waiting, Running, OverIsQuiet
  <1>2. CASE ClosePosition
    BY <1>2 DEF ClosePosition, OverIsQuiet
  <1>3. CASE UNCHANGED vars
    BY <1>3 DEF vars, OverIsQuiet
  <1>4. CASE Next /\ ~ CloseFilledSell /\ ~ ClosePosition
    <2>1. state = "SOLD" /\ pc \in {"idle", "dead"}
      BY <1>4, OthersReportNothing DEF OverIsQuiet
    <2>2. CASE process_ticker
      BY <2>1, <2>2, SoldIgnoresTickers
    <2>3. CASE process_order
      BY <2>1, <2>3 DEF process_order, BuyFilledReport, BuyPartFilledReport,
         SellFilledReport, SellPartFilledReport, StatusReport, DropFill, Ignore
    <2>4. CASE process_signal
      BY <1>4, <2>1, <2>4 DEF process_signal, CloseFilledBuy, RaiseOnSignal, Die
    <2>5. CASE Environment
      BY <2>1, <2>5 DEF Environment, Ticker, ConfigureSell, Fill, Snapshot, Withdraw
    <2>6. ~ CreateAnswers
      BY <2>1, CreateOpensNext DEF BuyCreates, SellCreates
    <2>7. ~ CancelAnswers
      BY <2>1 DEF CancelAnswers, CancelFails, BuyCancelled, UnfilledSellCancelled,
         PartlySoldCancelled, AwaitsCancel, BuyCancels, SellCancels
    <2> QED
      BY <1>4, <2>2, <2>3, <2>4, <2>5, <2>6, <2>7 DEF Next, Worker, Answers
  <1> QED
    BY <1>1, <1>2, <1>3, <1>4

(***************************************************************************)
(* Every step is one of the desk's                                         *)
(***************************************************************************)

\* The environment and the cancellations touch one order.
LEMMA OneOrderChanges ==
  ASSUME TypeOK, CancelAnswers \/ Environment
  PROVE  ex' = ex \/ \E o \in OrderIds : \A p \in OrderIds \ {o} : ex'[p] = ex[p]
  <1>1. CASE CancelAnswers
    <2>1. Cancellable(Order) => Order.id \in OrderIds
      BY DEF Cancellable, Order, TypeOK, BuyOrder, SellOrder
    <2>2. ex' = ex \/ (Cancellable(Order) /\ ex' = Closed(Order.id))
      BY <1>1 DEF CancelAnswers, CancelFails, BuyCancelled, UnfilledSellCancelled,
         PartlySoldCancelled, CancelAnswered
    <2> QED
      BY <2>1, <2>2 DEF Closed, TypeOK
  <1>2. CASE Environment
    BY <1>2 DEF Environment, Ticker, ConfigureSell, Fill, Snapshot, Withdraw,
       Closed, TypeOK
  <1> QED
    BY <1>1, <1>2

\* An order that is closed, or none, while nothing opens.
LEMMA ClosesAtMostOne ==
  ASSUME NothingOpens, life' = life,
         ex' = ex \/ \E o \in OrderIds : \A p \in OrderIds \ {o} : ex'[p] = ex[p]
  PROVE  UNCHANGED <<DeskOrder, life # "running">> \/ \E o \in OrderIds : Desk!Close(o)
  <1>1. CASE ex' = ex
    BY <1>1 DEF NothingOpens, DeskOrder
  <1>2. ASSUME NEW o \in OrderIds, \A p \in OrderIds \ {o} : ex'[p] = ex[p]
        PROVE  UNCHANGED <<DeskOrder, life # "running">> \/ Desk!Close(o)
    <2>1. \A p \in OrderIds \ {o} : DeskOrder'[p] = DeskOrder[p]
      BY <1>2 DEF NothingOpens, DeskOrder
    <2>2. \/ DeskOrder'[o] = DeskOrder[o]
          \/ DeskOrder[o] = "working" /\ DeskOrder'[o] = "closed"
      BY DEF NothingOpens, DeskOrder
    <2>3. /\ DeskOrder = [p \in OrderIds |-> DeskOrder[p]]
          /\ DeskOrder' = [p \in OrderIds |-> DeskOrder'[p]]
      BY DEF DeskOrder
    <2>4. CASE DeskOrder'[o] = DeskOrder[o]
      <3>1. DeskOrder' = DeskOrder
        BY <2>1, <2>3, <2>4
      <3> QED
        BY <3>1
    <2>5. CASE DeskOrder[o] = "working" /\ DeskOrder'[o] = "closed"
      <3>1. DeskOrder' = [DeskOrder EXCEPT ![o] = "closed"]
        BY <2>1, <2>3, <2>5
      <3> QED
        BY <2>5, <3>1 DEF Desk!Close
    <2> QED
      BY <2>2, <2>4, <2>5
  <1> QED
    BY <1>1, <1>2

\* An order whose id arrives is sent while none works; one whose id is lost is
\* nobody's.
LEMMA SendsAtMostOne ==
  ASSUME IInv, OverIsQuiet, CreateAnswers
  PROVE  UNCHANGED <<DeskOrder, life # "running">> \/ \E o \in OrderIds : Desk!Send(o)
  <1>1. TypeOK /\ Tracked /\ IdsAgree
    BY DEF IInv, KeepsTrack
  <1>2. pc \in BuyCreates \cup SellCreates
    BY <1>1, CreateOpensNext
  <1>3. life = "running"
    BY <1>2 DEF OverIsQuiet, BuyCreates, SellCreates
  <1>4. LiveKnown = {}
    BY <1>1, <1>2, NothingWorks
    DEF BuyWorks, SellWorks, BuyCreates, SellCreates, BuyCancels, SellCancels
  <1>5. life' = life
    BY DEF CreateAnswers, LoseBuyAck, LoseSellAck, LoseAck, CreateBuyFails,
       CreateSellFails, CreateFails, BuyCreated, SellCreated, ResendNothing
  <1>6. CASE CreateBuyFails \/ CreateSellFails \/ ResendNothing
    BY <1>5, <1>6 DEF CreateBuyFails, CreateSellFails, CreateFails, ResendNothing,
       DeskOrder
  <1>7. CASE LoseBuyAck \/ LoseSellAck
    <2>1. /\ FreeIds # {} /\ lostAck' = lostAck \cup {NextId}
          /\ \A p \in OrderIds \ {NextId} : ex'[p] = ex[p]
      BY <1>1, <1>7, NextIdFree DEF LoseBuyAck, LoseSellAck, LoseAck, Placed, TypeOK
    <2>2. DeskOrder' = DeskOrder
      BY <2>1, NextIdFree DEF DeskOrder
    <2> QED
      BY <1>5, <2>2
  <1>8. CASE BuyCreated \/ SellCreated
    <2>1. NextId \in OrderIds /\ ex[NextId].side = "NONE" /\ NextId \notin lostAck
      BY <1>1, <1>8, NextIdFree DEF BuyCreated, SellCreated, IdsAgree
    <2>2. /\ lostAck' = lostAck
          /\ \A p \in OrderIds \ {NextId} : ex'[p] = ex[p]
          /\ ex'[NextId].side # "NONE" /\ ex'[NextId].live
      BY <1>1, <1>8, <2>1 DEF BuyCreated, SellCreated, Placed, TypeOK
    <2>3. /\ DeskOrder[NextId] = "unknown"
          /\ DeskOrder' = [DeskOrder EXCEPT ![NextId] = "working"]
      BY <2>1, <2>2 DEF DeskOrder
    <2>4. \A o \in OrderIds : DeskOrder[o] # "working"
      BY <1>4 DEF DeskOrder, LiveKnown
    <2>5. Desk!Send(NextId)
      BY <1>3, <1>5, <2>3, <2>4 DEF Desk!Send, Desk!NoneWorks
    <2> QED
      BY <2>1, <2>5
  <1> QED
    BY <1>6, <1>7, <1>8 DEF CreateAnswers

LEMMA DeskInit == Init => Desk!Init
  BY DEF Init, CommonInit, Unplaced, DeskOrder, Desk!Init

\* Every step of the position is a step of the desk, or stutters.
LEMMA DeskStep ==
  ASSUME IInv, OverIsQuiet, [Next]_vars
  PROVE  [Desk!Next]_<<DeskOrder, life # "running">>
  <1>1. TypeOK /\ Tracked
    BY DEF IInv, KeepsTrack
  <1>2. CASE CreateAnswers
    BY <1>2, SendsAtMostOne DEF Desk!Next
  <1>3. CASE CancelAnswers \/ Environment
    <2>1. life' = life
      BY <1>3 DEF CancelAnswers, CancelFails, BuyCancelled, UnfilledSellCancelled,
         PartlySoldCancelled, CancelAnswered, Environment, Ticker, ConfigureSell,
         Fill, Snapshot, Withdraw
    <2> QED
      BY <1>1, <1>3, <2>1, OthersOpenNothing, OneOrderChanges, ClosesAtMostOne
      DEF Desk!Next
  <1>4. CASE Worker \/ ClosePosition
    <2>1. DeskOrder' = DeskOrder
      BY <1>1, <1>4, WorkerLeavesExchange DEF DeskOrder
    <2>2. CASE (life' # "running") = (life # "running")
      BY <2>1, <2>2
    <2>3. CASE (life' # "running") # (life # "running")
      <3>1. CloseFilledSell
        BY <1>4, <2>3, OthersReportNothing DEF Next, ClosePosition
      <3>2. life = "running" /\ life' # "running" /\ so.status = "FILLED"
            /\ state = "SELLING" /\ pc = "idle"
        BY <2>3, <3>1 DEF CloseFilledSell, Take, Waiting, Running
      <3>3. LiveKnown = {}
        BY <1>1, <3>2, NothingWorks DEF BuyWorks, SellWorks, BuyCancels, Open
      <3>4. \A o \in OrderIds : DeskOrder[o] # "working"
        BY <3>3 DEF DeskOrder, LiveKnown
      <3> QED
        BY <2>1, <3>2, <3>4 DEF Desk!Next, Desk!Finish, Desk!NoneWorks
    <2> QED
      BY <2>2, <2>3
  <1>5. CASE UNCHANGED vars
    BY <1>5 DEF vars, DeskOrder
  <1> QED
    BY <1>2, <1>3, <1>4, <1>5 DEF Next, Answers

LEMMA QuietInit == Init => OverIsQuiet
  BY DEF Init, CommonInit, OverIsQuiet

\* What a position shows of its orders and of its end is the behaviour of an
\* order desk: for every quantity, price, bound and interleaving of tickers,
\* fills, cancellations, lost answers and withdrawals.
THEOREM Implements == Spec => ImplementsDesk
  <1>1. Init => IInv /\ NoSellUnlessSet /\ OverIsQuiet
    BY TrackingInit, QuietInit
  <1>2. IInv /\ NoSellUnlessSet /\ OverIsQuiet /\ [Next]_vars
          => (IInv /\ NoSellUnlessSet /\ OverIsQuiet)'
    BY TrackingStep, OverStaysQuiet DEF IInv
  <1>3. IInv /\ OverIsQuiet /\ [Next]_vars => [Desk!Next]_<<DeskOrder, life # "running">>
    BY DeskStep
  <1> QED
    BY <1>1, <1>2, <1>3, DeskInit, PTL DEF Spec, ImplementsDesk, Desk!Spec
=============================================================================
