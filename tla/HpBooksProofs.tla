---------------------------- MODULE HpBooksProofs ----------------------------
(***************************************************************************)
(* What the strategy has booked agrees with what the exchange traded and   *)
(* with the state it is in, for every value of the constants.              *)
(*                                                                         *)
(* The first half follows an execution report: it is sent while its order  *)
(* still works, reports of an order arrive in order, none follows the one  *)
(* that closes it, and so an order booked as FILLED is done.  The second   *)
(* half relates the states of the machine to the orders.                   *)
(***************************************************************************)
EXTENDS HpManagerProofs, HpProperties

(***************************************************************************)
(* Reports                                                                 *)
(***************************************************************************)

\* A report says no more than what traded, and a fill says it all.
Sound(e, orders) ==
    e.kind = "report" =>
        /\ e.cum <= orders[e.id].cum
        /\ e.status \in {"PARTIALLY_FILLED", "FILLED"} => e.cum > 0
        /\ e.status = "FILLED" => /\ e.cum = orders[e.id].cum
                                  /\ e.cum = orders[e.id].qty
ReportsSound == \A i \in 1 .. Len(queue) : Sound(queue[i], ex)

\* No report of an order follows the one that closes it.
Closing == {"FILLED", "CANCELED", "EXPIRED"}
ReportsOrdered ==
    \A i, j \in 1 .. Len(queue) :
        i < j /\ queue[i].kind = "report" /\ queue[j].kind = "report"
              /\ queue[i].id = queue[j].id => queue[i].status \notin Closing

\* What is booked was traded.
BooksSound ==
    \A o \in OrderIds : /\ seen[o] <= ex[o].cum /\ ex[o].cum <= ex[o].qty
                        /\ ex[o].side = "NONE" => ex[o].cum = 0

\* An order nothing will happen to any more.
Unreported(o) == \A i \in 1 .. Len(queue) : queue[i].kind = "report" => queue[i].id # o
Done(o) == ~ ex[o].live /\ Unreported(o) /\ seen[o] = ex[o].cum /\ ex[o].cum = ex[o].qty
Settled(order) == order.status = "FILLED" => order.id # NoId /\ Done(order.id)

\* What a report at the head of the queue, and those behind it, say.
FillsBooked == ReportsSound /\ ReportsOrdered /\ BooksSound /\ Settled(bo) /\ Settled(so)

\* What any step may do to the exchange: trade and close what works, and place
\* an order under a free id.
ExchangeMoves ==
    \A o \in OrderIds :
        IF ex[o].side = "NONE"
        THEN ex'[o] = ex[o] \/ (ex'[o].side # "NONE" /\ ex'[o].cum = 0)
        ELSE /\ ex'[o].side = ex[o].side /\ ex'[o].qty = ex[o].qty
             /\ ex[o].cum <= ex'[o].cum
             /\ ex[o].cum <= ex[o].qty => ex'[o].cum <= ex[o].qty
             /\ ~ ex[o].live => ex'[o].cum = ex[o].cum /\ ~ ex'[o].live

\* What any step may do to the queue: take one event, and signal; or deliver one,
\* a report only of an order that works.
Delivered(e) ==
    /\ queue' = Append(queue, e)
    /\ e.kind = "report" => ex[e.id].live /\ Sound(e, ex')
QueueMoves ==
    \/ queue' = queue
    \/ queue # <<>> /\ queue' \in {Tail(queue), Append(Tail(queue), Signal)}
    \/ \E e \in Event : Delivered(e)

\* What any step may book: the fill it takes from the queue.
Books(o) == /\ queue # <<>> /\ report.kind = "report" /\ report.id = o
            /\ queue' \in {Tail(queue), Append(Tail(queue), Signal)}
            /\ seen' = [seen EXCEPT ![o] = report.cum]
BooksMove == seen' = seen \/ \E o \in OrderIds : Books(o)

\* What a step may do to the orders of the exchange.
LEMMA ExchangeOnlyMoves ==
  ASSUME TypeOK, IdsAgree, [Next]_vars
  PROVE  ExchangeMoves
  <1> USE DEF TypeOK
  <1>0. ASSUME ex' = ex PROVE ExchangeMoves
    BY <1>0 DEF ExchangeMoves
  <1>1. CASE Worker \/ ClosePosition \/ UNCHANGED vars
    BY <1>0, <1>1, WorkerLeavesExchange DEF vars
  <1>2. ASSUME NEW o \in OrderIds, ex' = Closed(o)
        PROVE  ExchangeMoves
    BY <1>2 DEF ExchangeMoves, Closed, IdsAgree
  <1>3. CASE CancelAnswers
    <2>1. Cancellable(Order) => Order.id \in OrderIds
      BY DEF Cancellable, Order, BuyOrder, SellOrder
    <2>2. ex' = ex \/ (Cancellable(Order) /\ ex' = Closed(Order.id))
      BY <1>3 DEF CancelAnswers, CancelFails, BuyCancelled, UnfilledSellCancelled,
         PartlySoldCancelled, CancelAnswered
    <2> QED
      BY <1>0, <1>2, <2>1, <2>2
  <1>4. ASSUME NEW side \in {"BUY", "SELL"}, NEW qty, FreeIds # {},
               ex' = Placed(side, qty)
        PROVE  ExchangeMoves
    BY <1>4, NextIdFree DEF ExchangeMoves, Placed
  <1>5. CASE CreateAnswers
    <2>1. \/ ex' = ex
          \/ FreeIds # {} /\ ex' = Placed("BUY", OpenBuy)
          \/ FreeIds # {} /\ ex' = Placed("SELL", OpenSell)
      BY <1>5 DEF CreateAnswers, LoseBuyAck, LoseSellAck, LoseAck, CreateBuyFails,
         CreateSellFails, CreateFails, BuyCreated, SellCreated, ResendNothing
    <2> QED
      BY <1>0, <1>4, <2>1
  <1>6. ASSUME NEW o \in OrderIds, NEW n \in 1 .. Quantity, Fill(o, n)
        PROVE  ExchangeMoves
    BY <1>6, QuantityAssumption DEF Fill, ExchangeMoves, IdsAgree
  <1>7. CASE Environment
    <2>1. \/ ex' = ex
          \/ \E o \in OrderIds, n \in 1 .. Quantity : Fill(o, n)
          \/ \E o \in OrderIds : ex' = Closed(o)
      BY <1>7 DEF Environment, Ticker, ConfigureSell, Snapshot, Withdraw
    <2> QED
      BY <1>0, <1>2, <1>6, <2>1
  <1> QED
    BY <1>1, <1>3, <1>5, <1>7 DEF Next, Answers

\* What a step may do to the queue: its head goes, and one event may come.
LEMMA QueueOnlyMoves ==
  ASSUME TypeOK, IdsAgree, BooksSound, [Next]_vars
  PROVE  QueueMoves
  <1> USE DEF TypeOK
  <1>1. CASE Worker
    <2>1. queue # <<>> /\ queue' \in {Tail(queue), Append(Tail(queue), Signal)}
      BY <1>1
      DEF Worker, process_ticker, process_order, process_signal, Take, TakeAndSignal,
          Waiting, SendBuy, CancelUnfilledBuy, CancelPartlyBought, ResendBuy,
          SendSell, CancelUnfilledSell, CancelPartlySold, ResendSell,
          RaiseInCondition, IgnoreTick, BuyFilledReport, BuyPartFilledReport,
          SellFilledReport, SellPartFilledReport, StatusReport, DropFill,
          CloseFilledBuy, CloseFilledSell, RaiseOnSignal
    <2> QED
      BY <2>1 DEF QueueMoves
  <1>2. CASE Answers \/ ClosePosition \/ UNCHANGED vars
    <2>1. queue' = queue
      BY <1>2
      DEF Answers, CreateAnswers, CancelAnswers, ClosePosition, vars, LoseBuyAck,
          LoseSellAck, LoseAck, CreateBuyFails, CreateSellFails, CreateFails,
          BuyCreated, SellCreated, ResendNothing, CancelFails, BuyCancelled,
          UnfilledSellCancelled, PartlySoldCancelled, CancelAnswered
    <2> QED
      BY <2>1 DEF QueueMoves
  <1>3. CASE Environment
    <2>1. ASSUME NEW p \in Prices, Ticker(p)
          PROVE  QueueMoves
      <3>1. Tick(p) \in Event /\ Tick(p).kind # "report"
        BY TickIsEvent DEF Tick
      <3> QED
        BY <2>1, <3>1 DEF Ticker, Deliver, QueueMoves, Delivered
    <2>2. ASSUME NEW q \in {0, bo.real}, ConfigureSell(q)
          PROVE  QueueMoves
      BY <2>2 DEF ConfigureSell, QueueMoves
    <2>3. ASSUME NEW o \in OrderIds, NEW n \in 1 .. Quantity, Fill(o, n)
          PROVE  QueueMoves
      <3> DEFINE full == ex[o].cum + n = ex[o].qty
                 s == IF full THEN "FILLED" ELSE "PARTIALLY_FILLED"
      <3>1. n \in Nat /\ n > 0 /\ ex[o].cum + n \in Nat /\ s \in OrderStatus
        BY QuantityAssumption DEF OrderStatus
      <3>2. queue' = queue \/ queue' = Append(queue, Report(o, s, ex[o].cum + n, n))
        BY <2>3, Zenon DEF Fill, Deliver
      <3>3. /\ ex[o].live
            /\ ex' = [ex EXCEPT ![o] = [side |-> @.side, qty |-> @.qty,
                                        cum |-> ex[o].cum + n, live |-> ~ full]]
        BY <2>3, Zenon DEF Fill
      <3>4. PICK e \in Event : e = Report(o, s, ex[o].cum + n, n)
        <4> HIDE DEF s
        <4> QED
          BY <3>1, ReportIsEvent
      <3>5. /\ e.kind = "report" /\ e.id = o /\ e.cum = ex[o].cum + n
            /\ e.status = "FILLED" => e.cum = ex[o].qty
        BY <3>4 DEF Report
      <3>6. ex'[o].cum = e.cum /\ ex'[o].qty = ex[o].qty
        BY <3>3, <3>5
      <3>7. Sound(e, ex') /\ ex[e.id].live
        BY <3>1, <3>3, <3>5, <3>6 DEF Sound
      <3> QED
        BY <3>2, <3>4, <3>7 DEF QueueMoves, Delivered
    <2>4. ASSUME NEW o \in OrderIds, NEW s \in {"NEW", "CANCELED", "EXPIRED"},
                 ex[o].live, ex'[o].cum = ex[o].cum,
                 queue' = Append(queue, Report(o, s, ex[o].cum, 0))
          PROVE  QueueMoves
      <3>1. PICK e \in Event : e = Report(o, s, ex[o].cum, 0)
        <4>1. ex[o].cum \in Nat /\ s \in OrderStatus
          BY DEF OrderStatus
        <4> QED
          BY <4>1, ReportIsEvent
      <3>2. e.kind = "report" /\ e.id = o /\ e.cum = ex[o].cum /\ e.status = s
        BY <3>1 DEF Report
      <3>3. Sound(e, ex') /\ ex[e.id].live
        BY <2>4, <3>2 DEF Sound
      <3> QED
        BY <2>4, <3>1, <3>3 DEF QueueMoves, Delivered
    <2>5. ASSUME NEW o \in OrderIds, Snapshot(o)
          PROVE  QueueMoves
      BY <2>4, <2>5 DEF Snapshot, Deliver
    <2>6. ASSUME NEW o \in OrderIds, NEW s \in {"CANCELED", "EXPIRED"}, Withdraw(o, s)
          PROVE  QueueMoves
      <3>1. ex'[o].cum = ex[o].cum
        BY <2>6 DEF Withdraw, Closed
      <3> QED
        BY <2>4, <2>6, <3>1 DEF Withdraw, Deliver
    <2> QED
      BY <1>3, <2>1, <2>2, <2>3, <2>5, <2>6 DEF Environment
  <1> QED
    BY <1>1, <1>2, <1>3 DEF Next

\* The strategy books nothing but the report it takes.
LEMMA FillsOnlyBooked ==
  ASSUME TypeOK, [Next]_vars
  PROVE  seen' = seen \/ /\ report.id \in {bo.id, so.id}
                         /\ report.status \in {"FILLED", "PARTIALLY_FILLED"}
                         /\ Books(report.id)
  <1>1. CASE BuyFilledReport \/ BuyPartFilledReport \/ SellFilledReport \/ SellPartFilledReport
    BY <1>1
    DEF BuyFilledReport, BuyPartFilledReport, SellFilledReport, SellPartFilledReport,
        Take, TakeAndSignal, Waiting, Book, Books, report
  <1>2. CASE ~ (BuyFilledReport \/ BuyPartFilledReport \/ SellFilledReport \/ SellPartFilledReport)
    BY <1>2
    DEF Next, Worker, process_ticker, process_order, process_signal, ClosePosition,
        Answers, CreateAnswers, CancelAnswers, Environment, vars,
        SendBuy, CancelUnfilledBuy, CancelPartlyBought, ResendBuy, SendSell,
        CancelUnfilledSell, CancelPartlySold, ResendSell, RaiseInCondition,
        IgnoreTick, Enter, Ignore, StatusReport, DropFill, CloseFilledBuy,
        CloseFilledSell, RaiseOnSignal, LoseBuyAck, LoseSellAck, LoseAck,
        CreateBuyFails, CreateSellFails, CreateFails, BuyCreated, SellCreated,
        ResendNothing, CancelFails, BuyCancelled, UnfilledSellCancelled,
        PartlySoldCancelled, CancelAnswered, Ticker, ConfigureSell, Fill, Snapshot,
        Withdraw
  <1> QED
    BY <1>1, <1>2

\* The queue after a step: the old one, its head taken or not, and at most one
\* event behind it.
LEMMA QueueAfter ==
  ASSUME TypeOK, QueueMoves
  PROVE  \E k \in {0, 1} : \A i \in 1 .. Len(queue') :
            \/ i + k \in 1 .. Len(queue) /\ queue'[i] = queue[i + k]
            \/ /\ i + k = Len(queue) + 1
               /\ queue'[i] = Signal \/ (k = 0 /\ Delivered(queue'[i]))
  <1>0. queue \in Seq(Event) /\ Len(queue) \in Nat
    BY DEF TypeOK
  <1>1. CASE queue' = queue
    <2>1. \A i \in 1 .. Len(queue') : i + 0 \in 1 .. Len(queue) /\ queue'[i] = queue[i + 0]
      BY <1>0, <1>1
    <2> QED
      BY <2>1
  <1>2. CASE queue # <<>> /\ queue' = Tail(queue)
    <2>1. \A i \in 1 .. Len(queue') : i + 1 \in 1 .. Len(queue) /\ queue'[i] = queue[i + 1]
      BY <1>0, <1>2
    <2> QED
      BY <2>1
  <1>3. CASE queue # <<>> /\ queue' = Append(Tail(queue), Signal)
    <2>1. Tail(queue) \in Seq(Event) /\ Len(Tail(queue)) = Len(queue) - 1
          /\ \A i \in 1 .. Len(queue) - 1 : Tail(queue)[i] = queue[i + 1]
      BY <1>0, <1>3
    <2>2. Len(queue') = Len(queue) /\ queue'[Len(queue)] = Signal
          /\ \A i \in 1 .. Len(queue) - 1 : queue'[i] = Tail(queue)[i]
      BY <1>0, <1>3, <2>1, SignalIsEvent
    <2>3. \A i \in 1 .. Len(queue') :
             \/ i + 1 \in 1 .. Len(queue) /\ queue'[i] = queue[i + 1]
             \/ i + 1 = Len(queue) + 1 /\ queue'[i] = Signal
      BY <1>0, <2>1, <2>2
    <2> QED
      BY <2>3
  <1>4. ASSUME NEW e \in Event, Delivered(e)
        PROVE  \A i \in 1 .. Len(queue') :
                  \/ i + 0 \in 1 .. Len(queue) /\ queue'[i] = queue[i + 0]
                  \/ i + 0 = Len(queue) + 1 /\ Delivered(queue'[i])
    <2>1. queue' = Append(queue, e)
      BY <1>4 DEF Delivered
    <2>2. \A i \in 1 .. Len(queue') :
             \/ i + 0 \in 1 .. Len(queue) /\ queue'[i] = queue[i + 0]
             \/ i + 0 = Len(queue) + 1 /\ queue'[i] = e
      BY <1>0, <2>1
    <2> QED
      BY <1>4, <2>2
  <1> QED
    BY <1>1, <1>2, <1>3, <1>4 DEF QueueMoves

LEMMA SignalIsNoReport == Signal.kind # "report"
  BY DEF Signal

\* What a queued event names exists.
LEMMA QueuedReport ==
  ASSUME TypeOK, NEW i \in 1 .. Len(queue), queue[i].kind = "report"
  PROVE  /\ queue[i].id \in OrderIds /\ queue[i].status \in OrderStatus
         /\ queue[i].cum \in Nat
  <1>1. queue[i] \in Event
    BY DEF TypeOK
  <1> QED
    BY <1>1 DEF Event

\* Reports of one order keep the order in which they were delivered.
LEMMA ReportsStayOrdered ==
  ASSUME TypeOK, ReportsTrue, ReportsOrdered, QueueMoves
  PROVE  ReportsOrdered'
  <1>1. PICK k \in {0, 1} : \A i \in 1 .. Len(queue') :
            \/ i + k \in 1 .. Len(queue) /\ queue'[i] = queue[i + k]
            \/ /\ i + k = Len(queue) + 1
               /\ queue'[i] = Signal \/ (k = 0 /\ Delivered(queue'[i]))
    BY QueueAfter
  <1> SUFFICES ASSUME NEW i \in 1 .. Len(queue'), NEW j \in 1 .. Len(queue'), i < j,
                      queue'[i].kind = "report", queue'[j].kind = "report",
                      queue'[i].id = queue'[j].id
               PROVE  queue'[i].status \notin Closing
    BY DEF ReportsOrdered
  <1>2. Len(queue) \in Nat /\ Len(queue') \in Nat
    <2>1. queue \in Seq(Event)
      BY DEF TypeOK
    <2> QED
      BY <2>1 DEF QueueMoves, Delivered
  <1>3. i + k \in 1 .. Len(queue) /\ queue'[i] = queue[i + k]
    BY <1>1, <1>2
  <1>4. CASE j + k \in 1 .. Len(queue) /\ queue'[j] = queue[j + k]
    BY <1>2, <1>3, <1>4 DEF ReportsOrdered
  <1>5. CASE Delivered(queue'[j])
    <2>1. ex[queue[i + k].id].live
      BY <1>3, <1>5 DEF Delivered
    <2>2. ReportTrue(queue[i + k])
      BY <1>3 DEF ReportsTrue
    <2> QED
      BY <1>3, <2>1, <2>2 DEF ReportTrue, Closing
  <1> QED
    BY <1>1, <1>4, <1>5, SignalIsNoReport

\* A report keeps saying what its order has traded, or had.
LEMMA ReportsStaySound ==
  ASSUME TypeOK, TypeOK', ReportsTrue, ReportsSound, ExchangeMoves, QueueMoves
  PROVE  ReportsSound'
  <1>1. PICK k \in {0, 1} : \A i \in 1 .. Len(queue') :
            \/ i + k \in 1 .. Len(queue) /\ queue'[i] = queue[i + k]
            \/ /\ i + k = Len(queue) + 1
               /\ queue'[i] = Signal \/ (k = 0 /\ Delivered(queue'[i]))
    BY QueueAfter
  <1> SUFFICES ASSUME NEW i \in 1 .. Len(queue'), queue'[i].kind = "report"
               PROVE  Sound(queue'[i], ex')
    BY DEF ReportsSound, Sound
  <1>2. CASE i + k \in 1 .. Len(queue) /\ queue'[i] = queue[i + k]
    <2> PICK e \in Event : e = queue[i + k]
      BY <1>2 DEF TypeOK
    <2>1. e.id \in OrderIds /\ e.cum \in Nat /\ ReportTrue(e) /\ Sound(e, ex)
          /\ e.kind = "report"
      BY <1>2, QueuedReport DEF ReportsTrue, ReportsSound
    <2>2. /\ ex[e.id].side # "NONE" /\ ex[e.id].cum \in Nat /\ ex'[e.id].cum \in Nat
          /\ e.status = "FILLED" => ~ ex[e.id].live
      BY <2>1 DEF ReportTrue, TypeOK
    <2>3. Sound(e, ex')
      BY <2>1, <2>2 DEF Sound, ExchangeMoves
    <2> QED
      BY <1>2, <2>3 DEF Sound
  <1>3. CASE Delivered(queue'[i])
    BY <1>3 DEF Delivered, Sound
  <1> QED
    BY <1>1, <1>2, <1>3, SignalIsNoReport

\* What is booked has traded, whatever is booked or trades next.
LEMMA BooksStaySound ==
  ASSUME TypeOK, TypeOK', ReportsTrue, ReportsSound, BooksSound, ExchangeMoves, BooksMove
  PROVE  BooksSound'
  <1> SUFFICES ASSUME NEW o \in OrderIds
               PROVE  /\ seen'[o] <= ex'[o].cum /\ ex'[o].cum <= ex'[o].qty
                      /\ ex'[o].side = "NONE" => ex'[o].cum = 0
    BY DEF BooksSound
  <1>1. /\ seen[o] \in Nat /\ ex[o].cum \in Nat /\ ex[o].qty \in Nat
        /\ seen'[o] \in Nat /\ ex'[o].cum \in Nat /\ ex'[o].qty \in Nat
        /\ seen[o] <= ex[o].cum /\ ex[o].cum <= ex[o].qty
        /\ ex[o].side = "NONE" => ex[o].cum = 0
    BY DEF TypeOK, BooksSound
  <1>2. ex[o].cum <= ex'[o].cum /\ ex'[o].cum <= ex'[o].qty
        /\ (ex'[o].side = "NONE" => ex'[o].cum = 0)
    BY <1>1 DEF ExchangeMoves
  <1>3. seen'[o] = seen[o] \/ seen'[o] <= ex[o].cum
    <2> SUFFICES ASSUME Books(o)
                 PROVE  seen'[o] <= ex[o].cum
      BY DEF BooksMove, Books, TypeOK
    <2>1. 1 \in 1 .. Len(queue) /\ queue[1] = report
      BY DEF Books, TypeOK, report
    <2> QED
      BY <2>1 DEF ReportsSound, Sound, Books, TypeOK
  <1> QED
    BY <1>1, <1>2, <1>3

\* An order that is done stays done.
LEMMA DoneStays ==
  ASSUME TypeOK, TypeOK', NEW o \in OrderIds, ex[o].side # "NONE", Done(o),
         ExchangeMoves, QueueMoves, BooksMove
  PROVE  Done(o)'
  <1>1. /\ ~ ex'[o].live /\ ex'[o].cum = ex[o].cum /\ ex'[o].qty = ex[o].qty
    BY DEF ExchangeMoves, Done
  <1>2. PICK k \in {0, 1} : \A i \in 1 .. Len(queue') :
            \/ i + k \in 1 .. Len(queue) /\ queue'[i] = queue[i + k]
            \/ /\ i + k = Len(queue) + 1
               /\ queue'[i] = Signal \/ (k = 0 /\ Delivered(queue'[i]))
    BY QueueAfter
  <1>3. ASSUME NEW i \in 1 .. Len(queue'), queue'[i].kind = "report"
        PROVE  queue'[i].id # o
    <2>1. CASE i + k \in 1 .. Len(queue) /\ queue'[i] = queue[i + k]
      BY <1>3, <2>1 DEF Done, Unreported
    <2>2. CASE Delivered(queue'[i])
      BY <1>3, <2>2 DEF Delivered, Done
    <2> QED
      BY <1>2, <1>3, <2>1, <2>2, SignalIsNoReport
  <1>4. seen'[o] = seen[o]
    <2> SUFFICES ASSUME NEW p \in OrderIds, Books(p)
                 PROVE  seen'[o] = seen[o]
      BY DEF BooksMove
    <2>1. 1 \in 1 .. Len(queue) /\ queue[1] = report
      BY DEF Books, TypeOK, report
    <2>2. p # o
      BY <2>1 DEF Done, Unreported, Books
    <2> QED
      BY <2>2 DEF Books, TypeOK
  <1> QED
    BY <1>1, <1>3, <1>4 DEF Done, Unreported

\* What is behind the event that is taken moves up, and a signal may follow it.
LEMMA QueueShifts ==
  ASSUME TypeOK, queue # <<>>, queue' \in {Tail(queue), Append(Tail(queue), Signal)}
  PROVE  \A i \in 1 .. Len(queue') :
            /\ i + 1 \in 1 .. Len(queue) => queue'[i] = queue[i + 1]
            /\ i + 1 \notin 1 .. Len(queue) => queue'[i] = Signal
  <1>1. queue \in Seq(Event) /\ 1 \in 1 .. Len(queue)
    BY DEF TypeOK
  <1>2. Tail(queue) \in Seq(Event) /\ Len(Tail(queue)) = Len(queue) - 1
        /\ \A i \in 1 .. Len(queue) - 1 : Tail(queue)[i] = queue[i + 1]
    BY <1>1
  <1>3. CASE queue' = Tail(queue)
    BY <1>1, <1>2, <1>3
  <1>4. CASE queue' = Append(Tail(queue), Signal)
    <2>1. Len(queue') = Len(queue) /\ queue'[Len(queue)] = Signal
          /\ \A i \in 1 .. Len(queue) - 1 : queue'[i] = Tail(queue)[i]
      BY <1>1, <1>2, <1>4, SignalIsEvent
    <2> QED
      BY <1>1, <1>2, <2>1
  <1> QED
    BY <1>3, <1>4

\* The fill that completes an order is the last that is heard of it.
LEMMA FilledIsDone ==
  ASSUME TypeOK, ReportsTrue, ReportsSound, ReportsOrdered, NEW o \in OrderIds,
         Books(o), report.status = "FILLED", ex' = ex
  PROVE  Done(o)'
  <1>1. queue \in Seq(Event) /\ 1 \in 1 .. Len(queue) /\ queue[1] = report
    BY DEF Books, TypeOK, report
  <1>2. ReportTrue(report) /\ Sound(report, ex)
    BY <1>1 DEF ReportsTrue, ReportsSound
  <1>3. /\ ~ ex'[o].live /\ seen'[o] = ex'[o].cum /\ ex'[o].cum = ex'[o].qty
    BY <1>2 DEF ReportTrue, Sound, Books, TypeOK
  <1>4. \A i \in 2 .. Len(queue) : queue[i].kind = "report" => queue[i].id # o
    BY <1>1 DEF ReportsOrdered, Closing, Books
  <1>5. \A i \in 1 .. Len(queue') : /\ i + 1 \in 1 .. Len(queue) => queue'[i] = queue[i + 1]
                                    /\ i + 1 \notin 1 .. Len(queue) => queue'[i] = Signal
    BY QueueShifts DEF Books
  <1>6. \A i \in 1 .. Len(queue') : queue'[i].kind = "report" => queue'[i].id # o
    BY <1>1, <1>4, <1>5, SignalIsNoReport
  <1> QED
    BY <1>3, <1>6 DEF Done, Unreported

\* Only a report of its fill makes an order FILLED.
LEMMA OnlyReportsFill ==
  ASSUME TypeOK, [Next]_vars
  PROVE  /\ bo'.status = "FILLED" =>
              \/ bo.status = "FILLED" /\ bo'.id = bo.id
              \/ report.status = "FILLED" /\ report.id = bo.id /\ bo'.id = bo.id
                 /\ Books(bo.id) /\ ex' = ex
         /\ so'.status = "FILLED" =>
              \/ so.status = "FILLED" /\ so'.id = so.id
              \/ report.status = "FILLED" /\ report.id = so.id /\ so'.id = so.id
                 /\ Books(so.id) /\ ex' = ex
  <1> USE DEF TypeOK
  <1>1. CASE process_ticker
    <2>1. [so EXCEPT !.qty = SellQuantity].id = so.id
          /\ [so EXCEPT !.qty = SellQuantity].status = so.status
      BY DEF SellOrder
    <2>2. CASE SendBuy
      BY <2>2 DEF SendBuy, NewBuyOrder
    <2>3. CASE SendSell
      BY <2>1, <2>3 DEF SendSell
    <2> QED
      BY <1>1, <2>2, <2>3 DEF process_ticker, CancelUnfilledBuy, CancelPartlyBought,
         ResendBuy, CancelUnfilledSell, CancelPartlySold, ResendSell,
         RaiseInCondition, IgnoreTick, Ignore
  <1>2. CASE process_order
    <2>1. Waiting("report")
      BY <1>2 DEF process_order, Take, TakeAndSignal, BuyFilledReport,
         BuyPartFilledReport, SellFilledReport, SellPartFilledReport,
         StatusReport, DropFill
    <2>2. /\ report.status \in OrderStatus /\ report.cum \in Nat
          /\ bo \in BuyOrder /\ so \in SellOrder
      BY <2>1, ReportFields
    <2>3. CASE BuyFilledReport
      BY <2>1, <2>2, <2>3, BookedFields
      DEF BuyFilledReport, OrderStatus, Books, Book, TakeAndSignal, Waiting, report
    <2>4. CASE SellFilledReport
      BY <2>1, <2>2, <2>4, BookedFields
      DEF SellFilledReport, OrderStatus, Books, Book, TakeAndSignal, Waiting, report
    <2>5. CASE SellPartFilledReport
      BY <2>2, <2>5, BookedFields DEF SellPartFilledReport, OrderStatus
    <2>6. CASE BuyPartFilledReport
      <3>1. Booked(bo, "PARTIALLY_FILLED") \in BuyOrder
            /\ Booked(bo, "PARTIALLY_FILLED").status = "PARTIALLY_FILLED"
        BY <2>2, BookedFields DEF OrderStatus
      <3> QED
        BY <2>6, <3>1 DEF BuyPartFilledReport, BuyOrder
    <2>7. CASE StatusReport
      BY <2>2, <2>7 DEF StatusReport, Restatus, BuyOrder, SellOrder
    <2>8. CASE DropFill
      BY <2>8 DEF DropFill, Ignore
    <2> QED
      BY <1>2, <2>3, <2>4, <2>5, <2>6, <2>7, <2>8 DEF process_order
  <1>3. CASE process_signal \/ ClosePosition \/ UNCHANGED vars
    BY <1>3 DEF process_signal, CloseFilledBuy, CloseFilledSell, RaiseOnSignal,
       ClosePosition, vars
  <1>4. CASE CreateAnswers
    <2>1. CASE BuyCreated \/ SellCreated
      BY <2>1, SentFields, NextIdFree DEF BuyCreated, SellCreated
    <2> QED
      BY <1>4, <2>1 DEF CreateAnswers, LoseBuyAck, LoseSellAck, LoseAck, CreateBuyFails,
         CreateSellFails, CreateFails, ResendNothing
  <1>5. CASE CancelAnswers
    <2>1. /\ Cancelled(bo).status = "FILLED" => Cancelled(bo) = bo
          /\ Cancelled(so).status = "FILLED" => Cancelled(so) = so
      BY DEF Cancelled, BuyOrder, SellOrder
    <2> QED
      BY <1>5, <2>1 DEF CancelAnswers, CancelFails, BuyCancelled,
         UnfilledSellCancelled, PartlySoldCancelled
  <1>6. CASE Environment
    BY <1>6 DEF Environment, Ticker, ConfigureSell, Fill, Snapshot, Withdraw,
       NewSellOrder
  <1> QED
    BY <1>1, <1>2, <1>3, <1>4, <1>5, <1>6 DEF Next, Worker, Answers

\* The report of a fill is followed by nothing of its order, so an order the
\* strategy takes for filled is done.
LEMMA OrdersStaySettled ==
  ASSUME TypeOK, TypeOK', KeepsTrack, FillsBooked, ExchangeMoves, QueueMoves,
         BooksMove, [Next]_vars
  PROVE  Settled(bo)' /\ Settled(so)'
  <1> USE DEF KeepsTrack, FillsBooked
  <1>1. /\ bo.id \in OrderIds \cup {NoId} /\ so.id \in OrderIds \cup {NoId}
        /\ bo.id # NoId => ex[bo.id].side # "NONE"
        /\ so.id # NoId => ex[so.id].side # "NONE"
    BY DEF TypeOK, BuyOrder, SellOrder, IdsAgree
  <1>2. Waiting("report") => report.id \in OrderIds /\ report.id # NoId
    BY ReportFields DEF OrderIds, NoId
  <1>3. ASSUME NEW o \in OrderIds, ex[o].side # "NONE",
               Done(o) \/ (report.status = "FILLED" /\ Books(o) /\ ex' = ex)
        PROVE  Done(o)'
    BY <1>3, DoneStays, FilledIsDone
  <1>4. ASSUME NEW o \in OrderIds \cup {NoId}, o # NoId => ex[o].side # "NONE",
               \/ o # NoId /\ Done(o)
               \/ report.status = "FILLED" /\ report.id = o /\ Books(o) /\ ex' = ex
        PROVE  o # NoId /\ Done(o)'
    <2>1. o # NoId
      <3>1. ASSUME Books(o) PROVE o # NoId
        <4>1. 1 \in 1 .. Len(queue) /\ queue[1] = report
          BY <3>1 DEF Books, TypeOK, report
        <4> QED
          BY <3>1, <4>1, QueuedReport DEF Books, OrderIds, NoId
      <3> QED
        BY <1>4, <3>1
    <2> QED
      BY <1>3, <1>4, <2>1
  <1>5. Settled(bo)'
    <2> SUFFICES ASSUME bo'.status = "FILLED"
                 PROVE  bo'.id # NoId /\ Done(bo.id)'
      BY DEF Settled
    <2>1. PICK o \in OrderIds \cup {NoId} : o = bo.id /\ o = bo'.id
      BY <1>1, OnlyReportsFill
    <2>2. o # NoId /\ Done(o)'
      BY <1>1, <1>4, <2>1, OnlyReportsFill DEF Settled
    <2> QED
      BY <2>1, <2>2
  <1>6. Settled(so)'
    <2> SUFFICES ASSUME so'.status = "FILLED"
                 PROVE  so'.id # NoId /\ Done(so.id)'
      BY DEF Settled
    <2>1. PICK o \in OrderIds \cup {NoId} : o = so.id /\ o = so'.id
      BY <1>1, OnlyReportsFill
    <2>2. o # NoId /\ Done(o)'
      BY <1>1, <1>4, <2>1, OnlyReportsFill DEF Settled
    <2> QED
      BY <2>1, <2>2
  <1> QED
    BY <1>5, <1>6

LEMMA FillsBookedInit == Init => FillsBooked
  <1> SUFFICES ASSUME Init PROVE FillsBooked
    OBVIOUS
  <1>1. /\ queue = <<>> /\ \A o \in OrderIds : seen[o] = 0 /\ ex[o].cum = 0 /\ ex[o].qty = 0
        /\ bo.status # "FILLED" /\ so.status # "FILLED"
    BY DEF Init, CommonInit, InitBuy, InitInventorySell, NewBuyOrder, NoBuyOrder,
       NewSellOrder, Unplaced
  <1> QED
    BY <1>1 DEF FillsBooked, ReportsSound, ReportsOrdered, BooksSound, Settled

\* The three parts together, over one step.
LEMMA FillsBookedStep ==
  ASSUME IInv, FillsBooked, [Next]_vars
  PROVE  FillsBooked'
  <1>1. TypeOK /\ KeepsTrack /\ ReportsTrue /\ IdsAgree /\ TypeOK'
    BY TypeStep DEF IInv, KeepsTrack
  <1>2. ReportsSound /\ ReportsOrdered /\ BooksSound
    BY DEF FillsBooked
  <1>3. ExchangeMoves /\ QueueMoves
    BY <1>1, <1>2, ExchangeOnlyMoves, QueueOnlyMoves
  <1>4. BooksMove
    <2>1. ASSUME Books(report.id) PROVE report.id \in OrderIds
      <3>1. 1 \in 1 .. Len(queue) /\ queue[1] = report
        BY <1>1, <2>1 DEF Books, TypeOK, report
      <3> QED
        BY <1>1, <2>1, <3>1, QueuedReport DEF Books
    <2> QED
      BY <1>1, <2>1, FillsOnlyBooked DEF BooksMove
  <1> QED
    BY <1>1, <1>2, <1>3, <1>4, ReportsStaySound, ReportsStayOrdered, BooksStaySound,
       OrdersStaySettled DEF FillsBooked

(***************************************************************************)
(* The states of the machine and the orders                                *)
(***************************************************************************)

\* The buy state and the position's state say what the buy order realized.
BuyMatches ==
    IF HasBuyOrder
    THEN /\ buy = "NEW" => bo.real = 0
         /\ buy = "PARTIALLY_BOUGHT" => bo.real > 0
         /\ buy = "BOUGHT" \/ state = "BOUGHT" => bo.status = "FILLED"
    ELSE bo.id = NoId /\ buy = "BOUGHT"

\* A callback is entered in the states its transition leaves.
AwaitsMatch ==
    /\ pc \in BuyCreates \cup BuyCancels => HasBuyOrder
    /\ pc \in BuyCancels \cup {"cancel_partially_sold_orders"} => state # "SELLING"
    /\ pc \in {"send_buy_orders", "cancel_unfilled_buy_orders"} => buy = "NEW"
    /\ pc \in {"resend_buy_orders", "cancel_partially_bought_orders"} =>
           buy = "PARTIALLY_BOUGHT"

\* A position that is NEW, or whose buy side is, has booked no buy.
FlatMatches ==
    /\ state = "NEW" => buy = "NEW"
    /\ \A o \in OrderIds : ex[o].side = "BUY" /\ buy = "NEW" => seen[o] = 0

StatesMatch == BuyMatches /\ AwaitsMatch /\ FlatMatches

LEMMA StatesMatchInit == Init => StatesMatch
  BY DEF Init, CommonInit, InitBuy, InitInventorySell, StatesMatch, BuyMatches,
     AwaitsMatch, FlatMatches, HasBuyOrder, NewBuyOrder, NoBuyOrder, Unplaced, BuyCreates,
     BuyCancels

\* A ticker changes neither the buy order nor its state, but for the fresh order
\* a send prepares; and it enters a callback in the states its condition names.
LEMMA TickMatches ==
  ASSUME TypeOK, StatesMatch, process_ticker
  PROVE  StatesMatch'
  <1> USE DEF StatesMatch
  <1>1. buy' = buy /\ ex' = ex /\ seen' = seen /\ pc = "idle"
    BY DEF process_ticker, SendBuy, CancelUnfilledBuy, CancelPartlyBought, ResendBuy,
       SendSell, CancelUnfilledSell, CancelPartlySold, ResendSell, RaiseInCondition,
       IgnoreTick, Enter, Ignore, Take, Waiting, Running
  <1>2. CASE SendBuy
    BY <1>1, <1>2 DEF SendBuy, CanSendBuy, Enter, NewBuyOrder, BuyMatches, AwaitsMatch,
       FlatMatches, HasBuyOrder, BuyCreates, BuyCancels
  <1>3. CASE CancelUnfilledBuy \/ CancelPartlyBought \/ ResendBuy
    BY <1>1, <1>3 DEF CancelUnfilledBuy, CancelPartlyBought, ResendBuy, Enter,
       CanCancelUnfilledBuy, CanCancelPartlyBought, CanResendBuy, CanResumeBuying,
       BuyMatches, AwaitsMatch, FlatMatches, HasBuyOrder, BuyCreates, BuyCancels
  <1>4. CASE SendSell
    BY <1>1, <1>4 DEF SendSell, CanSellPartlyBought, CanSellBought, Enter,
       BuyMatches, AwaitsMatch, FlatMatches, HasBuyOrder, BuyCreates, BuyCancels
  <1>5. CASE CancelUnfilledSell \/ CancelPartlySold \/ ResendSell
    BY <1>1, <1>5 DEF CancelUnfilledSell, CancelPartlySold, ResendSell, Enter,
       CanCancelUnfilledSell, CanCancelPartlySold, CanResendSell, CanResumeSelling,
       BuyMatches, AwaitsMatch, FlatMatches, HasBuyOrder, BuyCreates, BuyCancels, TypeOK
  <1>6. CASE RaiseInCondition \/ IgnoreTick
    BY <1>1, <1>6 DEF RaiseInCondition, IgnoreTick, Ignore, Die,
       BuyMatches, AwaitsMatch, FlatMatches, HasBuyOrder, BuyCreates, BuyCancels
  <1> QED
    BY <1>2, <1>3, <1>4, <1>5, <1>6 DEF process_ticker

\* What a report changes of an order, field by field.
LEMMA BookedReal ==
  ASSUME TypeOK, report.cum \in Nat, NEW s \in OrderStatus
  PROVE  Booked(bo, s).real = report.cum /\ Booked(so, s).real = report.cum
  <1> DEFINE b == [bo EXCEPT !.status = s]
             c == [so EXCEPT !.status = s]
  <1>1. b \in BuyOrder /\ c \in SellOrder
    BY DEF BuyOrder, SellOrder, TypeOK
  <1>2. Booked(bo, s) = [b EXCEPT !.real = report.cum]
        /\ Booked(so, s) = [c EXCEPT !.real = report.cum]
    BY DEF Booked
  <1> HIDE DEF b, c
  <1> QED
    BY <1>1, <1>2 DEF BuyOrder, SellOrder

\* A fill of the buy order makes it partly bought; a status report reaches only
\* orders that are not filled.
LEMMA ReportMatches ==
  ASSUME IInv, FillsBooked, StatesMatch, process_order
  PROVE  StatesMatch'
  <1> USE DEF StatesMatch, IInv, KeepsTrack, FillsBooked
  <1>1. Waiting("report") /\ pc = "idle"
    BY DEF process_order, Take, TakeAndSignal, BuyFilledReport, BuyPartFilledReport,
       SellFilledReport, SellPartFilledReport, StatusReport, DropFill, Waiting, Running
  <1>2. /\ report.id \in OrderIds /\ report.status \in OrderStatus
        /\ report.cum \in Nat /\ report.last \in Nat /\ report.id # NoId
    BY <1>1, ReportFields DEF OrderIds, NoId
  <1>3. 1 \in 1 .. Len(queue) /\ queue[1] = report /\ report.kind = "report"
    BY <1>1 DEF Waiting, report, TypeOK
  <1>4. report.status \in {"PARTIALLY_FILLED", "FILLED"} => report.cum > 0
    BY <1>3 DEF ReportsSound, Sound
  <1>5. ex' = ex /\ pc' = pc
    BY <1>1, WorkerLeavesExchange
    DEF process_order, Worker, BuyFilledReport, BuyPartFilledReport,
       SellFilledReport, SellPartFilledReport, StatusReport, DropFill, Ignore
  <1>6. ASSUME NEW s \in {"PARTIALLY_FILLED", "FILLED"}, report.status = s,
               report.id = bo.id, state = "BUYING", state' = state,
               bo'.real = report.cum, bo'.status = s, buy' = "PARTIALLY_BOUGHT"
        PROVE  StatesMatch'
    BY <1>1, <1>2, <1>4, <1>5, <1>6
    DEF BuyMatches, AwaitsMatch, FlatMatches, HasBuyOrder, BuyCreates, BuyCancels
  <1>7. CASE BuyFilledReport
    BY <1>2, <1>6, <1>7, BookedFields, BookedReal DEF BuyFilledReport, TypeOK, OrderStatus
  <1>8. CASE BuyPartFilledReport
    <2>1. /\ Booked(bo, "PARTIALLY_FILLED") \in BuyOrder
          /\ Booked(bo, "PARTIALLY_FILLED").status = "PARTIALLY_FILLED"
          /\ Booked(bo, "PARTIALLY_FILLED").real = report.cum
      BY <1>2, BookedFields, BookedReal DEF TypeOK, OrderStatus
    <2>2. bo'.real = report.cum /\ bo'.status = "PARTIALLY_FILLED"
      BY <1>8, <2>1 DEF BuyPartFilledReport, BuyOrder
    <2> QED
      BY <1>6, <1>8, <2>2 DEF BuyPartFilledReport
  <1>9. CASE SellFilledReport \/ SellPartFilledReport
    <2>1. /\ bo' = bo /\ buy' = buy /\ state' = state
          /\ seen' = [seen EXCEPT ![so.id] = report.cum] /\ report.id = so.id
      BY <1>9 DEF SellFilledReport, SellPartFilledReport, Book
    <2>2. ex[so.id].side = "SELL"
      BY <1>2, <2>1 DEF IdsAgree
    <2> QED
      BY <1>5, <2>1, <2>2 DEF BuyMatches, AwaitsMatch, FlatMatches, HasBuyOrder, TypeOK
  <1>10. CASE StatusReport
    <2>1. /\ buy' = buy /\ state' = state /\ seen' = seen
          /\ bo' = Restatus(bo)
          /\ report.status \in {"NEW", "CANCELED", "EXPIRED"}
      BY <1>10 DEF StatusReport
    <2>2. /\ bo'.real = bo.real /\ bo'.id = bo.id
          /\ bo'.status = bo.status \/ (bo'.status = report.status /\ report.id = bo.id)
      BY <2>1 DEF Restatus, TypeOK, BuyOrder
    <2>3. bo.status = "FILLED" => report.id # bo.id
      BY <1>3 DEF Settled, Done, Unreported
    <2> QED
      BY <1>2, <1>5, <2>1, <2>2, <2>3
      DEF BuyMatches, AwaitsMatch, FlatMatches, HasBuyOrder, OrderStatus
  <1>11. CASE DropFill
    BY <1>11 DEF DropFill, Ignore, BuyMatches, AwaitsMatch, FlatMatches, HasBuyOrder
  <1> QED
    BY <1>7, <1>8, <1>9, <1>10, <1>11 DEF process_order

\* A position becomes bought on the signal of a filled buy order.
LEMMA SignalMatches ==
  ASSUME TypeOK, StatesMatch, process_signal \/ ClosePosition
  PROVE  StatesMatch'
  <1> USE DEF StatesMatch
  <1>1. CASE CloseFilledBuy
    BY <1>1 DEF CloseFilledBuy, Take, Waiting, Running, ClosePosition, BuyMatches,
       AwaitsMatch, FlatMatches, HasBuyOrder, BuyCreates, BuyCancels
  <1>2. CASE CloseFilledSell
    BY <1>2 DEF CloseFilledSell, Take, Waiting, Running, ClosePosition, BuyMatches,
       AwaitsMatch, FlatMatches, HasBuyOrder, BuyCreates, BuyCancels
  <1>3. CASE RaiseOnSignal \/ ClosePosition
    BY <1>3 DEF RaiseOnSignal, ClosePosition, Die, BuyMatches,
       AwaitsMatch, FlatMatches, HasBuyOrder, BuyCreates, BuyCancels
  <1> QED
    BY <1>1, <1>2, <1>3 DEF process_signal

\* What is sent again keeps what was realized.
LEMMA CreateMatches ==
  ASSUME IInv, FillsBooked, StatesMatch, CreateAnswers
  PROVE  StatesMatch'
  <1> USE DEF StatesMatch, IInv, FillsBooked
  <1>1. seen' = seen
    BY DEF CreateAnswers, LoseBuyAck, LoseSellAck, LoseAck, CreateBuyFails,
       CreateSellFails, CreateFails, BuyCreated, SellCreated, ResendNothing
  <1>2. \A o \in OrderIds : ex'[o].side = "BUY" /\ buy = "NEW" => seen[o] = 0
    <2> SUFFICES ASSUME NEW o \in OrderIds, ex'[o].side = "BUY", buy = "NEW"
                 PROVE  seen[o] = 0
      OBVIOUS
    <2>1. CASE ex[o].side = "NONE"
      BY <2>1 DEF BooksSound, TypeOK
    <2>2. CASE ex[o].side # "NONE"
      <3>1. UsedIdsKept
        BY UsedIdsAreKept DEF Next, Answers
      <3> QED
        BY <2>2, <3>1 DEF UsedIdsKept, FlatMatches
    <2> QED
      BY <2>1, <2>2
  <1>3. CASE LoseBuyAck \/ LoseSellAck \/ CreateBuyFails \/ CreateSellFails
    BY <1>1, <1>2, <1>3 DEF LoseBuyAck, LoseSellAck, LoseAck, CreateBuyFails,
       CreateSellFails, CreateFails, Die, BuyMatches, AwaitsMatch, FlatMatches,
       HasBuyOrder, BuyCreates, BuyCancels
  <1>4. CASE BuyCreated
    <2>1. bo'.status = "NEW" /\ bo'.real = bo.real
      BY <1>4, SentFields, NextIdFree DEF BuyCreated, Sent, TypeOK, BuyOrder
    <2> QED
      BY <1>1, <1>2, <1>4, <2>1 DEF BuyCreated, AwaitsCreateBuy, BuyMatches,
         AwaitsMatch, FlatMatches, HasBuyOrder, BuyCreates, BuyCancels
  <1>5. CASE SellCreated \/ ResendNothing
    BY <1>1, <1>2, <1>5 DEF SellCreated, ResendNothing, BuyMatches, AwaitsMatch,
       FlatMatches, HasBuyOrder, BuyCreates, BuyCancels
  <1> QED
    BY <1>3, <1>4, <1>5 DEF CreateAnswers

\* A cancelled buy order leaves the buy state its realized quantity calls for.
LEMMA CancelMatches ==
  ASSUME TypeOK, StatesMatch, CancelAnswers
  PROVE  StatesMatch'
  <1> USE DEF StatesMatch
  <1>1. seen' = seen /\ \A o \in OrderIds : ex'[o].side = ex[o].side
    BY OthersOpenNothing DEF NothingOpens, CancelAnswers, CancelFails, BuyCancelled,
       UnfilledSellCancelled, PartlySoldCancelled, CancelAnswered
  <1>2. CASE CancelFails
    BY <1>1, <1>2 DEF CancelFails, Die, BuyMatches, AwaitsMatch, FlatMatches,
       HasBuyOrder, BuyCreates, BuyCancels
  <1>3. CASE BuyCancelled
    <2>1. /\ bo'.real = bo.real /\ bo'.status \in {bo.status, "CANCELED"}
          /\ bo.status = "FILLED" => bo'.status = "FILLED"
          /\ bo.real \in Nat
      BY <1>3 DEF BuyCancelled, Cancelled, Cancellable, TypeOK, BuyOrder
    <2>2. pc' = "idle" /\ state' = state
      BY <1>3 DEF BuyCancelled, CancelAnswered
    <2>3. CASE pc = "cancel_unfilled_buy_orders"
      BY <1>1, <1>3, <2>1, <2>2, <2>3 DEF BuyCancelled, BuyMatches, AwaitsMatch,
         FlatMatches, HasBuyOrder, BuyCreates, BuyCancels
    <2>4. CASE pc = "cancel_partially_bought_orders"
      <3>1. buy' = BuyAfterCancel(bo') /\ buy = "PARTIALLY_BOUGHT"
        BY <1>3, <2>4 DEF BuyCancelled, AwaitsMatch
      <3>2. /\ buy' \in {"PARTIALLY_BOUGHT", "BOUGHT"}
            /\ buy' = "BOUGHT" => bo'.status = "FILLED"
        BY <2>1, <2>4, <3>1 DEF BuyAfterCancel, BuyMatches, AwaitsMatch, BuyCancels
      <3> QED
        BY <1>1, <2>1, <2>2, <2>4, <3>1, <3>2 DEF BuyMatches, AwaitsMatch,
           FlatMatches, HasBuyOrder, BuyCreates, BuyCancels
    <2> QED
      BY <1>3, <2>3, <2>4 DEF BuyCancelled, BuyCancels
  <1>4. CASE UnfilledSellCancelled \/ PartlySoldCancelled
    <2>1. bo' = bo /\ buy' = buy /\ pc' = "idle"
      BY <1>4 DEF UnfilledSellCancelled, PartlySoldCancelled, CancelAnswered
    <2>2. /\ state' \in {state, "PARTIALLY_BOUGHT", "BOUGHT"}
          /\ state' = "BOUGHT" => state = "BOUGHT" \/ bo.status = "FILLED"
      BY <1>4 DEF UnfilledSellCancelled, PartlySoldCancelled
    <2> QED
      BY <1>1, <2>1, <2>2 DEF BuyMatches, AwaitsMatch, FlatMatches, HasBuyOrder,
         BuyCreates, BuyCancels
  <1> QED
    BY <1>2, <1>3, <1>4 DEF CancelAnswers

\* The market and the exchange leave the strategy's states alone.
LEMMA EnvironmentMatches ==
  ASSUME TypeOK, StatesMatch, Environment \/ UNCHANGED vars
  PROVE  StatesMatch'
  <1>1. /\ bo' = bo /\ buy' = buy /\ state' = state /\ pc' = pc /\ seen' = seen
    BY DEF Environment, Ticker, ConfigureSell, Fill, Snapshot, Withdraw, vars
  <1>2. \A o \in OrderIds : ex'[o].side = ex[o].side
    BY OthersOpenNothing DEF NothingOpens, vars
  <1> QED
    BY <1>1, <1>2 DEF StatesMatch, BuyMatches, AwaitsMatch, FlatMatches, HasBuyOrder

\* One case per branch of the worker and per answer it waits for.
LEMMA StatesMatchStep ==
  ASSUME IInv, FillsBooked, StatesMatch, [Next]_vars
  PROVE  StatesMatch'
  <1>1. TypeOK
    BY DEF IInv
  <1> QED
    BY <1>1, TickMatches, ReportMatches, SignalMatches, CreateMatches, CancelMatches,
       EnvironmentMatches DEF Next, Worker, Answers

(***************************************************************************)
(* What a restart finds                                                    *)
(***************************************************************************)

\* Closed orders need no row, and an order that works keeps the one its state
\* was saved with.
LEMMA SellStaysPersisted ==
  ASSUME IInv, FillsBooked, StatesMatch, SellingIsPersisted, [Next]_vars
  PROVE  SellingIsPersisted'
  <1> USE DEF IInv, KeepsTrack, StatesMatch
  <1> SUFFICES ASSUME pc' = "idle", state' = "SELLING", so'.id # NoId, ex'[so'.id].live
               PROVE  /\ db'.strategy = "SELLING"
                      /\ db'.rows[so'.id].status \in {"NEW", "PARTIALLY_FILLED"}
    BY DEF SellingIsPersisted
  <1>1. bo.id \in OrderIds \cup {NoId} /\ so.id \in OrderIds \cup {NoId}
    BY DEF TypeOK, BuyOrder, SellOrder
  <1>2. UsedIdsKept
    BY UsedIdsAreKept
  <1>3. ASSUME so'.id = so.id, so.id # NoId PROVE ex[so.id].live
    BY <1>1, <1>2, <1>3 DEF UsedIdsKept, IdsAgree
  <1>4. ASSUME so'.id = so.id, pc = "idle", state = "SELLING", db' = db
        PROVE  /\ db'.strategy = "SELLING"
               /\ db'.rows[so'.id].status \in {"NEW", "PARTIALLY_FILLED"}
    BY <1>3, <1>4 DEF SellingIsPersisted
  <1>5. CASE process_ticker
    <2>1. [so EXCEPT !.qty = SellQuantity].id = so.id
      BY DEF SellOrder, TypeOK
    <2>2. CASE SendSell
      BY <1>4, <2>1, <2>2 DEF SendSell, Enter, Take, Waiting, Running
    <2>3. CASE SendBuy \/ CancelUnfilledBuy \/ CancelPartlyBought \/ ResendBuy
               \/ CancelUnfilledSell \/ CancelPartlySold \/ ResendSell
      BY <2>3 DEF SendBuy, CancelUnfilledBuy, CancelPartlyBought, ResendBuy, Enter,
         CancelUnfilledSell, CancelPartlySold, ResendSell
    <2>4. CASE RaiseInCondition
      BY <2>4 DEF RaiseInCondition, Die
    <2>5. CASE IgnoreTick
      BY <1>4, <2>5 DEF IgnoreTick, Ignore, Take, Waiting, Running
    <2> QED
      BY <1>5, <2>2, <2>3, <2>4, <2>5 DEF process_ticker
  <1>6. CASE process_order
    <2>1. /\ Waiting("report") /\ pc = "idle"
      BY <1>6 DEF process_order, Take, TakeAndSignal, BuyFilledReport, BuyPartFilledReport,
         SellFilledReport, SellPartFilledReport, StatusReport, DropFill, Waiting, Running
    <2>2. /\ report.id \in OrderIds /\ report.status \in OrderStatus
          /\ report.cum \in Nat /\ so \in SellOrder
      BY <2>1, ReportFields DEF TypeOK
    <2>3. CASE BuyFilledReport \/ BuyPartFilledReport
      BY <2>3 DEF BuyFilledReport, BuyPartFilledReport
    <2>4. CASE SellFilledReport
      <3>1. Booked(so, "FILLED").id = so.id /\ so'.id = so.id
        BY <2>2, <2>4, BookedFields DEF SellFilledReport, OrderStatus
      <3>2. 1 \in 1 .. Len(queue) /\ queue[1] = report /\ report.kind = "report"
        BY <2>1 DEF Waiting, report, TypeOK
      <3>3. ~ ex[so.id].live
        BY <2>4, <3>2 DEF SellFilledReport, ReportsTrue, ReportTrue
      <3> QED
        BY <2>4, <3>1, <3>3 DEF SellFilledReport
    <2>5. CASE SellPartFilledReport
      <3> DEFINE b == Booked(so, "PARTIALLY_FILLED")
      <3>1. b \in SellOrder /\ b.id = so.id /\ b.status = "PARTIALLY_FILLED"
        BY <2>2, BookedFields DEF OrderStatus
      <3>2. /\ so' = b /\ db' = [rows |-> upsert_order(db.rows, b), strategy |-> state]
            /\ report.id = so.id /\ state = "SELLING"
        BY <2>5 DEF SellPartFilledReport, SaveBoth
      <3> HIDE DEF b
      <3>3. so.id \in OrderIds /\ b.id # NoId /\ db.rows \in [OrderIds -> Row]
        BY <2>2, <3>1, <3>2 DEF TypeOK, OrderIds, NoId
      <3>4. upsert_order(db.rows, b) = [db.rows EXCEPT ![so.id] = RowOf(b)]
        BY <3>1, <3>3 DEF upsert_order
      <3>5. db'.strategy = "SELLING" /\ db'.rows[so.id].status = "PARTIALLY_FILLED"
        BY <3>1, <3>2, <3>3, <3>4 DEF RowOf
      <3> QED
        BY <3>1, <3>2, <3>5
    <2>6. CASE StatusReport
      <3>1. so'.id = so.id /\ db' = db /\ state' = state
        BY <2>2, <2>6 DEF StatusReport, Restatus, SellOrder
      <3> QED
        BY <1>4, <2>1, <3>1
    <2>7. CASE DropFill
      BY <1>4, <2>1, <2>7 DEF DropFill, Ignore
    <2> QED
      BY <1>6, <2>3, <2>4, <2>5, <2>6, <2>7 DEF process_order
  <1>7. CASE process_signal
    BY <1>7 DEF process_signal, CloseFilledBuy, CloseFilledSell, RaiseOnSignal, Die
  <1>8. CASE CreateAnswers
    <2>1. CASE BuyCreated
      BY <2>1 DEF BuyCreated
    <2>2. CASE SellCreated
      <3> DEFINE b == Sent(so)
      <3>1. b.id = NextId /\ b.status = "NEW" /\ NextId \in OrderIds
        BY <2>2, SentFields, NextIdFree DEF SellCreated, TypeOK
      <3>2. so' = b /\ db' = [rows |-> upsert_order(db.rows, b), strategy |-> "SELLING"]
        BY <2>2 DEF SellCreated, SaveBoth
      <3> HIDE DEF b
      <3> QED
        BY <3>1, <3>2 DEF upsert_order, RowOf, TypeOK, OrderIds, NoId
    <2>3. CASE ResendNothing
      BY <1>3, <2>3 DEF ResendNothing, FillsBooked, Settled, Done
    <2>4. CASE LoseBuyAck \/ LoseSellAck \/ CreateBuyFails \/ CreateSellFails
      <3>1. pc \in BuyCreates \cup SellCreates
        BY <1>8, CreateOpensNext
      <3> QED
        BY <2>4, <3>1 DEF LoseBuyAck, LoseSellAck, LoseAck, CreateBuyFails, BuyCreates,
           SellCreates, CreateSellFails, CreateFails, Die
    <2> QED
      BY <1>8, <2>1, <2>2, <2>3, <2>4 DEF CreateAnswers
  <1>9. CASE CancelAnswers
    BY <1>9 DEF CancelAnswers, CancelFails, Die, BuyCancelled, UnfilledSellCancelled,
       PartlySoldCancelled, AwaitsMatch
  <1>10. CASE Environment
    <2>1. ASSUME NEW q \in {0, bo.real}, ConfigureSell(q)
          PROVE  FALSE
      BY <2>1 DEF ConfigureSell, NewSellOrder
    <2>2. so' = so /\ db' = db /\ pc' = pc /\ state' = state
      BY <1>10, <2>1 DEF Environment, Ticker, Fill, Snapshot, Withdraw
    <2> QED
      BY <1>4, <2>2
  <1>11. CASE ClosePosition \/ UNCHANGED vars
    BY <1>4, <1>11 DEF ClosePosition, vars
  <1> QED
    BY <1>5, <1>6, <1>7, <1>8, <1>9, <1>10, <1>11 DEF Next, Worker, Answers

(***************************************************************************)
(* Theorems                                                                *)
(***************************************************************************)

BooksInv == IInv /\ NoSellUnlessSet /\ FillsBooked /\ StatesMatch /\ SellingIsPersisted

LEMMA BooksInit == Init => BooksInv
  <1>1. Init => SellingIsPersisted
    BY DEF Init, CommonInit, Unplaced, SellingIsPersisted, InitBuy, InitInventorySell
  <1> QED
    BY <1>1, TrackingInit, FillsBookedInit, StatesMatchInit DEF BooksInv

LEMMA BooksStep == BooksInv /\ [Next]_vars => BooksInv'
  BY TrackingStep, FillsBookedStep, StatesMatchStep, SellStaysPersisted DEF BooksInv

\* Reports reach the worker in order and say what traded, nothing is booked
\* that did not trade, and an order the strategy takes for filled has traded
\* in full, with no report of it still on its way.
THEOREM FillsAreBooked == Spec => []FillsBooked
  <1>1. BooksInv => FillsBooked
    BY DEF BooksInv
  <1> QED
    BY <1>1, BooksInit, BooksStep, PTL DEF Spec

\* The buy state says what the buy order realized.
THEOREM BuyStateIsTrue == Spec => []BuyStateAgrees
  <1>1. BooksInv => BuyStateAgrees
    BY DEF BooksInv, StatesMatch, BuyMatches, BuyStateAgrees
  <1> QED
    BY <1>1, BooksInit, BooksStep, PTL DEF Spec

\* A position that is NEW has no booked buy that a fresh order would forget.
THEOREM NewIsFlat == Spec => []NewMeansFlat
  <1>1. BooksInv => NewMeansFlat
    BY DEF BooksInv, StatesMatch, FlatMatches, NewMeansFlat, BuyIds, Known
  <1> QED
    BY <1>1, BooksInit, BooksStep, PTL DEF Spec

\* The row of a working sell order, and its position's, tell a restart so.
THEOREM SellingIsSaved == Spec => []SellingIsPersisted
  <1>1. BooksInv => SellingIsPersisted
    BY DEF BooksInv
  <1> QED
    BY <1>1, BooksInit, BooksStep, PTL DEF Spec
=============================================================================
