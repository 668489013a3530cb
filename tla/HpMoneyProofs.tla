----------------------------- MODULE HpMoneyProofs -----------------------------
(***************************************************************************)
(* What the orders of a position buy, sell and spend stays within its      *)
(* budget, its holding and its balance, for every value of the constants.  *)
(*                                                                         *)
(* Sums over orders are compared with the order in hand: all that was      *)
(* booked before it was sent was booked on earlier orders, and it was sent *)
(* for what they left.                                                     *)
(***************************************************************************)
EXTENDS HpBooksProofs, SumProofs

(***************************************************************************)
(* The invariant                                                           *)
(***************************************************************************)

\* Orders of a side that traded before the order in hand.
Traded(side, o) == ex[o].side = side /\ o \notin lostAck /\ seen[o] > 0
Earlier(side, id) == {o \in OrderIds \ {id} : Traded(side, o)}

\* The order in hand was sent for what at most one earlier order left of it,
\* and until a fill of it is booked it carries what that order realized.
Unbooked(order) == order.id = NoId \/ seen[order.id] = 0
ResentFor(side, order, n) ==
    /\ Unbooked(order) => order.real = n
    /\ order.id # NoId => n + ex[order.id].qty = order.qty
Resent(side, order) ==
    /\ order.id \notin lostAck
    /\ ~ Unbooked(order) => order.real = seen[order.id]
    /\ Earlier(side, order.id) = {} => ResentFor(side, order, 0)
    /\ \A e \in OrderIds :
          Earlier(side, order.id) = {e} => ResentFor(side, order, seen[e])

\* Every buy order is for the budget or what is left of it.
BuyPlan ==
    /\ Resent("BUY", bo)
    /\ HasBuyOrder => bo.qty = Quantity
    /\ ~ HasBuyOrder => /\ bo.real = 0
                        /\ \A o \in OrderIds \ lostAck : ex[o].side # "BUY"
    /\ bo.id = NoId => Earlier("BUY", NoId) = {}

\* What the sell order offers was bought.
Holding == IF HasBuyOrder THEN TradedIn(BuyIds) ELSE Quantity
RealizedTraded == bo.real = 0 \/ \E o \in OrderIds : ex[o].side = "BUY" /\ bo.real = seen[o]
SellPlan ==
    /\ Resent("SELL", so)
    /\ so.id = NoId => /\ so.real = 0
                       /\ \A o \in OrderIds \ lostAck : ex[o].side # "SELL"
    /\ so.id # NoId => so.qty > 0
    /\ RealizedTraded
    /\ so.qty <= Holding
SoldFilled == state = "SOLD" => so.status = "FILLED"

\* Fills of an order are reported in the order they trade.
Fills(e, o) == /\ e.kind = "report" /\ e.id = o
               /\ e.status \in {"PARTIALLY_FILLED", "FILLED"}
FillReport(i, o) == Fills(queue[i], o)
ReportsRise ==
    \A o \in OrderIds, i \in 1 .. Len(queue) :
        FillReport(i, o) =>
            /\ seen[o] < queue[i].cum
            /\ \A j \in 1 .. i - 1 : FillReport(j, o) => queue[j].cum < queue[i].cum

\* While the stream has no gap, the trades between two reports are in the later
\* one; so the quote currency of a buy order that works is what is left of it.
Reaches(o, i, n) ==
    seen[o] >= n \/ \E j \in 1 .. i - 1 : FillReport(j, o) /\ queue[j].cum >= n
NothingMissed ==
    gaps = 0 /\ pc = "idle" /\ state = "BUYING" /\ bo.id # NoId =>
        /\ Reaches(bo.id, Len(queue) + 1, ex[bo.id].cum)
        /\ \A i \in 1 .. Len(queue) :
              FillReport(i, bo.id) =>
                  Reaches(bo.id, i, queue[i].cum - queue[i].last)
StableLeft ==
    gaps = 0 /\ HasBuyOrder /\ bo.status # "FILLED" =>
        bo.qs <= Quantity - BookedIn(BuyIds \cap Known)

\* The budget is committed in BUYING, also while the order is being sent, and
\* what is left of it is available in every other state.
BuyingMatches == pc \in Callbacks => (state = "BUYING" <=> pc \in BuyCreates)
BalanceKept ==
    IF HasBuyOrder
    THEN bo.status # "FILLED" =>
           balance = Quantity * (InitBalance - Quantity)
                     + (IF state = "BUYING" THEN 0 ELSE RemainingBuy)
    ELSE balance = InitBalance * Quantity

(***************************************************************************)
(* The order in hand and those before it                                   *)
(***************************************************************************)

\* Every order of a side but the one in hand stays as it was.
OthersStay(side, id) ==
    \A o \in OrderIds :
        /\ o # id => /\ Traded(side, o)' <=> Traded(side, o)
                     /\ ex[o].side = side => seen'[o] = seen[o]
        /\ ex[o].side # "NONE" => /\ ex'[o].side = ex[o].side /\ ex'[o].qty = ex[o].qty
                                  /\ o \in lostAck' <=> o \in lostAck
        /\ ex[o].side = "NONE" => seen[o] = 0

\* The order in hand stays, or a fill of it is booked.
LEMMA ResentKept ==
  ASSUME TypeOK, NEW side \in {"BUY", "SELL"}, NEW order, NEW next,
         order.id \in OrderIds \cup {NoId}, order.id # NoId => ex[order.id].side = side,
         NoId \notin lostAck',
         Resent(side, order), OthersStay(side, order.id),
         next.id = order.id, next.qty = order.qty,
         \/ next.real = order.real /\ (order.id # NoId => seen'[order.id] = seen[order.id])
         \/ order.id # NoId /\ next.real = seen'[order.id] /\ seen'[order.id] > 0
  PROVE  Resent(side, next)'
  <1>1. Earlier(side, next.id)' = Earlier(side, order.id)
    BY DEF Earlier, OthersStay
  <1>2. \A e \in Earlier(side, order.id) : seen'[e] = seen[e]
    BY DEF Earlier, OthersStay, Traded
  <1>3. order.id # NoId => /\ ex'[order.id].qty = ex[order.id].qty
                           /\ order.id \in lostAck' <=> order.id \in lostAck
                           /\ seen[order.id] \in Nat
    BY DEF OthersStay, TypeOK
  <1>4. Unbooked(next)' => Unbooked(order) /\ next.real = order.real
    BY DEF Unbooked
  <1>5. (~ Unbooked(next))' => next.real = seen'[next.id]
    BY DEF Unbooked, Resent
  <1>6. next.id \notin lostAck'
    BY <1>3 DEF Resent
  <1>7. ASSUME NEW n, ResentFor(side, order, n)
        PROVE  ResentFor(side, next, n)'
    BY <1>3, <1>4, <1>7 DEF ResentFor
  <1> QED
    BY <1>1, <1>2, <1>5, <1>6, <1>7 DEF Resent

\* What was realized is left out of the order that is sent again.
LEMMA ResentSent ==
  ASSUME TypeOK, NEW side \in {"BUY", "SELL"}, NEW order, NEW next,
         order.id \in OrderIds \cup {NoId}, order.id # NoId => ex[order.id].side = side,
         Resent(side, order), OthersStay(side, order.id), seen' = seen,
         order.real \in Nat, order.qty \in Nat,
         next.id \in OrderIds, ex[next.id].side = "NONE", next.id \notin lostAck',
         ex'[next.id].qty = order.qty - order.real,
         next.qty = order.qty, next.real = order.real
  PROVE  Resent(side, next)'
  <1>1. /\ seen[next.id] = 0 /\ seen'[next.id] = 0 /\ next.id # order.id
        /\ next.id \notin Earlier(side, order.id) /\ next.id # NoId
    BY DEF OthersStay, Earlier, Traded, OrderIds, NoId
  <1>2. next.qty \in Int /\ next.real \in Int /\ next.real + ex'[next.id].qty = next.qty
    OBVIOUS
  <1>3. CASE Unbooked(order)
    <2>1. Earlier(side, next.id)' = Earlier(side, order.id)
      BY <1>1, <1>3 DEF Earlier, OthersStay, Traded, Unbooked, NoId, OrderIds
    <2>2. ASSUME NEW n, ResentFor(side, order, n)
          PROVE  ResentFor(side, next, n)'
      BY <1>2, <1>3, <2>2 DEF ResentFor
    <2> QED
      BY <1>1, <2>1, <2>2 DEF Resent, Unbooked
  <1>4. CASE ~ Unbooked(order)
    <2>1. /\ order.id \in OrderIds /\ ex[order.id].side = side /\ seen[order.id] > 0
          /\ order.id \notin lostAck /\ order.real = seen[order.id]
      BY <1>4 DEF Unbooked, Resent, TypeOK
    <2>2. order.id \in Earlier(side, next.id)'
      BY <1>1, <2>1 DEF Earlier, OthersStay, Traded
    <2>3. PICK n : n = seen[order.id]
      OBVIOUS
    <2>4. ResentFor(side, next, n)'
      BY <1>2, <2>1, <2>3 DEF ResentFor
    <2>5. Unbooked(next)'
      BY <1>1 DEF Unbooked
    <2>6. \A e \in OrderIds :
             Earlier(side, next.id)' = {e} => e = order.id /\ seen'[e] = n
      BY <2>2, <2>3
    <2>7. ASSUME NEW e \in OrderIds, Earlier(side, next.id)' = {e}
          PROVE  ResentFor(side, next, seen[e])'
      BY <2>4, <2>6, <2>7
    <2>8. Earlier(side, next.id)' # {}
      BY <2>2
    <2> QED
      BY <2>5, <2>7, <2>8 DEF Resent
  <1> QED
    BY <1>3, <1>4

\* An order that was never sent, when none of its side traded.
LEMMA ResentFresh ==
  ASSUME NEW side, NEW next, next.id = NoId, next.real = 0, NoId \notin lostAck',
         Earlier(side, NoId)' = {}
  PROVE  Resent(side, next)'
  BY DEF Resent, ResentFor, Unbooked

(***************************************************************************)
(* What a step does to the orders in hand                                  *)
(***************************************************************************)

\* What a report leaves of an order.
LEMMA BookedRest ==
  ASSUME TypeOK, report.cum \in Nat, NEW s \in OrderStatus
  PROVE  /\ Booked(bo, s).qty = bo.qty /\ Booked(bo, s).qs = bo.qs
         /\ Booked(so, s).qty = so.qty
  <1> DEFINE b == [bo EXCEPT !.status = s]
             c == [so EXCEPT !.status = s]
  <1>1. /\ b \in BuyOrder /\ b.qty = bo.qty /\ b.qs = bo.qs
        /\ c \in SellOrder /\ c.qty = so.qty
    BY DEF BuyOrder, SellOrder, TypeOK
  <1>2. Booked(bo, s) = [b EXCEPT !.real = report.cum]
        /\ Booked(so, s) = [c EXCEPT !.real = report.cum]
    BY DEF Booked
  <1> HIDE DEF b, c
  <1> QED
    BY <1>1, <1>2 DEF BuyOrder, SellOrder

\* The buy order stays, books a fill of it, is sent or prepared afresh.
BuyStays == /\ bo'.id = bo.id /\ bo'.qty = bo.qty /\ bo'.real = bo.real /\ bo'.qs = bo.qs
            /\ bo.id # NoId => seen'[bo.id] = seen[bo.id]
BuyBooks == /\ BuyFilledReport \/ BuyPartFilledReport
            /\ report.id = bo.id /\ bo.id \in OrderIds /\ report.cum > 0
            /\ Books(bo.id) /\ ex' = ex
            /\ bo'.id = bo.id /\ bo'.qty = bo.qty /\ bo'.real = report.cum
            /\ BuyFilledReport => bo'.status = "FILLED"
            /\ BuyPartFilledReport => bo'.qs = bo.qs - report.last
                                      /\ report.status = "PARTIALLY_FILLED"
BuyMove == BuyStays \/ BuyBooks \/ BuyCreated \/ SendBuy

\* So does the sell order; it is only replaced before it was ever sent.
SellStays == /\ so'.id = so.id /\ so'.qty = so.qty /\ so'.real = so.real
             /\ so.id # NoId => seen'[so.id] = seen[so.id]
SellBooks == /\ SellFilledReport \/ SellPartFilledReport
             /\ so.id \in OrderIds /\ report.cum > 0 /\ Books(so.id) /\ ex' = ex
             /\ so'.id = so.id /\ so'.qty = so.qty /\ so'.real = report.cum
SellRenewed == /\ so.id = NoId /\ so'.id = NoId /\ so'.real = 0
               /\ so'.qty \in {so.qty, bo.real, 0}
               /\ ex' = ex /\ seen' = seen /\ lostAck' = lostAck
SellMove == SellStays \/ SellBooks \/ SellCreated \/ SellRenewed

\* How one step may change the buy order and the sell order.
LEMMA OrdersMove ==
  ASSUME BooksInv, SellPlan, [Next]_vars
  PROVE  BuyMove /\ SellMove
  <1> USE DEF BooksInv, IInv, KeepsTrack, FillsBooked
  <1>1. /\ bo \in BuyOrder /\ so \in SellOrder
        /\ bo.id \in OrderIds \cup {NoId} /\ so.id \in OrderIds \cup {NoId}
        /\ bo.real \in Nat /\ so.real \in Nat /\ bo.qty \in Nat /\ so.qty \in Nat
        /\ bo.id # NoId => bo.id # so.id
    BY DEF TypeOK, BuyOrder, SellOrder, IdsAgree
  <1>2. CASE process_ticker
    <2>1. seen' = seen /\ ex' = ex /\ lostAck' = lostAck
      BY <1>2 DEF process_ticker, SendBuy, CancelUnfilledBuy, CancelPartlyBought, ResendBuy,
         SendSell, CancelUnfilledSell, CancelPartlySold, ResendSell, RaiseInCondition,
         IgnoreTick, Enter, Ignore
    <2>2. CASE SendBuy
      BY <2>1, <2>2 DEF SendBuy, SellStays, BuyMove, SellMove
    <2>3. CASE SendSell
      <3>1. /\ so'.id = so.id /\ so'.real = so.real /\ so'.qty = SellQuantity /\ bo' = bo
        BY <1>1, <2>3 DEF SendSell, SellOrder
      <3>2. SellQuantity = so.qty \/ (so.qty = 0 /\ bo.real > so.real)
        BY DEF SellQuantity
      <3>3. CASE SellQuantity = so.qty
        BY <2>1, <3>1, <3>3 DEF BuyStays, SellStays, BuyMove, SellMove
      <3>4. CASE so.qty = 0 /\ bo.real > so.real
        <4>1. so.id = NoId /\ so.real = 0
          BY <3>4 DEF SellPlan
        <4>2. SellQuantity = bo.real
          BY <1>1, <3>4, <4>1 DEF SellQuantity
        <4> QED
          BY <2>1, <3>1, <4>1, <4>2 DEF BuyStays, SellRenewed, BuyMove, SellMove
      <3> QED
        BY <3>2, <3>3, <3>4
    <2>4. CASE ~ SendBuy /\ ~ SendSell
      <3>1. bo' = bo /\ so' = so
        BY <1>2, <2>4 DEF process_ticker, CancelUnfilledBuy, CancelPartlyBought, ResendBuy,
           CancelUnfilledSell, CancelPartlySold, ResendSell, RaiseInCondition,
           IgnoreTick, Ignore
      <3> QED
        BY <2>1, <3>1 DEF BuyStays, SellStays, BuyMove, SellMove
    <2> QED
      BY <2>2, <2>3, <2>4
  <1>3. CASE process_order
    <2>1. Waiting("report")
      BY <1>3 DEF process_order, Take, TakeAndSignal, BuyFilledReport, BuyPartFilledReport,
         SellFilledReport, SellPartFilledReport, StatusReport, DropFill
    <2>2. /\ report.id \in OrderIds /\ report.status \in OrderStatus
          /\ report.cum \in Nat /\ report.last \in Nat /\ report.id # NoId
      BY <2>1, ReportFields DEF OrderIds, NoId
    <2>3. 1 \in 1 .. Len(queue) /\ queue[1] = report /\ report.kind = "report"
          /\ queue # <<>>
      BY <2>1 DEF Waiting, report, TypeOK
    <2>4. report.status \in {"PARTIALLY_FILLED", "FILLED"} => report.cum > 0
      BY <2>3 DEF ReportsSound, Sound
    <2>5. ex' = ex
      BY <1>3, WorkerLeavesExchange DEF Worker
    <2>6. CASE BuyFilledReport
      <3>1. bo' = Booked(bo, "FILLED") /\ so' = so
        BY <2>6 DEF BuyFilledReport
      <3>2. /\ bo'.id = bo.id /\ bo'.qty = bo.qty /\ bo'.real = report.cum
            /\ bo'.status = "FILLED"
        BY <1>1, <2>2, <3>1, BookedFields, BookedReal, BookedRest DEF OrderStatus
      <3>3. /\ report.id = bo.id /\ report.status = "FILLED" /\ Books(bo.id)
        BY <2>3, <2>6 DEF BuyFilledReport, Books, Book, TakeAndSignal
      <3>4. ~ BuyPartFilledReport
        BY <3>3 DEF BuyPartFilledReport
      <3>5. BuyBooks
        BY <2>2, <2>4, <2>5, <2>6, <3>2, <3>3, <3>4 DEF BuyBooks
      <3>6. SellStays
        BY <1>1, <2>2, <3>1, <3>3 DEF SellStays, Books, TypeOK
      <3> QED
        BY <3>5, <3>6 DEF BuyMove, SellMove
    <2>7. CASE BuyPartFilledReport
      <3> DEFINE b == Booked(bo, "PARTIALLY_FILLED")
      <3>1. /\ b \in BuyOrder /\ b.id = bo.id /\ b.qty = bo.qty /\ b.real = report.cum
            /\ b.qs = bo.qs
        BY <1>1, <2>2, BookedFields, BookedReal, BookedRest DEF OrderStatus
      <3>2. bo' = [b EXCEPT !.qs = @ - report.last] /\ so' = so
        BY <2>7 DEF BuyPartFilledReport
      <3> HIDE DEF b
      <3>3. /\ bo'.id = bo.id /\ bo'.qty = bo.qty /\ bo'.real = report.cum
            /\ bo'.qs = bo.qs - report.last
        BY <3>1, <3>2 DEF BuyOrder
      <3>4. /\ report.id = bo.id /\ report.status = "PARTIALLY_FILLED" /\ Books(bo.id)
        BY <2>3, <2>7 DEF BuyPartFilledReport, Books, Book, Take
      <3>5. ~ BuyFilledReport
        BY <3>4 DEF BuyFilledReport
      <3>6. BuyBooks
        BY <2>2, <2>4, <2>5, <2>7, <3>3, <3>4, <3>5 DEF BuyBooks
      <3>7. SellStays
        BY <1>1, <2>2, <3>2, <3>4 DEF SellStays, Books, TypeOK
      <3> QED
        BY <3>6, <3>7 DEF BuyMove, SellMove
    <2>8. CASE SellFilledReport \/ SellPartFilledReport
      <3>1. PICK s \in {"FILLED", "PARTIALLY_FILLED"} : so' = Booked(so, s) /\ bo' = bo
        BY <2>8 DEF SellFilledReport, SellPartFilledReport
      <3>2. so'.id = so.id /\ so'.qty = so.qty /\ so'.real = report.cum
        BY <1>1, <2>2, <3>1, BookedFields, BookedReal, BookedRest DEF OrderStatus
      <3>3. /\ report.id = so.id /\ Books(so.id)
            /\ report.status \in {"FILLED", "PARTIALLY_FILLED"}
        BY <2>3, <2>8
        DEF SellFilledReport, SellPartFilledReport, Books, Book, Take, TakeAndSignal
      <3>4. SellBooks
        BY <2>2, <2>4, <2>5, <2>8, <3>2, <3>3 DEF SellBooks
      <3>5. BuyStays
        BY <1>1, <2>2, <3>1, <3>3 DEF BuyStays, Books, TypeOK
      <3> QED
        BY <3>4, <3>5 DEF BuyMove, SellMove
    <2>9. CASE StatusReport \/ DropFill
      <3>1. /\ bo'.id = bo.id /\ bo'.qty = bo.qty /\ bo'.real = bo.real /\ bo'.qs = bo.qs
            /\ so'.id = so.id /\ so'.qty = so.qty /\ so'.real = so.real
            /\ seen' = seen
        BY <1>1, <2>9 DEF StatusReport, DropFill, Ignore, Restatus, BuyOrder, SellOrder
      <3> QED
        BY <3>1 DEF BuyStays, SellStays, BuyMove, SellMove
    <2> QED
      BY <1>3, <2>6, <2>7, <2>8, <2>9 DEF process_order
  <1>4. CASE process_signal \/ ClosePosition \/ UNCHANGED vars
    <2>1. bo' = bo /\ so' = so /\ seen' = seen
      BY <1>4 DEF process_signal, CloseFilledBuy, CloseFilledSell, RaiseOnSignal,
         ClosePosition, vars
    <2> QED
      BY <2>1 DEF BuyStays, SellStays, BuyMove, SellMove
  <1>5. CASE CreateAnswers
    <2>1. CASE BuyCreated
      BY <2>1 DEF BuyCreated, SellStays, BuyMove, SellMove
    <2>2. CASE SellCreated
      BY <2>2 DEF SellCreated, BuyStays, BuyMove, SellMove
    <2>3. CASE ~ BuyCreated /\ ~ SellCreated
      <3>1. bo' = bo /\ so' = so /\ seen' = seen
        BY <1>5, <2>3 DEF CreateAnswers, LoseBuyAck, LoseSellAck, LoseAck, CreateBuyFails,
           CreateSellFails, CreateFails, ResendNothing
      <3> QED
        BY <3>1 DEF BuyStays, SellStays, BuyMove, SellMove
    <2> QED
      BY <2>1, <2>2, <2>3
  <1>6. CASE CancelAnswers
    <2>1. /\ Cancelled(bo).id = bo.id /\ Cancelled(bo).qty = bo.qty
          /\ Cancelled(bo).real = bo.real /\ Cancelled(bo).qs = bo.qs
          /\ Cancelled(so).id = so.id /\ Cancelled(so).qty = so.qty
          /\ Cancelled(so).real = so.real
      BY <1>1 DEF Cancelled, BuyOrder, SellOrder
    <2>2. /\ bo' \in {bo, Cancelled(bo)} /\ so' \in {so, Cancelled(so)} /\ seen' = seen
      BY <1>6 DEF CancelAnswers, CancelFails, BuyCancelled, UnfilledSellCancelled,
         PartlySoldCancelled, CancelAnswered
    <2> QED
      BY <2>1, <2>2 DEF BuyStays, SellStays, BuyMove, SellMove
  <1>7. CASE Environment
    <2>1. ASSUME NEW q \in {0, bo.real}, ConfigureSell(q)
          PROVE  BuyMove /\ SellMove
      <3>1. so.id = NoId
        BY <2>1 DEF ConfigureSell, NoSellUnlessSet
      <3> QED
        BY <2>1, <3>1 DEF ConfigureSell, NewSellOrder, BuyStays, SellRenewed, BuyMove, SellMove
    <2>2. CASE ~ \E q \in {0, bo.real} : ConfigureSell(q)
      <3>1. bo' = bo /\ so' = so /\ seen' = seen
        BY <1>7, <2>2 DEF Environment, Ticker, Fill, Snapshot, Withdraw
      <3> QED
        BY <3>1 DEF BuyStays, SellStays, BuyMove, SellMove
    <2> QED
      BY <2>1, <2>2
  <1> QED
    BY <1>2, <1>3, <1>4, <1>5, <1>6, <1>7 DEF Next, Worker, Answers

\* Only a free id gets lost, and only fills of the orders in hand are booked.
LEMMA OthersStand ==
  ASSUME BooksInv, [Next]_vars
  PROVE  OthersStay("BUY", bo.id) /\ OthersStay("SELL", so.id)
  <1> USE DEF BooksInv, IInv, KeepsTrack, FillsBooked
  <1>1. ExchangeMoves
    BY ExchangeOnlyMoves
  <1>2. \A o \in OrderIds : ex[o].side # "NONE" => (o \in lostAck' <=> o \in lostAck)
    <2>1. CASE CreateAnswers
      BY <2>1, CreateOpensNext, NextIdFree DEF NothingOpens
    <2>2. CASE ~ CreateAnswers
      BY <2>2, WorkerLeavesExchange, OthersOpenNothing DEF Next, Answers, NothingOpens, vars
    <2> QED
      BY <2>1, <2>2
  <1>3. \A o \in OrderIds \ {bo.id, so.id} : seen'[o] = seen[o]
    BY FillsOnlyBooked DEF Books, TypeOK
  <1>4. \A o \in OrderIds : ex[o].side = "NONE" => seen[o] = 0
    BY DEF BooksSound, TypeOK
  <1>5. /\ bo.id \in OrderIds \cup {NoId} /\ so.id \in OrderIds \cup {NoId}
        /\ bo.id # NoId => ex[bo.id].side = "BUY"
        /\ so.id # NoId => ex[so.id].side = "SELL"
        /\ NoId \notin OrderIds
    BY DEF TypeOK, BuyOrder, SellOrder, IdsAgree, OrderIds, NoId
  <1>6. \A o \in OrderIds : ex[o].side # "NONE" => /\ ex'[o].side = ex[o].side
                                                   /\ ex'[o].qty = ex[o].qty
    BY <1>1 DEF ExchangeMoves
  <1>7. ASSUME NEW side \in {"BUY", "SELL"}, NEW id,
               \A o \in OrderIds : o # id /\ ex[o].side = side => o \notin {bo.id, so.id},
               \A o \in OrderIds : ex[o].side = "NONE" => o \notin {bo.id, so.id}
        PROVE  OthersStay(side, id)
    <2>1. ASSUME NEW o \in OrderIds, o # id PROVE Traded(side, o)' <=> Traded(side, o)
      <3>1. CASE ex[o].side = "NONE"
        BY <1>3, <1>4, <1>7, <3>1 DEF Traded
      <3>2. CASE ex[o].side = side
        BY <1>2, <1>3, <1>6, <1>7, <2>1, <3>2 DEF Traded
      <3>3. CASE ex[o].side # "NONE" /\ ex[o].side # side
        BY <1>6, <3>3 DEF Traded
      <3> QED
        BY <3>1, <3>2, <3>3
    <2> QED
      BY <1>2, <1>3, <1>4, <1>6, <1>7, <2>1 DEF OthersStay
  <1>8. /\ \A o \in OrderIds : o # bo.id /\ ex[o].side = "BUY" => o \notin {bo.id, so.id}
        /\ \A o \in OrderIds : o # so.id /\ ex[o].side = "SELL" => o \notin {bo.id, so.id}
        /\ \A o \in OrderIds : ex[o].side = "NONE" => o \notin {bo.id, so.id}
    BY <1>5
  <1> QED
    BY <1>7, <1>8

\* The buy order is for what is left of the budget after the one before it.
LEMMA BuyStaysResent ==
  ASSUME BooksInv, BooksInv', SellPlan, BuyPlan, [Next]_vars
  PROVE  Resent("BUY", bo)'
  <1> USE DEF BooksInv, IInv, KeepsTrack, BuyPlan
  <1>1. BuyMove /\ OthersStay("BUY", bo.id)
    BY OrdersMove, OthersStand
  <1>2. /\ bo.id \in OrderIds \cup {NoId}
        /\ bo.id # NoId => ex[bo.id].side = "BUY"
        /\ bo.real \in Nat /\ bo.qty \in Nat
        /\ NoId \notin lostAck' /\ NoId \notin OrderIds
    BY DEF TypeOK, BuyOrder, IdsAgree, OrderIds, NoId
  <1>3. PICK order, next : order = bo /\ next = bo'
    OBVIOUS
  <1>7. TypeOK /\ Resent("BUY", order) /\ OthersStay("BUY", order.id)
    BY <1>1, <1>3
    DEF Resent, ResentFor, Unbooked, Earlier, OthersStay, Traded
  <1>4. CASE BuyStays \/ BuyBooks
    <2>1. /\ next.id = order.id /\ next.qty = order.qty
          /\ \/ next.real = order.real /\ (order.id # NoId => seen'[order.id] = seen[order.id])
             \/ order.id # NoId /\ next.real = seen'[order.id] /\ seen'[order.id] > 0
      BY <1>2, <1>3, <1>4 DEF BuyStays, BuyBooks, Books, TypeOK
    <2>2. Resent("BUY", next)'
      <3> HIDE DEF BooksInv, IInv, KeepsTrack, BuyPlan, SellPlan
      <3> QED
        BY <1>2, <1>3, <1>7, <2>1, ResentKept
    <2> QED
      BY <1>3, <2>2 DEF Resent, ResentFor, Unbooked
  <1>5. CASE BuyCreated
    <2>1. /\ next.id = NextId /\ next.qty = order.qty /\ next.real = order.real
          /\ NextId \in OrderIds /\ ex[NextId].side = "NONE"
          /\ NextId \notin lostAck' /\ seen' = seen
      BY <1>3, <1>5, NextIdFree DEF BuyCreated, Sent, TypeOK, BuyOrder, IdsAgree
    <2>2. ex'[NextId].qty = order.qty - order.real
      BY <1>3, <1>5, <2>1 DEF BuyCreated, Placed, OpenBuy, TypeOK
    <2>3. Resent("BUY", next)'
      <3> HIDE DEF BooksInv, IInv, KeepsTrack, BuyPlan, SellPlan
      <3> QED
        BY <1>2, <1>3, <1>7, <2>1, <2>2, ResentSent
    <2> QED
      BY <1>3, <2>3 DEF Resent, ResentFor, Unbooked
  <1>6. CASE SendBuy
    <2>1. next.id = NoId /\ next.real = 0
      BY <1>3, <1>6 DEF SendBuy, NewBuyOrder
    <2>2. Earlier("BUY", NoId)' = {}
      BY <1>6 DEF SendBuy, CanSendBuy, Enter, Earlier, Traded, StatesMatch, FlatMatches
    <2>3. Resent("BUY", next)'
      BY <1>2, <2>1, <2>2, ResentFresh
    <2> QED
      BY <1>3, <2>3 DEF Resent, ResentFor, Unbooked
  <1> QED
    BY <1>1, <1>4, <1>5, <1>6 DEF BuyMove

\* The sell order offers what the one before it left.
LEMMA SellStaysResent ==
  ASSUME BooksInv, BooksInv', SellPlan, [Next]_vars
  PROVE  Resent("SELL", so)'
  <1> USE DEF BooksInv, IInv, KeepsTrack, SellPlan
  <1>1. SellMove /\ OthersStay("SELL", so.id)
    BY OrdersMove, OthersStand
  <1>2. /\ so.id \in OrderIds \cup {NoId}
        /\ so.id # NoId => ex[so.id].side = "SELL"
        /\ so.real \in Nat /\ so.qty \in Nat
        /\ NoId \notin lostAck' /\ NoId \notin OrderIds
    BY DEF TypeOK, SellOrder, IdsAgree, OrderIds, NoId
  <1>3. PICK order, next : order = so /\ next = so'
    OBVIOUS
  <1>7. TypeOK /\ Resent("SELL", order) /\ OthersStay("SELL", order.id)
    BY <1>1, <1>3
    DEF Resent, ResentFor, Unbooked, Earlier, OthersStay, Traded
  <1>4. CASE SellStays \/ SellBooks
    <2>1. /\ next.id = order.id /\ next.qty = order.qty
          /\ \/ next.real = order.real /\ (order.id # NoId => seen'[order.id] = seen[order.id])
             \/ order.id # NoId /\ next.real = seen'[order.id] /\ seen'[order.id] > 0
      BY <1>2, <1>3, <1>4 DEF SellStays, SellBooks, Books, TypeOK
    <2>2. Resent("SELL", next)'
      <3> HIDE DEF BooksInv, IInv, KeepsTrack, BuyPlan, SellPlan
      <3> QED
        BY <1>2, <1>3, <1>7, <2>1, ResentKept
    <2> QED
      BY <1>3, <2>2 DEF Resent, ResentFor, Unbooked
  <1>5. CASE SellCreated
    <2>1. /\ next.id = NextId /\ next.qty = order.qty /\ next.real = order.real
          /\ NextId \in OrderIds /\ ex[NextId].side = "NONE"
          /\ NextId \notin lostAck' /\ seen' = seen
      BY <1>3, <1>5, NextIdFree DEF SellCreated, Sent, TypeOK, SellOrder, IdsAgree
    <2>2. ex'[NextId].qty = order.qty - order.real
      BY <1>3, <1>5, <2>1 DEF SellCreated, Placed, OpenSell, TypeOK
    <2>3. Resent("SELL", next)'
      <3> HIDE DEF BooksInv, IInv, KeepsTrack, BuyPlan, SellPlan
      <3> QED
        BY <1>2, <1>3, <1>7, <2>1, <2>2, ResentSent
    <2> QED
      BY <1>3, <2>3 DEF Resent, ResentFor, Unbooked
  <1>6. CASE SellRenewed
    <2>1. next.id = NoId /\ next.real = 0
      BY <1>3, <1>6 DEF SellRenewed
    <2>2. Earlier("SELL", NoId)' = {}
      BY <1>6 DEF SellRenewed, Earlier, Traded
    <2>3. Resent("SELL", next)'
      BY <1>2, <2>1, <2>2, ResentFresh
    <2> QED
      BY <1>3, <2>3 DEF Resent, ResentFor, Unbooked
  <1> QED
    BY <1>1, <1>4, <1>5, <1>6 DEF SellMove

(***************************************************************************)
(* The plan of the buy side                                                *)
(***************************************************************************)

\* A position has a buy order from the start, or never.
LEMMA BuySideKept ==
  ASSUME BooksInv, [Next]_vars
  PROVE  HasBuyOrder' = HasBuyOrder
  <1> USE DEF BooksInv, IInv, FillsBooked, StatesMatch, HasBuyOrder
  <1>1. bo \in BuyOrder /\ (bo.status = "NONE" => bo.id = NoId)
    BY DEF TypeOK, BuyMatches
  <1>2. CASE process_order
    <2>1. Waiting("report")
      BY <1>2 DEF process_order, Take, TakeAndSignal, BuyFilledReport, BuyPartFilledReport,
         SellFilledReport, SellPartFilledReport, StatusReport, DropFill
    <2>2. /\ report.id \in OrderIds /\ report.status \in OrderStatus
          /\ report.cum \in Nat /\ report.id # NoId
      BY <2>1, ReportFields DEF OrderIds, NoId
    <2>3. CASE BuyFilledReport
      BY <1>1, <2>2, <2>3, BookedFields DEF BuyFilledReport, OrderStatus
    <2>4. CASE BuyPartFilledReport
      <3>1. /\ Booked(bo, "PARTIALLY_FILLED") \in BuyOrder
            /\ Booked(bo, "PARTIALLY_FILLED").status = "PARTIALLY_FILLED"
        BY <1>1, <2>2, BookedFields DEF OrderStatus
      <3> QED
        BY <1>1, <2>2, <2>4, <3>1 DEF BuyPartFilledReport, BuyOrder
    <2>5. CASE StatusReport
      BY <1>1, <2>2, <2>5 DEF StatusReport, Restatus, BuyOrder, OrderStatus
    <2>6. CASE SellFilledReport \/ SellPartFilledReport \/ DropFill
      BY <2>6 DEF SellFilledReport, SellPartFilledReport, DropFill, Ignore
    <2> QED
      BY <1>2, <2>3, <2>4, <2>5, <2>6 DEF process_order
  <1>3. CASE SendBuy
    BY <1>3 DEF SendBuy, CanSendBuy, NewBuyOrder
  <1>4. CASE BuyCreated
    BY <1>1, <1>4, SentFields, NextIdFree DEF BuyCreated, AwaitsCreateBuy, AwaitsMatch
  <1>5. CASE BuyCancelled
    BY <1>1, <1>5 DEF BuyCancelled, Cancelled, Cancellable, BuyOrder
  <1>6. CASE bo' = bo
    BY <1>6
  <1>7. process_order \/ SendBuy \/ BuyCreated \/ BuyCancelled \/ bo' = bo
    BY DEF Next, Worker, process_ticker, process_signal, ClosePosition, Answers,
       CreateAnswers, CancelAnswers, Environment, vars, CancelUnfilledBuy,
       CancelPartlyBought, ResendBuy, SendSell, CancelUnfilledSell, CancelPartlySold,
       ResendSell, RaiseInCondition, IgnoreTick, Ignore, CloseFilledBuy,
       CloseFilledSell, RaiseOnSignal, LoseBuyAck, LoseSellAck, LoseAck,
       CreateBuyFails, CreateSellFails, CreateFails, SellCreated, ResendNothing,
       CancelFails, UnfilledSellCancelled, PartlySoldCancelled, Ticker,
       ConfigureSell, Fill, Snapshot, Withdraw
  <1> QED
    BY <1>2, <1>3, <1>4, <1>5, <1>6, <1>7

\* An order is added to a side by the callback that sends it; one whose answer
\* is lost stays lost.
LEMMA SidesGrow ==
  ASSUME BooksInv, [Next]_vars
  PROVE  /\ lostAck \subseteq lostAck'
         /\ \A o \in OrderIds :
              ex'[o].side # ex[o].side =>
                 \/ ex'[o].side = "BUY" /\ pc \in BuyCreates
                 \/ /\ ex'[o].side = "SELL" /\ pc \in SellCreates
                    /\ o \in lostAck' \/ SellCreated
  <1> USE DEF BooksInv, IInv
  <1>1. ASSUME FreeIds # {}, NEW side, NEW qty
        PROVE  \A o \in OrderIds : Placed(side, qty)[o].side # ex[o].side
                                      => o = NextId /\ Placed(side, qty)[o].side = side
    BY <1>1, NextIdFree DEF Placed, TypeOK
  <1>2. CASE LoseBuyAck
    BY <1>1, <1>2 DEF LoseBuyAck, LoseAck, AwaitsCreateBuy
  <1>3. CASE LoseSellAck
    BY <1>1, <1>3 DEF LoseSellAck, LoseAck, AwaitsCreateSell
  <1>4. CASE BuyCreated
    BY <1>1, <1>4 DEF BuyCreated, AwaitsCreateBuy
  <1>5. CASE SellCreated
    BY <1>1, <1>5 DEF SellCreated, AwaitsCreateSell
  <1>6. CASE CreateBuyFails \/ CreateSellFails \/ ResendNothing
    BY <1>6 DEF CreateBuyFails, CreateSellFails, CreateFails, ResendNothing
  <1>7. CASE ~ CreateAnswers
    BY <1>7, WorkerLeavesExchange, OthersOpenNothing DEF Next, Answers, NothingOpens, vars
  <1> QED
    BY <1>2, <1>3, <1>4, <1>5, <1>6, <1>7 DEF CreateAnswers

LEMMA BuyPlanInit == Init => BuyPlan
  <1> SUFFICES ASSUME Init PROVE BuyPlan
    OBVIOUS
  <1>1. /\ bo.id = NoId /\ bo.real = 0 /\ NoId \notin lostAck
        /\ HasBuyOrder => bo.qty = Quantity
        /\ \A o \in OrderIds : ex[o].side = "NONE" /\ seen[o] = 0
    BY DEF Init, CommonInit, InitBuy, InitInventorySell, NewBuyOrder, NoBuyOrder,
       HasBuyOrder, Unplaced
  <1>2. Earlier("BUY", NoId) = {}
    BY <1>1 DEF Earlier, Traded
  <1> QED
    BY <1>1, <1>2 DEF BuyPlan, Resent, ResentFor, Unbooked

\* The quantity still to be bought plus what traded is the plan's, over a step.
LEMMA BuyPlanStep ==
  ASSUME BooksInv, BooksInv', SellPlan, BuyPlan, [Next]_vars
  PROVE  BuyPlan'
  <1>1. Resent("BUY", bo)'
    BY BuyStaysResent
  <1>2. BuyMove /\ OthersStay("BUY", bo.id) /\ HasBuyOrder' = HasBuyOrder
    BY OrdersMove, OthersStand, BuySideKept
  <1>3. HasBuyOrder' => bo'.qty = Quantity
    <2>1. CASE BuyCreated
      <3>1. bo'.qty = bo.qty
        BY <2>1, NextIdFree DEF BuyCreated, Sent, TypeOK, BuyOrder, BooksInv, IInv
      <3> QED
        BY <1>2, <3>1 DEF BuyPlan
    <2>2. CASE SendBuy
      BY <2>2 DEF SendBuy, NewBuyOrder
    <2> QED
      BY <1>2, <2>1, <2>2 DEF BuyMove, BuyStays, BuyBooks, BuyPlan
  <1>4. ~ HasBuyOrder' => /\ bo'.real = 0
                          /\ \A o \in OrderIds \ lostAck' : ex'[o].side # "BUY"
    <2>1. ~ HasBuyOrder => pc \notin BuyCreates /\ bo.id = NoId
      BY DEF BooksInv, StatesMatch, AwaitsMatch, BuyMatches
    <2>2. ~ HasBuyOrder' => bo'.real = bo.real
      BY <1>2, <2>1 DEF BuyMove, BuyStays, BuyBooks, BuyCreated, AwaitsCreateBuy, SendBuy,
         CanSendBuy, HasBuyOrder, OrderIds, NoId
    <2> QED
      BY <1>2, <2>1, <2>2, SidesGrow DEF BuyPlan
  <1>5. bo'.id = NoId => Earlier("BUY", NoId)' = {}
    <2>1. CASE BuyStays
      BY <1>2, <2>1 DEF BuyStays, BuyPlan, OthersStay, Earlier
    <2>2. CASE BuyBooks
      BY <2>2 DEF BuyBooks, OrderIds, NoId
    <2>3. CASE BuyCreated
      <3>1. bo'.id = NextId /\ NextId \in OrderIds
        BY <2>3, SentFields, NextIdFree DEF BuyCreated, TypeOK, BooksInv, IInv
      <3> QED
        BY <3>1 DEF OrderIds, NoId
    <2>4. CASE SendBuy
      BY <2>4 DEF SendBuy, CanSendBuy, Enter, Earlier, Traded, BooksInv, StatesMatch,
         FlatMatches
    <2> QED
      BY <1>2, <2>1, <2>2, <2>3, <2>4 DEF BuyMove
  <1> QED
    BY <1>1, <1>3, <1>4, <1>5 DEF BuyPlan

(***************************************************************************)
(* The plan of the sell side                                               *)
(***************************************************************************)

\* What traded can be summed up, and is what each order traded or more.
LEMMA TradesAddUp ==
  ASSUME TypeOK, NEW S \in SUBSET OrderIds
  PROVE  /\ IsFiniteSet(S)
         /\ TradedIn(S) \in Nat
         /\ \A o \in S : ex[o].cum <= TradedIn(S)
  <1>1. IsFiniteSet(S)
    <2>1. IsFiniteSet(1 .. MaxOrders)
      BY FS_Interval, BoundAssumption
    <2> QED
      BY <2>1, FS_Subset DEF OrderIds
  <1>2. PICK f : f = [o \in OrderIds |-> ex[o].cum]
    OBVIOUS
  <1>3. Numbers(f, S) /\ \A o \in S : f[o] = ex[o].cum /\ f[o] >= 0 /\ f[o] \in Int
    BY <1>1, <1>2 DEF Numbers, TypeOK
  <1>4. TradedIn(S) = SumFunctionOnSet(f, S)
    BY <1>2 DEF TradedIn
  <1>5. SumFunctionOnSet(f, {}) = 0 /\ SumFunctionOnSet(f, {}) <= SumFunctionOnSet(f, S)
        /\ SumFunctionOnSet(f, S) \in Int
    BY <1>3, SumOfNone, SumGrows, SumType
  <1>6. ASSUME NEW o \in S PROVE ex[o].cum <= TradedIn(S)
    <2>1. SumFunctionOnSet(f, {o}) = f[o] /\ SumFunctionOnSet(f, {o}) <= SumFunctionOnSet(f, S)
      BY <1>3, <1>6, SumOfOne, SumGrows
    <2> QED
      BY <1>3, <1>4, <2>1
  <1> QED
    BY <1>1, <1>4, <1>5, <1>6

\* What the position holds is a natural number.
LEMMA HoldingType == TypeOK => Holding \in Nat
  <1>1. BuyIds \in SUBSET OrderIds
    BY DEF BuyIds
  <1> QED
    BY <1>1, TradesAddUp, QuantityAssumption DEF Holding

\* What the position holds never shrinks.
LEMMA HoldingGrows ==
  ASSUME TypeOK, TypeOK', BooksSound, ExchangeMoves, HasBuyOrder' = HasBuyOrder
  PROVE  Holding <= Holding'
  <1>1. PICK f, g : /\ f = [o \in OrderIds |-> ex[o].cum]
                    /\ g = [o \in OrderIds |-> ex'[o].cum]
    OBVIOUS
  <1>2. PICK S, T : S = BuyIds /\ T = BuyIds'
    OBVIOUS
  <1>3. S \in SUBSET T /\ T \in SUBSET OrderIds
    BY <1>2 DEF BuyIds, ExchangeMoves
  <1>4. IsFiniteSet(S) /\ IsFiniteSet(T)
    BY <1>3, TradesAddUp
  <1>5. /\ Numbers(f, S) /\ Numbers(g, T) /\ Numbers(g, S)
        /\ \A o \in S : f[o] <= g[o]
        /\ \A o \in T : g[o] >= 0
    BY <1>1, <1>2, <1>3, <1>4 DEF Numbers, TypeOK, BooksSound, ExchangeMoves, BuyIds
  <1>6. /\ SumFunctionOnSet(f, S) <= SumFunctionOnSet(g, S)
        /\ SumFunctionOnSet(g, S) <= SumFunctionOnSet(g, T)
        /\ SumFunctionOnSet(f, S) \in Int /\ SumFunctionOnSet(g, S) \in Int
        /\ SumFunctionOnSet(g, T) \in Int
    BY <1>3, <1>5, SumMonotonic, SumGrows, SumType
  <1>7. TradedIn(BuyIds) = SumFunctionOnSet(f, S) /\ TradedIn(BuyIds)' = SumFunctionOnSet(g, T)
    BY <1>1, <1>2 DEF TradedIn
  <1> QED
    BY <1>6, <1>7, QuantityAssumption DEF Holding

\* What the buy order realized is held.
LEMMA RealizedHeld ==
  ASSUME TypeOK, BooksSound, BuyPlan, RealizedTraded
  PROVE  bo.real <= Holding /\ Holding \in Nat
  <1>1. BuyIds \in SUBSET OrderIds
    BY DEF BuyIds
  <1>2. Holding \in Nat
    BY HoldingType
  <1>3. CASE bo.real = 0
    BY <1>2, <1>3
  <1>4. CASE bo.real # 0 /\ \E o \in OrderIds : ex[o].side = "BUY" /\ bo.real = seen[o]
    <2>1. PICK o \in OrderIds : ex[o].side = "BUY" /\ bo.real = seen[o]
      BY <1>4
    <2>2. o \in BuyIds /\ Holding = TradedIn(BuyIds)
      BY <1>4, <2>1 DEF BuyIds, Holding, BuyPlan
    <2>3. seen[o] <= ex[o].cum /\ ex[o].cum <= TradedIn(BuyIds)
      BY <1>1, <2>2, TradesAddUp DEF BooksSound
    <2> QED
      BY <1>1, <2>1, <2>2, <2>3, TradesAddUp DEF TypeOK
  <1> QED
    BY <1>2, <1>3, <1>4 DEF RealizedTraded

\* What the buy order carries, an order of its side realized.
LEMMA RealizedStaysTraded ==
  ASSUME BooksInv, SellPlan, [Next]_vars
  PROVE  RealizedTraded'
  <1>1. BuyMove /\ OthersStay("BUY", bo.id) /\ TypeOK
    BY OrdersMove, OthersStand DEF BooksInv, IInv
  <1>2. /\ bo.id \in OrderIds \cup {NoId}
        /\ bo.id # NoId => ex[bo.id].side = "BUY"
    BY DEF BooksInv, IInv, KeepsTrack, TypeOK, BuyOrder, IdsAgree
  <1>3. CASE BuyStays
    BY <1>1, <1>2, <1>3 DEF BuyStays, RealizedTraded, SellPlan, OthersStay, NoId, OrderIds
  <1>4. CASE BuyBooks
    BY <1>2, <1>4 DEF BuyBooks, RealizedTraded, Books, TypeOK, BooksInv, IInv,
       KeepsTrack, IdsAgree, OrderIds, NoId
  <1>5. CASE BuyCreated
    <2>1. bo'.real = bo.real /\ seen' = seen
      BY <1>1, <1>5, NextIdFree DEF BuyCreated, Sent, TypeOK, BuyOrder
    <2> QED
      BY <1>1, <2>1 DEF RealizedTraded, SellPlan, OthersStay
  <1>6. CASE SendBuy
    BY <1>6 DEF SendBuy, NewBuyOrder, RealizedTraded
  <1> QED
    BY <1>1, <1>3, <1>4, <1>5, <1>6 DEF BuyMove

\* A position that is SOLD keeps the sell order that filled.
LEMMA SoldStaysFilled ==
  ASSUME BooksInv, SoldFilled, [Next]_vars
  PROVE  SoldFilled'
  <1> USE DEF BooksInv, IInv, KeepsTrack, FillsBooked, SoldFilled
  <1> SUFFICES ASSUME state' = "SOLD" PROVE so'.status = "FILLED"
    OBVIOUS
  <1>1. so \in SellOrder
    BY DEF TypeOK
  <1>2. CASE process_ticker
    <2>1. state = "SOLD" /\ so' = so
      BY <1>2 DEF process_ticker, SendBuy, CancelUnfilledBuy, CancelPartlyBought,
         ResendBuy, SendSell, CancelUnfilledSell, CancelPartlySold, ResendSell,
         RaiseInCondition, IgnoreTick, Ignore, Enter, TypeOK
    <2> QED
      BY <2>1
  <1>3. CASE process_order
    <2>1. state' = state
      BY <1>3 DEF process_order, BuyFilledReport, BuyPartFilledReport, SellFilledReport,
         SellPartFilledReport, StatusReport, DropFill, Ignore
    <2>2. CASE BuyFilledReport \/ BuyPartFilledReport \/ SellFilledReport \/ SellPartFilledReport
      BY <2>1, <2>2 DEF BuyFilledReport, BuyPartFilledReport, SellFilledReport,
         SellPartFilledReport
    <2>3. CASE StatusReport
      <3>1. 1 \in 1 .. Len(queue) /\ queue[1] = report /\ report.kind = "report"
        BY <2>3 DEF StatusReport, Take, Waiting, report, TypeOK
      <3>2. report.id # so.id
        BY <2>1, <3>1 DEF Settled, Done, Unreported
      <3> QED
        BY <2>1, <2>3, <3>2 DEF StatusReport, Restatus
    <2>4. CASE DropFill
      BY <2>1, <2>4 DEF DropFill, Ignore
    <2> QED
      BY <1>3, <2>2, <2>3, <2>4 DEF process_order
  <1>4. CASE process_signal \/ ClosePosition \/ UNCHANGED vars
    BY <1>4 DEF process_signal, CloseFilledBuy, CloseFilledSell, RaiseOnSignal,
       ClosePosition, vars
  <1>5. CASE CreateAnswers
    BY <1>5 DEF CreateAnswers, LoseBuyAck, LoseSellAck, LoseAck, CreateBuyFails,
       CreateSellFails, CreateFails, BuyCreated, SellCreated, ResendNothing
  <1>6. CASE CancelAnswers
    BY <1>1, <1>6 DEF CancelAnswers, CancelFails, BuyCancelled, UnfilledSellCancelled,
       PartlySoldCancelled, Cancelled, Cancellable
  <1>7. CASE Environment
    <2>1. ASSUME NEW q \in {0, bo.real}, ConfigureSell(q) PROVE FALSE
      BY <2>1 DEF ConfigureSell, NoSellUnlessSet
    <2> QED
      BY <1>7, <2>1 DEF Environment, Ticker, Fill, Snapshot, Withdraw
  <1> QED
    BY <1>2, <1>3, <1>4, <1>5, <1>6, <1>7 DEF Next, Worker, Answers

LEMMA SellPlanInit == Init => SellPlan
  <1> SUFFICES ASSUME Init PROVE SellPlan
    OBVIOUS
  <1>1. /\ so.id = NoId /\ so.real = 0 /\ NoId \notin lostAck /\ bo.real = 0
        /\ so.qty \in {0, Quantity} /\ so.qty = Quantity => ~ HasBuyOrder
        /\ \A o \in OrderIds : ex[o].side = "NONE" /\ seen[o] = 0
    BY QuantityAssumption
    DEF Init, CommonInit, InitBuy, InitInventorySell, NewBuyOrder, NoBuyOrder,
        NewSellOrder, HasBuyOrder, Unplaced
  <1>2. Earlier("SELL", NoId) = {}
    BY <1>1 DEF Earlier, Traded
  <1>3. so.qty <= Holding
    <2>1. TypeOK /\ BuyIds \in SUBSET OrderIds
      BY TypeInit DEF BuyIds
    <2>2. TradedIn(BuyIds) \in Nat
      BY <2>1, TradesAddUp
    <2> QED
      BY <1>1, <2>2, QuantityAssumption DEF Holding, Init, InitBuy, InitInventorySell,
         NewBuyOrder, NoBuyOrder, NewSellOrder, HasBuyOrder
  <1> QED
    BY <1>1, <1>2, <1>3 DEF SellPlan, Resent, ResentFor, Unbooked, RealizedTraded

\* The quantity still to be sold plus what traded is the holding, over a step.
LEMMA SellPlanStep ==
  ASSUME BooksInv, BooksInv', BuyPlan, SellPlan, [Next]_vars
  PROVE  SellPlan'
  <1>1. Resent("SELL", so)' /\ RealizedTraded'
    BY SellStaysResent, RealizedStaysTraded
  <1>2. SellMove /\ OthersStay("SELL", so.id)
    BY OrdersMove, OthersStand
  <1>3. /\ so.id \in OrderIds \cup {NoId} /\ so'.id \in OrderIds \cup {NoId}
        /\ so.qty \in Nat /\ so.real \in Nat /\ bo.real \in Nat
        /\ TypeOK /\ BooksSound /\ NoId \notin OrderIds
    BY DEF BooksInv, IInv, FillsBooked, TypeOK, SellOrder, BuyOrder, OrderIds, NoId
  <1>4. SellCreated => /\ so'.id = NextId /\ so'.qty = so.qty /\ NextId \in OrderIds
                       /\ so.qty > 0
    BY <1>3, NextIdFree DEF SellCreated, OpenSell, Sent, TypeOK, SellOrder
  <1>5. so'.id = NoId => so.id = NoId /\ ~ SellCreated
    BY <1>2, <1>3, <1>4 DEF SellMove, SellStays, SellBooks, SellRenewed
  <1>6. so'.id = NoId => /\ so'.real = 0
                         /\ \A o \in OrderIds \ lostAck' : ex'[o].side # "SELL"
    <2> SUFFICES ASSUME so'.id = NoId
                 PROVE  /\ so'.real = 0
                        /\ \A o \in OrderIds \ lostAck' : ex'[o].side # "SELL"
      OBVIOUS
    <2>1. so'.real = 0
      BY <1>2, <1>3, <1>5 DEF SellMove, SellStays, SellBooks, SellRenewed, SellPlan
    <2>2. \A o \in OrderIds \ lostAck' : ex'[o].side # "SELL"
      BY <1>5, SidesGrow DEF SellPlan
    <2> QED
      BY <2>1, <2>2
  <1>7. so'.id # NoId => so'.qty > 0
    BY <1>2, <1>3, <1>4 DEF SellMove, SellStays, SellBooks, SellRenewed, SellPlan
  <1>8. so'.qty <= Holding'
    <2>1. so'.qty \in {so.qty, bo.real, 0}
      BY <1>2, <1>4 DEF SellMove, SellStays, SellBooks, SellRenewed
    <2>2. so.qty <= Holding /\ bo.real <= Holding /\ Holding \in Nat
      BY <1>3, RealizedHeld DEF SellPlan
    <2>3. TypeOK'
      BY DEF BooksInv, IInv
    <2>4. (Holding \in Nat)'
      BY <2>3, HoldingType, PTL
    <2>5. ExchangeMoves /\ HasBuyOrder' = HasBuyOrder
      BY BuySideKept, ExchangeOnlyMoves DEF BooksInv, IInv, KeepsTrack
    <2>6. Holding <= Holding'
      BY <1>3, <2>3, <2>5, HoldingGrows
    <2> QED
      BY <1>3, <2>1, <2>2, <2>4, <2>6
  <1> QED
    BY <1>1, <1>6, <1>7, <1>8 DEF SellPlan

(***************************************************************************)
(* The sums                                                                *)
(***************************************************************************)

\* With at most one earlier order, what the orders of a side booked is what it
\* booked and what the order in hand did.
LEMMA OneEarlier ==
  ASSUME TypeOK, NEW E \in SUBSET OrderIds, Cardinality(E) <= 1
  PROVE  E = {} \/ \E e \in OrderIds : E = {e}
  <1>1. IsFiniteSet(E)
    BY TradesAddUp
  <1> SUFFICES ASSUME NEW e \in E, NEW p \in E, e # p PROVE FALSE
    OBVIOUS
  <1>2. IsFiniteSet(E \ {e}) /\ Cardinality(E \ {e}) = Cardinality(E) - 1
        /\ Cardinality(E) \in Nat
    BY <1>1, FS_RemoveElement, FS_CardinalityType
  <1>3. Cardinality(E \ {e}) = 0
    BY <1>2, FS_CardinalityType
  <1>4. E \ {e} = {}
    BY <1>2, <1>3, FS_EmptySet
  <1> QED
    BY <1>4

\* What the order in hand was sent for and what the one before it booked is what
\* the order in hand is for.
Offered(side, order) ==
    /\ order.id \notin lostAck
    /\ order.id # NoId =>
         /\ Earlier(side, order.id) = {} => ex[order.id].qty = order.qty
         /\ \A e \in OrderIds :
               Earlier(side, order.id) = {e} => seen[e] + ex[order.id].qty = order.qty

\* What both sides offered is within the plan and the holding.
Offers ==
    /\ Offered("BUY", bo) /\ Offered("SELL", so)
    /\ IF HasBuyOrder THEN bo.qty = Quantity
       ELSE bo.id = NoId /\ \A o \in OrderIds \ lostAck : ex[o].side # "BUY"
    /\ bo.id = NoId => Earlier("BUY", NoId) = {}
    /\ so.id = NoId => \A o \in OrderIds \ lostAck : ex[o].side # "SELL"
    /\ so.qty <= Holding

\* An order that was sent for what was left was offered within its quantity.
LEMMA ResentIsOffered ==
  ASSUME TypeOK, NEW side, NEW order, order.id \in OrderIds \cup {NoId}, Resent(side, order)
  PROVE  Offered(side, order)
  <1> SUFFICES ASSUME order.id # NoId
               PROVE  /\ Earlier(side, order.id) = {} => ex[order.id].qty = order.qty
                      /\ \A e \in OrderIds : Earlier(side, order.id) = {e} =>
                            seen[e] + ex[order.id].qty = order.qty
    BY DEF Offered, Resent
  <1>1. 0 + ex[order.id].qty = ex[order.id].qty
    BY DEF TypeOK
  <1> QED
    BY <1>1 DEF Resent, ResentFor

LEMMA PlansOffer ==
  ASSUME BooksInv, BuyPlan, SellPlan
  PROVE  Offers
  <1>1. /\ TypeOK /\ bo.id \in OrderIds \cup {NoId} /\ so.id \in OrderIds \cup {NoId}
        /\ ~ HasBuyOrder => bo.id = NoId
    BY DEF BooksInv, IInv, TypeOK, BuyOrder, SellOrder, StatesMatch, BuyMatches
  <1>2. Offered("BUY", bo) /\ Offered("SELL", so)
    BY <1>1, ResentIsOffered DEF BuyPlan, SellPlan
  <1> QED
    BY <1>1, <1>2 DEF Offers, BuyPlan, SellPlan

\* What the orders of a side booked and what the one that works may still trade
\* is no more than the order in hand is for.
LEMMA SideWithinOrder ==
  ASSUME TypeOK, BooksSound, NEW side \in {"BUY", "SELL"}, NEW order, NEW S,
         S = {o \in OrderIds \ lostAck : ex[o].side = side},
         order.id \in OrderIds \cup {NoId}, order.qty \in Nat,
         order.id # NoId => ex[order.id].side = side,
         S \cap LiveIds \subseteq {order.id},
         Offered(side, order), order.id = NoId => Earlier(side, NoId) = {},
         Cardinality(Earlier(side, order.id)) <= 1
  PROVE  /\ BookedIn(S) + Outstanding(S) <= order.qty
         /\ order.id = NoId => BookedIn(S) + Outstanding(S) = 0
  <1> DEFINE id == order.id
             E == Earlier(side, id)
  <1>1. /\ Numbers(seen, S) /\ S \in SUBSET OrderIds
        /\ \A o \in OrderIds : seen[o] \in Nat /\ ex[o].qty \in Nat /\ seen[o] <= ex[o].qty
    <2>1. \A o \in OrderIds : seen[o] \in Nat /\ ex[o].qty \in Nat /\ ex[o].cum \in Nat
      BY DEF TypeOK
    <2>2. S \in SUBSET OrderIds
      OBVIOUS
    <2> QED
      BY <2>1, <2>2, TradesAddUp DEF Numbers, BooksSound
  <1>2. \A o \in S : o # id /\ o \notin E => seen[o] = 0
    BY <1>1 DEF Earlier, Traded
  <1>3. ASSUME NEW T \in SUBSET S, \A o \in S : o # id /\ o \notin E => o \notin T,
               \A o \in S : o = id \/ o \in E => o \in T
        PROVE  BookedIn(S) = SumFunctionOnSet(seen, T)
    <2>1. PICK Z \in SUBSET S : S \ Z = T /\ \A o \in Z : seen[o] = 0
      <3>1. S \ T \in SUBSET S /\ S \ (S \ T) = T /\ \A o \in S \ T : seen[o] = 0
        BY <1>2, <1>3
      <3> QED
        BY <3>1
    <2> QED
      BY <1>1, <2>1, SumIgnoresZeros DEF BookedIn
  <1>4. CASE id = NoId
    <2>1. E = {} /\ id \notin S /\ S \cap LiveIds = {}
      BY <1>1, <1>4 DEF OrderIds, NoId
    <2>2. BookedIn(S) = 0
      BY <1>3, <2>1, SumOfNone
    <2>3. Outstanding(S) = 0
      BY <2>1, SumOfNone DEF Outstanding
    <2> QED
      BY <2>2, <2>3
  <1>5. CASE id # NoId
    <2>1. id \in S /\ id \in OrderIds /\ id \notin E
      BY <1>5 DEF Offered, Earlier
    <2>2. Outstanding(S) \in Int /\ Outstanding(S) <= ex[id].qty - seen[id]
      <3>1. PICK f : f = [o \in OrderIds |-> ex[o].qty - seen[o]]
        OBVIOUS
      <3>2. f[id] = ex[id].qty - seen[id] /\ f[id] \in Int /\ f[id] >= 0
        BY <1>1, <2>1, <3>1
      <3>3. SumFunctionOnSet(f, {}) = 0 /\ SumFunctionOnSet(f, {id}) = f[id]
        BY <3>2, SumOfNone, SumOfOne
      <3>4. PICK T : T = S \cap LiveIds /\ (T = {} \/ T = {id})
        OBVIOUS
      <3>5. Outstanding(S) = SumFunctionOnSet(f, T)
        BY <3>1, <3>4 DEF Outstanding
      <3>6. PICK n, k : n = Outstanding(S) /\ k = ex[id].qty - seen[id]
        OBVIOUS
      <3>7. n = 0 \/ n = k
        BY <3>2, <3>3, <3>4, <3>5, <3>6
      <3>8. k \in Int /\ k >= 0
        BY <3>2, <3>6
      <3>9. n \in Int /\ n <= k
        BY <3>7, <3>8
      <3> QED
        BY <3>6, <3>9
    <2>3. E \in SUBSET S
      BY DEF Earlier, Traded
    <2>4. CASE E = {}
      <3>1. BookedIn(S) = seen[id]
        <4>1. {id} \in SUBSET S /\ seen[id] \in Int
          BY <1>1, <2>1
        <4>2. BookedIn(S) = SumFunctionOnSet(seen, {id})
          BY <1>3, <2>4, <4>1
        <4> QED
          BY <4>1, <4>2, SumOfOne
      <3>2. ex[id].qty = order.qty
        BY <1>5, <2>4 DEF Offered
      <3> QED
        BY <1>1, <1>5, <2>1, <2>2, <3>1, <3>2
    <2>5. ASSUME NEW e \in OrderIds, E = {e}
          PROVE  BookedIn(S) + Outstanding(S) <= order.qty
      <3>1. BookedIn(S) = seen[id] + seen[e]
        <4>1. {id, e} \in SUBSET S /\ id # e /\ seen[id] \in Int /\ seen[e] \in Int
          BY <1>1, <2>1, <2>3, <2>5
        <4>2. BookedIn(S) = SumFunctionOnSet(seen, {id, e})
          BY <1>3, <2>5, <4>1
        <4> QED
          BY <4>1, <4>2, SumOfTwo
      <3>2. seen[e] + ex[id].qty = order.qty
        BY <1>5, <2>5 DEF Offered
      <3> QED
        BY <1>1, <2>1, <2>2, <3>1, <3>2
    <2> QED
      BY <1>5, <2>3, <2>4, <2>5, OneEarlier DEF Earlier
  <1> QED
    BY <1>4, <1>5

\* The orders in hand are the only ones that work.
LEMMA SidesWork ==
  ASSUME IInv
  PROVE  /\ BuyIds \cap Known = {o \in OrderIds \ lostAck : ex[o].side = "BUY"}
         /\ SellIds \cap Known = {o \in OrderIds \ lostAck : ex[o].side = "SELL"}
         /\ (BuyIds \cap Known) \cap LiveIds \subseteq {bo.id}
         /\ (SellIds \cap Known) \cap LiveIds \subseteq {so.id}
         /\ EarlierFills(BuyIds, bo.id) = Earlier("BUY", bo.id)
         /\ EarlierFills(SellIds, so.id) = Earlier("SELL", so.id)
  <1>1. /\ BuyIds \cap Known = {o \in OrderIds \ lostAck : ex[o].side = "BUY"}
        /\ SellIds \cap Known = {o \in OrderIds \ lostAck : ex[o].side = "SELL"}
        /\ EarlierFills(BuyIds, bo.id) = Earlier("BUY", bo.id)
        /\ EarlierFills(SellIds, so.id) = Earlier("SELL", so.id)
    BY DEF BuyIds, SellIds, Known, EarlierFills, Earlier, Traded
  <1>2. \A o \in OrderIds \ lostAck : ex[o].live => o = bo.id \/ o = so.id
    BY DEF IInv, KeepsTrack, Tracked, LiveKnown
  <1>3. /\ bo.id \in OrderIds => ex[bo.id].side = "BUY"
        /\ so.id \in OrderIds => ex[so.id].side = "SELL"
    BY DEF IInv, KeepsTrack, IdsAgree, OrderIds, NoId
  <1> QED
    BY <1>1, <1>2, <1>3 DEF LiveIds

\* Offers within the plan and the holding are what the runs check.
LEMMA OffersHold ==
  ASSUME IInv, BooksSound, Offers
  PROVE  BuysWithinPlan /\ SellsWithinHolding
  <1> USE SidesWork
  <1>1. /\ TypeOK /\ BooksSound
        /\ bo.id \in OrderIds \cup {NoId} /\ so.id \in OrderIds \cup {NoId}
        /\ bo.qty \in Nat /\ so.qty \in Nat
        /\ bo.id # NoId => ex[bo.id].side = "BUY"
        /\ so.id # NoId => ex[so.id].side = "SELL"
    BY DEF IInv, KeepsTrack, TypeOK, BuyOrder, SellOrder, IdsAgree
  <1>2. BuysWithinPlan
    <2>1. PICK S : S = BuyIds \cap Known
      OBVIOUS
    <2>2. ASSUME Cardinality(Earlier("BUY", bo.id)) <= 1
          PROVE  /\ BookedIn(S) + Outstanding(S) <= bo.qty
                 /\ bo.id = NoId => BookedIn(S) + Outstanding(S) = 0
      BY <1>1, <2>1, <2>2, SideWithinOrder DEF Offers
    <2>3. HasBuyOrder => bo.qty = Quantity
      BY DEF Offers
    <2>4. ~ HasBuyOrder => bo.id = NoId
      BY DEF Offers
    <2> QED
      BY <1>1, <2>1, <2>2, <2>3, <2>4, QuantityAssumption DEF BuysWithinPlan
  <1>3. SellsWithinHolding
    <2>1. PICK S : S = SellIds \cap Known
      OBVIOUS
    <2>2. so.id = NoId => Earlier("SELL", NoId) = {}
      BY DEF Offers, Earlier, Traded
    <2>3. ASSUME Cardinality(Earlier("SELL", so.id)) <= 1
          PROVE  BookedIn(S) + Outstanding(S) <= so.qty
      BY <1>1, <2>1, <2>2, <2>3, SideWithinOrder DEF Offers
    <2>4. so.qty <= Holding /\ Holding \in Nat
      BY <1>1, HoldingType DEF Offers
    <2>5. ASSUME Cardinality(Earlier("SELL", so.id)) <= 1
          PROVE  BookedIn(S) + Outstanding(S) \in Int
      <3>1. S \in SUBSET OrderIds /\ S \cap LiveIds \in SUBSET OrderIds
        BY <2>1 DEF SellIds
      <3>2. Numbers(seen, S)
            /\ Numbers([o \in OrderIds |-> ex[o].qty - seen[o]], S \cap LiveIds)
        BY <1>1, <3>1, TradesAddUp DEF Numbers, TypeOK
      <3> QED
        BY <3>2, SumType DEF BookedIn, Outstanding
    <2> QED
      BY <1>1, <2>1, <2>3, <2>4, <2>5 DEF SellsWithinHolding, Holding
  <1> QED
    BY <1>2, <1>3

\* The plans imply what the runs check.
LEMMA PlansHold ==
  ASSUME BooksInv, BuyPlan, SellPlan
  PROVE  BuysWithinPlan /\ SellsWithinHolding /\ (SoldFilled => SoldIsComplete)
  <1> USE SidesWork DEF BooksInv
  <1>1. /\ TypeOK /\ BooksSound
        /\ bo.id \in OrderIds \cup {NoId} /\ so.id \in OrderIds \cup {NoId}
        /\ bo.qty \in Nat /\ so.qty \in Nat
        /\ bo.id # NoId => ex[bo.id].side = "BUY"
        /\ so.id # NoId => ex[so.id].side = "SELL"
    BY DEF IInv, FillsBooked, KeepsTrack, TypeOK, BuyOrder, SellOrder, IdsAgree
  <1>2. BuysWithinPlan /\ SellsWithinHolding
    BY <1>1, PlansOffer, OffersHold
  <1>3. SoldFilled => SoldIsComplete
    <2> SUFFICES ASSUME SoldFilled, state = "SOLD", Cardinality(Earlier("SELL", so.id)) <= 1
                 PROVE  TradedIn(SellIds) >= so.qty
      BY DEF SoldIsComplete
    <2>1. /\ so.id # NoId /\ so.id \in OrderIds /\ Done(so.id)
      BY <1>1 DEF SoldFilled, FillsBooked, Settled
    <2>2. PICK f : f = [o \in OrderIds |-> ex[o].cum]
      OBVIOUS
    <2>3. SellIds \in SUBSET OrderIds /\ so.id \in SellIds
      BY <1>1, <2>1 DEF SellIds
    <2>4. /\ Numbers(f, SellIds) /\ \A o \in SellIds : f[o] = ex[o].cum /\ f[o] >= 0
          /\ TradedIn(SellIds) = SumFunctionOnSet(f, SellIds)
      <3>1. \A o \in SellIds : f[o] = ex[o].cum /\ f[o] \in Nat
        BY <1>1, <2>2, <2>3 DEF TypeOK
      <3>2. IsFiniteSet(SellIds)
        BY <1>1, <2>3, TradesAddUp
      <3>3. TradedIn(SellIds) = SumFunctionOnSet(f, SellIds)
        BY <2>2 DEF TradedIn
      <3> QED
        BY <3>1, <3>2, <3>3 DEF Numbers
    <2>5. CASE Earlier("SELL", so.id) = {}
      <3>1. 0 + ex[so.id].qty = so.qty /\ ex[so.id].cum = ex[so.id].qty
        BY <2>1, <2>5 DEF SellPlan, Resent, ResentFor, Done
      <3>2. ex[so.id].cum <= TradedIn(SellIds) /\ TradedIn(SellIds) \in Nat
        BY <1>1, <2>3, TradesAddUp
      <3> QED
        BY <1>1, <2>1, <3>1, <3>2 DEF TypeOK
    <2>6. ASSUME NEW e \in OrderIds, Earlier("SELL", so.id) = {e}
          PROVE  TradedIn(SellIds) >= so.qty
      <3>1. seen[e] + ex[so.id].qty = so.qty /\ ex[so.id].cum = ex[so.id].qty
        BY <2>1, <2>6 DEF SellPlan, Resent, ResentFor, Done
      <3>2. e \in SellIds /\ e # so.id /\ seen[e] <= ex[e].cum
        BY <1>1, <2>6 DEF Earlier, Traded, SellIds, BooksSound
      <3>3. PICK T : T = {e, so.id}
        OBVIOUS
      <3>4. SumFunctionOnSet(f, T) = f[e] + f[so.id]
        BY <2>3, <2>4, <3>2, <3>3, SumOfTwo DEF Numbers
      <3>5. SumFunctionOnSet(f, T) <= SumFunctionOnSet(f, SellIds)
        BY <2>3, <2>4, <3>2, <3>3, SumGrows
      <3>6. /\ seen[e] \in Nat /\ ex[e].cum \in Nat /\ ex[so.id].cum \in Nat
            /\ ex[so.id].qty \in Nat /\ SumFunctionOnSet(f, SellIds) \in Int
        BY <1>1, <2>1, <2>4, <2>6, SumType DEF TypeOK
      <3> QED
        BY <2>3, <2>4, <3>1, <3>2, <3>4, <3>5, <3>6
    <2> QED
      BY <1>1, <2>5, <2>6, OneEarlier DEF Earlier
  <1> QED
    BY <1>2, <1>3

(***************************************************************************)
(* The plans hold                                                          *)
(***************************************************************************)

\* What is sent is what earlier orders left of the budget and of the holding.
PlanInv == BooksInv /\ BuyPlan /\ SellPlan /\ SoldFilled

LEMMA PlanInit == Init => PlanInv
  <1>1. Init => SoldFilled
    BY DEF Init, InitBuy, InitInventorySell, SoldFilled
  <1> QED
    BY <1>1, BooksInit, BuyPlanInit, SellPlanInit DEF PlanInv

LEMMA PlanStep == PlanInv /\ [Next]_vars => PlanInv'
  BY BooksStep, BuyPlanStep, SellPlanStep, SoldStaysFilled DEF PlanInv

\* What was booked and what the open buy order can still buy stay within the
\* quantity the budget buys, while one order at most had traded before that one.
\* Trades whose reports were dropped (TradesAreBooked) are in no book and do not
\* count.
THEOREM BuysStayWithinPlan == Spec => []BuysWithinPlan
  <1>1. PlanInv => BuysWithinPlan
    BY PlansHold DEF PlanInv
  <1> QED
    BY <1>1, PlanInit, PlanStep, PTL DEF Spec

\* What was booked as sold and what the open sell order still offers stay within
\* what its buy orders traded (or what it was given to sell), while one sell order
\* at most had traded before that one.
THEOREM SellsStayWithinHolding == Spec => []SellsWithinHolding
  <1>1. PlanInv => SellsWithinHolding
    BY PlansHold DEF PlanInv
  <1> QED
    BY <1>1, PlanInit, PlanStep, PTL DEF Spec

\* A position is SOLD only when the sell quantity fixed at its first sell has
\* traded in full.  What was bought after that is not in this quantity.
THEOREM SoldPositionsAreComplete == Spec => []SoldIsComplete
  <1>1. PlanInv => SoldIsComplete
    BY PlansHold DEF PlanInv
  <1> QED
    BY <1>1, PlanInit, PlanStep, PTL DEF Spec

(***************************************************************************)
(* The balance                                                             *)
(***************************************************************************)

\* The quote currency of a budget of which B is spent and s is left.
LEMMA MoneyBound ==
  ASSUME NEW Q \in Int, NEW I \in Int, NEW B \in Int, NEW s \in Int, NEW r \in Int,
         0 <= B, B <= Q, 0 <= r, r <= Q, s <= Q - B
  PROVE  Q * (I - Q) + s * (Q - r) <= Q * (I - B)
  <1>1. s * (Q - r) <= (Q - B) * (Q - r)
    OBVIOUS
  <1>2. (Q - B) * (Q - r) <= (Q - B) * Q
    OBVIOUS
  <1>3. Q * (I - Q) + (Q - B) * Q = Q * (I - B)
    OBVIOUS
  <1> QED
    BY <1>1, <1>2, <1>3

\* The arithmetic of a send: no more is committed than was there.
LEMMA MoneyCommitted ==
  ASSUME NEW Q \in Int, NEW I \in Int, NEW B \in Int, 0 <= Q, B <= Q
  PROVE  Q * (I - Q) <= Q * (I - B)
  OBVIOUS

\* The worker waits for an answer about a buy order in a buying state only.
LEMMA BuyingMatchesStep ==
  ASSUME BuyingMatches, TypeOK, [Next]_vars
  PROVE  BuyingMatches'
  <1> USE DEF BuyingMatches, Callbacks, BuyCreates, BuyCancels, SellCreates, SellCancels
  <1>1. CASE process_ticker
    <2>1. CASE SendBuy \/ ResendBuy
      BY <2>1 DEF SendBuy, ResendBuy, Enter
    <2>2. CASE CancelUnfilledBuy \/ CancelPartlyBought
      BY <2>2 DEF CancelUnfilledBuy, CancelPartlyBought, Enter
    <2>3. CASE SendSell
      BY <2>3 DEF SendSell, Enter
    <2>4. CASE CancelUnfilledSell \/ CancelPartlySold
      BY <2>4 DEF CancelUnfilledSell, CancelPartlySold, Enter, TypeOK
    <2>5. CASE ResendSell
      BY <2>5 DEF ResendSell, CanResendSell, CanResumeSelling, Enter
    <2>6. CASE RaiseInCondition
      BY <2>6 DEF RaiseInCondition, Die
    <2>7. CASE IgnoreTick
      BY <2>7 DEF IgnoreTick, Ignore
    <2> QED
      BY <1>1, <2>1, <2>2, <2>3, <2>4, <2>5, <2>6, <2>7 DEF process_ticker
  <1>2. CASE process_order \/ process_signal
    <2>1. pc' \in {"idle", "dead"}
      BY <1>2
      DEF process_order, process_signal, Take, TakeAndSignal, Waiting, Running, Die, Ignore,
          BuyFilledReport, BuyPartFilledReport, SellFilledReport, SellPartFilledReport,
          StatusReport, DropFill, CloseFilledBuy, CloseFilledSell, RaiseOnSignal
    <2> QED
      BY <2>1
  <1>3. CASE Answers
    <2>1. pc' \in {"idle", "dead"} \/ (pc' = pc /\ state' = state)
      BY <1>3
      DEF Answers, CreateAnswers, CancelAnswers, LoseBuyAck, LoseSellAck, LoseAck, CreateBuyFails,
          CreateSellFails, CreateFails, BuyCreated, SellCreated, ResendNothing, Die,
          CancelFails, BuyCancelled, UnfilledSellCancelled, PartlySoldCancelled, CancelAnswered
    <2> QED
      BY <2>1
  <1>4. CASE ClosePosition \/ Environment \/ UNCHANGED vars
    <2>1. pc' = pc /\ state' = state
      BY <1>4 DEF ClosePosition, Environment, vars, Ticker, ConfigureSell, Fill, Snapshot,
         Withdraw
    <2> QED
      BY <2>1
  <1> QED
    BY <1>1, <1>2, <1>3, <1>4 DEF Next, Worker

\* The machine comes to wait in BUYING by the answer that an order was placed.
LEMMA StillBuying ==
  ASSUME BuyingMatches, TypeOK, BooksInv, [Next]_vars, pc' = "idle", state' = "BUYING"
  PROVE  BuyCreated \/ (pc = "idle" /\ state = "BUYING" /\ bo'.id = bo.id)
  <1> USE DEF BuyCreates, BuyCancels, SellCreates, SellCancels
  <1>1. CASE process_ticker
    BY <1>1 DEF process_ticker, SendBuy, CancelUnfilledBuy, CancelPartlyBought, ResendBuy,
       SendSell, CancelUnfilledSell, CancelPartlySold, ResendSell, RaiseInCondition,
       IgnoreTick, Enter, Die, Ignore
  <1>2. CASE process_order
    <2>1. Waiting("report") /\ pc = "idle" /\ state' = state
      BY <1>2 DEF process_order, Take, TakeAndSignal, BuyFilledReport, BuyPartFilledReport,
         SellFilledReport, SellPartFilledReport, StatusReport, DropFill, Waiting, Running, Ignore
    <2>2. /\ report.status \in OrderStatus /\ report.cum \in Nat /\ bo \in BuyOrder
      BY <2>1, ReportFields DEF TypeOK
    <2>3. CASE BuyFilledReport
      BY <2>1, <2>2, <2>3, BookedFields DEF BuyFilledReport, OrderStatus
    <2>4. CASE BuyPartFilledReport
      <3>1. /\ Booked(bo, "PARTIALLY_FILLED") \in BuyOrder
            /\ Booked(bo, "PARTIALLY_FILLED").id = bo.id
        BY <2>2, BookedFields DEF OrderStatus
      <3> QED
        BY <2>1, <2>4, <3>1 DEF BuyPartFilledReport, BuyOrder
    <2>5. CASE StatusReport
      BY <2>1, <2>2, <2>5 DEF StatusReport, Restatus, BuyOrder
    <2>6. CASE SellFilledReport \/ SellPartFilledReport \/ DropFill
      BY <2>1, <2>6 DEF SellFilledReport, SellPartFilledReport, DropFill, Ignore
    <2> QED
      BY <1>2, <2>3, <2>4, <2>5, <2>6 DEF process_order
  <1>3. CASE process_signal
    BY <1>3 DEF process_signal, CloseFilledBuy, CloseFilledSell, RaiseOnSignal, Die
  <1>4. CASE CreateAnswers
    <2>1. CASE LoseBuyAck \/ LoseSellAck
      BY <2>1 DEF LoseBuyAck, LoseSellAck, LoseAck, AwaitsCreateBuy, AwaitsCreateSell
    <2> QED
      BY <1>4, <2>1 DEF CreateAnswers, CreateBuyFails, CreateSellFails, CreateFails, SellCreated,
         ResendNothing, Die
  <1>5. CASE CancelAnswers
    <2>1. CASE CancelFails
      BY <2>1 DEF CancelFails, Die
    <2>2. CASE BuyCancelled
      BY <2>2 DEF BuyCancelled, BuyingMatches, Callbacks
    <2>3. CASE UnfilledSellCancelled
      BY <2>3 DEF UnfilledSellCancelled
    <2>4. CASE PartlySoldCancelled
      BY <2>4 DEF PartlySoldCancelled, BuyingMatches, Callbacks
    <2> QED
      BY <1>5, <2>1, <2>2, <2>3, <2>4 DEF CancelAnswers
  <1>6. CASE ClosePosition \/ Environment \/ UNCHANGED vars
    BY <1>6 DEF ClosePosition, Environment, vars, Ticker, ConfigureSell, Fill, Snapshot,
       Withdraw
  <1> QED
    BY <1>1, <1>2, <1>3, <1>4, <1>5, <1>6 DEF Next, Worker, Answers

\* A fill adds to what was reported, and says by how much.
Arrives(e) ==
    \A o \in OrderIds :
        IF Fills(e, o)
        THEN /\ ex[o].cum < e.cum /\ ex'[o].cum = e.cum
             /\ e.cum - e.last = ex[o].cum
        ELSE ex'[o].cum = ex[o].cum
CumStays == \A o \in OrderIds : ex'[o].cum = ex[o].cum

\* The worker takes events, the environment adds one behind the others, and only
\* a trade whose report is lost is not told.
LEMMA EventsArrive ==
  ASSUME BooksInv, [Next]_vars
  PROVE  \/ /\ Worker /\ CumStays /\ queue # <<>>
            /\ queue' \in {Tail(queue), Append(Tail(queue), Signal)}
         \/ /\ ~ Worker /\ seen' = seen /\ queue' = queue
            /\ gaps' = gaps => CumStays
         \/ /\ ~ Worker /\ seen' = seen
            /\ \E e \in Event : queue' = Append(queue, e) /\ Arrives(e)
  <1> USE DEF BooksInv, IInv, KeepsTrack, FillsBooked, TypeOK
  <1>1. CASE Worker
    <2>1. queue # <<>> /\ queue' \in {Tail(queue), Append(Tail(queue), Signal)}
      BY <1>1
      DEF Worker, process_ticker, process_order, process_signal, Take, TakeAndSignal,
          Waiting, SendBuy, CancelUnfilledBuy, CancelPartlyBought, ResendBuy,
          SendSell, CancelUnfilledSell, CancelPartlySold, ResendSell,
          RaiseInCondition, IgnoreTick, BuyFilledReport, BuyPartFilledReport,
          SellFilledReport, SellPartFilledReport, StatusReport, DropFill,
          CloseFilledBuy, CloseFilledSell, RaiseOnSignal
    <2>2. CumStays
      BY <1>1, WorkerLeavesExchange DEF CumStays
    <2> QED
      BY <1>1, <2>1, <2>2
  <1>2. CASE ~ Worker /\ (Answers \/ ClosePosition \/ UNCHANGED vars)
    <2>1. queue' = queue /\ seen' = seen
      BY <1>2
      DEF Answers, CreateAnswers, CancelAnswers, ClosePosition, vars, LoseBuyAck,
          LoseSellAck, LoseAck, CreateBuyFails, CreateSellFails, CreateFails,
          BuyCreated, SellCreated, ResendNothing, CancelFails, BuyCancelled,
          UnfilledSellCancelled, PartlySoldCancelled, CancelAnswered
    <2>2. CASE CreateAnswers
      <3>1. \/ ex' = ex
            \/ FreeIds # {} /\ ex' = Placed("BUY", OpenBuy)
            \/ FreeIds # {} /\ ex' = Placed("SELL", OpenSell)
        BY <2>2 DEF CreateAnswers, LoseBuyAck, LoseSellAck, LoseAck, CreateBuyFails,
           CreateSellFails, CreateFails, BuyCreated, SellCreated, ResendNothing
      <3>2. FreeIds # {} => ex[NextId].cum = 0
        BY NextIdFree DEF BooksSound
      <3>3. ASSUME NEW side, NEW qty, FreeIds # {}, ex' = Placed(side, qty)
            PROVE  CumStays
        <4>1. \A o \in OrderIds : o # NextId => ex'[o] = ex[o]
          BY <3>3 DEF Placed
        <4>2. ex'[NextId].cum = 0 /\ NextId \in OrderIds
          BY <3>3, NextIdFree DEF Placed
        <4> QED
          BY <3>2, <3>3, <4>1, <4>2 DEF CumStays
      <3>4. CumStays
        BY <3>1, <3>3 DEF CumStays
      <3> QED
        BY <1>2, <2>1, <3>4
    <2>3. CASE ~ CreateAnswers
      <3>1. \/ ex' = ex
            \/ ex' = Closed(Order.id)
        BY <1>2, <2>3 DEF Answers, CancelAnswers, CancelFails, BuyCancelled, vars,
           UnfilledSellCancelled, PartlySoldCancelled, CancelAnswered, ClosePosition
      <3>2. ASSUME NEW id, ex' = Closed(id)
            PROVE  CumStays
        <4>1. \A o \in OrderIds : ex'[o] = ex[o] \/ ex'[o].cum = ex[o].cum
          BY <3>2 DEF Closed
        <4> QED
          BY <4>1 DEF CumStays
      <3>3. CumStays
        BY <3>1, <3>2 DEF CumStays
      <3> QED
        BY <1>2, <2>1, <3>3
    <2> QED
      BY <2>2, <2>3
  <1>3. CASE ~ Worker /\ Environment
    <2>1. seen' = seen
      BY <1>3 DEF Environment, Ticker, ConfigureSell, Fill, Snapshot, Withdraw
    <2>2. ASSUME NEW p \in Prices, Ticker(p)
          PROVE  \E e \in Event : queue' = Append(queue, e) /\ Arrives(e)
      <3>1. Tick(p) \in Event /\ Tick(p).kind # "report"
        BY TickIsEvent DEF Tick
      <3> QED
        BY <2>2, <3>1 DEF Ticker, Deliver, Arrives, Fills
    <2>3. ASSUME NEW q \in {0, bo.real}, ConfigureSell(q)
          PROVE  queue' = queue /\ CumStays
      BY <2>3 DEF ConfigureSell, CumStays
    <2>4. ASSUME NEW o \in OrderIds, NEW n \in 1 .. Quantity, Fill(o, n)
          PROVE  \/ queue' = queue /\ gaps' # gaps
                 \/ \E e \in Event : queue' = Append(queue, e) /\ Arrives(e)
      <3> DEFINE full == ex[o].cum + n = ex[o].qty
                 s == IF full THEN "FILLED" ELSE "PARTIALLY_FILLED"
      <3>1. n \in Nat /\ n > 0 /\ ex[o].cum + n \in Nat /\ s \in OrderStatus
            /\ s \in {"PARTIALLY_FILLED", "FILLED"} /\ ex[o].cum \in Nat
        BY QuantityAssumption DEF OrderStatus
      <3>2. \/ queue' = queue /\ gaps' = gaps + 1
            \/ queue' = Append(queue, Report(o, s, ex[o].cum + n, n))
        BY <2>4, Zenon DEF Fill, Deliver
      <3>3. ex' = [ex EXCEPT ![o] = [side |-> @.side, qty |-> @.qty,
                                     cum |-> ex[o].cum + n, live |-> ~ full]]
        BY <2>4, Zenon DEF Fill
      <3>4. PICK e \in Event : e = Report(o, s, ex[o].cum + n, n)
        <4> HIDE DEF s
        <4> QED
          BY <3>1, ReportIsEvent
      <3>5. /\ e.kind = "report" /\ e.id = o /\ e.cum = ex[o].cum + n /\ e.last = n
            /\ e.status \in {"PARTIALLY_FILLED", "FILLED"}
        <4> HIDE DEF s
        <4> QED
          BY <3>1, <3>4 DEF Report
      <3>6. /\ ex'[o].cum = e.cum
            /\ \A p \in OrderIds \ {o} : ex'[p].cum = ex[p].cum
        BY <3>3, <3>5
      <3>7. Arrives(e)
        BY <3>1, <3>5, <3>6 DEF Arrives, Fills
      <3>8. gaps' = gaps + 1 => gaps' # gaps
        OBVIOUS
      <3> QED
        BY <3>2, <3>4, <3>7, <3>8
    <2>5. ASSUME NEW o \in OrderIds, NEW s \in {"NEW", "CANCELED", "EXPIRED"},
                 CumStays, queue' = Append(queue, Report(o, s, ex[o].cum, 0))
          PROVE  \E e \in Event : queue' = Append(queue, e) /\ Arrives(e)
      <3>1. PICK e \in Event : e = Report(o, s, ex[o].cum, 0)
        <4>1. ex[o].cum \in Nat /\ s \in OrderStatus
          BY DEF OrderStatus
        <4> QED
          BY <4>1, ReportIsEvent
      <3>2. e.status = s
        BY <3>1 DEF Report
      <3> QED
        BY <2>5, <3>1, <3>2 DEF Arrives, Fills, CumStays
    <2>6. ASSUME NEW o \in OrderIds, Snapshot(o)
          PROVE  \E e \in Event : queue' = Append(queue, e) /\ Arrives(e)
      BY <2>5, <2>6 DEF Snapshot, Deliver, CumStays
    <2>7. ASSUME NEW o \in OrderIds, NEW s \in {"CANCELED", "EXPIRED"}, Withdraw(o, s)
          PROVE  \E e \in Event : queue' = Append(queue, e) /\ Arrives(e)
      <3>1. CumStays
        BY <2>7 DEF Withdraw, Closed, CumStays
      <3> QED
        BY <2>5, <2>7, <3>1 DEF Withdraw, Deliver
    <2> QED
      BY <1>3, <2>1, <2>2, <2>3, <2>4, <2>6, <2>7 DEF Environment
  <1> QED
    BY <1>1, <1>2, <1>3 DEF Next

\* The event behind the others.
LEMMA EventsAppend ==
  ASSUME TypeOK, NEW e \in Event, queue' = Append(queue, e)
  PROVE  /\ Len(queue) \in Nat /\ Len(queue') = Len(queue) + 1
         /\ queue'[Len(queue) + 1] = e
         /\ \A i \in 1 .. Len(queue) : queue'[i] = queue[i]
  BY DEF TypeOK

\* The fills on their way each tell of more than what is booked.
LEMMA ReportsKeepRising ==
  ASSUME BooksInv, ReportsRise, [Next]_vars
  PROVE  ReportsRise'
  <1>0. TypeOK /\ ReportsSound /\ BooksSound /\ Len(queue) \in Nat
    BY DEF BooksInv, IInv, FillsBooked, TypeOK
  <1> SUFFICES ASSUME NEW o \in OrderIds, NEW i \in 1 .. Len(queue'), Fills(queue'[i], o)
               PROVE  /\ seen'[o] < queue'[i].cum
                      /\ \A j \in 1 .. i - 1 :
                            Fills(queue'[j], o) => queue'[j].cum < queue'[i].cum
    BY DEF ReportsRise, FillReport, Fills
  <1>1. CASE Worker /\ queue # <<>> /\ queue' \in {Tail(queue), Append(Tail(queue), Signal)}
    <2>1. \A j \in 1 .. Len(queue') :
            /\ j + 1 \in 1 .. Len(queue) => queue'[j] = queue[j + 1]
            /\ j + 1 \notin 1 .. Len(queue) => queue'[j] = Signal
      BY <1>0, <1>1, QueueShifts
    <2>2. /\ Len(queue') \in Nat /\ 1 \in 1 .. Len(queue) /\ queue[1] = report
      BY <1>0, <1>1, SignalIsEvent DEF report, TypeOK
    <2>3. i + 1 \in 1 .. Len(queue) /\ queue'[i] = queue[i + 1]
      BY <2>1, SignalIsNoReport DEF Fills
    <2>4. ASSUME NEW j \in 1 .. i - 1
          PROVE  /\ j + 1 \in 1 .. i /\ queue'[j] = queue[j + 1]
      <3>1. /\ i \in Nat /\ j \in Nat /\ j + 1 \in 1 .. i /\ j \in 1 .. Len(queue')
            /\ j + 1 \in 1 .. Len(queue)
        BY <1>0, <2>2, <2>3
      <3> QED
        BY <2>1, <3>1
    <2>5. /\ seen[o] < queue[i + 1].cum
          /\ \A j \in 1 .. i :
                Fills(queue[j], o) => queue[j].cum < queue[i + 1].cum
      <3>1. 1 .. (i + 1) - 1 = 1 .. i
        BY <2>2
      <3> QED
        BY <2>3, <3>1 DEF ReportsRise, FillReport
    <2>6. seen'[o] = seen[o] \/ (seen'[o] = report.cum /\ Fills(report, o))
      BY <1>0, <2>2, FillsOnlyBooked DEF Books, TypeOK, Fills
    <2>7. seen'[o] < queue'[i].cum
      <3>1. 1 \in 1 .. i
        BY <2>2
      <3> QED
        BY <2>2, <2>3, <2>5, <2>6, <3>1
    <2>8. \A j \in 1 .. i - 1 : Fills(queue'[j], o) => queue'[j].cum < queue'[i].cum
      BY <2>3, <2>4, <2>5
    <2> QED
      BY <2>7, <2>8
  <1>2. CASE seen' = seen /\ queue' = queue
    BY <1>2 DEF ReportsRise, FillReport
  <1>3. ASSUME NEW e \in Event, seen' = seen, queue' = Append(queue, e), Arrives(e)
        PROVE  /\ seen'[o] < queue'[i].cum
               /\ \A j \in 1 .. i - 1 :
                     Fills(queue'[j], o) => queue'[j].cum < queue'[i].cum
    <2>1. /\ Len(queue) \in Nat /\ Len(queue') = Len(queue) + 1
          /\ queue'[Len(queue) + 1] = e
          /\ \A j \in 1 .. Len(queue) : queue'[j] = queue[j]
      BY <1>0, <1>3, EventsAppend
    <2>2. CASE i \in 1 .. Len(queue)
      BY <1>3, <2>1, <2>2 DEF ReportsRise, FillReport
    <2>3. CASE i = Len(queue) + 1
      <3>1. Fills(e, o) /\ ex[o].cum < e.cum /\ e.cum \in Nat /\ ex[o].cum \in Nat
            /\ seen[o] \in Nat /\ seen[o] <= ex[o].cum
        BY <1>0, <1>3, <2>1, <2>3 DEF Arrives, Fills, TypeOK, BooksSound, Event
      <3>2. ASSUME NEW j \in 1 .. Len(queue), Fills(queue[j], o)
            PROVE  queue[j].cum < e.cum
        <4>1. queue[j].cum <= ex[o].cum /\ queue[j].cum \in Nat
          BY <1>0, <3>2, QueuedReport DEF ReportsSound, Sound, Fills
        <4> QED
          BY <3>1, <4>1
      <3> QED
        BY <1>3, <2>1, <2>3, <3>1, <3>2
    <2> QED
      BY <2>1, <2>2, <2>3
  <1> QED
    BY <1>1, <1>2, <1>3, EventsArrive

\* A lost report is not found again.
LEMMA GapsStay ==
  ASSUME TypeOK, [Next]_vars
  PROVE  gaps \in Nat /\ (gaps' = gaps \/ gaps' = gaps + 1)
  <1>1. gaps \in Nat
    BY BoundAssumption DEF TypeOK
  <1>2. ASSUME Environment
        PROVE  gaps' = gaps \/ gaps' = gaps + 1
    <2>1. ASSUME NEW p \in OrderIds, NEW n \in 1 .. Quantity, Fill(p, n)
          PROVE  gaps' = gaps \/ gaps' = gaps + 1
      BY <2>1, Zenon DEF Fill
    <2>2. CASE ~ \E p \in OrderIds, n \in 1 .. Quantity : Fill(p, n)
      BY <1>2, <2>2 DEF Environment, Ticker, ConfigureSell, Snapshot, Withdraw
    <2> QED
      BY <2>1, <2>2
  <1>3. ASSUME ~ Environment
        PROVE  gaps' = gaps
    BY <1>3
    DEF Next, Worker, process_ticker, process_order, process_signal, ClosePosition,
        Answers, CreateAnswers, CancelAnswers, vars,
        SendBuy, CancelUnfilledBuy, CancelPartlyBought, ResendBuy, SendSell,
        CancelUnfilledSell, CancelPartlySold, ResendSell, RaiseInCondition,
        IgnoreTick, Enter, Ignore, StatusReport, DropFill, CloseFilledBuy,
        CloseFilledSell, RaiseOnSignal, LoseBuyAck, LoseSellAck, LoseAck,
        CreateBuyFails, CreateSellFails, CreateFails, BuyCreated, SellCreated,
        ResendNothing, CancelFails, BuyCancelled, UnfilledSellCancelled,
        PartlySoldCancelled, CancelAnswered, BuyFilledReport, BuyPartFilledReport,
        SellFilledReport, SellPartFilledReport
  <1> QED
    BY <1>1, <1>2, <1>3

\* In BUYING the fill of the buy order that the worker takes is booked.
LEMMA FillIsBooked ==
  ASSUME BooksInv, ReportsRise, Worker, state = "BUYING", bo.id \in OrderIds
  PROVE  /\ seen'[bo.id] >= seen[bo.id]
         /\ Fills(report, bo.id) => seen'[bo.id] = report.cum
  <1> USE DEF BooksInv, IInv, TypeOK
  <1>1. CASE process_ticker
    <2>1. Waiting("tick") /\ seen' = seen
      BY <1>1
      DEF process_ticker, Take, SendBuy, CancelUnfilledBuy, CancelPartlyBought, ResendBuy,
          SendSell, CancelUnfilledSell, CancelPartlySold, ResendSell, RaiseInCondition,
          IgnoreTick, Enter, Ignore
    <2> QED
      BY <2>1 DEF Waiting, Fills, report
  <1>2. CASE process_signal
    <2>1. Waiting("signal") /\ seen' = seen
      BY <1>2 DEF process_signal, Take, CloseFilledBuy, CloseFilledSell, RaiseOnSignal
    <2> QED
      BY <2>1 DEF Waiting, Fills, report
  <1>3. CASE BuyFilledReport \/ BuyPartFilledReport
    <2>1. /\ Waiting("report") /\ report.id = bo.id /\ Book(bo.id, report.cum)
          /\ report.status \in {"PARTIALLY_FILLED", "FILLED"}
      BY <1>3 DEF BuyFilledReport, BuyPartFilledReport, Take, TakeAndSignal
    <2>2. 1 \in 1 .. Len(queue) /\ queue[1] = report /\ report.kind = "report"
      BY <2>1 DEF Waiting, report
    <2>3. seen[bo.id] < report.cum /\ report.cum \in Nat
      BY <2>1, <2>2, ReportFields DEF ReportsRise, FillReport, Fills
    <2> QED
      BY <2>1, <2>3 DEF Book
  <1>4. CASE StatusReport
    <2>1. seen' = seen /\ ~ Fills(report, bo.id)
      BY <1>4 DEF StatusReport, Fills
    <2> QED
      BY <2>1
  <1>5. CASE DropFill
    <2>1. seen' = seen /\ ~ Fills(report, bo.id)
      BY <1>5 DEF DropFill, Ignore, Fills
    <2> QED
      BY <2>1
  <1>6. CASE SellFilledReport \/ SellPartFilledReport
    BY <1>6 DEF SellFilledReport, SellPartFilledReport
  <1> QED
    BY <1>1, <1>2, <1>3, <1>4, <1>5, <1>6 DEF Worker, process_order

\* While the buy order works and no report was lost, what it trades between two
\* reports is in the later one.
LEMMA NothingGetsMissed ==
  ASSUME BooksInv, BuyingMatches, ReportsRise, NothingMissed, [Next]_vars
  PROVE  NothingMissed'
  <1>0. /\ TypeOK /\ ReportsTrue /\ BooksSound /\ Len(queue) \in Nat
        /\ NoId \notin OrderIds /\ bo.id \in OrderIds \cup {NoId}
        /\ seen \in [OrderIds -> Nat]
    BY DEF BooksInv, IInv, FillsBooked, KeepsTrack, TypeOK, OrderIds, NoId, BuyOrder
  <1> DEFINE Reached(o, m, n) ==
               seen'[o] >= n \/ \E j \in 1 .. m : Fills(queue'[j], o) /\ queue'[j].cum >= n
             Reach(o, m, n) ==
               seen[o] >= n \/ \E j \in 1 .. m : Fills(queue[j], o) /\ queue[j].cum >= n
  <1> SUFFICES ASSUME gaps' = 0, pc' = "idle", state' = "BUYING", bo'.id # NoId
               PROVE  /\ Reached(bo'.id, Len(queue'), ex'[bo'.id].cum)
                      /\ \A i \in 1 .. Len(queue') : Fills(queue'[i], bo'.id) =>
                            Reached(bo'.id, i - 1, queue'[i].cum - queue'[i].last)
    <2>1. (Len(queue) + 1) - 1 = Len(queue)
      BY <1>0
    <2>2. queue' \in Seq(Event)
      BY BooksStep DEF BooksInv, IInv, TypeOK
    <2>3. (Len(queue') + 1) - 1 = Len(queue')
      BY <2>2
    <2> QED
      BY <2>3 DEF NothingMissed, Reaches, FillReport, Fills
  <1>1. CASE BuyCreated
    <2>1. /\ bo'.id = NextId /\ NextId \in OrderIds /\ ex[NextId].side = "NONE"
          /\ seen' = seen /\ queue' = queue /\ ex'[NextId].cum = 0
      BY <1>0, <1>1, NextIdFree DEF BuyCreated, Sent, Placed, TypeOK, BuyOrder
    <2>2. seen'[bo'.id] >= ex'[bo'.id].cum
      BY <1>0, <2>1
    <2>3. \A i \in 1 .. Len(queue') : ~ Fills(queue'[i], bo'.id)
      BY <1>0, <2>1 DEF ReportsTrue, ReportTrue, Fills
    <2> QED
      BY <2>2, <2>3
  <1>2. ASSUME pc = "idle", state = "BUYING", bo'.id = bo.id
        PROVE  /\ Reached(bo'.id, Len(queue'), ex'[bo'.id].cum)
               /\ \A i \in 1 .. Len(queue') : Fills(queue'[i], bo'.id) =>
                     Reached(bo'.id, i - 1, queue'[i].cum - queue'[i].last)
    <2>1. PICK o \in OrderIds : o = bo.id /\ o = bo'.id
      BY <1>0, <1>2
    <2>2. gaps = 0 /\ gaps' = gaps
      BY <1>0, GapsStay
    <2>3. /\ Reach(o, Len(queue), ex[o].cum)
          /\ \A i \in 1 .. Len(queue) : Fills(queue[i], o) =>
                Reach(o, i - 1, queue[i].cum - queue[i].last)
      <3>1. (Len(queue) + 1) - 1 = Len(queue)
        BY <1>0
      <3> QED
        BY <1>0, <1>2, <2>1, <2>2, <3>1 DEF NothingMissed, Reaches, FillReport
    <2>4. CASE /\ Worker /\ CumStays /\ queue # <<>>
               /\ queue' \in {Tail(queue), Append(Tail(queue), Signal)}
      <3>1. /\ \A j \in 1 .. Len(queue') :
                  /\ j + 1 \in 1 .. Len(queue) => queue'[j] = queue[j + 1]
                  /\ j + 1 \notin 1 .. Len(queue) => queue'[j] = Signal
            /\ Len(queue') \in Nat /\ Len(queue') >= Len(queue) - 1
            /\ 1 \in 1 .. Len(queue) /\ queue[1] = report
        BY <1>0, <2>4, QueueShifts, SignalIsEvent, SMTT(40) DEF TypeOK, report
      <3>2. /\ seen'[o] >= seen[o] /\ seen[o] \in Nat /\ seen'[o] \in Nat
            /\ Fills(report, o) => seen'[o] = report.cum
        <4>1. seen'[o] \in Nat
          BY BooksStep DEF BooksInv, IInv, TypeOK
        <4> QED
          BY <1>0, <1>2, <2>1, <2>4, <4>1, FillIsBooked
      <3>3. ASSUME NEW m \in 0 .. Len(queue), NEW n \in Int, Reach(o, m, n)
            PROVE  Reached(o, m - 1, n)
        <4>1. CASE seen[o] >= n
          BY <3>2, <4>1
        <4>2. ASSUME NEW j \in 1 .. m, Fills(queue[j], o), queue[j].cum >= n
              PROVE  Reached(o, m - 1, n)
          <5>1. CASE j = 1
            BY <3>1, <3>2, <4>2, <5>1
          <5>2. CASE j # 1
            <6>1. /\ j - 1 \in 1 .. m - 1 /\ j - 1 \in 1 .. Len(queue')
                  /\ (j - 1) + 1 = j /\ j \in 1 .. Len(queue)
              BY <1>0, <3>1, <5>2
            <6>2. queue'[j - 1] = queue[j]
              BY <3>1, <6>1
            <6> QED
              BY <4>2, <6>1, <6>2
          <5> QED
            BY <5>1, <5>2
        <4> QED
          BY <3>3, <4>1, <4>2
      <3>4. Reached(o, Len(queue'), ex'[o].cum)
        <4>1. Reached(o, Len(queue) - 1, ex[o].cum)
          <5>1. Len(queue) \in 0 .. Len(queue) /\ ex[o].cum \in Int
            BY <1>0 DEF TypeOK
          <5> QED
            BY <2>3, <3>3, <5>1
        <4>2. ex'[o].cum = ex[o].cum
          BY <2>4 DEF CumStays
        <4>3. \A j \in 1 .. Len(queue) - 1 : j \in 1 .. Len(queue')
          BY <1>0, <3>1
        <4> QED
          BY <4>1, <4>2, <4>3
      <3>5. ASSUME NEW i \in 1 .. Len(queue'), Fills(queue'[i], o)
            PROVE  Reached(o, i - 1, queue'[i].cum - queue'[i].last)
        <4>1. i + 1 \in 1 .. Len(queue) /\ queue'[i] = queue[i + 1]
          BY <3>1, <3>5, SignalIsNoReport DEF Fills
        <4>2. /\ i \in Nat /\ (i + 1) - 1 = i /\ i \in 0 .. Len(queue)
              /\ queue'[i].cum - queue'[i].last \in Int
          <5>1. queue[i + 1] \in Event /\ queue[i + 1].kind = "report"
            BY <1>0, <3>5, <4>1 DEF TypeOK, Fills
          <5>2. queue[i + 1].cum \in Nat /\ queue[i + 1].last \in Nat
            BY <5>1 DEF Event
          <5>3. i \in Nat /\ (i + 1) - 1 = i /\ i \in 0 .. Len(queue)
            BY <1>0, <3>1, <4>1
          <5> QED
            BY <4>1, <5>2, <5>3
        <4>3. Reach(o, i, queue'[i].cum - queue'[i].last)
          BY <2>3, <3>5, <4>1, <4>2
        <4> QED
          BY <3>3, <4>2, <4>3
      <3> QED
        BY <2>1, <3>4, <3>5
    <2>5. CASE seen' = seen /\ queue' = queue /\ CumStays
      <3>1. ex'[o].cum = ex[o].cum
        BY <2>5 DEF CumStays
      <3> QED
        BY <2>1, <2>3, <2>5, <3>1
    <2>6. ASSUME NEW e \in Event, seen' = seen, queue' = Append(queue, e), Arrives(e)
          PROVE  /\ Reached(o, Len(queue'), ex'[o].cum)
                 /\ \A i \in 1 .. Len(queue') : Fills(queue'[i], o) =>
                       Reached(o, i - 1, queue'[i].cum - queue'[i].last)
      <3>1. /\ Len(queue) \in Nat /\ Len(queue') = Len(queue) + 1
            /\ queue'[Len(queue) + 1] = e
            /\ \A j \in 1 .. Len(queue) : queue'[j] = queue[j]
        BY <1>0, <2>6, EventsAppend
      <3>2. ASSUME NEW m \in 0 .. Len(queue), NEW n, Reach(o, m, n)
            PROVE  Reached(o, m, n)
        BY <2>6, <3>1, <3>2
      <3>3. Reached(o, Len(queue), ex[o].cum)
        <4>1. Len(queue) \in 0 .. Len(queue)
          BY <3>1
        <4> QED
          BY <2>3, <3>2, <4>1
      <3>4. Reached(o, Len(queue'), ex'[o].cum)
        <4>1. CASE Fills(e, o)
          <5>1. ex'[o].cum = e.cum /\ e.cum \in Nat
            BY <2>6, <4>1 DEF Arrives, Fills, Event
          <5>2. Len(queue) + 1 \in 1 .. Len(queue') /\ e.cum >= e.cum
            BY <3>1, <5>1
          <5> QED
            BY <3>1, <4>1, <5>1, <5>2
        <4>2. CASE ~ Fills(e, o)
          <5>1. ex'[o].cum = ex[o].cum
            BY <2>6, <4>2 DEF Arrives
          <5>2. \A j \in 1 .. Len(queue) : j \in 1 .. Len(queue')
            BY <3>1
          <5> QED
            BY <3>3, <5>1, <5>2
        <4> QED
          BY <4>1, <4>2
      <3>5. ASSUME NEW i \in 1 .. Len(queue'), Fills(queue'[i], o)
            PROVE  Reached(o, i - 1, queue'[i].cum - queue'[i].last)
        <4>1. CASE i \in 1 .. Len(queue)
          <5>1. i - 1 \in 0 .. Len(queue) /\ queue'[i] = queue[i]
            BY <3>1, <4>1
          <5> QED
            BY <2>3, <3>2, <3>5, <4>1, <5>1
        <4>2. CASE i = Len(queue) + 1
          <5>1. i - 1 = Len(queue) /\ queue'[i] = e /\ e.cum - e.last = ex[o].cum
            BY <2>6, <3>1, <3>5, <4>2 DEF Arrives
          <5> QED
            BY <3>3, <5>1
        <4> QED
          BY <3>1, <4>1, <4>2
      <3> QED
        BY <3>4, <3>5
    <2> QED
      BY <2>1, <2>2, <2>4, <2>5, <2>6, EventsArrive
  <1> QED
    BY <1>0, <1>1, <1>2, StillBuying

\* What the known buy orders have booked changes by the fill that is booked.
LEMMA BuysRebooked ==
  ASSUME BooksInv, BooksInv', [Next]_vars
  PROVE  /\ bo.id = NoId \/ seen'[bo.id] = seen[bo.id] =>
              BookedIn(BuyIds \cap Known)' = BookedIn(BuyIds \cap Known)
         /\ bo.id \in BuyIds \cap Known =>
              BookedIn(BuyIds \cap Known)'
                = BookedIn(BuyIds \cap Known) - seen[bo.id] + seen'[bo.id]
  <1>1. /\ OthersStay("BUY", bo.id) /\ NoId \notin OrderIds
        /\ bo.id # NoId => bo.id \in OrderIds /\ ex[bo.id].side = "BUY"
    BY OthersStand DEF BooksInv, IInv, KeepsTrack, IdsAgree, TypeOK, BuyOrder, OrderIds, NoId
  <1>2. PICK f, g, S, T : /\ f = seen /\ g = seen'
                          /\ S = BuyIds \cap Known /\ T = (BuyIds \cap Known)'
    OBVIOUS
  <1>3. /\ \A o \in OrderIds : f[o] \in Nat /\ g[o] \in Nat
        /\ S \in SUBSET OrderIds /\ T \in SUBSET OrderIds
    BY <1>2 DEF BooksInv, IInv, TypeOK, BuyIds
  <1>4. S \subseteq T /\ \A o \in T \ S : g[o] = 0
    <2>1. ASSUME NEW o \in S PROVE o \in T
      BY <1>1, <1>2, <2>1 DEF BuyIds, Known, OthersStay
    <2>2. ASSUME NEW o \in T \ S PROVE g[o] = 0
      <3>1. o \in OrderIds /\ ex'[o].side = "BUY" /\ o \notin lostAck'
        BY <1>2, <2>2 DEF BuyIds, Known
      <3>2. ex[o].side = "NONE" => o # bo.id
        BY <1>1, <3>1
      <3>3. ex[o].side = "NONE"
        BY <1>1, <1>2, <2>2, <3>1 DEF BuyIds, Known, OthersStay
      <3>4. ~ Traded("BUY", o)
        BY <3>3 DEF Traded
      <3>5. ~ Traded("BUY", o)'
        BY <1>1, <3>1, <3>2, <3>3, <3>4 DEF OthersStay
      <3> QED
        BY <1>2, <1>3, <3>1, <3>5 DEF Traded
    <2> QED
      BY <2>1, <2>2
  <1>5. Numbers(f, S) /\ Numbers(g, T) /\ Numbers(g, S)
    <2>1. IsFiniteSet(S) /\ IsFiniteSet(T)
      BY <1>3, TradesAddUp DEF BooksInv, IInv
    <2> QED
      BY <1>3, <1>4, <2>1 DEF Numbers
  <1>6. SumFunctionOnSet(g, T) = SumFunctionOnSet(g, S)
    <2>1. PICK Z \in SUBSET T : T \ Z = S /\ \A x \in Z : g[x] = 0
      <3>1. T \ S \in SUBSET T /\ T \ (T \ S) = S
        BY <1>4
      <3> QED
        BY <1>4, <3>1
    <2> QED
      BY <1>5, <2>1, SumIgnoresZeros
  <1>7. \A o \in S : o # bo.id => g[o] = f[o]
    BY <1>1, <1>2 DEF BuyIds, OthersStay
  <1>8. /\ BookedIn(BuyIds \cap Known) = SumFunctionOnSet(f, S)
        /\ BookedIn(BuyIds \cap Known)' = SumFunctionOnSet(g, S)
    BY <1>2, <1>6 DEF BookedIn
  <1>9. CASE bo.id = NoId \/ seen'[bo.id] = seen[bo.id]
    <2>1. \A o \in S : f[o] = g[o]
      BY <1>1, <1>2, <1>3, <1>7, <1>9
    <2>2. SumFunctionOnSet(f, S) = SumFunctionOnSet(g, S)
      BY <1>5, <2>1, SumCongruent
    <2>3. SumFunctionOnSet(f, S) \in Int
      BY <1>5, SumType
    <2> QED
      BY <1>3, <1>8, <1>9, <1>1, <1>2, <2>2, <2>3
  <1>10. CASE bo.id \in S /\ seen'[bo.id] # seen[bo.id]
    <2>1. PICK e \in S : e = bo.id /\ \A o \in S \ {e} : g[o] = f[o]
      BY <1>7, <1>10
    <2>2. SumFunctionOnSet(g, S) = SumFunctionOnSet(f, S) - f[e] + g[e]
      BY <1>3, <1>5, <2>1, SumOfChange
    <2>3. f[e] = seen[bo.id] /\ g[e] = seen'[bo.id]
      BY <1>2, <2>1
    <2>4. BookedIn(BuyIds \cap Known)'
            = BookedIn(BuyIds \cap Known) - seen[bo.id] + seen'[bo.id]
      BY <1>8, <2>2, <2>3
    <2>5. bo.id # NoId
      BY <1>1, <1>3, <1>10
    <2> QED
      BY <1>10, <2>4, <2>5
  <1> QED
    BY <1>2, <1>9, <1>10

\* A buy order booked as filled stays so, until another is sent.
LEMMA FilledStays ==
  ASSUME BooksInv, [Next]_vars, bo.status = "FILLED"
  PROVE  bo'.status = "FILLED"
  <1> USE DEF BooksInv, IInv, KeepsTrack, FillsBooked
  <1>1. CASE process_order
    <2>1. Waiting("report")
      BY <1>1 DEF process_order, Take, TakeAndSignal, BuyFilledReport, BuyPartFilledReport,
         SellFilledReport, SellPartFilledReport, StatusReport, DropFill
    <2>2. 1 \in 1 .. Len(queue) /\ queue[1] = report /\ report.kind = "report"
      BY <2>1 DEF Waiting, report, TypeOK
    <2>3. report.id # bo.id
      BY <2>2 DEF Settled, Done, Unreported
    <2> QED
      BY <1>1, <2>3 DEF process_order, BuyFilledReport, BuyPartFilledReport, SellFilledReport,
         SellPartFilledReport, StatusReport, DropFill, Restatus, Ignore
  <1>2. CASE process_ticker
    BY <1>2 DEF process_ticker, SendBuy, CanSendBuy, CancelUnfilledBuy, CancelPartlyBought,
       ResendBuy, SendSell, CancelUnfilledSell, CancelPartlySold, ResendSell,
       RaiseInCondition, IgnoreTick, Ignore
  <1>3. CASE CreateAnswers
    BY <1>3 DEF CreateAnswers, LoseBuyAck, LoseSellAck, LoseAck, CreateBuyFails,
       CreateSellFails, CreateFails, BuyCreated, AwaitsCreateBuy, SellCreated, ResendNothing
  <1>4. CASE CancelAnswers
    BY <1>4 DEF CancelAnswers, CancelFails, BuyCancelled, Cancelled, Cancellable,
       UnfilledSellCancelled, PartlySoldCancelled
  <1>5. CASE process_signal \/ ClosePosition \/ Environment \/ UNCHANGED vars
    BY <1>5 DEF process_signal, CloseFilledBuy, CloseFilledSell, RaiseOnSignal,
       ClosePosition, Environment, Ticker, ConfigureSell, Fill, Snapshot, Withdraw, vars
  <1> QED
    BY <1>1, <1>2, <1>3, <1>4, <1>5 DEF Next, Worker, Answers

\* The quote currency of a buy order is at most what its fills leave, while no
\* report was lost.
LEMMA StableStaysLeft ==
  ASSUME BooksInv, BooksInv', BuyPlan, SellPlan, NothingMissed, StableLeft, [Next]_vars,
         gaps' = 0 => gaps = 0
  PROVE  StableLeft'
  <1>0. TypeOK /\ TypeOK'
    BY DEF BooksInv, IInv
  <1>1. /\ TypeOK /\ TypeOK' /\ bo \in BuyOrder /\ bo.id \in OrderIds \cup {NoId}
        /\ Len(queue) \in Nat /\ bo.qs \in Int
    <2>1. bo \in BuyOrder /\ queue \in Seq(Event)
      BY <1>0 DEF TypeOK
    <2> QED
      BY <1>0, <2>1 DEF BuyOrder
  <1>2. PICK n, m : n = BookedIn(BuyIds \cap Known) /\ m = BookedIn(BuyIds \cap Known)'
    OBVIOUS
  <1> SUFFICES ASSUME gaps' = 0, HasBuyOrder', bo'.status # "FILLED"
               PROVE  bo'.qs <= Quantity - m
    BY <1>2 DEF StableLeft
  <1>3. gaps = 0 /\ HasBuyOrder /\ bo.status # "FILLED"
    BY BuySideKept, FilledStays
  <1>4. bo.qs <= Quantity - n
    BY <1>2, <1>3 DEF StableLeft
  <1>5. BuyMove
    BY OrdersMove
  <1>6. bo.id = NoId \/ seen'[bo.id] = seen[bo.id] => m = n
    BY <1>2, BuysRebooked
  <1>7. CASE BuyStays
    BY <1>4, <1>6, <1>7 DEF BuyStays
  <1>8. CASE BuyBooks
    <2>1. /\ bo.id \in OrderIds /\ report.id = bo.id /\ seen'[bo.id] = report.cum
          /\ BuyPartFilledReport /\ queue # <<>> /\ report.kind = "report"
          /\ bo'.qs = bo.qs - report.last /\ report.status = "PARTIALLY_FILLED"
      BY <1>1, <1>8 DEF BuyBooks, Books, TypeOK
    <2>2. /\ pc = "idle" /\ state = "BUYING" /\ bo.id # NoId
          /\ 1 \in 1 .. Len(queue) /\ queue[1] = report
      BY <1>1, <2>1 DEF BuyPartFilledReport, Take, Waiting, Running, OrderIds, NoId, TypeOK, report
    <2>3. report.cum \in Nat /\ report.last \in Nat
      BY <1>1, <2>1, <2>2, ReportFields DEF BuyPartFilledReport, Take
    <2>4. seen[bo.id] >= report.cum - report.last
      <3>1. Reaches(bo.id, 1, report.cum - report.last)
        BY <1>3, <2>1, <2>2 DEF NothingMissed, FillReport, Fills
      <3>2. 1 .. (1 - 1) = {}
        OBVIOUS
      <3> QED
        BY <3>1, <3>2 DEF Reaches
    <2>5. m = n - seen[bo.id] + seen'[bo.id]
      <3>1. bo.id \in BuyIds \cap Known
        BY <2>1, <2>2 DEF BuyPlan, Resent, BuyIds, Known, BooksInv, IInv, KeepsTrack, IdsAgree
      <3> QED
        BY <1>2, <3>1, BuysRebooked
    <2>6. n \in Int /\ seen[bo.id] \in Nat
      <3>1. BuyIds \cap Known \in SUBSET OrderIds
        BY DEF BuyIds
      <3>2. Numbers(seen, BuyIds \cap Known)
        BY <1>1, <3>1, TradesAddUp DEF Numbers, TypeOK, BooksInv, IInv
      <3> QED
        BY <1>1, <1>2, <2>1, <3>2, SumType DEF BookedIn, TypeOK
    <2> QED
      BY <1>1, <1>4, <2>1, <2>3, <2>4, <2>5, <2>6, QuantityAssumption, SMTT(40)
  <1>9. CASE BuyCreated
    <2>1. bo'.qs = bo.qs /\ seen' = seen
      BY <1>1, <1>9, NextIdFree DEF BuyCreated, Sent, BuyOrder
    <2> QED
      BY <1>4, <1>6, <2>1
  <1>10. CASE SendBuy
    <2>1. bo'.qs = Quantity /\ seen' = seen
      BY <1>10 DEF SendBuy, NewBuyOrder, Enter
    <2>2. m = 0
      <3>1. \A o \in BuyIds \cap Known : seen[o] = 0
        BY <1>10 DEF SendBuy, CanSendBuy, BooksInv, StatesMatch, FlatMatches, BuyIds
      <3>2. PICK S : S = BuyIds \cap Known /\ S \in SUBSET OrderIds
        BY DEF BuyIds
      <3>3. Numbers(seen, S) /\ S \ S = {}
        BY <1>1, <3>2, TradesAddUp DEF Numbers, TypeOK, BooksInv, IInv
      <3>4. SumFunctionOnSet(seen, S) = 0
        <4>1. SumFunctionOnSet(seen, S) = SumFunctionOnSet(seen, S \ S)
          BY <3>1, <3>2, <3>3, SumIgnoresZeros
        <4> QED
          BY <3>3, <4>1, SumOfNone
      <3> QED
        BY <1>2, <1>6, <2>1, <3>2, <3>4 DEF BookedIn
    <2> QED
      BY <2>1, <2>2, QuantityAssumption
  <1> QED
    BY <1>5, <1>7, <1>8, <1>9, <1>10 DEF BuyMove

\* Money is only taken and given back where the machine enters and leaves BUYING.
LEMMA OthersKeepBalance ==
  ASSUME BooksInv, BuyingMatches, [Next]_vars, bo'.status # "FILLED",
         ~ SendBuy, ~ CancelUnfilledBuy, ~ CancelPartlyBought, ~ ResendBuy
  PROVE  balance' = balance /\ (state' = "BUYING" <=> state = "BUYING")
  <1> USE DEF BuyCreates, BuyCancels, SellCreates, SellCancels
  <1>0. balance' = balance
    BY DEF Next, Worker, process_ticker, process_order, process_signal, ClosePosition,
       Answers, CreateAnswers, CancelAnswers, Environment, vars,
       SendSell, CancelUnfilledSell, CancelPartlySold, ResendSell, RaiseInCondition,
       IgnoreTick, Enter, Ignore, StatusReport, DropFill, CloseFilledBuy,
       CloseFilledSell, RaiseOnSignal, LoseBuyAck, LoseSellAck, LoseAck,
       CreateBuyFails, CreateSellFails, CreateFails, BuyCreated, SellCreated,
       ResendNothing, CancelFails, BuyCancelled, UnfilledSellCancelled,
       PartlySoldCancelled, CancelAnswered, BuyFilledReport, BuyPartFilledReport,
       SellFilledReport, SellPartFilledReport, Ticker, ConfigureSell, Fill, Snapshot,
       Withdraw
  <1>1. CASE process_ticker
    <2>1. CASE CancelUnfilledSell
      BY <2>1 DEF CancelUnfilledSell, CanCancelUnfilledSell, Enter
    <2>2. CASE SendSell \/ CancelPartlySold \/ ResendSell
      BY <2>2 DEF SendSell, CanSellPartlyBought, CanSellBought, CancelPartlySold,
         CanCancelPartlySold, ResendSell, CanResendSell, CanResumeSelling, Enter
    <2> QED
      BY <1>0, <1>1, <2>1, <2>2 DEF process_ticker, RaiseInCondition, IgnoreTick, Ignore
  <1>2. CASE process_order
    BY <1>0, <1>2 DEF process_order, BuyFilledReport, BuyPartFilledReport, SellFilledReport,
       SellPartFilledReport, StatusReport, DropFill, Ignore
  <1>3. CASE process_signal
    BY <1>0, <1>3 DEF process_signal, CloseFilledBuy, CloseFilledSell, RaiseOnSignal
  <1>4. CASE CreateAnswers
    <2>1. CASE BuyCreated \/ SellCreated \/ ResendNothing
      BY <1>0, <2>1 DEF BuyCreated, AwaitsCreateBuy, SellCreated, AwaitsCreateSell,
         ResendNothing, BuyingMatches, Callbacks
    <2> QED
      BY <1>0, <1>4, <2>1 DEF CreateAnswers, LoseBuyAck, LoseSellAck, LoseAck, CreateBuyFails,
         CreateSellFails, CreateFails
  <1>5. CASE CancelAnswers
    <2>1. CASE UnfilledSellCancelled
      BY <1>0, <2>1 DEF UnfilledSellCancelled, BuyingMatches, Callbacks
    <2> QED
      BY <1>0, <1>5, <2>1 DEF CancelAnswers, CancelFails, BuyCancelled, PartlySoldCancelled
  <1>6. CASE ClosePosition \/ Environment \/ UNCHANGED vars
    BY <1>0, <1>6 DEF ClosePosition, Environment, vars, Ticker, ConfigureSell, Fill,
       Snapshot, Withdraw
  <1> QED
    BY <1>1, <1>2, <1>3, <1>4, <1>5, <1>6 DEF Next, Worker, Answers

\* What is left of the budget is available whenever no buy order is sent or works.
LEMMA BalanceStaysKept ==
  ASSUME BooksInv, BooksInv', SellPlan, BuyingMatches, BalanceKept, [Next]_vars
  PROVE  BalanceKept'
  <1>0. /\ HasBuyOrder' = HasBuyOrder /\ BuyMove
        /\ bo \in BuyOrder /\ balance \in Int /\ Quantity \in Int /\ InitBalance \in Int
    BY BuySideKept, OrdersMove, QuantityAssumption, BoundAssumption, SMTT(40) DEF BooksInv, IInv, TypeOK
  <1>1. PICK K : K = Quantity * (InitBalance - Quantity) /\ K \in Int
    BY <1>0
  <1>2. PICK r : r = bo.qs * (Quantity - bo.real) /\ r \in Int
    BY <1>0 DEF BuyOrder
  <1>3. CASE ~ HasBuyOrder
    <2>1. ~ SendBuy /\ ~ CancelUnfilledBuy /\ ~ CancelPartlyBought /\ ~ ResendBuy
      BY <1>3 DEF SendBuy, CancelUnfilledBuy, CancelPartlyBought, ResendBuy, CanSendBuy,
         CanCancelUnfilledBuy, CanCancelPartlyBought, CanResendBuy, CanResumeBuying,
         BooksInv, StatesMatch, BuyMatches
    <2>2. bo'.status = "NONE"
      BY <1>0, <1>3 DEF HasBuyOrder
    <2> QED
      BY <1>0, <1>3, <2>1, <2>2, OthersKeepBalance DEF BalanceKept
  <1> SUFFICES ASSUME HasBuyOrder, HasBuyOrder', bo'.status # "FILLED"
               PROVE  balance' = K + (IF state' = "BUYING" THEN 0 ELSE RemainingBuy')
    BY <1>0, <1>1, <1>3 DEF BalanceKept
  <1>4. balance = K + (IF state = "BUYING" THEN 0 ELSE r)
    BY <1>1, <1>2, FilledStays DEF BalanceKept, RemainingBuy
  <1>5. CASE SendBuy
    BY <1>0, <1>1, <1>2, <1>4, <1>5 DEF SendBuy, CanSendBuy, Enter, RemainingBuy
  <1>6. CASE ResendBuy
    BY <1>0, <1>1, <1>2, <1>4, <1>6
    DEF ResendBuy, CanResendBuy, CanResumeBuying, Enter, RemainingBuy
  <1>7. CASE CancelUnfilledBuy \/ CancelPartlyBought
    BY <1>0, <1>1, <1>2, <1>4, <1>7
    DEF CancelUnfilledBuy, CanCancelUnfilledBuy, CancelPartlyBought, CanCancelPartlyBought,
        Enter, RemainingBuy
  <1>8. CASE ~ SendBuy /\ ~ CancelUnfilledBuy /\ ~ CancelPartlyBought /\ ~ ResendBuy
    <2>1. balance' = balance /\ (state' = "BUYING" <=> state = "BUYING")
      BY <1>8, OthersKeepBalance
    <2>2. state = "BUYING" \/ (bo'.qs = bo.qs /\ bo'.real = bo.real)
      <3>1. CASE BuyStays
        BY <3>1 DEF BuyStays
      <3>2. CASE BuyBooks
        BY <3>2 DEF BuyBooks, BuyFilledReport, BuyPartFilledReport
      <3>3. CASE BuyCreated
        BY <3>3 DEF BuyCreated, AwaitsCreateBuy, BuyingMatches, Callbacks
      <3> QED
        BY <1>0, <1>8, <3>1, <3>2, <3>3 DEF BuyMove
    <2> QED
      BY <1>2, <1>4, <2>1, <2>2 DEF RemainingBuy
  <1> QED
    BY <1>5, <1>6, <1>7, <1>8

\* What was realized of the buy order in hand is part of the budget.
LEMMA RealizedWithinPlan ==
  ASSUME BooksInv, BuyPlan, HasBuyOrder, Cardinality(Earlier("BUY", bo.id)) <= 1
  PROVE  bo.real \in Nat /\ bo.real <= Quantity
  <1>1. /\ bo.real \in Nat /\ bo.qty = Quantity /\ bo.id \in OrderIds \cup {NoId}
        /\ NoId \notin OrderIds
        /\ \A o \in OrderIds : /\ seen[o] \in Nat /\ ex[o].qty \in Nat
                               /\ ex[o].cum \in Nat /\ seen[o] <= ex[o].cum
                               /\ ex[o].cum <= ex[o].qty
    BY DEF BooksInv, IInv, FillsBooked, BooksSound, TypeOK, BuyOrder, BuyPlan, OrderIds, NoId
  <1>2. CASE Earlier("BUY", bo.id) = {}
    <2>1. ResentFor("BUY", bo, 0)
      BY <1>2 DEF BuyPlan, Resent
    <2>2. Unbooked(bo) => bo.real = 0
      BY <2>1 DEF ResentFor
    <2>3. ~ Unbooked(bo) => /\ bo.id \in OrderIds /\ bo.real = seen[bo.id]
                            /\ 0 + ex[bo.id].qty = Quantity
      BY <1>1, <2>1 DEF Unbooked, ResentFor, BuyPlan, Resent
    <2> QED
      BY <1>1, <2>2, <2>3, QuantityAssumption
  <1>3. ASSUME NEW e \in OrderIds, Earlier("BUY", bo.id) = {e}
        PROVE  bo.real <= Quantity
    <2>1. ResentFor("BUY", bo, seen[e])
      BY <1>3 DEF BuyPlan, Resent
    <2>2. bo.id \in OrderIds
      BY <1>1, <1>3 DEF BuyPlan
    <2>3. seen[e] + ex[bo.id].qty = Quantity
      BY <1>1, <2>1, <2>2 DEF ResentFor
    <2>4. bo.real = seen[e] \/ bo.real = seen[bo.id]
      BY <2>1 DEF ResentFor, BuyPlan, Resent
    <2> QED
      BY <1>1, <2>2, <2>3, <2>4, QuantityAssumption
  <1>4. TypeOK /\ Earlier("BUY", bo.id) \in SUBSET OrderIds
    BY DEF BooksInv, IInv, Earlier
  <1> QED
    BY <1>1, <1>2, <1>3, <1>4, OneEarlier

\* The balance invariants imply what the runs check.
LEMMA MeansHold ==
  ASSUME BooksInv, BuyPlan, SellPlan, StableLeft, BalanceKept
  PROVE  BalanceWithinMeans
  <1> SUFFICES ASSUME gaps = 0, pc = "idle", bo.status # "FILLED",
                      Cardinality(Earlier("BUY", bo.id)) <= 1
               PROVE  balance <= Quantity * (InitBalance - BookedIn(BuyIds \cap Known)
                                                         - Outstanding(BuyIds \cap Known))
    BY SidesWork DEF BooksInv, BalanceWithinMeans
  <1>1. PICK S : S = BuyIds \cap Known
    OBVIOUS
  <1>2. PICK B, L : B = BookedIn(S) /\ L = Outstanding(S)
    OBVIOUS
  <1>3. /\ TypeOK /\ BooksSound /\ bo \in BuyOrder
        /\ Quantity \in Int /\ Quantity >= 0 /\ InitBalance \in Int
        /\ S \in SUBSET OrderIds
    BY <1>1, QuantityAssumption, BoundAssumption DEF BooksInv, IInv, FillsBooked, TypeOK, BuyIds
  <1>4. B \in Int /\ B >= 0
    <2>1. Numbers(seen, S) /\ \A o \in S : seen[o] >= 0
      BY <1>3, TradesAddUp DEF Numbers, TypeOK
    <2>2. SumFunctionOnSet(seen, {}) <= SumFunctionOnSet(seen, S)
      BY <2>1, SumGrows
    <2> QED
      BY <1>2, <2>1, <2>2, SumType, SumOfNone DEF BookedIn
  <1>5. L \in Int
    <2>1. Numbers([o \in OrderIds |-> ex[o].qty - seen[o]], S \cap LiveIds)
      BY <1>3, TradesAddUp DEF Numbers, TypeOK
    <2> QED
      BY <1>2, <2>1, SumType DEF Outstanding
  <1>6. B + L <= Quantity
    <2>1. BuysWithinPlan
      BY PlansHold
    <2>2. Cardinality(EarlierFills(BuyIds, bo.id)) <= 1
      BY SidesWork DEF BooksInv
    <2> QED
      BY <1>1, <1>2, <2>1, <2>2 DEF BuysWithinPlan
  <1>7. CASE ~ HasBuyOrder
    <2>1. bo.id = NoId /\ S = {}
      BY <1>1, <1>7 DEF BooksInv, StatesMatch, BuyMatches, BuyPlan, BuyIds, Known
    <2>2. B = 0 /\ L = 0
      <3>1. S \cap LiveIds = {}
        BY <2>1
      <3> QED
        BY <1>2, <2>1, <3>1, SumOfNone DEF BookedIn, Outstanding
    <2>3. balance = InitBalance * Quantity
      BY <1>7 DEF BalanceKept
    <2> QED
      BY <1>1, <1>2, <1>3, <2>2, <2>3
  <1>8. CASE HasBuyOrder /\ state = "BUYING"
    <2>1. balance = Quantity * (InitBalance - Quantity) + 0
      BY <1>8 DEF BalanceKept
    <2>2. Quantity * (InitBalance - Quantity) <= Quantity * (InitBalance - (B + L))
      BY <1>3, <1>4, <1>5, <1>6, MoneyCommitted
    <2> QED
      BY <1>1, <1>2, <1>3, <1>4, <1>5, <2>1, <2>2
  <1>9. CASE HasBuyOrder /\ state # "BUYING"
    <2>1. PICK s, r : s = bo.qs /\ r = bo.real
      OBVIOUS
    <2>2. L = 0
      <3>1. S \cap LiveIds = {}
        <4>1. \A o \in S \cap LiveIds : o \in LiveKnown /\ ex[o].side = "BUY" /\ o \in OrderIds
          BY <1>1 DEF BuyIds, Known, LiveIds, LiveKnown
        <4>2. \A o \in LiveKnown : o = so.id
          BY <1>9 DEF BooksInv, IInv, KeepsTrack, Tracked, BuyWorks, BuyCancels
        <4>3. so.id # NoId => ex[so.id].side = "SELL"
          BY DEF BooksInv, IInv, KeepsTrack, IdsAgree
        <4> QED
          BY <4>1, <4>2, <4>3 DEF OrderIds, NoId
      <3> QED
        BY <1>2, <3>1, SumOfNone DEF Outstanding
    <2>3. balance = Quantity * (InitBalance - Quantity) + s * (Quantity - r)
      BY <1>9, <2>1 DEF BalanceKept, RemainingBuy
    <2>4. r \in Int /\ 0 <= r /\ r <= Quantity /\ s \in Int
      BY <1>3, <1>9, <2>1, RealizedWithinPlan DEF BuyOrder
    <2>5. s <= Quantity - B
      BY <1>1, <1>2, <1>9, <2>1 DEF StableLeft
    <2>6. B <= Quantity
      BY <1>4, <1>6, <2>2
    <2>7. balance <= Quantity * (InitBalance - B)
      BY <1>3, <1>4, <2>3, <2>4, <2>5, <2>6, MoneyBound
    <2>8. InitBalance - B - L = InitBalance - B
      BY <1>3, <1>4, <2>2
    <2> QED
      BY <1>1, <1>2, <2>7, <2>8
  <1> QED
    BY <1>7, <1>8, <1>9

\* The strengthening of PlanInv that the balance needs.
MeansInv == /\ PlanInv
            /\ BuyingMatches /\ ReportsRise /\ NothingMissed
            /\ StableLeft /\ BalanceKept

LEMMA MeansInit == Init => MeansInv
  <1> SUFFICES ASSUME Init PROVE MeansInv
    OBVIOUS
  <1>1. /\ pc = "idle" /\ state # "BUYING" /\ queue = <<>>
        /\ seen = [o \in OrderIds |-> 0] /\ balance = InitBalance * Quantity
        /\ \A o \in OrderIds : ex[o].side = "NONE"
        /\ HasBuyOrder => bo.qs = Quantity /\ bo.real = 0
    BY DEF Init, CommonInit, InitBuy, InitInventorySell, NewBuyOrder, NoBuyOrder,
       HasBuyOrder, Unplaced
  <1>2. BuyingMatches /\ ReportsRise /\ NothingMissed
    BY <1>1 DEF BuyingMatches, Callbacks, BuyCreates, BuyCancels, SellCreates, SellCancels,
       ReportsRise, NothingMissed
  <1>3. StableLeft
    <2>1. BuyIds = {} /\ BuyIds \cap Known = {}
      BY <1>1 DEF BuyIds
    <2>2. BookedIn(BuyIds \cap Known) = 0
      BY <2>1, SumOfNone DEF BookedIn
    <2> QED
      BY <1>1, <2>2, QuantityAssumption DEF StableLeft
  <1>4. BalanceKept
    <2>1. Quantity \in Int /\ InitBalance \in Int
      BY QuantityAssumption, BoundAssumption
    <2>2. InitBalance * Quantity
            = Quantity * (InitBalance - Quantity) + Quantity * (Quantity - 0)
      BY <2>1
    <2> QED
      BY <1>1, <2>1, <2>2 DEF BalanceKept, RemainingBuy
  <1> QED
    BY <1>2, <1>3, <1>4, PlanInit DEF MeansInv

LEMMA MeansStep == MeansInv /\ [Next]_vars => MeansInv'
  <1> SUFFICES ASSUME MeansInv, [Next]_vars PROVE MeansInv'
    OBVIOUS
  <1>1. PlanInv' /\ BooksInv /\ BooksInv' /\ BuyPlan /\ SellPlan /\ TypeOK
    BY PlanStep DEF MeansInv, PlanInv, BooksInv, IInv
  <1>2. BuyingMatches' /\ ReportsRise'
    BY <1>1, BuyingMatchesStep, ReportsKeepRising DEF MeansInv
  <1>3. NothingMissed'
    BY <1>1, NothingGetsMissed DEF MeansInv
  <1>4. StableLeft'
    BY <1>1, GapsStay, StableStaysLeft DEF MeansInv
  <1>5. BalanceKept'
    BY <1>1, BalanceStaysKept DEF MeansInv
  <1> QED
    BY <1>1, <1>2, <1>3, <1>4, <1>5 DEF MeansInv

\* Money that was paid or is committed is never available to send orders, as
\* long as every report arrives.
THEOREM BalanceStaysWithinMeans == Spec => []BalanceWithinMeans
  <1>1. MeansInv => BalanceWithinMeans
    BY MeansHold DEF MeansInv, PlanInv
  <1> QED
    BY <1>1, MeansInit, MeansStep, PTL DEF Spec
=============================================================================
