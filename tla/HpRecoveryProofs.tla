--------------------------- MODULE HpRecoveryProofs ---------------------------
(***************************************************************************)
(* Theorems about HpRecovery, for every value of its constants: what holds *)
(* of a position through crashes, trading that nobody listens to, and      *)
(* restarts on the saved rows.                                             *)
(*                                                                         *)
(* The steps between crashes are those of HpManager, and what was proved   *)
(* of them is used again.  Two facts had to be found for the rest: a row   *)
(* saved as FILLED is of an order to which nothing will happen any more    *)
(* (RowsDone), and every order whose id arrived has a row (KnownSaved).    *)
(* That a sale is reported once needs more: what a position without saved  *)
(* buy orders cannot have done, and that SOLD is for good (CInv).          *)
(* That the plan and the holding survive a crash needs what the orders in  *)
(* hand offered, and the stage of the position that its rows say (KInv).   *)
(***************************************************************************)
EXTENDS HpMoneyProofs, HpRecovery

(***************************************************************************)
(* The invariant                                                           *)
(***************************************************************************)

RTypes ==
    /\ pos \in [type : {"BUY", "SELL"}, qty : Nat]
    /\ phase \in {"up", "down", "empty"}
    /\ restarts \in 0 .. MaxRestarts
    /\ told \in Nat

\* Whatever trades, and however the program ends, a row that says FILLED is
\* of an order that is closed, booked to the last coin, and not reported again.
RowsDone ==
    \A o \in OrderIds : db.rows[o].status = "FILLED" => ex[o].side # "NONE" /\ Done(o)
\* An order without a row is one whose answer was lost, or none.
KnownSaved ==
    \A o \in Known : ex[o].side # "NONE" => db.rows[o].status # "NONE"

\* States in which nothing was sold.
Bought == {"NEW", "BUYING", "PARTIALLY_BOUGHT", "BOUGHT"}
\* Whatever sell order a restored position with a buy row carried would be one
\* that filled, and the position is in no state that would send or cancel it.
\* (That there is none follows at the end, from KInv.)
SellAtRest ==
    ~ sellSet => /\ so.id = NoId \/ so.status = "FILLED"
                 /\ sell = "NEW"
                 /\ pc \notin SellCreates \cup SellCancels
                 /\ state \in Bought \/ (pc = "dead" /\ state # "SOLD")
BuyRowBought == pos.type = "BUY" => db.strategy \in Bought

\* A program that is down, or runs without its positions, does nothing for them.
OffIsDead == phase # "up" => pc = "dead" /\ queue = <<>>

RInv == /\ IInv /\ FillsBooked /\ RTypes
        /\ RowsDone /\ KnownSaved /\ SellAtRest /\ BuyRowBought /\ OffIsDead

(***************************************************************************)
(* The program is up                                                       *)
(***************************************************************************)

UpStep == StepSavingBuy \/ StepSavingSell \/ StepSavingNone \/ Complete

\* Between crashes the position takes steps of HpManager, and one more.
LEMMA UpSteps ==
  ASSUME UpStep
  PROVE  /\ phase = "up" /\ phase' = phase /\ restarts' = restarts
         /\ Next \/ SendFilledSell
  BY DEF UpStep, StepSavingBuy, StepSavingSell, StepSavingNone, Complete, Up,
     SavesBuyRow, SavesSellRow, SavesNoRow, Next, Worker, process_order, process_signal,
     Answers, CreateAnswers, CancelAnswers, Environment

\* The one step a restored position adds to HpManager's keeps the types.
LEMMA SendFilledType ==
  ASSUME TypeOK, SendFilledSell
  PROVE  TypeOK'
  <1>1. db.rows \in [OrderIds -> Row] /\ db.strategy \in State
    BY DEF TypeOK
  <1>2. upsert_order(db.rows, so) \in [OrderIds -> Row]
    BY <1>1, UpsertType DEF TypeOK, SellOrder
  <1>3. queue' \in Seq(Event)
    BY SignalIsEvent, QueueType DEF SendFilledSell, TypeOK
  <1> QED
    BY <1>1, <1>2, <1>3 DEF SendFilledSell, SaveBoth, TypeOK, State

\* A step that moves the exchange, the queue and the books as steps do, sends no
\* order and leaves the ids keeps what is known of them.
LEMMA SendFilledKeeps ==
  ASSUME IInv, FillsBooked, SendFilledSell
  PROVE  IInv' /\ FillsBooked' /\ ExchangeMoves /\ QueueMoves /\ BooksMove
  <1>1. TypeOK /\ Tracked /\ ReportsTrue /\ IdsAgree /\ TypeOK'
    BY SendFilledType DEF IInv, KeepsTrack
  <1>2. ReportsSound /\ ReportsOrdered /\ BooksSound /\ Settled(bo) /\ Settled(so)
    BY DEF FillsBooked
  <1>3. /\ ex' = ex /\ seen' = seen /\ lostAck' = lostAck /\ bo' = bo /\ so' = so
        /\ queue' = Append(queue, Signal) /\ pc = "send_sell_order"
    BY DEF SendFilledSell
  <1>4. LiveKnown = {}
    BY <1>1, <1>3, NothingWorks DEF BuyWorks, SellWorks, BuyCancels, SellCancels
  <1>5. LiveKnown' = {}
    BY <1>3, <1>4 DEF LiveKnown
  <1>6. ExchangeMoves /\ BooksMove
    BY <1>1, <1>3 DEF ExchangeMoves, BooksMove, TypeOK
  <1>7. QueueMoves
    BY <1>3, SignalIsEvent, SignalIsNoReport DEF QueueMoves, Delivered
  <1>8. ReportsTrue'
    <2>1. queue \in Seq(Event) /\ Signal \in Event
      BY <1>1, SignalIsEvent DEF TypeOK
    <2>2. \A i \in 1 .. Len(queue') : queue'[i] = Signal
                                      \/ (i \in 1 .. Len(queue) /\ queue'[i] = queue[i])
      BY <1>3, <2>1
    <2> QED
      BY <1>1, <1>3, <2>2, SignalIsNoReport DEF ReportsTrue, ReportTrue
  <1>9. IdsAgree'
    BY <1>1, <1>3 DEF IdsAgree
  <1>10. \A o \in OrderIds : ex[o].side # "NONE" /\ Done(o) => Done(o)'
    BY <1>1, <1>6, <1>7, DoneStays
  <1>11. Settled(bo)' /\ Settled(so)'
    <2>1. /\ bo.id # NoId => bo.id \in OrderIds /\ ex[bo.id].side # "NONE"
          /\ so.id # NoId => so.id \in OrderIds /\ ex[so.id].side # "NONE"
      BY <1>1 DEF TypeOK, BuyOrder, SellOrder, IdsAgree
    <2> QED
      BY <1>2, <1>3, <1>10, <2>1 DEF Settled
  <1>12. OneWorkingOrder' /\ Tracked'
    BY <1>5 DEF OneWorkingOrder, Tracked
  <1> QED
    BY <1>1, <1>2, <1>6, <1>7, <1>8, <1>9, <1>11, <1>12, ReportsStaySound,
       ReportsStayOrdered, BooksStaySound
    DEF IInv, KeepsTrack, FillsBooked

\* What was proved of a step of HpManager, without what it assumes of sells.
LEMMA NextKeeps ==
  ASSUME IInv, FillsBooked, SellAtRest, [Next]_vars
  PROVE  IInv' /\ FillsBooked' /\ ExchangeMoves /\ QueueMoves /\ BooksMove
  <1>1. TypeOK /\ IdsAgree /\ BooksSound
    BY DEF IInv, KeepsTrack, FillsBooked
  <1>2. NoneHidden
    BY DEF SellAtRest, NoneHidden, Open
  <1>3. BooksMove
    <2>1. ASSUME Books(report.id) PROVE report.id \in OrderIds
      <3>1. 1 \in 1 .. Len(queue) /\ queue[1] = report
        BY <1>1, <2>1 DEF Books, TypeOK, report
      <3> QED
        BY <1>1, <2>1, <3>1, QueuedReport DEF Books
    <2> QED
      BY <1>1, <2>1, FillsOnlyBooked DEF BooksMove
  <1> QED
    BY <1>1, <1>2, <1>3, IInvStep, FillsBookedStep, ExchangeOnlyMoves, QueueOnlyMoves

(***************************************************************************)
(* Rows                                                                    *)
(***************************************************************************)

\* What a step may do to the row of an order: leave it, or save in it the order
\* in hand.
SavedNow(order, o) ==
    /\ order.id = o /\ db'.rows[o].status # "NONE" /\ db'.rows[o].real = order.real
    /\ db'.rows[o].status = "FILLED" => order.status = "FILLED"
RowMoves(o) ==
    db'.rows[o] = db.rows[o] \/ SavedNow(bo', o) \/ SavedNow(so', o)

\* upsert_order saves the row of the order it is given, and no other.
LEMMA UpsertMoves ==
  ASSUME TypeOK, NEW order, order.id \in OrderIds \cup {NoId}, order.status # "NONE",
         NEW o \in OrderIds, db'.rows = upsert_order(db.rows, order)
  PROVE  db'.rows[o] = db.rows[o] \/ SavedNow(order, o)
  BY DEF upsert_order, RowOf, SavedNow, TypeOK

\* A step saves rows of the two orders it leaves in hand, and no others.
LEMMA RowsMove ==
  ASSUME TypeOK, TypeOK', Next \/ SendFilledSell, NEW o \in OrderIds
  PROVE  RowMoves(o)
  <1>1. /\ bo'.id \in OrderIds \cup {NoId} /\ so'.id \in OrderIds \cup {NoId}
        /\ so'.status # "NONE"
    BY DEF TypeOK, BuyOrder, SellOrder, OrderStatus
  <1>2. ASSUME db' = db PROVE RowMoves(o)
    BY <1>2 DEF RowMoves
  <1>3. ASSUME db'.rows = db.rows PROVE RowMoves(o)
    BY <1>3 DEF RowMoves
  <1>4. ASSUME db'.rows = upsert_order(db.rows, so') PROVE RowMoves(o)
    BY <1>1, <1>4, UpsertMoves DEF RowMoves
  <1>5. ASSUME db'.rows = upsert_order(db.rows, bo'), bo'.status # "NONE" PROVE RowMoves(o)
    BY <1>1, <1>5, UpsertMoves DEF RowMoves
  <1>6. CASE process_ticker
    BY <1>2, <1>6 DEF process_ticker, SendBuy, CancelUnfilledBuy, CancelPartlyBought,
       ResendBuy, SendSell, CancelUnfilledSell, CancelPartlySold, ResendSell,
       RaiseInCondition, IgnoreTick, Enter, Ignore
  <1>7. CASE process_order
    <2>1. CASE BuyFilledReport \/ BuyPartFilledReport
      <3>1. bo'.status # "NONE"
        <4>1. Waiting("report")
          BY <2>1 DEF BuyFilledReport, BuyPartFilledReport, Take, TakeAndSignal
        <4>2. report.cum \in Nat /\ bo \in BuyOrder
          BY <4>1, ReportFields DEF TypeOK
        <4>3. Booked(bo, "FILLED").status = "FILLED"
              /\ Booked(bo, "PARTIALLY_FILLED").status = "PARTIALLY_FILLED"
              /\ Booked(bo, "PARTIALLY_FILLED") \in BuyOrder
          BY <4>2, BookedFields DEF OrderStatus
        <4> QED
          BY <2>1, <4>3 DEF BuyFilledReport, BuyPartFilledReport, BuyOrder
      <3> QED
        BY <1>5, <2>1, <3>1 DEF BuyFilledReport, BuyPartFilledReport, SaveBoth
    <2>2. CASE SellFilledReport \/ SellPartFilledReport
      BY <1>4, <2>2 DEF SellFilledReport, SellPartFilledReport, SaveBoth
    <2>3. CASE StatusReport \/ DropFill
      BY <1>2, <2>3 DEF StatusReport, DropFill, Ignore
    <2> QED
      BY <1>7, <2>1, <2>2, <2>3 DEF process_order
  <1>8. CASE process_signal
    BY <1>2, <1>3, <1>8 DEF process_signal, CloseFilledBuy, CloseFilledSell, RaiseOnSignal,
       SavePosition
  <1>9. CASE CreateAnswers
    <2>1. CASE BuyCreated
      <3>1. bo'.status # "NONE"
        BY <2>1, SentFields, NextIdFree DEF BuyCreated, TypeOK
      <3> QED
        BY <1>5, <2>1, <3>1 DEF BuyCreated, SaveBoth
    <2>2. CASE SellCreated
      BY <1>4, <2>2 DEF SellCreated, SaveBoth
    <2>3. CASE ResendNothing
      BY <1>4, <2>3 DEF ResendNothing, SaveBoth
    <2>4. CASE LoseBuyAck \/ LoseSellAck \/ CreateBuyFails \/ CreateSellFails
      BY <1>2, <2>4 DEF LoseBuyAck, LoseSellAck, LoseAck, CreateBuyFails, CreateSellFails,
         CreateFails
    <2> QED
      BY <1>9, <2>1, <2>2, <2>3, <2>4 DEF CreateAnswers
  <1>10. CASE CancelAnswers
    <2>1. CASE BuyCancelled
      BY <1>3, <1>5, <2>1 DEF BuyCancelled, SaveBoth, SavePosition
    <2>2. CASE UnfilledSellCancelled \/ PartlySoldCancelled
      BY <1>4, <2>2 DEF UnfilledSellCancelled, PartlySoldCancelled, SaveBoth, SaveOrder
    <2>3. CASE CancelFails
      BY <1>2, <2>3 DEF CancelFails
    <2> QED
      BY <1>10, <2>1, <2>2, <2>3 DEF CancelAnswers
  <1>11. CASE Environment
    BY <1>2, <1>3, <1>11 DEF Environment, Ticker, ConfigureSell, Fill, Snapshot, Withdraw,
       SavePosition
  <1>12. CASE ClosePosition
    BY <1>2, <1>12 DEF ClosePosition
  <1>13. CASE SendFilledSell
    BY <1>4, <1>13 DEF SendFilledSell, SaveBoth
  <1> QED
    BY <1>6, <1>7, <1>8, <1>9, <1>10, <1>11, <1>12, <1>13 DEF Next, Worker, Answers

\* An order whose id arrives is saved with it.
LEMMA NewIsSaved ==
  ASSUME TypeOK, Next \/ SendFilledSell, NEW o \in OrderIds,
         ex[o].side = "NONE", ex'[o].side # "NONE"
  PROVE  o \in lostAck' \/ db'.rows[o].status # "NONE"
  <1>1. CreateAnswers
    BY WorkerLeavesExchange, OthersOpenNothing
    DEF Next, Answers, NothingOpens, SendFilledSell
  <1>2. CASE BuyCreated
    <2>1. bo'.id = NextId /\ bo'.status = "NEW" /\ NextId \in OrderIds
      BY <1>2, SentFields, NextIdFree DEF BuyCreated, TypeOK
    <2>2. o = NextId
      BY <1>2, <2>1 DEF BuyCreated, Placed, TypeOK
    <2>3. db'.rows = upsert_order(db.rows, bo')
      BY <1>2 DEF BuyCreated, SaveBoth
    <2>4. PICK order : order = bo'
      OBVIOUS
    <2>5. RowOf(order).status = "NEW" /\ order.id = o /\ o # NoId
      BY <2>1, <2>2, <2>4 DEF RowOf, OrderIds, NoId
    <2>6. db'.rows = [db.rows EXCEPT ![o] = RowOf(order)]
      BY <2>3, <2>4, <2>5 DEF upsert_order
    <2> QED
      BY <2>5, <2>6 DEF TypeOK
  <1>3. CASE SellCreated
    <2>1. so'.id = NextId /\ so'.status = "NEW" /\ NextId \in OrderIds
      BY <1>3, SentFields, NextIdFree DEF SellCreated, TypeOK
    <2>2. o = NextId
      BY <1>3, <2>1 DEF SellCreated, Placed, TypeOK
    <2>3. db'.rows = upsert_order(db.rows, so')
      BY <1>3 DEF SellCreated, SaveBoth
    <2>4. PICK order : order = so'
      OBVIOUS
    <2>5. RowOf(order).status = "NEW" /\ order.id = o /\ o # NoId
      BY <2>1, <2>2, <2>4 DEF RowOf, OrderIds, NoId
    <2>6. db'.rows = [db.rows EXCEPT ![o] = RowOf(order)]
      BY <2>3, <2>4, <2>5 DEF upsert_order
    <2> QED
      BY <2>5, <2>6 DEF TypeOK
  <1>4. CASE LoseBuyAck \/ LoseSellAck
    <2>1. lostAck' = lostAck \cup {NextId} /\ \A p \in OrderIds \ {NextId} : ex'[p] = ex[p]
      BY <1>4, NextIdFree DEF LoseBuyAck, LoseSellAck, LoseAck, Placed, TypeOK
    <2> QED
      BY <2>1
  <1>5. CASE CreateBuyFails \/ CreateSellFails \/ ResendNothing
    BY <1>5 DEF CreateBuyFails, CreateSellFails, CreateFails, ResendNothing
  <1> QED
    BY <1>1, <1>2, <1>3, <1>4, <1>5 DEF CreateAnswers

\* While the program is up, the rows keep saying what a restart relies on.
LEMMA RowsKept ==
  ASSUME IInv, IInv', FillsBooked, FillsBooked', RowsDone, KnownSaved,
         Next \/ SendFilledSell, ExchangeMoves, QueueMoves, BooksMove
  PROVE  RowsDone' /\ KnownSaved'
  <1>1. TypeOK /\ TypeOK' /\ IdsAgree' /\ Settled(bo)' /\ Settled(so)'
    BY DEF IInv, KeepsTrack, FillsBooked
  <1>2. ASSUME NEW o \in OrderIds, db'.rows[o].status = "FILLED"
        PROVE  (ex'[o].side # "NONE" /\ Done(o)')
    <2>1. CASE db'.rows[o] = db.rows[o]
      <3>1. ex[o].side # "NONE" /\ Done(o)
        BY <1>2, <2>1 DEF RowsDone
      <3>2. Done(o)'
        BY <1>1, <3>1, DoneStays
      <3> QED
        BY <3>1, <3>2 DEF ExchangeMoves
    <2>2. CASE SavedNow(bo', o)
      BY <1>1, <1>2, <2>2 DEF SavedNow, Settled, IdsAgree
    <2>3. CASE SavedNow(so', o)
      BY <1>1, <1>2, <2>3 DEF SavedNow, Settled, IdsAgree
    <2> QED
      BY <1>1, <2>1, <2>2, <2>3, RowsMove DEF RowMoves
  <1>3. ASSUME NEW o \in OrderIds \ lostAck', ex'[o].side # "NONE"
        PROVE  db'.rows[o].status # "NONE"
    <2>1. CASE ex[o].side = "NONE"
      BY <1>1, <1>3, <2>1, NewIsSaved
    <2>2. CASE ex[o].side # "NONE"
      <3>1. lostAck \subseteq lostAck'
        BY <1>1, WorkerLeavesExchange, OthersOpenNothing
        DEF Next, Answers, NothingOpens, SendFilledSell, CreateAnswers, LoseBuyAck,
            LoseSellAck, LoseAck, CreateBuyFails, CreateSellFails, CreateFails,
            BuyCreated, SellCreated, ResendNothing
      <3>2. db.rows[o].status # "NONE"
        BY <1>3, <2>2, <3>1 DEF KnownSaved, Known
      <3> QED
        BY <1>1, <3>2, RowsMove DEF RowMoves, SavedNow
    <2> QED
      BY <2>1, <2>2
  <1> QED
    BY <1>2, <1>3 DEF RowsDone, KnownSaved, Known

(***************************************************************************)
(* A sell order nobody configured                                          *)
(***************************************************************************)

\* No step changes sellSet but the user's.
LEMMA SetOnlyByUser ==
  ASSUME Next \/ SendFilledSell, ~ sellSet'
  PROVE  ~ sellSet
  BY DEF Next, Worker, process_ticker, process_order, process_signal,
     ClosePosition, Answers, CreateAnswers, CancelAnswers, Environment,
     SendBuy, CancelUnfilledBuy, CancelPartlyBought, ResendBuy, SendSell,
     CancelUnfilledSell, CancelPartlySold, ResendSell, RaiseInCondition,
     IgnoreTick, Enter, Ignore, BuyFilledReport, BuyPartFilledReport,
     SellFilledReport, SellPartFilledReport, StatusReport, DropFill,
     CloseFilledBuy, CloseFilledSell, RaiseOnSignal, LoseBuyAck, LoseSellAck,
     LoseAck, CreateBuyFails, CreateSellFails, CreateFails, BuyCreated,
     SellCreated, ResendNothing, CancelFails, BuyCancelled,
     UnfilledSellCancelled, PartlySoldCancelled, CancelAnswered, Ticker,
     ConfigureSell, Fill, Snapshot, Withdraw, SendFilledSell

\* A sell order that was restored as filled is not reported, sent or cancelled.
LEMMA SellStaysAtRest ==
  ASSUME IInv, FillsBooked, SellAtRest, Next \/ SendFilledSell
  PROVE  SellAtRest'
  <1> SUFFICES ASSUME ~ sellSet'
               PROVE  /\ so'.id = NoId \/ so'.status = "FILLED"
                      /\ sell' = "NEW"
                      /\ pc' \notin SellCreates \cup SellCancels
                      /\ state' \in Bought \/ (pc' = "dead" /\ state' # "SOLD")
    BY DEF SellAtRest
  <1>1. TypeOK /\ Settled(so)
    BY DEF IInv, FillsBooked
  <1>2. /\ ~ sellSet /\ (so.id = NoId \/ so.status = "FILLED")
        /\ sell = "NEW" /\ pc \notin SellCreates \cup SellCancels
        /\ state \in Bought \/ (pc = "dead" /\ state # "SOLD")
    BY SetOnlyByUser DEF SellAtRest
  <1>3. CASE process_ticker
    <2>1. Waiting("tick")
      BY <1>3 DEF process_ticker, Take, SendBuy, CancelUnfilledBuy,
         CancelPartlyBought, ResendBuy, SendSell, CancelUnfilledSell,
         CancelPartlySold, ResendSell, RaiseInCondition, IgnoreTick
    <2>2. state \in Bought /\ pc = "idle"
      BY <1>2, <2>1 DEF Waiting, Running
    <2>3. ~ CanCancelUnfilledSell /\ ~ CanCancelPartlySold
      BY <2>2 DEF CanCancelUnfilledSell, CanCancelPartlySold, Bought
    <2>4. ~ CanResendSell /\ ~ CanResumeSelling
      BY <1>2 DEF CanResendSell, CanResumeSelling
    <2>5. CASE SendBuy \/ CancelUnfilledBuy \/ ResendBuy
      BY <1>2, <2>5 DEF SendBuy, CancelUnfilledBuy, ResendBuy, Enter, SellCreates,
         SellCancels, Bought
    <2>6. CASE CancelPartlyBought
      BY <1>2, <2>6 DEF CancelPartlyBought, Enter, SellCreates, SellCancels, Bought
    <2>7. CASE SendSell
      <3>1. /\ pc' = "dead" /\ state' \in {"BOUGHT", "SELLING"} /\ sell' = sell
            /\ so' = [so EXCEPT !.qty = SellQuantity]
        BY <1>2, <2>7 DEF SendSell, Enter
      <3>2. so'.id = so.id /\ so'.status = so.status
        BY <1>1, <3>1 DEF TypeOK, SellOrder
      <3> QED
        BY <1>2, <3>1, <3>2 DEF SellCreates, SellCancels
    <2>8. CASE RaiseInCondition \/ IgnoreTick
      BY <1>2, <2>8 DEF RaiseInCondition, IgnoreTick, Ignore, Die, SellCreates, SellCancels
    <2>9. ~ CancelUnfilledSell /\ ~ CancelPartlySold /\ ~ ResendSell
      BY <2>3, <2>4 DEF CancelUnfilledSell, CancelPartlySold, ResendSell
    <2> QED
      BY <1>3, <2>5, <2>6, <2>7, <2>8, <2>9 DEF process_ticker
  <1>4. CASE process_order
    <2>1. Waiting("report")
      BY <1>4 DEF process_order, Take, TakeAndSignal, BuyFilledReport,
         BuyPartFilledReport, SellFilledReport, SellPartFilledReport,
         StatusReport, DropFill
    <2>2. 1 \in 1 .. Len(queue) /\ queue[1] = report /\ report.kind = "report"
      BY <1>1, <2>1 DEF Waiting, TypeOK, report
    <2>3. report.id # so.id
      BY <1>1, <1>2, <2>1, <2>2, ReportFields DEF Settled, Done, Unreported, NoId, OrderIds
    <2> QED
      BY <1>2, <1>4, <2>3
      DEF process_order, BuyFilledReport, BuyPartFilledReport, SellFilledReport,
          SellPartFilledReport, StatusReport, DropFill, Restatus, Ignore
  <1>5. CASE process_signal \/ ClosePosition
    BY <1>2, <1>5
    DEF process_signal, CloseFilledBuy, CloseFilledSell, RaiseOnSignal, Take, Waiting,
        Running, ClosePosition, Die, SellCreates, SellCancels, Bought
  <1>6. CASE CreateAnswers
    BY <1>2, <1>6
    DEF CreateAnswers, LoseBuyAck, LoseSellAck, LoseAck, CreateBuyFails,
        CreateSellFails, CreateFails, BuyCreated, SellCreated, ResendNothing,
        AwaitsCreateBuy, AwaitsCreateSell, Die, SellCreates, SellCancels, Bought
  <1>7. CASE CancelAnswers
    BY <1>2, <1>7
    DEF CancelAnswers, CancelFails, BuyCancelled, UnfilledSellCancelled,
        PartlySoldCancelled, CancelAnswered, AwaitsCancel, Die, SellCreates,
        SellCancels, BuyCancels
  <1>8. CASE Environment
    <2>1. \A q : ~ ConfigureSell(q)
      BY DEF ConfigureSell
    <2> QED
      BY <1>2, <1>8, <2>1 DEF Environment, Ticker, Fill, Snapshot, Withdraw
  <1>9. CASE SendFilledSell
    BY <1>2, <1>9 DEF SendFilledSell, SellCreates
  <1> QED
    BY <1>3, <1>4, <1>5, <1>6, <1>7, <1>8, <1>9 DEF Next, Worker, Answers

\* A buy row is saved in states in which nothing was sold.
LEMMA BuyRowStaysBought ==
  ASSUME TypeOK, BuyRowBought, UpStep
  PROVE  BuyRowBought'
  <1> SUFFICES ASSUME pos'.type = "BUY" PROVE db'.strategy \in Bought
    BY DEF BuyRowBought
  <1>1. CASE StepSavingBuy
    <2>1. BuyAfterCancel(bo') \in Bought
      <3>1. buy \in Bought
        BY DEF TypeOK, Bought
      <3> QED
        BY <3>1, Zenon DEF BuyAfterCancel, Bought
    <2>2. CASE BuyCancelled
      BY <2>1, <2>2 DEF BuyCancelled, SaveBoth, SavePosition
    <2> QED
      BY <1>1, <2>2 DEF StepSavingBuy, SavesBuyRow, BuyCreated, BuyFilledReport,
         BuyPartFilledReport, CloseFilledBuy, SaveBoth, SavePosition, Bought
  <1>2. CASE StepSavingSell \/ Complete
    BY <1>2 DEF StepSavingSell, Complete, SellRow
  <1>3. CASE StepSavingNone
    <2>1. pos' = pos
      BY <1>3 DEF StepSavingNone
    <2>2. db'.strategy = db.strategy
      BY <1>3 DEF StepSavingNone, SavesNoRow, process_ticker, SendBuy, CancelUnfilledBuy,
         CancelPartlyBought, ResendBuy, SendSell, CancelUnfilledSell, CancelPartlySold,
         ResendSell, RaiseInCondition, IgnoreTick, Enter, Ignore, StatusReport, DropFill,
         RaiseOnSignal, LoseBuyAck, CreateBuyFails, LoseSellAck, CreateSellFails, LoseAck,
         CreateFails, CancelFails, PartlySoldCancelled, SaveOrder, ClosePosition, Ticker, Fill
    <2> QED
      BY <2>1, <2>2 DEF BuyRowBought
  <1> QED
    BY <1>1, <1>2, <1>3 DEF UpStep

\* Every step while the program is up.
LEMMA UpStepKeeps ==
  ASSUME RInv, UpStep
  PROVE  RInv'
  <1>1. /\ IInv /\ FillsBooked /\ SellAtRest /\ RowsDone /\ KnownSaved /\ RTypes
        /\ BuyRowBought /\ TypeOK
    BY DEF RInv, IInv
  <1>2. /\ phase = "up" /\ phase' = phase /\ restarts' = restarts
        /\ Next \/ SendFilledSell
    BY UpSteps
  <1>3. IInv' /\ FillsBooked' /\ ExchangeMoves /\ QueueMoves /\ BooksMove
    BY <1>1, <1>2, NextKeeps, SendFilledKeeps
  <1>4. RTypes'
    <2>1. so'.qty \in Nat
      BY <1>3 DEF IInv, TypeOK, SellOrder
    <2>2. so.qty \in Nat
      BY <1>1 DEF TypeOK, SellOrder
    <2>3. pos' \in {pos, BuyRow, SellRow(so'), SellRow(so)} /\ told' \in {told, told + 1}
      BY DEF UpStep, StepSavingBuy, StepSavingSell, StepSavingNone, Complete
    <2> QED
      BY <1>1, <1>2, <2>1, <2>2, <2>3 DEF RTypes, BuyRow, SellRow
  <1> QED
    BY <1>1, <1>2, <1>3, <1>4, RowsKept, SellStaysAtRest, BuyRowStaysBought
    DEF RInv, OffIsDead

(***************************************************************************)
(* The crash                                                               *)
(***************************************************************************)

\* What a crash may leave at the exchange: an order nobody will hear of, or one
\* closed unheard.
CrashedExchange ==
    /\ UsedIdsKept /\ ExchangeMoves /\ LiveKnown' \subseteq LiveKnown
    /\ lostAck \subseteq lostAck' /\ lostAck' \subseteq OrderIds
    /\ \A o \in OrderIds : /\ ex[o].side = "NONE" => ex'[o].side = "NONE" \/ o \in lostAck'
                           /\ ex'[o].live \/ o \in lostAck' => ex'[o].side # "NONE"

ExchangeType ==
    ex \in [OrderIds -> [side : {"BUY", "SELL", "NONE"}, qty : Nat, cum : Nat, live : BOOLEAN]]

\* The answer a crash loses may be that of a create: an order works unknown.
LEMMA CrashPlaces ==
  ASSUME TypeOK, IdsAgree, NEW side \in {"BUY", "SELL"}, NEW qty \in Nat, FreeIds # {},
         ex' = Placed(side, qty), lostAck' = lostAck \cup {NextId}
  PROVE  ExchangeType' /\ CrashedExchange
  <1> USE DEF TypeOK
  <1>1. NextId \in OrderIds /\ ex[NextId].side = "NONE"
    BY NextIdFree
  <1>2. /\ ex'[NextId] = [side |-> side, qty |-> qty, cum |-> 0, live |-> TRUE]
        /\ \A o \in OrderIds \ {NextId} : ex'[o] = ex[o]
    BY <1>1 DEF Placed
  <1>3. ExchangeType'
    BY <1>1 DEF ExchangeType, Placed
  <1>4. LiveKnown' \subseteq LiveKnown
    BY <1>2 DEF LiveKnown
  <1>5. ExchangeMoves
    BY <1>1, <1>2 DEF ExchangeMoves
  <1>6. UsedIdsKept
    BY <1>1, <1>2 DEF UsedIdsKept
  <1> QED
    BY <1>1, <1>2, <1>3, <1>4, <1>5, <1>6 DEF CrashedExchange, IdsAgree

\* It may be that of a cancellation: the order in hand is closed.
LEMMA CrashCloses ==
  ASSUME TypeOK, IdsAgree, Order.id \in OrderIds, ex' = Closed(Order.id), lostAck' = lostAck
  PROVE  ExchangeType' /\ CrashedExchange
  <1> USE DEF TypeOK
  <1>1. \A p \in OrderIds : /\ ex'[p].side = ex[p].side /\ ex'[p].qty = ex[p].qty
                            /\ ex'[p].cum = ex[p].cum
                            /\ ex'[p].live => ex[p].live
    BY DEF Closed
  <1>2. ExchangeType'
    BY ClosedType DEF ExchangeType
  <1>3. LiveKnown' \subseteq LiveKnown
    BY <1>1 DEF LiveKnown
  <1>4. ExchangeMoves
    BY DEF ExchangeMoves, Closed, IdsAgree
  <1>5. UsedIdsKept
    BY <1>1 DEF UsedIdsKept
  <1> QED
    BY <1>1, <1>2, <1>3, <1>4, <1>5 DEF CrashedExchange, IdsAgree

\* Whatever a crash loses, no order known before works that did not.
LEMMA CrashLeavesExchange ==
  ASSUME TypeOK, IdsAgree, Crash
  PROVE  ExchangeType' /\ CrashedExchange
  <1>1. CASE ex' = ex /\ lostAck' = lostAck
    BY <1>1 DEF TypeOK, ExchangeType, CrashedExchange, UsedIdsKept, ExchangeMoves, LiveKnown,
       IdsAgree
  <1>2. CASE LosesAnswer
    <2>1. OpenBuy \in Int /\ OpenSell \in Int
      BY DEF TypeOK, OpenBuy, OpenSell, BuyOrder, SellOrder
    <2>2. CASE AwaitsCreateBuy /\ OpenBuy > 0 /\ FreeIds # {} /\ ex' = Placed("BUY", OpenBuy)
               /\ lostAck' = lostAck \cup {NextId}
      BY <2>1, <2>2, CrashPlaces
    <2>3. CASE AwaitsCreateSell /\ OpenSell > 0 /\ FreeIds # {}
               /\ ex' = Placed("SELL", OpenSell) /\ lostAck' = lostAck \cup {NextId}
      BY <2>1, <2>3, CrashPlaces
    <2>4. CASE Cancellable(Order) /\ ex' = Closed(Order.id) /\ lostAck' = lostAck
      <3>1. Order.id \in OrderIds
        BY <2>4 DEF TypeOK, Cancellable, Order, BuyOrder, SellOrder
      <3> QED
        BY <2>4, <3>1, CrashCloses
    <2> QED
      BY <1>2, <2>2, <2>3, <2>4 DEF LosesAnswer
  <1> QED
    BY <1>1, <1>2 DEF Crash

\* What a crash may leave in the database: the row of an order that filled,
\* saved with the report that said so.
FillSaved(o) ==
    /\ o \in {bo.id, so.id} /\ queue # <<>> /\ report.kind = "report" /\ report.id = o
    /\ report.status = "FILLED" /\ report.cum \in Nat /\ ex' = ex
    /\ seen' = [seen EXCEPT ![o] = report.cum]
    /\ \A p \in OrderIds \ {o} : db'.rows[p] = db.rows[p]
    /\ db'.rows[o].status = "FILLED" /\ db'.rows[o].real = report.cum
    /\ o # so.id => state = "BUYING" /\ pc = "idle"

\* A crash saves at most the row of an order whose fill waits in the queue.
LEMMA CrashLeavesRows ==
  ASSUME TypeOK, Crash
  PROVE  /\ db' \in [strategy : State, rows : [OrderIds -> Row]]
         /\ db'.strategy = db.strategy
         /\ (db' = db /\ seen' = seen) \/ \E o \in OrderIds : FillSaved(o)
  <1>1. CASE db' = db /\ seen' = seen
    BY <1>1 DEF TypeOK
  <1>2. CASE SplitsSave /\ ex' = ex
    <2>1. PICK order \in {bo, so} :
            /\ Waiting("report") /\ report.status = "FILLED" /\ report.id = order.id
            /\ order = bo => state = "BUYING"
            /\ db' = [db EXCEPT !.rows = upsert_order(@, Booked(order, "FILLED"))]
            /\ Book(order.id, report.cum)
      BY <1>2 DEF SplitsSave
    <2>2. report.id \in OrderIds /\ report.cum \in Nat
      BY <2>1, ReportFields
    <2>3. PICK b : b = Booked(order, "FILLED")
      OBVIOUS
    <2>4. b.id = order.id /\ b.status = "FILLED" /\ b.real \in Nat /\ b.real = report.cum
      <3>1. b \in BuyOrder \cup SellOrder /\ b.id = order.id /\ b.status = "FILLED"
        BY <2>1, <2>2, <2>3, BookedFields DEF TypeOK, OrderStatus
      <3>2. b.real = report.cum
        BY <2>1, <2>2, <2>3, BookedReal DEF OrderStatus
      <3> QED
        BY <2>2, <3>1, <3>2
    <2>5. db' = [db EXCEPT !.rows = upsert_order(db.rows, b)]
      BY <2>1, <2>3
    <2>6. upsert_order(db.rows, b) = [db.rows EXCEPT ![order.id] = RowOf(b)]
          /\ RowOf(b).status = "FILLED" /\ RowOf(b) \in Row
          /\ RowOf(b).real = report.cum
      BY <2>1, <2>2, <2>4 DEF upsert_order, RowOf, Row, OrderIds, NoId, OrderStatus
    <2>7. /\ db'.rows = [db.rows EXCEPT ![order.id] = RowOf(b)]
          /\ db'.strategy = db.strategy
          /\ db' \in [strategy : State, rows : [OrderIds -> Row]]
      <3>1. PICK rows : rows = upsert_order(db.rows, b)
        OBVIOUS
      <3>2. PICK row : row = RowOf(b)
        OBVIOUS
      <3>3. db' = [db EXCEPT !.rows = rows] /\ rows = [db.rows EXCEPT ![order.id] = row]
            /\ row \in Row /\ order.id \in OrderIds
        BY <2>1, <2>2, <2>5, <2>6, <3>1, <3>2
      <3>4. rows \in [OrderIds -> Row]
        BY <3>3 DEF TypeOK
      <3> QED
        BY <3>2, <3>3, <3>4 DEF TypeOK
    <2>8. FillSaved(order.id)
      BY <1>2, <2>1, <2>2, <2>6, <2>7 DEF FillSaved, Waiting, Running, report, Book, TypeOK
    <2> QED
      BY <2>1, <2>2, <2>7, <2>8
  <1> QED
    BY <1>1, <1>2 DEF Crash

\* A crash keeps what is known of the orders: what the program has not heard
\* of is in no row that says FILLED.
LEMMA CrashKeeps ==
  ASSUME RInv, Crash
  PROVE  RInv'
  <1>1. /\ TypeOK /\ Tracked /\ ReportsTrue /\ IdsAgree /\ OneWorkingOrder
        /\ ReportsSound /\ BooksSound /\ Settled(bo) /\ Settled(so)
        /\ RTypes /\ RowsDone /\ KnownSaved /\ SellAtRest /\ BuyRowBought
    BY DEF RInv, IInv, KeepsTrack, FillsBooked
  <1>2. /\ state' = state /\ buy' = buy /\ sell' = sell /\ bo' = bo /\ so' = so
        /\ sellSet' = sellSet /\ balance' = balance /\ life' = life /\ gaps' = gaps
        /\ pos' = pos /\ told' = told /\ pc' = "dead" /\ queue' = <<>>
        /\ phase' = "down" /\ restarts' = restarts + 1 /\ restarts < MaxRestarts
    BY DEF Crash
  <1>3. CrashedExchange
    BY <1>1, CrashLeavesExchange
  <1>4. TypeOK'
    <2>1. seen' \in [OrderIds -> Nat]
      BY <1>1, CrashLeavesRows DEF TypeOK, FillSaved
    <2>2. queue' \in Seq(Event)
      BY <1>2
    <2> QED
      BY <1>1, <1>2, <1>3, <2>1, <2>2, CrashLeavesExchange, CrashLeavesRows
      DEF TypeOK, CrashedExchange, ExchangeType
  <1>5. Tracked' /\ OneWorkingOrder'
    BY <1>1, <1>2, <1>3 DEF Tracked, OneWorkingOrder, CrashedExchange, BuyWorks, SellWorks, Open
  <1>6. ReportsTrue' /\ ReportsSound' /\ ReportsOrdered'
    BY <1>2 DEF ReportsTrue, ReportsSound, ReportsOrdered
  <1>7. IdsAgree'
    <2>1. bo.id \in OrderIds \cup {NoId} /\ so.id \in OrderIds \cup {NoId}
      BY <1>1 DEF TypeOK, BuyOrder, SellOrder
    <2> QED
      BY <1>1, <1>2, <1>3, <2>1 DEF IdsAgree, CrashedExchange, UsedIdsKept
  \* The fill whose row was saved says that its order is done.
  <1>8. ASSUME NEW o \in OrderIds, FillSaved(o)
        PROVE  ex'[o].side # "NONE" /\ Done(o)' /\ ~ Unreported(o)
    <2>1. 1 \in 1 .. Len(queue) /\ queue[1] = report
      BY <1>1, <1>8 DEF FillSaved, TypeOK, report
    <2>2. ReportTrue(report) /\ Sound(report, ex)
      BY <1>1, <2>1 DEF ReportsTrue, ReportsSound
    <2>3. seen'[o] = report.cum
      BY <1>1, <1>8 DEF FillSaved, TypeOK
    <2>4. /\ ex'[o].side # "NONE" /\ ~ ex'[o].live
          /\ seen'[o] = ex'[o].cum /\ ex'[o].cum = ex'[o].qty
      BY <1>8, <2>2, <2>3 DEF ReportTrue, Sound, FillSaved
    <2> QED
      BY <1>2, <1>8, <2>1, <2>4 DEF Done, Unreported, FillSaved
  <1>9. ASSUME NEW o \in OrderIds, ex[o].side # "NONE", Done(o)
        PROVE  Done(o)'
    <2>1. seen'[o] = seen[o]
      <3>1. ASSUME NEW p \in OrderIds, FillSaved(p) PROVE seen'[o] = seen[o]
        BY <1>1, <1>8, <1>9, <3>1 DEF Done, FillSaved, TypeOK
      <3> QED
        BY <1>1, <3>1, CrashLeavesRows
    <2> QED
      BY <1>2, <1>3, <1>9, <2>1 DEF CrashedExchange, ExchangeMoves, Done, Unreported
  <1>10. BooksSound'
    <2> SUFFICES ASSUME NEW o \in OrderIds
                 PROVE  /\ seen'[o] <= ex'[o].cum /\ ex'[o].cum <= ex'[o].qty
                        /\ ex'[o].side = "NONE" => ex'[o].cum = 0
      BY DEF BooksSound
    <2>1. /\ seen[o] \in Nat /\ ex[o].cum \in Nat /\ ex[o].qty \in Nat
          /\ seen'[o] \in Nat /\ ex'[o].cum \in Nat /\ ex'[o].qty \in Nat
          /\ seen[o] <= ex[o].cum /\ ex[o].cum <= ex[o].qty
          /\ ex[o].side = "NONE" => ex[o].cum = 0
      BY <1>1, <1>4 DEF TypeOK, BooksSound
    <2>2. ex[o].cum <= ex'[o].cum /\ ex'[o].cum <= ex'[o].qty
          /\ (ex'[o].side = "NONE" => ex'[o].cum = 0)
      BY <1>3, <2>1 DEF CrashedExchange, ExchangeMoves
    <2>3. seen'[o] = seen[o] \/ seen'[o] = ex'[o].cum
      <3>1. ASSUME NEW p \in OrderIds, FillSaved(p)
            PROVE  seen'[o] = seen[o] \/ seen'[o] = ex'[o].cum
        BY <1>1, <1>8, <3>1, ZenonT(40) DEF Done, FillSaved, TypeOK
      <3> QED
        BY <1>1, <3>1, CrashLeavesRows
    <2> QED
      BY <2>1, <2>2, <2>3
  <1>11. Settled(bo)' /\ Settled(so)'
    <2>1. /\ bo.id # NoId => bo.id \in OrderIds /\ ex[bo.id].side # "NONE"
          /\ so.id # NoId => so.id \in OrderIds /\ ex[so.id].side # "NONE"
      BY <1>1 DEF TypeOK, BuyOrder, SellOrder, IdsAgree
    <2> QED
      BY <1>1, <1>2, <1>9, <2>1 DEF Settled
  <1>12. RowsDone'
    <2> SUFFICES ASSUME NEW o \in OrderIds, db'.rows[o].status = "FILLED"
                 PROVE  ex'[o].side # "NONE" /\ Done(o)'
      BY DEF RowsDone
    <2>1. CASE db'.rows[o] = db.rows[o]
      <3>1. ex[o].side # "NONE" /\ Done(o)
        BY <1>1, <2>1 DEF RowsDone
      <3> QED
        BY <1>3, <1>9, <3>1 DEF CrashedExchange, UsedIdsKept
    <2>2. CASE FillSaved(o)
      BY <1>8, <2>2
    <2>3. ASSUME NEW p \in OrderIds, FillSaved(p) PROVE p = o \/ db'.rows[o] = db.rows[o]
      BY <2>3 DEF FillSaved
    <2> QED
      BY <1>1, <2>1, <2>2, <2>3, CrashLeavesRows
  <1>13. KnownSaved'
    <2> SUFFICES ASSUME NEW o \in OrderIds, o \notin lostAck', ex'[o].side # "NONE"
                 PROVE  db'.rows[o].status # "NONE"
      BY DEF KnownSaved, Known
    <2>1. db.rows[o].status # "NONE"
      BY <1>1, <1>3 DEF CrashedExchange, KnownSaved, Known
    <2>2. ASSUME NEW p \in OrderIds, FillSaved(p)
          PROVE  db'.rows[o] = db.rows[o] \/ db'.rows[o].status = "FILLED"
      BY <2>2 DEF FillSaved
    <2> QED
      BY <1>1, <2>1, <2>2, CrashLeavesRows
  <1>14. SellAtRest' /\ BuyRowBought'
    BY <1>1, <1>2, CrashLeavesRows DEF SellAtRest, SellCreates, SellCancels, BuyRowBought
  <1>15. RTypes' /\ OffIsDead'
    BY <1>1, <1>2, RestartAssumption DEF RTypes, OffIsDead
  <1> QED
    BY <1>4, <1>5, <1>6, <1>7, <1>10, <1>11, <1>12, <1>13, <1>14, <1>15
    DEF RInv, IInv, KeepsTrack, FillsBooked

(***************************************************************************)
(* Trading that nobody listens to                                          *)
(***************************************************************************)

\* What is booked stays booked: only an order that works can trade, and no row
\* of a working order says FILLED.
LEMMA UnseenKeeps ==
  ASSUME RInv, NEW o \in OrderIds, NEW n \in 1 .. Quantity, FillUnseen(o, n)
  PROVE  RInv'
  <1>1. /\ TypeOK /\ Tracked /\ ReportsTrue /\ IdsAgree /\ OneWorkingOrder
        /\ ReportsSound /\ BooksSound /\ Settled(bo) /\ Settled(so)
        /\ RTypes /\ RowsDone /\ KnownSaved /\ SellAtRest /\ BuyRowBought /\ OffIsDead
    BY DEF RInv, IInv, KeepsTrack, FillsBooked
  <1>2. /\ state' = state /\ buy' = buy /\ sell' = sell /\ bo' = bo /\ so' = so
        /\ sellSet' = sellSet /\ balance' = balance /\ life' = life /\ gaps' = gaps
        /\ pos' = pos /\ told' = told /\ pc' = pc /\ queue' = queue /\ db' = db
        /\ phase' = phase /\ restarts' = restarts /\ seen' = seen /\ lostAck' = lostAck
        /\ phase # "up" /\ ex[o].live /\ ex[o].cum + n <= ex[o].qty
    BY DEF FillUnseen
  <1>3. pc = "dead" /\ queue = <<>>
    BY <1>1, <1>2 DEF OffIsDead
  <1>4. /\ ExchangeType'
        /\ \A p \in OrderIds \ {o} : ex'[p] = ex[p]
        /\ ex'[o].side = ex[o].side /\ ex'[o].qty = ex[o].qty
        /\ ex'[o].cum = ex[o].cum + n
    <2>1. ex[o].cum + n \in Nat
      BY <1>1, QuantityAssumption DEF TypeOK
    <2>2. CASE ex[o].cum + n < ex[o].qty
      <3>1. ex' = [ex EXCEPT ![o].cum = @ + n, ![o].live = TRUE]
        BY <2>2 DEF FillUnseen
      <3> QED
        BY <1>1, <2>1, <3>1 DEF TypeOK, ExchangeType
    <2>3. CASE ~ (ex[o].cum + n < ex[o].qty)
      <3>1. (ex[o].cum + n < ex[o].qty) = FALSE
        BY <2>3
      <3>2. ex' = [ex EXCEPT ![o].cum = @ + n, ![o].live = FALSE]
        BY <3>1 DEF FillUnseen
      <3> QED
        BY <1>1, <2>1, <3>2 DEF TypeOK, ExchangeType
    <2> QED
      BY <2>2, <2>3
  <1>5. TypeOK'
    BY <1>1, <1>2, <1>4 DEF TypeOK, ExchangeType
  <1>6. ExchangeMoves /\ UsedIdsKept
    <2>1. n \in Nat /\ ex[o].side # "NONE"
      BY <1>1, <1>2, QuantityAssumption DEF IdsAgree
    <2>2. \A p \in OrderIds : ex[p].cum \in Nat /\ ex[p].qty \in Nat
      BY <1>1 DEF TypeOK
    <2> QED
      BY <1>2, <1>4, <2>1, <2>2 DEF ExchangeMoves, UsedIdsKept
  <1>7. LiveKnown' \subseteq LiveKnown
    BY <1>2, <1>4 DEF LiveKnown
  <1>8. \A p \in OrderIds : ex[p].side # "NONE" /\ Done(p) => Done(p)'
    BY <1>2, <1>6 DEF ExchangeMoves, Done, Unreported
  <1>9. Tracked' /\ OneWorkingOrder'
    BY <1>1, <1>2, <1>3, <1>7 DEF Tracked, OneWorkingOrder, BuyWorks, SellWorks, Open
  <1>10. ReportsTrue' /\ ReportsSound' /\ ReportsOrdered'
    BY <1>2, <1>3 DEF ReportsTrue, ReportsSound, ReportsOrdered
  <1>11. IdsAgree'
    <2>1. bo.id \in OrderIds \cup {NoId} /\ so.id \in OrderIds \cup {NoId}
      BY <1>1 DEF TypeOK, BuyOrder, SellOrder
    <2>2. \A p \in OrderIds : /\ ex'[p].side = ex[p].side
                              /\ ex'[p].live => ex[p].live
      BY <1>2, <1>4
    <2> QED
      BY <1>1, <1>2, <2>1, <2>2 DEF IdsAgree
  <1>12. BooksSound'
    <2>1. BooksMove
      BY <1>2 DEF BooksMove
    <2> QED
      BY <1>1, <1>5, <1>6, <2>1, BooksStaySound
  <1>13. Settled(bo)' /\ Settled(so)'
    <2>1. /\ bo.id # NoId => bo.id \in OrderIds /\ ex[bo.id].side # "NONE"
          /\ so.id # NoId => so.id \in OrderIds /\ ex[so.id].side # "NONE"
      BY <1>1 DEF TypeOK, BuyOrder, SellOrder, IdsAgree
    <2> QED
      BY <1>1, <1>2, <1>8, <2>1 DEF Settled
  <1>14. RowsDone' /\ KnownSaved'
    <2>1. \A p \in OrderIds : ex'[p].side = ex[p].side
      BY <1>4
    <2> QED
      BY <1>1, <1>2, <1>8, <2>1 DEF RowsDone, KnownSaved, Known
  <1>15. SellAtRest' /\ BuyRowBought' /\ RTypes' /\ OffIsDead'
    BY <1>1, <1>2 DEF SellAtRest, BuyRowBought, RTypes, OffIsDead
  <1> QED
    BY <1>5, <1>9, <1>10, <1>11, <1>12, <1>13, <1>14, <1>15
    DEF RInv, IInv, KeepsTrack, FillsBooked

(***************************************************************************)
(* The restart                                                             *)
(***************************************************************************)

\* The ids of orders are finitely many.
LEMMA IdsAreFinite ==
  ASSUME NEW S \in SUBSET OrderIds
  PROVE  IsFiniteSet(S)
  <1>1. MaxOrders \in Int /\ 1 \in Int
    BY BoundAssumption
  <1>2. IsFiniteSet(OrderIds)
    BY <1>1, FS_Interval DEF OrderIds
  <1> QED
    BY <1>2, FS_Subset

\* A set of order ids that is not empty has a least and a greatest member.
LEMMA IdsHaveEnds ==
  ASSUME NEW S \in SUBSET OrderIds, S # {}
  PROVE  Min(S) \in S /\ Max(S) \in S
  <1>1. S \in SUBSET Int /\ IsFiniteSet(S)
    BY IdsAreFinite DEF OrderIds
  <1> QED
    BY <1>1, NumbersHaveEnds DEF Min, Max

\* The sum over a position's orders is a quantity.
LEMMA VerifiedQuantityType ==
  ASSUME TypeOK, pos.qty \in Nat
  PROVE  VerifiedQuantity \in Nat
  <1>1. PICK S \in SUBSET OrderIds : S = Saved("BUY") \cup Saved("SELL")
    BY DEF Saved
  <1>2. PICK f : f = [o \in OrderIds |-> ex[o].qty]
    OBVIOUS
  <1>3. IsFiniteSet(S) /\ \A x \in S : f[x] \in Nat
    BY <1>2, IdsAreFinite DEF TypeOK
  <1>4. Numbers(f, S) /\ \A x \in S : f[x] >= 0
    BY <1>3 DEF Numbers
  <1>5. SumFunctionOnSet(f, {}) <= SumFunctionOnSet(f, S) /\ SumFunctionOnSet(f, {}) = 0
    BY <1>4, SumGrows, SumOfNone
  <1>6. SumFunctionOnSet(f, S) \in Nat
    BY <1>4, <1>5, SumType
  <1> QED
    BY <1>1, <1>2, <1>6 DEF VerifiedQuantity

\* The order that stands for several is one of them.
LEMMA AggregateIsMember ==
  ASSUME NEW S \in SUBSET OrderIds, S # {}
  PROVE  _aggregate_orders(S) \in S
  <1>1. PICK open : open = S \ WithStatus(S, {"FILLED", "CANCELED"})
    OBVIOUS
  <1>2. PICK filled : filled = WithStatus(S, {"FILLED"})
    OBVIOUS
  <1>3. open \in SUBSET S /\ filled \in SUBSET S
    BY <1>1, <1>2 DEF WithStatus
  <1>4. _aggregate_orders(S) = Max(CASE open # {} -> open
                                     [] open = {} /\ filled # {} -> filled
                                     [] OTHER -> S)
    BY <1>1, <1>2, Zenon DEF _aggregate_orders
  <1>5. PICK T : T = (CASE open # {} -> open
                        [] open = {} /\ filled # {} -> filled
                        [] OTHER -> S)
    OBVIOUS
  <1>6. T \in SUBSET S /\ T # {}
    BY <1>3, <1>5, Zenon
  <1>7. Max(T) \in T
    BY <1>6, IdsHaveEnds
  <1> QED
    BY <1>4, <1>5, <1>6, <1>7

\* The order a restart selects from the saved ones is one of them.
LEMMA SelectIsMember ==
  ASSUME NEW S \in SUBSET OrderIds, S # {}
  PROVE  _select_current_sell_order(S) \in S
  <1>1. PICK T : T = IF WithStatus(S, {"NEW"}) # {} THEN WithStatus(S, {"NEW"}) ELSE S
    OBVIOUS
  <1>2. T \in SUBSET S /\ T # {}
    BY <1>1 DEF WithStatus
  <1>3. Min(T) \in T
    BY <1>2, IdsHaveEnds
  <1> QED
    BY <1>1, <1>2, <1>3, Zenon DEF _select_current_sell_order

\* If only filled orders are saved, nothing the position did is unknown to it.
AllBooked == \A o \in Known : ~ ex[o].live /\ seen[o] = ex[o].cum
LEMMA VerifiedIsBooked ==
  ASSUME RInv, Verified
  PROVE  AllBooked
  <1> SUFFICES ASSUME NEW o \in Known
               PROVE  ~ ex[o].live /\ seen[o] = ex[o].cum
    BY DEF AllBooked
  <1>1. TypeOK /\ IdsAgree /\ BooksSound /\ RowsDone /\ KnownSaved
    BY DEF RInv, IInv, KeepsTrack, FillsBooked
  <1>2. CASE ex[o].side # "NONE"
    <2>1. db.rows[o].status = "FILLED"
      BY <1>1, <1>2 DEF KnownSaved, Verified, Known
    <2> QED
      BY <1>1, <2>1 DEF RowsDone, Done, Known
  <1>3. CASE ex[o].side = "NONE"
    <2>1. seen[o] \in Nat /\ seen[o] <= 0 /\ ex[o].cum = 0
      BY <1>1, <1>3 DEF BooksSound, Known, TypeOK
    <2>2. ~ ex[o].live
      BY <1>1, <1>3 DEF IdsAgree, Known
    <2> QED
      BY <2>1, <2>2
  <1> QED
    BY <1>2, <1>3

\* A saved order of a position that is brought back: it filled, and is done.
SavedAndDone(o, side) ==
    /\ o \in OrderIds /\ ex[o].side = side /\ Done(o)
    /\ db.rows[o].status = "FILLED" /\ db.rows[o].real \in Nat /\ ex[o].qty \in Nat

\* The rows a verified restart reads are of filled orders of their side.
LEMMA SavedIsDone ==
  ASSUME RInv, Verified, NEW side, NEW o \in Saved(side)
  PROVE  SavedAndDone(o, side)
  <1>1. TypeOK /\ RowsDone
    BY DEF RInv, IInv
  <1>2. o \in OrderIds /\ ex[o].side = side /\ db.rows[o].status = "FILLED"
    BY DEF Saved, Verified
  <1> QED
    BY <1>1, <1>2 DEF SavedAndDone, RowsDone, TypeOK, Row

\* An order of a strategy that starts again: never sent, or filled and done.
Restored(order, side) ==
    \/ order.id = NoId /\ order.status # "FILLED"
    \/ /\ order.status = "FILLED" /\ order.id \in OrderIds
       /\ ex[order.id].side = side /\ Done(order.id)

\* The buy order of a restored position is none, or one that is done.
LEMMA RestoredBuy ==
  ASSUME RInv, Verified
  PROVE  restore_buy_orders \in BuyOrder /\ Restored(restore_buy_orders, "BUY")
  <1>1. CASE SavedBuys = {}
    <2>1. restore_buy_orders = NewBuyOrder
      BY <1>1 DEF restore_buy_orders
    <2> QED
      BY <2>1, QuantityAssumption DEF NewBuyOrder, Restored, BuyOrder, OrderStatus, NoId
  <1>2. CASE SavedBuys # {}
    <2>1. PICK o : o = _aggregate_orders(SavedBuys)
      OBVIOUS
    <2>2. SavedAndDone(o, "BUY")
      <3>1. SavedBuys \in SUBSET OrderIds /\ SavedBuys = Saved("BUY")
        BY DEF SavedBuys, Saved
      <3> QED
        BY <1>2, <2>1, <3>1, AggregateIsMember, SavedIsDone
    <2>3. restore_buy_orders = [NewBuyOrder EXCEPT !.id = o, !.status = db.rows[o].status,
                                                   !.real = db.rows[o].real]
      BY <1>2, <2>1 DEF restore_buy_orders
    <2>4. PICK real \in Nat : real = db.rows[o].real
      BY <2>2 DEF SavedAndDone
    <2>5. restore_buy_orders = [id |-> o, status |-> "FILLED", qty |-> Quantity,
                                real |-> real, qs |-> Quantity]
      BY <2>2, <2>3, <2>4 DEF NewBuyOrder, SavedAndDone
    <2> QED
      BY <2>2, <2>5, QuantityAssumption DEF SavedAndDone, Restored, BuyOrder, OrderStatus
  <1> QED
    BY <1>1, <1>2

\* If it was restored from a row, it is FILLED.
LEMMA RestoredBuyFilled ==
  ASSUME RInv, Verified, Saved("BUY") # {}
  PROVE  restore_buy_orders.status = "FILLED"
  <1>1. SavedBuys = Saved("BUY") /\ SavedBuys \in SUBSET OrderIds
    BY DEF SavedBuys, Saved
  <1>2. PICK o : o = _aggregate_orders(SavedBuys)
    OBVIOUS
  <1>3. SavedAndDone(o, "BUY")
    BY <1>1, <1>2, AggregateIsMember, SavedIsDone
  <1>4. restore_buy_orders = [NewBuyOrder EXCEPT !.id = o, !.status = db.rows[o].status,
                                                 !.real = db.rows[o].real]
    BY <1>1, <1>2 DEF restore_buy_orders
  <1>5. PICK real : real = db.rows[o].real
    OBVIOUS
  <1> QED
    BY <1>3, <1>4, <1>5 DEF SavedAndDone, NewBuyOrder

\* A sell order restored from a row is done.
LEMMA RestoredSellOrder ==
  ASSUME RInv, Verified, NEW o \in Saved("SELL")
  PROVE  RestoredSell(o) \in SellOrder /\ Restored(RestoredSell(o), "SELL")
  <1>1. SavedAndDone(o, "SELL")
    BY SavedIsDone
  <1> QED
    BY <1>1 DEF SavedAndDone, RestoredSell, Restored, SellOrder, OrderStatus

\* A sell order that was not sent is no order of the exchange.
LEMMA UnsentSell ==
  ASSUME NEW q \in Nat
  PROVE  NewSellOrder(q) \in SellOrder /\ Restored(NewSellOrder(q), "SELL")
  BY DEF NewSellOrder, SellOrder, Restored, OrderStatus, NoId

\* The state derived from a buy order is one a buy side may restart in.
LEMMA BuyStateType ==
  ASSUME NEW order
  PROVE  BuyStateOf(order) \in {"NEW", "PARTIALLY_BOUGHT", "BOUGHT"}
  BY Zenon DEF BuyStateOf

\* What a strategy that starts again finds is what its rows say.
LEMMA NewStrategyKeeps ==
  ASSUME RInv, NewStrategy, state' \in State, buy' \in {"NEW", "PARTIALLY_BOUGHT", "BOUGHT"},
         bo' \in BuyOrder, so' \in SellOrder, Restored(bo', "BUY"), Restored(so', "SELL"),
         sellSet' \in BOOLEAN, db'.rows = db.rows, db'.strategy \in State,
         db' \in [strategy : State, rows : [OrderIds -> Row]],
         pos' \in [type : {"BUY", "SELL"}, qty : Nat],
         ~ sellSet' => state' \in Bought, pos'.type = "BUY" => db'.strategy \in Bought
  PROVE  RInv'
  <1>1. /\ TypeOK /\ Tracked /\ ReportsTrue /\ IdsAgree
        /\ ReportsSound /\ BooksSound /\ RTypes /\ RowsDone /\ KnownSaved /\ OffIsDead
    BY DEF RInv, IInv, KeepsTrack, FillsBooked
  <1>2. /\ pc' = "idle" /\ life' = "running" /\ sell' = "NEW" /\ queue' = queue
        /\ ex' = ex /\ seen' = seen /\ lostAck' = lostAck /\ gaps' = gaps
        /\ restarts' = restarts /\ told' = told /\ phase' = "up" /\ Verified /\ queue = <<>>
    BY <1>1 DEF NewStrategy, OffIsDead
  <1>3. TypeOK'
    <2>1. balance' \in Int
      BY QuantityAssumption, BoundAssumption DEF NewStrategy
    <2> QED
      BY <1>1, <1>2, <2>1 DEF TypeOK
  <1>4. LiveKnown' = {}
    BY <1>2, VerifiedIsBooked DEF AllBooked, LiveKnown, Known
  <1>5. Tracked' /\ OneWorkingOrder'
    BY <1>4 DEF Tracked, OneWorkingOrder
  <1>6. ReportsTrue' /\ ReportsSound' /\ ReportsOrdered'
    BY <1>2 DEF ReportsTrue, ReportsSound, ReportsOrdered
  <1>7. IdsAgree'
    BY <1>1, <1>2 DEF Restored, IdsAgree
  <1>8. BooksSound'
    BY <1>1, <1>2 DEF BooksSound
  <1>9. \A o \in OrderIds : Done(o) => Done(o)'
    BY <1>2 DEF Done, Unreported
  <1>10. Settled(bo)' /\ Settled(so)'
    BY <1>9 DEF Settled, Restored, OrderIds, NoId
  <1>11. RowsDone' /\ KnownSaved'
    BY <1>1, <1>2, <1>9 DEF RowsDone, KnownSaved, Known
  <1>12. SellAtRest' /\ BuyRowBought'
    BY <1>2 DEF SellAtRest, BuyRowBought, Restored, SellCreates, SellCancels
  <1>13. RTypes' /\ OffIsDead'
    BY <1>1, <1>2 DEF RTypes, OffIsDead
  <1> QED
    BY <1>3, <1>5, <1>6, <1>7, <1>8, <1>10, <1>11, <1>12, <1>13
    DEF RInv, IInv, KeepsTrack, FillsBooked

\* A restart keeps the invariant, whether it restores the position or gives up.
LEMMA RestartKeeps ==
  ASSUME RInv, Restart
  PROVE  RInv'
  <1>1. TypeOK /\ RTypes /\ BuyRowBought
    BY DEF RInv, IInv
  <1>2. VerifiedQuantity \in Nat
    BY <1>1, VerifiedQuantityType DEF RTypes
  <1>3. SavedSells \in SUBSET OrderIds /\ SavedSells = Saved("SELL")
    BY DEF SavedSells, Saved
  <1>4. CASE RecoveryFails
    BY <1>4 DEF RecoveryFails, vars, RInv, IInv, KeepsTrack, FillsBooked, TypeOK,
       OneWorkingOrder, LiveKnown, Tracked, BuyWorks, SellWorks, Open, ReportsTrue,
       ReportTrue, IdsAgree, ReportsSound, Sound, ReportsOrdered, BooksSound, Settled,
       Done, Unreported, RTypes, RowsDone, KnownSaved, Known, SellAtRest, BuyRowBought,
       OffIsDead
  <1>5. CASE restore_buy_position
    <2>1. Verified /\ pos.type = "BUY" /\ NewStrategy
      BY <1>5 DEF restore_buy_position, NewStrategy
    <2>2. bo' \in BuyOrder /\ Restored(bo', "BUY")
      BY <1>5, <2>1, RestoredBuy DEF restore_buy_position
    <2>3. so' \in SellOrder /\ Restored(so', "SELL")
      <3>1. CASE SavedSells = {}
        BY <1>5, <3>1, UnsentSell DEF restore_buy_position
      <3>2. CASE SavedSells # {}
        BY <1>3, <1>5, <2>1, <3>2, IdsHaveEnds, RestoredSellOrder DEF restore_buy_position
      <3> QED
        BY <3>1, <3>2
    <2>4. buy' \in {"NEW", "PARTIALLY_BOUGHT", "BOUGHT"}
      BY <1>5, BuyStateType DEF restore_buy_position
    <2>5. /\ state' = db.strategy /\ db' = db /\ sellSet' = FALSE /\ pos' = BuyRow
          /\ db.strategy \in Bought /\ db.strategy \in State
      BY <1>1, <1>5, <2>1 DEF restore_buy_position, BuyRowBought, TypeOK
    <2>6. pos' \in [type : {"BUY", "SELL"}, qty : Nat]
      BY <2>5 DEF BuyRow
    <2> QED
      BY <1>1, <2>1, <2>2, <2>3, <2>4, <2>5, <2>6, NewStrategyKeeps DEF TypeOK
  <1>6. CASE restore_sell_position
    <2>1. Verified /\ NewStrategy
      BY <1>6 DEF restore_sell_position, NewStrategy
    <2>2. bo' \in BuyOrder /\ Restored(bo', "BUY")
      <3>1. CASE SavedBuys = {}
        BY <1>6, <3>1 DEF restore_sell_position, NoBuyOrder, BuyOrder, Restored, NoId
      <3>2. CASE SavedBuys # {}
        BY <1>6, <2>1, <3>2, RestoredBuy DEF restore_sell_position
      <3> QED
        BY <3>1, <3>2
    <2>3. so' \in SellOrder /\ Restored(so', "SELL")
      <3>1. CASE SavedSells = {}
        BY <1>2, <1>6, <3>1, UnsentSell DEF restore_sell_position
      <3>2. CASE SavedSells # {}
        BY <1>3, <1>6, <2>1, <3>2, SelectIsMember, RestoredSellOrder DEF restore_sell_position
      <3> QED
        BY <3>1, <3>2
    <2>4. buy' \in {"NEW", "PARTIALLY_BOUGHT", "BOUGHT"}
      BY <1>6, BuyStateType DEF restore_sell_position
    <2>5. state' \in State
      BY <1>1, <1>6 DEF restore_sell_position, RestoredState, TypeOK, State
    <2>6. /\ db' = [rows |-> db.rows, strategy |-> state'] /\ sellSet' = TRUE
          /\ pos' = [type |-> "SELL", qty |-> VerifiedQuantity]
      BY <1>6 DEF restore_sell_position, SavePosition
    <2>7. db' \in [strategy : State, rows : [OrderIds -> Row]] /\ db'.rows = db.rows
          /\ db'.strategy \in State
      BY <1>1, <2>5, <2>6 DEF TypeOK
    <2>8. pos' \in [type : {"BUY", "SELL"}, qty : Nat] /\ pos'.type # "BUY"
      BY <1>2, <2>6
    <2> QED
      BY <2>1, <2>2, <2>3, <2>4, <2>5, <2>6, <2>7, <2>8, NewStrategyKeeps
  <1> QED
    BY <1>4, <1>5, <1>6 DEF Restart

(***************************************************************************)
(* A sale is reported once                                                 *)
(***************************************************************************)

\* A row is of an order that was accepted.
RowsPlaced == \A o \in OrderIds : db.rows[o].status # "NONE" => ex[o].side # "NONE"

\* A position is BOUGHT, and the cancellation of an untouched sell is awaited,
\* only while nothing was sold; that of a touched one in states that say so.
BoughtUnsold ==
    /\ state = "BOUGHT" => sell = "NEW"
    /\ pc = "cancel_unfilled_sell_orders" => sell = "NEW"
    /\ pc = "cancel_partially_sold_orders" =>
           state \in {"PARTIALLY_SOLD", "PART_SOLD_PART_BOUGHT"}

\* A position without a buy order never gets one, nor a buy row: the signals
\* that wait for it are of its sell order.
OnlySells ==
    ~ HasBuyOrder =>
        /\ sellSet /\ pos.type = "SELL" /\ bo.id = NoId /\ buy = "BOUGHT"
        /\ pc \notin BuyCreates \cup BuyCancels
        /\ \A i \in 1 .. Len(queue) : queue[i].kind = "signal" => sell # "NEW"

\* A position that has to buy, and has no row of a buy order, has nothing to
\* sell: it sent and sold nothing, and is not reported.
NothingSent == /\ bo.id = NoId /\ bo.real = 0
               /\ so.id = NoId /\ so.status # "FILLED" /\ so.qty = 0 /\ so.real = 0
NothingBought ==
    (HasBuyOrder \/ BuyIds # {}) /\ Saved("BUY") = {} =>
        told = 0 /\ pos.qty = 0 /\ Saved("SELL") = {} /\ NothingSent

\* A position that bought and was reported is saved as SOLD, and stays it.
SoldForGood ==
    Saved("BUY") # {} =>
        \/ told = 0
        \/ /\ told = 1 /\ db.strategy = "SOLD" /\ pos.type = "SELL"
           /\ phase = "up" => state = "SOLD" /\ pc \in {"idle", "dead"}

CInv == RInv /\ RowsPlaced /\ BoughtUnsold /\ OnlySells /\ NothingBought /\ SoldForGood

\* A ticker leads to BOUGHT, or cancels a sell there, only if nothing was sold.
LEMMA TickKeepsUnsold ==
  ASSUME TypeOK, BoughtUnsold, process_ticker
  PROVE  BoughtUnsold'
  <1>1. sell' = sell
    BY DEF process_ticker, SendBuy, CancelUnfilledBuy, CancelPartlyBought, ResendBuy,
       SendSell, CancelUnfilledSell, CancelPartlySold, ResendSell, RaiseInCondition,
       IgnoreTick, Enter, Ignore
  <1>2. CASE SendBuy \/ CancelUnfilledBuy \/ ResendBuy
    BY <1>1, <1>2 DEF SendBuy, CancelUnfilledBuy, ResendBuy, Enter, BoughtUnsold
  <1>3. CASE CancelPartlyBought
    BY <1>1, <1>3 DEF CancelPartlyBought, Enter, BoughtUnsold
  <1>4. CASE SendSell
    BY <1>1, <1>4 DEF SendSell, Enter, BoughtUnsold
  <1>5. CASE CancelUnfilledSell
    BY <1>1, <1>5 DEF CancelUnfilledSell, CanCancelUnfilledSell, Enter, BoughtUnsold
  <1>6. CASE CancelPartlySold
    BY <1>1, <1>6 DEF CancelPartlySold, Enter, BoughtUnsold
  <1>7. CASE ResendSell
    BY <1>1, <1>7 DEF ResendSell, CanResendSell, CanResumeSelling, Enter, BoughtUnsold
  <1>8. CASE RaiseInCondition \/ IgnoreTick
    BY <1>1, <1>8 DEF RaiseInCondition, IgnoreTick, Ignore, Die, BoughtUnsold
  <1> QED
    BY <1>2, <1>3, <1>4, <1>5, <1>6, <1>7, <1>8 DEF process_ticker

\* So does every other step.
LEMMA UnsoldStays ==
  ASSUME TypeOK, BoughtUnsold, Next \/ SendFilledSell
  PROVE  BoughtUnsold'
  <1>1. CASE process_ticker
    BY <1>1, TickKeepsUnsold
  <1>2. CASE process_order
    BY <1>2 DEF process_order, Take, TakeAndSignal, Waiting, Running, BuyFilledReport,
       BuyPartFilledReport, SellFilledReport, SellPartFilledReport, StatusReport, DropFill,
       Ignore, BoughtUnsold
  <1>3. CASE process_signal
    BY <1>3 DEF process_signal, CloseFilledBuy, CloseFilledSell, RaiseOnSignal, Take,
       Waiting, Running, Die, BoughtUnsold
  <1>4. CASE CreateAnswers
    BY <1>4 DEF CreateAnswers, LoseBuyAck, LoseSellAck, LoseAck, CreateBuyFails,
       CreateSellFails, CreateFails, BuyCreated, SellCreated, ResendNothing, Die, BoughtUnsold
  <1>5. CASE CancelAnswers
    BY <1>5 DEF CancelAnswers, CancelFails, BuyCancelled, UnfilledSellCancelled,
       PartlySoldCancelled, CancelAnswered, Die, BoughtUnsold
  <1>6. CASE Environment \/ ClosePosition
    BY <1>6 DEF Environment, Ticker, ConfigureSell, Fill, Snapshot, Withdraw,
       ClosePosition, BoughtUnsold
  <1>7. CASE SendFilledSell
    BY <1>7 DEF SendFilledSell, BoughtUnsold
  <1> QED
    BY <1>1, <1>2, <1>3, <1>4, <1>5, <1>6, <1>7 DEF Next, Worker, Answers

\* A step saves only rows of orders the exchange accepted.
LEMMA RowsStayPlaced ==
  ASSUME TypeOK, TypeOK', IdsAgree', RowsPlaced, ExchangeMoves, Next \/ SendFilledSell
  PROVE  RowsPlaced'
  <1> SUFFICES ASSUME NEW o \in OrderIds, db'.rows[o].status # "NONE"
               PROVE  ex'[o].side # "NONE"
    BY DEF RowsPlaced
  <1>1. CASE db'.rows[o] = db.rows[o]
    BY <1>1 DEF RowsPlaced, ExchangeMoves
  <1>2. CASE SavedNow(bo', o) \/ SavedNow(so', o)
    BY <1>2 DEF SavedNow, IdsAgree, OrderIds, NoId
  <1> QED
    BY <1>1, <1>2, RowsMove DEF RowMoves

\* A buy order is not forgotten, and a position without one does not get one.
LEMMA HasBuyStays ==
  ASSUME TypeOK, HasBuyOrder, Next \/ SendFilledSell
  PROVE  HasBuyOrder'
  <1>1. CASE process_order
    <2>1. Waiting("report")
      BY <1>1 DEF process_order, Take, TakeAndSignal, BuyFilledReport, BuyPartFilledReport,
         SellFilledReport, SellPartFilledReport, StatusReport, DropFill
    <2>2. report.status \in OrderStatus /\ report.cum \in Nat /\ bo \in BuyOrder
      BY <2>1, ReportFields DEF TypeOK
    <2>3. CASE BuyFilledReport
      BY <2>2, <2>3, BookedFields DEF BuyFilledReport, HasBuyOrder, OrderStatus
    <2>4. CASE BuyPartFilledReport
      <3>1. Booked(bo, "PARTIALLY_FILLED") \in BuyOrder
            /\ Booked(bo, "PARTIALLY_FILLED").status = "PARTIALLY_FILLED"
        BY <2>2, BookedFields DEF OrderStatus
      <3> QED
        BY <2>4, <3>1 DEF BuyPartFilledReport, BuyOrder, HasBuyOrder
    <2>5. CASE StatusReport
      BY <2>2, <2>5 DEF StatusReport, Restatus, BuyOrder, HasBuyOrder, OrderStatus
    <2>6. CASE SellFilledReport \/ SellPartFilledReport \/ DropFill
      BY <2>6 DEF SellFilledReport, SellPartFilledReport, DropFill, Ignore, HasBuyOrder
    <2> QED
      BY <1>1, <2>3, <2>4, <2>5, <2>6 DEF process_order
  <1>2. CASE BuyCreated
    BY <1>2, SentFields, NextIdFree DEF BuyCreated, TypeOK, HasBuyOrder
  <1>3. CASE BuyCancelled
    BY <1>3 DEF BuyCancelled, Cancelled, TypeOK, BuyOrder, HasBuyOrder
  <1>4. CASE SendBuy
    BY <1>4 DEF SendBuy, NewBuyOrder, HasBuyOrder
  <1>5. CASE bo' = bo
    BY <1>5 DEF HasBuyOrder
  <1> QED
    BY <1>1, <1>2, <1>3, <1>4, <1>5 DEF Next, Worker, process_ticker, process_signal,
       ClosePosition, Answers, CreateAnswers, CancelAnswers, Environment, CancelUnfilledBuy,
       CancelPartlyBought, ResendBuy, SendSell, CancelUnfilledSell, CancelPartlySold,
       ResendSell, RaiseInCondition, IgnoreTick, Ignore, CloseFilledBuy, CloseFilledSell,
       RaiseOnSignal, LoseBuyAck, LoseSellAck, LoseAck, CreateBuyFails, CreateSellFails,
       CreateFails, SellCreated, ResendNothing, CancelFails, UnfilledSellCancelled,
       PartlySoldCancelled, Ticker, ConfigureSell, Fill, Snapshot, Withdraw, SendFilledSell

\* Only the fill of an order signals.
LEMMA OnlyFillsSignal ==
  ASSUME TypeOK, Next, ~ BuyFilledReport, ~ SellFilledReport
  PROVE  \/ queue' = queue \/ (queue # <<>> /\ queue' = Tail(queue))
         \/ \E e : e.kind # "signal" /\ queue' = Append(queue, e)
  <1>1. CASE Worker
    BY <1>1
    DEF Worker, process_ticker, process_order, process_signal, Take, Waiting, SendBuy,
        CancelUnfilledBuy, CancelPartlyBought, ResendBuy, SendSell, CancelUnfilledSell,
        CancelPartlySold, ResendSell, RaiseInCondition, IgnoreTick, BuyPartFilledReport,
        SellPartFilledReport, StatusReport, DropFill, CloseFilledBuy, CloseFilledSell,
        RaiseOnSignal
  <1>2. CASE Answers \/ ClosePosition
    BY <1>2
    DEF Answers, CreateAnswers, CancelAnswers, ClosePosition, LoseBuyAck, LoseSellAck,
        LoseAck, CreateBuyFails, CreateSellFails, CreateFails, BuyCreated, SellCreated,
        ResendNothing, CancelFails, BuyCancelled, UnfilledSellCancelled,
        PartlySoldCancelled, CancelAnswered
  <1>3. CASE Environment
    BY <1>3 DEF Environment, Ticker, ConfigureSell, Fill, Snapshot, Withdraw, Deliver,
       Tick, Report
  <1> QED
    BY <1>1, <1>2, <1>3 DEF Next

\* What no step does to a position without a buy order.
LEMMA NoBuySteps ==
  ASSUME TypeOK, BoughtUnsold, OnlySells, ~ HasBuyOrder, Next \/ SendFilledSell
  PROVE  /\ ~ SavesBuyRow /\ ~ BuyFilledReport /\ ~ BuyPartFilledReport /\ ~ BuyCreated
         /\ ~ LoseBuyAck /\ ~ BuyCancelled /\ ~ SendBuy /\ ~ CancelUnfilledBuy
         /\ ~ CancelPartlyBought /\ ~ ResendBuy /\ \A q : ~ ConfigureSell(q)
  <1>1. /\ sellSet /\ bo.id = NoId /\ buy = "BOUGHT" /\ bo.status = "NONE"
        /\ pc \notin BuyCreates \cup BuyCancels
        /\ \A i \in 1 .. Len(queue) : queue[i].kind = "signal" => sell # "NEW"
    BY DEF OnlySells, HasBuyOrder
  <1>2. ~ BuyFilledReport /\ ~ BuyPartFilledReport
    <2>1. ASSUME Waiting("report") PROVE report.id # bo.id
      BY <1>1, <2>1, ReportFields DEF OrderIds, NoId
    <2> QED
      BY <2>1 DEF BuyFilledReport, BuyPartFilledReport, Take, TakeAndSignal
  <1>3. ~ BuyCreated /\ ~ LoseBuyAck /\ ~ BuyCancelled
    BY <1>1 DEF BuyCreated, LoseBuyAck, AwaitsCreateBuy, BuyCancelled
  <1>4. ~ CloseFilledBuy
    <2> SUFFICES ASSUME CloseFilledBuy PROVE FALSE
      OBVIOUS
    <2>1. state = "BOUGHT" /\ queue # <<>> /\ Head(queue).kind = "signal"
      BY <1>1 DEF CloseFilledBuy, Take, Waiting
    <2>2. 1 \in 1 .. Len(queue) /\ queue[1] = Head(queue)
      BY <2>1 DEF TypeOK
    <2>3. sell # "NEW"
      BY <1>1, <2>1, <2>2
    <2> QED
      BY <2>1, <2>3 DEF BoughtUnsold
  <1>5. ~ SendBuy /\ ~ CancelUnfilledBuy /\ ~ CancelPartlyBought /\ ~ ResendBuy
    BY <1>1 DEF SendBuy, CanSendBuy, CancelUnfilledBuy, CanCancelUnfilledBuy,
       CancelPartlyBought, CanCancelPartlyBought, ResendBuy, CanResendBuy, CanResumeBuying
  <1>6. \A q : ~ ConfigureSell(q)
    BY <1>1 DEF ConfigureSell
  <1> QED
    BY <1>2, <1>3, <1>4, <1>5, <1>6 DEF SavesBuyRow

\* Without a buy order, the buy side and its row stay as they are.
LEMMA NoBuyChanges ==
  ASSUME TypeOK, BoughtUnsold, OnlySells, ~ HasBuyOrder, Next \/ SendFilledSell
  PROVE  /\ sellSet' /\ bo'.id = NoId /\ buy' = "BOUGHT"
         /\ pc' \notin BuyCreates \cup BuyCancels
         /\ sell' = "NEW" => sell = "NEW"
  <1>0. /\ sellSet /\ bo.id = NoId /\ buy = "BOUGHT" /\ bo.status = "NONE"
        /\ pc \notin BuyCreates \cup BuyCancels
    BY DEF OnlySells, HasBuyOrder
  <1> USE <1>0, NoBuySteps DEF BuyCreates, BuyCancels
  <1>1. CASE process_ticker
    BY <1>1 DEF process_ticker, SendSell, CancelUnfilledSell, CancelPartlySold, ResendSell,
       RaiseInCondition, IgnoreTick, Enter, Ignore, Die
  <1>2. CASE process_order
    <2>1. CASE StatusReport
      BY <2>1 DEF StatusReport, Restatus, TypeOK, BuyOrder
    <2>2. CASE SellFilledReport \/ SellPartFilledReport \/ DropFill
      BY <2>2 DEF SellFilledReport, SellPartFilledReport, DropFill, Ignore
    <2> QED
      BY <1>2, <2>1, <2>2 DEF process_order
  <1>3. CASE process_signal
    BY <1>3 DEF process_signal, CloseFilledBuy, CloseFilledSell, RaiseOnSignal, Die
  <1>4. CASE CreateAnswers
    BY <1>4 DEF CreateAnswers, LoseSellAck, LoseAck, CreateBuyFails, CreateSellFails,
       CreateFails, SellCreated, ResendNothing, Die
  <1>5. CASE CancelAnswers
    BY <1>5 DEF CancelAnswers, CancelFails, UnfilledSellCancelled, PartlySoldCancelled,
       CancelAnswered, Die
  <1>6. CASE Environment
    BY <1>6 DEF Environment, Ticker, Fill, Snapshot, Withdraw
  <1>7. CASE ClosePosition \/ SendFilledSell
    BY <1>7 DEF ClosePosition, SendFilledSell
  <1> QED
    BY <1>1, <1>2, <1>3, <1>4, <1>5, <1>6, <1>7 DEF Next, Worker, Answers

\* A position that only sells stays one.
LEMMA OnlySellsStays ==
  ASSUME TypeOK, BoughtUnsold, OnlySells, UpStep
  PROVE  OnlySells'
  <1> SUFFICES ASSUME ~ HasBuyOrder'
               PROVE  /\ sellSet' /\ pos'.type = "SELL" /\ bo'.id = NoId /\ buy' = "BOUGHT"
                      /\ pc' \notin BuyCreates \cup BuyCancels
                      /\ \A i \in 1 .. Len(queue') :
                            queue'[i].kind = "signal" => sell' # "NEW"
    BY DEF OnlySells
  <1>1. Next \/ SendFilledSell
    BY UpSteps
  <1>2. ~ HasBuyOrder
    BY <1>1, HasBuyStays
  <1>3. pos'.type = "SELL"
    BY <1>1, <1>2, NoBuySteps DEF UpStep, StepSavingBuy, StepSavingSell, StepSavingNone,
       Complete, SellRow, OnlySells
  <1>4. ASSUME sell' = "NEW", NEW i \in 1 .. Len(queue') PROVE queue'[i].kind # "signal"
    <2>1. sell = "NEW" /\ queue \in Seq(Event)
      BY <1>1, <1>2, <1>4, NoBuyChanges DEF TypeOK
    <2>2. \A j \in 1 .. Len(queue) : queue[j].kind # "signal"
      BY <1>2, <2>1 DEF OnlySells
    <2>3. Next /\ ~ BuyFilledReport /\ ~ SellFilledReport
      BY <1>1, <1>2, <1>4, NoBuySteps DEF SellFilledReport, SendFilledSell
    <2>4. CASE queue' = queue \/ (queue # <<>> /\ queue' = Tail(queue))
      BY <2>1, <2>2, <2>4
    <2>5. ASSUME NEW e, e.kind # "signal", queue' = Append(queue, e)
          PROVE  queue'[i].kind # "signal"
      BY <2>1, <2>2, <2>5
    <2> QED
      BY <2>3, <2>4, <2>5, OnlyFillsSignal
  <1> QED
    BY <1>1, <1>2, <1>3, <1>4, NoBuyChanges

\* A position that has nothing to sell sends nothing, until its buy is sent.
LEMMA NothingStaysSent ==
  ASSUME TypeOK, NothingSent, Next \/ SendFilledSell, ~ BuyCreated
  PROVE  NothingSent'
  <1> USE DEF NothingSent
  <1>1. CASE process_ticker
    <2>1. CASE SendSell
      <3>1. SellQuantity = 0
        BY DEF SellQuantity
      <3> QED
        BY <2>1, <3>1 DEF SendSell, TypeOK, SellOrder
    <2>2. CASE SendBuy
      BY <2>2 DEF SendBuy, NewBuyOrder
    <2> QED
      BY <1>1, <2>1, <2>2 DEF process_ticker, CancelUnfilledBuy, CancelPartlyBought,
         ResendBuy, CancelUnfilledSell, CancelPartlySold, ResendSell, RaiseInCondition,
         IgnoreTick, Ignore
  <1>2. CASE process_order
    <2>1. Waiting("report")
      BY <1>2 DEF process_order, Take, TakeAndSignal, BuyFilledReport, BuyPartFilledReport,
         SellFilledReport, SellPartFilledReport, StatusReport, DropFill
    <2>2. report.id # NoId
      BY <2>1, ReportFields DEF OrderIds, NoId
    <2>3. bo' = bo /\ so' = so
      BY <1>2, <2>2 DEF process_order, BuyFilledReport, BuyPartFilledReport,
         SellFilledReport, SellPartFilledReport, StatusReport, Restatus, DropFill, Ignore
    <2> QED
      BY <2>3
  <1>3. CASE process_signal \/ ClosePosition
    BY <1>3 DEF process_signal, CloseFilledBuy, CloseFilledSell, RaiseOnSignal, ClosePosition
  <1>4. CASE CreateAnswers
    <2>1. ~ SellCreated
      BY DEF SellCreated, OpenSell
    <2> QED
      BY <1>4, <2>1 DEF CreateAnswers, LoseBuyAck, LoseSellAck, LoseAck, CreateBuyFails,
         CreateSellFails, CreateFails, ResendNothing
  <1>5. CASE CancelAnswers
    BY <1>5 DEF CancelAnswers, CancelFails, BuyCancelled, UnfilledSellCancelled,
       PartlySoldCancelled, Cancelled, Cancellable
  <1>6. CASE Environment
    BY <1>6 DEF Environment, Ticker, ConfigureSell, NewSellOrder, Fill, Snapshot, Withdraw
  <1>7. CASE SendFilledSell
    BY <1>7 DEF SendFilledSell
  <1> QED
    BY <1>1, <1>2, <1>3, <1>4, <1>5, <1>6, <1>7 DEF Next, Worker, Answers

\* A position that never bought buys only with a buy order.
LEMMA NoBuyStaysAbsent ==
  ASSUME TypeOK, BoughtUnsold, OnlySells, ~ HasBuyOrder, BuyIds = {}, Next \/ SendFilledSell
  PROVE  BuyIds' = {}
  <1> SUFFICES ASSUME NEW o \in OrderIds, ex'[o].side = "BUY" PROVE FALSE
    BY DEF BuyIds
  <1>1. ex[o].side # "BUY"
    BY DEF BuyIds
  <1>2. ~ BuyCreated /\ ~ LoseBuyAck
    BY NoBuySteps
  <1>3. CASE CreateAnswers
    <2>1. CASE SellCreated \/ LoseSellAck
      <3>1. ex' = Placed("SELL", OpenSell) /\ FreeIds # {}
        BY <2>1 DEF SellCreated, LoseSellAck, LoseAck
      <3> QED
        BY <1>1, <3>1, NextIdFree DEF Placed, TypeOK
    <2> QED
      BY <1>1, <1>2, <1>3, <2>1 DEF CreateAnswers, CreateBuyFails, CreateSellFails,
         CreateFails, ResendNothing
  <1>4. CASE ~ CreateAnswers
    BY <1>1, <1>4, WorkerLeavesExchange, OthersOpenNothing
    DEF Next, Answers, NothingOpens, SendFilledSell
  <1> QED
    BY <1>3, <1>4

\* The saved orders of a side stay saved.
LEMMA SavedStays ==
  ASSUME TypeOK, TypeOK', RowsPlaced, ExchangeMoves, Next \/ SendFilledSell, NEW side,
         NEW o \in Saved(side)
  PROVE  o \in Saved(side)'
  <1>1. ex'[o].side = ex[o].side
    BY DEF Saved, RowsPlaced, ExchangeMoves
  <1>2. db'.rows[o].status # "NONE"
    BY RowsMove DEF Saved, RowMoves, SavedNow
  <1> QED
    BY <1>1, <1>2 DEF Saved

\* Who bought nothing had nothing before either.
LEMMA NothingBefore ==
  ASSUME CInv, UpStep, TypeOK', ExchangeMoves, Saved("BUY") = {}
  PROVE  \/ told = 0 /\ pos.qty = 0 /\ Saved("SELL") = {} /\ NothingSent
         \/ ~ HasBuyOrder' /\ BuyIds' = {}
  <1>1. /\ TypeOK /\ BoughtUnsold /\ OnlySells /\ NothingBought
        /\ (Next \/ SendFilledSell)
    BY UpSteps DEF CInv, RInv, IInv
  <1>2. CASE HasBuyOrder \/ BuyIds # {}
    BY <1>1, <1>2 DEF NothingBought
  <1>3. CASE ~ HasBuyOrder /\ BuyIds = {}
    <2>1. bo' = bo
      <3>1. bo.id = NoId
        BY <1>1, <1>3 DEF OnlySells
      <3>2. ASSUME StatusReport PROVE bo' = bo
        <4>1. report.id # NoId
          BY <1>1, <3>2, ReportFields DEF StatusReport, Take, OrderIds, NoId
        <4> QED
          BY <3>1, <3>2, <4>1 DEF StatusReport, Restatus
      <3> QED
        BY <1>1, <1>3, <3>2, NoBuySteps DEF Next, Worker, process_ticker, process_order,
           process_signal, ClosePosition, Answers, CreateAnswers, CancelAnswers,
           Environment, SendSell, CancelUnfilledSell, CancelPartlySold, ResendSell,
           RaiseInCondition, IgnoreTick, Ignore, SellFilledReport, SellPartFilledReport,
           DropFill, CloseFilledBuy, CloseFilledSell, RaiseOnSignal, LoseSellAck, LoseAck,
           CreateBuyFails, CreateSellFails, CreateFails, SellCreated, ResendNothing,
           CancelFails, UnfilledSellCancelled, PartlySoldCancelled, Ticker, Fill, Snapshot,
           Withdraw, SendFilledSell
    <2> QED
      BY <1>1, <1>3, <2>1, NoBuyStaysAbsent DEF HasBuyOrder
  <1> QED
    BY <1>2, <1>3

\* Until its first buy order is saved, a position has nothing to sell or report.
LEMMA NothingStaysBought ==
  ASSUME CInv, UpStep, TypeOK', IdsAgree', ExchangeMoves
  PROVE  NothingBought'
  <1> SUFFICES ASSUME HasBuyOrder' \/ BuyIds' # {}, Saved("BUY")' = {}
               PROVE  told' = 0 /\ pos'.qty = 0 /\ Saved("SELL")' = {} /\ NothingSent'
    BY DEF NothingBought
  <1>1. /\ TypeOK /\ IdsAgree /\ RowsPlaced /\ (Next \/ SendFilledSell)
    BY UpSteps DEF CInv, RInv, IInv, KeepsTrack
  <1>2. Saved("BUY") = {}
    BY <1>1, SavedStays
  <1>3. told = 0 /\ pos.qty = 0 /\ Saved("SELL") = {} /\ NothingSent
    BY <1>2, NothingBefore
  <1>4. ~ BuyCreated
    <2> SUFFICES ASSUME BuyCreated PROVE FALSE
      OBVIOUS
    <2>1. NextId \in OrderIds /\ ex[NextId].side = "NONE" /\ lostAck' = lostAck
      BY NextIdFree DEF BuyCreated
    <2>2. ex'[NextId].side = "BUY"
      BY <1>1, <2>1 DEF BuyCreated, Placed, TypeOK
    <2>3. NextId \notin lostAck'
      BY <1>1, <2>1 DEF IdsAgree
    <2>4. \A o \in OrderIds : ex[o].side = "NONE" /\ ex'[o].side # "NONE" =>
                                 o \in lostAck' \/ db'.rows[o].status # "NONE"
      BY <1>1, NewIsSaved
    <2>5. db'.rows[NextId].status # "NONE"
      BY <2>1, <2>2, <2>3, <2>4
    <2> QED
      BY <2>1, <2>2, <2>5 DEF Saved
  <1>5. NothingSent'
    BY <1>1, <1>3, <1>4, NothingStaysSent
  <1>6. Saved("SELL")' = {}
    <2> SUFFICES ASSUME NEW o \in OrderIds, db'.rows[o].status # "NONE", ex'[o].side = "SELL"
                 PROVE  FALSE
      BY DEF Saved
    <2>1. ~ SavedNow(bo', o) /\ ~ SavedNow(so', o)
      BY <1>5 DEF SavedNow, NothingSent, OrderIds, NoId
    <2>2. db'.rows[o] = db.rows[o]
      BY <1>1, <2>1, RowsMove DEF RowMoves
    <2>3. ex[o].side = "SELL"
      BY <1>1, <2>2 DEF RowsPlaced, ExchangeMoves
    <2> QED
      BY <1>3, <2>2, <2>3 DEF Saved
  <1>7. ~ Complete
    BY <1>3 DEF Complete, CloseFilledSell, NothingSent
  <1>8. pos' \in {pos, BuyRow, SellRow(so')} /\ told' = told
    BY <1>7 DEF UpStep, StepSavingBuy, StepSavingSell, StepSavingNone
  <1> QED
    BY <1>3, <1>5, <1>6, <1>8 DEF BuyRow, SellRow, NothingSent

\* No ticker, report, signal or user leads out of SOLD.
LEMMA SoldStays ==
  ASSUME TypeOK, SellAtRest, state = "SOLD", pc \in {"idle", "dead"}, UpStep
  PROVE  /\ state' = "SOLD" /\ pc' \in {"idle", "dead"}
         /\ told' = told /\ pos' = pos /\ db'.strategy = db.strategy
  <1>1. Next \/ SendFilledSell
    BY UpSteps
  <1>2. \A q : ~ ConfigureSell(q)
    BY DEF ConfigureSell, SellAtRest, Bought
  <1>3. ~ CreateAnswers /\ ~ CancelAnswers /\ ~ SendFilledSell
    BY DEF CreateAnswers, CancelAnswers, SendFilledSell, LoseBuyAck, CreateBuyFails,
       BuyCreated, LoseSellAck, CreateSellFails, SellCreated, ResendNothing,
       AwaitsCreateBuy, AwaitsCreateSell, CancelFails, AwaitsCancel, BuyCancelled,
       UnfilledSellCancelled, PartlySoldCancelled, BuyCreates, SellCreates, BuyCancels,
       SellCancels
  <1>4. ~ CloseFilledBuy /\ ~ CloseFilledSell /\ ~ BuyFilledReport /\ ~ BuyPartFilledReport
        /\ ~ SellFilledReport /\ ~ SellPartFilledReport
    BY DEF CloseFilledBuy, CloseFilledSell, BuyFilledReport, BuyPartFilledReport,
       SellFilledReport, SellPartFilledReport
  <1>5. StepSavingNone
    BY <1>2, <1>3, <1>4 DEF UpStep, StepSavingBuy, StepSavingSell, Complete, SavesBuyRow,
       SavesSellRow, CreateAnswers, CancelAnswers
  <1>6. told' = told /\ pos' = pos
    BY <1>5 DEF StepSavingNone
  <1>7. CASE process_ticker
    <2>1. db' = db
      BY <1>7 DEF process_ticker, SendBuy, CancelUnfilledBuy, CancelPartlyBought, ResendBuy,
         SendSell, CancelUnfilledSell, CancelPartlySold, ResendSell, RaiseInCondition,
         IgnoreTick, Enter, Ignore
    <2> QED
      BY <1>6, <1>7, <2>1, SoldIgnoresTickers
  <1>8. CASE process_order
    BY <1>4, <1>6, <1>8 DEF process_order, StatusReport, DropFill, Ignore
  <1>9. CASE process_signal
    BY <1>4, <1>6, <1>9 DEF process_signal, RaiseOnSignal, Die
  <1>10. CASE Environment
    BY <1>2, <1>6, <1>10 DEF Environment, Ticker, Fill, Snapshot, Withdraw
  <1>11. CASE ClosePosition
    BY <1>6, <1>11 DEF ClosePosition
  <1> QED
    BY <1>1, <1>3, <1>7, <1>8, <1>9, <1>10, <1>11 DEF Next, Worker, Answers

\* A reported position that bought its coins is saved as SOLD and stays so.
LEMMA SoldStaysForGood ==
  ASSUME CInv, UpStep, TypeOK', ExchangeMoves
  PROVE  SoldForGood'
  <1> SUFFICES ASSUME Saved("BUY")' # {}
               PROVE  \/ told' = 0
                      \/ /\ told' = 1 /\ db'.strategy = "SOLD" /\ pos'.type = "SELL"
                         /\ phase' = "up" => state' = "SOLD" /\ pc' \in {"idle", "dead"}
    BY DEF SoldForGood
  <1>1. TypeOK /\ SellAtRest /\ SoldForGood /\ phase = "up"
    BY UpSteps DEF CInv, RInv, IInv
  <1>2. CASE Saved("BUY") = {}
    <2>1. BuyIds' # {}
      BY DEF Saved, BuyIds
    <2>2. told = 0 /\ NothingSent
      BY <1>2, <2>1, NothingBefore
    <2>3. ~ Complete
      BY <2>2 DEF Complete, CloseFilledSell, NothingSent
    <2> QED
      BY <2>2, <2>3 DEF UpStep, StepSavingBuy, StepSavingSell, StepSavingNone
  <1>3. CASE told = 0 /\ Complete
    <2>1. state' = "SOLD" /\ pc' = "idle" /\ db'.strategy = "SOLD"
      BY <1>3 DEF Complete, CloseFilledSell, Take, Waiting, Running, SavePosition
    <2> QED
      BY <1>3, <2>1 DEF Complete, SellRow
  <1>4. CASE told = 0 /\ ~ Complete
    BY <1>4 DEF UpStep, StepSavingBuy, StepSavingSell, StepSavingNone
  <1>5. CASE Saved("BUY") # {} /\ told # 0
    <2>1. /\ told = 1 /\ db.strategy = "SOLD" /\ pos.type = "SELL"
          /\ state = "SOLD" /\ pc \in {"idle", "dead"}
      BY <1>1, <1>5 DEF SoldForGood
    <2> QED
      BY <1>1, <2>1, SoldStays
  <1> QED
    BY <1>2, <1>3, <1>4, <1>5

\* A crash places no order of a side that was not being sent, and saves the row
\* of an order the position held.
LEMMA CrashPlacesAwaited ==
  ASSUME TypeOK, IdsAgree, Crash, NEW o \in OrderIds, ex'[o].side # ex[o].side
  PROVE  /\ ex'[o].side = "BUY" => pc \in BuyCreates
         /\ ex'[o].side = "SELL" => pc \in SellCreates /\ OpenSell > 0
  <1>1. LosesAnswer
    BY DEF Crash
  <1>2. ASSUME NEW side, NEW qty, FreeIds # {}, ex' = Placed(side, qty)
        PROVE  ex'[o].side = side
    BY <1>2, NextIdFree DEF Placed, TypeOK
  <1>3. ~ (Cancellable(Order) /\ ex' = Closed(Order.id))
    <2> SUFFICES ASSUME Cancellable(Order), ex' = Closed(Order.id) PROVE FALSE
      OBVIOUS
    <2>1. Order.id \in OrderIds
      BY DEF TypeOK, Cancellable, Order, BuyOrder, SellOrder
    <2> QED
      BY <2>1, ClosedType
  <1> QED
    BY <1>1, <1>2, <1>3 DEF LosesAnswer, AwaitsCreateBuy, AwaitsCreateSell

\* A row found after a crash is of a placed order, saved before or in hand.
LEMMA CrashKeepsRows ==
  ASSUME CInv, Crash, RInv', NEW o \in OrderIds, db'.rows[o].status # "NONE"
  PROVE  /\ ex'[o].side = ex[o].side /\ ex[o].side # "NONE"
         /\ db.rows[o].status # "NONE" \/ o \in {bo.id, so.id}
  <1>1. TypeOK /\ IdsAgree /\ RowsPlaced
    BY DEF CInv, RInv, IInv, KeepsTrack
  <1>2. CrashedExchange
    BY <1>1, CrashLeavesExchange
  <1>3. db.rows[o].status # "NONE" \/ FillSaved(o)
    <2>1. ASSUME NEW p \in OrderIds, FillSaved(p) PROVE p = o \/ db'.rows[o] = db.rows[o]
      BY <2>1 DEF FillSaved
    <2> QED
      BY <1>1, <2>1, CrashLeavesRows
  <1>4. CASE db.rows[o].status # "NONE"
    BY <1>1, <1>2, <1>4 DEF RowsPlaced, CrashedExchange, UsedIdsKept
  <1>5. CASE FillSaved(o)
    <2>1. ex'[o].side # "NONE"
      BY <1>5 DEF FillSaved, RInv, RowsDone
    <2> QED
      BY <1>5, <2>1 DEF FillSaved
  <1> QED
    BY <1>3, <1>4, <1>5

\* A crash keeps what makes a report the only one.
LEMMA CrashKeepsReported ==
  ASSUME CInv, Crash, RInv'
  PROVE  CInv'
  <1>1. /\ TypeOK /\ IdsAgree /\ RowsPlaced /\ BoughtUnsold /\ OnlySells /\ NothingBought
        /\ SoldForGood
    BY DEF CInv, RInv, IInv, KeepsTrack
  <1>2. /\ state' = state /\ buy' = buy /\ sell' = sell /\ bo' = bo /\ so' = so
        /\ sellSet' = sellSet /\ pos' = pos /\ told' = told /\ pc' = "dead"
        /\ queue' = <<>> /\ phase' = "down"
    BY DEF Crash
  <1>3. CrashedExchange /\ db'.strategy = db.strategy
    BY <1>1, CrashLeavesExchange, CrashLeavesRows
  <1>4. \A side \in {"BUY", "SELL"} : Saved(side) \subseteq Saved(side)'
    <2> SUFFICES ASSUME NEW o \in OrderIds, db.rows[o].status # "NONE"
                 PROVE  ex'[o].side = ex[o].side /\ db'.rows[o].status # "NONE"
      BY DEF Saved
    <2>1. ex'[o].side = ex[o].side
      BY <1>1, <1>3 DEF RowsPlaced, CrashedExchange, UsedIdsKept
    <2>2. ASSUME NEW p \in OrderIds, FillSaved(p)
          PROVE  db'.rows[o] = db.rows[o] \/ db'.rows[o].status = "FILLED"
      BY <2>2 DEF FillSaved
    <2> QED
      BY <1>1, <2>1, <2>2, CrashLeavesRows
  <1>5. RowsPlaced'
    BY CrashKeepsRows DEF RowsPlaced
  <1>6. BoughtUnsold' /\ OnlySells'
    BY <1>1, <1>2 DEF BoughtUnsold, OnlySells, HasBuyOrder, BuyCreates, BuyCancels
  <1>7. BuyIds' # {} => HasBuyOrder \/ BuyIds # {}
    <2> SUFFICES ASSUME NEW o \in OrderIds, ex'[o].side = "BUY", ex[o].side # "BUY"
                 PROVE  HasBuyOrder
      BY DEF BuyIds
    <2>1. pc \in BuyCreates
      BY <1>1, CrashPlacesAwaited
    <2> QED
      BY <1>1, <2>1 DEF OnlySells
  \* With nothing sent there is no report whose row a crash could leave.
  <1>8. ASSUME NothingSent, NEW side \in {"BUY", "SELL"} PROVE Saved(side)' = Saved(side)
    <2>1. ASSUME NEW o \in Saved(side)' PROVE o \in Saved(side)
      <3>1. o \in OrderIds /\ db'.rows[o].status # "NONE" /\ ex'[o].side = side
        BY <2>1 DEF Saved
      <3> QED
        BY <1>8, <3>1, CrashKeepsRows DEF NothingSent, Saved, OrderIds, NoId
    <2> QED
      BY <1>4, <2>1
  <1>9. NothingBought'
    <2> SUFFICES ASSUME HasBuyOrder' \/ BuyIds' # {}, Saved("BUY")' = {}
                 PROVE  told' = 0 /\ pos'.qty = 0 /\ Saved("SELL")' = {} /\ NothingSent'
      BY DEF NothingBought
    <2>1. Saved("BUY") = {} /\ (HasBuyOrder \/ BuyIds # {})
      BY <1>2, <1>4, <1>7 DEF HasBuyOrder
    <2>2. told = 0 /\ pos.qty = 0 /\ Saved("SELL") = {} /\ NothingSent
      BY <1>1, <2>1 DEF NothingBought
    <2> QED
      BY <1>2, <1>8, <2>2 DEF NothingSent
  <1>10. SoldForGood'
    <2>1. CASE Saved("BUY") # {}
      BY <1>1, <1>2, <1>3, <2>1 DEF SoldForGood
    <2>2. CASE Saved("BUY") = {} /\ Saved("BUY")' # {}
      <3>1. PICK o \in OrderIds : db'.rows[o].status # "NONE" /\ ex'[o].side = "BUY"
        BY <2>2 DEF Saved
      <3>2. BuyIds # {}
        BY <3>1, CrashKeepsRows DEF BuyIds
      <3> QED
        BY <1>1, <1>2, <2>2, <3>2 DEF NothingBought, SoldForGood
    <2> QED
      BY <2>1, <2>2 DEF SoldForGood
  <1> QED
    BY <1>5, <1>6, <1>9, <1>10 DEF CInv

\* Steps that change neither the rows nor the sides of orders, nor the strategy.
LEMMA OthersKeepReported ==
  ASSUME CInv, RInv', \A o \in OrderIds : ex'[o].side = ex[o].side, db' = db,
         UNCHANGED <<state, buy, sell, bo, so, sellSet, queue, pc, pos, told>>,
         phase' = "up" => phase = "up"
  PROVE  CInv'
  <1>1. Saved("BUY")' = Saved("BUY") /\ Saved("SELL")' = Saved("SELL") /\ BuyIds' = BuyIds
    BY DEF Saved, BuyIds
  <1> QED
    BY <1>1 DEF CInv, RowsPlaced, BoughtUnsold, OnlySells, HasBuyOrder, NothingBought,
       NothingSent, SoldForGood

\* So does a restart: what was reported is restored as SOLD, or not at all.
LEMMA RestartKeepsReported ==
  ASSUME CInv, Restart, RInv'
  PROVE  CInv'
  <1>1. /\ RowsPlaced /\ OnlySells /\ NothingBought /\ SoldForGood /\ OffIsDead
        /\ SavedBuys = Saved("BUY") /\ SavedSells = Saved("SELL")
    BY DEF CInv, RInv, SavedBuys, SavedSells
  <1>2. CASE RecoveryFails
    BY <1>2, OthersKeepReported DEF RecoveryFails, vars
  <1>3. ASSUME NewStrategy, db'.rows = db.rows
        PROVE  /\ Saved("BUY")' = Saved("BUY") /\ Saved("SELL")' = Saved("SELL")
               /\ BuyIds' = BuyIds /\ RowsPlaced' /\ BoughtUnsold'
               /\ told' = told /\ pc' = "idle" /\ queue' = <<>> /\ phase' = "up"
    BY <1>1, <1>3 DEF NewStrategy, Saved, BuyIds, RowsPlaced, BoughtUnsold, OffIsDead
  <1>4. NewSellOrder(0).id = NoId /\ NewSellOrder(0).status # "FILLED"
        /\ NewSellOrder(0).qty = 0 /\ NewSellOrder(0).real = 0
    BY DEF NewSellOrder
  <1>5. CASE restore_buy_position
    <2>1. /\ NewStrategy /\ pos.type = "BUY" /\ db' = db /\ pos' = BuyRow
          /\ bo' = restore_buy_orders /\ Verified
      BY <1>5 DEF restore_buy_position, NewStrategy
    <2>2. HasBuyOrder /\ HasBuyOrder'
      <3>1. bo'.status # "NONE"
        <4>1. CASE SavedBuys = {}
          BY <2>1, <4>1 DEF restore_buy_orders, NewBuyOrder
        <4>2. CASE SavedBuys # {}
          BY <1>1, <2>1, <4>2, RestoredBuyFilled DEF CInv
        <4> QED
          BY <4>1, <4>2
      <3> QED
        BY <1>1, <2>1, <3>1 DEF OnlySells, HasBuyOrder
    <2>3. NothingBought'
      <3> SUFFICES ASSUME Saved("BUY") = {}
                   PROVE  told' = 0 /\ pos'.qty = 0 /\ Saved("SELL")' = {} /\ NothingSent'
        BY <1>3, <2>1 DEF NothingBought
      <3>1. told = 0 /\ Saved("SELL") = {}
        BY <1>1, <2>2 DEF NothingBought
      <3>2. bo' = NewBuyOrder /\ so' = NewSellOrder(0)
        BY <1>1, <1>5, <2>1, <3>1 DEF restore_buy_position, restore_buy_orders
      <3> QED
        BY <1>3, <1>4, <2>1, <3>1, <3>2 DEF NothingSent, NewBuyOrder, BuyRow
    <2>4. SoldForGood'
      BY <1>1, <1>3, <2>1 DEF SoldForGood
    <2> QED
      BY <1>3, <2>1, <2>2, <2>3, <2>4 DEF CInv, OnlySells
  <1>6. CASE restore_sell_position
    <2>1. /\ NewStrategy /\ pos.type = "SELL" /\ sellSet' = TRUE /\ Verified
          /\ pos' = [type |-> "SELL", qty |-> VerifiedQuantity] /\ state' = RestoredState
          /\ db' = [rows |-> db.rows, strategy |-> state']
          /\ bo' = IF SavedBuys = {} THEN NoBuyOrder ELSE restore_buy_orders
      BY <1>6 DEF restore_sell_position, NewStrategy, SavePosition
    <2>2. Saved("BUY") # {} => HasBuyOrder'
      BY <1>1, <2>1, RestoredBuyFilled DEF CInv, HasBuyOrder
    <2>3. Saved("BUY") = {} => bo' = NoBuyOrder /\ buy' = "BOUGHT"
      BY <1>1, <1>6, <2>1 DEF restore_sell_position
    <2>4. OnlySells'
      BY <1>3, <2>1, <2>2, <2>3 DEF OnlySells, NoBuyOrder, BuyCreates, BuyCancels
    <2>5. NothingBought'
      <3> SUFFICES ASSUME Saved("BUY") = {}, HasBuyOrder' \/ BuyIds # {}
                   PROVE  told' = 0 /\ pos'.qty = 0 /\ Saved("SELL")' = {} /\ NothingSent'
        BY <1>3, <2>1 DEF NothingBought
      <3>1. BuyIds # {}
        BY <2>3 DEF HasBuyOrder, NoBuyOrder
      <3>2. told = 0 /\ pos.qty = 0 /\ Saved("SELL") = {}
        BY <1>1, <3>1 DEF NothingBought
      <3>3. VerifiedQuantity = 0
        <4>1. Saved("BUY") \cup Saved("SELL") = {}
          BY <3>2
        <4> QED
          BY <3>2, <4>1 DEF VerifiedQuantity
      <3>4. so' = NewSellOrder(0)
        BY <1>1, <1>6, <3>2, <3>3 DEF restore_sell_position
      <3> QED
        BY <1>3, <1>4, <2>1, <2>3, <3>2, <3>3, <3>4 DEF NothingSent, NoBuyOrder
    <2>6. SoldForGood'
      <3> SUFFICES ASSUME Saved("BUY") # {}, told # 0
                   PROVE  /\ told' = 1 /\ db'.strategy = "SOLD" /\ pos'.type = "SELL"
                          /\ state' = "SOLD" /\ pc' = "idle"
        BY <1>3, <2>1 DEF SoldForGood
      <3>1. told = 1 /\ db.strategy = "SOLD"
        BY <1>1 DEF SoldForGood
      <3> QED
        BY <1>1, <1>3, <2>1, <3>1 DEF RestoredState
    <2> QED
      BY <1>3, <2>1, <2>4, <2>5, <2>6 DEF CInv
  <1> QED
    BY <1>2, <1>5, <1>6 DEF Restart

(***************************************************************************)
(* The theorems                                                            *)
(***************************************************************************)

\* Both invariants hold at the start, and every step keeps them.
LEMMA RestartInit == RInit => RInv
  <1> SUFFICES ASSUME RInit PROVE RInv
    OBVIOUS
  <1>1. IInv /\ NoSellUnlessSet /\ FillsBooked
    BY TrackingInit, FillsBookedInit DEF RInit
  <1>2. RTypes
    BY <1>1, RestartAssumption DEF RInit, RTypes, IInv, TypeOK, SellOrder, BuyRow, SellRow
  <1>3. RowsDone /\ KnownSaved /\ BuyRowBought
    BY DEF RInit, Init, CommonInit, InitBuy, InitInventorySell, NoRow, Unplaced, RowsDone,
       KnownSaved, Known, BuyRowBought, Bought, HasBuyOrder, NoBuyOrder, SellRow
  <1>4. SellAtRest /\ OffIsDead
    BY DEF RInit, Init, CommonInit, InitBuy, InitInventorySell, NewSellOrder, SellAtRest,
       OffIsDead, SellCreates, SellCancels, Bought
  <1> QED
    BY <1>1, <1>2, <1>3, <1>4 DEF RInv

LEMMA RestartStep == RInv /\ [RNext]_rvars => RInv'
  <1> SUFFICES ASSUME RInv, [RNext]_rvars PROVE RInv'
    OBVIOUS
  <1>1. CASE UpStep
    BY <1>1, UpStepKeeps
  <1>2. CASE Crash
    BY <1>2, CrashKeeps
  <1>3. CASE Restart
    BY <1>3, RestartKeeps
  <1>4. ASSUME NEW o \in OrderIds, NEW n \in 1 .. Quantity, FillUnseen(o, n) PROVE RInv'
    BY <1>4, UnseenKeeps
  <1>5. CASE UNCHANGED rvars
    <2>1. UNCHANGED vars /\ UNCHANGED <<pos, phase, restarts, told>>
      BY <1>5 DEF rvars
    <2>2. TypeOK'
      BY <2>1, TypeStep DEF RInv, IInv
    <2>3. OneWorkingOrder' /\ KeepsTrack'
      BY <2>1 DEF RInv, vars, IInv, KeepsTrack, OneWorkingOrder, LiveKnown, Tracked, BuyWorks,
         SellWorks, Open, ReportsTrue, ReportTrue, IdsAgree
    <2>4. FillsBooked'
      BY <2>1 DEF RInv, vars, FillsBooked, ReportsSound, Sound, ReportsOrdered, BooksSound,
         Settled, Done, Unreported, Open
    <2>5. RTypes' /\ RowsDone' /\ KnownSaved'
      BY <2>1 DEF RInv, vars, RTypes, RowsDone, Done, Unreported, KnownSaved, Known
    <2>6. SellAtRest' /\ BuyRowBought' /\ OffIsDead'
      BY <2>1 DEF RInv, vars, SellAtRest, BuyRowBought, OffIsDead
    <2> QED
      BY <2>2, <2>3, <2>4, <2>5, <2>6 DEF RInv, IInv
  <1> QED
    BY <1>1, <1>2, <1>3, <1>4, <1>5 DEF RNext, UpStep

\* RestartTypeOK of HpRecovery: after every crash and restart the strategy is in
\* a state of the state machine, with orders of the exchange, whatever the rows
\* said (the restore functions of hp_manager.py and recovery.py).
THEOREM RestartTypes == RSpec => []RestartTypeOK
  <1>1. RInv => RestartTypeOK
    BY DEF RInv, IInv, RTypes, RestartTypeOK
  <1> QED
    BY <1>1, RestartInit, RestartStep, PTL DEF RSpec

\* OneWorkingOrder of HpManager through crashes: a restored position never sends
\* an order while one it knows of works.
THEOREM OneOrderWorksThroughCrashes == RSpec => []OneWorkingOrder
  <1>1. RInv => OneWorkingOrder
    BY DEF RInv, IInv
  <1> QED
    BY <1>1, RestartInit, RestartStep, PTL DEF RSpec

\* RestoredIsComplete of HpRecovery: a position is brought back only when every
\* order whose id it ever got is closed and booked to the last coin.
THEOREM RestoresAreComplete == RSpec => RestoredIsComplete
  <1>1. ASSUME RInv, [RNext]_rvars
        PROVE  [phase = "down" /\ phase' = "up" => AllBooked]_rvars
    <2>1. CASE phase = "down" /\ phase' = "up"
      <3>1. Verified
        BY <1>1, <2>1, UpSteps DEF RNext, rvars, UpStep, Crash, Restart, RecoveryFails,
           restore_buy_position, restore_sell_position, NewStrategy, FillUnseen
      <3> QED
        BY <1>1, <3>1, VerifiedIsBooked
    <2> QED
      BY <2>1
  <1> QED
    BY <1>1, RestartInit, RestartStep, PTL DEF RSpec, RestoredIsComplete, AllBooked

LEMMA ReportedInit == RInit => CInv
  <1> SUFFICES ASSUME RInit PROVE CInv
    OBVIOUS
  <1>1. RowsPlaced /\ BoughtUnsold /\ SoldForGood /\ Saved("BUY") = {} /\ Saved("SELL") = {}
        /\ BuyIds = {}
    BY DEF RInit, Init, CommonInit, InitBuy, InitInventorySell, NoRow, Unplaced, RowsPlaced,
       BoughtUnsold, SoldForGood, Saved, BuyIds
  <1>2. OnlySells
    BY DEF RInit, Init, CommonInit, InitBuy, InitInventorySell, OnlySells, HasBuyOrder,
       NoBuyOrder, NewBuyOrder, SellRow, BuyCreates, BuyCancels
  <1>3. NothingBought
    BY <1>1 DEF RInit, Init, CommonInit, InitBuy, InitInventorySell, NothingBought,
       NothingSent, HasBuyOrder, NoBuyOrder, NewBuyOrder, NewSellOrder, BuyRow
  <1> QED
    BY <1>1, <1>2, <1>3, RestartInit DEF CInv

LEMMA ReportedStep == CInv /\ [RNext]_rvars => CInv'
  <1> SUFFICES ASSUME CInv, [RNext]_rvars PROVE CInv'
    OBVIOUS
  <1>1. RInv /\ RInv' /\ TypeOK /\ TypeOK' /\ IdsAgree'
    BY RestartStep DEF CInv, RInv, IInv, KeepsTrack
  <1>2. CASE UpStep
    <2>1. ExchangeMoves /\ (Next \/ SendFilledSell)
      BY <1>1, <1>2, UpSteps, NextKeeps, SendFilledKeeps DEF RInv
    <2> QED
      BY <1>1, <1>2, <2>1, RowsStayPlaced, UnsoldStays, OnlySellsStays, NothingStaysBought,
         SoldStaysForGood DEF CInv
  <1>3. CASE Crash
    BY <1>1, <1>3, CrashKeepsReported
  <1>4. CASE Restart
    BY <1>1, <1>4, RestartKeepsReported
  <1>5. ASSUME NEW o \in OrderIds, NEW n \in 1 .. Quantity, FillUnseen(o, n) PROVE CInv'
    <2>1. \A p \in OrderIds : ex'[p].side = ex[p].side
      BY <1>1, <1>5 DEF FillUnseen, TypeOK
    <2> QED
      BY <1>1, <1>5, <2>1, OthersKeepReported DEF FillUnseen
  <1>6. CASE UNCHANGED rvars
    BY <1>1, <1>6, OthersKeepReported DEF rvars, vars
  <1> QED
    BY <1>2, <1>3, <1>4, <1>5, <1>6 DEF RNext, UpStep

\* CompletedOnce of HpRecovery: a position that bought its coins asks the executor
\* to close once, however often the program starts again on its rows.
THEOREM ReportedOnce == RSpec => []CompletedOnce
  <1>1. CInv => CompletedOnce
    BY DEF CInv, NothingBought, SoldForGood, CompletedOnce
  <1> QED
    BY <1>1, ReportedInit, ReportedStep, PTL DEF RSpec

(***************************************************************************)
(* The plan and the holding through crashes                                *)
(*                                                                         *)
(* While the program is up, the plans of HpMoneyProofs hold.  What crosses *)
(* a crash is what they offered (Offers), and rows from which a restart    *)
(* rebuilds the orders as they were (FilledRows).  That the rebuilt sell   *)
(* side is that of a position which finished buying needs the history: a   *)
(* buy order that was closed short of its quantity ends all restarts       *)
(* (Spoiled), and a position without one sells only after its buy order    *)
(* filled (Staged).                                                        *)
(***************************************************************************)

\* Orders are for something, and one that works has something left.
SizesSound ==
    \A o \in OrderIds : /\ ex[o].side # "NONE" => ex[o].qty > 0
                        /\ ex[o].live => ex[o].cum < ex[o].qty
\* Of an order whose answer was lost nothing is booked or saved.
LostUnsaved == \A o \in lostAck : db.rows[o].status = "NONE" /\ seen[o] = 0
\* A row saved as FILLED is the order in hand of its side, and all of it.
FilledRows ==
    \A o \in OrderIds : db.rows[o].status = "FILLED" =>
        /\ db.rows[o].real = seen[o]
        /\ ex[o].side = "BUY" => bo.id = o /\ (phase = "up" => bo.status = "FILLED")
        /\ ex[o].side = "SELL" => so.id = o /\ (phase = "up" => so.status = "FILLED")

\* A buy order was closed short of its quantity; its row is never FILLED.
Short(o) == ~ ex[o].live /\ ex[o].cum < ex[o].qty
Spoiled == \E o \in Known : ex[o].side = "BUY" /\ Short(o)
ClosedShort ==
    \A i \in 1 .. Len(queue) :
        queue[i].kind = "report" /\ queue[i].status \in {"CANCELED", "EXPIRED"} =>
            Short(queue[i].id)
EndedShort == bo.status \in {"CANCELED", "EXPIRED"} => bo.id # NoId /\ Short(bo.id)

\* What the saved strategy state and the position's row say of the orders.
Sells == {"BOUGHT", "SELLING", "PARTIALLY_SOLD", "SOLD"}
RowsStaged ==
    /\ (\E o \in Saved("BUY") : db.rows[o].status = "FILLED") => db.strategy # "NEW"
    /\ pos.type = "BUY" /\ Saved("BUY") = {} => db.strategy = "NEW"
    /\ Saved("BUY") = {} /\ Saved("SELL") = {} => pos.qty <= Quantity
    /\ HasBuyOrder /\ ~ Spoiled =>
         /\ db.strategy \in {"NEW", "BUYING", "PARTIALLY_BOUGHT"} \cup Sells
         /\ Saved("SELL") # {} => pos.type = "SELL" /\ db.strategy \in Sells
BuyingSaved == state = "BUYING" /\ pc = "idle" => db.strategy # "NEW"

\* Without a buy order closed short, a position buys, and nothing else, until
\* the signal of the fill is handled; then it sells, and never buys again.
Signalled == {i \in 1 .. Len(queue) : queue[i].kind = "signal"}
BuyingStage ==
    /\ state \in {"NEW", "BUYING", "PARTIALLY_BOUGHT"}
    /\ sell = "NEW" /\ so.id = NoId /\ pc \notin SellCreates \cup SellCancels
    /\ pc = "cancel_unfilled_buy_orders" => state = "NEW"
    /\ pc = "cancel_partially_bought_orders" => state = "PARTIALLY_BOUGHT"
    /\ state = "PARTIALLY_BOUGHT" =>
           pc \in {"cancel_partially_bought_orders", "dead"} \/ buy = "BOUGHT"
    /\ bo.status # "FILLED" => Signalled = {}
    /\ \A i, j \in Signalled : i = j
SellingStage ==
    /\ state \in Sells
    /\ bo.status = "FILLED" /\ buy = "BOUGHT" /\ pc \notin BuyCreates \cup BuyCancels
    /\ sell = "NEW" => Signalled = {}
Staged == HasBuyOrder /\ ~ Spoiled => BuyingStage \/ SellingStage

UpInv == /\ BooksInv /\ BuyPlan /\ SellPlan
         /\ BuyingMatches /\ ClosedShort /\ EndedShort /\ BuyingSaved /\ Staged
KInv == /\ CInv /\ Offers /\ SizesSound /\ LostUnsaved /\ FilledRows /\ RowsStaged
        /\ phase = "up" => UpInv

(***************************************************************************)
(* What a step of a running program keeps                                  *)
(***************************************************************************)

\* A step while the program is up, or none.
UpMove == [Next]_vars \/ SendFilledSell

\* The step that goes on with a filled sell order keeps the plans.
LEMMA SendFilledKeepsPlans ==
  ASSUME UpInv, SendFilledSell
  PROVE  BooksInv' /\ BuyPlan' /\ SellPlan' /\ BuyingMatches'
  <1>1. /\ IInv /\ NoSellUnlessSet /\ FillsBooked /\ StatesMatch /\ BuyPlan /\ SellPlan
        /\ TypeOK /\ BooksSound /\ Settled(so)
    BY DEF UpInv, BooksInv, IInv, FillsBooked
  <1>2. /\ ex' = ex /\ seen' = seen /\ lostAck' = lostAck /\ bo' = bo /\ so' = so
        /\ buy' = buy /\ sellSet' = sellSet /\ state' = "SELLING" /\ pc' = "idle"
        /\ pc = "send_sell_order" /\ so.status = "FILLED"
    BY DEF SendFilledSell
  <1>3. IInv' /\ FillsBooked' /\ ExchangeMoves
    BY <1>1, SendFilledKeeps
  <1>4. NoSellUnlessSet'
    BY <1>1, <1>2 DEF NoSellUnlessSet, SellCreates
  <1>5. StatesMatch'
    BY <1>1, <1>2 DEF StatesMatch, BuyMatches, AwaitsMatch, FlatMatches, HasBuyOrder,
       BuyCreates, BuyCancels
  <1>6. SellingIsPersisted'
    BY <1>1, <1>2 DEF Settled, Done, SellingIsPersisted
  <1>7. BuyPlan'
    BY <1>1, <1>2 DEF BuyPlan, Resent, ResentFor, Unbooked, Earlier, Traded, HasBuyOrder
  <1>8. SellPlan'
    <2>1. Resent("SELL", so)' /\ RealizedTraded'
      BY <1>1, <1>2 DEF SellPlan, Resent, ResentFor, Unbooked, Earlier, Traded, RealizedTraded
    <2>2. so'.qty <= Holding'
      <3>1. HasBuyOrder' = HasBuyOrder /\ TypeOK'
        BY <1>2, <1>3 DEF HasBuyOrder, IInv
      <3>2. Holding <= Holding'
        BY <1>1, <1>3, <3>1, HoldingGrows
      <3>3. Holding \in Nat /\ (Holding \in Nat)'
        BY <1>1, <3>1, HoldingType, PTL
      <3> QED
        BY <1>1, <1>2, <3>2, <3>3 DEF SellPlan, TypeOK, SellOrder
    <2> QED
      BY <1>1, <1>2, <2>1, <2>2 DEF SellPlan
  <1>9. BuyingMatches'
    BY <1>2 DEF BuyingMatches, Callbacks, BuyCreates, BuyCancels, SellCreates, SellCancels
  <1> QED
    BY <1>3, <1>4, <1>5, <1>6, <1>7, <1>8, <1>9 DEF BooksInv

\* So does every other, and the buy order is not replaced by none.
LEMMA PlansKept ==
  ASSUME UpInv, UpMove
  PROVE  /\ BooksInv' /\ BuyPlan' /\ SellPlan' /\ BuyingMatches' /\ Offers'
         /\ ExchangeMoves /\ HasBuyOrder' = HasBuyOrder
  <1>1. BooksInv /\ BuyPlan /\ SellPlan /\ BuyingMatches /\ TypeOK /\ IdsAgree
    BY DEF UpInv, BooksInv, IInv, KeepsTrack
  <1>2. BooksInv' /\ BuyPlan' /\ SellPlan' /\ BuyingMatches'
    BY <1>1, SendFilledKeepsPlans, BooksStep, BuyPlanStep, SellPlanStep, BuyingMatchesStep
    DEF UpMove
  <1>3. Offers'
    BY <1>2, PlansOffer, PTL
  <1>4. ExchangeMoves
    BY <1>1, ExchangeOnlyMoves, SendFilledKeeps DEF UpMove, BooksInv
  <1>5. HasBuyOrder' = HasBuyOrder
    BY <1>1, BuySideKept DEF UpMove, SendFilledSell, HasBuyOrder
  <1> QED
    BY <1>2, <1>3, <1>4, <1>5

\* Placed orders stay known or lost; and what is saved is of the orders in hand.
LEMMA UpRows ==
  ASSUME UpInv, UpMove
  PROVE  /\ \A o \in OrderIds : RowMoves(o)
         /\ \A o \in OrderIds : ex[o].side # "NONE" => (o \in lostAck' <=> o \in lostAck)
         /\ \A o \in OrderIds \ {bo.id, so.id} : seen'[o] = seen[o]
         /\ lostAck \subseteq lostAck'
  <1>1. BooksInv /\ TypeOK /\ TypeOK'
    BY PlansKept DEF UpInv, BooksInv, IInv
  <1>2. \A o \in OrderIds : RowMoves(o)
    BY <1>1, RowsMove DEF UpMove, RowMoves, vars
  <1>3. CASE SendFilledSell
    BY <1>2, <1>3 DEF SendFilledSell
  <1>4. CASE [Next]_vars
    <2>1. \A o \in OrderIds : ex[o].side # "NONE" => (o \in lostAck' <=> o \in lostAck)
      BY <1>1, <1>4, OthersStand DEF OthersStay
    <2>2. \A o \in OrderIds \ {bo.id, so.id} : seen'[o] = seen[o]
      BY <1>1, <1>4, FillsOnlyBooked DEF Books, TypeOK
    <2>3. lostAck \subseteq lostAck'
      BY <1>1, <1>4, SidesGrow
    <2> QED
      BY <1>2, <2>1, <2>2, <2>3
  <1> QED
    BY <1>3, <1>4 DEF UpMove

(***************************************************************************)
(* Orders at the exchange                                                  *)
(***************************************************************************)

\* An order is placed for something, and only what works is closed.
LEMMA PlacedSized ==
  ASSUME TypeOK, SizesSound, FreeIds # {}, NEW side, NEW qty \in Nat, qty > 0,
         ex' = Placed(side, qty)
  PROVE  SizesSound'
  <1>1. NextId \in OrderIds
    BY NextIdFree
  <1>2. \A o \in OrderIds : o # NextId => ex'[o] = ex[o]
    BY <1>1 DEF Placed, TypeOK
  <1>3. ex'[NextId] = [side |-> side, qty |-> qty, cum |-> 0, live |-> TRUE]
    BY <1>1 DEF Placed, TypeOK
  <1> QED
    BY <1>1, <1>2, <1>3 DEF SizesSound

LEMMA ClosedSized ==
  ASSUME TypeOK, SizesSound, NEW c \in OrderIds, ex' = Closed(c)
  PROVE  SizesSound'
  <1>1. \A o \in OrderIds : o # c => ex'[o] = ex[o]
    BY DEF Closed, TypeOK
  <1>2. ex'[c] = [side |-> ex[c].side, qty |-> ex[c].qty, cum |-> ex[c].cum, live |-> FALSE]
    BY DEF Closed, TypeOK
  <1> QED
    BY <1>1, <1>2 DEF SizesSound

\* What trades while nobody listens, or is told, leaves something while it works.
LEMMA FilledSized ==
  ASSUME TypeOK, SizesSound, NEW f \in OrderIds, NEW n \in Nat, ex[f].live,
         \A o \in OrderIds : o # f => ex'[o] = ex[o],
         ex'[f].side = ex[f].side, ex'[f].qty = ex[f].qty, ex'[f].cum = ex[f].cum + n,
         ex[f].cum + n <= ex[f].qty,
         ex'[f].live <=> ex[f].cum + n # ex[f].qty
  PROVE  SizesSound'
  <1>1. ex[f].cum \in Nat /\ ex[f].qty \in Nat
    BY DEF TypeOK
  <1> QED
    BY <1>1 DEF SizesSound

LEMMA SizesStay ==
  ASSUME TypeOK, SizesSound, UpMove
  PROVE  SizesSound'
  <1>1. CASE ex' = ex
    BY <1>1 DEF SizesSound
  <1>2. CASE CreateAnswers
    <2>1. bo.qty \in Nat /\ bo.real \in Nat /\ so.qty \in Nat /\ so.real \in Nat
      BY DEF TypeOK, BuyOrder, SellOrder
    <2>2. CASE LoseBuyAck \/ BuyCreated
      BY <2>1, <2>2, PlacedSized DEF LoseBuyAck, LoseAck, BuyCreated, OpenBuy
    <2>3. CASE LoseSellAck \/ SellCreated
      BY <2>1, <2>3, PlacedSized DEF LoseSellAck, LoseAck, SellCreated, OpenSell
    <2>4. CASE CreateBuyFails \/ CreateSellFails \/ ResendNothing
      BY <2>4, <1>1 DEF CreateBuyFails, CreateSellFails, CreateFails, ResendNothing
    <2> QED
      BY <1>2, <2>2, <2>3, <2>4 DEF CreateAnswers
  <1>3. CASE CancelAnswers
    <2>1. CASE CancelFails
      BY <2>1, <1>1 DEF CancelFails
    <2>2. CASE CancelAnswered
      <3>1. Order \in {bo, so}
        BY DEF Order
      <3>2. Cancellable(Order) => Order.id \in OrderIds
        BY <3>1 DEF Cancellable, TypeOK, BuyOrder, SellOrder
      <3> QED
        BY <2>2, <3>2, <1>1, ClosedSized DEF CancelAnswered
    <2> QED
      BY <1>3, <2>1, <2>2 DEF CancelAnswers, BuyCancelled, UnfilledSellCancelled,
         PartlySoldCancelled
  <1>4. CASE Environment
    <2>1. ASSUME NEW o \in OrderIds, NEW n \in 1 .. Quantity, Fill(o, n)
          PROVE  SizesSound'
      <3>1. n \in Nat /\ ex[o].live /\ ex[o].cum + n <= ex[o].qty
        BY <2>1, QuantityAssumption DEF Fill
      <3>2. \A p \in OrderIds : p # o => ex'[p] = ex[p]
        BY <2>1 DEF Fill, TypeOK
      <3>3. ex'[o].side = ex[o].side /\ ex'[o].qty = ex[o].qty
        BY <2>1 DEF Fill, TypeOK
      <3>4. ex'[o].cum = ex[o].cum + n
        BY <2>1 DEF Fill, TypeOK
      <3>5. ex'[o].live <=> ex[o].cum + n # ex[o].qty
        BY <2>1 DEF Fill, TypeOK
      <3> QED
        BY <3>1, <3>2, <3>3, <3>4, <3>5, FilledSized
    <2>2. ASSUME NEW o \in OrderIds, NEW s, Withdraw(o, s)
          PROVE  SizesSound'
      BY <2>2, ClosedSized DEF Withdraw
    <2>3. CASE \/ \E p \in Prices : Ticker(p)
               \/ \E q \in {0, bo.real} : ConfigureSell(q)
               \/ \E o \in OrderIds : Snapshot(o)
      BY <2>3, <1>1 DEF Ticker, ConfigureSell, Snapshot
    <2> QED
      BY <1>4, <2>1, <2>2, <2>3 DEF Environment
  <1>5. CASE Worker \/ ClosePosition \/ SendFilledSell \/ UNCHANGED vars
    BY <1>5, <1>1, WorkerLeavesExchange DEF SendFilledSell, vars
  <1> QED
    BY <1>2, <1>3, <1>4, <1>5 DEF UpMove, Next, Answers

\* So does a crash: the call it loses was made for something.
LEMMA SizesSurvive ==
  ASSUME TypeOK, SizesSound, Crash
  PROVE  SizesSound'
  <1>1. CASE ex' = ex
    BY <1>1 DEF SizesSound
  <1>2. CASE LosesAnswer
    <2>1. bo.qty \in Nat /\ bo.real \in Nat /\ so.qty \in Nat /\ so.real \in Nat
      BY DEF TypeOK, BuyOrder, SellOrder
    <2>2. Order \in {bo, so}
      BY DEF Order
    <2>3. Cancellable(Order) => Order.id \in OrderIds
      BY <2>2 DEF Cancellable, TypeOK, BuyOrder, SellOrder
    <2> QED
      BY <1>2, <2>1, <2>3, PlacedSized, ClosedSized DEF LosesAnswer, OpenBuy, OpenSell
  <1> QED
    BY <1>1, <1>2 DEF Crash

LEMMA SizesTrade ==
  ASSUME TypeOK, SizesSound, NEW o \in OrderIds, NEW n \in 1 .. Quantity, FillUnseen(o, n)
  PROVE  SizesSound'
  <1>1. n \in Nat /\ ex[o].live /\ ex[o].cum + n <= ex[o].qty
    BY QuantityAssumption DEF FillUnseen
  <1>2. ex' = [ex EXCEPT ![o].cum = @ + n, ![o].live = ex[o].cum + n < ex[o].qty]
    BY DEF FillUnseen
  <1>3. /\ \A p \in OrderIds : p # o => ex'[p] = ex[p]
        /\ ex'[o].side = ex[o].side /\ ex'[o].qty = ex[o].qty
        /\ ex'[o].cum = ex[o].cum + n
        /\ ex'[o].live <=> ex[o].cum + n < ex[o].qty
    BY <1>2 DEF TypeOK
  <1>4. ex[o].cum \in Nat /\ ex[o].qty \in Nat
    BY DEF TypeOK
  <1> QED
    BY <1>1, <1>3, <1>4, FilledSized

(***************************************************************************)
(* Buy orders closed short                                                 *)
(***************************************************************************)

\* What was closed short stays so.
LEMMA ShortStays ==
  ASSUME TypeOK, ExchangeMoves, NEW o \in OrderIds, ex[o].side # "NONE", Short(o)
  PROVE  Short(o)' /\ ex'[o].side = ex[o].side
  BY DEF Short, ExchangeMoves

LEMMA SpoiledStays ==
  ASSUME TypeOK, ExchangeMoves, Spoiled,
         \A o \in OrderIds : ex[o].side # "NONE" => (o \in lostAck' <=> o \in lostAck)
  PROVE  Spoiled'
  <1>1. PICK o \in OrderIds \ lostAck : ex[o].side = "BUY" /\ Short(o)
    BY DEF Spoiled, Known
  <1>2. ex'[o].side = "BUY" /\ Short(o)' /\ o \in OrderIds \ lostAck'
    BY <1>1, ShortStays
  <1> QED
    BY <1>2 DEF Spoiled, Known

\* The row of an order closed short is not FILLED, and no restart reads on.
LEMMA SpoiledEnds ==
  ASSUME TypeOK, RowsDone, KnownSaved, Spoiled
  PROVE  ~ Verified
  <1>1. PICK o \in OrderIds \ lostAck : ex[o].side = "BUY" /\ Short(o)
    BY DEF Spoiled, Known
  <1>2. db.rows[o].status # "NONE" /\ o \in OrderIds
    BY <1>1 DEF KnownSaved, Known
  <1>3. db.rows[o].status # "FILLED"
    BY <1>1 DEF RowsDone, Done, Short, TypeOK
  <1> QED
    BY <1>2, <1>3 DEF Verified

\* What is appended can be told from what is behind the others.
LEMMA AppendSame ==
  ASSUME NEW S, NEW q \in Seq(S), NEW d, NEW e, Append(q, d) = Append(q, e)
  PROVE  d = e
  <1>1. q \in Seq(S \cup {d, e})
    OBVIOUS
  <1>2. Append(q, d)[Len(q) + 1] = d /\ Append(q, e)[Len(q) + 1] = e
    BY <1>1
  <1> QED
    BY <1>2

\* What is told of an order that was closed before it filled is told when it is.
LEMMA ClosesShort ==
  ASSUME BooksInv, SizesSound, UpMove, NEW e, queue' = Append(queue, e),
         e.kind = "report", e.status \in {"CANCELED", "EXPIRED"}
  PROVE  Short(e.id)'
  <1>0. queue \in Seq(Event) /\ Len(queue) \in Nat /\ Len(queue') = Len(queue) + 1
    BY DEF BooksInv, IInv, TypeOK
  <1>1. ASSUME NEW d, queue' = Append(queue, d) PROVE d = e
    BY <1>0, <1>1, AppendSame
  <1>2. ~ SendFilledSell
    BY <1>1 DEF SendFilledSell, Signal
  <1>3. ASSUME Worker \/ queue' = queue PROVE FALSE
    <2>1. queue' = queue \/ (queue # <<>> /\ queue' \in {Tail(queue), Append(Tail(queue), Signal)})
      BY <1>2, <1>3, EventsArrive DEF UpMove
    <2>2. queue # <<>> => /\ Tail(queue) \in Seq(Event) /\ Len(Tail(queue)) = Len(queue) - 1
                          /\ Len(Append(Tail(queue), Signal)) = Len(queue)
      BY <1>0, SignalIsEvent
    <2>3. Len(queue') <= Len(queue)
      BY <1>0, <2>1, <2>2
    <2> QED
      BY <1>0, <2>3
  <1>4. Environment
    BY <1>2, <1>3 DEF UpMove, Next, vars, Answers, CreateAnswers, CancelAnswers, ClosePosition,
       LoseBuyAck, LoseSellAck, LoseAck, CreateBuyFails, CreateSellFails, CreateFails,
       BuyCreated, SellCreated, ResendNothing, CancelFails, BuyCancelled,
       UnfilledSellCancelled, PartlySoldCancelled, CancelAnswered
  <1>5. ASSUME NEW o \in OrderIds, NEW n \in 1 .. Quantity, Fill(o, n) PROVE FALSE
    <2> DEFINE s == IF ex[o].cum + n = ex[o].qty THEN "FILLED" ELSE "PARTIALLY_FILLED"
    <2>1. queue' = queue \/ queue' = Append(queue, Report(o, s, ex[o].cum + n, n))
      BY <1>5, Zenon DEF Fill, Deliver
    <2>2. Report(o, s, ex[o].cum + n, n).status \in {"FILLED", "PARTIALLY_FILLED"}
      BY DEF Report
    <2> HIDE DEF s
    <2> QED
      BY <1>1, <1>3, <2>1, <2>2
  <1>6. /\ \A p \in Prices : ~ Ticker(p)
        /\ \A o \in OrderIds : ~ Snapshot(o)
    <2>1. \A p : Tick(p).kind # "report"
      BY DEF Tick
    <2>2. \A o, c : Report(o, "NEW", c, 0).status = "NEW"
      BY DEF Report
    <2> QED
      BY <1>1, <2>1, <2>2, Zenon DEF Ticker, Snapshot, Deliver
  <1>7. ~ (\E q \in {0, bo.real} : ConfigureSell(q))
    BY <1>3 DEF ConfigureSell
  <1>8. PICK o \in OrderIds, s \in {"CANCELED", "EXPIRED"} : Withdraw(o, s)
    BY <1>4, <1>5, <1>6, <1>7 DEF Environment
  <1>9. e.id = o
    BY <1>1, <1>8 DEF Withdraw, Deliver, Report
  <1>10. ~ ex'[o].live /\ ex'[o].cum = ex[o].cum /\ ex'[o].qty = ex[o].qty
    BY <1>8 DEF Withdraw, Closed, BooksInv, IInv, TypeOK
  <1>11. ex[o].cum < ex[o].qty
    BY <1>8 DEF Withdraw, SizesSound
  <1> QED
    BY <1>9, <1>10, <1>11 DEF Short

LEMMA ClosedShortStays ==
  ASSUME UpInv, SizesSound, UpMove
  PROVE  ClosedShort'
  <1>0. BooksInv /\ TypeOK /\ TypeOK' /\ ReportsTrue /\ ClosedShort /\ ExchangeMoves
    BY PlansKept DEF UpInv, BooksInv, IInv, KeepsTrack
  <1>1. QueueMoves
    <2>1. SendFilledSell => QueueMoves
      BY <1>0, SendFilledKeeps DEF BooksInv
    <2> QED
      BY <1>0, <2>1, QueueOnlyMoves DEF UpMove, BooksInv, IInv, KeepsTrack, FillsBooked
  <1> SUFFICES ASSUME NEW i \in 1 .. Len(queue'), queue'[i].kind = "report",
                      queue'[i].status \in {"CANCELED", "EXPIRED"}
               PROVE  ~ ex'[queue'[i].id].live /\ ex'[queue'[i].id].cum < ex'[queue'[i].id].qty
    BY DEF ClosedShort, Short
  <1>2. PICK k \in {0, 1} : \A j \in 1 .. Len(queue') :
            \/ j + k \in 1 .. Len(queue) /\ queue'[j] = queue[j + k]
            \/ /\ j + k = Len(queue) + 1
               /\ queue'[j] = Signal \/ (k = 0 /\ Delivered(queue'[j]))
    BY <1>0, <1>1, QueueAfter
  <1>3. CASE i + k \in 1 .. Len(queue) /\ queue'[i] = queue[i + k]
    <2>1. PICK j \in 1 .. Len(queue) : queue'[i] = queue[j]
      BY <1>3
    <2>2. queue[j].id \in OrderIds /\ ex[queue[j].id].side # "NONE"
      BY <1>0, <2>1, QueuedReport DEF ReportsTrue, ReportTrue
    <2>3. Short(queue[j].id)
      BY <1>0, <2>1 DEF ClosedShort
    <2> QED
      BY <1>0, <2>1, <2>2, <2>3, ShortStays DEF Short
  <1>4. CASE Delivered(queue'[i])
    <2>1. PICK e : e = queue'[i] /\ queue' = Append(queue, e)
      BY <1>4 DEF Delivered
    <2> QED
      BY <1>0, <2>1, ClosesShort DEF Short
  <1> QED
    BY <1>2, <1>3, <1>4, SignalIsNoReport

\* A buy order is taken for closed only when it was, short of its quantity.
LEMMA EndedShortStays ==
  ASSUME UpInv, SizesSound, UpMove
  PROVE  EndedShort'
  <1>0. /\ BooksInv /\ TypeOK /\ TypeOK' /\ ClosedShort /\ EndedShort /\ ExchangeMoves
        /\ bo \in BuyOrder /\ (bo.id # NoId => bo.id \in OrderIds /\ ex[bo.id].side = "BUY")
    BY PlansKept DEF UpInv, BooksInv, IInv, KeepsTrack, IdsAgree, TypeOK, BuyOrder
  <1>1. CASE bo' = bo
    BY <1>0, <1>1, ShortStays DEF EndedShort
  <1>2. CASE bo'.status \notin {"CANCELED", "EXPIRED"}
    BY <1>2 DEF EndedShort
  <1>3. CASE process_order
    <2>1. CASE StatusReport
      <3>1. /\ 1 \in 1 .. Len(queue) /\ queue[1] = report /\ report.kind = "report"
            /\ report.id \in OrderIds
        BY <1>0, <2>1, ReportFields DEF StatusReport, Take, Waiting, report, TypeOK
      <3>2. CASE bo.id = report.id /\ report.status \in {"CANCELED", "EXPIRED"}
        <4>1. Short(report.id) /\ ex' = ex
          BY <1>0, <2>1, <3>1, <3>2 DEF ClosedShort, StatusReport
        <4>2. bo'.id = report.id
          BY <1>0, <2>1, <3>2 DEF StatusReport, Restatus, BuyOrder
        <4> QED
          BY <3>1, <4>1, <4>2 DEF EndedShort, Short, OrderIds, NoId
      <3>3. CASE bo.id = report.id /\ report.status \notin {"CANCELED", "EXPIRED"}
        BY <1>0, <1>2, <2>1, <3>3 DEF StatusReport, Restatus, BuyOrder
      <3>4. CASE bo.id # report.id
        BY <1>1, <2>1, <3>4 DEF StatusReport, Restatus
      <3> QED
        BY <3>2, <3>3, <3>4
    <2>2. CASE BuyFilledReport \/ BuyPartFilledReport
      <3>1. report.cum \in Nat
        BY <1>0, <2>2, ReportFields DEF BuyFilledReport, BuyPartFilledReport, Take, TakeAndSignal
      <3>2. bo'.status \in {"FILLED", "PARTIALLY_FILLED"}
        BY <1>0, <2>2, <3>1, BookedFields DEF BuyFilledReport, BuyPartFilledReport, BuyOrder,
           OrderStatus
      <3> QED
        BY <1>2, <3>2
    <2>3. CASE SellFilledReport \/ SellPartFilledReport \/ DropFill
      BY <1>1, <2>3 DEF SellFilledReport, SellPartFilledReport, DropFill, Ignore
    <2> QED
      BY <1>3, <2>1, <2>2, <2>3 DEF process_order
  <1>4. CASE process_ticker
    BY <1>4, <1>1, <1>2 DEF process_ticker, SendBuy, NewBuyOrder, CancelUnfilledBuy,
       CancelPartlyBought, ResendBuy, SendSell, CancelUnfilledSell, CancelPartlySold,
       ResendSell, RaiseInCondition, IgnoreTick, Ignore
  <1>5. CASE CreateAnswers
    <2>1. BuyCreated => bo'.status = "NEW"
      BY <1>0, SentFields, NextIdFree DEF BuyCreated
    <2> QED
      BY <1>5, <1>1, <1>2, <2>1 DEF CreateAnswers, LoseBuyAck, LoseSellAck, LoseAck,
         CreateBuyFails, CreateSellFails, CreateFails, SellCreated, ResendNothing
  <1>6. CASE CancelAnswers
    <2>1. CASE BuyCancelled /\ Cancellable(bo)
      <3>1. ex[bo.id].live /\ ex' = Closed(bo.id) /\ bo'.id = bo.id
        BY <1>0, <2>1 DEF BuyCancelled, CancelAnswered, Order, Cancelled, BuyOrder
      <3>2. bo.id \in OrderIds /\ bo.id # NoId
        BY <1>0, <2>1 DEF Cancellable
      <3>3. ~ ex'[bo.id].live /\ ex'[bo.id].cum = ex[bo.id].cum /\ ex'[bo.id].qty = ex[bo.id].qty
        BY <1>0, <3>1, <3>2 DEF Closed, TypeOK
      <3> QED
        BY <3>1, <3>2, <3>3 DEF EndedShort, Short, SizesSound
    <2>2. CASE BuyCancelled /\ ~ Cancellable(bo)
      BY <1>1, <2>2 DEF BuyCancelled, Cancelled
    <2> QED
      BY <1>6, <1>1, <2>1, <2>2 DEF CancelAnswers, CancelFails, UnfilledSellCancelled,
         PartlySoldCancelled
  <1>7. CASE process_signal \/ ClosePosition \/ Environment \/ SendFilledSell \/ UNCHANGED vars
    BY <1>7, <1>1 DEF process_signal, CloseFilledBuy, CloseFilledSell, RaiseOnSignal, vars,
       ClosePosition, Environment, Ticker, ConfigureSell, Fill, Snapshot, Withdraw, SendFilledSell
  <1> QED
    BY <1>3, <1>4, <1>5, <1>6, <1>7 DEF UpMove, Next, Worker, Answers

LEMMA EndedSpoils ==
  ASSUME TypeOK, IdsAgree, BuyPlan, EndedShort, bo.status \in {"CANCELED", "EXPIRED"}
  PROVE  Spoiled
  <1>1. bo.id # NoId /\ Short(bo.id) /\ bo.id \notin lostAck
    BY DEF EndedShort, BuyPlan, Resent
  <1>2. bo.id \in OrderIds /\ ex[bo.id].side = "BUY"
    BY <1>1 DEF IdsAgree, TypeOK, BuyOrder
  <1> QED
    BY <1>1, <1>2 DEF Spoiled, Known

(***************************************************************************)
(* Orders that filled                                                      *)
(***************************************************************************)

\* An order that filled is not replaced while the program is up.
LEMMA BoughtStays ==
  ASSUME UpInv, UpMove, bo.status = "FILLED"
  PROVE  bo'.status = "FILLED" /\ bo'.id = bo.id
  <1>1. CASE SendFilledSell
    BY <1>1 DEF SendFilledSell
  <1>2. CASE [Next]_vars
    <2>1. bo'.status = "FILLED"
      BY <1>2, FilledStays DEF UpInv
    <2>2. BuyMove
      BY <1>2, OrdersMove DEF UpInv
    <2> QED
      BY <2>1, <2>2 DEF BuyMove, BuyStays, BuyBooks, BuyCreated, AwaitsCreateBuy, SendBuy,
         CanSendBuy
  <1> QED
    BY <1>1, <1>2 DEF UpMove

LEMMA SoldOrderStays ==
  ASSUME UpInv, UpMove, so.status = "FILLED"
  PROVE  so'.status = "FILLED" /\ so'.id = so.id
  <1>0. so \in SellOrder /\ TypeOK /\ Settled(so) /\ NoSellUnlessSet
    BY DEF UpInv, BooksInv, IInv, TypeOK, FillsBooked
  <1>1. CASE so' = so
    BY <1>1
  <1>2. CASE process_order
    <2>1. 1 \in 1 .. Len(queue) /\ queue[1] = report /\ report.kind = "report"
      BY <1>0, <1>2 DEF process_order, BuyFilledReport, BuyPartFilledReport, SellFilledReport,
         SellPartFilledReport, StatusReport, DropFill, Take, TakeAndSignal, Waiting, report, TypeOK
    <2>2. report.id # so.id
      BY <1>0, <2>1 DEF Settled, Done, Unreported
    <2> QED
      BY <1>1, <1>2, <2>2 DEF process_order, BuyFilledReport, BuyPartFilledReport,
         SellFilledReport, SellPartFilledReport, StatusReport, DropFill, Restatus, Ignore
  <1>3. CASE process_ticker
    <2>1. CASE SendSell
      BY <1>0, <2>1 DEF SendSell, SellOrder
    <2> QED
      BY <1>1, <1>3, <2>1 DEF process_ticker, SendBuy, CancelUnfilledBuy, CancelPartlyBought,
         ResendBuy, CancelUnfilledSell, CancelPartlySold, ResendSell, RaiseInCondition,
         IgnoreTick, Ignore
  <1>4. CASE CreateAnswers
    BY <1>1, <1>4 DEF CreateAnswers, LoseBuyAck, LoseSellAck, LoseAck, CreateBuyFails,
       CreateSellFails, CreateFails, BuyCreated, SellCreated, AwaitsCreateSell, ResendNothing
  <1>5. CASE CancelAnswers
    BY <1>1, <1>5 DEF CancelAnswers, CancelFails, BuyCancelled, UnfilledSellCancelled,
       PartlySoldCancelled, Cancelled, Cancellable
  <1>6. CASE Environment
    BY <1>0, <1>1, <1>6 DEF Environment, Ticker, ConfigureSell, NoSellUnlessSet, Fill, Snapshot,
       Withdraw
  <1>7. CASE process_signal \/ ClosePosition \/ SendFilledSell \/ UNCHANGED vars
    BY <1>7, <1>1 DEF process_signal, CloseFilledBuy, CloseFilledSell, RaiseOnSignal, vars,
       ClosePosition, SendFilledSell
  <1> QED
    BY <1>2, <1>3, <1>4, <1>5, <1>6, <1>7 DEF UpMove, Next, Worker, Answers

\* What is saved as filled carries all that the order traded.
LEMMA FilledIsWhole ==
  ASSUME TypeOK, IdsAgree, SizesSound, NEW side \in {"BUY", "SELL"}, NEW order,
         order.id \in OrderIds \cup {NoId}, order.id # NoId => ex[order.id].side = side,
         Settled(order), Resent(side, order), order.status = "FILLED"
  PROVE  order.id \in OrderIds /\ order.real = seen[order.id]
  <1>1. order.id # NoId /\ Done(order.id) /\ order.id \in OrderIds
    BY DEF Settled
  <1>2. seen[order.id] > 0
    BY <1>1 DEF Done, SizesSound
  <1> QED
    BY <1>1, <1>2 DEF Resent, Unbooked

LEMMA FilledInHand ==
  ASSUME TypeOK, IdsAgree, FillsBooked, SizesSound, BuyPlan, SellPlan
  PROVE  /\ bo.status = "FILLED" => bo.id \in OrderIds /\ ex[bo.id].side = "BUY"
                                   /\ bo.real = seen[bo.id]
         /\ so.status = "FILLED" => so.id \in OrderIds /\ ex[so.id].side = "SELL"
                                   /\ so.real = seen[so.id]
  BY FilledIsWhole DEF TypeOK, IdsAgree, FillsBooked, BuyPlan, SellPlan, BuyOrder, SellOrder,
     Settled

LEMMA FilledRowsStay ==
  ASSUME UpInv, SellAtRest, SizesSound, RowsDone, FilledRows, UpMove, phase = "up", phase' = "up"
  PROVE  FilledRows'
  <1>0. /\ BooksInv /\ BooksInv' /\ BuyPlan' /\ SellPlan' /\ ExchangeMoves /\ TypeOK /\ TypeOK'
        /\ IInv /\ FillsBooked /\ (IdsAgree /\ FillsBooked)' /\ SizesSound'
    BY PlansKept, SizesStay DEF UpInv, BooksInv, IInv, KeepsTrack
  <1>1. QueueMoves /\ BooksMove
    <2>1. CASE SendFilledSell
      BY <1>0, <2>1, SendFilledKeeps
    <2>2. CASE [Next]_vars
      BY <1>0, <2>2, NextKeeps
    <2> QED
      BY <2>1, <2>2 DEF UpMove
  <1>2. /\ bo'.status = "FILLED" => bo'.id \in OrderIds /\ ex'[bo'.id].side = "BUY"
                                    /\ bo'.real = seen'[bo'.id]
        /\ so'.status = "FILLED" => so'.id \in OrderIds /\ ex'[so'.id].side = "SELL"
                                    /\ so'.real = seen'[so'.id]
    <2>1. (/\ bo.status = "FILLED" => bo.id \in OrderIds /\ ex[bo.id].side = "BUY"
                                      /\ bo.real = seen[bo.id]
           /\ so.status = "FILLED" => so.id \in OrderIds /\ ex[so.id].side = "SELL"
                                      /\ so.real = seen[so.id])'
      BY <1>0, FilledInHand, PTL
    <2> QED
      BY <2>1
  <1> SUFFICES ASSUME NEW o \in OrderIds, db'.rows[o].status = "FILLED"
               PROVE  /\ db'.rows[o].real = seen'[o]
                      /\ ex'[o].side = "BUY" => bo'.id = o /\ bo'.status = "FILLED"
                      /\ ex'[o].side = "SELL" => so'.id = o /\ so'.status = "FILLED"
    BY DEF FilledRows
  <1>3. CASE db'.rows[o] = db.rows[o]
    <2>1. Done(o) /\ ex[o].side # "NONE" /\ db.rows[o].real = seen[o]
      BY <1>3 DEF RowsDone, FilledRows
    <2>2. Done(o)'
      BY <1>0, <1>1, <2>1, DoneStays
    <2>3. seen'[o] = seen[o] /\ ex'[o].side = ex[o].side
      BY <1>0, <2>1, <2>2 DEF Done, ExchangeMoves
    <2>4. /\ ex[o].side = "BUY" => bo.id = o /\ bo.status = "FILLED"
          /\ ex[o].side = "SELL" => so.id = o /\ so.status = "FILLED"
      BY <1>3 DEF FilledRows
    <2> QED
      BY <1>3, <2>1, <2>3, <2>4, BoughtStays, SoldOrderStays
  <1>4. CASE SavedNow(bo', o)
    BY <1>2, <1>4 DEF SavedNow
  <1>5. CASE SavedNow(so', o)
    BY <1>2, <1>5 DEF SavedNow
  <1> QED
    BY <1>3, <1>4, <1>5, UpRows DEF RowMoves

\* Of orders nobody knows nothing is booked or saved.
LEMMA LostStaysUnsaved ==
  ASSUME UpInv, RowsPlaced, LostUnsaved, UpMove
  PROVE  LostUnsaved'
  <1>0. /\ IdsAgree /\ BooksSound /\ TypeOK /\ TypeOK'
        /\ bo.id \notin lostAck /\ so.id \notin lostAck
        /\ bo'.id \notin lostAck' /\ so'.id \notin lostAck'
    BY PlansKept DEF UpInv, BooksInv, IInv, KeepsTrack, FillsBooked, BuyPlan, SellPlan, Resent
  <1> SUFFICES ASSUME NEW o \in OrderIds, o \in lostAck'
               PROVE  db'.rows[o].status = "NONE" /\ seen'[o] = 0
    BY <1>0 DEF LostUnsaved, TypeOK
  <1>1. o \in lostAck \/ ex[o].side = "NONE"
    BY UpRows
  <1>2. db.rows[o].status = "NONE" /\ seen[o] = 0
    BY <1>0, <1>1 DEF LostUnsaved, RowsPlaced, BooksSound, TypeOK
  <1>3. o \notin {bo.id, so.id}
    BY <1>0, <1>1 DEF IdsAgree, OrderIds, NoId
  <1>4. seen'[o] = 0
    BY <1>2, <1>3, UpRows
  <1> QED
    BY <1>0, <1>2, <1>4, UpRows DEF RowMoves, SavedNow

(***************************************************************************)
(* The stages of a position                                                *)
(***************************************************************************)

\* What is taken or delivered leaves the signals that wait.
LEMMA SignalsWait ==
  ASSUME TypeOK, \/ queue' = queue \/ (queue # <<>> /\ queue' = Tail(queue))
                 \/ \E e : e.kind # "signal" /\ queue' = Append(queue, e)
  PROVE  /\ Signalled = {} => Signalled' = {}
         /\ (\A i, j \in Signalled : i = j) => \A i, j \in Signalled' : i = j
  <1>0. queue \in Seq(Event) /\ Len(queue) \in Nat
    BY DEF TypeOK
  <1>1. CASE queue' = queue
    BY <1>1 DEF Signalled
  <1>2. CASE queue # <<>> /\ queue' = Tail(queue)
    <2>1. \A i \in 1 .. Len(queue') : i + 1 \in 1 .. Len(queue) /\ queue'[i] = queue[i + 1]
      BY <1>0, <1>2
    <2>2. \A i \in Signalled' : i + 1 \in Signalled /\ i \in Nat
      BY <2>1 DEF Signalled
    <2> QED
      BY <2>2
  <1>3. ASSUME NEW e, e.kind # "signal", queue' = Append(queue, e)
        PROVE  Signalled' = Signalled
    <2>1. queue \in Seq(Event \cup {e})
      BY <1>0
    <2>2. /\ Len(queue') = Len(queue) + 1 /\ queue'[Len(queue) + 1] = e
          /\ \A i \in 1 .. Len(queue) : queue'[i] = queue[i]
      BY <1>3, <2>1
    <2> QED
      BY <1>0, <1>3, <2>2 DEF Signalled
  <1> QED
    BY <1>1, <1>2, <1>3

\* The only signal is taken, and none waits.
LEMMA SignalTaken ==
  ASSUME TypeOK, Take("signal"), \A i, j \in Signalled : i = j
  PROVE  Signalled' = {}
  <1>0. queue \in Seq(Event) /\ Len(queue) \in Nat /\ queue # <<>> /\ queue' = Tail(queue)
    BY DEF TypeOK, Take, Waiting
  <1>1. 1 \in Signalled
    BY <1>0 DEF Signalled, Take, Waiting
  <1>2. \A i \in 1 .. Len(queue') : i + 1 \in 1 .. Len(queue) /\ queue'[i] = queue[i + 1]
    BY <1>0
  <1>3. \A i \in Signalled' : i + 1 \in Signalled /\ i \in 1 .. Len(queue')
    BY <1>2 DEF Signalled
  <1> QED
    BY <1>1, <1>3

\* The fill that is booked is the only one to signal.
LEMMA SignalSent ==
  ASSUME TypeOK, queue # <<>>, queue' = Append(Tail(queue), Signal), Signalled = {}
  PROVE  \A i, j \in Signalled' : i = j
  <1>0. queue \in Seq(Event) /\ Len(queue) \in Nat /\ Tail(queue) \in Seq(Event)
        /\ Len(Tail(queue)) = Len(queue) - 1
    BY DEF TypeOK
  <1>1. /\ Len(queue') = Len(queue)
        /\ \A i \in 1 .. Len(queue) - 1 : queue'[i] = Tail(queue)[i]
    BY <1>0, SignalIsEvent
  <1>2. \A i \in 1 .. Len(queue) - 1 : Tail(queue)[i] = queue[i + 1]
    BY <1>0
  <1>3. ASSUME NEW i \in Signalled' PROVE i = Len(queue)
    <2>1. i \in 1 .. Len(queue) /\ queue'[i].kind = "signal"
      BY <1>1 DEF Signalled
    <2>2. i \in 1 .. Len(queue) - 1 => i + 1 \in Signalled
      BY <1>0, <1>1, <1>2, <2>1 DEF Signalled
    <2>3. i \notin 1 .. Len(queue) - 1
      BY <2>2
    <2>4. Len(queue) \in Nat
      BY <1>0
    <2> QED
      BY <2>1, <2>3, <2>4
  <1> QED
    BY <1>3

\* A report that waits is of an order that is not taken for filled.
LEMMA ReportedIsOpen ==
  ASSUME BooksInv, Waiting("report")
  PROVE  /\ report.id = bo.id => bo.status # "FILLED"
         /\ report.id = so.id => so.status # "FILLED"
  <1>1. 1 \in 1 .. Len(queue) /\ queue[1] = report /\ report.kind = "report"
    BY DEF BooksInv, IInv, TypeOK, Waiting, report
  <1> QED
    BY <1>1 DEF BooksInv, FillsBooked, Settled, Done, Unreported

\* A position that sells never buys again.
LEMMA SellingStageStays ==
  ASSUME UpInv, BoughtUnsold, UpMove, SellingStage
  PROVE  SellingStage'
  <1>0. /\ TypeOK /\ BooksInv /\ BuyMatches /\ NoSellUnlessSet
        /\ state \in Sells /\ bo.status = "FILLED" /\ buy = "BOUGHT"
        /\ pc \notin BuyCreates \cup BuyCancels /\ (sell = "NEW" => Signalled = {})
        /\ (state = "BOUGHT" => sell = "NEW") /\ bo'.status = "FILLED"
    BY BoughtStays DEF UpInv, BooksInv, IInv, StatesMatch, SellingStage, BoughtUnsold
  <1>1. ~ Waiting("signal") \/ state # "BOUGHT"
    <2>1. Waiting("signal") => 1 \in Signalled
      BY <1>0 DEF Waiting, Signalled, TypeOK
    <2> QED
      BY <1>0, <2>1
  <1>2. sell' = "NEW" => Signalled' = {}
    <2> SUFFICES ASSUME sell' = "NEW" PROVE Signalled' = {}
      OBVIOUS
    <2>1. ~ SendFilledSell /\ ~ SellFilledReport /\ ~ BuyFilledReport
      BY <1>0 DEF SendFilledSell, SellFilledReport, BuyFilledReport, Sells
    <2>2. \/ queue' = queue \/ (queue # <<>> /\ queue' = Tail(queue))
          \/ \E e : e.kind # "signal" /\ queue' = Append(queue, e)
      BY <1>0, <2>1, OnlyFillsSignal DEF UpMove, vars
    <2>3. sell = "NEW"
      <3>1. CASE sell' = sell
        BY <3>1
      <3>2. CASE \E q \in {0, bo.real} : ConfigureSell(q)
        BY <1>0, <3>2 DEF ConfigureSell, NoSellUnlessSet
      <3>3. CASE process_ticker \/ ClosePosition \/ UNCHANGED vars
        BY <3>1, <3>3 DEF process_ticker, SendBuy, CancelUnfilledBuy, CancelPartlyBought,
           ResendBuy, SendSell, CancelUnfilledSell, CancelPartlySold, ResendSell,
           RaiseInCondition, IgnoreTick, Ignore, Enter, ClosePosition, vars
      <3>4. CASE process_order \/ process_signal
        BY <2>1, <3>1, <3>4 DEF process_order, SellPartFilledReport, BuyPartFilledReport,
           StatusReport, DropFill, Ignore, process_signal, CloseFilledBuy, CloseFilledSell,
           RaiseOnSignal
      <3>5. CASE Answers
        BY <3>1, <3>5 DEF Answers, CreateAnswers, LoseBuyAck, LoseSellAck, LoseAck,
           CreateBuyFails, CreateSellFails, CreateFails, BuyCreated, SellCreated,
           ResendNothing, CancelAnswers, CancelFails, BuyCancelled, UnfilledSellCancelled,
           PartlySoldCancelled
      <3>6. CASE Environment
        BY <3>1, <3>2, <3>6 DEF Environment, Ticker, Fill, Snapshot, Withdraw
      <3> QED
        BY <2>1, <3>3, <3>4, <3>5, <3>6 DEF UpMove, Next, Worker
    <2> QED
      BY <1>0, <2>2, <2>3, SignalsWait
  <1>3. buy' = "BOUGHT" /\ state' \in Sells /\ pc' \notin BuyCreates \cup BuyCancels
    <2> USE DEF Sells, BuyCreates, BuyCancels
    <2>1. CASE UNCHANGED <<state, buy>> /\ (pc' = pc \/ pc' = "dead")
      BY <1>0, <2>1
    <2>2. CASE process_ticker
      <3>1. CASE SendBuy \/ CancelUnfilledBuy \/ CancelPartlyBought \/ ResendBuy
        BY <1>0, <3>1 DEF SendBuy, CanSendBuy, CancelUnfilledBuy, CanCancelUnfilledBuy,
           CancelPartlyBought, CanCancelPartlyBought, ResendBuy, CanResendBuy, CanResumeBuying
      <3>2. CASE SendSell \/ CancelUnfilledSell \/ CancelPartlySold \/ ResendSell
        BY <1>0, <3>2 DEF SendSell, CanSellPartlyBought, CanSellBought, CancelUnfilledSell,
           CancelPartlySold, ResendSell, CanResendSell, CanResumeSelling, Enter
      <3>3. CASE RaiseInCondition \/ IgnoreTick
        BY <2>1, <3>3 DEF RaiseInCondition, IgnoreTick, Ignore, Die
      <3> QED
        BY <2>2, <3>1, <3>2, <3>3 DEF process_ticker
    <2>3. CASE process_order
      BY <1>0, <2>1, <2>3 DEF process_order, BuyFilledReport, BuyPartFilledReport,
         SellFilledReport, SellPartFilledReport, StatusReport, DropFill, Ignore
    <2>4. CASE process_signal
      BY <1>0, <1>1, <2>1, <2>4 DEF process_signal, CloseFilledBuy, CloseFilledSell,
         RaiseOnSignal, Take, Die
    <2>5. CASE CreateAnswers \/ SendFilledSell
      BY <1>0, <2>1, <2>5 DEF CreateAnswers, LoseBuyAck, LoseSellAck, LoseAck,
         CreateBuyFails, CreateSellFails, CreateFails, Die, BuyCreated, SellCreated,
         AwaitsCreateBuy, ResendNothing, SendFilledSell
    <2>6. CASE CancelAnswers
      BY <1>0, <2>1, <2>6 DEF CancelAnswers, CancelFails, Die, BuyCancelled,
         UnfilledSellCancelled, PartlySoldCancelled, CancelAnswered
    <2>7. CASE ClosePosition \/ Environment \/ UNCHANGED vars
      BY <2>1, <2>7 DEF ClosePosition, Environment, Ticker, ConfigureSell, Fill, Snapshot,
         Withdraw, vars
    <2> QED
      BY <2>2, <2>3, <2>4, <2>5, <2>6, <2>7 DEF UpMove, Next, Worker, Answers
  <1> QED
    BY <1>0, <1>2, <1>3 DEF SellingStage

\* A position that buys goes on to, or sells when the signal of its fill is handled,
\* unless its buy order was closed short.
LEMMA BuyingStageStays ==
  ASSUME UpInv, UpMove, HasBuyOrder, BuyingStage,
         bo.status \notin {"CANCELED", "EXPIRED"}, bo'.status \notin {"CANCELED", "EXPIRED"}
  PROVE  BuyingStage' \/ SellingStage'
  <1> DEFINE Selling == SellCreates \cup SellCancels
             Quiet == /\ state' \in {"NEW", "BUYING", "PARTIALLY_BOUGHT"}
                      /\ sell' = "NEW" /\ so'.id = NoId /\ pc' \notin Selling
                      /\ pc' = "cancel_unfilled_buy_orders" => state' = "NEW"
                      /\ pc' = "cancel_partially_bought_orders" => state' = "PARTIALLY_BOUGHT"
                      /\ state' = "PARTIALLY_BOUGHT" =>
                             pc' \in {"cancel_partially_bought_orders", "dead"} \/ buy' = "BOUGHT"
  <1>0. /\ TypeOK /\ BooksInv /\ BuyPlan /\ BuyMatches /\ AwaitsMatch /\ bo \in BuyOrder
        /\ so \in SellOrder
        /\ state \in {"NEW", "BUYING", "PARTIALLY_BOUGHT"}
        /\ sell = "NEW" /\ so.id = NoId /\ pc \notin Selling
        /\ (pc = "cancel_unfilled_buy_orders" => state = "NEW")
        /\ (pc = "cancel_partially_bought_orders" => state = "PARTIALLY_BOUGHT")
        /\ (state = "PARTIALLY_BOUGHT" =>
               pc \in {"cancel_partially_bought_orders", "dead"} \/ buy = "BOUGHT")
        /\ (bo.status # "FILLED" => Signalled = {}) /\ (\A i, j \in Signalled : i = j)
    BY DEF UpInv, BooksInv, IInv, StatesMatch, BuyingStage, TypeOK
  <1> HIDE DEF Selling
  <1>1. ~ SellFilledReport /\ ~ SendFilledSell /\ ~ SellPartFilledReport
    BY <1>0 DEF SendFilledSell, SellFilledReport, SellPartFilledReport, Selling, SellCreates
  <1>2. CASE CloseFilledBuy
    <2>1. /\ state' = "BOUGHT" /\ buy' = "BOUGHT" /\ sell' = "NEW" /\ bo'.status = "FILLED"
          /\ pc' = "idle"
      BY <1>0, <1>2 DEF CloseFilledBuy, Take, Waiting, Running
    <2>2. Signalled' = {}
      BY <1>0, <1>2, SignalTaken DEF CloseFilledBuy
    <2> QED
      BY <2>1, <2>2 DEF SellingStage, Sells, BuyCreates, BuyCancels
  <1>3. CASE BuyFilledReport
    <2>1. Waiting("report") /\ bo.status # "FILLED" /\ Signalled = {}
      BY <1>0, <1>3, ReportedIsOpen DEF BuyFilledReport, TakeAndSignal
    <2>2. queue # <<>> /\ queue' = Append(Tail(queue), Signal)
      BY <1>3 DEF BuyFilledReport, TakeAndSignal, Waiting
    <2>3. \A i, j \in Signalled' : i = j
      BY <1>0, <2>1, <2>2, SignalSent
    <2>4. report.cum \in Nat /\ bo'.status = "FILLED"
      BY <1>0, <1>3, <2>1, ReportFields, BookedFields DEF BuyFilledReport, OrderStatus
    <2>5. state' = "BUYING" /\ pc' = "idle" /\ so' = so /\ sell' = "NEW"
      BY <1>0, <1>3 DEF BuyFilledReport, TakeAndSignal, Waiting, Running
    <2> QED
      BY <1>0, <2>3, <2>4, <2>5 DEF BuyingStage, SellCreates, SellCancels
  <1>4. CASE ~ CloseFilledBuy /\ ~ BuyFilledReport
    <2>1. /\ Signalled = {} => Signalled' = {}
          /\ \A i, j \in Signalled' : i = j
      <3>1. \/ queue' = queue \/ (queue # <<>> /\ queue' = Tail(queue))
            \/ \E e : e.kind # "signal" /\ queue' = Append(queue, e)
        BY <1>0, <1>1, <1>4, OnlyFillsSignal DEF UpMove, vars
      <3> QED
        BY <1>0, <3>1, SignalsWait
    <2>2. bo'.status # "FILLED" => Signalled' = {}
      BY <1>0, <2>1, BoughtStays
    <2>3. Quiet
      <3> USE DEF Selling, SellCreates, SellCancels
      <3>1. CASE UNCHANGED <<state, sell, so, buy>> /\ (pc' = pc \/ pc' = "dead")
        BY <1>0, <3>1
      <3>2. CASE process_ticker
        <4>1. CASE SendBuy \/ CancelUnfilledBuy \/ CancelPartlyBought
          BY <1>0, <4>1 DEF SendBuy, CancelUnfilledBuy, CancelPartlyBought, Enter
        <4>2. CASE ResendBuy \/ SendSell \/ CancelUnfilledSell \/ CancelPartlySold \/ ResendSell
          BY <1>0, <4>2 DEF ResendBuy, CanResendBuy, CanResumeBuying, SendSell,
             CanSellPartlyBought, CanSellBought, CancelUnfilledSell, CanCancelUnfilledSell,
             CancelPartlySold, CanCancelPartlySold, ResendSell, CanResendSell,
             CanResumeSelling, Take, Waiting, Running
        <4>3. CASE RaiseInCondition \/ IgnoreTick
          BY <3>1, <4>3 DEF RaiseInCondition, IgnoreTick, Ignore, Die
        <4> QED
          BY <3>2, <4>1, <4>2, <4>3 DEF process_ticker
      <3>3. CASE process_order
        <4>1. CASE BuyPartFilledReport
          BY <1>0, <4>1 DEF BuyPartFilledReport, Take, Waiting, Running
        <4>2. CASE StatusReport
          <5>1. so'.id = NoId
            BY <1>0, <4>2 DEF StatusReport, Restatus, SellOrder
          <5> QED
            BY <1>0, <4>2, <5>1 DEF StatusReport, Take, Waiting, Running
        <4> QED
          BY <1>1, <1>4, <3>1, <3>3, <4>1, <4>2 DEF process_order, DropFill, Ignore
      <3>4. CASE process_signal
        BY <1>0, <1>4, <3>1, <3>4 DEF process_signal, CloseFilledSell, RaiseOnSignal, Die
      <3>5. CASE CreateAnswers
        BY <1>0, <3>1, <3>5 DEF CreateAnswers, LoseBuyAck, LoseSellAck, LoseAck,
           CreateBuyFails, CreateSellFails, CreateFails, Die, BuyCreated, SellCreated,
           AwaitsCreateSell, ResendNothing
      <3>6. CASE CancelAnswers
        <4>1. CASE BuyCancelled
          <5>1. ~ Cancellable(bo) /\ bo' = bo
            BY <1>0, <4>1 DEF BuyCancelled, Cancelled, BuyOrder
          <5>2. CASE pc = "cancel_unfilled_buy_orders"
            BY <1>0, <4>1, <5>2 DEF BuyCancelled, CancelAnswered
          <5>3. CASE pc = "cancel_partially_bought_orders"
            <6>1. bo.real > 0
              BY <1>0, <5>3 DEF AwaitsMatch, BuyMatches
            <6>2. bo.id # NoId
              BY <1>0, <6>1 DEF BuyPlan, Resent, ResentFor, Unbooked
            <6>3. bo.status = "FILLED"
              BY <1>0, <5>1, <6>2 DEF Cancellable, BuyOrder, OrderStatus, HasBuyOrder
            <6> QED
              BY <1>0, <4>1, <5>1, <5>3, <6>3 DEF BuyCancelled, CancelAnswered, BuyAfterCancel
          <5> QED
            BY <4>1, <5>2, <5>3 DEF BuyCancelled, BuyCancels
        <4> QED
          BY <1>0, <3>1, <3>6, <4>1 DEF CancelAnswers, CancelFails, Die,
             UnfilledSellCancelled, PartlySoldCancelled
      <3>7. CASE Environment
        <4>1. ASSUME NEW q, ConfigureSell(q) PROVE Quiet
          BY <1>0, <4>1 DEF ConfigureSell, NewSellOrder
        <4> QED
          BY <3>1, <3>7, <4>1 DEF Environment, Ticker, Fill, Snapshot, Withdraw
      <3>8. CASE ClosePosition \/ UNCHANGED vars
        BY <3>1, <3>8 DEF ClosePosition, vars
      <3> QED
        BY <1>1, <3>2, <3>3, <3>4, <3>5, <3>6, <3>7, <3>8 DEF UpMove, Next, Worker, Answers
    <2> QED
      BY <2>1, <2>2, <2>3 DEF BuyingStage, Selling
  <1> QED
    BY <1>2, <1>3, <1>4

\* A position is in one of the two stages, unless its buy order was closed short.
LEMMA StagedStays ==
  ASSUME UpInv, SizesSound, BoughtUnsold, UpMove
  PROVE  Staged'
  <1> SUFFICES ASSUME HasBuyOrder', ~ Spoiled'
               PROVE  BuyingStage' \/ SellingStage'
    BY DEF Staged
  <1>0. /\ TypeOK /\ IdsAgree /\ BuyPlan /\ EndedShort /\ Staged /\ ExchangeMoves
        /\ (TypeOK /\ IdsAgree /\ BuyPlan /\ EndedShort)'
    BY PlansKept, EndedShortStays DEF UpInv, BooksInv, IInv, KeepsTrack
  <1>1. HasBuyOrder /\ ~ Spoiled
    BY <1>0, PlansKept, UpRows, SpoiledStays
  <1>2. bo.status \notin {"CANCELED", "EXPIRED"}
    BY <1>0, <1>1, EndedSpoils
  <1>3. ~ (bo.status \in {"CANCELED", "EXPIRED"})'
    BY <1>0, EndedSpoils, PTL
  <1> QED
    BY <1>0, <1>1, <1>2, <1>3, BuyingStageStays, SellingStageStays DEF Staged

(***************************************************************************)
(* The rows of a running program                                           *)
(***************************************************************************)

\* Steps that save the row of a buy order.
SavesBuyOrder == BuyCreated \/ BuyCancelled \/ BuyFilledReport \/ BuyPartFilledReport
Configures == \E q \in {0, bo.real} : ConfigureSell(q)

\* No other saves one.
LEMMA BuyRowsKept ==
  ASSUME TypeOK, IdsAgree', UpMove, ~ SavesBuyOrder,
         NEW o \in OrderIds, ex'[o].side # "SELL"
  PROVE  db'.rows[o] = db.rows[o]
  <1>0. so'.id # o
    BY DEF IdsAgree, OrderIds, NoId
  <1>1. ASSUME db'.rows = upsert_order(db.rows, so') PROVE db'.rows[o] = db.rows[o]
    BY <1>0, <1>1 DEF upsert_order, TypeOK
  <1>2. CASE process_ticker \/ process_signal \/ ClosePosition \/ UNCHANGED vars
    BY <1>2 DEF process_ticker, SendBuy, CancelUnfilledBuy, CancelPartlyBought, ResendBuy,
       SendSell, CancelUnfilledSell, CancelPartlySold, ResendSell, RaiseInCondition,
       IgnoreTick, Ignore, Enter, process_signal, CloseFilledBuy, CloseFilledSell,
       SavePosition, RaiseOnSignal, ClosePosition, vars
  <1>3. CASE process_order
    BY <1>1, <1>3 DEF SavesBuyOrder, process_order, SellFilledReport, SellPartFilledReport,
       SaveBoth, StatusReport, DropFill, Ignore
  <1>4. CASE CreateAnswers \/ SendFilledSell
    BY <1>1, <1>4 DEF SavesBuyOrder, CreateAnswers, LoseBuyAck, LoseSellAck, LoseAck,
       CreateBuyFails, CreateSellFails, CreateFails, SellCreated, ResendNothing,
       SendFilledSell, SaveBoth
  <1>5. CASE CancelAnswers
    BY <1>1, <1>5 DEF SavesBuyOrder, CancelAnswers, CancelFails, UnfilledSellCancelled,
       PartlySoldCancelled, SaveBoth, SaveOrder
  <1>6. CASE Environment
    BY <1>6 DEF Environment, Ticker, ConfigureSell, SavePosition, Fill, Snapshot, Withdraw
  <1> QED
    BY <1>2, <1>3, <1>4, <1>5, <1>6 DEF UpMove, Next, Worker, Answers

\* NEW is saved for a position by the cancellation of a buy order, and by the user.
LEMMA StrategySaved ==
  ASSUME TypeOK, UpMove
  PROVE  \/ db'.strategy = db.strategy
         \/ BuyCancelled /\ db'.strategy = BuyAfterCancel(bo')
         \/ Configures /\ db'.strategy = state
         \/ db'.strategy # "NEW"
  <1>2. CASE process_ticker \/ ClosePosition \/ UNCHANGED vars
    BY <1>2 DEF process_ticker, SendBuy, CancelUnfilledBuy, CancelPartlyBought, ResendBuy,
       SendSell, CancelUnfilledSell, CancelPartlySold, ResendSell, RaiseInCondition,
       IgnoreTick, Ignore, Enter, ClosePosition, vars
  <1>3. CASE process_order
    BY <1>3 DEF process_order, BuyFilledReport, BuyPartFilledReport, SellFilledReport,
       SellPartFilledReport, SaveBoth, StatusReport, DropFill, Ignore
  <1>4. CASE process_signal
    BY <1>4 DEF process_signal, CloseFilledBuy, CloseFilledSell, SavePosition, RaiseOnSignal
  <1>5. CASE CreateAnswers \/ SendFilledSell
    BY <1>5 DEF CreateAnswers, LoseBuyAck, LoseSellAck, LoseAck, CreateBuyFails,
       CreateSellFails, CreateFails, BuyCreated, SellCreated, ResendNothing,
       SendFilledSell, SaveBoth
  <1>6. CASE CancelAnswers
    BY <1>6 DEF CancelAnswers, CancelFails, BuyCancelled, UnfilledSellCancelled,
       PartlySoldCancelled, SaveBoth, SaveOrder, SavePosition
  <1>7. CASE Environment
    BY <1>7 DEF Environment, Ticker, ConfigureSell, Configures, SavePosition, Fill, Snapshot,
       Withdraw
  <1> QED
    BY <1>2, <1>3, <1>4, <1>5, <1>6, <1>7 DEF UpMove, Next, Worker, Answers

\* What a step of a running program starts from, and what was proved of its end.
Moves ==
    /\ UpInv /\ SizesSound /\ LostUnsaved /\ FilledRows /\ RowsStaged /\ CInv
    /\ UpMove /\ SizesSound' /\ LostUnsaved' /\ FilledRows' /\ CInv' /\ Staged' /\ EndedShort'
    /\ phase = "up" /\ phase' = "up"
    /\ UpStep \/ UNCHANGED <<pos, db>>

\* A position with a filled buy order is not saved as NEW.
LEMMA FilledBuyIsNotNew ==
  ASSUME Moves, NEW o \in OrderIds, ex'[o].side = "BUY", db'.rows[o].status = "FILLED"
  PROVE  db'.strategy # "NEW"
  <1>0. /\ TypeOK /\ TypeOK' /\ IdsAgree' /\ ExchangeMoves /\ RowsPlaced /\ FlatMatches
        /\ bo'.status = "FILLED"
    BY PlansKept DEF Moves, UpInv, BooksInv, IInv, KeepsTrack, FilledRows, CInv, StatesMatch
  <1>1. CASE BuyCreated \/ BuyFilledReport \/ BuyPartFilledReport
    BY <1>1 DEF BuyCreated, BuyFilledReport, BuyPartFilledReport, SaveBoth
  <1>2. CASE BuyCancelled
    BY <1>0, <1>2 DEF BuyCancelled, BuyAfterCancel, SavePosition
  <1>3. CASE ~ SavesBuyOrder
    <2>1. db.rows[o].status = "FILLED" /\ ex[o].side = "BUY"
      <3>1. db'.rows[o] = db.rows[o]
        BY <1>0, <1>3, BuyRowsKept DEF Moves
      <3> QED
        BY <1>0, <3>1 DEF RowsPlaced, ExchangeMoves
    <2>2. db.strategy # "NEW"
      BY <2>1 DEF Moves, RowsStaged, Saved
    <2>3. state # "NEW"
      <3>1. Done(o)
        BY <2>1 DEF Moves, CInv, RInv, RowsDone
      <3>2. seen[o] # 0
        <4>1. ex[o].qty > 0
          BY <2>1 DEF Moves, SizesSound
        <4>2. seen[o] = ex[o].qty
          BY <3>1 DEF Done
        <4> QED
          BY <4>1, <4>2
      <3> QED
        BY <1>0, <2>1, <3>2 DEF FlatMatches
    <2> QED
      BY <1>0, <1>3, <2>2, <2>3, StrategySaved DEF Moves, SavesBuyOrder
  <1> QED
    BY <1>1, <1>2, <1>3 DEF SavesBuyOrder

\* What was saved of a side stays saved.
LEMMA NoneSavedBefore ==
  ASSUME Moves, NEW side, Saved(side)' = {}
  PROVE  Saved(side) = {}
  <1>1. TypeOK /\ TypeOK' /\ ExchangeMoves /\ RowsPlaced
    BY PlansKept DEF Moves, UpInv, BooksInv, IInv, CInv
  <1>2. CASE Next \/ SendFilledSell
    BY <1>1, <1>2, SavedStays
  <1>3. CASE UNCHANGED vars
    BY <1>3 DEF vars, Saved
  <1> QED
    BY <1>2, <1>3 DEF Moves, UpMove

\* What the buy row of a position says that has saved no buy order.
LEMMA UnboughtIsNew ==
  ASSUME Moves, pos'.type = "BUY", Saved("BUY")' = {}
  PROVE  db'.strategy = "NEW"
  <1>0. /\ BooksInv /\ BooksInv' /\ TypeOK /\ TypeOK' /\ IdsAgree /\ (FillsBooked /\ IdsAgree)'
        /\ BuyMatches /\ AwaitsMatch /\ Settled(bo) /\ HasBuyOrder' = HasBuyOrder
    BY PlansKept DEF Moves, UpInv, BooksInv, IInv, KeepsTrack, StatesMatch, FillsBooked
  <1>1. HasBuyOrder
    BY <1>0 DEF Moves, CInv, OnlySells
  <1>2. Saved("BUY") = {}
    BY NoneSavedBefore DEF Moves
  <1>3. bo.id = NoId /\ bo.real = 0 /\ bo'.id = NoId
    BY <1>0, <1>1, <1>2 DEF Moves, CInv, NothingBought, NothingSent
  <1>4. bo.status # "FILLED" /\ bo'.status # "FILLED" /\ bo'.status # "CANCELED"
    BY <1>0, <1>3 DEF FillsBooked, Settled, Moves, EndedShort
  <1>5. CASE UNCHANGED <<pos, db>>
    BY <1>2, <1>5 DEF Moves, RowsStaged
  <1>6. CASE StepSavingBuy
    <2>1. ~ BuyCreated
      BY <1>0, <1>3, SentFields, NextIdFree DEF BuyCreated, OrderIds, NoId, TypeOK
    <2>2. ~ BuyFilledReport /\ ~ BuyPartFilledReport
      BY <1>0, <1>3, ReportFields DEF BuyFilledReport, BuyPartFilledReport, Take,
         TakeAndSignal, OrderIds, NoId
    <2>3. ~ CloseFilledBuy
      BY <1>1, <1>0, <1>4 DEF CloseFilledBuy, BuyMatches
    <2>4. BuyCancelled
      BY <1>6, <2>1, <2>2, <2>3 DEF StepSavingBuy, SavesBuyRow
    <2>5. buy = "NEW"
      BY <1>0, <1>1, <1>3, <2>4 DEF BuyCancelled, BuyCancels, AwaitsMatch, BuyMatches
    <2> QED
      BY <1>4, <2>4, <2>5 DEF BuyCancelled, SavePosition, BuyAfterCancel
  <1>7. CASE StepSavingSell \/ Complete
    BY <1>7 DEF StepSavingSell, Complete, SellRow
  <1>8. CASE StepSavingNone
    <2>1. db'.strategy = db.strategy /\ pos' = pos
      BY <1>8 DEF StepSavingNone, SavesNoRow, process_ticker, SendBuy, CancelUnfilledBuy,
         CancelPartlyBought, ResendBuy, SendSell, CancelUnfilledSell, CancelPartlySold,
         ResendSell, RaiseInCondition, IgnoreTick, Ignore, Enter, StatusReport, DropFill,
         RaiseOnSignal, LoseBuyAck, CreateBuyFails, LoseSellAck, CreateSellFails, LoseAck,
         CreateFails, CancelFails, PartlySoldCancelled, SaveOrder, ClosePosition, Ticker, Fill
    <2> QED
      BY <1>2, <2>1 DEF Moves, RowsStaged
  <1> QED
    BY <1>5, <1>6, <1>7, <1>8 DEF Moves, UpStep

\* What is offered of a position without saved orders it never bought.
LEMMA UnsavedIsOffered ==
  ASSUME Moves, Saved("BUY")' = {}, Saved("SELL")' = {}
  PROVE  pos'.qty <= Quantity
  <1>0. Saved("BUY") = {} /\ Saved("SELL") = {} /\ Offers'
    BY NoneSavedBefore, PlansKept DEF Moves
  <1>1. CASE pos' = pos
    BY <1>0, <1>1 DEF Moves, RowsStaged
  <1>2. CASE HasBuyOrder'
    BY <1>2, QuantityAssumption DEF Moves, CInv, NothingBought
  <1>3. CASE ~ HasBuyOrder' /\ (pos' = BuyRow \/ pos' = SellRow(so'))
    <2>1. so'.qty <= Quantity
      BY <1>0, <1>3 DEF Offers, Holding
    <2> QED
      BY <1>3, <2>1, QuantityAssumption DEF BuyRow, SellRow
  <1>4. pos' \in {pos, BuyRow, SellRow(so')}
    BY DEF Moves, UpStep, StepSavingBuy, StepSavingSell, StepSavingNone, Complete,
       CloseFilledSell
  <1> QED
    BY <1>1, <1>2, <1>3, <1>4

\* Without a sell order in hand none is saved.
LEMMA UnsentIsUnsaved ==
  ASSUME SellPlan, LostUnsaved, so.id = NoId
  PROVE  Saved("SELL") = {}
  BY DEF SellPlan, LostUnsaved, Saved

\* While a position buys no sell order is sent.
LEMMA BuyingSendsNoSell ==
  ASSUME Moves, BuyingStage
  PROVE  so'.id = NoId
  <1>0. so.id = NoId /\ pc \notin SellCreates
    BY DEF BuyingStage
  <1>1. CASE SendFilledSell
    BY <1>0, <1>1 DEF SendFilledSell, SellCreates
  <1>2. CASE [Next]_vars
    <2>1. SellMove
      BY <1>2, OrdersMove DEF Moves, UpInv
    <2> QED
      BY <1>0, <2>1 DEF SellMove, SellStays, SellBooks, SellCreated, AwaitsCreateSell,
         SellRenewed, OrderIds, NoId
  <1> QED
    BY <1>1, <1>2 DEF Moves, UpMove

\* What a position that buys is saved as.
LEMMA BuyingSaves ==
  ASSUME Moves, BuyingStage, HasBuyOrder
  PROVE  \/ db'.strategy = db.strategy
         \/ db'.strategy \in {"NEW", "BUYING", "PARTIALLY_BOUGHT", "BOUGHT"}
  <1>0. /\ TypeOK /\ state \in {"NEW", "BUYING", "PARTIALLY_BOUGHT"} /\ sell = "NEW"
        /\ pc \notin SellCreates \cup SellCancels
        /\ buy \in {"NEW", "PARTIALLY_BOUGHT", "BOUGHT"}
    BY DEF Moves, UpInv, BooksInv, IInv, TypeOK, BuyingStage
  <1>2. CASE process_ticker \/ ClosePosition \/ UNCHANGED vars
    BY <1>2 DEF process_ticker, SendBuy, CancelUnfilledBuy, CancelPartlyBought, ResendBuy,
       SendSell, CancelUnfilledSell, CancelPartlySold, ResendSell, RaiseInCondition,
       IgnoreTick, Ignore, Enter, ClosePosition, vars
  <1>3. CASE process_order
    BY <1>0, <1>3 DEF process_order, BuyFilledReport, BuyPartFilledReport, SellFilledReport,
       SellPartFilledReport, SaveBoth, StatusReport, DropFill, Ignore
  <1>4. CASE process_signal
    BY <1>0, <1>4 DEF process_signal, CloseFilledBuy, CloseFilledSell, SavePosition,
       RaiseOnSignal
  <1>5. CASE CreateAnswers \/ SendFilledSell
    BY <1>0, <1>5 DEF CreateAnswers, LoseBuyAck, LoseSellAck, LoseAck, CreateBuyFails,
       CreateSellFails, CreateFails, BuyCreated, SellCreated, AwaitsCreateSell,
       ResendNothing, SendFilledSell, SaveBoth, SellCreates
  <1>6. CASE CancelAnswers
    BY <1>0, <1>6 DEF CancelAnswers, CancelFails, BuyCancelled, BuyAfterCancel,
       UnfilledSellCancelled, PartlySoldCancelled, SaveBoth, SaveOrder, SavePosition,
       SellCancels
  <1>7. CASE Environment
    BY <1>0, <1>7 DEF Environment, Ticker, ConfigureSell, SavePosition, Fill, Snapshot,
       Withdraw
  <1> QED
    BY <1>2, <1>3, <1>4, <1>5, <1>6, <1>7 DEF Moves, UpMove, Next, Worker, Answers

\* What a position that sells is saved as: it stays saved, or is saved as one.
LEMMA SellingSaves ==
  ASSUME Moves, SellingStage
  PROVE  \/ db' = db /\ pos' = pos
         \/ PartlySoldCancelled /\ db'.strategy = db.strategy /\ pos' = pos
         \/ db'.strategy \in Sells /\ pos'.type = "SELL"
  <1>0. /\ TypeOK /\ state \in Sells /\ bo.status = "FILLED" /\ buy = "BOUGHT"
        /\ pc \notin BuyCreates \cup BuyCancels /\ (sell = "NEW" => Signalled = {})
        /\ (state = "BOUGHT" => sell = "NEW")
    BY DEF Moves, UpInv, BooksInv, IInv, SellingStage, CInv, BoughtUnsold
  <1>1. ~ CloseFilledBuy
    <2>1. Waiting("signal") => 1 \in Signalled
      BY <1>0 DEF Waiting, Signalled, TypeOK
    <2> QED
      BY <1>0, <2>1 DEF CloseFilledBuy, Take, Sells
  <1>2. ~ SavesBuyOrder
    BY <1>0 DEF SavesBuyOrder, BuyCreated, AwaitsCreateBuy, BuyCancelled, BuyFilledReport,
       BuyPartFilledReport, Sells
  <1>3. CASE UNCHANGED <<pos, db>>
    BY <1>3
  <1>4. CASE StepSavingNone
    BY <1>4 DEF StepSavingNone, SavesNoRow, process_ticker, SendBuy, CancelUnfilledBuy,
       CancelPartlyBought, ResendBuy, SendSell, CancelUnfilledSell, CancelPartlySold,
       ResendSell, RaiseInCondition, IgnoreTick, Ignore, Enter, StatusReport, DropFill,
       RaiseOnSignal, LoseBuyAck, CreateBuyFails, LoseSellAck, CreateSellFails, LoseAck,
       CreateFails, CancelFails, PartlySoldCancelled, SaveOrder, ClosePosition, Ticker, Fill
  <1>5. CASE StepSavingSell \/ Complete
    <2>1. pos'.type = "SELL"
      BY <1>5 DEF StepSavingSell, Complete, SellRow
    <2>2. CASE CloseFilledSell
      BY <1>0, <2>1, <2>2 DEF CloseFilledSell, SavePosition, Sells
    <2>3. CASE Configures
      BY <1>0, <2>1, <2>3 DEF Configures, ConfigureSell, SavePosition
    <2>4. CASE SellCreated \/ ResendNothing \/ SendFilledSell
      BY <2>1, <2>4 DEF SellCreated, ResendNothing, SendFilledSell, SaveBoth, Sells
    <2>5. CASE UnfilledSellCancelled
      BY <1>0, <2>1, <2>5 DEF UnfilledSellCancelled, SaveBoth, Sells
    <2>6. CASE SellFilledReport \/ SellPartFilledReport
      BY <2>1, <2>6 DEF SellFilledReport, SellPartFilledReport, SaveBoth, Sells
    <2> QED
      BY <1>1, <1>5, <2>2, <2>3, <2>4, <2>5, <2>6 DEF StepSavingSell, SavesSellRow, Complete,
         Configures
  <1> QED
    BY <1>1, <1>2, <1>3, <1>4, <1>5 DEF Moves, UpStep, StepSavingBuy, SavesBuyRow,
       SavesBuyOrder

\* The saved state of a position says which side its saved orders are of.
LEMMA SavedIsStaged ==
  ASSUME Moves, HasBuyOrder', ~ Spoiled'
  PROVE  /\ db'.strategy \in {"NEW", "BUYING", "PARTIALLY_BOUGHT"} \cup Sells
         /\ Saved("SELL")' # {} => pos'.type = "SELL" /\ db'.strategy \in Sells
  <1>0. /\ TypeOK /\ TypeOK' /\ ExchangeMoves /\ RowsPlaced /\ Staged /\ KnownSaved
        /\ SellPlan' /\ IdsAgree /\ Resent("SELL", so)
    BY PlansKept DEF Moves, UpInv, BooksInv, IInv, KeepsTrack, CInv, RInv, SellPlan
  <1>1. HasBuyOrder /\ ~ Spoiled
    BY <1>0, PlansKept, UpRows, SpoiledStays DEF Moves
  <1>2. /\ db.strategy \in {"NEW", "BUYING", "PARTIALLY_BOUGHT"} \cup Sells
        /\ Saved("SELL") # {} => pos.type = "SELL" /\ db.strategy \in Sells
    BY <1>1 DEF Moves, RowsStaged
  <1>3. CASE BuyingStage
    <2>1. db'.strategy \in {"NEW", "BUYING", "PARTIALLY_BOUGHT"} \cup Sells
      BY <1>1, <1>2, <1>3, BuyingSaves DEF Sells
    <2>2. (so.id = NoId /\ SellPlan /\ LostUnsaved)'
      BY <1>0, <1>3, BuyingSendsNoSell DEF Moves, NoId
    <2>3. (Saved("SELL") = {})'
      BY <2>2, UnsentIsUnsaved, PTL
    <2> QED
      BY <2>1, <2>3
  <1>4. CASE SellingStage
    <2>1. CASE db'.strategy \in Sells /\ pos'.type = "SELL"
      BY <2>1
    <2>2. CASE db' = db /\ pos' = pos
      <3>1. Saved("SELL")' # {} => Saved("SELL") # {}
        BY <1>0, <2>2 DEF Saved, RowsPlaced, ExchangeMoves
      <3> QED
        BY <1>2, <2>2, <3>1
    <2>3. CASE PartlySoldCancelled /\ db'.strategy = db.strategy /\ pos' = pos
      <3>1. ASSUME NEW o \in Saved("SELL")' PROVE Saved("SELL") # {}
        <4>1. o \in OrderIds /\ db'.rows[o].status # "NONE" /\ ex'[o].side = "SELL"
          BY DEF Saved
        <4>2. CASE db'.rows[o] = db.rows[o]
          <5>1. o \in Saved("SELL")
            BY <1>0, <4>1, <4>2 DEF Saved, RowsPlaced, ExchangeMoves
          <5> QED
            BY <5>1
        <4>3. CASE db'.rows[o] # db.rows[o]
          <5>1. so.id # NoId /\ so.id \in OrderIds
            BY <1>0, <2>3, <4>1, <4>3 DEF PartlySoldCancelled, SaveOrder, upsert_order,
               Cancelled, TypeOK, SellOrder
          <5>2. so.id \in Saved("SELL")
            BY <1>0, <5>1 DEF Saved, KnownSaved, Known, IdsAgree, Resent
          <5> QED
            BY <5>2
        <4> QED
          BY <4>2, <4>3
      <3> QED
        BY <1>2, <2>3, <3>1
    <2> QED
      BY <1>4, <2>1, <2>2, <2>3, SellingSaves DEF Sells
  <1> QED
    BY <1>0, <1>1, <1>3, <1>4 DEF Staged

LEMMA RowsStagedStay ==
  ASSUME Moves
  PROVE  RowsStaged'
  <1>1. (\E o \in Saved("BUY") : db.rows[o].status = "FILLED")' => db'.strategy # "NEW"
    BY FilledBuyIsNotNew DEF Saved
  <1> QED
    BY <1>1, UnboughtIsNew, UnsavedIsOffered, SavedIsStaged DEF RowsStaged

\* A position that waits in BUYING is not saved as NEW.
LEMMA BuyingStaysSaved ==
  ASSUME UpInv, UpMove
  PROVE  BuyingSaved'
  <1> SUFFICES ASSUME state' = "BUYING", pc' = "idle" PROVE db'.strategy # "NEW"
    BY DEF BuyingSaved
  <1>1. [Next]_vars
    BY DEF UpMove, SendFilledSell
  <1>2. BuyCreated \/ (pc = "idle" /\ state = "BUYING")
    BY <1>1, StillBuying DEF UpInv, BooksInv, IInv
  <1>3. CASE BuyCreated
    BY <1>3 DEF BuyCreated, SaveBoth
  <1>4. CASE pc = "idle" /\ state = "BUYING"
    <2>1. db.strategy # "NEW"
      BY <1>4 DEF UpInv, BuyingSaved
    <2>2. ~ BuyCancelled
      BY <1>4 DEF BuyCancelled, BuyCancels
    <2> QED
      BY <1>4, <2>1, <2>2, StrategySaved DEF UpInv, BooksInv, IInv
  <1> QED
    BY <1>2, <1>3, <1>4

\* While the program is up the invariant is kept.
LEMMA UpStepKeepsPlans ==
  ASSUME KInv, phase = "up", phase' = "up", UpStep \/ UNCHANGED rvars, CInv'
  PROVE  KInv'
  <1>1. UpMove /\ (UpStep \/ UNCHANGED <<pos, db>>)
    BY UpSteps DEF UpMove, rvars, vars
  <1>2. /\ UpInv /\ SizesSound /\ LostUnsaved /\ FilledRows /\ RowsStaged /\ CInv
        /\ BoughtUnsold /\ RowsPlaced /\ RowsDone /\ SellAtRest /\ TypeOK
    BY DEF KInv, CInv, RInv, IInv
  <1>3. /\ BooksInv' /\ BuyPlan' /\ SellPlan' /\ BuyingMatches' /\ Offers'
    BY <1>1, <1>2, PlansKept
  <1>4. SizesSound' /\ LostUnsaved' /\ FilledRows'
    BY <1>1, <1>2, SizesStay, LostStaysUnsaved, FilledRowsStay
  <1>5. ClosedShort' /\ EndedShort' /\ BuyingSaved' /\ Staged'
    BY <1>1, <1>2, ClosedShortStays, EndedShortStays, BuyingStaysSaved, StagedStays
  <1>6. RowsStaged'
    BY <1>1, <1>2, <1>4, <1>5, RowsStagedStay DEF Moves
  <1> QED
    BY <1>3, <1>4, <1>5, <1>6 DEF KInv, UpInv

(***************************************************************************)
(* The plans through a crash                                               *)
(***************************************************************************)

\* What was offered stays offered while the orders in hand stay.
LEMMA OfferedStays ==
  ASSUME NEW side \in {"BUY", "SELL"}, NEW order, Offered(side, order),
         order.id \in OrderIds \cup {NoId}, order.id # NoId => ex[order.id].side = side,
         NoId \notin lostAck', OthersStay(side, order.id)
  PROVE  Offered(side, order)' /\ Earlier(side, order.id)' = Earlier(side, order.id)
  <1>1. Earlier(side, order.id)' = Earlier(side, order.id)
    BY DEF OthersStay, Earlier
  <1>2. \A e \in Earlier(side, order.id) : seen'[e] = seen[e]
    BY DEF OthersStay, Earlier, Traded
  <1>3. \A e \in OrderIds : Earlier(side, order.id) = {e} => e \in Earlier(side, order.id)
    OBVIOUS
  <1>4. order.id # NoId => ex'[order.id].qty = ex[order.id].qty
    BY DEF OthersStay
  <1>5. order.id \notin lostAck'
    BY DEF OthersStay, Offered
  <1> QED
    BY <1>1, <1>2, <1>3, <1>4, <1>5 DEF Offered

LEMMA OffersStay ==
  ASSUME TypeOK, TypeOK', IdsAgree, BooksSound, ExchangeMoves, Offers, bo' = bo, so' = so,
         OthersStay("BUY", bo.id), OthersStay("SELL", so.id),
         \A o \in OrderIds : ex[o].side = "NONE" => ex'[o].side = "NONE" \/ o \in lostAck'
  PROVE  Offers'
  <1>0. /\ bo.id \in OrderIds \cup {NoId} /\ so.id \in OrderIds \cup {NoId}
        /\ NoId \notin lostAck' /\ bo.qty \in Nat /\ so.qty \in Nat
    BY DEF TypeOK, BuyOrder, SellOrder, OrderIds, NoId
  <1>1. Offered("BUY", bo)' /\ Earlier("BUY", bo.id)' = Earlier("BUY", bo.id)
    <2>1. PICK order : order = bo
      OBVIOUS
    <2>2. Offered("BUY", order)' /\ Earlier("BUY", order.id)' = Earlier("BUY", order.id)
      BY <1>0, <2>1, OfferedStays DEF Offers, IdsAgree
    <2> QED
      BY <2>1, <2>2 DEF Offered, Earlier, Traded
  <1>2. Offered("SELL", so)'
    <2>1. PICK order : order = so
      OBVIOUS
    <2>2. Offered("SELL", order)'
      BY <1>0, <2>1, OfferedStays DEF Offers, IdsAgree
    <2> QED
      BY <2>1, <2>2 DEF Offered, Earlier, Traded
  <1>3. \A o \in OrderIds \ lostAck', side \in {"BUY", "SELL"} :
            ex'[o].side = side => ex[o].side = side /\ o \notin lostAck
    BY DEF OthersStay, ExchangeMoves
  <1>4. HasBuyOrder' = HasBuyOrder
    BY DEF HasBuyOrder
  <1>5. Holding <= Holding' /\ Holding \in Nat /\ (Holding \in Nat)'
    BY <1>4, HoldingGrows, HoldingType, PTL
  <1>6. so'.qty <= Holding'
    BY <1>0, <1>5 DEF Offers
  <1>7. IF HasBuyOrder' THEN bo'.qty = Quantity
        ELSE bo'.id = NoId /\ \A o \in OrderIds \ lostAck' : ex'[o].side # "BUY"
    BY <1>3, <1>4 DEF Offers
  <1>8. bo'.id = NoId => Earlier("BUY", NoId)' = {}
    <2> SUFFICES ASSUME bo.id = NoId PROVE Earlier("BUY", NoId)' = {}
      OBVIOUS
    <2>1. Earlier("BUY", NoId) = {}
      BY DEF Offers
    <2> QED
      BY <1>0, <2>1 DEF OthersStay, Earlier, OrderIds, NoId
  <1>9. so'.id = NoId => \A o \in OrderIds \ lostAck' : ex'[o].side # "SELL"
    BY <1>3 DEF Offers
  <1> QED
    BY <1>1, <1>2, <1>6, <1>7, <1>8, <1>9 DEF Offers

\* A crash loses only the answer about a free id.
LEMMA CrashLoses ==
  ASSUME Crash, NEW o \in OrderIds, ex[o].side # "NONE"
  PROVE  o \in lostAck' <=> o \in lostAck
  BY NextIdFree DEF Crash, LosesAnswer

\* A crash leaves what every order but the one in hand has booked.
LEMMA CrashKeepsOthers ==
  ASSUME TypeOK, IdsAgree, BooksSound, Crash
  PROVE  /\ OthersStay("BUY", bo.id) /\ OthersStay("SELL", so.id)
         /\ \A o \in OrderIds \ {bo.id, so.id} :
               seen'[o] = seen[o] /\ db'.rows[o] = db.rows[o]
  <1>1. CrashedExchange
    BY CrashLeavesExchange
  <1>2. \A o \in OrderIds :
            (seen'[o] = seen[o] /\ db'.rows[o] = db.rows[o]) \/ FillSaved(o)
    <2>1. ASSUME NEW p \in OrderIds, FillSaved(p), NEW o \in OrderIds \ {p}
          PROVE  seen'[o] = seen[o] /\ db'.rows[o] = db.rows[o]
      BY <2>1 DEF FillSaved, TypeOK
    <2> QED
      BY <2>1, CrashLeavesRows
  <1>3. \A o \in OrderIds : FillSaved(o) =>
           /\ o \in {bo.id, so.id}
           /\ o = bo.id => ex[o].side = "BUY"
           /\ o = so.id => ex[o].side = "SELL"
    BY DEF FillSaved, IdsAgree, OrderIds, NoId
  <1>4. \A o \in OrderIds : ex[o].side = "NONE" =>
           ex'[o].side = "NONE" \/ o \in lostAck'
    BY <1>1 DEF CrashedExchange
  <1>5. \A o \in OrderIds : ex[o].side # "NONE" =>
           /\ ex'[o].side = ex[o].side /\ ex'[o].qty = ex[o].qty
           /\ o \in lostAck' <=> o \in lostAck
    BY <1>1, CrashLoses DEF CrashedExchange, ExchangeMoves
  <1>6. \A o \in OrderIds : ex[o].side = "NONE" => seen[o] = 0
    BY DEF BooksSound, TypeOK
  <1> QED
    BY <1>2, <1>3, <1>4, <1>5, <1>6 DEF OthersStay, Traded

\* What was saved of the orders stays, and no other order is saved.
LEMMA CrashKeepsSaved ==
  ASSUME CInv, Offers, Crash, RInv', NEW side \in {"BUY", "SELL"}
  PROVE  Saved(side)' = Saved(side)
  <1>1. TypeOK /\ IdsAgree /\ RowsPlaced /\ KnownSaved /\ BooksSound
    BY DEF CInv, RInv, IInv, KeepsTrack, FillsBooked
  <1>2. ASSUME NEW o \in Saved(side)' PROVE o \in Saved(side)
    <2>1. o \in OrderIds /\ db'.rows[o].status # "NONE" /\ ex'[o].side = side
      BY <1>2 DEF Saved
    <2>2. ex[o].side = side /\ (db.rows[o].status # "NONE" \/ o \in {bo.id, so.id})
      BY <2>1, CrashKeepsRows
    <2>3. o \in {bo.id, so.id} => o \notin lostAck
      BY DEF Offers, Offered
    <2> QED
      BY <1>1, <2>1, <2>2, <2>3 DEF KnownSaved, Known, Saved
  <1>3. ASSUME NEW o \in Saved(side) PROVE o \in Saved(side)'
    <2>1. o \in OrderIds /\ db.rows[o].status # "NONE" /\ ex[o].side = side
      BY <1>3 DEF Saved
    <2>2. ex'[o].side = side
      BY <1>1, <2>1, CrashLeavesExchange DEF CrashedExchange, ExchangeMoves
    <2>3. db'.rows[o] = db.rows[o] \/ db'.rows[o].status = "FILLED"
      <3>1. ASSUME NEW p \in OrderIds, FillSaved(p)
            PROVE  db'.rows[o] = db.rows[o] \/ db'.rows[o].status = "FILLED"
        BY <2>1, <3>1 DEF FillSaved
      <3> QED
        BY <1>1, <3>1, CrashLeavesRows
    <2> QED
      BY <2>1, <2>2, <2>3 DEF Saved
  <1> QED
    BY <1>2, <1>3

\* A crash keeps what the rows say of the orders.
LEMMA CrashKeepsFilledRows ==
  ASSUME KInv, Crash
  PROVE  FilledRows' /\ LostUnsaved'
  <1>1. /\ TypeOK /\ IdsAgree /\ RowsPlaced /\ BooksSound /\ RowsDone /\ FilledRows
        /\ LostUnsaved /\ phase' = "down" /\ bo' = bo /\ so' = so /\ Offers
        /\ bo.id \notin lostAck /\ so.id \notin lostAck
    BY DEF KInv, CInv, RInv, IInv, KeepsTrack, FillsBooked, Crash, Offers, Offered
  <1>2. FilledRows'
    <2> SUFFICES ASSUME NEW o \in OrderIds, db'.rows[o].status = "FILLED"
                 PROVE  /\ db'.rows[o].real = seen'[o]
                        /\ ex'[o].side = "BUY" => bo.id = o
                        /\ ex'[o].side = "SELL" => so.id = o
      BY <1>1 DEF FilledRows
    <2>1. CASE FillSaved(o)
      BY <1>1, <2>1 DEF FillSaved, IdsAgree, OrderIds, NoId, TypeOK
    <2>2. CASE db'.rows[o] = db.rows[o] /\ seen'[o] = seen[o]
      <3>1. ex'[o].side = ex[o].side
        BY <1>1, <2>2, CrashLeavesExchange DEF RowsDone, CrashedExchange, ExchangeMoves
      <3> QED
        BY <1>1, <2>2, <3>1 DEF FilledRows
    <2>3. FillSaved(o) \/ (db'.rows[o] = db.rows[o] /\ seen'[o] = seen[o])
      <3>1. ASSUME NEW p \in OrderIds \ {o}, FillSaved(p)
            PROVE  db'.rows[o] = db.rows[o] /\ seen'[o] = seen[o]
        BY <1>1, <3>1 DEF FillSaved, TypeOK
      <3> QED
        BY <1>1, <3>1, CrashLeavesRows
    <2> QED
      BY <2>1, <2>2, <2>3
  <1>3. LostUnsaved'
    <2> SUFFICES ASSUME NEW o \in OrderIds, o \in lostAck'
                 PROVE  db'.rows[o].status = "NONE" /\ seen'[o] = 0
      BY <1>1, CrashLeavesExchange DEF LostUnsaved, CrashedExchange
    <2>1. o \in lostAck \/ ex[o].side = "NONE"
      BY CrashLoses
    <2>2. db.rows[o].status = "NONE" /\ seen[o] = 0
      BY <1>1, <2>1 DEF LostUnsaved, RowsPlaced, BooksSound, TypeOK
    <2>3. o \notin {bo.id, so.id}
      BY <1>1, <2>1 DEF IdsAgree, OrderIds, NoId
    <2> QED
      BY <1>1, <2>2, <2>3, CrashKeepsOthers
  <1> QED
    BY <1>2, <1>3

LEMMA CrashKeepsPlans ==
  ASSUME KInv, Crash, CInv'
  PROVE  KInv'
  <1>1. /\ TypeOK /\ TypeOK' /\ IdsAgree /\ BooksSound /\ Offers /\ RowsStaged /\ SizesSound
        /\ CInv /\ RInv' /\ OffIsDead /\ KnownSaved
    BY DEF KInv, CInv, RInv, IInv, KeepsTrack, FillsBooked
  <1>2. phase' = "down" /\ bo' = bo /\ so' = so /\ pos' = pos
    BY DEF Crash
  <1>3. CrashedExchange /\ ExchangeMoves /\ db'.strategy = db.strategy
    BY <1>1, CrashLeavesExchange, CrashLeavesRows DEF CrashedExchange
  <1>4. Saved("BUY")' = Saved("BUY") /\ Saved("SELL")' = Saved("SELL")
    BY <1>1, CrashKeepsSaved
  <1>5. Offers'
    BY <1>1, <1>2, <1>3, CrashKeepsOthers, OffersStay DEF CrashedExchange
  <1>6. SizesSound' /\ FilledRows' /\ LostUnsaved'
    BY <1>1, SizesSurvive, CrashKeepsFilledRows
  <1>7. ASSUME NEW o \in Saved("BUY"), db'.rows[o].status = "FILLED"
        PROVE  db.strategy # "NEW"
    <2>0. o \in OrderIds /\ ex[o].side = "BUY"
      BY DEF Saved
    <2>1. CASE db.rows[o].status = "FILLED"
      BY <1>1, <2>1 DEF RowsStaged
    <2>2. CASE db.rows[o].status # "FILLED"
      <3>1. FillSaved(o)
        <4>1. ASSUME NEW p \in OrderIds \ {o}, FillSaved(p) PROVE FALSE
          BY <1>7, <2>0, <2>2, <4>1 DEF FillSaved
        <4> QED
          BY <1>1, <1>7, <2>0, <2>2, <4>1, CrashLeavesRows
      <3>2. o # so.id
        BY <1>1, <2>0 DEF IdsAgree, OrderIds, NoId
      <3>3. state = "BUYING" /\ pc = "idle"
        BY <3>1, <3>2 DEF FillSaved
      <3>4. BuyingSaved
        BY <1>1, <3>3 DEF OffIsDead, RInv, RTypes, KInv, UpInv
      <3> QED
        BY <3>3, <3>4 DEF BuyingSaved
    <2> QED
      BY <2>1, <2>2
  <1>8. HasBuyOrder' /\ ~ Spoiled' => HasBuyOrder /\ ~ Spoiled
    BY <1>1, <1>2, <1>3, CrashLoses, SpoiledStays DEF HasBuyOrder
  <1>9. RowsStaged'
    BY <1>1, <1>2, <1>3, <1>4, <1>7, <1>8 DEF RowsStaged
  <1> QED
    BY <1>2, <1>5, <1>6, <1>9 DEF KInv

\* What trades, and does not reach the program, takes nothing from its plans.
LEMMA QuietKeepsPlans ==
  ASSUME KInv, CInv', phase # "up", phase' # "up",
         UNCHANGED <<bo, so, seen, lostAck, db, pos>>, ExchangeMoves, SizesSound',
         \A o \in OrderIds : ex'[o].side = ex[o].side
  PROVE  KInv'
  <1>1. /\ TypeOK /\ TypeOK' /\ IdsAgree /\ BooksSound /\ Offers /\ RowsStaged /\ FilledRows
        /\ LostUnsaved
    BY DEF KInv, CInv, RInv, IInv, KeepsTrack, FillsBooked
  <1>2. Saved("BUY")' = Saved("BUY") /\ Saved("SELL")' = Saved("SELL")
    BY DEF Saved
  <1>3. OthersStay("BUY", bo.id) /\ OthersStay("SELL", so.id)
    BY <1>1 DEF OthersStay, Traded, ExchangeMoves, BooksSound, TypeOK
  <1>4. Offers'
    BY <1>1, <1>3, OffersStay
  <1>5. FilledRows' /\ LostUnsaved'
    BY <1>1 DEF FilledRows, LostUnsaved
  <1>6. HasBuyOrder' /\ ~ Spoiled' => HasBuyOrder /\ ~ Spoiled
    BY <1>1, SpoiledStays DEF HasBuyOrder
  <1>7. RowsStaged'
    BY <1>1, <1>2, <1>6 DEF RowsStaged
  <1> QED
    BY <1>4, <1>5, <1>7 DEF KInv

LEMMA UnseenKeepsPlans ==
  ASSUME KInv, CInv', NEW o \in OrderIds, NEW n \in 1 .. Quantity, FillUnseen(o, n)
  PROVE  KInv'
  <1>1. TypeOK /\ SizesSound /\ IdsAgree
    BY DEF KInv, CInv, RInv, IInv, KeepsTrack
  <1>2. /\ \A p \in OrderIds : p # o => ex'[p] = ex[p]
        /\ ex'[o].side = ex[o].side /\ ex'[o].qty = ex[o].qty
        /\ ex'[o].cum = ex[o].cum + n
    BY <1>1 DEF FillUnseen, TypeOK
  <1>3. n \in Nat /\ ex[o].cum \in Nat /\ ex[o].live /\ ex[o].cum + n <= ex[o].qty
    BY <1>1, QuantityAssumption DEF FillUnseen, TypeOK
  <1>4. ex[o].side # "NONE"
    BY <1>1, <1>3 DEF IdsAgree
  <1>5. ExchangeMoves
    <2> SUFFICES ASSUME NEW p \in OrderIds
                 PROVE  IF ex[p].side = "NONE"
                        THEN ex'[p] = ex[p]
                        ELSE /\ ex'[p].side = ex[p].side /\ ex'[p].qty = ex[p].qty
                             /\ ex[p].cum <= ex'[p].cum
                             /\ ex[p].cum <= ex[p].qty => ex'[p].cum <= ex[p].qty
                             /\ ~ ex[p].live => ex'[p].cum = ex[p].cum /\ ~ ex'[p].live
      BY DEF ExchangeMoves
    <2>1. CASE p = o
      BY <1>2, <1>3, <1>4, <2>1
    <2>2. CASE p # o
      BY <1>1, <1>2, <2>2 DEF TypeOK
    <2> QED
      BY <2>1, <2>2
  <1>6. SizesSound'
    BY <1>1, SizesTrade
  <1> QED
    BY <1>2, <1>5, <1>6, QuietKeepsPlans DEF FillUnseen

(***************************************************************************)
(* The plans through a restart                                             *)
(***************************************************************************)

\* What a verified restart knows of a side: at most the order in hand, filled.
InHand(side, order) ==
    /\ \A o \in OrderIds \ lostAck : ex[o].side = side <=> o \in Saved(side)
    /\ Saved(side) # {} =>
         /\ order.id \in OrderIds \ lostAck /\ Saved(side) = {order.id}
         /\ Done(order.id) /\ seen[order.id] > 0
         /\ db.rows[order.id].status = "FILLED"
         /\ db.rows[order.id].real = seen[order.id]

LEMMA VerifiedInHand ==
  ASSUME KInv, Verified
  PROVE  InHand("BUY", bo) /\ InHand("SELL", so) /\ ~ Spoiled
  <1>1. /\ RInv /\ TypeOK /\ RowsDone /\ KnownSaved /\ SizesSound /\ LostUnsaved /\ FilledRows
    BY DEF KInv, CInv, RInv, IInv
  <1>2. ASSUME NEW side \in {"BUY", "SELL"}, NEW order,
               \A o \in Saved(side) : order.id = o
        PROVE  InHand(side, order)
    <2>1. ASSUME NEW o \in OrderIds \ lostAck
          PROVE  ex[o].side = side <=> o \in Saved(side)
      BY <1>1, <1>2 DEF KnownSaved, Known, Saved
    <2>2. ASSUME Saved(side) # {}
          PROVE  /\ order.id \in OrderIds \ lostAck /\ Saved(side) = {order.id}
                 /\ Done(order.id) /\ seen[order.id] > 0
                 /\ db.rows[order.id].status = "FILLED"
                 /\ db.rows[order.id].real = seen[order.id]
      <3>1. PICK o \in Saved(side) : order.id = o
        BY <1>2, <2>2
      <3>2. Saved(side) = {o}
        BY <1>2, <3>1
      <3>3. SavedAndDone(o, side)
        BY <1>1, SavedIsDone
      <3>4. o \notin lostAck
        BY <1>1 DEF LostUnsaved, Saved
      <3>5. seen[o] = ex[o].qty /\ ex[o].qty > 0
        BY <1>1, <1>2, <3>3 DEF SavedAndDone, Done, SizesSound
      <3> QED
        BY <1>1, <3>1, <3>2, <3>3, <3>4, <3>5 DEF SavedAndDone, FilledRows
    <2> QED
      BY <2>1, <2>2 DEF InHand
  <1>3. /\ \A o \in Saved("BUY") : bo.id = o
        /\ \A o \in Saved("SELL") : so.id = o
    BY <1>1 DEF Saved, Verified, FilledRows
  <1> QED
    BY <1>1, <1>2, <1>3, SpoiledEnds

\* Then no other order of the side traded, and it was offered for all of it.
LEMMA InHandIsOffered ==
  ASSUME NEW side, NEW order, InHand(side, order), Offered(side, order), Saved(side) # {},
         NoId \notin OrderIds
  PROVE  Earlier(side, order.id) = {} /\ ex[order.id].qty = order.qty
  BY DEF InHand, Offered, Earlier, Traded

\* So it is restored as what was sent of the plan, and an order that never was
\* sent has none before it.
LEMMA RestoredIsResent ==
  ASSUME NEW side, NEW order, NEW next, InHand(side, order), NoId \notin OrderIds,
         TypeOK, ex' = ex, seen' = seen, lostAck' = lostAck,
         Saved(side) = {} => next.id = NoId /\ next.real = 0,
         Saved(side) # {} => /\ next.id = order.id /\ next.real = seen[order.id]
                             /\ next.qty = ex[order.id].qty
  PROVE  Resent(side, next)' /\ (next.id = NoId => Earlier(side, NoId)' = {})
  <1>1. Earlier(side, next.id) = {}
    BY DEF InHand, Earlier, Traded
  <1>2. Earlier(side, next.id)' = Earlier(side, next.id)
    BY DEF Earlier, Traded
  <1>3. next.id \notin lostAck
    BY DEF InHand, TypeOK
  <1>4. next.id = NoId \/ seen[next.id] > 0
    BY DEF InHand
  <1>5. next.id # NoId => next.real = seen[next.id] /\ next.qty = ex[next.id].qty
    OBVIOUS
  <1>6. next.id # NoId => ex[next.id].qty \in Nat /\ seen[next.id] \in Nat
    BY DEF InHand, TypeOK
  <1>7. next.id = NoId => next.real = 0
    BY DEF InHand
  <1>8. Resent(side, next)'
    BY <1>1, <1>2, <1>3, <1>4, <1>5, <1>6, <1>7 DEF Resent, ResentFor, Unbooked
  <1> QED
    BY <1>1, <1>2, <1>8

\* What a restart makes of the rows of a position.
BuysAgain ==
    IF Saved("BUY") # {}
    THEN /\ bo'.id = bo.id /\ bo'.status = "FILLED" /\ bo'.real = seen[bo.id]
         /\ bo'.qty = Quantity /\ buy' = "BOUGHT"
    ELSE IF pos.type = "BUY" THEN bo' = NewBuyOrder /\ buy' = "NEW"
         ELSE bo' = NoBuyOrder /\ buy' = "BOUGHT"
SellsAgain ==
    IF Saved("SELL") # {}
    THEN so'.id = so.id /\ so'.status = "FILLED" /\ so'.real = seen[so.id] /\ so'.qty = so.qty
    ELSE so' = NewSellOrder(IF pos.type = "BUY" THEN 0 ELSE VerifiedQuantity)
StartsAgain ==
    /\ BuysAgain /\ SellsAgain /\ NewStrategy
    /\ pos'.type = pos.type /\ pos'.qty = IF pos.type = "BUY" THEN 0 ELSE VerifiedQuantity
    /\ sellSet' <=> pos.type = "SELL"
    /\ state' = IF pos.type = "SELL" /\ Saved("BUY") = {} THEN "BOUGHT" ELSE db.strategy
    /\ db'.rows = db.rows /\ db'.strategy = state'

\* A buy order restored from its row is the one in hand.
LEMMA RestoredBuyIs ==
  ASSUME KInv, Verified, Saved("BUY") # {}
  PROVE  LET o == restore_buy_orders
         IN  o.id = bo.id /\ o.status = "FILLED" /\ o.real = seen[bo.id] /\ o.qty = Quantity
  <1>1. SavedBuys = {bo.id} /\ db.rows[bo.id].status = "FILLED"
        /\ db.rows[bo.id].real = seen[bo.id] /\ bo.id \in OrderIds
    BY VerifiedInHand DEF InHand, SavedBuys
  <1>2. PICK o : o = _aggregate_orders(SavedBuys)
    OBVIOUS
  <1>3. o = bo.id
    BY <1>1, <1>2, AggregateIsMember
  <1>4. restore_buy_orders = [NewBuyOrder EXCEPT !.id = o, !.status = db.rows[o].status,
                                                 !.real = db.rows[o].real]
    BY <1>1, <1>2 DEF restore_buy_orders
  <1>5. PICK real : real = db.rows[o].real
    OBVIOUS
  <1>6. restore_buy_orders = [id |-> o, status |-> "FILLED", qty |-> Quantity,
                              real |-> real, qs |-> Quantity]
    BY <1>1, <1>3, <1>4, <1>5 DEF NewBuyOrder
  <1> QED
    BY <1>1, <1>3, <1>5, <1>6

\* So is a sell order, for what it offered.
LEMMA RestoredSellIs ==
  ASSUME KInv, Verified, NEW o \in Saved("SELL"), NEW order, order = RestoredSell(o)
  PROVE  order.id = so.id /\ order.status = "FILLED" /\ order.real = seen[so.id]
         /\ order.qty = so.qty
  <1>1. o = so.id /\ InHand("SELL", so)
    BY VerifiedInHand DEF InHand
  <1>2. ex[so.id].qty = so.qty
    <2>1. Offered("SELL", so)
      BY DEF KInv, Offers
    <2> QED
      BY <1>1, <2>1, InHandIsOffered DEF OrderIds, NoId
  <1> QED
    BY <1>1, <1>2 DEF RestoredSell, InHand

LEMMA RestartStarts ==
  ASSUME KInv, restore_buy_position \/ restore_sell_position
  PROVE  StartsAgain
  <1>1. Verified /\ NewStrategy
    BY DEF restore_buy_position, restore_sell_position, NewStrategy
  <1>2. BuyStateOf(NewBuyOrder) = "NEW"
    BY DEF BuyStateOf, NewBuyOrder
  <1>3. \A order : order.status = "FILLED" => BuyStateOf(order) = "BOUGHT"
    BY DEF BuyStateOf
  <1>4. BuysAgain
    BY <1>1, <1>2, <1>3, RestoredBuyIs DEF restore_buy_position, restore_sell_position,
       BuysAgain, SavedBuys, restore_buy_orders
  <1>5. SellsAgain
    <2>1. CASE SavedSells = {}
      BY <2>1 DEF restore_buy_position, restore_sell_position, SellsAgain, SavedSells
    <2>2. CASE SavedSells # {}
      <3>1. SavedSells \in SUBSET OrderIds /\ SavedSells = Saved("SELL")
        BY DEF SavedSells, Saved
      <3>2. PICK o \in Saved("SELL") : so' = RestoredSell(o)
        BY <2>2, <3>1, IdsHaveEnds, SelectIsMember
        DEF restore_buy_position, restore_sell_position
      <3> QED
        BY <1>1, <3>2, RestoredSellIs DEF SellsAgain
    <2> QED
      BY <2>1, <2>2
  <1> QED
    BY <1>1, <1>4, <1>5 DEF restore_buy_position, restore_sell_position, StartsAgain,
       BuyRow, RestoredState, SavedBuys, SavePosition

\* What was known of the position is all there is.
LEMMA StartsFacts ==
  ASSUME KInv, StartsAgain
  PROVE  /\ TypeOK /\ InHand("BUY", bo) /\ InHand("SELL", so) /\ ~ Spoiled /\ NoId \notin OrderIds
         /\ ex' = ex /\ seen' = seen /\ lostAck' = lostAck /\ queue' = <<>> /\ pc' = "idle"
         /\ phase' = "up" /\ sell' = "NEW" /\ Verified
         /\ Saved("BUY")' = Saved("BUY") /\ Saved("SELL")' = Saved("SELL")
         /\ pos.type = "BUY" => HasBuyOrder
         /\ Saved("BUY") # {} => HasBuyOrder /\ bo.qty = Quantity
         /\ HasBuyOrder /\ Saved("BUY") = {} => Saved("SELL") = {} /\ pos.qty = 0
  <1>1. /\ TypeOK /\ OnlySells /\ NothingBought /\ OffIsDead /\ Offers /\ RTypes
    BY DEF KInv, CInv, RInv, IInv
  <1>2. Verified /\ phase = "down"
    BY DEF StartsAgain, NewStrategy
  <1>3. InHand("BUY", bo) /\ InHand("SELL", so) /\ ~ Spoiled
    BY <1>2, VerifiedInHand
  <1>4. NoId \notin OrderIds
    BY DEF NoId, OrderIds
  <1>5. /\ ex' = ex /\ seen' = seen /\ lostAck' = lostAck /\ queue' = <<>> /\ pc' = "idle"
        /\ phase' = "up" /\ sell' = "NEW"
    BY <1>1, <1>2 DEF StartsAgain, NewStrategy, OffIsDead
  <1>6. Saved("BUY")' = Saved("BUY") /\ Saved("SELL")' = Saved("SELL")
    BY <1>5 DEF StartsAgain, Saved
  <1>7. pos.type = "BUY" => HasBuyOrder
    BY <1>1 DEF OnlySells
  <1>8. Saved("BUY") # {} => HasBuyOrder /\ bo.qty = Quantity
    BY <1>1, <1>3, <1>4 DEF Offers, InHand
  <1>9. HasBuyOrder /\ Saved("BUY") = {} => Saved("SELL") = {} /\ pos.qty = 0
    BY <1>1 DEF NothingBought
  <1> QED
    BY <1>1, <1>2, <1>3, <1>4, <1>5, <1>6, <1>7, <1>8, <1>9

\* What the buy side of a restored position says.
LEMMA StartsBuying ==
  ASSUME KInv, StartsAgain
  PROVE  /\ HasBuyOrder' <=> (pos.type = "BUY" \/ Saved("BUY") # {})
         /\ HasBuyOrder' => HasBuyOrder
         /\ Saved("BUY") = {} => bo'.id = NoId /\ bo'.real = 0 /\ bo'.status \in {"NEW", "NONE"}
         /\ HasBuyOrder' => bo'.qty = Quantity
         /\ state' # db.strategy => ~ HasBuyOrder'
         /\ Saved("BUY") # {} => db.strategy # "NEW"
         /\ pos.type = "BUY" /\ Saved("BUY") = {} => db.strategy = "NEW"
  BY StartsFacts DEF StartsAgain, BuysAgain, HasBuyOrder, NewBuyOrder, NoBuyOrder, KInv,
     RowsStaged, InHand

LEMMA StartsBuyPlan ==
  ASSUME KInv, StartsAgain
  PROVE  BuyPlan'
  <1>1. PICK next : next = bo'
    OBVIOUS
  <1>2. /\ Saved("BUY") = {} => next.id = NoId /\ next.real = 0
        /\ Saved("BUY") # {} => next.id = bo.id /\ next.real = seen[bo.id]
                                /\ next.qty = ex[bo.id].qty
    <2>1. Saved("BUY") # {} => ex[bo.id].qty = Quantity
      BY StartsFacts, InHandIsOffered DEF KInv, Offers
    <2> QED
      BY <1>1, <2>1, StartsBuying DEF StartsAgain, BuysAgain
  <1>3. Resent("BUY", next)' /\ (next.id = NoId => Earlier("BUY", NoId)' = {})
    BY <1>2, StartsFacts, RestoredIsResent
  <1>4. Resent("BUY", bo)' /\ (bo'.id = NoId => Earlier("BUY", NoId)' = {})
    BY <1>1, <1>3 DEF Resent, ResentFor, Unbooked, Earlier, Traded
  <1>5. ~ HasBuyOrder' => bo'.real = 0 /\ \A o \in OrderIds \ lostAck' : ex'[o].side # "BUY"
    BY StartsFacts, StartsBuying DEF InHand
  <1> QED
    BY <1>4, <1>5, StartsBuying DEF BuyPlan

\* It offers what it did, or what was verified of a position that sells.
LEMMA StartsWithinHolding ==
  ASSUME KInv, StartsAgain
  PROVE  so'.qty <= Holding'
  <1>1. /\ TypeOK /\ Offers /\ RowsStaged /\ RTypes
        /\ InHand("BUY", bo) /\ ex' = ex /\ Saved("BUY")' = Saved("BUY")
    BY StartsFacts DEF KInv, CInv, RInv
  <1>2. Holding' = IF HasBuyOrder' THEN TradedIn(BuyIds) ELSE Quantity
    BY <1>1 DEF Holding, TradedIn, BuyIds
  <1>3. BuyIds \in SUBSET OrderIds
    BY DEF BuyIds
  <1>4. TradedIn(BuyIds) \in Nat /\ \A o \in BuyIds : ex[o].cum <= TradedIn(BuyIds)
    BY <1>1, <1>3, TradesAddUp
  <1>5. CASE Saved("SELL") # {}
    BY <1>1, <1>2, <1>5, StartsFacts, StartsBuying DEF StartsAgain, SellsAgain, Offers, Holding
  <1>6. CASE Saved("SELL") = {} /\ pos.type = "BUY"
    BY <1>2, <1>4, <1>6, QuantityAssumption DEF StartsAgain, SellsAgain, NewSellOrder
  <1>7. CASE Saved("SELL") = {} /\ pos.type = "SELL" /\ Saved("BUY") = {}
    <2>1. VerifiedQuantity = pos.qty
      BY <1>7 DEF VerifiedQuantity
    <2> QED
      BY <1>1, <1>2, <1>7, <2>1, StartsBuying
      DEF StartsAgain, SellsAgain, NewSellOrder, RowsStaged
  <1>8. CASE Saved("SELL") = {} /\ pos.type = "SELL" /\ Saved("BUY") # {}
    <2>1. Saved("BUY") = {bo.id} /\ bo.id \in OrderIds /\ Done(bo.id)
      BY <1>1, <1>8 DEF InHand
    <2>2. VerifiedQuantity = SumFunctionOnSet([o \in OrderIds |-> ex[o].qty], {bo.id})
      BY <1>8, <2>1 DEF VerifiedQuantity
    <2>3. VerifiedQuantity = ex[bo.id].qty
      <3>1. PICK f : f = [o \in OrderIds |-> ex[o].qty]
        OBVIOUS
      <3>2. f[bo.id] = ex[bo.id].qty /\ f[bo.id] \in Int
        BY <1>1, <2>1, <3>1 DEF TypeOK
      <3>3. SumFunctionOnSet(f, {bo.id}) = f[bo.id]
        BY <3>2, SumOfOne
      <3> QED
        BY <2>2, <3>1, <3>2, <3>3
    <2>4. bo.id \in BuyIds
      BY <2>1 DEF BuyIds, Saved
    <2> QED
      BY <1>2, <1>4, <1>8, <2>1, <2>3, <2>4, StartsBuying
      DEF StartsAgain, SellsAgain, NewSellOrder, Done
  <1> QED
    BY <1>1, <1>5, <1>6, <1>7, <1>8 DEF RTypes

\* A restored position goes on with the plans of its orders.
LEMMA StartsSellPlan ==
  ASSUME KInv, StartsAgain
  PROVE  SellPlan'
  <1>1. PICK next : next = so'
    OBVIOUS
  <1>2. /\ Saved("SELL") = {} => next.id = NoId /\ next.real = 0
        /\ Saved("SELL") # {} => next.id = so.id /\ next.real = seen[so.id]
                                 /\ next.qty = ex[so.id].qty
    <2>1. Saved("SELL") # {} => ex[so.id].qty = so.qty
      BY StartsFacts, InHandIsOffered DEF KInv, Offers
    <2> QED
      BY <1>1, <2>1 DEF StartsAgain, SellsAgain, NewSellOrder
  <1>3. Resent("SELL", next)'
    BY <1>2, StartsFacts, RestoredIsResent
  <1>4. Resent("SELL", so)'
    BY <1>1, <1>3 DEF Resent, ResentFor, Unbooked, Earlier, Traded
  <1>5. so'.id = NoId => so'.real = 0 /\ \A o \in OrderIds \ lostAck' : ex'[o].side # "SELL"
    BY <1>1, <1>2, StartsFacts DEF InHand
  <1>6. so'.id # NoId => so'.qty > 0
    <2>1. Saved("SELL") # {} => ex[so.id].qty > 0
      BY StartsFacts DEF InHand, Saved, KInv, SizesSound
    <2> QED
      BY <1>1, <1>2, <2>1
  <1>7. RealizedTraded'
    <2>1. CASE Saved("BUY") = {}
      BY <2>1, StartsBuying DEF RealizedTraded
    <2>2. CASE Saved("BUY") # {}
      <3>1. bo.id \in OrderIds /\ ex'[bo.id].side = "BUY" /\ bo'.real = seen'[bo.id]
        BY <2>2, StartsFacts DEF InHand, Saved, StartsAgain, BuysAgain
      <3> QED
        BY <3>1 DEF RealizedTraded
    <2> QED
      BY <2>1, <2>2
  <1> QED
    BY <1>4, <1>5, <1>6, <1>7, StartsWithinHolding DEF SellPlan

\* Its state says what its orders did, and its rows say so.
LEMMA StartsMatch ==
  ASSUME KInv, StartsAgain, CInv'
  PROVE  BooksInv' /\ BuyingMatches'
  <1>1. IInv' /\ FillsBooked' /\ LostUnsaved /\ RowsStaged /\ RTypes
    BY DEF KInv, CInv, RInv
  <1>2. BuyMatches'
    BY StartsFacts, StartsBuying DEF BuyMatches, StartsAgain, BuysAgain, NewBuyOrder, NoBuyOrder,
       HasBuyOrder
  <1>3. AwaitsMatch' /\ BuyingMatches'
    BY StartsFacts DEF AwaitsMatch, BuyingMatches, BuyCreates, BuyCancels, SellCreates,
       SellCancels, Callbacks
  <1>4. FlatMatches'
    <2>1. state' = "NEW" => buy' = "NEW"
      <3>1. pos.type \in {"BUY", "SELL"}
        BY <1>1 DEF RTypes
      <3> QED
        BY <3>1, StartsFacts, StartsBuying DEF StartsAgain, BuysAgain
    <2>2. ASSUME NEW o \in OrderIds, ex[o].side = "BUY", buy' = "NEW"
          PROVE  seen[o] = 0
      <3>1. Saved("BUY") = {}
        BY <2>2 DEF StartsAgain, BuysAgain
      <3> QED
        BY <1>1, <2>2, <3>1, StartsFacts DEF InHand, LostUnsaved
    <2> QED
      BY <2>1, <2>2, StartsFacts DEF FlatMatches
  <1>5. NoSellUnlessSet'
    <2> SUFFICES ASSUME ~ sellSet'
                 PROVE  so'.id = NoId /\ so'.status = "NEW" /\ sell' = "NEW"
                        /\ pc' \notin SellCreates \cup SellCancels
      BY DEF NoSellUnlessSet
    <2>1. pos.type = "BUY" /\ Saved("SELL") = {}
      <3>1. pos.type # "SELL" /\ RTypes
        BY DEF StartsAgain, KInv, CInv, RInv
      <3>2. pos.type = "BUY"
        BY <3>1 DEF RTypes
      <3> QED
        BY <1>1, <3>2, StartsFacts DEF RowsStaged
    <2> QED
      BY <2>1, StartsFacts DEF StartsAgain, SellsAgain, NewSellOrder, SellCreates, SellCancels
  <1>6. SellingIsPersisted'
    BY StartsFacts DEF SellingIsPersisted, StartsAgain, SellsAgain, NewSellOrder, InHand, Done
  <1> QED
    BY <1>1, <1>2, <1>3, <1>4, <1>5, <1>6 DEF BooksInv, StatesMatch

\* It is in one of the stages, as what it was saved as says.
LEMMA StartsStaged ==
  ASSUME KInv, StartsAgain
  PROVE  Staged' /\ RowsStaged'
  <1>1. RowsStaged /\ RTypes
    BY DEF KInv, CInv, RInv
  <1>2. bo'.status \in {"NEW", "NONE", "FILLED"} /\ Signalled' = {}
    BY StartsFacts, StartsBuying DEF Signalled, StartsAgain, BuysAgain
  <1>3. Saved("SELL") = {} => so'.id = NoId
    BY DEF StartsAgain, SellsAgain, NewSellOrder
  <1>4. ASSUME HasBuyOrder'
        PROVE  /\ state' = db.strategy
               /\ state' \in {"NEW", "BUYING", "PARTIALLY_BOUGHT"} \cup Sells
               /\ Saved("SELL") # {} => pos.type = "SELL" /\ state' \in Sells
    BY <1>1, <1>4, StartsFacts, StartsBuying DEF RowsStaged
  <1>5. Staged'
    <2> SUFFICES ASSUME HasBuyOrder' PROVE BuyingStage' \/ SellingStage'
      BY DEF Staged
    <2>1. CASE Saved("BUY") = {}
      <3>1. pos.type = "BUY" /\ state' = "NEW" /\ Saved("SELL") = {} /\ bo'.status = "NEW"
        BY <1>4, <2>1, StartsFacts, StartsBuying DEF StartsAgain, BuysAgain, NewBuyOrder
      <3> QED
        BY <1>2, <1>3, <3>1, StartsFacts
        DEF BuyingStage, SellCreates, SellCancels
    <2>2. CASE Saved("BUY") # {}
      <3>1. bo'.status = "FILLED" /\ buy' = "BOUGHT" /\ state' # "NEW"
        BY <1>4, <2>2, StartsBuying DEF StartsAgain, BuysAgain
      <3>2. CASE state' \in Sells
        BY <1>2, <3>1, <3>2, StartsFacts DEF SellingStage, BuyCreates, BuyCancels
      <3>3. CASE state' \notin Sells
        BY <1>2, <1>3, <1>4, <3>1, <3>3, StartsFacts
        DEF BuyingStage, SellCreates, SellCancels
      <3> QED
        BY <3>2, <3>3
    <2> QED
      BY <2>1, <2>2
  <1>6. RowsStaged'
    <2>1. Saved("BUY") # {} /\ ~ HasBuyOrder' => FALSE
      BY StartsBuying
    <2>2. Saved("BUY") # {} => db'.strategy # "NEW"
      BY <1>4, <2>1, StartsBuying DEF StartsAgain
    <2>3. pos'.type = "BUY" /\ Saved("BUY") = {} => db'.strategy = "NEW"
      BY <1>4, StartsBuying DEF StartsAgain
    <2>4. Saved("BUY") = {} /\ Saved("SELL") = {} => pos'.qty <= Quantity
      <3>1. Saved("BUY") = {} /\ Saved("SELL") = {} => VerifiedQuantity = pos.qty
        BY DEF VerifiedQuantity
      <3> QED
        BY <1>1, <3>1, QuantityAssumption DEF StartsAgain, RowsStaged
    <2> QED
      BY <1>4, <2>2, <2>3, <2>4, StartsFacts DEF RowsStaged, StartsAgain
  <1> QED
    BY <1>5, <1>6

\* A restart goes on with the plans it finds in the rows.
LEMMA StartKeepsPlans ==
  ASSUME KInv, StartsAgain, CInv'
  PROVE  KInv'
  <1>1. /\ BuyPlan' /\ SellPlan' /\ BooksInv' /\ BuyingMatches' /\ Staged' /\ RowsStaged'
    BY StartsBuyPlan, StartsSellPlan, StartsMatch, StartsStaged
  <1>2. (Offers)'
    BY <1>1, PlansOffer, PTL
  <1>3. SizesSound' /\ LostUnsaved'
    BY StartsFacts DEF KInv, SizesSound, LostUnsaved, StartsAgain
  <1>4. ClosedShort' /\ EndedShort' /\ BuyingSaved'
    BY StartsFacts, StartsBuying DEF ClosedShort, EndedShort, BuyingSaved, StartsAgain, BuysAgain
  <1>5. FilledRows'
    <2> SUFFICES ASSUME NEW o \in OrderIds, db.rows[o].status = "FILLED"
                 PROVE  /\ db.rows[o].real = seen[o]
                        /\ ex[o].side = "BUY" => bo'.id = o /\ bo'.status = "FILLED"
                        /\ ex[o].side = "SELL" => so'.id = o /\ so'.status = "FILLED"
      BY StartsFacts DEF FilledRows, StartsAgain
    <2>1. db.rows[o].real = seen[o]
      BY DEF KInv, FilledRows
    <2> QED
      BY <2>1, StartsFacts DEF Saved, InHand, StartsAgain, BuysAgain, SellsAgain
  <1> QED
    BY <1>1, <1>2, <1>3, <1>4, <1>5 DEF KInv, UpInv

(***************************************************************************)
(* The plans hold through crashes                                          *)
(***************************************************************************)

LEMMA PlansInit == RInit => KInv
  <1> SUFFICES ASSUME RInit PROVE KInv
    OBVIOUS
  <1>1. CInv /\ BooksInv /\ BuyPlan /\ SellPlan
    BY ReportedInit, BooksInit, BuyPlanInit, SellPlanInit DEF RInit
  <1>2. /\ queue = <<>> /\ pc = "idle" /\ lostAck = {}
        /\ \A o \in OrderIds : ex[o].side = "NONE" /\ ~ ex[o].live /\ db.rows[o].status = "NONE"
    BY DEF RInit, Init, CommonInit, InitBuy, InitInventorySell, NoRow, Unplaced
  <1>3. SizesSound /\ LostUnsaved /\ FilledRows
    BY <1>2 DEF SizesSound, LostUnsaved, FilledRows
  <1>4. BuyingMatches /\ ClosedShort
    BY <1>2 DEF BuyingMatches, ClosedShort, Callbacks, BuyCreates, BuyCancels, SellCreates,
       SellCancels
  <1>5. Saved("BUY") = {} /\ Saved("SELL") = {} /\ Signalled = {}
    BY <1>2 DEF Saved, Signalled
  <1>6. \/ /\ bo = NewBuyOrder /\ so = NewSellOrder(0) /\ state = "NEW" /\ sell = "NEW"
           /\ db.strategy = "NEW" /\ pos = BuyRow
        \/ /\ bo = NoBuyOrder /\ so = NewSellOrder(Quantity) /\ state = "BOUGHT"
           /\ db.strategy = "BOUGHT" /\ pos = SellRow(so)
    BY DEF RInit, Init, InitBuy, InitInventorySell, HasBuyOrder, NewBuyOrder, NoBuyOrder
  <1>7. EndedShort /\ BuyingSaved /\ Staged /\ RowsStaged
    BY <1>2, <1>5, <1>6, QuantityAssumption
    DEF EndedShort, BuyingSaved, Staged, BuyingStage, RowsStaged, HasBuyOrder, NewBuyOrder,
        NoBuyOrder, NewSellOrder, BuyRow, SellRow, SellCreates, SellCancels
  <1>8. Offers
    BY <1>1, PlansOffer
  <1> QED
    BY <1>1, <1>3, <1>4, <1>7, <1>8 DEF KInv, UpInv

LEMMA PlansStep == KInv /\ [RNext]_rvars => KInv'
  <1> SUFFICES ASSUME KInv, [RNext]_rvars PROVE KInv'
    OBVIOUS
  <1>1. CInv' /\ CInv
    BY ReportedStep DEF KInv
  <1>2. CASE UpStep
    BY <1>1, <1>2, UpSteps, UpStepKeepsPlans
  <1>3. CASE Crash
    BY <1>1, <1>3, CrashKeepsPlans
  <1>4. CASE restore_buy_position \/ restore_sell_position
    BY <1>1, <1>4, RestartStarts, StartKeepsPlans
  <1>5. ASSUME NEW o \in OrderIds, NEW n \in 1 .. Quantity, FillUnseen(o, n) PROVE KInv'
    BY <1>1, <1>5, UnseenKeepsPlans
  <1>6. CASE UNCHANGED rvars /\ phase = "up"
    BY <1>1, <1>6, UpStepKeepsPlans DEF rvars
  <1>7. CASE RecoveryFails \/ (UNCHANGED rvars /\ phase # "up")
    <2>1. /\ UNCHANGED <<bo, so, seen, lostAck, db, pos>> /\ ex' = ex
          /\ phase # "up" /\ phase' # "up"
      BY <1>7 DEF RecoveryFails, rvars, vars
    <2>2. ExchangeMoves
      BY <1>1, <2>1 DEF ExchangeMoves, CInv, RInv, IInv, TypeOK
    <2>3. SizesSound'
      BY <2>1 DEF KInv, SizesSound
    <2> QED
      BY <1>1, <2>1, <2>2, <2>3, QuietKeepsPlans
  <1> QED
    BY <1>2, <1>3, <1>4, <1>5, <1>6, <1>7 DEF RNext, UpStep, Restart

\* BuysWithinPlan of HpManager through crashes: what a position booked as bought
\* and what its open order can still buy stay within its budget, on whatever rows
\* the program started again, while one order at most had traded before that one.
\* Trades whose reports were dropped are in no book and do not count.
THEOREM PlanHoldsThroughCrashes == RSpec => []BuysWithinPlan
  <1>1. KInv => BuysWithinPlan
    BY OffersHold DEF KInv, CInv, RInv, FillsBooked
  <1> QED
    BY <1>1, PlansInit, PlansStep, PTL DEF RSpec

\* SellsWithinHolding of HpManager through crashes: what a position booked as sold
\* and what its open order still offers stay within what its buy orders traded (or
\* what it was given to sell), while one sell order at most had traded before it.
THEOREM HoldingHoldsThroughCrashes == RSpec => []SellsWithinHolding
  <1>1. KInv => SellsWithinHolding
    BY OffersHold DEF KInv, CInv, RInv, FillsBooked
  <1> QED
    BY <1>1, PlansInit, PlansStep, PTL DEF RSpec
=============================================================================
