----------------------------- MODULE BuyDipProofs -----------------------------
(***************************************************************************)
(* The safety invariants of the Buy Dip strategy, for every value of its   *)
(* constants.  They lean on one another: what is tracked is what the       *)
(* positions hold (Fits), which is what works at the exchange or is on its *)
(* way there and back, once (Sound); the worker and the tasks that sleep   *)
(* meet the positions in the states they were started for (WorkFits,       *)
(* DelayedFits); and no first order is priced off its top but for a reason *)
(* (OrdersFit).  BuyDipInv is their conjunction.                           *)
(***************************************************************************)
EXTENDS BuyDip, SumProofs, SequenceTheorems

(***************************************************************************)
(* Positions in order                                                      *)
(***************************************************************************)

\* There are finitely many positions.
LEMMA PositionsAreFinite == IsFiniteSet(PosIds) /\ \A P \in SUBSET PosIds : IsFiniteSet(P)
  <1>1. MaxPositions \in Int
    BY ConfigAssumption
  <1>2. IsFiniteSet(PosIds)
    BY <1>1, FS_Interval DEF PosIds
  <1> QED
    BY <1>2, FS_Subset

\* A set of positions has a first and a last one.
LEMMA PositionsHaveEnds ==
  ASSUME NEW P \in SUBSET PosIds, P # {}
  PROVE  /\ \E p \in P : \A q \in P : p <= q
         /\ \E p \in P : \A q \in P : q <= p
  <1> DEFINE Ends(T) == /\ \E p \in T : \A q \in T : p <= q
                        /\ \E p \in T : \A q \in T : q <= p
             Good == {T \in SUBSET PosIds : T # {} => Ends(T)}
  <1>1. \A p \in PosIds : p \in Int
    BY DEF PosIds
  <1>2. ASSUME NEW T \in SUBSET PosIds, \A x \in T : T \ {x} \in Good
        PROVE  T \in Good
    <2>1. ASSUME NEW x \in T
          PROVE  Ends(T)
      <3>1. CASE T \ {x} = {}
        <4>1. \A q \in T : q = x
          BY <3>1
        <4> QED
          BY <1>1, <2>1, <4>1
      <3>2. CASE T \ {x} # {}
        <4>1. Ends(T \ {x})
          BY <1>2, <2>1, <3>2
        <4>2. PICK lo \in T \ {x} : \A q \in T \ {x} : lo <= q
          BY <4>1
        <4>3. PICK hi \in T \ {x} : \A q \in T \ {x} : q <= hi
          BY <4>1
        <4>4. x \in Int /\ lo \in Int /\ hi \in Int /\ \A q \in T : q \in Int
          BY <1>1, <2>1
        <4>5. \E p \in T : \A q \in T : p <= q
          <5>1. CASE x <= lo
            <6>1. \A q \in T : x <= q
              BY <4>2, <4>4, <5>1
            <6> QED
              BY <2>1, <6>1
          <5>2. CASE ~ (x <= lo)
            <6>1. \A q \in T : lo <= q
              BY <4>2, <4>4, <5>2
            <6> QED
              BY <4>2, <6>1
          <5> QED
            BY <5>1, <5>2
        <4>6. \E p \in T : \A q \in T : q <= p
          <5>1. CASE hi <= x
            <6>1. \A q \in T : q <= x
              BY <4>3, <4>4, <5>1
            <6> QED
              BY <2>1, <6>1
          <5>2. CASE ~ (hi <= x)
            <6>1. \A q \in T : q <= hi
              BY <4>3, <4>4, <5>2
            <6> QED
              BY <4>3, <6>1
          <5> QED
            BY <5>1, <5>2
        <4> QED
          BY <4>5, <4>6
      <3> QED
        BY <3>1, <3>2
    <2> QED
      BY <2>1
  <1>3. \A T \in SUBSET PosIds : (\A x \in T : T \ {x} \in Good) => T \in Good
    BY <1>2
  <1> HIDE DEF Good
  <1>4. P \in Good
    BY <1>3, PositionsAreFinite, SubsetInduction
  <1> QED
    BY <1>4 DEF Good

\* The first position of a set is in it.
LEMMA FirstIsOne ==
  ASSUME NEW P \in SUBSET PosIds, P # {}
  PROVE  First(P) \in P
  BY PositionsHaveEnds DEF First

\* The positions of a set can be listed in their order.
LEMMA InOrderExists ==
  ASSUME NEW P \in SUBSET PosIds
  PROVE  \E f \in [1 .. Cardinality(P) -> P] :
             \A i, j \in DOMAIN f : i < j => f[i] < f[j]
  <1> DEFINE Listed(T) == \E f \in [1 .. Cardinality(T) -> T] :
                              \A i, j \in DOMAIN f : i < j => f[i] < f[j]
             Good == {T \in SUBSET PosIds : Listed(T)}
  <1>1. \A p \in PosIds : p \in Int
    BY DEF PosIds
  <1>2. ASSUME NEW T \in SUBSET PosIds, \A x \in T : T \ {x} \in Good
        PROVE  T \in Good
    <2>1. CASE T = {}
      <3>1. Cardinality(T) = 0
        BY <2>1, FS_EmptySet
      <3> DEFINE f == [i \in 1 .. Cardinality(T) |-> i]
      <3>2. f \in [1 .. Cardinality(T) -> T] /\ \A i, j \in DOMAIN f : i < j => f[i] < f[j]
        BY <3>1
      <3> HIDE DEF f
      <3> QED
        BY <3>2
    <2>2. CASE T # {}
      <3>1. PICK m \in T : \A q \in T : q <= m
        BY <2>2, PositionsHaveEnds
      <3>2. Listed(T \ {m})
        BY <1>2, <3>1
      <3>3. PICK n : n = Cardinality(T \ {m})
        OBVIOUS
      <3>4. Cardinality(T) = n + 1 /\ n \in Nat
        <4>1. IsFiniteSet(T) /\ IsFiniteSet(T \ {m})
          BY PositionsAreFinite
        <4>2. Cardinality(T \ {m}) = Cardinality(T) - 1 /\ Cardinality(T) \in Nat
              /\ Cardinality(T \ {m}) \in Nat
          BY <3>1, <4>1, FS_RemoveElement, FS_CardinalityType
        <4> QED
          BY <3>3, <4>2
      <3>5. PICK f \in [1 .. n -> T \ {m}] : \A i, j \in DOMAIN f : i < j => f[i] < f[j]
        BY <3>2, <3>3
      <3>6. PICK g : g = [i \in 1 .. n + 1 |-> IF i = n + 1 THEN m ELSE f[i]]
        OBVIOUS
      <3>7. \A i \in 1 .. n : f[i] \in T \ {m} /\ f[i] < m
        <4> SUFFICES ASSUME NEW i \in 1 .. n PROVE f[i] \in T \ {m} /\ f[i] < m
          OBVIOUS
        <4>1. f[i] \in T \ {m}
          BY <3>5
        <4>2. f[i] <= m /\ f[i] # m /\ f[i] \in Int /\ m \in Int
          BY <1>1, <3>1, <4>1
        <4> QED
          BY <4>1, <4>2
      <3>8. g \in [1 .. n + 1 -> T]
        BY <3>1, <3>4, <3>6, <3>7
      <3>9. \A i, j \in 1 .. n + 1 : i < j => g[i] < g[j]
        <4> SUFFICES ASSUME NEW i \in 1 .. n + 1, NEW j \in 1 .. n + 1, i < j
                     PROVE  g[i] < g[j]
          OBVIOUS
        <4>1. i \in 1 .. n /\ i # n + 1 /\ g[i] = f[i]
          BY <3>4, <3>6
        <4>2. CASE j = n + 1
          BY <3>6, <3>7, <4>1, <4>2
        <4>3. CASE j # n + 1
          <5>1. j \in 1 .. n /\ g[j] = f[j]
            BY <3>4, <3>6, <4>3
          <5> QED
            BY <3>5, <4>1, <5>1
        <4> QED
          BY <4>2, <4>3
      <3> QED
        BY <3>4, <3>8, <3>9
    <2> QED
      BY <2>1, <2>2
  <1>3. \A T \in SUBSET PosIds : (\A x \in T : T \ {x} \in Good) => T \in Good
    BY <1>2
  <1> HIDE DEF Good
  <1>4. P \in Good
    BY <1>3, PositionsAreFinite, SubsetInduction
  <1> QED
    BY <1>4 DEF Good

\* A list of positions is a sequence of them.
LEMMA InOrderType ==
  ASSUME NEW P \in SUBSET PosIds
  PROVE  InOrder(P) \in Seq(P) /\ InOrder(P) \in Seq(PosIds)
  <1>1. InOrder(P) \in [1 .. Cardinality(P) -> P]
    BY InOrderExists DEF InOrder
  <1>2. Cardinality(P) \in Nat
    BY PositionsAreFinite, FS_CardinalityType
  <1>3. \A n \in Nat : \A f \in [1 .. n -> P] : f \in Seq(P) /\ f \in Seq(PosIds)
    OBVIOUS
  <1> QED
    BY <1>1, <1>2, <1>3

(***************************************************************************)
(* The invariant                                                           *)
(***************************************************************************)

Committed(q) == q.pending.amount + q.spent

\* What holds of one position, whose index is p.
PosFits(q, p) ==
    /\ q \in Position
    /\ q.state = "NONE" => q = NoPosition
    /\ q.state = "WATCHING" => q = NewPosition
    /\ q.state # "ACTIVE" => q.confirmed = 0 /\ q.sell = NoOrder
    /\ q.pending # NoOrder => q.pending.id[1] = p /\ q.pending.id[2] # "sell"
    /\ q.sell # NoOrder => q.sell.id = SellId(p)
    /\ q.state = "POTENTIAL_TOP" /\ q.pending # NoOrder =>
           q.pending.price <= BuyPrice(q.top, 0)

Holds(q, id) == id = q.pending.id \/ id = q.sell.id

\* What is tracked is what the positions hold, and what is locked is what they
\* committed.
Fits(t) ==
    /\ t \in Strategy
    /\ \A p \in PosIds : PosFits(t.pos[p], p)
    /\ \A p, q \in PosIds : t.pos[p].state = "WATCHING" /\ t.pos[q].state = "WATCHING" => p = q
    /\ \A id \in t.tracked : Holds(t.pos[id[1]], id)
    /\ \A p \in PosIds : \A o \in {t.pos[p].pending, t.pos[p].sell} :
           o # NoOrder => o.id \in t.tracked
    /\ (\A p \in PosIds : t.pos[p].state # "COMPLETED") =>
           t.locked = SumFunctionOnSet([p \in PosIds |-> Committed(t.pos[p])], PosIds)

\* An order that was not given up is tracked, and in one place: on its way to
\* the exchange, there, or filled and on its way back.
FillOf(q, i, id) == i \in DOMAIN q /\ q[i].kind = "filled" /\ q[i].id = id
Absent(orders, q, id) ==
    /\ \A o \in orders : o.id # id
    /\ \A i \in DOMAIN q : ~ FillOf(q, i, id)
Sound(e, c, q, tracked, l) ==
    /\ \A id \in OrderId \ l :
        /\ id \notin tracked => Absent(e \cup c, q, id)
        /\ \A o1, o2 \in e \cup c : o1.id = id /\ o2.id = id => o1 = o2
        /\ \A o \in e \cap c : o.id # id
        /\ \A o \in e \cup c : \A i \in DOMAIN q : o.id = id => ~ FillOf(q, i, id)
        /\ \A i, j \in DOMAIN q : FillOf(q, i, id) /\ FillOf(q, j, id) => i = j

\* The worker visits positions in the state it took them for; a candle moves
\* tops up.
WorkFits(w, t) ==
    \A i \in DOMAIN w.todo :
        /\ w.at = "candle" => /\ t.pos[w.todo[i]].state = "POTENTIAL_TOP"
                              /\ t.pos[w.todo[i]].top <= w.price
        /\ w.at = "tick" => t.pos[w.todo[i]].state = "ACTIVE"

\* A sleeping replacement is priced from a top its position has, or had before
\* the top moved up.
Started(q) == q.state \notin {"NONE", "WATCHING"}
DelayedFits(d, t) ==
    \A i \in DOMAIN d :
        LET q == t.pos[d[i].pos]
        IN  /\ Started(q)
            /\ q.state = "POTENTIAL_TOP" => d[i].price <= BuyPrice(q.top, 0)

\* First orders are priced from their tops, except the ones in l.
Exact(q) ==
    q.state = "POTENTIAL_TOP" /\ q.pending # NoOrder =>
        q.pending.price = BuyPrice(q.top, 0)
OrdersFit(t, l) == \A p \in PosIds : Exact(t.pos[p]) \/ t.pos[p].pending \in l

BuyDipInv ==
    /\ TypeOK
    /\ Fits(s)
    /\ Sound(ex, s.creating, queue, s.tracked, lost)
    /\ WorkFits(worker, s)
    /\ DelayedFits(delayed, s)
    /\ OrdersFit(s, late)

\* What the methods of the strategy do to positions: the states and the tops stay
\* (a candle moves tops to its high); what a price may be only rises; and a first
\* order that is not the old one is priced from its top.
SameStates(t, u) ==
    \A p \in PosIds : u.pos[p].state = t.pos[p].state /\ u.pos[p].top = t.pos[p].top
Visited(t, u, high) ==
    \A p \in PosIds : /\ u.pos[p].state = t.pos[p].state
                      /\ u.pos[p].top = t.pos[p].top \/ u.pos[p].top = high
Rises(t, u) ==
    \A p \in PosIds : Started(t.pos[p]) =>
        /\ Started(u.pos[p])
        /\ u.pos[p].state = "POTENTIAL_TOP" =>
               /\ t.pos[p].state = "POTENTIAL_TOP"
               /\ \A price \in Nat : price <= BuyPrice(t.pos[p].top, 0) =>
                                         price <= BuyPrice(u.pos[p].top, 0)
Priced(t, u) ==
    \A p \in PosIds :
        \/ Exact(u.pos[p])
        \/ /\ t.pos[p].state = "POTENTIAL_TOP" /\ u.pos[p].top = t.pos[p].top
           /\ u.pos[p].pending = t.pos[p].pending
Drift(t, u) == Rises(t, u) /\ Priced(t, u)

(***************************************************************************)
(* Orders in one place                                                     *)
(***************************************************************************)

\* What is dropped, taken or given up disturbs nothing.
LEMMA SoundWeakened ==
  ASSUME NEW e, NEW c, NEW q \in Seq(Event), NEW k, NEW l, Sound(e, c, q, k, l),
         NEW e2 \in SUBSET e, NEW c2 \in SUBSET c, NEW l2, l \subseteq l2
  PROVE  /\ Sound(e2, c2, q, k, l2)
         /\ q # <<>> => Sound(e2, c2, Tail(q), k, l2)
         /\ \A ev \in Event : ev.kind # "filled" => Sound(e2, c2, Append(q, ev), k, l2)
  <1>1. Sound(e2, c2, q, k, l2)
    BY DEF Sound, Absent, FillOf
  <1>2. ASSUME q # <<>>
        PROVE  Sound(e2, c2, Tail(q), k, l2)
    <2>1. \A i \in DOMAIN Tail(q) : i + 1 \in DOMAIN q /\ Tail(q)[i] = q[i + 1]
      BY <1>2
    <2>2. \A id : \A i \in DOMAIN Tail(q) : FillOf(Tail(q), i, id) => FillOf(q, i + 1, id)
      BY <2>1 DEF FillOf
    <2>3. \A i, j \in DOMAIN Tail(q) : i \in Int /\ j \in Int /\ (i + 1 = j + 1 => i = j)
      BY <1>2
    <2> HIDE DEF FillOf
    <2> QED
      BY <1>1, <2>1, <2>2, <2>3 DEF Sound, Absent
  <1>3. ASSUME NEW ev \in Event, ev.kind # "filled"
        PROVE  Sound(e2, c2, Append(q, ev), k, l2)
    <2>1. \A id : \A i \in DOMAIN Append(q, ev) :
            FillOf(Append(q, ev), i, id) => i \in DOMAIN q /\ FillOf(q, i, id)
      BY <1>3 DEF FillOf
    <2> HIDE DEF FillOf
    <2> QED
      BY <1>1, <2>1 DEF Sound, Absent
  <1> QED
    BY <1>1, <1>2, <1>3

\* What is nowhere, or given up, need not be tracked.
LEMMA SoundForgotten ==
  ASSUME NEW e, NEW c, NEW q, NEW k, NEW l, Sound(e, c, q, k, l), NEW k2,
         \A id \in k \ k2 : id \in l \/ Absent(e \cup c, q, id)
  PROVE  Sound(e, c, q, k2, l)
  <1> USE DEF Sound
  <1>1. \A id \in OrderId \ l : id \notin k2 => Absent(e \cup c, q, id)
    OBVIOUS
  <1> QED
    BY <1>1

\* An order with an id that is not tracked is sent and tracked.
LEMMA SoundExtended ==
  ASSUME NEW e, NEW c, NEW q, NEW k, NEW l, Sound(e, c, q, k, l), NEW o, o.id \notin k
  PROVE  Sound(e, c \cup {o}, q, k \cup {o.id}, l)
  <1>1. ASSUME NEW id \in OrderId \ l, id # o.id
        PROVE  Absent(e \cup c, q, id) => Absent(e \cup (c \cup {o}), q, id)
    BY <1>1 DEF Absent
  <1>2. ASSUME o.id \in OrderId \ l
        PROVE  Absent(e \cup c, q, o.id)
    BY <1>2 DEF Sound
  <1>3. ASSUME NEW id \in OrderId \ l, id = o.id
        PROVE  /\ \A o1, o2 \in e \cup (c \cup {o}) : o1.id = id /\ o2.id = id => o1 = o2
               /\ \A x \in e \cap (c \cup {o}) : x.id # id
               /\ \A x \in e \cup (c \cup {o}) : \A i \in DOMAIN q : x.id = id => ~ FillOf(q, i, id)
               /\ \A i, j \in DOMAIN q : FillOf(q, i, id) /\ FillOf(q, j, id) => i = j
    BY <1>2, <1>3 DEF Absent
  <1>4. ASSUME NEW id \in OrderId \ l, id # o.id
        PROVE  /\ \A o1, o2 \in e \cup (c \cup {o}) : o1.id = id /\ o2.id = id => o1 = o2
               /\ \A x \in e \cap (c \cup {o}) : x.id # id
               /\ \A x \in e \cup (c \cup {o}) : \A i \in DOMAIN q : x.id = id => ~ FillOf(q, i, id)
               /\ \A i, j \in DOMAIN q : FillOf(q, i, id) /\ FillOf(q, j, id) => i = j
    BY <1>4 DEF Sound
  <1>5. ASSUME NEW id \in OrderId \ l, id \notin k \cup {o.id}
        PROVE  Absent(e \cup (c \cup {o}), q, id)
    BY <1>1, <1>5 DEF Sound
  <1> QED
    BY <1>3, <1>4, <1>5 DEF Sound

(***************************************************************************)
(* Positions change one at a time                                          *)
(***************************************************************************)

\* A change of position p.
LEMMA ChangeOne ==
  ASSUME NEW t, Fits(t), NEW p \in PosIds, NEW u \in Strategy,
         PosFits(u.pos[p], p),
         \A r \in PosIds : r # p => u.pos[r] = t.pos[r],
         u.pos[p].state = "WATCHING" => \A r \in PosIds : t.pos[r].state = "WATCHING" => r = p,
         t.pos[p].state = "COMPLETED" => u.pos[p].state = "COMPLETED",
         \A id \in u.tracked : IF id[1] = p THEN Holds(u.pos[p], id) ELSE id \in t.tracked,
         \A id \in t.tracked : id[1] # p => id \in u.tracked,
         \A o \in {u.pos[p].pending, u.pos[p].sell} : o # NoOrder => o.id \in u.tracked,
         u.pos[p].state # "COMPLETED" =>
             u.locked - Committed(u.pos[p]) = t.locked - Committed(t.pos[p])
  PROVE  Fits(u)
  <1>1. /\ t \in Strategy
        /\ \A r \in PosIds : PosFits(t.pos[r], r) /\ t.pos[r] \in Position
        /\ \A r \in PosIds : u.pos[r] \in Position
    BY DEF Fits, PosFits, Strategy
  <1>2. \A r \in PosIds : PosFits(u.pos[r], r)
    BY <1>1
  <1>3. \A q, r \in PosIds :
          u.pos[q].state = "WATCHING" /\ u.pos[r].state = "WATCHING" => q = r
    BY DEF Fits
  <1>4. \A id \in u.tracked : Holds(u.pos[id[1]], id)
    <2> SUFFICES ASSUME NEW id \in u.tracked PROVE Holds(u.pos[id[1]], id)
      OBVIOUS
    <2>1. id \in OrderId
      BY DEF Strategy
    <2>2. id[1] \in PosIds
      BY <2>1 DEF OrderId
    <2> QED
      BY <2>2 DEF Fits
  <1>5. \A r \in PosIds : \A o \in {u.pos[r].pending, u.pos[r].sell} :
          o # NoOrder => o.id \in u.tracked
    <2> SUFFICES ASSUME NEW r \in PosIds, r # p,
                        NEW o \in {u.pos[r].pending, u.pos[r].sell}, o # NoOrder
                 PROVE  o.id \in u.tracked
      OBVIOUS
    <2>1. o.id \in t.tracked
      BY DEF Fits
    <2>2. o.id[1] = r
      BY <1>1 DEF PosFits, SellId
    <2> QED
      BY <2>1, <2>2
  <1>6. ASSUME \A r \in PosIds : u.pos[r].state # "COMPLETED"
        PROVE  u.locked = SumFunctionOnSet([r \in PosIds |-> Committed(u.pos[r])], PosIds)
    <2>1. PICK f : f = [r \in PosIds |-> Committed(t.pos[r])]
      OBVIOUS
    <2>2. PICK g : g = [r \in PosIds |-> Committed(u.pos[r])]
      OBVIOUS
    <2>3. \A r \in PosIds : Committed(t.pos[r]) \in Int /\ Committed(u.pos[r]) \in Int
      BY <1>1 DEF Committed, Position, PlacedOrder, NoOrder
    <2>4. Numbers(f, PosIds) /\ g[p] \in Int /\ \A r \in PosIds \ {p} : g[r] = f[r]
      BY <2>1, <2>2, <2>3, PositionsAreFinite DEF Numbers
    <2>5. SumFunctionOnSet(g, PosIds) = SumFunctionOnSet(f, PosIds) - f[p] + g[p]
      BY <2>4, SumOfChange
    <2>6. SumFunctionOnSet(f, PosIds) = t.locked
      BY <1>6, <2>1 DEF Fits
    <2>7. t.locked \in Int /\ u.locked \in Int
      BY <1>1 DEF Strategy
    <2>8. u.locked - g[p] = t.locked - f[p] /\ f[p] \in Int /\ g[p] \in Int
      BY <1>6, <2>1, <2>2, <2>3
    <2>9. u.locked = SumFunctionOnSet(g, PosIds)
      BY <2>5, <2>6, <2>7, <2>8
    <2> QED
      BY <2>2, <2>9
  <1> QED
    BY <1>2, <1>3, <1>4, <1>5, <1>6 DEF Fits

(***************************************************************************)
(* The methods of the strategy                                             *)
(***************************************************************************)

\* The size of an order is 0 when it would be too small.
LEMMA OrderSizeType ==
  ASSUME NEW t \in Strategy
  PROVE  OrderSize(t) \in Nat
  <1>1. t.avail \in Int /\ OrderPct \in Int /\ MinOrder \in Nat
    BY ConfigAssumption DEF Strategy
  <1>2. \A x \in Int : x \div 100 \in Int
    OBVIOUS
  <1>3. t.avail * OrderPct \in Int
    BY <1>1
  <1> QED
    BY <1>1, <1>2, <1>3 DEF OrderSize

\* A price below a top is a natural number.
LEMMA BuyPriceType ==
  ASSUME NEW top \in Nat, NEW level \in Nat
  PROVE  /\ level < Levels => BuyPrice(top, level) \in Nat
         /\ BuyPrice(top, 0) \in Nat
  <1>1. \A n \in Nat : n < Levels => Distances[n + 1] \in 1 .. 99
    <2>1. Distances \in Seq(Percent)
      BY MarketAssumption
    <2>2. \A n \in Nat : n < Levels => n + 1 \in 1 .. Len(Distances)
      BY <2>1 DEF Levels
    <2>3. \A n \in 1 .. Len(Distances) : Distances[n] \in Percent
      BY <2>1
    <2> QED
      BY <2>2, <2>3 DEF Percent
  <1>2. 0 < Levels /\ 0 \in Nat
    BY MarketAssumption DEF Levels
  <1>3. \A n \in Nat : n < Levels => 100 - Distances[n + 1] \in Nat
    BY <1>1
  <1>4. \A x, y \in Nat : x * y \in Nat
    OBVIOUS
  <1>5. \A x \in Nat : x \div 100 \in Nat
    OBVIOUS
  <1>6. \A n \in Nat : n < Levels => BuyPrice(top, n) \in Nat
    BY <1>3, <1>4, <1>5 DEF BuyPrice
  <1> QED
    BY <1>2, <1>6

\* A higher top allows a higher price.
LEMMA BuyPriceRises ==
  ASSUME NEW low \in Nat, NEW high \in Nat, low <= high
  PROVE  BuyPrice(low, 0) <= BuyPrice(high, 0)
  <1>1. PICK k \in Nat : k = 100 - Distances[1]
    <2>1. Distances \in Seq(Percent) /\ Distances # <<>>
      BY MarketAssumption
    <2>2. Distances[1] \in Percent
      BY <2>1
    <2> QED
      BY <2>2 DEF Percent
  <1>2. PICK a, b \in Nat : a = low * k /\ b = high * k
    OBVIOUS
  <1>3. a <= b
    BY <1>2
  <1>4. a \div 100 <= b \div 100
    BY <1>3
  <1>5. BuyPrice(low, 0) = a \div 100 /\ BuyPrice(high, 0) = b \div 100
    <2>1. 0 + 1 = 1
      OBVIOUS
    <2> QED
      BY <1>1, <1>2, <2>1 DEF BuyPrice
  <1> QED
    BY <1>4, <1>5

\* Money moves between what is available and what is locked.
LEMMA LockIs ==
  ASSUME NEW t \in Strategy, NEW amount \in Int
  PROVE  /\ Lock(t, amount) \in Strategy
         /\ Lock(t, amount).pos = t.pos /\ Lock(t, amount).tracked = t.tracked
         /\ Lock(t, amount).creating = t.creating
         /\ Lock(t, amount).locked = t.locked + amount
  <1>1. PICK a, b : a = t.avail - amount /\ b = t.locked + amount
    OBVIOUS
  <1>2. a \in Int /\ b \in Int
    BY <1>1 DEF Strategy
  <1>3. Lock(t, amount) = [t EXCEPT !.avail = a, !.locked = b]
    BY <1>1, Zenon DEF Lock
  <1> QED
    BY <1>1, <1>2, <1>3 DEF Strategy

\* What releasing money leaves alone.
LEMMA ReleaseIs ==
  ASSUME NEW t \in Strategy, NEW amount \in Int, NEW profit \in Int
  PROVE  /\ Release(t, amount, profit) \in Strategy
         /\ Release(t, amount, profit).pos = t.pos
         /\ Release(t, amount, profit).tracked = t.tracked
         /\ Release(t, amount, profit).creating = t.creating
         /\ Release(t, amount, profit).locked = t.locked - amount
  <1>1. PICK a, b : a = t.avail + amount + profit /\ b = t.locked - amount
    OBVIOUS
  <1>2. a \in Int /\ b \in Int
    BY <1>1 DEF Strategy
  <1>3. Release(t, amount, profit) = [t EXCEPT !.locked = b, !.avail = a]
    BY <1>1, Zenon DEF Release
  <1> QED
    BY <1>1, <1>2, <1>3 DEF Strategy

\* What is updated field by field is a strategy when its fields fit.
LEMMA FieldsFit ==
  ASSUME NEW t \in Strategy, NEW u, DOMAIN u = DOMAIN t, u = [i \in DOMAIN u |-> u[i]],
         u.pos \in [PosIds -> Position], u.avail \in Int, u.locked \in Int,
         u.tracked \in SUBSET OrderId, u.creating \in SUBSET PlacedOrder
  PROVE  u \in Strategy
  BY DEF Strategy

\* Orders carry ids of their own; NoOrder carries none of a position.
LEMMA IdsOfOrders ==
  ASSUME NEW t, Fits(t), NEW p \in PosIds
  PROVE  /\ t.pos[p] \in Position
         /\ PosFits(t.pos[p], p)
         /\ \A id \in OrderId : Holds(t.pos[p], id) => id[1] = p
         /\ \A id \in OrderId : id[2] # "sell" /\ Holds(t.pos[p], id) => id = t.pos[p].pending.id
         /\ \A id \in OrderId : id = t.pos[p].pending.id => t.pos[p].pending # NoOrder /\ id[2] # "sell"
         /\ \A id \in OrderId : id = t.pos[p].sell.id => t.pos[p].sell # NoOrder /\ id = SellId(p)
         /\ \A id \in OrderId : id[1] = p =>
                (id \in t.tracked <=> Holds(t.pos[p], id))
  <1>1. t.pos[p] \in Position /\ PosFits(t.pos[p], p)
    BY DEF Fits, PosFits
  <1>2. \A id \in OrderId : id[1] \in PosIds /\ id # NoOrder.id /\ id[1] # 0
    BY DEF OrderId, PosIds, NoOrder
  <1>3. \A id \in OrderId : id = t.pos[p].pending.id => t.pos[p].pending # NoOrder /\ id[2] # "sell" /\ id[1] = p
    BY <1>1, <1>2 DEF PosFits
  <1>4. SellId(p)[1] = p /\ SellId(p)[2] = "sell"
    BY DEF SellId
  <1>5. \A id \in OrderId : id = t.pos[p].sell.id => t.pos[p].sell # NoOrder /\ id = SellId(p)
    BY <1>1, <1>2 DEF PosFits
  <1>6. \A id \in OrderId : id[1] = p => (id \in t.tracked <=> Holds(t.pos[p], id))
    BY <1>3, <1>5 DEF Fits, Holds
  <1> QED
    BY <1>1, <1>3, <1>4, <1>5, <1>6 DEF Holds

\* A buy order is placed for a position that has started and has none, with an
\* id of its own that is no sell's, and for an unconfirmed top not above its price.
LEMMA OrderIsPlaced ==
  ASSUME NEW t, Fits(t), NEW p \in PosIds, NEW price \in Nat, NEW id \in OrderId,
         id[1] = p, id[2] # "sell", Started(t.pos[p]),
         t.pos[p].state = "POTENTIAL_TOP" => price <= BuyPrice(t.pos[p].top, 0)
  PROVE  /\ Fits(place_order(t, p, price, id))
         /\ SameStates(t, place_order(t, p, price, id))
         /\ Rises(t, place_order(t, p, price, id))
         /\ (t.pos[p].state = "POTENTIAL_TOP" => price = BuyPrice(t.pos[p].top, 0)) =>
                Drift(t, place_order(t, p, price, id))
         /\ \A r \in PosIds : r # p => place_order(t, p, price, id).pos[r] = t.pos[r]
         /\ \A e, q, l : Sound(e, t.creating, q, t.tracked, l) =>
                Sound(e, place_order(t, p, price, id).creating, q,
                      place_order(t, p, price, id).tracked, l)
  <1>1. CASE t.pos[p].pending # NoOrder \/ OrderSize(t) = 0
    <2>1. place_order(t, p, price, id) = t
      BY <1>1 DEF place_order
    <2> QED
      BY <2>1 DEF SameStates, Drift, Rises, Priced, Exact
  <1>2. CASE t.pos[p].pending = NoOrder /\ OrderSize(t) # 0
    <2>1. PICK size \in Nat : size = OrderSize(t)
      BY OrderSizeType DEF Fits
    <2>2. PICK o \in PlacedOrder : o = Order(id, price, size)
      BY DEF Order, PlacedOrder
    <2>3. t \in Strategy /\ t.pos[p] \in Position /\ PosFits(t.pos[p], p)
      BY DEF Fits, PosFits
    <2>4. PICK n : n = [t.pos[p] EXCEPT !.pending = o]
      OBVIOUS
    <2>5. PICK u : u = place_order(t, p, price, id)
      OBVIOUS
    <2>6. PICK v \in Strategy :
            /\ v = Lock(t, size)
            /\ v.pos = t.pos /\ v.locked = t.locked + size
            /\ v.tracked = t.tracked /\ v.creating = t.creating
      <3>1. size \in Int
        OBVIOUS
      <3> QED
        BY <2>3, <3>1, LockIs, Zenon
    <2>7. u = [v EXCEPT !.pos[p].pending = o, !.tracked = @ \cup {id}, !.creating = @ \cup {o}]
      BY <1>2, <2>1, <2>2, <2>5, <2>6 DEF place_order
    <2>8. n \in Position
      BY <2>2, <2>3, <2>4 DEF Position
    <2>9. /\ u \in Strategy
          /\ u.pos[p] = n /\ \A r \in PosIds : r # p => u.pos[r] = t.pos[r]
          /\ u.locked = t.locked + size /\ u.tracked = t.tracked \cup {id}
          /\ u.creating = t.creating \cup {o}
      <3>2. PICK f, k, c : f = [v.pos EXCEPT ![p] = n] /\ k = v.tracked \cup {id}
                           /\ c = v.creating \cup {o}
        OBVIOUS
      <3>3. u = [v EXCEPT !.pos = f, !.tracked = k, !.creating = c]
        <4>1. f = [v.pos EXCEPT ![p].pending = o]
          BY <2>4, <2>6, <3>2, Zenon
        <4> QED
          BY <2>7, <3>2, <4>1, Zenon
      <3>4. f \in [PosIds -> Position] /\ k \in SUBSET OrderId /\ c \in SUBSET PlacedOrder
        BY <2>2, <2>8, <3>2 DEF Strategy
      <3>5. u \in Strategy /\ u.pos = f /\ u.locked = v.locked /\ u.tracked = k /\ u.creating = c
        BY <3>3, <3>4 DEF Strategy
      <3>6. f[p] = n /\ \A r \in PosIds : r # p => f[r] = t.pos[r]
        BY <2>3, <2>6, <3>2 DEF Strategy
      <3> QED
        BY <2>6, <3>2, <3>5, <3>6
    <2>10. /\ n.pending = o /\ n.state = t.pos[p].state /\ n.confirmed = t.pos[p].confirmed
           /\ n.sell = t.pos[p].sell /\ n.top = t.pos[p].top /\ n.spent = t.pos[p].spent
           /\ n.cooling = t.pos[p].cooling
      BY <2>3, <2>4 DEF Position
    <2>11. o.id = id /\ o.price = price /\ o.amount = size /\ o # NoOrder
      BY <2>2 DEF Order, NoOrder, PosIds
    <2>12. PosFits(n, p)
      BY <2>3, <2>8, <2>10, <2>11 DEF PosFits, Started
    <2>13. id \notin t.tracked
      BY <1>2, IdsOfOrders DEF SellId
    <2>14. \A x \in u.tracked : IF x[1] = p THEN Holds(u.pos[p], x) ELSE x \in t.tracked
      <3> SUFFICES ASSUME NEW x \in u.tracked, x # id
                   PROVE  IF x[1] = p THEN Holds(u.pos[p], x) ELSE x \in t.tracked
        BY <2>9, <2>10, <2>11 DEF Holds
      <3>1. x \in t.tracked /\ x \in OrderId
        BY <2>9 DEF Strategy
      <3>2. x[1] = p => x = t.pos[p].sell.id
        BY <1>2, <3>1, IdsOfOrders DEF Holds
      <3> QED
        BY <2>9, <2>10, <3>1, <3>2 DEF Holds
    <2>15. \A x \in {u.pos[p].pending, u.pos[p].sell} : x # NoOrder => x.id \in u.tracked
      BY <2>9, <2>10, <2>11 DEF Fits
    <2>16. u.locked - Committed(u.pos[p]) = t.locked - Committed(t.pos[p])
      <3>1. Committed(u.pos[p]) = size + t.pos[p].spent /\ Committed(t.pos[p]) = 0 + t.pos[p].spent
        BY <1>2, <2>9, <2>10, <2>11 DEF Committed, NoOrder
      <3>2. t.locked \in Int /\ t.pos[p].spent \in Int /\ u.locked = t.locked + size
        BY <2>3, <2>9 DEF Strategy, Position
      <3> QED
        BY <3>1, <3>2
    <2>17. Fits(u)
      <3>1. u.pos[p].state = t.pos[p].state /\ \A x \in t.tracked : x \in u.tracked
        BY <2>9, <2>10
      <3>2. u.pos[p].state # "WATCHING"
        BY <3>1 DEF Started
      <3>3. PosFits(u.pos[p], p)
        BY <2>9, <2>12
      <3> QED
        BY <2>9, <2>14, <2>15, <2>16, <3>1, <3>2, <3>3, ChangeOne
    <2>18. /\ SameStates(t, u) /\ Rises(t, u)
           /\ (t.pos[p].state = "POTENTIAL_TOP" => price = BuyPrice(t.pos[p].top, 0)) =>
                  Drift(t, u)
      <3>1. SameStates(t, u)
        BY <2>9, <2>10 DEF SameStates
      <3>2. Rises(t, u)
        BY <2>9, <2>10 DEF Rises, Started
      <3>3. ASSUME t.pos[p].state = "POTENTIAL_TOP" => price = BuyPrice(t.pos[p].top, 0)
            PROVE  Priced(t, u)
        BY <2>9, <2>10, <2>11, <3>3 DEF Priced, Exact
      <3> QED
        BY <3>1, <3>2, <3>3 DEF Drift
    <2>19. \A e, q, l : Sound(e, t.creating, q, t.tracked, l) =>
                            Sound(e, u.creating, q, u.tracked, l)
      <3> SUFFICES ASSUME NEW e, NEW q, NEW l, Sound(e, t.creating, q, t.tracked, l)
                   PROVE  Sound(e, u.creating, q, u.tracked, l)
        OBVIOUS
      <3>1. u.creating = t.creating \cup {o} /\ u.tracked = t.tracked \cup {o.id}
        BY <2>9, <2>11
      <3>2. o.id \notin t.tracked
        BY <2>11, <2>13
      <3> QED
        BY <3>1, <3>2, SoundExtended
    <2> QED
      BY <2>5, <2>9, <2>17, <2>18, <2>19
  <1> QED
    BY <1>1, <1>2

\* What is placed is pending.
LEMMA PlacingSticks ==
  ASSUME NEW t \in Strategy, NEW p \in PosIds, NEW price, NEW id, id[1] = p,
         place_order(t, p, price, id) # t
  PROVE  place_order(t, p, price, id).pos[p].pending # NoOrder
  <1>1. t.pos[p].pending = NoOrder /\ OrderSize(t) # 0
    BY DEF place_order
  <1>2. PICK o : o = Order(id, price, OrderSize(t))
    OBVIOUS
  <1>3. o # NoOrder
    BY <1>2 DEF Order, NoOrder, PosIds
  <1>4. PICK v \in Strategy : v = Lock(t, OrderSize(t)) /\ v.pos = t.pos
    <2>1. OrderSize(t) \in Int
      BY OrderSizeType
    <2> QED
      BY <2>1, LockIs
  <1>5. place_order(t, p, price, id)
        = [v EXCEPT !.pos[p].pending = o, !.tracked = @ \cup {id}, !.creating = @ \cup {o}]
    BY <1>1, <1>2, <1>4 DEF place_order
  <1>6. place_order(t, p, price, id).pos = [v.pos EXCEPT ![p].pending = o]
    BY <1>4, <1>5 DEF Strategy
  <1>7. v.pos[p] \in Position /\ p \in DOMAIN v.pos
    BY <1>4 DEF Strategy
  <1> QED
    BY <1>3, <1>6, <1>7 DEF Position

\* A change of a position that leaves its orders and what it spent.
LEMMA PositionEdited ==
  ASSUME NEW t, Fits(t), NEW p \in PosIds, NEW u \in Strategy,
         PosFits(u.pos[p], p),
         \A r \in PosIds : r # p => u.pos[r] = t.pos[r],
         u.pos[p].state = "WATCHING" => \A r \in PosIds : t.pos[r].state = "WATCHING" => r = p,
         t.pos[p].state = "COMPLETED" => u.pos[p].state = "COMPLETED",
         u.pos[p].pending = t.pos[p].pending, u.pos[p].sell = t.pos[p].sell,
         u.pos[p].spent = t.pos[p].spent,
         u.locked = t.locked, u.tracked = t.tracked
  PROVE  Fits(u)
  <1>1. \A id \in u.tracked : IF id[1] = p THEN Holds(u.pos[p], id) ELSE id \in t.tracked
    BY DEF Fits, Holds
  <1>2. \A o \in {u.pos[p].pending, u.pos[p].sell} : o # NoOrder => o.id \in u.tracked
    BY DEF Fits
  <1>3. u.locked - Committed(u.pos[p]) = t.locked - Committed(t.pos[p])
    BY DEF Committed
  <1>4. \A id \in t.tracked : id[1] # p => id \in u.tracked
    OBVIOUS
  <1> QED
    BY <1>1, <1>2, <1>3, <1>4, ChangeOne

\* The drifts of two methods add up.
LEMMA DriftsAdd ==
  ASSUME NEW t, NEW u, NEW v, Drift(t, u), Drift(u, v)
  PROVE  Drift(t, v)
  <1>1. Rises(t, v)
    BY DEF Drift, Rises
  <1>2. Priced(t, v)
    BY DEF Drift, Priced, Exact
  <1> QED
    BY <1>1, <1>2 DEF Drift

\* Where no new order is off its top, the old exceptions are enough.
LEMMA OrdersDrift ==
  ASSUME NEW t, NEW u, NEW l, OrdersFit(t, l), Drift(t, u)
  PROVE  OrdersFit(u, l)
  BY DEF OrdersFit, Drift, Priced, Exact

\* A pending order may be forgotten when it is given up or nowhere any more.
LEMMA OrderIsForgotten ==
  ASSUME NEW t, Fits(t), NEW p \in PosIds
  PROVE  /\ Fits(ForgetPending(t, p))
         /\ SameStates(t, ForgetPending(t, p))
         /\ Drift(t, ForgetPending(t, p))
         /\ ForgetPending(t, p).pos[p].pending = NoOrder
         /\ ForgetPending(t, p).creating = t.creating
         /\ \A id \in t.tracked : id # t.pos[p].pending.id => id \in ForgetPending(t, p).tracked
         /\ \A e, q, l :
                /\ Sound(e, t.creating, q, t.tracked, l)
                /\ \/ t.pos[p].pending = NoOrder \/ t.pos[p].pending.id \in l
                   \/ Absent(e \cup t.creating, q, t.pos[p].pending.id)
                => Sound(e, t.creating, q, ForgetPending(t, p).tracked, l)
  <1>1. CASE t.pos[p].pending = NoOrder
    <2>1. ForgetPending(t, p) = t
      BY <1>1 DEF ForgetPending
    <2> QED
      BY <1>1, <2>1 DEF SameStates, Drift, Rises, Priced, Exact
  <1>2. CASE t.pos[p].pending # NoOrder
    <2>1. t \in Strategy /\ t.pos[p] \in Position /\ PosFits(t.pos[p], p)
      BY DEF Fits, PosFits
    <2>2. PICK o \in PlacedOrder : o = t.pos[p].pending
      BY <1>2, <2>1 DEF Position
    <2>3. o.id \in OrderId /\ o.amount \in Int /\ o.id[1] = p /\ o.id[2] # "sell"
      BY <1>2, <2>1, <2>2 DEF PlacedOrder, PosFits
    <2>4. PICK v \in Strategy :
            /\ v = Release(t, o.amount, 0)
            /\ v.pos = t.pos /\ v.locked = t.locked - o.amount
            /\ v.tracked = t.tracked /\ v.creating = t.creating
      <3>1. 0 \in Int
        OBVIOUS
      <3> QED
        BY <2>1, <2>3, <3>1, ReleaseIs, Zenon
    <2>5. PICK u : u = ForgetPending(t, p)
      OBVIOUS
    <2>6. u = [v EXCEPT !.pos[p].pending = NoOrder, !.tracked = @ \ {o.id}]
      BY <1>2, <2>2, <2>4, <2>5 DEF ForgetPending
    <2>7. PICK n : n = [t.pos[p] EXCEPT !.pending = NoOrder]
      OBVIOUS
    <2>8. /\ n \in Position /\ n.pending = NoOrder
          /\ n.state = t.pos[p].state /\ n.confirmed = t.pos[p].confirmed
          /\ n.sell = t.pos[p].sell /\ n.top = t.pos[p].top /\ n.spent = t.pos[p].spent
          /\ n.cooling = t.pos[p].cooling
      BY <2>1, <2>7 DEF Position
    <2>9. /\ u.pos = [t.pos EXCEPT ![p] = n]
          /\ u.locked = t.locked - o.amount /\ u.tracked = t.tracked \ {o.id}
          /\ u.creating = t.creating /\ u.avail = v.avail
      BY <2>4, <2>6, <2>7 DEF Strategy
    <2>10. u.pos \in [PosIds -> Position]
      BY <2>1, <2>8, <2>9 DEF Strategy
    <2>11. u.pos[p] = n /\ \A r \in PosIds : r # p => u.pos[r] = t.pos[r]
      BY <2>1, <2>9 DEF Strategy
    <2>12. u \in Strategy
      <3>1. DOMAIN u = DOMAIN v /\ u = [i \in DOMAIN u |-> u[i]]
        BY <2>6
      <3>2. /\ u.avail \in Int /\ u.locked \in Int /\ u.tracked \in SUBSET OrderId
            /\ u.creating \in SUBSET PlacedOrder
        BY <2>1, <2>3, <2>4, <2>9 DEF Strategy
      <3> QED
        BY <2>10, <3>1, <3>2, FieldsFit
    <2>13. PosFits(n, p)
      <3>1. NewPosition.pending = NoOrder /\ NoPosition.pending = NoOrder
        BY DEF NewPosition, NoPosition
      <3>2. t.pos[p].state # "NONE" /\ t.pos[p].state # "WATCHING"
        BY <1>2, <2>1, <3>1 DEF PosFits
      <3> QED
        BY <2>1, <2>8, <3>2 DEF PosFits
    <2>14. \A x \in u.tracked : IF x[1] = p THEN Holds(u.pos[p], x) ELSE x \in t.tracked
      <3> SUFFICES ASSUME NEW x \in u.tracked, x[1] = p
                   PROVE  Holds(u.pos[p], x)
        BY <2>9
      <3>1. x \in t.tracked /\ x \in OrderId /\ x # t.pos[p].pending.id
        BY <2>2, <2>9, <2>12 DEF Strategy
      <3>2. x = t.pos[p].sell.id
        BY <3>1, IdsOfOrders DEF Holds
      <3> QED
        BY <2>8, <2>11, <3>2 DEF Holds
    <2>15. \A x \in {u.pos[p].pending, u.pos[p].sell} : x # NoOrder => x.id \in u.tracked
      <3> SUFFICES ASSUME t.pos[p].sell # NoOrder PROVE t.pos[p].sell.id \in u.tracked
        BY <2>8, <2>11
      <3>1. t.pos[p].sell.id \in t.tracked /\ t.pos[p].sell.id = SellId(p)
        BY <2>1 DEF Fits, PosFits
      <3>2. SellId(p) # o.id
        BY <2>3 DEF SellId
      <3> QED
        BY <2>9, <3>1, <3>2
    <2>16. u.locked - Committed(u.pos[p]) = t.locked - Committed(t.pos[p])
      <3>1. /\ Committed(u.pos[p]) = 0 + t.pos[p].spent
            /\ Committed(t.pos[p]) = o.amount + t.pos[p].spent
        BY <2>2, <2>8, <2>11 DEF Committed, NoOrder
      <3>2. t.locked \in Int /\ t.pos[p].spent \in Int /\ u.locked = t.locked - o.amount
        BY <2>1, <2>9 DEF Strategy, Position
      <3> QED
        BY <2>3, <3>1, <3>2
    <2>17. Fits(u)
      <3>1. /\ u.pos[p].state = t.pos[p].state
            /\ \A x \in t.tracked : x[1] # p => x \in u.tracked
        BY <2>3, <2>8, <2>9, <2>11
      <3>2. u.pos[p].state = "WATCHING" => \A r \in PosIds : t.pos[r].state = "WATCHING" => r = p
        BY <3>1 DEF Fits
      <3>3. PosFits(u.pos[p], p)
        BY <2>11, <2>13
      <3> QED
        BY <2>11, <2>12, <2>14, <2>15, <2>16, <3>1, <3>2, <3>3, ChangeOne
    <2>18. SameStates(t, u) /\ Drift(t, u)
      BY <2>8, <2>11 DEF SameStates, Drift, Rises, Priced, Exact, Started
    <2>19. \A e, q, l :
             /\ Sound(e, t.creating, q, t.tracked, l)
             /\ \/ t.pos[p].pending = NoOrder \/ t.pos[p].pending.id \in l
                \/ Absent(e \cup t.creating, q, t.pos[p].pending.id)
             => Sound(e, t.creating, q, u.tracked, l)
      <3> SUFFICES ASSUME NEW e, NEW q, NEW l, Sound(e, t.creating, q, t.tracked, l),
                          o.id \in l \/ Absent(e \cup t.creating, q, o.id)
                   PROVE  Sound(e, t.creating, q, u.tracked, l)
        BY <1>2, <2>2
      <3>1. \A id \in t.tracked \ u.tracked : id = o.id
        BY <2>9
      <3> QED
        BY <3>1, SoundForgotten
    <2> QED
      BY <2>2, <2>5, <2>8, <2>9, <2>11, <2>17, <2>18, <2>19
  <1> QED
    BY <1>1, <1>2

\* A top moves up, with a new order at its price.
LEMMA TopIsMoved ==
  ASSUME NEW t, Fits(t), NEW p \in PosIds, NEW high \in Nat,
         t.pos[p].state = "POTENTIAL_TOP", t.pos[p].top <= high
  PROVE  /\ Fits(Invalidated(t, p, high))
         /\ Visited(t, Invalidated(t, p, high), high)
         /\ Drift(t, Invalidated(t, p, high))
         /\ \A e, q, l :
                /\ Sound(e, t.creating, q, t.tracked, l)
                /\ \/ t.pos[p].pending = NoOrder \/ t.pos[p].pending.id \in l
                   \/ Absent(e \cup t.creating, q, t.pos[p].pending.id)
                => Sound(e, Invalidated(t, p, high).creating, q,
                         Invalidated(t, p, high).tracked, l)
  <1>1. PICK v : v = ForgetPending(t, p)
    OBVIOUS
  <1>2. Fits(v) /\ SameStates(t, v) /\ Drift(t, v) /\ v.pos[p].pending = NoOrder
        /\ v.creating = t.creating
    BY <1>1, OrderIsForgotten
  <1>3. v \in Strategy /\ v.pos[p] \in Position /\ PosFits(v.pos[p], p)
        /\ v.pos[p].state = "POTENTIAL_TOP" /\ v.pos[p].top = t.pos[p].top
    BY <1>2 DEF Fits, PosFits, SameStates
  <1>4. PICK u : u = [v EXCEPT !.pos[p].top = high, !.pos[p].fresh = TRUE,
                               !.pos[p].cooling = TRUE]
    OBVIOUS
  <1>5. PICK n : n = [v.pos[p] EXCEPT !.top = high, !.fresh = TRUE, !.cooling = TRUE]
    OBVIOUS
  <1>6. /\ n \in Position /\ n.pending = NoOrder /\ n.state = "POTENTIAL_TOP"
        /\ n.confirmed = v.pos[p].confirmed /\ n.sell = v.pos[p].sell
        /\ n.spent = v.pos[p].spent /\ n.top = high /\ n.cooling = TRUE
    BY <1>2, <1>3, <1>5 DEF Position
  <1>7. /\ u.pos = [v.pos EXCEPT ![p] = n] /\ u.locked = v.locked
        /\ u.tracked = v.tracked /\ u.creating = v.creating /\ u.avail = v.avail
    BY <1>3, <1>4, <1>5 DEF Strategy
  <1>8. u.pos[p] = n /\ \A r \in PosIds : r # p => u.pos[r] = v.pos[r]
    BY <1>3, <1>7 DEF Strategy
  <1>9. u \in Strategy
    <2>1. DOMAIN u = DOMAIN v /\ u = [i \in DOMAIN u |-> u[i]]
      BY <1>4
    <2>2. u.pos \in [PosIds -> Position]
      BY <1>3, <1>6, <1>7 DEF Strategy
    <2>3. /\ u.avail \in Int /\ u.locked \in Int /\ u.tracked \in SUBSET OrderId
          /\ u.creating \in SUBSET PlacedOrder
      BY <1>3, <1>7 DEF Strategy
    <2> QED
      BY <1>3, <2>1, <2>2, <2>3, FieldsFit
  <1>10. PosFits(n, p)
    BY <1>3, <1>6 DEF PosFits
  <1>11. Fits(u)
    <2>1. /\ PosFits(u.pos[p], p) /\ u.pos[p].state # "WATCHING"
          /\ v.pos[p].state # "COMPLETED"
          /\ u.pos[p].pending = v.pos[p].pending /\ u.pos[p].sell = v.pos[p].sell
          /\ u.pos[p].spent = v.pos[p].spent
      BY <1>2, <1>3, <1>6, <1>8, <1>10
    <2> QED
      BY <1>2, <1>7, <1>8, <1>9, <2>1, PositionEdited
  <1>12. Drift(v, u)
    <2>1. \A price \in Nat : price <= BuyPrice(v.pos[p].top, 0) => price <= BuyPrice(high, 0)
      <3>1. v.pos[p].top \in Nat /\ v.pos[p].top <= high
        BY <1>3 DEF Position
      <3>2. BuyPrice(v.pos[p].top, 0) <= BuyPrice(high, 0)
        BY <3>1, BuyPriceRises
      <3>3. BuyPrice(v.pos[p].top, 0) \in Nat /\ BuyPrice(high, 0) \in Nat
        BY <3>1, BuyPriceType
      <3> QED
        BY <3>2, <3>3
    <2>2. Rises(v, u)
      BY <1>3, <1>6, <1>8, <2>1 DEF Rises, Started
    <2>3. Priced(v, u)
      BY <1>6, <1>8 DEF Priced, Exact
    <2> QED
      BY <2>2, <2>3 DEF Drift
  <1>13. PICK price \in Nat, id \in OrderId :
           price = BuyPrice(high, 0) /\ id = ReplacementId(p, high)
    BY BuyPriceType DEF OrderId, ReplacementId
  <1>14. PICK w : w = Invalidated(t, p, high)
    OBVIOUS
  <1>15. w = place_order(u, p, price, id)
    BY <1>1, <1>4, <1>13, <1>14 DEF Invalidated
  <1>16. /\ id[1] = p /\ id[2] # "sell" /\ Started(u.pos[p])
         /\ price = BuyPrice(u.pos[p].top, 0) /\ price <= BuyPrice(u.pos[p].top, 0)
    BY <1>6, <1>8, <1>13 DEF ReplacementId, Started
  <1>17. /\ Fits(w) /\ SameStates(u, w) /\ Drift(u, w)
         /\ \A e, q, l : Sound(e, u.creating, q, u.tracked, l) =>
                             Sound(e, w.creating, q, w.tracked, l)
    BY <1>11, <1>15, <1>16, OrderIsPlaced
  <1>18. Visited(t, w, high) /\ Drift(t, w)
    <2>1. Drift(t, u)
      BY <1>2, <1>12, DriftsAdd
    <2>2. Visited(t, u, high)
      BY <1>2, <1>3, <1>6, <1>8 DEF SameStates, Visited
    <2>3. Visited(t, w, high)
      BY <1>17, <2>2 DEF SameStates, Visited
    <2> QED
      BY <1>17, <2>1, <2>3, DriftsAdd
  <1>19. \A e, q, l :
           /\ Sound(e, t.creating, q, t.tracked, l)
           /\ \/ t.pos[p].pending = NoOrder \/ t.pos[p].pending.id \in l
              \/ Absent(e \cup t.creating, q, t.pos[p].pending.id)
           => Sound(e, w.creating, q, w.tracked, l)
    <2> SUFFICES ASSUME NEW e, NEW q, NEW l, Sound(e, t.creating, q, t.tracked, l),
                        \/ t.pos[p].pending = NoOrder \/ t.pos[p].pending.id \in l
                        \/ Absent(e \cup t.creating, q, t.pos[p].pending.id)
                 PROVE  Sound(e, w.creating, q, w.tracked, l)
      OBVIOUS
    <2>1. Sound(e, t.creating, q, v.tracked, l)
      BY <1>1, OrderIsForgotten
    <2>2. u.creating = t.creating /\ u.tracked = v.tracked
      BY <1>2, <1>7
    <2> QED
      BY <1>17, <2>1, <2>2
  <1> QED
    BY <1>14, <1>17, <1>18, <1>19

\* A position to watch is created where none is.
LEMMA PlaceholderFits ==
  ASSUME NEW t, Fits(t)
  PROVE  /\ Fits(_create_placeholder_watching_position(t))
         /\ Drift(t, _create_placeholder_watching_position(t))
         /\ _create_placeholder_watching_position(t).tracked = t.tracked
         /\ _create_placeholder_watching_position(t).creating = t.creating
  <1>1. CASE Watching(t) # {} \/ InState(t, "NONE") = {}
    <2>1. _create_placeholder_watching_position(t) = t
      BY <1>1 DEF _create_placeholder_watching_position
    <2> QED
      BY <2>1 DEF Drift, Rises, Priced, Exact
  <1>2. CASE ~ (Watching(t) # {} \/ InState(t, "NONE") = {})
    <2>1. InState(t, "NONE") \in SUBSET PosIds
      BY DEF InState
    <2>2. PICK p \in PosIds : p = First(InState(t, "NONE")) /\ t.pos[p].state = "NONE"
      BY <1>2, <2>1, FirstIsOne DEF InState
    <2>3. t \in Strategy /\ t.pos[p] = NoPosition
      BY <2>2 DEF Fits, PosFits
    <2>4. PICK u : u = [t EXCEPT !.pos[p] = NewPosition]
      OBVIOUS
    <2>5. u = _create_placeholder_watching_position(t)
      BY <1>2, <2>2, <2>4 DEF _create_placeholder_watching_position
    <2>6. NewPosition \in Position /\ PosFits(NewPosition, p)
      BY DEF NewPosition, Position, PosFits, NoOrder
    <2>7. /\ u.pos = [t.pos EXCEPT ![p] = NewPosition] /\ u.locked = t.locked
          /\ u.tracked = t.tracked /\ u.creating = t.creating
      BY <2>3, <2>4 DEF Strategy
    <2>8. u.pos[p] = NewPosition /\ \A r \in PosIds : r # p => u.pos[r] = t.pos[r]
      BY <2>3, <2>7 DEF Strategy
    <2>9. u \in Strategy
      BY <2>3, <2>4, <2>6 DEF Strategy
    <2>10. /\ NewPosition.pending = NoPosition.pending /\ NewPosition.sell = NoPosition.sell
           /\ NewPosition.spent = NoPosition.spent /\ NoPosition.state = "NONE"
      BY DEF NewPosition, NoPosition
    <2>11. \A r \in PosIds : t.pos[r].state # "WATCHING"
      BY <1>2 DEF Watching, InState
    <2>12. Fits(u)
      <3>1. /\ PosFits(u.pos[p], p)
            /\ u.pos[p].state = "WATCHING" => \A r \in PosIds : t.pos[r].state = "WATCHING" => r = p
            /\ t.pos[p].state # "COMPLETED"
            /\ u.pos[p].pending = t.pos[p].pending /\ u.pos[p].sell = t.pos[p].sell
            /\ u.pos[p].spent = t.pos[p].spent
        BY <2>3, <2>6, <2>8, <2>10, <2>11
      <3>2. \A r \in PosIds : r # p => u.pos[r] = t.pos[r]
        BY <2>8
      <3>3. u.locked = t.locked /\ u.tracked = t.tracked
        BY <2>7
      <3> QED
        BY <2>9, <3>1, <3>2, <3>3, PositionEdited
    <2>13. Drift(t, u)
      BY <2>2, <2>8 DEF Drift, Rises, Priced, Exact, Started, NewPosition
    <2> QED
      BY <2>5, <2>7, <2>12, <2>13
  <1> QED
    BY <1>1, <1>2

\* A rising pattern turns the watching position into one with a top.
LEMMA RisingFits ==
  ASSUME NEW t, Fits(t), NEW high \in Nat
  PROVE  /\ Fits(_handle_rising_pattern(t, high))
         /\ Drift(t, _handle_rising_pattern(t, high))
         /\ \A e, q, l : Sound(e, t.creating, q, t.tracked, l) =>
                Sound(e, _handle_rising_pattern(t, high).creating, q,
                      _handle_rising_pattern(t, high).tracked, l)
  <1>1. CASE OrderSize(t) = 0 \/ Watching(t) = {}
    <2>1. _handle_rising_pattern(t, high) = t
      BY <1>1 DEF _handle_rising_pattern
    <2> QED
      BY <2>1 DEF Drift, Rises, Priced, Exact
  <1>2. CASE ~ (OrderSize(t) = 0 \/ Watching(t) = {})
    <2>1. Watching(t) \in SUBSET PosIds
      BY DEF Watching, InState
    <2>2. PICK p \in PosIds : p = First(Watching(t)) /\ t.pos[p].state = "WATCHING"
      BY <1>2, <2>1, FirstIsOne DEF Watching, InState
    <2>3. /\ t \in Strategy /\ t.pos[p] \in Position /\ t.pos[p] = NewPosition
      BY <2>2 DEF Fits, PosFits
    <2>4. /\ t.pos[p].pending = NoOrder /\ t.pos[p].sell = NoOrder /\ t.pos[p].spent = 0
          /\ t.pos[p].confirmed = 0
      BY <2>3 DEF NewPosition
    <2>5. PICK u : u = [t EXCEPT !.pos[p].state = "POTENTIAL_TOP", !.pos[p].top = high]
      OBVIOUS
    <2>6. PICK n : n = [t.pos[p] EXCEPT !.state = "POTENTIAL_TOP", !.top = high]
      OBVIOUS
    <2>7. /\ n \in Position /\ n.state = "POTENTIAL_TOP" /\ n.top = high
          /\ n.pending = NoOrder /\ n.sell = NoOrder /\ n.spent = 0 /\ n.confirmed = 0
      BY <2>3, <2>4, <2>6 DEF Position
    <2>8. /\ u.pos = [t.pos EXCEPT ![p] = n] /\ u.locked = t.locked /\ u.avail = t.avail
          /\ u.tracked = t.tracked /\ u.creating = t.creating
      BY <2>3, <2>5, <2>6 DEF Strategy
    <2>9. u.pos[p] = n /\ \A r \in PosIds : r # p => u.pos[r] = t.pos[r]
      BY <2>3, <2>8 DEF Strategy
    <2>10. u \in Strategy
      <3>1. DOMAIN u = DOMAIN t /\ u = [i \in DOMAIN u |-> u[i]]
        BY <2>5
      <3>2. u.pos \in [PosIds -> Position]
        BY <2>3, <2>7, <2>8 DEF Strategy
      <3>3. /\ u.avail \in Int /\ u.locked \in Int /\ u.tracked \in SUBSET OrderId
            /\ u.creating \in SUBSET PlacedOrder
        BY <2>3, <2>8 DEF Strategy
      <3> QED
        BY <2>3, <3>1, <3>2, <3>3, FieldsFit
    <2>11. PosFits(n, p)
      BY <2>7 DEF PosFits
    <2>12. Fits(u)
      <3>1. /\ PosFits(u.pos[p], p) /\ u.pos[p].state # "WATCHING"
            /\ t.pos[p].state # "COMPLETED"
            /\ u.pos[p].pending = t.pos[p].pending /\ u.pos[p].sell = t.pos[p].sell
            /\ u.pos[p].spent = t.pos[p].spent
        BY <2>2, <2>4, <2>7, <2>9, <2>11
      <3> QED
        BY <2>8, <2>9, <2>10, <3>1, PositionEdited
    <2>13. Drift(t, u)
      BY <2>2, <2>7, <2>9 DEF Drift, Rises, Priced, Exact, Started
    <2>14. PICK price \in Nat, id \in OrderId :
             price = BuyPrice(high, 0) /\ id = DcaId(p, 0)
      BY BuyPriceType DEF OrderId, DcaId
    <2>15. PICK w : w = _handle_rising_pattern(t, high)
      OBVIOUS
    <2>16. w = place_order(u, p, price, id)
      BY <1>2, <2>2, <2>5, <2>14, <2>15 DEF _handle_rising_pattern
    <2>17. /\ id[1] = p /\ id[2] # "sell" /\ Started(u.pos[p])
           /\ price = BuyPrice(u.pos[p].top, 0) /\ price <= BuyPrice(u.pos[p].top, 0)
      BY <2>7, <2>9, <2>14 DEF DcaId, Started
    <2>18. /\ Fits(w) /\ Drift(u, w)
           /\ \A e, q, l : Sound(e, u.creating, q, u.tracked, l) =>
                               Sound(e, w.creating, q, w.tracked, l)
      BY <2>12, <2>16, <2>17, OrderIsPlaced
    <2>19. Drift(t, w)
      BY <2>13, <2>18, DriftsAdd
    <2> QED
      BY <2>8, <2>15, <2>18, <2>19
  <1> QED
    BY <1>1, <1>2

\* The fill of a tracked buy order is booked: its money is spent, not pending.
LEMMA FillIsBooked ==
  ASSUME NEW t, Fits(t), NEW id \in OrderId, NEW p \in PosIds, id[1] = p, id # SellId(p),
         id \in t.tracked, NEW price \in Nat
  PROVE  /\ Fits(Booked(t, p, id, price))
         /\ Drift(t, Booked(t, p, id, price))
         /\ Booked(t, p, id, price).tracked = t.tracked \ {id}
         /\ Booked(t, p, id, price).creating = t.creating
  <1>1. /\ t \in Strategy /\ t.pos[p] \in Position /\ PosFits(t.pos[p], p)
    BY DEF Fits, PosFits
  <1>2. id = t.pos[p].pending.id /\ t.pos[p].pending # NoOrder /\ id[2] # "sell"
    BY IdsOfOrders DEF Holds
  <1>3. t.pos[p].state # "NONE" /\ t.pos[p].state # "WATCHING"
    <2>1. NewPosition.pending = NoOrder /\ NoPosition.pending = NoOrder
      BY DEF NewPosition, NoPosition
    <2> QED
      BY <1>1, <1>2, <2>1 DEF PosFits
  <1>4. PICK spent, invested, qty, level, state, confirmed :
          /\ spent = t.pos[p].spent + t.pos[p].pending.amount
          /\ invested = t.pos[p].invested + price
          /\ qty = t.pos[p].qty + 1 /\ level = t.pos[p].level + 1
          /\ state = IF t.pos[p].state = "POTENTIAL_TOP" THEN "ACTIVE" ELSE t.pos[p].state
          /\ confirmed = IF t.pos[p].state = "POTENTIAL_TOP" THEN t.pos[p].top
                         ELSE t.pos[p].confirmed
    OBVIOUS
  <1>5. PICK u : u = Booked(t, p, id, price)
    OBVIOUS
  <1>6. u = [t EXCEPT !.tracked = @ \ {id}, !.pos[p].pending = NoOrder,
                      !.pos[p].spent = spent, !.pos[p].invested = invested,
                      !.pos[p].qty = qty, !.pos[p].level = level,
                      !.pos[p].state = state, !.pos[p].confirmed = confirmed]
    BY <1>2, <1>4, <1>5 DEF Booked
  <1>7. PICK n : n = [t.pos[p] EXCEPT !.pending = NoOrder, !.spent = spent,
                         !.invested = invested, !.qty = qty, !.level = level,
                         !.state = state, !.confirmed = confirmed]
    OBVIOUS
  <1>8. /\ t.pos[p].pending \in PlacedOrder /\ t.pos[p].pending.amount \in Nat
        /\ spent \in Nat /\ invested \in Nat /\ qty \in Nat /\ level \in Nat
        /\ confirmed \in Nat /\ state \in {"ACTIVE", "COMPLETED"}
        /\ t.pos[p].state = "COMPLETED" => state = "COMPLETED"
        /\ state # "ACTIVE" => confirmed = 0 /\ t.pos[p].sell = NoOrder
    <2>1. t.pos[p].pending \in PlacedOrder
      BY <1>1, <1>2 DEF Position
    <2>2. t.pos[p].pending.amount \in Nat
      BY <2>1 DEF PlacedOrder
    <2>3. /\ t.pos[p].spent \in Nat /\ t.pos[p].invested \in Nat /\ t.pos[p].qty \in Nat
          /\ t.pos[p].level \in Nat /\ t.pos[p].top \in Nat /\ t.pos[p].confirmed \in Nat
          /\ t.pos[p].state \in {"POTENTIAL_TOP", "ACTIVE", "COMPLETED"}
      BY <1>1, <1>3 DEF Position
    <2>4. spent \in Nat /\ invested \in Nat /\ qty \in Nat /\ level \in Nat
      BY <1>4, <2>2, <2>3
    <2>5. /\ confirmed \in Nat /\ state \in {"ACTIVE", "COMPLETED"}
          /\ t.pos[p].state = "COMPLETED" => state = "COMPLETED"
      BY <1>4, <2>3
    <2>6. state # "ACTIVE" => confirmed = 0 /\ t.pos[p].sell = NoOrder
      BY <1>1, <1>4, <2>3 DEF PosFits
    <2> QED
      BY <2>1, <2>2, <2>4, <2>5, <2>6
  <1>9. /\ n \in Position /\ n.pending = NoOrder /\ n.state = state
        /\ n.confirmed = confirmed /\ n.sell = t.pos[p].sell /\ n.spent = spent
    BY <1>1, <1>7, <1>8 DEF Position
  \* The chain of updates is cut in two.
  <1>10. PICK v : v = [t EXCEPT !.tracked = @ \ {id}, !.pos[p].pending = NoOrder,
                               !.pos[p].spent = spent, !.pos[p].invested = invested]
    OBVIOUS
  <1>11. u = [v EXCEPT !.pos[p].qty = qty, !.pos[p].level = level,
                       !.pos[p].state = state, !.pos[p].confirmed = confirmed]
    BY <1>6, <1>10, Zenon
  <1>12. PICK m : m = [t.pos[p] EXCEPT !.pending = NoOrder, !.spent = spent,
                                       !.invested = invested]
    OBVIOUS
  <1>13. n = [m EXCEPT !.qty = qty, !.level = level, !.state = state,
                       !.confirmed = confirmed]
    BY <1>7, <1>12, Zenon
  <1>14. m \in Position
    BY <1>1, <1>8, <1>12 DEF Position
  <1>15. /\ v.pos = [t.pos EXCEPT ![p] = m] /\ v.locked = t.locked /\ v.avail = t.avail
         /\ v.tracked = t.tracked \ {id} /\ v.creating = t.creating
    BY <1>1, <1>10, <1>12 DEF Strategy
  <1>16. v.pos[p] = m /\ v.pos \in [PosIds -> Position]
    BY <1>1, <1>14, <1>15 DEF Strategy
  <1>17. DOMAIN v = DOMAIN t /\ v = [i \in DOMAIN v |-> v[i]]
    <2>1. PICK w : w = [t EXCEPT !.tracked = @ \ {id}, !.pos[p].pending = NoOrder,
                                !.pos[p].spent = spent]
      OBVIOUS
    <2>2. v = [w EXCEPT !.pos[p].invested = invested]
      BY <1>10, <2>1, ZenonT(40)
    <2>3. DOMAIN w = DOMAIN t
      BY <2>1, ZenonT(40)
    <2> QED
      BY <2>2, <2>3, ZenonT(40)
  <1>18. v \in Strategy
    <2>1. /\ v.avail \in Int /\ v.locked \in Int /\ v.tracked \in SUBSET OrderId
          /\ v.creating \in SUBSET PlacedOrder
      BY <1>1, <1>15 DEF Strategy
    <2> QED
      BY <1>1, <1>16, <1>17, <2>1, FieldsFit
  <1>19. /\ u.pos = [v.pos EXCEPT ![p] = n] /\ u.locked = v.locked /\ u.avail = v.avail
         /\ u.tracked = v.tracked /\ u.creating = v.creating
    BY <1>11, <1>13, <1>16, <1>18 DEF Strategy
  <1>20. /\ u.pos = [t.pos EXCEPT ![p] = n] /\ u.locked = t.locked /\ u.avail = t.avail
         /\ u.tracked = t.tracked \ {id} /\ u.creating = t.creating
    BY <1>1, <1>15, <1>19 DEF Strategy
  <1>21. u.pos[p] = n /\ \A r \in PosIds : r # p => u.pos[r] = t.pos[r]
    BY <1>1, <1>20 DEF Strategy
  <1>22. u \in Strategy
    <2>1. DOMAIN u = DOMAIN v /\ u = [i \in DOMAIN u |-> u[i]]
      BY <1>11, ZenonT(60)
    <2>2. u.pos \in [PosIds -> Position]
      BY <1>1, <1>9, <1>20 DEF Strategy
    <2>3. /\ u.avail \in Int /\ u.locked \in Int /\ u.tracked \in SUBSET OrderId
          /\ u.creating \in SUBSET PlacedOrder
      BY <1>1, <1>20 DEF Strategy
    <2> QED
      BY <1>18, <2>1, <2>2, <2>3, FieldsFit
  <1>23. PosFits(n, p)
    BY <1>1, <1>8, <1>9 DEF PosFits
  <1>24. Fits(u)
    <2>1. /\ PosFits(u.pos[p], p) /\ u.pos[p].state # "WATCHING"
          /\ t.pos[p].state = "COMPLETED" => u.pos[p].state = "COMPLETED"
      BY <1>8, <1>9, <1>21, <1>23
    <2>2. \A x \in u.tracked : IF x[1] = p THEN Holds(u.pos[p], x) ELSE x \in t.tracked
      <3> SUFFICES ASSUME NEW x \in u.tracked, x[1] = p
                   PROVE  Holds(u.pos[p], x)
        BY <1>20
      <3>1. x \in t.tracked /\ x \in OrderId /\ x # t.pos[p].pending.id
        BY <1>2, <1>20, <1>22 DEF Strategy
      <3>2. x = t.pos[p].sell.id
        BY <3>1, IdsOfOrders DEF Holds
      <3> QED
        BY <1>9, <1>21, <3>2 DEF Holds
    <2>3. \A o \in {u.pos[p].pending, u.pos[p].sell} : o # NoOrder => o.id \in u.tracked
      <3> SUFFICES ASSUME t.pos[p].sell # NoOrder PROVE t.pos[p].sell.id \in u.tracked
        BY <1>9, <1>21
      <3>1. t.pos[p].sell.id \in t.tracked /\ t.pos[p].sell.id = SellId(p)
        BY <1>1 DEF Fits, PosFits
      <3> QED
        BY <1>20, <3>1
    <2>4. u.locked - Committed(u.pos[p]) = t.locked - Committed(t.pos[p])
      <3>1. Committed(u.pos[p]) = 0 + spent
        BY <1>9, <1>21 DEF Committed, NoOrder
      <3>2. Committed(t.pos[p]) = t.pos[p].pending.amount + t.pos[p].spent
        BY DEF Committed
      <3>3. t.pos[p].spent \in Nat
        BY <1>1 DEF Position
      <3> QED
        BY <1>4, <1>8, <1>20, <3>1, <3>2, <3>3
    <2>5. \A x \in t.tracked : x[1] # p => x \in u.tracked
      BY <1>20
    <2> QED
      BY <1>21, <1>22, <2>1, <2>2, <2>3, <2>4, <2>5, ChangeOne
  <1>25. Drift(t, u)
    BY <1>8, <1>9, <1>21 DEF Drift, Rises, Priced, Exact, Started
  <1> QED
    BY <1>5, <1>20, <1>24, <1>25

\* An active position with levels left gets the order of its next level.
LEMMA NextLevelFits ==
  ASSUME NEW t, Fits(t), NEW p \in PosIds
  PROVE  /\ Fits(NextLevel(t, p))
         /\ Drift(t, NextLevel(t, p))
         /\ \A e, q, l : Sound(e, t.creating, q, t.tracked, l) =>
                Sound(e, NextLevel(t, p).creating, q, NextLevel(t, p).tracked, l)
  <1>1. CASE t.pos[p].state # "ACTIVE" \/ t.pos[p].level >= Levels
    <2>1. NextLevel(t, p) = t
      BY <1>1 DEF NextLevel
    <2> QED
      BY <2>1 DEF Drift, Rises, Priced, Exact
  <1>2. CASE ~ (t.pos[p].state # "ACTIVE" \/ t.pos[p].level >= Levels)
    <2>1. t.pos[p].confirmed \in Nat /\ t.pos[p].level \in Nat
      BY DEF Fits, PosFits, Position
    <2>2. Levels \in Nat
      BY MarketAssumption DEF Levels
    <2>3. t.pos[p].level < Levels
      BY <1>2, <2>1, <2>2
    <2>4. PICK price \in Nat, id \in OrderId :
            /\ price = BuyPrice(t.pos[p].confirmed, t.pos[p].level)
            /\ id = DcaId(p, t.pos[p].level)
      BY <2>1, <2>3, BuyPriceType DEF OrderId, DcaId
    <2>5. NextLevel(t, p) = place_order(t, p, price, id)
      BY <1>2, <2>4 DEF NextLevel
    <2>6. id[1] = p /\ id[2] # "sell" /\ Started(t.pos[p]) /\ t.pos[p].state # "POTENTIAL_TOP"
      BY <1>2, <2>4 DEF DcaId, Started
    <2> QED
      BY <2>5, <2>6, OrderIsPlaced
  <1> QED
    BY <1>1, <1>2

\* A fill is booked, or belongs to no order.
LEMMA OrderFillFits ==
  ASSUME NEW t, Fits(t), NEW id \in OrderId, NEW p \in PosIds, id[1] = p, id # SellId(p),
         NEW price \in Nat
  PROVE  /\ Fits(handle_order_fill(t, p, id, price))
         /\ Drift(t, handle_order_fill(t, p, id, price))
         /\ \A e, q, l :
                /\ Sound(e, t.creating, q, t.tracked, l)
                /\ id \in l \/ Absent(e \cup t.creating, q, id)
                => Sound(e, handle_order_fill(t, p, id, price).creating, q,
                         handle_order_fill(t, p, id, price).tracked, l)
  <1>1. CASE id \notin t.tracked
    <2>1. handle_order_fill(t, p, id, price) = t
      BY <1>1 DEF handle_order_fill
    <2> QED
      BY <2>1 DEF Drift, Rises, Priced, Exact
  <1>2. CASE id \in t.tracked
    <2>1. PICK booked : booked = Booked(t, p, id, price)
      OBVIOUS
    <2>2. /\ Fits(booked) /\ Drift(t, booked)
          /\ booked.tracked = t.tracked \ {id} /\ booked.creating = t.creating
      BY <1>2, <2>1, FillIsBooked
    <2>3. PICK v : v = IF t.pos[p].state = "POTENTIAL_TOP"
                       THEN _create_placeholder_watching_position(booked) ELSE booked
      OBVIOUS
    <2>4. /\ Fits(v) /\ Drift(t, v)
          /\ v.tracked = t.tracked \ {id} /\ v.creating = t.creating
      BY <2>2, <2>3, PlaceholderFits, DriftsAdd
    <2>5. PICK w : w = handle_order_fill(t, p, id, price)
      OBVIOUS
    <2>6. w = NextLevel(v, p)
      BY <1>2, <2>1, <2>3, <2>5 DEF handle_order_fill
    <2>7. /\ Fits(w) /\ Drift(t, w)
          /\ \A e, q, l : Sound(e, v.creating, q, v.tracked, l) =>
                              Sound(e, w.creating, q, w.tracked, l)
      BY <2>4, <2>6, NextLevelFits, DriftsAdd
    <2>8. \A e, q, l :
            /\ Sound(e, t.creating, q, t.tracked, l)
            /\ id \in l \/ Absent(e \cup t.creating, q, id)
            => Sound(e, v.creating, q, v.tracked, l)
      <3> SUFFICES ASSUME NEW e, NEW q, NEW l, Sound(e, t.creating, q, t.tracked, l),
                          id \in l \/ Absent(e \cup t.creating, q, id)
                   PROVE  Sound(e, v.creating, q, v.tracked, l)
        OBVIOUS
      <3>1. \A x \in t.tracked \ v.tracked : x = id
        BY <2>4
      <3>2. Sound(e, t.creating, q, v.tracked, l)
        BY <3>1, SoundForgotten
      <3> QED
        BY <2>4, <3>2
    <2> QED
      BY <2>5, <2>7, <2>8
  <1> QED
    BY <1>1, <1>2

\* A filled sell completes its position; a pending buy order is given up.
LEMMA SellFillFits ==
  ASSUME NEW t, Fits(t), NEW p \in PosIds, NEW price \in Nat
  PROVE  /\ Fits(handle_sell_fill(t, p, price))
         /\ Drift(t, handle_sell_fill(t, p, price))
         /\ SellId(p) \notin t.tracked => handle_sell_fill(t, p, price) = t
         /\ SellId(p) \in t.tracked => handle_sell_fill(t, p, price) # t
         /\ \A e, q, l :
                /\ Sound(e, t.creating, q, t.tracked, l)
                /\ SellId(p) \in t.tracked =>
                       /\ t.pos[p].pending = NoOrder \/ t.pos[p].pending.id \in l
                       /\ SellId(p) \in l \/ Absent(e \cup t.creating, q, SellId(p))
                => Sound(e, handle_sell_fill(t, p, price).creating, q,
                         handle_sell_fill(t, p, price).tracked, l)
  <1>1. CASE SellId(p) \notin t.tracked
    <2>1. handle_sell_fill(t, p, price) = t
      BY <1>1 DEF handle_sell_fill
    <2> QED
      BY <1>1, <2>1 DEF Drift, Rises, Priced, Exact
  <1>2. CASE SellId(p) \in t.tracked
    <2>1. PICK v : v = ForgetPending(t, p)
      OBVIOUS
    <2>2. /\ Fits(v) /\ SameStates(t, v) /\ Drift(t, v)
          /\ v.pos[p].pending = NoOrder /\ v.creating = t.creating
      BY <2>1, OrderIsForgotten
    <2>3. t \in Strategy /\ t.pos[p] \in Position /\ v \in Strategy
      BY <2>2 DEF Fits, PosFits
    <2>4. PICK invested, profit :
            invested = t.pos[p].invested /\ profit = price * t.pos[p].qty - invested
      OBVIOUS
    <2>5. invested \in Int /\ profit \in Int
      <3>1. t.pos[p].invested \in Int /\ t.pos[p].qty \in Int /\ price \in Int
        BY <2>3 DEF Position
      <3>2. price * t.pos[p].qty \in Int
        BY <3>1
      <3> QED
        BY <2>4, <3>1, <3>2
    <2>6. PICK w \in Strategy :
            /\ w = Release(v, invested, profit)
            /\ w.pos = v.pos /\ w.tracked = v.tracked /\ w.creating = v.creating
      BY <2>3, <2>5, ReleaseIs, Zenon
    <2>7. PICK n : n = [NewPosition EXCEPT !.state = "COMPLETED"]
      OBVIOUS
    <2>8. /\ n \in Position /\ PosFits(n, p) /\ n.state = "COMPLETED"
          /\ n.pending = NoOrder /\ n.sell = NoOrder
      BY <2>7 DEF NewPosition, Position, PosFits, NoOrder
    <2>9. PICK u : u = handle_sell_fill(t, p, price)
      OBVIOUS
    <2>10. u = [w EXCEPT !.pos[p] = n, !.tracked = @ \ {SellId(p)}]
      BY <1>2, <2>1, <2>4, <2>6, <2>7, <2>9 DEF handle_sell_fill
    <2>11. /\ u.pos = [v.pos EXCEPT ![p] = n] /\ u.tracked = v.tracked \ {SellId(p)}
           /\ u.creating = v.creating
      BY <2>6, <2>10 DEF Strategy
    <2>12. u.pos[p] = n /\ \A r \in PosIds : r # p => u.pos[r] = v.pos[r]
      BY <2>3, <2>11 DEF Strategy
    <2>13. u \in Strategy
      <3>1. PICK f, k : f = [w.pos EXCEPT ![p] = n] /\ k = w.tracked \ {SellId(p)}
        OBVIOUS
      <3>2. u = [w EXCEPT !.pos = f, !.tracked = k]
        BY <2>10, <3>1, Zenon
      <3>3. f \in [PosIds -> Position] /\ k \in SUBSET OrderId
        BY <2>6, <2>8, <3>1 DEF Strategy
      <3> QED
        BY <2>6, <3>2, <3>3 DEF Strategy
    <2>14. \A x \in u.tracked : IF x[1] = p THEN Holds(u.pos[p], x) ELSE x \in v.tracked
      <3> SUFFICES ASSUME NEW x \in u.tracked, x[1] = p
                   PROVE  FALSE
        BY <2>11
      <3>1. x \in v.tracked /\ x \in OrderId /\ x # SellId(p)
        BY <2>11, <2>13 DEF Strategy
      <3>2. Holds(v.pos[p], x)
        BY <2>2, <3>1, IdsOfOrders
      <3> QED
        BY <2>2, <3>1, <3>2, IdsOfOrders DEF Holds
    <2>15. Fits(u)
      <3>1. /\ PosFits(u.pos[p], p) /\ u.pos[p].state = "COMPLETED"
            /\ u.pos[p].pending = NoOrder /\ u.pos[p].sell = NoOrder
        BY <2>8, <2>12
      <3>2. \A x \in v.tracked : x[1] # p => x \in u.tracked
        BY <2>11 DEF SellId
      <3> QED
        BY <2>2, <2>12, <2>13, <2>14, <3>1, <3>2, ChangeOne
    <2>16. Drift(t, u)
      <3>1. Drift(v, u)
        BY <2>8, <2>12 DEF Drift, Rises, Priced, Exact, Started
      <3> QED
        BY <2>2, <3>1, DriftsAdd
    <2>17. \A e, q, l :
             /\ Sound(e, t.creating, q, t.tracked, l)
             /\ SellId(p) \in t.tracked =>
                    /\ t.pos[p].pending = NoOrder \/ t.pos[p].pending.id \in l
                    /\ SellId(p) \in l \/ Absent(e \cup t.creating, q, SellId(p))
             => Sound(e, u.creating, q, u.tracked, l)
      <3> SUFFICES ASSUME NEW e, NEW q, NEW l, Sound(e, t.creating, q, t.tracked, l),
                          t.pos[p].pending = NoOrder \/ t.pos[p].pending.id \in l,
                          SellId(p) \in l \/ Absent(e \cup t.creating, q, SellId(p))
                   PROVE  Sound(e, u.creating, q, u.tracked, l)
        BY <1>2
      <3>1. Sound(e, t.creating, q, v.tracked, l)
        BY <2>1, OrderIsForgotten
      <3>2. \A id \in v.tracked \ u.tracked : id = SellId(p)
        BY <2>11
      <3>3. Sound(e, t.creating, q, u.tracked, l)
        BY <3>1, <3>2, SoundForgotten
      <3> QED
        BY <2>2, <2>11, <3>3
    <2>18. u # t
      BY <1>2, <2>11
    <2> QED
      BY <1>2, <2>9, <2>15, <2>16, <2>17, <2>18
  <1> QED
    BY <1>1, <1>2

\* An active position without a sell gets one.
LEMMA SellIsPlaced ==
  ASSUME NEW t, Fits(t), NEW p \in PosIds, t.pos[p].state = "ACTIVE", t.pos[p].sell = NoOrder
  PROVE  /\ Fits(place_sell_order(t, p))
         /\ SameStates(t, place_sell_order(t, p))
         /\ Drift(t, place_sell_order(t, p))
         /\ \A e, q, l : Sound(e, t.creating, q, t.tracked, l) =>
                Sound(e, place_sell_order(t, p).creating, q, place_sell_order(t, p).tracked, l)
  <1>1. t \in Strategy /\ t.pos[p] \in Position /\ PosFits(t.pos[p], p)
    BY DEF Fits, PosFits
  <1>2. PICK o : o = Order(SellId(p), t.pos[p].confirmed, t.pos[p].qty)
    OBVIOUS
  <1>3. o \in PlacedOrder /\ o.id = SellId(p) /\ o # NoOrder
    BY <1>1, <1>2 DEF Order, SellId, PlacedOrder, OrderId, Position, NoOrder, PosIds
  <1>4. PICK u : u = place_sell_order(t, p)
    OBVIOUS
  <1>5. u = [t EXCEPT !.pos[p].sell = o, !.tracked = @ \cup {SellId(p)},
                      !.creating = @ \cup {o}]
    BY <1>2, <1>4 DEF place_sell_order
  <1>6. PICK n : n = [t.pos[p] EXCEPT !.sell = o]
    OBVIOUS
  <1>7. /\ n \in Position /\ n.sell = o /\ n.pending = t.pos[p].pending
        /\ n.state = "ACTIVE" /\ n.confirmed = t.pos[p].confirmed
        /\ n.spent = t.pos[p].spent /\ n.top = t.pos[p].top
    BY <1>1, <1>3, <1>6 DEF Position
  <1>8. /\ u.pos = [t.pos EXCEPT ![p] = n] /\ u.locked = t.locked
        /\ u.tracked = t.tracked \cup {SellId(p)} /\ u.creating = t.creating \cup {o}
    BY <1>1, <1>5, <1>6 DEF Strategy
  <1>9. u.pos[p] = n /\ \A r \in PosIds : r # p => u.pos[r] = t.pos[r]
    BY <1>1, <1>8 DEF Strategy
  <1>10. u \in Strategy
    <2>1. PICK f, k, c : /\ f = [t.pos EXCEPT ![p].sell = o]
                         /\ k = t.tracked \cup {SellId(p)} /\ c = t.creating \cup {o}
      OBVIOUS
    <2>2. u = [t EXCEPT !.pos = f, !.tracked = k, !.creating = c]
      BY <1>5, <2>1, Zenon
    <2>3. f = [t.pos EXCEPT ![p] = n]
      BY <1>6, <2>1, Zenon
    <2>4. f \in [PosIds -> Position] /\ k \in SUBSET OrderId /\ c \in SUBSET PlacedOrder
      <3>1. SellId(p) \in OrderId
        BY DEF SellId, OrderId
      <3> QED
        BY <1>1, <1>3, <1>7, <2>1, <2>3, <3>1 DEF Strategy
    <2> QED
      BY <1>1, <2>2, <2>4 DEF Strategy
  <1>11. PosFits(n, p)
    BY <1>1, <1>3, <1>7 DEF PosFits
  <1>12. SellId(p) \notin t.tracked
    <2>1. SellId(p) \in OrderId /\ SellId(p)[1] = p /\ SellId(p)[2] = "sell"
      BY DEF SellId, OrderId
    <2> QED
      BY <2>1, IdsOfOrders DEF Holds
  <1>13. \A x \in u.tracked : IF x[1] = p THEN Holds(u.pos[p], x) ELSE x \in t.tracked
    <2> SUFFICES ASSUME NEW x \in u.tracked, x # SellId(p)
                 PROVE  IF x[1] = p THEN Holds(u.pos[p], x) ELSE x \in t.tracked
      BY <1>3, <1>7, <1>9 DEF Holds, SellId
    <2>1. x \in t.tracked /\ x \in OrderId
      BY <1>8, <1>10 DEF Strategy
    <2>2. x[1] = p => x = t.pos[p].pending.id
      BY <2>1, IdsOfOrders DEF Holds
    <2> QED
      BY <1>7, <1>9, <2>1, <2>2 DEF Holds
  <1>14. \A x \in {u.pos[p].pending, u.pos[p].sell} : x # NoOrder => x.id \in u.tracked
    BY <1>3, <1>7, <1>8, <1>9 DEF Fits
  <1>15. Fits(u)
    <2>1. /\ PosFits(u.pos[p], p) /\ u.pos[p].state # "WATCHING" /\ t.pos[p].state # "COMPLETED"
          /\ \A x \in t.tracked : x \in u.tracked
      BY <1>7, <1>8, <1>9, <1>11
    <2>2. u.locked - Committed(u.pos[p]) = t.locked - Committed(t.pos[p])
      BY <1>7, <1>8, <1>9 DEF Committed
    <2> QED
      BY <1>9, <1>10, <1>13, <1>14, <2>1, <2>2, ChangeOne
  <1>16. SameStates(t, u) /\ Drift(t, u)
    BY <1>7, <1>9 DEF SameStates, Drift, Rises, Priced, Exact, Started
  <1>17. \A e, q, l : Sound(e, t.creating, q, t.tracked, l) =>
                          Sound(e, u.creating, q, u.tracked, l)
    <2> SUFFICES ASSUME NEW e, NEW q, NEW l, Sound(e, t.creating, q, t.tracked, l)
                 PROVE  Sound(e, u.creating, q, u.tracked, l)
      OBVIOUS
    <2>1. u.creating = t.creating \cup {o} /\ u.tracked = t.tracked \cup {o.id}
          /\ o.id \notin t.tracked
      BY <1>3, <1>8, <1>12
    <2> QED
      BY <2>1, SoundExtended
  <1> QED
    BY <1>4, <1>15, <1>16, <1>17

\* A cancelled sell is forgotten.
LEMMA SellIsForgotten ==
  ASSUME NEW t, Fits(t), NEW p \in PosIds, t.pos[p].state = "ACTIVE", t.pos[p].sell # NoOrder
  PROVE  /\ Fits(SellCancelled(t, p))
         /\ SameStates(t, SellCancelled(t, p))
         /\ Drift(t, SellCancelled(t, p))
         /\ \A e, q, l :
                /\ Sound(e, t.creating, q, t.tracked, l)
                /\ SellId(p) \in l \/ Absent(e \cup t.creating, q, SellId(p))
                => Sound(e, SellCancelled(t, p).creating, q, SellCancelled(t, p).tracked, l)
  <1>1. t \in Strategy /\ t.pos[p] \in Position /\ PosFits(t.pos[p], p)
    BY DEF Fits, PosFits
  <1>2. PICK u : u = SellCancelled(t, p)
    OBVIOUS
  <1>3. PICK n : n = [t.pos[p] EXCEPT !.sell = NoOrder]
    OBVIOUS
  <1>4. u = [t EXCEPT !.pos[p].sell = NoOrder, !.tracked = @ \ {SellId(p)}]
    BY <1>2 DEF SellCancelled
  <1>5. /\ n \in Position /\ n.sell = NoOrder /\ n.pending = t.pos[p].pending
        /\ n.state = "ACTIVE" /\ n.confirmed = t.pos[p].confirmed
        /\ n.spent = t.pos[p].spent /\ n.top = t.pos[p].top
    BY <1>1, <1>3 DEF Position
  <1>6. /\ u.pos = [t.pos EXCEPT ![p] = n] /\ u.locked = t.locked
        /\ u.tracked = t.tracked \ {SellId(p)} /\ u.creating = t.creating
    BY <1>1, <1>3, <1>4 DEF Strategy
  <1>7. u.pos[p] = n /\ \A r \in PosIds : r # p => u.pos[r] = t.pos[r]
    BY <1>1, <1>6 DEF Strategy
  <1>8. u \in Strategy
    <2>1. PICK f, k : f = [t.pos EXCEPT ![p].sell = NoOrder] /\ k = t.tracked \ {SellId(p)}
      OBVIOUS
    <2>2. u = [t EXCEPT !.pos = f, !.tracked = k]
      BY <1>4, <2>1, Zenon
    <2>3. f = [t.pos EXCEPT ![p] = n]
      BY <1>3, <2>1, Zenon
    <2>4. f \in [PosIds -> Position] /\ k \in SUBSET OrderId
      BY <1>1, <1>5, <2>1, <2>3 DEF Strategy
    <2> QED
      BY <1>1, <2>2, <2>4 DEF Strategy
  <1>9. PosFits(n, p)
    BY <1>1, <1>5 DEF PosFits
  <1>10. \A x \in u.tracked : IF x[1] = p THEN Holds(u.pos[p], x) ELSE x \in t.tracked
    <2> SUFFICES ASSUME NEW x \in u.tracked, x[1] = p
                 PROVE  Holds(u.pos[p], x)
      BY <1>6
    <2>1. x \in t.tracked /\ x \in OrderId /\ x # SellId(p)
      BY <1>6, <1>8 DEF Strategy
    <2>2. x = t.pos[p].pending.id
      BY <2>1, IdsOfOrders DEF Holds
    <2> QED
      BY <1>5, <1>7, <2>2 DEF Holds
  <1>11. \A x \in {u.pos[p].pending, u.pos[p].sell} : x # NoOrder => x.id \in u.tracked
    <2> SUFFICES ASSUME t.pos[p].pending # NoOrder PROVE t.pos[p].pending.id \in u.tracked
      BY <1>5, <1>7
    <2>1. t.pos[p].pending.id \in t.tracked /\ t.pos[p].pending.id[2] # "sell"
      BY <1>1 DEF Fits, PosFits
    <2>2. SellId(p)[2] = "sell"
      BY DEF SellId
    <2> QED
      BY <1>6, <2>1, <2>2
  <1>12. Fits(u)
    <2>1. /\ PosFits(u.pos[p], p) /\ u.pos[p].state # "WATCHING" /\ t.pos[p].state # "COMPLETED"
          /\ \A x \in t.tracked : x[1] # p => x \in u.tracked
      BY <1>5, <1>6, <1>7, <1>9 DEF SellId
    <2>2. u.locked - Committed(u.pos[p]) = t.locked - Committed(t.pos[p])
      BY <1>5, <1>6, <1>7 DEF Committed
    <2> QED
      BY <1>7, <1>8, <1>10, <1>11, <2>1, <2>2, ChangeOne
  <1>13. SameStates(t, u) /\ Drift(t, u)
    BY <1>5, <1>7 DEF SameStates, Drift, Rises, Priced, Exact, Started
  <1>14. \A e, q, l :
           /\ Sound(e, t.creating, q, t.tracked, l)
           /\ SellId(p) \in l \/ Absent(e \cup t.creating, q, SellId(p))
           => Sound(e, u.creating, q, u.tracked, l)
    <2> SUFFICES ASSUME NEW e, NEW q, NEW l, Sound(e, t.creating, q, t.tracked, l),
                        SellId(p) \in l \/ Absent(e \cup t.creating, q, SellId(p))
                 PROVE  Sound(e, u.creating, q, u.tracked, l)
      OBVIOUS
    <2>1. \A id \in t.tracked \ u.tracked : id = SellId(p)
      BY <1>6
    <2>2. Sound(e, t.creating, q, u.tracked, l)
      BY <2>1, SoundForgotten
    <2> QED
      BY <1>6, <2>2
  <1> QED
    BY <1>2, <1>12, <1>13, <1>14

\* A position with a top and no fill has no confirmed top: none is invalidated.
LEMMA NothingIsInvalidated ==
  ASSUME NEW t, Fits(t), NEW price
  PROVE  check_for_invalidation(t, price) = t
  <1>1. t \in Strategy /\ \A p \in PosIds : t.pos[p].state = "POTENTIAL_TOP" => t.pos[p].confirmed = 0
    BY DEF Fits, PosFits
  <1>2. PICK f : f = [p \in PosIds |->
            IF t.pos[p].state = "POTENTIAL_TOP" /\ t.pos[p].confirmed # 0 /\ price > t.pos[p].confirmed
            THEN [t.pos[p] EXCEPT !.state = "INVALIDATED"] ELSE t.pos[p]]
    OBVIOUS
  <1>3. f = [p \in PosIds |-> t.pos[p]]
    BY <1>1, <1>2
  <1>4. f = t.pos
    BY <1>1, <1>3 DEF Strategy
  <1>5. check_for_invalidation(t, price) = [t EXCEPT !.pos = f]
    BY <1>2, Zenon DEF check_for_invalidation
  <1>6. [t EXCEPT !.pos = t.pos] = t
    BY <1>1 DEF Strategy
  <1> QED
    BY <1>4, <1>5, <1>6

\* After the replacements are scheduled, no top is fresh.
LEMMA SettledFits ==
  ASSUME NEW t, Fits(t)
  PROVE  /\ Fits(Settled(t))
         /\ SameStates(t, Settled(t))
         /\ Drift(t, Settled(t))
         /\ Settled(t).tracked = t.tracked
         /\ Settled(t).creating = t.creating
  <1>1. t \in Strategy /\ \A p \in PosIds : t.pos[p] \in Position /\ PosFits(t.pos[p], p)
    BY DEF Fits, PosFits
  <1>2. PICK u : u = Settled(t)
    OBVIOUS
  <1>3. PICK f : f = [p \in PosIds |-> [t.pos[p] EXCEPT !.fresh = FALSE]]
    OBVIOUS
  <1>4. u = [t EXCEPT !.pos = f]
    BY <1>2, <1>3 DEF Settled
  <1>5. \A p \in PosIds :
          /\ f[p] = [t.pos[p] EXCEPT !.fresh = FALSE] /\ f[p] \in Position
          /\ f[p].state = t.pos[p].state /\ f[p].confirmed = t.pos[p].confirmed
          /\ f[p].pending = t.pos[p].pending /\ f[p].sell = t.pos[p].sell
          /\ f[p].top = t.pos[p].top /\ f[p].spent = t.pos[p].spent
          /\ f[p].cooling = t.pos[p].cooling
    BY <1>1, <1>3 DEF Position
  <1>6. f \in [PosIds -> Position]
    BY <1>3, <1>5
  <1>7. /\ u \in Strategy /\ u.pos = f /\ u.locked = t.locked
        /\ u.tracked = t.tracked /\ u.creating = t.creating
    BY <1>1, <1>4, <1>6 DEF Strategy
  <1>8. /\ [NewPosition EXCEPT !.fresh = FALSE] = NewPosition
        /\ [NoPosition EXCEPT !.fresh = FALSE] = NoPosition
    <2>1. /\ NewPosition \in Position /\ NewPosition.fresh = FALSE
          /\ NoPosition \in Position /\ NoPosition.fresh = FALSE
      BY DEF NewPosition, NoPosition, Position, NoOrder
    <2> QED
      BY <2>1 DEF Position
  <1>9. \A p \in PosIds : PosFits(u.pos[p], p)
    <2> SUFFICES ASSUME NEW p \in PosIds PROVE PosFits(f[p], p)
      BY <1>7
    <2>1. f[p].state = "NONE" => f[p] = NoPosition
      <3>1. f[p].state = "NONE" => t.pos[p] = NoPosition
        BY <1>1, <1>5 DEF PosFits
      <3> QED
        BY <1>5, <1>8, <3>1, Zenon
    <2>2. f[p].state = "WATCHING" => f[p] = NewPosition
      <3>1. f[p].state = "WATCHING" => t.pos[p] = NewPosition
        BY <1>1, <1>5, ZenonT(40) DEF PosFits
      <3> QED
        BY <1>5, <1>8, <3>1, Zenon
    <2> QED
      BY <1>1, <1>5, <2>1, <2>2, ZenonT(40) DEF PosFits
  <1>10. /\ \A p, q \in PosIds : u.pos[p].state = "WATCHING" /\ u.pos[q].state = "WATCHING" => p = q
         /\ \A p \in PosIds : \A o \in {u.pos[p].pending, u.pos[p].sell} :
                o # NoOrder => o.id \in u.tracked
    <2>1. \A p \in PosIds : /\ u.pos[p].state = t.pos[p].state
                            /\ u.pos[p].pending = t.pos[p].pending
                            /\ u.pos[p].sell = t.pos[p].sell
      BY <1>5, <1>7
    <2>2. /\ \A p, q \in PosIds : t.pos[p].state = "WATCHING" /\ t.pos[q].state = "WATCHING" => p = q
          /\ \A p \in PosIds : \A o \in {t.pos[p].pending, t.pos[p].sell} :
                 o # NoOrder => o.id \in t.tracked
      BY DEF Fits
    <2>3. \A p \in PosIds : \A o \in {u.pos[p].pending, u.pos[p].sell} :
             o # NoOrder => o.id \in u.tracked
      BY <1>7, <2>1, <2>2
    <2> QED
      BY <2>1, <2>2, <2>3
  <1>11. \A id \in u.tracked : Holds(u.pos[id[1]], id)
    <2> SUFFICES ASSUME NEW id \in u.tracked PROVE Holds(u.pos[id[1]], id)
      OBVIOUS
    <2>1. id \in t.tracked /\ id[1] \in PosIds
      BY <1>1, <1>7 DEF Strategy, OrderId
    <2> QED
      BY <1>5, <1>7, <2>1 DEF Fits, Holds
  <1>12. (\A p \in PosIds : u.pos[p].state # "COMPLETED") =>
             u.locked = SumFunctionOnSet([p \in PosIds |-> Committed(u.pos[p])], PosIds)
    <2>1. [p \in PosIds |-> Committed(u.pos[p])] = [p \in PosIds |-> Committed(t.pos[p])]
      BY <1>5, <1>7 DEF Committed
    <2>2. (\A p \in PosIds : u.pos[p].state # "COMPLETED") =>
             \A p \in PosIds : t.pos[p].state # "COMPLETED"
      BY <1>5, <1>7
    <2> QED
      BY <1>7, <2>1, <2>2 DEF Fits
  <1>13. Fits(u)
    BY <1>7, <1>9, <1>10, <1>11, <1>12 DEF Fits
  <1>14. SameStates(t, u) /\ Drift(t, u)
    BY <1>5, <1>7 DEF SameStates, Drift, Rises, Priced, Exact, Started
  <1> QED
    BY <1>2, <1>7, <1>13, <1>14

\* A new budget changes nothing but what is available; that nothing is locked is
\* only corrected when a sell has released more than its position had locked.
LEMMA BudgetFits ==
  ASSUME NEW t, Fits(t), NEW u \in Strategy, u.pos = t.pos, u.tracked = t.tracked,
         t.locked \in Nat => u.locked = t.locked
  PROVE  Fits(u) /\ Drift(t, u)
  <1>1. ASSUME \A p \in PosIds : t.pos[p].state # "COMPLETED"
        PROVE  u.locked = t.locked
    <2>1. PICK f : f = [p \in PosIds |-> Committed(t.pos[p])]
      OBVIOUS
    <2>2. \A p \in PosIds : f[p] \in Nat
      BY <2>1 DEF Fits, PosFits, Committed, Position, PlacedOrder, NoOrder
    <2>3. Numbers(f, PosIds) /\ \A p \in PosIds : f[p] >= 0
      BY <2>2, PositionsAreFinite DEF Numbers
    <2>4. t.locked = SumFunctionOnSet(f, PosIds)
      BY <1>1, <2>1 DEF Fits
    <2>5. t.locked \in Nat
      BY <2>3, <2>4, SumIsNat
    <2> QED
      BY <2>5
  <1>2. Fits(u)
    BY <1>1 DEF Fits
  <1>3. Drift(t, u)
    BY DEF Drift, Rises, Priced, Exact
  <1> QED
    BY <1>2, <1>3

\* The end of a cooldown changes nothing that orders depend on.
LEMMA CooldownFits ==
  ASSUME NEW t, Fits(t), NEW p \in PosIds, t.pos[p].cooling, NEW u,
         u = [t EXCEPT !.pos[p].cooling = FALSE]
  PROVE  /\ Fits(u) /\ SameStates(t, u) /\ Drift(t, u)
         /\ u.tracked = t.tracked /\ u.creating = t.creating
  <1>1. t \in Strategy /\ t.pos[p] \in Position /\ PosFits(t.pos[p], p)
    BY DEF Fits, PosFits
  <1>2. PICK n : n = [t.pos[p] EXCEPT !.cooling = FALSE]
    OBVIOUS
  <1>3. /\ n \in Position
        /\ n.state = t.pos[p].state /\ n.confirmed = t.pos[p].confirmed
        /\ n.pending = t.pos[p].pending /\ n.sell = t.pos[p].sell
        /\ n.top = t.pos[p].top /\ n.spent = t.pos[p].spent
    BY <1>1, <1>2 DEF Position
  <1>4. PICK f : f = [t.pos EXCEPT ![p] = n]
    OBVIOUS
  <1>5. u = [t EXCEPT !.pos = f]
    BY <1>2, <1>4
  <1>6. f \in [PosIds -> Position] /\ f[p] = n /\ \A r \in PosIds : r # p => f[r] = t.pos[r]
    BY <1>1, <1>3, <1>4 DEF Strategy
  <1>7. /\ u \in Strategy /\ u.pos = f /\ u.locked = t.locked
        /\ u.tracked = t.tracked /\ u.creating = t.creating
    BY <1>1, <1>5, <1>6 DEF Strategy
  <1>8. t.pos[p].state # "NONE" /\ t.pos[p].state # "WATCHING"
    <2>1. NewPosition.cooling = FALSE /\ NoPosition.cooling = FALSE
      BY DEF NewPosition, NoPosition
    <2> QED
      BY <1>1, <2>1 DEF PosFits
  <1>9. PosFits(n, p)
    BY <1>1, <1>3, <1>8 DEF PosFits
  <1>10. Fits(u)
    <2>1. /\ PosFits(u.pos[p], p) /\ u.pos[p].state # "WATCHING"
          /\ t.pos[p].state = "COMPLETED" => u.pos[p].state = "COMPLETED"
          /\ u.pos[p].pending = t.pos[p].pending /\ u.pos[p].sell = t.pos[p].sell
          /\ u.pos[p].spent = t.pos[p].spent
      BY <1>3, <1>6, <1>7, <1>8, <1>9
    <2>2. \A r \in PosIds : r # p => u.pos[r] = t.pos[r]
      BY <1>6, <1>7
    <2> QED
      BY <1>7, <2>1, <2>2, PositionEdited
  <1>11. SameStates(t, u) /\ Drift(t, u)
    BY <1>3, <1>6, <1>7 DEF SameStates, Drift, Rises, Priced, Exact, Started
  <1> QED
    BY <1>7, <1>10, <1>11

(***************************************************************************)
(* What the steps do to orders, the worker and the sleeping tasks          *)
(***************************************************************************)

\* An order that leaves the exchange is nowhere.
LEMMA RemovedIsAbsent ==
  ASSUME NEW e, NEW c, NEW q, NEW k, NEW l, Sound(e, c, q, k, l), NEW o \in e, o.id \in OrderId
  PROVE  o.id \in l \/ Absent({x \in e : x.id # o.id} \cup c, q, o.id)
  <1> SUFFICES ASSUME o.id \notin l
               PROVE  Absent({x \in e : x.id # o.id} \cup c, q, o.id)
    OBVIOUS
  <1>1. \A x \in c : x.id # o.id
    BY DEF Sound
  <1>2. \A i \in DOMAIN q : ~ FillOf(q, i, o.id)
    BY DEF Sound
  <1> QED
    BY <1>1, <1>2 DEF Absent

\* A fill that is taken leaves nothing behind.
LEMMA TakenIsAbsent ==
  ASSUME NEW e, NEW c, NEW q \in Seq(Event), q # <<>>, NEW k, NEW l, Sound(e, c, q, k, l),
         Head(q).kind = "filled", Head(q).id \in OrderId
  PROVE  Head(q).id \in l \/ Absent(e \cup c, Tail(q), Head(q).id)
  <1> SUFFICES ASSUME Head(q).id \notin l
               PROVE  Absent(e \cup c, Tail(q), Head(q).id)
    OBVIOUS
  <1>1. PICK id \in OrderId \ l : id = Head(q).id
    OBVIOUS
  <1>2. 1 \in DOMAIN q /\ FillOf(q, 1, id)
    BY <1>1 DEF FillOf
  <1>3. \A i \in DOMAIN Tail(q) : i + 1 \in DOMAIN q /\ i + 1 # 1 /\ Tail(q)[i] = q[i + 1]
    OBVIOUS
  <1>4. \A i \in DOMAIN Tail(q) : FillOf(Tail(q), i, id) => FillOf(q, i + 1, id)
    BY <1>3 DEF FillOf
  <1>5. \A i \in DOMAIN Tail(q) : ~ FillOf(Tail(q), i, id)
    BY <1>2, <1>3, <1>4 DEF Sound
  <1>6. \A x \in e \cup c : x.id # id
    BY <1>2 DEF Sound
  <1> QED
    BY <1>1, <1>5, <1>6 DEF Absent

\* An order that is created moves to the exchange.
LEMMA CreatedIsSound ==
  ASSUME NEW e, NEW c, NEW q, NEW k, NEW l, Sound(e, c, q, k, l), NEW o \in c
  PROVE  Sound(e \cup {o}, c \ {o}, q, k, l)
  <1>1. (e \cup {o}) \cup (c \ {o}) = e \cup c
    OBVIOUS
  <1>2. ASSUME NEW id \in OrderId \ l, NEW x \in (e \cup {o}) \cap (c \ {o})
        PROVE  x.id # id
    <2>1. x \in e \cap c
      BY <1>2
    <2> QED
      BY <2>1 DEF Sound
  <1> QED
    BY <1>1, <1>2 DEF Sound

\* An order that fills moves to the queue.
LEMMA FilledIsSound ==
  ASSUME NEW e, NEW c, NEW q \in Seq(Event), NEW k, NEW l, Sound(e, c, q, k, l), NEW o \in e,
         NEW ev \in Event, ev.kind = "filled", ev.id = o.id
  PROVE  Sound(e \ {o}, c, Append(q, ev), k, l)
  <1>1. PICK n \in Nat : n = Len(q)
    OBVIOUS
  <1>2. PICK r : r = Append(q, ev)
    OBVIOUS
  <1>3. DOMAIN r = 1 .. n + 1 /\ DOMAIN q = 1 .. n /\ r[n + 1] = ev
        /\ \A i \in 1 .. n : r[i] = q[i]
    BY <1>1, <1>2
  <1>4. ASSUME NEW id, NEW i \in DOMAIN r, FillOf(r, i, id)
        PROVE  \/ i \in DOMAIN q /\ FillOf(q, i, id)
               \/ i = n + 1 /\ id = o.id
    <2>1. CASE i = n + 1
      BY <1>3, <1>4, <2>1 DEF FillOf
    <2>2. CASE i # n + 1
      <3>1. i \in DOMAIN q /\ r[i] = q[i]
        BY <1>3, <2>2
      <3> QED
        BY <1>4, <3>1 DEF FillOf
    <2> QED
      BY <2>1, <2>2
  <1>5. ASSUME NEW id \in OrderId \ l
        PROVE  /\ id \notin k => Absent((e \ {o}) \cup c, r, id)
               /\ \A o1, o2 \in (e \ {o}) \cup c : o1.id = id /\ o2.id = id => o1 = o2
               /\ \A x \in (e \ {o}) \cap c : x.id # id
               /\ \A x \in (e \ {o}) \cup c : \A i \in DOMAIN r : x.id = id => ~ FillOf(r, i, id)
               /\ \A i, j \in DOMAIN r : FillOf(r, i, id) /\ FillOf(r, j, id) => i = j
    <2>1. CASE id = o.id
      <3>1. \A x \in (e \ {o}) \cup c : x.id # id
        BY <1>5, <2>1 DEF Sound
      <3>2. \A i \in DOMAIN q : ~ FillOf(q, i, id)
        BY <1>5, <2>1 DEF Sound
      <3>3. \A i \in DOMAIN r : FillOf(r, i, id) => i = n + 1
        BY <1>4, <3>2
      <3>4. id \in k
        BY <1>5, <2>1 DEF Sound, Absent
      <3> QED
        BY <3>1, <3>3, <3>4
    <2>2. CASE id # o.id
      <3>1. \A i \in DOMAIN r : FillOf(r, i, id) => i \in DOMAIN q /\ FillOf(q, i, id)
        BY <1>4, <2>2
      <3> HIDE DEF FillOf
      <3> QED
        BY <1>5, <3>1 DEF Sound, Absent
    <2> QED
      BY <2>1, <2>2
  <1> QED
    BY <1>2, <1>5 DEF Sound

\* The worker goes on with its positions.
LEMMA WorkGoesOn ==
  ASSUME NEW w, w.todo \in Seq(PosIds), w.price \in Nat, NEW t, NEW u,
         WorkFits(w, t), Visited(t, u, w.price)
  PROVE  /\ WorkFits(w, u)
         /\ \A v : w.todo # <<>> /\ v.at = w.at /\ v.price = w.price /\ v.todo = Tail(w.todo) =>
                WorkFits(v, u)
  <1>1. \A i \in DOMAIN w.todo : w.todo[i] \in PosIds
    OBVIOUS
  <1>2. WorkFits(w, u)
    BY <1>1 DEF WorkFits, Visited
  <1>3. ASSUME NEW v, w.todo # <<>>, v.at = w.at, v.price = w.price, v.todo = Tail(w.todo)
        PROVE  WorkFits(v, u)
    <2>1. \A i \in DOMAIN v.todo : i + 1 \in DOMAIN w.todo /\ v.todo[i] = w.todo[i + 1]
      BY <1>3
    <2> QED
      BY <1>2, <1>3, <2>1 DEF WorkFits
  <1> QED
    BY <1>2, <1>3

Task == [pos : PosIds, price : Nat]

\* A sleeping task stays right while prices rise; the first may wake up.
LEMMA DelayedRises ==
  ASSUME NEW d \in Seq(Task), NEW t, NEW u, DelayedFits(d, t), Rises(t, u)
  PROVE  DelayedFits(d, u) /\ (d # <<>> => DelayedFits(Tail(d), u))
  <1>1. \A i \in DOMAIN d : d[i].pos \in PosIds /\ d[i].price \in Nat
    <2>1. \A i \in DOMAIN d : d[i] \in Task
      OBVIOUS
    <2> QED
      BY <2>1 DEF Task
  <1>2. DelayedFits(d, u)
    BY <1>1 DEF DelayedFits, Rises
  <1>3. ASSUME d # <<>>
        PROVE  DelayedFits(Tail(d), u)
    <2>1. \A i \in DOMAIN Tail(d) : i + 1 \in DOMAIN d /\ Tail(d)[i] = d[i + 1]
      BY <1>3
    <2> QED
      BY <1>2, <2>1 DEF DelayedFits
  <1> QED
    BY <1>2, <1>3

\* So it does under every drift.
LEMMA DelayedDrifts ==
  ASSUME NEW d \in Seq(Task), NEW t, NEW u, DelayedFits(d, t), Drift(t, u)
  PROVE  DelayedFits(d, u)
  BY DelayedRises DEF Drift

\* Replacements queue up behind those that sleep.
LEMMA DelayedJoin ==
  ASSUME NEW d \in Seq(Task), NEW f \in Seq(Task), NEW t, DelayedFits(d, t), DelayedFits(f, t)
  PROVE  DelayedFits(d \o f, t)
  <1>1. \A i \in DOMAIN (d \o f) :
          \/ i \in DOMAIN d /\ (d \o f)[i] = d[i]
          \/ i - Len(d) \in DOMAIN f /\ (d \o f)[i] = f[i - Len(d)]
    OBVIOUS
  <1> QED
    BY <1>1 DEF DelayedFits

\* The replacements scheduled for tops without an order: all for the last of them.
LEMMA ReplacementsFit ==
  ASSUME NEW t, Fits(t)
  PROVE  Replacements(t) \in Seq(Task) /\ DelayedFits(Replacements(t), t)
  <1>1. PICK P : P = ToReplace(t)
    OBVIOUS
  <1>2. P \in SUBSET PosIds /\ \A p \in P : t.pos[p].state = "POTENTIAL_TOP" /\ t.pos[p].top \in Nat
    BY <1>1 DEF ToReplace, PotentialTops, InState, Fits, PosFits, Position
  <1>3. PICK n \in Nat : n = Cardinality(P)
    BY <1>2, PositionsAreFinite, FS_CardinalityType
  <1>4. PICK p : p = Max(P)
    OBVIOUS
  <1>5. PICK r : r = [i \in 1 .. n |-> [pos |-> p, price |-> BuyPrice(t.pos[p].top, 0)]]
    OBVIOUS
  <1>6. r = Replacements(t)
    BY <1>1, <1>3, <1>4, <1>5 DEF Replacements
  <1>7. CASE P = {}
    <2>1. n = 0
      BY <1>3, <1>7, FS_EmptySet
    <2>2. r \in [1 .. n -> Task] /\ DOMAIN r = {}
      BY <1>5, <2>1
    <2>3. r \in Seq(Task)
      BY <2>2
    <2> QED
      BY <1>6, <2>2, <2>3 DEF DelayedFits
  <1>8. CASE P # {}
    <2>1. p \in P
      <3>1. \E x \in P : \A y \in P : y <= x
        BY <1>2, <1>8, PositionsHaveEnds
      <3>2. \E x \in P : \A y \in P : x >= y
        BY <1>2, <3>1 DEF PosIds
      <3> QED
        BY <1>4, <3>2 DEF Max
    <2>2. PICK task : task = [pos |-> p, price |-> BuyPrice(t.pos[p].top, 0)]
      OBVIOUS
    <2>3. /\ task \in Task /\ task.pos = p /\ t.pos[p].state = "POTENTIAL_TOP"
          /\ task.price <= BuyPrice(t.pos[p].top, 0)
      BY <1>2, <2>1, <2>2, BuyPriceType DEF Task
    <2>4. r \in [1 .. n -> Task] /\ \A i \in DOMAIN r : r[i] = task
      BY <1>5, <2>2, <2>3
    <2>5. r \in Seq(Task)
      BY <2>4
    <2> QED
      BY <1>6, <2>3, <2>4, <2>5 DEF DelayedFits, Started
  <1> QED
    BY <1>7, <1>8

\* What the events of the queue carry.
LEMMA HeadOfQueue ==
  ASSUME NEW q \in Seq(Event), q # <<>>
  PROVE  /\ Tail(q) \in Seq(Event)
         /\ Head(q).kind = "candle" => Head(q).price \in Highs /\ Head(q).price \in Nat
         /\ Head(q).kind = "tick" => Head(q).price \in Nat
         /\ Head(q).kind = "filled" => Head(q).id \in OrderId /\ Head(q).price \in Nat
  <1>1. Head(q) \in Event /\ Tail(q) \in Seq(Event)
    OBVIOUS
  <1>2. Highs \subseteq Nat /\ Prices \subseteq Nat
    BY MarketAssumption
  <1> QED
    BY <1>1, <1>2 DEF Event

Work == [at : {"idle", "candle", "tick", "stopped"}, price : Nat, todo : Seq(PosIds)]
\* The worker goes on to the next position of its list.
LEMMA NextOneFits ==
  ASSUME NEW w \in Work, w.todo # <<>>, NEW v, v = [w EXCEPT !.todo = Tail(@)],
         NEW t, NEW u, WorkFits(w, t), Visited(t, u, w.price)
  PROVE  v \in Work /\ WorkFits(v, u)
  <1>1. w.todo \in Seq(PosIds) /\ w.price \in Nat
    BY DEF Work
  <1>2. PICK tail : tail = Tail(w.todo)
    OBVIOUS
  <1>3. tail \in Seq(PosIds)
    BY <1>1, <1>2
  <1>4. v = [w EXCEPT !.todo = tail]
    BY <1>2
  <1>5. v \in Work
    BY <1>3, <1>4 DEF Work
  <1>6. v.at = w.at /\ v.price = w.price /\ v.todo = Tail(w.todo)
    BY <1>2, <1>4 DEF Work
  <1> QED
    BY <1>1, <1>5, <1>6, WorkGoesOn

(***************************************************************************)
(* Every step keeps the invariant                                          *)
(***************************************************************************)

\* The candle's own order is cancelled, or given up, and the top moves.
LEMMA MoveTopStep ==
  ASSUME BuyDipInv, MoveTop \/ BuyCancelled \/ BuyCancelFails
  PROVE  BuyDipInv'
  <1>1. /\ TypeOK /\ Fits(s) /\ WorkFits(worker, s) /\ DelayedFits(delayed, s)
        /\ Sound(ex, s.creating, queue, s.tracked, lost) /\ OrdersFit(s, late)
    BY DEF BuyDipInv
  <1>2. /\ worker.at = "candle" /\ worker.todo # <<>>
        /\ s' = Invalidated(s, Current, worker.price)
        /\ worker' = [worker EXCEPT !.todo = Tail(@)]
        /\ UNCHANGED <<highs, queue, delayed, client, late>>
    BY DEF MoveTop, BuyCancelled, BuyCancelFails, CancelsBuy, At, NextOne
  <1>3. PICK p \in PosIds : p = Current
    BY <1>1, <1>2 DEF TypeOK, Current
  <1>4. s.pos[p].state = "POTENTIAL_TOP" /\ s.pos[p].top <= worker.price
    <2>1. 1 \in DOMAIN worker.todo /\ p = worker.todo[1]
      BY <1>1, <1>2, <1>3 DEF TypeOK, Current
    <2> QED
      BY <1>1, <1>2, <2>1 DEF WorkFits
  <1>5. PICK high \in Nat : high = worker.price
    BY <1>1 DEF TypeOK
  <1>6. PICK u : u = Invalidated(s, p, high)
    OBVIOUS
  <1>7. s' = u /\ Fits(u) /\ Visited(s, u, worker.price) /\ Drift(s, u)
    BY <1>1, <1>2, <1>3, <1>4, <1>5, <1>6, TopIsMoved
  <1>8. s.pos[p] \in Position /\ (s.pos[p].pending # NoOrder => s.pos[p].pending.id \in OrderId)
    BY <1>1 DEF Fits, PosFits, Position, PlacedOrder
  <1>9. /\ ex' \subseteq ex /\ lost \subseteq lost' /\ lost' \subseteq OrderId
        /\ \/ s.pos[p].pending = NoOrder \/ s.pos[p].pending.id \in lost'
           \/ Absent(ex' \cup s.creating, queue, s.pos[p].pending.id)
    <2>1. CASE MoveTop
      BY <1>1, <1>2, <1>3, <2>1 DEF MoveTop, CancelsBuy, At, TypeOK
    <2>2. CASE BuyCancelled
      <3>1. /\ s.pos[p].pending # NoOrder /\ ex' = Without(s.pos[p].pending.id)
            /\ lost' = lost
        BY <1>3, <2>2 DEF BuyCancelled, CancelsBuy
      <3>2. PICK o \in ex : o.id = s.pos[p].pending.id
        BY <1>3, <2>2 DEF BuyCancelled, IsOpen
      <3>3. o.id \in lost \/ Absent(Without(o.id) \cup s.creating, queue, o.id)
        BY <1>1, <1>8, <3>1, <3>2, RemovedIsAbsent DEF Without
      <3>4. ex' \subseteq ex /\ lost' \subseteq OrderId
        BY <1>1, <3>1 DEF Without, TypeOK
      <3> QED
        BY <3>1, <3>2, <3>3, <3>4
    <2>3. CASE BuyCancelFails
      <3>1. /\ s.pos[p].pending # NoOrder /\ ex' = ex
            /\ lost' = lost \cup {s.pos[p].pending.id}
        BY <1>3, <2>3 DEF BuyCancelFails, CancelsBuy
      <3>2. lost' \subseteq OrderId
        BY <1>1, <1>8, <3>1 DEF TypeOK
      <3> QED
        BY <3>1, <3>2
    <2> QED
      BY <2>1, <2>2, <2>3
  <1>10. Sound(ex', u.creating, queue, u.tracked, lost')
    <2>1. PICK e, l : e = ex' /\ l = lost'
      OBVIOUS
    <2>2. queue \in Seq(Event)
      BY <1>1 DEF TypeOK
    <2>3. Sound(e, s.creating, queue, s.tracked, l)
      BY <1>1, <1>9, <2>1, <2>2, SoundWeakened
    <2>4. \/ s.pos[p].pending = NoOrder \/ s.pos[p].pending.id \in l
          \/ Absent(e \cup s.creating, queue, s.pos[p].pending.id)
      BY <1>9, <2>1
    <2>5. Sound(e, u.creating, queue, u.tracked, l)
      BY <1>1, <1>4, <1>5, <1>6, <2>3, <2>4, TopIsMoved
    <2> QED
      BY <2>1, <2>5
  <1>11. worker' \in Work /\ WorkFits(worker', u)
    <2>1. worker \in Work
      BY <1>1 DEF TypeOK, Work
    <2>2. PICK w : w = worker'
      OBVIOUS
    <2> QED
      BY <1>1, <1>2, <1>7, <2>1, <2>2, NextOneFits
  <1>12. TypeOK'
    <2>1. worker' \in Work
      BY <1>11
    <2>2. u \in Strategy
      BY <1>7 DEF Fits
    <2> QED
      BY <1>1, <1>2, <1>7, <1>9, <2>1, <2>2 DEF TypeOK, Work
  <1>13. DelayedFits(delayed, u) /\ OrdersFit(u, late)
    BY <1>1, <1>7, DelayedDrifts, OrdersDrift DEF TypeOK, Task
  <1> QED
    BY <1>2, <1>7, <1>10, <1>11, <1>12, <1>13 DEF BuyDipInv

\* Events are dropped.
LEMMA IgnoreStep ==
  ASSUME BuyDipInv, IgnoreUnrouted \/ TakeClosed
  PROVE  BuyDipInv'
  <1>1. /\ TypeOK /\ Fits(s) /\ WorkFits(worker, s) /\ DelayedFits(delayed, s)
        /\ Sound(ex, s.creating, queue, s.tracked, lost) /\ OrdersFit(s, late)
    BY DEF BuyDipInv
  <1>2. queue # <<>> /\ queue' = Tail(queue)
        /\ UNCHANGED <<highs, s, worker, delayed, ex, client, lost, late>>
    BY DEF IgnoreUnrouted, TakeClosed, Take
  <1>3. queue \in Seq(Event) /\ Tail(queue) \in Seq(Event)
    BY <1>1, <1>2, HeadOfQueue DEF TypeOK
  <1>4. Sound(ex, s.creating, Tail(queue), s.tracked, lost)
    BY <1>1, <1>2, <1>3, SoundWeakened
  <1>5. TypeOK'
    BY <1>1, <1>2, <1>3 DEF TypeOK
  <1> QED
    BY <1>1, <1>2, <1>4, <1>5 DEF BuyDipInv

\* The detector keeps highs.
LEMMA AddHighType ==
  ASSUME highs \in Seq(Highs), NEW high \in Highs
  PROVE  AddHigh(high) \in Seq(Highs)
  <1>1. PICK all : all = Append(highs, high) /\ all # <<>> /\ all \in Seq(Highs)
    BY AppendProperties
  <1>2. Tail(all) \in Seq(Highs)
    BY <1>1, HeadTailProperties
  <1> QED
    BY <1>1, <1>2 DEF AddHigh

\* The worker takes a candle: the tops it is to visit are unconfirmed.
LEMMA TakeCandleStep ==
  ASSUME BuyDipInv, TakeCandle
  PROVE  BuyDipInv'
  <1>1. /\ TypeOK /\ Fits(s) /\ WorkFits(worker, s) /\ DelayedFits(delayed, s)
        /\ Sound(ex, s.creating, queue, s.tracked, lost) /\ OrdersFit(s, late)
    BY DEF BuyDipInv
  <1>2. queue \in Seq(Event) /\ queue # <<>> /\ Head(queue).kind = "candle"
        /\ queue' = Tail(queue) /\ UNCHANGED <<s, delayed, ex, client, lost, late>>
    BY <1>1 DEF TakeCandle, Take, TypeOK
  <1>3. PICK high : high = Head(queue).price
    OBVIOUS
  <1>4. high \in Highs /\ high \in Nat /\ Tail(queue) \in Seq(Event)
    BY <1>2, <1>3, HeadOfQueue
  <1>5. highs' \in Seq(Highs)
    <2>1. highs' = AddHigh(high)
      BY <1>3 DEF TakeCandle
    <2> QED
      BY <1>1, <1>4, <2>1, AddHighType DEF TypeOK
  <1>6. PICK P : P = {p \in PotentialTops(s) : Significant(s, p, high)}
    OBVIOUS
  <1>7. P \in SUBSET PosIds /\ \A p \in P : s.pos[p].state = "POTENTIAL_TOP" /\ s.pos[p].top <= high
    <2>1. P \in SUBSET PosIds /\ \A p \in P : s.pos[p].state = "POTENTIAL_TOP"
      BY <1>6 DEF PotentialTops, InState
    <2>2. ASSUME NEW p \in P
          PROVE  s.pos[p].top <= high
      <3>1. PICK top \in Nat : top = s.pos[p].top
        BY <1>1, <2>1 DEF Fits, PosFits, Position
      <3>2. PICK least \in Nat : least = MinDelta * top
        BY ConfigAssumption
      <3>3. (high - top) * 100 >= least
        BY <1>6, <3>1, <3>2 DEF Significant
      <3> QED
        BY <1>4, <3>1, <3>3
    <2> QED
      BY <2>1, <2>2
  <1>8. InOrder(P) \in Seq(P) /\ InOrder(P) \in Seq(PosIds)
    BY <1>7, InOrderType
  <1>9. PICK todo : todo = worker'.todo
    OBVIOUS
  <1>10. /\ todo = InOrder(P) \/ todo = <<>>
         /\ worker' = [at |-> "candle", price |-> high, todo |-> todo]
    BY <1>3, <1>6, <1>9 DEF TakeCandle, Busy
  <1>11. todo \in Seq(P) /\ todo \in Seq(PosIds)
    <2>1. <<>> \in Seq(P) /\ <<>> \in Seq(PosIds)
      BY EmptySeq
    <2> QED
      BY <1>8, <1>10, <2>1
  <1>12. WorkFits(worker', s)
    <2>1. \A i \in DOMAIN todo : s.pos[todo[i]].state = "POTENTIAL_TOP" /\ s.pos[todo[i]].top <= high
      BY <1>7, <1>11
    <2> QED
      BY <1>10, <2>1 DEF WorkFits
  <1>13. Sound(ex, s.creating, Tail(queue), s.tracked, lost)
    BY <1>1, <1>2, SoundWeakened
  <1>14. worker' \in Work
    BY <1>4, <1>10, <1>11 DEF Work
  <1>15. TypeOK'
    BY <1>1, <1>2, <1>4, <1>5, <1>14 DEF TypeOK, Work
  <1> QED
    BY <1>1, <1>2, <1>12, <1>13, <1>15 DEF BuyDipInv

\* The worker takes a ticker: the positions it is to visit are active.
LEMMA TakeTickerStep ==
  ASSUME BuyDipInv, TakeTicker
  PROVE  BuyDipInv'
  <1>1. /\ TypeOK /\ Fits(s) /\ WorkFits(worker, s) /\ DelayedFits(delayed, s)
        /\ Sound(ex, s.creating, queue, s.tracked, lost) /\ OrdersFit(s, late)
    BY DEF BuyDipInv
  <1>2. queue \in Seq(Event) /\ queue # <<>> /\ Head(queue).kind = "tick"
        /\ queue' = Tail(queue) /\ UNCHANGED <<highs, s, delayed, ex, client, lost, late>>
    BY <1>1 DEF TakeTicker, Take, TypeOK
  <1>3. PICK price : price = Head(queue).price
    OBVIOUS
  <1>4. price \in Nat /\ Tail(queue) \in Seq(Event)
    BY <1>2, <1>3, HeadOfQueue
  <1>5. PICK P : P = InState(s, "ACTIVE")
    OBVIOUS
  <1>6. P \in SUBSET PosIds /\ \A p \in P : s.pos[p].state = "ACTIVE"
    BY <1>5 DEF InState
  <1>7. PICK todo : todo = InOrder(P)
    OBVIOUS
  <1>8. todo \in Seq(P) /\ todo \in Seq(PosIds)
    BY <1>6, <1>7, InOrderType
  <1>9. worker' = [at |-> "tick", price |-> price, todo |-> todo]
    BY <1>3, <1>5, <1>7 DEF TakeTicker, Busy
  <1>10. WorkFits(worker', s)
    <2>1. \A i \in DOMAIN todo : s.pos[todo[i]].state = "ACTIVE"
      BY <1>6, <1>8
    <2> QED
      BY <1>9, <2>1 DEF WorkFits
  <1>11. Sound(ex, s.creating, Tail(queue), s.tracked, lost)
    BY <1>1, <1>2, SoundWeakened
  <1>12. worker' \in Work
    BY <1>4, <1>8, <1>9 DEF Work
  <1>13. TypeOK'
    BY <1>1, <1>2, <1>4, <1>12 DEF TypeOK, Work
  <1> QED
    BY <1>1, <1>2, <1>10, <1>11, <1>13 DEF BuyDipInv

\* The worker is done with its event, or stopped.
LEMMA NothingToVisit ==
  ASSUME NEW place \in {"idle", "stopped"}, NEW w, w = Busy(place, 0, <<>>), NEW t
  PROVE  w \in Work /\ WorkFits(w, t)
  <1>1. PICK none : none = <<>>
    OBVIOUS
  <1>2. none \in Seq(PosIds) /\ DOMAIN none = {}
    <2>1. none \in Seq(PosIds)
      BY <1>1, EmptySeq
    <2>2. DOMAIN none = {}
      BY <1>1
    <2> QED
      BY <2>1, <2>2
  <1>3. w = [at |-> place, price |-> 0, todo |-> none]
    BY <1>1 DEF Busy
  <1>4. w \in Work
    <2>1. none \in Seq(PosIds)
      BY <1>2
    <2>2. place \in {"idle", "candle", "tick", "stopped"} /\ 0 \in Nat
      OBVIOUS
    <2> QED
      BY <1>3, <2>1, <2>2 DEF Work
  <1>5. DOMAIN w.todo = {}
    BY <1>2, <1>3
  <1> QED
    BY <1>4, <1>5 DEF WorkFits

\* The candle is done with: a new top, replacements, and the marks removed.
LEMMA FinishCandleStep ==
  ASSUME BuyDipInv, FinishCandle
  PROVE  BuyDipInv'
  <1>1. /\ TypeOK /\ Fits(s) /\ WorkFits(worker, s) /\ DelayedFits(delayed, s)
        /\ Sound(ex, s.creating, queue, s.tracked, lost) /\ OrdersFit(s, late)
    BY DEF BuyDipInv
  <1>2. worker' = Busy("idle", 0, <<>>) /\ UNCHANGED <<highs, queue, ex, client, lost, late>>
    BY DEF FinishCandle, Done
  <1>3. worker' \in Work /\ \A t : WorkFits(worker', t)
    BY <1>2, NothingToVisit
  <1>4. /\ Fits(s') /\ s' \in Strategy
        /\ Sound(ex, s'.creating, queue, s'.tracked, lost)
        /\ delayed' \in Seq(Task) /\ DelayedFits(delayed', s') /\ OrdersFit(s', late)
    <2>1. delayed \in Seq(Task)
      BY <1>1 DEF TypeOK, Task
    <2>2. CASE IsRising /\ RisingRaises(s)
      BY <1>1, <2>1, <2>2 DEF FinishCandle, Fits
    <2>3. CASE ~ (IsRising /\ RisingRaises(s))
      <3>1. PICK high \in Nat : high = worker.price
        BY <1>1 DEF TypeOK
      <3>2. PICK t : t = IF IsRising THEN _handle_rising_pattern(s, high) ELSE s
        OBVIOUS
      <3>3. /\ Fits(t) /\ Drift(s, t) /\ Sound(ex, t.creating, queue, t.tracked, lost)
        <4>1. CASE IsRising
          BY <1>1, <3>2, <4>1, RisingFits
        <4>2. CASE ~ IsRising
          BY <1>1, <3>2, <4>2 DEF Drift, Rises, Priced, Exact
        <4> QED
          BY <4>1, <4>2
      <3>4. PICK r : r = Replacements(t)
        OBVIOUS
      <3>5. r \in Seq(Task) /\ DelayedFits(r, t)
        BY <3>3, <3>4, ReplacementsFit
      <3>6. delayed' = delayed \o r /\ s' = Settled(t)
        BY <2>3, <3>1, <3>2, <3>4 DEF FinishCandle
      <3>7. PICK d : d = delayed \o r
        OBVIOUS
      <3>8. DelayedFits(delayed, t)
        BY <1>1, <2>1, <3>3, DelayedDrifts
      <3>9. d \in Seq(Task) /\ DelayedFits(d, t)
        BY <2>1, <3>5, <3>7, <3>8, DelayedJoin
      <3>10. PICK u : u = Settled(t)
        OBVIOUS
      <3>11. Fits(u) /\ Drift(t, u) /\ u.tracked = t.tracked /\ u.creating = t.creating
        BY <3>3, <3>10, SettledFits
      <3>12. DelayedFits(d, u) /\ OrdersFit(u, late)
        BY <1>1, <3>3, <3>9, <3>11, DelayedDrifts, OrdersDrift
      <3>13. u \in Strategy
        BY <3>11 DEF Fits
      <3> QED
        BY <3>3, <3>6, <3>7, <3>9, <3>10, <3>11, <3>12, <3>13
    <2> QED
      BY <2>2, <2>3
  <1>5. TypeOK'
    BY <1>1, <1>2, <1>3, <1>4 DEF TypeOK, Work, Task
  <1> QED
    BY <1>2, <1>3, <1>4, <1>5 DEF BuyDipInv

\* An active position is visited: a sell is placed, cancelled or left alone.
LEMMA VisitActiveStep ==
  ASSUME BuyDipInv, ManageSell \/ CancelSell \/ CancelSellFails
  PROVE  BuyDipInv'
  <1>1. /\ TypeOK /\ Fits(s) /\ WorkFits(worker, s) /\ DelayedFits(delayed, s)
        /\ Sound(ex, s.creating, queue, s.tracked, lost) /\ OrdersFit(s, late)
    BY DEF BuyDipInv
  <1>2. /\ worker.at = "tick" /\ worker.todo # <<>>
        /\ worker' = [worker EXCEPT !.todo = Tail(@)]
        /\ UNCHANGED <<highs, queue, delayed, client, lost, late>>
    BY DEF ManageSell, CancelSell, CancelSellFails, CancelsSell, At, NextOne
  <1>3. PICK p \in PosIds : p = Current
    BY <1>1, <1>2 DEF TypeOK, Current
  <1>4. s.pos[p].state = "ACTIVE"
    <2>1. 1 \in DOMAIN worker.todo /\ p = worker.todo[1]
      BY <1>1, <1>2, <1>3 DEF TypeOK, Current
    <2> QED
      BY <1>1, <1>2, <2>1 DEF WorkFits
  <1>5. PICK u : u = s'
    OBVIOUS
  <1>6. PICK e : e = ex'
    OBVIOUS
  <1>7. queue \in Seq(Event) /\ delayed \in Seq(Task) /\ worker \in Work
    BY <1>1 DEF TypeOK, Task, Work
  <1>8. e \subseteq ex /\ Fits(u) /\ SameStates(s, u) /\ Drift(s, u)
        /\ Sound(e, u.creating, queue, u.tracked, lost)
    <2>1. CASE u = s /\ e = ex
      BY <1>1, <2>1 DEF SameStates, Drift, Rises, Priced, Exact
    <2>2. CASE ManageSell /\ u # s
      <3>1. u = place_sell_order(s, p) /\ s.pos[p].sell = NoOrder /\ e = ex
        BY <1>3, <1>5, <1>6, <2>2 DEF ManageSell
      <3> QED
        BY <1>1, <1>4, <3>1, SellIsPlaced
    <2>3. CASE CancelSell
      <3>1. u = SellCancelled(s, p) /\ s.pos[p].sell # NoOrder /\ e = Without(SellId(p))
        BY <1>3, <1>5, <1>6, <2>3 DEF CancelSell, CancelsSell
      <3>2. PICK o \in ex : o.id = SellId(p)
        BY <1>3, <2>3 DEF CancelSell, IsOpen
      <3>3. o.id \in OrderId
        BY <1>1 DEF TypeOK, PlacedOrder
      <3>4. o.id \in lost \/ Absent(e \cup s.creating, queue, o.id)
        BY <1>1, <3>1, <3>2, <3>3, RemovedIsAbsent DEF Without
      <3>5. e \subseteq ex
        BY <3>1 DEF Without
      <3>6. Sound(e, s.creating, queue, s.tracked, lost)
        BY <1>1, <1>7, <3>5, SoundWeakened
      <3> QED
        BY <1>1, <1>4, <3>1, <3>2, <3>4, <3>5, <3>6, SellIsForgotten
    <2>4. (u = s /\ e = ex) \/ (ManageSell /\ u # s) \/ CancelSell
      BY <1>5, <1>6 DEF ManageSell, CancelSellFails
    <2> QED
      BY <2>1, <2>2, <2>3, <2>4
  <1>9. worker' \in Work /\ WorkFits(worker', u)
    <2>1. PICK w : w = worker'
      OBVIOUS
    <2>2. Visited(s, u, worker.price)
      BY <1>8 DEF SameStates, Visited
    <2> QED
      BY <1>1, <1>2, <1>7, <2>1, <2>2, NextOneFits
  <1>10. DelayedFits(delayed, u) /\ OrdersFit(u, late)
    BY <1>1, <1>7, <1>8, DelayedDrifts, OrdersDrift
  <1>11. u \in Strategy
    BY <1>8 DEF Fits
  <1>12. TypeOK'
    BY <1>1, <1>2, <1>5, <1>6, <1>8, <1>9, <1>11 DEF TypeOK, Work
  <1> QED
    BY <1>2, <1>5, <1>6, <1>8, <1>9, <1>10, <1>12 DEF BuyDipInv

\* The check at the end of a ticker changes nothing.
LEMMA FinishTickerStep ==
  ASSUME BuyDipInv, FinishTicker
  PROVE  BuyDipInv'
  <1>1. /\ TypeOK /\ Fits(s) /\ DelayedFits(delayed, s)
        /\ Sound(ex, s.creating, queue, s.tracked, lost) /\ OrdersFit(s, late)
    BY DEF BuyDipInv
  <1>2. worker' = Busy("idle", 0, <<>>) /\ UNCHANGED <<highs, queue, delayed, ex, client, lost, late>>
    BY DEF FinishTicker, Done
  <1>3. worker' \in Work /\ \A t : WorkFits(worker', t)
    BY <1>2, NothingToVisit
  <1>4. s' = s
    <2>1. check_for_invalidation(s, worker.price) = s
      BY <1>1, NothingIsInvalidated
    <2> QED
      BY <2>1 DEF FinishTicker
  <1>5. TypeOK'
    BY <1>1, <1>2, <1>3, <1>4 DEF TypeOK, Work
  <1> QED
    BY <1>1, <1>2, <1>3, <1>4, <1>5 DEF BuyDipInv

\* The worker takes a fill: it was reported once, and its order is gone.
LEMMA TakeFillStep ==
  ASSUME BuyDipInv, TakeFill
  PROVE  BuyDipInv'
  <1>1. /\ TypeOK /\ Fits(s) /\ DelayedFits(delayed, s)
        /\ Sound(ex, s.creating, queue, s.tracked, lost) /\ OrdersFit(s, late)
    BY DEF BuyDipInv
  <1>2. /\ worker.at = "idle" /\ queue # <<>> /\ Head(queue).kind = "filled"
        /\ queue' = Tail(queue)
        /\ UNCHANGED <<highs, worker, delayed, ex, client, late>>
    BY DEF TakeFill, Take, Idle
  <1>3. queue \in Seq(Event) /\ delayed \in Seq(Task) /\ lost \subseteq OrderId
    BY <1>1 DEF TypeOK, Task
  <1>4. PICK id : id = Head(queue).id
    OBVIOUS
  <1>5. PICK price : price = Head(queue).price
    OBVIOUS
  <1>6. id \in OrderId /\ price \in Nat /\ Tail(queue) \in Seq(Event)
    BY <1>2, <1>3, <1>4, <1>5, HeadOfQueue
  <1>7. PICK p \in PosIds : p = id[1]
    BY <1>6 DEF OrderId
  <1>8. PICK q : q = Tail(queue)
    OBVIOUS
  <1>9. \A l : Sound(ex, s.creating, queue, s.tracked, l) =>
          /\ Sound(ex, s.creating, q, s.tracked, l)
          /\ id \in l \/ Absent(ex \cup s.creating, q, id)
    BY <1>2, <1>3, <1>4, <1>6, <1>8, SoundWeakened, TakenIsAbsent
  <1>10. PICK u : u = s'
    OBVIOUS
  <1>11. PICK l : l = lost'
    OBVIOUS
  <1>12. /\ Fits(u) /\ Drift(s, u) /\ l \subseteq OrderId
         /\ Sound(ex, u.creating, q, u.tracked, l)
    <2>1. CASE id = SellId(p)
      <3>1. /\ u = handle_sell_fill(s, p, price)
            /\ l = IF s.pos[p].pending # NoOrder /\ u # s
                   THEN lost \cup {s.pos[p].pending.id} ELSE lost
        BY <1>4, <1>5, <1>7, <1>10, <1>11, <2>1 DEF TakeFill
      <3>2. /\ Fits(u) /\ Drift(s, u) /\ (SellId(p) \in s.tracked => u # s)
        BY <1>1, <1>6, <3>1, SellFillFits
      <3>3. s.pos[p].pending # NoOrder => s.pos[p].pending.id \in OrderId
        BY <1>1 DEF Fits, PosFits, Position, PlacedOrder
      <3>4. lost \subseteq l /\ l \subseteq OrderId
        BY <1>3, <3>1, <3>3
      <3>5. Sound(ex, s.creating, queue, s.tracked, l)
        BY <1>1, <1>3, <3>4, SoundWeakened
      <3>6. /\ Sound(ex, s.creating, q, s.tracked, l)
            /\ SellId(p) \in l \/ Absent(ex \cup s.creating, q, SellId(p))
        BY <1>9, <2>1, <3>5
      <3>7. SellId(p) \in s.tracked =>
              s.pos[p].pending = NoOrder \/ s.pos[p].pending.id \in l
        BY <3>1, <3>2
      <3>8. Sound(ex, handle_sell_fill(s, p, price).creating, q,
                  handle_sell_fill(s, p, price).tracked, l)
        BY <1>1, <1>6, <3>6, <3>7, SellFillFits
      <3> QED
        BY <3>1, <3>2, <3>4, <3>8
    <2>2. CASE id # SellId(p)
      <3>1. u = handle_order_fill(s, p, id, price) /\ l = lost
        BY <1>4, <1>5, <1>7, <1>10, <1>11, <2>2 DEF TakeFill
      <3>2. /\ Sound(ex, s.creating, q, s.tracked, l)
            /\ id \in l \/ Absent(ex \cup s.creating, q, id)
        BY <1>1, <1>9, <3>1
      <3>3. Fits(u) /\ Drift(s, u)
        BY <1>1, <1>6, <1>7, <2>2, <3>1, OrderFillFits
      <3>4. Sound(ex, handle_order_fill(s, p, id, price).creating, q,
                  handle_order_fill(s, p, id, price).tracked, l)
        BY <1>1, <1>6, <1>7, <2>2, <3>2, OrderFillFits
      <3> QED
        BY <1>3, <3>1, <3>3, <3>4
    <2> QED
      BY <2>1, <2>2
  <1>13. DelayedFits(delayed, u) /\ OrdersFit(u, late)
    BY <1>1, <1>3, <1>12, DelayedDrifts, OrdersDrift
  <1>14. WorkFits(worker, u)
    BY <1>2 DEF WorkFits
  <1>15. u \in Strategy
    BY <1>12 DEF Fits
  <1>16. TypeOK'
    BY <1>1, <1>2, <1>6, <1>10, <1>11, <1>12, <1>15 DEF TypeOK
  <1> QED
    BY <1>2, <1>8, <1>10, <1>11, <1>12, <1>13, <1>14, <1>16 DEF BuyDipInv

\* A new budget leaves what is locked.
LEMMA ConfigureStep ==
  ASSUME BuyDipInv, NEW budget \in Budgets, Configure(budget)
  PROVE  BuyDipInv'
  <1>1. /\ TypeOK /\ Fits(s) /\ DelayedFits(delayed, s)
        /\ Sound(ex, s.creating, queue, s.tracked, lost) /\ OrdersFit(s, late)
    BY DEF BuyDipInv
  <1>2. worker.at = "idle" /\ UNCHANGED <<highs, worker, queue, delayed, ex, client, lost, late>>
    BY DEF Configure, Idle
  <1>3. delayed \in Seq(Task) /\ budget \in Int
    BY <1>1, ConfigAssumption DEF TypeOK, Task
  <1>4. PICK a \in Int, b \in Int :
          a = budget - s.locked /\ b = IF s.locked > 0 THEN s.locked ELSE 0
    BY <1>1, <1>3 DEF Fits, Strategy
  <1>5. PICK t : t = [s EXCEPT !.avail = a, !.locked = b]
    OBVIOUS
  <1>6. PICK u : u = _create_placeholder_watching_position(t)
    OBVIOUS
  <1>7. s' = u
    BY <1>4, <1>5, <1>6 DEF Configure
  <1>8. Fits(t) /\ Drift(s, t) /\ t.tracked = s.tracked /\ t.creating = s.creating
    <2>1. /\ t \in Strategy /\ t.pos = s.pos /\ t.locked = b
          /\ t.tracked = s.tracked /\ t.creating = s.creating
      BY <1>1, <1>5 DEF Fits, Strategy
    <2>2. s.locked \in Nat => t.locked = s.locked
      BY <1>4, <2>1
    <2> QED
      BY <1>1, <2>1, <2>2, BudgetFits
  <1>9. Fits(u) /\ Drift(t, u) /\ u.tracked = t.tracked /\ u.creating = t.creating
    BY <1>6, <1>8, PlaceholderFits
  <1>10. DelayedFits(delayed, u) /\ OrdersFit(u, late)
    <2>1. DelayedFits(delayed, t) /\ OrdersFit(t, late)
      BY <1>1, <1>3, <1>8, DelayedDrifts, OrdersDrift
    <2> QED
      BY <1>3, <1>9, <2>1, DelayedDrifts, OrdersDrift
  <1>11. WorkFits(worker, u)
    BY <1>2 DEF WorkFits
  <1>12. u \in Strategy
    BY <1>9 DEF Fits
  <1>13. TypeOK'
    BY <1>1, <1>2, <1>7, <1>12 DEF TypeOK
  <1> QED
    BY <1>1, <1>2, <1>7, <1>8, <1>9, <1>10, <1>11, <1>13 DEF BuyDipInv

\* Other coroutines run while the worker waits; its positions keep their
\* states and tops, since what they do to the strategy's data changes none.
LEMMA WorkIsKept ==
  ASSUME NEW w \in Work, NEW t, NEW u, WorkFits(w, t), SameStates(t, u)
  PROVE  WorkFits(w, u)
  <1>1. w.todo \in Seq(PosIds) /\ w.price \in Nat
    BY DEF Work
  <1>2. Visited(t, u, w.price)
    BY DEF SameStates, Visited
  <1> QED
    BY <1>1, <1>2, WorkGoesOn

\* A replacement wakes up: its price is not above the one of the top, which may
\* have moved; the order it places is noted.
LEMMA RunDelayedStep ==
  ASSUME BuyDipInv, RunDelayed
  PROVE  BuyDipInv'
  <1>1. /\ TypeOK /\ Fits(s) /\ WorkFits(worker, s) /\ DelayedFits(delayed, s)
        /\ Sound(ex, s.creating, queue, s.tracked, lost) /\ OrdersFit(s, late)
    BY DEF BuyDipInv
  <1>2. /\ delayed # <<>> /\ delayed' = Tail(delayed)
        /\ UNCHANGED <<highs, worker, queue, ex, client, lost>>
    BY DEF RunDelayed
  <1>3. delayed \in Seq(Task) /\ worker \in Work
    BY <1>1 DEF TypeOK, Task, Work
  <1>4. Head(delayed) \in Task /\ Tail(delayed) \in Seq(Task) /\ 1 \in DOMAIN delayed
        /\ Head(delayed) = delayed[1]
    BY <1>2, <1>3
  <1>5. PICK p \in PosIds : p = Head(delayed).pos
    BY <1>4 DEF Task
  <1>6. PICK price \in Nat : price = Head(delayed).price
    BY <1>4 DEF Task
  <1>7. /\ Started(s.pos[p])
        /\ s.pos[p].state = "POTENTIAL_TOP" => price <= BuyPrice(s.pos[p].top, 0)
    BY <1>1, <1>4, <1>5, <1>6 DEF DelayedFits
  <1>8. PICK id : id = DcaId(p, 0)
    OBVIOUS
  <1>9. id \in OrderId /\ id[1] = p /\ id[2] # "sell"
    BY <1>8 DEF DcaId, OrderId
  <1>10. PICK u : u = s'
    OBVIOUS
  <1>11. u = IF s.pos[p].cooling THEN s ELSE place_order(s, p, price, id)
    BY <1>5, <1>6, <1>8, <1>10 DEF RunDelayed
  <1>12. /\ Fits(u) /\ SameStates(s, u) /\ Rises(s, u)
         /\ Sound(ex, u.creating, queue, u.tracked, lost)
         /\ \A r \in PosIds : r # p => u.pos[r] = s.pos[r]
    <2>1. CASE s.pos[p].cooling
      BY <1>1, <1>11, <2>1 DEF SameStates, Rises
    <2>2. CASE ~ s.pos[p].cooling
      <3>1. u = place_order(s, p, price, id)
        BY <1>11, <2>2
      <3>2. /\ Fits(u) /\ SameStates(s, u) /\ Rises(s, u)
            /\ \A r \in PosIds : r # p => u.pos[r] = s.pos[r]
        BY <1>1, <1>7, <1>9, <3>1, OrderIsPlaced
      <3>3. \A e, q, l : Sound(e, s.creating, q, s.tracked, l) =>
                            Sound(e, u.creating, q, u.tracked, l)
        BY <1>1, <1>7, <1>9, <3>1, OrderIsPlaced
      <3> QED
        BY <1>1, <3>2, <3>3
    <2> QED
      BY <2>1, <2>2
  <1>13. PICK l : l = late'
    OBVIOUS
  <1>14. l \subseteq PlacedOrder /\ OrdersFit(u, l)
    <2>1. CASE u = s
      <3>1. l = late
        BY <1>10, <1>13, <2>1 DEF RunDelayed
      <3> QED
        BY <1>1, <2>1, <3>1 DEF TypeOK
    <2>2. CASE u # s
      <3>1. l = late \cup {u.pos[p].pending}
        BY <1>5, <1>10, <1>13, <2>2 DEF RunDelayed
      <3>2. OrdersFit(u, l)
        BY <1>1, <1>12, <3>1 DEF OrdersFit
      <3>3. u.pos[p].pending \in PlacedOrder
        <4>1. u = place_order(s, p, price, id)
          BY <1>11, <2>2
        <4>2. u.pos[p].pending # NoOrder
          <5>1. s \in Strategy
            BY <1>1 DEF Fits
          <5> QED
            BY <1>9, <2>2, <4>1, <5>1, PlacingSticks
        <4> QED
          BY <1>12, <4>2 DEF Fits, PosFits, Position
      <3> QED
        BY <1>1, <3>1, <3>2, <3>3 DEF TypeOK
    <2> QED
      BY <2>1, <2>2
  <1>15. DelayedFits(Tail(delayed), u)
    BY <1>1, <1>2, <1>3, <1>12, DelayedRises
  <1>16. WorkFits(worker, u)
    BY <1>1, <1>3, <1>12, WorkIsKept
  <1>17. u \in Strategy
    BY <1>12 DEF Fits
  <1>18. TypeOK'
    BY <1>1, <1>2, <1>4, <1>10, <1>13, <1>14, <1>17 DEF TypeOK, Task
  <1> QED
    BY <1>2, <1>10, <1>12, <1>13, <1>14, <1>15, <1>16, <1>18 DEF BuyDipInv

\* A cooldown ends, whatever sleeps.
LEMMA CooldownStep ==
  ASSUME BuyDipInv, NEW p \in PosIds, CooldownEnds(p)
  PROVE  BuyDipInv'
  <1>1. /\ TypeOK /\ Fits(s) /\ WorkFits(worker, s) /\ DelayedFits(delayed, s)
        /\ Sound(ex, s.creating, queue, s.tracked, lost) /\ OrdersFit(s, late)
    BY DEF BuyDipInv
  <1>2. UNCHANGED <<highs, worker, queue, delayed, ex, client, lost, late>>
    BY DEF CooldownEnds
  <1>3. PICK u : u = s'
    OBVIOUS
  <1>4. /\ Fits(u) /\ SameStates(s, u) /\ Drift(s, u)
        /\ u.tracked = s.tracked /\ u.creating = s.creating
    BY <1>1, <1>3, CooldownFits DEF CooldownEnds
  <1>5. DelayedFits(delayed, u) /\ OrdersFit(u, late)
    BY <1>1, <1>4, DelayedDrifts, OrdersDrift DEF TypeOK, Task
  <1>6. WorkFits(worker, u)
    BY <1>1, <1>4, WorkIsKept DEF TypeOK, Work
  <1>7. u \in Strategy
    BY <1>4 DEF Fits
  <1>8. TypeOK'
    BY <1>1, <1>2, <1>3, <1>7 DEF TypeOK
  <1> QED
    BY <1>1, <1>2, <1>3, <1>4, <1>5, <1>6, <1>8 DEF BuyDipInv

\* What is on its way to the exchange is no business of the positions.
LEMMA CreationFits ==
  ASSUME NEW t, Fits(t), NEW c \in SUBSET PlacedOrder, NEW u, u = [t EXCEPT !.creating = c]
  PROVE  /\ Fits(u) /\ SameStates(t, u) /\ Drift(t, u)
         /\ u.tracked = t.tracked /\ u.creating = c
  <1>1. t \in Strategy
    BY DEF Fits
  <1>2. /\ u \in Strategy
        /\ u.pos = t.pos /\ u.tracked = t.tracked /\ u.locked = t.locked /\ u.creating = c
    BY <1>1 DEF Strategy
  <1>3. Fits(u)
    BY <1>2 DEF Fits
  <1> QED
    BY <1>2, <1>3 DEF SameStates, Drift, Rises, Priced, Exact

\* The exchange accepts or refuses an order; either way it is on its way no more.
LEMMA CreateStep ==
  ASSUME BuyDipInv, NEW o \in s.creating, Create(o)
  PROVE  BuyDipInv'
  <1>1. /\ TypeOK /\ Fits(s) /\ WorkFits(worker, s) /\ DelayedFits(delayed, s)
        /\ Sound(ex, s.creating, queue, s.tracked, lost) /\ OrdersFit(s, late)
    BY DEF BuyDipInv
  <1>2. PICK c : c = s.creating \ {o}
    OBVIOUS
  <1>3. PICK u : u = [s EXCEPT !.creating = c]
    OBVIOUS
  <1>4. PICK e : e = ex'
    OBVIOUS
  <1>5. /\ s' = u /\ (e = ex \cup {o} \/ e = ex)
        /\ UNCHANGED <<highs, worker, queue, delayed, client, lost, late>>
    BY <1>2, <1>3, <1>4 DEF Create, CreateSucceeds, CreateFails
  <1>6. s.creating \subseteq PlacedOrder /\ queue \in Seq(Event) /\ delayed \in Seq(Task)
        /\ worker \in Work
    BY <1>1 DEF TypeOK, Strategy, Task, Work
  <1>7. /\ Fits(u) /\ SameStates(s, u) /\ Drift(s, u)
        /\ u.tracked = s.tracked /\ u.creating = c
    BY <1>1, <1>2, <1>3, <1>6, CreationFits, ZenonT(40)
  <1>8. Sound(e, c, queue, s.tracked, lost)
    <2>1. CASE e = ex \cup {o}
      BY <1>1, <1>2, <2>1, CreatedIsSound
    <2>2. CASE e = ex
      BY <1>1, <1>2, <1>6, <2>2, SoundWeakened
    <2> QED
      BY <1>5, <2>1, <2>2
  <1>9. DelayedFits(delayed, u) /\ WorkFits(worker, u) /\ OrdersFit(u, late)
    BY <1>1, <1>6, <1>7, DelayedDrifts, WorkIsKept, OrdersDrift
  <1>10. u \in Strategy
    BY <1>7 DEF Fits
  <1>11. e \subseteq PlacedOrder
    BY <1>1, <1>5, <1>6 DEF TypeOK
  <1>12. TypeOK'
    BY <1>1, <1>4, <1>5, <1>10, <1>11 DEF TypeOK
  <1> QED
    BY <1>4, <1>5, <1>7, <1>8, <1>9, <1>12 DEF BuyDipInv

\* The worker is stopped where it waits; a cancellation may still arrive.
LEMMA StopStep ==
  ASSUME BuyDipInv, Stop
  PROVE  BuyDipInv'
  <1>1. /\ TypeOK /\ Fits(s) /\ DelayedFits(delayed, s)
        /\ Sound(ex, s.creating, queue, s.tracked, lost) /\ OrdersFit(s, late)
    BY DEF BuyDipInv
  <1>2. worker' = Busy("stopped", 0, <<>>)
        /\ UNCHANGED <<highs, s, queue, delayed, client, lost, late>>
    BY DEF Stop
  <1>3. worker' \in Work /\ WorkFits(worker', s)
    BY <1>2, NothingToVisit
  <1>4. PICK e : e = ex'
    OBVIOUS
  <1>5. e \subseteq ex
    BY <1>4 DEF Stop, Without
  <1>6. Sound(e, s.creating, queue, s.tracked, lost)
    BY <1>1, <1>5, SoundWeakened DEF TypeOK
  <1>7. TypeOK'
    BY <1>1, <1>2, <1>3, <1>4, <1>5 DEF TypeOK, Work
  <1> QED
    BY <1>1, <1>2, <1>3, <1>4, <1>6, <1>7 DEF BuyDipInv

\* The market moves and the exchange reports: only events arrive.
LEMMA MarketStep ==
  ASSUME BuyDipInv, Market
  PROVE  BuyDipInv'
  <1>1. /\ TypeOK /\ Fits(s) /\ WorkFits(worker, s) /\ DelayedFits(delayed, s)
        /\ Sound(ex, s.creating, queue, s.tracked, lost) /\ OrdersFit(s, late)
    BY DEF BuyDipInv
  <1>2. UNCHANGED <<highs, s, worker, delayed, client, lost, late>>
    BY DEF Market, Candle, Ticker, Fill, Withdraw
  <1>3. PICK e, q : e = ex' /\ q = queue'
    OBVIOUS
  <1>4. queue \in Seq(Event) /\ ex \subseteq PlacedOrder
    BY <1>1 DEF TypeOK
  <1>5. e \subseteq ex /\ q \in Seq(Event) /\ Sound(e, s.creating, q, s.tracked, lost)
    <2>1. CASE \E high \in Highs : Candle(high)
      <3>1. PICK high \in Highs : Candle(high)
        BY <2>1
      <3>2. PICK ev : ev = [kind |-> "candle", price |-> high]
        OBVIOUS
      <3>3. ev \in Event /\ ev.kind # "filled" /\ q = Append(queue, ev) /\ e = ex
        BY <1>3, <3>1, <3>2 DEF Candle, Deliver, Event
      <3> QED
        BY <1>1, <1>4, <3>3, SoundWeakened, AppendProperties
    <2>2. CASE \E price \in Prices : Ticker(price)
      <3>1. PICK price \in Prices : Ticker(price)
        BY <2>2
      <3>2. PICK ev : ev = [kind |-> "tick", price |-> price]
        OBVIOUS
      <3>3. ev \in Event /\ ev.kind # "filled" /\ q = Append(queue, ev) /\ e = ex
        BY <1>3, <3>1, <3>2 DEF Ticker, Deliver, Event
      <3> QED
        BY <1>1, <1>4, <3>3, SoundWeakened, AppendProperties
    <2>3. CASE \E o \in ex : Fill(o)
      <3>1. PICK o \in ex : Fill(o)
        BY <2>3
      <3>2. PICK ev : ev = [kind |-> "filled", id |-> o.id, price |-> o.price]
        OBVIOUS
      <3>3. o.id \in OrderId /\ o.price \in Nat
        BY <1>4 DEF PlacedOrder
      <3>4. ev \in Event /\ ev.kind = "filled" /\ ev.id = o.id
            /\ q = Append(queue, ev) /\ e = ex \ {o}
        BY <1>3, <3>1, <3>2, <3>3 DEF Fill, Deliver, Event
      <3>5. Sound(e, s.creating, q, s.tracked, lost)
        BY <1>1, <1>4, <3>4, FilledIsSound
      <3> QED
        BY <1>4, <3>4, <3>5, AppendProperties
    <2>4. CASE \E o \in ex : Withdraw(o)
      <3>1. PICK o \in ex : Withdraw(o)
        BY <2>4
      <3>2. PICK ev : ev = [kind |-> "closed", id |-> o.id]
        OBVIOUS
      <3>3. o.id \in OrderId
        BY <1>4 DEF PlacedOrder
      <3>4. ev \in Event /\ ev.kind # "filled" /\ q = Append(queue, ev) /\ e = ex \ {o}
        BY <1>3, <3>1, <3>2, <3>3 DEF Withdraw, Deliver, Event
      <3>5. e \subseteq ex
        BY <3>4
      <3> QED
        BY <1>1, <1>4, <3>4, <3>5, SoundWeakened, AppendProperties
    <2> QED
      BY <2>1, <2>2, <2>3, <2>4 DEF Market
  <1>6. TypeOK'
    BY <1>1, <1>2, <1>3, <1>5 DEF TypeOK
  <1> QED
    BY <1>1, <1>2, <1>3, <1>5, <1>6 DEF BuyDipInv

\* One case per action.
LEMMA BuyDipStep ==
  ASSUME BuyDipInv, [Next]_vars
  PROVE  BuyDipInv'
  <1>1. CASE process_candle
    BY <1>1, TakeCandleStep, MoveTopStep, FinishCandleStep DEF process_candle
  <1>2. CASE process_ticker
    BY <1>2, TakeTickerStep, VisitActiveStep, FinishTickerStep DEF process_ticker
  <1>3. CASE IgnoreUnrouted \/ TakeFill \/ TakeClosed
    BY <1>3, IgnoreStep, TakeFillStep
  <1>4. CASE \E budget \in Budgets : Configure(budget)
    BY <1>4, ConfigureStep
  <1>5. CASE RunDelayed
    BY <1>5, RunDelayedStep
  <1>6. CASE \E p \in PosIds : CooldownEnds(p)
    BY <1>6, CooldownStep
  <1>7. CASE \E o \in s.creating : Create(o)
    BY <1>7, CreateStep
  <1>8. CASE Stop
    BY <1>8, StopStep
  <1>9. CASE Market
    BY <1>9, MarketStep
  <1>10. CASE UNCHANGED vars
    <2>1. UNCHANGED <<highs, s, worker, queue, delayed, ex, client, lost, late>>
      BY <1>10 DEF vars
    <2>2. TypeOK'
      BY <2>1 DEF BuyDipInv, TypeOK
    <2> QED
      BY <2>1, <2>2 DEF BuyDipInv
  <1> QED
    BY <1>1, <1>2, <1>3, <1>4, <1>5, <1>6, <1>7, <1>8, <1>9, <1>10 DEF Next, Worker

\* At first there is no position, no order and nothing to do.
LEMMA BuyDipInit ==
  ASSUME Init
  PROVE  BuyDipInv
  <1>1. PICK none : none = <<>>
    OBVIOUS
  <1>2. /\ none \in Seq(Highs) /\ none \in Seq(Event) /\ none \in Seq(Task)
    BY <1>1, EmptySeq
  <1>3. DOMAIN none = {}
    BY <1>1
  <1>4. /\ highs = none /\ queue = none /\ delayed = none
        /\ worker = Busy("idle", 0, <<>>)
        /\ ex = {} /\ client \in Clients /\ lost = {} /\ late = {}
    BY <1>1 DEF Init, Busy
  <1>5. /\ s.pos = [p \in PosIds |-> NoPosition] /\ s.locked = 0
        /\ s.tracked = {} /\ s.creating = {} /\ s.avail = InitBudget
    BY DEF Init
  <1>6. NoPosition \in Position
    BY DEF NoPosition, NewPosition, Position, NoOrder
  <1>7. s \in Strategy
    <2>1. s.pos \in [PosIds -> Position] /\ s.avail \in Int /\ s.locked \in Int
      BY <1>5, <1>6, ConfigAssumption
    <2> QED
      BY <1>5, <2>1 DEF Init, Strategy
  <1>8. Fits(s)
    <2>1. /\ NoPosition.state = "NONE" /\ NoPosition.confirmed = 0
          /\ NoPosition.sell = NoOrder /\ NoPosition.pending = NoOrder
          /\ NoPosition.spent = 0 /\ NoOrder.amount = 0
      BY DEF NoPosition, NewPosition, NoOrder
    <2>2. \A p \in PosIds : s.pos[p] = NoPosition
      BY <1>5
    <2>3. \A p \in PosIds : PosFits(s.pos[p], p)
      BY <1>6, <2>1, <2>2 DEF PosFits
    <2>4. s.locked = SumFunctionOnSet([p \in PosIds |-> Committed(s.pos[p])], PosIds)
      <3>1. PICK f : f = [p \in PosIds |-> Committed(s.pos[p])]
        OBVIOUS
      <3>2. \A p \in PosIds : f[p] = 0
        BY <2>1, <2>2, <3>1 DEF Committed
      <3>3. Numbers(f, PosIds)
        BY <3>2, PositionsAreFinite DEF Numbers
      <3>4. SumFunctionOnSet(f, PosIds) = SumFunctionOnSet(f, PosIds \ PosIds)
        BY <3>2, <3>3, SumIgnoresZeros
      <3>5. PosIds \ PosIds = {}
        OBVIOUS
      <3> QED
        BY <1>5, <3>1, <3>4, <3>5, SumOfNone
    <2> QED
      BY <1>5, <1>7, <2>1, <2>2, <2>3, <2>4 DEF Fits
  <1>9. Sound(ex, s.creating, queue, s.tracked, lost)
    BY <1>3, <1>4, <1>5 DEF Sound, Absent, FillOf
  <1>10. worker \in Work /\ WorkFits(worker, s)
    BY <1>4, NothingToVisit
  <1>11. DelayedFits(delayed, s) /\ OrdersFit(s, late)
    <2>1. \A p \in PosIds : s.pos[p].state # "POTENTIAL_TOP"
      BY <1>5 DEF NoPosition, NewPosition
    <2> QED
      BY <1>3, <1>4, <2>1 DEF DelayedFits, OrdersFit, Exact
  <1>12. TypeOK
    BY <1>2, <1>4, <1>7, <1>10 DEF TypeOK, Work, Task
  <1> QED
    BY <1>8, <1>9, <1>10, <1>11, <1>12 DEF BuyDipInv

(***************************************************************************)
(* The theorems                                                            *)
(***************************************************************************)

\* Every variable stays in its type; in particular the check for invalidation
\* by the ticker never finds a position to invalidate.
THEOREM BuyDipTypes == Spec => []TypeOK
  <1>1. BuyDipInv => TypeOK
    BY DEF BuyDipInv
  <1> QED
    BY <1>1, BuyDipInit, BuyDipStep, PTL DEF Spec

\* The map of tracked orders holds exactly the pending buys and the sells of
\* active positions.
THEOREM TrackingIsTrue == Spec => []TrackingAgrees
  <1>1. ASSUME BuyDipInv
        PROVE  TrackingAgrees
    <2>1. Fits(s) /\ s.tracked \subseteq OrderId
      BY <1>1 DEF BuyDipInv, Fits, Strategy
    <2> DEFINE Buys == {s.pos[p].pending.id : p \in {q \in PosIds : s.pos[q].pending # NoOrder}}
               Sells == {SellId(p) : p \in {q \in InState(s, "ACTIVE") : s.pos[q].sell # NoOrder}}
    <2>2. ASSUME NEW id \in s.tracked
          PROVE  id \in Buys \cup Sells
      <3>1. PICK p \in PosIds : p = id[1]
        BY <2>1, <2>2 DEF OrderId
      <3>2. Holds(s.pos[p], id) /\ id \in OrderId
        BY <2>1, <2>2, <3>1 DEF Fits
      <3>3. CASE id = s.pos[p].pending.id
        BY <2>1, <3>2, <3>3, IdsOfOrders
      <3>4. CASE id = s.pos[p].sell.id
        <4>1. s.pos[p].sell # NoOrder /\ id = SellId(p)
          BY <2>1, <3>2, <3>4, IdsOfOrders
        <4>2. p \in InState(s, "ACTIVE")
          BY <2>1, <4>1 DEF Fits, PosFits, InState
        <4> QED
          BY <4>1, <4>2
      <3> QED
        BY <3>2, <3>3, <3>4 DEF Holds
    <2>3. ASSUME NEW p \in PosIds, s.pos[p].pending # NoOrder
          PROVE  s.pos[p].pending.id \in s.tracked
      BY <2>1, <2>3 DEF Fits
    <2>4. ASSUME NEW p \in PosIds, s.pos[p].sell # NoOrder
          PROVE  SellId(p) \in s.tracked
      BY <2>1, <2>4 DEF Fits, PosFits
    <2>5. Buys \subseteq s.tracked
      BY <2>3
    <2>6. Sells \subseteq s.tracked
      BY <2>4 DEF InState
    <2>7. s.tracked = Buys \cup Sells
      BY <2>2, <2>5, <2>6
    <2> QED
      BY <2>7 DEF TrackingAgrees
  <1> QED
    BY <1>1, BuyDipInit, BuyDipStep, PTL DEF Spec

\* Until a first sell fills, exactly the money of pending and filled buy orders
\* is locked, whatever is placed, moved, filled or given up.
THEOREM LockedMoneyIsCommitted == Spec => []LockedIsCommitted
  <1>1. ASSUME BuyDipInv
        PROVE  LockedIsCommitted
    <2>1. Fits(s)
      BY <1>1 DEF BuyDipInv
    <2>2. InState(s, "COMPLETED") = {} => \A p \in PosIds : s.pos[p].state # "COMPLETED"
      BY DEF InState
    <2>3. [p \in PosIds |-> Committed(s.pos[p])]
          = [p \in PosIds |-> s.pos[p].pending.amount + s.pos[p].spent]
      BY DEF Committed
    <2> QED
      BY <2>1, <2>2, <2>3 DEF Fits, LockedIsCommitted
  <1> QED
    BY <1>1, BuyDipInit, BuyDipStep, PTL DEF Spec

\* There is never a second placeholder, whatever creates them.
THEOREM OnePlaceholder == Spec => []OneWatching
  <1>1. ASSUME BuyDipInv
        PROVE  OneWatching
    <2>1. PICK W : W = Watching(s)
      OBVIOUS
    <2>2. \A p, q \in W : p = q
      BY <1>1, <2>1 DEF BuyDipInv, Fits, Watching, InState
    <2>3. Cardinality(W) <= 1
      <3>1. CASE W = {}
        BY <3>1, FS_EmptySet
      <3>2. CASE W # {}
        <4>1. PICK p : p \in W
          BY <3>2
        <4>2. W = {p}
          BY <2>2, <4>1
        <4> QED
          BY <4>2, FS_Singleton
      <3> QED
        BY <3>1, <3>2
    <2> QED
      BY <2>1, <2>3 DEF OneWatching
  <1> QED
    BY <1>1, BuyDipInit, BuyDipStep, PTL DEF Spec

\* No order works, or is about to, that the strategy does not know of, unless
\* it gave it up without the exchange's word.
THEOREM OrdersAreKnown == Spec => []KnownUnlessLost
  <1>1. ASSUME BuyDipInv
        PROVE  KnownUnlessLost
    <2>1. \A o \in ex \cup s.creating : o.id \in OrderId
      BY <1>1 DEF BuyDipInv, TypeOK, Strategy, PlacedOrder
    <2>2. ASSUME NEW o \in ex \cup s.creating, o.id \notin s.tracked, o.id \notin lost
          PROVE  FALSE
      <3>1. Absent(ex \cup s.creating, queue, o.id)
        BY <1>1, <2>1, <2>2 DEF BuyDipInv, Sound
      <3> QED
        BY <3>1 DEF Absent
    <2> QED
      BY <2>2 DEF KnownUnlessLost
  <1> QED
    BY <1>1, BuyDipInit, BuyDipStep, PTL DEF Spec

\* The first order of a position is never above what the top it has now allows,
\* and exactly there unless a replacement that slept while the top moved placed it.
THEOREM FirstOrdersFitTop == Spec => []FirstOrderFitsTop
  <1>1. BuyDipInv => FirstOrderFitsTop
    BY DEF BuyDipInv, Fits, PosFits, OrdersFit, Exact, FirstOrderFitsTop,
           PotentialTops, InState
  <1> QED
    BY <1>1, BuyDipInit, BuyDipStep, PTL DEF Spec

\* The report of an order that filled to the last coin finds the order, unless it
\* was given up.
THEOREM FillsAreExpected == Spec => []FillIsExpected
  <1>1. ASSUME BuyDipInv
        PROVE  FillIsExpected
    <2>1. ASSUME NEW i \in DOMAIN queue, queue[i].kind = "filled",
                 queue[i].id \notin s.tracked, queue[i].id \notin lost
          PROVE  FALSE
      <3>1. queue \in Seq(Event)
        BY <1>1 DEF BuyDipInv, TypeOK
      <3>2. queue[i] \in Event
        BY <3>1
      <3>3. queue[i].id \in OrderId
        BY <2>1, <3>2 DEF Event
      <3>4. Absent(ex \cup s.creating, queue, queue[i].id)
        BY <1>1, <2>1, <3>3 DEF BuyDipInv, Sound
      <3> QED
        BY <2>1, <3>4 DEF Absent, FillOf
    <2> QED
      BY <2>1 DEF FillIsExpected
  <1> QED
    BY <1>1, BuyDipInit, BuyDipStep, PTL DEF Spec
=============================================================================
