---------------------------- MODULE PortfolioProofs ----------------------------
(***************************************************************************)
(* Theorems about Portfolio, for every inventory, any coins and any number *)
(* of positions.                                                           *)
(*                                                                         *)
(* The handlers are treated first, each on books that are Sound: it leaves *)
(* them so, touches the lots of its coins only, and keeps the rows of the  *)
(* table in step with the lots (Handles).  BooksInv is the invariant of    *)
(* the books: what the exchange has locked covers what the trades can      *)
(* still spend (Funds), one completion at most credits a position between  *)
(* two starts (ProceedsInv), the lot made of its proceeds is not made      *)
(* again after the next (ReceivedInv), and a position buys one coin        *)
(* (CarriersInv), so that its lot does not change its coin.  BalancesInv   *)
(* says where the last message of every coin is, and that the shares of    *)
(* the lots add up to it.  SoldInv says how many completions a position    *)
(* that was credited may still tell, in this start and in the next.        *)
(***************************************************************************)
EXTENDS Portfolio, SumProofs

(***************************************************************************)
(* Lists of lots                                                           *)
(***************************************************************************)

\* The number of positions up to k: what Kept orders positions by.
UpTo(ks, k) == {l \in ks : l <= k}

\* Kept finds the position for every place of the new list: the number of positions
\* up to a position numbers the positions from 1 on.
LEMMA PlacesAreFilled ==
  ASSUME NEW ks \in SUBSET Nat, IsFiniteSet(ks)
  PROVE  /\ Cardinality(ks) \in Nat
         /\ \A n \in 1 .. Cardinality(ks) : \E k \in ks : Cardinality(UpTo(ks, k)) = n
         /\ \A k \in ks : Cardinality(UpTo(ks, k)) \in 1 .. Cardinality(ks)
         /\ \A k, l \in ks : Cardinality(UpTo(ks, k)) = Cardinality(UpTo(ks, l)) => k = l
  <1> DEFINE g == [k \in ks |-> Cardinality(UpTo(ks, k))]
  <1>1. ASSUME NEW k \in ks
        PROVE  /\ IsFiniteSet(UpTo(ks, k)) /\ Cardinality(UpTo(ks, k)) \in 1 .. Cardinality(ks)
               /\ k \in UpTo(ks, k)
    <2>1. /\ IsFiniteSet(UpTo(ks, k)) /\ Cardinality(UpTo(ks, k)) <= Cardinality(ks)
          /\ k \in UpTo(ks, k)
      BY FS_Subset DEF UpTo
    <2>2. Cardinality(ks) \in Nat /\ Cardinality(UpTo(ks, k)) \in Nat
      BY <2>1, FS_CardinalityType
    <2>3. Cardinality(UpTo(ks, k)) # 0
      BY <2>1, FS_EmptySet
    <2> QED
      BY <2>1, <2>2, <2>3
  <1>2. ASSUME NEW k \in ks, NEW l \in ks, k < l
        PROVE  Cardinality(UpTo(ks, k)) # Cardinality(UpTo(ks, l))
    <2>1. \A m \in Nat : (m <= k => m <= l) /\ ~ (l <= k) /\ l <= l
      BY <1>2
    <2>2. UpTo(ks, k) \in SUBSET UpTo(ks, l) /\ l \notin UpTo(ks, k) /\ l \in UpTo(ks, l)
      BY <2>1 DEF UpTo
    <2> QED
      BY <1>1, <2>2, FS_Subset
  <1>3. \A k, l \in ks : Cardinality(UpTo(ks, k)) = Cardinality(UpTo(ks, l)) => k = l
    <2> SUFFICES ASSUME NEW k \in ks, NEW l \in ks, k # l
                 PROVE  Cardinality(UpTo(ks, k)) # Cardinality(UpTo(ks, l))
      OBVIOUS
    <2>1. k < l \/ l < k
      OBVIOUS
    <2> QED
      BY <1>2, <2>1
  <1>4. Cardinality(ks) \in Nat
    BY FS_CardinalityType
  <1>5. g \in [ks -> 1 .. Cardinality(ks)] /\ IsInjective(g)
    BY <1>1, <1>3 DEF IsInjective
  <1>6. IsFiniteSet(1 .. Cardinality(ks)) /\ Cardinality(1 .. Cardinality(ks)) = Cardinality(ks)
    BY <1>4, FS_Interval
  <1>7. g \in Surjection(ks, 1 .. Cardinality(ks))
    BY <1>5, <1>6, FS_Injection DEF Injection
  <1> QED
    BY <1>1, <1>3, <1>4, <1>7 DEF Surjection

\* What Kept keeps of a list is a list: its members are those at the positions, and
\* if the list had none twice, neither has it.
LEMMA KeptIsList ==
  ASSUME NEW X, NEW list \in Seq(X), NEW ks \in SUBSET DOMAIN list
  PROVE  /\ Kept(list, ks) \in Seq(X)
         /\ \A k \in ks : list[k] \in Range(Kept(list, ks))
         /\ \A n \in DOMAIN Kept(list, ks) : \E k \in ks : Kept(list, ks)[n] = list[k]
         /\ IsInjective(list) => IsInjective(Kept(list, ks))
  <1>1. DOMAIN list = 1 .. Len(list) /\ Len(list) \in Nat
    OBVIOUS
  <1>2. ks \in SUBSET Nat /\ IsFiniteSet(ks)
    <2>1. IsFiniteSet(1 .. Len(list))
      BY <1>1, FS_Interval
    <2> QED
      BY <1>1, <2>1, FS_Subset
  <1> DEFINE At(n) == CHOOSE k \in ks : Cardinality(UpTo(ks, k)) = n
             N == Cardinality(ks)
  <1>3. N \in Nat /\ \A n \in 1 .. N : \E k \in ks : Cardinality(UpTo(ks, k)) = n
    BY <1>2, PlacesAreFilled
  <1>4. \A n \in 1 .. N : At(n) \in ks /\ Cardinality(UpTo(ks, At(n))) = n
    BY <1>3
  <1>5. \A k \in ks : Cardinality(UpTo(ks, k)) \in 1 .. N /\ At(Cardinality(UpTo(ks, k))) = k
    <2> SUFFICES ASSUME NEW k \in ks
                 PROVE  Cardinality(UpTo(ks, k)) \in 1 .. N /\ At(Cardinality(UpTo(ks, k))) = k
      OBVIOUS
    <2>1. Cardinality(UpTo(ks, k)) \in 1 .. N
      BY <1>2, PlacesAreFilled
    <2>2. PICK n : n = Cardinality(UpTo(ks, k))
      OBVIOUS
    <2>3. At(n) \in ks /\ Cardinality(UpTo(ks, At(n))) = n
      BY <1>4, <2>1, <2>2
    <2>4. At(n) = k
      BY <1>2, <2>2, <2>3, PlacesAreFilled
    <2> QED
      BY <2>1, <2>2, <2>4
  <1> HIDE DEF At
  <1>6. Kept(list, ks) = [n \in 1 .. N |-> list[At(n)]]
    BY DEF Kept, At, UpTo
  <1>7. \A k \in ks : list[k] \in X
    OBVIOUS
  <1>8. Kept(list, ks) \in Seq(X)
    BY <1>3, <1>4, <1>6, <1>7
  <1>9. \A k \in ks : list[k] \in Range(Kept(list, ks))
    BY <1>5, <1>6 DEF Range
  <1>10. ASSUME IsInjective(list)
         PROVE  IsInjective(Kept(list, ks))
    <2>1. ASSUME NEW m \in 1 .. N, NEW n \in 1 .. N, list[At(m)] = list[At(n)]
          PROVE  m = n
      <3>1. At(m) = At(n)
        BY <1>4, <1>10, <2>1 DEF IsInjective
      <3> QED
        BY <1>4, <3>1
    <2> QED
      BY <1>6, <2>1 DEF IsInjective
  <1> QED
    BY <1>4, <1>6, <1>8, <1>9, <1>10

\* What a list holds is a finite set of its members.
LEMMA ListHolds ==
  ASSUME NEW X, NEW list \in Seq(X)
  PROVE  /\ IsFiniteSet(Range(list)) /\ Range(list) \subseteq X
         /\ \A i : Is(list, i) <=> i \in Range(list)
         /\ \A i \in Range(list) : Rank(list, i) \in DOMAIN list /\ list[Rank(list, i)] = i
         /\ DOMAIN list \subseteq Nat
  <1>1. DOMAIN list = 1 .. Len(list) /\ Len(list) \in Nat
    OBVIOUS
  <1>2. IsFiniteSet(DOMAIN list)
    BY <1>1, FS_Interval
  <1>3. list \in [DOMAIN list -> Range(list)]
    BY <1>1 DEF Range
  <1>4. list \in Surjection(DOMAIN list, Range(list))
    BY <1>3 DEF Surjection, Range
  <1>5. IsFiniteSet(Range(list))
    BY <1>2, <1>4, FS_Surjection
  <1>6. ASSUME NEW i \in Range(list)
        PROVE  Rank(list, i) \in DOMAIN list /\ list[Rank(list, i)] = i
    <2> DEFINE S == {k \in DOMAIN list : list[k] = i}
    <2>1. S \in SUBSET Int /\ IsFiniteSet(S) /\ S # {}
      BY <1>1, <1>2, FS_Subset DEF Range
    <2>2. PICK k \in S : \A l \in S : k <= l
      BY <2>1, NumbersHaveEnds
    <2>3. \A l \in 1 .. k - 1 : l \in DOMAIN list /\ ~ (k <= l)
      BY <1>1, <2>2
    <2>4. \A l \in 1 .. k - 1 : list[l] # i
      BY <2>2, <2>3
    <2>5. \E l \in DOMAIN list : list[l] = i /\ \A m \in 1 .. l - 1 : list[m] # i
      BY <2>2, <2>4
    <2> QED
      BY <2>5 DEF Rank
  <1>7. Range(list) \subseteq X
    BY <1>1 DEF Range
  <1> QED
    BY <1>1, <1>5, <1>6, <1>7 DEF Is, Range

\* A list without one of its members, and without all of a set of them.
LEMMA WithoutIsList ==
  ASSUME NEW X, NEW list \in Seq(X), NEW i \in Range(list)
  PROVE  /\ Without(list, i) \in Seq(X) /\ Range(Without(list, i)) \subseteq Range(list)
         /\ IsInjective(list) => /\ IsInjective(Without(list, i))
                                 /\ Range(Without(list, i)) = Range(list) \ {i}
  <1>1. PICK ks : ks = DOMAIN list \ {Rank(list, i)}
    OBVIOUS
  <1>2. ks \in SUBSET DOMAIN list /\ Without(list, i) = Kept(list, ks)
    BY <1>1 DEF Without
  <1>3. Rank(list, i) \in DOMAIN list /\ list[Rank(list, i)] = i
    BY ListHolds
  <1>4. /\ Kept(list, ks) \in Seq(X)
        /\ \A k \in ks : list[k] \in Range(Kept(list, ks))
        /\ \A n \in DOMAIN Kept(list, ks) : \E k \in ks : Kept(list, ks)[n] = list[k]
        /\ IsInjective(list) => IsInjective(Kept(list, ks))
    BY <1>2, KeptIsList
  <1>5. Range(Kept(list, ks)) \subseteq Range(list)
    BY <1>2, <1>4 DEF Range
  <1>6. ASSUME IsInjective(list)
        PROVE  Range(Kept(list, ks)) = Range(list) \ {i}
    <2>1. \A k \in DOMAIN list : list[k] = i <=> k \notin ks
      BY <1>1, <1>3, <1>6 DEF IsInjective
    <2> QED
      BY <1>2, <1>4, <2>1 DEF Range
  <1> QED
    BY <1>2, <1>4, <1>5, <1>6

(***************************************************************************)
(* Books                                                                   *)
(***************************************************************************)

Row == [coin : Coins, qty : Nat]
Books(items, inv, lots, rows, processed) ==
    [items |-> items, inv |-> inv, lots |-> lots, rows |-> rows, processed |-> processed]

\* The books are typed.
Typed(t) ==
    /\ t = Books(t.items, t.inv, t.lots, t.rows, t.processed)
    /\ t.items \in [DOMAIN t.items -> Item] /\ DOMAIN t.items \subseteq AllLots
    /\ t.inv \in Seq(DOMAIN t.items)
    /\ t.lots \in [DOMAIN t.lots -> Seq(DOMAIN t.items)] /\ DOMAIN t.lots \subseteq Coins
    /\ t.rows \in [DOMAIN t.rows -> Row]
    /\ t.processed \subseteq Positions

\* No lot is listed twice, the lots listed under a coin are of that coin, and a row
\* is one of a lot, of the same coin.
Sound(t) ==
    /\ Typed(t) /\ IsInjective(t.inv)
    /\ \A c \in DOMAIN t.lots : \A i \in Range(t.lots[c]) : t.items[i].coin = c
    /\ \A i \in DOMAIN t.rows : i \in DOMAIN t.items /\ t.rows[i].coin = t.items[i].coin

\* The rows follow the lots.
RowsFollow(t) ==
    /\ \A i \in Range(t.inv) :
        t.items[i].coin # Quote => i \in DOMAIN t.rows /\ t.rows[i].qty = t.items[i].qty
    /\ \A i \in DOMAIN t.rows : i \in Range(t.inv)

\* From t to u, lots of some coins only were touched, and some lots may be new.
Touches(t, u, coins, new) ==
    /\ DOMAIN t.items \subseteq DOMAIN u.items
    /\ DOMAIN u.items \subseteq DOMAIN t.items \cup new
    /\ \A i \in DOMAIN t.items :
        /\ u.items[i].coin = t.items[i].coin
        /\ t.items[i].coin \notin coins =>
               u.items[i] = t.items[i] /\ (i \in Range(u.inv) <=> i \in Range(t.inv))
    /\ \A i \in DOMAIN u.items \ DOMAIN t.items : u.items[i].coin \in coins

\* A handler that leaves the books sound.
Handles(t, u, coins, new) ==
    /\ Sound(u) /\ Touches(t, u, coins, new) /\ (RowsFollow(t) => RowsFollow(u))

\* Handlers in turn.
LEMMA HandlesOn ==
  ASSUME NEW t, NEW u, NEW v, NEW C, NEW D, NEW N, NEW M,
         Handles(t, u, C, N), Handles(u, v, D, M)
  PROVE  Handles(t, v, C \cup D, N \cup M)
  BY DEF Handles, Touches

\* A handler that does nothing.
LEMMA HandlesNothing ==
  ASSUME NEW t, Sound(t), NEW C, NEW N
  PROVE  Handles(t, t, C, N)
  BY DEF Handles, Touches

\* A field of typed books replaced.
LEMMA FieldReplaced ==
  ASSUME NEW t, Typed(t), NEW v
  PROVE  /\ [t EXCEPT !.items = v] = Books(v, t.inv, t.lots, t.rows, t.processed)
         /\ [t EXCEPT !.inv = v] = Books(t.items, v, t.lots, t.rows, t.processed)
         /\ [t EXCEPT !.lots = v] = Books(t.items, t.inv, v, t.rows, t.processed)
         /\ [t EXCEPT !.rows = v] = Books(t.items, t.inv, t.lots, v, t.processed)
  BY DEF Typed, Books

\* The fields of books.
LEMMA BooksHave ==
  ASSUME NEW x1, NEW x2, NEW x3, NEW x4, NEW x5, NEW u, u = Books(x1, x2, x3, x4, x5)
  PROVE  /\ u.items = x1 /\ u.inv = x2 /\ u.lots = x3 /\ u.rows = x4 /\ u.processed = x5
         /\ u = Books(u.items, u.inv, u.lots, u.rows, u.processed)
  <1>1. u.items = x1 /\ u.inv = x2 /\ u.lots = x3 /\ u.rows = x4 /\ u.processed = x5
    BY DEF Books
  <1> QED
    BY <1>1

\* A lot replaced.
LEMMA LotReplaced ==
  ASSUME NEW t, Typed(t), NEW i \in DOMAIN t.items, NEW v
  PROVE  LotIs(t, i, v) = Books([t.items EXCEPT ![i] = v], t.inv, t.lots, t.rows, t.processed)
  <1>1. [t EXCEPT !.items[i] = v] = [t EXCEPT !.items = [t.items EXCEPT ![i] = v]]
    BY DEF Typed, Books
  <1> QED
    BY <1>1, FieldReplaced DEF LotIs

\* One lot changes, but not its coin.
LEMMA LotChanges ==
  ASSUME NEW t, Sound(t), NEW i \in DOMAIN t.items, NEW v \in Item, v.coin = t.items[i].coin,
         NEW C, v.coin \in C
  PROVE  /\ Handles(t, update_inventory_item(LotIs(t, i, v), i), C, {})
         /\ v.coin = Quote => Handles(t, LotIs(t, i, v), C, {})
         /\ LotIs(t, i, v).processed = t.processed
         /\ update_inventory_item(LotIs(t, i, v), i).processed = t.processed
         /\ LotIs(t, i, v).lots = t.lots
         /\ update_inventory_item(LotIs(t, i, v), i).lots = t.lots
  <1> DEFINE items == [t.items EXCEPT ![i] = v]
  <1> SUFFICES ASSUME NEW u, u = LotIs(t, i, v)
               PROVE  /\ Handles(t, update_inventory_item(u, i), C, {})
                      /\ v.coin = Quote => Handles(t, u, C, {})
                      /\ u.processed = t.processed
                      /\ update_inventory_item(u, i).processed = t.processed
                      /\ u.lots = t.lots /\ update_inventory_item(u, i).lots = t.lots
    OBVIOUS
  <1>1. u = Books(items, t.inv, t.lots, t.rows, t.processed)
    BY LotReplaced DEF Sound
  <1>2. /\ items \in [DOMAIN t.items -> Item] /\ items[i] = v /\ DOMAIN items = DOMAIN t.items
        /\ \A j \in DOMAIN t.items : /\ j # i => items[j] = t.items[j]
                                     /\ items[j].coin = t.items[j].coin
    BY DEF Sound, Typed
  <1> HIDE DEF items
  <1>3. /\ u.items = items /\ u.inv = t.inv /\ u.lots = t.lots /\ u.rows = t.rows
        /\ u.processed = t.processed
        /\ u = Books(u.items, u.inv, u.lots, u.rows, u.processed)
    BY <1>1, BooksHave
  <1>4. \A c \in DOMAIN t.lots : Range(t.lots[c]) \subseteq DOMAIN t.items
    BY ListHolds DEF Sound, Typed
  <1>5. Range(t.inv) \subseteq DOMAIN t.items
    BY ListHolds DEF Sound, Typed
  <1>6. Sound(u)
    BY <1>2, <1>3, <1>4 DEF Sound, Typed
  <1>7. Touches(t, u, C, {})
    BY <1>2, <1>3 DEF Touches
  <1>8. v.coin = Quote => (RowsFollow(t) => RowsFollow(u))
    BY <1>2, <1>3, <1>5 DEF RowsFollow
  <1>9. PICK w : w = update_inventory_item(u, i)
    OBVIOUS
  <1>10. CASE i \notin DOMAIN t.rows
    <2>1. w = u
      BY <1>3, <1>9, <1>10 DEF update_inventory_item
    <2>2. RowsFollow(t) => RowsFollow(u)
      BY <1>2, <1>3, <1>5, <1>10 DEF RowsFollow
    <2> QED
      BY <1>3, <1>6, <1>7, <1>8, <1>9, <2>1, <2>2 DEF Handles
  <1>11. CASE i \in DOMAIN t.rows
    <2> DEFINE rows == [t.rows EXCEPT ![i].qty = v.qty]
    <2>1. w = Books(items, t.inv, t.lots, rows, t.processed)
      BY <1>1, <1>2, <1>3, <1>9, <1>11 DEF update_inventory_item, Books
    <2>2. /\ rows \in [DOMAIN t.rows -> Row] /\ DOMAIN rows = DOMAIN t.rows
          /\ rows[i].qty = v.qty
          /\ \A j \in DOMAIN t.rows : /\ rows[j].coin = t.rows[j].coin
                                      /\ j # i => rows[j] = t.rows[j]
      BY <1>11 DEF Sound, Typed, Row, Item
    <2> HIDE DEF rows
    <2>3. /\ w.items = items /\ w.inv = t.inv /\ w.lots = t.lots /\ w.rows = rows
          /\ w.processed = t.processed
          /\ w = Books(w.items, w.inv, w.lots, w.rows, w.processed)
      BY <2>1, BooksHave
    <2>4. Sound(w)
      BY <1>2, <1>4, <2>2, <2>3 DEF Sound, Typed
    <2>5. Touches(t, w, C, {})
      BY <1>2, <2>3 DEF Touches
    <2>6. RowsFollow(t) => RowsFollow(w)
      BY <1>2, <1>5, <2>2, <2>3 DEF RowsFollow
    <2> QED
      BY <1>3, <1>6, <1>7, <1>8, <1>9, <2>3, <2>4, <2>5, <2>6 DEF Handles
  <1> QED
    BY <1>10, <1>11

\* A position bought more of its lot.
LEMMA GrownHandles ==
  ASSUME NEW t, Sound(t), NEW i \in DOMAIN t.items, NEW amount \in Nat
  PROVE  /\ Handles(t, Grown(t, i, amount), {t.items[i].coin}, {})
         /\ Grown(t, i, amount).processed = t.processed
         /\ Grown(t, i, amount).lots = t.lots
  <1>1. t.items[i] \in Item
    BY DEF Sound, Typed
  <1>2. PICK x \in Item : x = t.items[i]
    BY <1>1
  <1>3. PICK a \in Nat, b \in Nat : a = x.qty + amount /\ b = x.free + amount
    BY DEF Item
  <1>4. PICK v : v = [x EXCEPT !.qty = a, !.free = b]
    OBVIOUS
  <1>5. v \in Item /\ v.coin = t.items[i].coin
    BY <1>2, <1>4 DEF Item
  <1>6. Grown(t, i, amount) = update_inventory_item(LotIs(t, i, v), i)
    BY <1>2, <1>3, <1>4 DEF Grown
  <1> QED
    BY <1>5, <1>6, LotChanges

\* What is appended to a list joins what it holds.
LEMMA ListGrows ==
  ASSUME NEW X, NEW list \in Seq(X), NEW i \in X
  PROVE  /\ Append(list, i) \in Seq(X) /\ Range(Append(list, i)) = Range(list) \cup {i}
         /\ IsInjective(list) /\ i \notin Range(list) => IsInjective(Append(list, i))
  <1>1. PICK n \in Nat : n = Len(list)
    OBVIOUS
  <1>2. DOMAIN list = 1 .. n /\ DOMAIN Append(list, i) = 1 .. n + 1
    BY <1>1
  <1>3. /\ \A k \in 1 .. n : Append(list, i)[k] = list[k]
        /\ Append(list, i)[n + 1] = i
    BY <1>1
  <1>4. \A k : k \in 1 .. n + 1 <=> k \in 1 .. n \/ k = n + 1
    BY <1>1
  <1>5. Append(list, i) \in Seq(X)
    OBVIOUS
  <1>6. Range(Append(list, i)) = Range(list) \cup {i}
    BY <1>2, <1>3, <1>4 DEF Range
  <1>7. ASSUME IsInjective(list), i \notin Range(list)
        PROVE  IsInjective(Append(list, i))
    BY <1>2, <1>3, <1>4, <1>7 DEF IsInjective, Range
  <1> QED
    BY <1>5, <1>6, <1>7

\* A lot that is not listed is opened, with a row.
LEMMA OpenedHandles ==
  ASSUME NEW t, Sound(t), NEW i \in AllLots, NEW c \in Coins, NEW amount \in Nat,
         i \notin Range(t.inv), i \in DOMAIN t.items => t.items[i].coin = c
  PROVE  /\ Handles(t, Opened(t, i, c, amount), {c}, {i})
         /\ Opened(t, i, c, amount).processed = t.processed
         /\ Opened(t, i, c, amount).lots = t.lots
         /\ i \in Range(Opened(t, i, c, amount).inv)
         /\ i \in DOMAIN Opened(t, i, c, amount).items
         /\ Opened(t, i, c, amount).items[i].coin = c
  <1> DEFINE lot == [coin |-> c, qty |-> amount, free |-> amount, locked |-> 0]
             items == With(t.items, i, lot)
             list == Append(t.inv, i)
             D == DOMAIN t.items \cup {i}
  <1>1. PICK u : u = [t EXCEPT !.items = items, !.inv = list]
    OBVIOUS
  <1>2. PICK w : w = insert_inventory_item(u, i)
    OBVIOUS
  <1>3. Opened(t, i, c, amount) = w
    BY <1>1, <1>2 DEF Opened
  <1>4. u = Books(items, list, t.lots, t.rows, t.processed)
    BY <1>1 DEF Sound, Typed, Books
  <1>5. lot \in Item /\ lot.coin = c /\ lot.qty = amount
    BY DEF Item
  <1> HIDE DEF lot
  <1>6. /\ items \in [D -> Item] /\ items[i] = lot /\ DOMAIN items = D
        /\ \A j \in DOMAIN t.items : j # i => items[j] = t.items[j]
    BY <1>5 DEF Sound, Typed, With
  <1>7. \A j \in DOMAIN t.items : items[j].coin = t.items[j].coin
    BY <1>5, <1>6
  <1> HIDE DEF items
  <1>8. t.inv \in Seq(D) /\ i \in D
    BY DEF Sound, Typed
  <1>9. list \in Seq(D) /\ Range(list) = Range(t.inv) \cup {i} /\ IsInjective(list)
    BY <1>8, ListGrows DEF Sound
  <1> HIDE DEF list
  <1>10. Range(t.inv) \subseteq DOMAIN t.items
    BY ListHolds DEF Sound, Typed
  <1>11. /\ t.lots \in [DOMAIN t.lots -> Seq(D)]
         /\ \A d \in DOMAIN t.lots : Range(t.lots[d]) \subseteq DOMAIN t.items
    BY ListHolds DEF Sound, Typed
  <1>12. /\ u.items = items /\ u.inv = list /\ u.lots = t.lots /\ u.rows = t.rows
         /\ u.processed = t.processed
         /\ u = Books(u.items, u.inv, u.lots, u.rows, u.processed)
    BY <1>4, BooksHave
  <1> DEFINE rows == IF i \in DOMAIN t.rows THEN t.rows
                     ELSE With(t.rows, i, [coin |-> lot.coin, qty |-> lot.qty])
  <1>13. w = Books(items, list, t.lots, rows, t.processed)
    <2>1. CASE i \in DOMAIN t.rows
      BY <1>2, <1>4, <1>12, <2>1 DEF insert_inventory_item
    <2>2. CASE i \notin DOMAIN t.rows
      BY <1>2, <1>4, <1>6, <1>12, <2>2 DEF insert_inventory_item, Books
    <2> QED
      BY <2>1, <2>2
  <1>14. /\ rows \in [DOMAIN rows -> Row] /\ i \in DOMAIN rows
         /\ DOMAIN rows = DOMAIN t.rows \cup {i}
         /\ \A j \in DOMAIN t.rows : rows[j] = t.rows[j]
         /\ i \notin DOMAIN t.rows => rows[i].coin = c /\ rows[i].qty = amount
    <2>1. CASE i \in DOMAIN t.rows
      BY <2>1 DEF Sound, Typed
    <2>2. CASE i \notin DOMAIN t.rows
      <3>1. PICK r : r = [coin |-> lot.coin, qty |-> lot.qty]
        OBVIOUS
      <3>2. r \in Row /\ r.coin = c /\ r.qty = amount
        BY <1>5, <3>1 DEF Row
      <3>3. rows = With(t.rows, i, r)
        BY <2>2, <3>1
      <3> QED
        BY <2>2, <3>2, <3>3 DEF Sound, Typed, With
    <2> QED
      BY <2>1, <2>2
  <1> HIDE DEF rows
  <1>15. /\ w.items = items /\ w.inv = list /\ w.lots = t.lots /\ w.rows = rows
         /\ w.processed = t.processed
         /\ w = Books(w.items, w.inv, w.lots, w.rows, w.processed)
    BY <1>13, BooksHave
  <1>16. \A j \in DOMAIN rows : j \in D /\ rows[j].coin = items[j].coin
    BY <1>5, <1>6, <1>7, <1>14 DEF Sound
  <1>17. Sound(w)
    BY <1>6, <1>7, <1>9, <1>11, <1>14, <1>15, <1>16 DEF Sound, Typed
  <1>18. Touches(t, w, {c}, {i})
    BY <1>5, <1>6, <1>7, <1>9, <1>15 DEF Touches
  <1>19. RowsFollow(t) => RowsFollow(w)
    BY <1>5, <1>6, <1>9, <1>10, <1>14, <1>15 DEF RowsFollow
  <1> QED
    BY <1>3, <1>5, <1>6, <1>9, <1>15, <1>17, <1>18, <1>19 DEF Handles

\* The lots are listed under their coins in another way.
LEMMA LotsRelisted ==
  ASSUME NEW t, Sound(t), NEW lots, lots \in [DOMAIN lots -> Seq(DOMAIN t.items)],
         DOMAIN lots \subseteq Coins,
         \A c \in DOMAIN lots : \A i \in Range(lots[c]) : t.items[i].coin = c
  PROVE  /\ \A C, N : Handles(t, [t EXCEPT !.lots = lots], C, N)
         /\ [t EXCEPT !.lots = lots].processed = t.processed
         /\ [t EXCEPT !.lots = lots].items = t.items
         /\ [t EXCEPT !.lots = lots].inv = t.inv
         /\ [t EXCEPT !.lots = lots].lots = lots
  <1>1. PICK u : u = [t EXCEPT !.lots = lots]
    OBVIOUS
  <1>2. u = Books(t.items, t.inv, lots, t.rows, t.processed)
    BY <1>1, FieldReplaced DEF Sound
  <1>3. /\ u.items = t.items /\ u.inv = t.inv /\ u.lots = lots /\ u.rows = t.rows
        /\ u.processed = t.processed
        /\ u = Books(u.items, u.inv, u.lots, u.rows, u.processed)
    BY <1>2, BooksHave
  <1>4. Sound(u)
    BY <1>3 DEF Sound, Typed
  <1>5. \A C, N : Touches(t, u, C, N)
    BY <1>3 DEF Touches
  <1>6. RowsFollow(t) => RowsFollow(u)
    BY <1>3 DEF RowsFollow
  <1> QED
    BY <1>1, <1>3, <1>4, <1>5, <1>6 DEF Handles

\* A lot is listed under its coin once more.
LEMMA ListedHandles ==
  ASSUME NEW t, Sound(t), NEW c \in Coins, NEW i \in DOMAIN t.items, t.items[i].coin = c
  PROVE  /\ \A C, N : Handles(t, ListedUnder(t, c, i), C, N)
         /\ ListedUnder(t, c, i).processed = t.processed
         /\ DOMAIN t.lots \subseteq DOMAIN ListedUnder(t, c, i).lots
  <1> DEFINE old == IF c \in DOMAIN t.lots THEN t.lots[c] ELSE <<>>
  <1>1. old \in Seq(DOMAIN t.items) /\ \A j \in Range(old) : t.items[j].coin = c
    <2>1. CASE c \in DOMAIN t.lots
      BY <2>1 DEF Sound, Typed
    <2>2. CASE c \notin DOMAIN t.lots
      <3>1. old = <<>> /\ \A j : j \notin Range(<<>>)
        BY <2>2 DEF Range
      <3>2. <<>> \in Seq(DOMAIN t.items)
        OBVIOUS
      <3> HIDE DEF old
      <3> QED
        BY <3>1, <3>2
    <2> QED
      BY <2>1, <2>2
  <1> HIDE DEF old
  <1>2. /\ Append(old, i) \in Seq(DOMAIN t.items)
        /\ \A j \in Range(Append(old, i)) : t.items[j].coin = c
    BY <1>1, ListGrows
  <1>3. PICK lots : lots = With(t.lots, c, Append(old, i))
    OBVIOUS
  <1>4. /\ DOMAIN lots = DOMAIN t.lots \cup {c} /\ lots[c] = Append(old, i)
        /\ \A d \in DOMAIN t.lots : d # c => lots[d] = t.lots[d]
        /\ lots = [d \in DOMAIN lots |-> lots[d]]
    BY <1>3 DEF With
  <1>5. /\ lots \in [DOMAIN lots -> Seq(DOMAIN t.items)] /\ DOMAIN lots \subseteq Coins
        /\ \A d \in DOMAIN lots : \A j \in Range(lots[d]) : t.items[j].coin = d
    BY <1>2, <1>4 DEF Sound, Typed
  <1>6. ListedUnder(t, c, i) = [t EXCEPT !.lots = lots]
    BY <1>3 DEF ListedUnder, old
  <1> QED
    BY <1>4, <1>5, <1>6, LotsRelisted

\* A fill is booked on the lot of its position.
LEMMA BookedHandles ==
  ASSUME NEW t, Sound(t), NEW i \in AllLots, NEW c \in Coins, NEW amount \in Nat,
         i \in DOMAIN t.items => t.items[i].coin = c
  PROVE  /\ Handles(t, Booked(t, i, c, amount), {c}, {i})
         /\ Booked(t, i, c, amount).processed = t.processed
         /\ Booked(t, i, c, amount).lots = t.lots
         /\ i \in DOMAIN Booked(t, i, c, amount).items
         /\ Booked(t, i, c, amount).items[i].coin = c
  <1>1. Is(t.inv, i) <=> i \in Range(t.inv)
    BY ListHolds DEF Sound, Typed
  <1>2. CASE i \in Range(t.inv)
    <2>1. i \in DOMAIN t.items
      BY <1>2, ListHolds DEF Sound, Typed
    <2>2. /\ Handles(t, Grown(t, i, amount), {c}, {})
          /\ Grown(t, i, amount).processed = t.processed
          /\ Grown(t, i, amount).lots = t.lots
      BY <2>1, GrownHandles
    <2>3. Booked(t, i, c, amount) = Grown(t, i, amount)
      BY <1>1, <1>2 DEF Booked
    <2> QED
      BY <2>1, <2>2, <2>3 DEF Handles, Touches
  <1>3. CASE i \notin Range(t.inv)
    <2>1. Booked(t, i, c, amount) = Opened(t, i, c, amount)
      BY <1>1, <1>3 DEF Booked
    <2>3. Handles(t, Opened(t, i, c, amount), {c}, {i})
      BY <1>3, OpenedHandles
    <2>4. /\ Opened(t, i, c, amount).processed = t.processed
          /\ Opened(t, i, c, amount).lots = t.lots
      BY <1>3, <2>3, OpenedHandles
    <2>5. /\ i \in DOMAIN Opened(t, i, c, amount).items
          /\ Opened(t, i, c, amount).items[i].coin = c
      BY <1>3, <2>3, OpenedHandles
    <2> QED
      BY <2>1, <2>3, <2>4, <2>5
  <1> QED
    BY <1>2, <1>3

\* The first lot of the currency is one of its lots.
LEMMA FirstLotIs ==
  ASSUME NEW t, Sound(t), LotsOf(t, t.inv, Quote) # {}
  PROVE  FirstLot(t) \in DOMAIN t.items /\ t.items[FirstLot(t)].coin = Quote
  <1> DEFINE lots == LotsOf(t, t.inv, Quote)
             ranks == {Rank(t.inv, i) : i \in lots}
  <1>1. /\ Range(t.inv) \subseteq DOMAIN t.items /\ IsFiniteSet(DOMAIN t.inv)
        /\ \A i \in Range(t.inv) : Rank(t.inv, i) \in DOMAIN t.inv
        /\ DOMAIN t.inv \subseteq Nat
    <2>1. t.inv \in Seq(DOMAIN t.items) /\ DOMAIN t.inv = 1 .. Len(t.inv) /\ Len(t.inv) \in Nat
      BY DEF Sound, Typed
    <2>2. IsFiniteSet(1 .. Len(t.inv))
      BY <2>1, FS_Interval
    <2> QED
      BY <2>1, <2>2, ListHolds
  <1>2. ranks \in SUBSET DOMAIN t.inv /\ ranks # {}
    BY <1>1 DEF LotsOf
  <1>3. ranks \in SUBSET Int /\ IsFiniteSet(ranks)
    BY <1>1, <1>2, FS_Subset
  <1>4. PICK k \in ranks : \A l \in ranks : k <= l
    BY <1>2, <1>3, NumbersHaveEnds
  <1>5. \E i \in lots : \A j \in lots : Rank(t.inv, i) <= Rank(t.inv, j)
    BY <1>4
  <1>6. FirstLot(t) \in lots
    BY <1>5 DEF FirstLot
  <1> QED
    BY <1>1, <1>6 DEF LotsOf

\* The currency that a buy spent.
LEMMA ReduceHandles ==
  ASSUME NEW t, Sound(t), NEW amount \in Nat
  PROVE  /\ Handles(t, _reduce_spent_currency_and_unlock_remaining(t, amount), {Quote}, {})
         /\ _reduce_spent_currency_and_unlock_remaining(t, amount).processed = t.processed
         /\ _reduce_spent_currency_and_unlock_remaining(t, amount).lots = t.lots
  <1> DEFINE u == _reduce_spent_currency_and_unlock_remaining(t, amount)
  <1>1. CASE Quote \notin DOMAIN t.lots \/ LotsOf(t, t.inv, Quote) = {}
    BY <1>1, HandlesNothing DEF _reduce_spent_currency_and_unlock_remaining
  <1>2. CASE ~ (Quote \notin DOMAIN t.lots \/ LotsOf(t, t.inv, Quote) = {})
    <2>1. PICK i \in DOMAIN t.items : i = FirstLot(t) /\ t.items[i].coin = Quote
      BY <1>2, FirstLotIs
    <2>2. PICK x \in Item : x = t.items[i]
      BY DEF Sound, Typed
    <2>3. PICK a \in Nat, b \in Nat : a = Monus(x.qty, amount) /\ b = Monus(x.locked, amount)
      BY DEF Item, Monus
    <2>4. PICK v : v = [x EXCEPT !.qty = a, !.locked = b]
      OBVIOUS
    <2>5. v \in Item /\ v.coin = t.items[i].coin
      BY <2>2, <2>4 DEF Item
    <2>6. u = update_inventory_item(LotIs(t, i, v), i)
      BY <1>2, <2>1, <2>2, <2>3, <2>4 DEF _reduce_spent_currency_and_unlock_remaining
    <2> QED
      BY <2>1, <2>5, <2>6, LotChanges
  <1> QED
    BY <1>1, <1>2

\* Books with a lot of a coin.
LotOf(t, i, c) == i \in DOMAIN t.items /\ t.items[i].coin = c

\* HP_BUY_PARTIALLY_FILLED and HP_BUY_FILLED.
LEMMA BuysHandle ==
  ASSUME NEW t, Sound(t), NEW h \in Positions, NEW c \in Coins, NEW amount \in Nat,
         HpLot(h) \in DOMAIN t.items => t.items[HpLot(h)].coin = c
  PROVE  /\ Handles(t, _add_inventory_after_hp_buy_fill(t, h, c, amount), {c}, {HpLot(h)})
         /\ _add_inventory_after_hp_buy_fill(t, h, c, amount).processed = t.processed
         /\ Handles(t, handle_hp_buy_filled(t, h, c, amount), {Quote, c}, {HpLot(h)})
         /\ handle_hp_buy_filled(t, h, c, amount).processed = t.processed
         /\ LotOf(_add_inventory_after_hp_buy_fill(t, h, c, amount), HpLot(h), c)
         /\ LotOf(handle_hp_buy_filled(t, h, c, amount), HpLot(h), c)
         /\ DOMAIN t.lots \subseteq DOMAIN _add_inventory_after_hp_buy_fill(t, h, c, amount).lots
         /\ DOMAIN t.lots \subseteq DOMAIN handle_hp_buy_filled(t, h, c, amount).lots
  <1>1. PICK i \in AllLots : i = HpLot(h)
    BY DEF AllLots
  <1>2. PICK u : u = Booked(t, i, c, amount)
    OBVIOUS
  <1>3. /\ Handles(t, u, {c}, {i}) /\ u.processed = t.processed /\ u.lots = t.lots
        /\ i \in DOMAIN u.items /\ u.items[i].coin = c
    <2>1. i \in DOMAIN t.items => t.items[i].coin = c
      BY <1>1
    <2>2. Handles(t, Booked(t, i, c, amount), {c}, {i})
      BY <2>1, BookedHandles
    <2>3. /\ Booked(t, i, c, amount).processed = t.processed
          /\ Booked(t, i, c, amount).lots = t.lots
      BY <2>1, <2>2, BookedHandles
    <2>4. /\ i \in DOMAIN Booked(t, i, c, amount).items
          /\ Booked(t, i, c, amount).items[i].coin = c
      BY <2>1, <2>2, BookedHandles
    <2> QED
      BY <1>2, <2>2, <2>3, <2>4
  <1>4. PICK v : v = ListedUnder(u, c, i)
    OBVIOUS
  <1>5. /\ \A C, N : Handles(u, v, C, N)
        /\ v.processed = u.processed
        /\ DOMAIN u.lots \subseteq DOMAIN v.lots
    BY <1>3, <1>4, ListedHandles DEF Handles
  <1>6. Handles(t, v, {c}, {i})
    BY <1>3, <1>5, HandlesOn
  <1>7. PICK w : w = _reduce_spent_currency_and_unlock_remaining(v, amount)
    OBVIOUS
  <1>8. Handles(v, w, {Quote}, {}) /\ w.processed = v.processed /\ w.lots = v.lots
    BY <1>6, <1>7, ReduceHandles DEF Handles
  <1>9. Handles(t, w, {Quote, c}, {i})
    <2>1. Handles(t, w, {c} \cup {Quote}, {i} \cup {})
      BY <1>6, <1>8, HandlesOn
    <2>2. {c} \cup {Quote} = {Quote, c} /\ {i} \cup {} = {i}
      OBVIOUS
    <2> QED
      BY <2>1, <2>2
  <1>10. _add_inventory_after_hp_buy_fill(t, h, c, amount) \in {u, v}
    BY <1>1, <1>2, <1>4 DEF _add_inventory_after_hp_buy_fill
  <1>11. handle_hp_buy_filled(t, h, c, amount) = w
    BY <1>1, <1>2, <1>4, <1>7 DEF handle_hp_buy_filled
  <1>12. LotOf(u, i, c) /\ LotOf(v, i, c) /\ LotOf(w, i, c)
    BY <1>3, <1>5, <1>8 DEF Handles, Touches, LotOf
  <1> QED
    BY <1>1, <1>3, <1>5, <1>6, <1>8, <1>9, <1>10, <1>11, <1>12

(***************************************************************************)
(* Balances                                                                *)
(***************************************************************************)

\* The amounts of lots are numbers, and so is what they sum up to.
LEMMA LotsAmount ==
  ASSUME NEW t, Typed(t), NEW S \in SUBSET DOMAIN t.items, IsFiniteSet(S),
         NEW field \in {"qty", "free", "locked"}
  PROVE  /\ Numbers([i \in S |-> t.items[i][field]], S)
         /\ \A i \in S : t.items[i][field] \in Nat
         /\ Sum(t, field, S) \in Nat
  <1>1. \A i \in S : t.items[i][field] \in Nat
    BY DEF Typed, Item
  <1>2. PICK f : f = [i \in S |-> t.items[i][field]]
    OBVIOUS
  <1>3. Numbers(f, S) /\ \A i \in S : f[i] >= 0
    BY <1>1, <1>2 DEF Numbers
  <1>4. SumFunctionOnSet(f, S) \in Nat
    BY <1>3, SumIsNat
  <1> QED
    BY <1>1, <1>2, <1>3, <1>4 DEF Sum

\* The lots of a coin in a list.
LEMMA LotsListed ==
  ASSUME NEW t, Typed(t), NEW list \in Seq(DOMAIN t.items), NEW c
  PROVE  /\ LotsOf(t, list, c) \in SUBSET DOMAIN t.items /\ IsFiniteSet(LotsOf(t, list, c))
         /\ \A i : /\ Earlier(t, list, i) \in SUBSET DOMAIN t.items
                   /\ IsFiniteSet(Earlier(t, list, i))
  <1>1. IsFiniteSet(Range(list)) /\ Range(list) \subseteq DOMAIN t.items
    BY ListHolds
  <1>2. \A d : LotsOf(t, list, d) \in SUBSET Range(list)
    BY DEF LotsOf
  <1>3. \A i : Earlier(t, list, i) \in SUBSET Range(list)
    BY <1>2 DEF Earlier
  <1> QED
    BY <1>1, <1>2, <1>3, FS_Subset

\* A share of a balance is not negative.
LEMMA ShareIsNat ==
  ASSUME NEW balance \in Nat, NEW before \in Nat, NEW own \in Nat, NEW total \in Nat, total > 0
  PROVE  Share(balance, before, own, total) \in Nat
  <1>1. PICK a \in Nat, b \in Nat : a = balance * before /\ b = balance * (before + own)
    OBVIOUS
  <1>2. a <= b
    <2>1. balance * (before + own) = balance * before + balance * own /\ balance * own \in Nat
      OBVIOUS
    <2> QED
      BY <1>1, <2>1
  <1>3. a \div total \in Nat /\ b \div total \in Nat /\ a \div total <= b \div total
    BY <1>2
  <1> QED
    BY <1>1, <1>3 DEF Share

\* Shares are taken one after the other, in the order of the ranks: what the first
\* ones get together is the share of their sum.
Below(S, rank, x) == {y \in S : rank[y] < rank[x]}
First(T, S, rank) == \A x \in T, y \in S : rank[y] < rank[x] => y \in T

\* What the first lots of a list get together.
LEMMA SharesOfFirst ==
  ASSUME NEW S, NEW rank, Numbers(rank, S), \A x \in S, y \in S : rank[x] = rank[y] => x = y,
         NEW qty, Numbers(qty, S), \A x \in S : qty[x] >= 0,
         NEW balance \in Nat, NEW total \in Nat, total > 0, NEW f,
         \A x \in S : f[x] = Share(balance, SumFunctionOnSet(qty, Below(S, rank, x)), qty[x], total)
  PROVE  \A T \in SUBSET S : First(T, S, rank) =>
            SumFunctionOnSet(f, T) = (balance * SumFunctionOnSet(qty, T)) \div total
  <1> DEFINE Good == {T \in SUBSET S : First(T, S, rank) =>
                SumFunctionOnSet(f, T) = (balance * SumFunctionOnSet(qty, T)) \div total}
  <1>1. IsFiniteSet(S) /\ \A T \in SUBSET S : Numbers(qty, T) /\ SumFunctionOnSet(qty, T) \in Nat
    BY FS_Subset, SumIsNat DEF Numbers
  <1>2. Numbers(f, S)
    <2>1. ASSUME NEW x \in S
          PROVE  f[x] \in Int
      <3>1. PICK before \in Nat : before = SumFunctionOnSet(qty, Below(S, rank, x))
        BY <1>1 DEF Below
      <3>2. PICK own \in Nat : own = qty[x]
        BY DEF Numbers
      <3>3. Share(balance, before, own, total) \in Nat
        BY ShareIsNat
      <3>4. f[x] = Share(balance, before, own, total)
        BY <3>1, <3>2
      <3> QED
        BY <3>3, <3>4
    <2> QED
      BY <1>1, <2>1 DEF Numbers
  <1>3. ASSUME NEW T \in SUBSET S, \A x \in T : T \ {x} \in Good
        PROVE  T \in Good
    <2> SUFFICES ASSUME First(T, S, rank)
                 PROVE  SumFunctionOnSet(f, T) = (balance * SumFunctionOnSet(qty, T)) \div total
      OBVIOUS
    <2>1. CASE T = {}
      <3>1. SumFunctionOnSet(f, T) = 0 /\ SumFunctionOnSet(qty, T) = 0
        BY <2>1, SumOfNone
      <3>2. (balance * 0) \div total = 0
        OBVIOUS
      <3> QED
        BY <3>1, <3>2
    <2>2. CASE T # {}
      <3>1. Numbers(rank, T)
        BY <1>1, FS_Subset DEF Numbers
      <3>2. PICK x \in T : \A y \in T : rank[y] <= rank[x]
        BY <2>2, <3>1, OneIsLast
      <3>3. \A y \in S : rank[y] \in Int
        BY DEF Numbers
      <3>4. First(T \ {x}, S, rank)
        BY <3>2, <3>3 DEF First
      <3>5. Below(S, rank, x) = T \ {x}
        <4>1. \A y \in S : rank[y] < rank[x] => y \in T \ {x}
          BY <3>3 DEF First
        <4>2. \A y \in T \ {x} : rank[y] < rank[x]
          BY <3>2, <3>3
        <4> QED
          BY <4>1, <4>2 DEF Below
      <3>6. SumFunctionOnSet(f, T \ {x}) = (balance * SumFunctionOnSet(qty, T \ {x})) \div total
        BY <1>3, <3>4
      <3>7. PICK before \in Nat : before = SumFunctionOnSet(qty, T \ {x})
        BY <1>1
      <3>8. SumFunctionOnSet(f, T) = f[x] + SumFunctionOnSet(f, T \ {x})
        BY <1>1, <1>2, FS_Subset, SumSplits DEF Numbers
      <3>9. SumFunctionOnSet(qty, T) = qty[x] + before
        BY <1>1, <3>7, SumSplits
      <3>10. PICK own \in Nat : own = qty[x]
        BY DEF Numbers
      <3>11. PICK a \in Int, b \in Int : /\ a = (balance * before) \div total
                                         /\ b = (balance * (before + own)) \div total
        <4>1. balance * before \in Nat /\ balance * (before + own) \in Nat
          OBVIOUS
        <4>2. \A n \in Nat : n \div total \in Int
          OBVIOUS
        <4> QED
          BY <4>1, <4>2
      <3>12. f[x] = b - a
        BY <3>5, <3>7, <3>10, <3>11 DEF Share
      <3>13. SumFunctionOnSet(f, T) = b
        BY <3>6, <3>7, <3>8, <3>11, <3>12
      <3>14. own + before = before + own
        OBVIOUS
      <3> QED
        BY <3>9, <3>10, <3>11, <3>13, <3>14
    <2> QED
      BY <2>1, <2>2
  <1>4. \A T \in SUBSET S : T \in Good
    <2> HIDE DEF Good
    <2> QED
      BY <1>1, <1>3, SubsetInduction
  <1> QED
    BY <1>4

\* What all lots get is the balance.
LEMMA SharesAddUp ==
  ASSUME NEW S, NEW rank, Numbers(rank, S), \A x \in S, y \in S : rank[x] = rank[y] => x = y,
         NEW qty, Numbers(qty, S), \A x \in S : qty[x] >= 0,
         NEW balance \in Nat, NEW total \in Nat, total > 0, total = SumFunctionOnSet(qty, S), NEW f,
         \A x \in S : f[x] = Share(balance, SumFunctionOnSet(qty, Below(S, rank, x)), qty[x], total)
  PROVE  SumFunctionOnSet(f, S) = balance
  <1>1. First(S, S, rank)
    BY DEF First
  <1>2. SumFunctionOnSet(f, S) = (balance * total) \div total
    <2>1. \A T \in SUBSET S : First(T, S, rank) =>
             SumFunctionOnSet(f, T) = (balance * SumFunctionOnSet(qty, T)) \div total
      BY SharesOfFirst
    <2> QED
      BY <1>1, <2>1
  <1>3. (balance * total) \div total = balance
    OBVIOUS
  <1> QED
    BY <1>2, <1>3

\* What lots have free or locked is spread in another way.
LEMMA LotsSpread ==
  ASSUME NEW t, Sound(t), NEW items \in [DOMAIN t.items -> Item], NEW C,
         \A i \in DOMAIN t.items :
            /\ items[i].coin = t.items[i].coin /\ items[i].qty = t.items[i].qty
            /\ t.items[i].coin \notin C => items[i] = t.items[i]
  PROVE  /\ Handles(t, [t EXCEPT !.items = items], C, {})
         /\ [t EXCEPT !.items = items].processed = t.processed
         /\ [t EXCEPT !.items = items].inv = t.inv
         /\ [t EXCEPT !.items = items].items = items
         /\ [t EXCEPT !.items = items].lots = t.lots
  <1>1. PICK u : u = [t EXCEPT !.items = items]
    OBVIOUS
  <1>2. u = Books(items, t.inv, t.lots, t.rows, t.processed)
    BY <1>1, FieldReplaced DEF Sound
  <1>3. /\ u.items = items /\ u.inv = t.inv /\ u.lots = t.lots /\ u.rows = t.rows
        /\ u.processed = t.processed
        /\ u = Books(u.items, u.inv, u.lots, u.rows, u.processed)
    BY <1>2, BooksHave
  <1>4. /\ \A c \in DOMAIN t.lots : Range(t.lots[c]) \subseteq DOMAIN t.items
        /\ Range(t.inv) \subseteq DOMAIN t.items
    BY ListHolds DEF Sound, Typed
  <1>5. Sound(u)
    BY <1>3, <1>4 DEF Sound, Typed
  <1>6. Touches(t, u, C, {})
    BY <1>3 DEF Touches
  <1>7. RowsFollow(t) => RowsFollow(u)
    BY <1>3, <1>4 DEF RowsFollow
  <1> QED
    BY <1>1, <1>3, <1>5, <1>6, <1>7 DEF Handles

\* A lot with its share is a lot.
LEMMA SyncedIs ==
  ASSUME NEW t, Typed(t), NEW list \in Seq(DOMAIN t.items), NEW i \in DOMAIN t.items,
         NEW balance \in Balance, Sum(t, "qty", LotsOf(t, list, t.items[i].coin)) > 0
  PROVE  LET before == Before(t, "qty", list, i)
             total == Sum(t, "qty", LotsOf(t, list, t.items[i].coin))
             lot == Synced(t, list, i, balance)
         IN  /\ lot \in Item /\ lot.coin = t.items[i].coin /\ lot.qty = t.items[i].qty
             /\ lot.free = Share(balance.free, before, t.items[i].qty, total)
             /\ lot.locked = Share(balance.locked, before, t.items[i].qty, total)
  <1>1. PICK x \in Item : x = t.items[i]
    BY DEF Typed
  <1>2. PICK before \in Nat : before = Before(t, "qty", list, i)
    BY LotsListed, LotsAmount DEF Before
  <1>3. PICK total \in Nat : total = Sum(t, "qty", LotsOf(t, list, t.items[i].coin)) /\ total > 0
    BY LotsListed, LotsAmount
  <1>4. x.qty \in Nat /\ balance.free \in Nat /\ balance.locked \in Nat
    BY DEF Item, Balance
  <1>5. PICK a \in Nat, b \in Nat : /\ a = Share(balance.free, before, x.qty, total)
                                    /\ b = Share(balance.locked, before, x.qty, total)
    BY <1>3, <1>4, ShareIsNat
  <1>6. PICK v : v = [x EXCEPT !.free = a, !.locked = b]
    OBVIOUS
  <1>7. v \in Item /\ v.coin = x.coin /\ v.qty = x.qty /\ v.free = a /\ v.locked = b
    BY <1>6 DEF Item
  <1>8. Synced(t, list, i, balance) = v
    BY <1>1, <1>2, <1>3, <1>5, <1>6 DEF Synced
  <1> QED
    BY <1>1, <1>2, <1>3, <1>5, <1>7, <1>8

\* A balances message touches the coins it is of.
LEMMA BalancesHandle ==
  ASSUME NEW t, Sound(t), NEW list \in Seq(DOMAIN t.items), NEW m, IsMessage(m)
  PROVE  LET u == handle_account_position(t, list, m)
         IN  /\ Handles(t, u, DOMAIN m, {}) /\ u.processed = t.processed /\ u.inv = t.inv
             /\ DOMAIN u.items = DOMAIN t.items /\ u.lots = t.lots
             /\ \A i \in DOMAIN t.items :
                 /\ u.items[i].coin = t.items[i].coin /\ u.items[i].qty = t.items[i].qty
                 /\ \/ /\ i \in Range(list) /\ t.items[i].coin \in DOMAIN m
                       /\ Sum(t, "qty", LotsOf(t, list, t.items[i].coin)) > 0
                       /\ u.items[i] = Synced(t, list, i, m[t.items[i].coin])
                    \/ /\ ~ (/\ i \in Range(list) /\ t.items[i].coin \in DOMAIN m
                             /\ Sum(t, "qty", LotsOf(t, list, t.items[i].coin)) > 0)
                       /\ u.items[i] = t.items[i]
  <1>1. PICK items : items = [i \in DOMAIN t.items |->
            IF /\ Is(list, i) /\ t.items[i].coin \in DOMAIN m
               /\ Sum(t, "qty", LotsOf(t, list, t.items[i].coin)) > 0
            THEN Synced(t, list, i, m[t.items[i].coin]) ELSE t.items[i]]
    OBVIOUS
  <1>2. handle_account_position(t, list, m) = [t EXCEPT !.items = items]
    BY <1>1 DEF handle_account_position
  <1>3. \A i : Is(list, i) <=> i \in Range(list)
    BY ListHolds
  <1>4. Typed(t)
    BY DEF Sound
  <1>5. ASSUME NEW i \in DOMAIN t.items
        PROVE  /\ items[i] \in Item /\ items[i].coin = t.items[i].coin
               /\ items[i].qty = t.items[i].qty
               /\ \/ /\ i \in Range(list) /\ t.items[i].coin \in DOMAIN m
                     /\ Sum(t, "qty", LotsOf(t, list, t.items[i].coin)) > 0
                     /\ items[i] = Synced(t, list, i, m[t.items[i].coin])
                  \/ /\ ~ (/\ i \in Range(list) /\ t.items[i].coin \in DOMAIN m
                           /\ Sum(t, "qty", LotsOf(t, list, t.items[i].coin)) > 0)
                     /\ items[i] = t.items[i]
    <2>1. t.items[i] \in Item
      BY <1>4 DEF Typed
    <2>2. PICK q : q = Sum(t, "qty", LotsOf(t, list, t.items[i].coin))
      OBVIOUS
    <2>3. CASE i \in Range(list) /\ t.items[i].coin \in DOMAIN m /\ q > 0
      <3>1. PICK balance \in Balance : balance = m[t.items[i].coin]
        BY <2>3 DEF IsMessage
      <3>2. items[i] = Synced(t, list, i, balance)
        BY <1>1, <1>3, <2>2, <2>3, <3>1
      <3> QED
        BY <1>4, <2>2, <2>3, <3>1, <3>2, SyncedIs
    <2>4. CASE ~ (i \in Range(list) /\ t.items[i].coin \in DOMAIN m /\ q > 0)
      <3>1. items[i] = t.items[i]
        BY <1>1, <1>3, <2>2, <2>4
      <3> QED
        BY <2>1, <2>2, <2>4, <3>1
    <2> QED
      BY <2>3, <2>4
  <1>6. items \in [DOMAIN t.items -> Item] /\ DOMAIN items = DOMAIN t.items
    BY <1>1, <1>5
  <1>7. \A i \in DOMAIN t.items : t.items[i].coin \notin DOMAIN m => items[i] = t.items[i]
    BY <1>5
  <1> QED
    BY <1>2, <1>5, <1>6, <1>7, LotsSpread

\* After a balances message, the lots of a coin in the list add up to its balance.
LEMMA BalancesAddUp ==
  ASSUME NEW t, Sound(t), NEW list \in Seq(DOMAIN t.items), NEW m, IsMessage(m),
         NEW c \in DOMAIN m, Sum(t, "qty", LotsOf(t, list, c)) > 0,
         NEW field \in {"free", "locked"}
  PROVE  LET u == handle_account_position(t, list, m)
         IN  Sum(u, field, LotsOf(u, list, c)) = m[c][field]
  <1>1. PICK u : u = handle_account_position(t, list, m)
    OBVIOUS
  <1>2. PICK S : S = LotsOf(t, list, c)
    OBVIOUS
  <1>3. Typed(t) /\ S \in SUBSET DOMAIN t.items /\ IsFiniteSet(S)
    BY <1>2, LotsListed DEF Sound
  <1>4. Range(list) \subseteq DOMAIN t.items
    BY ListHolds
  <1>5. \A i \in Range(list) : u.items[i].coin = t.items[i].coin
    BY <1>1, <1>4, BalancesHandle
  <1>6. LotsOf(u, list, c) = S
    BY <1>2, <1>5 DEF LotsOf
  <1>7. PICK rank : rank = [i \in S |-> Rank(list, i)]
    OBVIOUS
  <1>8. \A i \in S : rank[i] \in Int /\ rank[i] \in DOMAIN list /\ list[rank[i]] = i
    BY <1>2, <1>7, ListHolds DEF LotsOf
  <1>9. Numbers(rank, S) /\ \A x \in S, y \in S : rank[x] = rank[y] => x = y
    BY <1>3, <1>8 DEF Numbers
  <1>10. PICK qty : qty = [i \in S |-> t.items[i].qty]
    OBVIOUS
  <1>11. Numbers(qty, S) /\ \A x \in S : qty[x] >= 0
    <2>1. \A x \in S : t.items[x].qty \in Nat
      BY <1>3 DEF Typed, Item
    <2> QED
      BY <1>3, <1>10, <2>1 DEF Numbers
  <1>12. PICK total \in Nat : total = SumFunctionOnSet(qty, S) /\ total > 0
    BY <1>2, <1>10, <1>11, SumIsNat DEF Sum
  <1>13. PICK balance \in Nat : balance = m[c][field]
    BY DEF IsMessage, Balance
  <1>14. PICK f : f = [i \in S |-> u.items[i][field]]
    OBVIOUS
  <1>15. ASSUME NEW x \in S
         PROVE  f[x] = Share(balance, SumFunctionOnSet(qty, Below(S, rank, x)), qty[x], total)
    <2>1. x \in DOMAIN t.items /\ x \in Range(list) /\ t.items[x].coin = c
      BY <1>2, <1>3 DEF LotsOf
    <2>2. u.items[x] = Synced(t, list, x, m[c])
      BY <1>1, <2>1, BalancesHandle
    <2>3. m[c] \in Balance
      BY DEF IsMessage
    <2>4. f[x] = Share(balance, Before(t, "qty", list, x), t.items[x].qty,
                       Sum(t, "qty", LotsOf(t, list, c)))
      BY <1>3, <1>13, <1>14, <2>1, <2>2, <2>3, SyncedIs
    <2>5. Earlier(t, list, x) = Below(S, rank, x)
      BY <1>2, <1>7, <2>1 DEF Earlier, Below
    <2>6. PICK T \in SUBSET S : T = Below(S, rank, x)
      BY DEF Below
    <2>7. Before(t, "qty", list, x) = SumFunctionOnSet(qty, T)
      <3>1. PICK g : g = [i \in T |-> t.items[i].qty]
        OBVIOUS
      <3>2. Numbers(g, T) /\ \A i \in T : g[i] = qty[i]
        BY <1>3, <1>10, <1>11, <3>1, FS_Subset DEF Numbers
      <3>3. SumFunctionOnSet(g, T) = SumFunctionOnSet(qty, T)
        BY <3>2, SumCongruent
      <3> QED
        BY <2>5, <2>6, <3>1, <3>3 DEF Before, Sum
    <2>8. Sum(t, "qty", LotsOf(t, list, c)) = total /\ t.items[x].qty = qty[x]
      BY <1>2, <1>10, <1>12 DEF Sum
    <2> QED
      BY <2>4, <2>6, <2>7, <2>8
  <1>16. SumFunctionOnSet(f, S) = balance
    BY <1>9, <1>11, <1>12, <1>15, SharesAddUp
  <1>17. Sum(u, field, LotsOf(u, list, c)) = m[c][field]
    BY <1>6, <1>13, <1>14, <1>16 DEF Sum
  <1> QED
    BY <1>1, <1>17

\* The lots of a list, by coin.
LEMMA ByCoinIs ==
  ASSUME NEW D, NEW items \in [D -> Item], NEW list \in Seq(D)
  PROVE  LET lots == ByCoin(items, list)
         IN  /\ lots \in [DOMAIN lots -> Seq(D)] /\ DOMAIN lots \subseteq Coins
             /\ \A c \in DOMAIN lots : \A i \in Range(lots[c]) : items[i].coin = c
             /\ \A i \in Range(list) : items[i].coin \in DOMAIN lots
  <1>1. PICK coins : coins = {items[list[k]].coin : k \in DOMAIN list}
    OBVIOUS
  <1>2. coins \subseteq Coins
    BY <1>1 DEF Item
  <1> DEFINE At(c) == {k \in DOMAIN list : items[list[k]].coin = c}
  <1>3. ASSUME NEW c \in coins
        PROVE  /\ Kept(list, At(c)) \in Seq(D)
               /\ \A i \in Range(Kept(list, At(c))) : items[i].coin = c
    <2>1. At(c) \in SUBSET DOMAIN list /\ \A k \in At(c) : items[list[k]].coin = c
      OBVIOUS
    <2> HIDE DEF At
    <2>2. /\ Kept(list, At(c)) \in Seq(D)
          /\ \A n \in DOMAIN Kept(list, At(c)) : \E k \in At(c) : Kept(list, At(c))[n] = list[k]
      BY <2>1, KeptIsList
    <2> QED
      BY <2>1, <2>2 DEF Range
  <1>4. ByCoin(items, list) = [c \in coins |-> Kept(list, At(c))]
    BY <1>1 DEF ByCoin
  <1> HIDE DEF At
  <1>5. PICK lots : lots = ByCoin(items, list)
    OBVIOUS
  <1>6. DOMAIN lots = coins /\ lots \in [coins -> Seq(D)]
    BY <1>3, <1>4, <1>5
  <1>7. \A c \in coins : \A i \in Range(lots[c]) : items[i].coin = c
    BY <1>3, <1>4, <1>5
  <1>8. \A i \in Range(list) : items[i].coin \in coins
    BY <1>1 DEF Range
  <1> QED
    BY <1>2, <1>5, <1>6, <1>7, <1>8

\* The screen takes another list over.
LEMMA InventorySet ==
  ASSUME NEW t, Sound(t), NEW list \in Seq(DOMAIN t.items), IsInjective(list)
  PROVE  LET u == set_inventory(t, list)
         IN  /\ Sound(u) /\ u.inv = list /\ u.items = t.items /\ u.rows = t.rows
             /\ u.processed = t.processed
             /\ \A i \in Range(list) : t.items[i].coin \in DOMAIN u.lots
  <1>1. PICK lots : lots = ByCoin(t.items, list)
    OBVIOUS
  <1>2. /\ lots \in [DOMAIN lots -> Seq(DOMAIN t.items)] /\ DOMAIN lots \subseteq Coins
        /\ \A c \in DOMAIN lots : \A i \in Range(lots[c]) : t.items[i].coin = c
        /\ \A i \in Range(list) : t.items[i].coin \in DOMAIN lots
    <2>1. PICK D : D = DOMAIN t.items
      OBVIOUS
    <2>2. PICK items : items = t.items
      OBVIOUS
    <2>3. items \in [D -> Item] /\ list \in Seq(D)
      BY <2>1, <2>2 DEF Sound, Typed
    <2>4. lots = ByCoin(items, list)
      BY <1>1, <2>2
    <2> QED
      BY <2>1, <2>2, <2>3, <2>4, ByCoinIs
  <1>3. PICK u : u = set_inventory(t, list)
    OBVIOUS
  <1>4. u = Books(t.items, list, lots, t.rows, t.processed)
    BY <1>1, <1>3 DEF set_inventory, Sound, Typed, Books
  <1>5. /\ u.items = t.items /\ u.inv = list /\ u.lots = lots /\ u.rows = t.rows
        /\ u.processed = t.processed
        /\ u = Books(u.items, u.inv, u.lots, u.rows, u.processed)
    BY <1>4, BooksHave
  <1>6. Sound(u)
    BY <1>2, <1>5 DEF Sound, Typed
  <1> QED
    BY <1>2, <1>3, <1>5, <1>6

\* Amounts of a coin's lots are locked or freed.
LEMMA ShiftHandles ==
  ASSUME NEW t, Sound(t), NEW c, NEW amount \in Nat, NEW from, NEW to,
         <<from, to>> \in {<<"free", "locked">>, <<"locked", "free">>}
  PROVE  LET u == Shift(t, c, amount, from, to)
         IN  Handles(t, u, {c}, {}) /\ u.processed = t.processed /\ u.lots = t.lots
  <1>1. Typed(t) /\ t.inv \in Seq(DOMAIN t.items) /\ from \in {"qty", "free", "locked"}
    BY DEF Sound, Typed
  <1> DEFINE Part(i) == Least(Monus(amount, Before(t, from, t.inv, i)), t.items[i][from])
  <1>2. ASSUME NEW i \in DOMAIN t.items
        PROVE  Part(i) \in Nat /\ Part(i) <= t.items[i][from]
    <2>1. PICK before \in Nat : before = Before(t, from, t.inv, i)
      BY <1>1, LotsListed, LotsAmount DEF Before
    <2>2. PICK has \in Nat : has = t.items[i][from]
      BY DEF Sound, Typed, Item
    <2>3. Least(Monus(amount, before), has) \in Nat /\ Least(Monus(amount, before), has) <= has
      BY DEF Least, Monus
    <2> QED
      BY <2>1, <2>2, <2>3
  <1>3. PICK items : items = [i \in DOMAIN t.items |->
            IF i \in LotsOf(t, t.inv, c)
            THEN [t.items[i] EXCEPT ![from] = t.items[i][from] - Part(i),
                                    ![to] = t.items[i][to] + Part(i)] ELSE t.items[i]]
    OBVIOUS
  <1>4. Shift(t, c, amount, from, to) = [t EXCEPT !.items = items]
    BY <1>3 DEF Shift
  <1>5. ASSUME NEW i \in DOMAIN t.items
        PROVE  /\ items[i] \in Item /\ items[i].coin = t.items[i].coin
               /\ items[i].qty = t.items[i].qty
               /\ t.items[i].coin # c => items[i] = t.items[i]
    <2>1. PICK x \in Item : x = t.items[i]
      BY <1>1 DEF Typed
    <2>2. CASE i \in LotsOf(t, t.inv, c)
      <3>1. PICK part \in Nat : part = Part(i) /\ part <= t.items[i][from]
        BY <1>2
      <3> HIDE DEF Part
      <3>2. items[i] = [x EXCEPT ![from] = x[from] - part, ![to] = x[to] + part]
        BY <1>3, <2>1, <2>2, <3>1
      <3>3. x.free \in Nat /\ x.locked \in Nat
        BY DEF Item
      <3>4. PICK a \in Nat, b \in Nat :
               /\ a = IF from = "free" THEN x.free - part ELSE x.free + part
               /\ b = IF from = "free" THEN x.locked + part ELSE x.locked - part
        <4>1. CASE from = "free"
          BY <2>1, <3>1, <3>3, <4>1
        <4>2. CASE from = "locked"
          <5>1. from # "free" /\ x.free + part \in Nat /\ x.locked - part \in Nat
            BY <2>1, <3>1, <3>3, <4>2
          <5> QED
            BY <5>1
        <4>3. from = "free" \/ from = "locked"
          OBVIOUS
        <4> QED
          BY <4>1, <4>2, <4>3
      <3>5. items[i] = [x EXCEPT !.free = a, !.locked = b]
        BY <3>2, <3>3, <3>4 DEF Item
      <3>6. PICK v : v = [x EXCEPT !.free = a, !.locked = b]
        OBVIOUS
      <3>7. v \in Item /\ v.coin = x.coin /\ v.qty = x.qty
        BY <3>6 DEF Item
      <3>8. t.items[i].coin = c
        BY <2>2 DEF LotsOf
      <3> QED
        BY <2>1, <3>5, <3>6, <3>7, <3>8
    <2>3. CASE i \notin LotsOf(t, t.inv, c)
      <3>1. items[i] = x
        BY <1>3, <2>1, <2>3
      <3> QED
        BY <2>1, <3>1
    <2> QED
      BY <2>2, <2>3
  <1>6. items \in [DOMAIN t.items -> Item]
    BY <1>3, <1>5
  <1> QED
    BY <1>4, <1>5, <1>6, LotsSpread

\* HP_SELL_POSITION_CREATED, HP_BUY_ORDERS_PLACED and HP_POSITION_CANCELLED.
LEMMA LocksHandle ==
  ASSUME NEW t, Sound(t), NEW c, NEW amount \in Nat
  PROVE  /\ Handles(t, Lock(t, c, amount), {c}, {}) /\ Lock(t, c, amount).processed = t.processed
         /\ Handles(t, handle_hp_position_cancelled(t, c, amount), {c}, {})
         /\ handle_hp_position_cancelled(t, c, amount).processed = t.processed
         /\ Lock(t, c, amount).lots = t.lots
         /\ handle_hp_position_cancelled(t, c, amount).lots = t.lots
  <1>1. ASSUME NEW from, NEW to, <<from, to>> \in {<<"free", "locked">>, <<"locked", "free">>}
        PROVE  /\ Handles(t, Shift(t, c, amount, from, to), {c}, {})
               /\ Shift(t, c, amount, from, to).processed = t.processed
               /\ Shift(t, c, amount, from, to).lots = t.lots
    BY <1>1, ShiftHandles
  <1>2. /\ Handles(t, Shift(t, c, amount, "free", "locked"), {c}, {})
        /\ Shift(t, c, amount, "free", "locked").processed = t.processed
        /\ Handles(t, Shift(t, c, amount, "locked", "free"), {c}, {})
        /\ Shift(t, c, amount, "locked", "free").processed = t.processed
        /\ Shift(t, c, amount, "free", "locked").lots = t.lots
        /\ Shift(t, c, amount, "locked", "free").lots = t.lots
    BY <1>1
  <1>3. Handles(t, t, {c}, {})
    BY HandlesNothing
  <1> QED
    BY <1>2, <1>3 DEF Lock, handle_hp_position_cancelled

(***************************************************************************)
(* Sells and their proceeds                                                *)
(***************************************************************************)

\* Lots of a coin leave the lists and the table.
LEMMA LotsLeave ==
  ASSUME NEW t, Sound(t), NEW v, v = Books(v.items, v.inv, v.lots, v.rows, v.processed),
         v.items = t.items, v.rows = t.rows, v.processed = t.processed,
         NEW c, NEW gone, \A i \in gone : i \in DOMAIN t.items /\ t.items[i].coin = c,
         v.inv \in Seq(DOMAIN t.items), IsInjective(v.inv), Range(v.inv) = Range(t.inv) \ gone,
         v.lots \in [DOMAIN v.lots -> Seq(DOMAIN t.items)], DOMAIN v.lots \subseteq Coins,
         \A d \in DOMAIN v.lots : \A i \in Range(v.lots[d]) : t.items[i].coin = d
  PROVE  LET u == delete_inventory_items(v, gone)
         IN  /\ Handles(t, u, {c}, {}) /\ u.items = t.items /\ u.processed = t.processed
             /\ u.lots = v.lots
  <1>2. PICK rows : rows = [i \in DOMAIN t.rows \ gone |-> t.rows[i]]
    OBVIOUS
  <1>3. PICK u : u = delete_inventory_items(v, gone)
    OBVIOUS
  <1>4. u = Books(t.items, v.inv, v.lots, rows, t.processed)
    <2>1. u = [v EXCEPT !.rows = rows]
      BY <1>2, <1>3 DEF delete_inventory_items
    <2> QED
      BY <2>1 DEF Books
  <1>5. /\ u.items = t.items /\ u.inv = v.inv /\ u.lots = v.lots /\ u.rows = rows
        /\ u.processed = t.processed
        /\ u = Books(u.items, u.inv, u.lots, u.rows, u.processed)
    BY <1>4, BooksHave
  <1>6. rows \in [DOMAIN rows -> Row] /\ DOMAIN rows = DOMAIN t.rows \ gone
    BY <1>2 DEF Sound, Typed
  <1>7. Sound(u)
    BY <1>2, <1>5, <1>6 DEF Sound, Typed
  <1>8. Touches(t, u, {c}, {})
    BY <1>5 DEF Touches
  <1>9. RowsFollow(t) => RowsFollow(u)
    BY <1>2, <1>5, <1>6 DEF RowsFollow
  <1> QED
    BY <1>3, <1>5, <1>7, <1>8, <1>9 DEF Handles

\* What is left to sell when a lot's turn comes.
LEMMA RestIs ==
  ASSUME NEW t, Typed(t), NEW list \in Seq(DOMAIN t.items), NEW amount \in Nat,
         NEW k \in DOMAIN list
  PROVE  Size(t, list, k) \in Nat /\ Rest(t, list, amount, k) \in Nat
  <1>1. IsFiniteSet(DOMAIN list) /\ \A l \in DOMAIN list : Size(t, list, l) \in Nat
    <2>1. DOMAIN list = 1 .. Len(list) /\ Len(list) \in Nat
      OBVIOUS
    <2>2. \A l \in DOMAIN list : list[l] \in DOMAIN t.items
      OBVIOUS
    <2>3. IsFiniteSet(1 .. Len(list))
      BY <2>1, FS_Interval
    <2>4. \A i \in DOMAIN t.items : t.items[i].qty \in Nat
      BY DEF Typed, Item
    <2> QED
      BY <2>1, <2>2, <2>3, <2>4 DEF Size
  <1>2. PICK f : f = [l \in Cheaper(list, k) |-> Size(t, list, l)]
    OBVIOUS
  <1>3. Cheaper(list, k) \in SUBSET DOMAIN list /\ IsFiniteSet(Cheaper(list, k))
    <2>1. Cheaper(list, k) \in SUBSET DOMAIN list
      BY DEF Cheaper
    <2> QED
      BY <1>1, <2>1, FS_Subset
  <1>4. Numbers(f, Cheaper(list, k)) /\ \A l \in Cheaper(list, k) : f[l] >= 0
    BY <1>1, <1>2, <1>3 DEF Numbers
  <1>5. SumFunctionOnSet(f, Cheaper(list, k)) \in Nat
    BY <1>4, SumIsNat
  <1> QED
    BY <1>1, <1>2, <1>5 DEF Rest, Monus

\* Lots of a coin are sold, from the cheapest on.
LEMMA SellHandles ==
  ASSUME NEW t, Sound(t), NEW c, NEW amount \in Nat
  PROVE  LET u == _update_lots_after_sell(t, c, amount)
         IN  /\ Handles(t, u, {c}, {}) /\ u.processed = t.processed
             /\ DOMAIN u.lots = DOMAIN t.lots
  <1>1. CASE c \notin DOMAIN t.lots
    BY <1>1, HandlesNothing DEF _update_lots_after_sell
  <1>2. CASE c \in DOMAIN t.lots
    <2>1. PICK list \in Seq(DOMAIN t.items) : list = t.lots[c]
      BY <1>2 DEF Sound, Typed
    <2>2. PICK whole \in SUBSET DOMAIN list : whole = SoldWholly(t, list, amount)
      BY DEF SoldWholly
    <2>3. PICK gone : gone = {list[k] : k \in whole}
      OBVIOUS
    <2>4. \A k \in DOMAIN list : list[k] \in DOMAIN t.items /\ t.items[list[k]].coin = c
      BY <1>2, <2>1 DEF Sound, Range
    <2>5. \A i \in gone : i \in DOMAIN t.items /\ t.items[i].coin = c
      BY <2>3, <2>4
    <2>6. PICK ks \in SUBSET DOMAIN t.inv : ks = {k \in DOMAIN t.inv : t.inv[k] \notin gone}
      OBVIOUS
    <2>7. PICK inv : inv = Kept(t.inv, ks)
      OBVIOUS
    <2>8. /\ inv \in Seq(DOMAIN t.items) /\ IsInjective(inv)
          /\ \A k \in ks : t.inv[k] \in Range(inv)
          /\ \A n \in DOMAIN inv : \E k \in ks : inv[n] = t.inv[k]
      BY <2>7, KeptIsList DEF Sound, Typed
    <2>9. Range(inv) = Range(t.inv) \ gone
      BY <2>6, <2>8 DEF Range
    <2>10. PICK rest : rest = Kept(list, DOMAIN list \ whole)
      OBVIOUS
    <2>11. rest \in Seq(DOMAIN t.items) /\ \A i \in Range(rest) : t.items[i].coin = c
      <3>1. PICK ls \in SUBSET DOMAIN list : ls = DOMAIN list \ whole
        OBVIOUS
      <3>2. rest = Kept(list, ls)
        BY <2>10, <3>1
      <3>3. /\ rest \in Seq(DOMAIN t.items)
            /\ \A n \in DOMAIN rest : \E k \in ls : rest[n] = list[k]
        BY <3>2, KeptIsList
      <3> QED
        BY <2>4, <3>3 DEF Range
    <2>12. PICK lots : lots = [t.lots EXCEPT ![c] = rest]
      OBVIOUS
    <2>13. /\ lots \in [DOMAIN lots -> Seq(DOMAIN t.items)] /\ DOMAIN lots \subseteq Coins
           /\ \A d \in DOMAIN lots : \A i \in Range(lots[d]) : t.items[i].coin = d
      <3>1. /\ DOMAIN lots = DOMAIN t.lots /\ lots[c] = rest
            /\ \A d \in DOMAIN t.lots : d # c => lots[d] = t.lots[d]
            /\ lots = [d \in DOMAIN lots |-> lots[d]]
        BY <1>2, <2>12 DEF Sound, Typed
      <3> QED
        BY <2>11, <3>1 DEF Sound, Typed
    <2>14. PICK v : v = Books(t.items, inv, lots, t.rows, t.processed)
      OBVIOUS
    <2>15. PICK left : left = delete_inventory_items(v, gone)
      OBVIOUS
    <2>16. /\ Handles(t, left, {c}, {}) /\ left.items = t.items /\ left.processed = t.processed
           /\ DOMAIN left.lots = DOMAIN t.lots
      <3>1. /\ v.items = t.items /\ v.inv = inv /\ v.lots = lots /\ v.rows = t.rows
            /\ v.processed = t.processed
            /\ v = Books(v.items, v.inv, v.lots, v.rows, v.processed)
        BY <2>14, BooksHave
      <3>2. /\ v.inv \in Seq(DOMAIN t.items) /\ IsInjective(v.inv)
            /\ Range(v.inv) = Range(t.inv) \ gone
            /\ v.lots \in [DOMAIN v.lots -> Seq(DOMAIN t.items)] /\ DOMAIN v.lots \subseteq Coins
            /\ \A d \in DOMAIN v.lots : \A i \in Range(v.lots[d]) : t.items[i].coin = d
        BY <2>8, <2>9, <2>13, <3>1
      <3>3. /\ v.items = t.items /\ v.rows = t.rows /\ v.processed = t.processed
            /\ v = Books(v.items, v.inv, v.lots, v.rows, v.processed)
        BY <3>1
      <3>4. Handles(t, delete_inventory_items(v, gone), {c}, {})
        BY <2>5, <3>2, <3>3, LotsLeave
      <3>5. left.items = t.items /\ left.processed = t.processed
        BY <2>14, <2>15 DEF delete_inventory_items, Books
      <3>6. left.lots = lots
        BY <2>14, <2>15 DEF delete_inventory_items, Books
      <3>7. DOMAIN lots = DOMAIN t.lots
        BY <2>12
      <3> QED
        BY <2>15, <3>4, <3>5, <3>6, <3>7
    <2>17. [t EXCEPT !.inv = Kept(@, {k \in DOMAIN @ : @[k] \notin gone}),
                     !.lots[c] = Kept(@, DOMAIN @ \ whole)] = v
      <3>1. [t EXCEPT !.inv = inv, !.lots[c] = rest]
              = [[t EXCEPT !.inv = inv] EXCEPT !.lots = [t.lots EXCEPT ![c] = rest]]
        BY DEF Sound, Typed, Books
      <3>2. [[t EXCEPT !.inv = inv] EXCEPT !.lots = lots] = v
        <4>1. PICK w : w = [t EXCEPT !.inv = inv]
          OBVIOUS
        <4>2. w = Books(t.items, inv, t.lots, t.rows, t.processed)
          BY <4>1, FieldReplaced DEF Sound
        <4>3. [w EXCEPT !.lots = lots] = Books(t.items, inv, lots, t.rows, t.processed)
          BY <4>2 DEF Books
        <4> QED
          BY <2>14, <4>1, <4>3
      <3>3. [t EXCEPT !.inv = inv, !.lots[c] = rest] = v
        BY <2>12, <3>1, <3>2
      <3> QED
        BY <2>1, <2>6, <2>7, <2>10, <3>3
    <2> DEFINE u == _update_lots_after_sell(t, c, amount)
    <2>18. CASE SoldPartly(t, list, amount) = {}
      <3>1. u = left
        BY <1>2, <2>1, <2>2, <2>3, <2>15, <2>17, <2>18 DEF _update_lots_after_sell
      <3> QED
        BY <2>16, <3>1
    <2>19. CASE SoldPartly(t, list, amount) # {}
      <3>1. PICK k \in SoldPartly(t, list, amount) :
               k = CHOOSE l \in SoldPartly(t, list, amount) : TRUE
        BY <2>19
      <3>2. PICK i \in DOMAIN t.items : i = list[k] /\ t.items[i].coin = c
        BY <2>4 DEF SoldPartly
      <3>3. PICK n : n = Rest(t, list, amount, k)
        OBVIOUS
      <3>4. PICK x \in Item : x = t.items[i]
        BY DEF Sound, Typed
      <3>5. n \in Nat /\ x.qty > n /\ x.qty \in Nat /\ x.locked \in Nat
        BY <3>2, <3>3, <3>4, RestIs DEF SoldPartly, Size, Sound, Item
      <3>6. PICK a \in Nat, b \in Nat : a = x.qty - n /\ b = Monus(x.locked, n)
        BY <3>5 DEF Monus
      <3>7. PICK y : y = [x EXCEPT !.qty = a, !.free = a, !.locked = b]
        OBVIOUS
      <3>8. y \in Item /\ y.coin = c
        BY <3>2, <3>4, <3>7 DEF Item
      <3>9. Reduced(t.items[i], n) = y
        BY <3>4, <3>6, <3>7 DEF Reduced
      <3>10. u = update_inventory_item(LotIs(left, i, y), i)
        BY <1>2, <2>1, <2>2, <2>3, <2>15, <2>17, <2>19, <3>1, <3>2, <3>3, <3>9
        DEF _update_lots_after_sell
      <3> HIDE DEF u
      <3>11. Handles(left, u, {c}, {}) /\ u.processed = left.processed /\ u.lots = left.lots
        <4>1. Sound(left) /\ i \in DOMAIN left.items /\ y.coin = left.items[i].coin
          BY <2>16, <3>2, <3>8 DEF Handles
        <4> QED
          BY <3>8, <3>10, <4>1, LotChanges
      <3>12. Handles(t, u, {c} \cup {c}, {} \cup {})
        BY <2>16, <3>11, HandlesOn
      <3> QED
        BY <2>16, <3>11, <3>12 DEF u
    <2> QED
      BY <2>18, <2>19
  <1> QED
    BY <1>1, <1>2

\* A lot is sold as a whole.
LEMMA WholeHandles ==
  ASSUME NEW t, Sound(t), NEW c \in DOMAIN t.lots, NEW i \in Range(t.lots[c]), i \in Range(t.inv)
  PROVE  /\ Handles(t, SoldWhole(t, c, i), {c}, {})
         /\ SoldWhole(t, c, i).processed = t.processed
         /\ DOMAIN SoldWhole(t, c, i).lots = DOMAIN t.lots
  <1>1. t.inv \in Seq(DOMAIN t.items) /\ t.lots[c] \in Seq(DOMAIN t.items)
    BY DEF Sound, Typed
  <1>2. i \in DOMAIN t.items /\ t.items[i].coin = c
    <2>1. i \in DOMAIN t.items
      BY <1>1, ListHolds
    <2> QED
      BY <2>1 DEF Sound
  <1>3. PICK inv : inv = Without(t.inv, i)
    OBVIOUS
  <1>4. inv \in Seq(DOMAIN t.items) /\ IsInjective(inv) /\ Range(inv) = Range(t.inv) \ {i}
    BY <1>1, <1>3, WithoutIsList DEF Sound
  <1>5. PICK rest : rest = Without(t.lots[c], i)
    OBVIOUS
  <1>6. rest \in Seq(DOMAIN t.items) /\ Range(rest) \subseteq Range(t.lots[c])
    BY <1>1, <1>5, WithoutIsList
  <1>7. PICK lots : lots = [t.lots EXCEPT ![c] = rest]
    OBVIOUS
  <1>8. /\ lots \in [DOMAIN lots -> Seq(DOMAIN t.items)] /\ DOMAIN lots \subseteq Coins
        /\ \A d \in DOMAIN lots : \A j \in Range(lots[d]) : t.items[j].coin = d
        /\ DOMAIN lots = DOMAIN t.lots
    <2>1. /\ DOMAIN lots = DOMAIN t.lots /\ lots[c] = rest
          /\ \A d \in DOMAIN t.lots : d # c => lots[d] = t.lots[d]
          /\ lots = [d \in DOMAIN lots |-> lots[d]]
      BY <1>7 DEF Sound, Typed
    <2> QED
      BY <1>6, <2>1 DEF Sound, Typed
  <1>9. PICK v : v = Books(t.items, inv, lots, t.rows, t.processed)
    OBVIOUS
  <1>10. [t EXCEPT !.lots[c] = rest, !.inv = inv] = v
    <2>1. [t EXCEPT !.lots[c] = rest, !.inv = inv]
            = [[t EXCEPT !.lots = [t.lots EXCEPT ![c] = rest]] EXCEPT !.inv = inv]
      BY DEF Sound, Typed, Books
    <2>2. PICK w : w = [t EXCEPT !.lots = lots]
      OBVIOUS
    <2>3. w = Books(t.items, t.inv, lots, t.rows, t.processed)
      BY <2>2, FieldReplaced DEF Sound
    <2>4. [w EXCEPT !.inv = inv] = Books(t.items, inv, lots, t.rows, t.processed)
      BY <2>3 DEF Books
    <2> QED
      BY <1>7, <1>9, <2>1, <2>2, <2>4
  <1>11. PICK gone : gone = {i}
    OBVIOUS
  <1>12. SoldWhole(t, c, i) = delete_inventory_items(v, gone)
    BY <1>3, <1>5, <1>10, <1>11 DEF SoldWhole
  <1>13. /\ v.items = t.items /\ v.inv = inv /\ v.lots = lots /\ v.rows = t.rows
         /\ v.processed = t.processed
         /\ v = Books(v.items, v.inv, v.lots, v.rows, v.processed)
    BY <1>9, BooksHave
  <1>14. Handles(t, delete_inventory_items(v, gone), {c}, {})
    <2>1. /\ v.inv \in Seq(DOMAIN t.items) /\ IsInjective(v.inv)
          /\ Range(v.inv) = Range(t.inv) \ gone
          /\ v.lots \in [DOMAIN v.lots -> Seq(DOMAIN t.items)] /\ DOMAIN v.lots \subseteq Coins
          /\ \A d \in DOMAIN v.lots : \A j \in Range(v.lots[d]) : t.items[j].coin = d
      BY <1>4, <1>8, <1>11, <1>13
    <2>2. /\ v.items = t.items /\ v.rows = t.rows /\ v.processed = t.processed
          /\ v = Books(v.items, v.inv, v.lots, v.rows, v.processed)
      BY <1>13
    <2>3. \A j \in gone : j \in DOMAIN t.items /\ t.items[j].coin = c
      BY <1>2, <1>11
    <2> QED
      BY <2>1, <2>2, <2>3, LotsLeave
  <1>15. /\ delete_inventory_items(v, gone).processed = t.processed
         /\ delete_inventory_items(v, gone).lots = lots
    BY <1>9 DEF delete_inventory_items, Books
  <1> QED
    BY <1>8, <1>12, <1>14, <1>15

\* A part of a lot is sold.
LEMMA PartHandles ==
  ASSUME NEW t, Sound(t), NEW i \in DOMAIN t.items, NEW amount \in Nat, t.items[i].qty > amount
  PROVE  /\ Handles(t, SoldPart(t, i, amount), {t.items[i].coin}, {})
         /\ SoldPart(t, i, amount).processed = t.processed
         /\ SoldPart(t, i, amount).lots = t.lots
  <1>1. PICK x \in Item : x = t.items[i]
    BY DEF Sound, Typed
  <1>2. PICK left \in Nat : left = x.qty - amount
    BY <1>1 DEF Item
  <1>3. PICK v : v = [x EXCEPT !.qty = left, !.free = left]
    OBVIOUS
  <1>4. v \in Item /\ v.coin = t.items[i].coin
    BY <1>1, <1>3 DEF Item
  <1>5. SoldPart(t, i, amount) = update_inventory_item(LotIs(t, i, v), i)
    BY <1>1, <1>2, <1>3 DEF SoldPart
  <1>6. PICK u : u = LotIs(t, i, v)
    OBVIOUS
  <1>7. u = Books([t.items EXCEPT ![i] = v], t.inv, t.lots, t.rows, t.processed)
    BY <1>6, LotReplaced DEF Sound
  <1>8. update_inventory_item(u, i).lots = t.lots
    BY <1>7 DEF update_inventory_item, Books
  <1> QED
    BY <1>4, <1>5, <1>6, <1>8, LotChanges

\* A coin without lots is listed no more.
LEMMA EmptyHandles ==
  ASSUME NEW t, Sound(t), NEW c
  PROVE  /\ \A C, N : Handles(t, WithoutEmpty(t, c), C, N)
         /\ WithoutEmpty(t, c).processed = t.processed
         /\ DOMAIN t.lots \ {c} \subseteq DOMAIN WithoutEmpty(t, c).lots
  <1>1. PICK lots : lots = [d \in DOMAIN t.lots \ {c} |-> t.lots[d]]
    OBVIOUS
  <1>2. /\ lots \in [DOMAIN lots -> Seq(DOMAIN t.items)] /\ DOMAIN lots \subseteq Coins
        /\ \A d \in DOMAIN lots : \A j \in Range(lots[d]) : t.items[j].coin = d
    BY <1>1 DEF Sound, Typed
  <1>3. WithoutEmpty(t, c) \in {t, [t EXCEPT !.lots = lots]}
    BY <1>1 DEF WithoutEmpty
  <1>4. \A C, N : Handles(t, t, C, N)
    BY HandlesNothing
  <1>5. /\ \A C, N : Handles(t, [t EXCEPT !.lots = lots], C, N)
        /\ [t EXCEPT !.lots = lots].processed = t.processed
        /\ [t EXCEPT !.lots = lots].lots = lots
    BY <1>2, LotsRelisted
  <1>6. DOMAIN lots = DOMAIN t.lots \ {c}
    BY <1>1
  <1>7. PICK u : u = WithoutEmpty(t, c)
    OBVIOUS
  <1>8. CASE u = t
    BY <1>4, <1>7, <1>8
  <1>9. CASE u = [t EXCEPT !.lots = lots]
    BY <1>5, <1>6, <1>7, <1>9
  <1> QED
    BY <1>3, <1>7, <1>8, <1>9

\* HP_SELL_PARTIALLY_FILLED and HP_SELL_FILLED.
LEMMA HpSellHandles ==
  ASSUME NEW t, Sound(t), NEW h \in Positions, NEW c, NEW amount \in Nat
  PROVE  LET u == _update_lots_after_hp_sell(t, h, c, amount)
         IN  /\ Handles(t, u, {c}, {}) /\ u.processed = t.processed
             /\ DOMAIN t.lots \ {c} \subseteq DOMAIN u.lots
  <1>1. PICK i : i = HpLot(h)
    OBVIOUS
  <1>2. PICK u : u = _update_lots_after_hp_sell(t, h, c, amount)
    OBVIOUS
  <1>3. Handles(t, t, {c}, {})
    BY HandlesNothing
  <1>4. PICK s : s = _update_lots_after_sell(t, c, amount)
    OBVIOUS
  <1>5. Handles(t, s, {c}, {}) /\ s.processed = t.processed /\ DOMAIN s.lots = DOMAIN t.lots
    BY <1>4, SellHandles
  <1>6. CASE c \in DOMAIN t.lots /\ Is(t.lots[c], i) /\ Is(t.inv, i)
    <2>1. i \in Range(t.lots[c]) /\ i \in Range(t.inv)
      BY <1>6, ListHolds DEF Sound, Typed
    <2>2. i \in DOMAIN t.items /\ t.items[i].coin = c
      <3>1. i \in DOMAIN t.items
        BY <2>1, ListHolds DEF Sound, Typed
      <3> QED
        BY <1>6, <2>1, <3>1 DEF Sound
    <2>3. PICK v : v = IF t.items[i].qty <= amount THEN SoldWhole(t, c, i)
                       ELSE SoldPart(t, i, amount)
      OBVIOUS
    <2>4. Handles(t, v, {c}, {}) /\ v.processed = t.processed /\ DOMAIN v.lots = DOMAIN t.lots
      <3>1. CASE t.items[i].qty <= amount
        BY <1>6, <2>1, <2>3, <3>1, WholeHandles
      <3>2. CASE ~ t.items[i].qty <= amount
        <4>1. t.items[i].qty \in Nat
          BY <2>2 DEF Sound, Typed, Item
        <4>2. i \in DOMAIN t.items /\ t.items[i].qty > amount /\ v = SoldPart(t, i, amount)
          BY <2>2, <2>3, <3>2, <4>1
        <4>3. /\ Handles(t, v, {t.items[i].coin}, {}) /\ v.processed = t.processed
              /\ v.lots = t.lots
          BY <4>2, PartHandles
        <4> QED
          BY <2>2, <4>3
      <3> QED
        BY <3>1, <3>2
    <2>5. PICK w : w = WithoutEmpty(v, c)
      OBVIOUS
    <2>6. /\ Handles(v, w, {c}, {}) /\ w.processed = v.processed
          /\ DOMAIN v.lots \ {c} \subseteq DOMAIN w.lots
      BY <2>4, <2>5, EmptyHandles DEF Handles
    <2>7. Handles(t, w, {c} \cup {c}, {} \cup {})
      BY <2>4, <2>6, HandlesOn
    <2>8. /\ Handles(t, w, {c}, {}) /\ w.processed = t.processed
          /\ DOMAIN t.lots \ {c} \subseteq DOMAIN w.lots
      BY <2>4, <2>6, <2>7
    <2>9. u = w \/ u = t
      BY <1>1, <1>2, <1>6, <2>3, <2>5 DEF _update_lots_after_hp_sell
    <2> QED
      BY <1>2, <1>3, <2>8, <2>9
  <1>7. CASE ~ (c \in DOMAIN t.lots /\ Is(t.lots[c], i) /\ Is(t.inv, i))
    <2>1. u \in {t, s}
      BY <1>1, <1>2, <1>4, <1>7 DEF _update_lots_after_hp_sell
    <2> QED
      BY <1>2, <1>3, <1>5, <2>1
  <1> QED
    BY <1>6, <1>7

\* The proceeds of a sell.
LEMMA ReceivedHandles ==
  ASSUME NEW t, Sound(t), NEW h \in Positions, NEW amount \in Nat,
         Received(h) \notin DOMAIN t.items \/ Quote \in DOMAIN t.lots
  PROVE  LET u == _add_received_currency(t, h, amount)
         IN  /\ Handles(t, u, {Quote}, {Received(h)}) /\ u.processed = t.processed
             /\ DOMAIN t.lots \subseteq DOMAIN u.lots
  <1>1. PICK i \in AllLots : i = Received(h)
    BY DEF AllLots
  <1>2. Quote \in Coins
    BY CoinsAssumption
  <1>3. PICK u : u = _add_received_currency(t, h, amount)
    OBVIOUS
  <1>4. CASE Quote \notin DOMAIN t.lots
    <2>1. PICK v : v = Opened(t, i, Quote, amount)
      OBVIOUS
    <2>2. i \notin Range(t.inv)
      BY <1>1, <1>4, ListHolds DEF Sound, Typed
    <2>3. Handles(t, v, {Quote}, {i}) /\ v.processed = t.processed /\ v.lots = t.lots
      <3>1. i \in DOMAIN t.items => t.items[i].coin = Quote
        BY <1>1, <1>4
      <3>2. Handles(t, Opened(t, i, Quote, amount), {Quote}, {i})
        BY <1>2, <2>2, <3>1, OpenedHandles
      <3>3. Opened(t, i, Quote, amount).processed = t.processed
        BY <1>2, <2>2, <3>1, <3>2, OpenedHandles
      <3>4. Opened(t, i, Quote, amount).lots = t.lots
        BY <1>2, <2>2, <3>1, <3>2, OpenedHandles
      <3> QED
        BY <2>1, <3>2, <3>3, <3>4
    <2>4. Sound(v)
      BY <2>3 DEF Handles
    <2>5. PICK lots : lots = With(v.lots, Quote, <<>>)
      OBVIOUS
    <2>6. /\ DOMAIN lots = DOMAIN v.lots \cup {Quote} /\ lots[Quote] = <<>>
          /\ \A d \in DOMAIN v.lots : d # Quote => lots[d] = v.lots[d]
          /\ lots = [d \in DOMAIN lots |-> lots[d]]
      BY <2>5 DEF With
    <2>7. <<>> \in Seq(DOMAIN v.items)
      OBVIOUS
    <2>8. \A j : j \notin Range(<<>>)
      BY DEF Range
    <2>9. /\ lots \in [DOMAIN lots -> Seq(DOMAIN v.items)] /\ DOMAIN lots \subseteq Coins
          /\ \A d \in DOMAIN lots : \A j \in Range(lots[d]) : v.items[j].coin = d
      BY <1>2, <2>4, <2>6, <2>7, <2>8, ZenonT(40) DEF Sound, Typed
    <2>10. u = [v EXCEPT !.lots = lots]
      BY <1>1, <1>3, <1>4, <2>1, <2>5 DEF _add_received_currency
    <2>11. Handles(v, u, {}, {}) /\ u.processed = v.processed /\ DOMAIN v.lots \subseteq DOMAIN u.lots
      BY <2>4, <2>6, <2>9, <2>10, LotsRelisted
    <2>12. Handles(t, u, {Quote} \cup {}, {i} \cup {})
      BY <2>3, <2>11, HandlesOn
    <2>13. Handles(t, u, {Quote}, {i})
      BY <2>12
    <2> QED
      BY <1>1, <1>3, <2>3, <2>11, <2>13
  <1>5. CASE Quote \in DOMAIN t.lots /\ LotsOf(t, t.inv, Quote) = {}
    BY <1>5, HandlesNothing DEF _add_received_currency
  <1>6. CASE Quote \in DOMAIN t.lots /\ LotsOf(t, t.inv, Quote) # {}
    <2>1. PICK j \in DOMAIN t.items : j = FirstLot(t) /\ t.items[j].coin = Quote
      BY <1>6, FirstLotIs
    <2>2. PICK x \in Item : x = t.items[j]
      BY DEF Sound, Typed
    <2>3. PICK a \in Nat, b \in Nat : a = x.free + amount /\ b = x.free + amount + x.locked
      BY DEF Item
    <2>4. PICK v : v = [x EXCEPT !.free = a, !.qty = b]
      OBVIOUS
    <2>5. v \in Item /\ v.coin = Quote
      BY <2>1, <2>2, <2>4 DEF Item
    <2>6. u = LotIs(t, j, v)
      BY <1>3, <1>6, <2>1, <2>2, <2>3, <2>4 DEF _add_received_currency
    <2>7. Handles(t, u, {Quote}, {}) /\ u.processed = t.processed /\ u.lots = t.lots
      BY <2>1, <2>5, <2>6, LotChanges
    <2> QED
      BY <1>3, <2>7 DEF Handles, Touches
  <1> QED
    BY <1>4, <1>5, <1>6

\* HP_SELL_COMPLETED: nothing, or the proceeds, and the position is remembered.
LEMMA CompletedHandles ==
  ASSUME NEW t, Sound(t), NEW h \in Positions, NEW leg, NEW amount \in Nat,
         h \in t.processed \/ Received(h) \notin DOMAIN t.items \/ Quote \in DOMAIN t.lots
  PROVE  LET u == handle_hp_sell_completed(t, h, leg, amount)
         IN  /\ Handles(t, u, {Quote}, {Received(h)}) /\ DOMAIN t.lots \subseteq DOMAIN u.lots
             /\ IF leg = "a" \/ h \in t.processed THEN u = t
                ELSE u.processed = t.processed \cup {h}
  <1>1. CASE leg = "a" \/ h \in t.processed
    BY <1>1, HandlesNothing DEF handle_hp_sell_completed
  <1>2. CASE ~ (leg = "a" \/ h \in t.processed)
    <2>1. PICK v : v = _add_received_currency(t, h, amount)
      OBVIOUS
    <2>2. /\ Handles(t, v, {Quote}, {Received(h)}) /\ v.processed = t.processed
          /\ DOMAIN t.lots \subseteq DOMAIN v.lots
      BY <1>2, <2>1, ReceivedHandles
    <2>3. PICK u : u = [v EXCEPT !.processed = @ \cup {h}]
      OBVIOUS
    <2>4. v = Books(v.items, v.inv, v.lots, v.rows, v.processed)
      BY <2>2 DEF Handles, Sound, Typed
    <2>5. u = Books(v.items, v.inv, v.lots, v.rows, v.processed \cup {h})
      BY <2>3, <2>4 DEF Books
    <2>6. /\ u.items = v.items /\ u.inv = v.inv /\ u.lots = v.lots /\ u.rows = v.rows
          /\ u.processed = v.processed \cup {h}
          /\ u = Books(u.items, u.inv, u.lots, u.rows, u.processed)
      BY <2>5, BooksHave
    <2>7. Handles(t, u, {Quote}, {Received(h)})
      BY <2>2, <2>6 DEF Handles, Sound, Typed, Touches, RowsFollow
    <2>8. u = handle_hp_sell_completed(t, h, leg, amount)
      BY <1>2, <2>1, <2>3 DEF handle_hp_sell_completed
    <2> QED
      BY <1>2, <2>2, <2>6, <2>7, <2>8
  <1> QED
    BY <1>1, <1>2

(***************************************************************************)
(* The start                                                               *)
(***************************************************************************)

\* What is loaded from a table is sound, and follows the table.
LEMMA LoadedIs ==
  ASSUME NEW t, DOMAIN t.rows \subseteq AllLots, t.rows \in [DOMAIN t.rows -> Row]
  PROVE  LET u == Loaded(t)
         IN  /\ Sound(u) /\ RowsFollow(u) /\ u.processed = {} /\ u.rows = t.rows
             /\ DOMAIN u.items = DOMAIN t.rows
             /\ \A i \in DOMAIN t.rows : /\ u.items[i].coin = t.rows[i].coin
                                          /\ t.rows[i].coin \in DOMAIN u.lots
  <1> DEFINE places == {k \in DOMAIN CheapFirst : CheapFirst[k] \in DOMAIN t.rows}
  <1>1. PICK items : items = fetch_all_inventory_items(t)
    OBVIOUS
  <1>2. PICK list : list = Kept(CheapFirst, places)
    OBVIOUS
  <1>3. PICK lots : lots = ByCoin(items, list)
    OBVIOUS
  <1>4. PICK u : u = Loaded(t)
    OBVIOUS
  <1>5. u = Books(items, list, lots, t.rows, {})
    BY <1>1, <1>2, <1>3, <1>4 DEF Loaded, Books
  <1>6. /\ DOMAIN items = DOMAIN t.rows /\ items \in [DOMAIN items -> Item]
        /\ \A i \in DOMAIN t.rows : /\ items[i].coin = t.rows[i].coin
                                    /\ items[i].qty = t.rows[i].qty
    BY <1>1 DEF fetch_all_inventory_items, Row, Item
  <1>7. list \in Seq(DOMAIN items) /\ IsInjective(list) /\ Range(list) = DOMAIN items
    <2>1. CheapFirst \in Seq(AllLots) /\ IsInjective(CheapFirst) /\ AllLots \subseteq Range(CheapFirst)
      BY CheapFirstAssumption
    <2>2. PICK at \in SUBSET DOMAIN CheapFirst : at = places
      OBVIOUS
    <2>5. /\ list \in Seq(AllLots) /\ IsInjective(list)
          /\ \A k \in at : CheapFirst[k] \in Range(list)
          /\ \A n \in DOMAIN list : \E k \in at : list[n] = CheapFirst[k]
      <3>1. list = Kept(CheapFirst, at)
        BY <1>2, <2>2
      <3> QED
        BY <2>1, <3>1, KeptIsList
    <2>3. Range(list) = DOMAIN items
      <3>1. \A n \in DOMAIN list : list[n] \in DOMAIN t.rows
        BY <2>2, <2>5
      <3>2. \A i \in DOMAIN t.rows : \E k \in at : CheapFirst[k] = i
        BY <2>1, <2>2 DEF Range
      <3> QED
        BY <1>6, <2>2, <2>5, <3>1, <3>2 DEF Range
    <2>4. list \in Seq(Range(list))
      BY <2>5 DEF Range
    <2> QED
      BY <2>3, <2>4, <2>5
  <1>8. /\ lots \in [DOMAIN lots -> Seq(DOMAIN items)] /\ DOMAIN lots \subseteq Coins
        /\ \A c \in DOMAIN lots : \A i \in Range(lots[c]) : items[i].coin = c
        /\ \A i \in Range(list) : items[i].coin \in DOMAIN lots
    BY <1>3, <1>6, <1>7, ByCoinIs
  <1>9. /\ u.items = items /\ u.inv = list /\ u.lots = lots /\ u.rows = t.rows
        /\ u.processed = {}
        /\ u = Books(u.items, u.inv, u.lots, u.rows, u.processed)
    BY <1>5, BooksHave
  <1>10. Sound(u)
    BY <1>6, <1>7, <1>8, <1>9 DEF Sound, Typed
  <1>11. RowsFollow(u)
    BY <1>6, <1>7, <1>9 DEF RowsFollow
  <1> QED
    BY <1>4, <1>6, <1>7, <1>8, <1>9, <1>10, <1>11

\* The inventory table at first.
LEMMA FirstRowsAre ==
  /\ DOMAIN FirstRows \subseteq AllLots /\ FirstRows \in [DOMAIN FirstRows -> Row]
  /\ \A h \in Positions : HpLot(h) \notin DOMAIN FirstRows /\ Received(h) \notin DOMAIN FirstRows
  <1>1. ASSUME NEW i \in {Holdings[k].id : k \in DOMAIN Holdings}
        PROVE  /\ FirstRows[i] \in Row
               /\ \A h \in Positions : i # HpLot(h) /\ i # Received(h)
    <2>1. PICK k \in DOMAIN Holdings :
             k = CHOOSE l \in DOMAIN Holdings : Holdings[l].id = i
      OBVIOUS
    <2>2. FirstRows[i] = [coin |-> Holdings[k].coin, qty |-> Holdings[k].qty]
      BY <2>1 DEF FirstRows
    <2>3. Holdings[k].coin \in Coins /\ Holdings[k].qty \in Nat
      BY HoldingsAssumption
    <2> QED
      BY <2>2, <2>3, HoldingsAssumption DEF Row
  <1>2. DOMAIN FirstRows = {Holdings[k].id : k \in DOMAIN Holdings}
    BY DEF FirstRows
  <1>3. FirstRows \in [DOMAIN FirstRows -> Row]
    BY <1>1, <1>2 DEF FirstRows
  <1> QED
    BY <1>1, <1>2, <1>3 DEF AllLots

\* What was held of a coin is a number.
LEMMA HeldIsNat ==
  ASSUME NEW c
  PROVE  HeldOf(c) \in Nat
  <1>1. PICK S : S = {k \in DOMAIN Holdings : Holdings[k].coin = c}
    OBVIOUS
  <1>2. PICK f : f = [k \in DOMAIN Holdings |-> Holdings[k].qty]
    OBVIOUS
  <1>3. DOMAIN Holdings = 1 .. Len(Holdings) /\ Len(Holdings) \in Nat
    BY HoldingsAssumption
  <1>4. IsFiniteSet(1 .. Len(Holdings))
    BY <1>3, FS_Interval
  <1>5. IsFiniteSet(S)
    BY <1>1, <1>3, <1>4, FS_Subset
  <1>6. \A k \in DOMAIN Holdings : f[k] \in Nat
    BY <1>2, HoldingsAssumption
  <1>7. Numbers(f, S) /\ \A k \in S : f[k] >= 0
    BY <1>1, <1>5, <1>6 DEF Numbers
  <1> QED
    BY <1>1, <1>2, <1>7, SumIsNat DEF HeldOf

(***************************************************************************)
(* Queues, whatever travels in them                                        *)
(***************************************************************************)

IsQueue(q) == q \in Seq({q[k] : k \in DOMAIN q})
\* A queue that holds events of a set only.
Among(r, S) == IsQueue(r) /\ \A k \in DOMAIN r : r[k] \in S

\* A sequence over a set is a queue of its elements.
LEMMA QueueOf ==
  ASSUME NEW S, NEW r \in Seq(S)
  PROVE  Among(r, S)
  <1>1. \A k \in DOMAIN r : r[k] \in S
    OBVIOUS
  <1>2. DOMAIN r = 1 .. Len(r) /\ Len(r) \in Nat
    OBVIOUS
  <1>3. r \in Seq({r[k] : k \in DOMAIN r})
    BY <1>2
  <1> QED
    BY <1>1, <1>3 DEF Among, IsQueue

\* What is appended joins what was queued.
LEMMA QueueGrows ==
  ASSUME NEW q, IsQueue(q), NEW e, NEW f
  PROVE  /\ Among(Append(q, e), {q[k] : k \in DOMAIN q} \cup {e})
         /\ Among(q \o <<e, f>>, {q[k] : k \in DOMAIN q} \cup {e, f})
  <1>1. PICK S : S = {q[k] : k \in DOMAIN q}
    OBVIOUS
  <1>2. q \in Seq(S)
    BY <1>1 DEF IsQueue
  <1>3. q \in Seq(S \cup {e}) /\ q \in Seq(S \cup {e, f}) /\ <<e, f>> \in Seq(S \cup {e, f})
    BY <1>2
  <1>4. Append(q, e) \in Seq(S \cup {e})
    BY <1>3
  <1>5. q \o <<e, f>> \in Seq(S \cup {e, f})
    BY <1>3
  <1> QED
    BY <1>1, <1>4, <1>5, QueueOf

\* What is taken off leaves what is queued behind it.
LEMMA QueueShrinks ==
  ASSUME NEW q, IsQueue(q), q # <<>>
  PROVE  Among(Tail(q), {q[k] : k \in DOMAIN q}) /\ Head(q) \in {q[k] : k \in DOMAIN q}
  <1>1. PICK S : S = {q[k] : k \in DOMAIN q}
    OBVIOUS
  <1>2. q \in Seq(S)
    BY <1>1 DEF IsQueue
  <1>3. Tail(q) \in Seq(S) /\ Head(q) \in S
    BY <1>2
  <1> QED
    BY <1>1, <1>3, QueueOf

(***************************************************************************)
(* The invariant                                                           *)
(***************************************************************************)

HistOf == [bought : [Positions -> Nat], credited : [Positions -> Nat],
           before : SUBSET Positions, fresh : SUBSET Coins, replaced : BOOLEAN]

\* The currency is never sold, and no report tells so.
Sells == {"ready", "routed", "selling", "hopping", "second"}
Deal == {trade \in Trade : trade.phase \in Sells => trade.coin # Quote}
HpReport == {e \in HpEventOf : e.kind = "sold" => e.coin # Quote}
IsEvent(e) == IsUiEvent(e) /\ (e.kind = "sold" => e.coin # Quote)

TypeInv ==
    /\ Sound(p) /\ back \in Seq(DOMAIN p.items) /\ IsInjective(back)
    /\ IsQueue(toUi) /\ \A k \in DOMAIN toUi : IsEvent(toUi[k])
    /\ IsQueue(toBack) /\ \A k \in DOMAIN toBack : IsMessage(toBack[k])
    /\ wire \in [Positions -> Seq(HpReport)] /\ hp \in [Positions -> Deal]
    /\ ex \in [Coins -> Balance] /\ hist \in HistOf

\* What the exchange has locked of a coin for a trade.
Committed(trade, c) ==
    IF \/ trade.phase = "buying" /\ c = Quote
       \/ trade.phase \in {"selling", "hopping", "second"} /\ c = trade.coin
    THEN trade.left ELSE 0
AllCommitted(c) == SumFunctionOnSet([h \in Positions |-> Committed(hp[h], c)], Positions)

\* Everything the trades can still spend is locked.
Funds ==
    /\ \A h \in Positions :
        /\ hp[h].left <= hp[h].total
        /\ hp[h].phase \in {"routed", "hopping"} => hp[h].left = hp[h].total
    /\ \A c \in Coins : AllCommitted(c) <= ex[c].locked

\* A completion of the position is still to be told, or told and not yet handled.
Told(h) == \E k \in DOMAIN wire[h] : wire[h][k].kind = "completed"
Queued(h) == \E k \in DOMAIN toUi : toUi[k].kind = "completed" /\ toUi[k].hp = h
Coming(h) == Told(h) \/ Queued(h)

\* Only a position that is over has completions, and one whose proceeds were
\* credited is remembered as long as another completion may come.
ProceedsInv ==
    \A h \in Positions :
        /\ \A k \in DOMAIN wire[h] : wire[h][k].hp = h
        /\ Coming(h) => hp[h].phase = "over"
        /\ hist.credited[h] \in {0, 1}
        /\ hist.credited[h] = 1 =>
               hp[h].phase = "over" /\ (h \in p.processed \/ ~ Coming(h))

\* The currency is listed, and stays so when the backend's list replaces the screen's.
QuoteListed ==
    Quote \in DOMAIN p.lots /\ \E i \in Range(back) : p.items[i].coin = Quote
\* A lot that was made of a position's proceeds before the program started is listed:
\* it is not made again.
ReceivedInv ==
    \A h \in Positions :
        Received(h) \in DOMAIN p.items =>
            /\ p.items[Received(h)].coin = Quote
            /\ hist.credited[h] = 0 => QuoteListed

\* The coins a position bought: as its fills tell, on their way or waiting for the
\* screen, and as its lot says.
Fill(e) == e.kind \in {"bought", "filled"}
Brought(events) == {events[k].coin : k \in {l \in DOMAIN events : Fill(events[l])}}
Waiting(h) == {toUi[k].coin : k \in {l \in DOMAIN toUi : Fill(toUi[l]) /\ toUi[l].hp = h}}
Held(h) == IF HpLot(h) \in DOMAIN p.items THEN {p.items[HpLot(h)].coin} ELSE {}
Carried(h) == Brought(wire[h]) \cup Waiting(h) \cup Held(h)

\* A position buys one coin: none before its first fill, then the one it trades.
OneCoin(trade, carried) ==
    /\ \A c \in carried, d \in carried : c = d
    /\ trade.phase = "idle" \/ (trade.phase = "buying" /\ trade.left = trade.total)
           => carried = {}
    /\ trade.phase \in {"buying", "holding"} => carried \subseteq {trade.coin}
CarriersInv == \A h \in Positions : OneCoin(hp[h], Carried(h))

RowsInv == ~ hist.replaced => RowsFollow(p)

BooksInv == TypeInv /\ Funds /\ ProceedsInv /\ ReceivedInv /\ CarriersInv /\ RowsInv

\* What is carried less is still one coin.
LEMMA OneCoinLess ==
  ASSUME NEW trade, NEW C, NEW D \in SUBSET C, OneCoin(trade, C)
  PROVE  OneCoin(trade, D)
  BY DEF OneCoin

\* A sum over the positions.
LEMMA CommittedIsNat ==
  ASSUME NEW f \in [Positions -> Deal], NEW c
  PROVE  /\ \A h \in Positions : Committed(f[h], c) \in Nat
         /\ Numbers([h \in Positions |-> Committed(f[h], c)], Positions)
  <1>1. \A h \in Positions : f[h].left \in Nat
    BY DEF Deal, Trade
  <1>2. \A h \in Positions : Committed(f[h], c) \in Nat
    BY <1>1 DEF Committed
  <1> QED
    BY <1>2, PositionsAssumption DEF Numbers

\* Trades without an order have nothing to spend.
LEMMA NothingCommitted ==
  ASSUME NEW f \in [Positions -> Deal], NEW c,
         \A h \in Positions : f[h].phase \notin {"buying", "selling", "hopping", "second"}
  PROVE  SumFunctionOnSet([h \in Positions |-> Committed(f[h], c)], Positions) = 0
  <1>1. PICK n : n = [h \in Positions |-> Committed(f[h], c)]
    OBVIOUS
  <1>2. Numbers(n, Positions)
    BY <1>1, CommittedIsNat
  <1>3. \A h \in Positions : n[h] = 0
    BY <1>1 DEF Committed
  <1>4. SumFunctionOnSet(n, Positions) = SumFunctionOnSet(n, Positions \ Positions)
    BY <1>2, <1>3, SumIgnoresZeros
  <1>5. Positions \ Positions = {}
    OBVIOUS
  <1> QED
    BY <1>1, <1>4, <1>5, SumOfNone

\* The books are in order when the program starts for the first time.
LEMMA BooksInit == Init => BooksInv
  <1> SUFFICES ASSUME Init PROVE BooksInv
    OBVIOUS
  <1> DEFINE t == [rows |-> FirstRows]
  <1>1. DOMAIN t.rows \subseteq AllLots /\ t.rows \in [DOMAIN t.rows -> Row]
    BY FirstRowsAre
  <1>2. p = Loaded(t)
    BY DEF Init
  <1>3. /\ Sound(p) /\ RowsFollow(p) /\ p.processed = {} /\ DOMAIN p.items = DOMAIN FirstRows
    <2>1. t.rows = FirstRows
      OBVIOUS
    <2> HIDE DEF t
    <2> QED
      BY <1>1, <1>2, <2>1, LoadedIs
  <1>4. \A h \in Positions : HpLot(h) \notin DOMAIN p.items /\ Received(h) \notin DOMAIN p.items
    BY <1>3, FirstRowsAre
  <1>5. /\ toUi = <<>> /\ toBack = <<>> /\ back = p.inv
        /\ \A h \in Positions : wire[h] = <<>> /\ hp[h] = Idle
        /\ wire = [h \in Positions |-> <<>>] /\ hp = [h \in Positions |-> Idle]
        /\ ex = [c \in Coins |-> [free |-> HeldOf(c), locked |-> 0]]
        /\ hist = [bought |-> [h \in Positions |-> 0], credited |-> [h \in Positions |-> 0],
                   before |-> {}, fresh |-> {}, replaced |-> FALSE]
    BY DEF Init
  <1>6. TypeInv
    <2>1. back \in Seq(DOMAIN p.items) /\ IsInjective(back)
      BY <1>3, <1>5 DEF Sound, Typed
    <2>2. IsQueue(<<>>)
      BY DEF IsQueue
    <2>3. \A h \in Positions : <<>> \in Seq(HpReport)
      OBVIOUS
    <2>4. wire \in [Positions -> Seq(HpReport)]
      BY <1>5, <2>3
    <2>5. Idle \in Deal
      BY CoinsAssumption DEF Idle, Deal, Sells, Trade, Phase
    <2>6. hp \in [Positions -> Deal]
      BY <1>5, <2>5
    <2>7. \A c \in Coins : [free |-> HeldOf(c), locked |-> 0] \in Balance
      BY HeldIsNat DEF Balance
    <2>8. ex \in [Coins -> Balance]
      BY <1>5, <2>7
    <2>9. hist \in HistOf
      BY <1>5 DEF HistOf
    <2> QED
      BY <1>3, <1>5, <2>1, <2>2, <2>4, <2>6, <2>8, <2>9 DEF TypeInv
  <1>7. Funds
    <2>1. ASSUME NEW c \in Coins
          PROVE  AllCommitted(c) <= ex[c].locked
      <3>1. hp \in [Positions -> Deal] /\ \A h \in Positions : hp[h].phase = "idle"
        BY <1>5, <1>6 DEF TypeInv, Idle
      <3>2. AllCommitted(c) = 0
        BY <3>1, NothingCommitted DEF AllCommitted
      <3> QED
        BY <1>5, <3>2
    <2>2. \A h \in Positions : hp[h].left <= hp[h].total /\ hp[h].phase \notin {"routed", "hopping"}
      BY <1>5 DEF Idle
    <2> QED
      BY <2>1, <2>2 DEF Funds
  <1>8. ProceedsInv
    BY <1>4, <1>5 DEF ProceedsInv, Coming, Told, Queued
  <1>11. ReceivedInv
    BY <1>4 DEF ReceivedInv
  <1>9. CarriersInv
    BY <1>4, <1>5 DEF CarriersInv, OneCoin, Carried, Brought, Waiting, Held
  <1>10. RowsInv
    BY <1>3 DEF RowsInv
  <1> QED
    BY <1>6, <1>7, <1>8, <1>9, <1>10, <1>11 DEF BooksInv

(***************************************************************************)
(* The exchange                                                            *)
(***************************************************************************)

\* What a trade can still spend is locked.
LEMMA LockedFor ==
  ASSUME TypeInv, Funds, NEW h \in Positions, NEW c \in Coins
  PROVE  Committed(hp[h], c) <= ex[c].locked
  <1>1. PICK f : f = [g \in Positions |-> Committed(hp[g], c)]
    OBVIOUS
  <1>2. Numbers(f, Positions) /\ \A g \in Positions : f[g] >= 0
    <2>1. hp \in [Positions -> Deal]
      BY DEF TypeInv
    <2>2. \A g \in Positions : Committed(hp[g], c) \in Nat
      BY <2>1, CommittedIsNat
    <2>3. Numbers(f, Positions)
      BY <1>1, <2>1, CommittedIsNat
    <2> QED
      BY <1>1, <2>2, <2>3
  <1>3. PICK S \in SUBSET Positions : S = {h}
    OBVIOUS
  <1>4. SumFunctionOnSet(f, S) <= SumFunctionOnSet(f, Positions)
    BY <1>2, SumGrows
  <1>5. SumFunctionOnSet(f, S) = f[h]
    BY <1>2, <1>3, SumOfOne DEF Numbers
  <1>6. SumFunctionOnSet(f, Positions) = AllCommitted(c) /\ f[h] = Committed(hp[h], c)
    BY <1>1 DEF AllCommitted
  <1>7. f[h] \in Int /\ SumFunctionOnSet(f, Positions) \in Int
    BY <1>2, SumType DEF Numbers
  <1>8. AllCommitted(c) <= ex[c].locked /\ ex[c].locked \in Nat
    BY DEF Funds, TypeInv, Balance
  <1> QED
    BY <1>4, <1>5, <1>6, <1>7, <1>8

\* The exchange locks what the trade it moves on can spend from now on.
LEMMA FundsMove ==
  ASSUME TypeInv, Funds, NEW h \in Positions, hp' \in [Positions -> Deal],
         \A g \in Positions \ {h} : hp'[g] = hp[g],
         hp'[h].left <= hp'[h].total,
         hp'[h].phase \in {"routed", "hopping"} => hp'[h].left = hp'[h].total,
         ex' \in [Coins -> Balance],
         \A c \in Coins : ex[c].locked + Committed(hp'[h], c)
                            <= ex'[c].locked + Committed(hp[h], c)
  PROVE  Funds'
  <1>1. ASSUME NEW c \in Coins
        PROVE  AllCommitted(c)' <= ex'[c].locked
    <2>1. PICK f : f = [g \in Positions |-> Committed(hp[g], c)]
      OBVIOUS
    <2>2. PICK n : n = [g \in Positions |-> Committed(hp'[g], c)]
      OBVIOUS
    <2>3. Numbers(f, Positions) /\ Numbers(n, Positions)
      BY <2>1, <2>2, CommittedIsNat DEF TypeInv
    <2>4. \A g \in Positions \ {h} : n[g] = f[g]
      BY <2>1, <2>2
    <2>5. SumFunctionOnSet(n, Positions) = SumFunctionOnSet(f, Positions) - f[h] + n[h]
      BY <2>3, <2>4, SumOfChange DEF Numbers
    <2>6. /\ SumFunctionOnSet(f, Positions) = AllCommitted(c)
          /\ SumFunctionOnSet(n, Positions) = AllCommitted(c)'
          /\ f[h] = Committed(hp[h], c) /\ n[h] = Committed(hp'[h], c)
      BY <2>1, <2>2 DEF AllCommitted
    <2>7. /\ f[h] \in Int /\ n[h] \in Int
          /\ SumFunctionOnSet(f, Positions) \in Int /\ SumFunctionOnSet(n, Positions) \in Int
      BY <2>3, SumType DEF Numbers
    <2>8. AllCommitted(c) <= ex[c].locked /\ ex[c].locked \in Nat /\ ex'[c].locked \in Nat
      BY DEF Funds, TypeInv, Balance
    <2>9. ex[c].locked + n[h] <= ex'[c].locked + f[h]
      BY <2>6
    <2> QED
      BY <2>5, <2>6, <2>7, <2>8, <2>9
  <1>2. \A g \in Positions :
          /\ hp'[g].left <= hp'[g].total
          /\ hp'[g].phase \in {"routed", "hopping"} => hp'[g].left = hp'[g].total
    BY DEF Funds
  <1> QED
    BY <1>1, <1>2 DEF Funds

\* What a step of the exchange may do with a trade: one that is over stays so, only
\* the end of one is told as completed, the fills it tells are of one coin, all it
\* can still spend is locked, and the balances that changed are published.
Moves(h) ==
    /\ hp[h].phase # "over" /\ wire[h] = <<>>
    /\ hp' \in [Positions -> Deal] /\ \A g \in Positions \ {h} : hp'[g] = hp[g]
    /\ wire' \in [Positions -> Seq(HpReport)]
    /\ \A g \in Positions \ {h} : wire'[g] = wire[g]
    /\ \A k \in DOMAIN wire'[h] :
        /\ wire'[h][k].hp = h
        /\ wire'[h][k].kind = "completed" => hp'[h].phase = "over"
    /\ \A C : OneCoin(hp[h], C) => OneCoin(hp'[h], C \cup Brought(wire'[h]))
    /\ ex' \in [Coins -> Balance] /\ Funds'
    /\ \E coins \in SUBSET Coins :
        Publish(ex', coins) /\ \A c \in Coins \ coins : ex'[c] = ex[c]
    /\ p' = p /\ back' = back
    /\ hist' \in HistOf /\ hist'.credited = hist.credited
    /\ hist'.fresh = hist.fresh /\ hist'.replaced = hist.replaced

\* A trade moves on and reports it.
LEMMA TradeMoves ==
  ASSUME TypeInv, Funds, NEW h \in Positions, hp[h].phase # "over", wire[h] = <<>>,
         NEW trade \in Deal, hp' = [hp EXCEPT ![h] = trade], trade.left <= trade.total,
         trade.phase \in {"routed", "hopping"} => trade.left = trade.total,
         NEW events \in Seq(HpReport), Report(h, events),
         \A k \in DOMAIN events :
            events[k].hp = h /\ (events[k].kind = "completed" => trade.phase = "over"),
         \A C : OneCoin(hp[h], C) => OneCoin(trade, C \cup Brought(events)),
         ex' \in [Coins -> Balance],
         \A c \in Coins : ex[c].locked + Committed(trade, c)
                            <= ex'[c].locked + Committed(hp[h], c),
         NEW coins \in SUBSET Coins, Publish(ex', coins),
         \A c \in Coins \ coins : ex'[c] = ex[c],
         Keeping, hist' \in HistOf, hist'.credited = hist.credited,
         hist'.fresh = hist.fresh, hist'.replaced = hist.replaced
  PROVE  Moves(h)
  <1>1. /\ hp' \in [Positions -> Deal] /\ hp'[h] = trade
        /\ \A g \in Positions \ {h} : hp'[g] = hp[g]
    BY DEF TypeInv
  <1>2. /\ wire' \in [Positions -> Seq(HpReport)] /\ wire'[h] = events
        /\ \A g \in Positions \ {h} : wire'[g] = wire[g]
    <2>1. <<>> \o events = events
      OBVIOUS
    <2>2. wire' = [wire EXCEPT ![h] = events]
      BY <2>1 DEF Report
    <2> QED
      BY <2>2 DEF TypeInv
  <1>3. Funds'
    BY <1>1, FundsMove
  <1>4. p' = p /\ back' = back
    BY DEF Keeping
  <1>5. \E cs \in SUBSET Coins :
          Publish(ex', cs) /\ \A c \in Coins \ cs : ex'[c] = ex[c]
    OBVIOUS
  <1>6. \A k \in DOMAIN wire'[h] :
          wire'[h][k].hp = h /\ (wire'[h][k].kind = "completed" => hp'[h].phase = "over")
    BY <1>1, <1>2
  <1>7. \A C : OneCoin(hp[h], C) => OneCoin(hp'[h], C \cup Brought(wire'[h]))
    BY <1>1, <1>2
  <1> QED
    BY <1>1, <1>2, <1>3, <1>4, <1>5, <1>6, <1>7 DEF Moves

\* Balances that move.
LEMMA BalancesMove ==
  ASSUME NEW had \in [Coins -> Balance], NEW c \in Coins, NEW amount \in Nat
  PROVE  /\ had[c].free >= amount =>
            /\ Holds(had, c, amount) \in [Coins -> Balance]
            /\ Holds(had, c, amount)[c].locked = had[c].locked + amount
            /\ \A d \in Coins : d # c => Holds(had, c, amount)[d] = had[d]
         /\ had[c].locked >= amount =>
            /\ Frees(had, c, amount) \in [Coins -> Balance]
            /\ Frees(had, c, amount)[c].locked = had[c].locked - amount
            /\ \A d \in Coins : d # c => Frees(had, c, amount)[d] = had[d]
  <1>1. PICK x \in Balance : x = had[c]
    OBVIOUS
  <1>2. x.free \in Nat /\ x.locked \in Nat
    BY DEF Balance
  <1>3. ASSUME had[c].free >= amount
        PROVE  /\ Holds(had, c, amount) \in [Coins -> Balance]
               /\ Holds(had, c, amount)[c].locked = had[c].locked + amount
               /\ \A d \in Coins : d # c => Holds(had, c, amount)[d] = had[d]
    <2>1. PICK a \in Nat, b \in Nat : a = x.free - amount /\ b = x.locked + amount
      BY <1>1, <1>2, <1>3
    <2>2. PICK v : v = [x EXCEPT !.free = a, !.locked = b]
      OBVIOUS
    <2>3. v \in Balance /\ v.locked = b
      BY <2>2 DEF Balance
    <2>4. Holds(had, c, amount) = [had EXCEPT ![c] = v]
      <3>1. Holds(had, c, amount) = [had EXCEPT ![c] = [x EXCEPT !.free = a, !.locked = b]]
        BY <1>1, <2>1 DEF Holds, Balance
      <3> QED
        BY <2>2, <3>1
    <2> QED
      BY <1>1, <2>1, <2>3, <2>4
  <1>4. ASSUME had[c].locked >= amount
        PROVE  /\ Frees(had, c, amount) \in [Coins -> Balance]
               /\ Frees(had, c, amount)[c].locked = had[c].locked - amount
               /\ \A d \in Coins : d # c => Frees(had, c, amount)[d] = had[d]
    <2>1. PICK a \in Nat, b \in Nat : a = x.free + amount /\ b = x.locked - amount
      BY <1>1, <1>2, <1>4
    <2>2. PICK v : v = [x EXCEPT !.free = a, !.locked = b]
      OBVIOUS
    <2>3. v \in Balance /\ v.locked = b
      BY <2>2 DEF Balance
    <2>4. Frees(had, c, amount) = [had EXCEPT ![c] = v]
      <3>1. Frees(had, c, amount) = [had EXCEPT ![c] = [x EXCEPT !.free = a, !.locked = b]]
        BY <1>1, <2>1 DEF Frees, Balance
      <3> QED
        BY <2>2, <3>1
    <2> QED
      BY <1>1, <2>1, <2>3, <2>4
  <1> QED
    BY <1>3, <1>4

\* A fill changes one coin into another.
LEMMA BalancesSwap ==
  ASSUME NEW had \in [Coins -> Balance], NEW c \in Coins, NEW d \in Coins, NEW amount \in Nat,
         had[c].locked >= amount
  PROVE  /\ Swaps(had, c, d, amount) \in [Coins -> Balance]
         /\ Swaps(had, c, d, amount)[c].locked = had[c].locked - amount
         /\ \A e \in Coins : e # c => Swaps(had, c, d, amount)[e].locked = had[e].locked
         /\ \A e \in Coins \ {c, d} : Swaps(had, c, d, amount)[e] = had[e]
         /\ Swaps(had, c, d, amount)[d].free = had[d].free + amount
  <1>1. PICK f : f = [had EXCEPT ![c].locked = @ - amount]
    OBVIOUS
  <1>2. /\ f \in [Coins -> Balance] /\ f[c].locked = had[c].locked - amount
        /\ f[c].free = had[c].free
        /\ \A e \in Coins : e # c => f[e] = had[e]
    <2>1. PICK x \in Balance : x = had[c]
      OBVIOUS
    <2>2. PICK b \in Nat : b = x.locked - amount
      BY <2>1 DEF Balance
    <2>3. PICK v : v = [x EXCEPT !.locked = b]
      OBVIOUS
    <2>4. v \in Balance /\ v.locked = b /\ v.free = x.free
      BY <2>3 DEF Balance
    <2>5. f = [had EXCEPT ![c] = v]
      BY <1>1, <2>1, <2>2, <2>3
    <2> QED
      BY <2>1, <2>2, <2>4, <2>5
  <1>3. PICK g : g = [f EXCEPT ![d].free = @ + amount]
    OBVIOUS
  <1>4. /\ g \in [Coins -> Balance] /\ g[d].free = f[d].free + amount
        /\ g[d].locked = f[d].locked
        /\ \A e \in Coins : e # d => g[e] = f[e]
    <2>1. PICK x \in Balance : x = f[d]
      BY <1>2
    <2>2. PICK b \in Nat : b = x.free + amount
      BY <2>1 DEF Balance
    <2>3. PICK v : v = [x EXCEPT !.free = b]
      OBVIOUS
    <2>4. v \in Balance /\ v.free = b /\ v.locked = x.locked
      BY <2>3 DEF Balance
    <2>5. g = [f EXCEPT ![d] = v]
      BY <1>2, <1>3, <2>1, <2>2, <2>3
    <2> QED
      BY <1>2, <2>1, <2>2, <2>4, <2>5
  <1>5. Swaps(had, c, d, amount) = g
    BY <1>1, <1>3 DEF Swaps
  <1> QED
    BY <1>2, <1>4, <1>5

\* What it tells of fills: one event alone, or one that is followed by others.
LEMMA OneEventBrings ==
  ASSUME NEW e
  PROVE  Brought(<<e>>) = IF Fill(e) THEN {e.coin} ELSE {}
  BY DEF Brought

\* Events that tell no fill.
LEMMA NoFillBrings ==
  ASSUME NEW events, \A k \in DOMAIN events : ~ Fill(events[k])
  PROVE  Brought(events) = {}
  BY DEF Brought

\* A position's only report.
LEMMA ReportsOne ==
  ASSUME NEW h \in Positions, NEW e \in HpReport, e.hp = h
  PROVE  /\ <<e>> \in Seq(HpReport) /\ Brought(<<e>>) = IF Fill(e) THEN {e.coin} ELSE {}
         /\ \A k \in DOMAIN <<e>> : <<e>>[k] = e
  <1>1. <<e>> \in Seq(HpReport)
    OBVIOUS
  <1>2. \A k \in DOMAIN <<e>> : <<e>>[k] = e
    OBVIOUS
  <1> QED
    BY <1>1, <1>2, OneEventBrings

\* It tells no fill.
LEMMA ReportsNoFill ==
  ASSUME NEW h \in Positions, NEW e \in HpReport, e.hp = h,
         e.kind \in {"created", "placed", "cancelled", "sold"}
  PROVE  /\ <<e>> \in Seq(HpReport) /\ Brought(<<e>>) = {}
         /\ \A k \in DOMAIN <<e>> : <<e>>[k].hp = h /\ <<e>>[k].kind # "completed"
  <1>1. ~ Fill(e) /\ e.kind # "completed"
    BY DEF Fill
  <1>2. \A k \in DOMAIN <<e>> : <<e>>[k] = e
    BY ReportsOne
  <1> QED
    BY <1>1, <1>2, ReportsOne

\* The buy of a position is placed.
LEMMA PlaceBuyMoves ==
  ASSUME TypeInv, Funds, NEW h \in Positions, NEW c \in Coins, NEW amount \in Sizes,
         PlaceBuy(h, c, amount)
  PROVE  Moves(h)
  <1>1. amount \in Nat /\ Quote \in Coins
    BY CoinsAssumption, SizesAssumption
  <1>14. PICK old \in Deal : old = hp[h]
    BY DEF TypeInv
  <1>2. PICK trade : trade = [old EXCEPT !.phase = "buying", !.coin = c, !.left = amount,
                                         !.total = amount]
    OBVIOUS
  <1>3. /\ trade \in Deal /\ trade.phase = "buying" /\ trade.left = amount
        /\ trade.total = amount
    BY <1>1, <1>2 DEF Deal, Sells, Trade, Phase
  <1>4. PICK e : e = HpEvent("placed", h, "", Quote, amount)
    OBVIOUS
  <1>20. e \in HpReport /\ e.kind = "placed" /\ e.hp = h
    BY <1>1, <1>4 DEF HpEvent, HpReport, HpEventOf
  <1>21. PICK events : events = <<e>>
    OBVIOUS
  <1>5. /\ events \in Seq(HpReport) /\ Brought(events) = {}
        /\ \A k \in DOMAIN events : events[k].hp = h /\ events[k].kind # "completed"
    BY <1>20, <1>21, ReportsNoFill
  <1>6. /\ hp[h].phase = "idle" /\ wire[h] = <<>> /\ hp' = [hp EXCEPT ![h] = trade]
        /\ Report(h, events) /\ Publish(ex', {Quote}) /\ Keeping /\ hist' = hist
        /\ ex[Quote].free >= amount /\ ex' = Holds(ex, Quote, amount)
    BY <1>2, <1>4, <1>14, <1>21 DEF PlaceBuy, Trades, TypeInv
  <1>7. /\ ex' \in [Coins -> Balance] /\ ex'[Quote].locked = ex[Quote].locked + amount
        /\ \A d \in Coins : d # Quote => ex'[d] = ex[d]
    <2>1. ex \in [Coins -> Balance]
      BY DEF TypeInv
    <2> QED
      BY <1>1, <1>6, <2>1, BalancesMove
  <1>8. \A d \in Coins : ex[d].locked \in Nat
    BY DEF TypeInv, Balance
  <1>9. \A d \in Coins : ex[d].locked + Committed(trade, d)
                           <= ex'[d].locked + Committed(hp[h], d)
    <2>1. \A d \in Coins : Committed(trade, d) = (IF d = Quote THEN amount ELSE 0)
      BY <1>3 DEF Committed
    <2>2. \A d \in Coins : Committed(hp[h], d) = 0
      BY <1>6 DEF Committed
    <2> QED
      BY <1>1, <1>7, <1>8, <2>1, <2>2
  <1>10. \A C : OneCoin(hp[h], C) => OneCoin(trade, C \cup Brought(events))
    BY <1>3, <1>5, <1>6 DEF OneCoin
  <1>11. hist \in HistOf
    BY DEF TypeInv
  <1>12. PICK coins \in SUBSET Coins : coins = {Quote}
    BY <1>1
  <1>13. trade.left <= trade.total /\ trade.phase # "hopping" /\ hp[h].phase # "over"
    BY <1>1, <1>3, <1>6
  <1> QED
    BY <1>3, <1>5, <1>6, <1>7, <1>9, <1>10, <1>11, <1>12, <1>13, TradeMoves

\* A buy is filled, partly or to its end.
LEMMA BuyFillsMoves ==
  ASSUME TypeInv, Funds, NEW h \in Positions, NEW amount \in 1 .. hp[h].left,
         BuyFills(h, amount)
  PROVE  Moves(h)
  <1>1. PICK old \in Deal : old = hp[h]
    BY DEF TypeInv
  <1>2. /\ old.left \in Nat /\ old.total \in Nat /\ old.coin \in Coins /\ old.left <= old.total
        /\ Quote \in Coins
    BY <1>1, CoinsAssumption DEF Deal, Sells, Trade, Funds
  <1>3. /\ amount \in Nat /\ amount > 0 /\ amount <= old.left
        /\ old.phase = "buying" /\ wire[h] = <<>>
    <2>1. old.phase = "buying" /\ wire[h] = <<>>
      BY <1>1 DEF BuyFills, Trades
    <2>2. amount \in 1 .. old.left
      BY <1>1
    <2> QED
      BY <1>2, <2>1, <2>2
  <1>4. PICK last \in BOOLEAN : last <=> amount = old.left
    OBVIOUS
  <1>5. PICK left \in Nat : left = old.left - amount
    BY <1>2, <1>3
  <1>6. PICK trade : trade = IF last THEN [old EXCEPT !.phase = "holding", !.left = 0]
                             ELSE [old EXCEPT !.left = left]
    OBVIOUS
  <1>7. /\ trade \in Deal /\ trade.coin = old.coin /\ trade.total = old.total
        /\ trade.left = left /\ trade.phase = IF last THEN "holding" ELSE "buying"
    <2>1. CASE last
      <3>1. trade = [old EXCEPT !.phase = "holding", !.left = 0] /\ left = 0
        BY <1>2, <1>4, <1>5, <1>6, <2>1
      <3> QED
        BY <2>1, <3>1 DEF Deal, Sells, Trade, Phase
    <2>2. CASE ~ last
      <3>1. trade = [old EXCEPT !.left = left]
        BY <1>6, <2>2
      <3> QED
        BY <1>3, <2>2, <3>1 DEF Deal, Sells, Trade
    <2> QED
      BY <2>1, <2>2
  <1>8. PICK e : e = IF last THEN HpEvent("filled", h, "", old.coin, old.total)
                     ELSE HpEvent("bought", h, "", old.coin, amount)
    OBVIOUS
  <1>9. e \in HpReport /\ e.kind \in {"bought", "filled"} /\ e.hp = h /\ e.coin = old.coin
    <2>1. CASE last
      BY <1>2, <1>8, <2>1 DEF HpEvent, HpReport, HpEventOf
    <2>2. CASE ~ last
      BY <1>2, <1>3, <1>8, <2>2 DEF HpEvent, HpReport, HpEventOf
    <2> QED
      BY <2>1, <2>2
  <1>10. PICK events : events = <<e>>
    OBVIOUS
  <1>11. /\ events \in Seq(HpReport) /\ Brought(events) = {old.coin}
         /\ \A k \in DOMAIN events : events[k].hp = h /\ events[k].kind # "completed"
    <2>1. <<e>> \in Seq(HpReport) /\ \A k \in DOMAIN <<e>> : <<e>>[k] = e
      BY <1>9, ReportsOne
    <2>2. Brought(<<e>>) = {e.coin}
      BY <1>9, ReportsOne DEF Fill
    <2> QED
      BY <1>9, <1>10, <2>1, <2>2
  <1>12. /\ hp' = [hp EXCEPT ![h] = trade] /\ Report(h, events)
         /\ Publish(ex', {Quote, old.coin}) /\ Keeping
         /\ hist' = [hist EXCEPT !.bought[h] = @ + amount]
         /\ ex' = Swaps(ex, Quote, old.coin, amount)
    <2>1. hp' = [hp EXCEPT ![h] = trade] /\ Report(h, events)
      <3>1. CASE last
        BY <1>1, <1>4, <1>6, <1>8, <1>10, <3>1 DEF BuyFills, TypeInv
      <3>2. CASE ~ last
        BY <1>1, <1>4, <1>5, <1>6, <1>8, <1>10, <3>2 DEF BuyFills, TypeInv
      <3> QED
        BY <3>1, <3>2
    <2> QED
      BY <1>1, <2>1 DEF BuyFills
  <1>13. \A d \in Coins : ex[d].locked \in Nat
    BY DEF TypeInv, Balance
  <1>14. ex[Quote].locked >= old.left
    <2>1. Committed(hp[h], Quote) = old.left
      BY <1>1, <1>3 DEF Committed
    <2> QED
      BY <1>2, <1>13, <2>1, LockedFor
  <1>15. /\ ex' \in [Coins -> Balance] /\ ex'[Quote].locked = ex[Quote].locked - amount
         /\ \A d \in Coins : d # Quote => ex'[d].locked = ex[d].locked
         /\ \A d \in Coins \ {Quote, old.coin} : ex'[d] = ex[d]
    <2>1. ex[Quote].locked >= amount
      BY <1>2, <1>3, <1>13, <1>14
    <2>2. ex \in [Coins -> Balance]
      BY DEF TypeInv
    <2> QED
      BY <1>2, <1>3, <1>12, <2>1, <2>2, BalancesSwap
  <1>16. \A d \in Coins : ex[d].locked + Committed(trade, d)
                           <= ex'[d].locked + Committed(hp[h], d)
    <2>1. \A d \in Coins : Committed(trade, d) = (IF d = Quote THEN left ELSE 0)
      BY <1>4, <1>5, <1>7 DEF Committed
    <2>2. \A d \in Coins : Committed(hp[h], d) = (IF d = Quote THEN old.left ELSE 0)
      BY <1>1, <1>3 DEF Committed
    <2> QED
      BY <1>2, <1>3, <1>5, <1>13, <1>15, <2>1, <2>2, SMTT(40)
  <1>17. \A C : OneCoin(hp[h], C) => OneCoin(trade, C \cup Brought(events))
    <2>1. left < old.total
      BY <1>2, <1>3, <1>5
    <2> QED
      BY <1>1, <1>3, <1>4, <1>7, <1>11, <2>1 DEF OneCoin
  <1>18. /\ hist' \in HistOf /\ hist'.credited = hist.credited
         /\ hist'.fresh = hist.fresh /\ hist'.replaced = hist.replaced
    <2>1. hist \in HistOf /\ hist.bought[h] + amount \in Nat
      BY <1>3 DEF TypeInv, HistOf
    <2> QED
      BY <1>12, <2>1 DEF HistOf
  <1>19. trade.left <= trade.total /\ trade.phase # "hopping" /\ hp[h].phase # "over"
    BY <1>1, <1>2, <1>3, <1>5, <1>7
  <1>20. PICK coins \in SUBSET Coins : coins = {Quote, old.coin}
    BY <1>2
  <1> QED
    BY <1>3, <1>7, <1>11, <1>12, <1>15, <1>16, <1>17, <1>18, <1>19, <1>20, TradeMoves

\* The buy is cancelled before its first fill.
LEMMA CancelBuyMoves ==
  ASSUME TypeInv, Funds, NEW h \in Positions, CancelBuy(h)
  PROVE  Moves(h)
  <1>1. PICK old \in Deal : old = hp[h]
    BY DEF TypeInv
  <1>2. /\ old.left \in Nat /\ old.total \in Nat /\ old.coin \in Coins /\ Quote \in Coins
    BY CoinsAssumption DEF Deal, Sells, Trade
  <1>3. PICK trade : trade = [old EXCEPT !.phase = "idle", !.closed = TRUE]
    OBVIOUS
  <1>4. /\ trade \in Deal /\ trade.phase = "idle" /\ trade.left = old.left
        /\ trade.total = old.total
    BY <1>2, <1>3 DEF Deal, Sells, Trade, Phase
  <1>5. PICK e : e = HpEvent("cancelled", h, "", Quote, old.total)
    OBVIOUS
  <1>20. e \in HpReport /\ e.kind = "cancelled" /\ e.hp = h
    BY <1>2, <1>5 DEF HpEvent, HpReport, HpEventOf
  <1>21. PICK events : events = <<e>>
    OBVIOUS
  <1>6. /\ events \in Seq(HpReport) /\ Brought(events) = {}
        /\ \A k \in DOMAIN events : events[k].hp = h /\ events[k].kind # "completed"
    BY <1>20, <1>21, ReportsNoFill
  <1>7. /\ old.phase = "buying" /\ old.left = old.total
        /\ wire[h] = <<>> /\ hp' = [hp EXCEPT ![h] = trade]
        /\ Report(h, events) /\ Publish(ex', {Quote}) /\ Keeping /\ hist' = hist
        /\ ex' = Frees(ex, Quote, old.total)
    BY <1>1, <1>3, <1>5, <1>21 DEF CancelBuy, Trades, TypeInv
  <1>8. \A d \in Coins : ex[d].locked \in Nat
    BY DEF TypeInv, Balance
  <1>9. ex[Quote].locked >= old.total
    <2>1. Committed(hp[h], Quote) = old.left
      BY <1>1, <1>7 DEF Committed
    <2> QED
      BY <1>2, <1>7, <1>8, <2>1, LockedFor
  <1>10. /\ ex' \in [Coins -> Balance] /\ ex'[Quote].locked = ex[Quote].locked - old.total
         /\ \A d \in Coins : d # Quote => ex'[d] = ex[d]
    <2>1. ex \in [Coins -> Balance]
      BY DEF TypeInv
    <2> QED
      BY <1>2, <1>7, <1>9, <2>1, BalancesMove
  <1>11. \A d \in Coins : ex[d].locked + Committed(trade, d)
                           <= ex'[d].locked + Committed(hp[h], d)
    <2>1. \A d \in Coins : Committed(hp[h], d) = (IF d = Quote THEN old.total ELSE 0)
      BY <1>1, <1>7 DEF Committed
    <2>2. \A d \in Coins : Committed(trade, d) = 0
      BY <1>4 DEF Committed
    <2> QED
      BY <1>2, <1>8, <1>10, <2>1, <2>2
  <1>12. \A C : OneCoin(hp[h], C) => OneCoin(trade, C \cup Brought(events))
    BY <1>1, <1>4, <1>6, <1>7 DEF OneCoin
  <1>13. /\ hist \in HistOf /\ hp[h].phase # "over" /\ trade.phase # "hopping"
         /\ trade.left <= trade.total
    BY <1>1, <1>2, <1>4, <1>7 DEF TypeInv
  <1>14. PICK coins \in SUBSET Coins : coins = {Quote}
    BY <1>2
  <1> QED
    BY <1>4, <1>6, <1>7, <1>10, <1>11, <1>12, <1>13, <1>14, TradeMoves

\* The sell of a position is placed.
LEMMA PlaceSellMoves ==
  ASSUME TypeInv, Funds, NEW h \in Positions, PlaceSell(h)
  PROVE  Moves(h)
  <1>1. PICK old \in Deal : old = hp[h]
    BY DEF TypeInv
  <1>2. /\ old.left \in Nat /\ old.total \in Nat /\ old.coin \in Coins /\ old.left <= old.total
        /\ old.phase = "routed" => old.left = old.total
    BY <1>1 DEF Deal, Sells, Trade, Funds
  <1>3. old.phase \in {"ready", "routed"}
    BY <1>1 DEF PlaceSell, Trades
  <1>4. PICK phase : phase = IF old.phase = "routed" THEN "hopping" ELSE "selling"
    OBVIOUS
  <1>5. PICK trade : trade = [old EXCEPT !.phase = phase]
    OBVIOUS
  <1>6. /\ trade \in Deal /\ trade.phase = phase /\ trade.left = old.left
        /\ trade.total = old.total /\ trade.coin = old.coin
    BY <1>3, <1>4, <1>5 DEF Deal, Sells, Trade, Phase
  <1>7. PICK events : events = <<>>
    OBVIOUS
  <1>8. /\ events \in Seq(HpReport) /\ Brought(events) = {}
        /\ \A k \in DOMAIN events : events[k].hp = h /\ events[k].kind # "completed"
    BY <1>7 DEF Brought
  <1>9. /\ wire[h] = <<>> /\ hp' = [hp EXCEPT ![h] = trade]
        /\ Report(h, events) /\ Publish(ex', {old.coin}) /\ Keeping /\ hist' = hist
        /\ ex[old.coin].free >= old.total /\ ex' = Holds(ex, old.coin, old.total)
    <2>1. /\ wire[h] = <<>> /\ Publish(ex', {old.coin}) /\ Keeping /\ hist' = hist
          /\ ex[old.coin].free >= old.total /\ ex' = Holds(ex, old.coin, old.total)
      BY <1>1 DEF PlaceSell, Trades
    <2>2. hp' = [hp EXCEPT ![h] = trade]
      BY <1>1, <1>4, <1>5 DEF PlaceSell, TypeInv
    <2>3. Report(h, events)
      <3>1. <<>> \o <<>> = <<>>
        OBVIOUS
      <3>2. wire' = wire /\ wire = [wire EXCEPT ![h] = <<>>]
        BY <2>1 DEF PlaceSell, TypeInv
      <3> QED
        BY <1>7, <2>1, <3>1, <3>2 DEF Report
    <2> QED
      BY <2>1, <2>2, <2>3
  <1>10. /\ ex' \in [Coins -> Balance] /\ ex'[old.coin].locked = ex[old.coin].locked + old.total
         /\ \A d \in Coins : d # old.coin => ex'[d] = ex[d]
    <2>1. ex \in [Coins -> Balance]
      BY DEF TypeInv
    <2> QED
      BY <1>2, <1>9, <2>1, BalancesMove
  <1>11. \A d \in Coins : ex[d].locked \in Nat
    BY DEF TypeInv, Balance
  <1>12. \A d \in Coins : ex[d].locked + Committed(trade, d)
                            <= ex'[d].locked + Committed(hp[h], d)
    <2>1. \A d \in Coins : Committed(trade, d) = (IF d = old.coin THEN old.left ELSE 0)
      BY <1>4, <1>6 DEF Committed
    <2>2. \A d \in Coins : Committed(hp[h], d) = 0
      BY <1>1, <1>3 DEF Committed
    <2> QED
      BY <1>2, <1>10, <1>11, <2>1, <2>2
  <1>13. \A C : OneCoin(hp[h], C) => OneCoin(trade, C \cup Brought(events))
    BY <1>4, <1>6, <1>8 DEF OneCoin
  <1>14. /\ hist \in HistOf /\ trade.left <= trade.total /\ hp[h].phase # "over"
         /\ trade.phase \in {"routed", "hopping"} => trade.left = trade.total
    BY <1>1, <1>2, <1>3, <1>4, <1>6 DEF TypeInv
  <1>15. PICK coins \in SUBSET Coins : coins = {old.coin}
    BY <1>2
  <1> QED
    BY <1>6, <1>8, <1>9, <1>10, <1>12, <1>13, <1>14, <1>15, TradeMoves

\* The sell is cancelled before its first fill.
LEMMA CancelSellMoves ==
  ASSUME TypeInv, Funds, NEW h \in Positions, CancelSell(h)
  PROVE  Moves(h)
  <1>1. PICK old \in Deal : old = hp[h]
    BY DEF TypeInv
  <1>2. /\ old.left \in Nat /\ old.total \in Nat /\ old.coin \in Coins
    BY DEF Deal, Sells, Trade
  <1>17. old.phase = "selling"
    BY <1>1 DEF CancelSell, Trades
  <1>3. PICK trade : trade = [old EXCEPT !.phase = "ready", !.closed = TRUE]
    OBVIOUS
  <1>4. /\ trade \in Deal /\ trade.phase = "ready" /\ trade.left = old.left
        /\ trade.total = old.total
    BY <1>3, <1>17 DEF Deal, Sells, Trade, Phase
  <1>5. PICK e : e = HpEvent("cancelled", h, "", old.coin, old.total)
    OBVIOUS
  <1>6. e \in HpReport /\ e.kind = "cancelled" /\ e.hp = h
    BY <1>2, <1>5 DEF HpEvent, HpReport, HpEventOf
  <1>7. PICK events : events = <<e>>
    OBVIOUS
  <1>8. /\ events \in Seq(HpReport) /\ Brought(events) = {}
        /\ \A k \in DOMAIN events : events[k].hp = h /\ events[k].kind # "completed"
    BY <1>6, <1>7, ReportsNoFill
  <1>9. /\ old.left = old.total
        /\ wire[h] = <<>> /\ hp' = [hp EXCEPT ![h] = trade]
        /\ Report(h, events) /\ Publish(ex', {old.coin}) /\ Keeping /\ hist' = hist
        /\ ex' = Frees(ex, old.coin, old.total)
    BY <1>1, <1>3, <1>5, <1>7 DEF CancelSell, Trades, TypeInv
  <1>10. \A d \in Coins : ex[d].locked \in Nat
    BY DEF TypeInv, Balance
  <1>11. ex[old.coin].locked >= old.total
    <2>1. Committed(hp[h], old.coin) = old.left
      BY <1>1, <1>9, <1>17 DEF Committed
    <2> QED
      BY <1>2, <1>9, <1>10, <2>1, LockedFor
  <1>12. /\ ex' \in [Coins -> Balance] /\ ex'[old.coin].locked = ex[old.coin].locked - old.total
         /\ \A d \in Coins : d # old.coin => ex'[d] = ex[d]
    <2>1. ex \in [Coins -> Balance]
      BY DEF TypeInv
    <2> QED
      BY <1>2, <1>9, <1>11, <2>1, BalancesMove
  <1>13. \A d \in Coins : ex[d].locked + Committed(trade, d)
                            <= ex'[d].locked + Committed(hp[h], d)
    <2>1. \A d \in Coins : Committed(hp[h], d) = (IF d = old.coin THEN old.total ELSE 0)
      BY <1>1, <1>9, <1>17 DEF Committed
    <2>2. \A d \in Coins : Committed(trade, d) = 0
      BY <1>4 DEF Committed
    <2> QED
      BY <1>2, <1>10, <1>12, <2>1, <2>2
  <1>14. \A C : OneCoin(hp[h], C) => OneCoin(trade, C \cup Brought(events))
    BY <1>1, <1>4, <1>8, <1>17 DEF OneCoin
  <1>15. /\ hist \in HistOf /\ hp[h].phase # "over" /\ trade.phase # "hopping"
         /\ trade.left <= trade.total
    BY <1>1, <1>2, <1>4, <1>9, <1>17 DEF TypeInv
  <1>16. PICK coins \in SUBSET Coins : coins = {old.coin}
    BY <1>2
  <1> QED
    BY <1>4, <1>8, <1>9, <1>12, <1>13, <1>14, <1>15, <1>16, TradeMoves

\* The first leg of a two-hop sell is filled, and the second is placed.
LEMMA FirstLegMoves ==
  ASSUME TypeInv, Funds, NEW h \in Positions, FirstLegFills(h)
  PROVE  Moves(h)
  <1>1. PICK old \in Deal : old = hp[h]
    BY DEF TypeInv
  <1>2. /\ old.left \in Nat /\ old.total \in Nat /\ old.coin \in Coins /\ Middle \in Coins
    BY CoinsAssumption DEF Deal, Sells, Trade
  <1>3. PICK trade : trade = [old EXCEPT !.phase = "second", !.coin = Middle]
    OBVIOUS
  <1>4. /\ trade \in Deal /\ trade.phase = "second" /\ trade.left = old.left
        /\ trade.total = old.total /\ trade.coin = Middle
    BY <1>2, <1>3, CoinsAssumption DEF Deal, Sells, Trade, Phase
  <1>5. PICK e : e = HpEvent("sold", h, "a", old.coin, old.total)
    OBVIOUS
  <1>20. old.phase = "hopping" /\ old.coin # Quote
    BY <1>1 DEF FirstLegFills, Trades, Deal, Sells
  <1>6. e \in HpReport /\ e.kind = "sold" /\ e.hp = h
    BY <1>2, <1>5, <1>20 DEF HpEvent, HpReport, HpEventOf
  <1>7. PICK events : events = <<e>>
    OBVIOUS
  <1>8. /\ events \in Seq(HpReport) /\ Brought(events) = {}
        /\ \A k \in DOMAIN events : events[k].hp = h /\ events[k].kind # "completed"
    BY <1>6, <1>7, ReportsNoFill
  <1>9. /\ old.phase = "hopping" /\ old.left = old.total
        /\ wire[h] = <<>> /\ hp' = [hp EXCEPT ![h] = trade]
        /\ Report(h, events) /\ Publish(ex', {old.coin, Middle}) /\ Keeping /\ hist' = hist
        /\ ex' = Holds(Swaps(ex, old.coin, Middle, old.total), Middle, old.total)
    <2>1. old.phase = "hopping" /\ wire[h] = <<>> /\ Keeping /\ hist' = hist
      BY <1>1 DEF FirstLegFills, Trades
    <2>2. hp' = [hp EXCEPT ![h] = trade]
      BY <1>1, <1>3 DEF FirstLegFills, TypeInv
    <2>3. /\ Report(h, events) /\ Publish(ex', {old.coin, Middle})
          /\ ex' = Holds(Swaps(ex, old.coin, Middle, old.total), Middle, old.total)
      BY <1>1, <1>5, <1>7 DEF FirstLegFills
    <2> QED
      BY <1>1, <2>1, <2>2, <2>3 DEF Funds
  <1>10. \A d \in Coins : ex[d].locked \in Nat /\ ex[d].free \in Nat
    BY DEF TypeInv, Balance
  <1>11. ex[old.coin].locked >= old.total
    <2>1. Committed(hp[h], old.coin) = old.left
      BY <1>1, <1>9 DEF Committed
    <2> QED
      BY <1>2, <1>9, <1>10, <2>1, LockedFor
  <1>12. PICK b : b = Swaps(ex, old.coin, Middle, old.total)
    OBVIOUS
  <1>13. /\ b \in [Coins -> Balance] /\ b[old.coin].locked = ex[old.coin].locked - old.total
         /\ \A d \in Coins : d # old.coin => b[d].locked = ex[d].locked
         /\ \A d \in Coins \ {old.coin, Middle} : b[d] = ex[d]
         /\ b[Middle].free = ex[Middle].free + old.total
    <2>1. ex \in [Coins -> Balance]
      BY DEF TypeInv
    <2> QED
      BY <1>2, <1>11, <1>12, <2>1, BalancesSwap
  <1>14. /\ ex' \in [Coins -> Balance] /\ ex'[Middle].locked = b[Middle].locked + old.total
         /\ \A d \in Coins : d # Middle => ex'[d] = b[d]
    <2>1. b[Middle].free >= old.total /\ ex' = Holds(b, Middle, old.total)
      BY <1>2, <1>9, <1>10, <1>12, <1>13
    <2> QED
      BY <1>2, <1>13, <2>1, BalancesMove
  <1>15. \A d \in Coins : ex[d].locked + Committed(trade, d)
                            <= ex'[d].locked + Committed(hp[h], d)
    <2>1. \A d \in Coins : Committed(hp[h], d) = (IF d = old.coin THEN old.total ELSE 0)
      BY <1>1, <1>9 DEF Committed
    <2>2. \A d \in Coins : Committed(trade, d) = (IF d = Middle THEN old.total ELSE 0)
      BY <1>4, <1>9 DEF Committed
    <2>3. \A d \in Coins : ex'[d].locked = b[d].locked + (IF d = Middle THEN old.total ELSE 0)
      <3>1. \A d \in Coins : b[d].locked \in Nat
        BY <1>13 DEF Balance
      <3> QED
        BY <1>2, <1>14, <3>1
    <2>4. \A d \in Coins : b[d].locked = ex[d].locked - (IF d = old.coin THEN old.total ELSE 0)
      BY <1>2, <1>10, <1>13
    <2> QED
      BY <1>2, <1>10, <2>1, <2>2, <2>3, <2>4
  <1>16. \A C : OneCoin(hp[h], C) => OneCoin(trade, C \cup Brought(events))
    BY <1>4, <1>8 DEF OneCoin
  <1>17. /\ hist \in HistOf /\ hp[h].phase # "over" /\ trade.phase # "hopping"
         /\ trade.left <= trade.total
    BY <1>1, <1>2, <1>4, <1>9 DEF TypeInv
  <1>18. PICK coins \in SUBSET Coins : coins = {old.coin, Middle}
    BY <1>2
  <1>19. \A d \in Coins \ coins : ex'[d] = ex[d]
    BY <1>13, <1>14, <1>18
  <1> QED
    BY <1>4, <1>8, <1>9, <1>14, <1>15, <1>16, <1>17, <1>18, <1>19, TradeMoves

\* A sell is filled, partly or to its end.
LEMMA SellFillsMoves ==
  ASSUME TypeInv, Funds, NEW h \in Positions, NEW amount \in 1 .. hp[h].left,
         SellFills(h, amount)
  PROVE  Moves(h)
  <1>1. PICK old \in Deal : old = hp[h]
    BY DEF TypeInv
  <1>2. /\ old.left \in Nat /\ old.total \in Nat /\ old.coin \in Coins /\ old.left <= old.total
        /\ Quote \in Coins
    BY <1>1, CoinsAssumption DEF Deal, Sells, Trade, Funds
  <1>3. /\ amount \in Nat /\ amount > 0 /\ amount <= old.left
    <2>1. amount \in 1 .. old.left
      BY <1>1
    <2> QED
      BY <1>2, <2>1
  <1>23. (old.phase = "selling" \/ old.phase = "second") /\ wire[h] = <<>>
    BY <1>1 DEF SellFills, Trades
  <1>24. old.coin # Quote
    BY <1>23 DEF Deal, Sells
  <1>4. PICK last \in BOOLEAN : last <=> amount = old.left
    OBVIOUS
  <1>5. PICK left \in Nat : left = old.left - amount
    BY <1>2, <1>3
  <1>6. PICK trade : trade = IF last THEN [old EXCEPT !.phase = "over", !.left = 0]
                             ELSE [old EXCEPT !.left = left]
    OBVIOUS
  <1>7. /\ trade \in Deal /\ trade.coin = old.coin /\ trade.total = old.total
        /\ trade.left = left /\ trade.phase = IF last THEN "over" ELSE old.phase
    <2>1. CASE last
      <3>1. trade = [old EXCEPT !.phase = "over", !.left = 0] /\ left = 0
        BY <1>2, <1>4, <1>5, <1>6, <2>1
      <3> QED
        BY <2>1, <3>1 DEF Deal, Sells, Trade, Phase
    <2>2. CASE ~ last
      <3>1. trade = [old EXCEPT !.left = left]
        BY <1>6, <2>2
      <3> QED
        BY <2>2, <3>1 DEF Deal, Sells, Trade
    <2> QED
      BY <2>1, <2>2
  <1>8. PICK leg : leg = IF old.phase = "second" THEN "b" ELSE ""
    OBVIOUS
  <1>9. PICK sold, e, f : /\ sold = HpEvent("sold", h, leg, old.coin, amount)
                          /\ e = HpEvent("completed", h, leg, old.coin, old.total)
                          /\ f = HpEvent("completed", h, "", old.coin, old.total)
    OBVIOUS
  <1>10. /\ sold \in HpReport /\ sold.kind = "sold" /\ sold.hp = h
         /\ e \in HpReport /\ e.kind = "completed" /\ e.hp = h
         /\ f \in HpReport /\ f.kind = "completed" /\ f.hp = h
    <2>4. leg = "b" \/ leg = ""
      BY <1>8
    <2>1. sold \in HpReport /\ sold.kind = "sold" /\ sold.hp = h
      BY <1>2, <1>3, <1>9, <1>24, <2>4 DEF HpEvent, HpReport, HpEventOf
    <2>2. e \in HpReport /\ e.kind = "completed" /\ e.hp = h
      BY <1>2, <1>9, <2>4 DEF HpEvent, HpReport, HpEventOf
    <2>3. f \in HpReport /\ f.kind = "completed" /\ f.hp = h
      BY <1>2, <1>9 DEF HpEvent, HpReport, HpEventOf
    <2> QED
      BY <2>1, <2>2, <2>3
  <1>11. PICK events : events = IF last THEN <<sold>> \o <<e, f>> ELSE <<sold>>
    OBVIOUS
  <1>12. /\ events \in Seq(HpReport) /\ Brought(events) = {}
         /\ \A k \in DOMAIN events :
                events[k].hp = h /\ (events[k].kind = "completed" => last)
    <2>1. CASE last
      <3>1. events \in Seq({sold, e, f})
        BY <1>11, <2>1
      <3>2. {sold, e, f} \in SUBSET HpReport
        BY <1>10
      <3>4. events \in Seq(HpReport)
        BY <3>1, <3>2
      <3>5. \A k \in DOMAIN events : events[k] \in {sold, e, f}
        BY <3>1
      <3>3. \A k \in DOMAIN events : ~ Fill(events[k]) /\ events[k].hp = h
        BY <1>10, <3>5 DEF Fill
      <3> QED
        BY <2>1, <3>3, <3>4, NoFillBrings
    <2>2. CASE ~ last
      <3>1. events = <<sold>>
        BY <1>11, <2>2
      <3> QED
        BY <1>10, <3>1, ReportsNoFill
    <2> QED
      BY <2>1, <2>2
  <1>13. /\ hp' = [hp EXCEPT ![h] = trade] /\ Report(h, events)
         /\ Publish(ex', {Quote, old.coin}) /\ Keeping /\ hist' = hist
         /\ ex' = Swaps(ex, old.coin, Quote, amount)
    <2>1. hp' = [hp EXCEPT ![h] = trade] /\ Report(h, events)
      <3>1. CASE last
        BY <1>1, <1>4, <1>6, <1>8, <1>9, <1>11, <3>1 DEF SellFills, TypeInv, Completed
      <3>2. CASE ~ last
        BY <1>1, <1>4, <1>5, <1>6, <1>8, <1>9, <1>11, <3>2 DEF SellFills, TypeInv
      <3> QED
        BY <3>1, <3>2
    <2> QED
      BY <1>1, <2>1 DEF SellFills
  <1>14. \A d \in Coins : ex[d].locked \in Nat
    BY DEF TypeInv, Balance
  <1>15. ex[old.coin].locked >= amount
    <2>1. Committed(hp[h], old.coin) = old.left
      BY <1>1, <1>23 DEF Committed
    <2>2. old.left <= ex[old.coin].locked
      BY <1>2, <2>1, LockedFor
    <2> QED
      BY <1>2, <1>3, <1>14, <2>2
  <1>16. /\ ex' \in [Coins -> Balance] /\ ex'[old.coin].locked = ex[old.coin].locked - amount
         /\ \A d \in Coins : d # old.coin => ex'[d].locked = ex[d].locked
         /\ \A d \in Coins \ {old.coin, Quote} : ex'[d] = ex[d]
    <2>1. ex \in [Coins -> Balance]
      BY DEF TypeInv
    <2> QED
      BY <1>2, <1>3, <1>13, <1>15, <2>1, BalancesSwap
  <1>17. \A d \in Coins : ex[d].locked + Committed(trade, d)
                            <= ex'[d].locked + Committed(hp[h], d)
    <2>1. \A d \in Coins : Committed(trade, d) = (IF d = old.coin THEN left ELSE 0)
      BY <1>2, <1>4, <1>5, <1>7, <1>23 DEF Committed
    <2>2. \A d \in Coins : Committed(hp[h], d) = (IF d = old.coin THEN old.left ELSE 0)
      BY <1>1, <1>23 DEF Committed
    <2> QED
      BY <1>2, <1>3, <1>5, <1>14, <1>16, <2>1, <2>2
  <1>18. \A C : OneCoin(hp[h], C) => OneCoin(trade, C \cup Brought(events))
    BY <1>7, <1>12, <1>23 DEF OneCoin
  <1>19. hist \in HistOf
    BY DEF TypeInv
  <1>20. trade.left <= trade.total /\ trade.phase # "hopping" /\ hp[h].phase # "over"
    BY <1>1, <1>2, <1>3, <1>5, <1>7, <1>23
  <1>21. \A k \in DOMAIN events :
           events[k].hp = h /\ (events[k].kind = "completed" => trade.phase = "over")
    BY <1>7, <1>12
  <1>22. PICK coins \in SUBSET Coins : coins = {Quote, old.coin}
    BY <1>2
  <1> QED
    BY <1>7, <1>12, <1>13, <1>16, <1>17, <1>18, <1>19, <1>20, <1>21, <1>22, <1>23, TradeMoves

\* A step of the exchange sends the balances again, or moves a trade on.
LEMMA ExchangeMoves ==
  ASSUME TypeInv, Funds, Exchange
  PROVE  Subscribed \/ \E h \in Positions : Moves(h)
  BY PlaceBuyMoves, BuyFillsMoves, CancelBuyMoves, PlaceSellMoves, CancelSellMoves,
     FirstLegMoves, SellFillsMoves, Zenon DEF Exchange

\* What is published are the balances of some coins, and the two queues get them.
LEMMA PublishIs ==
  ASSUME NEW balances \in [Coins -> Balance], NEW coins \in SUBSET Coins,
         Publish(balances, coins), IsQueue(toUi), IsQueue(toBack)
  PROVE  \E m, e : /\ IsMessage(m) /\ DOMAIN m = coins /\ \A c \in coins : m[c] = balances[c]
                   /\ e = [kind |-> "balances", of |-> m] /\ IsEvent(e)
                   /\ toUi' = Append(toUi, e) /\ toBack' = toBack \o <<m, m>>
                   /\ Among(toUi', {toUi[k] : k \in DOMAIN toUi} \cup {e})
                   /\ Among(toBack', {toBack[k] : k \in DOMAIN toBack} \cup {m})
  <1>1. PICK m : m = [c \in coins |-> balances[c]]
    OBVIOUS
  <1>2. IsMessage(m) /\ DOMAIN m = coins /\ \A c \in coins : m[c] = balances[c]
    BY <1>1 DEF IsMessage
  <1>3. PICK e : e = [kind |-> "balances", of |-> m]
    OBVIOUS
  <1>4. e.of = m /\ IsEvent(e)
    BY <1>2, <1>3 DEF IsEvent, IsUiEvent
  <1>5. toUi' = Append(toUi, e) /\ toBack' = toBack \o <<m, m>>
    BY <1>1, <1>3 DEF Publish
  <1>6. Among(Append(toUi, e), {toUi[k] : k \in DOMAIN toUi} \cup {e})
    BY QueueGrows
  <1>7. Among(toBack \o <<m, m>>, {toBack[k] : k \in DOMAIN toBack} \cup {m, m})
    BY QueueGrows
  <1>8. Among(toBack', {toBack[k] : k \in DOMAIN toBack} \cup {m})
    BY <1>5, <1>7 DEF Among
  <1>9. Among(toUi', {toUi[k] : k \in DOMAIN toUi} \cup {e})
    BY <1>5, <1>6
  <1> QED
    BY <1>2, <1>3, <1>4, <1>5, <1>8, <1>9

\* What the queues hold after a step: what they held, and what is sent.
LEMMA QueuesTyped ==
  ASSUME TypeInv, NEW E, NEW M, Among(toUi', E), Among(toBack', M),
         \A e \in E : e \in {toUi[k] : k \in DOMAIN toUi} \/ IsEvent(e),
         \A m \in M : m \in {toBack[k] : k \in DOMAIN toBack} \/ IsMessage(m)
  PROVE  /\ IsQueue(toUi') /\ \A k \in DOMAIN toUi' : IsEvent(toUi'[k])
         /\ IsQueue(toBack') /\ \A k \in DOMAIN toBack' : IsMessage(toBack'[k])
  <1>1. \A e \in E : IsEvent(e)
    BY DEF TypeInv
  <1>2. \A m \in M : IsMessage(m)
    BY DEF TypeInv
  <1> QED
    BY <1>1, <1>2 DEF Among

\* What is listed of the currency stays so.
LEMMA ReceivedKept ==
  ASSUME TypeInv, ReceivedInv, back' = back, DOMAIN p.items \subseteq DOMAIN p'.items,
         \A i \in DOMAIN p.items : p'.items[i].coin = p.items[i].coin,
         \A h \in Positions : Received(h) \in DOMAIN p'.items => Received(h) \in DOMAIN p.items,
         QuoteListed => Quote \in DOMAIN p'.lots,
         hist'.credited = hist.credited
  PROVE  ReceivedInv'
  <1>1. QuoteListed => QuoteListed'
    <2> SUFFICES ASSUME QuoteListed PROVE QuoteListed'
      OBVIOUS
    <2>1. PICK i \in Range(back) : p.items[i].coin = Quote
      BY DEF QuoteListed
    <2>2. Range(back) \subseteq DOMAIN p.items
      BY DEF TypeInv, Range
    <2> QED
      BY <2>1, <2>2 DEF QuoteListed
  <1> QED
    BY <1>1 DEF ReceivedInv

\* The balances are sent again.
LEMMA SubscribedStep ==
  ASSUME BooksInv, Subscribed
  PROVE  BooksInv'
  <1>1. /\ p' = p /\ back' = back /\ wire' = wire /\ hp' = hp /\ ex' = ex /\ hist' = hist
        /\ toUi = <<>> /\ Publish(ex, Coins) /\ TypeInv
    BY DEF Subscribed, Keeping, BooksInv
  <1>2. PICK m, e : /\ IsMessage(m) /\ IsEvent(e) /\ e = [kind |-> "balances", of |-> m]
                    /\ Among(toUi', {toUi[k] : k \in DOMAIN toUi} \cup {e})
                    /\ Among(toBack', {toBack[k] : k \in DOMAIN toBack} \cup {m})
    BY <1>1, PublishIs DEF TypeInv
  <1>3. /\ IsQueue(toUi') /\ \A k \in DOMAIN toUi' : IsEvent(toUi'[k])
        /\ IsQueue(toBack') /\ \A k \in DOMAIN toBack' : IsMessage(toBack'[k])
    BY <1>1, <1>2, QueuesTyped
  <1>4. TypeInv'
    BY <1>1, <1>3 DEF TypeInv
  <1>5. \A k \in DOMAIN toUi' : toUi'[k].kind = "balances"
    BY <1>1, <1>2 DEF Among
  <1>6. \A h \in Positions : Queued(h)' = FALSE /\ Waiting(h)' = {}
    BY <1>5 DEF Queued, Waiting, Fill
  <1>7. ProceedsInv'
    <2>1. \A h \in Positions : Coming(h)' => Coming(h)
      BY <1>1, <1>6 DEF Coming, Told
    <2> QED
      BY <1>1, <2>1 DEF BooksInv, ProceedsInv
  <1>8. CarriersInv'
    <2>1. \A h \in Positions : Carried(h)' \in SUBSET Carried(h)
      BY <1>1, <1>6 DEF Carried, Held
    <2> QED
      BY <1>1, <2>1, OneCoinLess DEF BooksInv, CarriersInv
  <1>9. Funds' /\ RowsInv'
    BY <1>1 DEF BooksInv, Funds, AllCommitted, RowsInv
  <1>10. ReceivedInv'
    BY <1>1 DEF BooksInv, ReceivedInv, QuoteListed
  <1> QED
    BY <1>4, <1>7, <1>8, <1>9, <1>10 DEF BooksInv

\* A trade moves on.
LEMMA MovesStep ==
  ASSUME BooksInv, NEW g \in Positions, Moves(g)
  PROVE  BooksInv'
  <1>1. /\ p' = p /\ back' = back /\ TypeInv /\ Funds' /\ hist' \in HistOf
        /\ hist'.credited = hist.credited /\ hist'.replaced = hist.replaced
        /\ wire' \in [Positions -> Seq(HpReport)] /\ hp' \in [Positions -> Deal]
        /\ ex' \in [Coins -> Balance]
        /\ \A h \in Positions \ {g} : hp'[h] = hp[h] /\ wire'[h] = wire[h]
    BY DEF Moves, BooksInv
  <1>2. PICK coins \in SUBSET Coins : Publish(ex', coins)
    BY DEF Moves
  <1>3. PICK m, e : /\ IsMessage(m) /\ IsEvent(e) /\ e = [kind |-> "balances", of |-> m]
                    /\ Among(toUi', {toUi[k] : k \in DOMAIN toUi} \cup {e})
                    /\ Among(toBack', {toBack[k] : k \in DOMAIN toBack} \cup {m})
    BY <1>1, <1>2, PublishIs DEF TypeInv
  <1>4. /\ IsQueue(toUi') /\ \A k \in DOMAIN toUi' : IsEvent(toUi'[k])
        /\ IsQueue(toBack') /\ \A k \in DOMAIN toBack' : IsMessage(toBack'[k])
    <2>1. PICK E : E = {toUi[k] : k \in DOMAIN toUi} \cup {e}
      OBVIOUS
    <2>2. PICK M : M = {toBack[k] : k \in DOMAIN toBack} \cup {m}
      OBVIOUS
    <2>3. \A x \in E : x \in {toUi[k] : k \in DOMAIN toUi} \/ IsEvent(x)
      BY <1>3, <2>1
    <2>4. \A x \in M : x \in {toBack[k] : k \in DOMAIN toBack} \/ IsMessage(x)
      BY <1>3, <2>2
    <2>5. Among(toUi', E) /\ Among(toBack', M) /\ TypeInv
      BY <1>1, <1>3, <2>1, <2>2
    <2> QED
      BY <2>3, <2>4, <2>5, QueuesTyped
  <1>5. TypeInv'
    BY <1>1, <1>4 DEF TypeInv
  <1>6. \A h \in Positions : (Queued(h)' => Queued(h)) /\ Waiting(h)' \in SUBSET Waiting(h)
    <2>1. \A k \in DOMAIN toUi' : toUi'[k].kind = "balances" \/ \E l \in DOMAIN toUi : toUi'[k] = toUi[l]
      BY <1>3 DEF Among
    <2> QED
      BY <2>1 DEF Queued, Waiting, Fill
  <1>7. ASSUME NEW h \in Positions, h # g
        PROVE  (Coming(h)' => Coming(h)) /\ OneCoin(hp'[h], Carried(h)')
    <2>1. Carried(h)' \in SUBSET Carried(h)
      BY <1>1, <1>6, <1>7 DEF Carried, Held
    <2>2. Coming(h)' => Coming(h)
      BY <1>1, <1>6, <1>7 DEF Coming, Told
    <2> QED
      BY <1>1, <1>7, <2>1, <2>2, OneCoinLess DEF BooksInv, CarriersInv
  <1>8. /\ ~ Coming(g) /\ hist.credited[g] = 0
        /\ Coming(g)' => hp'[g].phase = "over"
        /\ \A k \in DOMAIN wire'[g] : wire'[g][k].hp = g
    <2>1. ~ Coming(g) /\ hist.credited[g] = 0
      BY DEF Moves, BooksInv, ProceedsInv
    <2>2. Coming(g)' => Told(g)'
      BY <1>6, <2>1 DEF Coming
    <2> QED
      BY <2>1, <2>2 DEF Moves, Told
  <1>9. OneCoin(hp'[g], Carried(g)')
    <2>1. Carried(g)' \in SUBSET (Carried(g) \cup Brought(wire'[g]))
      BY <1>1, <1>6 DEF Carried, Held
    <2>2. OneCoin(hp'[g], Carried(g) \cup Brought(wire'[g]))
      BY DEF Moves, BooksInv, CarriersInv
    <2> QED
      BY <2>1, <2>2, OneCoinLess
  <1>10. ProceedsInv'
    <2>1. ASSUME NEW h \in Positions
          PROVE  /\ \A k \in DOMAIN wire'[h] : wire'[h][k].hp = h
                 /\ Coming(h)' => hp'[h].phase = "over"
                 /\ hist'.credited[h] \in {0, 1}
                 /\ hist'.credited[h] = 1 =>
                        hp'[h].phase = "over" /\ (h \in p'.processed \/ ~ Coming(h)')
      <3>1. /\ \A k \in DOMAIN wire[h] : wire[h][k].hp = h
            /\ Coming(h) => hp[h].phase = "over"
            /\ hist.credited[h] \in {0, 1}
            /\ hist.credited[h] = 1 => hp[h].phase = "over" /\ (h \in p.processed \/ ~ Coming(h))
        BY DEF BooksInv, ProceedsInv
      <3>2. CASE h = g
        BY <1>1, <1>8, <3>1, <3>2
      <3>3. CASE h # g
        <4>1. hp'[h] = hp[h] /\ wire'[h] = wire[h] /\ (Coming(h)' => Coming(h))
          BY <1>1, <1>7, <3>3
        <4> QED
          BY <1>1, <3>1, <4>1
      <3> QED
        BY <3>2, <3>3
    <2> QED
      BY <2>1 DEF ProceedsInv
  <1>11. CarriersInv'
    BY <1>7, <1>9 DEF CarriersInv
  <1>12. RowsInv'
    BY <1>1 DEF BooksInv, RowsInv
  <1>13. ReceivedInv'
    BY <1>1 DEF BooksInv, ReceivedInv, QuoteListed
  <1> QED
    BY <1>1, <1>5, <1>10, <1>11, <1>12, <1>13 DEF BooksInv

\* A step of the exchange keeps the books in order.
LEMMA ExchangeStep ==
  ASSUME BooksInv, Exchange
  PROVE  BooksInv'
  <1>1. TypeInv /\ Funds
    BY DEF BooksInv
  <1> QED
    BY <1>1, ExchangeMoves, SubscribedStep, MovesStep

\* What a strategy sends leaves it for the screen's queue.
LEMMA EmitIs ==
  ASSUME TypeInv, NEW g \in Positions, Emit(g)
  PROVE  \E e \in HpReport :
            /\ toUi' = Append(toUi, e) /\ Among(toUi', {toUi[k] : k \in DOMAIN toUi} \cup {e})
            /\ e \in {wire[g][k] : k \in DOMAIN wire[g]}
            /\ \A k \in DOMAIN wire'[g] : \E l \in DOMAIN wire[g] : wire'[g][k] = wire[g][l]
            /\ wire' \in [Positions -> Seq(HpReport)]
            /\ \A h \in Positions \ {g} : wire'[h] = wire[h]
            /\ p' = p /\ back' = back /\ toBack' = toBack /\ hp' = hp /\ ex' = ex /\ hist' = hist
  <1>1. /\ wire[g] \in Seq(HpReport) /\ wire[g] # <<>>
        /\ wire' = [wire EXCEPT ![g] = Tail(wire[g])] /\ toUi' = Append(toUi, Head(wire[g]))
        /\ p' = p /\ back' = back /\ toBack' = toBack /\ hp' = hp /\ ex' = ex /\ hist' = hist
    BY DEF TypeInv, Emit
  <1>2. PICK r \in Seq(HpReport) : r = wire[g]
    BY <1>1
  <1>3. IsQueue(r) /\ r # <<>>
    BY <1>1, <1>2, QueueOf DEF Among
  <1>4. /\ Among(Tail(r), {r[k] : k \in DOMAIN r}) /\ Head(r) \in {r[k] : k \in DOMAIN r}
    BY <1>3, QueueShrinks
  <1>5. Head(r) \in HpReport /\ Tail(r) \in Seq(HpReport)
    BY <1>2, <1>3, <1>1
  <1>6. PICK e \in HpReport : e = Head(r)
    BY <1>5
  <1>7. toUi' = Append(toUi, e) /\ Among(toUi', {toUi[k] : k \in DOMAIN toUi} \cup {e})
    BY <1>1, <1>2, <1>6, QueueGrows DEF TypeInv
  <1>8. /\ wire' \in [Positions -> Seq(HpReport)] /\ wire'[g] = Tail(r)
        /\ \A h \in Positions \ {g} : wire'[h] = wire[h]
    BY <1>1, <1>2, <1>5 DEF TypeInv
  <1>9. \A k \in DOMAIN wire'[g] : \E l \in DOMAIN r : wire'[g][k] = r[l]
    BY <1>4, <1>8 DEF Among
  <1>10. /\ e \in {wire[g][k] : k \in DOMAIN wire[g]}
         /\ \A k \in DOMAIN wire'[g] : \E l \in DOMAIN wire[g] : wire'[g][k] = wire[g][l]
    BY <1>2, <1>4, <1>6, <1>9
  <1> QED
    BY <1>1, <1>7, <1>8, <1>10, Zenon

\* A strategy reports to the screen.
LEMMA EmitStep ==
  ASSUME BooksInv, NEW g \in Positions, Emit(g)
  PROVE  BooksInv'
  <1>1. TypeInv
    BY DEF BooksInv
  <1>2. PICK e \in HpReport :
            /\ toUi' = Append(toUi, e) /\ Among(toUi', {toUi[k] : k \in DOMAIN toUi} \cup {e})
            /\ e \in {wire[g][k] : k \in DOMAIN wire[g]}
            /\ \A k \in DOMAIN wire'[g] : \E l \in DOMAIN wire[g] : wire'[g][k] = wire[g][l]
            /\ wire' \in [Positions -> Seq(HpReport)]
            /\ \A h \in Positions \ {g} : wire'[h] = wire[h]
            /\ p' = p /\ back' = back /\ toBack' = toBack /\ hp' = hp /\ ex' = ex /\ hist' = hist
    BY <1>1, EmitIs
  <1>3. PICK l \in DOMAIN wire[g] : wire[g][l] = e
    BY <1>2
  <1>4. e.hp = g
    BY <1>3 DEF BooksInv, ProceedsInv
  <1>5. IsEvent(e)
    BY DEF IsEvent, IsUiEvent, HpReport
  <1>6. \A k \in DOMAIN toUi' : toUi'[k] = e \/ \E n \in DOMAIN toUi : toUi'[k] = toUi[n]
    BY <1>2 DEF Among
  <1>7. IsQueue(toUi') /\ \A k \in DOMAIN toUi' : IsEvent(toUi'[k])
    BY <1>1, <1>2, <1>5, <1>6 DEF Among, TypeInv
  <1>8. TypeInv'
    BY <1>1, <1>2, <1>7 DEF TypeInv
  <1>9. \A h \in Positions : \A k \in DOMAIN wire'[h] :
            \E n \in DOMAIN wire[h] : wire'[h][k] = wire[h][n]
    BY <1>2
  <1>10. ASSUME NEW h \in Positions
         PROVE  (Coming(h)' => Coming(h)) /\ Carried(h)' \in SUBSET Carried(h)
    <2>1. /\ Told(h)' => Told(h)
          /\ Brought(wire'[h]) \subseteq Brought(wire[h])
      BY <1>9 DEF Told, Brought, Fill
    <2>2. CASE h # g
      <3>1. (Queued(h)' => Queued(h)) /\ Waiting(h)' \subseteq Waiting(h)
        BY <1>4, <1>6, <2>2 DEF Queued, Waiting
      <3> QED
        BY <1>2, <2>1, <3>1 DEF Coming, Carried, Held
    <2>3. CASE h = g
      <3>1. (Queued(h)' => Queued(h) \/ Told(h))
        BY <1>3, <1>6, <2>3 DEF Queued, Told
      <3>2. Waiting(h)' \subseteq Waiting(h) \cup Brought(wire[h])
        BY <1>3, <1>6, <2>3 DEF Waiting, Brought, Fill
      <3> QED
        BY <1>2, <2>1, <3>1, <3>2 DEF Coming, Carried, Held
    <2> QED
      BY <2>2, <2>3
  <1>11. ProceedsInv'
    BY <1>2, <1>9, <1>10 DEF BooksInv, ProceedsInv
  <1>12. CarriersInv'
    BY <1>2, <1>10, OneCoinLess DEF BooksInv, CarriersInv
  <1>13. Funds' /\ RowsInv'
    BY <1>2 DEF BooksInv, Funds, AllCommitted, RowsInv
  <1>14. ReceivedInv'
    BY <1>2 DEF BooksInv, ReceivedInv, QuoteListed
  <1> QED
    BY <1>8, <1>11, <1>12, <1>13, <1>14 DEF BooksInv

\* The backend works on its list, and relays that list and the balances.
LEMMA RelayIs ==
  ASSUME TypeInv, Relay
  PROVE  /\ Handles(p, p', DOMAIN Head(toBack), {}) /\ p'.processed = p.processed
         /\ p'.inv = p.inv /\ DOMAIN p'.items = DOMAIN p.items /\ p'.lots = p.lots
         /\ IsMessage(Head(toBack)) /\ toBack # <<>> /\ toBack' = Tail(toBack)
         /\ Among(toBack', {toBack[k] : k \in DOMAIN toBack})
         /\ toUi' = toUi \o <<[kind |-> "inventory"], [kind |-> "balances", of |-> Head(toBack)]>>
         /\ Among(toUi', {toUi[k] : k \in DOMAIN toUi} \cup
                {[kind |-> "inventory"], [kind |-> "balances", of |-> Head(toBack)]})
  <1>1. /\ IsQueue(toBack) /\ toBack # <<>> /\ toBack' = Tail(toBack) /\ IsQueue(toUi)
        /\ p' = handle_account_position(p, back, Head(toBack))
        /\ toUi' = toUi \o <<[kind |-> "inventory"], [kind |-> "balances", of |-> Head(toBack)]>>
    BY DEF TypeInv, Relay
  <1>2. Among(toBack', {toBack[k] : k \in DOMAIN toBack})
    BY <1>1, QueueShrinks
  <1>3. Head(toBack) \in {toBack[k] : k \in DOMAIN toBack}
    BY <1>1, QueueShrinks
  <1>4. IsMessage(Head(toBack))
    BY <1>3 DEF TypeInv
  <1>5. PICK m : m = Head(toBack)
    OBVIOUS
  <1>6. PICK t : t = p
    OBVIOUS
  <1>7. PICK u : u = handle_account_position(t, back, m)
    OBVIOUS
  <1>8. Sound(t) /\ back \in Seq(DOMAIN t.items) /\ IsMessage(m)
    BY <1>4, <1>5, <1>6 DEF TypeInv
  <1>9. /\ Handles(t, u, DOMAIN m, {}) /\ u.processed = t.processed /\ u.inv = t.inv
        /\ u.lots = t.lots
    BY <1>7, <1>8, BalancesHandle
  <1>10. DOMAIN u.items = DOMAIN t.items
    BY <1>9 DEF Handles, Touches
  <1>11. p' = u
    BY <1>1, <1>5, <1>6, <1>7
  <1>12. PICK e, f : e = [kind |-> "inventory"] /\ f = [kind |-> "balances", of |-> m]
    OBVIOUS
  <1>13. Among(toUi \o <<e, f>>, {toUi[k] : k \in DOMAIN toUi} \cup {e, f})
    BY <1>1, QueueGrows
  <1>14. Among(toUi', {toUi[k] : k \in DOMAIN toUi} \cup
                {[kind |-> "inventory"], [kind |-> "balances", of |-> Head(toBack)]})
    BY <1>1, <1>5, <1>12, <1>13
  <1> QED
    BY <1>1, <1>2, <1>4, <1>5, <1>6, <1>9, <1>10, <1>11, <1>14

\* The backend relays a balances message.
LEMMA RelayStep ==
  ASSUME BooksInv, Relay
  PROVE  BooksInv'
  <1>1. TypeInv /\ back' = back /\ wire' = wire /\ hp' = hp /\ ex' = ex /\ hist' = hist
    BY DEF BooksInv, Relay
  <1>2. /\ Handles(p, p', DOMAIN Head(toBack), {}) /\ p'.processed = p.processed
        /\ p'.inv = p.inv /\ DOMAIN p'.items = DOMAIN p.items /\ p'.lots = p.lots
        /\ IsMessage(Head(toBack))
    BY <1>1, RelayIs
  <1>3. PICK e, f : e = [kind |-> "inventory"] /\ f = [kind |-> "balances", of |-> Head(toBack)]
    OBVIOUS
  <1>4. /\ Among(toUi', {toUi[k] : k \in DOMAIN toUi} \cup {e, f})
        /\ Among(toBack', {toBack[k] : k \in DOMAIN toBack})
    BY <1>1, <1>3, RelayIs
  <1>5. IsEvent(e) /\ IsEvent(f)
    BY <1>2, <1>3 DEF IsEvent, IsUiEvent
  <1>6. IsQueue(toUi') /\ \A k \in DOMAIN toUi' : IsEvent(toUi'[k])
    BY <1>1, <1>4, <1>5 DEF Among, TypeInv
  <1>7. IsQueue(toBack') /\ \A k \in DOMAIN toBack' : IsMessage(toBack'[k])
    BY <1>1, <1>4 DEF Among, TypeInv
  <1>8. TypeInv'
    BY <1>1, <1>2, <1>6, <1>7 DEF TypeInv, Handles
  <1>9. \A k \in DOMAIN toUi' : \/ toUi'[k].kind = "inventory" \/ toUi'[k].kind = "balances"
                                \/ \E n \in DOMAIN toUi : toUi'[k] = toUi[n]
    BY <1>3, <1>4 DEF Among
  <1>10. ASSUME NEW h \in Positions
         PROVE  (Coming(h)' => Coming(h)) /\ Carried(h)' \in SUBSET Carried(h)
    <2>1. (Queued(h)' => Queued(h)) /\ Waiting(h)' \subseteq Waiting(h)
      BY <1>9 DEF Queued, Waiting, Fill
    <2>2. Held(h)' = Held(h)
      BY <1>2 DEF Held, Handles, Touches
    <2> QED
      BY <1>1, <2>1, <2>2 DEF Coming, Told, Carried
  <1>11. ProceedsInv'
    BY <1>1, <1>2, <1>10 DEF BooksInv, ProceedsInv
  <1>12. CarriersInv'
    BY <1>1, <1>10, OneCoinLess DEF BooksInv, CarriersInv
  <1>13. Funds' /\ RowsInv'
    BY <1>1, <1>2 DEF BooksInv, Funds, AllCommitted, RowsInv, Handles
  <1>14. ReceivedInv'
    <2>1. \A i \in DOMAIN p.items : p'.items[i].coin = p.items[i].coin
      BY <1>2 DEF Handles, Touches
    <2>2. ReceivedInv
      BY DEF BooksInv
    <2>3. QuoteListed => Quote \in DOMAIN p'.lots
      BY <1>2 DEF QuoteListed
    <2> QED
      BY <1>1, <1>2, <2>1, <2>2, <2>3, ReceivedKept
  <1> QED
    BY <1>8, <1>11, <1>12, <1>13, <1>14 DEF BooksInv

\* What the screen takes is an event that was queued.
LEMMA TakenIs ==
  ASSUME TypeInv, toUi # <<>>, toUi' = Tail(toUi)
  PROVE  /\ Among(toUi', {toUi[k] : k \in DOMAIN toUi})
         /\ Head(toUi) \in {toUi[k] : k \in DOMAIN toUi} /\ IsEvent(Head(toUi))
  <1>1. Among(toUi', {toUi[k] : k \in DOMAIN toUi})
    BY QueueShrinks DEF TypeInv
  <1>2. Head(toUi) \in {toUi[k] : k \in DOMAIN toUi}
    BY QueueShrinks DEF TypeInv
  <1> QED
    BY <1>1, <1>2 DEF TypeInv

\* A step of the screen that leaves its books sound: no event is queued that was not,
\* and a lot it opens is of the coin its event tells.
LEMMA ScreenKeeps ==
  ASSUME BooksInv, toUi # <<>>, toUi' = Tail(toUi), Others,
         Sound(p'), DOMAIN p.items \subseteq DOMAIN p'.items, hist' \in HistOf,
         \A h \in Positions : Held(h)' \subseteq Held(h) \cup Waiting(h)
  PROVE  TypeInv' /\ Funds' /\ CarriersInv' /\ \A h \in Positions : Coming(h)' => Coming(h)
  <1>1. TypeInv /\ back' = back /\ toBack' = toBack /\ wire' = wire /\ hp' = hp /\ ex' = ex
    BY DEF BooksInv, Others
  <1>2. Among(toUi', {toUi[k] : k \in DOMAIN toUi})
    BY <1>1, TakenIs
  <1>3. back \in Seq(DOMAIN p'.items)
    BY <1>1 DEF TypeInv
  <1>4. IsQueue(toUi') /\ \A k \in DOMAIN toUi' : \E n \in DOMAIN toUi : toUi'[k] = toUi[n]
    BY <1>2 DEF Among
  <1>5. \A k \in DOMAIN toUi' : IsEvent(toUi'[k])
    BY <1>1, <1>4 DEF TypeInv
  <1>6. TypeInv'
    BY <1>1, <1>3, <1>4, <1>5 DEF TypeInv
  <1>7. ASSUME NEW h \in Positions
        PROVE  (Coming(h)' => Coming(h)) /\ Carried(h)' \in SUBSET Carried(h)
    <2>1. (Queued(h)' => Queued(h)) /\ Waiting(h)' \subseteq Waiting(h)
      BY <1>4 DEF Queued, Waiting
    <2> QED
      BY <1>1, <2>1 DEF Coming, Told, Carried
  <1>8. CarriersInv'
    BY <1>1, <1>7, OneCoinLess DEF BooksInv, CarriersInv
  <1>9. Funds'
    BY <1>1 DEF BooksInv, Funds, AllCommitted
  <1> QED
    BY <1>6, <1>7, <1>8, <1>9

\* A handler that completes no sell.
LEMMA HandlerStep ==
  ASSUME BooksInv, toUi # <<>>, toUi' = Tail(toUi), Others, NEW C, NEW N,
         Handles(p, p', C, N), p'.processed = p.processed,
         Quote \in DOMAIN p.lots => Quote \in DOMAIN p'.lots,
         N = {} \/ \E h \in Positions : /\ N = {HpLot(h)}
                                        /\ p'.items[HpLot(h)].coin \in Waiting(h),
         hist' \in HistOf, hist'.credited = hist.credited, hist'.replaced = hist.replaced
  PROVE  BooksInv'
  <1>1. /\ DOMAIN p.items \subseteq DOMAIN p'.items /\ DOMAIN p'.items \subseteq DOMAIN p.items \cup N
        /\ \A i \in DOMAIN p.items : p'.items[i].coin = p.items[i].coin
        /\ Sound(p') /\ (RowsFollow(p) => RowsFollow(p'))
    BY DEF Handles, Touches
  <1>2. ASSUME NEW h \in Positions
        PROVE  /\ Held(h)' \subseteq Held(h) \cup Waiting(h)
               /\ Received(h) \in DOMAIN p'.items => Received(h) \in DOMAIN p.items
    <2>1. \A g \in Positions : HpLot(g) # Received(h) /\ (HpLot(g) = HpLot(h) => g = h)
      BY DEF HpLot, Received
    <2>2. HpLot(h) \in N => p'.items[HpLot(h)].coin \in Waiting(h)
      BY <2>1
    <2>3. Received(h) \notin N
      BY <2>1
    <2> QED
      BY <1>1, <2>2, <2>3 DEF Held
  <1>3. TypeInv' /\ Funds' /\ CarriersInv' /\ \A h \in Positions : Coming(h)' => Coming(h)
    BY <1>1, <1>2, ScreenKeeps
  <1>4. RowsInv'
    BY <1>1 DEF BooksInv, RowsInv
  <1>5. ProceedsInv'
    BY <1>2, <1>3 DEF BooksInv, ProceedsInv, Others
  <1>6. ReceivedInv'
    <2>1. TypeInv /\ ReceivedInv /\ back' = back
      BY DEF BooksInv, Others
    <2>2. QuoteListed => Quote \in DOMAIN p'.lots
      BY DEF QuoteListed
    <2> QED
      BY <1>1, <1>2, <2>1, <2>2, ReceivedKept
  <1> QED
    BY <1>3, <1>4, <1>5, <1>6 DEF BooksInv

\* The backend's list replaces the screen's.
LEMMA InventoryStep ==
  ASSUME BooksInv, TakeInventory
  PROVE  BooksInv'
  <1>1. /\ TypeInv /\ toUi # <<>> /\ toUi' = Tail(toUi) /\ Others
        /\ p' = set_inventory(p, back)
        /\ hist' = [hist EXCEPT !.replaced = @ \/ p.inv # back]
    BY DEF BooksInv, TakeInventory, Takes
  <1>2. PICK t : t = p
    OBVIOUS
  <1>3. PICK u : u = set_inventory(t, back)
    OBVIOUS
  <1>4. Sound(t) /\ back \in Seq(DOMAIN t.items) /\ IsInjective(back)
    BY <1>1, <1>2 DEF TypeInv
  <1>5. /\ Sound(u) /\ u.inv = back /\ u.items = t.items /\ u.rows = t.rows
        /\ u.processed = t.processed
        /\ \A i \in Range(back) : t.items[i].coin \in DOMAIN u.lots
    BY <1>3, <1>4, InventorySet
  <1>6. /\ Sound(p') /\ p'.inv = back /\ p'.items = p.items /\ p'.rows = p.rows
        /\ p'.processed = p.processed
        /\ \A i \in Range(back) : p.items[i].coin \in DOMAIN p'.lots
    BY <1>1, <1>2, <1>3, <1>5
  <1>7. /\ hist' \in HistOf /\ hist'.credited = hist.credited
        /\ ~ hist'.replaced => ~ hist.replaced /\ p.inv = back
    BY <1>1 DEF TypeInv, HistOf
  <1>8. \A h \in Positions : Held(h)' \subseteq Held(h) \cup Waiting(h)
    BY <1>6 DEF Held
  <1>9. TypeInv' /\ Funds' /\ CarriersInv' /\ \A h \in Positions : Coming(h)' => Coming(h)
    BY <1>1, <1>6, <1>7, <1>8, ScreenKeeps
  <1>10. RowsInv'
    BY <1>6, <1>7 DEF BooksInv, RowsInv, RowsFollow
  <1>11. ProceedsInv'
    BY <1>1, <1>6, <1>7, <1>9 DEF BooksInv, ProceedsInv, Others
  <1>12. ReceivedInv'
    <2>1. ReceivedInv /\ back' = back
      BY <1>1 DEF BooksInv, Others
    <2>2. QuoteListed => Quote \in DOMAIN p'.lots
      BY <1>6 DEF QuoteListed
    <2> QED
      BY <1>1, <1>6, <1>7, <2>1, <2>2, ReceivedKept
  <1> QED
    BY <1>9, <1>10, <1>11, <1>12 DEF BooksInv

\* What handlers of HP events do, but for the completion of a sell.
Handled(C, N) ==
    /\ toUi # <<>> /\ toUi' = Tail(toUi) /\ Head(toUi) \in HpReport /\ Others
    /\ Handles(p, p', C, N) /\ p'.processed = p.processed
    /\ Quote \in DOMAIN p.lots => Quote \in DOMAIN p'.lots
    /\ hist' = [hist EXCEPT !.fresh = @ \ C]
    /\ N = {} \/ \E h \in Positions : /\ N = {HpLot(h)}
                                      /\ p'.items[HpLot(h)].coin \in Waiting(h)

\* An event of a strategy is typed.
LEMMA HpEventIs ==
  ASSUME TypeInv, toUi # <<>>, toUi' = Tail(toUi), Head(toUi).kind # "inventory",
         Head(toUi).kind # "balances"
  PROVE  /\ Head(toUi) \in HpReport /\ Head(toUi).hp \in Positions
         /\ Head(toUi).coin \in Coins /\ Head(toUi).amount \in Nat
         /\ Fill(Head(toUi)) => Head(toUi).coin \in Waiting(Head(toUi).hp)
  <1>1. IsEvent(Head(toUi)) /\ \E k \in DOMAIN toUi : toUi[k] = Head(toUi)
    BY TakenIs
  <1>2. PICK e : e = Head(toUi)
    OBVIOUS
  <1>3. e \in HpReport
    BY <1>1, <1>2 DEF IsEvent, IsUiEvent, HpReport
  <1>4. e.hp \in Positions /\ e.coin \in Coins /\ e.amount \in Nat
    BY <1>3 DEF HpReport, HpEventOf
  <1>5. PICK k \in DOMAIN toUi : toUi[k] = e
    BY <1>1, <1>2
  <1>6. Fill(e) => e.coin \in Waiting(e.hp)
    BY <1>5 DEF Waiting
  <1> QED
    BY <1>2, <1>3, <1>4, <1>6

\* HP_SELL_POSITION_CREATED, HP_BUY_ORDERS_PLACED, HP_POSITION_CANCELLED and the
\* fills of sells.
LEMMA MoneyIsHandled ==
  ASSUME TypeInv, TakeLocking \/ TakeCancelled \/ TakeSold
  PROVE  \E C : Handled(C, {})
  <1>1. PICK e : e = Head(toUi)
    OBVIOUS
  <1>2. /\ toUi # <<>> /\ toUi' = Tail(toUi) /\ Others
        /\ e.kind \in {"created", "placed", "cancelled", "sold"}
        /\ hist' = [hist EXCEPT !.fresh = @ \ {e.coin}]
        /\ \/ p' = Lock(p, e.coin, e.amount)
           \/ p' = handle_hp_position_cancelled(p, e.coin, e.amount)
           \/ e.kind = "sold" /\ p' = _update_lots_after_hp_sell(p, e.hp, e.coin, e.amount)
    BY <1>1 DEF TakeLocking, TakeCancelled, TakeSold, TakeHp, Takes
  <1>3. e \in HpReport /\ e.hp \in Positions /\ e.coin \in Coins /\ e.amount \in Nat
    BY <1>1, <1>2, HpEventIs
  <1>4. PICK t : t = p
    OBVIOUS
  <1>5. Sound(t)
    BY <1>4 DEF TypeInv
  <1>6. /\ Handles(t, Lock(t, e.coin, e.amount), {e.coin}, {})
        /\ Lock(t, e.coin, e.amount).processed = t.processed
        /\ Lock(t, e.coin, e.amount).lots = t.lots
    BY <1>3, <1>5, LocksHandle
  <1>7. /\ Handles(t, handle_hp_position_cancelled(t, e.coin, e.amount), {e.coin}, {})
        /\ handle_hp_position_cancelled(t, e.coin, e.amount).processed = t.processed
        /\ handle_hp_position_cancelled(t, e.coin, e.amount).lots = t.lots
    BY <1>3, <1>5, LocksHandle
  <1>8. PICK u : u = _update_lots_after_hp_sell(t, e.hp, e.coin, e.amount)
    OBVIOUS
  <1>9. /\ Handles(t, u, {e.coin}, {}) /\ u.processed = t.processed
        /\ DOMAIN t.lots \ {e.coin} \subseteq DOMAIN u.lots
    BY <1>3, <1>5, <1>8, HpSellHandles
  <1>10. Handles(p, p', {e.coin}, {}) /\ p'.processed = p.processed
    BY <1>2, <1>4, <1>6, <1>7, <1>8, <1>9
  <1>12. Quote \in DOMAIN p.lots => Quote \in DOMAIN p'.lots
    <2>1. e.kind = "sold" => e.coin # Quote
      BY <1>3 DEF HpReport
    <2> QED
      BY <1>2, <1>4, <1>6, <1>7, <1>8, <1>9, <2>1
  <1>11. Handled({e.coin}, {})
    BY <1>1, <1>2, <1>3, <1>10, <1>12 DEF Handled
  <1> QED
    BY <1>11

\* The fills of buys.
LEMMA BuysAreHandled ==
  ASSUME BooksInv, TakeBought \/ TakeFilled
  PROVE  \E C, N : Handled(C, N)
  <1>1. PICK e : e = Head(toUi)
    OBVIOUS
  <1>2. /\ TypeInv /\ toUi # <<>> /\ toUi' = Tail(toUi) /\ Others
        /\ e.kind \in {"bought", "filled"}
        /\ \/ /\ p' = _add_inventory_after_hp_buy_fill(p, e.hp, e.coin, e.amount)
              /\ hist' = [hist EXCEPT !.fresh = @ \ {e.coin}]
           \/ /\ p' = handle_hp_buy_filled(p, e.hp, e.coin, e.amount)
              /\ hist' = [hist EXCEPT !.fresh = @ \ {Quote, e.coin}]
    BY <1>1 DEF BooksInv, TakeBought, TakeFilled, TakeHp, Takes
  <1>3. /\ e \in HpReport /\ e.hp \in Positions /\ e.coin \in Coins /\ e.amount \in Nat
        /\ e.coin \in Waiting(e.hp)
    BY <1>1, <1>2, HpEventIs DEF Fill
  <1>4. PICK t : t = p
    OBVIOUS
  <1>5. Sound(t)
    BY <1>2, <1>4 DEF TypeInv
  <1>6. HpLot(e.hp) \in DOMAIN t.items => t.items[HpLot(e.hp)].coin = e.coin
    BY <1>3, <1>4 DEF BooksInv, CarriersInv, OneCoin, Carried, Held
  <1>7. PICK h \in Positions : h = e.hp
    BY <1>3
  <1>8. PICK c \in Coins : c = e.coin
    BY <1>3
  <1>9. PICK n \in Nat : n = e.amount
    BY <1>3
  <1>10. HpLot(h) \in DOMAIN t.items => t.items[HpLot(h)].coin = c
    BY <1>6, <1>7, <1>8
  <1>11. /\ Handles(t, _add_inventory_after_hp_buy_fill(t, h, c, n), {c}, {HpLot(h)})
         /\ _add_inventory_after_hp_buy_fill(t, h, c, n).processed = t.processed
         /\ Handles(t, handle_hp_buy_filled(t, h, c, n), {Quote, c}, {HpLot(h)})
         /\ handle_hp_buy_filled(t, h, c, n).processed = t.processed
         /\ LotOf(_add_inventory_after_hp_buy_fill(t, h, c, n), HpLot(h), c)
         /\ LotOf(handle_hp_buy_filled(t, h, c, n), HpLot(h), c)
         /\ DOMAIN t.lots \subseteq DOMAIN _add_inventory_after_hp_buy_fill(t, h, c, n).lots
         /\ DOMAIN t.lots \subseteq DOMAIN handle_hp_buy_filled(t, h, c, n).lots
    <2>1. Handles(t, _add_inventory_after_hp_buy_fill(t, h, c, n), {c}, {HpLot(h)})
      BY <1>5, <1>10, BuysHandle
    <2>2. _add_inventory_after_hp_buy_fill(t, h, c, n).processed = t.processed
      BY <1>5, <1>10, <2>1, BuysHandle
    <2>3. Handles(t, handle_hp_buy_filled(t, h, c, n), {Quote, c}, {HpLot(h)})
      BY <1>5, <1>10, <2>1, BuysHandle
    <2>4. handle_hp_buy_filled(t, h, c, n).processed = t.processed
      BY <1>5, <1>10, <2>1, BuysHandle
    <2>5. LotOf(_add_inventory_after_hp_buy_fill(t, h, c, n), HpLot(h), c)
      BY <1>5, <1>10, <2>1, BuysHandle
    <2>6. LotOf(handle_hp_buy_filled(t, h, c, n), HpLot(h), c)
      BY <1>5, <1>10, <2>1, BuysHandle
    <2>7. DOMAIN t.lots \subseteq DOMAIN _add_inventory_after_hp_buy_fill(t, h, c, n).lots
      BY <1>5, <1>10, <2>1, BuysHandle
    <2>8. DOMAIN t.lots \subseteq DOMAIN handle_hp_buy_filled(t, h, c, n).lots
      BY <1>5, <1>10, <2>1, BuysHandle
    <2> QED
      BY <2>1, <2>2, <2>3, <2>4, <2>5, <2>6, <2>7, <2>8
  <1>12. PICK C : /\ Handles(p, p', C, {HpLot(h)}) /\ p'.processed = p.processed
                  /\ hist' = [hist EXCEPT !.fresh = @ \ C]
                  /\ LotOf(p', HpLot(h), c) /\ DOMAIN p.lots \subseteq DOMAIN p'.lots
    BY <1>2, <1>4, <1>7, <1>8, <1>9, <1>11
  <1>13. p'.items[HpLot(h)].coin \in Waiting(h)
    BY <1>3, <1>7, <1>8, <1>12 DEF LotOf
  <1>14. Handled(C, {HpLot(h)})
    BY <1>1, <1>2, <1>3, <1>12, <1>13 DEF Handled
  <1> QED
    BY <1>14

\* These handlers keep the books in order.
LEMMA HandledStep ==
  ASSUME BooksInv, NEW C, NEW N, Handled(C, N)
  PROVE  BooksInv'
  <1>1. /\ toUi # <<>> /\ toUi' = Tail(toUi) /\ Others
        /\ Handles(p, p', C, N) /\ p'.processed = p.processed
        /\ Quote \in DOMAIN p.lots => Quote \in DOMAIN p'.lots
        /\ N = {} \/ \E h \in Positions : /\ N = {HpLot(h)}
                                          /\ p'.items[HpLot(h)].coin \in Waiting(h)
    BY DEF Handled
  <1>2. /\ hist' \in HistOf /\ hist'.credited = hist.credited
        /\ hist'.replaced = hist.replaced
    BY DEF Handled, BooksInv, TypeInv, HistOf
  <1> QED
    BY <1>1, <1>2, HandlerStep

\* The screen handles a balances message.
LEMMA BalancesTaken ==
  ASSUME TypeInv, TakeBalances
  PROVE  /\ toUi # <<>> /\ toUi' = Tail(toUi) /\ Others /\ IsMessage(Head(toUi).of)
         /\ Head(toUi).kind = "balances"
         /\ Handles(p, p', DOMAIN Head(toUi).of, {}) /\ p'.processed = p.processed
         /\ p'.inv = p.inv /\ p'.lots = p.lots
         /\ p' = handle_account_position(p, p.inv, Head(toUi).of)
         /\ hist' \in HistOf /\ hist'.credited = hist.credited
         /\ hist'.replaced = hist.replaced
  <1>1. PICK e : e = Head(toUi)
    OBVIOUS
  <1>2. /\ toUi # <<>> /\ toUi' = Tail(toUi) /\ Others /\ e.kind = "balances"
        /\ p' = handle_account_position(p, p.inv, e.of)
        /\ hist' = [hist EXCEPT !.fresh =
               (@ \ DOMAIN e.of) \cup {c \in DOMAIN e.of : _get_database_quantity(p, c) > 0}]
    BY <1>1 DEF TakeBalances, Takes
  <1>3. IsEvent(e)
    BY <1>1, <1>2, TakenIs
  <1>4. IsMessage(e.of)
    <2>1. e \in HpEventOf => e.kind # "balances"
      BY DEF HpEventOf
    <2>2. e = [kind |-> "inventory"] => e.kind # "balances"
      OBVIOUS
    <2> QED
      BY <1>2, <1>3, <2>1, <2>2 DEF IsEvent, IsUiEvent
  <1>5. PICK m : m = e.of
    OBVIOUS
  <1>6. PICK t : t = p
    OBVIOUS
  <1>7. PICK u : u = handle_account_position(t, t.inv, m)
    OBVIOUS
  <1>8. Sound(t) /\ t.inv \in Seq(DOMAIN t.items) /\ IsMessage(m)
    BY <1>4, <1>5, <1>6 DEF TypeInv, Sound, Typed
  <1>9. /\ Handles(t, u, DOMAIN m, {}) /\ u.processed = t.processed /\ u.inv = t.inv
        /\ u.lots = t.lots
    BY <1>7, <1>8, BalancesHandle
  <1>10. p' = u
    BY <1>2, <1>5, <1>6, <1>7
  <1>11. DOMAIN m \subseteq Coins
    BY <1>8 DEF IsMessage
  <1>12. /\ hist' \in HistOf /\ hist'.credited = hist.credited
         /\ hist'.replaced = hist.replaced
    BY <1>2, <1>5, <1>11 DEF TypeInv, HistOf
  <1> QED
    BY <1>1, <1>2, <1>4, <1>5, <1>6, <1>9, <1>10, <1>12

\* A balances message leaves the books in order.
LEMMA BalancesStep ==
  ASSUME BooksInv, TakeBalances
  PROVE  BooksInv'
  <1>1. /\ toUi # <<>> /\ toUi' = Tail(toUi) /\ Others
        /\ Handles(p, p', DOMAIN Head(toUi).of, {}) /\ p'.processed = p.processed
        /\ p'.lots = p.lots /\ hist' \in HistOf /\ hist'.credited = hist.credited
        /\ hist'.replaced = hist.replaced
    BY BalancesTaken DEF BooksInv
  <1> QED
    BY <1>1, HandlerStep

\* The screen handles the completion of a sell, and remembers whose proceeds it
\* added.
LEMMA CompletedTaken ==
  ASSUME BooksInv, TakeCompleted
  PROVE  \E h \in Positions :
           /\ toUi # <<>> /\ toUi' = Tail(toUi) /\ Others /\ Coming(h)
           /\ Head(toUi) \in HpReport
           /\ Handles(p, p', {Quote}, {Received(h)}) /\ DOMAIN p.lots \subseteq DOMAIN p'.lots
           /\ \/ p' = p
              \/ h \notin p.processed /\ p'.processed = p.processed \cup {h}
           /\ hist' \in HistOf /\ hist'.fresh = hist.fresh \ {Quote}
           /\ hist'.replaced = hist.replaced
           /\ \A g \in Positions : g # h => hist'.credited[g] = hist.credited[g]
           /\ hist'.credited[h] = IF p'.items # p.items THEN hist.credited[h] + 1
                                  ELSE hist.credited[h]
  <1>1. PICK e : e = Head(toUi)
    OBVIOUS
  <1>2. /\ toUi # <<>> /\ toUi' = Tail(toUi) /\ Others /\ e.kind = "completed"
        /\ p' = handle_hp_sell_completed(p, e.hp, e.leg, e.amount)
        /\ hist' = [hist EXCEPT !.fresh = @ \ {Quote},
                                !.credited[e.hp] = IF p'.items # p.items THEN @ + 1 ELSE @]
        /\ TypeInv
    BY <1>1 DEF TakeCompleted, Takes, BooksInv
  <1>3. e \in HpReport /\ e.hp \in Positions /\ e.amount \in Nat
    BY <1>1, <1>2, HpEventIs
  <1>4. \E k \in DOMAIN toUi : toUi[k] = e
    BY <1>1, <1>2, TakenIs
  <1>5. PICK h \in Positions : h = e.hp
    BY <1>3
  <1>6. Coming(h)
    BY <1>2, <1>4, <1>5 DEF Coming, Queued
  <1>7. PICK t : t = p
    OBVIOUS
  <1>8. PICK u : u = handle_hp_sell_completed(t, h, e.leg, e.amount)
    OBVIOUS
  <1>9. /\ Sound(t)
        /\ h \in t.processed \/ Received(h) \notin DOMAIN t.items \/ Quote \in DOMAIN t.lots
    <2>1. h \in p.processed \/ hist.credited[h] = 0
      BY <1>6 DEF BooksInv, ProceedsInv
    <2>2. hist.credited[h] = 0 => Received(h) \notin DOMAIN p.items \/ Quote \in DOMAIN p.lots
      BY DEF BooksInv, ReceivedInv, QuoteListed
    <2> QED
      BY <1>2, <1>7, <2>1, <2>2 DEF TypeInv
  <1>10. /\ Handles(t, u, {Quote}, {Received(h)}) /\ DOMAIN t.lots \subseteq DOMAIN u.lots
         /\ IF e.leg = "a" \/ h \in t.processed THEN u = t
            ELSE u.processed = t.processed \cup {h}
    BY <1>3, <1>8, <1>9, CompletedHandles
  <1>11. p' = u
    BY <1>2, <1>5, <1>7, <1>8
  <1>12. PICK x : x = IF p'.items # p.items THEN hist.credited[h] + 1 ELSE hist.credited[h]
    OBVIOUS
  <1>13. x \in Nat
    BY <1>2, <1>12 DEF TypeInv, HistOf
  <1>14. /\ hist' \in HistOf /\ hist'.fresh = hist.fresh \ {Quote}
         /\ hist'.replaced = hist.replaced
         /\ hist'.credited = [hist.credited EXCEPT ![h] = x]
    <2>1. PICK v : v = [hist.credited EXCEPT ![h] = x]
      OBVIOUS
    <2>2. PICK f : f = hist.fresh \ {Quote}
      OBVIOUS
    <2>3. hist' = [hist EXCEPT !.fresh = f, !.credited = v]
      BY <1>2, <1>5, <1>12, <2>1, <2>2 DEF TypeInv, HistOf
    <2>4. v \in [Positions -> Nat]
      BY <1>2, <1>13, <2>1 DEF TypeInv, HistOf
    <2>5. f \in SUBSET Coins
      BY <1>2, <2>2 DEF TypeInv, HistOf
    <2>6. hist \in HistOf
      BY <1>2 DEF TypeInv
    <2>7. /\ hist' \in HistOf /\ hist'.fresh = f /\ hist'.replaced = hist.replaced
          /\ hist'.credited = v
      BY <2>3, <2>4, <2>5, <2>6 DEF HistOf
    <2> QED
      BY <2>1, <2>2, <2>7
  <1>15. /\ \A g \in Positions : g # h => hist'.credited[g] = hist.credited[g]
         /\ hist'.credited[h] = x
    BY <1>2, <1>14 DEF TypeInv, HistOf
  <1> QED
    BY <1>1, <1>2, <1>3, <1>6, <1>7, <1>10, <1>11, <1>12, <1>14, <1>15

\* A completion leaves the books in order: the first one of a position credits it.
LEMMA CompletedStep ==
  ASSUME BooksInv, TakeCompleted
  PROVE  BooksInv'
  <1>1. PICK h \in Positions :
           /\ toUi # <<>> /\ toUi' = Tail(toUi) /\ Others /\ Coming(h)
           /\ Handles(p, p', {Quote}, {Received(h)}) /\ DOMAIN p.lots \subseteq DOMAIN p'.lots
           /\ \/ p' = p
              \/ h \notin p.processed /\ p'.processed = p.processed \cup {h}
           /\ hist' \in HistOf /\ hist'.replaced = hist.replaced
           /\ \A g \in Positions : g # h => hist'.credited[g] = hist.credited[g]
           /\ hist'.credited[h] = IF p'.items # p.items THEN hist.credited[h] + 1
                                  ELSE hist.credited[h]
    BY CompletedTaken
  <1>2. /\ DOMAIN p.items \subseteq DOMAIN p'.items
        /\ DOMAIN p'.items \subseteq DOMAIN p.items \cup {Received(h)}
        /\ \A i \in DOMAIN p.items : p'.items[i].coin = p.items[i].coin
        /\ Sound(p') /\ (RowsFollow(p) => RowsFollow(p'))
    BY <1>1 DEF Handles, Touches
  <1>3. \A g \in Positions : HpLot(g) # Received(h) /\ (Received(g) = Received(h) => g = h)
    BY DEF HpLot, Received
  <1>4. \A g \in Positions : Held(g)' \subseteq Held(g) \cup Waiting(g)
    BY <1>2, <1>3 DEF Held
  <1>5. TypeInv' /\ Funds' /\ CarriersInv' /\ \A g \in Positions : Coming(g)' => Coming(g)
    BY <1>1, <1>2, <1>4, ScreenKeeps
  <1>6. RowsInv'
    BY <1>1, <1>2 DEF BooksInv, RowsInv
  <1>7. hp' = hp /\ wire' = wire
    BY <1>1 DEF Others
  <1>8. ASSUME NEW g \in Positions
        PROVE  /\ hist'.credited[g] \in {0, 1}
               /\ hist'.credited[g] = 1 =>
                      hp'[g].phase = "over" /\ (g \in p'.processed \/ ~ Coming(g)')
    <2>1. /\ Coming(g) => hp[g].phase = "over"
          /\ hist.credited[g] \in {0, 1}
          /\ hist.credited[g] = 1 => hp[g].phase = "over" /\ (g \in p.processed \/ ~ Coming(g))
      BY DEF BooksInv, ProceedsInv
    <2>2. CASE p' = p
      BY <1>1, <1>5, <1>7, <2>1, <2>2
    <2>3. CASE p' # p /\ g # h
      <3>1. p'.processed = p.processed \cup {h}
        BY <1>1, <2>3
      <3> QED
        BY <1>1, <1>5, <1>7, <2>1, <2>3, <3>1
    <2>4. CASE p' # p /\ g = h
      <3>1. g \notin p.processed /\ g \in p'.processed /\ hist.credited[g] = 0
        BY <1>1, <2>1, <2>4
      <3> QED
        BY <1>1, <1>7, <2>1, <2>4, <3>1
    <2> QED
      BY <2>2, <2>3, <2>4
  <1>9. ProceedsInv'
    BY <1>5, <1>7, <1>8 DEF BooksInv, ProceedsInv
  <1>10. QuoteListed => QuoteListed'
    <2> SUFFICES ASSUME QuoteListed PROVE QuoteListed'
      OBVIOUS
    <2>1. PICK i \in Range(back) : p.items[i].coin = Quote
      BY DEF QuoteListed
    <2>2. Range(back) \subseteq DOMAIN p.items
      BY DEF BooksInv, TypeInv, Range
    <2>3. back' = back
      BY <1>1 DEF Others
    <2> QED
      BY <1>1, <1>2, <2>1, <2>2, <2>3 DEF QuoteListed
  <1>11. ReceivedInv'
    <2>1. ASSUME NEW g \in Positions, Received(g) \in DOMAIN p'.items
          PROVE  /\ p'.items[Received(g)].coin = Quote
                 /\ hist'.credited[g] = 0 => QuoteListed'
      <3>1. hist.credited[g] \in Nat
        BY DEF BooksInv, TypeInv, HistOf
      <3>2. CASE Received(g) \in DOMAIN p.items
        <4>1. /\ p.items[Received(g)].coin = Quote
              /\ hist.credited[g] = 0 => QuoteListed
          BY <3>2 DEF BooksInv, ReceivedInv
        <4>2. hist'.credited[g] = 0 => hist.credited[g] = 0
          BY <1>1, <3>1
        <4> QED
          BY <1>2, <1>10, <3>2, <4>1, <4>2
      <3>3. CASE Received(g) \notin DOMAIN p.items
        <4>1. g = h
          BY <1>2, <1>3, <2>1, <3>3
        <4>2. p'.items[Received(g)].coin = Quote
          BY <1>1, <2>1, <3>3 DEF Handles, Touches
        <4>3. p'.items # p.items
          BY <2>1, <3>3
        <4> QED
          BY <1>1, <3>1, <4>1, <4>2, <4>3
      <3> QED
        BY <3>2, <3>3
    <2> QED
      BY <2>1 DEF ReceivedInv
  <1> QED
    BY <1>5, <1>6, <1>9, <1>11 DEF BooksInv

\* Whatever the screen takes, the books stay in order.
LEMMA ScreenStep ==
  ASSUME BooksInv, Screen
  PROVE  BooksInv'
  <1>1. TypeInv
    BY DEF BooksInv
  <1> QED
    BY <1>1, InventoryStep, BalancesStep, MoneyIsHandled, BuysAreHandled, HandledStep,
       CompletedStep DEF Screen

\* What is left of a trade after a restart: nothing that can be spent.
Restarted(trade, new) ==
    /\ new \in Deal /\ new.left <= new.total
    /\ new.phase \notin {"buying", "selling", "hopping", "second"}
    /\ new.phase = "routed" => new.left = new.total
    /\ trade.phase = "over" => new.phase = "over"
    /\ new.phase = "over" \/ (new.phase = trade.phase /\ new.coin = trade.coin)

\* A position is as it was, or it has ended.
LEMMA TradesRestart ==
  ASSUME TypeInv, Funds, Restart
  PROVE  \A h \in Positions : Restarted(hp[h], hp'[h])
  <1>1. ASSUME NEW trade \in Deal
        PROVE  /\ Ended(trade) \in Deal /\ Ended(trade).phase = "over"
               /\ Ended(trade).left = 0 /\ Ended(trade).total \in Nat
               /\ [Ended(trade) EXCEPT !.closed = TRUE] \in Deal
               /\ [Ended(trade) EXCEPT !.closed = TRUE].phase = "over"
               /\ [Ended(trade) EXCEPT !.closed = TRUE].left = 0
               /\ [Ended(trade) EXCEPT !.closed = TRUE].total \in Nat
    BY DEF Ended, Deal, Sells, Trade, Phase
  <1>2. ASSUME NEW h \in Positions
        PROVE  Restarted(hp[h], hp'[h])
    <2>1. PICK trade \in Deal : trade = hp[h]
      BY DEF TypeInv
    <2>2. trade.left <= trade.total /\ (trade.phase = "routed" => trade.left = trade.total)
      BY <2>1 DEF Funds
    <2>3. CASE RecoveryFails
      <3>1. CASE trade = Idle
        <4>1. hp'[h] = trade
          BY <2>1, <2>3, <3>1 DEF RecoveryFails
        <4>2. trade.phase = "idle"
          BY <3>1 DEF Idle
        <4> QED
          BY <2>1, <2>2, <4>1, <4>2 DEF Restarted
      <3>2. CASE trade # Idle
        <4>1. hp'[h] = [Ended(trade) EXCEPT !.closed = TRUE]
          BY <2>1, <2>3, <3>2 DEF RecoveryFails
        <4> QED
          BY <1>1, <2>1, <4>1 DEF Restarted
      <3> QED
        BY <3>1, <3>2
    <2>4. CASE RecoverySucceeds
      <3>1. ~ Unverified(h) /\ hp'[h] = IF trade.phase \in {"hopping", "second"}
                                        THEN Ended(trade) ELSE trade
        BY <2>1, <2>4 DEF RecoverySucceeds
      <3>2. trade.phase \notin {"buying", "selling"}
        BY <2>1, <3>1 DEF Unverified
      <3>3. CASE trade.phase \in {"hopping", "second"}
        <4>1. hp'[h] = Ended(trade)
          BY <3>1, <3>3
        <4>2. /\ Ended(trade) \in Deal /\ Ended(trade).phase = "over"
              /\ Ended(trade).left = 0 /\ Ended(trade).total \in Nat
          BY <1>1
        <4>3. /\ hp'[h] \in Deal /\ hp'[h].phase = "over"
              /\ hp'[h].left <= hp'[h].total
          BY <4>1, <4>2
        <4> QED
          BY <4>3 DEF Restarted
      <3>4. CASE trade.phase \notin {"hopping", "second"}
        BY <2>1, <2>2, <3>1, <3>2, <3>4 DEF Restarted
      <3> QED
        BY <3>3, <3>4
    <2> QED
      BY <2>3, <2>4 DEF Restart
  <1> QED
    BY <1>2

\* After a restart only sales that are over are told, as completed.
LEMMA ReportsRestart ==
  ASSUME TypeInv, Restart
  PROVE  /\ wire' \in [Positions -> Seq(HpReport)]
         /\ \A h \in Positions : \A k \in DOMAIN wire'[h] :
                /\ wire'[h][k].hp = h /\ wire'[h][k].kind = "completed"
                /\ hp[h].phase = "over"
  <1>1. \A h \in Positions : <<>> \in Seq(HpReport) /\ DOMAIN <<>> = {}
    OBVIOUS
  <1>2. CASE RecoveryFails
    BY <1>1, <1>2 DEF RecoveryFails
  <1>3. CASE RecoverySucceeds
    <2>1. PICK told \in SUBSET {h \in Positions : TellsAgain(h)} :
            wire' = [h \in Positions |-> IF h \in told THEN <<Completed(h, ""), Completed(h, "")>>
                                        ELSE <<>>]
      BY <1>3 DEF RecoverySucceeds
    <2>2. ASSUME NEW h \in Positions
          PROVE  /\ wire'[h] \in Seq(HpReport)
                 /\ \A k \in DOMAIN wire'[h] :
                        /\ wire'[h][k].hp = h /\ wire'[h][k].kind = "completed"
                        /\ hp[h].phase = "over"
      <3>1. CASE h \notin told
        BY <1>1, <2>1, <3>1
      <3>2. CASE h \in told
        <4>1. hp[h].phase = "over" /\ hp[h].coin \in Coins /\ hp[h].total \in Nat
          BY <3>2 DEF TellsAgain, TypeInv, Deal, Trade
        <4>2. PICK e : e = Completed(h, "")
          OBVIOUS
        <4>3. e \in HpReport /\ e.hp = h /\ e.kind = "completed"
          BY <4>1, <4>2 DEF Completed, HpEvent, HpReport, HpEventOf
        <4>4. wire'[h] = <<e, e>>
          BY <2>1, <3>2, <4>2
        <4>5. <<e, e>> \in Seq({e}) /\ {e} \subseteq HpReport
          BY <4>3
        <4>6. <<e, e>> \in Seq(HpReport) /\ \A k \in DOMAIN <<e, e>> : <<e, e>>[k] = e
          BY <4>5
        <4> QED
          BY <4>1, <4>3, <4>4, <4>6
      <3> QED
        BY <3>1, <3>2
    <2> QED
      BY <2>1, <2>2
  <1> QED
    BY <1>2, <1>3 DEF Restart

\* After a restart, the books are those of the table, and only completions are told.
LEMMA RestartStep ==
  ASSUME BooksInv, Restart
  PROVE  BooksInv'
  <1>1. /\ p' = Loaded(p) /\ back' = p'.inv /\ toUi' = <<>> /\ toBack' = <<>> /\ ex' = ex
        /\ hist' = [hist EXCEPT !.credited = [h \in Positions |-> 0],
                                !.before = @ \cup {h \in Positions : hist.credited[h] > 0},
                                !.fresh = {}, !.replaced = FALSE]
    BY DEF Restart, RecoveryFails, RecoverySucceeds, Forgets
  <1>2. TypeInv /\ Funds /\ Sound(p) /\ hist \in HistOf
    BY DEF BooksInv, TypeInv
  <1>3. DOMAIN p.rows \subseteq AllLots /\ p.rows \in [DOMAIN p.rows -> Row]
    BY <1>2 DEF Sound, Typed
  <1>4. PICK t : t = p
    OBVIOUS
  <1>5. PICK u : u = Loaded(t)
    OBVIOUS
  <1>6. /\ Sound(u) /\ RowsFollow(u) /\ u.processed = {} /\ u.rows = t.rows
        /\ DOMAIN u.items = DOMAIN t.rows
        /\ \A i \in DOMAIN t.rows : /\ u.items[i].coin = t.rows[i].coin
                                     /\ t.rows[i].coin \in DOMAIN u.lots
    BY <1>3, <1>4, <1>5, LoadedIs
  <1>7. /\ Sound(p') /\ RowsFollow(p') /\ p'.processed = {}
        /\ DOMAIN p'.items \subseteq DOMAIN p.items
        /\ \A i \in DOMAIN p'.items : /\ p'.items[i].coin = p.items[i].coin
                                       /\ p'.items[i].coin \in DOMAIN p'.lots
                                       /\ i \in Range(back')
    BY <1>1, <1>2, <1>4, <1>5, <1>6 DEF Sound, RowsFollow
  <1>8. hist' \in HistOf /\ \A h \in Positions : hist'.credited[h] = 0
    BY <1>1, <1>2 DEF HistOf
  <1>9. \A h \in Positions : Restarted(hp[h], hp'[h])
    BY <1>2, TradesRestart
  <1>12. /\ wire' \in [Positions -> Seq(HpReport)]
         /\ \A h \in Positions : \A k \in DOMAIN wire'[h] :
                /\ wire'[h][k].hp = h /\ wire'[h][k].kind = "completed"
                /\ hp[h].phase = "over"
    BY <1>2, ReportsRestart
  <1>10. TypeInv'
    <2>1. back' \in Seq(DOMAIN p'.items) /\ IsInjective(back')
      BY <1>1, <1>7 DEF Sound, Typed
    <2>2. IsQueue(<<>>)
      BY DEF IsQueue
    <2>3. \E f : hp' = [h \in Positions |-> f[h]]
      BY DEF Restart, RecoveryFails, RecoverySucceeds
    <2>5. hp' \in [Positions -> Deal]
      BY <1>9, <2>3 DEF Restarted
    <2>6. ex' \in [Coins -> Balance]
      BY <1>1, <1>2 DEF TypeInv
    <2> QED
      BY <1>1, <1>7, <1>8, <1>12, <2>1, <2>2, <2>5, <2>6 DEF TypeInv
  <1>11. Funds'
    <2>1. ASSUME NEW c \in Coins
          PROVE  AllCommitted(c)' <= ex'[c].locked
      <3>1. PICK f : f = hp'
        OBVIOUS
      <3>2. f \in [Positions -> Deal]
        BY <1>10, <3>1 DEF TypeInv
      <3>3. \A h \in Positions : f[h].phase \notin {"buying", "selling", "hopping", "second"}
        BY <1>9, <3>1 DEF Restarted
      <3>4. SumFunctionOnSet([h \in Positions |-> Committed(f[h], c)], Positions) = 0
        BY <3>2, <3>3, NothingCommitted
      <3>5. AllCommitted(c)' = 0
        BY <3>1, <3>4 DEF AllCommitted
      <3>6. ex'[c].locked \in Nat
        BY <1>10 DEF TypeInv, Balance
      <3> QED
        BY <3>5, <3>6
    <2>2. \A h \in Positions : /\ hp'[h].left <= hp'[h].total
                               /\ hp'[h].phase \in {"routed", "hopping"} => hp'[h].left = hp'[h].total
      BY <1>9 DEF Restarted
    <2> QED
      BY <2>1, <2>2 DEF Funds
  <1>13. ProceedsInv'
    <2>1. \A h \in Positions : Coming(h)' => hp[h].phase = "over"
      BY <1>1, <1>12 DEF Coming, Told, Queued
    <2> QED
      BY <1>8, <1>9, <1>12, <2>1 DEF ProceedsInv, Restarted
  <1>14. CarriersInv'
    <2>1. ASSUME NEW h \in Positions
          PROVE  OneCoin(hp'[h], Carried(h)')
      <3>1. Brought(wire'[h]) = {}
        BY <1>12 DEF Brought, Fill
      <3>2. Carried(h)' \subseteq Held(h)
        BY <1>1, <1>7, <3>1 DEF Carried, Waiting, Held
      <3>3. OneCoin(hp[h], Carried(h)) /\ Held(h) \subseteq Carried(h)
        BY DEF BooksInv, CarriersInv, Carried
      <3> QED
        BY <1>9, <3>2, <3>3 DEF OneCoin, Restarted
    <2> QED
      BY <2>1 DEF CarriersInv
  <1>15. RowsInv'
    BY <1>7 DEF RowsInv
  <1>16. ReceivedInv'
    <2>1. ASSUME NEW h \in Positions, Received(h) \in DOMAIN p'.items
          PROVE  p'.items[Received(h)].coin = Quote /\ QuoteListed'
      <3>1. p'.items[Received(h)].coin = Quote
        BY <1>7, <2>1 DEF BooksInv, ReceivedInv
      <3> QED
        BY <1>7, <2>1, <3>1 DEF QuoteListed
    <2> QED
      BY <2>1 DEF ReceivedInv
  <1> QED
    BY <1>10, <1>11, <1>13, <1>14, <1>15, <1>16 DEF BooksInv

\* A sell that is set up moves its trade on, and is told at once.
LEMMA SetUpSellIs ==
  ASSUME TypeInv, NEW g \in Positions, NEW c \in Coins, NEW amount \in Sizes,
         NEW hops \in BOOLEAN, SetUpSell(g, c, amount, hops)
  PROVE  /\ \E e \in HpReport :
                /\ e.kind = "created" /\ toUi' = Append(toUi, e)
                /\ Among(toUi', {toUi[k] : k \in DOMAIN toUi} \cup {e})
         /\ hp' \in [Positions -> Deal] /\ \A h \in Positions \ {g} : hp'[h] = hp[h]
         /\ hp[g].phase \in {"idle", "holding"} /\ hp'[g].phase \in {"ready", "routed"}
         /\ hp'[g].left = hp'[g].total /\ hp'[g].left \in Nat
         /\ p' = p /\ back' = back /\ toBack' = toBack /\ wire' = wire /\ ex' = ex /\ hist' = hist
  <1>1. amount \in Nat /\ c # Quote
    BY SizesAssumption DEF SetUpSell
  <1>2. PICK old \in Deal : old = hp[g]
    BY DEF TypeInv
  <1>3. PICK again \in BOOLEAN : again <=> hops \/ old.phase = "idle"
    OBVIOUS
  <1>4. PICK trade : trade = [old EXCEPT !.phase = IF hops THEN "routed" ELSE "ready",
                                         !.coin = c, !.left = amount, !.total = amount,
                                         !.again = hops \/ old.phase = "idle"]
    OBVIOUS
  <1>5. /\ trade \in Deal /\ trade.phase \in {"ready", "routed"}
        /\ trade.left = amount /\ trade.total = amount
    <2>1. (hops \/ old.phase = "idle") \in BOOLEAN
      OBVIOUS
    <2> QED
      BY <1>1, <1>4, <2>1 DEF Deal, Sells, Trade, Phase
  <1>6. hp' = [hp EXCEPT ![g] = trade] /\ old.phase \in {"idle", "holding"}
    BY <1>2, <1>4 DEF SetUpSell, Trades, TypeInv
  <1>7. PICK e : e = HpEvent("created", g, "", c, amount)
    OBVIOUS
  <1>8. e \in HpReport /\ e.kind = "created"
    BY <1>1, <1>7 DEF HpEvent, HpReport, HpEventOf
  <1>9. toUi' = Append(toUi, e)
    BY <1>7 DEF SetUpSell
  <1>10. Among(toUi', {toUi[k] : k \in DOMAIN toUi} \cup {e})
    BY <1>9, QueueGrows DEF TypeInv
  <1>11. p' = p /\ back' = back /\ toBack' = toBack /\ wire' = wire /\ ex' = ex /\ hist' = hist
    BY DEF SetUpSell, Keeping
  <1> QED
    BY <1>1, <1>2, <1>5, <1>6, <1>8, <1>9, <1>10, <1>11 DEF TypeInv

\* It keeps the books in order.
LEMMA SetUpSellStep ==
  ASSUME BooksInv, NEW g \in Positions, NEW c \in Coins, NEW amount \in Sizes,
         NEW hops \in BOOLEAN, SetUpSell(g, c, amount, hops)
  PROVE  BooksInv'
  <1>1. TypeInv /\ Funds
    BY DEF BooksInv
  <1>2. /\ hp' \in [Positions -> Deal] /\ \A h \in Positions \ {g} : hp'[h] = hp[h]
        /\ hp[g].phase \in {"idle", "holding"} /\ hp'[g].phase \in {"ready", "routed"}
        /\ hp'[g].left = hp'[g].total /\ hp'[g].left \in Nat
        /\ p' = p /\ back' = back /\ toBack' = toBack /\ wire' = wire /\ ex' = ex /\ hist' = hist
    BY <1>1, SetUpSellIs
  <1>3. PICK e \in HpReport : e.kind = "created" /\ Among(toUi', {toUi[k] : k \in DOMAIN toUi} \cup {e})
    BY <1>1, SetUpSellIs
  <1>4. IsEvent(e)
    BY DEF IsEvent, IsUiEvent, HpReport
  <1>5. \A k \in DOMAIN toUi' : toUi'[k] = e \/ \E n \in DOMAIN toUi : toUi'[k] = toUi[n]
    BY <1>3 DEF Among
  <1>6. IsQueue(toUi') /\ \A k \in DOMAIN toUi' : IsEvent(toUi'[k])
    BY <1>1, <1>3, <1>4, <1>5 DEF Among, TypeInv
  <1>7. TypeInv'
    BY <1>1, <1>2, <1>6 DEF TypeInv
  <1>8. Funds'
    <2>1. \A d \in Coins : /\ Committed(hp'[g], d) = 0 /\ Committed(hp[g], d) = 0
                           /\ ex[d].locked \in Nat
      BY <1>1, <1>2 DEF Committed, TypeInv, Balance
    <2>2. ex' \in [Coins -> Balance]
      BY <1>1, <1>2 DEF TypeInv
    <2>3. \A d \in Coins : ex[d].locked + Committed(hp'[g], d)
                             <= ex'[d].locked + Committed(hp[g], d)
      BY <1>2, <2>1
    <2>4. hp'[g].left <= hp'[g].total
      BY <1>2
    <2> QED
      BY <1>1, <1>2, <2>2, <2>3, <2>4, FundsMove
  <1>9. \A h \in Positions : (Queued(h)' => Queued(h)) /\ Waiting(h)' \in SUBSET Waiting(h)
    BY <1>3, <1>5 DEF Queued, Waiting, Fill
  <1>10. \A h \in Positions : (Coming(h)' => Coming(h)) /\ Carried(h)' \in SUBSET Carried(h)
    BY <1>2, <1>9 DEF Coming, Told, Carried, Held
  <1>11. ProceedsInv'
    <2>1. \A h \in Positions : hp[h].phase = "over" => hp'[h].phase = "over"
      BY <1>2
    <2> QED
      BY <1>2, <1>10, <2>1 DEF BooksInv, ProceedsInv
  <1>12. CarriersInv'
    <2>1. ASSUME NEW h \in Positions
          PROVE  OneCoin(hp'[h], Carried(h)')
      <3>1. OneCoin(hp[h], Carried(h)) /\ Carried(h)' \in SUBSET Carried(h)
        BY <1>10 DEF BooksInv, CarriersInv
      <3>2. OneCoin(hp[h], Carried(h)')
        BY <3>1, OneCoinLess
      <3> QED
        BY <1>2, <3>2 DEF OneCoin
    <2> QED
      BY <2>1 DEF CarriersInv
  <1>13. RowsInv' /\ ReceivedInv'
    BY <1>2 DEF BooksInv, RowsInv, ReceivedInv, QuoteListed
  <1> QED
    BY <1>7, <1>8, <1>11, <1>12, <1>13 DEF BooksInv

\* The books are always in order.
LEMMA BooksHold == Spec => []BooksInv
  <1>1. BooksInv /\ [Next]_vars => BooksInv'
    <2> SUFFICES ASSUME BooksInv, [Next]_vars PROVE BooksInv'
      OBVIOUS
    <2>1. CASE UNCHANGED vars
      BY <2>1 DEF vars, BooksInv, TypeInv, Funds, AllCommitted, ProceedsInv, Coming, Told, Queued,
                  ReceivedInv, QuoteListed, CarriersInv, Carried, Waiting, Held, RowsInv
    <2> QED
      BY <2>1, ExchangeStep, SetUpSellStep, EmitStep, RelayStep, ScreenStep, RestartStep
         DEF Next, User
  <1> QED
    BY <1>1, BooksInit, PTL DEF Spec

\* Between two starts of the program, however often a sell is reported as completed,
\* also when a restored position is completed all over again, its proceeds are
\* added to the books once.
THEOREM CreditedOnce == Spec => []ProceedsCreditedOnce
  <1>1. BooksInv => ProceedsCreditedOnce
    BY DEF BooksInv, ProceedsInv, ProceedsCreditedOnce
  <1> QED
    BY <1>1, BooksHold, PTL

\* Every variable stays in its type: no quantity, no balance of a lot and no
\* row becomes negative, whatever fills, cancellations, completions and relayed
\* lists come between each other.
THEOREM PortfolioTypes == Spec => []TypeOK
  <1>1. BooksInv => TypeOK
    <2> SUFFICES ASSUME BooksInv PROVE TypeOK
      OBVIOUS
    <2>1. TypeInv /\ Sound(p) /\ Typed(p)
      BY DEF BooksInv, TypeInv, Sound
    <2>2. \A i \in DOMAIN p.items : i \in AllLots /\ p.items[i] \in Item
      BY <2>1 DEF Typed
    <2>3. \A c \in DOMAIN p.lots : p.lots[c] \in Seq(DOMAIN p.items)
      BY <2>1 DEF Typed
    <2>4. \A i \in DOMAIN p.rows : i \in AllLots /\ p.rows[i] \in [coin : Coins, qty : Nat]
      BY <2>1 DEF Sound, Typed, Row
    <2>5. p.inv \in Seq(DOMAIN p.items) /\ IsInjective(p.inv) /\ p.processed \subseteq Positions
      BY <2>1 DEF Sound, Typed
    <2>6. Deal \subseteq Trade /\ HpReport \subseteq HpEventOf
      BY DEF Deal, HpReport
    <2>7. hp \in [Positions -> Trade] /\ wire \in [Positions -> Seq(HpEventOf)]
      <3>1. \A q \in Seq(HpReport) : q \in Seq(HpEventOf)
        BY <2>6
      <3> QED
        BY <2>1, <2>6, <3>1 DEF TypeInv
    <2>8. /\ \A k \in DOMAIN toUi : IsUiEvent(toUi[k])
          /\ \A k \in DOMAIN toBack : IsMessage(toBack[k])
          /\ back \in Seq(DOMAIN p.items) /\ IsInjective(back) /\ ex \in [Coins -> Balance]
      BY <2>1 DEF TypeInv, IsEvent
    <2> QED
      BY <2>2, <2>3, <2>4, <2>5, <2>7, <2>8 DEF TypeOK
  <1> QED
    BY <1>1, BooksHold, PTL

\* Until the backend's list replaces the screen's, the table has every lot of a coin
\* with its quantity, and no lot that was sold.
THEOREM RowsAreSaved == Spec => []RowsFollowLots
  <1>1. BooksInv => RowsFollowLots
    <2> SUFFICES ASSUME BooksInv, ~ hist.replaced
                 PROVE  /\ \A k \in DOMAIN p.inv :
                            p.items[p.inv[k]].coin # Quote =>
                                /\ p.inv[k] \in DOMAIN p.rows
                                /\ p.rows[p.inv[k]].qty = p.items[p.inv[k]].qty
                        /\ \A i \in DOMAIN p.rows : Is(p.inv, i)
      BY DEF RowsFollowLots
    <2>1. RowsFollow(p)
      BY DEF BooksInv, RowsInv
    <2>2. \A i : i \in Range(p.inv) <=> \E k \in DOMAIN p.inv : p.inv[k] = i
      BY DEF Range
    <2> QED
      BY <2>1, <2>2 DEF RowsFollow, Is
  <1> QED
    BY <1>1, BooksHold, PTL

(***************************************************************************)
(* The balances                                                            *)
(***************************************************************************)

\* The last message of a coin that waits for the backend has the balance the
\* exchange has now.  When none waits there, the last one that waits for the screen
\* has it, and the screen will handle it on the backend's list: it follows that list
\* in the queue, or the screen has that list already.  When none waits anywhere,
\* the lots of a fresh coin add up to the balance, and the two lists agree on them.
Tells(e, c) == e.kind = "balances" /\ c \in DOMAIN e.of
NoneAfter(q, c, k) == \A l \in DOMAIN q : l > k => ~ Tells(q[l], c)
NoneBack(q, c, k) == \A l \in DOMAIN q : l > k => c \notin DOMAIN q[l]

BackKnows(c) == \A k \in DOMAIN toBack :
    c \in DOMAIN toBack[k] /\ NoneBack(toBack, c, k) => toBack[k][c] = ex[c]
ScreenHears(c) == NoneBack(toBack, c, 0) =>
    \A k \in DOMAIN toUi : Tells(toUi[k], c) /\ NoneAfter(toUi, c, k) =>
        /\ toUi[k].of[c] = ex[c]
        /\ (k = 1 /\ p.inv = back) \/ (k # 1 /\ toUi[k - 1].kind = "inventory")
LotsStand(c) == NoneBack(toBack, c, 0) /\ NoneAfter(toUi, c, 0) /\ c \in hist.fresh =>
    /\ _get_exchange_available(p, c) = ex[c].free
    /\ _get_exchange_locked(p, c) = ex[c].locked
    /\ LotsOf(p, p.inv, c) = LotsOf(p, back, c)
Stands(c) == BackKnows(c) /\ ScreenHears(c) /\ LotsStand(c)
BalancesInv == \A c \in Coins : Stands(c)

\* The places of a queue, after something was appended or taken.
LEMMA PlacesGrow ==
  ASSUME NEW q, IsQueue(q), NEW e, NEW f
  PROVE  /\ Len(q) \in Nat /\ DOMAIN q = 1 .. Len(q)
         /\ DOMAIN Append(q, e) = 1 .. Len(q) + 1
         /\ \A k \in DOMAIN q : Append(q, e)[k] = q[k]
         /\ Append(q, e)[Len(q) + 1] = e
         /\ DOMAIN (q \o <<e, f>>) = 1 .. Len(q) + 2
         /\ \A k \in DOMAIN q : (q \o <<e, f>>)[k] = q[k]
         /\ (q \o <<e, f>>)[Len(q) + 1] = e /\ (q \o <<e, f>>)[Len(q) + 2] = f
  <1>1. PICK S : S = {q[k] : k \in DOMAIN q}
    OBVIOUS
  <1>2. q \in Seq(S)
    BY <1>1 DEF IsQueue
  <1>3. Len(q) \in Nat /\ DOMAIN q = 1 .. Len(q)
    BY <1>2
  <1>4. q \in Seq(S \cup {e, f}) /\ <<e, f>> \in Seq(S \cup {e, f})
    BY <1>2
  <1>5. /\ DOMAIN Append(q, e) = 1 .. Len(q) + 1
        /\ \A k \in DOMAIN q : Append(q, e)[k] = q[k]
        /\ Append(q, e)[Len(q) + 1] = e
    BY <1>3, <1>4
  <1>6. /\ DOMAIN (q \o <<e, f>>) = 1 .. Len(q) + 2
        /\ \A k \in DOMAIN q : (q \o <<e, f>>)[k] = q[k]
        /\ (q \o <<e, f>>)[Len(q) + 1] = e /\ (q \o <<e, f>>)[Len(q) + 2] = f
    BY <1>3, <1>4
  <1> QED
    BY <1>3, <1>5, <1>6

\* What was taken off was in front.
LEMMA PlacesShrink ==
  ASSUME NEW q, IsQueue(q), q # <<>>
  PROVE  /\ Len(q) \in Nat /\ Len(q) > 0 /\ DOMAIN q = 1 .. Len(q) /\ Head(q) = q[1]
         /\ DOMAIN Tail(q) = 1 .. Len(q) - 1
         /\ \A k \in DOMAIN Tail(q) : Tail(q)[k] = q[k + 1]
  <1>1. PICK S : S = {q[k] : k \in DOMAIN q}
    OBVIOUS
  <1>2. q \in Seq(S)
    BY <1>1 DEF IsQueue
  <1>3. Len(q) \in Nat /\ DOMAIN q = 1 .. Len(q) /\ Len(q) # 0
    BY <1>2
  <1>4. Head(q) = q[1] /\ DOMAIN Tail(q) = 1 .. Len(q) - 1
    BY <1>2, <1>3
  <1>5. \A k \in DOMAIN Tail(q) : Tail(q)[k] = q[k + 1]
    BY <1>2, <1>3, <1>4
  <1> QED
    BY <1>3, <1>4, <1>5

\* Nothing is waiting when the program starts.
LEMMA BalancesInit == Init => BalancesInv
  BY DEF Init, BalancesInv, Stands, BackKnows, ScreenHears, LotsStand

\* What does not tell a coin is appended to the screen's queue.
LEMMA UntoldAppended ==
  ASSUME NEW c, TypeInv, Stands(c), NEW e, ~ Tells(e, c), toUi' = Append(toUi, e),
         NoneBack(toBack', c, 0) => NoneBack(toBack, c, 0), BackKnows(c)', ex'[c] = ex[c],
         p' = p, back' = back, hist'.fresh = hist.fresh
  PROVE  Stands(c)'
  <1>1. /\ Len(toUi) \in Nat /\ DOMAIN toUi = 1 .. Len(toUi) /\ DOMAIN toUi' = 1 .. Len(toUi) + 1
        /\ \A k \in DOMAIN toUi : toUi'[k] = toUi[k]
        /\ toUi'[Len(toUi) + 1] = e
    BY PlacesGrow DEF TypeInv
  <1>2. \A k \in DOMAIN toUi' : Tells(toUi'[k], c) => k \in DOMAIN toUi /\ toUi'[k] = toUi[k]
    BY <1>1
  <1>3. \A k \in Nat : NoneAfter(toUi', c, k) => NoneAfter(toUi, c, k)
    BY <1>1 DEF NoneAfter
  <1>4. ScreenHears(c)'
    <2> SUFFICES ASSUME NoneBack(toBack, c, 0), NEW k \in DOMAIN toUi', Tells(toUi'[k], c),
                        NoneAfter(toUi', c, k)
                 PROVE  /\ toUi'[k].of[c] = ex[c]
                        /\ \/ k = 1 /\ p.inv = back
                           \/ k # 1 /\ toUi'[k - 1].kind = "inventory"
      BY DEF ScreenHears
    <2>1. k \in DOMAIN toUi /\ toUi'[k] = toUi[k] /\ NoneAfter(toUi, c, k)
      BY <1>1, <1>2, <1>3
    <2>2. /\ toUi[k].of[c] = ex[c]
          /\ (k = 1 /\ p.inv = back) \/ (k # 1 /\ toUi[k - 1].kind = "inventory")
      BY <2>1 DEF Stands, ScreenHears
    <2>3. k # 1 => k - 1 \in DOMAIN toUi
      BY <1>1, <2>1
    <2> QED
      BY <1>1, <2>1, <2>2, <2>3
  <1>5. LotsStand(c)'
    BY <1>3 DEF Stands, LotsStand
  <1> QED
    BY <1>4, <1>5 DEF Stands

\* The exchange publishes the balances that changed.
LEMMA PublishStands ==
  ASSUME NEW c \in Coins, TypeInv, Stands(c), NEW coins \in SUBSET Coins,
         ex' \in [Coins -> Balance], Publish(ex', coins),
         \A d \in Coins \ coins : ex'[d] = ex[d],
         p' = p, back' = back, hist'.fresh = hist.fresh
  PROVE  Stands(c)'
  <1>1. IsQueue(toUi) /\ IsQueue(toBack)
    BY DEF TypeInv
  <1>2. PICK m, e : /\ DOMAIN m = coins /\ \A d \in coins : m[d] = ex'[d]
                    /\ e = [kind |-> "balances", of |-> m]
                    /\ toUi' = Append(toUi, e) /\ toBack' = toBack \o <<m, m>>
    BY <1>1, PublishIs, ZenonT(40)
  <1>3. /\ Len(toBack) \in Nat /\ DOMAIN toBack = 1 .. Len(toBack)
        /\ DOMAIN toBack' = 1 .. Len(toBack) + 2
        /\ \A k \in DOMAIN toBack : toBack'[k] = toBack[k]
        /\ toBack'[Len(toBack) + 1] = m /\ toBack'[Len(toBack) + 2] = m
    BY <1>1, <1>2, PlacesGrow
  <1>4. CASE c \in coins
    <2>1. PICK n \in DOMAIN toBack' : /\ n = Len(toBack) + 2 /\ c \in DOMAIN toBack'[n]
                                      /\ toBack'[n] = m
      BY <1>2, <1>3, <1>4
    <2>2. \A k \in DOMAIN toBack' : NoneBack(toBack', c, k) => toBack'[k] = m
      <3> SUFFICES ASSUME NEW k \in DOMAIN toBack', toBack'[k] # m
                   PROVE  ~ NoneBack(toBack', c, k)
        OBVIOUS
      <3>1. n > k
        BY <1>3, <2>1
      <3> QED
        BY <2>1, <3>1 DEF NoneBack
    <2>3. ~ NoneBack(toBack', c, 0)
      BY <1>3, <2>1 DEF NoneBack
    <2> QED
      BY <1>2, <1>4, <2>2, <2>3 DEF Stands, BackKnows, ScreenHears, LotsStand
  <1>5. CASE c \notin coins
    <2>1. \A k \in Nat : NoneBack(toBack', c, k) => NoneBack(toBack, c, k)
      BY <1>3 DEF NoneBack
    <2>2. \A k \in DOMAIN toBack' : c \in DOMAIN toBack'[k]
                => k \in DOMAIN toBack /\ toBack'[k] = toBack[k]
      BY <1>2, <1>3, <1>5
    <2>3. BackKnows(c)'
      BY <1>3, <1>5, <2>1, <2>2 DEF Stands, BackKnows
    <2>4. ~ Tells(e, c)
      BY <1>2, <1>5 DEF Tells
    <2> QED
      BY <1>2, <1>5, <2>1, <2>3, <2>4, UntoldAppended
  <1> QED
    BY <1>4, <1>5

\* Where no lot of a coin was touched, what its lots hold stands.
LEMMA Untouched ==
  ASSUME NEW t, Sound(t), NEW u, Sound(u), NEW C, NEW N, Touches(t, u, C, N), NEW c, c \notin C,
         NEW list \in Seq(DOMAIN t.items)
  PROVE  /\ _get_exchange_available(u, c) = _get_exchange_available(t, c)
         /\ _get_exchange_locked(u, c) = _get_exchange_locked(t, c)
         /\ LotsOf(u, u.inv, c) = LotsOf(t, t.inv, c)
         /\ LotsOf(u, list, c) = LotsOf(t, list, c)
  <1>1. t.inv \in Seq(DOMAIN t.items) /\ u.inv \in Seq(DOMAIN u.items)
    BY DEF Sound, Typed
  <1>2. /\ Range(t.inv) \subseteq DOMAIN t.items /\ Range(u.inv) \subseteq DOMAIN u.items
        /\ Range(list) \subseteq DOMAIN t.items
    BY <1>1, ListHolds
  <1>3. \A i \in DOMAIN u.items : u.items[i].coin = c =>
            /\ i \in DOMAIN t.items /\ u.items[i] = t.items[i]
            /\ (i \in Range(u.inv) <=> i \in Range(t.inv))
    BY DEF Touches
  <1>4. \A i \in DOMAIN t.items : t.items[i].coin = c =>
            /\ i \in DOMAIN u.items /\ u.items[i] = t.items[i]
            /\ (i \in Range(u.inv) <=> i \in Range(t.inv))
    BY DEF Touches
  <1>5. LotsOf(u, list, c) = LotsOf(t, list, c)
    BY <1>2, <1>3, <1>4 DEF LotsOf, Touches
  <1>6. LotsOf(u, u.inv, c) = LotsOf(t, t.inv, c)
    BY <1>2, <1>3, <1>4 DEF LotsOf
  <1>7. PICK S : S = LotsOf(t, t.inv, c)
    OBVIOUS
  <1>8. \A i \in S : u.items[i] = t.items[i]
    BY <1>2, <1>4, <1>7 DEF LotsOf
  <1>9. \A field : [i \in S |-> u.items[i][field]] = [i \in S |-> t.items[i][field]]
    BY <1>8
  <1> QED
    BY <1>5, <1>6, <1>7, <1>9 DEF _get_exchange_available, _get_exchange_locked, Sum

\* The backend relays a message: the screen's queue has it behind the list.
LEMMA RelayStands ==
  ASSUME NEW c \in Coins, TypeInv, Stands(c), Relay
  PROVE  Stands(c)'
  <1>1. back' = back /\ ex' = ex /\ hist' = hist /\ IsQueue(toUi) /\ IsQueue(toBack) /\ Sound(p)
    BY DEF Relay, TypeInv
  <1>2. PICK m, e, f : /\ m = Head(toBack) /\ e = [kind |-> "inventory"]
                       /\ f = [kind |-> "balances", of |-> m]
    OBVIOUS
  <1>3. /\ Handles(p, p', DOMAIN m, {}) /\ p'.inv = p.inv
        /\ toBack # <<>> /\ toBack' = Tail(toBack) /\ toUi' = toUi \o <<e, f>>
    BY <1>2, RelayIs
  <1>4. /\ Len(toBack) \in Nat /\ DOMAIN toBack = 1 .. Len(toBack) /\ m = toBack[1]
        /\ Len(toBack) > 0 /\ DOMAIN toBack' = 1 .. Len(toBack) - 1
        /\ \A k \in DOMAIN toBack' : toBack'[k] = toBack[k + 1]
    BY <1>1, <1>2, <1>3, PlacesShrink
  <1>5. /\ Len(toUi) \in Nat /\ DOMAIN toUi = 1 .. Len(toUi)
        /\ DOMAIN toUi' = 1 .. Len(toUi) + 2
        /\ \A k \in DOMAIN toUi : toUi'[k] = toUi[k]
        /\ toUi'[Len(toUi) + 1] = e /\ toUi'[Len(toUi) + 2] = f
    BY <1>1, <1>3, PlacesGrow
  <1>6. \A k \in Nat : NoneBack(toBack', c, k) => NoneBack(toBack, c, k + 1)
    <2> SUFFICES ASSUME NEW k \in Nat, NoneBack(toBack', c, k),
                        NEW l \in DOMAIN toBack, l > k + 1
                 PROVE  c \notin DOMAIN toBack[l]
      BY DEF NoneBack
    <2>1. l - 1 \in DOMAIN toBack' /\ l - 1 > k /\ (l - 1) + 1 = l
      BY <1>4
    <2> QED
      BY <1>4, <2>1 DEF NoneBack
  <1>7. BackKnows(c)'
    <2> SUFFICES ASSUME NEW k \in DOMAIN toBack', c \in DOMAIN toBack'[k], NoneBack(toBack', c, k)
                 PROVE  toBack'[k][c] = ex[c]
      BY <1>1 DEF BackKnows
    <2>1. k \in Nat /\ k + 1 \in DOMAIN toBack /\ toBack'[k] = toBack[k + 1]
      BY <1>4
    <2> QED
      BY <1>6, <2>1 DEF Stands, BackKnows
  <1>8. e.kind = "inventory" /\ ~ Tells(e, c) /\ f.of = m /\ (Tells(f, c) <=> c \in DOMAIN m)
    BY <1>2 DEF Tells
  <1>9. CASE c \in DOMAIN m
    <2>1. NoneBack(toBack', c, 0) => m[c] = ex[c]
      <3> SUFFICES ASSUME NoneBack(toBack', c, 0) PROVE m[c] = ex[c]
        OBVIOUS
      <3>1. NoneBack(toBack, c, 1)
        BY <1>6
      <3> QED
        BY <1>4, <1>9, <3>1 DEF Stands, BackKnows
    <2>2. PICK n \in DOMAIN toUi' : n = Len(toUi) + 2 /\ toUi'[n] = f /\ n - 1 = Len(toUi) + 1
      BY <1>5
    <2>3. \A k \in DOMAIN toUi' : NoneAfter(toUi', c, k) => k = n
      <3> SUFFICES ASSUME NEW k \in DOMAIN toUi', k # n
                   PROVE  ~ NoneAfter(toUi', c, k)
        OBVIOUS
      <3>1. n > k
        BY <1>5, <2>2
      <3> QED
        BY <1>8, <1>9, <2>2, <3>1 DEF NoneAfter
    <2>4. ~ NoneAfter(toUi', c, 0)
      BY <1>5, <1>8, <1>9, <2>2 DEF NoneAfter
    <2>5. n # 1 /\ toUi'[n - 1].kind = "inventory"
      BY <1>5, <1>8, <2>2
    <2>6. ScreenHears(c)'
      BY <1>1, <1>8, <2>1, <2>2, <2>3, <2>5 DEF ScreenHears
    <2>7. LotsStand(c)'
      BY <2>4 DEF LotsStand
    <2> QED
      BY <1>7, <2>6, <2>7 DEF Stands
  <1>10. CASE c \notin DOMAIN m
    <2>1. NoneBack(toBack', c, 0) => NoneBack(toBack, c, 0)
      <3> SUFFICES ASSUME NoneBack(toBack', c, 0), NEW l \in DOMAIN toBack, l > 0
                   PROVE  c \notin DOMAIN toBack[l]
        BY DEF NoneBack
      <3>1. NoneBack(toBack, c, 1)
        BY <1>6
      <3> QED
        BY <1>4, <1>10, <3>1 DEF NoneBack
    <2>2. \A k \in DOMAIN toUi' : Tells(toUi'[k], c) => k \in DOMAIN toUi /\ toUi'[k] = toUi[k]
      BY <1>5, <1>8, <1>10
    <2>3. \A k \in Nat : NoneAfter(toUi', c, k) => NoneAfter(toUi, c, k)
      BY <1>5 DEF NoneAfter
    <2>4. ScreenHears(c)'
      <3> SUFFICES ASSUME NoneBack(toBack, c, 0), NEW k \in DOMAIN toUi', Tells(toUi'[k], c),
                          NoneAfter(toUi', c, k)
                   PROVE  /\ toUi'[k].of[c] = ex[c]
                          /\ \/ k = 1 /\ p.inv = back
                             \/ k # 1 /\ toUi'[k - 1].kind = "inventory"
        BY <1>1, <1>3, <2>1 DEF ScreenHears
      <3>1. k \in DOMAIN toUi /\ toUi'[k] = toUi[k] /\ NoneAfter(toUi, c, k)
        BY <1>5, <2>2, <2>3
      <3>2. /\ toUi[k].of[c] = ex[c]
            /\ (k = 1 /\ p.inv = back) \/ (k # 1 /\ toUi[k - 1].kind = "inventory")
        BY <3>1 DEF Stands, ScreenHears
      <3>3. k # 1 => k - 1 \in DOMAIN toUi
        BY <1>5, <3>1
      <3> QED
        BY <1>5, <3>1, <3>2, <3>3
    <2>5. LotsStand(c)'
      <3>1. /\ _get_exchange_available(p', c) = _get_exchange_available(p, c)
            /\ _get_exchange_locked(p', c) = _get_exchange_locked(p, c)
            /\ LotsOf(p', p'.inv, c) = LotsOf(p, p.inv, c)
            /\ LotsOf(p', back, c) = LotsOf(p, back, c)
        BY <1>1, <1>3, <1>10, Untouched DEF Handles, TypeInv
      <3> QED
        BY <1>1, <2>1, <2>3, <3>1 DEF Stands, LotsStand
    <2> QED
      BY <1>7, <2>4, <2>5 DEF Stands
  <1> QED
    BY <1>9, <1>10

\* The screen takes an event, and the backend's list when that is what it takes.
LEMMA TakingStands ==
  ASSUME NEW c \in Coins, TypeInv, Stands(c), toUi # <<>>, toUi' = Tail(toUi), Others,
         Head(toUi).kind = "inventory" => p'.inv = back, LotsStand(c)'
  PROVE  Stands(c)'
  <1>1. toBack' = toBack /\ back' = back /\ ex' = ex /\ IsQueue(toUi)
    BY DEF Others, TypeInv
  <1>2. /\ Len(toUi) \in Nat /\ DOMAIN toUi = 1 .. Len(toUi) /\ Head(toUi) = toUi[1]
        /\ Len(toUi) > 0 /\ DOMAIN toUi' = 1 .. Len(toUi) - 1
        /\ \A k \in DOMAIN toUi' : toUi'[k] = toUi[k + 1]
    BY <1>1, PlacesShrink
  <1>3. ScreenHears(c)'
    <2> SUFFICES ASSUME NoneBack(toBack, c, 0), NEW k \in DOMAIN toUi', Tells(toUi'[k], c),
                        NoneAfter(toUi', c, k)
                 PROVE  /\ toUi'[k].of[c] = ex[c]
                        /\ \/ k = 1 /\ p'.inv = back
                           \/ k # 1 /\ toUi'[k - 1].kind = "inventory"
      BY <1>1 DEF ScreenHears
    <2>1. k \in Nat /\ k + 1 \in DOMAIN toUi /\ toUi'[k] = toUi[k + 1] /\ k + 1 # 1
          /\ (k + 1) - 1 = k
      BY <1>2
    <2>2. NoneAfter(toUi, c, k + 1)
      <3> SUFFICES ASSUME NEW l \in DOMAIN toUi, l > k + 1
                   PROVE  ~ Tells(toUi[l], c)
        BY DEF NoneAfter
      <3>1. l - 1 \in DOMAIN toUi' /\ l - 1 > k /\ (l - 1) + 1 = l
        BY <1>2, <2>1
      <3> QED
        BY <1>2, <3>1 DEF NoneAfter
    <2>3. toUi[k + 1].of[c] = ex[c] /\ toUi[k].kind = "inventory"
      BY <2>1, <2>2 DEF Stands, ScreenHears
    <2>4. k # 1 => k - 1 \in DOMAIN toUi' /\ toUi'[k - 1] = toUi[k]
      BY <1>2, <2>1
    <2> QED
      BY <1>2, <2>1, <2>3, <2>4
  <1>4. BackKnows(c)'
    BY <1>1 DEF Stands, BackKnows
  <1> QED
    BY <1>3, <1>4 DEF Stands

\* Nothing behind what was taken tells a coin: nothing else told it.
LEMMA NothingElse ==
  ASSUME NEW c, TypeInv, toUi # <<>>, toUi' = Tail(toUi), NoneAfter(toUi', c, 0)
  PROVE  /\ 1 \in DOMAIN toUi /\ toUi[1] = Head(toUi) /\ NoneAfter(toUi, c, 1)
         /\ ~ Tells(Head(toUi), c) => NoneAfter(toUi, c, 0)
  <1>1. /\ Len(toUi) \in Nat /\ DOMAIN toUi = 1 .. Len(toUi) /\ Head(toUi) = toUi[1]
        /\ Len(toUi) > 0 /\ DOMAIN toUi' = 1 .. Len(toUi) - 1
        /\ \A k \in DOMAIN toUi' : toUi'[k] = toUi[k + 1]
    BY PlacesShrink DEF TypeInv
  <1>2. NoneAfter(toUi, c, 1)
    <2> SUFFICES ASSUME NEW l \in DOMAIN toUi, l > 1
                 PROVE  ~ Tells(toUi[l], c)
      BY DEF NoneAfter
    <2>1. l - 1 \in DOMAIN toUi' /\ l - 1 > 0 /\ (l - 1) + 1 = l
      BY <1>1
    <2> QED
      BY <1>1, <2>1 DEF NoneAfter
  <1>3. ~ Tells(Head(toUi), c) => NoneAfter(toUi, c, 0)
    <2> SUFFICES ASSUME ~ Tells(Head(toUi), c), NEW l \in DOMAIN toUi
                 PROVE  ~ Tells(toUi[l], c)
      BY DEF NoneAfter
    <2>1. l = 1 \/ l > 1
      BY <1>1
    <2> QED
      BY <1>1, <1>2, <2>1 DEF NoneAfter
  <1> QED
    BY <1>1, <1>2, <1>3

\* A handler that does not touch a fresh coin.
LEMMA HandlerStands ==
  ASSUME NEW c \in Coins, TypeInv, Stands(c), toUi # <<>>, toUi' = Tail(toUi), Others,
         Head(toUi).kind # "inventory", ~ Tells(Head(toUi), c),
         NEW C, NEW N, Handles(p, p', C, N),
         c \in hist'.fresh => c \in hist.fresh /\ c \notin C
  PROVE  Stands(c)'
  <1>1. /\ toBack' = toBack /\ back' = back /\ ex' = ex /\ Sound(p) /\ Sound(p')
        /\ Touches(p, p', C, N) /\ back \in Seq(DOMAIN p.items)
    BY DEF Others, TypeInv, Handles
  <1>2. LotsStand(c)'
    <2> SUFFICES ASSUME NoneBack(toBack, c, 0), NoneAfter(toUi', c, 0), c \in hist'.fresh
                 PROVE  /\ _get_exchange_available(p', c) = ex[c].free
                        /\ _get_exchange_locked(p', c) = ex[c].locked
                        /\ LotsOf(p', p'.inv, c) = LotsOf(p', back, c)
      BY <1>1 DEF LotsStand
    <2>1. NoneAfter(toUi, c, 0)
      BY NothingElse
    <2>2. /\ _get_exchange_available(p', c) = _get_exchange_available(p, c)
          /\ _get_exchange_locked(p', c) = _get_exchange_locked(p, c)
          /\ LotsOf(p', p'.inv, c) = LotsOf(p, p.inv, c)
          /\ LotsOf(p', back, c) = LotsOf(p, back, c)
      BY <1>1, Untouched
    <2> QED
      BY <2>1, <2>2 DEF Stands, LotsStand
  <1> QED
    BY <1>2, TakingStands

\* The backend's list has the same lots of a fresh coin.
LEMMA InventoryStands ==
  ASSUME NEW c \in Coins, TypeInv, Stands(c), TakeInventory
  PROVE  Stands(c)'
  <1>1. /\ toUi # <<>> /\ toUi' = Tail(toUi) /\ Others /\ Head(toUi).kind = "inventory"
        /\ p' = set_inventory(p, back) /\ hist'.fresh = hist.fresh
        /\ toBack' = toBack /\ back' = back /\ ex' = ex
    BY DEF TakeInventory, Takes, Others, TypeInv, HistOf
  <1>2. p'.inv = back /\ p'.items = p.items
    BY <1>1, InventorySet DEF TypeInv
  <1>3. ~ Tells(Head(toUi), c)
    BY <1>1 DEF Tells
  <1>4. LotsStand(c)'
    <2> SUFFICES ASSUME NoneBack(toBack, c, 0), NoneAfter(toUi', c, 0), c \in hist.fresh
                 PROVE  /\ _get_exchange_available(p', c) = ex[c].free
                        /\ _get_exchange_locked(p', c) = ex[c].locked
                        /\ LotsOf(p', p'.inv, c) = LotsOf(p', back, c)
      BY <1>1 DEF LotsStand
    <2>1. NoneAfter(toUi, c, 0)
      BY <1>1, <1>3, NothingElse
    <2>2. /\ _get_exchange_available(p, c) = ex[c].free
          /\ _get_exchange_locked(p, c) = ex[c].locked
          /\ LotsOf(p, p.inv, c) = LotsOf(p, back, c)
      BY <2>1 DEF Stands, LotsStand
    <2>3. LotsOf(p', p'.inv, c) = LotsOf(p, p.inv, c)
      BY <1>2, <2>2 DEF LotsOf
    <2> QED
      BY <1>2, <2>2, <2>3 DEF _get_exchange_available, _get_exchange_locked, Sum
  <1> QED
    BY <1>1, <1>2, <1>4, TakingStands

\* The last message of a coin, handled on the list the backend relayed, makes its
\* lots add up to the balance.
LEMMA BalancesStandAfter ==
  ASSUME NEW c \in Coins, TypeInv, Stands(c), TakeBalances
  PROVE  Stands(c)'
  <1>1. /\ toUi # <<>> /\ toUi' = Tail(toUi) /\ Others /\ IsMessage(Head(toUi).of)
        /\ Head(toUi).kind = "balances"
        /\ Handles(p, p', DOMAIN Head(toUi).of, {})
        /\ p'.inv = p.inv /\ p' = handle_account_position(p, p.inv, Head(toUi).of)
    BY BalancesTaken
  <1>2. PICK m : m = Head(toUi).of
    OBVIOUS
  <1>3. /\ c \in hist'.fresh <=> \/ c \in hist.fresh /\ c \notin DOMAIN m
                                 \/ c \in DOMAIN m /\ _get_database_quantity(p, c) > 0
    BY <1>2 DEF TakeBalances, TypeInv, HistOf
  <1>4. /\ toBack' = toBack /\ back' = back /\ ex' = ex /\ Sound(p)
        /\ p.inv \in Seq(DOMAIN p.items)
    BY <1>1 DEF Others, TypeInv, Sound, Typed
  <1>5. Tells(Head(toUi), c) <=> c \in DOMAIN m
    BY <1>1, <1>2 DEF Tells
  <1>6. CASE c \notin DOMAIN m
    <2>1. /\ Handles(p, p', DOMAIN m, {}) /\ Head(toUi).kind # "inventory"
          /\ ~ Tells(Head(toUi), c)
          /\ c \in hist'.fresh => c \in hist.fresh /\ c \notin DOMAIN m
      BY <1>1, <1>2, <1>3, <1>5, <1>6
    <2> QED
      BY <1>1, <2>1, HandlerStands
  <1>7. CASE c \in DOMAIN m
    <2>1. LotsStand(c)'
      <3> SUFFICES ASSUME NoneBack(toBack, c, 0), NoneAfter(toUi', c, 0), c \in hist'.fresh
                   PROVE  /\ _get_exchange_available(p', c) = ex[c].free
                          /\ _get_exchange_locked(p', c) = ex[c].locked
                          /\ LotsOf(p', p'.inv, c) = LotsOf(p', back, c)
        BY <1>4 DEF LotsStand
      <3>1. 1 \in DOMAIN toUi /\ toUi[1] = Head(toUi) /\ NoneAfter(toUi, c, 1)
        BY <1>1, NothingElse
      <3>2. m[c] = ex[c] /\ p.inv = back
        BY <1>2, <1>5, <1>7, <3>1 DEF Stands, ScreenHears
      <3>3. PICK t : t = p
        OBVIOUS
      <3>4. PICK u : u = handle_account_position(t, t.inv, m)
        OBVIOUS
      <3>5. Sum(t, "qty", LotsOf(t, t.inv, c)) > 0
        BY <1>3, <1>7, <3>3 DEF _get_database_quantity
      <3>6. Sound(t) /\ t.inv \in Seq(DOMAIN t.items) /\ IsMessage(m)
        BY <1>1, <1>2, <1>4, <3>3
      <3>7. Sum(u, "free", LotsOf(u, t.inv, c)) = m[c]["free"]
        BY <1>7, <3>4, <3>5, <3>6, BalancesAddUp
      <3>8. Sum(u, "locked", LotsOf(u, t.inv, c)) = m[c]["locked"]
        BY <1>7, <3>4, <3>5, <3>6, BalancesAddUp
      <3>9. p' = u /\ p'.inv = t.inv
        BY <1>1, <1>2, <3>3, <3>4
      <3> QED
        BY <1>1, <3>2, <3>3, <3>7, <3>8, <3>9
           DEF _get_exchange_available, _get_exchange_locked
    <2>2. Head(toUi).kind # "inventory"
      BY <1>1
    <2> QED
      BY <1>1, <2>1, <2>2, TakingStands
  <1> QED
    BY <1>6, <1>7

\* Whatever the screen takes.
LEMMA ScreenStands ==
  ASSUME BooksInv, Screen, NEW c \in Coins, Stands(c)
  PROVE  Stands(c)'
  <1>1. TypeInv
    BY DEF BooksInv
  <1>2. \A e \in HpReport : e.kind # "inventory" /\ e.kind # "balances"
    BY DEF HpReport, HpEventOf
  <1>3. ASSUME NEW C, NEW N, Handled(C, N)
        PROVE  Stands(c)'
    <2>1. /\ toUi # <<>> /\ toUi' = Tail(toUi) /\ Others /\ Handles(p, p', C, N)
          /\ Head(toUi) \in HpReport /\ hist'.fresh = hist.fresh \ C
      BY <1>1, <1>3 DEF Handled, TypeInv, HistOf
    <2>2. Head(toUi).kind # "inventory" /\ ~ Tells(Head(toUi), c)
      BY <1>2, <2>1 DEF Tells
    <2>3. c \in hist'.fresh => c \in hist.fresh /\ c \notin C
      BY <2>1
    <2> QED
      BY <1>1, <2>1, <2>2, <2>3, HandlerStands
  <1>4. CASE TakeCompleted
    <2>1. PICK h \in Positions :
             /\ toUi # <<>> /\ toUi' = Tail(toUi) /\ Others /\ Head(toUi) \in HpReport
             /\ Handles(p, p', {Quote}, {Received(h)}) /\ hist'.fresh = hist.fresh \ {Quote}
      BY <1>4, CompletedTaken
    <2>2. Head(toUi).kind # "inventory" /\ ~ Tells(Head(toUi), c)
      BY <1>2, <2>1 DEF Tells
    <2>3. c \in hist'.fresh => c \in hist.fresh /\ c \notin {Quote}
      BY <2>1
    <2> QED
      BY <1>1, <2>1, <2>2, <2>3, HandlerStands
  <1> QED
    BY <1>1, <1>3, <1>4, InventoryStands, BalancesStandAfter, MoneyIsHandled, BuysAreHandled
       DEF Screen

\* Every coin always stands.
LEMMA BalancesHold == Spec => []BalancesInv
  <1>1. BooksInv /\ BalancesInv /\ [Next]_vars => BalancesInv'
    <2> SUFFICES ASSUME BooksInv, BalancesInv, [Next]_vars, NEW c \in Coins
                 PROVE  Stands(c)'
      BY DEF BalancesInv
    <2>1. TypeInv /\ Funds /\ Stands(c)
      BY DEF BooksInv, BalancesInv
    <2>2. CASE Exchange
      <3>1. CASE Subscribed
        BY <2>1, <3>1, PublishStands DEF Subscribed, Keeping, TypeInv
      <3>2. ASSUME NEW h \in Positions, Moves(h)
            PROVE  Stands(c)'
        <4>1. PICK coins \in SUBSET Coins :
                 Publish(ex', coins) /\ \A d \in Coins \ coins : ex'[d] = ex[d]
          BY <3>2 DEF Moves
        <4>2. ex' \in [Coins -> Balance] /\ p' = p /\ back' = back /\ hist'.fresh = hist.fresh
          BY <3>2 DEF Moves
        <4> QED
          BY <2>1, <4>1, <4>2, PublishStands
      <3> QED
        BY <2>1, <2>2, <3>1, <3>2, ExchangeMoves
    <2>3. ASSUME NEW h \in Positions, Emit(h)
          PROVE  Stands(c)'
      <3>1. PICK e \in HpReport :
               /\ toUi' = Append(toUi, e)
               /\ p' = p /\ back' = back /\ toBack' = toBack /\ ex' = ex /\ hist' = hist
        BY <2>1, <2>3, EmitIs
      <3>2. ~ Tells(e, c)
        BY DEF HpReport, HpEventOf, Tells
      <3>3. BackKnows(c)'
        BY <2>1, <3>1 DEF Stands, BackKnows
      <3> QED
        BY <2>1, <3>1, <3>2, <3>3, UntoldAppended
    <2>4. CASE Relay
      BY <2>1, <2>4, RelayStands
    <2>5. CASE Screen
      BY <2>1, <2>5, ScreenStands
    <2>6. CASE Restart
      <3>1. toUi' = <<>> /\ toBack' = <<>> /\ hist'.fresh = {}
        BY <2>1, <2>6 DEF Restart, RecoveryFails, RecoverySucceeds, Forgets, TypeInv, HistOf
      <3> QED
        BY <3>1 DEF Stands, BackKnows, ScreenHears, LotsStand
    <2>8. CASE User
      <3>1. PICK e \in HpReport :
               /\ toUi' = Append(toUi, e)
               /\ p' = p /\ back' = back /\ toBack' = toBack /\ ex' = ex /\ hist' = hist
        BY <2>1, <2>8, SetUpSellIs DEF User
      <3>2. ~ Tells(e, c)
        BY DEF HpReport, HpEventOf, Tells
      <3>3. BackKnows(c)'
        BY <2>1, <3>1 DEF Stands, BackKnows
      <3> QED
        BY <2>1, <3>1, <3>2, <3>3, UntoldAppended
    <2>7. CASE UNCHANGED vars
      BY <2>1, <2>7 DEF vars, Stands, BackKnows, ScreenHears, LotsStand
    <2> QED
      BY <2>2, <2>3, <2>4, <2>5, <2>6, <2>7, <2>8 DEF Next
  <1> QED
    BY <1>1, BalancesInit, BooksHold, PTL DEF Spec

\* When everything sent has been handled, the lots of a coin that a balances message
\* touched last add up to the balance the exchange has now, however the messages,
\* what the backend relayed of them and the events of the strategies were mixed.
THEOREM BalancesAreKept == Spec => []BalancesStand
  <1>1. BooksInv /\ BalancesInv => BalancesStand
    <2> SUFFICES ASSUME BooksInv, BalancesInv, toUi = <<>>, toBack = <<>>,
                        NEW c \in hist.fresh
                 PROVE  /\ _get_exchange_available(p, c) = ex[c].free
                        /\ _get_exchange_locked(p, c) = ex[c].locked
      BY DEF BalancesStand
    <2>1. c \in Coins
      BY DEF BooksInv, TypeInv, HistOf
    <2>2. NoneBack(toBack, c, 0) /\ NoneAfter(toUi, c, 0)
      BY DEF NoneBack, NoneAfter
    <2> QED
      BY <2>1, <2>2 DEF BalancesInv, Stands, LotsStand
  <1> QED
    BY <1>1, BooksHold, BalancesHold, PTL

(***************************************************************************)
(* Proceeds across starts                                                  *)
(***************************************************************************)

\* The last two reports of a position complete it, and no others do.
CompletesLast(w) == \A k \in DOMAIN w : w[k].kind = "completed" <=> k >= Len(w) - 1

\* A sell whose proceeds were added, or of which a completion was told, has one
\* completion left to tell at most; one whose proceeds were added before the program
\* started has none, unless it is completed again by what is saved of it.
SoldAt(h) ==
    /\ hp[h].phase = "over" => CompletesLast(wire[h])
    /\ (hist.credited[h] > 0 \/ Queued(h)) /\ ~ hp[h].again => Len(wire[h]) <= 1
    /\ h \in hist.before =>
           /\ hp[h].phase = "over"
           /\ hp[h].again \/ (wire[h] = <<>> /\ ~ Queued(h) /\ hist.credited[h] = 0)
SoldInv == \A h \in Positions : SoldAt(h)

\* The length of a strategy's reports, the first of which is taken off.
LEMMA ReportsShrink ==
  ASSUME NEW w \in Seq(HpReport), w # <<>>
  PROVE  /\ Len(w) \in Nat /\ Len(w) > 0 /\ DOMAIN w = 1 .. Len(w) /\ Head(w) = w[1]
         /\ Len(Tail(w)) = Len(w) - 1 /\ DOMAIN Tail(w) = 1 .. Len(w) - 1
         /\ \A k \in DOMAIN Tail(w) : Tail(w)[k] = w[k + 1]
  <1>1. IsQueue(w)
    BY QueueOf DEF Among
  <1>2. Len(Tail(w)) = Len(w) - 1
    OBVIOUS
  <1> QED
    BY <1>1, <1>2, PlacesShrink

\* A position that is not touched stays as it was.
LEMMA SoldKept ==
  ASSUME NEW h \in Positions, SoldAt(h), hp'[h] = hp[h], wire'[h] = wire[h],
         hist'.credited[h] = hist.credited[h], hist'.before = hist.before,
         Queued(h)' => Queued(h)
  PROVE  SoldAt(h)'
  BY DEF SoldAt, CompletesLast

\* A position that goes on selling or buying was credited by nothing.
LEMMA GoesOn ==
  ASSUME BooksInv, SoldInv, NEW h \in Positions, hp[h].phase # "over",
         hist'.credited[h] = hist.credited[h], hist'.before = hist.before,
         Queued(h)' => Queued(h), hp'[h].phase = "over" => CompletesLast(wire'[h])
  PROVE  SoldAt(h)'
  <1>1. hist.credited[h] = 0 /\ ~ Queued(h)
    BY DEF BooksInv, ProceedsInv, Coming
  <1>2. h \notin hist.before
    BY DEF SoldInv, SoldAt
  <1> QED
    BY <1>1, <1>2 DEF SoldAt

\* Two completions of a position.
LEMMA TwoCompletions ==
  ASSUME NEW e, e.kind = "completed"
  PROVE  CompletesLast(<<e, e>>) /\ Len(<<e, e>>) = 2
  BY DEF CompletesLast

\* The exchange ends a position by filling its sell, and the last two reports of that
\* are its completions.
LEMMA ExchangeEnds ==
  ASSUME TypeInv, Exchange, NEW h \in Positions, hp[h].phase # "over", hp'[h].phase = "over"
  PROVE  CompletesLast(wire'[h])
  <1>1. PICK old \in Deal : old = hp[h]
    BY DEF TypeInv
  <1>2. old.phase # "over" /\ hp \in [Positions -> Deal]
    BY <1>1 DEF TypeInv
  <1>3. ASSUME NEW g \in Positions, NEW trade, hp' = [hp EXCEPT ![g] = trade],
               trade.phase # "over"
        PROVE  FALSE
    BY <1>2, <1>3
  <1>4. PICK amount \in 1 .. hp[h].left : SellFills(h, amount)
    <2>1. ~ Subscribed
      BY DEF Subscribed
    <2>2. ASSUME NEW g \in Positions, NEW c \in Coins, NEW n \in Sizes, PlaceBuy(g, c, n)
          PROVE  FALSE
      <3>1. PICK trade : trade = [hp[g] EXCEPT !.phase = "buying", !.coin = c, !.left = n, !.total = n]
        OBVIOUS
      <3>2. trade.phase = "buying"
        BY <1>2, <3>1 DEF Deal, Trade
      <3>3. hp' = [hp EXCEPT ![g] = trade]
        BY <2>2, <3>1 DEF PlaceBuy
      <3> QED
        BY <1>3, <3>2, <3>3
    <2>3. ASSUME NEW g \in Positions, NEW n \in 1 .. hp[g].left, BuyFills(g, n)
          PROVE  FALSE
      <3>1. PICK left : left = hp[g].left - n
        OBVIOUS
      <3>2. PICK trade : trade = IF n = hp[g].left THEN [hp[g] EXCEPT !.phase = "holding", !.left = 0]
                                 ELSE [hp[g] EXCEPT !.left = left]
        OBVIOUS
      <3>3. hp[g] \in Deal /\ hp[g].phase = "buying"
        BY <1>2, <2>3 DEF BuyFills, Trades
      <3>4. trade.phase \in {"holding", "buying"}
        BY <3>2, <3>3 DEF Deal, Trade
      <3>5. hp' = [hp EXCEPT ![g] = trade]
        BY <2>3, <3>1, <3>2 DEF BuyFills
      <3> QED
        BY <1>3, <3>4, <3>5
    <2>4. ASSUME NEW g \in Positions, PlaceSell(g)
          PROVE  FALSE
      <3>1. PICK trade : trade = [hp[g] EXCEPT !.phase = IF @ = "routed" THEN "hopping" ELSE "selling"]
        OBVIOUS
      <3>2. trade.phase = (IF hp[g].phase = "routed" THEN "hopping" ELSE "selling")
        BY <1>2, <3>1 DEF Deal, Trade
      <3>3. hp' = [hp EXCEPT ![g] = trade]
        BY <2>4, <3>1 DEF PlaceSell
      <3> QED
        BY <1>3, <3>2, <3>3
    <2>5. ASSUME NEW g \in Positions, CancelBuy(g)
          PROVE  FALSE
      <3>1. PICK trade : trade = [hp[g] EXCEPT !.phase = "idle", !.closed = TRUE]
        OBVIOUS
      <3>2. trade.phase = "idle"
        BY <1>2, <3>1 DEF Deal, Trade
      <3>3. hp' = [hp EXCEPT ![g] = trade]
        BY <2>5, <3>1 DEF CancelBuy
      <3> QED
        BY <1>3, <3>2, <3>3
    <2>6. ASSUME NEW g \in Positions, CancelSell(g)
          PROVE  FALSE
      <3>1. PICK trade : trade = [hp[g] EXCEPT !.phase = "ready", !.closed = TRUE]
        OBVIOUS
      <3>2. trade.phase = "ready"
        BY <1>2, <3>1 DEF Deal, Trade
      <3>3. hp' = [hp EXCEPT ![g] = trade]
        BY <2>6, <3>1 DEF CancelSell
      <3> QED
        BY <1>3, <3>2, <3>3
    <2>7. ASSUME NEW g \in Positions, FirstLegFills(g)
          PROVE  FALSE
      <3>1. PICK trade : trade = [hp[g] EXCEPT !.phase = "second", !.coin = Middle]
        OBVIOUS
      <3>2. trade.phase = "second"
        BY <1>2, <3>1 DEF Deal, Trade
      <3>3. hp' = [hp EXCEPT ![g] = trade]
        BY <2>7, <3>1 DEF FirstLegFills
      <3> QED
        BY <1>3, <3>2, <3>3
    <2>8. ASSUME NEW g \in Positions, NEW n \in 1 .. hp[g].left, SellFills(g, n), g # h
          PROVE  FALSE
      <3>1. \E x : hp' = [hp EXCEPT ![g] = x]
        BY <2>8 DEF SellFills
      <3>2. hp'[h] = hp[h]
        BY <2>8, <3>1
      <3> QED
        BY <3>2
    <2>9. \A g \in Positions, c \in Coins, n \in Sizes : ~ PlaceBuy(g, c, n)
      BY <2>2
    <2>10. \A g \in Positions : \A n \in 1 .. hp[g].left : ~ BuyFills(g, n)
      BY <2>3
    <2>11. \A g \in Positions : ~ (PlaceSell(g) \/ CancelBuy(g) \/ FirstLegFills(g) \/ CancelSell(g))
      BY <2>4, <2>5, <2>6, <2>7
    <2>12. \A g \in Positions : \A n \in 1 .. hp[g].left : SellFills(g, n) => g = h
      BY <2>8
    <2> QED
      BY <2>1, <2>9, <2>10, <2>11, <2>12 DEF Exchange
  <1>5. amount = hp[h].left
    <2> SUFFICES ASSUME amount # hp[h].left PROVE FALSE
      OBVIOUS
    <2>1. PICK left : left = hp[h].left - amount
      OBVIOUS
    <2>2. hp' = [hp EXCEPT ![h] = [hp[h] EXCEPT !.left = left]]
      BY <1>4, <2>1 DEF SellFills
    <2>3. [old EXCEPT !.left = left].phase = old.phase
      BY <1>1 DEF Deal, Trade
    <2> QED
      BY <1>1, <1>2, <1>3, <2>2, <2>3
  <1>6. wire[h] = <<>> /\ wire \in [Positions -> Seq(HpReport)]
    BY <1>4 DEF SellFills, Trades, TypeInv
  <1>7. PICK leg : leg = IF hp[h].phase = "second" THEN "b" ELSE ""
    OBVIOUS
  <1>8. PICK sold, e, f : /\ sold = HpEvent("sold", h, leg, hp[h].coin, amount)
                          /\ e = Completed(h, leg) /\ f = Completed(h, "")
    OBVIOUS
  <1>9. sold.kind = "sold" /\ e.kind = "completed" /\ f.kind = "completed"
    BY <1>8 DEF Completed, HpEvent
  <1>10. Report(h, <<sold>> \o <<e, f>>)
    BY <1>4, <1>5, <1>7, <1>8 DEF SellFills
  <1>11. PICK w : w = <<sold>> \o <<e, f>>
    OBVIOUS
  <1>12. w \in Seq({sold, e, f}) /\ IsQueue(<<sold>>) /\ Len(<<sold>>) = 1
         /\ <<sold>>[1] = sold /\ 1 \in DOMAIN <<sold>>
    <2>1. <<sold>> \in Seq({sold, e, f}) /\ <<e, f>> \in Seq({sold, e, f})
      OBVIOUS
    <2> QED
      BY <1>11, <2>1 DEF IsQueue
  <1>13. DOMAIN w = 1 .. 3 /\ w[1] = sold /\ w[2] = e /\ w[3] = f
    BY <1>11, <1>12, PlacesGrow
  <1>14. Len(w) = 3 /\ <<>> \o w = w
    BY <1>12, <1>13
  <1>15. wire'[h] = w
    BY <1>6, <1>10, <1>11, <1>14 DEF Report
  <1>16. CompletesLast(w)
    <2> SUFFICES ASSUME NEW k \in 1 .. 3
                 PROVE  w[k].kind = "completed" <=> k >= 2
      BY <1>13, <1>14 DEF CompletesLast
    <2>1. k = 1 \/ k = 2 \/ k = 3
      OBVIOUS
    <2> QED
      BY <1>9, <1>13, <2>1
  <1> QED
    BY <1>15, <1>16

\* What the exchange publishes completes nothing.
LEMMA PublishCompletes ==
  ASSUME TypeInv, NEW balances \in [Coins -> Balance], NEW coins \in SUBSET Coins,
         Publish(balances, coins)
  PROVE  \A h \in Positions : Queued(h)' => Queued(h)
  <1>1. PICK m, e : /\ e = [kind |-> "balances", of |-> m]
                    /\ Among(toUi', {toUi[k] : k \in DOMAIN toUi} \cup {e})
    BY PublishIs DEF TypeInv
  <1>2. \A k \in DOMAIN toUi' : toUi'[k].kind = "balances" \/ \E l \in DOMAIN toUi : toUi'[k] = toUi[l]
    BY <1>1 DEF Among
  <1> QED
    BY <1>2 DEF Queued

\* A step of the exchange.
LEMMA SoldExchange ==
  ASSUME BooksInv, SoldInv, Exchange
  PROVE  SoldInv'
  <1>1. TypeInv /\ Funds /\ hist \in HistOf
    BY DEF BooksInv, TypeInv
  <1>2. hist'.before = hist.before
    <2>1. ASSUME NEW x, hist' = [hist EXCEPT !.bought = x]
          PROVE  hist'.before = hist.before
      BY <1>1, <2>1 DEF HistOf
    <2>2. ASSUME NEW g \in Positions, NEW n, BuyFills(g, n)
          PROVE  hist'.before = hist.before
      <3>1. PICK x : x = [hist.bought EXCEPT ![g] = @ + n]
        OBVIOUS
      <3> QED
        BY <2>1, <2>2, <3>1 DEF BuyFills
    <2>3. \A g \in Positions : \A n \in 1 .. hp[g].left :
              BuyFills(g, n) => hist'.before = hist.before
      BY <2>2
    <2>4. Subscribed => hist' = hist
      BY DEF Subscribed
    <2>5. \A g \in Positions, c \in Coins, n \in Sizes : PlaceBuy(g, c, n) => hist' = hist
      BY DEF PlaceBuy
    <2>6. \A g \in Positions : \A n \in 1 .. hp[g].left : SellFills(g, n) => hist' = hist
      BY DEF SellFills
    <2>7. \A g \in Positions :
              PlaceSell(g) \/ CancelBuy(g) \/ FirstLegFills(g) \/ CancelSell(g) => hist' = hist
      BY DEF PlaceSell, CancelBuy, FirstLegFills, CancelSell
    <2> QED
      BY <2>3, <2>4, <2>5, <2>6, <2>7 DEF Exchange
  <1>3. CASE Subscribed
    <2>1. hp' = hp /\ wire' = wire /\ hist' = hist /\ Publish(ex, Coins) /\ ex \in [Coins -> Balance]
      BY <1>1, <1>3 DEF Subscribed, TypeInv
    <2>2. \A h \in Positions : Queued(h)' => Queued(h)
      BY <1>1, <2>1, PublishCompletes
    <2> QED
      BY <2>1, <2>2, SoldKept DEF SoldInv
  <1>4. ASSUME NEW g \in Positions, Moves(g)
        PROVE  SoldInv'
    <2>1. /\ hp[g].phase # "over" /\ hist'.credited = hist.credited /\ ex' \in [Coins -> Balance]
          /\ \A h \in Positions \ {g} : hp'[h] = hp[h] /\ wire'[h] = wire[h]
      BY <1>4 DEF Moves
    <2>2. \A h \in Positions : Queued(h)' => Queued(h)
      BY <1>1, <1>4, <2>1, PublishCompletes DEF Moves
    <2>3. ASSUME NEW h \in Positions, h # g
          PROVE  SoldAt(h)'
      BY <1>2, <2>1, <2>2, <2>3, SoldKept DEF SoldInv
    <2>4. hp'[g].phase = "over" => CompletesLast(wire'[g])
      BY <1>1, <2>1, ExchangeEnds
    <2>5. SoldAt(g)'
      BY <1>2, <2>1, <2>2, <2>4, GoesOn
    <2> QED
      BY <2>3, <2>5 DEF SoldInv
  <1> QED
    BY <1>1, <1>3, <1>4, ExchangeMoves

\* A sell that is set up.
LEMMA SoldSetUp ==
  ASSUME BooksInv, SoldInv, NEW g \in Positions, NEW c \in Coins, NEW amount \in Sizes,
         NEW hops \in BOOLEAN, SetUpSell(g, c, amount, hops)
  PROVE  SoldInv'
  <1>1. TypeInv
    BY DEF BooksInv
  <1>2. /\ \A h \in Positions \ {g} : hp'[h] = hp[h]
        /\ hp[g].phase \in {"idle", "holding"} /\ hp'[g].phase \in {"ready", "routed"}
        /\ wire' = wire /\ hist' = hist
    BY <1>1, SetUpSellIs
  <1>3. PICK e \in HpReport : e.kind = "created" /\ Among(toUi', {toUi[k] : k \in DOMAIN toUi} \cup {e})
    BY <1>1, SetUpSellIs
  <1>4. \A k \in DOMAIN toUi' : toUi'[k] = e \/ \E n \in DOMAIN toUi : toUi'[k] = toUi[n]
    BY <1>3 DEF Among
  <1>5. \A h \in Positions : Queued(h)' => Queued(h)
    BY <1>3, <1>4 DEF Queued
  <1>6. ASSUME NEW h \in Positions, h # g
        PROVE  SoldAt(h)'
    BY <1>2, <1>5, <1>6, SoldKept DEF SoldInv
  <1>7. SoldAt(g)'
    BY <1>2, <1>5, GoesOn
  <1> QED
    BY <1>6, <1>7 DEF SoldInv

\* A report goes to the screen: the first of two completions leaves one.
LEMMA SoldEmit ==
  ASSUME BooksInv, SoldInv, NEW g \in Positions, Emit(g)
  PROVE  SoldInv'
  <1>1. TypeInv
    BY DEF BooksInv
  <1>2. PICK w \in Seq(HpReport) : w = wire[g]
    BY <1>1 DEF TypeInv
  <1>3. /\ w # <<>> /\ wire' = [wire EXCEPT ![g] = Tail(w)] /\ toUi' = Append(toUi, Head(w))
        /\ hp' = hp /\ hist' = hist
    BY <1>2 DEF Emit
  <1>4. wire'[g] = Tail(w) /\ \A h \in Positions \ {g} : wire'[h] = wire[h]
    BY <1>1, <1>3 DEF TypeInv
  <1>5. /\ Len(w) \in Nat /\ Len(w) > 0 /\ DOMAIN w = 1 .. Len(w) /\ Head(w) = w[1]
        /\ Len(Tail(w)) = Len(w) - 1 /\ DOMAIN Tail(w) = 1 .. Len(w) - 1
        /\ \A k \in DOMAIN Tail(w) : Tail(w)[k] = w[k + 1]
    BY <1>3, ReportsShrink
  <1>6. Head(w).hp = g
    BY <1>2, <1>5 DEF BooksInv, ProceedsInv
  <1>7. \A k \in DOMAIN toUi' : toUi'[k] = Head(w) \/ \E n \in DOMAIN toUi : toUi'[k] = toUi[n]
    BY <1>1, <1>3, QueueGrows DEF Among, TypeInv
  <1>8. \A h \in Positions : Queued(h)' => Queued(h) \/ (h = g /\ Head(w).kind = "completed")
    BY <1>6, <1>7 DEF Queued
  <1>9. ASSUME NEW h \in Positions, h # g
        PROVE  SoldAt(h)'
    BY <1>3, <1>4, <1>8, <1>9, SoldKept DEF SoldInv
  <1>10. SoldAt(g)'
    <2>1. hp[g].phase = "over" => CompletesLast(Tail(w))
      <3> SUFFICES ASSUME CompletesLast(w) PROVE CompletesLast(Tail(w))
        BY <1>2 DEF SoldInv, SoldAt
      <3> SUFFICES ASSUME NEW k \in 1 .. Len(w) - 1
                   PROVE  Tail(w)[k].kind = "completed" <=> k >= (Len(w) - 1) - 1
        BY <1>5 DEF CompletesLast
      <3>1. k + 1 \in DOMAIN w /\ Tail(w)[k] = w[k + 1]
        BY <1>5
      <3>2. w[k + 1].kind = "completed" <=> k + 1 >= Len(w) - 1
        BY <3>1 DEF CompletesLast
      <3> QED
        BY <1>5, <3>1, <3>2
    <2>2. ASSUME hist.credited[g] > 0 \/ Queued(g)', ~ hp[g].again
          PROVE  Len(Tail(w)) <= 1
      <3>1. CASE hist.credited[g] > 0 \/ Queued(g)
        <4>1. Len(w) <= 1
          BY <1>2, <2>2, <3>1 DEF SoldInv, SoldAt
        <4> QED
          BY <1>5, <4>1
      <3>2. CASE Head(w).kind = "completed"
        <4>1. 1 \in DOMAIN w /\ w[1].kind = "completed"
          BY <1>5, <3>2
        <4>2. hp[g].phase = "over"
          BY <1>2, <4>1 DEF BooksInv, ProceedsInv, Coming, Told
        <4>3. 1 >= Len(w) - 1
          BY <1>2, <4>1, <4>2 DEF SoldInv, SoldAt, CompletesLast
        <4> QED
          BY <1>5, <4>3
      <3> QED
        BY <1>8, <2>2, <3>1, <3>2
    <2>3. g \in hist.before => hp[g].phase = "over" /\ hp[g].again
      BY <1>2, <1>3 DEF SoldInv, SoldAt
    <2> QED
      BY <1>3, <1>4, <2>1, <2>2, <2>3 DEF SoldAt
  <1> QED
    BY <1>9, <1>10 DEF SoldInv

\* The backend relays nothing that completes a sale.
LEMMA SoldRelay ==
  ASSUME BooksInv, SoldInv, Relay
  PROVE  SoldInv'
  <1>1. TypeInv /\ wire' = wire /\ hp' = hp /\ hist' = hist
    BY DEF BooksInv, Relay
  <1>2. PICK e, f : e = [kind |-> "inventory"] /\ f = [kind |-> "balances", of |-> Head(toBack)]
    OBVIOUS
  <1>3. Among(toUi', {toUi[k] : k \in DOMAIN toUi} \cup {e, f})
    BY <1>1, <1>2, RelayIs
  <1>4. \A k \in DOMAIN toUi' : \/ toUi'[k].kind = "inventory" \/ toUi'[k].kind = "balances"
                                \/ \E n \in DOMAIN toUi : toUi'[k] = toUi[n]
    BY <1>2, <1>3 DEF Among
  <1>5. \A h \in Positions : Queued(h)' => Queued(h)
    BY <1>4 DEF Queued
  <1> QED
    BY <1>1, <1>5, SoldKept DEF SoldInv

\* The screen credits a sale of which a completion was queued.
LEMMA SoldScreen ==
  ASSUME BooksInv, SoldInv, Screen
  PROVE  SoldInv'
  <1>1. TypeInv /\ hist \in HistOf
    BY DEF BooksInv, TypeInv
  <1>2. toUi # <<>> /\ toUi' = Tail(toUi) /\ Others
    BY DEF Screen, TakeInventory, TakeBalances, TakeLocking, TakeCancelled, TakeBought, TakeFilled,
           TakeSold, TakeCompleted, TakeHp, Takes
  <1>3. wire' = wire /\ hp' = hp
    BY <1>2 DEF Others
  <1>4. /\ \A k \in DOMAIN toUi' : \E n \in DOMAIN toUi : toUi'[k] = toUi[n]
        /\ \E n \in DOMAIN toUi : toUi[n] = Head(toUi)
    BY <1>1, <1>2, TakenIs DEF Among
  <1>5. \A h \in Positions : Queued(h)' => Queued(h)
    BY <1>4 DEF Queued
  <1>6. CASE ~ TakeCompleted
    <2>1. ASSUME NEW x, hist' = [hist EXCEPT !.fresh = x] \/ hist' = [hist EXCEPT !.replaced = x]
          PROVE  hist'.credited = hist.credited /\ hist'.before = hist.before
      BY <1>1, <2>1 DEF HistOf
    <2>2. hist'.credited = hist.credited /\ hist'.before = hist.before
      BY <1>6, <2>1 DEF Screen, TakeInventory, TakeBalances, TakeLocking, TakeCancelled, TakeBought,
                        TakeFilled, TakeSold, TakeHp
    <2> QED
      BY <1>3, <1>5, <2>2, SoldKept DEF SoldInv
  <1>7. CASE TakeCompleted
    <2>1. PICK g : g = Head(toUi).hp
      OBVIOUS
    <2>2. /\ hist'.before = hist.before
          /\ \A h \in Positions : h # g => hist'.credited[h] = hist.credited[h]
      <3>1. PICK x : x = IF p'.items # p.items THEN hist.credited[g] + 1 ELSE hist.credited[g]
        OBVIOUS
      <3>2. PICK f, v : f = hist.fresh \ {Quote} /\ v = [hist.credited EXCEPT ![g] = x]
        OBVIOUS
      <3>3. hist' = [hist EXCEPT !.fresh = f, !.credited = v]
        BY <1>7, <2>1, <3>1, <3>2 DEF TakeCompleted
      <3>4. hist'.before = hist.before /\ hist'.credited = v
        BY <1>1, <3>3 DEF HistOf
      <3>5. \A h \in Positions : h # g => v[h] = hist.credited[h]
        BY <1>1, <3>2 DEF HistOf
      <3> QED
        BY <3>4, <3>5
    <2>3. ASSUME NEW h \in Positions, h # g
          PROVE  SoldAt(h)'
      BY <1>3, <1>5, <2>2, <2>3, SoldKept DEF SoldInv
    <2>4. ASSUME g \in Positions
          PROVE  SoldAt(g)'
      <3>1. Queued(g)
        BY <1>4, <1>7, <2>1 DEF Queued, TakeCompleted, Takes
      <3> QED
        BY <1>3, <2>2, <2>4, <3>1 DEF SoldInv, SoldAt, CompletesLast
    <2> QED
      BY <2>3, <2>4 DEF SoldInv
  <1> QED
    BY <1>6, <1>7

\* The program starts again: a sale that was credited is over, and told again only if it
\* is completed by what is saved of it.
LEMMA SoldRestart ==
  ASSUME BooksInv, SoldInv, Restart
  PROVE  SoldInv'
  <1>1. hist \in HistOf
    BY DEF BooksInv, TypeInv
  <1>2. toUi' = <<>> /\ hist' = [hist EXCEPT !.credited = [h \in Positions |-> 0],
                                 !.before = @ \cup {h \in Positions : hist.credited[h] > 0},
                                 !.fresh = {}, !.replaced = FALSE]
    BY DEF Restart, RecoveryFails, RecoverySucceeds, Forgets
  <1>3. /\ hist'.before = hist.before \cup {h \in Positions : hist.credited[h] > 0}
        /\ \A h \in Positions : hist'.credited[h] = 0
    BY <1>1, <1>2 DEF HistOf
  <1> SUFFICES ASSUME NEW h \in Positions PROVE SoldAt(h)'
    BY DEF SoldInv
  <1>4. ~ Queued(h)'
    BY <1>2 DEF Queued
  <1>5. h \in hist'.before =>
           hp[h].phase = "over" /\ (hp[h].again \/ (hist.credited[h] > 0 /\ Len(wire[h]) <= 1)
                                                \/ wire[h] = <<>>)
    <2>1. hist.credited[h] > 0 => hp[h].phase = "over"
      BY DEF BooksInv, ProceedsInv
    <2> QED
      BY <1>3, <2>1 DEF SoldInv, SoldAt
  <1>6. ASSUME wire'[h] = <<>>, hp[h].phase = "over" => hp'[h].phase = "over"
        PROVE  SoldAt(h)'
    <2>1. CompletesLast(<<>>)
      BY DEF CompletesLast
    <2> QED
      BY <1>3, <1>4, <1>5, <1>6, <2>1 DEF SoldAt
  <1>7. PICK trade \in Deal : trade = hp[h]
    BY DEF BooksInv, TypeInv
  <1>8. hp[h].phase = "over" => hp'[h].phase = "over"
    BY TradesRestart DEF BooksInv, Restarted
  <1>9. CASE RecoveryFails
    BY <1>6, <1>8, <1>9 DEF RecoveryFails
  <1>10. CASE RecoverySucceeds
    <2>1. PICK told \in SUBSET {g \in Positions : TellsAgain(g)} :
            wire' = [g \in Positions |-> IF g \in told THEN <<Completed(g, ""), Completed(g, "")>>
                                        ELSE <<>>]
      BY <1>10 DEF RecoverySucceeds
    <2>2. CASE h \notin told
      BY <1>6, <1>8, <2>1, <2>2
    <2>3. CASE h \in told
      <3>1. hp[h].phase = "over" /\ (hp[h].again \/ Len(wire[h]) = 2)
        BY <2>3 DEF TellsAgain
      <3>2. hp'[h] = hp[h]
        BY <1>10, <3>1 DEF RecoverySucceeds
      <3>3. PICK e : e = Completed(h, "")
        OBVIOUS
      <3>4. e.kind = "completed" /\ wire'[h] = <<e, e>>
        BY <2>1, <2>3, <3>3 DEF Completed, HpEvent
      <3>5. CompletesLast(wire'[h])
        BY <3>4, TwoCompletions
      <3>6. Len(<<>>) # 2
        OBVIOUS
      <3>7. h \in hist'.before => hp[h].again
        BY <1>5, <3>1, <3>6
      <3> QED
        BY <1>3, <1>4, <3>1, <3>2, <3>5, <3>7 DEF SoldAt
    <2> QED
      BY <2>2, <2>3
  <1> QED
    BY <1>9, <1>10 DEF Restart

\* The proceeds of coins a position bought and sold directly are added once ever: a
\* position whose sale the screen has credited is not completed after another start,
\* although the program has forgotten what it credited, unless it sells from the
\* inventory or in two hops.
THEOREM SoldCoinsAreCreditedOnce == Spec => []SoldCoinsCreditedOnce
  <1>1. Init => SoldInv
    BY DEF Init, Idle, SoldInv, SoldAt, CompletesLast, Queued
  <1>2. BooksInv /\ SoldInv /\ [Next]_vars => SoldInv'
    <2> SUFFICES ASSUME BooksInv, SoldInv, [Next]_vars PROVE SoldInv'
      OBVIOUS
    <2>1. CASE UNCHANGED vars
      BY <2>1 DEF vars, SoldInv, SoldAt, CompletesLast, Queued
    <2> QED
      BY <2>1, SoldExchange, SoldSetUp, SoldEmit, SoldRelay, SoldScreen, SoldRestart DEF Next, User
  <1>3. BooksInv /\ SoldInv => SoldCoinsCreditedOnce
    <2>1. BooksInv => hist.before \subseteq Positions /\ hist.credited \in [Positions -> Nat]
      BY DEF BooksInv, TypeInv, HistOf
    <2> QED
      BY <2>1 DEF SoldInv, SoldAt, SoldCoinsCreditedOnce
  <1> QED
    BY <1>1, <1>2, <1>3, BooksHold, PTL DEF Spec

=============================================================================
