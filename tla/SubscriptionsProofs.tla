------------------------- MODULE SubscriptionsProofs -------------------------
(***************************************************************************)
(* Theorems about Subscriptions, for every finite set of subscriptions and *)
(* any number of systems: the types, that a counted stream is on the wire  *)
(* or about to be replayed, and that every subscription is counted.        *)
(***************************************************************************)
EXTENDS Subscriptions, FiniteSetTheorems, TLAPS

\* A system releases a sequence of decrements.
LEMMA ReleasesType ==
  ASSUME TypeOK, NEW i \in Systems, NEW s \in Streams
  PROVE  Releases(i, s) \in Seq({1, -1})
  <1> DEFINE S == {info \in subs[i] : info.stream = s}
  <1>1. IsFiniteSet(S)
    BY InfosAssumption, FS_Subset DEF TypeOK
  <1>2. Cardinality(S) \in Nat
    BY <1>1, FS_CardinalityType
  <1> HIDE DEF S
  <1>3. [k \in 1 .. Cardinality(S) |-> -1] \in Seq({1, -1})
    BY <1>2
  <1> QED
    BY <1>3 DEF Releases, S

\* No adjustment takes a count below zero.
LEMMA AdjustedType ==
  ASSUME TypeOK, NEW s \in Streams, tasks[s] # <<>>
  PROVE  Adjusted(s) \in Nat
  <1>1. Head(tasks[s]) \in {1, -1} /\ registry[s] \in Nat
    BY DEF TypeOK
  <1> QED
    BY <1>1 DEF Adjusted

LEMMA TypeStep ==
  ASSUME TypeOK, [Next]_vars
  PROVE  TypeOK'
  <1> USE DEF TypeOK
  <1>1. ASSUME NEW i \in Systems, NEW info \in Infos, subscribe(i, info)
        PROVE  TypeOK'
    <2>1. info.stream \in Streams /\ tasks[info.stream] \in Seq({1, -1})
      BY DEF Streams
    <2>2. Append(tasks[info.stream], 1) \in Seq({1, -1})
      BY <2>1
    <2>3. tasks' \in [Streams -> Seq({1, -1})]
      BY <1>1, <2>1, <2>2 DEF subscribe
    <2>4. subs' \in [Systems -> SUBSET Infos]
      BY <1>1 DEF subscribe
    <2> QED
      BY <1>1, <2>3, <2>4 DEF subscribe
  <1>2. ASSUME NEW i \in Systems, unsubscribe(i)
        PROVE  TypeOK'
    <2>1. \A s \in Streams : tasks[s] \o Releases(i, s) \in Seq({1, -1})
      BY ReleasesType
    <2>2. tasks' \in [Streams -> Seq({1, -1})]
      BY <1>2, <2>1 DEF unsubscribe
    <2>3. subs' \in [Systems -> SUBSET Infos]
      BY <1>2 DEF unsubscribe
    <2> QED
      BY <1>2, <2>2, <2>3 DEF unsubscribe
  <1>3. ASSUME NEW s \in Streams, adjust_subscription(s)
        PROVE  TypeOK'
    <2>1. Adjusted(s) \in Nat /\ tasks[s] \in Seq({1, -1}) /\ tasks[s] # <<>>
      BY <1>3, AdjustedType DEF adjust_subscription
    <2>2. Tail(tasks[s]) \in Seq({1, -1})
      BY <2>1
    <2>3. registry' \in [Streams -> Nat] /\ tasks' \in [Streams -> Seq({1, -1})]
      BY <1>3, <2>1, <2>2 DEF adjust_subscription
    <2>4. served' \in {served, served \cup {s}, served \ {s}}
      BY <1>3, Zenon DEF adjust_subscription, Deliver
    <2>5. served' \subseteq Streams
      BY <2>4
    <2> QED
      BY <1>3, <2>3, <2>5 DEF adjust_subscription
  <1>4. ASSUME NEW s \in Streams, Replay(s)
        PROVE  TypeOK'
    BY <1>4 DEF Replay, Deliver
  <1>5. CASE CreateManager
    BY <1>5 DEF CreateManager
  <1>6. CASE Connect
    BY <1>6 DEF Connect, Active
  <1>7. CASE Break
    <2>1. drops' \in 0 .. MaxDrops
      BY <1>7, BoundAssumption DEF Break
    <2>2. {manager', ws', alive', stopped', early'} \subseteq BOOLEAN
      BY <1>7 DEF Break
    <2> QED
      BY <1>7, <2>1, <2>2 DEF Break
  <1>8. CASE Disconnect
    BY <1>8 DEF Disconnect
  <1>9. CASE Stop
    <2>1. {manager', ws', alive', stopped', early'} \subseteq BOOLEAN
      BY <1>9 DEF Stop
    <2> QED
      BY <1>9, <2>1 DEF Stop
  <1>10. CASE UNCHANGED vars
    BY <1>10 DEF vars
  <1> QED
    BY <1>1, <1>2, <1>3, <1>4, <1>5, <1>6, <1>7, <1>8, <1>9, <1>10 DEF Next

LEMMA TypeInit == Init => TypeOK
  <1> SUFFICES ASSUME Init PROVE TypeOK
    OBVIOUS
  <1>1. 0 \in 0 .. MaxDrops
    BY BoundAssumption
  <1>2. tasks \in [Streams -> Seq({1, -1})] /\ registry \in [Streams -> Nat]
    BY DEF Init
  <1>3. subs \in [Systems -> SUBSET Infos]
    BY DEF Init
  <1> QED
    BY <1>1, <1>2, <1>3 DEF Init, TypeOK

\* Every variable always has its type, for any systems and subscriptions, also
\* those made before the manager existed.
THEOREM TypeCorrect == Spec => []TypeOK
  BY TypeInit, TypeStep, PTL DEF Spec

\* A stream becomes counted together with its frame, or before the replay that
\* will send it is computed, and a frame lost is lost with the connection.
LEMMA ServedStep ==
  ASSUME TypeOK, ActiveIsServed, [Next]_vars
  PROVE  ActiveIsServed'
  <1> USE DEF ActiveIsServed
  <1>1. ASSUME NEW s \in Streams, adjust_subscription(s)
        PROVE  ActiveIsServed'
    <2> SUFFICES ASSUME ws', alive', NEW t \in Streams, registry'[t] > 0
                 PROVE  t \in served' \cup replay'
      OBVIOUS
    <2>1. ws /\ alive /\ replay' = replay /\ Adjusted(s) \in Nat /\ registry[s] \in Nat
      BY <1>1, AdjustedType DEF adjust_subscription, TypeOK
    <2>2. registry' = [registry EXCEPT ![s] = Adjusted(s)]
      BY <1>1 DEF adjust_subscription
    <2>3. registry[s] = 0 /\ registry'[s] > 0 => served' = served \cup {s}
      BY <1>1, <2>1 DEF adjust_subscription, Deliver
    <2>4. registry[s] > 0 /\ registry'[s] = 0 => served' = served \ {s}
      BY <1>1, <2>1 DEF adjust_subscription, Deliver
    <2>5. served' \in {served, served \cup {s}, served \ {s}}
      BY <1>1, Zenon DEF adjust_subscription, Deliver
    <2>6. registry[s] > 0 /\ registry'[s] > 0 => served' = served
      BY <1>1, <2>1 DEF adjust_subscription, Deliver
    <2>7. CASE t = s
      <3>1. registry[s] = 0 \/ registry[s] > 0
        BY <2>1
      <3> QED
        BY <2>1, <2>3, <2>6, <2>7, <3>1
    <2>8. CASE t # s
      <3>1. registry[t] > 0
        BY <2>2, <2>8 DEF TypeOK
      <3> QED
        BY <2>1, <2>5, <2>8, <3>1
    <2> QED
      BY <2>7, <2>8
  <1>2. ASSUME NEW s \in Streams, Replay(s)
        PROVE  ActiveIsServed'
    BY <1>2 DEF Replay, Deliver
  <1>3. CASE Connect
    BY <1>3 DEF Connect, Active
  <1>4. CASE CreateManager \/ Break \/ Disconnect \/ Stop \/ UNCHANGED vars
    BY <1>4 DEF CreateManager, Break, Disconnect, Stop, vars
  <1>5. ASSUME NEW i \in Systems, unsubscribe(i)
        PROVE  ActiveIsServed'
    BY <1>5 DEF unsubscribe
  <1>6. ASSUME NEW i \in Systems, NEW info \in Infos, subscribe(i, info)
        PROVE  ActiveIsServed'
    BY <1>6 DEF subscribe
  <1> QED
    BY <1>1, <1>2, <1>3, <1>4, <1>5, <1>6 DEF Next

\* Wherever tasks, replays and lost connections interleave, a counted stream is
\* on the wire of a working connection or about to be replayed.
THEOREM CountedIsServed == Spec => []ActiveIsServed
  <1>1. Init => ActiveIsServed
    BY DEF Init, ActiveIsServed
  <1>2. TypeOK /\ ActiveIsServed /\ [Next]_vars => ActiveIsServed'
    BY ServedStep
  <1> QED
    BY <1>1, <1>2, TypeCorrect, PTL DEF Spec

(***************************************************************************)
(* Counting tasks                                                          *)
(***************************************************************************)

\* How many of the first n tasks adjust the count by delta.
Places(q, n, delta) == {k \in 1 .. n : q[k] = delta}
Count(q, n, delta) == Cardinality(Places(q, n, delta))

LEMMA CountType ==
  ASSUME NEW q, NEW n \in Int, NEW delta
  PROVE  IsFiniteSet(Places(q, n, delta)) /\ Count(q, n, delta) \in Nat
  <1>1. IsFiniteSet(1 .. n) /\ Places(q, n, delta) \in SUBSET (1 .. n)
    BY FS_Interval DEF Places
  <1> QED
    BY <1>1, FS_Subset, FS_CardinalityType DEF Count

\* One task more.
LEMMA CountNext ==
  ASSUME NEW q, NEW n \in Nat, NEW delta
  PROVE  /\ Count(q, 0, delta) = 0
         /\ Count(q, n + 1, delta) = Count(q, n, delta) + (IF q[n + 1] = delta THEN 1 ELSE 0)
  <1>1. Places(q, 0, delta) = {}
    BY DEF Places
  <1>2. PICK S : S = Places(q, n, delta)
    OBVIOUS
  <1>3. IsFiniteSet(S) /\ n + 1 \notin S
    <2>1. n \in Int
      OBVIOUS
    <2>2. IsFiniteSet(Places(q, n, delta))
      BY <2>1, CountType
    <2>3. n + 1 \notin Places(q, n, delta)
      BY DEF Places
    <2> QED
      BY <1>2, <2>2, <2>3
  <1>4. Places(q, n + 1, delta) = IF q[n + 1] = delta THEN S \cup {n + 1} ELSE S
    BY <1>2 DEF Places
  <1>5. Cardinality(S \cup {n + 1}) = Cardinality(S) + 1 /\ Cardinality(S) \in Nat
    BY <1>3, FS_AddElement, FS_CardinalityType
  <1> QED
    BY <1>1, <1>2, <1>4, <1>5, FS_EmptySet DEF Count

\* The first task counts in the sequence and not in its tail.
LEMMA CountTail ==
  ASSUME NEW E, NEW q \in Seq(E), q # <<>>, NEW n \in 0 .. Len(Tail(q)), NEW delta
  PROVE  Count(q, n + 1, delta)
         = Count(Tail(q), n, delta) + (IF Head(q) = delta THEN 1 ELSE 0)
  <1>1. PICK r : r = Tail(q)
    OBVIOUS
  <1>2. Len(q) \in Nat /\ Len(r) = Len(q) - 1 /\ \A k \in 1 .. Len(r) : r[k] = q[k + 1]
    BY <1>1
  <1>3. PICK S, T : S = Places(r, n, delta) /\ T = Places(q, n + 1, delta) \ {1}
    OBVIOUS
  <1>4. IsFiniteSet(S) /\ IsFiniteSet(Places(q, n + 1, delta))
    BY <1>3, CountType
  <1>5. Cardinality(T) = Cardinality(S)
    <2>1. PICK f : f = [k \in S |-> k + 1]
      OBVIOUS
    <2>2. \A k \in S : k \in Int /\ k + 1 \in T
      BY <1>1, <1>2, <1>3 DEF Places
    <2>3. f \in [S -> T]
      BY <2>1, <2>2
    <2>4. \A a, b \in S : f[a] = f[b] => a = b
      BY <2>1, <2>2
    <2>5. \A t \in T : \E k \in S : f[k] = t
      <3> SUFFICES ASSUME NEW t \in T PROVE \E k \in S : f[k] = t
        OBVIOUS
      <3>1. t \in 2 .. n + 1 /\ q[t] = delta
        BY <1>3 DEF Places
      <3>2. t - 1 \in 1 .. n /\ t - 1 \in 1 .. Len(r) /\ (t - 1) + 1 = t
        BY <1>1, <1>2, <3>1
      <3>3. r[t - 1] = delta
        BY <1>2, <3>1, <3>2
      <3>4. t - 1 \in S
        BY <1>3, <3>2, <3>3 DEF Places
      <3> QED
        BY <2>1, <3>2, <3>4
    <2>6. ExistsBijection(S, T)
      BY <2>3, <2>4, <2>5 DEF ExistsBijection, Bijection, Injection, Surjection, IsInjective
    <2> QED
      BY <1>4, <2>6, FS_Bijection
  <1>6. 1 \in Places(q, n + 1, delta) <=> Head(q) = delta
    BY <1>2 DEF Places
  <1>7. Cardinality(T) = IF 1 \in Places(q, n + 1, delta)
                         THEN Count(q, n + 1, delta) - 1 ELSE Count(q, n + 1, delta)
    BY <1>3, <1>4, FS_RemoveElement DEF Count
  <1>8. Count(q, n + 1, delta) \in Nat /\ Count(r, n, delta) = Cardinality(S)
    BY <1>3, CountType DEF Count
  <1> QED
    BY <1>1, <1>5, <1>6, <1>7, <1>8

\* A run of m equal tasks behind the l of q.
Run(r, q, l, m, e) ==
    (\A k \in 1 .. l : r[k] = q[k]) /\ (\A k \in l + 1 .. l + m : r[k] = e)
\* The first l tasks count as in q, and n of the run behind them one by one.
Counted(r, q, l, e, n, delta) ==
    /\ \A k \in 0 .. l : Count(r, k, delta) = Count(q, k, delta)
    /\ Count(r, l + n, delta) = Count(q, l, delta) + (IF e = delta THEN n ELSE 0)
LEMMA CountRun ==
  ASSUME NEW q, NEW l \in Nat, NEW m \in Nat, NEW e, NEW delta, NEW r,
         Run(r, q, l, m, e), NEW n \in 0 .. m
  PROVE  Counted(r, q, l, e, n, delta)
  <1>1. \A k \in 0 .. l : Count(r, k, delta) = Count(q, k, delta)
    <2> SUFFICES ASSUME NEW k \in 0 .. l
                 PROVE  Count(r, k, delta) = Count(q, k, delta)
      OBVIOUS
    <2>1. Places(r, k, delta) = Places(q, k, delta)
      BY DEF Places, Run
    <2> QED
      BY <2>1 DEF Count
  <1>2. Count(r, l + n, delta) = Count(q, l, delta) + (IF e = delta THEN n ELSE 0)
    <2>1. PICK S, T : S = Places(r, l, delta) /\ T = IF e = delta THEN l + 1 .. l + n ELSE {}
      OBVIOUS
    <2>2. Places(r, l + n, delta) = S \cup T /\ S \cap T = {}
      BY <2>1 DEF Places, Run
    <2>3. IsFiniteSet(S) /\ Cardinality(S) \in Nat /\ Cardinality(S) = Count(r, l, delta)
      BY <2>1, CountType DEF Count
    <2>4. IsFiniteSet(T) /\ Cardinality(T) = IF e = delta THEN n ELSE 0
      <3>1. CASE e = delta
        <4>1. IsFiniteSet(l + 1 .. l + n)
              /\ Cardinality(l + 1 .. l + n)
                 = IF l + 1 > l + n THEN 0 ELSE (l + n) - (l + 1) + 1
          <5>1. l + 1 \in Int /\ l + n \in Int
            OBVIOUS
          <5> QED
            BY <5>1, FS_Interval
        <4>2. Cardinality(l + 1 .. l + n) = n
          BY <4>1
        <4> QED
          BY <2>1, <3>1, <4>1, <4>2
      <3>2. CASE e # delta
        BY <2>1, <3>2, FS_EmptySet
      <3> QED
        BY <3>1, <3>2
    <2>5. Cardinality(S \cup T) = Cardinality(S) + Cardinality(T)
      <3>1. Cardinality(S \cup T) = Cardinality(S) + Cardinality(T) - Cardinality(S \cap T)
        BY <2>3, <2>4, FS_Union
      <3>2. Cardinality(S \cap T) = 0
        BY <2>2, FS_EmptySet
      <3>3. Cardinality(T) \in Nat
        BY <2>4, FS_CardinalityType
      <3> QED
        BY <2>3, <3>1, <3>2, <3>3
    <2>6. Count(r, l, delta) = Count(q, l, delta)
      <3>1. l \in 0 .. l
        OBVIOUS
      <3> QED
        BY <1>1, <3>1
    <2> QED
      BY <2>2, <2>3, <2>4, <2>5, <2>6 DEF Count
  <1> QED
    BY <1>1, <1>2 DEF Counted

\* The count after the first n tasks if it is never clamped, and that it never is.
Net(count, q, n) == count + Count(q, n, 1) - Count(q, n, -1)
NeverClamped(count, q) == \A n \in 0 .. Len(q) : Net(count, q, n) >= 0

\* Releases scheduled together stand behind the tasks as a run.
LEMMA RunBehind ==
  ASSUME NEW E, NEW q \in Seq(E), NEW m \in Nat, NEW e, NEW r, r = q \o [k \in 1 .. m |-> e]
  PROVE  /\ Len(r) = Len(q) + m
         /\ Run(r, q, Len(q), m, e)
  <1>1. PICK w : w = [k \in 1 .. m |-> e]
    OBVIOUS
  <1>2. w \in Seq({e}) /\ Len(w) = m /\ \A k \in 1 .. m : w[k] = e
    BY <1>1
  <1>3. r = q \o w
    BY <1>1
  <1>4. Len(r) = Len(q) + m
    BY <1>2, <1>3
  <1>5. \A k \in 1 .. Len(q) : r[k] = q[k]
    BY <1>2, <1>3
  <1>6. \A k \in Len(q) + 1 .. Len(q) + m : r[k] = w[k - Len(q)] /\ k - Len(q) \in 1 .. m
    BY <1>2, <1>3
  <1> QED
    BY <1>2, <1>4, <1>5, <1>6 DEF Run

\* Subscriptions made add to the count, and no more are released than it has.
LEMMA RunKeepsCount ==
  ASSUME NEW q \in Seq({1, -1}), NEW count \in Nat, NeverClamped(count, q),
         NEW m \in Nat, NEW e \in {1, -1}, e = -1 => m <= Net(count, q, Len(q)),
         NEW r, Len(r) = Len(q) + m, Run(r, q, Len(q), m, e)
  PROVE  /\ NeverClamped(count, r)
         /\ Net(count, r, Len(r)) = IF e = 1 THEN Net(count, q, Len(q)) + m
                                    ELSE Net(count, q, Len(q)) - m
  <1>1. PICK l \in Nat : l = Len(q)
    OBVIOUS
  <1>0. Len(r) = l + m /\ Run(r, q, l, m, e)
    BY <1>1
  <1>2. \A n \in 0 .. m : \A delta :
          /\ \A k \in 0 .. l : Count(r, k, delta) = Count(q, k, delta)
          /\ Count(r, l + n, delta) = Count(q, l, delta) + (IF e = delta THEN n ELSE 0)
    <2> SUFFICES ASSUME NEW n \in 0 .. m, NEW delta
                 PROVE  /\ \A k \in 0 .. l : Count(r, k, delta) = Count(q, k, delta)
                        /\ Count(r, l + n, delta)
                           = Count(q, l, delta) + (IF e = delta THEN n ELSE 0)
      OBVIOUS
    <2>1. Counted(r, q, l, e, n, delta)
      BY <1>0, CountRun
    <2> QED
      BY <2>1 DEF Counted
  <1>3. /\ Len(r) = l + m
        /\ \A k \in 0 .. l : \A delta : Count(r, k, delta) = Count(q, k, delta)
    <2>1. 0 \in 0 .. m
      OBVIOUS
    <2> QED
      BY <1>0, <1>2, <2>1
  <1>4. \A k \in Nat : Count(q, k, 1) \in Nat /\ Count(q, k, -1) \in Nat
    BY CountType
  <1>5. ASSUME NEW n \in 0 .. m
        PROVE  /\ Net(count, r, l + n) = IF e = 1 THEN Net(count, q, l) + n
                                         ELSE Net(count, q, l) - n
               /\ Net(count, r, l + n) >= 0
    <2>1. /\ Count(r, l + n, 1) = Count(q, l, 1) + (IF e = 1 THEN n ELSE 0)
          /\ Count(r, l + n, -1) = Count(q, l, -1) + (IF e = -1 THEN n ELSE 0)
      BY <1>2
    <2>2. PICK a, b \in Nat : a = Count(q, l, 1) /\ b = Count(q, l, -1)
      BY <1>4
    <2>3. Net(count, q, l) = count + a - b /\ Net(count, q, l) >= 0
      <3>1. l \in 0 .. Len(q)
        BY <1>1
      <3> QED
        BY <1>1, <2>2, <3>1 DEF Net, NeverClamped
    <2>4. Net(count, r, l + n)
          = count + (a + (IF e = 1 THEN n ELSE 0)) - (b + (IF e = -1 THEN n ELSE 0))
      BY <2>1, <2>2 DEF Net
    <2>5. PICK x, y \in Int : x = Net(count, q, l) /\ y = Net(count, r, l + n)
      <3>1. count + a - b \in Int
            /\ count + (a + (IF e = 1 THEN n ELSE 0)) - (b + (IF e = -1 THEN n ELSE 0)) \in Int
        OBVIOUS
      <3> QED
        BY <2>3, <2>4, <3>1
    <2>6. CASE e = 1
      <3>1. y = count + (a + n) - (b + 0) /\ x = count + a - b /\ x >= 0
        BY <2>3, <2>4, <2>5, <2>6
      <3>2. y = x + n /\ y >= 0
        BY <3>1
      <3> QED
        BY <2>5, <2>6, <3>2
    <2>7. CASE e = -1
      <3>1. y = count + (a + 0) - (b + n) /\ x = count + a - b
        BY <2>3, <2>4, <2>5, <2>7
      <3>2. n <= x
        BY <1>1, <2>5, <2>7
      <3>3. y = x - n /\ y >= 0
        BY <3>1, <3>2
      <3> QED
        BY <2>5, <2>7, <3>3
    <2> QED
      BY <2>6, <2>7
  <1>6. ASSUME NEW k \in 0 .. Len(r)
        PROVE  Net(count, r, k) >= 0
    <2>1. CASE k <= l
      <3>1. k \in 0 .. l
        BY <2>1
      <3>2. Net(count, r, k) = Net(count, q, k)
        BY <1>3, <3>1 DEF Net
      <3> QED
        BY <1>1, <3>1, <3>2 DEF NeverClamped
    <2>2. CASE ~ (k <= l)
      <3>1. k - l \in 0 .. m /\ k = l + (k - l)
        BY <1>3, <2>2
      <3> QED
        BY <1>5, <3>1
    <2> QED
      BY <2>1, <2>2
  <1>7. Net(count, r, Len(r)) = IF e = 1 THEN Net(count, q, l) + m ELSE Net(count, q, l) - m
    <2>1. m \in 0 .. m
      OBVIOUS
    <2> QED
      BY <1>3, <1>5, <2>1
  <1> QED
    BY <1>1, <1>6, <1>7 DEF NeverClamped

\* One subscription adds one.
LEMMA AddedKeepsCount ==
  ASSUME NEW q \in Seq({1, -1}), NEW count \in Nat, NeverClamped(count, q),
         NEW r, Len(r) = Len(q) + 1, Run(r, q, Len(q), 1, 1)
  PROVE  NeverClamped(count, r) /\ Net(count, r, Len(r)) = Net(count, q, Len(q)) + 1
  <1>1. PICK m \in Nat, e \in {1, -1} : m = 1 /\ e = 1
    OBVIOUS
  <1>2. Len(r) = Len(q) + m /\ Run(r, q, Len(q), m, e)
    BY <1>1
  <1> QED
    BY <1>1, <1>2, RunKeepsCount

\* The releases of a system take off as many as there are.
LEMMA ReleasesKeepCount ==
  ASSUME NEW q \in Seq({1, -1}), NEW count \in Nat, NeverClamped(count, q),
         NEW m \in Nat, m <= Net(count, q, Len(q)),
         NEW r, Len(r) = Len(q) + m, Run(r, q, Len(q), m, -1)
  PROVE  NeverClamped(count, r) /\ Net(count, r, Len(r)) = Net(count, q, Len(q)) - m
  <1>1. PICK e \in {1, -1} : e = -1
    OBVIOUS
  <1>2. Run(r, q, Len(q), m, e) /\ e # 1
    BY <1>1
  <1> QED
    BY <1>2, RunKeepsCount, SMTT(40)

\* A task that runs is counted where it was scheduled.
LEMMA TailKeepsCount ==
  ASSUME NEW q \in Seq({1, -1}), q # <<>>, NEW count \in Nat, NeverClamped(count, q)
  PROVE  /\ count + Head(q) >= 0
         /\ NeverClamped(count + Head(q), Tail(q))
         /\ Net(count + Head(q), Tail(q), Len(Tail(q))) = Net(count, q, Len(q))
  <1>1. PICK h \in {1, -1} : h = Head(q)
    OBVIOUS
  <1>2. PICK r : r = Tail(q)
    OBVIOUS
  <1>3. Len(r) \in Nat /\ Len(q) = Len(r) + 1 /\ r \in Seq({1, -1})
    BY <1>2
  <1>4. ASSUME NEW n \in 0 .. Len(r)
        PROVE  Net(count + h, r, n) = Net(count, q, n + 1)
    <2>1. /\ Count(q, n + 1, 1) = Count(r, n, 1) + (IF h = 1 THEN 1 ELSE 0)
          /\ Count(q, n + 1, -1) = Count(r, n, -1) + (IF h = -1 THEN 1 ELSE 0)
      BY <1>1, <1>2, CountTail
    <2>2. PICK a, b \in Nat : a = Count(r, n, 1) /\ b = Count(r, n, -1)
      <3>1. n \in Int
        OBVIOUS
      <3> QED
        BY <3>1, CountType
    <2>3. Net(count + h, r, n) = (count + h) + a - b
      BY <2>2 DEF Net
    <2>4. Net(count, q, n + 1) = count + (a + (IF h = 1 THEN 1 ELSE 0))
                                       - (b + (IF h = -1 THEN 1 ELSE 0))
      BY <2>1, <2>2 DEF Net
    <2>5. CASE h = 1
      <3>1. Net(count, q, n + 1) = count + (a + 1) - (b + 0)
        BY <2>4, <2>5
      <3> QED
        BY <2>2, <2>3, <2>5, <3>1
    <2>6. CASE h = -1
      <3>1. Net(count, q, n + 1) = count + (a + 0) - (b + 1)
        BY <2>4, <2>6
      <3> QED
        BY <2>2, <2>3, <2>6, <3>1
    <2> QED
      BY <2>5, <2>6
  <1>5. ASSUME NEW n \in 0 .. Len(r)
        PROVE  Net(count + h, r, n) >= 0
    <2>1. n + 1 \in 0 .. Len(q)
      BY <1>3
    <2> QED
      BY <1>4, <2>1 DEF NeverClamped
  <1>6. Net(count + h, r, 0) = count + h
    <2>1. Count(r, 0, 1) = 0 /\ Count(r, 0, -1) = 0
      BY CountNext
    <2> QED
      BY <2>1 DEF Net
  <1>7. 0 \in 0 .. Len(r) /\ Len(r) \in 0 .. Len(r)
    BY <1>3
  <1>8. count + h >= 0
    BY <1>5, <1>6, <1>7
  <1>9. NeverClamped(count + h, r)
    BY <1>5 DEF NeverClamped
  <1>10. Net(count + h, r, Len(r)) = Net(count, q, Len(q))
    BY <1>3, <1>4, <1>7
  <1> QED
    BY <1>1, <1>2, <1>8, <1>9, <1>10

(***************************************************************************)
(* Every subscription is counted                                           *)
(***************************************************************************)

\* The count of a stream once its tasks have run.
Due(s) == Net(registry[s], tasks[s], Len(tasks[s]))

\* The inductive invariant: no scheduled task finds the count at 0, so that the
\* clamp of _adjust_subscription never swallows a release, and before the
\* manager exists nothing is counted or, unless the signals came too early,
\* subscribed.
CountInv ==
    /\ \A s \in Streams : IsFiniteSet(Subscriptions(s))
    /\ ~ early => \A s \in Streams :
        NeverClamped(registry[s], tasks[s]) /\ Due(s) = Cardinality(Subscriptions(s))
    /\ ~ manager /\ ~ early => \A s \in Streams : Subscriptions(s) = {}

\* At the start nothing is subscribed, scheduled or counted.
LEMMA CountInit == Init => CountInv
  <1> SUFFICES ASSUME Init PROVE CountInv
    OBVIOUS
  <1>1. \A s \in Streams : Subscriptions(s) = {}
    BY DEF Init, Subscriptions
  <1>2. IsFiniteSet({}) /\ Cardinality({}) = 0
    BY FS_EmptySet
  <1>3. ASSUME NEW s \in Streams
        PROVE  NeverClamped(registry[s], tasks[s]) /\ Due(s) = 0
    <2>1. registry[s] = 0 /\ tasks[s] = <<>>
      BY <1>3 DEF Init
    <2>2. Net(0, <<>>, 0) = 0
      BY CountNext DEF Net
    <2>3. Len(<<>>) = 0 /\ 0 .. 0 = {0}
      OBVIOUS
    <2>4. NeverClamped(0, <<>>)
      BY <2>2, <2>3 DEF NeverClamped
    <2> QED
      BY <2>1, <2>2, <2>3, <2>4 DEF Due
  <1> QED
    BY <1>1, <1>2, <1>3 DEF CountInv

\* A subscription made is counted by the task it schedules.
LEMMA CountSubscribe ==
  ASSUME TypeOK, CountInv, NEW i \in Systems, NEW info \in Infos, subscribe(i, info)
  PROVE  CountInv'
  <1>1. PICK s \in Streams : s = info.stream
    BY DEF Streams
  <1>2. /\ info \notin subs[i] /\ subs \in [Systems -> SUBSET Infos]
        /\ subs' = [subs EXCEPT ![i] = @ \cup {info}]
    BY DEF subscribe, TypeOK
  <1>3. /\ Subscriptions(s)' = Subscriptions(s) \cup {<<i, info>>}
        /\ <<i, info>> \notin Subscriptions(s)
    BY <1>1, <1>2 DEF Subscriptions
  <1>4. \A t \in Streams \ {s} : Subscriptions(t)' = Subscriptions(t)
    BY <1>1, <1>2 DEF Subscriptions
  <1>5. IsFiniteSet(Subscriptions(s))
    BY DEF CountInv
  <1>6. /\ IsFiniteSet(Subscriptions(s)')
        /\ Cardinality(Subscriptions(s)') = Cardinality(Subscriptions(s)) + 1
    BY <1>3, <1>5, FS_AddElement
  <1>7. \A t \in Streams : IsFiniteSet(Subscriptions(t))'
    BY <1>4, <1>6 DEF CountInv
  <1>8. CASE manager
    <2>1. /\ tasks' = [tasks EXCEPT ![s] = Append(@, 1)]
          /\ registry' = registry /\ early' = early /\ manager' = manager
      BY <1>1, <1>8 DEF subscribe
    <2>2. ASSUME ~ early, NEW t \in Streams \ {s}
          PROVE  NeverClamped(registry[t], tasks[t])' /\ Due(t)' = Cardinality(Subscriptions(t)')
      <3>1. tasks'[t] = tasks[t]
        BY <2>1, <2>2 DEF TypeOK
      <3>2. NeverClamped(registry'[t], tasks'[t])
        BY <2>1, <2>2, <3>1 DEF CountInv
      <3>3. Net(registry'[t], tasks'[t], Len(tasks'[t])) = Cardinality(Subscriptions(t))
        BY <2>1, <2>2, <3>1 DEF CountInv, Due
      <3> QED
        BY <1>4, <2>2, <3>2, <3>3 DEF Due
    <2>3. ASSUME ~ early
          PROVE  NeverClamped(registry[s], tasks[s])' /\ Due(s)' = Cardinality(Subscriptions(s)')
      <3>1. PICK q \in Seq({1, -1}) : q = tasks[s]
        BY DEF TypeOK
      <3>2. PICK count \in Nat : count = registry[s]
        BY DEF TypeOK
      <3>3. PICK r : r = Append(q, 1)
        OBVIOUS
      <3>4. Len(r) = Len(q) + 1 /\ Len(q) \in Nat
            /\ \A k \in 1 .. Len(q) : r[k] = q[k]
        BY <3>3
      <3>5. r[Len(q) + 1] = 1
        BY <3>3
      <3>6. Run(r, q, Len(q), 1, 1)
        BY <3>4, <3>5 DEF Run
      <3>7. NeverClamped(count, q) /\ Net(count, q, Len(q)) = Cardinality(Subscriptions(s))
        BY <2>3, <3>1, <3>2 DEF CountInv, Due
      <3>8. NeverClamped(count, r) /\ Net(count, r, Len(r)) = Net(count, q, Len(q)) + 1
        BY <3>4, <3>6, <3>7, AddedKeepsCount
      <3>9. tasks'[s] = r /\ registry'[s] = count
        BY <2>1, <3>1, <3>2, <3>3 DEF TypeOK
      <3> QED
        BY <1>6, <3>7, <3>8, <3>9 DEF Due
    <2> QED
      BY <1>7, <1>8, <2>1, <2>2, <2>3 DEF CountInv
  <1>9. CASE ~ manager
    <2>1. early'
      BY <1>9 DEF subscribe
    <2> QED
      BY <1>7, <2>1 DEF CountInv
  <1> QED
    BY <1>8, <1>9

\* What a system drops is released once for each subscription.
LEMMA CountUnsubscribe ==
  ASSUME TypeOK, CountInv, NEW i \in Systems, unsubscribe(i)
  PROVE  CountInv'
  <1>1. /\ subs \in [Systems -> SUBSET Infos] /\ subs' = [subs EXCEPT ![i] = {}]
        /\ registry' = registry /\ manager' = manager /\ early' = early
    BY DEF unsubscribe, TypeOK
  <1>2. ASSUME NEW s \in Streams
        PROVE  \E m \in Nat :
                /\ m = Cardinality({info \in subs[i] : info.stream = s})
                /\ IsFiniteSet(Subscriptions(s)')
                /\ m <= Cardinality(Subscriptions(s))
                /\ Cardinality(Subscriptions(s)') = Cardinality(Subscriptions(s)) - m
    <2>1. PICK S : S = {info \in subs[i] : info.stream = s}
      OBVIOUS
    <2>2. IsFiniteSet(S) /\ Cardinality(S) \in Nat
      <3>1. S \in SUBSET Infos
        BY <1>1, <2>1
      <3> QED
        BY <3>1, InfosAssumption, FS_Subset, FS_CardinalityType
    <2>3. PICK D : D = {i} \X S
      OBVIOUS
    <2>4. IsFiniteSet(D) /\ Cardinality(D) = Cardinality(S)
      <3>1. IsFiniteSet({i}) /\ Cardinality({i}) = 1
        BY FS_Singleton
      <3>2. IsFiniteSet(D) /\ Cardinality(D) = Cardinality({i}) * Cardinality(S)
        BY <2>2, <2>3, <3>1, FS_Product
      <3> QED
        BY <2>2, <3>1, <3>2
    <2>5. PICK P : P = Subscriptions(s)
      OBVIOUS
    <2>6. IsFiniteSet(P) /\ D \subseteq P
      BY <1>1, <2>1, <2>3, <2>5 DEF CountInv, Subscriptions
    <2>7. Subscriptions(s)' = P \ D
      BY <1>1, <2>1, <2>3, <2>5 DEF Subscriptions
    <2>8. IsFiniteSet(P \ D) /\ Cardinality(P \ D) = Cardinality(P) - Cardinality(P \cap D)
      BY <2>6, FS_Difference
    <2>9. P \cap D = D
      BY <2>6
    <2>10. Cardinality(D) <= Cardinality(P)
      BY <2>6, FS_Subset
    <2> QED
      BY <2>1, <2>2, <2>4, <2>5, <2>7, <2>8, <2>9, <2>10
  <1>3. \A s \in Streams : IsFiniteSet(Subscriptions(s))'
    BY <1>2
  <1>4. ~ manager' /\ ~ early' => \A s \in Streams : Subscriptions(s)' = {}
    BY <1>1 DEF CountInv, Subscriptions
  <1>5. ASSUME ~ early, NEW s \in Streams
        PROVE  NeverClamped(registry[s], tasks[s])' /\ Due(s)' = Cardinality(Subscriptions(s)')
    <2>1. PICK q \in Seq({1, -1}) : q = tasks[s]
      BY DEF TypeOK
    <2>2. PICK count \in Nat : count = registry[s]
      BY DEF TypeOK
    <2>3. NeverClamped(count, q) /\ Net(count, q, Len(q)) = Cardinality(Subscriptions(s))
      BY <1>5, <2>1, <2>2 DEF CountInv, Due
    <2>4. CASE manager
      <3>1. PICK m \in Nat :
                /\ m = Cardinality({info \in subs[i] : info.stream = s})
                /\ m <= Cardinality(Subscriptions(s))
                /\ Cardinality(Subscriptions(s)') = Cardinality(Subscriptions(s)) - m
        BY <1>2
      <3>2. PICK r : r = q \o [k \in 1 .. m |-> -1]
        OBVIOUS
      <3>3. tasks'[s] = r
        BY <2>1, <2>4, <3>1, <3>2 DEF unsubscribe, Releases
      <3>4. Len(r) = Len(q) + m /\ Run(r, q, Len(q), m, -1)
        BY <3>2, RunBehind, ZenonT(40)
      <3>5. m <= Net(count, q, Len(q))
        BY <2>3, <3>1
      <3>6. NeverClamped(count, r) /\ Net(count, r, Len(r)) = Net(count, q, Len(q)) - m
        BY <2>3, <3>4, <3>5, ReleasesKeepCount
      <3> QED
        BY <1>1, <2>2, <2>3, <3>1, <3>3, <3>6 DEF Due
    <2>5. CASE ~ manager
      <3>1. tasks' = tasks
        BY <2>5 DEF unsubscribe
      <3>2. Subscriptions(s)' = Subscriptions(s)
        BY <1>1, <1>4, <1>5, <2>5 DEF CountInv
      <3> QED
        BY <1>1, <2>1, <2>2, <2>3, <3>1, <3>2 DEF Due
    <2> QED
      BY <2>4, <2>5
  <1> QED
    BY <1>1, <1>3, <1>4, <1>5 DEF CountInv

\* A task that runs moves what is due from the tasks to the count.
LEMMA CountAdjust ==
  ASSUME TypeOK, CountInv, NEW s \in Streams, adjust_subscription(s)
  PROVE  CountInv'
  <1>1. /\ tasks[s] # <<>> /\ tasks' = [tasks EXCEPT ![s] = Tail(@)]
        /\ registry' = [registry EXCEPT ![s] = Adjusted(s)]
        /\ subs' = subs /\ manager' = manager /\ early' = early
    BY DEF adjust_subscription
  <1>2. \A t \in Streams : Subscriptions(t)' = Subscriptions(t)
    BY <1>1 DEF Subscriptions
  <1>3. ASSUME ~ early, NEW t \in Streams
        PROVE  NeverClamped(registry[t], tasks[t])' /\ Due(t)' = Due(t)
    <2>1. CASE t # s
      <3>1. tasks'[t] = tasks[t] /\ registry'[t] = registry[t]
        BY <1>1, <2>1 DEF TypeOK
      <3> QED
        BY <1>3, <3>1 DEF CountInv, Due
    <2>2. CASE t = s
      <3>1. PICK q \in Seq({1, -1}) : q = tasks[s]
        BY DEF TypeOK
      <3>2. PICK count \in Nat : count = registry[s]
        BY DEF TypeOK
      <3>3. q # <<>> /\ NeverClamped(count, q)
        BY <1>1, <1>3, <3>1, <3>2 DEF CountInv
      <3>4. /\ count + Head(q) >= 0
            /\ NeverClamped(count + Head(q), Tail(q))
            /\ Net(count + Head(q), Tail(q), Len(Tail(q))) = Net(count, q, Len(q))
        BY <3>3, TailKeepsCount
      <3>5. Head(q) \in {1, -1}
        BY <3>3
      <3>6. Adjusted(s) = count + Head(q)
        BY <3>1, <3>2, <3>4, <3>5 DEF Adjusted
      <3>7. tasks'[s] = Tail(q) /\ registry'[s] = count + Head(q)
        BY <1>1, <3>1, <3>6 DEF TypeOK
      <3> QED
        BY <2>2, <3>1, <3>2, <3>4, <3>7 DEF Due
    <2> QED
      BY <2>1, <2>2
  <1> QED
    BY <1>1, <1>2, <1>3 DEF CountInv

\* Connections, frames and the replay leave subscriptions, tasks and counts alone.
LEMMA CountStep ==
  ASSUME TypeOK, CountInv, [Next]_vars
  PROVE  CountInv'
  <1>1. CASE UNCHANGED <<subs, tasks, registry, early>> /\ (manager => manager')
    <2>1. \A s \in Streams : Subscriptions(s)' = Subscriptions(s) /\ Due(s)' = Due(s)
      BY <1>1 DEF Subscriptions, Due
    <2> QED
      BY <1>1, <2>1 DEF CountInv
  <1>2. CASE CreateManager \/ Connect \/ Break \/ Disconnect \/ Stop \/ UNCHANGED vars
             \/ \E s \in Streams : Replay(s)
    <2>1. UNCHANGED <<subs, tasks, registry, early>> /\ (manager => manager')
      <3>1. CASE CreateManager \/ Connect \/ Disconnect \/ Stop
        BY <3>1 DEF CreateManager, Connect, Disconnect, Stop
      <3>2. CASE Break
        BY <3>2 DEF Break
      <3>3. ASSUME NEW s \in Streams, Replay(s)
            PROVE  UNCHANGED <<subs, manager, tasks, registry, early>>
        BY <3>3 DEF Replay
      <3>4. CASE UNCHANGED vars
        BY <3>4 DEF vars
      <3> QED
        BY <1>2, <3>1, <3>2, <3>3, <3>4
    <2> QED
      BY <1>1, <2>1
  <1>3. ASSUME NEW i \in Systems, unsubscribe(i)
        PROVE  CountInv'
    BY <1>3, CountUnsubscribe
  <1>4. ASSUME NEW i \in Systems, NEW info \in Infos, subscribe(i, info)
        PROVE  CountInv'
    BY <1>4, CountSubscribe
  <1>5. ASSUME NEW s \in Streams, adjust_subscription(s)
        PROVE  CountInv'
    BY <1>5, CountAdjust
  <1> QED
    BY <1>2, <1>3, <1>4, <1>5 DEF Next

\* Whatever subscribes and unsubscribes while tasks are pending, the count of a
\* stream is the number of subscriptions to it once its tasks have run, unless a
\* subscription was made before the manager existed.
THEOREM CountIsSubscriptions == Spec => []RegistryCounts
  <1>1. ASSUME TypeOK, CountInv
        PROVE  RegistryCounts
    <2> SUFFICES ASSUME ~ early, NEW s \in Streams
                 PROVE  registry[s] + Scheduled(s, 1) - Scheduled(s, -1)
                        = Cardinality(Subscriptions(s))
      BY DEF RegistryCounts
    <2>1. DOMAIN tasks[s] = 1 .. Len(tasks[s])
      BY DEF TypeOK
    <2>2. \A delta : Scheduled(s, delta) = Count(tasks[s], Len(tasks[s]), delta)
      BY <2>1 DEF Scheduled, Count, Places
    <2>3. Due(s) = Cardinality(Subscriptions(s))
      BY <1>1 DEF CountInv
    <2> QED
      BY <2>2, <2>3 DEF Due, Net
  <1> QED
    BY <1>1, CountInit, CountStep, TypeCorrect, PTL DEF Spec
=============================================================================
