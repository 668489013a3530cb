------------------------------ MODULE SumProofs ------------------------------
(***************************************************************************)
(* What SumFunctionOnSet computes.  The sum of a function over a finite    *)
(* set is defined by a recursion over the subsets of the set.  Its         *)
(* equations are proved from the fact that the strict subset order of a    *)
(* finite set is well-founded: a set of counterexamples has a minimal one. *)
(***************************************************************************)
EXTENDS FiniteSetsExt, FiniteSetTheorems, TLAPS

\* Numbers(f, S): the function has integer values on the set.
Numbers(f, S) == IsFiniteSet(S) /\ \A x \in S : f[x] \in Int

\* The recursion: the value at s from the values at smaller sets.
Chosen(s) == CHOOSE x \in s : TRUE
Body(f, g, s) == IF s = {} THEN 0 ELSE f[Chosen(s)] + g[s \ {Chosen(s)}]
Recursion(f, S) == CHOOSE g : g = [s \in SUBSET S |-> Body(f, g, s)]

\* Induction: a family that holds each subset of a finite set of which it holds
\* what remains without any one element holds them all.
LEMMA SubsetInduction ==
  ASSUME NEW S, IsFiniteSet(S), NEW Good,
         \A T \in SUBSET S : (\A x \in T : T \ {x} \in Good) => T \in Good
  PROVE  S \in Good /\ \A T \in SUBSET S : T \in Good
  <1> DEFINE Bad == {T \in SUBSET S : T \notin Good}
  <1>1. IsWellFoundedOn(StrictSubsetOrdering(S), SUBSET S)
    BY FS_StrictSubsetOrderingWellFounded, FS_FiniteSubsetsOfFinite
  <1>2. Bad \subseteq SUBSET S /\ \A T \in SUBSET S : T \in Bad <=> T \notin Good
    OBVIOUS
  <1> HIDE DEF Bad
  <1>3. ASSUME Bad # {}
        PROVE  FALSE
    <2>1. PICK T \in Bad : \A U \in Bad : ~ (<<U, T>> \in StrictSubsetOrdering(S))
      BY <1>1, <1>2, <1>3, WFMin
    <2>2. ASSUME NEW x \in T
          PROVE  T \ {x} \in Good
      <3>1. T \ {x} \in SUBSET S /\ T \in SUBSET S /\ T \ {x} # T
        BY <1>2, <2>1
      <3>2. <<T \ {x}, T>> \in StrictSubsetOrdering(S)
        BY <3>1 DEF StrictSubsetOrdering
      <3> QED
        BY <1>2, <2>1, <3>1, <3>2
    <2> QED
      BY <1>2, <2>1, <2>2
  <1> QED
    BY <1>2, <1>3

\* SumFunctionOnSet is the recursion, at the whole set.
LEMMA SumIsRecursion ==
  ASSUME NEW f, NEW S
  PROVE  SumFunctionOnSet(f, S) = Recursion(f, S)[S]
  BY Zenon DEF SumFunctionOnSet, FoldFunctionOnSet, MapThenFoldSet, Recursion, Body, Chosen

\* Some function satisfies the recursion: for every T, one that satisfies it on
\* all sets with no more elements than T.
LEMMA RecursionExists ==
  ASSUME NEW f, NEW S, Numbers(f, S)
  PROVE  \E g \in [SUBSET S -> Int] : \A s \in SUBSET S : g[s] = Body(f, g, s)
  <1> DEFINE Until(g, T) == \A s \in SUBSET S :
               Cardinality(s) <= Cardinality(T) => g[s] = Body(f, g, s)
             Good == {T \in SUBSET S : \E g \in [SUBSET S -> Int] : Until(g, T)}
  <1>1. IsFiniteSet(S) /\ \A s \in SUBSET S : IsFiniteSet(s) /\ Cardinality(s) \in Nat
    BY FS_Subset, FS_CardinalityType DEF Numbers
  <1>2. {} \in Good
    <2>1. \A s \in SUBSET S : Cardinality(s) <= Cardinality({}) => s = {}
      BY <1>1, FS_EmptySet
    <2>2. Until([s \in SUBSET S |-> 0], {})
      BY <2>1 DEF Body
    <2>3. [s \in SUBSET S |-> 0] \in [SUBSET S -> Int]
      OBVIOUS
    <2> HIDE DEF Until
    <2> QED
      BY <2>2, <2>3
  <1>3. ASSUME NEW T \in SUBSET S, NEW x \in T, T \ {x} \in Good
        PROVE  T \in Good
    <2>1. PICK h \in [SUBSET S -> Int] : Until(h, T \ {x})
      BY <1>3
    <2> DEFINE g == [s \in SUBSET S |-> Body(f, h, s)]
    <2>2. \A s \in SUBSET S : s # {} => Chosen(s) \in s
      BY DEF Chosen
    <2>3. g \in [SUBSET S -> Int]
      BY <2>2 DEF Body, Numbers
    <2>4. Cardinality(T \ {x}) = Cardinality(T) - 1
      BY <1>1, FS_RemoveElement
    <2>5. ASSUME NEW s \in SUBSET S, Cardinality(s) <= Cardinality(T), s # {}
          PROVE  g[s] = Body(f, g, s)
      <3>1. Chosen(s) \in s
        BY <2>2, <2>5
      <3>2. Cardinality(s \ {Chosen(s)}) = Cardinality(s) - 1
        BY <1>1, <3>1, FS_RemoveElement
      <3>3. h[s \ {Chosen(s)}] = g[s \ {Chosen(s)}]
        BY <1>1, <2>1, <2>4, <2>5, <3>2
      <3> QED
        BY <2>5, <3>3 DEF Body
    <2>6. \A s \in SUBSET S : s = {} => g[s] = Body(f, g, s)
      BY DEF Body
    <2> HIDE DEF g
    <2>7. Until(g, T)
      BY <2>5, <2>6
    <2> HIDE DEF Until
    <2> QED
      BY <2>3, <2>7
  <1> HIDE DEF Good
  <1>4. \A T \in SUBSET S : (\A x \in T : T \ {x} \in Good) => T \in Good
    BY <1>2, <1>3
  <1>5. S \in Good
    BY <1>1, <1>4, SubsetInduction
  <1> USE DEF Good
  <1>6. \A s \in SUBSET S : Cardinality(s) <= Cardinality(S)
    BY <1>1, FS_Subset
  <1> QED
    BY <1>5, <1>6

\* The recursion satisfies its equation.
LEMMA RecursionUnfolds ==
  ASSUME NEW f, NEW S, Numbers(f, S), NEW s \in SUBSET S
  PROVE  Recursion(f, S)[s] = Body(f, Recursion(f, S), s)
  <1>1. PICK g \in [SUBSET S -> Int] : \A t \in SUBSET S : g[t] = Body(f, g, t)
    BY RecursionExists
  <1>2. g = [t \in SUBSET S |-> Body(f, g, t)]
    BY <1>1
  <1>3. Recursion(f, S) = [t \in SUBSET S |-> Body(f, Recursion(f, S), t)]
    BY <1>2 DEF Recursion
  <1> HIDE DEF Recursion
  <1> QED
    BY <1>3

\* The recursion is the same from every set that holds the summed one.
LEMMA RecursionAgrees ==
  ASSUME NEW f, NEW S, Numbers(f, S), NEW T \in SUBSET S
  PROVE  \A U \in SUBSET T : Recursion(f, S)[U] = Recursion(f, T)[U]
  <1> DEFINE Good == {U \in SUBSET T : Recursion(f, S)[U] = Recursion(f, T)[U]}
  <1>1. Numbers(f, T)
    BY FS_Subset DEF Numbers
  <1>2. ASSUME NEW U \in SUBSET T, \A x \in U : U \ {x} \in Good
        PROVE  U \in Good
    <2>1. /\ Recursion(f, S)[U] = Body(f, Recursion(f, S), U)
          /\ Recursion(f, T)[U] = Body(f, Recursion(f, T), U)
      BY <1>1, RecursionUnfolds
    <2>2. U # {} => Chosen(U) \in U
      BY DEF Chosen
    <2> QED
      BY <1>2, <2>1, <2>2 DEF Body
  <1>3. IsFiniteSet(T) /\ \A U \in SUBSET T : (\A x \in U : U \ {x} \in Good) => U \in Good
    BY <1>1, <1>2 DEF Numbers
  <1> HIDE DEF Good
  <1>4. \A U \in SUBSET T : U \in Good
    BY <1>3, SubsetInduction
  <1> QED
    BY <1>4 DEF Good

\* The defining equation of the sum.
LEMMA SumUnfolds ==
  ASSUME NEW f, NEW S, Numbers(f, S)
  PROVE  /\ S = {} => SumFunctionOnSet(f, S) = 0
         /\ S # {} => /\ Chosen(S) \in S
                      /\ SumFunctionOnSet(f, S)
                           = f[Chosen(S)] + SumFunctionOnSet(f, S \ {Chosen(S)})
  <1>1. SumFunctionOnSet(f, S) = Body(f, Recursion(f, S), S)
    BY RecursionUnfolds, SumIsRecursion
  <1>2. ASSUME S # {}
        PROVE  /\ Chosen(S) \in S
               /\ Recursion(f, S)[S \ {Chosen(S)}] = SumFunctionOnSet(f, S \ {Chosen(S)})
    <2>1. Chosen(S) \in S
      BY <1>2 DEF Chosen
    <2> QED
      BY <2>1, RecursionAgrees, SumIsRecursion
  <1> QED
    BY <1>1, <1>2 DEF Body

(***************************************************************************)
(* What the other modules use                                              *)
(***************************************************************************)

\* The sum is an integer.
LEMMA SumType ==
  ASSUME NEW f, NEW S, Numbers(f, S)
  PROVE  SumFunctionOnSet(f, S) \in Int
  <1> DEFINE Good == {T \in SUBSET S : SumFunctionOnSet(f, T) \in Int}
  <1>1. ASSUME NEW T \in SUBSET S, \A x \in T : T \ {x} \in Good
        PROVE  T \in Good
    <2>1. Numbers(f, T)
      BY FS_Subset DEF Numbers
    <2>2. CASE T = {}
      <3>1. SumFunctionOnSet(f, T) = 0
        BY <2>1, <2>2, SumUnfolds
      <3> QED
        BY <3>1
    <2>3. CASE T # {}
      <3>1. /\ Chosen(T) \in T
            /\ SumFunctionOnSet(f, T) = f[Chosen(T)] + SumFunctionOnSet(f, T \ {Chosen(T)})
        BY <2>1, <2>3, SumUnfolds
      <3>2. f[Chosen(T)] \in Int /\ SumFunctionOnSet(f, T \ {Chosen(T)}) \in Int
        BY <1>1, <2>1, <3>1 DEF Numbers
      <3> QED
        BY <3>1, <3>2
    <2> QED
      BY <2>2, <2>3
  <1>2. IsFiniteSet(S) /\ \A T \in SUBSET S : (\A x \in T : T \ {x} \in Good) => T \in Good
    BY <1>1 DEF Numbers
  <1> HIDE DEF Good
  <1>3. S \in Good
    BY <1>2, SubsetInduction
  <1> QED
    BY <1>3 DEF Good

\* Any element may be split off the sum.
LEMMA SumSplits ==
  ASSUME NEW f, NEW S, Numbers(f, S), NEW e \in S
  PROVE  SumFunctionOnSet(f, S) = f[e] + SumFunctionOnSet(f, S \ {e})
  <1> DEFINE Good == {T \in SUBSET S : \A x \in T :
                SumFunctionOnSet(f, T) = f[x] + SumFunctionOnSet(f, T \ {x})}
  <1>1. \A T \in SUBSET S : Numbers(f, T) /\ SumFunctionOnSet(f, T) \in Int
    BY FS_Subset, SumType DEF Numbers
  <1>2. ASSUME NEW T \in SUBSET S, \A x \in T : T \ {x} \in Good, NEW x \in T
        PROVE  SumFunctionOnSet(f, T) = f[x] + SumFunctionOnSet(f, T \ {x})
    <2> DEFINE y == Chosen(T)
    <2>1. y \in T /\ SumFunctionOnSet(f, T) = f[y] + SumFunctionOnSet(f, T \ {y})
      BY <1>1, SumUnfolds
    <2> HIDE DEF y
    <2>2. CASE x # y
      <3>1. x \in T \ {y} /\ y \in T \ {x} /\ (T \ {x}) \ {y} = (T \ {y}) \ {x}
        BY <2>1, <2>2
      <3>2. /\ SumFunctionOnSet(f, T \ {y})
                 = f[x] + SumFunctionOnSet(f, (T \ {y}) \ {x})
            /\ SumFunctionOnSet(f, T \ {x})
                 = f[y] + SumFunctionOnSet(f, (T \ {y}) \ {x})
        BY <1>2, <2>1, <3>1
      <3>3. f[x] \in Int /\ f[y] \in Int /\ SumFunctionOnSet(f, (T \ {y}) \ {x}) \in Int
        BY <1>1, <2>1 DEF Numbers
      <3> QED
        BY <2>1, <3>2, <3>3
    <2> QED
      BY <2>1, <2>2
  <1>3. IsFiniteSet(S) /\ \A T \in SUBSET S : (\A x \in T : T \ {x} \in Good) => T \in Good
    BY <1>2 DEF Numbers
  <1> HIDE DEF Good
  <1>4. S \in Good
    BY <1>3, SubsetInduction
  <1> QED
    BY <1>4 DEF Good

\* An empty sum.
LEMMA SumOfNone ==
  ASSUME NEW f
  PROVE  SumFunctionOnSet(f, {}) = 0
  BY SumUnfolds, FS_EmptySet DEF Numbers

\* A sum is not changed by elements whose value is 0.
LEMMA SumIgnoresZeros ==
  ASSUME NEW f, NEW S, Numbers(f, S), NEW Z \in SUBSET S, \A x \in Z : f[x] = 0
  PROVE  SumFunctionOnSet(f, S) = SumFunctionOnSet(f, S \ Z)
  <1> DEFINE Good == {T \in SUBSET Z : SumFunctionOnSet(f, S) = SumFunctionOnSet(f, S \ T)}
  <1>1. \A T \in SUBSET S : Numbers(f, T) /\ SumFunctionOnSet(f, T) \in Int
    BY FS_Subset, SumType DEF Numbers
  <1>2. ASSUME NEW T \in SUBSET Z, \A x \in T : T \ {x} \in Good
        PROVE  T \in Good
    <2>1. CASE T = {}
      <3>1. S \ T = S
        BY <2>1
      <3> QED
        BY <3>1
    <2>2. ASSUME NEW x \in T
          PROVE  T \in Good
      <3>1. S \ (T \ {x}) \in SUBSET S /\ x \in S \ (T \ {x})
            /\ (S \ (T \ {x})) \ {x} = S \ T
        OBVIOUS
      <3>2. SumFunctionOnSet(f, S \ (T \ {x})) = f[x] + SumFunctionOnSet(f, S \ T)
        BY <1>1, <3>1, SumSplits
      <3>3. f[x] = 0 /\ SumFunctionOnSet(f, S \ T) \in Int
        BY <1>1
      <3> QED
        BY <1>2, <3>2, <3>3
    <2> QED
      BY <2>1, <2>2
  <1>3. IsFiniteSet(Z) /\ \A T \in SUBSET Z : (\A x \in T : T \ {x} \in Good) => T \in Good
    BY <1>2, FS_Subset DEF Numbers
  <1> HIDE DEF Good
  <1>4. Z \in Good
    BY <1>3, SubsetInduction
  <1> QED
    BY <1>4 DEF Good

\* The sum is monotonic in the function; functions that agree have one sum.
LEMMA SumMonotonic ==
  ASSUME NEW f, NEW g, NEW S, Numbers(f, S), Numbers(g, S), \A x \in S : f[x] <= g[x]
  PROVE  SumFunctionOnSet(f, S) <= SumFunctionOnSet(g, S)
  <1> DEFINE Good == {T \in SUBSET S : SumFunctionOnSet(f, T) <= SumFunctionOnSet(g, T)}
  <1>1. \A T \in SUBSET S : /\ Numbers(f, T) /\ SumFunctionOnSet(f, T) \in Int
                            /\ Numbers(g, T) /\ SumFunctionOnSet(g, T) \in Int
    BY FS_Subset, SumType DEF Numbers
  <1>2. ASSUME NEW T \in SUBSET S, \A x \in T : T \ {x} \in Good
        PROVE  T \in Good
    <2>1. CASE T = {}
      BY <2>1, SumOfNone
    <2>2. ASSUME NEW x \in T
          PROVE  T \in Good
      <3>1. SumFunctionOnSet(f, T) = f[x] + SumFunctionOnSet(f, T \ {x})
        BY <1>1, SumSplits
      <3>2. SumFunctionOnSet(g, T) = g[x] + SumFunctionOnSet(g, T \ {x})
        BY <1>1, SumSplits
      <3>3. SumFunctionOnSet(f, T \ {x}) <= SumFunctionOnSet(g, T \ {x})
        BY <1>2
      <3>4. /\ f[x] \in Int /\ SumFunctionOnSet(f, T \ {x}) \in Int
            /\ g[x] \in Int /\ SumFunctionOnSet(g, T \ {x}) \in Int
        BY <1>1 DEF Numbers
      <3> QED
        BY <3>1, <3>2, <3>3, <3>4
    <2> QED
      BY <2>1, <2>2
  <1>3. IsFiniteSet(S) /\ \A T \in SUBSET S : (\A x \in T : T \ {x} \in Good) => T \in Good
    BY <1>2 DEF Numbers
  <1> HIDE DEF Good
  <1>4. S \in Good
    BY <1>3, SubsetInduction
  <1> QED
    BY <1>4 DEF Good

\* A sum depends only on the values it adds up.
LEMMA SumCongruent ==
  ASSUME NEW f, NEW g, NEW S, Numbers(f, S), \A x \in S : f[x] = g[x]
  PROVE  SumFunctionOnSet(f, S) = SumFunctionOnSet(g, S)
  <1>1. /\ Numbers(g, S)
        /\ \A x \in S : f[x] \in Int /\ g[x] \in Int /\ f[x] <= g[x] /\ g[x] <= f[x]
    BY DEF Numbers
  <1>2. /\ SumFunctionOnSet(f, S) \in Int /\ SumFunctionOnSet(g, S) \in Int
    BY <1>1, SumType
  <1>3. SumFunctionOnSet(f, S) <= SumFunctionOnSet(g, S)
    BY <1>1, SumMonotonic
  <1>4. SumFunctionOnSet(g, S) <= SumFunctionOnSet(f, S)
    BY <1>1, SumMonotonic
  <1> QED
    BY <1>2, <1>3, <1>4

\* More elements, none of them negative, sum up to no less.
LEMMA SumGrows ==
  ASSUME NEW f, NEW S, Numbers(f, S), \A x \in S : f[x] >= 0, NEW T \in SUBSET S
  PROVE  SumFunctionOnSet(f, T) <= SumFunctionOnSet(f, S)
  <1>1. PICK g : g = [x \in S |-> IF x \in T THEN f[x] ELSE 0]
    OBVIOUS
  <1>2. Numbers(g, S) /\ Numbers(f, T) /\ \A x \in S : g[x] <= f[x]
    BY <1>1, FS_Subset DEF Numbers
  <1>3. SumFunctionOnSet(g, S) <= SumFunctionOnSet(f, S)
    BY <1>2, SumMonotonic
  <1>4. PICK Z \in SUBSET S : S \ Z = T /\ \A x \in Z : g[x] = 0
    <2>1. S \ T \in SUBSET S /\ S \ (S \ T) = T /\ \A x \in S \ T : g[x] = 0
      BY <1>1
    <2> QED
      BY <2>1
  <1>5. SumFunctionOnSet(g, S) = SumFunctionOnSet(g, T)
    BY <1>2, <1>4, SumIgnoresZeros
  <1>6. SumFunctionOnSet(f, T) = SumFunctionOnSet(g, T)
    BY <1>1, <1>2, SumCongruent
  <1> QED
    BY <1>3, <1>5, <1>6

\* The sum over one element, and over two.
LEMMA SumOfOne ==
  ASSUME NEW f, NEW x, f[x] \in Int
  PROVE  SumFunctionOnSet(f, {x}) = f[x]
  <1>1. Numbers(f, {x}) /\ {x} \ {x} = {}
    BY FS_Singleton DEF Numbers
  <1>2. SumFunctionOnSet(f, {x}) = f[x] + SumFunctionOnSet(f, {x} \ {x})
    BY <1>1, SumSplits
  <1> QED
    BY <1>1, <1>2, SumOfNone

\* A sum over two elements.
LEMMA SumOfTwo ==
  ASSUME NEW f, NEW x, NEW y, x # y, f[x] \in Int, f[y] \in Int
  PROVE  SumFunctionOnSet(f, {x, y}) = f[x] + f[y]
  <1>1. IsFiniteSet({x, y})
    <2>1. IsFiniteSet({y}) /\ {x, y} = {y} \cup {x}
      BY FS_Singleton
    <2> QED
      BY <2>1, FS_AddElement
  <1>2. Numbers(f, {x, y}) /\ {x, y} \ {x} = {y}
    BY <1>1 DEF Numbers
  <1>3. SumFunctionOnSet(f, {x, y}) = f[x] + SumFunctionOnSet(f, {x, y} \ {x})
    BY <1>2, SumSplits
  <1> QED
    BY <1>2, <1>3, SumOfOne

\* A sum in which one value changes.
LEMMA SumOfChange ==
  ASSUME NEW f, NEW g, NEW S, Numbers(f, S), NEW e \in S, g[e] \in Int,
         \A x \in S \ {e} : g[x] = f[x]
  PROVE  SumFunctionOnSet(g, S) = SumFunctionOnSet(f, S) - f[e] + g[e]
  <1>1. Numbers(g, S) /\ Numbers(f, S \ {e})
    BY FS_Subset DEF Numbers
  <1>2. /\ SumFunctionOnSet(f, S) = f[e] + SumFunctionOnSet(f, S \ {e})
        /\ SumFunctionOnSet(g, S) = g[e] + SumFunctionOnSet(g, S \ {e})
    BY <1>1, SumSplits
  <1>3. SumFunctionOnSet(f, S \ {e}) = SumFunctionOnSet(g, S \ {e})
    BY <1>1, SumCongruent
  <1>4. SumFunctionOnSet(f, S \ {e}) \in Int /\ f[e] \in Int
    BY <1>1, SumType DEF Numbers
  <1> QED
    BY <1>2, <1>3, <1>4

\* The sum of values that are not negative is not negative.
LEMMA SumIsNat ==
  ASSUME NEW f, NEW S, Numbers(f, S), \A x \in S : f[x] >= 0
  PROVE  SumFunctionOnSet(f, S) \in Nat
  <1>1. SumFunctionOnSet(f, {}) <= SumFunctionOnSet(f, S)
    BY SumGrows
  <1>2. SumFunctionOnSet(f, {}) = 0 /\ SumFunctionOnSet(f, S) \in Int
    BY SumOfNone, SumType
  <1> QED
    BY <1>1, <1>2

\* A finite set of numbers that is not empty has a least and a greatest member.
LEMMA NumbersHaveEnds ==
  ASSUME NEW S \in SUBSET Int, IsFiniteSet(S), S # {}
  PROVE  /\ \E x \in S : \A y \in S : x <= y
         /\ \E x \in S : \A y \in S : x >= y
  <1> DEFINE Good == {T \in SUBSET S : T # {} =>
                /\ \E x \in T : \A y \in T : x <= y
                /\ \E x \in T : \A y \in T : x >= y}
  <1>1. ASSUME NEW T \in SUBSET S, \A x \in T : T \ {x} \in Good
        PROVE  T \in Good
    <2> SUFFICES ASSUME NEW z \in T
                 PROVE  /\ \E x \in T : \A y \in T : x <= y
                        /\ \E x \in T : \A y \in T : x >= y
      OBVIOUS
    <2>1. CASE T \ {z} = {}
      BY <2>1
    <2>2. CASE T \ {z} # {}
      <3>1. PICK lo \in T \ {z} : \A y \in T \ {z} : lo <= y
        BY <1>1, <2>2
      <3>2. PICK hi \in T \ {z} : \A y \in T \ {z} : hi >= y
        BY <1>1, <2>2
      <3>3. \A x \in T : x \in Int
        OBVIOUS
      <3>4. \E x \in T : \A y \in T : x <= y
        <4>1. CASE lo <= z
          BY <3>1, <4>1
        <4>2. CASE ~ (lo <= z)
          <5>1. \A y \in T : z <= y
            BY <3>1, <3>3, <4>2
          <5> QED
            BY <5>1
        <4> QED
          BY <4>1, <4>2
      <3>5. \E x \in T : \A y \in T : x >= y
        <4>1. CASE hi >= z
          BY <3>2, <4>1
        <4>2. CASE ~ (hi >= z)
          <5>1. \A y \in T : z >= y
            BY <3>2, <3>3, <4>2
          <5> QED
            BY <5>1
        <4> QED
          BY <4>1, <4>2
      <3> QED
        BY <3>4, <3>5
    <2> QED
      BY <2>1, <2>2
  <1>2. S \in Good
    <2> HIDE DEF Good
    <2> QED
      BY <1>1, SubsetInduction
  <1> QED
    BY <1>2

\* One of finitely many has the greatest number.
LEMMA OneIsLast ==
  ASSUME NEW f, NEW S, Numbers(f, S), S # {}
  PROVE  \E x \in S : \A y \in S : f[y] <= f[x]
  <1> DEFINE Good == {T \in SUBSET S : T # {} => \E x \in T : \A y \in T : f[y] <= f[x]}
  <1>1. ASSUME NEW T \in SUBSET S, \A x \in T : T \ {x} \in Good
        PROVE  T \in Good
    <2> SUFFICES ASSUME NEW z \in T
                 PROVE  \E x \in T : \A y \in T : f[y] <= f[x]
      OBVIOUS
    <2>1. \A y \in T : f[y] \in Int
      BY DEF Numbers
    <2>2. CASE T \ {z} = {}
      BY <2>1, <2>2
    <2>3. CASE T \ {z} # {}
      <3>1. PICK x \in T \ {z} : \A y \in T \ {z} : f[y] <= f[x]
        BY <1>1, <2>3
      <3>2. CASE f[z] <= f[x]
        BY <3>1, <3>2
      <3>3. CASE ~ (f[z] <= f[x])
        <4>1. \A y \in T : f[y] <= f[z]
          BY <2>1, <3>1, <3>3
        <4> QED
          BY <4>1
      <3> QED
        BY <3>2, <3>3
    <2> QED
      BY <2>2, <2>3
  <1>2. S \in Good
    <2> HIDE DEF Good
    <2> QED
      BY <1>1, SubsetInduction DEF Numbers
  <1> QED
    BY <1>2
=============================================================================
