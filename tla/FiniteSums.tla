----------------------------- MODULE FiniteSums -----------------------------
(***************************************************************************)
(* Lemmas about sums over finite sets, as the community modules define     *)
(* them: a function over all subsets that takes one element away at a      *)
(* time. Induction over the set is a minimal counterexample among its      *)
(* subsets, which the library's facts on well-founded relations give.      *)
(***************************************************************************)
EXTENDS Integers, Functions, FiniteSetTheorems, WellFoundedInduction, TLAPS

\* The element that a sum over s takes away first.
Pick(s) == CHOOSE x \in s : TRUE

\* g adds up f over every subset of S.
IsSum(g, f, S) == g = [s \in SUBSET S |-> IF s = {} THEN 0 ELSE f[Pick(s)] + g[s \ {Pick(s)}]]

\* Among the subsets of a finite set that have some property one is minimal.
LEMMA MinimalSubset ==
  ASSUME NEW S, IsFiniteSet(S), NEW B, B \subseteq SUBSET S, B # {}
  PROVE  \E m \in B : \A t \in B : t \subseteq m => t = m
  <1>1. IsWellFoundedOn(StrictSubsetOrdering(S), SUBSET S)
    BY FS_StrictSubsetOrderingWellFounded, FS_FiniteSubsetsOfFinite
  <1>2. PICK m \in B : \A t \in B : <<t, m>> \notin StrictSubsetOrdering(S)
    BY <1>1, WFMin, Zenon
  <1> QED BY <1>2 DEF StrictSubsetOrdering

\* What Pick takes out of a set that is not empty is one of its elements.
LEMMA PickIn == ASSUME NEW s, s # {} PROVE Pick(s) \in s
  BY DEF Pick

\* The value of a sum.
LEMMA IsSumValue ==
  ASSUME NEW g, NEW f, NEW S, IsSum(g, f, S), NEW s \in SUBSET S
  PROVE  g[s] = IF s = {} THEN 0 ELSE f[Pick(s)] + g[s \ {Pick(s)}]
  <1>1. g = [t \in SUBSET S |-> IF t = {} THEN 0 ELSE f[Pick(t)] + g[t \ {Pick(t)}]]
    BY DEF IsSum
  <1> QED BY <1>1, Zenon

\* Two functions that add up f agree where both do.
LEMMA SumUnique ==
  ASSUME NEW g, NEW h, NEW f, NEW S, NEW T, IsFiniteSet(S), IsSum(g, f, S), IsSum(h, f, T),
         NEW s, s \subseteq S, s \subseteq T
  PROVE  g[s] = h[s]
  <1> DEFINE B == {t \in SUBSET S : t \subseteq T /\ g[t] # h[t]}
  <1> SUFFICES ASSUME B # {} PROVE FALSE
    OBVIOUS
  <1>1. PICK m \in B : \A t \in B : t \subseteq m => t = m
    <2>1. B \subseteq SUBSET S
      OBVIOUS
    <2> HIDE DEF B
    <2> QED BY <2>1, MinimalSubset
  <1>2. g[m] = IF m = {} THEN 0 ELSE f[Pick(m)] + g[m \ {Pick(m)}]
    BY IsSumValue
  <1>3. h[m] = IF m = {} THEN 0 ELSE f[Pick(m)] + h[m \ {Pick(m)}]
    BY IsSumValue
  <1>4. m # {}
    BY <1>2, <1>3
  <1>5. m \ {Pick(m)} \notin B
    BY <1>1, <1>4, PickIn
  <1>6. g[m \ {Pick(m)}] = h[m \ {Pick(m)}]
    BY <1>5
  <1> QED BY <1>2, <1>3, <1>4, <1>6

\* A finite set has a function that adds f up.
LEMMA SumExists ==
  ASSUME NEW S, IsFiniteSet(S), NEW f
  PROVE  \E g : IsSum(g, f, S)
  <1> DEFINE B == {T \in SUBSET S : ~\E g : IsSum(g, f, T)}
  <1> SUFFICES ASSUME B # {} PROVE FALSE
    OBVIOUS
  <1>1. PICK T \in B : \A t \in B : t \subseteq T => t = T
    <2>1. B \subseteq SUBSET S
      OBVIOUS
    <2> HIDE DEF B
    <2> QED BY <2>1, MinimalSubset
  <1> DEFINE h(t) == CHOOSE g : IsSum(g, f, t)
             g == [s \in SUBSET T |->
                     IF s = {} THEN 0 ELSE f[Pick(s)] + h(s \ {Pick(s)})[s \ {Pick(s)}]]
  <1>2. \A t \in SUBSET T : t # T => IsSum(h(t), f, t)
    BY <1>1
  <1>3. \A t \in SUBSET T : IsFiniteSet(t)
    BY FS_Subset
  <1> HIDE DEF h
  <1>4. ASSUME NEW s \in SUBSET T, s # T PROVE g[s] = h(s)[s]
    <2>1. CASE s = {}
      BY <2>1, <1>2, <1>4, IsSumValue
    <2>2. CASE s # {}
      <3> DEFINE t == s \ {Pick(s)}
      <3>1. t \in SUBSET T /\ t # T /\ t \subseteq s
        BY <2>2, <1>4, PickIn
      <3>2. h(s)[t] = h(t)[t]
        BY <3>1, <1>2, <1>3, <1>4, SumUnique
      <3>3. h(s)[s] = f[Pick(s)] + h(s)[t]
        BY <2>2, <1>2, <1>4, IsSumValue
      <3> QED BY <2>2, <3>2, <3>3
    <2> QED BY <2>1, <2>2
  <1>5. ASSUME NEW s \in SUBSET T, s # {} PROVE h(s \ {Pick(s)})[s \ {Pick(s)}] = g[s \ {Pick(s)}]
    <2>1. s \ {Pick(s)} \in SUBSET T /\ s \ {Pick(s)} # T
      BY <1>5, PickIn
    <2> HIDE DEF g
    <2> QED BY <2>1, <1>4
  <1>6. g = [s \in SUBSET T |-> IF s = {} THEN 0 ELSE f[Pick(s)] + g[s \ {Pick(s)}]]
    <2> DEFINE k == [s \in SUBSET T |-> IF s = {} THEN 0 ELSE f[Pick(s)] + g[s \ {Pick(s)}]]
    <2>1. ASSUME NEW s \in SUBSET T PROVE g[s] = k[s]
      BY <1>5, Zenon
    <2> QED BY <2>1, Zenon
  <1>7. IsSum(g, f, T)
    <2> HIDE DEF g
    <2> QED BY <1>6 DEF IsSum
  <1> QED BY <1>1, <1>7

-----------------------------------------------------------------------------
\* Whatever adds f up over a set gives the sum over each finite subset.
LEMMA SumIs ==
  ASSUME NEW S, IsFiniteSet(S), NEW f, NEW g, NEW T, S \subseteq T, IsSum(g, f, T)
  PROVE  SumFunctionOnSet(f, S) = g[S]
  <1> DEFINE adds(h) == h = [s \in SUBSET S |->
                               IF s = {} THEN 0
                               ELSE f[CHOOSE x \in s : TRUE] + h[s \ {CHOOSE x \in s : TRUE}]]
  <1>1. \A h : adds(h) <=> IsSum(h, f, S)
    BY DEF IsSum, Pick
  <1>2. SumFunctionOnSet(f, S) = (CHOOSE h : adds(h))[S]
    BY DEF SumFunctionOnSet, FoldFunctionOnSet, MapThenFoldSet
  <1> HIDE DEF adds
  <1>3. PICK h : adds(h)
    BY <1>1, SumExists
  <1>4. adds(CHOOSE k : adds(k))
    BY <1>3, Zenon
  <1>5. IsSum(CHOOSE k : adds(k), f, S)
    BY <1>1, <1>4
  <1> QED BY <1>2, <1>5, SumUnique

\* The recursion of the sum, with Pick.
LEMMA SumValue ==
  ASSUME NEW S, IsFiniteSet(S), NEW f
  PROVE  SumFunctionOnSet(f, S) = IF S = {} THEN 0 ELSE f[Pick(S)] + SumFunctionOnSet(f, S \ {Pick(S)})
  <1>1. PICK g : IsSum(g, f, S)
    BY SumExists
  <1>2. SumFunctionOnSet(f, S) = g[S] /\ g[S] = IF S = {} THEN 0 ELSE f[Pick(S)] + g[S \ {Pick(S)}]
    BY <1>1, SumIs, IsSumValue
  <1>3. SumFunctionOnSet(f, S \ {Pick(S)}) = g[S \ {Pick(S)}]
    BY <1>1, SumIs, FS_Subset
  <1> QED BY <1>2, <1>3

\* Nothing adds up to 0.
LEMMA SumOfNone == ASSUME NEW f PROVE SumFunctionOnSet(f, {}) = 0
  BY SumValue, FS_EmptySet

\* Integers add up to an integer, natural numbers to a natural number.
LEMMA SumType ==
  ASSUME NEW S, IsFiniteSet(S), NEW f, NEW N, N = Nat \/ N = Int, \A x \in S : f[x] \in N
  PROVE  SumFunctionOnSet(f, S) \in N
  <1> DEFINE B == {T \in SUBSET S : SumFunctionOnSet(f, T) \notin N}
  <1> SUFFICES ASSUME B # {} PROVE FALSE
    OBVIOUS
  <1>1. PICK m \in B : \A t \in B : t \subseteq m => t = m
    <2>1. B \subseteq SUBSET S
      OBVIOUS
    <2> HIDE DEF B
    <2> QED BY <2>1, MinimalSubset
  <1>2. SumFunctionOnSet(f, m) = IF m = {} THEN 0 ELSE f[Pick(m)] + SumFunctionOnSet(f, m \ {Pick(m)})
    BY SumValue, FS_Subset
  <1>3. m # {} /\ Pick(m) \in m
    BY <1>2, PickIn
  <1>4. SumFunctionOnSet(f, m \ {Pick(m)}) \in N
    BY <1>1, <1>3
  <1> QED BY <1>2, <1>3, <1>4

\* It does not matter which element is taken away first.
LEMMA SumRemove ==
  ASSUME NEW S, IsFiniteSet(S), NEW f, \A y \in S : f[y] \in Int, NEW x \in S
  PROVE  SumFunctionOnSet(f, S) = f[x] + SumFunctionOnSet(f, S \ {x})
  <1> DEFINE B == {T \in SUBSET S : \E y \in T : SumFunctionOnSet(f, T) # f[y] + SumFunctionOnSet(f, T \ {y})}
  <1> SUFFICES ASSUME B # {} PROVE FALSE
    OBVIOUS
  <1>1. PICK m \in B : \A t \in B : t \subseteq m => t = m
    <2>1. B \subseteq SUBSET S
      OBVIOUS
    <2> HIDE DEF B
    <2> QED BY <2>1, MinimalSubset
  <1>2. PICK y \in m : SumFunctionOnSet(f, m) # f[y] + SumFunctionOnSet(f, m \ {y})
    OBVIOUS
  <1> DEFINE p == Pick(m)
  <1>3. p \in m
    BY <1>2, PickIn
  <1>4. SumFunctionOnSet(f, m) = f[p] + SumFunctionOnSet(f, m \ {p})
    BY <1>2, SumValue, FS_Subset
  <1>5. p # y
    BY <1>2, <1>4
  <1> HIDE DEF p
  <1>6. SumFunctionOnSet(f, m \ {p}) = f[y] + SumFunctionOnSet(f, m \ {p, y})
    <2>1. m \ {p} \in SUBSET S /\ m \ {p} \notin B /\ y \in m \ {p}
      BY <1>1, <1>3, <1>5
    <2>2. SumFunctionOnSet(f, m \ {p}) = f[y] + SumFunctionOnSet(f, (m \ {p}) \ {y})
      BY <2>1
    <2>3. (m \ {p}) \ {y} = m \ {p, y}
      OBVIOUS
    <2> QED BY <2>2, <2>3
  <1>7. SumFunctionOnSet(f, m \ {y}) = f[p] + SumFunctionOnSet(f, m \ {p, y})
    <2>1. m \ {y} \in SUBSET S /\ m \ {y} \notin B /\ p \in m \ {y}
      BY <1>1, <1>3, <1>5
    <2>2. SumFunctionOnSet(f, m \ {y}) = f[p] + SumFunctionOnSet(f, (m \ {y}) \ {p})
      BY <2>1
    <2>3. (m \ {y}) \ {p} = m \ {p, y}
      OBVIOUS
    <2> QED BY <2>2, <2>3
  <1>8. f[p] \in Int /\ f[y] \in Int /\ SumFunctionOnSet(f, m \ {p, y}) \in Int
    <2>1. m \ {p, y} \in SUBSET S /\ \A z \in m \ {p, y} : f[z] \in Int
      OBVIOUS
    <2>2. IsFiniteSet(m \ {p, y})
      BY <2>1, FS_Subset
    <2> QED BY <1>3, <2>1, <2>2, SumType
  <1> QED BY <1>2, <1>4, <1>6, <1>7, <1>8

\* A sum depends on nothing but the values over its set.
LEMMA SumSame ==
  ASSUME NEW S, IsFiniteSet(S), NEW f, NEW g, \A x \in S : f[x] = g[x]
  PROVE  SumFunctionOnSet(f, S) = SumFunctionOnSet(g, S)
  <1> DEFINE B == {T \in SUBSET S : SumFunctionOnSet(f, T) # SumFunctionOnSet(g, T)}
  <1> SUFFICES ASSUME B # {} PROVE FALSE
    OBVIOUS
  <1>1. PICK m \in B : \A t \in B : t \subseteq m => t = m
    <2>1. B \subseteq SUBSET S
      OBVIOUS
    <2> HIDE DEF B
    <2> QED BY <2>1, MinimalSubset
  <1>2. /\ SumFunctionOnSet(f, m) = IF m = {} THEN 0 ELSE f[Pick(m)] + SumFunctionOnSet(f, m \ {Pick(m)})
        /\ SumFunctionOnSet(g, m) = IF m = {} THEN 0 ELSE g[Pick(m)] + SumFunctionOnSet(g, m \ {Pick(m)})
    BY SumValue, FS_Subset
  <1>3. m # {} /\ Pick(m) \in m
    BY <1>2, PickIn
  <1>4. SumFunctionOnSet(f, m \ {Pick(m)}) = SumFunctionOnSet(g, m \ {Pick(m)}) /\ f[Pick(m)] = g[Pick(m)]
    BY <1>1, <1>3
  <1> QED BY <1>2, <1>3, <1>4

\* An element that is new to a set adds its value to the sum.
LEMMA SumAdd ==
  ASSUME NEW S, IsFiniteSet(S), NEW x, x \notin S, NEW f, \A y \in S \cup {x} : f[y] \in Int
  PROVE  SumFunctionOnSet(f, S \cup {x}) = SumFunctionOnSet(f, S) + f[x]
  <1>1. IsFiniteSet(S \cup {x}) /\ (S \cup {x}) \ {x} = S
    BY FS_AddElement
  <1>2. SumFunctionOnSet(f, S \cup {x}) = f[x] + SumFunctionOnSet(f, S)
    BY <1>1, SumRemove
  <1> QED BY <1>2, SumType

\* A function that changes at one element changes its sum by as much.
LEMMA SumChange ==
  ASSUME NEW S, IsFiniteSet(S), NEW x \in S, NEW f, NEW g,
         \A y \in S : f[y] \in Int /\ g[y] \in Int, \A y \in S \ {x} : g[y] = f[y]
  PROVE  SumFunctionOnSet(g, S) = SumFunctionOnSet(f, S) + g[x] - f[x]
  <1>1. IsFiniteSet(S \ {x})
    BY FS_RemoveElement
  <1>2. SumFunctionOnSet(f, S) = f[x] + SumFunctionOnSet(f, S \ {x}) /\ SumFunctionOnSet(g, S) = g[x] + SumFunctionOnSet(g, S \ {x})
    BY SumRemove
  <1>3. SumFunctionOnSet(g, S \ {x}) = SumFunctionOnSet(f, S \ {x})
    BY <1>1, SumSame
  <1>4. SumFunctionOnSet(f, S \ {x}) \in Int
    BY <1>1, SumType
  <1> QED BY <1>2, <1>3, <1>4

\* The sum of a combination is the combination of the sums.
LEMMA SumCombined ==
  ASSUME NEW S, IsFiniteSet(S), NEW a \in Int, NEW b \in Int, NEW f, NEW g, NEW h,
         \A x \in S : f[x] \in Int /\ g[x] \in Int /\ h[x] = a * f[x] + b * g[x]
  PROVE  SumFunctionOnSet(h, S) = a * SumFunctionOnSet(f, S) + b * SumFunctionOnSet(g, S)
  <1> DEFINE F(T) == SumFunctionOnSet(f, T)
             G(T) == SumFunctionOnSet(g, T)
             H(T) == SumFunctionOnSet(h, T)
             B == {T \in SUBSET S : H(T) # a * F(T) + b * G(T)}
  <1> SUFFICES ASSUME B # {} PROVE FALSE
    OBVIOUS
  <1>1. PICK m \in B : \A t \in B : t \subseteq m => t = m
    <2>1. B \subseteq SUBSET S
      OBVIOUS
    <2> HIDE DEF B
    <2> QED BY <2>1, MinimalSubset
  <1>2. H(m) # a * F(m) + b * G(m)
    BY <1>1
  <1>3. CASE m = {}
    BY <1>2, <1>3, SumOfNone
  <1>4. CASE m # {}
    <2> DEFINE p == Pick(m)
               T == m \ {p}
    <2>1. p \in m /\ T \in SUBSET S /\ IsFiniteSet(T) /\ IsFiniteSet(m)
      BY <1>4, PickIn, FS_Subset
    <2>2. H(T) = a * F(T) + b * G(T)
      BY <1>1, <2>1
    <2>3. F(m) = f[p] + F(T) /\ G(m) = g[p] + G(T) /\ H(m) = h[p] + H(T)
      BY <1>4, <2>1, SumValue
    <2>4. F(T) \in Int /\ G(T) \in Int
      BY <2>1, SumType
    <2>5. f[p] \in Int /\ g[p] \in Int /\ h[p] = a * f[p] + b * g[p]
      BY <2>1
    <2> HIDE DEF p, T, F, G, H
    <2>6. a * (f[p] + F(T)) = a * f[p] + a * F(T) /\ b * (g[p] + G(T)) = b * g[p] + b * G(T)
      BY <2>4, <2>5
    <2>7. a * f[p] \in Int /\ a * F(T) \in Int /\ b * g[p] \in Int /\ b * G(T) \in Int
      BY <2>4, <2>5
    <2>8. H(m) = a * F(m) + b * G(m)
      BY <2>2, <2>3, <2>5, <2>6, <2>7
    <2> QED BY <1>2, <2>8
  <1> QED BY <1>3, <1>4

\* Values within b of 0 add up to at most b for each of them.
LEMMA SumBounded ==
  ASSUME NEW S, IsFiniteSet(S), NEW b \in Nat, NEW f,
         \A x \in S : f[x] \in Int /\ -b <= f[x] /\ f[x] <= b
  PROVE  /\ -(Cardinality(S) * b) <= SumFunctionOnSet(f, S)
         /\ SumFunctionOnSet(f, S) <= Cardinality(S) * b
  <1> DEFINE F(T) == SumFunctionOnSet(f, T)
             Within(T) == -(Cardinality(T) * b) <= F(T) /\ F(T) <= Cardinality(T) * b
             B == {T \in SUBSET S : ~Within(T)}
  <1> SUFFICES ASSUME B # {} PROVE FALSE
    OBVIOUS
  <1>1. PICK m \in B : \A t \in B : t \subseteq m => t = m
    <2>1. B \subseteq SUBSET S
      OBVIOUS
    <2> HIDE DEF B
    <2> QED BY <2>1, MinimalSubset
  <1>2. CASE m = {}
    BY <1>1, <1>2, SumOfNone, FS_EmptySet
  <1>3. CASE m # {}
    <2> DEFINE p == Pick(m)
               T == m \ {p}
    <2>1. p \in m /\ T \in SUBSET S /\ IsFiniteSet(T) /\ IsFiniteSet(m)
      BY <1>3, PickIn, FS_Subset
    <2>2. Within(T)
      BY <1>1, <2>1
    <2>3. F(m) = f[p] + F(T)
      BY <1>3, <2>1, SumValue
    <2>4. F(T) \in Int /\ f[p] \in Int /\ -b <= f[p] /\ f[p] <= b
      BY <2>1, SumType
    <2>5. Cardinality(m) \in Nat /\ Cardinality(T) = Cardinality(m) - 1
      BY <2>1, FS_RemoveElement, FS_CardinalityType
    <2> DEFINE n == Cardinality(m)
    <2>6. (n - 1) * b = n * b - b /\ n * b \in Int
      BY <2>5
    <2>7. Cardinality(T) * b = n * b - b
      BY <2>5, <2>6
    <2> HIDE DEF p, T, F, n
    <2>8. -(n * b) <= F(m) /\ F(m) <= n * b
      BY <2>2, <2>3, <2>4, <2>6, <2>7
    <2> QED BY <1>1, <2>8 DEF n
  <1> QED BY <1>2, <1>3

\* Zeros add up to zero.
LEMMA SumOfZeros ==
  ASSUME NEW S, IsFiniteSet(S), NEW f, \A x \in S : f[x] = 0
  PROVE  SumFunctionOnSet(f, S) = 0
  <1>1. \A x \in S : f[x] \in Int /\ -0 <= f[x] /\ f[x] <= 0
    OBVIOUS
  <1>2. PICK n \in Nat : n = Cardinality(S)
    BY FS_CardinalityType
  <1>3. PICK sum \in Int : sum = SumFunctionOnSet(f, S)
    BY <1>1, SumType
  <1>4. -(n * 0) <= sum /\ sum <= n * 0
    BY <1>1, <1>2, <1>3, SumBounded
  <1> QED BY <1>3, <1>4

=============================================================================
