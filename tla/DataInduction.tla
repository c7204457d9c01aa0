--------------------------- MODULE DataInduction ---------------------------
(* Induction over data: least elements, induction over a set of numbers and *)
(* the functions that repeat a step.  Everything is stated of sets and      *)
(* functions, so that a property is proved by induction as the set of the   *)
(* numbers that have it.                                                    *)
EXTENDS Naturals, FiniteSetTheorems, TLAPS

\* The library finds a least element of a well-founded relation: here the sets
\* of the numbers of T up to one of them, by inclusion.
LEMMA Smallest ==
  ASSUME NEW n \in Nat, NEW T, T \subseteq 1..n, T # {} PROVE \E k \in T : \A j \in T : k <= j
<1> DEFINE upto(k) == {j \in T : j <= k}
           R == StrictSubsetOrdering(1..n)
<1>1. IsWellFoundedOn(R, SUBSET (1..n))
  <2> DEFINE S == 1..n
  <2>1. IsFiniteSet(S)
    BY FS_Interval
  <2> HIDE DEF S
  <2>2. FiniteSubsetsOf(S) = SUBSET S
    BY <2>1, FS_FiniteSubsetsOfFinite
  <2>3. IsWellFoundedOn(StrictSubsetOrdering(S), FiniteSubsetsOf(S))
    BY FS_StrictSubsetOrderingWellFounded
  <2> QED BY <2>2, <2>3 DEF S
<1>2. PICK least \in {upto(k) : k \in T} : \A other \in {upto(k) : k \in T} : <<other, least>> \notin R
  <2>1. {upto(k) : k \in T} \subseteq SUBSET (1..n) /\ {upto(k) : k \in T} # {}
    OBVIOUS
  <2> HIDE DEF R, upto
  <2> QED BY <1>1, <2>1, WFMin
<1>3. PICK k \in T : least = upto(k)
  OBVIOUS
<1>4. ASSUME NEW j \in T, j < k PROVE FALSE
  <2>1. upto(j) \subseteq upto(k) /\ k \in upto(k) /\ k \notin upto(j)
    <3>1. j \in Int /\ k \in Int /\ j < k /\ \A x \in T : x \in Int
      BY <1>4
    <3>2. k \in upto(k)
      BY <3>1
    <3>3. k \notin upto(j)
      BY <3>1
    <3>4. ASSUME NEW x \in T, x <= j PROVE x <= k
      BY <3>1, <3>4
    <3> QED BY <3>2, <3>3, <3>4
  <2>2. upto(j) \subseteq 1..n /\ upto(k) \subseteq 1..n
    OBVIOUS
  <2>3. <<upto(j), upto(k)>> \in R
    <3> HIDE DEF upto
    <3> QED BY <2>1, <2>2 DEF StrictSubsetOrdering
  <2> HIDE DEF upto, R
  <2> QED BY <1>2, <1>3, <2>3
<1> QED BY <1>4

\* Every set of numbers that is not empty has a least element.
THEOREM LeastNumber ==
  ASSUME NEW T, T \subseteq Nat, T # {} PROVE \E k \in T : \A j \in T : k <= j
<1>1. CASE 0 \in T
  BY <1>1
<1>2. CASE 0 \notin T
  <2>1. PICK m \in T : TRUE
    OBVIOUS
  <2> DEFINE S == {j \in T : j <= m}
  <2>2. m \in Nat /\ m \in S
    BY <2>1
  <2>3. ASSUME NEW j \in S PROVE j \in 1..m
    <3>1. j \in Nat /\ j # 0 /\ j <= m
      BY <1>2
    <3> QED BY <3>1, <2>2
  <2>4. PICK k \in S : \A j \in S : k <= j
    <3> HIDE DEF S
    <3>1. S \subseteq 1..m /\ S # {}
      BY <2>2, <2>3
    <3> QED BY <2>2, <3>1, Smallest
  <2>5. ASSUME NEW j \in T PROVE k <= j
    <3>1. j \in Nat /\ k \in Nat /\ m \in Nat /\ k <= m
      BY <2>2, <2>4
    <3>2. CASE j <= m
      BY <3>2, <2>4
    <3> QED BY <3>1, <3>2
  <2> QED BY <2>4, <2>5
<1> QED BY <1>1, <1>2

\* A set with every number whose predecessors are in it holds all numbers.
THEOREM AllNumbers ==
  ASSUME NEW S, \A n \in Nat : (\A m \in Nat : m < n => m \in S) => n \in S
  PROVE  Nat \subseteq S
<1> DEFINE T == Nat \ S
<1>1. SUFFICES ASSUME T # {} PROVE FALSE
  OBVIOUS
<1>2. PICK k \in T : \A j \in T : k <= j
  BY <1>1, LeastNumber, T \subseteq Nat
<1>3. ASSUME NEW m \in Nat, m < k PROVE m \in S
  BY <1>2, <1>3
<1>4. k \in Nat /\ k \notin S
  BY <1>2
<1>5. k \in S
  BY <1>3, <1>4
<1> QED BY <1>4, <1>5

\* The same from zero and one step.
THEOREM AllNumbersByStep ==
  ASSUME NEW S, 0 \in S, \A n \in Nat : n \in S => n + 1 \in S
  PROVE  Nat \subseteq S
<1>1. ASSUME NEW n \in Nat, \A m \in Nat : m < n => m \in S PROVE n \in S
  <2>1. CASE n = 0
    BY <2>1
  <2>2. CASE n # 0
    <3>1. n - 1 \in Nat /\ n - 1 < n /\ (n - 1) + 1 = n
      BY <2>2
    <3> QED BY <3>1, <1>1
  <2> QED BY <2>1, <2>2
<1> QED BY <1>1, AllNumbers

\* Induction over places by their rank.
THEOREM AllByRank ==
  ASSUME NEW D, NEW rank, \A i \in D : rank[i] \in Nat,
         NEW S, \A i \in D : (\A j \in D : rank[j] < rank[i] => j \in S) => i \in S
  PROVE  D \subseteq S
<1> DEFINE T == {n \in Nat : \A i \in D : rank[i] = n => i \in S}
<1>1. ASSUME NEW n \in Nat, \A m \in Nat : m < n => m \in T PROVE n \in T
  <2>1. ASSUME NEW i \in D, rank[i] = n PROVE i \in S
    BY <1>1, <2>1
  <2> QED BY <2>1
<1> HIDE DEF T
<1>2. Nat \subseteq T
  BY <1>1, AllNumbers
<1> QED BY <1>2 DEF T

-----------------------------------------------------------------------------

\* The first n steps from a.
Steps(g, a, step, n) ==
  /\ DOMAIN g = 0..n /\ g[0] = a
  /\ \A k \in 1..n : g[k] = step[g[k - 1]]

LEMMA StepsExist ==
  ASSUME NEW a, NEW step, NEW n \in Nat PROVE \E g : Steps(g, a, step, n)
<1> DEFINE S == {m \in Nat : \E g : Steps(g, a, step, m)}
<1>1. 0 \in S
  <2>1. Steps([k \in 0..0 |-> a], a, step, 0)
    BY DEF Steps
  <2> QED BY <2>1
<1>2. ASSUME NEW m \in Nat, m \in S PROVE m + 1 \in S
  <2>1. PICK g : Steps(g, a, step, m)
    BY <1>2
  <2> DEFINE h == [k \in 0..(m + 1) |-> IF k = m + 1 THEN step[g[m]] ELSE g[k]]
  <2>2. DOMAIN h = 0..(m + 1)
    OBVIOUS
  <2>3. h[0] = a
    BY <2>1 DEF Steps
  <2>4. ASSUME NEW k \in 1..(m + 1) PROVE h[k] = step[h[k - 1]]
    <3>1. CASE k = m + 1
      BY <3>1
    <3>2. CASE k # m + 1
      <4>1. k \in 1..m /\ k \in 0..(m + 1) /\ k - 1 \in 0..(m + 1) /\ k - 1 # m + 1
        BY <3>2
      <4>2. h[k] = g[k] /\ h[k - 1] = g[k - 1]
        BY <4>1, <3>2
      <4> QED BY <4>1, <4>2, <2>1 DEF Steps
    <3> QED BY <3>1, <3>2
  <2>5. Steps(h, a, step, m + 1)
    <3> HIDE DEF h
    <3> QED BY <2>2, <2>3, <2>4 DEF Steps
  <2> QED BY <2>5
<1> HIDE DEF S
<1>3. Nat \subseteq S
  BY <1>1, <1>2, AllNumbersByStep
<1> QED BY <1>3 DEF S

LEMMA StepsAgree ==
  ASSUME NEW a, NEW step, NEW m \in Nat, NEW n \in Nat, NEW g, NEW h,
         Steps(g, a, step, m), Steps(h, a, step, n), NEW k \in Nat, k <= m, k <= n
  PROVE  g[k] = h[k]
<1> DEFINE S == {j \in Nat : j <= m /\ j <= n => g[j] = h[j]}
<1>1. 0 \in S
  BY DEF Steps
<1>2. ASSUME NEW j \in Nat, j \in S PROVE j + 1 \in S
  <2>1. ASSUME j + 1 <= m, j + 1 <= n PROVE g[j + 1] = h[j + 1]
    <3>1. j + 1 \in 1..m /\ j + 1 \in 1..n /\ (j + 1) - 1 = j /\ g[j] = h[j]
      BY <2>1, <1>2
    <3> QED BY <3>1 DEF Steps
  <2> QED BY <2>1
<1> HIDE DEF S
<1>3. Nat \subseteq S
  BY <1>1, <1>2, AllNumbersByStep
<1> QED BY <1>3 DEF S

\* A recursive function that repeats a step exists, so that it has the values
\* its definition says.
THEOREM IterationExists ==
  ASSUME NEW X, NEW a \in X, NEW step \in [X -> X]
  PROVE  \E f \in [Nat -> X] : f[0] = a /\ \A n \in Nat : f[n + 1] = step[f[n]]
<1> DEFINE upto(n) == CHOOSE g : Steps(g, a, step, n)
           f == [n \in Nat |-> upto(n)[n]]
<1>1. ASSUME NEW n \in Nat PROVE Steps(upto(n), a, step, n)
  BY StepsExist
<1> HIDE DEF upto
<1>2. f[0] = a
  BY <1>1 DEF Steps
<1>3. ASSUME NEW n \in Nat PROVE f[n + 1] = step[f[n]]
  <2>1. n + 1 \in Nat /\ n + 1 \in 1..(n + 1) /\ (n + 1) - 1 = n /\ n <= n /\ n <= n + 1
    OBVIOUS
  <2>2. upto(n + 1)[n + 1] = step[upto(n + 1)[n]]
    BY <1>1, <2>1 DEF Steps
  <2>3. upto(n + 1)[n] = upto(n)[n]
    BY <2>1, <1>1, StepsAgree
  <2> QED BY <2>1, <2>2, <2>3
<1>4. f \in [Nat -> X]
  <2> DEFINE S == {n \in Nat : f[n] \in X}
  <2>1. 0 \in S
    BY <1>2
  <2>2. ASSUME NEW n \in Nat, n \in S PROVE n + 1 \in S
    <3> HIDE DEF f
    <3> QED BY <1>3, <2>2
  <2>3. Nat \subseteq S
    <3> HIDE DEF S
    <3> QED BY <2>1, <2>2, AllNumbersByStep
  <2> QED BY <2>3
<1> QED BY <1>2, <1>3, <1>4

-----------------------------------------------------------------------------

\* The functions on D, by a name that keeps what they are out of a proof.
FunctionsOn(D, V) == [D -> V]

\* What G makes of a function at a place follows from the function's values at
\* the places of a lower rank.
LowerDecide(G, D, V, rank) ==
  \A f, g \in [D -> V] : \A i \in D :
    (\A j \in D : rank[j] < rank[i] => f[j] = g[j]) => G[f][i] = G[g][i]

\* Then one function is what G makes of it, so that a function that is defined
\* by recursion over its places has the values its definition says.
THEOREM RankedFixpointExists ==
  ASSUME NEW D, NEW V, V # {}, NEW N \in Nat, NEW rank, \A i \in D : rank[i] \in 0..N,
         NEW G \in [FunctionsOn(D, V) -> FunctionsOn(D, V)], LowerDecide(G, D, V, rank)
  PROVE  \E f \in [D -> V] : G[f] = f
<1> DEFINE Funs == FunctionsOn(D, V)
<1>1. PICK v \in V : TRUE
  OBVIOUS
<1>2. PICK h \in [Nat -> Funs] : \A n \in Nat : h[n + 1] = G[h[n]]
  <2> DEFINE a == [i \in D |-> v]
  <2>1. a \in Funs
    BY <1>1 DEF FunctionsOn
  <2>2. G \in [Funs -> Funs]
    OBVIOUS
  <2> HIDE DEF Funs, a
  <2>3. \E f \in [Nat -> Funs] : f[0] = a /\ \A n \in Nat : f[n + 1] = G[f[n]]
    BY <2>1, <2>2, IterationExists
  <2> QED BY <2>3
<1> DEFINE S == {n \in Nat : \A i \in D : rank[i] < n => h[n + 1][i] = h[n][i]}
<1>3. 0 \in S
  OBVIOUS
<1>4. ASSUME NEW n \in Nat, n \in S PROVE n + 1 \in S
  <2>1. ASSUME NEW i \in D, rank[i] < n + 1 PROVE h[(n + 1) + 1][i] = h[n + 1][i]
    <3>1. h[n + 1] \in [D -> V] /\ h[n] \in [D -> V] /\ n + 1 \in Nat
      BY <1>2 DEF FunctionsOn
    <3>2. ASSUME NEW j \in D, rank[j] < rank[i] PROVE h[n + 1][j] = h[n][j]
      <4>1. rank[j] \in Nat /\ rank[i] \in Nat
        OBVIOUS
      <4>2. rank[j] < n
        BY <2>1, <3>2, <4>1
      <4> QED BY <1>4, <4>2
    <3>3. G[h[n + 1]][i] = G[h[n]][i]
      BY <3>1, <3>2 DEF LowerDecide
    <3>4. h[(n + 1) + 1] = G[h[n + 1]] /\ h[n + 1] = G[h[n]]
      BY <1>2, <3>1
    <3> QED BY <3>3, <3>4
  <2> QED BY <2>1
<1> HIDE DEF S
<1>5. Nat \subseteq S
  BY <1>3, <1>4, AllNumbersByStep
<1>6. N + 1 \in S /\ N + 1 \in Nat
  BY <1>5
<1>7. ASSUME NEW i \in D PROVE h[(N + 1) + 1][i] = h[N + 1][i]
  <2>1. rank[i] \in 0..N
    OBVIOUS
  <2>2. rank[i] < N + 1
    BY <2>1
  <2> QED BY <1>6, <2>2 DEF S
<1>8. h[N + 1] \in [D -> V] /\ h[(N + 1) + 1] \in [D -> V] /\ h[(N + 1) + 1] = G[h[N + 1]]
  BY <1>2, <1>6 DEF FunctionsOn
<1>9. h[(N + 1) + 1] = h[N + 1]
  BY <1>7, <1>8
<1> QED BY <1>8, <1>9
-----------------------------------------------------------------------------

\* The values of a function at finitely many places are finitely many.
THEOREM ImageFinite ==
  ASSUME NEW S, IsFiniteSet(S), NEW g, DOMAIN g = S PROVE IsFiniteSet({g[x] : x \in S})
<1> DEFINE T == {g[x] : x \in S}
           h == [x \in S |-> g[x]]
<1>1. h \in Surjection(S, T)
  BY DEF Surjection
<1> HIDE DEF h
<1> QED BY <1>1, FS_Surjection
=============================================================================
