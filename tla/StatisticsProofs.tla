-------------------------- MODULE StatisticsProofs --------------------------
(***************************************************************************)
(* Facts about the arithmetic of Statistics that the proofs about          *)
(* Measurement and Comparison share: sums over finite sets, integer        *)
(* division, sorting, filtering, means and percentiles.                    *)
(***************************************************************************)
EXTENDS Statistics, SequenceTheorems, FiniteSetTheorems, FunctionTheorems, NaturalsInduction,
        WellFoundedInduction, TLAPS

-----------------------------------------------------------------------------
(* Sums                                                                    *)

\* Every set of naturals that is not empty has a least element.
LEMMA LeastNatural ==
    ASSUME NEW T \in SUBSET Nat, T # {}
    PROVE  \E x \in T : \A y \in T : x <= y
<1> DEFINE R == OpToRel(<, Nat)
<1>1. IsWellFoundedOn(R, Nat)
  BY NatLessThanWellFounded
<1>2. \A y, x \in Nat : y < x => <<y, x>> \in R
  BY DEF OpToRel
<1> HIDE DEF R
<1>3. PICK x \in T : \A y \in T : ~(<<y, x>> \in R)
  BY <1>1, WFMin
<1>4. ASSUME NEW y \in T PROVE x <= y
  <2>1. x \in Nat /\ y \in Nat
    OBVIOUS
  <2>2. ~(y < x)
    BY <2>1, <1>2, <1>3, Zenon
  <2> QED
    BY <2>1, <2>2
<1> QED
  BY <1>4

\* The element SumFunction takes out of a set first.
First(s) == CHOOSE x \in s : TRUE

Rest(s) == s \ {First(s)}

\* A subset of a finite set is smaller without its first element.
LEMMA RestIsSmaller ==
    ASSUME NEW S, IsFiniteSet(S), NEW s \in SUBSET S, s # {}
    PROVE  /\ First(s) \in s
           /\ Rest(s) \in SUBSET S
           /\ Cardinality(s) \in Nat
           /\ Cardinality(Rest(s)) \in Nat
           /\ Cardinality(s) = Cardinality(Rest(s)) + 1
<1>1. First(s) \in s
  BY DEF First
<1>2. IsFiniteSet(s)
  BY FS_Subset
<1>3. Cardinality(s) \in Nat
  BY <1>2, FS_CardinalityType
<1>4. IsFiniteSet(Rest(s)) /\ Cardinality(Rest(s)) = Cardinality(s) - 1
  BY <1>1, <1>2, FS_RemoveElement DEF Rest
<1>5. Cardinality(Rest(s)) \in Nat
  BY <1>4, FS_CardinalityType
<1> QED
  BY <1>1, <1>3, <1>4, <1>5 DEF Rest

\* Induction along the order in which SumFunction takes the elements out.
LEMMA SubsetInduction ==
    ASSUME NEW S, IsFiniteSet(S), NEW G \in SUBSET (SUBSET S),
           {} \in G,
           \A s \in SUBSET S : s # {} /\ Rest(s) \in G => s \in G
    PROVE  G = SUBSET S
<1>1. SUFFICES ASSUME NEW s \in SUBSET S, s \notin G PROVE FALSE
  OBVIOUS
<1> DEFINE T == {Cardinality(t) : t \in (SUBSET S) \ G}
<1>2. T \in SUBSET Nat
  BY FS_Subset, FS_CardinalityType
<1>3. T # {}
  BY <1>1
<1>4. PICK n \in T : \A y \in T : n <= y
  BY <1>2, <1>3, LeastNatural
<1>5. PICK t \in (SUBSET S) \ G : n = Cardinality(t)
  BY <1>4
<1>6. t # {} /\ Rest(t) \notin G
  BY <1>5
<1>7. /\ Rest(t) \in SUBSET S
      /\ Cardinality(Rest(t)) \in Nat
      /\ Cardinality(t) = Cardinality(Rest(t)) + 1
  BY <1>5, <1>6, RestIsSmaller
<1>8. Cardinality(Rest(t)) \in T
  BY <1>6, <1>7
<1>9. n <= Cardinality(Rest(t))
  BY <1>4, <1>8
<1> HIDE DEF T
<1> QED
  BY <1>5, <1>7, <1>9

\* g is the function MapThenFoldSet iterates for a sum.
Summed(f, g, s) == IF s = {} THEN 0 ELSE f[First(s)] + g[Rest(s)]

IsSum(f, S, g) == g = [s \in SUBSET S |-> Summed(f, g, s)]

\* There is such a function.
LEMMA SumExists ==
    ASSUME NEW S, IsFiniteSet(S), NEW f \in [S -> Int]
    PROVE  \E g : IsSum(f, S, g)
<1> DEFINE Upto(n, g) == \A s \in SUBSET S : Cardinality(s) <= n => g[s] = Summed(f, g, s)
           T == {n \in Nat : ~\E g \in [SUBSET S -> Int] : Upto(n, g)}
<1>1. ASSUME T # {} PROVE FALSE
  <2>1. PICK n \in T : \A y \in T : n <= y
    BY <1>1, LeastNatural
  <2>2. CASE n = 0
    <3> DEFINE g == [s \in SUBSET S |-> 0]
    <3>1. \A s \in SUBSET S : Cardinality(s) <= 0 => s = {}
      BY FS_Subset, FS_CardinalityType, FS_EmptySet
    <3>2. g \in [SUBSET S -> Int]
      OBVIOUS
    <3>3. ASSUME NEW s \in SUBSET S, Cardinality(s) <= 0 PROVE g[s] = Summed(f, g, s)
      BY <3>1, <3>3 DEF Summed
    <3> QED
      BY <2>1, <2>2, <3>2, <3>3
  <2>3. CASE n # 0
    <3>1. PICK m \in Nat : n = m + 1
      BY <2>1, <2>3
    <3>2. m \notin T
      <4> HIDE DEF T
      <4> QED
        BY <2>1, <3>1
    <3>3. PICK g \in [SUBSET S -> Int] : Upto(m, g)
      BY <3>2
    <3> DEFINE h == [s \in SUBSET S |-> Summed(f, g, s)]
    <3>4. ASSUME NEW s \in SUBSET S, s # {}
          PROVE  /\ First(s) \in S /\ Rest(s) \in SUBSET S
                 /\ Cardinality(s) \in Nat /\ Cardinality(Rest(s)) \in Nat
                 /\ Cardinality(s) = Cardinality(Rest(s)) + 1
      BY <3>4, RestIsSmaller
    <3>5. h \in [SUBSET S -> Int]
      BY <3>3, <3>4 DEF Summed
    <3>6. ASSUME NEW s \in SUBSET S, Cardinality(s) <= n
          PROVE  h[s] = Summed(f, h, s)
      <4>1. CASE s = {}
        BY <4>1 DEF Summed
      <4>2. CASE s # {}
        <5>1. Rest(s) \in SUBSET S /\ Cardinality(Rest(s)) <= m
          BY <3>1, <3>4, <3>6, <4>2
        <5>2. h[Rest(s)] = g[Rest(s)]
          BY <3>3, <5>1
        <5> QED
          BY <4>2, <5>2 DEF Summed
      <4> QED
        BY <4>1, <4>2
    <3> QED
      BY <2>1, <3>5, <3>6
  <2> QED
    BY <2>2, <2>3
<1>2. Cardinality(S) \in Nat
  BY FS_CardinalityType
<1>3. PICK g \in [SUBSET S -> Int] : Upto(Cardinality(S), g)
  BY <1>1, <1>2
<1>4. \A s \in SUBSET S : Cardinality(s) <= Cardinality(S)
  BY FS_Subset
<1>5. \A s \in SUBSET S : g[s] = Summed(f, g, s)
  BY <1>3, <1>4
<1> QED
  BY <1>5 DEF IsSum

\* The sum of f over the elements of s, for s among the subsets of S.
SumOver(f, S) == CHOOSE g : IsSum(f, S, g)

\* SumFunctionOnSet, unfolded: the sum over nothing is zero, and over a set
\* it is the first element and the sum over the others.
LEMMA SumUnfolds ==
    ASSUME NEW S, IsFiniteSet(S), NEW f \in [S -> Int]
    PROVE  /\ SumFunction(f) = SumOver(f, S)[S]
           /\ SumOver(f, S) \in [SUBSET S -> Int]
           /\ SumOver(f, S)[{}] = 0
           /\ \A s \in SUBSET S : s # {} =>
                SumOver(f, S)[s] = f[First(s)] + SumOver(f, S)[Rest(s)]
<1> DEFINE g == SumOver(f, S)
<1>1. IsSum(f, S, g)
  BY SumExists DEF SumOver
<1>2. SumFunction(f) = g[S]
  BY DEF SumFunction, SumFunctionOnSet, FoldFunctionOnSet, MapThenFoldSet, SumOver, IsSum,
         Summed, First, Rest
<1> HIDE DEF g
<1>3. g = [s \in SUBSET S |-> Summed(f, g, s)]
  BY <1>1 DEF IsSum
<1>4. g[{}] = 0
  BY <1>3 DEF Summed
<1>5. \A s \in SUBSET S : s # {} => g[s] = f[First(s)] + g[Rest(s)]
  BY <1>3 DEF Summed
<1> DEFINE G == {s \in SUBSET S : g[s] \in Int}
<1>6. G = SUBSET S
  <2>1. {} \in G
    BY <1>4
  <2>2. ASSUME NEW s \in SUBSET S, s # {}, Rest(s) \in G PROVE s \in G
    <3>1. First(s) \in S
      BY <2>2, RestIsSmaller
    <3>2. g[s] = f[First(s)] + g[Rest(s)]
      BY <1>5, <2>2
    <3> QED
      BY <2>2, <3>1, <3>2
  <2> HIDE DEF G
  <2>3. G \in SUBSET (SUBSET S)
    BY DEF G
  <2> QED
    BY <2>1, <2>2, <2>3, SubsetInduction
<1>7. g \in [SUBSET S -> Int]
  BY <1>3, <1>6
<1> QED
  BY <1>2, <1>4, <1>5, <1>7 DEF g

\* Multiplication distributes.
LEMMA Distributes ==
    \A a, b, c \in Int : a * (b + c) = a * b + a * c /\ a * b \in Int /\ (b + c) * a = b * a + c * a
OBVIOUS

\* A linear bound on every term from below is one on the sum.
LEMMA SumBelow ==
    ASSUME NEW S, IsFiniteSet(S), NEW f \in [S -> Int], NEW h \in [S -> Int],
           NEW u \in Int, NEW c \in Int,
           \A x \in S : u * h[x] + c <= f[x]
    PROVE  u * SumFunction(h) + c * Cardinality(S) <= SumFunction(f)
<1> DEFINE F == SumOver(f, S)
           H == SumOver(h, S)
           G == {s \in SUBSET S : u * H[s] + c * Cardinality(s) <= F[s]}
<1>1. /\ SumFunction(f) = F[S]
      /\ F \in [SUBSET S -> Int]
      /\ F[{}] = 0
      /\ \A s \in SUBSET S : s # {} => F[s] = f[First(s)] + F[Rest(s)]
  BY SumUnfolds
<1>2. /\ SumFunction(h) = H[S]
      /\ H \in [SUBSET S -> Int]
      /\ H[{}] = 0
      /\ \A s \in SUBSET S : s # {} => H[s] = h[First(s)] + H[Rest(s)]
  BY SumUnfolds
<1> HIDE DEF F, H
<1>3. {} \in G
  BY <1>1, <1>2, FS_EmptySet
<1>4. ASSUME NEW s \in SUBSET S, s # {}, Rest(s) \in G PROVE s \in G
  <2> DEFINE x == First(s)
             k == Cardinality(Rest(s))
  <2>1. x \in S /\ Rest(s) \in SUBSET S /\ k \in Nat /\ Cardinality(s) = k + 1
    BY <1>4, RestIsSmaller
  <2>2. /\ F[s] = f[x] + F[Rest(s)] /\ H[s] = h[x] + H[Rest(s)]
        /\ f[x] \in Int /\ F[Rest(s)] \in Int /\ h[x] \in Int /\ H[Rest(s)] \in Int
    BY <1>1, <1>2, <1>4, <2>1
  <2>3. u * H[Rest(s)] + c * k <= F[Rest(s)] /\ u * h[x] + c <= f[x]
    BY <1>4, <2>1
  <2> HIDE DEF x, k
  <2>4. /\ u * (h[x] + H[Rest(s)]) = u * h[x] + u * H[Rest(s)]
        /\ c * (k + 1) = c * k + c
        /\ u * h[x] \in Int /\ u * H[Rest(s)] \in Int /\ c * k \in Int
    BY <2>1, <2>2, Distributes
  <2>5. u * H[s] + c * Cardinality(s) <= F[s]
    BY <2>1, <2>2, <2>3, <2>4
  <2> QED
    BY <2>5
<1>5. S \in G
  <2> HIDE DEF G
  <2>1. G \in SUBSET (SUBSET S)
    BY DEF G
  <2> QED
    BY <1>3, <1>4, <2>1, SubsetInduction
<1> QED
  BY <1>1, <1>2, <1>5

\* And from above.
LEMMA SumAbove ==
    ASSUME NEW S, IsFiniteSet(S), NEW f \in [S -> Int], NEW h \in [S -> Int],
           NEW u \in Int, NEW c \in Int,
           \A x \in S : f[x] <= u * h[x] + c
    PROVE  SumFunction(f) <= u * SumFunction(h) + c * Cardinality(S)
<1> DEFINE F == SumOver(f, S)
           H == SumOver(h, S)
           G == {s \in SUBSET S : F[s] <= u * H[s] + c * Cardinality(s)}
<1>1. /\ SumFunction(f) = F[S]
      /\ F \in [SUBSET S -> Int]
      /\ F[{}] = 0
      /\ \A s \in SUBSET S : s # {} => F[s] = f[First(s)] + F[Rest(s)]
  BY SumUnfolds
<1>2. /\ SumFunction(h) = H[S]
      /\ H \in [SUBSET S -> Int]
      /\ H[{}] = 0
      /\ \A s \in SUBSET S : s # {} => H[s] = h[First(s)] + H[Rest(s)]
  BY SumUnfolds
<1> HIDE DEF F, H
<1>3. {} \in G
  BY <1>1, <1>2, FS_EmptySet
<1>4. ASSUME NEW s \in SUBSET S, s # {}, Rest(s) \in G PROVE s \in G
  <2> DEFINE x == First(s)
             k == Cardinality(Rest(s))
  <2>1. x \in S /\ Rest(s) \in SUBSET S /\ k \in Nat /\ Cardinality(s) = k + 1
    BY <1>4, RestIsSmaller
  <2>2. /\ F[s] = f[x] + F[Rest(s)] /\ H[s] = h[x] + H[Rest(s)]
        /\ f[x] \in Int /\ F[Rest(s)] \in Int /\ h[x] \in Int /\ H[Rest(s)] \in Int
    BY <1>1, <1>2, <1>4, <2>1
  <2>3. F[Rest(s)] <= u * H[Rest(s)] + c * k /\ f[x] <= u * h[x] + c
    BY <1>4, <2>1
  <2> HIDE DEF x, k
  <2>4. /\ u * (h[x] + H[Rest(s)]) = u * h[x] + u * H[Rest(s)]
        /\ c * (k + 1) = c * k + c
        /\ u * h[x] \in Int /\ u * H[Rest(s)] \in Int /\ c * k \in Int
    BY <2>1, <2>2, Distributes
  <2>5. F[s] <= u * H[s] + c * Cardinality(s)
    BY <2>1, <2>2, <2>3, <2>4
  <2> QED
    BY <2>5
<1>5. S \in G
  <2> HIDE DEF G
  <2>1. G \in SUBSET (SUBSET S)
    BY DEF G
  <2> QED
    BY <1>3, <1>4, <2>1, SubsetInduction
<1> QED
  BY <1>1, <1>2, <1>5

\* One more in one term is one more in the sum.
LEMMA SumIncremented ==
    ASSUME NEW S, IsFiniteSet(S), NEW f \in [S -> Int], NEW k \in S
    PROVE  SumFunction([f EXCEPT ![k] = f[k] + 1]) = SumFunction(f) + 1
<1> DEFINE h == [f EXCEPT ![k] = f[k] + 1]
           F == SumOver(f, S)
           H == SumOver(h, S)
           More(s) == IF k \in s THEN 1 ELSE 0
           G == {s \in SUBSET S : H[s] = F[s] + More(s)}
<1>0. /\ h \in [S -> Int] /\ h[k] = f[k] + 1
      /\ \A x \in S : x # k => h[x] = f[x]
  OBVIOUS
<1>1. /\ SumFunction(f) = F[S]
      /\ F \in [SUBSET S -> Int]
      /\ F[{}] = 0
      /\ \A s \in SUBSET S : s # {} => F[s] = f[First(s)] + F[Rest(s)]
  BY SumUnfolds
<1> HIDE DEF h
<1>2. /\ SumFunction(h) = H[S]
      /\ H \in [SUBSET S -> Int]
      /\ H[{}] = 0
      /\ \A s \in SUBSET S : s # {} => H[s] = h[First(s)] + H[Rest(s)]
  BY <1>0, SumUnfolds
<1> HIDE DEF F, H
<1>3. {} \in G
  BY <1>1, <1>2
<1>4. ASSUME NEW s \in SUBSET S, s # {}, Rest(s) \in G PROVE s \in G
  <2>1. First(s) \in s /\ Rest(s) \in SUBSET S
    BY <1>4, RestIsSmaller
  <2>2. k \in s <=> k = First(s) \/ k \in Rest(s)
    BY <2>1 DEF Rest
  <2>3. First(s) \notin Rest(s)
    BY DEF Rest
  <2>4. /\ F[s] = f[First(s)] + F[Rest(s)] /\ H[s] = h[First(s)] + H[Rest(s)]
        /\ f[First(s)] \in Int /\ F[Rest(s)] \in Int /\ H[Rest(s)] \in Int
    BY <1>1, <1>2, <1>4, <2>1
  <2>5. H[Rest(s)] = F[Rest(s)] + More(Rest(s))
    BY <1>4
  <2>6. CASE k = First(s)
    BY <1>0, <2>2, <2>3, <2>4, <2>5, <2>6
  <2>7. CASE k # First(s)
    <3>1. h[First(s)] = f[First(s)]
      BY <1>0, <2>1, <2>7
    <3> QED
      BY <2>2, <2>4, <2>5, <2>7, <3>1
  <2> QED
    BY <2>6, <2>7
<1>5. S \in G
  <2> HIDE DEF G
  <2>1. G \in SUBSET (SUBSET S)
    BY DEF G
  <2> QED
    BY <1>3, <1>4, <2>1, SubsetInduction
<1> QED
  BY <1>1, <1>2, <1>5 DEF h

\* A sum takes any of its terms out as it does the first.
LEMMA SumTakesAny ==
    ASSUME NEW S, IsFiniteSet(S), NEW f \in [S -> Int]
    PROVE  \A s \in SUBSET S : \A x \in s : SumOver(f, S)[s] = f[x] + SumOver(f, S)[s \ {x}]
<1> DEFINE F == SumOver(f, S)
           Good(t) == \A y \in t : F[t] = f[y] + F[t \ {y}]
           T == {Cardinality(t) : t \in {u \in SUBSET S : ~Good(u)}}
<1>1. /\ F \in [SUBSET S -> Int]
      /\ \A t \in SUBSET S : t # {} => F[t] = f[First(t)] + F[Rest(t)]
  BY SumUnfolds
<1> HIDE DEF F
<1>2. SUFFICES ASSUME NEW s \in SUBSET S, ~Good(s) PROVE FALSE
  BY DEF F
<1>3. T \in SUBSET Nat /\ T # {}
  BY <1>2, FS_Subset, FS_CardinalityType
<1>4. PICK n \in T : \A m \in T : n <= m
  BY <1>3, LeastNatural
<1>5. PICK t \in SUBSET S : ~Good(t) /\ n = Cardinality(t)
  BY <1>4
<1>6. PICK y \in t : F[t] # f[y] + F[t \ {y}]
  BY <1>5
<1> DEFINE z == First(t)
<1>7. IsFiniteSet(t) /\ n \in Nat
  BY <1>5, FS_Subset, FS_CardinalityType
<1>8. z \in t /\ F[t] = f[z] + F[t \ {z}]
  BY <1>1, <1>6 DEF First, Rest
<1> HIDE DEF z
<1>9. y # z
  BY <1>6, <1>8
<1>10. ASSUME NEW w \in t PROVE Good(t \ {w})
  <2>1. Cardinality(t \ {w}) = n - 1
    BY <1>5, <1>7, FS_RemoveElement
  <2>2. ~(n <= n - 1)
    BY <1>7
  <2>3. n - 1 \notin T
    BY <1>4, <2>2
  <2>4. t \ {w} \in SUBSET S
    OBVIOUS
  <2> QED
    BY <2>1, <2>3, <2>4
<1>11. /\ F[t \ {z}] = f[y] + F[(t \ {z}) \ {y}]
       /\ F[t \ {y}] = f[z] + F[(t \ {y}) \ {z}]
  BY <1>6, <1>8, <1>9, <1>10
<1>12. (t \ {z}) \ {y} = (t \ {y}) \ {z}
  OBVIOUS
<1>13. PICK v \in Int : F[t \ {z}] = f[y] + v /\ F[t \ {y}] = f[z] + v
  <2>1. (t \ {y}) \ {z} \in SUBSET S
    OBVIOUS
  <2>2. F[(t \ {y}) \ {z}] \in Int
    BY <1>1, <2>1
  <2> QED
    BY <1>11, <1>12, <2>2, Zenon
<1>14. f[y] \in Int /\ f[z] \in Int
  BY <1>6, <1>8
<1>15. f[z] + (f[y] + v) = f[y] + (f[z] + v)
  BY <1>14
<1> QED
  BY <1>6, <1>8, <1>13, <1>15, Zenon

\* A sum over part of the terms is that of the function on this part.
LEMMA SumOfPart ==
    ASSUME NEW S, IsFiniteSet(S), NEW f \in [S -> Int], NEW A \in SUBSET S
    PROVE  SumFunction([x \in A |-> f[x]]) = SumOver(f, S)[A]
<1> DEFINE h == [x \in A |-> f[x]]
           F == SumOver(f, S)
           H == SumOver(h, A)
           G == {s \in SUBSET A : H[s] = F[s]}
<1>1. /\ F[{}] = 0
      /\ \A s \in SUBSET S : s # {} => F[s] = f[First(s)] + F[Rest(s)]
  BY SumUnfolds
<1>2. IsFiniteSet(A) /\ h \in [A -> Int]
  BY FS_Subset
<1>3. \A x \in A : h[x] = f[x]
  OBVIOUS
<1> HIDE DEF h
<1>4. /\ SumFunction(h) = H[A]
      /\ H[{}] = 0
      /\ \A s \in SUBSET A : s # {} => H[s] = h[First(s)] + H[Rest(s)]
  BY <1>2, SumUnfolds
<1> HIDE DEF F, H
<1>5. {} \in G
  BY <1>1, <1>4
<1>6. ASSUME NEW s \in SUBSET A, s # {}, Rest(s) \in G PROVE s \in G
  <2>1. First(s) \in s
    BY <1>6 DEF First
  <2> QED
    BY <1>1, <1>3, <1>4, <1>6, <2>1
<1>7. A \in G
  <2> HIDE DEF G
  <2>1. G \in SUBSET (SUBSET A)
    BY DEF G
  <2> QED
    BY <1>2, <1>5, <1>6, <2>1, SubsetInduction
<1> QED
  BY <1>4, <1>7 DEF h, F

\* g has the values of f on A.
Part(g, A, f) == g \in [A -> Int] /\ \A x \in A : g[x] = f[x]

\* The terms in two parts.
LEMMA SumSplit ==
    ASSUME NEW S, IsFiniteSet(S), NEW f \in [S -> Int], NEW A \in SUBSET S,
           NEW g, Part(g, A, f), NEW h, Part(h, S \ A, f)
    PROVE  SumFunction(f) = SumFunction(g) + SumFunction(h)
<1> DEFINE F == SumOver(f, S)
           G == {s \in SUBSET S : F[s] = F[s \cap A] + F[s \ A]}
<1>1. /\ SumFunction(f) = F[S]
      /\ F \in [SUBSET S -> Int]
      /\ F[{}] = 0
      /\ \A s \in SUBSET S : s # {} => F[s] = f[First(s)] + F[Rest(s)]
  BY SumUnfolds
<1>2. \A s \in SUBSET S : \A x \in s : F[s] = f[x] + F[s \ {x}]
  BY SumTakesAny
<1>3. SumFunction(g) = F[A] /\ SumFunction(h) = F[S \ A]
  <2>1. g = [x \in A |-> f[x]] /\ h = [x \in S \ A |-> f[x]]
    BY DEF Part
  <2>2. SumFunction([x \in A |-> f[x]]) = F[A]
    BY SumOfPart
  <2>3. SumFunction([x \in S \ A |-> f[x]]) = F[S \ A]
    BY SumOfPart
  <2> QED
    BY <2>1, <2>2, <2>3
<1> HIDE DEF F
<1>4. {} \in G
  <2>1. {} \cap A = {} /\ {} \ A = {}
    OBVIOUS
  <2> QED
    BY <1>1, <2>1
<1>5. ASSUME NEW s \in SUBSET S, s # {}, Rest(s) \in G PROVE s \in G
  <2> DEFINE x == First(s)
             r == Rest(s)
  <2>1. x \in s /\ r = s \ {x} /\ F[s] = f[x] + F[r]
    BY <1>1, <1>5 DEF First, Rest
  <2>2. r \in SUBSET S /\ F[r] = F[r \cap A] + F[r \ A]
    BY <1>5
  <2> HIDE DEF x, r
  <2>3. PICK a \in Int, b \in Int : a = F[r \cap A] /\ b = F[r \ A] /\ f[x] \in Int
    <3>1. r \cap A \in SUBSET S /\ r \ A \in SUBSET S /\ f[x] \in Int
      BY <2>1, <2>2
    <3> QED
      BY <1>1, <3>1
  <2>6. f[x] + (a + b) = (f[x] + a) + b /\ f[x] + (a + b) = a + (f[x] + b)
    BY <2>3
  <2>4. CASE x \in A
    <3>1. x \in s \cap A /\ (s \cap A) \ {x} = r \cap A /\ s \ A = r \ A /\ s \cap A \in SUBSET S
      BY <2>1, <2>4
    <3>2. F[s \cap A] = f[x] + F[r \cap A]
      BY <1>2, <3>1
    <3>3. F[s] = F[s \cap A] + F[s \ A]
      BY <2>1, <2>2, <2>3, <2>6, <3>1, <3>2, Zenon
    <3> QED
      BY <3>3
  <2>5. CASE x \notin A
    <3>1. x \in s \ A /\ (s \ A) \ {x} = r \ A /\ s \cap A = r \cap A /\ s \ A \in SUBSET S
      BY <2>1, <2>5
    <3>2. F[s \ A] = f[x] + F[r \ A]
      BY <1>2, <3>1
    <3>3. F[s] = F[s \cap A] + F[s \ A]
      BY <2>1, <2>2, <2>3, <2>6, <3>1, <3>2, Zenon
    <3> QED
      BY <3>3
  <2> QED
    BY <2>4, <2>5
<1>6. S \in G
  <2> HIDE DEF G
  <2>1. G \in SUBSET (SUBSET S)
    BY DEF G
  <2> QED
    BY <1>4, <1>5, <2>1, SubsetInduction
<1>7. S \cap A = A
  OBVIOUS
<1> QED
  BY <1>1, <1>3, <1>6, <1>7

\* h has the values of f under other names.
Renamed(h, S, f, p) == h \in [S -> Int] /\ \A x \in S : h[x] = f[p[x]]

\* The order of the terms does not matter, nor their names.
LEMMA SumReindexed ==
    ASSUME NEW S, IsFiniteSet(S), NEW T, IsFiniteSet(T), NEW f \in [T -> Int],
           NEW p \in Bijection(S, T), NEW h, Renamed(h, S, f, p)
    PROVE  SumFunction(h) = SumFunction(f)
<1> DEFINE F == SumOver(f, T)
           H == SumOver(h, S)
           Image(s) == {p[x] : x \in s}
           G == {s \in SUBSET S : H[s] = F[Image(s)]}
<1>1. SumFunction(f) = F[T] /\ F[{}] = 0
  BY SumUnfolds
<1>2. \A s \in SUBSET T : \A x \in s : F[s] = f[x] + F[s \ {x}]
  BY SumTakesAny
<1>9. /\ p \in [S -> T]
      /\ \A x, y \in S : p[x] = p[y] => x = y
      /\ \A t \in T : \E x \in S : p[x] = t
  BY DEF Bijection, Injection, IsInjective, Surjection
<1>4. /\ SumFunction(h) = H[S]
      /\ H[{}] = 0
      /\ \A s \in SUBSET S : s # {} => H[s] = h[First(s)] + H[Rest(s)]
  <2>1. h \in [S -> Int]
    BY DEF Renamed
  <2> QED
    BY <2>1, SumUnfolds
<1> HIDE DEF F, H
<1>5. {} \in G
  <2>1. Image({}) = {}
    OBVIOUS
  <2> QED
    BY <1>1, <1>4, <2>1
<1>6. ASSUME NEW s \in SUBSET S, s # {}, Rest(s) \in G PROVE s \in G
  <2> DEFINE x == First(s)
             r == Rest(s)
  <2>1. x \in s /\ r = s \ {x} /\ H[s] = h[x] + H[r]
    BY <1>4, <1>6 DEF First, Rest
  <2>2. H[r] = F[Image(r)]
    BY <1>6
  <2> HIDE DEF x, r
  <2>3. Image(s) \in SUBSET T /\ p[x] \in Image(s)
    BY <1>9, <2>1
  <2>4. Image(s) \ {p[x]} = Image(r)
    BY <1>9, <2>1
  <2>5. F[Image(s)] = f[p[x]] + F[Image(r)]
    <3> HIDE DEF Image
    <3>1. F[Image(s)] = f[p[x]] + F[Image(s) \ {p[x]}]
      BY <1>2, <2>3
    <3> QED
      BY <2>4, <3>1
  <2>6. h[x] = f[p[x]]
    BY <2>1 DEF Renamed
  <2> QED
    BY <2>1, <2>2, <2>5, <2>6
<1>7. S \in G
  <2> HIDE DEF G
  <2>1. G \in SUBSET (SUBSET S)
    BY DEF G
  <2> QED
    BY <1>5, <1>6, <2>1, SubsetInduction
<1>8. Image(S) = T
  BY <1>9
<1> QED
  BY <1>1, <1>4, <1>7, <1>8

\* c is a with b after it.
Joined(c, a, m, b, n) ==
    /\ a \in [1..m -> Int] /\ b \in [1..n -> Int] /\ c \in [1..(m + n) -> Int]
    /\ \A k \in 1..m : c[k] = a[k]
    /\ \A k \in 1..n : c[m + k] = b[k]

\* The terms of two sequences, one after the other.
LEMMA SumOfTwo ==
    ASSUME NEW m \in Nat, NEW n \in Nat, NEW a, NEW b, NEW c, Joined(c, a, m, b, n)
    PROVE  SumFunction(c) = SumFunction(a) + SumFunction(b)
<1> DEFINE S == 1..(m + n)
           A == 1..m
           B == 1..n
           C == S \ A
           f == [x \in C |-> c[x]]
           p == [k \in B |-> m + k]
<1>1. A \in SUBSET S /\ C = (m + 1)..(m + n) /\ m + n \in Int /\ m + 1 \in Int
  OBVIOUS
<1>2. IsFiniteSet(S) /\ IsFiniteSet(B) /\ IsFiniteSet(C)
  <2>1. IsFiniteSet(S)
    BY <1>1, FS_Interval
  <2>2. IsFiniteSet(B)
    BY FS_Interval
  <2>3. IsFiniteSet(C)
    BY <1>1, <2>1, FS_Subset
  <2> QED
    BY <2>1, <2>2, <2>3
<1>4. p \in Bijection(B, C)
  <2>1. p \in [B -> C]
    BY <1>1
  <2>2. \A x, y \in B : p[x] = p[y] => x = y
    OBVIOUS
  <2>3. \A t \in C : \E k \in B : p[k] = t
    <3> SUFFICES ASSUME NEW t \in C PROVE \E k \in B : p[k] = t
      OBVIOUS
    <3>1. t - m \in B /\ p[t - m] = t
      BY <1>1
    <3> QED
      BY <3>1
  <2> HIDE DEF p, B, C
  <2> QED
    BY <2>1, <2>2, <2>3 DEF Bijection, Injection, IsInjective, Surjection
<1>5. f \in [C -> Int]
  BY DEF Joined
<1>6. Renamed(b, B, f, p)
  BY <1>1 DEF Renamed, Joined
<1>7. c \in [S -> Int] /\ Part(a, A, c) /\ Part(f, S \ A, c)
  BY DEF Part, Joined
<1> HIDE DEF S, A, B, C, f, p
<1>8. SumFunction(c) = SumFunction(a) + SumFunction(f)
  <2>1. IsFiniteSet(S) /\ A \in SUBSET S
    BY <1>1, <1>2
  <2> QED
    BY <1>7, <2>1, SumSplit
<1>9. SumFunction(b) = SumFunction(f)
  BY <1>2, <1>4, <1>5, <1>6, SumReindexed
<1> QED
  BY <1>8, <1>9

-----------------------------------------------------------------------------
(* Division                                                                *)

\* What \div and % are for a positive divisor.
LEMMA Division ==
    ASSUME NEW a \in Int, NEW b \in Nat \ {0}
    PROVE  /\ a \div b \in Int
           /\ a % b \in 0..(b - 1)
           /\ a = b * (a \div b) + (a % b)
OBVIOUS

\* Multiplication by a positive number keeps the order, both ways.
LEMMA Monotone ==
    ASSUME NEW b \in Nat \ {0}, NEW x \in Int, NEW y \in Int
    PROVE  /\ x <= y <=> b * x <= b * y
           /\ x < y <=> b * x < b * y
           /\ b * x \in Int
OBVIOUS

\* The ceiling is the only number whose multiples enclose the dividend.
LEMMA Ceiling ==
    ASSUME NEW a \in Int, NEW b \in Nat \ {0}
    PROVE  /\ ceil_div(a, b) \in Int
           /\ b * (ceil_div(a, b) - 1) < a
           /\ a <= b * ceil_div(a, b)
           /\ \A c \in Int : b * (c - 1) < a /\ a <= b * c => c = ceil_div(a, b)
<1> DEFINE q == a \div b
           r == a % b
           t == ceil_div(a, b)
<1>1. q \in Int /\ r \in 0..(b - 1) /\ a = b * q + r
  BY Division
<1>2. t = q + (IF r # 0 THEN 1 ELSE 0)
  BY DEF ceil_div
<1> HIDE DEF q, r, t
<1>3. t \in Int
  BY <1>1, <1>2
<1>4. /\ b * (q - 1) = b * q - b /\ b * (q + 1) = b * q + b /\ b * q \in Int
  BY <1>1, Distributes
<1>5. b * (t - 1) < a /\ a <= b * t
  <2>1. CASE r = 0
    BY <1>1, <1>2, <1>4, <2>1
  <2>2. CASE r # 0
    <3>1. t = q + 1 /\ t - 1 = q
      BY <1>1, <1>2, <2>2
    <3> QED
      BY <1>1, <1>4, <2>2, <3>1
  <2> QED
    BY <2>1, <2>2
<1>6. ASSUME NEW c \in Int, b * (c - 1) < a, a <= b * c PROVE c = t
  <2>1. b * (c - 1) \in Int /\ b * (t - 1) \in Int /\ b * c \in Int /\ b * t \in Int
    BY <1>3
  <2>2. b * (c - 1) < b * t /\ b * (t - 1) < b * c
    BY <1>5, <1>6, <2>1
  <2>3. c - 1 < t /\ t - 1 < c
    BY <1>3, <2>2, Monotone
  <2> QED
    BY <1>3, <2>3
<1> QED
  BY <1>3, <1>5, <1>6 DEF t

\* Rounding up keeps the order.
LEMMA CeilingMonotone ==
    ASSUME NEW a \in Int, NEW d \in Int, a <= d, NEW b \in Nat \ {0}
    PROVE  ceil_div(a, b) <= ceil_div(d, b)
<1> DEFINE s == ceil_div(a, b)
           t == ceil_div(d, b)
<1>1. s \in Int /\ t \in Int /\ b * (s - 1) < a /\ d <= b * t
  BY Ceiling
<1> HIDE DEF s, t
<1>2. b * (s - 1) < b * t
  BY <1>1
<1>3. s - 1 < t
  BY <1>1, <1>2, Monotone
<1> QED
  BY <1>1, <1>3 DEF s, t

\* A function on the positions is a sequence.
LEMMA IsSequence ==
    ASSUME NEW n \in Nat, NEW S, NEW s \in [1..n -> S]
    PROVE  s \in Seq(S) /\ Len(s) = n /\ DOMAIN s = 1..n
<1>1. s \in Seq(S)
  BY SeqDef
<1>2. DOMAIN s = 1..n /\ DOMAIN s = 1..Len(s) /\ Len(s) \in Nat
  BY <1>1, LenProperties
<1> QED
  BY <1>1, <1>2

-----------------------------------------------------------------------------
(* Filtering and sorting                                                   *)

\* A filter that keeps the end of a sequence leaves just that.
LEMMA FilteredTail ==
    ASSUME NEW n \in Nat, NEW w \in 0..n, NEW values
    PROVE  Filtered(values, (w + 1)..n) = [k \in 1..(n - w) |-> values[w + k]]
<1> DEFINE kept == (w + 1)..n
<1>1. Cardinality(kept) = n - w
  <2>1. w + 1 \in Int /\ n \in Int
    OBVIOUS
  <2>2. Cardinality(kept) = IF w + 1 > n THEN 0 ELSE n - (w + 1) + 1
    BY <2>1, FS_Interval
  <2> QED
    BY <2>2
<1>2. ASSUME NEW k \in kept PROVE Cardinality({j \in kept : j <= k}) = k - w
  <2>1. {j \in kept : j <= k} = (w + 1)..k
    OBVIOUS
  <2>2. Cardinality((w + 1)..k) = k - w
    BY FS_Interval
  <2> QED
    BY <2>1, <2>2
<1>3. ASSUME NEW i \in 1..(n - w)
      PROVE  (CHOOSE k \in kept : Cardinality({j \in kept : j <= k}) = i) = w + i
  <2>1. w + i \in kept /\ (w + i) - w = i
    OBVIOUS
  <2>2. \A k \in kept : k - w = i => k = w + i
    OBVIOUS
  <2> HIDE DEF kept
  <2> QED
    BY <1>2, <2>1, <2>2
<1> HIDE DEF kept
<1>4. Filtered(values, kept) = [k \in 1..(n - w) |-> values[w + k]]
  <2>1. Filtered(values, kept) =
          [i \in 1..(n - w) |->
              values[CHOOSE k \in kept : Cardinality({j \in kept : j <= k}) = i]]
    BY <1>1 DEF Filtered
  <2> DEFINE At(i) == CHOOSE k \in kept : Cardinality({j \in kept : j <= k}) = i
  <2>2. \A i \in 1..(n - w) : At(i) = w + i
    BY <1>3
  <2>3. Filtered(values, kept) = [i \in 1..(n - w) |-> values[At(i)]]
    BY <2>1
  <2> HIDE DEF At
  <2> QED
    BY <2>2, <2>3
<1> QED
  BY <1>4 DEF kept

\* The positions that RankOf counts.
UpTo(values, k) ==
    {j \in DOMAIN values : values[j] < values[k] \/ (values[j] = values[k] /\ j <= k)}

\* Every position has a rank of its own, and ranks follow the values.
LEMMA Ranks ==
    ASSUME NEW n \in Nat, NEW values \in [1..n -> Int]
    PROVE  /\ \A k \in 1..n : RankOf(values, k) \in 1..n
           /\ \A j, k \in 1..n : RankOf(values, j) = RankOf(values, k) => j = k
           /\ \A i \in 1..n : \E k \in 1..n : RankOf(values, k) = i
           /\ \A j, k \in 1..n : RankOf(values, j) <= RankOf(values, k) => values[j] <= values[k]
<1> DEFINE D == 1..n
           Rank(k) == RankOf(values, k)
<1>1. IsFiniteSet(D) /\ Cardinality(D) = n /\ DOMAIN values = D
  BY FS_Interval
<1>2. ASSUME NEW k \in D
      PROVE  /\ UpTo(values, k) \in SUBSET D /\ IsFiniteSet(UpTo(values, k))
             /\ Rank(k) = Cardinality(UpTo(values, k)) /\ Rank(k) \in D
             /\ k \in UpTo(values, k)
  <2>1. UpTo(values, k) \in SUBSET D /\ k \in UpTo(values, k)
    BY <1>1 DEF UpTo
  <2>2. IsFiniteSet(UpTo(values, k)) /\ Cardinality(UpTo(values, k)) <= n
    BY <1>1, <2>1, FS_Subset
  <2>3. Cardinality(UpTo(values, k)) \in Nat /\ Cardinality(UpTo(values, k)) # 0
    BY <2>1, <2>2, FS_CardinalityType, FS_EmptySet
  <2>4. Rank(k) = Cardinality(UpTo(values, k))
    BY DEF RankOf, UpTo
  <2> QED
    BY <2>1, <2>2, <2>3, <2>4
<1>3. ASSUME NEW j \in D, NEW k \in D, j # k, j \in UpTo(values, k) PROVE Rank(j) < Rank(k)
  <2>1. UpTo(values, j) \subseteq UpTo(values, k) /\ k \notin UpTo(values, j)
    BY <1>1, <1>3 DEF UpTo
  <2>2. /\ Cardinality(UpTo(values, j)) <= Cardinality(UpTo(values, k))
        /\ Cardinality(UpTo(values, j)) # Cardinality(UpTo(values, k))
    BY <1>2, <2>1, FS_Subset
  <2> QED
    BY <1>2, <2>2
<1>4. \A j, k \in D : j \in UpTo(values, k) \/ k \in UpTo(values, j)
  BY <1>1 DEF UpTo
<1>5. \A j, k \in D : Rank(j) = Rank(k) => j = k
  <2> SUFFICES ASSUME NEW j \in D, NEW k \in D, j # k PROVE Rank(j) # Rank(k)
    OBVIOUS
  <2>1. Rank(j) < Rank(k) \/ Rank(k) < Rank(j)
    BY <1>3, <1>4
  <2> QED
    BY <1>2, <2>1
<1>6. ASSUME NEW i \in D PROVE \E k \in D : Rank(k) = i
  <2> DEFINE r == [k \in D |-> Rank(k)]
  <2>1. r \in [D -> D]
    BY <1>2
  <2>2. r \in Injection(D, D)
    BY <1>5, <2>1 DEF Injection, IsInjective
  <2>3. r \in Surjection(D, D)
    BY <1>1, <2>2, FS_Injection
  <2> QED
    BY <2>3 DEF Surjection
<1>7. ASSUME NEW j \in D, NEW k \in D, Rank(j) <= Rank(k) PROVE values[j] <= values[k]
  <2> SUFFICES ASSUME values[k] < values[j] PROVE FALSE
    OBVIOUS
  <2>1. k \in UpTo(values, j) /\ k # j
    BY <1>1 DEF UpTo
  <2>2. Rank(k) < Rank(j)
    BY <1>3, <2>1
  <2> QED
    BY <1>2, <1>7, <2>2
<1> QED
  BY <1>2, <1>5, <1>6, <1>7

\* Sorting puts every value at its rank, and in order.
LEMMA SortedSorts ==
    ASSUME NEW n \in Nat, NEW values \in [1..n -> Int]
    PROVE  /\ Sorted(values) \in [1..n -> Int]
           /\ \A k \in 1..n : Sorted(values)[RankOf(values, k)] = values[k]
           /\ \A i, j \in 1..n : i <= j => Sorted(values)[i] <= Sorted(values)[j]
<1> DEFINE D == 1..n
           Rank(k) == RankOf(values, k)
           At(i) == CHOOSE k \in D : Rank(k) = i
<1>1. /\ \A k \in D : Rank(k) \in D
      /\ \A j, k \in D : Rank(j) = Rank(k) => j = k
      /\ \A i \in D : \E k \in D : Rank(k) = i
      /\ \A j, k \in D : Rank(j) <= Rank(k) => values[j] <= values[k]
  BY Ranks
<1>2. Sorted(values) = [i \in D |-> values[At(i)]]
  BY DEF Sorted
<1> HIDE DEF Rank
<1>3. \A i \in D : At(i) \in D /\ Rank(At(i)) = i
  BY <1>1
<1> HIDE DEF At
<1>4. Sorted(values) \in [D -> Int]
  BY <1>2, <1>3
<1>5. \A k \in D : Sorted(values)[Rank(k)] = values[k]
  BY <1>1, <1>2, <1>3
<1>6. ASSUME NEW i \in D, NEW j \in D, i <= j PROVE Sorted(values)[i] <= Sorted(values)[j]
  <2>1. /\ At(i) \in D /\ At(j) \in D /\ Rank(At(i)) = i /\ Rank(At(j)) = j
        /\ Sorted(values)[i] = values[At(i)] /\ Sorted(values)[j] = values[At(j)]
    BY <1>2, <1>3
  <2>2. Rank(At(i)) <= Rank(At(j))
    BY <1>6, <2>1
  <2>3. values[At(i)] <= values[At(j)]
    BY <1>1, <2>1, <2>2, Zenon
  <2> QED
    BY <2>1, <2>3
<1> QED
  BY <1>4, <1>5, <1>6 DEF Rank

\* Sorting does not change the sum.
LEMMA SumOfSorted ==
    ASSUME NEW n \in Nat, NEW values \in [1..n -> Int]
    PROVE  SumFunction(Sorted(values)) = SumFunction(values)
<1> DEFINE D == 1..n
           r == [k \in D |-> RankOf(values, k)]
           f == Sorted(values)
<1>1. /\ \A k \in D : RankOf(values, k) \in D
      /\ \A j, k \in D : RankOf(values, j) = RankOf(values, k) => j = k
      /\ \A i \in D : \E k \in D : RankOf(values, k) = i
  BY Ranks
<1>2. f \in [D -> Int] /\ \A k \in D : f[RankOf(values, k)] = values[k]
  BY SortedSorts
<1>3. r \in Bijection(D, D)
  BY <1>1 DEF Bijection, Injection, IsInjective, Surjection
<1>4. IsFiniteSet(D)
  BY FS_Interval
<1>5. Renamed(values, D, f, r)
  BY <1>2 DEF Renamed
<1> HIDE DEF D, r, f
<1>6. SumFunction(values) = SumFunction(f)
  BY <1>2, <1>3, <1>4, <1>5, SumReindexed
<1> QED
  BY <1>6 DEF f

-----------------------------------------------------------------------------
(* Means and percentiles                                                   *)

\* A sum of terms between two numbers.
LEMMA SumBounded ==
    ASSUME NEW S, IsFiniteSet(S), NEW f \in [S -> Int]
    PROVE  /\ SumFunction(f) \in Int
           /\ \A c \in Int : (\A x \in S : c <= f[x]) => c * Cardinality(S) <= SumFunction(f)
           /\ \A c \in Int : (\A x \in S : f[x] <= c) => SumFunction(f) <= c * Cardinality(S)
<1>1. Cardinality(S) \in Nat
  BY FS_CardinalityType
<1>2. SumFunction(f) \in Int
  <2>1. SumFunction(f) = SumOver(f, S)[S] /\ SumOver(f, S) \in [SUBSET S -> Int]
    BY SumUnfolds
  <2> QED
    BY <2>1
<1>3. ASSUME NEW c \in Int, \A x \in S : c <= f[x] PROVE c * Cardinality(S) <= SumFunction(f)
  <2>1. \A x \in S : 0 * f[x] + c <= f[x]
    BY <1>3
  <2>2. 0 * SumFunction(f) + c * Cardinality(S) <= SumFunction(f)
    BY <2>1, SumBelow
  <2> QED
    BY <1>1, <1>2, <2>2
<1>4. ASSUME NEW c \in Int, \A x \in S : f[x] <= c PROVE SumFunction(f) <= c * Cardinality(S)
  <2>1. \A x \in S : f[x] <= 0 * f[x] + c
    BY <1>4
  <2>2. SumFunction(f) <= 0 * SumFunction(f) + c * Cardinality(S)
    BY <2>1, SumAbove
  <2> QED
    BY <1>1, <1>2, <2>2
<1> QED
  BY <1>2, <1>3, <1>4

\* The integer mean of naturals, and that it fits when they do.
LEMMA MeanOf ==
    ASSUME NEW n \in Nat \ {0}, NEW values \in [1..n -> Nat]
    PROVE  /\ SumFunction(values) \in Nat
           /\ SumFunction(values) \div n \in Nat
           /\ n * (SumFunction(values) \div n) <= SumFunction(values)
           /\ SumFunction(values) < n * ((SumFunction(values) \div n) + 1)
           /\ mean_u64(values) = AsU64(SumFunction(values) \div n)
           /\ (\A k \in 1..n : values[k] <= U64Max) =>
                 mean_u64(values) = {SumFunction(values) \div n}
<1> DEFINE sum == SumFunction(values)
           q == sum \div n
           r == sum % n
<1>1. IsFiniteSet(1..n) /\ Cardinality(1..n) = n
  BY FS_Interval
<1>2. /\ sum \in Nat /\ sum \in Int
      /\ \A c \in Int : (\A k \in 1..n : values[k] <= c) => sum <= c * n
  <2>1. values \in [1..n -> Int] /\ \A k \in 1..n : 0 <= values[k]
    OBVIOUS
  <2>2. /\ sum \in Int
        /\ \A c \in Int : (\A k \in 1..n : c <= values[k]) => c * Cardinality(1..n) <= sum
        /\ \A c \in Int : (\A k \in 1..n : values[k] <= c) => sum <= c * Cardinality(1..n)
    BY <1>1, <2>1, SumBounded
  <2> HIDE DEF sum
  <2>3. 0 * Cardinality(1..n) <= sum
    BY <2>1, <2>2
  <2>4. 0 <= sum
    BY <1>1, <2>3
  <2>5. ASSUME NEW c \in Int, \A k \in 1..n : values[k] <= c PROVE sum <= c * n
    <3>1. sum <= c * Cardinality(1..n)
      BY <2>2, <2>5
    <3> QED
      BY <1>1, <3>1
  <2> QED
    BY <2>2, <2>4, <2>5
<1>3. Len(values) = n /\ values # <<>>
  <2>1. Len(values) = n
    BY IsSequence
  <2> QED
    BY <2>1
<1>4. mean_u64(values) = AsU64(q)
  BY <1>3 DEF mean_u64
<1> HIDE DEF sum
<1>5. q \in Int /\ r \in 0..(n - 1) /\ sum = n * q + r
  BY <1>2, Division
<1> HIDE DEF q, r
<1>6. n * (q + 1) = n * q + n /\ n * q \in Int
  BY <1>5, Distributes
<1>7. n * q <= sum /\ sum < n * (q + 1)
  BY <1>2, <1>5, <1>6
<1>8. q \in Nat
  <2>0. PICK p \in Int : p = n * (q + 1)
    BY <1>5, <1>6
  <2>1. n * 0 < n * (q + 1)
    BY <1>2, <1>7, <2>0
  <2>2. 0 < q + 1
    BY <1>5, <2>1, Monotone
  <2> QED
    BY <1>5, <2>2
<1>9. ASSUME \A k \in 1..n : values[k] <= U64Max PROVE AsU64(q) = {q}
  <2>1. U64Max \in Nat
    BY WidthAssumption
  <2>2. sum <= U64Max * n
    BY <1>2, <1>9, <2>1
  <2>3. n * q <= n * U64Max
    BY <1>2, <1>6, <1>7, <2>1, <2>2
  <2>4. q <= U64Max
    BY <1>5, <2>1, <2>3, Monotone
  <2> QED
    BY <1>8, <2>1, <2>4 DEF AsU64
<1> QED
  BY <1>2, <1>4, <1>7, <1>8, <1>9 DEF sum, q

\* How many values do not exceed v.
Covered(values, v) == Cardinality({k \in DOMAIN values : values[k] <= v})

\* The value at the nearest rank is the least that covers so many percent of
\* the values.
THEOREM NearestRank ==
    ASSUME NEW n \in Nat \ {0}, NEW values \in [1..n -> Int], NEW percentile \in 1..100
    PROVE  /\ nearest_rank(Sorted(values), percentile) \in Range(values)
           /\ 100 * Covered(values, nearest_rank(Sorted(values), percentile)) >= percentile * n
           /\ \A w \in Int : 100 * Covered(values, w) >= percentile * n
                 => nearest_rank(Sorted(values), percentile) <= w
<1> DEFINE D == 1..n
           m == percentile * n
           r == ceil_div(m, 100)
           sorted == Sorted(values)
           v == sorted[r]
           Rank(k) == RankOf(values, k)
<1>1. m \in Nat /\ 1 <= m /\ m <= 100 * n
  <2>1. n * 1 <= n * percentile /\ n * percentile <= n * 100
    BY Monotone
  <2> QED
    BY <2>1
<1>2. r \in Int /\ 100 * (r - 1) < m /\ m <= 100 * r
  <2>1. m \in Int /\ 100 \in Nat \ {0}
    BY <1>1
  <2> HIDE DEF m
  <2> QED
    BY <2>1, Ceiling
<1> HIDE DEF m, r
<1>3. r \in D
  BY <1>1, <1>2
<1>4. /\ sorted \in [D -> Int]
      /\ \A k \in D : sorted[Rank(k)] = values[k]
      /\ \A i, j \in D : i <= j => sorted[i] <= sorted[j]
  BY SortedSorts
<1>5. /\ \A k \in D : Rank(k) \in D
      /\ \A j, k \in D : Rank(j) = Rank(k) => j = k
      /\ \A i \in D : \E k \in D : Rank(k) = i
  BY Ranks
<1>6. nearest_rank(sorted, percentile) = v
  <2>1. Len(sorted) = n
    BY <1>4, IsSequence
  <2>2. GreaterOf(r, 1) = r
    BY <1>3 DEF GreaterOf
  <2>3. r = ceil_div(percentile * Len(sorted), 100)
    BY <2>1 DEF r, m
  <2> HIDE DEF sorted
  <2> QED
    BY <2>2, <2>3, Zenon DEF nearest_rank
<1> HIDE DEF sorted, Rank
<1>7. v \in Int /\ v \in Range(values)
  <2>1. PICK k \in D : Rank(k) = r
    BY <1>3, <1>5
  <2> QED
    BY <1>3, <1>4, <2>1 DEF Range
<1> HIDE DEF v
<1>8. r <= Covered(values, v) /\ Covered(values, v) \in Nat
  <2> DEFINE A == {k \in D : values[k] <= v}
             g == [k \in A |-> IF Rank(k) <= r THEN Rank(k) ELSE r]
  <2>1. IsFiniteSet(A) /\ Cardinality(A) = Covered(values, v) /\ Cardinality(A) \in Nat
    <3>1. IsFiniteSet(D)
      BY FS_Interval
    <3>2. IsFiniteSet(A) /\ A = {k \in DOMAIN values : values[k] <= v}
      BY <3>1, FS_Subset
    <3> QED
      BY <3>2, FS_CardinalityType DEF Covered
  <2>2. g \in Surjection(A, 1..r)
    <3>1. g \in [A -> 1..r]
      BY <1>3, <1>5
    <3>2. ASSUME NEW i \in 1..r PROVE \E k \in A : g[k] = i
      <4>0. i \in D
        BY <1>3
      <4>1. PICK k \in D : Rank(k) = i
        BY <1>5, <4>0
      <4>2. sorted[i] = values[k] /\ i \in D /\ i <= r
        BY <1>3, <1>4, <4>1
      <4>3. sorted[i] <= sorted[r]
        BY <1>3, <1>4, <4>2
      <4>4. k \in A
        BY <4>2, <4>3 DEF v
      <4>5. g[k] = IF Rank(k) <= r THEN Rank(k) ELSE r
        BY <4>4
      <4> QED
        BY <4>1, <4>2, <4>4, <4>5
    <3> HIDE DEF g, A
    <3> QED
      BY <3>1, <3>2 DEF Surjection
  <2>3. Cardinality(1..r) <= Cardinality(A)
    BY <2>1, <2>2, FS_Surjection
  <2>4. Cardinality(1..r) = r
    BY <1>3, FS_Interval
  <2> QED
    BY <2>1, <2>3, <2>4
<1>9. ASSUME NEW w \in Int, 100 * Covered(values, w) >= m PROVE v <= w
  <2> SUFFICES ASSUME w < v PROVE FALSE
    BY <1>7
  <2> DEFINE A == {k \in D : values[k] <= w}
             g == [k \in A |-> Rank(k)]
  <2>1. IsFiniteSet(A) /\ Cardinality(A) = Covered(values, w) /\ Cardinality(A) \in Nat
    <3>1. IsFiniteSet(D)
      BY FS_Interval
    <3>2. IsFiniteSet(A) /\ A = {k \in DOMAIN values : values[k] <= w}
      BY <3>1, FS_Subset
    <3> QED
      BY <3>2, FS_CardinalityType DEF Covered
  <2>2. ASSUME NEW k \in A PROVE Rank(k) \in 1..(r - 1)
    <3>1. k \in D /\ values[k] <= w
      OBVIOUS
    <3>2. Rank(k) \in D /\ sorted[Rank(k)] = values[k] /\ values[k] \in Int
      BY <1>4, <1>5, <3>1
    <3>3. ~(r <= Rank(k))
      <4> SUFFICES ASSUME r <= Rank(k) PROVE FALSE
        OBVIOUS
      <4>1. v <= sorted[Rank(k)]
        BY <1>3, <1>4, <3>2 DEF v
      <4> QED
        BY <1>7, <3>1, <3>2, <4>1
    <3> QED
      BY <1>3, <3>2, <3>3
  <2>3. g \in Injection(A, 1..(r - 1))
    <3>1. g \in [A -> 1..(r - 1)]
      BY <2>2
    <3>2. \A j, k \in A : g[j] = g[k] => j = k
      BY <1>5
    <3> HIDE DEF g, A
    <3> QED
      BY <3>1, <3>2 DEF Injection, IsInjective
  <2>4. IsFiniteSet(1..(r - 1)) /\ Cardinality(1..(r - 1)) = r - 1
    <3>1. r - 1 \in Nat /\ r - 1 \in Int
      BY <1>3
    <3> QED
      BY <3>1, FS_Interval
  <2>5. Cardinality(A) <= r - 1
    BY <2>3, <2>4, FS_Injection
  <2>6. Covered(values, w) \in Int /\ Covered(values, w) <= r - 1
    BY <2>1, <2>5
  <2>7. 100 * Covered(values, w) <= 100 * (r - 1)
    BY <1>2, <2>6
  <2> QED
    BY <1>1, <1>2, <1>9, <2>6, <2>7
<1>10. 100 * Covered(values, v) >= m
  BY <1>1, <1>2, <1>8
<1> QED
  BY <1>6, <1>7, <1>9, <1>10 DEF m, sorted

\* describe_micros: the mean and the two percentiles, all three if they fit.
Description(values) ==
    [mean |-> SumFunction(values) \div Len(values),
     p50 |-> nearest_rank(Sorted(values), 50),
     p95 |-> nearest_rank(Sorted(values), 95)]

LEMMA Described ==
    ASSUME NEW n \in Nat \ {0}, NEW values \in [1..n -> Nat]
    PROVE  /\ \A d \in describe_micros(values) : d = Description(values)
           /\ (\A k \in 1..n : values[k] <= U64Max) =>
                 describe_micros(values) = {Description(values)}
<1> DEFINE s == Sorted(values)
           q == SumFunction(values) \div n
<1>1. /\ values \in [1..n -> Int]
      /\ Len(values) = n
  BY IsSequence
<1>2. /\ s \in [1..n -> Int]
      /\ \A k \in 1..n : s[RankOf(values, k)] = values[k]
      /\ SumFunction(s) = SumFunction(values)
  BY <1>1, SortedSorts, SumOfSorted
<1>3. \A i \in 1..n : \E k \in 1..n : RankOf(values, k) = i
  BY <1>1, Ranks
<1> HIDE DEF s
<1>4. ASSUME NEW i \in 1..n PROVE \E k \in 1..n : s[i] = values[k]
  BY <1>2, <1>3
<1>5. s \in [1..n -> Nat]
  BY <1>2, <1>4
<1>6. /\ mean_u64(s) = AsU64(SumFunction(s) \div n)
      /\ (\A k \in 1..n : s[k] <= U64Max) => mean_u64(s) = {SumFunction(s) \div n}
  BY <1>5, MeanOf
<1>7. /\ mean_u64(s) \subseteq {q}
      /\ (\A k \in 1..n : values[k] <= U64Max) => mean_u64(s) = {q}
  <2>1. mean_u64(s) = AsU64(q)
    BY <1>2, <1>6
  <2>2. (\A k \in 1..n : values[k] <= U64Max) => \A k \in 1..n : s[k] <= U64Max
    BY <1>4
  <2>3. (\A k \in 1..n : s[k] <= U64Max) => mean_u64(s) = {q}
    BY <1>2, <1>6
  <2>4. AsU64(q) \subseteq {q}
    BY DEF AsU64
  <2> QED
    BY <2>1, <2>2, <2>3, <2>4
<1> DEFINE Of(mean) == [mean |-> mean, p50 |-> nearest_rank(s, 50), p95 |-> nearest_rank(s, 95)]
<1>8. describe_micros(values) = {Of(mean) : mean \in mean_u64(s)}
  BY DEF describe_micros, s
<1>9. Description(values) = Of(q)
  BY <1>1 DEF Description, s
<1> HIDE DEF Of, q
<1> QED
  BY <1>7, <1>8, <1>9

=============================================================================
