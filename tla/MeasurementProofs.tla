-------------------------- MODULE MeasurementProofs --------------------------
(***************************************************************************)
(* Theorems about Measurement for every plan, unit, clock reading and      *)
(* width: what a runtime rounds by its own rules no judge refuses, the     *)
(* bounds of an aggregate are tight, and accounting is converted exactly   *)
(* or not at all.                                                          *)
(***************************************************************************)
EXTENDS Measurement, StatisticsProofs

-----------------------------------------------------------------------------
(* Rounding                                                                *)

\* The microseconds of a positive time.
LEMMA Micros ==
    ASSUME NEW nanos \in Nat \ {0}
    PROVE  /\ ceil_micros(nanos) \in Nat \ {0}
           /\ Unit * (ceil_micros(nanos) - 1) < nanos
           /\ nanos <= Unit * ceil_micros(nanos)
           /\ \A c \in Nat \ {0} : Unit * (c - 1) < nanos /\ nanos <= Unit * c
                 => c = ceil_micros(nanos)
<1> DEFINE c == ceil_div(nanos, Unit)
<1>1. Unit \in Nat \ {0}
  BY MeasurementAssumption
<1>2. /\ c \in Int /\ Unit * (c - 1) < nanos /\ nanos <= Unit * c
      /\ \A d \in Int : Unit * (d - 1) < nanos /\ nanos <= Unit * d => d = c
  BY <1>1, Ceiling
<1>3. ceil_micros(nanos) = GreaterOf(c, 1)
  BY DEF ceil_micros
<1> HIDE DEF c
<1>4. Unit * 0 < Unit * c
  BY <1>1, <1>2
<1>5. 0 < c
  BY <1>1, <1>2, <1>4, Monotone
<1>6. ceil_micros(nanos) = c
  BY <1>2, <1>3, <1>5 DEF GreaterOf
<1> QED
  BY <1>2, <1>5, <1>6

\* A time that is not longer has no more microseconds.
LEMMA MicrosMonotone ==
    ASSUME NEW a \in Nat, NEW b \in Nat, a <= b
    PROVE  ceil_micros(a) <= ceil_micros(b) /\ ceil_micros(a) \in Nat \ {0}
<1>1. Unit \in Nat \ {0} /\ a \in Int /\ b \in Int
  BY MeasurementAssumption
<1>2. ceil_div(a, Unit) <= ceil_div(b, Unit)
  BY <1>1, CeilingMonotone
<1>3. \A c \in Int : ceil_div(c, Unit) \in Int
  BY <1>1, Ceiling
<1>4. ceil_div(a, Unit) \in Int /\ ceil_div(b, Unit) \in Int
  BY <1>1, <1>3
<1> QED
  BY <1>2, <1>4 DEF ceil_micros, GreaterOf

-----------------------------------------------------------------------------
(* The bounds of a rounded mean                                            *)

\* Positive values that fit, one per request.
Values(values) ==
    /\ values \in [1..plan.requests -> Nat]
    /\ \A k \in 1..plan.requests : 0 < values[k] /\ values[k] <= U64Max

\* Raw times that round up to the values.
RoundTo(nanos, values) ==
    /\ nanos \in [1..plan.requests -> Nat]
    /\ \A k \in 1..plan.requests :
          Unit * (values[k] - 1) < nanos[k] /\ nanos[k] <= Unit * values[k]

Lowest(values) == (SumFunction(values) - plan.requests) * Unit + plan.requests

Highest(values) == SumFunction(values) * Unit

LowestMean(values) == ceil_div(Lowest(values), plan.requests * Unit)

HighestMean(values) == ceil_div(Highest(values), plan.requests * Unit)

\* The requests of a plan, as a set of positions.
LEMMA Requests ==
    ASSUME plan \in PlanSet
    PROVE  /\ plan.requests \in Nat \ {0}
           /\ Unit \in Nat \ {0}
           /\ plan.requests * Unit \in Nat \ {0}
           /\ IsFiniteSet(1..plan.requests)
           /\ Cardinality(1..plan.requests) = plan.requests
<1>1. plan.requests \in Nat \ {0} /\ Unit \in Nat \ {0}
  BY MeasurementAssumption DEF PlanSet
<1>2. plan.requests * 0 < plan.requests * Unit /\ plan.requests * Unit \in Int
  BY <1>1, Monotone
<1>3. plan.requests * Unit \in Nat \ {0}
  BY <1>1, <1>2
<1>4. \A n \in Nat : IsFiniteSet(1..n) /\ Cardinality(1..n) = n
  BY FS_Interval
<1> QED
  BY <1>1, <1>3, <1>4

\* The sums of the values and of times that round to them.
LEMMA SumsOfRounded ==
    ASSUME plan \in PlanSet, NEW values, Values(values)
    PROVE  /\ SumFunction(values) \in Int
           /\ plan.requests <= SumFunction(values)
           /\ SumFunction(values) <= U64Max * plan.requests
           /\ \A nanos : RoundTo(nanos, values) =>
                 /\ SumFunction(nanos) \in Int
                 /\ Lowest(values) <= SumFunction(nanos)
                 /\ SumFunction(nanos) <= Highest(values)
<1> DEFINE n == plan.requests
           R == SumFunction(values)
<1>1. n \in Nat \ {0} /\ Unit \in Nat \ {0} /\ IsFiniteSet(1..n) /\ Cardinality(1..n) = n
  BY Requests
<1>2. U64Max \in Nat /\ U64Max \in Int /\ 0 \in Int /\ 1 \in Int /\ Unit \in Int /\ 1 - Unit \in Int
  BY <1>1, WidthAssumption
<1>3. values \in [1..n -> Int] /\ \A k \in 1..n : 0 < values[k] /\ values[k] <= U64Max
  BY DEF Values
<1> HIDE DEF n
<1>4. \A f \in [1..n -> Int] : SumFunction(f) \in Int
  <2> TAKE f \in [1..n -> Int]
  <2>1. SumFunction(f) = SumOver(f, 1..n)[1..n] /\ SumOver(f, 1..n) \in [SUBSET (1..n) -> Int]
    BY <1>1, SumUnfolds
  <2> QED
    BY <2>1
<1>5. R \in Int
  BY <1>3, <1>4
<1> HIDE DEF R
<1>6. n <= R
  <2>1. \A k \in 1..n : 0 * values[k] + 1 <= values[k]
    BY <1>3
  <2>2. 0 * SumFunction(values) + 1 * Cardinality(1..n) <= SumFunction(values)
    BY <1>1, <1>2, <1>3, <2>1, SumBelow, Zenon
  <2> QED
    BY <1>1, <1>5, <2>2 DEF R
<1>7. R <= U64Max * n
  <2>1. \A k \in 1..n : values[k] <= 0 * values[k] + U64Max
    BY <1>2, <1>3
  <2>2. SumFunction(values) <= 0 * SumFunction(values) + U64Max * Cardinality(1..n)
    BY <1>1, <1>2, <1>3, <2>1, SumAbove, Zenon
  <2> QED
    BY <1>1, <1>2, <1>5, <2>2 DEF R
<1>8. ASSUME NEW nanos, RoundTo(nanos, values)
      PROVE  /\ SumFunction(nanos) \in Int
             /\ (R - n) * Unit + n <= SumFunction(nanos)
             /\ SumFunction(nanos) <= R * Unit
  <2>1. nanos \in [1..n -> Int]
        /\ \A k \in 1..n : Unit * (values[k] - 1) < nanos[k] /\ nanos[k] <= Unit * values[k]
    BY <1>8 DEF RoundTo, n
  <2>2. SumFunction(nanos) \in Int
    BY <1>4, <2>1
  <2>3. \A k \in 1..n : Unit * values[k] + (1 - Unit) <= nanos[k]
    <3> TAKE k \in 1..n
    <3>1. Unit * (values[k] - 1) = Unit * values[k] - Unit /\ Unit * values[k] \in Int
      BY <1>1, <1>3, Distributes
    <3> QED
      BY <1>1, <1>3, <2>1, <3>1
  <2>4. Unit * SumFunction(values) + (1 - Unit) * Cardinality(1..n) <= SumFunction(nanos)
    BY <1>1, <1>2, <1>3, <2>1, <2>3, SumBelow, Zenon
  <2>5. \A k \in 1..n : nanos[k] <= Unit * values[k] + 0
    BY <1>1, <1>3, <2>1
  <2>6. SumFunction(nanos) <= Unit * SumFunction(values) + 0 * Cardinality(1..n)
    BY <1>1, <1>2, <1>3, <2>1, <2>5, SumAbove, Zenon
  <2>7. /\ (R - n) * Unit + n = Unit * R + (1 - Unit) * n
        /\ R * Unit = Unit * R
        /\ Unit * R \in Int
    BY <1>1, <1>5
  <2> QED
    BY <1>1, <1>5, <2>2, <2>4, <2>6, <2>7 DEF R
<1> QED
  BY <1>5, <1>6, <1>7, <1>8 DEF R, n, Lowest, Highest

\* rounded_request_mean_bounds of values that fit: one pair, the ceilings of
\* the least and of the greatest mean.
LEMMA BoundsOfMean ==
    ASSUME plan \in PlanSet, NEW values, Values(values)
    PROVE  /\ rounded_request_mean_bounds(values, Unit)
                = {<<LowestMean(values), HighestMean(values)>>}
           /\ LowestMean(values) \in Nat \ {0}
           /\ HighestMean(values) \in Nat
           /\ LowestMean(values) <= HighestMean(values)
           /\ Lowest(values) \in Int /\ Highest(values) \in Int
           /\ Lowest(values) <= Highest(values)
<1> DEFINE n == plan.requests
           N == plan.requests * Unit
           R == SumFunction(values)
           lo == LowestMean(values)
           hi == HighestMean(values)
<1>1. n \in Nat \ {0} /\ Unit \in Nat \ {0} /\ N \in Nat \ {0} /\ N = n * Unit
  BY Requests
<1>2. R \in Int /\ n <= R /\ R <= U64Max * n /\ U64Max \in Nat
  BY SumsOfRounded, WidthAssumption
<1>3. Len(values) = n
  BY <1>1, IsSequence DEF Values
<1>4. Lowest(values) = (R - n) * Unit + n /\ Highest(values) = R * Unit
  BY DEF Lowest, Highest
<1>5. lo = ceil_div(Lowest(values), N) /\ hi = ceil_div(Highest(values), N)
  BY DEF LowestMean, HighestMean
<1> HIDE DEF n, N, R, lo, hi
<1>6. /\ (R - n) * Unit = R * Unit - n * Unit
      /\ R * Unit \in Int /\ n * Unit \in Int /\ (R - n) * Unit \in Int
  BY <1>1, <1>2
<1>7. Unit * 0 <= Unit * (R - n) /\ n * 1 <= n * Unit
  BY <1>1, <1>2, Monotone
<1>8. /\ Lowest(values) \in Int /\ Highest(values) \in Int
      /\ 0 < Lowest(values) /\ Lowest(values) <= Highest(values)
  BY <1>1, <1>2, <1>4, <1>6, <1>7
<1>9. lo \in Int /\ hi \in Int /\ lo <= hi
  BY <1>1, <1>5, <1>8, Ceiling, CeilingMonotone
<1>10. 0 < lo
  <2>1. Lowest(values) <= N * lo
    BY <1>1, <1>5, <1>8, Ceiling
  <2>2. N * 0 < N * lo
    BY <1>1, <1>8, <1>9, <2>1
  <2> QED
    BY <1>1, <1>9, <2>2, Monotone
<1>11. hi <= U64Max
  <2>1. N * (hi - 1) < Highest(values)
    BY <1>1, <1>5, <1>8, Ceiling
  <2>2. Unit * R <= Unit * (U64Max * n)
    BY <1>1, <1>2, Monotone
  <2>3. Unit * (U64Max * n) = N * U64Max /\ N * U64Max \in Int /\ N * (hi - 1) \in Int
    BY <1>1, <1>2, <1>9
  <2>4. N * (hi - 1) < N * U64Max
    BY <1>1, <1>2, <1>4, <1>6, <2>1, <2>2, <2>3
  <2>5. hi - 1 < U64Max
    BY <1>1, <1>2, <1>9, <2>4, Monotone
  <2> QED
    BY <1>2, <1>9, <2>5
<1>12. AsU64(lo) = {lo} /\ AsU64(hi) = {hi}
  BY <1>2, <1>9, <1>10, <1>11 DEF AsU64
<1>13. rounded_request_mean_bounds(values, Unit) = {<<a, b>> : a \in AsU64(lo), b \in AsU64(hi)}
  BY <1>1, <1>2, <1>3, <1>4, <1>5 DEF rounded_request_mean_bounds, R
<1>14. rounded_request_mean_bounds(values, Unit) = {<<lo, hi>>}
  BY <1>12, <1>13
<1> QED
  BY <1>8, <1>9, <1>10, <1>14 DEF lo, hi

\* ceil_mean_micros of raw times that round to the values is within them.
LEMMA MeanWithinBounds ==
    ASSUME plan \in PlanSet, NEW values, Values(values), NEW nanos, RoundTo(nanos, values)
    PROVE  /\ LlamaMean(nanos) = ceil_div(SumFunction(nanos), plan.requests * Unit)
           /\ LlamaMean(nanos) \in LowestMean(values)..HighestMean(values)
<1> DEFINE N == plan.requests * Unit
           t == ceil_div(SumFunction(nanos), N)
<1>1. N \in Nat \ {0}
  BY Requests
<1>2. /\ SumFunction(nanos) \in Int
      /\ Lowest(values) <= SumFunction(nanos)
      /\ SumFunction(nanos) <= Highest(values)
  BY SumsOfRounded
<1>3. /\ LowestMean(values) \in Nat \ {0} /\ HighestMean(values) \in Nat
      /\ Lowest(values) \in Int /\ Highest(values) \in Int
  BY BoundsOfMean
<1>4. t \in Int
  BY <1>1, <1>2, Ceiling
<1>5. LowestMean(values) <= t /\ t <= HighestMean(values)
  BY <1>1, <1>2, <1>3, CeilingMonotone DEF LowestMean, HighestMean
<1>6. LlamaMean(nanos) = GreaterOf(t, 1)
  BY DEF LlamaMean
<1> HIDE DEF t
<1>7. LlamaMean(nanos) = t
  BY <1>3, <1>4, <1>5, <1>6 DEF GreaterOf
<1> QED
  BY <1>3, <1>4, <1>5, <1>7 DEF t

\* Every sum between the least and the greatest is that of times which round to
\* the values: from one that is not the greatest, some time can grow by one.
LEMMA SumReached ==
    ASSUME plan \in PlanSet, NEW values, Values(values),
           NEW sum \in Lowest(values)..Highest(values)
    PROVE  \E nanos : RoundTo(nanos, values) /\ SumFunction(nanos) = sum
<1> DEFINE n == plan.requests
           T == {s \in Nat : /\ Lowest(values) <= s /\ s <= Highest(values)
                             /\ ~\E f : RoundTo(f, values) /\ SumFunction(f) = s}
<1>1. n \in Nat \ {0} /\ Unit \in Nat \ {0} /\ IsFiniteSet(1..n) /\ Cardinality(1..n) = n
  BY Requests
<1>2. values \in [1..n -> Int] /\ \A k \in 1..n : values[k] \in Nat \ {0}
  BY DEF Values
<1>3. /\ SumFunction(values) \in Int /\ n <= SumFunction(values)
      /\ \A f : RoundTo(f, values) => SumFunction(f) \in Int
  BY SumsOfRounded
<1>4. Lowest(values) \in Int /\ Highest(values) \in Int /\ Lowest(values) \in Nat
  <2>1. Unit * 0 <= Unit * (SumFunction(values) - n)
    BY <1>1, <1>3, Monotone
  <2>2. Unit * (SumFunction(values) - n) = (SumFunction(values) - n) * Unit
    BY <1>1, <1>3
  <2> QED
    BY <1>1, <1>3, <2>1, <2>2 DEF Lowest, Highest
<1>5. 0 \in Int /\ Unit \in Int /\ 1 - Unit \in Int
  BY <1>1
<1>6. ASSUME T # {} PROVE FALSE
  <2>1. T \in SUBSET Nat
    OBVIOUS
  <2>2. PICK s \in T : \A t \in T : s <= t
    BY <1>6, <2>1, LeastNatural
  <2>3. s \in Nat /\ Lowest(values) <= s /\ s <= Highest(values)
    BY <2>2
  <2>4. CASE s = Lowest(values)
    <3> DEFINE f == [k \in 1..n |-> Unit * values[k] + (1 - Unit)]
    <3>1. ASSUME NEW k \in 1..n
          PROVE  /\ Unit * (values[k] - 1) = Unit * values[k] - Unit
                 /\ Unit * values[k] \in Int
                 /\ Unit <= Unit * values[k]
      <4>1. values[k] \in Int /\ 1 <= values[k] /\ 1 \in Int
        BY <1>2
      <4>2. Unit * 1 <= Unit * values[k]
        BY <1>1, <4>1, Monotone
      <4> QED
        BY <1>1, <4>1, <4>2
    <3>2. f \in [1..n -> Nat]
      BY <1>1, <1>2, <3>1
    <3>3. RoundTo(f, values)
      BY <1>1, <1>2, <3>1, <3>2 DEF RoundTo
    <3>4. f \in [1..n -> Int]
      BY <3>2
    <3>5. /\ \A k \in 1..n : Unit * values[k] + (1 - Unit) <= f[k]
          /\ \A k \in 1..n : f[k] <= Unit * values[k] + (1 - Unit)
      BY <1>1, <3>1
    <3> HIDE DEF f, n
    <3>6. Unit * SumFunction(values) + (1 - Unit) * Cardinality(1..n) <= SumFunction(f)
      BY <1>1, <1>2, <1>5, <3>4, <3>5, SumBelow, Zenon
    <3>7. SumFunction(f) <= Unit * SumFunction(values) + (1 - Unit) * Cardinality(1..n)
      BY <1>1, <1>2, <1>5, <3>4, <3>5, SumAbove, Zenon
    <3>8. Unit * SumFunction(values) + (1 - Unit) * n = (SumFunction(values) - n) * Unit + n
      BY <1>1, <1>3
    <3>9. SumFunction(f) = Lowest(values)
      <4>1. SumFunction(f) \in Int
        BY <1>3, <3>3
      <4>2. Unit * SumFunction(values) + (1 - Unit) * n \in Int
        BY <1>1, <1>3
      <4>3. SumFunction(f) = Unit * SumFunction(values) + (1 - Unit) * n
        BY <1>1, <3>6, <3>7, <4>1, <4>2
      <4> QED
        BY <3>8, <4>3 DEF Lowest, n
    <3> QED
      BY <2>2, <2>4, <3>3, <3>9
  <2>5. CASE s # Lowest(values)
    <3>1. PICK r \in Nat : s = r + 1
      BY <1>4, <2>3, <2>5
    <3>2. Lowest(values) <= r /\ r < Highest(values) /\ ~(s <= r)
      BY <1>4, <2>3, <2>5, <3>1
    <3>3. r \notin T
      BY <2>2, <3>2
    <3>4. PICK f : RoundTo(f, values) /\ SumFunction(f) = r
      BY <1>4, <3>2, <3>3
    <3>5. f \in [1..n -> Nat] /\ f \in [1..n -> Int]
      BY <3>4 DEF RoundTo
    <3>6. \E k \in 1..n : f[k] < Unit * values[k]
      <4>1. SUFFICES ASSUME \A k \in 1..n : ~(f[k] < Unit * values[k]) PROVE FALSE
        OBVIOUS
      <4>2. \A k \in 1..n : Unit * values[k] + 0 <= f[k]
        <5> TAKE k \in 1..n
        <5>1. Unit * values[k] \in Int /\ f[k] \in Int /\ ~(f[k] < Unit * values[k])
          BY <1>1, <1>2, <3>5, <4>1
        <5> QED
          BY <5>1
      <4> HIDE DEF n
      <4>3. Unit * SumFunction(values) + 0 * Cardinality(1..n) <= SumFunction(f)
        BY <1>1, <1>2, <1>5, <3>5, <4>2, SumBelow, Zenon
      <4>4. Unit * SumFunction(values) = Highest(values)
        BY <1>1, <1>3 DEF Highest
      <4> QED
        BY <1>1, <1>4, <3>2, <3>4, <4>3, <4>4
    <3>7. PICK k \in 1..n : f[k] < Unit * values[k]
      BY <3>6
    <3> DEFINE g == [f EXCEPT ![k] = f[k] + 1]
    <3>8. SumFunction(g) = SumFunction(f) + 1
      <4> HIDE DEF n
      <4> QED
        BY <1>1, <3>5, SumIncremented
    <3>9. RoundTo(g, values)
      <4>1. g \in [1..n -> Nat] /\ g[k] = f[k] + 1 /\ \A j \in 1..n : j # k => g[j] = f[j]
        BY <3>5
      <4>2. \A j \in 1..n : Unit * (values[j] - 1) < f[j] /\ f[j] <= Unit * values[j]
        BY <3>4 DEF RoundTo
      <4> HIDE DEF g
      <4>3. ASSUME NEW j \in 1..n
            PROVE  Unit * (values[j] - 1) < g[j] /\ g[j] <= Unit * values[j]
        <5>1. Unit * (values[j] - 1) \in Int /\ Unit * values[j] \in Int /\ f[j] \in Int
          BY <1>1, <1>2, <3>5
        <5>2. Unit * (values[j] - 1) < f[j] /\ f[j] <= Unit * values[j]
          BY <4>2
        <5>3. g[j] = f[j] \/ (g[j] = f[j] + 1 /\ f[j] < Unit * values[j])
          BY <3>7, <4>1
        <5> QED
          BY <5>1, <5>2, <5>3
      <4> QED
        BY <4>1, <4>3 DEF RoundTo
    <3> HIDE DEF g
    <3>10. SumFunction(g) = s
      BY <3>1, <3>4, <3>8
    <3> QED
      BY <2>2, <3>9, <3>10
  <2> QED
    BY <2>4, <2>5
<1>7. sum \in Nat /\ Lowest(values) <= sum /\ sum <= Highest(values)
  BY <1>4
<1> QED
  BY <1>6, <1>7

\* And so every mean between the bounds is reported for some such times.
LEMMA MeanReached ==
    ASSUME plan \in PlanSet, NEW values, Values(values),
           NEW mean \in LowestMean(values)..HighestMean(values)
    PROVE  \E nanos : RoundTo(nanos, values) /\ LlamaMean(nanos) = mean
<1> DEFINE N == plan.requests * Unit
           lo == Lowest(values)
           hi == Highest(values)
           sum == IF N * mean <= hi THEN N * mean ELSE hi
<1>1. N \in Nat \ {0}
  BY Requests
<1>2. /\ LowestMean(values) \in Nat \ {0} /\ HighestMean(values) \in Nat
      /\ lo \in Int /\ hi \in Int /\ lo <= hi
  BY BoundsOfMean
<1>3. mean \in Int /\ N * mean \in Int /\ N * (mean - 1) \in Int
      /\ LowestMean(values) <= mean /\ mean <= HighestMean(values)
  BY <1>1, <1>2
<1>4. lo <= N * mean
  <2>1. lo <= N * LowestMean(values)
    BY <1>1, <1>2, Ceiling DEF LowestMean
  <2>2. N * LowestMean(values) <= N * mean /\ N * LowestMean(values) \in Int
    BY <1>1, <1>2, <1>3, Monotone
  <2> QED
    BY <1>2, <1>3, <2>1, <2>2
<1>5. N * (mean - 1) < hi
  <2>1. N * (HighestMean(values) - 1) < hi
    BY <1>1, <1>2, Ceiling DEF HighestMean
  <2>2. N * (mean - 1) <= N * (HighestMean(values) - 1) /\ N * (HighestMean(values) - 1) \in Int
    <3>1. mean - 1 \in Int /\ HighestMean(values) - 1 \in Int /\ mean - 1 <= HighestMean(values) - 1
      BY <1>2, <1>3
    <3> QED
      BY <1>1, <3>1, Monotone
  <2> QED
    BY <1>2, <1>3, <2>1, <2>2
<1>6. N * (mean - 1) < N * mean
  <2>1. mean - 1 \in Int /\ mean - 1 < mean
    BY <1>3
  <2> QED
    BY <1>1, <1>3, <2>1, Monotone
<1> HIDE DEF N, lo, hi
<1>7. sum \in Int /\ sum \in lo..hi /\ N * (mean - 1) < sum /\ sum <= N * mean
  BY <1>2, <1>3, <1>4, <1>5, <1>6
<1> HIDE DEF sum
<1>8. PICK nanos : RoundTo(nanos, values) /\ SumFunction(nanos) = sum
  BY <1>7, SumReached DEF lo, hi
<1>9. mean = ceil_div(sum, N)
  BY <1>1, <1>3, <1>7, Ceiling
<1>10. LlamaMean(nanos) = ceil_div(SumFunction(nanos), plan.requests * Unit)
  BY <1>8, MeanWithinBounds
<1> QED
  BY <1>8, <1>9, <1>10 DEF N

-----------------------------------------------------------------------------
(* The invariant                                                           *)

RawSet == [latency : 0..MaxNanos, ttft : 0..MaxNanos]

PlaceSet == [phase : {"warmup", "measured"}, index : Int]

RecordSet == [place : PlaceSet, latency : Nat, ttft : Nat, throughput : Nat,
              observations : Seq([latency : Nat, ttft : Nat])]

Typed ==
    /\ plan \in PlanSet
    /\ raw \in Seq(RawSet)
    /\ records \in Seq(RecordSet)
    /\ rusage \subseteq RusageSet

\* The times of the repetition that is under way, as run_request leaves them.
Timed ==
    /\ \A k \in 1..Len(raw) :
          /\ raw[k].ttft <= raw[k].latency
          /\ plan.runtime = "llamaCpp" => 0 < raw[k].ttft
    /\ pc = "request" => Len(raw) < plan.requests
    /\ pc = "emit" => Len(raw) = plan.requests
    /\ pc = "adapter" => raw = <<>>

\* A record passes every judge, and its observations are within the bound.
Fit(record, position) ==
    /\ validate_measurement_record(record, position)
    /\ \A k \in 1..Len(record.observations) : Unit * record.observations[k].latency <= MaxNanos

Judged == \A k \in 1..Len(records) : Fit(records[k], k)

\* How many records there are at each step, and of which runtime.
Counted ==
    /\ pc = "derive" => plan.runtime = "localFake"
    /\ pc \in {"request", "emit", "adapter", "reap"} => plan.runtime # "localFake"
    /\ pc \in {"derive", "request", "emit"} => Len(records) < RecordCount
    /\ pc = "adapter" => 0 < Len(records) /\ Len(records) <= RecordCount
    /\ pc \in {"reap", "summarize", "verify"} => Len(records) = RecordCount

\* What the verifier looks at besides the records.
Recomputable ==
    /\ \A usage \in resources : validate_attempt_resources(usage)
    /\ pc = "verify" => summary = SummaryOfRecords

MeasureInv ==
    Typed /\ Timed /\ Judged /\ Counted /\ Recomputable /\ HonestRunIsAccepted

-----------------------------------------------------------------------------
(* The records of each runtime                                             *)

\* The place of the next record.
LEMMA PlaceType ==
    ASSUME Typed, NEW position \in Nat
    PROVE  Place(position) \in PlaceSet
BY DEF Typed, PlanSet, Place, PlaceSet

\* What a record that is put together from these parts is.
LEMMA RecordType ==
    ASSUME Typed, NEW latency \in Nat, NEW ttft \in Nat, NEW throughput \in Nat,
           NEW observations \in Seq([latency : Nat, ttft : Nat])
    PROVE  /\ RecordOf(latency, ttft, throughput, observations) \in RecordSet
           /\ RecordOf(latency, ttft, throughput, observations).place = Place(Len(records) + 1)
<1>1. Len(records) + 1 \in Nat
  BY LenProperties DEF Typed
<1>2. Place(Len(records) + 1) \in PlaceSet
  BY <1>1, PlaceType
<1> QED
  BY <1>2 DEF RecordOf, RecordSet

\* The times of a complete repetition, by request.
LEMMA TimesOfRepetition ==
    ASSUME Typed, Timed, pc = "emit"
    PROVE  /\ DOMAIN raw = 1..plan.requests
           /\ Latencies \in [1..plan.requests -> 0..MaxNanos]
           /\ Ttfts \in [1..plan.requests -> 0..MaxNanos]
           /\ \A k \in 1..plan.requests :
                /\ Latencies[k] = raw[k].latency /\ Ttfts[k] = raw[k].ttft
                /\ Ttfts[k] <= Latencies[k]
                /\ plan.runtime = "llamaCpp" => 0 < Ttfts[k]
<1>1. DOMAIN raw = 1..Len(raw) /\ \A k \in 1..Len(raw) : raw[k] \in RawSet
  BY LenProperties, ElementOfSeq DEF Typed
<1>2. Len(raw) = plan.requests
  BY DEF Timed
<1> QED
  BY <1>1, <1>2 DEF Latencies, Ttfts, Timed, RawSet

\* Their sums.
LEMMA SumsOfTimes ==
    ASSUME Typed, Timed, pc = "emit"
    PROVE  /\ SumFunction(Latencies) \in Nat
           /\ SumFunction(Ttfts) \in Nat
           /\ SumFunction(Ttfts) <= SumFunction(Latencies)
<1> DEFINE n == plan.requests
<1>1. n \in Nat \ {0} /\ IsFiniteSet(1..n) /\ Cardinality(1..n) = n
  BY Requests DEF Typed
<1>2. /\ Latencies \in [1..n -> 0..MaxNanos] /\ Ttfts \in [1..n -> 0..MaxNanos]
      /\ \A k \in 1..n : Ttfts[k] <= Latencies[k]
  BY TimesOfRepetition
<1>3. MaxNanos \in Nat /\ 0 \in Int /\ 1 \in Int
  BY MeasurementAssumption
<1>4. /\ Latencies \in [1..n -> Int] /\ Ttfts \in [1..n -> Int]
      /\ \A k \in 1..n : 0 * Ttfts[k] + 0 <= Ttfts[k]
      /\ \A k \in 1..n : 0 * Latencies[k] + 0 <= Latencies[k]
      /\ \A k \in 1..n : Ttfts[k] <= 1 * Latencies[k] + 0
  BY <1>2, <1>3
<1> HIDE DEF n
<1>5. /\ 0 * SumFunction(Ttfts) + 0 * Cardinality(1..n) <= SumFunction(Ttfts)
      /\ 0 * SumFunction(Latencies) + 0 * Cardinality(1..n) <= SumFunction(Latencies)
  BY <1>1, <1>3, <1>4, SumBelow, Zenon
<1>6. SumFunction(Ttfts) <= 1 * SumFunction(Latencies) + 0 * Cardinality(1..n)
  BY <1>1, <1>3, <1>4, SumAbove, Zenon
<1>7. \A f \in [1..n -> Int] : SumFunction(f) \in Int
  <2> TAKE f \in [1..n -> Int]
  <2>1. SumFunction(f) = SumOver(f, 1..n)[1..n] /\ SumOver(f, 1..n) \in [SUBSET (1..n) -> Int]
    BY <1>1, SumUnfolds
  <2> QED
    BY <2>1
<1>8. SumFunction(Ttfts) \in Int /\ SumFunction(Latencies) \in Int
  BY <1>4, <1>7
<1> QED
  BY <1>1, <1>5, <1>6, <1>8

\* emit_repetition of the CPU probe.
LEMMA CpuProbeRecordFits ==
    ASSUME Typed, Timed, pc = "emit", plan.runtime = "cpuProbe",
           NEW overhead \in Overheads, NEW record \in CpuProbeRecord(overhead)
    PROVE  record \in RecordSet /\ Fit(record, Len(records) + 1)
<1> DEFINE n == plan.requests
           mean == ceil_micros(SumFunction(Latencies)) \div n
           first == ceil_micros(SumFunction(Ttfts)) \div n
           latency == GreaterOf(mean, 1)
           ttft == GreaterOf(SmallerOf(first, mean), 1)
<1>1. n \in Nat \ {0}
  BY Requests DEF Typed
<1>2. ceil_micros(SumFunction(Latencies)) \in Nat /\ ceil_micros(SumFunction(Ttfts)) \in Nat
  <2>1. SumFunction(Latencies) \in Nat /\ SumFunction(Ttfts) \in Nat
    BY SumsOfTimes
  <2>2. \A a \in Nat : ceil_micros(a) \in Nat
    BY MicrosMonotone
  <2> QED
    BY <2>1, <2>2
<1>3. mean \in Int /\ first \in Int
  <2>1. \A a \in Int : a \div n \in Int
    BY <1>1, Division
  <2> QED
    BY <1>2, <2>1
<1>4. PICK throughput \in 0..U64Max :
         record = RecordOf(latency, ttft, GreaterOf(throughput, 1), <<>>)
  BY DEF CpuProbeRecord, AsU64
<1> HIDE DEF mean, first
<1>5. latency \in Nat \ {0} /\ ttft \in Nat \ {0} /\ ttft <= latency
  BY <1>3 DEF GreaterOf, SmallerOf
<1>6. GreaterOf(throughput, 1) \in Nat \ {0}
  BY WidthAssumption DEF GreaterOf
<1> HIDE DEF latency, ttft
<1>7. <<>> \in Seq([latency : Nat, ttft : Nat])
  OBVIOUS
<1>8. record \in RecordSet /\ record.place = Place(Len(records) + 1)
  BY <1>4, <1>5, <1>6, <1>7, RecordType
<1>9. /\ record.latency = latency /\ record.ttft = ttft
      /\ record.throughput = GreaterOf(throughput, 1) /\ record.observations = <<>>
  BY <1>4 DEF RecordOf
<1>10. validate_measurement_record(record, Len(records) + 1)
  BY <1>5, <1>6, <1>8, <1>9 DEF validate_measurement_record, PlausibleValues
<1> QED
  BY <1>8, <1>9, <1>10 DEF Fit

\* Microseconds of a time within the bound.
LEMMA MicrosWithinBound ==
    ASSUME NEW nanos \in 1..MaxNanos
    PROVE  /\ ceil_micros(nanos) \in Nat \ {0}
           /\ Unit * ceil_micros(nanos) <= MaxNanos
           /\ ceil_micros(nanos) <= U64Max
<1> DEFINE c == ceil_micros(nanos)
           m == MaxNanos \div Unit
<1>1. Unit \in Nat \ {0} /\ MaxNanos \in Nat /\ U64Max \in Nat
  BY MeasurementAssumption, WidthAssumption
<1>2. m \in Int /\ MaxNanos = Unit * m + (MaxNanos % Unit)
  BY <1>1, Division
<1>3. MaxNanos % Unit = 0 /\ MaxNanos <= U64Max
  BY ClockAssumption
<1>4. nanos \in Nat \ {0} /\ nanos <= MaxNanos
  BY <1>1
<1>5. c \in Nat \ {0} /\ Unit * (c - 1) < nanos
  BY <1>4, Micros
<1> HIDE DEF c, m
<1>6. MaxNanos = Unit * m
  BY <1>1, <1>2, <1>3
<1>7. c - 1 < m
  <2>1. c - 1 \in Int /\ Unit * (c - 1) \in Int /\ Unit * (c - 1) < Unit * m
    BY <1>1, <1>2, <1>4, <1>5, <1>6
  <2> QED
    BY <1>1, <1>2, <2>1, Monotone
<1>8. c <= m /\ c \in Int
  BY <1>2, <1>5, <1>7
<1>9. Unit * c <= Unit * m
  BY <1>1, <1>2, <1>8, Monotone
<1>10. c * 1 <= c * Unit
  <2>1. 1 <= Unit /\ Unit \in Int /\ 1 \in Int
    BY <1>1
  <2> QED
    BY <1>5, <2>1, Monotone
<1>11. c * Unit = Unit * c /\ c * 1 = c
  BY <1>1, <1>8
<1> QED
  BY <1>1, <1>3, <1>5, <1>6, <1>8, <1>9, <1>10, <1>11 DEF c

\* emit_repetition of the llama.cpp helper: the observations are the rounded
\* times, and the aggregates lie within the bounds of their means.
LEMMA LlamaRecordFits ==
    ASSUME Typed, Timed, pc = "emit", plan.runtime = "llamaCpp", NEW overhead \in Overheads
    PROVE  /\ LlamaRecord(overhead) \in RecordSet
           /\ Fit(LlamaRecord(overhead), Len(records) + 1)
<1> DEFINE n == plan.requests
           Observed(k) == [latency |-> ceil_micros(raw[k].latency),
                           ttft |-> SmallerOf(ceil_micros(raw[k].latency), ceil_micros(raw[k].ttft))]
           seen == [k \in DOMAIN raw |-> Observed(k)]
           latencies == [k \in 1..n |-> ceil_micros(Latencies[k])]
           ttfts == [k \in 1..n |-> ceil_micros(Ttfts[k])]
           elapsed == GreaterOf(SumFunction(Latencies) + overhead, 1)
           rate == GreaterOf((n * RateScale * Unit) \div elapsed, 1)
           latency == LlamaMean(Latencies)
           ttft == LlamaMean(Ttfts)
           record == LlamaRecord(overhead)
<1>1. plan \in PlanSet /\ n \in Nat \ {0} /\ Unit \in Nat \ {0} /\ n * Unit \in Nat \ {0}
      /\ RateScale \in Nat
  BY Requests, MeasurementAssumption DEF Typed
<1>2. /\ DOMAIN raw = 1..n
      /\ \A k \in 1..n : /\ Latencies[k] = raw[k].latency /\ Ttfts[k] = raw[k].ttft
                         /\ Latencies[k] \in 1..MaxNanos /\ Ttfts[k] \in 1..MaxNanos
                         /\ Ttfts[k] <= Latencies[k]
  BY TimesOfRepetition, MeasurementAssumption
<1>3. MaxNanos \in Nat /\ U64Max \in Nat
  BY MeasurementAssumption, WidthAssumption
<1>4. ASSUME NEW k \in 1..n
      PROVE  /\ latencies[k] = ceil_micros(Latencies[k]) /\ ttfts[k] = ceil_micros(Ttfts[k])
             /\ latencies[k] \in Nat \ {0} /\ latencies[k] <= U64Max
             /\ ttfts[k] \in Nat \ {0} /\ ttfts[k] <= U64Max
             /\ Unit * latencies[k] <= MaxNanos
             /\ ttfts[k] <= latencies[k]
             /\ Unit * (latencies[k] - 1) < Latencies[k] /\ Latencies[k] <= Unit * latencies[k]
             /\ Unit * (ttfts[k] - 1) < Ttfts[k] /\ Ttfts[k] <= Unit * ttfts[k]
  <2>1. Latencies[k] \in 1..MaxNanos /\ Ttfts[k] \in 1..MaxNanos /\ Ttfts[k] <= Latencies[k]
    BY <1>2
  <2>2. Latencies[k] \in Nat \ {0} /\ Ttfts[k] \in Nat \ {0}
    BY <1>3, <2>1
  <2>3. latencies[k] = ceil_micros(Latencies[k]) /\ ttfts[k] = ceil_micros(Ttfts[k])
    OBVIOUS
  <2> HIDE DEF latencies, ttfts
  <2>4. /\ latencies[k] \in Nat \ {0} /\ latencies[k] <= U64Max
        /\ Unit * latencies[k] <= MaxNanos
    BY <2>1, <2>3, MicrosWithinBound
  <2>5. ttfts[k] \in Nat \ {0} /\ ttfts[k] <= U64Max
    BY <2>1, <2>3, MicrosWithinBound
  <2>6. ttfts[k] <= latencies[k]
    BY <2>1, <2>2, <2>3, MicrosMonotone
  <2>7. Unit * (latencies[k] - 1) < Latencies[k] /\ Latencies[k] <= Unit * latencies[k]
    BY <2>2, <2>3, Micros
  <2>8. Unit * (ttfts[k] - 1) < Ttfts[k] /\ Ttfts[k] <= Unit * ttfts[k]
    BY <2>2, <2>3, Micros
  <2> QED
    BY <2>3, <2>4, <2>5, <2>6, <2>7, <2>8
<1>5. DOMAIN latencies = 1..n /\ DOMAIN ttfts = 1..n
      /\ latencies \in [1..n -> Nat] /\ ttfts \in [1..n -> Nat]
  BY <1>4
<1>6. /\ DOMAIN seen = 1..n
      /\ \A k \in 1..n : seen[k] = [latency |-> latencies[k], ttft |-> ttfts[k]]
  <2>1. DOMAIN seen = 1..n
    BY <1>2
  <2>2. ASSUME NEW k \in 1..n PROVE seen[k] = [latency |-> latencies[k], ttft |-> ttfts[k]]
    <3>1. seen[k] = Observed(k)
      BY <1>2
    <3>2. /\ ceil_micros(raw[k].latency) = latencies[k] /\ ceil_micros(raw[k].ttft) = ttfts[k]
      BY <1>2, <1>4
    <3>3. SmallerOf(latencies[k], ttfts[k]) = ttfts[k]
      <4> HIDE DEF latencies, ttfts
      <4> QED
        BY <1>4 DEF SmallerOf
    <3> HIDE DEF latencies, ttfts, seen
    <3> QED
      BY <3>1, <3>2, <3>3
  <2> QED
    BY <2>1, <2>2
<1>7. LlamaRecord(overhead) = RecordOf(latency, SmallerOf(latency, ttft), rate, seen)
  BY DEF LlamaRecord
<1>8. seen \in Seq([latency : Nat, ttft : Nat]) /\ Len(seen) = n
  <2> HIDE DEF seen, latencies, ttfts, n
  <2>1. seen \in [1..n -> [latency : Nat, ttft : Nat]]
    <3>1. \A k \in 1..n : seen[k] \in [latency : Nat, ttft : Nat]
      BY <1>4, <1>6
    <3>2. seen = [k \in DOMAIN seen |-> seen[k]]
      BY DEF seen
    <3> QED
      BY <1>6, <3>1, <3>2
  <2> QED
    BY <1>1, <2>1, IsSequence
<1>9. Values(latencies) /\ Values(ttfts)
  <2> HIDE DEF latencies, ttfts
  <2>1. \A k \in 1..n : 0 < latencies[k] /\ latencies[k] <= U64Max
    BY <1>4
  <2>2. \A k \in 1..n : 0 < ttfts[k] /\ ttfts[k] <= U64Max
    BY <1>4
  <2> QED
    BY <1>5, <2>1, <2>2 DEF Values
<1>10. RoundTo(Latencies, latencies) /\ RoundTo(Ttfts, ttfts)
  <2>1. Latencies \in [1..n -> Nat] /\ Ttfts \in [1..n -> Nat]
    BY <1>3, TimesOfRepetition
  <2> HIDE DEF latencies, ttfts
  <2> QED
    BY <1>4, <2>1 DEF RoundTo
<1> HIDE DEF seen, latencies, ttfts
<1>11. /\ latency \in LowestMean(latencies)..HighestMean(latencies)
       /\ latency = ceil_div(SumFunction(Latencies), n * Unit)
  BY <1>1, <1>9, <1>10, MeanWithinBounds
<1>12. /\ ttft \in LowestMean(ttfts)..HighestMean(ttfts)
       /\ ttft = ceil_div(SumFunction(Ttfts), n * Unit)
  BY <1>1, <1>9, <1>10, MeanWithinBounds
<1>13. /\ rounded_request_mean_bounds(latencies, Unit)
            = {<<LowestMean(latencies), HighestMean(latencies)>>}
       /\ LowestMean(latencies) \in Nat \ {0} /\ HighestMean(latencies) \in Nat
  BY <1>1, <1>9, BoundsOfMean
<1>14. /\ rounded_request_mean_bounds(ttfts, Unit) = {<<LowestMean(ttfts), HighestMean(ttfts)>>}
       /\ LowestMean(ttfts) \in Nat \ {0} /\ HighestMean(ttfts) \in Nat
  BY <1>1, <1>9, BoundsOfMean
<1>15. ttft <= latency
  <2>1. /\ SumFunction(Ttfts) \in Int /\ SumFunction(Latencies) \in Int
        /\ SumFunction(Ttfts) <= SumFunction(Latencies)
    BY SumsOfTimes
  <2> QED
    BY <1>1, <1>11, <1>12, <2>1, CeilingMonotone
<1>16. rate \in Nat \ {0}
  <2>1. elapsed \in Nat \ {0}
    <3>1. SumFunction(Latencies) \in Nat /\ overhead \in Nat
      BY SumsOfTimes, MeasurementAssumption
    <3> QED
      BY <3>1 DEF GreaterOf
  <2>2. n * RateScale * Unit \in Int
    BY <1>1
  <2> HIDE DEF elapsed
  <2>3. (n * RateScale * Unit) \div elapsed \in Int
    BY <2>1, <2>2, Division
  <2> QED
    BY <2>3 DEF GreaterOf
<1> HIDE DEF latency, ttft, rate
<1>17. latency \in Nat \ {0} /\ ttft \in Nat \ {0} /\ SmallerOf(latency, ttft) = ttft
  BY <1>11, <1>12, <1>13, <1>14, <1>15 DEF SmallerOf
<1>18. /\ record = RecordOf(latency, ttft, rate, seen)
       /\ record \in RecordSet /\ record.place = Place(Len(records) + 1)
  BY <1>7, <1>8, <1>16, <1>17, RecordType
<1> HIDE DEF record
<1>19. /\ record.latency = latency /\ record.ttft = ttft
       /\ record.throughput = rate /\ record.observations = seen
  BY <1>18 DEF RecordOf
<1>20. PlausibleValues(record)
  BY <1>15, <1>16, <1>17, <1>19 DEF PlausibleValues
<1>21. /\ DOMAIN record.observations = 1..n /\ Len(record.observations) = n
       /\ \A k \in 1..n : /\ record.observations[k].latency = latencies[k]
                          /\ record.observations[k].ttft = ttfts[k]
                          /\ Unit * record.observations[k].latency <= MaxNanos
  <2>1. \A k \in 1..n : seen[k].latency = latencies[k] /\ seen[k].ttft = ttfts[k]
    <3> TAKE k \in 1..n
    <3>1. seen[k] = [latency |-> latencies[k], ttft |-> ttfts[k]]
      BY <1>6
    <3> QED
      BY <3>1
  <2>2. \A k \in 1..n : Unit * latencies[k] <= MaxNanos
    BY <1>4
  <2> QED
    BY <1>6, <1>8, <1>19, <2>1, <2>2
<1>22. PlausibleObservations(record)
  <2>1. \A k \in 1..n : 0 < latencies[k] /\ 0 < ttfts[k] /\ ttfts[k] <= latencies[k]
    BY <1>4
  <2> QED
    BY <1>21, <2>1 DEF PlausibleObservations
<1>23. AggregatesAgree(record)
  <2>1. [k \in DOMAIN record.observations |-> record.observations[k].latency] = latencies
    <3>1. latencies = [k \in 1..n |-> latencies[k]]
      BY <1>5
    <3> HIDE DEF n
    <3> QED
      BY <1>21, <3>1
  <2>2. [k \in DOMAIN record.observations |-> record.observations[k].ttft] = ttfts
    <3>1. ttfts = [k \in 1..n |-> ttfts[k]]
      BY <1>5
    <3> HIDE DEF n
    <3> QED
      BY <1>21, <3>1
  <2> DEFINE p == <<LowestMean(latencies), HighestMean(latencies)>>
             q == <<LowestMean(ttfts), HighestMean(ttfts)>>
  <2>3. p[1] = LowestMean(latencies) /\ p[2] = HighestMean(latencies)
    OBVIOUS
  <2>4. q[1] = LowestMean(ttfts) /\ q[2] = HighestMean(ttfts)
    OBVIOUS
  <2>5. p \in rounded_request_mean_bounds(latencies, Unit) /\ record.latency \in p[1]..p[2]
    BY <1>11, <1>13, <1>19, <2>3
  <2>6. q \in rounded_request_mean_bounds(ttfts, Unit) /\ record.ttft \in q[1]..q[2]
    BY <1>12, <1>14, <1>19, <2>4
  <2> HIDE DEF p, q
  <2> QED
    BY <2>1, <2>2, <2>5, <2>6 DEF AggregatesAgree
<1>24. validate_measurement_record(record, Len(records) + 1)
  BY <1>18, <1>20, <1>22, <1>23 DEF validate_measurement_record
<1> QED
  BY <1>18, <1>21, <1>24 DEF Fit, record

\* local_fake::measurement: the shortest latency is the longest first token.
LEMMA FakeRecordFits ==
    ASSUME Typed, plan.runtime = "localFake", NEW draw \in FakeDraws
    PROVE  LET record == RecordOf(FakeLatency(draw.latency), FakeTtft(draw.ttft),
                                  FakeThroughput(draw.throughput), <<>>)
           IN  record \in RecordSet /\ Fit(record, Len(records) + 1)
<1> DEFINE latency == FakeLatency(draw.latency)
           ttft == FakeTtft(draw.ttft)
           throughput == FakeThroughput(draw.throughput)
           record == RecordOf(latency, ttft, throughput, <<>>)
<1>1. draw.latency \in Nat /\ draw.ttft \in Nat /\ draw.throughput \in Nat
  BY MeasurementAssumption
<1>2. /\ latency \in Nat /\ latency >= 10000
      /\ ttft \in Nat /\ ttft >= 1000 /\ ttft <= 10000
      /\ throughput \in Nat /\ throughput >= 10000
  BY <1>1 DEF FakeLatency, FakeTtft, FakeThroughput
<1> HIDE DEF latency, ttft, throughput
<1>3. <<>> \in Seq([latency : Nat, ttft : Nat])
  OBVIOUS
<1>4. PICK made : made = RecordOf(latency, ttft, throughput, <<>>)
  OBVIOUS
<1>5. made \in RecordSet /\ made.place = Place(Len(records) + 1)
  <2>1. latency \in Nat /\ ttft \in Nat /\ throughput \in Nat
    BY <1>2
  <2> QED
    BY <1>3, <1>4, <2>1, RecordType
<1>6. /\ made.latency = latency /\ made.ttft = ttft
      /\ made.throughput = throughput /\ made.observations = <<>>
  BY <1>4 DEF RecordOf
<1>7. validate_measurement_record(made, Len(records) + 1)
  BY <1>2, <1>5, <1>6 DEF validate_measurement_record, PlausibleValues
<1>8. made \in RecordSet /\ Fit(made, Len(records) + 1)
  BY <1>5, <1>6, <1>7 DEF Fit
<1> QED
  BY <1>4, <1>8 DEF latency, ttft, throughput

\* A record that fits joins records that do.
LEMMA OneMoreRecord ==
    ASSUME Typed, Judged, NEW record \in RecordSet, Fit(record, Len(records) + 1),
           records' = Append(records, record), UNCHANGED plan
    PROVE  /\ records' \in Seq(RecordSet)
           /\ Len(records') = Len(records) + 1
           /\ Judged'
           /\ RecordCount' = RecordCount /\ RecordCount \in Nat /\ Len(records) \in Nat
<1>1. records \in Seq(RecordSet) /\ Len(records) \in Nat
  BY LenProperties DEF Typed
<1>2. /\ records' \in Seq(RecordSet) /\ Len(records') = Len(records) + 1
      /\ \A k \in 1..Len(records) : records'[k] = records[k]
      /\ records'[Len(records) + 1] = record
  BY <1>1, AppendProperties
<1>3. \A r, k : Fit(r, k)' <=> Fit(r, k)
  BY DEF Fit, validate_measurement_record, Place, PlausibleValues, PlausibleObservations,
         AggregatesAgree
<1>4. ASSUME NEW k \in 1..Len(records') PROVE Fit(records[k], k)'
  <2>1. k \in 1..Len(records) \/ k = Len(records) + 1
    BY <1>1, <1>2
  <2>2. CASE k \in 1..Len(records)
    BY <1>2, <1>3, <2>2 DEF Judged
  <2>3. CASE k = Len(records) + 1
    BY <1>2, <1>3, <2>3
  <2> QED
    BY <2>1, <2>2, <2>3
<1>5. RecordCount' = RecordCount /\ RecordCount \in Nat
  BY DEF RecordCount, Typed, PlanSet
<1> QED
  BY <1>1, <1>2, <1>4, <1>5 DEF Judged

-----------------------------------------------------------------------------
(* The invariant is inductive                                              *)

\* Before the first request there is a plan that was admitted and nothing else.
LEMMA MeasureInit == Init => MeasureInv
<1> SUFFICES ASSUME Init PROVE MeasureInv
  OBVIOUS
<1>1. plan \in PlanSet /\ plan.requests \in Nat \ {0} /\ RecordCount \in Nat \ {0}
  BY MeasurementAssumption DEF Init, PlanSet, RecordCount
<1>2. raw = <<>> /\ records = <<>> /\ Len(raw) = 0 /\ Len(records) = 0
  BY DEF Init
<1>3. Typed
  BY <1>1, <1>2 DEF Init, Typed
<1>4. Timed /\ Judged
  BY <1>1, <1>2 DEF Init, Timed, Judged
<1>5. Counted
  BY <1>1, <1>2 DEF Init, Counted
<1>6. Recomputable /\ HonestRunIsAccepted
  BY DEF Init, Recomputable, HonestRunIsAccepted
<1> QED
  BY <1>3, <1>4, <1>5, <1>6 DEF MeasureInv

\* What does not depend on the step: the judges are those of the plan.
LEMMA JudgesKept ==
    ASSUME UNCHANGED <<plan, records>>, Judged
    PROVE  Judged' /\ RecordCount' = RecordCount /\ SummaryOfRecords' = SummaryOfRecords
<1>1. \A r, k : Fit(r, k)' <=> Fit(r, k)
  BY DEF Fit, validate_measurement_record, Place, PlausibleValues, PlausibleObservations,
         AggregatesAgree
<1>2. Judged'
  BY <1>1 DEF Judged
<1>3. SummaryOfRecords' = SummaryOfRecords
  BY DEF SummaryOfRecords, MeasuredLatencies, MeasuredThroughputs, measured_records
<1> QED
  BY <1>2, <1>3 DEF RecordCount

\* The local fake derives its records from the position alone; each is one
\* the verifier accepts at that position.
LEMMA DeriveStep == MeasureInv /\ Derive => MeasureInv'
<1> SUFFICES ASSUME MeasureInv, Derive PROVE MeasureInv'
  OBVIOUS
<1>1. Typed /\ Timed /\ Judged /\ Counted /\ Recomputable /\ HonestRunIsAccepted
  BY DEF MeasureInv
<1>2. pc = "derive" /\ plan.runtime = "localFake" /\ Len(records) < RecordCount
  BY <1>1 DEF Derive, Counted
<1>3. PICK draw \in FakeDraws :
         records' = Append(records, RecordOf(FakeLatency(draw.latency), FakeTtft(draw.ttft),
                                             FakeThroughput(draw.throughput), <<>>))
  BY DEF Derive
<1>4. UNCHANGED <<plan, raw, rusage, resources, summary, verdict>>
  BY DEF Derive
<1>5. /\ records' \in Seq(RecordSet) /\ Len(records') = Len(records) + 1 /\ Judged'
      /\ RecordCount' = RecordCount /\ RecordCount \in Nat /\ Len(records) \in Nat
  BY <1>1, <1>2, <1>3, <1>4, FakeRecordFits, OneMoreRecord
<1>6. pc' = IF Len(records') = RecordCount THEN "summarize" ELSE "derive"
  BY DEF Derive
<1>7. Typed' /\ Timed'
  BY <1>1, <1>4, <1>5, <1>6 DEF Typed, Timed
<1>8. Counted'
  BY <1>2, <1>4, <1>5, <1>6 DEF Counted
<1>9. Recomputable' /\ HonestRunIsAccepted'
  BY <1>1, <1>4, <1>6 DEF Recomputable, HonestRunIsAccepted, validate_attempt_resources
<1> QED
  BY <1>5, <1>7, <1>8, <1>9 DEF MeasureInv

\* A request adds one pair of raw times, the first token not after the end.
LEMMA ObserveStep == MeasureInv /\ Observe => MeasureInv'
<1> SUFFICES ASSUME MeasureInv, Observe PROVE MeasureInv'
  OBVIOUS
<1>1. Typed /\ Timed /\ Judged /\ Counted /\ Recomputable /\ HonestRunIsAccepted
  BY DEF MeasureInv
<1>2. pc = "request" /\ UNCHANGED <<plan, records, rusage, resources, summary, verdict>>
  BY DEF Observe
<1>3. Judged' /\ RecordCount' = RecordCount
  BY <1>1, <1>2, JudgesKept
<1>4. PICK latency \in 0..MaxNanos : \E ttft \in 0..latency :
          IF plan.runtime = "llamaCpp" /\ ttft = 0
          THEN pc' = "helperFailed" /\ UNCHANGED raw
          ELSE /\ raw' = Append(raw, [latency |-> latency, ttft |-> ttft])
               /\ pc' = IF Len(raw') = plan.requests THEN "emit" ELSE "request"
  BY DEF Observe
<1>5. PICK ttft \in 0..latency :
          IF plan.runtime = "llamaCpp" /\ ttft = 0
          THEN pc' = "helperFailed" /\ UNCHANGED raw
          ELSE /\ raw' = Append(raw, [latency |-> latency, ttft |-> ttft])
               /\ pc' = IF Len(raw') = plan.requests THEN "emit" ELSE "request"
  BY <1>4
<1>6. CASE plan.runtime = "llamaCpp" /\ ttft = 0
  <2>1. pc' = "helperFailed" /\ UNCHANGED raw
    BY <1>5, <1>6
  <2> QED
    BY <1>1, <1>2, <1>3, <2>1 DEF MeasureInv, Typed, Timed, Counted, Recomputable,
       HonestRunIsAccepted, validate_attempt_resources
<1>7. CASE ~(plan.runtime = "llamaCpp" /\ ttft = 0)
  <2> DEFINE times == [latency |-> latency, ttft |-> ttft]
  <2>1. raw' = Append(raw, times) /\ pc' = IF Len(raw') = plan.requests THEN "emit" ELSE "request"
    BY <1>5, <1>7
  <2>2. /\ times \in RawSet /\ times.ttft <= times.latency
        /\ plan.runtime = "llamaCpp" => 0 < times.ttft
    BY <1>4, <1>5, <1>7, MeasurementAssumption DEF RawSet
  <2>3. raw \in Seq(RawSet) /\ Len(raw) \in Nat /\ plan.requests \in Nat /\ Len(raw) < plan.requests
    BY <1>1, <1>2, LenProperties DEF Typed, Timed, PlanSet
  <2> HIDE DEF times
  <2>4. /\ raw' \in Seq(RawSet) /\ Len(raw') = Len(raw) + 1
        /\ \A k \in 1..Len(raw) : raw'[k] = raw[k]
        /\ raw'[Len(raw) + 1] = times
    BY <2>1, <2>2, <2>3, AppendProperties
  <2>5. Typed'
    BY <1>1, <1>2, <2>4 DEF Typed
  <2>6. \A k \in 1..Len(raw') : /\ raw'[k].ttft <= raw'[k].latency
                                /\ plan.runtime = "llamaCpp" => 0 < raw'[k].ttft
    <3> TAKE k \in 1..Len(raw')
    <3>1. k \in 1..Len(raw) \/ k = Len(raw) + 1
      BY <2>3, <2>4
    <3>2. CASE k \in 1..Len(raw)
      BY <1>1, <2>4, <3>2 DEF Timed
    <3>3. CASE k = Len(raw) + 1
      BY <2>2, <2>4, <3>3
    <3> QED
      BY <3>1, <3>2, <3>3
  <2>7. Timed'
    BY <1>2, <2>1, <2>3, <2>4, <2>6 DEF Timed
  <2>8. Counted' /\ Recomputable' /\ HonestRunIsAccepted'
    BY <1>1, <1>2, <1>3, <2>1 DEF Counted, Recomputable, HonestRunIsAccepted,
       validate_attempt_resources
  <2> QED
    BY <1>3, <2>5, <2>7, <2>8 DEF MeasureInv
<1> QED
  BY <1>6, <1>7

\* A helper rounds the times of one repetition into a record that fits its
\* position, or ends because its throughput is not a positive u64.
LEMMA EmitStep == MeasureInv /\ EmitRepetition => MeasureInv'
<1> SUFFICES ASSUME MeasureInv, EmitRepetition PROVE MeasureInv'
  OBVIOUS
<1>1. Typed /\ Timed /\ Judged /\ Counted /\ Recomputable /\ HonestRunIsAccepted
  BY DEF MeasureInv
<1>2. /\ pc = "emit" /\ pc' = "adapter" /\ raw' = <<>>
      /\ UNCHANGED <<plan, rusage, resources, summary, verdict>>
  BY DEF EmitRepetition
<1>3. plan.runtime \in {"cpuProbe", "llamaCpp"} /\ Len(records) < RecordCount
  BY <1>1, <1>2 DEF Typed, PlanSet, Counted
<1>4. PICK overhead \in Overheads :
         \E record \in IF plan.runtime = "cpuProbe" THEN CpuProbeRecord(overhead)
                       ELSE {LlamaRecord(overhead)} :
            records' = Append(records, record)
  BY DEF EmitRepetition
<1>5. PICK record \in IF plan.runtime = "cpuProbe" THEN CpuProbeRecord(overhead)
                      ELSE {LlamaRecord(overhead)} :
            records' = Append(records, record)
  BY <1>4
<1>6. record \in RecordSet /\ Fit(record, Len(records) + 1)
  <2>1. CASE plan.runtime = "cpuProbe"
    BY <1>1, <1>2, <1>5, <2>1, CpuProbeRecordFits
  <2>2. CASE plan.runtime = "llamaCpp"
    <3>1. record = LlamaRecord(overhead)
      BY <1>5, <2>2
    <3> QED
      BY <1>1, <1>2, <2>2, <3>1, LlamaRecordFits
  <2> QED
    BY <1>3, <2>1, <2>2
<1>7. /\ records' \in Seq(RecordSet) /\ Len(records') = Len(records) + 1 /\ Judged'
      /\ RecordCount' = RecordCount /\ RecordCount \in Nat /\ Len(records) \in Nat
  BY <1>1, <1>2, <1>5, <1>6, OneMoreRecord
<1>8. Typed' /\ Timed'
  BY <1>1, <1>2, <1>7 DEF Typed, Timed
<1>9. Counted'
  BY <1>2, <1>3, <1>7 DEF Counted
<1>10. Recomputable' /\ HonestRunIsAccepted'
  BY <1>1, <1>2 DEF Recomputable, HonestRunIsAccepted, validate_attempt_resources
<1> QED
  BY <1>7, <1>8, <1>9, <1>10 DEF MeasureInv

\* validate_record of both adapters accepts every record a helper emits, and
\* asks for the next until all are there.
LEMMA AdapterStep == MeasureInv /\ Adapter => MeasureInv'
<1> SUFFICES ASSUME MeasureInv, Adapter PROVE MeasureInv'
  OBVIOUS
<1>1. Typed /\ Timed /\ Judged /\ Counted /\ Recomputable /\ HonestRunIsAccepted
  BY DEF MeasureInv
<1>2. pc = "adapter" /\ UNCHANGED <<plan, raw, records, rusage, resources, summary, verdict>>
  BY DEF Adapter
<1>3. /\ Len(records) \in Nat /\ 0 < Len(records) /\ Len(records) <= RecordCount
      /\ plan.runtime # "localFake" /\ RecordCount \in Nat
  BY <1>1, <1>2, LenProperties DEF Counted, Typed, RecordCount, PlanSet
<1>4. validate_record(records[Len(records)], Len(records))
  <2>1. Fit(records[Len(records)], Len(records))
    BY <1>1, <1>3 DEF Judged
  <2> QED
    BY <2>1 DEF Fit, validate_measurement_record, validate_record
<1>5. pc' = IF Len(records) = RecordCount THEN "reap" ELSE "request"
  BY <1>4 DEF Adapter
<1>6. Judged' /\ RecordCount' = RecordCount
  BY <1>1, <1>2, JudgesKept
<1>7. raw = <<>> /\ plan.requests \in Nat \ {0}
  BY <1>1, <1>2 DEF Typed, PlanSet, Timed
<1>8. Typed' /\ Timed'
  BY <1>1, <1>2, <1>5, <1>7 DEF Typed, Timed
<1>9. Counted'
  BY <1>2, <1>3, <1>5, <1>6 DEF Counted
<1>10. Recomputable' /\ HonestRunIsAccepted'
  BY <1>1, <1>2, <1>5 DEF Recomputable, HonestRunIsAccepted, validate_attempt_resources
<1> QED
  BY <1>6, <1>8, <1>9, <1>10 DEF MeasureInv

\* resource_usage_from_components keeps whole kibibytes.
LEMMA ConvertedUsage ==
    ASSUME NEW usage \in RusageSet, NEW r \in resource_usage_from_components(usage)
    PROVE  r.rss % Page = 0
<1>1. usage.rss \in Int /\ Page \in Nat \ {0}
  BY MeasurementAssumption DEF RusageSet
<1>2. r.rss = usage.rss * Page
  BY DEF resource_usage_from_components, AsU64
<1> DEFINE a == usage.rss * Page
           q == a \div Page
<1>3. a \in Int /\ a = Page * usage.rss
  BY <1>1
<1>4. q \in Int /\ a % Page \in 0..(Page - 1) /\ a = Page * q + (a % Page)
  BY <1>1, <1>3, Division
<1> HIDE DEF a, q
<1>5. Page * (usage.rss - q) = a % Page /\ usage.rss - q \in Int
  BY <1>1, <1>3, <1>4
<1>6. Page * (usage.rss - q) < Page * 1 /\ Page * (-1) < Page * (usage.rss - q)
  BY <1>1, <1>4, <1>5
<1>7. usage.rss - q < 1 /\ -1 < usage.rss - q
  <2>1. 1 \in Int /\ -1 \in Int
    OBVIOUS
  <2> QED
    BY <1>1, <1>5, <1>6, <2>1, Monotone
<1>8. a % Page = 0
  BY <1>1, <1>5, <1>7
<1> QED
  BY <1>2, <1>8 DEF a

\* The accounting of the reaped child is a whole number of pages or none.
LEMMA ReapStep == MeasureInv /\ Reap => MeasureInv'
<1> SUFFICES ASSUME MeasureInv, Reap PROVE MeasureInv'
  OBVIOUS
<1>1. Typed /\ Timed /\ Judged /\ Counted /\ Recomputable /\ HonestRunIsAccepted
  BY DEF MeasureInv
<1>2. pc = "reap" /\ UNCHANGED <<plan, raw, records, summary, verdict>>
      /\ pc' \in {"accountingFailed", "summarize"}
  BY DEF Reap
<1>3. PICK usage \in Rusages : rusage' = {usage} /\ resources' = resource_usage_from_components(usage)
  BY DEF Reap
<1>4. usage \in RusageSet
  BY MeasurementAssumption
<1>5. \A r \in resources' : r.rss % Page = 0
  BY <1>3, <1>4, ConvertedUsage
<1>6. Judged' /\ RecordCount' = RecordCount
  BY <1>1, <1>2, JudgesKept
<1>7. Typed' /\ Timed'
  BY <1>1, <1>2, <1>3, <1>4 DEF Typed, Timed
<1>8. Counted'
  BY <1>1, <1>2, <1>6 DEF Counted
<1>9. Recomputable' /\ HonestRunIsAccepted'
  BY <1>1, <1>2, <1>5 DEF Recomputable, HonestRunIsAccepted, validate_attempt_resources, Counted
<1> QED
  BY <1>6, <1>7, <1>8, <1>9 DEF MeasureInv

\* summarize derives the summary from the records as they are.
LEMMA SummarizeStep == MeasureInv /\ Summarize => MeasureInv'
<1> SUFFICES ASSUME MeasureInv, Summarize PROVE MeasureInv'
  OBVIOUS
<1>1. Typed /\ Timed /\ Judged /\ Counted /\ Recomputable /\ HonestRunIsAccepted
  BY DEF MeasureInv
<1>2. /\ pc = "summarize" /\ pc' = "verify" /\ summary' = SummaryOfRecords
      /\ UNCHANGED <<plan, raw, records, rusage, resources, verdict>>
  BY DEF Summarize
<1>3. Judged' /\ RecordCount' = RecordCount /\ SummaryOfRecords' = SummaryOfRecords
  BY <1>1, <1>2, JudgesKept
<1>4. Typed' /\ Timed' /\ Counted'
  BY <1>1, <1>2, <1>3 DEF Typed, Timed, Counted
<1>5. Recomputable' /\ HonestRunIsAccepted'
  BY <1>1, <1>2, <1>3 DEF Recomputable, HonestRunIsAccepted, validate_attempt_resources
<1> QED
  BY <1>3, <1>4, <1>5 DEF MeasureInv

\* The verifier finds every record in its place and derives the same summary.
LEMMA VerifyStep == MeasureInv /\ Verify => MeasureInv'
<1> SUFFICES ASSUME MeasureInv, Verify PROVE MeasureInv'
  OBVIOUS
<1>1. Typed /\ Timed /\ Judged /\ Counted /\ Recomputable /\ HonestRunIsAccepted
  BY DEF MeasureInv
<1>2. /\ pc = "verify" /\ pc' = "done"
      /\ UNCHANGED <<plan, raw, records, rusage, resources, summary>>
  BY DEF Verify
<1>3. Len(records) = RecordCount /\ summary = SummaryOfRecords
      /\ \A usage \in resources : validate_attempt_resources(usage)
  BY <1>1, <1>2 DEF Counted, Recomputable
<1>4. \A k \in DOMAIN records : validate_measurement_record(records[k], k)
  <2>1. DOMAIN records = 1..Len(records)
    BY <1>1, LenProperties DEF Typed
  <2> QED
    BY <1>1, <2>1 DEF Judged, Fit
<1>5. verdict' = "accepted"
  BY <1>3, <1>4 DEF Verify
<1>6. Judged' /\ RecordCount' = RecordCount
  BY <1>1, <1>2, JudgesKept
<1>7. Typed' /\ Timed' /\ Counted'
  BY <1>1, <1>2, <1>6 DEF Typed, Timed, Counted
<1>8. Recomputable' /\ HonestRunIsAccepted'
  BY <1>1, <1>2, <1>5 DEF Recomputable, HonestRunIsAccepted, validate_attempt_resources
<1> QED
  BY <1>6, <1>7, <1>8 DEF MeasureInv

\* An ended attempt changes nothing.
LEMMA StutterStep == MeasureInv /\ UNCHANGED vars => MeasureInv'
<1> SUFFICES ASSUME MeasureInv, UNCHANGED vars PROVE MeasureInv'
  OBVIOUS
<1>1. Typed /\ Timed /\ Judged /\ Counted /\ Recomputable /\ HonestRunIsAccepted
  BY DEF MeasureInv
<1>2. UNCHANGED <<plan, pc, raw, records, rusage, resources, summary, verdict>>
  BY DEF vars
<1>3. Judged' /\ RecordCount' = RecordCount /\ SummaryOfRecords' = SummaryOfRecords
  BY <1>1, <1>2, JudgesKept
<1>4. Typed' /\ Timed' /\ Counted'
  BY <1>1, <1>2, <1>3 DEF Typed, Timed, Counted
<1>5. Recomputable' /\ HonestRunIsAccepted'
  BY <1>1, <1>2, <1>3 DEF Recomputable, HonestRunIsAccepted, validate_attempt_resources
<1> QED
  BY <1>3, <1>4, <1>5 DEF MeasureInv

\* The invariant holds in every behaviour.
THEOREM MeasurementInvariant == Spec => []MeasureInv
<1>1. MeasureInv /\ [Next]_vars => MeasureInv'
  BY DeriveStep, ObserveStep, EmitStep, AdapterStep, ReapStep, SummarizeStep, VerifyStep,
     StutterStep DEF Next, Terminated
<1> QED
  BY <1>1, MeasureInit, PTL DEF Spec

-----------------------------------------------------------------------------
(* The theorems                                                            *)

\* What a runtime measures and rounds by its own rules is refused neither by
\* the adapter nor by the verifier, for every plan, clock and overhead.
THEOREM HonestAccepted == Spec => []HonestRunIsAccepted
<1>1. MeasureInv => HonestRunIsAccepted
  BY DEF MeasureInv
<1> QED
  BY <1>1, MeasurementInvariant, PTL

\* The bounds of rounded_request_mean_bounds are the ceilings of the means of
\* all times that round to the observations, and no others.
THEOREM TightBounds == Spec => []AggregateBoundsAreTight
<1>1. ASSUME MeasureInv PROVE AggregateBoundsAreTight
  <2>1. SUFFICES ASSUME plan.runtime = "llamaCpp", records # <<>>
                 PROVE  LET seen == records[Len(records)].observations
                            Rounded == [k \in DOMAIN seen |-> seen[k].latency]
                            Raws == {f \in [DOMAIN seen -> 1..MaxNanos] :
                                        \A k \in DOMAIN seen : ceil_micros(f[k]) = Rounded[k]}
                        IN  \E bounds \in rounded_request_mean_bounds(Rounded, Unit) :
                               bounds[1]..bounds[2] = {LlamaMean(f) : f \in Raws}
    BY DEF AggregateBoundsAreTight
  <2> DEFINE n == plan.requests
             record == records[Len(records)]
             seen == record.observations
             Rounded == [k \in DOMAIN seen |-> seen[k].latency]
             Raws == {f \in [DOMAIN seen -> 1..MaxNanos] :
                         \A k \in DOMAIN seen : ceil_micros(f[k]) = Rounded[k]}
  <2>2. plan \in PlanSet /\ n \in Nat \ {0} /\ Unit \in Nat \ {0}
        /\ MaxNanos \in Nat /\ U64Max \in Nat /\ MaxNanos <= U64Max
    BY <1>1, Requests, MeasurementAssumption, WidthAssumption, ClockAssumption DEF MeasureInv, Typed
  <2>3. Len(records) \in 1..Len(records) /\ record \in RecordSet
    <3>1. records \in Seq(RecordSet) /\ Len(records) \in Nat /\ Len(records) # 0
      BY <1>1, <2>1, LenProperties, EmptySeq DEF MeasureInv, Typed
    <3>2. Len(records) \in 1..Len(records)
      BY <3>1
    <3> QED
      BY <3>1, <3>2, ElementOfSeq
  <2>4. Fit(record, Len(records))
    BY <1>1, <2>3 DEF MeasureInv, Judged
  <2>5. seen \in Seq([latency : Nat, ttft : Nat]) /\ Len(seen) = n
    BY <2>1, <2>3, <2>4 DEF RecordSet, Fit, validate_measurement_record, PlausibleObservations
  <2>6. /\ DOMAIN seen = 1..n
        /\ \A k \in 1..n : /\ seen[k].latency \in Nat \ {0}
                           /\ Unit * seen[k].latency <= MaxNanos
    <3>1. DOMAIN seen = 1..n
      BY <2>5, LenProperties
    <3>2. \A k \in 1..n : seen[k] \in [latency : Nat, ttft : Nat]
      BY <2>5, ElementOfSeq
    <3>3. \A k \in 1..n : seen[k].latency > 0
      BY <2>1, <2>4, <3>1 DEF Fit, validate_measurement_record, PlausibleObservations
    <3>4. \A k \in 1..n : Unit * seen[k].latency <= MaxNanos
      BY <2>4, <2>5 DEF Fit
    <3> QED
      BY <3>1, <3>2, <3>3, <3>4
  <2> HIDE DEF record, n
  <2>7. Rounded \in [1..n -> Nat] /\ \A k \in 1..n : Rounded[k] = seen[k].latency
    BY <2>6
  <2>8. ASSUME NEW k \in 1..n
        PROVE  /\ Rounded[k] \in Nat \ {0} /\ Unit * Rounded[k] <= MaxNanos
               /\ Rounded[k] <= U64Max
    <3>1. Rounded[k] \in Nat \ {0} /\ Unit * Rounded[k] <= MaxNanos
      BY <2>6, <2>7
    <3> DEFINE v == Rounded[k]
    <3>2. v * 1 <= v * Unit
      <4>1. 1 <= Unit /\ Unit \in Int /\ 1 \in Int
        BY <2>2
      <4> HIDE DEF v
      <4> QED
        BY <3>1, <4>1, Monotone DEF v
    <3> HIDE DEF Rounded
    <3>3. v * Unit = Unit * v /\ v * 1 = v
      BY <2>2, <3>1
    <3> QED
      BY <2>2, <3>1, <3>2, <3>3
  <2> HIDE DEF Rounded, seen
  <2>9. Values(Rounded)
    BY <2>7, <2>8 DEF Values, n
  <2>10. ASSUME NEW f PROVE f \in Raws <=> RoundTo(f, Rounded)
    <3>1. ASSUME f \in Raws PROVE RoundTo(f, Rounded)
      <4>1. f \in [1..n -> 1..MaxNanos] /\ \A k \in 1..n : ceil_micros(f[k]) = Rounded[k]
        BY <2>6, <3>1
      <4>2. f \in [1..n -> Nat]
        BY <2>2, <4>1
      <4>3. ASSUME NEW k \in 1..n
            PROVE  Unit * (Rounded[k] - 1) < f[k] /\ f[k] <= Unit * Rounded[k]
        <5>1. f[k] \in Nat \ {0} /\ ceil_micros(f[k]) = Rounded[k]
          BY <2>2, <4>1
        <5> QED
          BY <5>1, Micros
      <4> QED
        BY <4>2, <4>3 DEF RoundTo, n
    <3>2. ASSUME RoundTo(f, Rounded) PROVE f \in Raws
      <4>1. /\ f \in [1..n -> Nat]
            /\ \A k \in 1..n : Unit * (Rounded[k] - 1) < f[k] /\ f[k] <= Unit * Rounded[k]
        BY <3>2 DEF RoundTo, n
      <4>2. ASSUME NEW k \in 1..n
            PROVE  f[k] \in 1..MaxNanos /\ ceil_micros(f[k]) = Rounded[k]
        <5> DEFINE v == Rounded[k]
        <5>1. v \in Nat \ {0} /\ Unit * v <= MaxNanos /\ f[k] \in Nat
              /\ Unit * (v - 1) < f[k] /\ f[k] <= Unit * v
          BY <2>8, <4>1
        <5> HIDE DEF v
        <5>2. v - 1 \in Int /\ 0 \in Int /\ 0 <= v - 1 /\ Unit * v \in Int
          BY <2>2, <5>1
        <5>3. Unit * 0 <= Unit * (v - 1) /\ Unit * (v - 1) \in Int
          BY <2>2, <5>2, Monotone
        <5>4. f[k] \in Nat \ {0} /\ f[k] <= MaxNanos
          BY <2>2, <5>1, <5>2, <5>3
        <5>5. v = ceil_micros(f[k])
          BY <5>1, <5>4, Micros
        <5> QED
          BY <2>2, <5>4, <5>5 DEF v
      <4>3. f \in [1..n -> 1..MaxNanos]
        BY <4>1, <4>2
      <4> QED
        BY <2>6, <4>2, <4>3
    <3> QED
      BY <3>1, <3>2
  <2> HIDE DEF Raws
  <2>11. /\ rounded_request_mean_bounds(Rounded, Unit)
              = {<<LowestMean(Rounded), HighestMean(Rounded)>>}
         /\ LowestMean(Rounded) \in Nat \ {0} /\ HighestMean(Rounded) \in Nat
    BY <2>2, <2>9, BoundsOfMean
  <2>12. \A f \in Raws : LlamaMean(f) \in LowestMean(Rounded)..HighestMean(Rounded)
    BY <2>2, <2>9, <2>10, MeanWithinBounds
  <2>13. \A mean \in LowestMean(Rounded)..HighestMean(Rounded) :
            \E f \in Raws : LlamaMean(f) = mean
    <3> TAKE mean \in LowestMean(Rounded)..HighestMean(Rounded)
    <3>1. PICK f : RoundTo(f, Rounded) /\ LlamaMean(f) = mean
      BY <2>2, <2>9, MeanReached
    <3>2. f \in Raws
      BY <2>10, <3>1
    <3> QED
      BY <3>1, <3>2
  <2>14. LowestMean(Rounded)..HighestMean(Rounded) = {LlamaMean(f) : f \in Raws}
    BY <2>12, <2>13
  <2> DEFINE pair == <<LowestMean(Rounded), HighestMean(Rounded)>>
  <2>15. pair[1] = LowestMean(Rounded) /\ pair[2] = HighestMean(Rounded)
         /\ pair \in rounded_request_mean_bounds(Rounded, Unit)
    BY <2>11
  <2> HIDE DEF pair
  <2>16. \E bounds \in rounded_request_mean_bounds(Rounded, Unit) :
            bounds[1]..bounds[2] = {LlamaMean(f) : f \in Raws}
    BY <2>14, <2>15
  <2> QED
    BY <2>16 DEF Raws, Rounded, seen, record
<1> QED
  BY <1>1, MeasurementInvariant, PTL

\* resource_usage_from_components is the exact conversion where every component
\* is one and the result fits, and nothing elsewhere.
LEMMA ExactConversion ==
    ASSUME NEW usage \in RusageSet
    PROVE  LET exact == [cpu |-> (usage.userSec + usage.sysSec) * Second + usage.userMicros
                                 + usage.sysMicros,
                         rss |-> usage.rss * Page]
               wellFormed == /\ {usage.userSec, usage.sysSec, usage.rss} \subseteq Nat
                             /\ {usage.userMicros, usage.sysMicros} \subseteq 0..(Second - 1)
           IN  resource_usage_from_components(usage)
                 = {r \in {exact} : wellFormed /\ {exact.cpu, exact.rss} \subseteq 0..U64Max}
<1> DEFINE us == usage.userSec
           um == usage.userMicros
           ss == usage.sysSec
           sm == usage.sysMicros
           user == us * Second + um
           system == ss * Second + sm
           cpu == (us + ss) * Second + um + sm
           rss == usage.rss * Page
           exact == [cpu |-> cpu, rss |-> rss]
           wellFormed == /\ {us, ss, usage.rss} \subseteq Nat
                         /\ {um, sm} \subseteq 0..(Second - 1)
           Time(seconds, micros) ==
             IF seconds < 0 \/ micros \notin 0..(Second - 1) THEN {}
             ELSE AsU64(seconds * Second + micros)
           times == UNION {AsU64(a + b) : a \in Time(us, um), b \in Time(ss, sm)}
           bytes == IF usage.rss < 0 THEN {} ELSE AsU64(usage.rss * Page)
<1>1. /\ us \in Int /\ um \in Int /\ ss \in Int /\ sm \in Int /\ usage.rss \in Int
      /\ Second \in Nat \ {0} /\ Page \in Nat \ {0} /\ U64Max \in Nat
  BY MeasurementAssumption, WidthAssumption DEF RusageSet
<1>2. resource_usage_from_components(usage) = {[cpu |-> c, rss |-> b] : c \in times, b \in bytes}
  BY DEF resource_usage_from_components
<1>3. user \in Int /\ system \in Int /\ cpu \in Int /\ rss \in Int /\ cpu = user + system
  BY <1>1
<1>4. ASSUME us \in Nat, um \in 0..(Second - 1) PROVE user \in Nat
  <2>1. us * 0 <= us * Second
    BY <1>1, <1>4
  <2> QED
    BY <1>1, <1>4, <2>1
<1>5. ASSUME ss \in Nat, sm \in 0..(Second - 1) PROVE system \in Nat
  <2>1. ss * 0 <= ss * Second
    BY <1>1, <1>5
  <2> QED
    BY <1>1, <1>5, <2>1
<1>6. bytes = {r \in {rss} : usage.rss \in Nat /\ rss \in 0..U64Max}
  BY <1>1 DEF AsU64
<1>7. /\ Time(us, um) = {a \in {user} : us \in Nat /\ um \in 0..(Second - 1) /\ user \in 0..U64Max}
      /\ Time(ss, sm) = {b \in {system} : ss \in Nat /\ sm \in 0..(Second - 1) /\ system \in 0..U64Max}
  BY <1>1 DEF AsU64
<1>8. times = {c \in {cpu} : /\ us \in Nat /\ um \in 0..(Second - 1)
                             /\ ss \in Nat /\ sm \in 0..(Second - 1) /\ cpu \in 0..U64Max}
  <2> HIDE DEF Time
  <2>1. ASSUME NEW c \in times
        PROVE  /\ c = cpu /\ us \in Nat /\ um \in 0..(Second - 1)
               /\ ss \in Nat /\ sm \in 0..(Second - 1) /\ cpu \in 0..U64Max
    <3>1. PICK a \in Time(us, um), b \in Time(ss, sm) : c \in AsU64(a + b)
      OBVIOUS
    <3>2. /\ a = user /\ us \in Nat /\ um \in 0..(Second - 1)
          /\ b = system /\ ss \in Nat /\ sm \in 0..(Second - 1)
      BY <1>7, <3>1
    <3> QED
      BY <1>3, <3>1, <3>2 DEF AsU64
  <2>2. ASSUME us \in Nat, um \in 0..(Second - 1), ss \in Nat, sm \in 0..(Second - 1),
               cpu \in 0..U64Max
        PROVE  cpu \in times
    <3>1. user \in Nat /\ system \in Nat
      BY <1>4, <1>5, <2>2
    <3>2. user \in 0..U64Max /\ system \in 0..U64Max
      <4> HIDE DEF user, system, cpu
      <4> QED
        BY <1>1, <1>3, <2>2, <3>1
    <3>3. user \in Time(us, um) /\ system \in Time(ss, sm)
      BY <1>7, <2>2, <3>2
    <3>4. cpu \in AsU64(user + system)
      <4> HIDE DEF user, system, cpu
      <4> QED
        BY <1>3, <2>2 DEF AsU64
    <3> HIDE DEF user, system, cpu
    <3> QED
      BY <3>3, <3>4
  <2> HIDE DEF times, cpu
  <2> QED
    BY <2>1, <2>2
<1> HIDE DEF times, bytes, cpu, rss
<1>9. {[cpu |-> c, rss |-> b] : c \in times, b \in bytes}
        = {r \in {exact} : wellFormed /\ {cpu, rss} \subseteq 0..U64Max}
  BY <1>6, <1>8
<1>10. exact.cpu = cpu /\ exact.rss = rss
  OBVIOUS
<1> QED
  BY <1>2, <1>9, <1>10 DEF cpu, rss

\* Accounting is converted exactly, or the attempt has none: no component wraps
\* or saturates, for every width.
THEOREM ExactAccounting == Spec => []AccountingIsExact
<1>1. Init => AccountingIsExact
  BY DEF Init, AccountingIsExact
<1>2. AccountingIsExact /\ [Next]_vars => AccountingIsExact'
  <2> SUFFICES ASSUME AccountingIsExact, [Next]_vars PROVE AccountingIsExact'
    OBVIOUS
  <2>1. CASE Reap
    <3>1. PICK usage \in Rusages :
             rusage' = {usage} /\ resources' = resource_usage_from_components(usage)
      BY <2>1 DEF Reap
    <3>2. usage \in RusageSet
      BY MeasurementAssumption
    <3> QED
      BY <3>1, <3>2, ExactConversion DEF AccountingIsExact
  <2>2. CASE UNCHANGED <<rusage, resources>>
    BY <2>2 DEF AccountingIsExact
  <2>3. Reap \/ UNCHANGED <<rusage, resources>>
    BY DEF Next, vars, Derive, Observe, EmitRepetition, Adapter, Summarize, Verify, Terminated
  <2> QED
    BY <2>1, <2>2, <2>3
<1> QED
  BY <1>1, <1>2, PTL DEF Spec
-----------------------------------------------------------------------------
(* The summary                                                             *)

\* The nearest rank of the sorted values is the reference percentile.
LEMMA PercentileIsLeast ==
    ASSUME NEW n \in Nat \ {0}, NEW values \in [1..n -> Nat], NEW percentile \in 1..100
    PROVE  nearest_rank(Sorted(values), percentile) = LeastCovering(values, percentile)
<1> DEFINE v == nearest_rank(Sorted(values), percentile)
           Enough(w) == 100 * Covered(values, w) >= percentile * n
           P(w) == Enough(w) /\ \A x \in Range(values) : Enough(x) => w <= x
           c == CHOOSE w \in Range(values) : P(w)
<1>1. values \in [1..n -> Int] /\ Range(values) \subseteq Int /\ Len(values) = n
  <2>1. Len(values) = n
    BY IsSequence
  <2> QED
    BY <2>1 DEF Range
<1>2. v \in Range(values) /\ Enough(v) /\ \A w \in Int : Enough(w) => v <= w
  BY <1>1, NearestRank
<1>3. LeastCovering(values, percentile) = c
  BY <1>1 DEF LeastCovering, Covered
<1> HIDE DEF v, Enough
<1>4. P(v)
  BY <1>1, <1>2
<1>5. c \in Range(values) /\ P(c)
  <2> HIDE DEF P
  <2> QED
    BY <1>2, <1>4
<1>6. c <= v /\ v <= c
  BY <1>1, <1>2, <1>5
<1> HIDE DEF c
<1>7. c \in Int /\ v \in Int
  BY <1>1, <1>2, <1>5
<1> QED
  BY <1>3, <1>6, <1>7 DEF v

\* Once every record is there the measured ones are those after the warmups.
LEMMA MeasuredAreLast ==
    ASSUME Typed, Judged, Len(records) = RecordCount
    PROVE  /\ plan.repetitions \in Nat \ {0}
           /\ MeasuredLatencies \in [1..plan.repetitions -> Nat]
           /\ MeasuredThroughputs \in [1..plan.repetitions -> Nat]
<1> DEFINE w == plan.warmups
           m == plan.repetitions
           n == w + m
           kept == {k \in DOMAIN records : IsMeasured(records[k])}
           tail == [k \in 1..m |-> records[w + k]]
<1>1. w \in Nat /\ m \in Nat \ {0} /\ n \in Nat /\ w \in 0..n /\ n - w = m
  BY DEF Typed, PlanSet
<1>2. DOMAIN records = 1..n /\ \A k \in 1..n : records[k] \in RecordSet
  BY LenProperties, ElementOfSeq DEF Typed, RecordCount
<1>3. \A k \in 1..n : records[k].place = Place(k)
  BY <1>1 DEF Judged, Fit, validate_measurement_record, RecordCount
<1>4. ASSUME NEW k \in 1..n PROVE IsMeasured(records[k]) <=> k > w
  <2>1. records[k].place = Place(k) /\ k \in Int
    BY <1>3
  <2>2. Place(k).phase = IF k <= w THEN "warmup" ELSE "measured"
    BY DEF Place
  <2> HIDE DEF w
  <2> QED
    BY <1>1, <2>1, <2>2 DEF IsMeasured
<1>5. kept = (w + 1)..n
  BY <1>1, <1>2, <1>4
<1>6. measured_records = tail
  <2>1. Filtered(records, (w + 1)..n) = [k \in 1..(n - w) |-> records[w + k]]
    <3> HIDE DEF w, m, n
    <3> QED
      BY <1>1, FilteredTail
  <2> QED
    BY <1>1, <1>5, <2>1 DEF measured_records
<1>7. \A k \in 1..m : tail[k] \in RecordSet
  BY <1>1, <1>2
<1>8. DOMAIN tail = 1..m
  OBVIOUS
<1> HIDE DEF tail, m
<1>9. MeasuredLatencies \in [1..m -> Nat] /\ MeasuredThroughputs \in [1..m -> Nat]
  BY <1>6, <1>7, <1>8 DEF MeasuredLatencies, MeasuredThroughputs, RecordSet
<1> QED
  BY <1>1, <1>9 DEF m

\* The summary is empty until it is derived, and is then that of the records,
\* none of which is missing.
SummaryInv ==
    \/ summary = [latency |-> {}, throughput |-> {}] /\ pc \notin {"verify", "done"}
    \/ /\ pc \in {"verify", "done"}
       /\ summary = SummaryOfRecords
       /\ Len(records) = RecordCount

LEMMA SummaryStep == MeasureInv /\ SummaryInv /\ [Next]_vars => SummaryInv'
<1> SUFFICES ASSUME MeasureInv, SummaryInv, [Next]_vars PROVE SummaryInv'
  OBVIOUS
<1>0. Judged /\ Counted
  BY DEF MeasureInv
<1>1. CASE Derive \/ Observe \/ EmitRepetition \/ Adapter \/ Reap
  BY <1>1 DEF Derive, Observe, EmitRepetition, Adapter, Reap, SummaryInv
<1>2. CASE Summarize
  <2>1. UNCHANGED <<plan, records>> /\ summary' = SummaryOfRecords /\ pc' = "verify"
    BY <1>2 DEF Summarize
  <2>2. Len(records) = RecordCount
    BY <1>0, <1>2 DEF Counted, Summarize
  <2>3. SummaryOfRecords' = SummaryOfRecords /\ RecordCount' = RecordCount
    BY <1>0, <2>1, JudgesKept
  <2> QED
    BY <2>1, <2>2, <2>3 DEF SummaryInv
<1>3. CASE Verify \/ Terminated \/ UNCHANGED vars
  <2>1. UNCHANGED <<plan, records, summary>> /\ (pc' = pc \/ (pc = "verify" /\ pc' = "done"))
    <3>1. CASE Verify
      BY <3>1 DEF Verify
    <3>2. CASE Terminated \/ UNCHANGED vars
      <4>1. UNCHANGED vars
        BY <3>2 DEF Terminated
      <4> QED
        BY <4>1 DEF vars
    <3> QED
      BY <1>3, <3>1, <3>2
  <2>2. SummaryOfRecords' = SummaryOfRecords /\ RecordCount' = RecordCount
    BY <1>0, <2>1, JudgesKept
  <2> QED
    BY <2>1, <2>2 DEF SummaryInv
<1> QED
  BY <1>1, <1>2, <1>3 DEF Next

\* A summary of all the records is exact.
LEMMA DerivedIsExact ==
    ASSUME Typed, Judged, Len(records) = RecordCount, summary = SummaryOfRecords
    PROVE  SummaryIsExact
<1> DEFINE n == plan.repetitions
           values == MeasuredLatencies
           rates == MeasuredThroughputs
<1>1. n \in Nat \ {0} /\ values \in [1..n -> Nat] /\ rates \in [1..n -> Nat]
  BY MeasuredAreLast
<1> HIDE DEF n, values, rates
<1>2. Len(values) = n /\ Len(rates) = n
  BY <1>1, IsSequence
<1>3. summary.latency = describe_micros(values) /\ summary.throughput = mean_u64(rates)
  BY DEF SummaryOfRecords, values, rates
<1>0. \A a, b \in Int : a * b = b * a
  OBVIOUS
<1>4. ASSUME NEW latency \in summary.latency
      PROVE  /\ latency.p50 = LeastCovering(values, 50)
             /\ latency.p95 = LeastCovering(values, 95)
             /\ latency.mean * n <= SumFunction(values)
             /\ SumFunction(values) < (latency.mean + 1) * n
  <2>1. latency = Description(values)
    BY <1>1, <1>3, Described
  <2>2. /\ latency.p50 = nearest_rank(Sorted(values), 50)
        /\ latency.p95 = nearest_rank(Sorted(values), 95)
        /\ latency.mean = SumFunction(values) \div n
    BY <1>2, <2>1 DEF Description
  <2>3. 50 \in 1..100 /\ 95 \in 1..100
    OBVIOUS
  <2>4. /\ nearest_rank(Sorted(values), 50) = LeastCovering(values, 50)
        /\ nearest_rank(Sorted(values), 95) = LeastCovering(values, 95)
    BY <1>1, <2>3, PercentileIsLeast
  <2>5. /\ SumFunction(values) \div n \in Nat
        /\ n * (SumFunction(values) \div n) <= SumFunction(values)
        /\ SumFunction(values) < n * ((SumFunction(values) \div n) + 1)
    BY <1>1, MeanOf
  <2>6. /\ latency.mean \in Nat
        /\ n * latency.mean <= SumFunction(values)
        /\ SumFunction(values) < n * (latency.mean + 1)
    BY <2>2, <2>5
  <2>7. n * latency.mean = latency.mean * n /\ n * (latency.mean + 1) = (latency.mean + 1) * n
    <3>1. n \in Int /\ latency.mean \in Int /\ latency.mean + 1 \in Int
      BY <1>1, <2>6
    <3> QED
      BY <1>0, <3>1
  <2> QED
    BY <2>2, <2>4, <2>6, <2>7
<1>5. ASSUME NEW throughput \in summary.throughput
      PROVE  /\ throughput * n <= SumFunction(rates)
             /\ SumFunction(rates) < (throughput + 1) * n
  <2>1. /\ SumFunction(rates) \div n \in Nat
        /\ n * (SumFunction(rates) \div n) <= SumFunction(rates)
        /\ SumFunction(rates) < n * ((SumFunction(rates) \div n) + 1)
        /\ mean_u64(rates) = AsU64(SumFunction(rates) \div n)
    BY <1>1, MeanOf
  <2>2. throughput = SumFunction(rates) \div n
    BY <1>3, <2>1 DEF AsU64
  <2>3. /\ throughput \in Nat
        /\ n * throughput <= SumFunction(rates)
        /\ SumFunction(rates) < n * (throughput + 1)
    BY <2>1, <2>2
  <2>4. n * throughput = throughput * n /\ n * (throughput + 1) = (throughput + 1) * n
    BY <1>1, <2>3
  <2> QED
    BY <2>3, <2>4
<1> QED
  BY <1>2, <1>4, <1>5 DEF SummaryIsExact, values, rates, n

\* summarize writes the integer mean and the nearest-rank percentiles of the
\* measured repetitions alone, in whatever order their latencies came, and
\* summary.json keeps them.
THEOREM ExactSummary == Spec => []SummaryIsExact
<1>1. Init => SummaryInv
  BY DEF Init, SummaryInv
<1>2. MeasureInv /\ SummaryInv => SummaryIsExact
  <2> SUFFICES ASSUME MeasureInv, SummaryInv PROVE SummaryIsExact
    OBVIOUS
  <2>1. Typed /\ Judged
    BY DEF MeasureInv
  <2>2. CASE summary = [latency |-> {}, throughput |-> {}]
    BY <2>2 DEF SummaryIsExact
  <2>3. CASE summary = SummaryOfRecords /\ Len(records) = RecordCount
    BY <2>1, <2>3, DerivedIsExact
  <2> QED
    BY <2>2, <2>3 DEF SummaryInv
<1> QED
  BY <1>1, <1>2, MeasurementInvariant, SummaryStep, PTL DEF Spec

=============================================================================
