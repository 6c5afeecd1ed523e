----------------------------- MODULE Statistics -----------------------------
(***************************************************************************)
(* The integer arithmetic of execution.rs, evidence.rs and comparison.rs.  *)
(* A Rust Option is a set with at most one element.  u128 and i128         *)
(* intermediates are exact here: with at most 10000 values below 2^64 and  *)
(* the factors used they stay below 2^127.  U64Max is the u64 a result     *)
(* must fit in.                                                            *)
(***************************************************************************)
EXTENDS Integers, Sequences, FiniteSets, Functions

CONSTANT U64Max

ASSUME WidthAssumption == U64Max \in Nat

AsU64(value) == {v \in {value} : v \in 0..U64Max}

GreaterOf(a, b) == IF a > b THEN a ELSE b

SmallerOf(a, b) == IF a < b THEN a ELSE b

\* ceil_div_u128 and div_ceil
ceil_div(dividend, divisor) ==
    dividend \div divisor + (IF dividend % divisor # 0 THEN 1 ELSE 0)

\* i128 division truncates toward zero; \div rounds toward minus infinity.
truncated_div(dividend, divisor) ==
    IF dividend >= 0 THEN dividend \div divisor ELSE -((-dividend) \div divisor)

mean_u64(values) ==
    IF values = <<>> THEN {} ELSE AsU64(SumFunction(values) \div Len(values))

\* rank.saturating_sub(1) counts from zero: rank 0 and rank 1 are the first value.
nearest_rank(sorted, percentile) ==
    sorted[GreaterOf(ceil_div(percentile * Len(sorted), 100), 1)]

\* iter().filter(): the values at the positions "kept", in their order.  The
\* n-th of them is the one with n kept positions up to its own.
Filtered(values, kept) ==
    [n \in 1..Cardinality(kept) |->
        values[CHOOSE k \in kept : Cardinality({j \in kept : j <= k}) = n]]

\* How many values are not after the k-th, equal ones in the order they have.
RankOf(values, k) ==
    Cardinality({j \in DOMAIN values :
                    values[j] < values[k] \/ (values[j] = values[k] /\ j <= k)})

\* sort_unstable, which no value can tell from a stable sort: every value goes
\* to its rank.
Sorted(values) ==
    [n \in DOMAIN values |-> values[CHOOSE k \in DOMAIN values : RankOf(values, k) = n]]

\* Mutant: the percentiles are taken before sorting.
describe_micros_Unsorted(values) ==
    {[mean |-> mean, p50 |-> nearest_rank(values, 50), p95 |-> nearest_rank(values, 95)] :
        mean \in mean_u64(Sorted(values))}

describe_micros(values) ==
    {[mean |-> mean, p50 |-> nearest_rank(Sorted(values), 50),
      p95 |-> nearest_rank(Sorted(values), 95)] : mean \in mean_u64(Sorted(values))}

\* Mutant: the lower bound forgets that a rounded value is above its floor.
rounded_request_mean_bounds_Loose(values, unit) ==
    LET count == Len(values)
        rounded == SumFunction(values)
    IN  IF count = 0 \/ rounded < count THEN {}
        ELSE {<<minimum, maximum>> :
                minimum \in AsU64(ceil_div((rounded - count) * unit, count * unit)),
                maximum \in AsU64(ceil_div(rounded * unit, count * unit))}

\* The least and the greatest ceiling of a mean of raw times that round up to
\* these values; "unit" is nanoseconds per microsecond.
rounded_request_mean_bounds(values, unit) ==
    LET count == Len(values)
        rounded == SumFunction(values)
    IN  IF count = 0 \/ rounded < count THEN {}
        ELSE {<<minimum, maximum>> :
                minimum \in AsU64(ceil_div((rounded - count) * unit + count, count * unit)),
                maximum \in AsU64(ceil_div(rounded * unit, count * unit))}

\* The percentage is in thousandths of a percent and undefined over zero.
compare_metric(baseline, candidate) ==
    [baseline |-> baseline, candidate |-> candidate,
     delta |-> candidate - baseline,
     percent |-> {truncated_div((candidate - baseline) * 100000, b) : b \in {baseline} \ {0}}]
=============================================================================
