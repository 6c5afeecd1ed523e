--------------------------- MODULE MCMeasurement ---------------------------
(***************************************************************************)
(* Three nanoseconds make a microsecond, so that every remainder occurs;   *)
(* a request takes up to two microseconds, a whole number of them so that  *)
(* no raw time behind a rounded one is cut off.                            *)
(***************************************************************************)
EXTENDS Measurement, TLC

Plan(runtime, requests, warmups, repetitions) ==
    [runtime |-> runtime, requests |-> requests, warmups |-> warmups, repetitions |-> repetitions]

SmallPlans ==
    {Plan("localFake", 2, 1, 4), Plan("localFake", 1, 0, 1), Plan("cpuProbe", 2, 0, 2), Plan("cpuProbe", 1, 1, 1),
     Plan("llamaCpp", 1, 0, 2), Plan("llamaCpp", 3, 0, 1)}

Draw(latency, ttft, throughput) ==
    [latency |-> latency, ttft |-> ttft, throughput |-> throughput]

\* Both ends of every span; the shortest latency meets the longest first token.
Draws == {Draw(0, 9000, 0), Draw(40001, 9001, 90001), Draw(40000, 18001, 90000),
          Draw(7, 0, 1), Draw(20000, 9000, 5)}

OverheadSet == {0, 90}

Usage(us, um, ss, sm, rss) ==
    [userSec |-> us, userMicros |-> um, sysSec |-> ss, sysMicros |-> sm, rss |-> rss]

\* Around zero, the last microsecond, and u64 (scaled to 99999, so that both
\* the product and the sum can cross it).
EdgeRusages ==
    {Usage(0, 0, 0, 0, 0), Usage(1, 9, 2, 9, 7), Usage(-1, 5, 0, 0, 1), Usage(0, 10, 0, 0, 1),
     Usage(0, 0, 0, -1, 1), Usage(9999, 9, 0, 0, 1), Usage(10000, 0, 0, 0, 1),
     Usage(9999, 9, 0, 1, 1), Usage(5000, 0, 5000, 0, 1), Usage(0, 1, 0, 1, -1),
     Usage(0, 1, 0, 1, 24999), Usage(0, 1, 0, 1, 25000)}

\* Sorting by ranks and filtering by positions are what TLC's own operators do.
ASSUME SortedAndFiltered ==
    \A n \in 0..4 : \A values \in [1..n -> 1..3] :
        /\ Sorted(values) = SortSeq(values, <)
        /\ Filtered(values, {k \in 1..n : values[k] # 2}) = SelectSeq(values, LAMBDA v : v # 2)

\* The two percentiles differ from the extremes only from twenty samples on.
ASSUME NearestRankOfMany ==
    \A n \in 1..41 : \A percentile \in {50, 95} :
        LET values == [k \in 1..n |-> (7 * k) % 43]
        IN  nearest_rank(Sorted(values), percentile) = LeastCovering(values, percentile)
=============================================================================
