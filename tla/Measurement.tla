---------------------------- MODULE Measurement ----------------------------
(***************************************************************************)
(* The numbers of one attempt from the clock to the verdict: what each     *)
(* runtime observes (benchplane-cpu-probe.rs, the packaged llama.cpp       *)
(* helper, local_fake.rs), how it rounds that into records, what the       *)
(* adapters accept, how wait4 accounting becomes resources, how the run    *)
(* summarizes, and what the verifier later recomputes from the records.    *)
(*                                                                         *)
(* Units are scaled: Unit nanoseconds make a microsecond, Second           *)
(* microseconds a second, Page bytes a kibibyte.                           *)
(***************************************************************************)
EXTENDS Statistics

CONSTANTS
    Plans,       \* resolved plans: runtime, requests, warmups, repetitions
    Unit,        \* nanoseconds per microsecond (1000)
    Second,      \* microseconds per second (1000000)
    Page,        \* bytes per kibibyte (1024)
    RateScale,   \* milli-requests per second of one request per microsecond (10^9)
    MaxNanos,    \* bound: nanoseconds one request takes
    Overheads,   \* nanoseconds a repetition takes beyond its requests
    FakeDraws,   \* eight-byte digest prefixes, one per metric of local_fake
    Rusages      \* accounting wait4 may report

PlanSet == [runtime : {"localFake", "cpuProbe", "llamaCpp"}, requests : Nat \ {0},
            warmups : Nat, repetitions : Nat \ {0}]

RusageSet == [userSec : Int, userMicros : Int, sysSec : Int, sysMicros : Int, rss : Int]

ASSUME MeasurementAssumption ==
    /\ Plans \subseteq PlanSet
    /\ {Unit, Second, Page, RateScale} \subseteq Nat \ {0}
    /\ MaxNanos \in Nat
    /\ Overheads \subseteq Nat
    /\ FakeDraws \subseteq [latency : Nat, ttft : Nat, throughput : Nat]
    /\ Rusages \subseteq RusageSet

\* The helpers count nanoseconds in 64 bits, and the bound is a whole number of
\* microseconds: a raw time that rounds like one within the bound is within it.
ASSUME ClockAssumption ==
    /\ MaxNanos <= U64Max
    /\ MaxNanos % Unit = 0

VARIABLES
    plan,       \* the resolved plan
    pc,         \* the next step of the attempt
    raw,        \* the requests of this repetition, in nanoseconds
    records,    \* the measurement records so far
    rusage,     \* what wait4 reported, as a set with at most one element
    resources,  \* ProcessResources, as a set with at most one element
    summary,    \* the latency and the throughput of summary.json, each an Option
    verdict     \* the verifier's

vars == <<plan, pc, raw, records, rusage, resources, summary, verdict>>

Init ==
    /\ plan \in Plans
    /\ pc = IF plan.runtime = "localFake" THEN "derive" ELSE "request"
    /\ raw = <<>>
    /\ records = <<>>
    /\ rusage = {}
    /\ resources = {}
    /\ summary = [latency |-> {}, throughput |-> {}]
    /\ verdict = "none"

RecordCount == plan.warmups + plan.repetitions

\* The place a record has in the protocol: warmups first, both from one.
Place(position) ==
    IF position <= plan.warmups THEN [phase |-> "warmup", index |-> position]
    ELSE [phase |-> "measured", index |-> position - plan.warmups]

RecordOf(latency, ttft, throughput, observations) ==
    [place |-> Place(Len(records) + 1), latency |-> latency, ttft |-> ttft,
     throughput |-> throughput, observations |-> observations]

-----------------------------------------------------------------------------
(* The runtimes                                                            *)

\* Mutant: one more value in the range of the time to first token.
FakeTtft_SpanOff(draw) == 1000 + (draw % 9002)

\* derive_value: minimum + value % span, for each of the three metrics.
FakeTtft(draw) == 1000 + (draw % 9001)

FakeLatency(draw) == 10000 + (draw % 40001)

FakeThroughput(draw) == 10000 + (draw % 90001)

\* local_fake::measurement
Derive ==
    /\ pc = "derive"
    /\ \E draw \in FakeDraws :
          records' = Append(records, RecordOf(FakeLatency(draw.latency), FakeTtft(draw.ttft),
                                              FakeThroughput(draw.throughput), <<>>))
    /\ pc' = IF Len(records') = RecordCount THEN "summarize" ELSE "derive"
    /\ UNCHANGED <<plan, raw, rusage, resources, summary, verdict>>

\* run_request of the llama.cpp helper gives up on a clock that did not move
\* before the first token; the CPU probe takes any duration.
Observe ==
    /\ pc = "request"
    /\ \E latency \in 0..MaxNanos : \E ttft \in 0..latency :
          IF plan.runtime = "llamaCpp" /\ ttft = 0
          THEN pc' = "helperFailed" /\ UNCHANGED raw
          ELSE /\ raw' = Append(raw, [latency |-> latency, ttft |-> ttft])
               /\ pc' = IF Len(raw') = plan.requests THEN "emit" ELSE "request"
    /\ UNCHANGED <<plan, records, rusage, resources, summary, verdict>>

Latencies == [k \in DOMAIN raw |-> raw[k].latency]

Ttfts == [k \in DOMAIN raw |-> raw[k].ttft]

ceil_micros(nanos) == GreaterOf(ceil_div(nanos, Unit), 1)

\* emit_repetition of benchplane-cpu-probe.rs: the ceiling of the total first,
\* then the integer mean, and at least one microsecond at the end.
CpuProbeRecord(overhead) ==
    LET latency == ceil_micros(SumFunction(Latencies)) \div plan.requests
        ttft == SmallerOf(ceil_micros(SumFunction(Ttfts)) \div plan.requests, latency)
        wall == ceil_micros(SumFunction(Latencies) + overhead)
    IN  {RecordOf(GreaterOf(latency, 1), GreaterOf(ttft, 1), GreaterOf(throughput, 1), <<>>) :
            throughput \in AsU64((plan.requests * RateScale) \div wall)}

\* ceil_mean_micros of the helper, over the raw total.
LlamaMean(nanos) == GreaterOf(ceil_div(SumFunction(nanos), plan.requests * Unit), 1)

\* emit_repetition of the llama.cpp helper.
LlamaRecord(overhead) ==
    LET latency == LlamaMean(Latencies)
        elapsed == GreaterOf(SumFunction(Latencies) + overhead, 1)
        Observation(k) ==
            [latency |-> ceil_micros(raw[k].latency),
             ttft |-> SmallerOf(ceil_micros(raw[k].latency), ceil_micros(raw[k].ttft))]
    IN  RecordOf(latency, SmallerOf(latency, LlamaMean(Ttfts)),
                 GreaterOf((plan.requests * RateScale * Unit) \div elapsed, 1),
                 [k \in DOMAIN raw |-> Observation(k)])

EmitRepetition ==
    /\ pc = "emit"
    /\ \E overhead \in Overheads :
          \E record \in IF plan.runtime = "cpuProbe" THEN CpuProbeRecord(overhead)
                        ELSE {LlamaRecord(overhead)} :
             records' = Append(records, record)
    /\ raw' = <<>>
    /\ pc' = "adapter"
    /\ UNCHANGED <<plan, rusage, resources, summary, verdict>>

-----------------------------------------------------------------------------
(* The adapter, the accounting and the summary                             *)

\* The conditions on the values that both adapters and the verifier share.
PlausibleValues(record) ==
    /\ record.latency > 0
    /\ record.ttft > 0
    /\ record.ttft <= record.latency
    /\ record.throughput > 0

PlausibleObservations(record) ==
    /\ Len(record.observations) = plan.requests
    /\ \A k \in DOMAIN record.observations :
          /\ record.observations[k].latency > 0
          /\ record.observations[k].ttft > 0
          /\ record.observations[k].ttft <= record.observations[k].latency

\* validate_record of cpu_probe.rs and of llama_cpp.rs
validate_record(record, position) ==
    /\ record.place = Place(position)
    /\ PlausibleValues(record)
    /\ plan.runtime = "llamaCpp" => PlausibleObservations(record)

Adapter ==
    /\ pc = "adapter"
    /\ pc' = IF ~validate_record(records[Len(records)], Len(records)) THEN "refused"
             ELSE IF Len(records) = RecordCount THEN "reap" ELSE "request"
    /\ UNCHANGED <<plan, raw, records, rusage, resources, summary, verdict>>

\* Mutant: the microseconds are added without the check on the width.
resource_usage_Unchecked(usage) ==
    LET Time(seconds, micros) == (seconds * Second + micros) % (U64Max + 1)
    IN  {[cpu |-> (Time(usage.userSec, usage.userMicros)
                   + Time(usage.sysSec, usage.sysMicros)) % (U64Max + 1),
          rss |-> bytes] :
            bytes \in AsU64(usage.rss * Page)}

\* resource_usage_from_components: every conversion is checked, none wraps.
resource_usage_from_components(usage) ==
    LET Time(seconds, micros) ==
            IF seconds < 0 \/ micros \notin 0..(Second - 1) THEN {}
            ELSE AsU64(seconds * Second + micros)
    IN  {[cpu |-> cpu, rss |-> bytes] :
            cpu \in UNION {AsU64(user + system) : user \in Time(usage.userSec, usage.userMicros),
                                                  system \in Time(usage.sysSec, usage.sysMicros)},
            bytes \in IF usage.rss < 0 THEN {} ELSE AsU64(usage.rss * Page)}

\* reap converts the accounting of the child that ended.
Reap ==
    /\ pc = "reap"
    /\ \E usage \in Rusages :
          /\ rusage' = {usage}
          /\ resources' = resource_usage_from_components(usage)
    /\ pc' = IF resources' = {} THEN "accountingFailed" ELSE "summarize"
    /\ UNCHANGED <<plan, raw, records, summary, verdict>>

IsMeasured(record) == record.place.phase = "measured"

measured_records == Filtered(records, {k \in DOMAIN records : IsMeasured(records[k])})

MeasuredLatencies == [k \in DOMAIN measured_records |-> measured_records[k].latency]

MeasuredThroughputs == [k \in DOMAIN measured_records |-> measured_records[k].throughput]

\* What execution.rs derives, and evidence.rs derives again.
SummaryOfRecords ==
    [latency |-> describe_micros(MeasuredLatencies), throughput |-> mean_u64(MeasuredThroughputs)]

\* summarize of execution.rs, for a run whose every repetition is there.
Summarize ==
    /\ pc = "summarize"
    /\ summary' = SummaryOfRecords
    /\ pc' = "verify"
    /\ UNCHANGED <<plan, raw, records, rusage, resources, verdict>>

-----------------------------------------------------------------------------
(* The verifier                                                            *)

\* validate_llama_v2_aggregate_consistency
AggregatesAgree(record) ==
    LET Within(value, values) ==
            \E bounds \in rounded_request_mean_bounds(values, Unit) :
                value \in bounds[1]..bounds[2]
    IN  /\ Within(record.latency, [k \in DOMAIN record.observations |-> record.observations[k].latency])
        /\ Within(record.ttft, [k \in DOMAIN record.observations |-> record.observations[k].ttft])

validate_measurement_record(record, position) ==
    /\ record.place = Place(position)
    /\ PlausibleValues(record)
    /\ IF plan.runtime = "llamaCpp"
       THEN PlausibleObservations(record) /\ AggregatesAgree(record)
       ELSE record.observations = <<>>

\* validate_attempt_resources: resources are an exact number of kibibytes, and
\* only helper runtimes have them.
validate_attempt_resources(usage) ==
    usage.rss % Page = 0 /\ plan.runtime # "localFake"

Verify ==
    /\ pc = "verify"
    /\ verdict' = IF /\ Len(records) = RecordCount
                     /\ \A k \in DOMAIN records : validate_measurement_record(records[k], k)
                     /\ \A usage \in resources : validate_attempt_resources(usage)
                     /\ summary = SummaryOfRecords
                  THEN "accepted" ELSE "refused"
    /\ pc' = "done"
    /\ UNCHANGED <<plan, raw, records, rusage, resources, summary>>

Terminated ==
    pc \in {"done", "helperFailed", "refused", "accountingFailed"} /\ UNCHANGED vars

Next ==
    \/ Derive \/ Observe \/ EmitRepetition \/ Adapter \/ Reap \/ Summarize \/ Verify
    \/ Terminated

Spec == Init /\ [][Next]_vars

-----------------------------------------------------------------------------
(* Properties                                                              *)

\* What a runtime measures and rounds by its own rules is never refused: not
\* by the adapter that supervises it, nor later by the verifier, whatever the
\* clock returned (one nanosecond, equal times, or a repetition slower than
\* its throughput can express).
HonestRunIsAccepted == pc # "refused" /\ verdict # "refused"

\* The mean an observed repetition may report is exactly one of those its
\* rounded observations allow: the bounds of rounded_request_mean_bounds are
\* the ceilings of the means of all raw times that round to the observations,
\* and no others.
AggregateBoundsAreTight ==
    (plan.runtime = "llamaCpp" /\ records # <<>>) =>
        LET seen == records[Len(records)].observations
            Rounded == [k \in DOMAIN seen |-> seen[k].latency]
            Raws == {f \in [DOMAIN seen -> 1..MaxNanos] :
                        \A k \in DOMAIN seen : ceil_micros(f[k]) = Rounded[k]}
        IN  \E bounds \in rounded_request_mean_bounds(Rounded, Unit) :
               bounds[1]..bounds[2] = {LlamaMean(f) : f \in Raws}

\* The reference of nearest rank: the least sample that at least this share of
\* the samples do not exceed.
LeastCovering(values, percentile) ==
    LET Covered(v) == Cardinality({k \in DOMAIN values : values[k] <= v})
    IN  CHOOSE v \in Range(values) :
           /\ 100 * Covered(v) >= percentile * Len(values)
           /\ \A w \in Range(values) : 100 * Covered(w) >= percentile * Len(values) => v <= w

\* The summary is the integer mean and the nearest-rank percentiles of the
\* measured repetitions alone, for one sample as for several, in any order.
SummaryIsExact ==
    \A latency \in summary.latency, throughput \in summary.throughput :
        LET values == MeasuredLatencies
            rates == MeasuredThroughputs
        IN  /\ latency.p50 = LeastCovering(values, 50)
            /\ latency.p95 = LeastCovering(values, 95)
            /\ latency.mean * Len(values) <= SumFunction(values)
            /\ SumFunction(values) < (latency.mean + 1) * Len(values)
            /\ throughput * Len(rates) <= SumFunction(rates)
            /\ SumFunction(rates) < (throughput + 1) * Len(rates)
            /\ Len(values) = plan.repetitions

\* Accounting is converted exactly or the attempt fails: no negative component
\* and no value beyond u64 is recorded, wrapped or saturated.
AccountingIsExact ==
    \A usage \in rusage :
        LET exact == [cpu |-> (usage.userSec + usage.sysSec) * Second + usage.userMicros + usage.sysMicros,
                      rss |-> usage.rss * Page]
            wellFormed == /\ {usage.userSec, usage.sysSec, usage.rss} \subseteq Nat
                          /\ {usage.userMicros, usage.sysMicros} \subseteq 0..(Second - 1)
        IN  resources = {r \in {exact} : wellFormed /\ {exact.cpu, exact.rss} \subseteq 0..U64Max}
=============================================================================
