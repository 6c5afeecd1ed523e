----------------------------- MODULE Comparison -----------------------------
(***************************************************************************)
(* "benchplane evidence compare": comparison.rs and its command in         *)
(* main.rs, over bundles as far as the verifier's record checks            *)
(* (evidence.rs) constrain them.  The files and checksums of a bundle are  *)
(* the subject of BundleVerifier; here they are the one Boolean "intact".  *)
(* Every .expect() of the code is an explicit step to "panic", so that     *)
(* nothing the verifier or eligible_contract promises is taken for         *)
(* granted.  A Rust Option is a set with at most one element.              *)
(***************************************************************************)
EXTENDS Statistics, SequencesExt

CONSTANTS
    Bundles,     \* the bundles a user may name
    PlatformFacts, LineageFacts, NvidiaFacts,
                 \* the compared facts of the platform and of benchplane, of the
                 \* store lineage of the runtime, and of the NVIDIA device
    Unit         \* nanoseconds per microsecond

ASSUME ComparisonAssumption ==
    /\ Unit \in Nat \ {0}
    /\ LineageFacts = {"engine", "model", "backend"}
    /\ \A b \in Bundles : b.requests > 0 /\ b.repetitions > 0 \* Experiment::validate

\* The field names of the report are distinct, a target is one of LlamaCppTarget's
\* and a comparison with the supported lineage is true or false.
ASSUME ReportAssumption ==
    /\ PlatformFacts \cap (LineageFacts \cup NvidiaFacts \cup {"nvidia"}) = {}
    /\ NvidiaFacts \cap (LineageFacts \cup {"nvidia"}) = {}
    /\ \A b \in Bundles :
          /\ b.target \in {"cpu", "nvidiaCuda"}
          /\ \A p \in b.provenance : p.pinned \in BOOLEAN

\* The widths of the records in a bundle: every time, rate and
\* amount is a u64, every count of a plan is unsigned.
ObservationSet == [latency : 0..U64Max, ttft : 0..U64Max]

ASSUME BundleAssumption ==
    \A b \in Bundles :
        /\ {b.requests, b.warmups, b.repetitions} \subseteq Nat
        /\ b.measurements \in Seq(Range(b.measurements))
        /\ \A record \in Range(b.measurements) :
              /\ {record.latency, record.ttft, record.throughput} \subseteq 0..U64Max
              /\ record.observations \in Seq(ObservationSet)
        /\ \A used \in b.resources : {used.cpu, used.rss} \subseteq 0..U64Max

VARIABLES
    pair,      \* the two bundles, by role
    json,      \* --json
    pc,        \* the next step
    report,    \* the EvidenceComparison, once there is one
    exit       \* the exit code, 101 for a panic

vars == <<pair, json, pc, report, exit>>

Init ==
    /\ pair \in [{"baseline", "candidate"} -> Bundles]
    /\ json \in BOOLEAN
    /\ pc = "verifyBaseline"
    /\ report = {}
    /\ exit = -1

V2 == "v2"

-----------------------------------------------------------------------------
(* What verify_evidence_bundle_data promises of the records               *)

\* The terminal status and the measured records each scenario must have left.
FakeOutcome(scenario, repetitions) ==
    CASE scenario = "success" -> <<"succeeded", repetitions>>
      [] scenario = "insufficientMeasurements" -> <<"succeeded", repetitions - 1>>
      [] scenario = "runtimeFailure" -> <<"failed", SmallerOf(repetitions - 1, 1)>>
      [] scenario = "interrupted" -> <<"interrupted", SmallerOf(repetitions - 1, 1)>>

\* <<warmups, measured>>, or nothing when the status does not fit the runtime
expected_measurement_counts(bundle) ==
    LET fake == FakeOutcome(bundle.scenario, bundle.repetitions)
    IN  CASE bundle.runtime = "localFake" ->
                IF bundle.status = fake[1] THEN {<<bundle.warmups, fake[2]>>} ELSE {}
          [] bundle.runtime \in {"cpuProbe", "llamaCpp"} ->
                CASE bundle.status = "succeeded" -> {<<bundle.warmups, bundle.repetitions>>}
                  [] bundle.status = "failed" -> {<<0, 0>>}
                  [] OTHER -> {}
          [] OTHER -> {}

Latencies(observations) == [k \in DOMAIN observations |-> observations[k].latency]

Ttfts(observations) == [k \in DOMAIN observations |-> observations[k].ttft]

\* Mutant: the aggregate is not compared with its observations.
AggregateConsistent_Unchecked(record) == TRUE

\* validate_llama_v2_aggregate_consistency
AggregateConsistent(record) ==
    \E latency \in rounded_request_mean_bounds(Latencies(record.observations), Unit),
       ttft \in rounded_request_mean_bounds(Ttfts(record.observations), Unit) :
        /\ record.latency \in latency[1]..latency[2]
        /\ record.ttft \in ttft[1]..ttft[2]

Plausible(values) == 0 < values.ttft /\ values.ttft <= values.latency

\* validate_measurement_record; the position decides the phase.
RecordAccepted(bundle, warmups, position) ==
    LET record == bundle.measurements[position]
    IN  /\ record.phase = IF position <= warmups THEN "warmup" ELSE "measured"
        /\ Plausible(record)
        /\ record.throughput > 0
        /\ record.generator = bundle.measurements[1].generator
        /\ CASE bundle.runtime = "llamaCpp" ->
                  \/ /\ record.generator = "v1"
                     /\ bundle.target = "cpu"
                     /\ record.observations = <<>>
                  \/ /\ record.generator = V2
                     /\ Len(record.observations) = bundle.requests
                     /\ \A k \in DOMAIN record.observations : Plausible(record.observations[k])
                     /\ AggregateConsistent(record)
             [] OTHER -> record.generator = bundle.runtime /\ record.observations = <<>>

\* Mutant: the engine and the model may be any.
SupportedLineage_Unpinned(p) ==
    /\ p.generator \in {"v1", V2}
    /\ {p.lineage[f] = {} : f \in LineageFacts} # BOOLEAN
    /\ p.lineage["engine"] = p.lineage["backend"]

\* p.pinned says that the engine, the model and its digest are the supported
\* ones; the store paths are all there or all absent, and the engine's is the
\* backend's.
SupportedLineage(p) ==
    /\ p.generator \in {"v1", V2}
    /\ p.pinned
    /\ {p.lineage[f] = {} : f \in LineageFacts} # BOOLEAN
    /\ p.lineage["engine"] = p.lineage["backend"]

\* The runtime part of validate_attempt_provenance
ProvenanceAccepted(bundle, p) ==
    /\ p.runtime = bundle.runtime
    /\ \A record \in Range(bundle.measurements) : record.generator = p.generator
    /\ IF bundle.runtime = "llamaCpp"
       THEN /\ SupportedLineage(p)
            /\ p.backend = bundle.target
            /\ CASE bundle.target = "cpu" -> p.nvidia = {}
                 [] OTHER -> p.generator = V2 /\ (bundle.status = "succeeded" => p.nvidia # {})
       ELSE p.generator = bundle.runtime

\* expected_validity of validate_record_consistency
ValidityOf(bundle, measured) ==
    IF bundle.status # "succeeded" THEN "indeterminate"
    ELSE IF measured >= bundle.repetitions THEN "valid" ELSE "invalid"

Verified(bundle) ==
    /\ bundle.intact
    /\ \E counts \in expected_measurement_counts(bundle) :
          /\ Len(bundle.measurements) = counts[1] + counts[2]
          /\ \A k \in DOMAIN bundle.measurements : RecordAccepted(bundle, counts[1], k)
          /\ bundle.validity = ValidityOf(bundle, counts[2])
    /\ \A p \in bundle.provenance : ProvenanceAccepted(bundle, p)
    /\ bundle.resources # {} => bundle.runtime \in {"cpuProbe", "llamaCpp"}

-----------------------------------------------------------------------------
(* Eligibility and the measurement contract                                *)

\* modelSha256 stands for every part the software lineage pins.
Contract(bundle, p) ==
    [target |-> bundle.target, backend |-> p.backend, deviceClass |-> p.backend,
     modelSha256 |-> p.pinned, outputTokens |-> bundle.tokens,
     requestsPerRepetition |-> bundle.requests, warmupRuns |-> bundle.warmups,
     measuredRepetitions |-> bundle.repetitions]

EligibleRun(bundle) ==
    /\ bundle.status = "succeeded"
    /\ bundle.validity = "valid"
    /\ bundle.runtime = "llamaCpp"

\* Mutant: any llama.cpp generator is eligible.
eligible_contract_AnyGenerator(bundle) ==
    {Contract(bundle, p) : p \in {q \in bundle.provenance : EligibleRun(bundle)}}

\* The contract of an eligible bundle, nothing of any other.
eligible_contract(bundle) ==
    {Contract(bundle, p) :
        p \in {q \in bundle.provenance :
                 /\ EligibleRun(bundle)
                 /\ \A record \in Range(bundle.measurements) : record.generator = V2
                 /\ q.runtime = "llamaCpp"
                 /\ q.generator = V2}}

contract_differences(b, c) == {f \in DOMAIN b : b[f] # c[f]}

-----------------------------------------------------------------------------
(* The comparison                                                          *)

Measured(bundle) ==
    Filtered(bundle.measurements,
             {k \in DOMAIN bundle.measurements : bundle.measurements[k].phase = "measured"})

request_values(bundle) ==
    LET records == Measured(bundle)
    IN  FlattenSeq([k \in DOMAIN records |-> records[k].observations])

\* Nothing where the code expects a distribution and there is none.
compare_distribution(b, c) ==
    {[mean |-> compare_metric(x.mean, y.mean), p50 |-> compare_metric(x.p50, y.p50),
      p95 |-> compare_metric(x.p95, y.p95)] :
        x \in describe_micros(b), y \in describe_micros(c)}

compare_requests(b, c) ==
    LET x == request_values(b)
        y == request_values(c)
    IN  {[counts |-> <<Len(x), Len(y)>>, latency |-> latency, ttft |-> ttft] :
            latency \in compare_distribution(Latencies(x), Latencies(y)),
            ttft \in compare_distribution(Ttfts(x), Ttfts(y))}

Throughputs(records) == [k \in DOMAIN records |-> records[k].throughput]

compare_repetitions(b, c) ==
    LET x == Measured(b)
        y == Measured(c)
    IN  {[counts |-> <<Len(x), Len(y)>>, latency |-> latency, ttft |-> ttft,
          throughput |-> compare_metric(s, t)] :
            latency \in compare_distribution(Latencies(x), Latencies(y)),
            ttft \in compare_distribution(Ttfts(x), Ttfts(y)),
            s \in mean_u64(Throughputs(x)), t \in mean_u64(Throughputs(y))}

\* Mutant: a candidate's accounting is dropped when the baseline has none.
compare_resources_BaselineOnly(b, c) ==
    IF b = {} THEN {}
    ELSE {[baseline |-> b, candidate |-> c,
           cpu |-> {compare_metric(x.cpu, y.cpu) : x \in b, y \in c},
           rss |-> {compare_metric(x.rss, y.rss) : x \in b, y \in c}]}

\* Metrics only when both sides have accounting, values for the side that has.
compare_resources(b, c) ==
    IF b = {} /\ c = {} THEN {}
    ELSE {[baseline |-> b, candidate |-> c,
           cpu |-> {compare_metric(x.cpu, y.cpu) : x \in b, y \in c},
           rss |-> {compare_metric(x.rss, y.rss) : x \in b, y \in c}]}

environment_field(b, c) ==
    IF b = {} \/ c = {} THEN "unknown" ELSE IF b = c THEN "same" ELSE "different"

\* Field names to relationships; one field "nvidia" where only one side has it,
\* of which nothing can be said.
compare_environment(b, c) ==
    LET devices == IF b.nvidia # {} /\ c.nvidia # {} THEN NvidiaFacts
                   ELSE IF b.nvidia # {} \/ c.nvidia # {} THEN {"nvidia"} ELSE {}
        Recorded(p, f) == CASE f \in PlatformFacts -> p.platform[f]
                            [] f \in LineageFacts -> p.lineage[f]
                            [] f \in NvidiaFacts -> {n[f] : n \in p.nvidia}
                            [] OTHER -> {}
    IN  [f \in PlatformFacts \cup LineageFacts \cup devices |->
            environment_field(Recorded(b, f), Recorded(c, f))]

\* compare_evidence_bundles after eligibility; b and c are verified bundles.
Compared(b, c, contracts) ==
    LET differences == contract_differences(contracts[1], contracts[2])
        compatible == differences = {}
    IN  {[compatible |-> compatible, incompatibilities |-> differences,
          environment |-> compare_environment(p, q),
          requests |-> IF compatible THEN compare_requests(b, c) ELSE {},
          repetitions |-> IF compatible THEN compare_repetitions(b, c) ELSE {},
          resources |-> IF compatible THEN compare_resources(b.resources, c.resources) ELSE {}] :
            p \in b.provenance, q \in c.provenance}

-----------------------------------------------------------------------------
(* The command                                                             *)

Finish(code) ==
    /\ exit' = code
    /\ pc' = "done"

EXIT_SUCCESS == 0

EXIT_FINALIZATION_FAILURE == 5

EXIT_PANIC == 101

\* Both verify_evidence_bundle_data calls, the baseline first.
Verify(role, here, next) ==
    /\ pc = here
    /\ IF Verified(pair[role]) THEN pc' = next /\ UNCHANGED exit
       ELSE Finish(EXIT_FINALIZATION_FAILURE)
    /\ UNCHANGED <<pair, json, report>>

CheckDistinct ==
    /\ pc = "distinct"
    /\ IF pair["baseline"].runId = pair["candidate"].runId
       THEN Finish(EXIT_FINALIZATION_FAILURE)
       ELSE pc' = "eligible" /\ UNCHANGED exit
    /\ UNCHANGED <<pair, json, report>>

CheckEligible ==
    /\ pc = "eligible"
    /\ IF \E role \in DOMAIN pair : eligible_contract(pair[role]) = {}
       THEN Finish(EXIT_FINALIZATION_FAILURE)
       ELSE pc' = "compare" /\ UNCHANGED exit
    /\ UNCHANGED <<pair, json, report>>

\* The code's expect()s: provenance on both sides, and values to describe.
Compare ==
    /\ pc = "compare"
    /\ LET b == pair["baseline"]
           c == pair["candidate"]
           contracts == <<CHOOSE x \in eligible_contract(b) : TRUE,
                          CHOOSE x \in eligible_contract(c) : TRUE>>
       IN  report' = Compared(b, c, contracts)
    /\ IF \E r \in report' : r.compatible => r.requests # {} /\ r.repetitions # {}
       THEN pc' = "print" /\ UNCHANGED exit
       ELSE Finish(EXIT_PANIC)
    /\ UNCHANGED <<pair, json>>

\* --json prints the whole report; print_human_comparison expects the metrics
\* of a compatible comparison.
PrintReport ==
    /\ pc = "print"
    /\ \E r \in report :
          IF ~json /\ r.compatible /\ (r.requests = {} \/ r.repetitions = {})
          THEN Finish(EXIT_PANIC)
          ELSE Finish(EXIT_SUCCESS)
    /\ UNCHANGED <<pair, json, report>>

Terminated == pc = "done" /\ UNCHANGED vars

Next ==
    \/ Verify("baseline", "verifyBaseline", "verifyCandidate")
    \/ Verify("candidate", "verifyCandidate", "distinct")
    \/ CheckDistinct
    \/ CheckEligible
    \/ Compare
    \/ PrintReport
    \/ Terminated

Spec == Init /\ [][Next]_vars

-----------------------------------------------------------------------------
(* Properties                                                              *)

\* None of the expects of comparison.rs and print_human_comparison fails: what
\* verification and eligibility establish is enough for every value the
\* comparison unwraps (a v1 bundle, which has no request observations, and a
\* bundle without provenance never get there).
NeverPanics == exit # EXIT_PANIC

\* The verifier pins the software lineage, so eligible bundles can only differ
\* in the target and in what the plan chooses (which is neither the profile nor
\* the concurrency: Experiment::validate fixes both for llama.cpp); the backend
\* follows the target, and a compatible pair has its NVIDIA facts compared one
\* by one.
OnlyPlanAndTargetDiffer ==
    \A r \in report :
        /\ r.incompatibilities \subseteq
             {"target", "backend", "deviceClass", "outputTokens", "requestsPerRepetition",
              "warmupRuns", "measuredRepetitions"}
        /\ "target" \in r.incompatibilities <=> "backend" \in r.incompatibilities
        /\ "target" \in r.incompatibilities <=> "nvidia" \in DOMAIN r.environment
        /\ r.environment["engine"] = r.environment["backend"]

\* The percentage is the exact ratio cut off toward zero: it has the sign of
\* the change and never overstates it, and there is none over a zero baseline.
Truncated(m) ==
    LET change == GreaterOf(m.delta, -m.delta) * 100000
    IN  /\ m.delta = m.candidate - m.baseline
        /\ m.percent = {} <=> m.baseline = 0
        /\ \A p \in m.percent :
             /\ p * m.delta >= 0
             /\ GreaterOf(p, -p) * m.baseline <= change
             /\ change < (GreaterOf(p, -p) + 1) * m.baseline

MirrorMetric(m, w) ==
    /\ m.baseline = w.candidate /\ m.candidate = w.baseline /\ m.delta = -w.delta
    /\ Truncated(m) /\ Truncated(w)

MirrorScope(q, w) ==
    /\ q.counts = <<w.counts[2], w.counts[1]>>
    /\ \A k \in {"mean", "p50", "p95"} :
          MirrorMetric(q.latency[k], w.latency[k]) /\ MirrorMetric(q.ttft[k], w.ttft[k])

\* Swapping the roles reports the same compatibility, the same differences and
\* relationships, and every delta negated; accounting that only one side has
\* is reported from either side.  Neither direction overstates a change.
MirrorImage ==
    \A r \in report :
        \E w \in Compared(pair["candidate"], pair["baseline"],
                          <<CHOOSE x \in eligible_contract(pair["candidate"]) : TRUE,
                            CHOOSE x \in eligible_contract(pair["baseline"]) : TRUE>>) :
            /\ r.incompatibilities = w.incompatibilities
            /\ r.environment = w.environment
            /\ \A q \in r.requests : \E v \in w.requests : MirrorScope(q, v)
            /\ \A q \in r.repetitions : \E v \in w.repetitions :
                  MirrorScope(q, v) /\ MirrorMetric(q.throughput, v.throughput)
            /\ \A a \in w.resources : \E v \in r.resources :
                  /\ a.baseline = v.candidate /\ a.candidate = v.baseline
                  /\ \A m \in a.cpu : \E n \in v.cpu : MirrorMetric(m, n)
                  /\ \A m \in a.rss : \E n \in v.rss : MirrorMetric(m, n)

\* The two scopes of a report tell the same story: they count exactly the
\* requests and repetitions that both plans ask for, and the mean over requests
\* and the mean over repetition aggregates are at most one microsecond apart,
\* although the helper rounds them independently.
ScopesAgree ==
    \A r \in report : \A q \in r.requests, s \in r.repetitions :
        /\ \A role \in DOMAIN pair :
              /\ s.counts = <<pair[role].repetitions, pair[role].repetitions>>
              /\ q.counts = <<pair[role].requests * pair[role].repetitions,
                              pair[role].requests * pair[role].repetitions>>
        /\ \A side \in {"baseline", "candidate"} :
              /\ q.latency.mean[side] - s.latency.mean[side] \in -1..1
              /\ q.ttft.mean[side] - s.ttft.mean[side] \in -1..1
=============================================================================
