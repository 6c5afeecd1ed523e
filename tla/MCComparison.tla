---------------------------- MODULE MCComparison ----------------------------
(***************************************************************************)
(* A small collection of bundles: the base run, one variation per field of *)
(* the contract, per recorded fact and per rounding of the aggregates, and *)
(* the bundles of other runtimes, generators and outcomes.                 *)
(***************************************************************************)
EXTENDS Comparison

MCPlatformFacts == {"architecture", "cpuModel"}

MCNvidiaFacts == {"deviceName", "totalVramBytes"}

Plan(target, tokens, requests, warmups, repetitions) ==
    [target |-> target, tokens |-> tokens, requests |-> requests, warmups |-> warmups,
     repetitions |-> repetitions]

Base == Plan("cpu", 4, 2, 1, 2)

Plans == {Base, Plan("nvidiaCuda", 4, 2, 1, 2), Plan("cpu", 8, 2, 1, 2),
          Plan("cpu", 4, 1, 1, 2), Plan("cpu", 4, 2, 0, 2), Plan("cpu", 4, 2, 1, 1)}

\* The k-th record of a plan: request i takes slope * i + k microseconds, the
\* first token half of that, and the aggregate is rounded up or off by "off".
Record(plan, generator, k, slope, off) ==
    LET observations == [i \in 1..plan.requests |->
                            [latency |-> slope * i + k, ttft |-> (slope * i + k + 1) \div 2]]
        Mean(values) == ceil_div(SumFunction(values), plan.requests)
    IN  [phase |-> IF k <= plan.warmups THEN "warmup" ELSE "measured", generator |-> generator,
         latency |-> Mean(Latencies(observations)) + off,
         ttft |-> Mean(Ttfts(observations)), throughput |-> 7 + k,
         observations |-> IF generator = V2 THEN observations ELSE <<>>]

Records(plan, generator, slope, off, count) ==
    [k \in 1..count |-> Record(plan, generator, k, slope, off)]

Provenance(plan, generator, cpuModel, store) ==
    [runtime |-> IF generator \in {"v1", "v2"} THEN "llamaCpp" ELSE generator,
     generator |-> generator, pinned |-> TRUE, backend |-> plan.target,
     platform |-> [architecture |-> {"x86_64"}, cpuModel |-> cpuModel],
     lineage |-> [f \in LineageFacts |-> store],
     nvidia |-> IF plan.target = "cpu" THEN {}
                ELSE {[deviceName |-> "gpu", totalVramBytes |-> Cardinality(cpuModel)]}]

Run(plan, runtime, measurements, provenance, resources) ==
    [runtime |-> runtime, scenario |-> "success", target |-> plan.target, tokens |-> plan.tokens,
     requests |-> plan.requests, warmups |-> plan.warmups, repetitions |-> plan.repetitions,
     status |-> "succeeded", validity |-> "valid", intact |-> TRUE,
     measurements |-> measurements, provenance |-> provenance, resources |-> resources]

Current(plan, slope, off, cpuModel, store, resources) ==
    Run(plan, "llamaCpp", Records(plan, V2, slope, off, plan.warmups + plan.repetitions),
        {Provenance(plan, V2, cpuModel, store)}, resources)

Used(cpu, rss) == {[cpu |-> cpu, rss |-> rss]}

Varied ==
    {Current(plan, slope, 0, {}, {}, {}) : plan \in Plans, slope \in {0, 1, 3}}
    \cup {Current(Base, 1, off, {}, {}, {}) : off \in {-1, 1, 2}}
    \cup {Current(plan, 1, 0, model, store, {}) :
             plan \in {p \in Plans : p.target = "nvidiaCuda"} \cup {Base},
             model \in {{}, {"a"}, {"b"}}, store \in {{}, {"s"}}}
    \cup {Current(Base, 3, 0, {"a"}, {}, used) : used \in {Used(0, 2), Used(3, 5), Used(7, 2)}}

Other(runtime, generator) ==
    Run(Base, runtime, Records(Base, generator, 1, 0, 3), {Provenance(Base, generator, {}, {})}, {})

\* Bundles that are refused: by the verifier, or as not eligible.
Refused ==
    LET base == Current(Base, 1, 0, {}, {}, {})
        p == Provenance(Base, V2, {}, {})
    IN  {Other("llamaCpp", "v1"), Other("localFake", "localFake"), Other("cpuProbe", "cpuProbe"),
         [Other("llamaCpp", "v1") EXCEPT !.provenance = {}],
         [base EXCEPT !.provenance = {}],
         [base EXCEPT !.intact = FALSE],
         [base EXCEPT !.target = "nvidiaCuda", !.provenance = {[p EXCEPT !.backend = "nvidiaCuda"]}],
         [base EXCEPT !.validity = "invalid"],
         [base EXCEPT !.provenance = {[p EXCEPT !.pinned = FALSE]}],
         [base EXCEPT !.provenance = {[p EXCEPT !.lineage["engine"] = {"s"}]}],
         [base EXCEPT !.status = "failed", !.validity = "indeterminate", !.measurements = <<>>],
         [Other("localFake", "localFake") EXCEPT !.scenario = "insufficientMeasurements",
            !.validity = "invalid", !.measurements = Records(Base, "localFake", 1, 0, 2)],
         [Other("localFake", "localFake") EXCEPT !.scenario = "interrupted",
            !.status = "interrupted", !.validity = "indeterminate",
            !.measurements = Records(Base, "localFake", 1, 0, 2)],
         [Other("localFake", "localFake") EXCEPT !.scenario = "runtimeFailure"]}

Named(bundle, id) == [runId |-> id] @@ bundle

MCBundles == {Named(b, id) : b \in Varied \cup Refused, id \in {"r1", "r2"}}
=============================================================================
