---------------------------- MODULE MCAdmission -----------------------------
(***************************************************************************)
(* Documents around every limit, for limits scaled down to 4-bit u32 and   *)
(* 8-bit u64 numbers, plus documents with one other flaw each.             *)
(***************************************************************************)
EXTENDS Admission

\* The relations of LimitsAssumption at the real numbers: the records and
\* bytes of cpu_probe.rs and llama_cpp.rs, 84 observations, a record line of
\* 400 bytes and 110 per observation, and the 8 MiB of measurements.jsonl.
ASSUME RealLimits ==
    /\ 1000 * 512 <= 1024 * 1024
    /\ 17 * 16384 <= 8 * 1024 * 1024
    /\ 10000 * 400 <= 8 * 1024 * 1024
    /\ 8192 \div 97 = 84
    /\ 84 * 110 + 400 <= 16384

Document(runtime, provider, profile) ==
    [text |-> "experiment", runtime |-> runtime, provider |-> provider, profile |-> profile,
     requests |-> 1, concurrency |-> {}, warmups |-> {}, repetitions |-> {}, tokens |-> {},
     units |-> 1, target |-> {}, model |-> {}, revision |-> "r", seconds |-> {},
     format |-> {}, apiVersion |-> "v1alpha1", kind |-> "Experiment", name |-> "named",
     budget |-> "zero", region |-> "blank", instanceTypes |-> {}]

FakeDocument == Document("localFake", "localFake", "smoke")

CpuDocument == Document("cpuProbe", "local", "cpu-token-probe-v1")

LlamaDocument == Document("llamaCpp", "local", "smollm2-chat-greedy-v1")

VllmDocument == [Document("vllm", "aws", "chat") EXCEPT !.budget = "positive",
                    !.region = "eu", !.instanceTypes = {"g5"}]

Options(values) == {{}} \cup {{v} : v \in values}

Counted(d, requests, warmups, repetitions, tokens) ==
    [d EXCEPT !.requests = requests, !.warmups = warmups, !.repetitions = repetitions,
              !.tokens = tokens]

Sized ==
    {[Counted(CpuDocument, n, w, r, t) EXCEPT !.units = u] :
        n \in {0, 1, 2, 8, 15}, w \in Options({0, 2, 15}), r \in Options({0, 1, 2, 15}),
        t \in {{0}, {1}, {2}, {4}, {5}}, u \in {0, 1, 2, 3, 4}}
    \cup {[Counted(LlamaDocument, n, w, r, t) EXCEPT !.target = target] :
        n \in {0, 1, 2, 4, 8, 15}, w \in Options({0, 15}), r \in Options({0, 1, 2, 15}),
        t \in Options({0, 1, 2, 5, 14}), target \in Options({"cpu", "nvidiaCuda"})}
    \cup {Counted(FakeDocument, n, w, r, {}) :
        n \in {0, 1, 15}, w \in Options({0, 4, 15}), r \in Options({0, 2, 15})}

Flawed(d) ==
    {[d EXCEPT !.apiVersion = "v2"], [d EXCEPT !.kind = "Run"], [d EXCEPT !.name = "blank"],
     [d EXCEPT !.profile = "blank"], [d EXCEPT !.profile = "other"],
     [d EXCEPT !.concurrency = {0}], [d EXCEPT !.concurrency = {2}],
     [d EXCEPT !.seconds = {0}], [d EXCEPT !.seconds = {MAX_RUNTIME_SECONDS}],
     [d EXCEPT !.seconds = {MAX_RUNTIME_SECONDS + 1}],
     [d EXCEPT !.format = {"other"}], [d EXCEPT !.model = {"blank"}],
     [d EXCEPT !.model = {"other"}], [d EXCEPT !.revision = "blank"],
     [d EXCEPT !.region = "blank"], [d EXCEPT !.instanceTypes = {}],
     [d EXCEPT !.instanceTypes = {"blank", "g5"}]}
    \cup {[d EXCEPT !.budget = b] : b \in {"nan", "infinite", "negative", "zero", "positive"}}
    \cup {[d EXCEPT !.provider = p] : p \in {"localFake", "local", "aws"}}

MCDocuments ==
    Sized
    \cup {[CpuDocument EXCEPT !.text = text] : text \in {"unreadable", "malformed"}}
    \cup UNION {Flawed(d) : d \in {FakeDocument, CpuDocument, LlamaDocument, VllmDocument}}
=============================================================================
