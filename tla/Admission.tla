----------------------------- MODULE Admission ------------------------------
(***************************************************************************)
(* What an experiment document must satisfy, and everyone who checks it    *)
(* again: Experiment::validate (experiment.rs) behind the commands         *)
(* validate, resolve and run (main.rs), execution_kind (run.rs), the       *)
(* record counts of the adapters (cpu_probe.rs, llama_cpp.rs) and the      *)
(* arguments checks of the two helpers.  Text is abstracted to the classes *)
(* the checks tell apart; numbers keep their width.  A Rust Option is a    *)
(* set with at most one element.                                           *)
(***************************************************************************)
EXTENDS Integers, FiniteSets

CONSTANTS
    Documents,          \* documents a user may write, fields omitted or given
    U32Max, U64Max,
    MAX_LOCAL_FAKE_RECORDS,
    MAX_CPU_PROBE_RECORDS, MAX_CPU_PROBE_OUTPUT_TOKENS,
    MAX_CPU_PROBE_WORK_UNITS_PER_TOKEN, MAX_CPU_PROBE_TOTAL_WORK_UNITS,
    MAX_LLAMA_CPP_RECORDS, MAX_LLAMA_CPP_OUTPUT_TOKENS,
    MAX_LLAMA_CPP_PROMPT_TOKENS, MAX_LLAMA_CPP_TOTAL_TOKENS,
    MAX_RUNTIME_SECONDS,
    CPU_RECORD_BYTES, CPU_STDOUT_BYTES, LLAMA_RECORD_BYTES,
                        \* MAX_SERIALIZED_RECORD_BYTES, MAX_STDOUT_BYTES
    FakeRecordBytes, HeaderBytes, ObservationBytes,
                        \* the longest line of local_fake, and the longest parts
                        \* of a llama.cpp line
    MAX_MEASUREMENTS_BYTES

ASSUME AdmissionAssumption ==
    /\ {U32Max, U64Max, MAX_LOCAL_FAKE_RECORDS, MAX_CPU_PROBE_RECORDS,
        MAX_CPU_PROBE_OUTPUT_TOKENS, MAX_CPU_PROBE_WORK_UNITS_PER_TOKEN,
        MAX_CPU_PROBE_TOTAL_WORK_UNITS, MAX_LLAMA_CPP_RECORDS, MAX_LLAMA_CPP_OUTPUT_TOKENS,
        MAX_LLAMA_CPP_PROMPT_TOKENS, MAX_LLAMA_CPP_TOTAL_TOKENS, MAX_RUNTIME_SECONDS,
        CPU_RECORD_BYTES, CPU_STDOUT_BYTES, LLAMA_RECORD_BYTES, FakeRecordBytes, HeaderBytes,
        ObservationBytes, MAX_MEASUREMENTS_BYTES} \subseteq Nat
    /\ U32Max * U32Max <= U64Max
    /\ MAX_LLAMA_CPP_PROMPT_TOKENS + MAX_LLAMA_CPP_OUTPUT_TOKENS <= U32Max

\* The relations between limits that the code relies on; the first is an
\* assertion of cpu_probe.rs, the others hold by the choice of the numbers.
ASSUME LimitsAssumption ==
    /\ MAX_CPU_PROBE_RECORDS * CPU_RECORD_BYTES <= CPU_STDOUT_BYTES
    /\ CPU_STDOUT_BYTES <= MAX_MEASUREMENTS_BYTES
    /\ (MAX_LLAMA_CPP_RECORDS + 1) * LLAMA_RECORD_BYTES <= MAX_MEASUREMENTS_BYTES
    /\ MAX_LOCAL_FAKE_RECORDS * FakeRecordBytes <= MAX_MEASUREMENTS_BYTES
    /\ (MAX_LLAMA_CPP_TOTAL_TOKENS \div (MAX_LLAMA_CPP_PROMPT_TOKENS + 1)) * ObservationBytes
         + HeaderBytes <= LLAMA_RECORD_BYTES
    /\ MAX_MEASUREMENTS_BYTES <= U64Max

\* The documents the parser can be given: numbers of the width the schema types
\* have, and fields with a default either left out or given.
DocumentType ==
    [text : {"unreadable", "malformed", "experiment"},
     runtime : {"localFake", "cpuProbe", "llamaCpp", "vllm"},
     provider : {"localFake", "local", "aws"},
     requests : 0..U32Max, units : 0..U32Max,
     concurrency : SUBSET (0..U32Max), warmups : SUBSET (0..U32Max),
     repetitions : SUBSET (0..U32Max), tokens : SUBSET (0..U32Max), seconds : SUBSET Nat,
     target : SUBSET {"cpu", "nvidiaCuda"}, model : SUBSET STRING, format : SUBSET STRING,
     profile : STRING, revision : STRING, apiVersion : STRING, kind : STRING, name : STRING,
     budget : STRING, region : STRING, instanceTypes : SUBSET STRING]

AtMostOne(option) == \A v, w \in option : v = w

ASSUME DocumentsAssumption ==
    /\ Documents \subseteq DocumentType
    /\ \A d \in Documents :
          /\ AtMostOne(d.concurrency) /\ AtMostOne(d.warmups) /\ AtMostOne(d.repetitions)
          /\ AtMostOne(d.tokens) /\ AtMostOne(d.seconds) /\ AtMostOne(d.target)
          /\ AtMostOne(d.model) /\ AtMostOne(d.format)
    /\ U32Max >= 4     \* the defaults are numbers of that width

VARIABLES
    document,   \* the file the commands are given
    cuda,       \* cuda_package_available()
    exits,      \* the outcome of each command, "none" before it ran
    plan,       \* the resolved plan of run, as a set with at most one element
    stage       \* where run is

vars == <<document, cuda, exits, plan, stage>>

Init ==
    /\ document \in Documents
    /\ cuda \in BOOLEAN
    /\ exits = [command \in {"validate", "resolve", "run"} |-> "none"]
    /\ plan = {}
    /\ stage = "idle"

-----------------------------------------------------------------------------
(* Parsing and serializing                                                 *)

Given(option, default) == IF option = {} THEN default ELSE CHOOSE v \in option : TRUE

\* Mutant: the CUDA target is the default of a document that names none.
DefaultTarget_Cuda == "nvidiaCuda"

DefaultTarget == "cpu"

Defaults ==
    [concurrency |-> 1, warmups |-> 1, repetitions |-> 3, tokens |-> 4, target |-> DefaultTarget,
     model |-> "smollm2", seconds |-> 3600, format |-> "evidence/v1"]

\* parse_experiment: the serde defaults of what the document leaves out.
parse_experiment(d) ==
    [field \in DOMAIN d |->
       IF field \in DOMAIN Defaults THEN Given(d[field], Defaults[field]) ELSE d[field]]

\* The typed experiment written out again: every default explicit, except the
\* CPU target, which is skipped.
Serialized(x) ==
    [field \in DOMAIN x |->
       IF field = "target" THEN {x[field]} \ {"cpu"}
       ELSE IF field \in DOMAIN Defaults THEN {x[field]} ELSE x[field]]

\* read_experiment_bytes and the parser both succeed.
Readable(d) == d.text = "experiment"

-----------------------------------------------------------------------------
(* Experiment::validate                                                    *)

checked_add(a, b) == {v \in {a + b} : v <= U32Max}

checked_mul(a, b) == {w \in {v * b : v \in a} : w <= U64Max}

\* Mutant: a product that does not fit is not an excess (is_some_and).
Exceeds_Overflowing(option, limit) == \E v \in option : v > limit

\* is_none_or(|total| total > limit)
Exceeds(option, limit) == option = {} \/ \E v \in option : v > limit

record_count(x) == checked_add(x.warmups, x.repetitions)

cpu_work(x) ==
    checked_mul(checked_mul(checked_mul(record_count(x), x.requests), x.tokens), x.units)

llama_work(x) ==
    UNION {checked_mul(checked_mul(record_count(x), x.requests), tokens) :
             tokens \in checked_add(MAX_LLAMA_CPP_PROMPT_TOKENS, x.tokens)}

Errors(table) == {error \in DOMAIN table : table[error]}

GeneralErrors(x) == Errors(
    [ApiVersion |-> x.apiVersion # "v1alpha1",
     Kind |-> x.kind # "Experiment",
     EmptyName |-> x.name = "blank",
     EmptyWorkloadProfile |-> x.profile = "blank",
     NoRequests |-> x.requests = 0,
     NoConcurrency |-> x.concurrency = 0,
     NoRepetitions |-> x.repetitions = 0,
     InvalidRuntime |-> x.seconds \notin 1..MAX_RUNTIME_SECONDS,
     UnsupportedArtifactFormat |-> x.format # "evidence/v1",
     InvalidVllmIdentity |-> x.runtime = "vllm" /\ "blank" \in {x.model, x.revision},
     LocalFakeRecordLimit |-> x.runtime = "localFake"
                              /\ Exceeds(record_count(x), MAX_LOCAL_FAKE_RECORDS)])

CpuProbeErrors(x) == Errors(
    [InvalidCpuProbeOutputTokens |-> x.tokens \notin 1..MAX_CPU_PROBE_OUTPUT_TOKENS,
     InvalidCpuProbeWorkUnits |-> x.units \notin 1..MAX_CPU_PROBE_WORK_UNITS_PER_TOKEN,
     InvalidCpuProbeProfile |-> x.profile # "cpu-token-probe-v1",
     UnsupportedCpuProbeConcurrency |-> x.concurrency # 1,
     CpuProbeRecordLimit |-> Exceeds(record_count(x), MAX_CPU_PROBE_RECORDS),
     CpuProbeWorkLimit |-> Exceeds(cpu_work(x), MAX_CPU_PROBE_TOTAL_WORK_UNITS)])

LlamaCppErrors(x) == Errors(
    [InvalidLlamaCppModel |-> x.model # "smollm2",
     InvalidLlamaCppOutputTokens |-> x.tokens \notin 1..MAX_LLAMA_CPP_OUTPUT_TOKENS,
     InvalidLlamaCppProfile |-> x.profile # "smollm2-chat-greedy-v1",
     UnsupportedLlamaCppConcurrency |-> x.concurrency # 1,
     LlamaCppRecordLimit |-> Exceeds(record_count(x), MAX_LLAMA_CPP_RECORDS),
     LlamaCppWorkLimit |-> Exceeds(llama_work(x), MAX_LLAMA_CPP_TOTAL_TOKENS)])

\* Budgets that are not finite and nonnegative; AWS wants a positive one.
ProviderErrors(x) == Errors(
    IF x.provider = "aws"
    THEN [InvalidAwsBudget |-> x.budget # "positive",
          EmptyAwsRegion |-> x.region = "blank",
          MissingInstanceTypes |-> x.instanceTypes = {},
          EmptyAwsInstanceType |-> "blank" \in x.instanceTypes]
    ELSE [InvalidLocalBudget |-> x.budget \notin {"zero", "positive"}])

\* Every error of the document, not only the first.
validate(x) ==
    GeneralErrors(x) \cup ProviderErrors(x)
    \cup (CASE x.runtime = "cpuProbe" -> CpuProbeErrors(x)
            [] x.runtime = "llamaCpp" -> LlamaCppErrors(x)
            [] OTHER -> {})

\* resolve_experiment: the typed experiment itself; its digests are functions of it.
resolve_experiment(x) == {y \in {x} : validate(y) = {}}

-----------------------------------------------------------------------------
(* The run's own checks                                                    *)

\* The executable combinations; CUDA needs the CUDA package.
execution_kind(x) ==
    {x.runtime} \cap (CASE x.provider = "localFake" -> {"localFake"}
                        [] x.provider = "local" ->
                             {"cpuProbe"} \cup (IF x.target = "cpu" \/ cuda THEN {"llamaCpp"} ELSE {})
                        [] OTHER -> {})

\* Mutant: the quotient is taken at the longest output, not at the shortest.
MAX_LLAMA_CPP_REQUEST_OBSERVATIONS_Longest ==
    MAX_LLAMA_CPP_TOTAL_TOKENS \div (MAX_LLAMA_CPP_PROMPT_TOKENS + MAX_LLAMA_CPP_OUTPUT_TOKENS)

MAX_LLAMA_CPP_REQUEST_OBSERVATIONS ==
    MAX_LLAMA_CPP_TOTAL_TOKENS \div (MAX_LLAMA_CPP_PROMPT_TOKENS + 1)

\* Mutant: no room for the NVIDIA metadata line.
LLAMA_STDOUT_BYTES_NoPreamble == MAX_LLAMA_CPP_RECORDS * LLAMA_RECORD_BYTES

\* 17 * MAX_SERIALIZED_RECORD_BYTES: one metadata line and 16 records.
LLAMA_STDOUT_BYTES == (MAX_LLAMA_CPP_RECORDS + 1) * LLAMA_RECORD_BYTES

AtMost(option, limit) == {v \in option : v <= limit}

\* expected_record_count of both adapters; nothing where they refuse.
expected_record_count(x) ==
    IF x.runtime = "cpuProbe"
    THEN {count \in AtMost(record_count(x), MAX_CPU_PROBE_RECORDS) :
            AtMost(checked_mul({count}, CPU_RECORD_BYTES), CPU_STDOUT_BYTES) # {}}
    ELSE {count \in AtMost(record_count(x), MAX_LLAMA_CPP_RECORDS) :
            /\ AtMost(checked_mul({count}, x.requests), MAX_LLAMA_CPP_REQUEST_OBSERVATIONS) # {}
            /\ AtMost(checked_mul({count}, LLAMA_RECORD_BYTES), LLAMA_STDOUT_BYTES) # {}}

expected_metadata_records(x) == IF x.runtime = "llamaCpp" /\ x.target # "cpu" THEN 1 ELSE 0

\* validate of benchplane-cpu-probe.rs
cpu_probe_validate(x) ==
    /\ x.requests # 0 /\ x.repetitions # 0
    /\ x.tokens \in 1..MAX_CPU_PROBE_OUTPUT_TOKENS
    /\ x.units \in 1..MAX_CPU_PROBE_WORK_UNITS_PER_TOKEN
    /\ ~Exceeds(record_count(x), MAX_CPU_PROBE_RECORDS)
    /\ ~Exceeds(cpu_work(x), MAX_CPU_PROBE_TOTAL_WORK_UNITS)

\* validate_args of the llama.cpp helper
validate_args(x) ==
    /\ x.requests # 0 /\ x.repetitions # 0
    /\ x.tokens \in 1..MAX_LLAMA_CPP_OUTPUT_TOKENS
    /\ x.warmups <= U32Max - x.repetitions
    /\ x.warmups + x.repetitions <= MAX_LLAMA_CPP_RECORDS
    /\ ~Exceeds(checked_mul(checked_mul({x.warmups + x.repetitions}, x.requests),
                            MAX_LLAMA_CPP_PROMPT_TOKENS + x.tokens),
                MAX_LLAMA_CPP_TOTAL_TOKENS)

-----------------------------------------------------------------------------
(* The commands                                                            *)

Exit(command, outcome) == exits' = [exits EXCEPT ![command] = outcome]

\* What every command does first: read, parse, and here also validate.
Refusal(d) ==
    CASE d.text = "unreadable" -> {"internal"}
      [] d.text = "malformed" -> {"rejected"}
      [] OTHER -> {r \in {"rejected"} : validate(parse_experiment(d)) # {}}

ValidateCommand ==
    /\ exits["validate"] = "none"
    /\ \E outcome \in IF Refusal(document) = {} THEN {"success"} ELSE Refusal(document) :
          Exit("validate", outcome)
    /\ UNCHANGED <<document, cuda, plan, stage>>

ResolveCommand ==
    /\ exits["resolve"] = "none"
    /\ \E outcome \in
          CASE document.text = "unreadable" -> {"internal"}
            [] document.text = "malformed" -> {"rejected"}
            [] OTHER -> IF resolve_experiment(parse_experiment(document)) = {}
                        THEN {"rejected"} ELSE {"success"} :
          Exit("resolve", outcome)
    /\ UNCHANGED <<document, cuda, plan, stage>>

\* run_experiment up to execution_kind: nothing is on disk before it.
RunCommand ==
    /\ stage = "idle"
    /\ LET resolved == IF Readable(document)
                       THEN resolve_experiment(parse_experiment(document)) ELSE {}
       IN  /\ plan' = {x \in resolved : execution_kind(x) # {}}
           /\ stage' = IF plan' = {} THEN "done" ELSE "adapter"
           /\ IF plan' # {} THEN UNCHANGED exits
              ELSE Exit("run", IF document.text = "unreadable" THEN "internal" ELSE "rejected")
    /\ UNCHANGED <<document, cuda>>

\* execute_command of the adapter; localFake has none.
AdapterCheck ==
    /\ stage = "adapter"
    /\ \E x \in plan :
          IF x.runtime = "localFake" THEN stage' = "executes" /\ UNCHANGED exits
          ELSE IF expected_record_count(x) # {} THEN stage' = "helper" /\ UNCHANGED exits
          ELSE stage' = "done" /\ Exit("run", "operationalFailure")
    /\ UNCHANGED <<document, cuda, plan>>

\* The arguments check of the helper; a refusal is a nonzero exit of the child.
HelperCheck ==
    /\ stage = "helper"
    /\ \E x \in plan :
          IF IF x.runtime = "cpuProbe" THEN cpu_probe_validate(x) ELSE validate_args(x)
          THEN stage' = "executes" /\ UNCHANGED exits
          ELSE stage' = "done" /\ Exit("run", "operationalFailure")
    /\ UNCHANGED <<document, cuda, plan>>

Terminated ==
    /\ stage \in {"executes", "done"}
    /\ "none" \notin {exits["validate"], exits["resolve"]}
    /\ UNCHANGED vars

Next ==
    \/ ValidateCommand \/ ResolveCommand \/ RunCommand \/ AdapterCheck \/ HelperCheck
    \/ Terminated

Spec == Init /\ [][Next]_vars

-----------------------------------------------------------------------------
(* Properties                                                              *)

\* What validate admits and execution_kind can execute is never refused later:
\* the limits the adapters and the helpers check again are implied.
AdmittedIsExecuted == exits["run"] # "operationalFailure"

\* The exact work of an admitted plan is within the public bounds; no overflow
\* of the checked arithmetic hides a larger one.
WorkIsBounded ==
    \A x \in plan :
        LET records == x.warmups + x.repetitions
        IN  /\ x.requests > 0 /\ x.repetitions > 0
            /\ x.runtime = "cpuProbe" =>
                 records * x.requests * x.tokens * x.units <= MAX_CPU_PROBE_TOTAL_WORK_UNITS
            /\ x.runtime = "llamaCpp" =>
                 records * x.requests * (MAX_LLAMA_CPP_PROMPT_TOKENS + x.tokens)
                   <= MAX_LLAMA_CPP_TOTAL_TOKENS

\* Everything an admitted plan may emit fits: each line the adapter's record
\* limit, all lines (the NVIDIA metadata included) its stdout limit, and the
\* measurements the verifier's file limit.
OutputFits ==
    \A x \in plan :
        LET records == x.warmups + x.repetitions
        IN  CASE x.runtime = "localFake" -> records * FakeRecordBytes <= MAX_MEASUREMENTS_BYTES
              [] x.runtime = "cpuProbe" -> records * CPU_RECORD_BYTES <= CPU_STDOUT_BYTES
              [] x.runtime = "llamaCpp" ->
                   /\ HeaderBytes + x.requests * ObservationBytes <= LLAMA_RECORD_BYTES
                   /\ (records + expected_metadata_records(x)) * LLAMA_RECORD_BYTES
                        <= LLAMA_STDOUT_BYTES
                   /\ records * LLAMA_RECORD_BYTES <= MAX_MEASUREMENTS_BYTES

\* The helpers, which can be called without benchplane, accept exactly the
\* arguments validate has no objection to.
HelpersAgree ==
    Readable(document) =>
        LET x == parse_experiment(document)
            Objections == validate(x) \cap
                {"NoRequests", "NoRepetitions",
                 "InvalidCpuProbeOutputTokens", "InvalidCpuProbeWorkUnits",
                 "CpuProbeRecordLimit", "CpuProbeWorkLimit",
                 "InvalidLlamaCppOutputTokens", "LlamaCppRecordLimit", "LlamaCppWorkLimit"}
        IN  /\ x.runtime = "cpuProbe" => (cpu_probe_validate(x) <=> Objections = {})
            /\ x.runtime = "llamaCpp" => (validate_args(x) <=> Objections = {})

\* The three commands agree on a document: validate and resolve give the same
\* answer, and run rejects what they reject; beyond that it only rejects a
\* combination it cannot execute.
CommandsAgree ==
    LET v == exits["validate"]
        s == exits["resolve"]
        r == exits["run"]
    IN  /\ "none" \notin {v, s} => v = s
        /\ v \in {"internal", "rejected"} => r \in {"none", v} /\ plan = {}
        /\ v = "success" /\ r = "rejected" => execution_kind(parse_experiment(document)) = {}
        /\ \A x \in plan : x.target = "nvidiaCuda" /\ x.runtime = "llamaCpp" => cuda

\* The plan a run stores resolves to itself: read back with the defaults of
\* the parser it is the same experiment, which is what validate_resolved_plan
\* and validate_original_experiment later insist on.
ResolutionIsStable ==
    \A x \in plan : resolve_experiment(parse_experiment(Serialized(x))) = {x}

\* Everyone who judges an experiment agrees: the three commands, the helpers
\* when called on their own, and the verifier that resolves the stored plan again.
JudgesAgree == CommandsAgree /\ HelpersAgree /\ ResolutionIsStable
=============================================================================
