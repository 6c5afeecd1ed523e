-------------------------- MODULE AdmissionProofs --------------------------
(***************************************************************************)
(* Theorems about Admission for every choice of limits and widths that     *)
(* satisfies its assumptions, and for every set of documents: what         *)
(* Experiment::validate admits is never refused by the adapters or the     *)
(* helpers, is bounded, fits every transport, and resolves to itself.      *)
(***************************************************************************)
EXTENDS Admission, TLAPS

-----------------------------------------------------------------------------
(* Arithmetic                                                              *)

\* Multiplication respects the order, as every limit on a product needs.
LEMMA MulMonotone ==
    ASSUME NEW a \in Nat, NEW b \in Nat, NEW c \in Nat, a <= b
    PROVE  a * c <= b * c /\ c * a <= c * b
OBVIOUS

\* Division undoes a bound on a product.
LEMMA DivBound ==
    ASSUME NEW a \in Nat, NEW b \in Nat \ {0}, NEW c \in Nat, a * b <= c
    PROVE  a <= c \div b
OBVIOUS

\* checked_mul: nothing when there is nothing to multiply or the product is too wide.
LEMMA CheckedMul ==
    ASSUME NEW a \in SUBSET Nat, NEW b \in Nat, NEW limit \in Nat,
           ~Exceeds(checked_mul(a, b), limit)
    PROVE  \E v \in a : v * b <= limit /\ v * b <= U64Max
<1>1. PICK w \in checked_mul(a, b) : ~(w > limit)
  BY DEF Exceeds
<1>2. PICK v \in a : w = v * b /\ w <= U64Max
  BY DEF checked_mul
<1>3. v \in Nat /\ v * b \in Nat
  OBVIOUS
<1> QED
  BY <1>1, <1>2, <1>3

-----------------------------------------------------------------------------
(* Parsing                                                                 *)

\* A typed experiment: what the parser makes of a document.
Typed(x) ==
    /\ x.requests \in 0..U32Max /\ x.units \in 0..U32Max
    /\ x.warmups \in 0..U32Max /\ x.repetitions \in 0..U32Max /\ x.tokens \in 0..U32Max
    /\ x.target \in {"cpu", "nvidiaCuda"}
    /\ x.runtime \in {"localFake", "cpuProbe", "llamaCpp", "vllm"}

\* A parsed experiment is within the types of its fields, defaults included.
LEMMA ParseType ==
    ASSUME NEW d \in Documents
    PROVE  Typed(parse_experiment(d))
<1> DEFINE x == parse_experiment(d)
<1>1. d \in DocumentType /\ U32Max \in Nat /\ U32Max >= 4
  BY DocumentsAssumption, AdmissionAssumption
<1>2. /\ x.requests = d.requests /\ x.units = d.units /\ x.runtime = d.runtime
      /\ x.warmups = Given(d.warmups, 1) /\ x.repetitions = Given(d.repetitions, 3)
      /\ x.tokens = Given(d.tokens, 4) /\ x.target = Given(d.target, "cpu")
  BY <1>1 DEF parse_experiment, Defaults, DefaultTarget, DocumentType
<1>3. /\ d.warmups \in SUBSET (0..U32Max) /\ d.repetitions \in SUBSET (0..U32Max)
      /\ d.tokens \in SUBSET (0..U32Max) /\ d.target \in SUBSET {"cpu", "nvidiaCuda"}
      /\ d.requests \in 0..U32Max /\ d.units \in 0..U32Max
      /\ d.runtime \in {"localFake", "cpuProbe", "llamaCpp", "vllm"}
  BY <1>1 DEF DocumentType
<1>4. 1 \in 0..U32Max /\ 3 \in 0..U32Max /\ 4 \in 0..U32Max
  BY <1>1
<1>5. x.warmups \in 0..U32Max
  BY <1>2, <1>3, <1>4 DEF Given
<1>6. x.repetitions \in 0..U32Max
  BY <1>2, <1>3, <1>4 DEF Given
<1>7. x.tokens \in 0..U32Max
  BY <1>2, <1>3, <1>4 DEF Given
<1>8. x.target \in {"cpu", "nvidiaCuda"}
  BY <1>2, <1>3 DEF Given
<1> HIDE DEF x
<1>9. Typed(x)
  BY <1>2, <1>3, <1>5, <1>6, <1>7, <1>8 DEF Typed
<1> QED
  BY <1>9 DEF x

\* Writing an experiment out and reading it back gives the same experiment.
LEMMA RoundTrip ==
    ASSUME NEW d \in Documents
    PROVE  parse_experiment(Serialized(parse_experiment(d))) = parse_experiment(d)
<1> DEFINE x == parse_experiment(d)
           s == Serialized(x)
<1>1. d \in DocumentType /\ Typed(x)
  BY DocumentsAssumption, ParseType
<1>2. DOMAIN x = DOMAIN d /\ DOMAIN s = DOMAIN d /\ DOMAIN parse_experiment(s) = DOMAIN d
  BY DEF parse_experiment, Serialized
<1>3. ASSUME NEW field \in DOMAIN d PROVE parse_experiment(s)[field] = x[field]
  <2>1. parse_experiment(s)[field]
          = IF field \in DOMAIN Defaults THEN Given(s[field], Defaults[field]) ELSE s[field]
    BY <1>2, <1>3 DEF parse_experiment
  <2>2. s[field] = IF field = "target" THEN {x[field]} \ {"cpu"}
                   ELSE IF field \in DOMAIN Defaults THEN {x[field]} ELSE x[field]
    BY <1>2, <1>3 DEF Serialized
  <2>3. \A v, default : Given({v}, default) = v /\ Given({}, default) = default
    BY DEF Given
  <2>4. CASE field = "target"
    <3>1. "target" \in DOMAIN Defaults /\ Defaults["target"] = "cpu"
      BY DEF Defaults, DefaultTarget
    <3>2. CASE x["target"] = "cpu"
      <4>1. s["target"] = {}
        BY <2>2, <2>4, <3>2
      <4> QED
        BY <2>1, <2>3, <2>4, <3>1, <3>2, <4>1
    <3>3. CASE x["target"] # "cpu"
      <4>1. s["target"] = {x["target"]}
        BY <2>2, <2>4, <3>3
      <4> QED
        BY <2>1, <2>3, <2>4, <3>1, <4>1
    <3> QED
      BY <3>2, <3>3
  <2>5. CASE field # "target" /\ field \in DOMAIN Defaults
    <3>1. s[field] = {x[field]} /\ parse_experiment(s)[field] = Given(s[field], Defaults[field])
      BY <2>1, <2>2, <2>5
    <3> QED
      BY <2>3, <3>1
  <2>6. CASE field # "target" /\ field \notin DOMAIN Defaults
    BY <2>1, <2>2, <2>6
  <2> QED
    BY <2>4, <2>5, <2>6
<1>4. /\ x = [field \in DOMAIN d |-> x[field]]
      /\ parse_experiment(s) = [field \in DOMAIN d |-> parse_experiment(s)[field]]
  BY <1>2 DEF parse_experiment
<1> QED
  BY <1>2, <1>3, <1>4

-----------------------------------------------------------------------------
(* Experiment::validate, error by error                                    *)

\* The errors that every runtime shares.
LEMMA GeneralVerdict ==
    ASSUME NEW x
    PROVE  /\ "NoRequests" \in GeneralErrors(x) <=> x.requests = 0
           /\ "NoRepetitions" \in GeneralErrors(x) <=> x.repetitions = 0
           /\ "LocalFakeRecordLimit" \in GeneralErrors(x) <=>
                x.runtime = "localFake" /\ Exceeds(record_count(x), MAX_LOCAL_FAKE_RECORDS)
BY DEF GeneralErrors, Errors

\* The errors of the CPU probe.
LEMMA CpuProbeVerdict ==
    ASSUME NEW x
    PROVE  /\ "InvalidCpuProbeOutputTokens" \in CpuProbeErrors(x)
                <=> x.tokens \notin 1..MAX_CPU_PROBE_OUTPUT_TOKENS
           /\ "InvalidCpuProbeWorkUnits" \in CpuProbeErrors(x)
                <=> x.units \notin 1..MAX_CPU_PROBE_WORK_UNITS_PER_TOKEN
           /\ "CpuProbeRecordLimit" \in CpuProbeErrors(x)
                <=> Exceeds(record_count(x), MAX_CPU_PROBE_RECORDS)
           /\ "CpuProbeWorkLimit" \in CpuProbeErrors(x)
                <=> Exceeds(cpu_work(x), MAX_CPU_PROBE_TOTAL_WORK_UNITS)
BY DEF CpuProbeErrors, Errors

\* The errors of llama.cpp.
LEMMA LlamaCppVerdict ==
    ASSUME NEW x
    PROVE  /\ "InvalidLlamaCppOutputTokens" \in LlamaCppErrors(x)
                <=> x.tokens \notin 1..MAX_LLAMA_CPP_OUTPUT_TOKENS
           /\ "LlamaCppRecordLimit" \in LlamaCppErrors(x)
                <=> Exceeds(record_count(x), MAX_LLAMA_CPP_RECORDS)
           /\ "LlamaCppWorkLimit" \in LlamaCppErrors(x)
                <=> Exceeds(llama_work(x), MAX_LLAMA_CPP_TOTAL_TOKENS)
BY DEF LlamaCppErrors, Errors

\* An experiment without errors has none of its runtime.
LEMMA Verdicts ==
    ASSUME NEW x, validate(x) = {}
    PROVE  /\ GeneralErrors(x) = {}
           /\ x.runtime = "cpuProbe" => CpuProbeErrors(x) = {}
           /\ x.runtime = "llamaCpp" => LlamaCppErrors(x) = {}
BY DEF validate

-----------------------------------------------------------------------------
(* What validate admits.                                                   *)

\* The counted records of an admitted plan.
Records(x) == x.warmups + x.repetitions

\* An admitted number of records did not overflow.
LEMMA RecordCount ==
    ASSUME NEW x, Typed(x), NEW limit \in Nat, ~Exceeds(record_count(x), limit)
    PROVE  record_count(x) = {Records(x)} /\ Records(x) \in Nat /\ Records(x) <= limit
           /\ Records(x) <= U32Max
BY AdmissionAssumption DEF Typed, record_count, checked_add, Exceeds, Records

\* The work of an admitted CPU probe.
LEMMA CpuWork ==
    ASSUME NEW x, Typed(x), ~Exceeds(record_count(x), MAX_CPU_PROBE_RECORDS),
           ~Exceeds(cpu_work(x), MAX_CPU_PROBE_TOTAL_WORK_UNITS)
    PROVE  Records(x) * x.requests * x.tokens * x.units <= MAX_CPU_PROBE_TOTAL_WORK_UNITS
<1>0. /\ MAX_CPU_PROBE_TOTAL_WORK_UNITS \in Nat /\ MAX_CPU_PROBE_RECORDS \in Nat
      /\ x.requests \in Nat /\ x.tokens \in Nat /\ x.units \in Nat
  BY AdmissionAssumption DEF Typed
<1>1. record_count(x) = {Records(x)} /\ Records(x) \in Nat
  BY <1>0, RecordCount
<1> DEFINE a == checked_mul(record_count(x), x.requests)
           b == checked_mul(a, x.tokens)
<1>2. a \subseteq {Records(x) * x.requests}
  BY <1>1 DEF checked_mul
<1>3. b \subseteq {Records(x) * x.requests * x.tokens}
  BY <1>2 DEF checked_mul
<1>4. Records(x) * x.requests \in Nat /\ Records(x) * x.requests * x.tokens \in Nat
  BY <1>0, <1>1
<1>5. b \in SUBSET Nat
  BY <1>3, <1>4
<1>6. ~Exceeds(checked_mul(b, x.units), MAX_CPU_PROBE_TOTAL_WORK_UNITS)
  BY DEF cpu_work
<1> HIDE DEF a, b
<1>7. \E v \in b : v * x.units <= MAX_CPU_PROBE_TOTAL_WORK_UNITS
  BY <1>0, <1>5, <1>6, CheckedMul
<1> QED
  BY <1>3, <1>7

\* The work of an admitted llama.cpp plan.
LEMMA LlamaWork ==
    ASSUME NEW x, Typed(x), ~Exceeds(record_count(x), MAX_LLAMA_CPP_RECORDS),
           ~Exceeds(llama_work(x), MAX_LLAMA_CPP_TOTAL_TOKENS)
    PROVE  Records(x) * x.requests * (MAX_LLAMA_CPP_PROMPT_TOKENS + x.tokens)
             <= MAX_LLAMA_CPP_TOTAL_TOKENS
<1>0. /\ MAX_LLAMA_CPP_TOTAL_TOKENS \in Nat /\ MAX_LLAMA_CPP_RECORDS \in Nat
      /\ MAX_LLAMA_CPP_PROMPT_TOKENS \in Nat
      /\ x.requests \in Nat /\ x.tokens \in Nat
  BY AdmissionAssumption DEF Typed
<1>1. record_count(x) = {Records(x)} /\ Records(x) \in Nat
  BY <1>0, RecordCount
<1> DEFINE a == checked_mul(record_count(x), x.requests)
           t == MAX_LLAMA_CPP_PROMPT_TOKENS + x.tokens
<1>2. a \subseteq {Records(x) * x.requests} /\ Records(x) * x.requests \in Nat
  BY <1>0, <1>1 DEF checked_mul
<1>3. PICK w \in llama_work(x) : ~(w > MAX_LLAMA_CPP_TOTAL_TOKENS)
  BY DEF Exceeds
<1>4. PICK tokens \in checked_add(MAX_LLAMA_CPP_PROMPT_TOKENS, x.tokens) :
        w \in checked_mul(a, tokens)
  BY <1>3 DEF llama_work
<1>5. tokens = t /\ t \in Nat
  BY <1>0, <1>4 DEF checked_add
<1>6. w = Records(x) * x.requests * t
  BY <1>2, <1>4, <1>5 DEF checked_mul
<1> HIDE DEF t
<1>7. Records(x) * x.requests * t <= MAX_LLAMA_CPP_TOTAL_TOKENS
  BY <1>0, <1>2, <1>3, <1>5, <1>6
<1> QED
  BY <1>7 DEF t

\* What is admitted, limit by limit, in the terms the later checks use.
LEMMA Admitted ==
    ASSUME NEW x, Typed(x), validate(x) = {}
    PROVE  /\ x.requests > 0 /\ x.repetitions > 0 /\ Records(x) \in Nat \ {0}
           /\ x.runtime = "localFake" => Records(x) <= MAX_LOCAL_FAKE_RECORDS
           /\ x.runtime = "cpuProbe" =>
                /\ record_count(x) = {Records(x)} /\ Records(x) <= MAX_CPU_PROBE_RECORDS
                /\ Records(x) * x.requests * x.tokens * x.units <= MAX_CPU_PROBE_TOTAL_WORK_UNITS
                /\ cpu_probe_validate(x)
           /\ x.runtime = "llamaCpp" =>
                /\ record_count(x) = {Records(x)} /\ Records(x) <= MAX_LLAMA_CPP_RECORDS
                /\ Records(x) <= U32Max /\ x.tokens >= 1
                /\ Records(x) * x.requests * (MAX_LLAMA_CPP_PROMPT_TOKENS + x.tokens)
                     <= MAX_LLAMA_CPP_TOTAL_TOKENS
<1>1. /\ x.requests # 0 /\ x.repetitions # 0
      /\ x.runtime = "localFake" => ~Exceeds(record_count(x), MAX_LOCAL_FAKE_RECORDS)
  BY Verdicts, GeneralVerdict
<1>2. {MAX_LOCAL_FAKE_RECORDS, MAX_CPU_PROBE_RECORDS, MAX_LLAMA_CPP_RECORDS, U32Max} \subseteq Nat
  BY AdmissionAssumption
<1>3. x.requests > 0 /\ x.repetitions > 0 /\ Records(x) \in Nat \ {0}
  BY <1>1, <1>2 DEF Typed, Records
<1>4. CASE x.runtime = "localFake"
  BY <1>1, <1>2, <1>3, <1>4, RecordCount
<1>5. CASE x.runtime = "cpuProbe"
  <2>1. /\ x.tokens \in 1..MAX_CPU_PROBE_OUTPUT_TOKENS
        /\ x.units \in 1..MAX_CPU_PROBE_WORK_UNITS_PER_TOKEN
        /\ ~Exceeds(record_count(x), MAX_CPU_PROBE_RECORDS)
        /\ ~Exceeds(cpu_work(x), MAX_CPU_PROBE_TOTAL_WORK_UNITS)
    BY <1>5, Verdicts, CpuProbeVerdict
  <2>2. cpu_probe_validate(x)
    BY <1>1, <2>1 DEF cpu_probe_validate
  <2>3. record_count(x) = {Records(x)} /\ Records(x) <= MAX_CPU_PROBE_RECORDS
    BY <1>2, <2>1, RecordCount
  <2>4. Records(x) * x.requests * x.tokens * x.units <= MAX_CPU_PROBE_TOTAL_WORK_UNITS
    BY <2>1, CpuWork
  <2> QED
    BY <1>3, <1>5, <2>2, <2>3, <2>4
<1>6. CASE x.runtime = "llamaCpp"
  <2>1. /\ x.tokens \in 1..MAX_LLAMA_CPP_OUTPUT_TOKENS
        /\ ~Exceeds(record_count(x), MAX_LLAMA_CPP_RECORDS)
        /\ ~Exceeds(llama_work(x), MAX_LLAMA_CPP_TOTAL_TOKENS)
    BY <1>6, Verdicts, LlamaCppVerdict
  <2>2. /\ record_count(x) = {Records(x)} /\ Records(x) <= MAX_LLAMA_CPP_RECORDS
        /\ Records(x) <= U32Max
    BY <1>2, <2>1, RecordCount
  <2>3. Records(x) * x.requests * (MAX_LLAMA_CPP_PROMPT_TOKENS + x.tokens)
          <= MAX_LLAMA_CPP_TOTAL_TOKENS
    BY <2>1, LlamaWork
  <2>4. x.tokens >= 1
    BY <2>1
  <2> QED
    BY <1>3, <1>6, <2>2, <2>3, <2>4
<1> QED
  BY <1>3, <1>4, <1>5, <1>6

\* The observations of an admitted llama.cpp plan: the total the code derives by
\* one division bounds them.
LEMMA Observations ==
    ASSUME NEW x, Typed(x), validate(x) = {}, x.runtime = "llamaCpp"
    PROVE  /\ Records(x) * x.requests \in Nat
           /\ Records(x) * x.requests <= MAX_LLAMA_CPP_REQUEST_OBSERVATIONS
           /\ x.requests <= MAX_LLAMA_CPP_REQUEST_OBSERVATIONS
           /\ Records(x) * x.requests <= U64Max
<1> DEFINE n == Records(x) * x.requests
           p == MAX_LLAMA_CPP_PROMPT_TOKENS
<1>1. /\ p \in Nat /\ MAX_LLAMA_CPP_TOTAL_TOKENS \in Nat /\ x.requests \in Nat /\ x.tokens \in Nat
      /\ U32Max \in Nat /\ U64Max \in Nat /\ U32Max * U32Max <= U64Max /\ x.requests <= U32Max
  BY AdmissionAssumption DEF Typed
<1>2. /\ Records(x) \in Nat \ {0} /\ x.tokens >= 1 /\ Records(x) <= U32Max
      /\ n * (p + x.tokens) <= MAX_LLAMA_CPP_TOTAL_TOKENS
  BY Admitted
<1>3. n \in Nat
  BY <1>1, <1>2
<1>4. x.requests <= n
  BY <1>1, <1>2
<1>5. n <= U64Max
  <2>1. Records(x) * x.requests <= U32Max * x.requests
    BY <1>1, <1>2, MulMonotone
  <2>2. U32Max * x.requests <= U32Max * U32Max
    BY <1>1, MulMonotone
  <2> QED
    BY <1>1, <1>2, <1>3, <2>1, <2>2
<1> HIDE DEF n, p
<1>6. n * (p + 1) <= n * (p + x.tokens)
  BY <1>1, <1>2, <1>3, MulMonotone
<1>7. n * (p + 1) <= MAX_LLAMA_CPP_TOTAL_TOKENS
  <2>1. n * (p + 1) \in Nat /\ n * (p + x.tokens) \in Nat
    BY <1>1, <1>3
  <2> QED
    BY <1>1, <1>2, <1>6, <2>1
<1>8. n <= MAX_LLAMA_CPP_TOTAL_TOKENS \div (p + 1)
  BY <1>1, <1>3, <1>7, DivBound
<1>9. x.requests <= MAX_LLAMA_CPP_TOTAL_TOKENS \div (p + 1)
  <2>1. MAX_LLAMA_CPP_TOTAL_TOKENS \div (p + 1) \in Int
    BY <1>1
  <2> QED
    BY <1>1, <1>3, <1>4, <1>8, <2>1
<1> QED
  BY <1>3, <1>5, <1>8, <1>9 DEF n, p, MAX_LLAMA_CPP_REQUEST_OBSERVATIONS

\* The adapter counts the records of every admitted plan.
LEMMA AdapterAccepts ==
    ASSUME NEW x, Typed(x), validate(x) = {}, x.runtime \in {"cpuProbe", "llamaCpp"}
    PROVE  expected_record_count(x) # {}
<1>0. /\ {CPU_RECORD_BYTES, CPU_STDOUT_BYTES, LLAMA_RECORD_BYTES, MAX_CPU_PROBE_RECORDS,
          MAX_LLAMA_CPP_RECORDS, MAX_MEASUREMENTS_BYTES, U64Max} \subseteq Nat
      /\ Records(x) \in Nat
  BY AdmissionAssumption, Admitted
<1>1. CASE x.runtime = "cpuProbe"
  <2>1. record_count(x) = {Records(x)} /\ Records(x) <= MAX_CPU_PROBE_RECORDS
    BY <1>1, Admitted
  <2>2. Records(x) * CPU_RECORD_BYTES <= MAX_CPU_PROBE_RECORDS * CPU_RECORD_BYTES
    BY <1>0, <2>1, MulMonotone
  <2>3. Records(x) * CPU_RECORD_BYTES <= CPU_STDOUT_BYTES
        /\ Records(x) * CPU_RECORD_BYTES <= U64Max
    <3>1. /\ Records(x) * CPU_RECORD_BYTES \in Nat
          /\ MAX_CPU_PROBE_RECORDS * CPU_RECORD_BYTES \in Nat
      BY <1>0
    <3> QED
      BY <1>0, <2>2, <3>1, LimitsAssumption
  <2>4. Records(x) * CPU_RECORD_BYTES
          \in AtMost(checked_mul({Records(x)}, CPU_RECORD_BYTES), CPU_STDOUT_BYTES)
    BY <2>3 DEF AtMost, checked_mul
  <2>5. Records(x) \in AtMost(record_count(x), MAX_CPU_PROBE_RECORDS)
    BY <2>1 DEF AtMost
  <2>6. Records(x) \in expected_record_count(x)
    BY <1>1, <2>4, <2>5 DEF expected_record_count
  <2> QED
    BY <2>6
<1>2. CASE x.runtime = "llamaCpp"
  <2>1. record_count(x) = {Records(x)} /\ Records(x) <= MAX_LLAMA_CPP_RECORDS
    BY <1>2, Admitted
  <2>2. Records(x) * LLAMA_RECORD_BYTES <= (MAX_LLAMA_CPP_RECORDS + 1) * LLAMA_RECORD_BYTES
    BY <1>0, <2>1, MulMonotone
  <2>3. Records(x) * LLAMA_RECORD_BYTES <= LLAMA_STDOUT_BYTES
        /\ Records(x) * LLAMA_RECORD_BYTES <= U64Max
    <3>1. /\ Records(x) * LLAMA_RECORD_BYTES \in Nat
          /\ (MAX_LLAMA_CPP_RECORDS + 1) * LLAMA_RECORD_BYTES \in Nat
      BY <1>0
    <3> QED
      BY <1>0, <2>2, <3>1, LimitsAssumption DEF LLAMA_STDOUT_BYTES
  <2>4. Records(x) * LLAMA_RECORD_BYTES
          \in AtMost(checked_mul({Records(x)}, LLAMA_RECORD_BYTES), LLAMA_STDOUT_BYTES)
    BY <2>3 DEF AtMost, checked_mul
  <2>5. Records(x) * x.requests
          \in AtMost(checked_mul({Records(x)}, x.requests), MAX_LLAMA_CPP_REQUEST_OBSERVATIONS)
    BY <1>2, Observations DEF AtMost, checked_mul
  <2>6. Records(x) \in AtMost(record_count(x), MAX_LLAMA_CPP_RECORDS)
    BY <2>1 DEF AtMost
  <2>7. Records(x) \in expected_record_count(x)
    BY <1>2, <2>4, <2>5, <2>6 DEF expected_record_count
  <2> QED
    BY <2>7
<1> QED
  BY <1>1, <1>2

-----------------------------------------------------------------------------
(* The helpers' own verdicts                                               *)

\* The errors a helper can make out from its arguments.
ArgumentErrors ==
    {"NoRequests", "NoRepetitions", "InvalidCpuProbeOutputTokens", "InvalidCpuProbeWorkUnits",
     "CpuProbeRecordLimit", "CpuProbeWorkLimit", "InvalidLlamaCppOutputTokens",
     "LlamaCppRecordLimit", "LlamaCppWorkLimit"}

\* The errors of each table are its field names.
LEMMA ErrorNames ==
    ASSUME NEW x
    PROVE  /\ (GeneralErrors(x) \cup ProviderErrors(x)) \cap ArgumentErrors
                = GeneralErrors(x) \cap {"NoRequests", "NoRepetitions"}
           /\ CpuProbeErrors(x) \cap ArgumentErrors
                = CpuProbeErrors(x) \cap {"InvalidCpuProbeOutputTokens", "InvalidCpuProbeWorkUnits",
                                          "CpuProbeRecordLimit", "CpuProbeWorkLimit"}
           /\ LlamaCppErrors(x) \cap ArgumentErrors
                = LlamaCppErrors(x) \cap {"InvalidLlamaCppOutputTokens", "LlamaCppRecordLimit",
                                          "LlamaCppWorkLimit"}
<1>1. GeneralErrors(x) \subseteq
        {"ApiVersion", "Kind", "EmptyName", "EmptyWorkloadProfile", "NoRequests", "NoConcurrency",
         "NoRepetitions", "InvalidRuntime", "UnsupportedArtifactFormat", "InvalidVllmIdentity",
         "LocalFakeRecordLimit"}
  BY DEF GeneralErrors, Errors
<1>2. ProviderErrors(x) \subseteq
        {"InvalidAwsBudget", "EmptyAwsRegion", "MissingInstanceTypes", "EmptyAwsInstanceType",
         "InvalidLocalBudget"}
  BY DEF ProviderErrors, Errors
<1>3. CpuProbeErrors(x) \subseteq
        {"InvalidCpuProbeOutputTokens", "InvalidCpuProbeWorkUnits", "InvalidCpuProbeProfile",
         "UnsupportedCpuProbeConcurrency", "CpuProbeRecordLimit", "CpuProbeWorkLimit"}
  BY DEF CpuProbeErrors, Errors
<1>4. LlamaCppErrors(x) \subseteq
        {"InvalidLlamaCppModel", "InvalidLlamaCppOutputTokens", "InvalidLlamaCppProfile",
         "UnsupportedLlamaCppConcurrency", "LlamaCppRecordLimit", "LlamaCppWorkLimit"}
  BY DEF LlamaCppErrors, Errors
<1> QED
  BY <1>1, <1>2, <1>3, <1>4 DEF ArgumentErrors

\* benchplane-cpu-probe accepts exactly the arguments validate does not object to.
LEMMA CpuProbeAgrees ==
    ASSUME NEW x, x.runtime = "cpuProbe"
    PROVE  cpu_probe_validate(x) <=> validate(x) \cap ArgumentErrors = {}
<1>1. validate(x) = GeneralErrors(x) \cup ProviderErrors(x) \cup CpuProbeErrors(x)
  BY DEF validate
<1>2. validate(x) \cap ArgumentErrors
        = (GeneralErrors(x) \cap {"NoRequests", "NoRepetitions"})
          \cup (CpuProbeErrors(x) \cap {"InvalidCpuProbeOutputTokens", "InvalidCpuProbeWorkUnits",
                                        "CpuProbeRecordLimit", "CpuProbeWorkLimit"})
  BY <1>1, ErrorNames
<1> QED
  BY <1>2, GeneralVerdict, CpuProbeVerdict DEF cpu_probe_validate

\* So does the llama.cpp helper, which computes the same limits in another order.
LEMMA LlamaCppAgrees ==
    ASSUME NEW x, Typed(x), x.runtime = "llamaCpp"
    PROVE  validate_args(x) <=> validate(x) \cap ArgumentErrors = {}
<1>1. validate(x) = GeneralErrors(x) \cup ProviderErrors(x) \cup LlamaCppErrors(x)
  BY DEF validate
<1>2. validate(x) \cap ArgumentErrors
        = (GeneralErrors(x) \cap {"NoRequests", "NoRepetitions"})
          \cup (LlamaCppErrors(x) \cap {"InvalidLlamaCppOutputTokens", "LlamaCppRecordLimit",
                                        "LlamaCppWorkLimit"})
  BY <1>1, ErrorNames
<1>3. validate(x) \cap ArgumentErrors = {} <=>
        /\ x.requests # 0 /\ x.repetitions # 0
        /\ x.tokens \in 1..MAX_LLAMA_CPP_OUTPUT_TOKENS
        /\ ~Exceeds(record_count(x), MAX_LLAMA_CPP_RECORDS)
        /\ ~Exceeds(llama_work(x), MAX_LLAMA_CPP_TOTAL_TOKENS)
  BY <1>2, GeneralVerdict, LlamaCppVerdict
<1>4. {U32Max, MAX_LLAMA_CPP_RECORDS, MAX_LLAMA_CPP_PROMPT_TOKENS, MAX_LLAMA_CPP_OUTPUT_TOKENS}
        \subseteq Nat
      /\ MAX_LLAMA_CPP_PROMPT_TOKENS + MAX_LLAMA_CPP_OUTPUT_TOKENS <= U32Max
      /\ x.warmups \in Nat /\ x.repetitions \in Nat /\ x.tokens \in Nat
  BY AdmissionAssumption DEF Typed
<1>5. ~Exceeds(record_count(x), MAX_LLAMA_CPP_RECORDS) <=>
        /\ x.warmups <= U32Max - x.repetitions
        /\ x.warmups + x.repetitions <= MAX_LLAMA_CPP_RECORDS
  BY <1>4 DEF Exceeds, record_count, checked_add
<1>6. ASSUME x.tokens \in 1..MAX_LLAMA_CPP_OUTPUT_TOKENS,
             x.warmups <= U32Max - x.repetitions
      PROVE  llama_work(x) = checked_mul(checked_mul({x.warmups + x.repetitions}, x.requests),
                                         MAX_LLAMA_CPP_PROMPT_TOKENS + x.tokens)
  <2>1. record_count(x) = {x.warmups + x.repetitions}
    BY <1>4, <1>6 DEF record_count, checked_add
  <2>2. checked_add(MAX_LLAMA_CPP_PROMPT_TOKENS, x.tokens)
          = {MAX_LLAMA_CPP_PROMPT_TOKENS + x.tokens}
    BY <1>4, <1>6 DEF checked_add
  <2> QED
    BY <2>1, <2>2 DEF llama_work
<1> QED
  BY <1>3, <1>5, <1>6 DEF validate_args

-----------------------------------------------------------------------------
(* The commands                                                            *)

\* What a command that only judges the document answers.
Judgement ==
    CASE document.text = "unreadable" -> "internal"
      [] document.text = "malformed" -> "rejected"
      [] OTHER -> IF validate(parse_experiment(document)) = {} THEN "success" ELSE "rejected"

\* A plan is the document's experiment, admitted and executable.
PlanInv ==
    \A x \in plan :
        /\ Readable(document) /\ x = parse_experiment(document)
        /\ validate(x) = {} /\ execution_kind(x) # {}

\* Where run is, and how it ended: a plan once admitted is never given up.
StageInv ==
    /\ stage \in {"idle", "adapter", "helper", "executes", "done"}
    /\ stage \in {"idle", "done"} <=> plan = {}
    /\ stage # "done" => exits["run"] = "none"
    /\ stage = "helper" => \A x \in plan : x.runtime # "localFake"
    /\ stage = "done" =>
         /\ exits["run"] = IF document.text = "unreadable" THEN "internal" ELSE "rejected"
         /\ Judgement = "success" => execution_kind(parse_experiment(document)) = {}

ExitInv ==
    /\ DOMAIN exits = {"validate", "resolve", "run"}
    /\ exits["validate"] \in {"none", Judgement}
    /\ exits["resolve"] \in {"none", Judgement}

AdmissionInv == document \in Documents /\ PlanInv /\ StageInv /\ ExitInv

\* Nothing is planned and no command has answered.
LEMMA AdmissionInvInit == Init => AdmissionInv
BY DEF Init, AdmissionInv, PlanInv, StageInv, ExitInv

\* `validate` answers with the judgement and plans nothing.
LEMMA ValidateStep ==
    ASSUME AdmissionInv, ValidateCommand PROVE AdmissionInv'
<1>1. UNCHANGED <<document, cuda, plan, stage>>
  BY DEF ValidateCommand
<1>2. document \in DocumentType
  BY DocumentsAssumption DEF AdmissionInv
<1>3. document.text \in {"unreadable", "malformed", "experiment"}
  BY <1>2 DEF DocumentType
<1>4. exits' = [exits EXCEPT !["validate"] = Judgement]
  BY <1>3 DEF ValidateCommand, Exit, Refusal, Judgement
<1>5. Judgement' = Judgement
  BY <1>1 DEF Judgement
<1>6. execution_kind(parse_experiment(document))' = execution_kind(parse_experiment(document))
  BY <1>1 DEF execution_kind
<1>7. PlanInv'
  BY <1>1 DEF AdmissionInv, PlanInv, execution_kind
<1>8. StageInv'
  BY <1>1, <1>4, <1>5, <1>6 DEF AdmissionInv, StageInv, ExitInv
<1>9. ExitInv'
  BY <1>4, <1>5 DEF AdmissionInv, ExitInv
<1> QED
  BY <1>1, <1>7, <1>8, <1>9 DEF AdmissionInv

\* `resolve` answers with the judgement too: an experiment that parses and is
\* valid always resolves.
LEMMA ResolveStep ==
    ASSUME AdmissionInv, ResolveCommand PROVE AdmissionInv'
<1>1. UNCHANGED <<document, cuda, plan, stage>>
  BY DEF ResolveCommand
<1>2. document \in DocumentType
  BY DocumentsAssumption DEF AdmissionInv
<1>3. document.text \in {"unreadable", "malformed", "experiment"}
  BY <1>2 DEF DocumentType
<1>4. exits' = [exits EXCEPT !["resolve"] = Judgement]
  <2>1. resolve_experiment(parse_experiment(document)) = {}
          <=> validate(parse_experiment(document)) # {}
    BY DEF resolve_experiment
  <2>2. CASE document.text = "unreadable"
    BY <2>2 DEF ResolveCommand, Exit, Judgement
  <2>3. CASE document.text = "malformed"
    BY <2>3 DEF ResolveCommand, Exit, Judgement
  <2>4. CASE document.text = "experiment" /\ validate(parse_experiment(document)) = {}
    BY <2>1, <2>4 DEF ResolveCommand, Exit, Judgement
  <2>5. CASE document.text = "experiment" /\ validate(parse_experiment(document)) # {}
    BY <2>1, <2>5 DEF ResolveCommand, Exit, Judgement
  <2> QED
    BY <1>3, <2>2, <2>3, <2>4, <2>5
<1>5. Judgement' = Judgement
  BY <1>1 DEF Judgement
<1>6. execution_kind(parse_experiment(document))' = execution_kind(parse_experiment(document))
  BY <1>1 DEF execution_kind
<1>7. PlanInv'
  BY <1>1 DEF AdmissionInv, PlanInv, execution_kind
<1>8. StageInv'
  BY <1>1, <1>4, <1>5, <1>6 DEF AdmissionInv, StageInv, ExitInv
<1>9. ExitInv'
  BY <1>4, <1>5 DEF AdmissionInv, ExitInv
<1> QED
  BY <1>1, <1>7, <1>8, <1>9 DEF AdmissionInv

\* `run` plans what was judged valid and nothing else.
LEMMA RunStep ==
    ASSUME AdmissionInv, RunCommand PROVE AdmissionInv'
<1> DEFINE x == parse_experiment(document)
           Kind == execution_kind(x)
<1>1. /\ UNCHANGED <<document, cuda>> /\ stage = "idle" /\ plan = {} /\ exits["run"] = "none"
  BY DEF RunCommand, AdmissionInv, StageInv
<1>2. document \in DocumentType
  BY DocumentsAssumption DEF AdmissionInv
<1>3. document.text \in {"unreadable", "malformed", "experiment"}
  BY <1>2 DEF DocumentType
<1>4. plan' = IF Readable(document) /\ validate(x) = {} /\ Kind # {} THEN {x} ELSE {}
  BY DEF RunCommand, resolve_experiment
<1>5. /\ stage' = IF plan' = {} THEN "done" ELSE "adapter"
      /\ plan' # {} => exits' = exits
      /\ plan' = {} => exits' = [exits EXCEPT !["run"] = IF document.text = "unreadable"
                                                         THEN "internal" ELSE "rejected"]
  BY DEF RunCommand, Exit
<1>6. Judgement' = Judgement
  BY <1>1 DEF Judgement
<1>7. execution_kind(parse_experiment(document))' = Kind
  BY <1>1 DEF execution_kind
<1>8. Judgement = "success" => Readable(document) /\ validate(x) = {}
  BY <1>3 DEF Judgement, Readable
<1>9. PlanInv'
  BY <1>1, <1>4, <1>7 DEF PlanInv, Readable
<1>10. StageInv'
  BY <1>1, <1>4, <1>5, <1>6, <1>7, <1>8 DEF AdmissionInv, StageInv, ExitInv
<1>11. ExitInv'
  BY <1>5, <1>6 DEF AdmissionInv, ExitInv
<1> QED
  BY <1>1, <1>9, <1>10, <1>11 DEF AdmissionInv

\* The checks of adapter and helper pass for every plan there can be.
LEMMA ChecksPass ==
    ASSUME AdmissionInv, NEW x \in plan
    PROVE  /\ Typed(x) /\ validate(x) = {}
           /\ x.runtime \in {"localFake", "cpuProbe", "llamaCpp"}
           /\ x.runtime # "localFake" => expected_record_count(x) # {}
           /\ x.runtime = "cpuProbe" => cpu_probe_validate(x)
           /\ x.runtime = "llamaCpp" => validate_args(x)
<1>1. Typed(x) /\ validate(x) = {}
  BY ParseType DEF AdmissionInv, PlanInv
<1>2. x.runtime \in {"localFake", "cpuProbe", "llamaCpp"}
  <2>1. execution_kind(x) # {}
    BY DEF AdmissionInv, PlanInv
  <2> QED
    BY <2>1 DEF execution_kind
<1>3. x.runtime # "localFake" => expected_record_count(x) # {}
  BY <1>1, <1>2, AdapterAccepts
<1>4. validate(x) \cap ArgumentErrors = {}
  BY <1>1
<1> QED
  BY <1>1, <1>2, <1>3, <1>4, CpuProbeAgrees, LlamaCppAgrees

\* The checks of the adapter and of the helper turn no planned run away.
LEMMA CheckStep ==
    ASSUME AdmissionInv, AdapterCheck \/ HelperCheck PROVE AdmissionInv'
<1>1. UNCHANGED <<document, cuda, plan>> /\ stage \in {"adapter", "helper"}
  BY DEF AdapterCheck, HelperCheck
<1>2. plan # {}
  BY <1>1 DEF AdmissionInv, StageInv
<1>3. /\ stage' \in {"helper", "executes"} /\ exits' = exits
      /\ stage' = "helper" => \A x \in plan : x.runtime # "localFake"
  <2>1. CASE AdapterCheck
    <3>1. PICK x \in plan :
            IF x.runtime = "localFake" THEN stage' = "executes" /\ UNCHANGED exits
            ELSE IF expected_record_count(x) # {} THEN stage' = "helper" /\ UNCHANGED exits
            ELSE stage' = "done" /\ Exit("run", "operationalFailure")
      BY <2>1 DEF AdapterCheck
    <3>2. \A y \in plan : y = x
      BY DEF AdmissionInv, PlanInv
    <3> QED
      BY <3>1, <3>2, ChecksPass
  <2>2. CASE HelperCheck
    <3>1. PICK x \in plan :
            IF IF x.runtime = "cpuProbe" THEN cpu_probe_validate(x) ELSE validate_args(x)
            THEN stage' = "executes" /\ UNCHANGED exits
            ELSE stage' = "done" /\ Exit("run", "operationalFailure")
      BY <2>2 DEF HelperCheck
    <3>2. x.runtime # "localFake"
      BY <2>2 DEF HelperCheck, AdmissionInv, StageInv
    <3> QED
      BY <3>1, <3>2, ChecksPass
  <2> QED
    BY <2>1, <2>2
<1>4. Judgement' = Judgement
  BY <1>1 DEF Judgement
<1>5. PlanInv'
  BY <1>1 DEF AdmissionInv, PlanInv, execution_kind
<1>6. StageInv' /\ ExitInv'
  BY <1>1, <1>2, <1>3, <1>4 DEF AdmissionInv, StageInv, ExitInv
<1> QED
  BY <1>1, <1>5, <1>6 DEF AdmissionInv

\* The inductive invariant: the plan is the admitted document, every command
\* that ended gave the one judgement, and run gave up only without a plan.
THEOREM AdmissionInvariant == Spec => []AdmissionInv
<1>1. AdmissionInv /\ [Next]_vars => AdmissionInv'
  <2> SUFFICES ASSUME AdmissionInv, [Next]_vars PROVE AdmissionInv'
    OBVIOUS
  <2>1. CASE UNCHANGED vars
    BY <2>1 DEF vars, AdmissionInv, PlanInv, StageInv, ExitInv, Judgement, execution_kind
  <2> QED
    BY <2>1, ValidateStep, ResolveStep, RunStep, CheckStep DEF Next, Terminated
<1> QED
  BY <1>1, AdmissionInvInit, PTL DEF Spec

-----------------------------------------------------------------------------
(* The properties                                                          *)

\* What validate admits and run can execute is refused by neither adapter nor
\* helper, whatever the limits are.
THEOREM AdmittedExecuted == Spec => []AdmittedIsExecuted
<1>1. AdmissionInv => AdmittedIsExecuted
  BY DEF AdmissionInv, StageInv, AdmittedIsExecuted
<1> QED
  BY <1>1, AdmissionInvariant, PTL

\* The exact, unbounded product of an admitted plan is within its bound.
THEOREM WorkBounded == Spec => []WorkIsBounded
<1>1. AdmissionInv => WorkIsBounded
  <2> SUFFICES ASSUME AdmissionInv PROVE WorkIsBounded
    OBVIOUS
  <2> QED
    BY ChecksPass, Admitted DEF WorkIsBounded, Records
<1> QED
  BY <1>1, AdmissionInvariant, PTL

\* Every line and the sum of all lines of an admitted plan fit their limits.
THEOREM OutputFitsBounds == Spec => []OutputFits
<1>1. AdmissionInv => OutputFits
  <2> SUFFICES ASSUME AdmissionInv, NEW x \in plan
               PROVE  LET records == x.warmups + x.repetitions
                      IN  CASE x.runtime = "localFake" ->
                                 records * FakeRecordBytes <= MAX_MEASUREMENTS_BYTES
                            [] x.runtime = "cpuProbe" ->
                                 records * CPU_RECORD_BYTES <= CPU_STDOUT_BYTES
                            [] x.runtime = "llamaCpp" ->
                                 /\ HeaderBytes + x.requests * ObservationBytes <= LLAMA_RECORD_BYTES
                                 /\ (records + expected_metadata_records(x)) * LLAMA_RECORD_BYTES
                                      <= LLAMA_STDOUT_BYTES
                                 /\ records * LLAMA_RECORD_BYTES <= MAX_MEASUREMENTS_BYTES
    BY DEF OutputFits
  <2>0. Typed(x) /\ validate(x) = {} /\ x.runtime \in {"localFake", "cpuProbe", "llamaCpp"}
    BY ChecksPass
  <2>1. /\ {MAX_LOCAL_FAKE_RECORDS, FakeRecordBytes, MAX_MEASUREMENTS_BYTES, MAX_CPU_PROBE_RECORDS,
            CPU_RECORD_BYTES, CPU_STDOUT_BYTES, MAX_LLAMA_CPP_RECORDS, LLAMA_RECORD_BYTES,
            HeaderBytes, ObservationBytes, MAX_LLAMA_CPP_TOTAL_TOKENS,
            MAX_LLAMA_CPP_PROMPT_TOKENS} \subseteq Nat
        /\ Records(x) \in Nat /\ x.requests \in Nat
    BY <2>0, AdmissionAssumption, Admitted DEF Typed
  <2>2. CASE x.runtime = "localFake"
    <3>1. Records(x) * FakeRecordBytes <= MAX_LOCAL_FAKE_RECORDS * FakeRecordBytes
      BY <2>0, <2>1, <2>2, Admitted, MulMonotone
    <3>2. Records(x) * FakeRecordBytes \in Nat /\ MAX_LOCAL_FAKE_RECORDS * FakeRecordBytes \in Nat
      BY <2>1
    <3>3. Records(x) * FakeRecordBytes <= MAX_MEASUREMENTS_BYTES
      BY <2>1, <3>1, <3>2, LimitsAssumption
    <3> QED
      BY <2>2, <3>3 DEF Records
  <2>3. CASE x.runtime = "cpuProbe"
    <3>1. Records(x) * CPU_RECORD_BYTES <= MAX_CPU_PROBE_RECORDS * CPU_RECORD_BYTES
      BY <2>0, <2>1, <2>3, Admitted, MulMonotone
    <3>2. Records(x) * CPU_RECORD_BYTES \in Nat /\ MAX_CPU_PROBE_RECORDS * CPU_RECORD_BYTES \in Nat
      BY <2>1
    <3>3. Records(x) * CPU_RECORD_BYTES <= CPU_STDOUT_BYTES
      BY <2>1, <3>1, <3>2, LimitsAssumption
    <3> QED
      BY <2>3, <3>3 DEF Records
  <2>4. CASE x.runtime = "llamaCpp"
    <3> DEFINE all == MAX_LLAMA_CPP_RECORDS + 1
               most == MAX_LLAMA_CPP_REQUEST_OBSERVATIONS
               m == expected_metadata_records(x)
    <3>0. m \in {0, 1} /\ most \in Nat /\ all \in Nat
      BY <2>1 DEF expected_metadata_records, MAX_LLAMA_CPP_REQUEST_OBSERVATIONS
    <3>1. Records(x) <= MAX_LLAMA_CPP_RECORDS /\ x.requests <= most
      BY <2>0, <2>4, Admitted, Observations
    <3>2. x.requests * ObservationBytes <= most * ObservationBytes
      BY <2>1, <3>0, <3>1, MulMonotone
    <3>3. most * ObservationBytes + HeaderBytes <= LLAMA_RECORD_BYTES
      BY LimitsAssumption DEF MAX_LLAMA_CPP_REQUEST_OBSERVATIONS
    <3>4. x.requests * ObservationBytes \in Nat /\ most * ObservationBytes \in Nat
      BY <2>1, <3>0
    <3> HIDE DEF most
    <3>5. HeaderBytes + x.requests * ObservationBytes <= LLAMA_RECORD_BYTES
      BY <2>1, <3>2, <3>3, <3>4
    <3>6. Records(x) + m \in Nat /\ Records(x) + m <= all /\ Records(x) <= all
      BY <2>1, <3>0, <3>1
    <3>7. /\ (Records(x) + m) * LLAMA_RECORD_BYTES <= all * LLAMA_RECORD_BYTES
          /\ Records(x) * LLAMA_RECORD_BYTES <= all * LLAMA_RECORD_BYTES
      BY <2>1, <3>0, <3>6, MulMonotone
    <3>8. Records(x) * LLAMA_RECORD_BYTES \in Nat /\ all * LLAMA_RECORD_BYTES \in Nat
      BY <2>1
    <3>9. Records(x) * LLAMA_RECORD_BYTES <= MAX_MEASUREMENTS_BYTES
      BY <2>1, <3>7, <3>8, LimitsAssumption
    <3> QED
      BY <2>4, <3>5, <3>7, <3>9 DEF Records, LLAMA_STDOUT_BYTES
  <2> QED
    BY <2>0, <2>2, <2>3, <2>4
<1> QED
  BY <1>1, AdmissionInvariant, PTL

\* The commands, the helpers called on their own and the verifier that reads
\* the stored plan back all give one judgement of an experiment.
THEOREM OneJudgement == Spec => []JudgesAgree
<1>1. AdmissionInv => CommandsAgree
  <2> SUFFICES ASSUME AdmissionInv PROVE CommandsAgree
    OBVIOUS
  <2>1. document \in DocumentType
    BY DocumentsAssumption DEF AdmissionInv
  <2>2. document.text \in {"unreadable", "malformed", "experiment"}
    BY <2>1 DEF DocumentType
  <2>3. /\ Judgement = "success" => document.text = "experiment"
        /\ Judgement = "internal" <=> document.text = "unreadable"
        /\ Judgement \in {"success", "internal", "rejected"}
        /\ plan # {} => Judgement = "success"
    BY <2>2 DEF Judgement, AdmissionInv, PlanInv, Readable
  <2>4. ASSUME NEW x \in plan, x.target = "nvidiaCuda", x.runtime = "llamaCpp" PROVE cuda
    <3>1. execution_kind(x) # {}
      BY DEF AdmissionInv, PlanInv
    <3> QED
      BY <2>4, <3>1 DEF execution_kind
  <2>5. /\ exits["validate"] \in {"none", Judgement} /\ exits["resolve"] \in {"none", Judgement}
        /\ stage # "done" => exits["run"] = "none"
        /\ stage = "done" => plan = {} /\ exits["run"] = IF document.text = "unreadable"
                                                         THEN "internal" ELSE "rejected"
        /\ stage = "done" /\ Judgement = "success" => execution_kind(parse_experiment(document)) = {}
    BY DEF AdmissionInv, StageInv, ExitInv
  <2> QED
    BY <2>3, <2>4, <2>5 DEF CommandsAgree
<1>2. AdmissionInv => HelpersAgree
  BY CpuProbeAgrees, LlamaCppAgrees, ParseType DEF AdmissionInv, HelpersAgree, ArgumentErrors
<1>3. AdmissionInv => ResolutionIsStable
  BY RoundTrip DEF AdmissionInv, PlanInv, ResolutionIsStable, resolve_experiment
<1> QED
  BY <1>1, <1>2, <1>3, AdmissionInvariant, PTL DEF JudgesAgree
=============================================================================
