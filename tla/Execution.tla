----------------------------- MODULE Execution -----------------------------
(***************************************************************************)
(* What one attempt may hand back to the run pipeline: the ExecutionOutput *)
(* of execution.rs as the three runtimes build it (local_fake.rs,          *)
(* cpu_probe.rs, llama_cpp.rs), and the validity and summary derived from  *)
(* it.  A plan keeps what the pipeline and the verifier branch on: the     *)
(* runtime, the fake's scenario, the warmup and repetition counts, and     *)
(* whether the request's own files are too long for the verifier.  A       *)
(* measurement keeps its place in the protocol (phase and repetition) and  *)
(* whether its values agree with each other.                               *)
(***************************************************************************)
EXTENDS Naturals, Sequences, FiniteSets, Lifecycle

HelperRuntimes == {"cpuProbe", "llamaCpp", "llamaCppCuda"}

Scenarios == {"success", "insufficientMeasurements", "runtimeFailure", "interrupted"}

ValidityStatuses == {"valid", "invalid", "indeterminate"}

\* The files of a bundle that hold the request itself.  The name and labels of
\* an experiment have no limit, and neither parse_experiment nor
\* resolve_experiment looks at the length of what it reads or returns.
RequestFiles == {"experiment", "plan"}

\* The resolved plans execution_kind accepts.  "oversized" names the request
\* files longer than the verifier retains, MAX_EXPERIMENT_BYTES for
\* experiment.yaml and MAX_RESOLVED_PLAN_BYTES for resolved-plan.json; either
\* may be too long without the other.
PlanSet ==
    [runtime : {"localFake"}, scenario : Scenarios, warmups : Nat, repetitions : Nat \ {0},
     oversized : SUBSET RequestFiles]
    \cup
    [runtime : HelperRuntimes, scenario : {"none"}, warmups : Nat, repetitions : Nat \ {0},
     oversized : SUBSET RequestFiles]

NoPlan == [runtime |-> "absent", scenario |-> "none", warmups |-> 0, repetitions |-> 0,
           oversized |-> {}]

\* A record at a position of the protocol: the warmups come first, then the
\* measured repetitions, both counted from one.  "sound" stands for what the
\* verifier checks of a record's values beyond the adapter: llama.cpp
\* aggregates within the bounds of their observations, and no observations on
\* records of the other runtimes.
RecordAt(plan, position, sound) ==
    [phase |-> IF position <= plan.warmups THEN "warmup" ELSE "measured",
     repetition |-> IF position <= plan.warmups THEN position ELSE position - plan.warmups,
     sound |-> sound]

Protocol(plan, count, sound) == [k \in 1..count |-> RecordAt(plan, k, sound)]

LesserOf(a, b) == IF a < b THEN a ELSE b

\* local_fake::execute - deterministic, with the partial prefix each scenario keeps.
LocalFakeMeasured(plan) ==
    CASE plan.scenario = "success" -> plan.repetitions
      [] plan.scenario = "insufficientMeasurements" -> plan.repetitions - 1
      [] OTHER -> LesserOf(plan.repetitions - 1, 1)

\* Mutant: too few measurements leave the attempt in a state that is not terminal.
LocalFakeTerminal_Unfinished(plan) ==
    CASE plan.scenario = "runtimeFailure" -> "failed"
      [] plan.scenario = "interrupted" -> "interrupted"
      [] plan.scenario = "insufficientMeasurements" -> "collecting"
      [] OTHER -> "succeeded"

LocalFakeTerminal(plan) ==
    CASE plan.scenario = "runtimeFailure" -> "failed"
      [] plan.scenario = "interrupted" -> "interrupted"
      [] OTHER -> "succeeded"

LocalFakeOutput(plan) ==
    [measurements |-> Protocol(plan, plan.warmups + LocalFakeMeasured(plan), TRUE),
     resources |-> FALSE, nvidia |-> FALSE,
     terminal |-> LocalFakeTerminal(plan),
     failure |-> IF LocalFakeTerminal(plan) = "succeeded" THEN "none" ELSE "runtime"]

\* cpu_probe and llama_cpp into_execution_output over the supervisor's two
\* kinds of result: the complete protocol with its accounting, or a failure
\* that keeps no measurement and possibly the resources of the reaped child.
\* Records pass the adapter's validate_record, which does not imply "sound".
HelperOutputs(plan) ==
    {[measurements |-> Protocol(plan, plan.warmups + plan.repetitions, sound),
      resources |-> TRUE, nvidia |-> plan.runtime = "llamaCppCuda",
      terminal |-> "succeeded", failure |-> "none"] : sound \in BOOLEAN}
    \cup
    {[measurements |-> <<>>, resources |-> reaped, nvidia |-> FALSE,
      terminal |-> "failed", failure |-> "runtime"] : reaped \in BOOLEAN}

Outputs(plan) ==
    IF plan.runtime = "localFake" THEN {LocalFakeOutput(plan)} ELSE HelperOutputs(plan)

NoOutput == [measurements |-> <<>>, resources |-> FALSE, nvidia |-> FALSE,
             terminal |-> "none", failure |-> "none"]

Measured(records) ==
    Cardinality({k \in 1..Len(records) : records[k].phase = "measured"})

\* Mutant: an interrupted run is judged by its samples.
evaluate_validity_Lenient(plan, output) ==
    IF output.terminal = "failed" THEN "indeterminate"
    ELSE IF Measured(output.measurements) >= plan.repetitions THEN "valid"
    ELSE "invalid"

evaluate_validity(plan, output) ==
    IF output.terminal # "succeeded" THEN "indeterminate"
    ELSE IF Measured(output.measurements) >= plan.repetitions THEN "valid"
    ELSE "invalid"

\* summarize - the statistics themselves are a function of the measurements;
\* whether they are present is what the verifier tells apart.
summarize(output, validity) ==
    [status |-> output.terminal, validity |-> validity,
     samples |-> Measured(output.measurements),
     described |-> Measured(output.measurements) > 0 /\ validity # "indeterminate"]
=============================================================================
