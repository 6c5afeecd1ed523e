--------------------------- MODULE MCRunPipeline ---------------------------
(***************************************************************************)
(* Model-checking instances of RunPipeline: one plan per runtime and       *)
(* scenario, with one warmup and two repetitions so that every prefix the  *)
(* fake keeps differs from the complete protocol.                          *)
(***************************************************************************)
EXTENDS RunPipeline

CONSTANTS r1, r2, i1

OneRun == {r1}
TwoRuns == {r1, r2}
OneId == {i1}

FakePlan(scenario) ==
    [runtime |-> "localFake", scenario |-> scenario, warmups |-> 1, repetitions |-> 2,
     oversized |-> {}]

HelperPlan(runtime) ==
    [runtime |-> runtime, scenario |-> "none", warmups |-> 1, repetitions |-> 1,
     oversized |-> {}]

FittingPlans == {FakePlan(s) : s \in Scenarios} \cup {HelperPlan(h) : h \in HelperRuntimes}

\* Requests one of whose files is longer than the verifier reads.
OversizedPlans == {[FakePlan("success") EXCEPT !.oversized = {file}] : file \in RequestFiles}

AllPlans == FittingPlans \cup OversizedPlans

LlamaPlans == {HelperPlan("llamaCpp")}

TwoPlans == {FakePlan("interrupted"), HelperPlan("cpuProbe")}
=============================================================================
