-------------------------- MODULE MCBundleVerifier --------------------------
(***************************************************************************)
(* Instances of BundleVerifier.  Limits are a few chunks, so that a file   *)
(* can cross its limit by growing, and a directory can be full.            *)
(***************************************************************************)
EXTENDS BundleVerifier, TLC

Experiment == "experiment.yaml"
Provenance == "attempts/0001/provenance.json"
Resources == "attempts/0001/resources.json"

FiveNames == <<Measurements, Provenance, Resources, Experiment, Manifest>>
ThreeRequired == {Measurements, Experiment, Manifest}
FiveLimits ==
    Experiment :> 2 @@ Manifest :> 1 @@ Provenance :> 1 @@ Resources :> 1

OnlyExperiment == {Experiment}
=============================================================================
