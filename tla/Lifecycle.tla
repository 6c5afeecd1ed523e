----------------------------- MODULE Lifecycle -----------------------------
(***************************************************************************)
(* The run lifecycle of benchplane-core/src/lifecycle.rs: the states a run *)
(* goes through, the transitions it may take, and the numbered event that  *)
(* every transition produces.  A Lifecycle value is the pair the Rust      *)
(* struct keeps (state, next_sequence); the run identity and timestamps it *)
(* copies into the event carry no control and are left out.                *)
(***************************************************************************)
EXTENDS Naturals

TerminalStates == {"succeeded", "failed", "interrupted"}

RunStates ==
    {"created", "preparing", "running", "collecting", "finalizing"} \cup TerminalStates

\* What a FailureRecord says, reduced to who produced it: the execution
\* ("runtime"), persist_allocated_failure before finalization ("io") or from
\* finalization on ("finalization").
FailureCodes == {"none", "runtime", "io", "finalization"}

Events == [seq : Nat, from : RunStates \cup {"none"}, to : RunStates, failure : FailureCodes]

\* Lifecycle::new - the value a run starts with and the event that says so.
NewLifecycle == [state |-> "created", next |-> 2]

InitialEvent == [seq |-> 1, from |-> "none", to |-> "created", failure |-> "none"]

is_valid_transition(from, to) ==
    \/ <<from, to>> \in {<<"created", "preparing">>, <<"preparing", "running">>,
                         <<"preparing", "finalizing">>, <<"running", "collecting">>,
                         <<"running", "finalizing">>, <<"collecting", "finalizing">>}
    \/ from = "finalizing" /\ to \in TerminalStates

\* Lifecycle::transition, for a transition that is valid: the event it returns
\* and the lifecycle it leaves behind.
TransitionEvent(lifecycle, to, failure) ==
    [seq |-> lifecycle.next, from |-> lifecycle.state, to |-> to, failure |-> failure]

\* Mutant: the sequence number is not consumed.
Transitioned_SameSequence(lifecycle, to) == [state |-> to, next |-> lifecycle.next]

Transitioned(lifecycle, to) == [state |-> to, next |-> lifecycle.next + 1]
=============================================================================
