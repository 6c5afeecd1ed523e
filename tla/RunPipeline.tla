---------------------------- MODULE RunPipeline ----------------------------
(***************************************************************************)
(* run_experiment_with_services of run.rs: how one `benchplane run`        *)
(* allocates a run, stages its evidence file by file, and publishes the    *)
(* verified directory with one rename; and what persist_allocated_failure  *)
(* does to the staging directory when any of those steps fails.            *)
(*                                                                         *)
(* Several runs share one output root, each its own process.  Every I/O    *)
(* operation may fail (MaxFaults bounds how many do) and every process may *)
(* be killed at any operation, leaving whatever that operation had reached *)
(* on disk.  A third party may put a directory where a run will publish.   *)
(***************************************************************************)
EXTENDS Naturals, Sequences, Lifecycle, Execution, Evidence

CONSTANTS
    Runs,        \* benchplane processes sharing the output root
    RunIds,      \* run identities; two processes may draw the same one
    Plans,       \* the resolved plans they are asked to run
    MaxFaults,   \* bound: I/O operations that fail, over all processes
    Foreign      \* whether a third party creates directories under runs/

ASSUME ConstantsAssumption ==
    /\ Plans \subseteq PlanSet
    /\ MaxFaults \in Nat
    /\ Foreign \in BOOLEAN
    /\ RunIds # {}

VARIABLES
    pc,        \* the operation each process is about to perform
    id,        \* its run_id
    plan,      \* its resolved plan
    life,      \* its Lifecycle value
    runRec,    \* its in-memory RunRecord
    attRec,    \* its in-memory AttemptRecord
    output,    \* its ExecutionOutput
    phase,     \* the failure phase, once an operation failed
    staging,   \* <output-root>/staging/<run-id>
    final,     \* <output-root>/runs/<run-id>
    faults     \* I/O operations failed so far

vars == <<pc, id, plan, life, runRec, attRec, output, phase, staging, final, faults>>

memory == <<id, plan, life, runRec, attRec, output>>

StagingLabels ==
    {"makeAttemptDir", "writeExperiment", "writePlan", "createEvents", "appendCreated",
     "createMeasurements", "snapshotRun", "snapshotAttempt", "toPreparing",
     "attemptPreparing", "writeProvenance", "toRunning", "attemptRunning", "execute",
     "enrichProvenance", "attemptTerminal", "writeResources", "appendMeasurements",
     "toCollecting", "toFinalizing", "toTerminal", "writeValidity", "writeSummary",
     "writeManifest", "checksum", "verify", "checkDestination", "publish"}

RecoveryLabels == {"recoverFinalizing", "recoverFailed", "recoverRun", "recoverAttempt"}

EndLabels == {"returned", "allocatedError", "rejected", "ioError", "crashed"}

Init ==
    /\ pc = [r \in Runs |-> "start"]
    /\ id \in [Runs -> RunIds]
    /\ plan \in [Runs -> Plans]
    /\ life = [r \in Runs |-> NewLifecycle]
    /\ runRec = [r \in Runs |-> [status |-> "created", failure |-> "none"]]
    /\ attRec = [r \in Runs |-> [status |-> "created", failure |-> "none"]]
    /\ output = [r \in Runs |-> NoOutput]
    /\ phase = [r \in Runs |-> "none"]
    /\ staging = [i \in RunIds |-> NoDir]
    /\ final = [i \in RunIds |-> NoDir]
    /\ faults = 0

-----------------------------------------------------------------------------
(* How one operation ends.                                                 *)

Payload(r) == staging[id[r]].payload

Store(r, payload) == staging' = [staging EXCEPT ![id[r]].payload = payload]

Goto(r, label) ==
    /\ pc' = [pc EXCEPT ![r] = label]
    /\ UNCHANGED <<phase, faults>>

\* Where persist_allocated_failure starts, given the lifecycle it finds.
RecoveryEntry(state) ==
    IF state \in {"preparing", "running", "collecting"} THEN "recoverFinalizing"
    ELSE IF state = "finalizing" THEN "recoverFailed"
    ELSE "recoverRun"

\* An error leaves the closure through `at(.., phase)`.
FailAt(r, at, state) ==
    /\ pc' = [pc EXCEPT ![r] = RecoveryEntry(state)]
    /\ phase' = [phase EXCEPT ![r] = at]

\* An I/O error in phase `at`, or the death of the process.
Abort(r, at, state) ==
    \/ /\ faults < MaxFaults
       /\ faults' = faults + 1
       /\ FailAt(r, at, state)
    \/ /\ pc' = [pc EXCEPT ![r] = "crashed"]
       /\ UNCHANGED <<phase, faults>>

\* The same inside persist_allocated_failure, where errors are ignored.
Ignore(r, next) ==
    \/ /\ faults < MaxFaults
       /\ faults' = faults + 1
       /\ pc' = [pc EXCEPT ![r] = next]
       /\ UNCHANGED phase
    \/ /\ pc' = [pc EXCEPT ![r] = "crashed"]
       /\ UNCHANGED <<phase, faults>>

\* One operation on the staged files: it leaves `done` and goes on, or one of
\* `partial` and aborts.
FileStep(r, label, at, done, partial, next) ==
    /\ pc[r] = label
    /\ \/ Store(r, done) /\ Goto(r, next)
       \/ \E left \in partial : Store(r, left) /\ Abort(r, at, life[r].state)
    /\ UNCHANGED <<memory, final>>

\* write_json_atomic of one record.
WriteRecord(r, label, at, file, content, next) ==
    FileStep(r, label, at, Written(Payload(r), file, content),
             HalfWritten(Payload(r), file), next)

-----------------------------------------------------------------------------
(* Allocation: nothing of the run exists on disk before the exclusive      *)
(* create_dir of its staging directory.                                    *)

\* parse_experiment, resolve_experiment or execution_kind refuses the request.
Reject(r) ==
    /\ pc[r] = "start"
    /\ Goto(r, "rejected")
    /\ UNCHANGED <<memory, staging, final>>

\* Mutant: the staging directory is created with create_dir_all.
Allocate_NotExclusive(r) ==
    /\ pc[r] = "start"
    /\ staging' = [staging EXCEPT ![id[r]] = StagingDir(r)]
    /\ Goto(r, "makeAttemptDir")
    /\ UNCHANGED <<memory, final>>

Allocate(r) ==
    /\ pc[r] = "start"
    /\ staging[id[r]].kind = "none"
    /\ staging' = [staging EXCEPT ![id[r]] = StagingDir(r)]
    /\ Goto(r, "makeAttemptDir")
    /\ UNCHANGED <<memory, final>>

\* create_dir_all of the parents or create_dir of the staging directory fails:
\* an error that is not RunError::Allocated.
AllocateError(r) ==
    /\ pc[r] = "start"
    /\ \/ staging[id[r]].kind # "none" /\ Goto(r, "ioError")
       \/ /\ faults < MaxFaults
          /\ faults' = faults + 1
          /\ pc' = [pc EXCEPT ![r] = "ioError"]
          /\ UNCHANGED phase
    /\ UNCHANGED <<memory, staging, final>>

\* Death before allocation, or after create_dir with an empty directory left.
AllocateCrash(r) ==
    /\ pc[r] = "start"
    /\ staging' \in {staging} \cup
         {[staging EXCEPT ![i] = StagingDir(r)] : i \in {j \in {id[r]} : staging[j].kind = "none"}}
    /\ Goto(r, "crashed")
    /\ UNCHANGED <<memory, final>>

-----------------------------------------------------------------------------
(* Phase initializing.                                                     *)

MakeAttemptDir(r) ==
    FileStep(r, "makeAttemptDir", "initializing",
             [Payload(r) EXCEPT !.attemptDir = TRUE], {Payload(r)}, "writeExperiment")

\* fs::write is not atomic: a truncated experiment.yaml may remain.
WriteExperiment(r) ==
    FileStep(r, "writeExperiment", "initializing",
             [Payload(r) EXCEPT !.experiment = "written"],
             {Payload(r), [Payload(r) EXCEPT !.experiment = "partial"]}, "writePlan")

WritePlan(r) ==
    WriteRecord(r, "writePlan", "initializing", "plan", plan[r], "createEvents")

CreateEvents(r) ==
    FileStep(r, "createEvents", "initializing",
             [Payload(r) EXCEPT !.journal.exists = TRUE], {Payload(r)}, "appendCreated")

AppendCreated(r) ==
    FileStep(r, "appendCreated", "initializing",
             [Payload(r) EXCEPT !.journal = AppendLine(@, InitialEvent)],
             {[Payload(r) EXCEPT !.journal = j] : j \in TornLine(Payload(r).journal, InitialEvent)},
             "createMeasurements")

CreateMeasurements(r) ==
    FileStep(r, "createMeasurements", "initializing",
             [Payload(r) EXCEPT !.measurements.exists = TRUE], {Payload(r)}, "snapshotRun")

SnapshotRun(r) ==
    WriteRecord(r, "snapshotRun", "initializing", "run", runRec[r], "snapshotAttempt")

SnapshotAttempt(r) ==
    WriteRecord(r, "snapshotAttempt", "initializing", "attempt", attRec[r], "toPreparing")

-----------------------------------------------------------------------------
(* State changes of the run and of its attempt.                            *)

\* The in-memory RunRecord after a transition.
RecordAfter(record, to, failure) ==
    [status |-> to, failure |-> IF to \in TerminalStates THEN failure ELSE record.failure]

\* Mutant: the snapshot is written before the journal.
persist_run_transition_SnapshotFirst(r, to, failure, next, stop) ==
    LET record == RecordAfter(runRec[r], to, failure)
        noted == Written(Payload(r), "run", record)
        event == TransitionEvent(life[r], to, failure)
    IN  /\ is_valid_transition(life[r].state, to)
        /\ life' = [life EXCEPT ![r] = Transitioned(@, to)]
        /\ runRec' = [runRec EXCEPT ![r] = record]
        /\ \/ Store(r, [noted EXCEPT !.journal = AppendLine(@, event)]) /\ Goto(r, next)
           \/ \E left \in HalfWritten(Payload(r), "run") : Store(r, left) /\ stop
           \/ \E j \in TornLine(noted.journal, event) :
                 Store(r, [noted EXCEPT !.journal = j]) /\ stop
        /\ UNCHANGED <<id, plan, attRec, output, final>>

\* Mutant: an event that could not be appended is skipped.
persist_run_transition_EventLost(r, to, failure, next, stop) ==
    LET event == TransitionEvent(life[r], to, failure)
        record == RecordAfter(runRec[r], to, failure)
    IN  /\ is_valid_transition(life[r].state, to)
        /\ life' = [life EXCEPT ![r] = Transitioned(@, to)]
        /\ runRec' = [runRec EXCEPT ![r] = record]
        /\ \E j \in {AppendLine(Payload(r).journal, event), Payload(r).journal} :
              Store(r, Written([Payload(r) EXCEPT !.journal = j], "run", record))
        /\ Goto(r, next)
        /\ UNCHANGED <<id, plan, attRec, output, final>>

\* persist_run_transition: the lifecycle moves on first, then the event is
\* appended, and only then run.json follows.  `stop` is what an error does.
persist_run_transition(r, to, failure, next, stop) ==
    LET event == TransitionEvent(life[r], to, failure)
        logged == [Payload(r) EXCEPT !.journal = AppendLine(@, event)]
        record == RecordAfter(runRec[r], to, failure)
    IN  /\ is_valid_transition(life[r].state, to)
        /\ life' = [life EXCEPT ![r] = Transitioned(@, to)]
        /\ \/ /\ \E j \in TornLine(Payload(r).journal, event) :
                    Store(r, [Payload(r) EXCEPT !.journal = j])
              /\ UNCHANGED runRec
              /\ stop
           \/ /\ runRec' = [runRec EXCEPT ![r] = record]
              /\ \/ Store(r, Written(logged, "run", record)) /\ Goto(r, next)
                 \/ \E left \in HalfWritten(logged, "run") : Store(r, left) /\ stop
        /\ UNCHANGED <<id, plan, attRec, output, final>>

\* persist_attempt_status: the in-memory record first, then attempt.json.
persist_attempt_status(r, at, status, failure, next) ==
    LET record == [status |-> status,
                   failure |-> IF status \in TerminalStates THEN failure ELSE attRec[r].failure]
    IN  /\ attRec' = [attRec EXCEPT ![r] = record]
        /\ \/ Store(r, Written(Payload(r), "attempt", record)) /\ Goto(r, next)
           \/ \E left \in HalfWritten(Payload(r), "attempt") :
                 Store(r, left) /\ Abort(r, at, life[r].state)
        /\ UNCHANGED <<id, plan, life, runRec, output, final>>

-----------------------------------------------------------------------------
(* Phases preparing and running.                                           *)

ToPreparing(r) ==
    /\ pc[r] = "toPreparing"
    /\ persist_run_transition(r, "preparing", "none", "attemptPreparing",
                              Abort(r, "preparing", "preparing"))

AttemptPreparing(r) ==
    /\ pc[r] = "attemptPreparing"
    /\ persist_attempt_status(r, "preparing", "preparing", "none", "writeProvenance")

WriteProvenance(r) ==
    WriteRecord(r, "writeProvenance", "preparing", "provenance", "host", "toRunning")

ToRunning(r) ==
    /\ pc[r] = "toRunning"
    /\ persist_run_transition(r, "running", "none", "attemptRunning",
                              Abort(r, "running", "running"))

AttemptRunning(r) ==
    /\ pc[r] = "attemptRunning"
    /\ persist_attempt_status(r, "running", "running", "none", "execute")

\* The attempt runs: it always returns one of its outputs, unless the process dies.
Execute(r) ==
    /\ pc[r] = "execute"
    /\ \/ \E o \in Outputs(plan[r]) :
             /\ output' = [output EXCEPT ![r] = o]
             /\ Goto(r, IF o.nvidia THEN "enrichProvenance" ELSE "attemptTerminal")
       \/ Goto(r, "crashed") /\ UNCHANGED output
    /\ UNCHANGED <<id, plan, life, runRec, attRec, staging, final>>

EnrichProvenance(r) ==
    WriteRecord(r, "enrichProvenance", "recordingProvenance", "provenance", "nvidia",
                "attemptTerminal")

AttemptTerminal(r) ==
    /\ pc[r] = "attemptTerminal"
    /\ persist_attempt_status(r, "running", output[r].terminal, output[r].failure,
                              IF output[r].resources THEN "writeResources"
                              ELSE "appendMeasurements")

WriteResources(r) ==
    WriteRecord(r, "writeResources", "recordingResources", "resources", "written",
                "appendMeasurements")

\* One line per measurement, then on to collecting or straight to finalizing.
AppendMeasurement(r) ==
    LET written == Payload(r).measurements
        record == output[r].measurements[Len(written.lines) + 1]
    IN  /\ Len(written.lines) < Len(output[r].measurements)
        /\ FileStep(r, "appendMeasurements", "recordingMeasurements",
                    [Payload(r) EXCEPT !.measurements = AppendLine(@, record)],
                    {[Payload(r) EXCEPT !.measurements = m] : m \in TornLine(written, record)},
                    "appendMeasurements")

MeasurementsRecorded(r) ==
    /\ pc[r] = "appendMeasurements"
    /\ Len(Payload(r).measurements.lines) = Len(output[r].measurements)
    /\ Goto(r, IF output[r].terminal = "succeeded" THEN "toCollecting" ELSE "toFinalizing")
    /\ UNCHANGED <<memory, staging, final>>

-----------------------------------------------------------------------------
(* Phases collecting, finalizing, checksumming, verifying and publishing.  *)

ToCollecting(r) ==
    /\ pc[r] = "toCollecting"
    /\ persist_run_transition(r, "collecting", "none", "toFinalizing",
                              Abort(r, "collecting", "collecting"))

ToFinalizing(r) ==
    /\ pc[r] = "toFinalizing"
    /\ persist_run_transition(r, "finalizing", "none", "toTerminal",
                              Abort(r, "finalizing", "finalizing"))

ToTerminal(r) ==
    /\ pc[r] = "toTerminal"
    /\ persist_run_transition(r, output[r].terminal, output[r].failure, "writeValidity",
                              Abort(r, "finalizing", output[r].terminal))

Validity(r) == evaluate_validity(plan[r], output[r])

WriteValidity(r) ==
    WriteRecord(r, "writeValidity", "finalizing", "validity", Validity(r), "writeSummary")

WriteSummary(r) ==
    WriteRecord(r, "writeSummary", "finalizing", "summary",
                summarize(output[r], Validity(r)), "writeManifest")

WriteManifest(r) ==
    WriteRecord(r, "writeManifest", "finalizing", "manifest",
                [status |-> output[r].terminal, validity |-> Validity(r)], "checksum")

Checksum(r) ==
    /\ pc[r] = "checksum"
    /\ ~staging[id[r]].sums.listed
    /\ \/ /\ staging' = [staging EXCEPT ![id[r]] = Checksummed(@)]
          /\ Goto(r, "verify")
       \/ /\ \E left \in HalfWritten(Payload(r), "sums") : Store(r, left)
          /\ Abort(r, "checksumming", life[r].state)
    /\ UNCHANGED <<memory, final>>

Verify(r) ==
    /\ pc[r] = "verify"
    /\ \/ verify_evidence_bundle(staging[id[r]]) /\ Goto(r, "checkDestination")
       \/ /\ ~verify_evidence_bundle(staging[id[r]])
          /\ FailAt(r, "verifying", life[r].state)
          /\ UNCHANGED faults
       \/ Abort(r, "verifying", life[r].state)
    /\ UNCHANGED <<memory, staging, final>>

\* Mutant: the run waits for its destination to become free.
CheckDestination_Waits(r) ==
    /\ pc[r] = "checkDestination"
    /\ \/ final[id[r]].kind = "none" /\ Goto(r, "publish")
       \/ final[id[r]].kind # "none" /\ UNCHANGED <<pc, phase, faults>>
       \/ Goto(r, "crashed")
    /\ UNCHANGED <<memory, staging, final>>

CheckDestination(r) ==
    /\ pc[r] = "checkDestination"
    /\ \/ final[id[r]].kind = "none" /\ Goto(r, "publish")
       \/ /\ final[id[r]].kind # "none"
          /\ FailAt(r, "publishing", life[r].state)
          /\ UNCHANGED faults
       \/ Goto(r, "crashed")
    /\ UNCHANGED <<memory, staging, final>>

\* Mutant: whatever stands at the destination is removed first.
Publish_Replaces(r) ==
    /\ pc[r] = "publish"
    /\ final' = [final EXCEPT ![id[r]] = staging[id[r]]]
    /\ staging' = [staging EXCEPT ![id[r]] = NoDir]
    /\ Goto(r, "returned")
    /\ UNCHANGED memory

\* Mutant: a rename that fails is reported as a publication.
Publish_ErrorIgnored(r) ==
    /\ pc[r] = "publish"
    /\ \/ /\ final[id[r]].kind \in {"none", "empty"}
          /\ final' = [final EXCEPT ![id[r]] = staging[id[r]]]
          /\ staging' = [staging EXCEPT ![id[r]] = NoDir]
       \/ UNCHANGED <<staging, final>>
    /\ Goto(r, "returned")
    /\ UNCHANGED memory

\* Mutant: the destination is created before the files are moved into it.
Publish_DirectoryFirst(r) ==
    /\ pc[r] = "publish"
    /\ IF final[id[r]].kind \in {"none", "empty"}
       THEN /\ final' = [final EXCEPT ![id[r]] = StagingDir(r)]
            /\ UNCHANGED <<pc, phase, faults, staging>>
       ELSE /\ final' = [final EXCEPT ![id[r]] = staging[id[r]]]
            /\ staging' = [staging EXCEPT ![id[r]] = NoDir]
            /\ Goto(r, "returned")
    /\ UNCHANGED memory

\* rename(2) of a directory replaces an empty one and refuses any other.  The
\* process may die after the rename and before it reports the result.
Publish(r) ==
    /\ pc[r] = "publish"
    /\ \/ /\ final[id[r]].kind \in {"none", "empty"}
          /\ final' = [final EXCEPT ![id[r]] = staging[id[r]]]
          /\ staging' = [staging EXCEPT ![id[r]] = NoDir]
          /\ \E label \in {"returned", "crashed"} : Goto(r, label)
       \/ /\ final[id[r]].kind \notin {"none", "empty"}
          /\ FailAt(r, "publishing", life[r].state)
          /\ UNCHANGED <<faults, staging, final>>
       \/ /\ Abort(r, "publishing", life[r].state)
          /\ UNCHANGED <<staging, final>>
    /\ UNCHANGED memory

-----------------------------------------------------------------------------
(* persist_allocated_failure: best-effort diagnostics in the retained      *)
(* staging directory; each operation may itself fail and is then ignored.  *)

AllocatedFailure(r) ==
    IF phase[r] \in {"finalizing", "checksumming", "verifying", "publishing"}
    THEN "finalization" ELSE "io"

RecoverFinalizing(r) ==
    /\ pc[r] = "recoverFinalizing"
    /\ persist_run_transition(r, "finalizing", "none", "recoverFailed",
                              Ignore(r, "recoverFailed"))

RecoverFailed(r) ==
    /\ pc[r] = "recoverFailed"
    /\ persist_run_transition(r, "failed", AllocatedFailure(r), "recoverRun",
                              Ignore(r, "recoverRun"))

RecoverRun(r) ==
    LET record == [runRec[r] EXCEPT !.failure = AllocatedFailure(r)]
    IN  /\ pc[r] = "recoverRun"
        /\ runRec' = [runRec EXCEPT ![r] = record]
        /\ \/ Store(r, Written(Payload(r), "run", record)) /\ Goto(r, "recoverAttempt")
           \/ \E left \in HalfWritten(Payload(r), "run") :
                 Store(r, left) /\ Ignore(r, "recoverAttempt")
        /\ UNCHANGED <<id, plan, life, attRec, output, final>>

\* Mutant: the failure is blamed on the attempt as well.
RecoverAttempt_Blamed(r) ==
    /\ pc[r] = "recoverAttempt"
    /\ Store(r, IF Payload(r).attemptDir
                THEN Written(Payload(r), "attempt",
                             [status |-> "failed", failure |-> AllocatedFailure(r)])
                ELSE Payload(r))
    /\ Goto(r, "allocatedError")
    /\ UNCHANGED <<memory, final>>

\* attempt.json cannot be written where attempts/0001 was never created.
RecoverAttempt(r) ==
    /\ pc[r] = "recoverAttempt"
    /\ \/ /\ Store(r, IF Payload(r).attemptDir
                      THEN Written(Payload(r), "attempt", attRec[r]) ELSE Payload(r))
          /\ Goto(r, "allocatedError")
       \/ /\ Payload(r).attemptDir
          /\ \E left \in HalfWritten(Payload(r), "attempt") : Store(r, left)
          /\ Ignore(r, "allocatedError")
    /\ UNCHANGED <<memory, final>>

-----------------------------------------------------------------------------
\* A third party makes a directory, empty or not, where a run may publish.
ForeignCreate(i) ==
    /\ Foreign
    /\ final[i].kind = "none"
    /\ \E kind \in {"empty", "foreign"} : final' = [final EXCEPT ![i].kind = kind]
    /\ UNCHANGED <<pc, memory, phase, staging, faults>>

Step(r) ==
    \/ Reject(r) \/ Allocate(r) \/ AllocateError(r) \/ AllocateCrash(r)
    \/ MakeAttemptDir(r) \/ WriteExperiment(r) \/ WritePlan(r) \/ CreateEvents(r)
    \/ AppendCreated(r) \/ CreateMeasurements(r) \/ SnapshotRun(r) \/ SnapshotAttempt(r)
    \/ ToPreparing(r) \/ AttemptPreparing(r) \/ WriteProvenance(r)
    \/ ToRunning(r) \/ AttemptRunning(r) \/ Execute(r) \/ EnrichProvenance(r)
    \/ AttemptTerminal(r) \/ WriteResources(r)
    \/ AppendMeasurement(r) \/ MeasurementsRecorded(r)
    \/ ToCollecting(r) \/ ToFinalizing(r) \/ ToTerminal(r)
    \/ WriteValidity(r) \/ WriteSummary(r) \/ WriteManifest(r)
    \/ Checksum(r) \/ Verify(r) \/ CheckDestination(r) \/ Publish(r)
    \/ RecoverFinalizing(r) \/ RecoverFailed(r) \/ RecoverRun(r) \/ RecoverAttempt(r)

Terminated == (\A r \in Runs : pc[r] \in EndLabels) /\ UNCHANGED vars

Next ==
    \/ \E r \in Runs : Step(r)
    \/ \E i \in RunIds : ForeignCreate(i)
    \/ Terminated

Spec == Init /\ [][Next]_vars

\* A process that is not dead keeps executing; its death is never owed, and
\* nothing is owed by third parties.
FairSpec == Spec /\ \A r \in Runs : WF_vars(Step(r) /\ pc'[r] # "crashed")
-----------------------------------------------------------------------------
(* Properties.                                                             *)

Lines(values) ==
    [exists : BOOLEAN, open : BOOLEAN,
     lines : Seq([whole : BOOLEAN, value : values, joined : SUBSET values])]

Measurements == [phase : {"warmup", "measured"}, repetition : Nat, sound : BOOLEAN]

Payloads ==
    [attemptDir : BOOLEAN, experiment : {"absent", "partial", "written"},
     plan : Plans \cup {NoPlan}, journal : Lines(Events), measurements : Lines(Measurements),
     run : [status : RunStates \cup {"absent"}, failure : FailureCodes],
     attempt : [status : AttemptStatuses \cup {"absent"}, failure : FailureCodes],
     provenance : {"absent", "host", "nvidia"}, resources : {"absent", "written"},
     validity : ValidityStatuses \cup {"absent"},
     summary : [status : TerminalStates \cup {"absent"},
                validity : ValidityStatuses \cup {"absent"},
                samples : Nat, described : BOOLEAN],
     manifest : [status : TerminalStates \cup {"absent"},
                 validity : ValidityStatuses \cup {"absent"}],
     tmp : SUBSET AtomicFiles]

Dirs == [kind : {"none", "empty", "foreign", "bundle"}, owner : SUBSET Runs,
         payload : Payloads, sums : [listed : BOOLEAN, payload : Payloads]]

OutputSet == [measurements : Seq(Measurements), resources : BOOLEAN, nvidia : BOOLEAN,
              terminal : TerminalStates \cup {"none"}, failure : {"none", "runtime"}]

Phases == {"none", "initializing", "preparing", "running", "recordingProvenance",
           "recordingResources", "recordingMeasurements", "collecting", "finalizing",
           "checksumming", "verifying", "publishing"}

\* The type invariant of the variables.
TypeOK ==
    /\ pc \in [Runs -> {"start"} \cup StagingLabels \cup RecoveryLabels \cup EndLabels]
    /\ id \in [Runs -> RunIds]
    /\ plan \in [Runs -> Plans]
    /\ life \in [Runs -> [state : RunStates, next : Nat]]
    /\ runRec \in [Runs -> [status : RunStates, failure : FailureCodes]]
    /\ attRec \in [Runs -> [status : AttemptStatuses, failure : FailureCodes]]
    /\ output \in [Runs -> OutputSet]
    /\ phase \in [Runs -> Phases]
    /\ staging \in [RunIds -> Dirs]
    /\ final \in [RunIds -> Dirs]
    /\ faults \in 0..MaxFaults

Staging(r) == pc[r] \in StagingLabels
Recovering(r) == pc[r] \in RecoveryLabels

\* A journal that tells a whole life: every event parses, they are numbered
\* from one without gaps, each starts where the previous one ended, and each
\* step is one the lifecycle allows.
Chained(lines) ==
    \A k \in 1..Len(lines) :
        /\ lines[k].whole
        /\ lines[k].value.seq = k
        /\ IF k = 1 THEN lines[k].value = InitialEvent
           ELSE /\ lines[k].value.from = lines[k - 1].value.to
                /\ is_valid_transition(lines[k].value.from, lines[k].value.to)

LastEvent(lines) == lines[Len(lines)].value

\* What stands under runs/ as a bundle is complete: it verifies where it is,
\* its journal is an unbroken chain from created to the manifest's status (which
\* the verifier does not look at), the failure on the terminal event is the one
\* in run.json and attempt.json, and no temporary file was left in it.  No
\* failed write, crash or competing run may ever make this false.
PublishedIsComplete ==
    \A i \in RunIds : final[i].kind = "bundle" =>
        LET payload == final[i].payload
        IN  /\ verify_evidence_bundle(final[i])
            /\ payload.tmp = {}
            /\ payload.journal.lines # <<>>
            /\ Chained(payload.journal.lines)
            /\ LastEvent(payload.journal.lines).to = payload.manifest.status
            /\ LastEvent(payload.journal.lines).failure = payload.run.failure
            /\ payload.run.failure = payload.attempt.failure

\* Publication never replaces content: once a bundle, or anything a third
\* party put there, is under runs/, no step of any run changes it.
ContentNeverReplaced ==
    [][\A i \in RunIds : final[i].kind \in {"bundle", "foreign"} => final'[i] = final[i]]_vars

\* Two runs never write into one staging directory, even when they drew the
\* same identity: while a run works, its staging directory is its own.
StagingIsExclusive ==
    \A r \in Runs : Staging(r) \/ Recovering(r) =>
        staging[id[r]].kind = "bundle" /\ staging[id[r]].owner = {r}

\* The exit status run_command derives from the result or the error.
ExitCode(r) ==
    CASE pc[r] = "returned" ->
           (IF output[r].terminal # "succeeded" THEN 4
            ELSE IF Validity(r) = "valid" THEN 0 ELSE 3)
      [] pc[r] = "rejected" -> 2
      [] pc[r] = "allocatedError" -> 5
      [] OTHER -> 1

OwnedBy(r, dir) == dir.kind = "bundle" /\ dir.owner = {r}

\* The exit status tells where the evidence is: 0, 3 and 4 mean this run's
\* bundle is published with that very outcome; 5 means nothing was published
\* and the staging directory is retained; 1 and 2 mean the run left no trace.
ExitCodeTellsOutcome ==
    \A r \in Runs : pc[r] \in EndLabels \ {"crashed"} =>
        LET code == ExitCode(r)
            published == {i \in RunIds : OwnedBy(r, final[i])}
            staged == {i \in RunIds : OwnedBy(r, staging[i])}
        IN  CASE code \in {0, 3, 4} ->
                   /\ published = {id[r]} /\ staged = {}
                   /\ code = 0 <=> final[id[r]].payload.manifest =
                                     [status |-> "succeeded", validity |-> "valid"]
                   /\ code = 4 <=> final[id[r]].payload.manifest.status # "succeeded"
              [] code = 5 -> published = {} /\ staged = {id[r]}
              [] OTHER -> published = {} /\ staged = {}

\* Every output an adapter can return makes a bundle the verifier accepts: a
\* run on which no I/O failed ends with RunError::Allocated only because its
\* destination was taken, because a helper's records contradict themselves, or
\* because the request was executed though one of its own files is longer than
\* the verifier reads.
FaultFreeRunIsAccepted ==
    \A r \in Runs : pc[r] = "allocatedError" /\ faults = 0 =>
        \/ final[id[r]].kind # "none"
        \/ \E k \in DOMAIN output[r].measurements : ~output[r].measurements[k].sound
        \/ plan[r].oversized # {}

\* attempt.json only moves forward, and never again once it is terminal: a
\* later failure to finalize, verify or publish does not touch the outcome of
\* an attempt that already ended.
AttemptRank(status) ==
    CASE status = "absent" -> 0 [] status = "created" -> 1
      [] status = "preparing" -> 2 [] status = "running" -> 3 [] OTHER -> 4

AttemptNeverRewritten ==
    [][\A i \in RunIds :
         LET now == staging[i].payload.attempt
             then == staging'[i].payload.attempt
         IN  staging[i].kind = "bundle" /\ staging'[i].kind = "bundle" =>
               /\ AttemptRank(now.status) <= AttemptRank(then.status)
               /\ now.status \in TerminalStates => then = now]_vars

\* Whatever failed, the readable events of a journal are numbered in strictly
\* increasing order and nothing follows a terminal event.
JournalIsOrdered ==
    \A i \in RunIds : \A dir \in {staging[i], final[i]} :
        LET lines == dir.payload.journal.lines
        IN  \A j, k \in 1..Len(lines) : j < k /\ lines[j].whole /\ lines[k].whole =>
               /\ lines[j].value.seq < lines[k].value.seq
               /\ lines[j].value.to \notin TerminalStates

\* The event that entered `status` is on disk: it has a line of its own, or an
\* earlier append had left a line open and the event stands in that very line.
Records(line, status) ==
    \/ line.whole /\ line.value.to = status
    \/ \E event \in line.joined : event.to = status

\* run.json never claims a state before the event that entered it has reached
\* the journal.  Only an event that was joined to a torn line cannot be read
\* back; a torn line elsewhere excuses nothing.
RunJsonBackedByJournal ==
    \A i \in RunIds :
        LET payload == staging[i].payload
        IN  payload.run.status \notin {"absent", "created"} =>
               \E k \in 1..Len(payload.journal.lines) :
                   Records(payload.journal.lines[k], payload.run.status)

\* Every run whose process is not killed returns or fails; none waits for ever.
RunsEnd == \A r \in Runs : <>(pc[r] \in EndLabels)
-----------------------------------------------------------------------------
(* What docs/experiment-lifecycle.md says of the lifecycle that the code   *)
(* does not do; see the findings in the README.                            *)

\* "Run-level collecting and finalizing therefore occur only after the attempt
\* is terminal": run.json of a run in one of them stands beside a terminal
\* attempt.json, while persist_allocated_failure finalizes the run and leaves
\* the attempt as it is.
FinalizingAfterAttemptTerminal ==
    \A i \in RunIds :
        LET payload == staging[i].payload
        IN  payload.run.status \in {"collecting", "finalizing"} =>
               payload.attempt.status \in TerminalStates

\* "Failures use stable codes and are recorded on the terminal event and
\* snapshots": the failure in run.json is the one on the journal's terminal
\* event, while a failure after that event only reaches run.json.
FailureOnTerminalEvent ==
    \A r \in Runs : pc[r] = "allocatedError" =>
        LET lines == Payload(r).journal.lines
        IN  \A k \in 1..Len(lines) :
               lines[k].whole /\ lines[k].value.to \in TerminalStates =>
                  lines[k].value.failure = Payload(r).run.failure

\* "Missing, extra, out-of-order, or invalid output ... then proceeds through
\* evidence-v1 finalization when storage remains operational": without an I/O
\* failure and with a free destination no run ends in RunError::Allocated,
\* while validate_record lets through aggregates that the verifier refuses.
OutputFailureStillFinalizes ==
    \A r \in Runs : pc[r] = "allocatedError" => faults > 0 \/ final[id[r]].kind # "none"

-----------------------------------------------------------------------------
(* The pipeline implements Publication.                                    *)

Ending(r) == IF pc[r] = "returned" THEN "reported"
             ELSE IF pc[r] \in EndLabels THEN "gone" ELSE "pending"

Shelved(dir) == [kind |-> dir.kind, owner |-> dir.owner,
                 status |-> dir.payload.manifest.status]

Shelf == INSTANCE Publication
    WITH Statuses <- TerminalStates,
         ending <- [r \in Runs |-> Ending(r)],
         shelf <- [i \in RunIds |-> Shelved(final[i])]

\* However many I/O operations it takes and whichever of them fail, to a reader
\* of runs/ a run is one step: a finished bundle appears, or none ever does.
ImplementsPublication == Shelf!Spec

\* The same with the promise that every run ends.
ImplementsFairPublication == Shelf!FairSpec
=============================================================================
