------------------------- MODULE RunPipelineProofs -------------------------
(***************************************************************************)
(* Theorems about RunPipeline for every set of runs, identities and plans  *)
(* and every number of I/O faults.  First the directories: types, who owns *)
(* which directory, and that the pipeline implements Publication.  Then    *)
(* what the pipeline writes: the journal, run.json and attempt.json of     *)
(* every staging directory whatever failed, the bundle that is published,  *)
(* the exit status, and that the verifier accepts whatever a run on which  *)
(* nothing failed has staged.  Last, that every operation a run comes to   *)
(* can be performed and that none is ever repeated.                        *)
(***************************************************************************)
EXTENDS RunPipeline, FiniteSetTheorems, TLAPS

Labels == {"start"} \cup StagingLabels \cup RecoveryLabels \cup EndLabels

-----------------------------------------------------------------------------
(* Types.                                                                  *)

\* The empty directory is a directory.
LEMMA NoDirType == NoDir \in Dirs /\ EmptyPayload \in Payloads
<1>1. NoLines \in Lines(Events) /\ NoLines \in Lines(Measurements)
  BY DEF NoLines, Lines
<1>2. EmptyPayload \in Payloads
  BY <1>1 DEF EmptyPayload, Payloads, NoRecord, NoVerdict, FailureCodes
<1> QED
  BY <1>2 DEF NoDir, Dirs, NoSums

\* write_json_atomic, finished or not, leaves a payload of the same type.
LEMMA WrittenType ==
    ASSUME NEW p \in Payloads
    PROVE  /\ \A c \in Plans : Written(p, "plan", c) \in Payloads
           /\ \A c \in [status : RunStates, failure : FailureCodes] :
                 Written(p, "run", c) \in Payloads
           /\ \A c \in [status : AttemptStatuses, failure : FailureCodes] :
                 Written(p, "attempt", c) \in Payloads
           /\ \A c \in {"host", "nvidia"} : Written(p, "provenance", c) \in Payloads
           /\ Written(p, "resources", "written") \in Payloads
           /\ \A c \in ValidityStatuses : Written(p, "validity", c) \in Payloads
           /\ \A f \in AtomicFiles : HalfWritten(p, f) \subseteq Payloads
<1>1. \A c \in Plans : Written(p, "plan", c) \in Payloads
  BY DEF Payloads, Written
<1>2. \A c \in [status : RunStates, failure : FailureCodes] : Written(p, "run", c) \in Payloads
  BY DEF Payloads, Written
<1>3. \A c \in [status : AttemptStatuses, failure : FailureCodes] :
        Written(p, "attempt", c) \in Payloads
  BY DEF Payloads, Written
<1>4. \A c \in {"host", "nvidia"} : Written(p, "provenance", c) \in Payloads
  BY DEF Payloads, Written
<1>5. Written(p, "resources", "written") \in Payloads
  BY DEF Payloads, Written
<1>6. \A c \in ValidityStatuses : Written(p, "validity", c) \in Payloads
  BY DEF Payloads, Written
<1>7. \A f \in AtomicFiles : HalfWritten(p, f) \subseteq Payloads
  BY DEF Payloads, HalfWritten
<1> QED
  BY <1>1, <1>2, <1>3, <1>4, <1>5, <1>6, <1>7

\* append_json_line, finished or torn, leaves a file of the same lines.
LEMMA AppendType ==
    ASSUME NEW V, NEW file \in Lines(V), NEW v \in V
    PROVE  AppendLine(file, v) \in Lines(V) /\ TornLine(file, v) \subseteq Lines(V)
<1> DEFINE L == [whole : BOOLEAN, value : V, joined : SUBSET V]
           line(w) == [whole |-> w, value |-> v, joined |-> {}]
<1>1. file.lines \in Seq(L) /\ file.open \in BOOLEAN /\ file.exists \in BOOLEAN
  BY DEF Lines
<1>2. ASSUME NEW records \in SUBSET V
      PROVE  Spoiled(file.lines, records) \in Seq(L)
  <2>1. /\ Len(file.lines) \in Nat /\ DOMAIN file.lines = 1..Len(file.lines)
        /\ \A k \in 1..Len(file.lines) : file.lines[k] \in L
    <3> HIDE DEF L
    <3> QED
      BY <1>1
  <2>2. \A k \in 1..Len(file.lines) : Ruined(file.lines[k], records) \in L
    BY <2>1 DEF Ruined
  <2> HIDE DEF L
  <2>3. Spoiled(file.lines, records) \in [1..Len(file.lines) -> L]
    BY <2>1, <2>2 DEF Spoiled
  <2> QED
    BY <2>1, <2>3
<1>3. \A w \in BOOLEAN : Append(file.lines, line(w)) \in Seq(L)
  <2>1. \A w \in BOOLEAN : line(w) \in L
    OBVIOUS
  <2> HIDE DEF L, line
  <2> QED
    BY <1>1, <2>1
<1>4. \A w \in BOOLEAN : LinesWith(file, v, w) \in Seq(L)
  BY <1>2, <1>3 DEF LinesWith
<1> HIDE DEF L
<1>5. AppendLine(file, v) \in Lines(V)
  BY <1>1, <1>4 DEF Lines, AppendLine, L
<1>6. TornLine(file, v) \subseteq Lines(V)
  BY <1>1, <1>4 DEF Lines, TornLine, L
<1> QED
  BY <1>5, <1>6

\* The runtimes return outputs of the declared type.
LEMMA OutputsType ==
    ASSUME NEW p \in PlanSet
    PROVE  Outputs(p) \subseteq OutputSet /\ \A o \in Outputs(p) : o.terminal \in TerminalStates
<1>1. p.warmups \in Nat /\ p.repetitions \in Nat \ {0}
  BY DEF PlanSet
<1>2. \A n \in Nat, sound \in BOOLEAN : Protocol(p, n, sound) \in Seq(Measurements)
  BY <1>1 DEF Protocol, RecordAt, Measurements
<1>3. LocalFakeMeasured(p) \in Nat
  BY <1>1 DEF LocalFakeMeasured, LesserOf
<1>4. LocalFakeTerminal(p) \in TerminalStates
  BY DEF LocalFakeTerminal, TerminalStates
<1>5. LocalFakeOutput(p) \in OutputSet
  <2>1. p.warmups + LocalFakeMeasured(p) \in Nat
    BY <1>1, <1>3
  <2>2. Protocol(p, p.warmups + LocalFakeMeasured(p), TRUE) \in Seq(Measurements)
    BY <2>1, <1>2, Zenon
  <2> QED
    BY <2>2, <1>4 DEF LocalFakeOutput, OutputSet
<1>6. HelperOutputs(p) \subseteq OutputSet
  <2> DEFINE complete(sound) ==
        [measurements |-> Protocol(p, p.warmups + p.repetitions, sound),
         resources |-> TRUE, nvidia |-> p.runtime = "llamaCppCuda",
         terminal |-> "succeeded", failure |-> "none"]
  <2> DEFINE broken(reaped) ==
        [measurements |-> <<>>, resources |-> reaped, nvidia |-> FALSE,
         terminal |-> "failed", failure |-> "runtime"]
  <2>1. p.warmups + p.repetitions \in Nat
    BY <1>1
  <2>2. ASSUME NEW sound \in BOOLEAN PROVE complete(sound) \in OutputSet
    <3>1. Protocol(p, p.warmups + p.repetitions, sound) \in Seq(Measurements)
      BY <2>1, <1>2, Zenon
    <3>2. (p.runtime = "llamaCppCuda") \in BOOLEAN
      OBVIOUS
    <3> QED
      BY <3>1, <3>2 DEF OutputSet, TerminalStates
  <2>3. ASSUME NEW reaped \in BOOLEAN PROVE broken(reaped) \in OutputSet
    BY DEF OutputSet, TerminalStates
  <2>4. HelperOutputs(p) = {complete(s) : s \in BOOLEAN} \cup {broken(b) : b \in BOOLEAN}
    BY DEF HelperOutputs
  <2> QED
    BY <2>2, <2>3, <2>4
<1>7. \A o \in HelperOutputs(p) : o.terminal \in TerminalStates
  BY DEF HelperOutputs, TerminalStates
<1>8. LocalFakeOutput(p).terminal \in TerminalStates
  BY <1>4 DEF LocalFakeOutput
<1> QED
  BY <1>5, <1>6, <1>7, <1>8 DEF Outputs

-----------------------------------------------------------------------------
(* The type invariant is preserved by the ways an operation may end.       *)

\* What the type invariant says of the control state alone.
ControlOK ==
    /\ pc \in [Runs -> Labels]
    /\ phase \in [Runs -> Phases]
    /\ faults \in 0..MaxFaults

\* TypeOK with the control state named.
LEMMA TypeParts ==
    TypeOK <=> /\ ControlOK
               /\ id \in [Runs -> RunIds]
               /\ plan \in [Runs -> Plans]
               /\ life \in [Runs -> [state : RunStates, next : Nat]]
               /\ runRec \in [Runs -> [status : RunStates, failure : FailureCodes]]
               /\ attRec \in [Runs -> [status : AttemptStatuses, failure : FailureCodes]]
               /\ output \in [Runs -> OutputSet]
               /\ staging \in [RunIds -> Dirs]
               /\ final \in [RunIds -> Dirs]
BY Zenon DEF TypeOK, ControlOK, Labels

\* Moving on, failing and dying keep the control state well typed.
LEMMA ControlType ==
    ASSUME ControlOK, NEW r \in Runs
    PROVE  /\ \A label \in Labels : Goto(r, label) => ControlOK'
           /\ \A at \in Phases : \A state : FailAt(r, at, state) /\ UNCHANGED faults => ControlOK'
           /\ \A at \in Phases : \A state : Abort(r, at, state) => ControlOK'
           /\ \A next \in Labels : Ignore(r, next) => ControlOK'
<1>0. MaxFaults \in Nat
  BY ConstantsAssumption
<1>1. \A label \in Labels : Goto(r, label) => ControlOK'
  BY DEF ControlOK, Goto
<1>2. \A state : RecoveryEntry(state) \in Labels
  BY DEF RecoveryEntry, Labels, RecoveryLabels
<1>3. \A at \in Phases : \A state :
        FailAt(r, at, state) => pc' \in [Runs -> Labels] /\ phase' \in [Runs -> Phases]
  BY <1>2 DEF ControlOK, FailAt
<1>4. "crashed" \in Labels
  BY DEF Labels, EndLabels
<1>5. \A at \in Phases : \A state : FailAt(r, at, state) /\ UNCHANGED faults => ControlOK'
  BY <1>3 DEF ControlOK
<1>6. \A at \in Phases : \A state : Abort(r, at, state) => ControlOK'
  BY <1>0, <1>3, <1>4 DEF ControlOK, Abort
<1>7. \A next \in Labels : Ignore(r, next) => ControlOK'
  BY <1>0, <1>4 DEF ControlOK, Ignore
<1> QED
  BY <1>1, <1>5, <1>6, <1>7

\* Storing a payload changes one directory and nothing but its payload.
LEMMA StoreType ==
    ASSUME TypeOK, NEW r \in Runs
    PROVE  /\ id[r] \in RunIds /\ Payload(r) \in Payloads
           /\ \A p \in Payloads : Store(r, p) =>
                 /\ staging' \in [RunIds -> Dirs]
                 /\ staging'[id[r]] = [staging[id[r]] EXCEPT !.payload = p]
                 /\ \A i \in RunIds \ {id[r]} : staging'[i] = staging[i]
<1>1. id[r] \in RunIds /\ staging \in [RunIds -> Dirs]
  BY DEF TypeOK
<1>2. staging[id[r]] \in Dirs
  BY <1>1
<1>3. Payload(r) \in Payloads
  BY <1>2 DEF Payload, Dirs
<1>4. \A p \in Payloads : [staging[id[r]] EXCEPT !.payload = p] \in Dirs
  BY <1>2 DEF Dirs
<1> QED
  BY <1>1, <1>3, <1>4 DEF Store

\* One operation on the staged files.
LEMMA FileStepType ==
    ASSUME TypeOK, NEW r \in Runs, NEW label, NEW at \in Phases, NEW next \in Labels,
           NEW done \in Payloads, NEW partial \in SUBSET Payloads,
           FileStep(r, label, at, done, partial, next)
    PROVE  TypeOK'
<1>1. UNCHANGED <<id, plan, life, runRec, attRec, output, final>>
  BY DEF FileStep, memory
<1>2. ControlOK
  BY TypeParts
<1>3. CASE Store(r, done) /\ Goto(r, next)
  <2>1. staging' \in [RunIds -> Dirs]
    BY <1>3, StoreType
  <2>2. ControlOK'
    BY <1>2, <1>3, ControlType
  <2> QED
    BY <1>1, <2>1, <2>2 DEF TypeOK, ControlOK, Labels
<1>4. CASE \E left \in partial : Store(r, left) /\ Abort(r, at, life[r].state)
  <2>1. staging' \in [RunIds -> Dirs]
    BY <1>4, StoreType
  <2>2. ControlOK'
    BY <1>2, <1>4, ControlType
  <2> QED
    BY <1>1, <2>1, <2>2 DEF TypeOK, ControlOK, Labels
<1> QED
  BY <1>3, <1>4 DEF FileStep

\* persist_run_transition, whatever an error does as long as it is well typed.
LEMMA RunTransitionType ==
    ASSUME TypeOK, NEW r \in Runs, NEW to \in RunStates, NEW failure \in FailureCodes,
           NEW next \in Labels, NEW ACTION stop, stop => ControlOK',
           persist_run_transition(r, to, failure, next, stop)
    PROVE  TypeOK'
<1> DEFINE event == TransitionEvent(life[r], to, failure)
           logged == [Payload(r) EXCEPT !.journal = AppendLine(@, event)]
           record == RecordAfter(runRec[r], to, failure)
<1>1. UNCHANGED <<id, plan, attRec, output, final>>
  BY DEF persist_run_transition
<1>2. ControlOK
  BY TypeParts
<1>3. life[r] \in [state : RunStates, next : Nat]
      /\ runRec[r] \in [status : RunStates, failure : FailureCodes]
  BY DEF TypeOK
<1>4. life' \in [Runs -> [state : RunStates, next : Nat]]
  BY <1>3 DEF TypeOK, persist_run_transition, Transitioned
<1>5. event \in Events
  BY <1>3 DEF TransitionEvent, Events
<1>6. record \in [status : RunStates, failure : FailureCodes]
  BY <1>3 DEF RecordAfter
<1>7. runRec' \in [Runs -> [status : RunStates, failure : FailureCodes]]
  BY <1>6 DEF TypeOK, persist_run_transition
<1>8. Payload(r) \in Payloads /\ Payload(r).journal \in Lines(Events)
  BY StoreType DEF Payloads
<1>9. logged \in Payloads
  BY <1>5, <1>8, AppendType DEF Payloads
<1>10. \A j \in TornLine(Payload(r).journal, event) :
         [Payload(r) EXCEPT !.journal = j] \in Payloads
  BY <1>5, <1>8, AppendType DEF Payloads
<1>11. Written(logged, "run", record) \in Payloads
  BY <1>6, <1>9, WrittenType
<1>12. HalfWritten(logged, "run") \subseteq Payloads
  BY <1>9, WrittenType DEF AtomicFiles
<1>13. ControlOK' /\ staging' \in [RunIds -> Dirs]
  <2>1. CASE stop /\ \E j \in TornLine(Payload(r).journal, event) :
               Store(r, [Payload(r) EXCEPT !.journal = j])
    BY <2>1, <1>10, StoreType
  <2>2. CASE Store(r, Written(logged, "run", record)) /\ Goto(r, next)
    BY <2>2, <1>2, <1>11, StoreType, ControlType
  <2>3. CASE \E left \in HalfWritten(logged, "run") : Store(r, left) /\ stop
    BY <2>3, <1>12, StoreType
  <2> QED
    BY <2>1, <2>2, <2>3 DEF persist_run_transition
<1> QED
  BY <1>1, <1>4, <1>7, <1>13, TypeParts DEF TypeOK, ControlOK, Labels

\* persist_attempt_status.
LEMMA AttemptStatusType ==
    ASSUME TypeOK, NEW r \in Runs, NEW at \in Phases, NEW status \in AttemptStatuses,
           NEW failure \in FailureCodes, NEW next \in Labels,
           persist_attempt_status(r, at, status, failure, next)
    PROVE  TypeOK'
<1> DEFINE record == [status |-> status,
                      failure |-> IF status \in TerminalStates THEN failure
                                  ELSE attRec[r].failure]
<1>1. UNCHANGED <<id, plan, life, runRec, output, final>>
  BY DEF persist_attempt_status
<1>2. ControlOK
  BY TypeParts
<1>3. record \in [status : AttemptStatuses, failure : FailureCodes]
  BY DEF TypeOK
<1>4. attRec' \in [Runs -> [status : AttemptStatuses, failure : FailureCodes]]
  BY <1>3 DEF TypeOK, persist_attempt_status
<1>5. Payload(r) \in Payloads
  BY StoreType
<1>6. Written(Payload(r), "attempt", record) \in Payloads
      /\ HalfWritten(Payload(r), "attempt") \subseteq Payloads
  BY <1>3, <1>5, WrittenType DEF AtomicFiles
<1>7. ControlOK' /\ staging' \in [RunIds -> Dirs]
  <2>1. CASE Store(r, Written(Payload(r), "attempt", record)) /\ Goto(r, next)
    BY <2>1, <1>2, <1>6, StoreType, ControlType
  <2>2. CASE \E left \in HalfWritten(Payload(r), "attempt") :
               Store(r, left) /\ Abort(r, at, life[r].state)
    BY <2>2, <1>2, <1>6, StoreType, ControlType
  <2> QED
    BY <2>1, <2>2 DEF persist_attempt_status
<1> QED
  BY <1>1, <1>4, <1>7 DEF TypeOK, ControlOK, Labels

\* Validity, summary and manifest of a known output.
LEMMA VerdictType ==
    ASSUME TypeOK, NEW r \in Runs, output[r].terminal \in TerminalStates
    PROVE  /\ Written(Payload(r), "validity", Validity(r)) \in Payloads
           /\ Written(Payload(r), "summary", summarize(output[r], Validity(r))) \in Payloads
           /\ Written(Payload(r), "manifest",
                      [status |-> output[r].terminal, validity |-> Validity(r)]) \in Payloads
<1>1. Payload(r) \in Payloads
  BY StoreType
<1>2. Validity(r) \in ValidityStatuses
  BY DEF Validity, evaluate_validity, ValidityStatuses
<1>3. Measured(output[r].measurements) \in Nat
  <2> DEFINE records == output[r].measurements
             picked == {k \in 1..Len(records) : records[k].phase = "measured"}
  <2>1. Len(records) \in Nat
    BY DEF TypeOK, OutputSet
  <2>2. IsFiniteSet(1..Len(records))
    BY <2>1, FS_Interval
  <2>3. IsFiniteSet(picked)
    BY <2>2, FS_Subset
  <2> QED
    BY <2>3, FS_CardinalityType DEF Measured
<1>4. (Measured(output[r].measurements) > 0 /\ Validity(r) # "indeterminate") \in BOOLEAN
  OBVIOUS
<1>5. Written(Payload(r), "validity", Validity(r)) \in Payloads
  BY <1>1, <1>2, WrittenType
<1>6. summarize(output[r], Validity(r)) \in
        [status : TerminalStates \cup {"absent"}, validity : ValidityStatuses \cup {"absent"},
         samples : Nat, described : BOOLEAN]
  BY <1>2, <1>3, <1>4 DEF summarize
<1>7. Written(Payload(r), "summary", summarize(output[r], Validity(r))) \in Payloads
  BY <1>1, <1>6 DEF Written, Payloads
<1>8. [status |-> output[r].terminal, validity |-> Validity(r)] \in
        [status : TerminalStates \cup {"absent"}, validity : ValidityStatuses \cup {"absent"}]
  BY <1>2
<1>9. Written(Payload(r), "manifest",
              [status |-> output[r].terminal, validity |-> Validity(r)]) \in Payloads
  BY <1>1, <1>8 DEF Written, Payloads
<1> QED
  BY <1>5, <1>7, <1>9

-----------------------------------------------------------------------------
(* Every step of a run preserves the type invariant.                       *)

\* write_json_atomic as a step.
LEMMA WriteRecordType ==
    ASSUME TypeOK, NEW r \in Runs, NEW label, NEW at \in Phases, NEW file \in AtomicFiles,
           NEW content, NEW next \in Labels, Written(Payload(r), file, content) \in Payloads,
           WriteRecord(r, label, at, file, content, next)
    PROVE  TypeOK'
<1>1. Payload(r) \in Payloads
  BY StoreType
<1>2. HalfWritten(Payload(r), file) \in SUBSET Payloads
  BY <1>1, WrittenType
<1> QED
  BY <1>2, FileStepType DEF WriteRecord

\* The labels between the end of the attempt and the end of the run.
ExecutedLabels ==
    {"enrichProvenance", "attemptTerminal", "writeResources", "appendMeasurements",
     "toCollecting", "toFinalizing", "toTerminal", "writeValidity", "writeSummary",
     "writeManifest", "checksum", "verify", "checkDestination", "publish"}

\* Once the attempt returned, its outcome is a terminal state: what the typing
\* of attempt.json, summary.json and manifest.json rests on.
OutputKnown == \A r \in Runs : pc[r] \in ExecutedLabels => output[r].terminal \in TerminalStates

\* Initialization.
LEMMA InitializingType ==
    ASSUME TypeOK, NEW r \in Runs,
           \/ Reject(r) \/ Allocate(r) \/ AllocateError(r) \/ AllocateCrash(r)
           \/ MakeAttemptDir(r) \/ WriteExperiment(r) \/ WritePlan(r) \/ CreateEvents(r)
           \/ AppendCreated(r) \/ CreateMeasurements(r) \/ SnapshotRun(r) \/ SnapshotAttempt(r)
    PROVE  TypeOK'
<1>1. /\ ControlOK /\ id[r] \in RunIds /\ staging \in [RunIds -> Dirs]
      /\ Payload(r) \in Payloads /\ plan[r] \in Plans
      /\ runRec[r] \in [status : RunStates, failure : FailureCodes]
      /\ attRec[r] \in [status : AttemptStatuses, failure : FailureCodes]
  BY TypeParts, StoreType DEF TypeOK
<1>2. StagingDir(r) \in Dirs
  BY NoDirType DEF StagingDir, Dirs
<1>3. CASE Reject(r)
  <2>1. ControlOK'
    BY <1>1, <1>3, ControlType DEF Reject, Labels, EndLabels
  <2> QED
    BY <1>3, <2>1 DEF Reject, memory, TypeOK, ControlOK, Labels
<1>4. CASE Allocate(r)
  <2>1. ControlOK'
    BY <1>1, <1>4, ControlType DEF Allocate, Labels, StagingLabels
  <2>2. staging' \in [RunIds -> Dirs]
    BY <1>1, <1>2, <1>4 DEF Allocate
  <2> QED
    BY <1>4, <2>1, <2>2 DEF Allocate, memory, TypeOK, ControlOK, Labels
<1>5. CASE AllocateError(r)
  <2>1. "ioError" \in Labels
    BY DEF Labels, EndLabels
  <2>2. ControlOK'
    BY <1>1, <1>5, <2>1, ControlType, ConstantsAssumption DEF AllocateError, ControlOK
  <2> QED
    BY <1>5, <2>2 DEF AllocateError, memory, TypeOK, ControlOK, Labels
<1>6. CASE AllocateCrash(r)
  <2>1. ControlOK'
    BY <1>1, <1>6, ControlType DEF AllocateCrash, Labels, EndLabels
  <2>2. staging' \in [RunIds -> Dirs]
    BY <1>1, <1>2, <1>6 DEF AllocateCrash
  <2> QED
    BY <1>6, <2>1, <2>2 DEF AllocateCrash, memory, TypeOK, ControlOK, Labels
<1>7. CASE MakeAttemptDir(r)
  <2>1. [Payload(r) EXCEPT !.attemptDir = TRUE] \in Payloads
    BY <1>1 DEF Payloads
  <2> QED
    BY <1>1, <1>7, <2>1, FileStepType DEF MakeAttemptDir, Labels, StagingLabels, Phases
<1>8. CASE WriteExperiment(r)
  <2>1. /\ [Payload(r) EXCEPT !.experiment = "written"] \in Payloads
        /\ [Payload(r) EXCEPT !.experiment = "partial"] \in Payloads
    BY <1>1 DEF Payloads
  <2>2. {Payload(r), [Payload(r) EXCEPT !.experiment = "partial"]} \in SUBSET Payloads
    BY <1>1, <2>1
  <2> QED
    BY <1>8, <2>1, <2>2, FileStepType DEF WriteExperiment, Labels, StagingLabels, Phases
<1>9. CASE WritePlan(r)
  <2>1. Written(Payload(r), "plan", plan[r]) \in Payloads
    BY <1>1, WrittenType
  <2> QED
    BY <1>9, <2>1, WriteRecordType
       DEF WritePlan, Labels, StagingLabels, Phases, AtomicFiles
<1>10. CASE CreateEvents(r)
  <2>1. [Payload(r) EXCEPT !.journal.exists = TRUE] \in Payloads
    BY <1>1 DEF Payloads, Lines
  <2> QED
    BY <1>1, <1>10, <2>1, FileStepType DEF CreateEvents, Labels, StagingLabels, Phases
<1>11. CASE AppendCreated(r)
  <2>1. InitialEvent \in Events /\ Payload(r).journal \in Lines(Events)
    BY <1>1 DEF InitialEvent, Events, RunStates, FailureCodes, Payloads
  <2>2. [Payload(r) EXCEPT !.journal = AppendLine(@, InitialEvent)] \in Payloads
    BY <1>1, <2>1, AppendType DEF Payloads
  <2>3. {[Payload(r) EXCEPT !.journal = j] : j \in TornLine(Payload(r).journal, InitialEvent)}
          \in SUBSET Payloads
    <3>1. TornLine(Payload(r).journal, InitialEvent) \subseteq Lines(Events)
      BY <2>1, AppendType
    <3> QED
      BY <1>1, <3>1 DEF Payloads
  <2> QED
    BY <1>11, <2>2, <2>3, FileStepType DEF AppendCreated, Labels, StagingLabels, Phases
<1>12. CASE CreateMeasurements(r)
  <2>1. [Payload(r) EXCEPT !.measurements.exists = TRUE] \in Payloads
    BY <1>1 DEF Payloads, Lines
  <2> QED
    BY <1>1, <1>12, <2>1, FileStepType DEF CreateMeasurements, Labels, StagingLabels, Phases
<1>13. CASE SnapshotRun(r)
  <2>1. Written(Payload(r), "run", runRec[r]) \in Payloads
    BY <1>1, WrittenType
  <2> QED
    BY <1>13, <2>1, WriteRecordType
       DEF SnapshotRun, Labels, StagingLabels, Phases, AtomicFiles
<1>14. CASE SnapshotAttempt(r)
  <2>1. Written(Payload(r), "attempt", attRec[r]) \in Payloads
    BY <1>1, WrittenType
  <2> QED
    BY <1>14, <2>1, WriteRecordType
       DEF SnapshotAttempt, Labels, StagingLabels, Phases, AtomicFiles
<1> QED
  BY <1>3, <1>4, <1>5, <1>6, <1>7, <1>8, <1>9, <1>10, <1>11, <1>12, <1>13, <1>14

\* Preparing, running and recording what the attempt returned.
LEMMA RunningType ==
    ASSUME TypeOK, OutputKnown, NEW r \in Runs,
           \/ ToPreparing(r) \/ AttemptPreparing(r) \/ WriteProvenance(r)
           \/ ToRunning(r) \/ AttemptRunning(r) \/ Execute(r) \/ EnrichProvenance(r)
           \/ AttemptTerminal(r) \/ WriteResources(r)
           \/ AppendMeasurement(r) \/ MeasurementsRecorded(r)
    PROVE  TypeOK'
<1>1. ControlOK /\ Payload(r) \in Payloads /\ plan[r] \in PlanSet /\ output[r] \in OutputSet
  BY TypeParts, StoreType, ConstantsAssumption DEF TypeOK
<1>2. \A at \in Phases : \A state : Abort(r, at, state) => ControlOK'
  BY <1>1, ControlType
<1>3. CASE ToPreparing(r)
  <2>1. Abort(r, "preparing", "preparing") => ControlOK'
    BY <1>2 DEF Phases
  <2> QED
    BY <1>3, <2>1, RunTransitionType
       DEF ToPreparing, RunStates, FailureCodes, Labels, StagingLabels
<1>4. CASE AttemptPreparing(r)
  BY <1>4, AttemptStatusType
     DEF AttemptPreparing, AttemptStatuses, FailureCodes, Labels, StagingLabels, Phases
<1>5. CASE WriteProvenance(r)
  <2>1. Written(Payload(r), "provenance", "host") \in Payloads
    BY <1>1, WrittenType
  <2> QED
    BY <1>5, <2>1, WriteRecordType
       DEF WriteProvenance, Labels, StagingLabels, Phases, AtomicFiles
<1>6. CASE ToRunning(r)
  <2>1. Abort(r, "running", "running") => ControlOK'
    BY <1>2 DEF Phases
  <2> QED
    BY <1>6, <2>1, RunTransitionType
       DEF ToRunning, RunStates, FailureCodes, Labels, StagingLabels
<1>7. CASE AttemptRunning(r)
  BY <1>7, AttemptStatusType
     DEF AttemptRunning, AttemptStatuses, FailureCodes, Labels, StagingLabels, Phases
<1>8. CASE Execute(r)
  <2>1. Outputs(plan[r]) \subseteq OutputSet
    BY <1>1, OutputsType
  <2>2. output' \in [Runs -> OutputSet]
    BY <1>8, <2>1 DEF Execute, TypeOK
  <2>3. ControlOK'
    BY <1>1, <1>8, ControlType DEF Execute, Labels, StagingLabels, EndLabels
  <2> QED
    BY <1>8, <2>2, <2>3 DEF Execute, TypeOK, ControlOK, Labels
<1>9. CASE EnrichProvenance(r)
  <2>1. Written(Payload(r), "provenance", "nvidia") \in Payloads
    BY <1>1, WrittenType
  <2> QED
    BY <1>9, <2>1, WriteRecordType
       DEF EnrichProvenance, Labels, StagingLabels, Phases, AtomicFiles
<1>10. CASE AttemptTerminal(r)
  <2>1. output[r].terminal \in AttemptStatuses
    BY <1>10 DEF AttemptTerminal, OutputKnown, ExecutedLabels, AttemptStatuses
  <2>2. output[r].failure \in FailureCodes
    BY <1>1 DEF OutputSet, FailureCodes
  <2> QED
    BY <1>10, <2>1, <2>2, AttemptStatusType DEF AttemptTerminal, Labels, StagingLabels, Phases
<1>11. CASE WriteResources(r)
  <2>1. Written(Payload(r), "resources", "written") \in Payloads
    BY <1>1, WrittenType
  <2> QED
    BY <1>11, <2>1, WriteRecordType
       DEF WriteResources, Labels, StagingLabels, Phases, AtomicFiles
<1>12. CASE AppendMeasurement(r)
  <2> DEFINE written == Payload(r).measurements
             record == output[r].measurements[Len(written.lines) + 1]
  <2>1. written \in Lines(Measurements) /\ output[r].measurements \in Seq(Measurements)
    BY <1>1 DEF Payloads, OutputSet
  <2>2. Len(written.lines) \in Nat
    BY <2>1 DEF Lines
  <2>3. Len(written.lines) < Len(output[r].measurements)
    BY <1>12 DEF AppendMeasurement
  <2>4. record \in Measurements
    <3> HIDE DEF written
    <3> QED
      BY <2>1, <2>2, <2>3
  <2>5. [Payload(r) EXCEPT !.measurements = AppendLine(@, record)] \in Payloads
    BY <1>1, <2>1, <2>4, AppendType DEF Payloads
  <2>6. {[Payload(r) EXCEPT !.measurements = m] : m \in TornLine(written, record)}
          \in SUBSET Payloads
    <3>1. TornLine(written, record) \subseteq Lines(Measurements)
      BY <2>1, <2>4, AppendType
    <3> HIDE DEF written, record
    <3> QED
      BY <1>1, <3>1 DEF Payloads
  <2> QED
    BY <1>12, <2>5, <2>6, FileStepType DEF AppendMeasurement, Labels, StagingLabels, Phases
<1>13. CASE MeasurementsRecorded(r)
  <2>1. ControlOK'
    BY <1>1, <1>13, ControlType DEF MeasurementsRecorded, Labels, StagingLabels
  <2> QED
    BY <1>13, <2>1 DEF MeasurementsRecorded, memory, TypeOK, ControlOK, Labels
<1> QED
  BY <1>3, <1>4, <1>5, <1>6, <1>7, <1>8, <1>9, <1>10, <1>11, <1>12, <1>13

\* Finalization, publication and recovery.
LEMMA FinishingType ==
    ASSUME TypeOK, OutputKnown, NEW r \in Runs,
           \/ ToCollecting(r) \/ ToFinalizing(r) \/ ToTerminal(r)
           \/ WriteValidity(r) \/ WriteSummary(r) \/ WriteManifest(r)
           \/ Checksum(r) \/ Verify(r) \/ CheckDestination(r) \/ Publish(r)
           \/ RecoverFinalizing(r) \/ RecoverFailed(r) \/ RecoverRun(r) \/ RecoverAttempt(r)
    PROVE  TypeOK'
<1>1. /\ ControlOK /\ Payload(r) \in Payloads /\ output[r] \in OutputSet /\ id[r] \in RunIds
      /\ staging \in [RunIds -> Dirs] /\ final \in [RunIds -> Dirs]
      /\ runRec[r] \in [status : RunStates, failure : FailureCodes]
      /\ attRec[r] \in [status : AttemptStatuses, failure : FailureCodes]
  BY TypeParts, StoreType DEF TypeOK
<1>2. /\ \A at \in Phases : \A state : Abort(r, at, state) => ControlOK'
      /\ \A next \in Labels : Ignore(r, next) => ControlOK'
      /\ \A label \in Labels : Goto(r, label) => ControlOK'
      /\ \A at \in Phases : \A state : FailAt(r, at, state) /\ UNCHANGED faults => ControlOK'
  BY <1>1, ControlType
<1>3. CASE ToCollecting(r)
  <2>1. Abort(r, "collecting", "collecting") => ControlOK'
    BY <1>2 DEF Phases
  <2> QED
    BY <1>3, <2>1, RunTransitionType
       DEF ToCollecting, RunStates, FailureCodes, Labels, StagingLabels
<1>4. CASE ToFinalizing(r)
  <2>1. Abort(r, "finalizing", "finalizing") => ControlOK'
    BY <1>2 DEF Phases
  <2> QED
    BY <1>4, <2>1, RunTransitionType
       DEF ToFinalizing, RunStates, FailureCodes, Labels, StagingLabels
<1>5. CASE ToTerminal(r)
  <2>1. Abort(r, "finalizing", output[r].terminal) => ControlOK'
    BY <1>2 DEF Phases
  <2>2. output[r].terminal \in RunStates
    BY <1>5 DEF ToTerminal, OutputKnown, ExecutedLabels, RunStates
  <2>3. output[r].failure \in FailureCodes
    BY <1>1 DEF OutputSet, FailureCodes
  <2> QED
    BY <1>5, <2>1, <2>2, <2>3, RunTransitionType DEF ToTerminal, Labels, StagingLabels
<1>6. CASE WriteValidity(r)
  <2>1. Written(Payload(r), "validity", Validity(r)) \in Payloads
    BY <1>6, VerdictType DEF WriteValidity, WriteRecord, FileStep, OutputKnown, ExecutedLabels
  <2> QED
    BY <1>6, <2>1, WriteRecordType
       DEF WriteValidity, Labels, StagingLabels, Phases, AtomicFiles
<1>7. CASE WriteSummary(r)
  <2>1. Written(Payload(r), "summary", summarize(output[r], Validity(r))) \in Payloads
    BY <1>7, VerdictType DEF WriteSummary, WriteRecord, FileStep, OutputKnown, ExecutedLabels
  <2> QED
    BY <1>7, <2>1, WriteRecordType
       DEF WriteSummary, Labels, StagingLabels, Phases, AtomicFiles
<1>8. CASE WriteManifest(r)
  <2>1. Written(Payload(r), "manifest",
                [status |-> output[r].terminal, validity |-> Validity(r)]) \in Payloads
    BY <1>8, VerdictType DEF WriteManifest, WriteRecord, FileStep, OutputKnown, ExecutedLabels
  <2> QED
    BY <1>8, <2>1, WriteRecordType
       DEF WriteManifest, Labels, StagingLabels, Phases, AtomicFiles
<1>9. CASE Checksum(r)
  <2>1. Checksummed(staging[id[r]]) \in Dirs
    <3>1. staging[id[r]] \in Dirs
      BY <1>1
    <3>2. [listed |-> TRUE, payload |-> staging[id[r]].payload] \in
            [listed : BOOLEAN, payload : Payloads]
      BY <3>1 DEF Dirs
    <3> QED
      BY <3>1, <3>2 DEF Checksummed, Dirs
  <2>2. HalfWritten(Payload(r), "sums") \subseteq Payloads
    BY <1>1, WrittenType DEF AtomicFiles
  <2>3. staging' \in [RunIds -> Dirs]
    <3>1. CASE staging' = [staging EXCEPT ![id[r]] = Checksummed(@)]
      BY <1>1, <2>1, <3>1
    <3>2. CASE \E left \in HalfWritten(Payload(r), "sums") : Store(r, left)
      BY <2>2, <3>2, StoreType
    <3> QED
      BY <1>9, <3>1, <3>2 DEF Checksum
  <2>4. ControlOK'
    BY <1>2, <1>9 DEF Checksum, Labels, StagingLabels, Phases
  <2> QED
    BY <1>9, <2>3, <2>4 DEF Checksum, memory, TypeOK, ControlOK, Labels
<1>10. CASE Verify(r)
  <2>1. ControlOK'
    BY <1>2, <1>10 DEF Verify, Labels, StagingLabels, Phases
  <2> QED
    BY <1>10, <2>1 DEF Verify, memory, TypeOK, ControlOK, Labels
<1>11. CASE CheckDestination(r)
  <2>1. ControlOK'
    BY <1>2, <1>11 DEF CheckDestination, Labels, StagingLabels, EndLabels, Phases
  <2> QED
    BY <1>11, <2>1 DEF CheckDestination, memory, TypeOK, ControlOK, Labels
<1>12. CASE Publish(r)
  <2>1. ControlOK'
    BY <1>2, <1>12 DEF Publish, Labels, EndLabels, Phases
  <2>2. staging' \in [RunIds -> Dirs] /\ final' \in [RunIds -> Dirs]
    BY <1>1, <1>12, NoDirType DEF Publish
  <2> QED
    BY <1>12, <2>1, <2>2 DEF Publish, memory, TypeOK, ControlOK, Labels
<1>13. AllocatedFailure(r) \in FailureCodes
  BY DEF AllocatedFailure, FailureCodes
<1>14. CASE RecoverFinalizing(r)
  <2>1. Ignore(r, "recoverFailed") => ControlOK'
    BY <1>2 DEF Labels, RecoveryLabels
  <2> QED
    BY <1>14, <2>1, RunTransitionType
       DEF RecoverFinalizing, RunStates, FailureCodes, Labels, RecoveryLabels
<1>15. CASE RecoverFailed(r)
  <2>1. Ignore(r, "recoverRun") => ControlOK'
    BY <1>2 DEF Labels, RecoveryLabels
  <2> QED
    BY <1>13, <1>15, <2>1, RunTransitionType
       DEF RecoverFailed, RunStates, TerminalStates, Labels, RecoveryLabels
<1>16. CASE RecoverRun(r)
  <2> DEFINE record == [runRec[r] EXCEPT !.failure = AllocatedFailure(r)]
  <2>1. record \in [status : RunStates, failure : FailureCodes]
    BY <1>1, <1>13
  <2>2. runRec' \in [Runs -> [status : RunStates, failure : FailureCodes]]
    BY <1>16, <2>1 DEF RecoverRun, TypeOK
  <2>3. Written(Payload(r), "run", record) \in Payloads
        /\ HalfWritten(Payload(r), "run") \subseteq Payloads
    BY <1>1, <2>1, WrittenType DEF AtomicFiles
  <2>4. staging' \in [RunIds -> Dirs]
    BY <1>16, <2>3, StoreType DEF RecoverRun
  <2>5. ControlOK'
    BY <1>2, <1>16 DEF RecoverRun, Labels, RecoveryLabels
  <2> QED
    BY <1>16, <2>2, <2>4, <2>5 DEF RecoverRun, TypeOK, ControlOK, Labels
<1>17. CASE RecoverAttempt(r)
  <2>1. Written(Payload(r), "attempt", attRec[r]) \in Payloads
        /\ HalfWritten(Payload(r), "attempt") \subseteq Payloads
    BY <1>1, WrittenType DEF AtomicFiles
  <2>2. staging' \in [RunIds -> Dirs]
    BY <1>1, <1>17, <2>1, StoreType DEF RecoverAttempt
  <2>3. ControlOK'
    BY <1>2, <1>17 DEF RecoverAttempt, Labels, EndLabels
  <2> QED
    BY <1>17, <2>2, <2>3 DEF RecoverAttempt, memory, TypeOK, ControlOK, Labels
<1> QED
  BY <1>3, <1>4, <1>5, <1>6, <1>7, <1>8, <1>9, <1>10, <1>11, <1>12, <1>14, <1>15, <1>16, <1>17

-----------------------------------------------------------------------------
(* What a step of a run may do to the two directories: the frame on which  *)
(* every theorem about the directories rests.                              *)

\* Other runs keep their control point and other identities their directories.
Apart(r) ==
    /\ id' = id
    /\ \A q \in Runs \ {r} : pc'[q] = pc[q]
    /\ \A i \in RunIds \ {id[r]} : staging'[i] = staging[i] /\ final'[i] = final[i]

\* The run ends before it owns a directory.
EndsUnallocated(r) ==
    /\ pc[r] = "start" /\ pc'[r] \in {"rejected", "ioError", "crashed"}
    /\ UNCHANGED <<staging, final>>

\* The run takes a place in staging/ that was free.
Allocates(r) ==
    /\ pc[r] = "start" /\ pc'[r] \in {"makeAttemptDir", "crashed"}
    /\ staging[id[r]].kind = "none"
    /\ staging'[id[r]] = StagingDir(r)
    /\ UNCHANGED final

\* The run works inside its directory, fails, or passes a check.
Works(r) ==
    /\ pc[r] \in StagingLabels \cup RecoveryLabels
    /\ pc'[r] \in StagingLabels \cup RecoveryLabels \cup {"allocatedError", "crashed"}
    /\ staging'[id[r]].kind = staging[id[r]].kind
    /\ staging'[id[r]].owner = staging[id[r]].owner
    /\ pc'[r] \in {"checkDestination", "publish"} =>
          /\ staging'[id[r]] = staging[id[r]]
          /\ \/ verify_evidence_bundle(staging[id[r]])
             \/ pc[r] = "checkDestination"
    /\ UNCHANGED final

\* The staging directory becomes the published one.
Publishes(r) ==
    /\ pc[r] = "publish" /\ pc'[r] \in {"returned", "crashed"}
    /\ final[id[r]].kind \in {"none", "empty"}
    /\ final'[id[r]] = staging[id[r]]
    /\ staging'[id[r]] = NoDir

StepFrame(r) ==
    /\ Apart(r)
    /\ EndsUnallocated(r) \/ Allocates(r) \/ Works(r) \/ Publishes(r)

\* Where an operation that checks nothing may lead.
OrdinaryLabels ==
    (StagingLabels \cup RecoveryLabels \cup {"allocatedError", "crashed"})
        \ {"checkDestination", "publish"}

\* An operation that stores a payload and goes on, fails or dies is one of the
\* steps Works allows, as long as it does not go on to publication.
LEMMA StoreFrame ==
    ASSUME TypeOK, NEW r \in Runs, pc[r] \in StagingLabels \cup RecoveryLabels,
           id' = id, final' = final,
           NEW p, Store(r, p), NEW at, NEW state, NEW next \in OrdinaryLabels,
           Goto(r, next) \/ Abort(r, at, state) \/ Ignore(r, next)
    PROVE  StepFrame(r)
<1>1. pc \in [Runs -> Labels]
  BY TypeParts DEF ControlOK
<1>2. RecoveryEntry(state) \in RecoveryLabels
  BY DEF RecoveryEntry, RecoveryLabels
<1>3. PICK l \in {next, RecoveryEntry(state), "crashed"} : pc' = [pc EXCEPT ![r] = l]
  BY DEF Goto, Abort, Ignore, FailAt
<1>4. l \in OrdinaryLabels
  BY <1>2, <1>3 DEF OrdinaryLabels, RecoveryLabels, EndLabels
<1>5. pc'[r] = l /\ \A q \in Runs \ {r} : pc'[q] = pc[q]
  BY <1>1, <1>3
<1>6. /\ id[r] \in RunIds
      /\ staging'[id[r]] = [staging[id[r]] EXCEPT !.payload = p]
      /\ \A i \in RunIds \ {id[r]} : staging'[i] = staging[i]
  BY DEF TypeOK, Store
<1>7. staging[id[r]] \in Dirs
  BY <1>6 DEF TypeOK
<1>8. staging'[id[r]].kind = staging[id[r]].kind /\ staging'[id[r]].owner = staging[id[r]].owner
  BY <1>6, <1>7 DEF Dirs
<1>9. Apart(r)
  BY <1>5, <1>6 DEF Apart
<1>10. Works(r)
  BY <1>4, <1>5, <1>8 DEF Works, OrdinaryLabels
<1> QED
  BY <1>9, <1>10 DEF StepFrame

\* The frame of one operation on the staged files.
LEMMA FileStepFrame ==
    ASSUME TypeOK, NEW r \in Runs, NEW label \in StagingLabels, NEW at, NEW done, NEW partial,
           NEW next \in OrdinaryLabels, FileStep(r, label, at, done, partial, next)
    PROVE  StepFrame(r)
<1>1. pc[r] \in StagingLabels \cup RecoveryLabels /\ id' = id /\ final' = final
  BY DEF FileStep, memory
<1>2. PICK p : Store(r, p) /\ (Goto(r, next) \/ Abort(r, at, life[r].state))
  BY DEF FileStep
<1> QED
  BY <1>1, <1>2, StoreFrame

\* The frame of persist_run_transition.
LEMMA RunTransitionFrame ==
    ASSUME TypeOK, NEW r \in Runs, pc[r] \in StagingLabels \cup RecoveryLabels,
           NEW to, NEW failure, NEW next \in OrdinaryLabels, NEW at, NEW state,
           \/ persist_run_transition(r, to, failure, next, Abort(r, at, state))
           \/ persist_run_transition(r, to, failure, next, Ignore(r, next))
    PROVE  StepFrame(r)
<1>1. id' = id /\ final' = final
  BY DEF persist_run_transition
<1>2. PICK p : Store(r, p) /\ (Goto(r, next) \/ Abort(r, at, state) \/ Ignore(r, next))
  BY DEF persist_run_transition
<1> QED
  BY <1>1, <1>2, StoreFrame

\* The frame of persist_attempt_status.
LEMMA AttemptStatusFrame ==
    ASSUME TypeOK, NEW r \in Runs, pc[r] \in StagingLabels,
           NEW at, NEW status, NEW failure, NEW next \in OrdinaryLabels,
           persist_attempt_status(r, at, status, failure, next)
    PROVE  StepFrame(r)
<1>1. id' = id /\ final' = final
  BY DEF persist_attempt_status
<1>2. PICK p : Store(r, p) /\ (Goto(r, next) \/ Abort(r, at, life[r].state))
  BY DEF persist_attempt_status
<1> QED
  BY <1>1, <1>2, StoreFrame

\* An operation that leaves both directories alone and does not go on to
\* publication unchecked.
LEMMA QuietFrame ==
    ASSUME TypeOK, NEW r \in Runs, pc[r] \in StagingLabels, UNCHANGED <<id, staging, final>>,
           NEW l \in StagingLabels \cup RecoveryLabels \cup {"allocatedError", "crashed"},
           pc' = [pc EXCEPT ![r] = l],
           \/ l \in OrdinaryLabels
           \/ verify_evidence_bundle(staging[id[r]])
           \/ pc[r] = "checkDestination"
    PROVE  StepFrame(r)
<1>1. pc'[r] = l /\ \A q \in Runs \ {r} : pc'[q] = pc[q]
  BY DEF TypeOK
<1>2. Works(r)
  BY <1>1 DEF Works, OrdinaryLabels
<1> QED
  BY <1>1, <1>2 DEF StepFrame, Apart

\* Every step of a run stays within the frame.
LEMMA StepsAreFramed ==
    ASSUME TypeOK, NEW r \in Runs, Step(r)
    PROVE  StepFrame(r)
<1>1. pc \in [Runs -> Labels] /\ id[r] \in RunIds /\ staging \in [RunIds -> Dirs]
      /\ final \in [RunIds -> Dirs]
  BY DEF TypeOK, Labels
<1>2. \A state : RecoveryEntry(state) \in OrdinaryLabels \cap RecoveryLabels
  BY DEF RecoveryEntry, OrdinaryLabels, RecoveryLabels
<1>3. CASE Reject(r) \/ AllocateError(r)
  <2>1. PICK l \in {"rejected", "ioError"} : pc' = [pc EXCEPT ![r] = l]
    BY <1>3 DEF Reject, AllocateError, Goto
  <2>2. pc[r] = "start" /\ UNCHANGED <<id, staging, final>>
    BY <1>3 DEF Reject, AllocateError, memory
  <2> QED
    BY <1>1, <2>1, <2>2 DEF StepFrame, Apart, EndsUnallocated, EndLabels
<1>4. CASE Allocate(r)
  BY <1>1, <1>4 DEF Allocate, Goto, memory, StepFrame, Apart, Allocates
<1>5. CASE AllocateCrash(r)
  <2>1. /\ pc[r] = "start" /\ pc' = [pc EXCEPT ![r] = "crashed"]
        /\ UNCHANGED <<id, final>>
    BY <1>5 DEF AllocateCrash, Goto, memory
  <2>2. CASE staging' = staging
    BY <1>1, <2>1, <2>2 DEF StepFrame, Apart, EndsUnallocated, EndLabels
  <2>3. CASE /\ staging[id[r]].kind = "none"
             /\ staging' = [staging EXCEPT ![id[r]] = StagingDir(r)]
    BY <1>1, <2>1, <2>3 DEF StepFrame, Apart, Allocates
  <2> QED
    BY <1>5, <2>2, <2>3 DEF AllocateCrash
<1>6. CASE MakeAttemptDir(r)
  BY <1>6, FileStepFrame DEF MakeAttemptDir, StagingLabels, OrdinaryLabels
<1>7. CASE WriteExperiment(r)
  BY <1>7, FileStepFrame DEF WriteExperiment, StagingLabels, OrdinaryLabels
<1>8. CASE CreateEvents(r)
  BY <1>8, FileStepFrame DEF CreateEvents, StagingLabels, OrdinaryLabels
<1>9. CASE AppendCreated(r)
  BY <1>9, FileStepFrame DEF AppendCreated, StagingLabels, OrdinaryLabels
<1>10. CASE CreateMeasurements(r)
  BY <1>10, FileStepFrame DEF CreateMeasurements, StagingLabels, OrdinaryLabels
<1>11. CASE AppendMeasurement(r)
  BY <1>11, FileStepFrame DEF AppendMeasurement, StagingLabels, OrdinaryLabels
<1>12. CASE WritePlan(r)
  BY <1>12, FileStepFrame DEF WritePlan, WriteRecord, StagingLabels, OrdinaryLabels
<1>13. CASE SnapshotRun(r)
  BY <1>13, FileStepFrame DEF SnapshotRun, WriteRecord, StagingLabels, OrdinaryLabels
<1>14. CASE SnapshotAttempt(r)
  BY <1>14, FileStepFrame DEF SnapshotAttempt, WriteRecord, StagingLabels, OrdinaryLabels
<1>15. CASE WriteProvenance(r)
  BY <1>15, FileStepFrame DEF WriteProvenance, WriteRecord, StagingLabels, OrdinaryLabels
<1>16. CASE EnrichProvenance(r)
  BY <1>16, FileStepFrame DEF EnrichProvenance, WriteRecord, StagingLabels, OrdinaryLabels
<1>17. CASE WriteResources(r)
  BY <1>17, FileStepFrame DEF WriteResources, WriteRecord, StagingLabels, OrdinaryLabels
<1>18. CASE WriteValidity(r)
  BY <1>18, FileStepFrame DEF WriteValidity, WriteRecord, StagingLabels, OrdinaryLabels
<1>19. CASE WriteSummary(r)
  BY <1>19, FileStepFrame DEF WriteSummary, WriteRecord, StagingLabels, OrdinaryLabels
<1>20. CASE WriteManifest(r)
  BY <1>20, FileStepFrame DEF WriteManifest, WriteRecord, StagingLabels, OrdinaryLabels
<1>21. CASE ToPreparing(r)
  BY <1>21, RunTransitionFrame DEF ToPreparing, StagingLabels, OrdinaryLabels
<1>22. CASE ToRunning(r)
  BY <1>22, RunTransitionFrame DEF ToRunning, StagingLabels, OrdinaryLabels
<1>23. CASE ToCollecting(r)
  BY <1>23, RunTransitionFrame DEF ToCollecting, StagingLabels, OrdinaryLabels
<1>24. CASE ToFinalizing(r)
  BY <1>24, RunTransitionFrame DEF ToFinalizing, StagingLabels, OrdinaryLabels
<1>25. CASE ToTerminal(r)
  BY <1>25, RunTransitionFrame DEF ToTerminal, StagingLabels, OrdinaryLabels
<1>26. CASE RecoverFinalizing(r)
  BY <1>26, RunTransitionFrame DEF RecoverFinalizing, RecoveryLabels, OrdinaryLabels
<1>27. CASE RecoverFailed(r)
  BY <1>27, RunTransitionFrame DEF RecoverFailed, RecoveryLabels, OrdinaryLabels
<1>28. CASE AttemptPreparing(r)
  BY <1>28, AttemptStatusFrame DEF AttemptPreparing, StagingLabels, OrdinaryLabels
<1>29. CASE AttemptRunning(r)
  BY <1>29, AttemptStatusFrame DEF AttemptRunning, StagingLabels, OrdinaryLabels
<1>30. CASE AttemptTerminal(r)
  BY <1>30, AttemptStatusFrame DEF AttemptTerminal, StagingLabels, OrdinaryLabels
<1>31. CASE Execute(r)
  <2>1. PICK l \in {"enrichProvenance", "attemptTerminal", "crashed"} :
          pc' = [pc EXCEPT ![r] = l]
    BY <1>31 DEF Execute, Goto
  <2> QED
    BY <1>31, <2>1, QuietFrame DEF Execute, StagingLabels, EndLabels, OrdinaryLabels
<1>32. CASE MeasurementsRecorded(r)
  <2>1. PICK l \in {"toCollecting", "toFinalizing"} : pc' = [pc EXCEPT ![r] = l]
    BY <1>32 DEF MeasurementsRecorded, Goto
  <2> QED
    BY <1>32, <2>1, QuietFrame DEF MeasurementsRecorded, memory, StagingLabels, OrdinaryLabels
<1>33. CASE Checksum(r)
  <2>1. CASE /\ staging' = [staging EXCEPT ![id[r]] = Checksummed(@)]
             /\ Goto(r, "verify")
    <3>1. Checksummed(staging[id[r]]).kind = staging[id[r]].kind
          /\ Checksummed(staging[id[r]]).owner = staging[id[r]].owner
      BY <1>1 DEF Checksummed, Dirs
    <3> QED
      BY <1>33, <1>1, <2>1, <3>1
         DEF Checksum, Goto, memory, StepFrame, Apart, Works, StagingLabels
  <2>2. CASE /\ \E left \in HalfWritten(Payload(r), "sums") : Store(r, left)
             /\ Abort(r, "checksumming", life[r].state)
    <3>1. pc[r] \in StagingLabels \cup RecoveryLabels /\ id' = id /\ final' = final
      BY <1>33 DEF Checksum, memory, StagingLabels
    <3>2. "verify" \in OrdinaryLabels
      BY DEF OrdinaryLabels, StagingLabels
    <3> QED
      BY <2>2, <3>1, <3>2, StoreFrame
  <2> QED
    BY <1>33, <2>1, <2>2 DEF Checksum
<1>34. CASE Verify(r)
  <2>1. pc[r] \in StagingLabels /\ UNCHANGED <<id, staging, final>>
    BY <1>34 DEF Verify, memory, StagingLabels
  <2>2. CASE verify_evidence_bundle(staging[id[r]]) /\ Goto(r, "checkDestination")
    BY <2>1, <2>2, QuietFrame DEF Goto, StagingLabels
  <2>3. CASE FailAt(r, "verifying", life[r].state) \/ Abort(r, "verifying", life[r].state)
    <3>1. PICK l \in {RecoveryEntry(life[r].state), "crashed"} : pc' = [pc EXCEPT ![r] = l]
      BY <2>3 DEF FailAt, Abort
    <3>2. l \in OrdinaryLabels
      BY <1>2, <3>1 DEF OrdinaryLabels, EndLabels
    <3> QED
      BY <2>1, <3>1, <3>2, QuietFrame DEF OrdinaryLabels
  <2> QED
    BY <1>34, <2>2, <2>3 DEF Verify
<1>35. CASE CheckDestination(r)
  <2>1. pc[r] \in StagingLabels /\ pc[r] = "checkDestination" /\ UNCHANGED <<id, staging, final>>
    BY <1>35 DEF CheckDestination, memory, StagingLabels
  <2>2. PICK l \in {"publish", RecoveryEntry(life[r].state), "crashed"} :
          pc' = [pc EXCEPT ![r] = l]
    BY <1>35 DEF CheckDestination, FailAt, Goto
  <2>3. l \in StagingLabels \cup RecoveryLabels \cup {"allocatedError", "crashed"}
    BY <1>2, <2>2 DEF StagingLabels, EndLabels
  <2> QED
    BY <2>1, <2>2, <2>3, QuietFrame
<1>36. CASE Publish(r)
  <2>1. CASE /\ final[id[r]].kind \in {"none", "empty"}
             /\ final' = [final EXCEPT ![id[r]] = staging[id[r]]]
             /\ staging' = [staging EXCEPT ![id[r]] = NoDir]
             /\ \E label \in {"returned", "crashed"} : Goto(r, label)
    BY <1>36, <1>1, <2>1 DEF Publish, Goto, memory, StepFrame, Apart, Publishes
  <2>2. CASE /\ FailAt(r, "publishing", life[r].state) \/ Abort(r, "publishing", life[r].state)
             /\ UNCHANGED <<staging, final>>
    <3>1. PICK l \in {RecoveryEntry(life[r].state), "crashed"} : pc' = [pc EXCEPT ![r] = l]
      BY <2>2 DEF FailAt, Abort
    <3>2. l \in OrdinaryLabels
      BY <1>2, <3>1 DEF OrdinaryLabels, EndLabels
    <3>3. pc[r] \in StagingLabels /\ id' = id
      BY <1>36 DEF Publish, memory, StagingLabels
    <3> QED
      BY <2>2, <3>1, <3>2, <3>3, QuietFrame DEF OrdinaryLabels
  <2> QED
    BY <1>36, <2>1, <2>2 DEF Publish
<1>37. CASE RecoverRun(r)
  <2>1. pc[r] \in StagingLabels \cup RecoveryLabels /\ id' = id /\ final' = final
    BY <1>37 DEF RecoverRun, memory, RecoveryLabels
  <2>2. PICK p : Store(r, p) /\ (Goto(r, "recoverAttempt") \/ Ignore(r, "recoverAttempt"))
    BY <1>37 DEF RecoverRun
  <2>3. "recoverAttempt" \in OrdinaryLabels
    BY DEF OrdinaryLabels, RecoveryLabels, EndLabels
  <2> QED
    BY <2>1, <2>2, <2>3, StoreFrame
<1>38. CASE RecoverAttempt(r)
  <2>1. pc[r] \in StagingLabels \cup RecoveryLabels /\ id' = id /\ final' = final
    BY <1>38 DEF RecoverAttempt, memory, RecoveryLabels
  <2>2. PICK p : Store(r, p) /\ (Goto(r, "allocatedError") \/ Ignore(r, "allocatedError"))
    BY <1>38 DEF RecoverAttempt
  <2>3. "allocatedError" \in OrdinaryLabels
    BY DEF OrdinaryLabels, RecoveryLabels, EndLabels
  <2> QED
    BY <2>1, <2>2, <2>3, StoreFrame
<1> QED
  BY <1>3, <1>4, <1>5, <1>6, <1>7, <1>8, <1>9, <1>10, <1>11, <1>12, <1>13, <1>14, <1>15,
     <1>16, <1>17, <1>18, <1>19, <1>20, <1>21, <1>22, <1>23, <1>24, <1>25, <1>26, <1>27,
     <1>28, <1>29, <1>30, <1>31, <1>32, <1>33, <1>34, <1>35, <1>36, <1>37, <1>38 DEF
     Step

-----------------------------------------------------------------------------
(* The attempt's outcome is known from the moment it returns.              *)

\* Only Execute sets the output, and only Execute enters the labels after it.
LEMMA OutputKept ==
    ASSUME TypeOK, NEW r \in Runs, Step(r)
    PROVE  \/ Execute(r)
           \/ /\ output' = output
              /\ pc'[r] \in ExecutedLabels => pc[r] \in ExecutedLabels
<1> DEFINE Kept == /\ output' = output
                   /\ pc'[r] \in ExecutedLabels => pc[r] \in ExecutedLabels
<1>1. pc \in [Runs -> Labels]
  BY DEF TypeOK, Labels
<1>2. \A state : RecoveryEntry(state) \notin ExecutedLabels
  BY DEF RecoveryEntry, ExecutedLabels
<1>3. CASE Reject(r)
  BY <1>1, <1>2, <1>3 DEF Reject, Goto, Abort, FailAt, memory, ExecutedLabels
<1>4. CASE Allocate(r)
  BY <1>1, <1>2, <1>4 DEF Allocate, Goto, Abort, FailAt, memory, ExecutedLabels
<1>5. CASE AllocateError(r)
  BY <1>1, <1>2, <1>5 DEF AllocateError, Goto, Abort, FailAt, memory, ExecutedLabels
<1>6. CASE AllocateCrash(r)
  BY <1>1, <1>2, <1>6 DEF AllocateCrash, Goto, Abort, FailAt, memory, ExecutedLabels
<1>7. CASE MakeAttemptDir(r)
  BY <1>1, <1>2, <1>7 DEF MakeAttemptDir, FileStep, Goto, Abort, FailAt, memory,
     ExecutedLabels
<1>8. CASE WriteExperiment(r)
  BY <1>1, <1>2, <1>8 DEF WriteExperiment, FileStep, Goto, Abort, FailAt, memory,
     ExecutedLabels
<1>9. CASE WritePlan(r)
  BY <1>1, <1>2, <1>9 DEF WritePlan, WriteRecord, FileStep, Goto, Abort, FailAt, memory,
     ExecutedLabels
<1>10. CASE CreateEvents(r)
  BY <1>1, <1>2, <1>10 DEF CreateEvents, FileStep, Goto, Abort, FailAt, memory,
     ExecutedLabels
<1>11. CASE AppendCreated(r)
  BY <1>1, <1>2, <1>11 DEF AppendCreated, FileStep, Goto, Abort, FailAt, memory,
     ExecutedLabels
<1>12. CASE CreateMeasurements(r)
  BY <1>1, <1>2, <1>12 DEF CreateMeasurements, FileStep, Goto, Abort, FailAt, memory,
     ExecutedLabels
<1>13. CASE SnapshotRun(r)
  BY <1>1, <1>2, <1>13 DEF SnapshotRun, WriteRecord, FileStep, Goto, Abort, FailAt,
     memory, ExecutedLabels
<1>14. CASE SnapshotAttempt(r)
  BY <1>1, <1>2, <1>14 DEF SnapshotAttempt, WriteRecord, FileStep, Goto, Abort, FailAt,
     memory, ExecutedLabels
<1>15. CASE ToPreparing(r)
  BY <1>1, <1>2, <1>15 DEF ToPreparing, persist_run_transition, Goto, Abort, FailAt,
     ExecutedLabels
<1>16. CASE AttemptPreparing(r)
  BY <1>1, <1>2, <1>16 DEF AttemptPreparing, persist_attempt_status, Goto, Abort,
     FailAt, ExecutedLabels
<1>17. CASE WriteProvenance(r)
  BY <1>1, <1>2, <1>17 DEF WriteProvenance, WriteRecord, FileStep, Goto, Abort, FailAt,
     memory, ExecutedLabels
<1>18. CASE ToRunning(r)
  BY <1>1, <1>2, <1>18 DEF ToRunning, persist_run_transition, Goto, Abort, FailAt,
     ExecutedLabels
<1>19. CASE AttemptRunning(r)
  BY <1>1, <1>2, <1>19 DEF AttemptRunning, persist_attempt_status, Goto, Abort, FailAt,
     ExecutedLabels
<1>20. CASE EnrichProvenance(r)
  BY <1>1, <1>2, <1>20 DEF EnrichProvenance, WriteRecord, FileStep, Goto, Abort, FailAt,
     memory, ExecutedLabels
<1>21. CASE AttemptTerminal(r)
  BY <1>1, <1>2, <1>21 DEF AttemptTerminal, persist_attempt_status, Goto, Abort, FailAt,
     ExecutedLabels
<1>22. CASE WriteResources(r)
  BY <1>1, <1>2, <1>22 DEF WriteResources, WriteRecord, FileStep, Goto, Abort, FailAt,
     memory, ExecutedLabels
<1>23. CASE AppendMeasurement(r)
  BY <1>1, <1>2, <1>23 DEF AppendMeasurement, FileStep, Goto, Abort, FailAt, memory,
     ExecutedLabels
<1>24. CASE MeasurementsRecorded(r)
  BY <1>1, <1>2, <1>24 DEF MeasurementsRecorded, Goto, Abort, FailAt, memory,
     ExecutedLabels
<1>25. CASE ToCollecting(r)
  BY <1>1, <1>2, <1>25 DEF ToCollecting, persist_run_transition, Goto, Abort, FailAt,
     ExecutedLabels
<1>26. CASE ToFinalizing(r)
  BY <1>1, <1>2, <1>26 DEF ToFinalizing, persist_run_transition, Goto, Abort, FailAt,
     ExecutedLabels
<1>27. CASE ToTerminal(r)
  BY <1>1, <1>2, <1>27 DEF ToTerminal, persist_run_transition, Goto, Abort, FailAt,
     ExecutedLabels
<1>28. CASE WriteValidity(r)
  BY <1>1, <1>2, <1>28 DEF WriteValidity, WriteRecord, FileStep, Goto, Abort, FailAt,
     memory, ExecutedLabels
<1>29. CASE WriteSummary(r)
  BY <1>1, <1>2, <1>29 DEF WriteSummary, WriteRecord, FileStep, Goto, Abort, FailAt,
     memory, ExecutedLabels
<1>30. CASE WriteManifest(r)
  BY <1>1, <1>2, <1>30 DEF WriteManifest, WriteRecord, FileStep, Goto, Abort, FailAt,
     memory, ExecutedLabels
<1>31. CASE Checksum(r)
  BY <1>1, <1>2, <1>31 DEF Checksum, Goto, Abort, FailAt, memory, ExecutedLabels
<1>32. CASE Verify(r)
  BY <1>1, <1>2, <1>32 DEF Verify, Goto, Abort, FailAt, memory, ExecutedLabels
<1>33. CASE CheckDestination(r)
  BY <1>1, <1>2, <1>33 DEF CheckDestination, Goto, Abort, FailAt, memory, ExecutedLabels
<1>34. CASE Publish(r)
  BY <1>1, <1>2, <1>34 DEF Publish, Goto, Abort, FailAt, memory, ExecutedLabels
<1>35. CASE RecoverFinalizing(r)
  BY <1>1, <1>2, <1>35 DEF RecoverFinalizing, persist_run_transition, Goto, Ignore,
     ExecutedLabels
<1>36. CASE RecoverFailed(r)
  BY <1>1, <1>2, <1>36 DEF RecoverFailed, persist_run_transition, Goto, Ignore,
     ExecutedLabels
<1>37. CASE RecoverRun(r)
  BY <1>1, <1>2, <1>37 DEF RecoverRun, Goto, Ignore, memory, ExecutedLabels
<1>38. CASE RecoverAttempt(r)
  BY <1>1, <1>2, <1>38 DEF RecoverAttempt, Goto, Ignore, memory, ExecutedLabels
<1> QED
  BY <1>3, <1>4, <1>5, <1>6, <1>7, <1>8, <1>9, <1>10, <1>11, <1>12, <1>13, <1>14, <1>15,
     <1>16, <1>17, <1>18, <1>19, <1>20, <1>21, <1>22, <1>23, <1>24, <1>25, <1>26, <1>27,
     <1>28, <1>29, <1>30, <1>31, <1>32, <1>33, <1>34, <1>35, <1>36, <1>37, <1>38 DEF
     Step

\* OutputKnown is preserved by every step of a run.
LEMMA OutputKnownStep ==
    ASSUME TypeOK, OutputKnown, NEW r \in Runs, Step(r)
    PROVE  OutputKnown'
<1>1. \A q \in Runs \ {r} : pc'[q] = pc[q]
  BY StepsAreFramed DEF StepFrame, Apart
<1>2. CASE Execute(r)
  <2>1. plan[r] \in PlanSet
    BY ConstantsAssumption DEF TypeOK
  <2>2. \A o \in Outputs(plan[r]) : o.terminal \in TerminalStates
    BY <2>1, OutputsType
  <2>3. pc'[r] \in ExecutedLabels => output'[r] \in Outputs(plan[r])
    BY <1>2 DEF Execute, Goto, TypeOK, ExecutedLabels
  <2>4. \A q \in Runs \ {r} : output'[q] = output[q]
    BY <1>2 DEF Execute, TypeOK
  <2> QED
    BY <1>1, <2>2, <2>3, <2>4 DEF OutputKnown
<1>3. CASE /\ output' = output
           /\ pc'[r] \in ExecutedLabels => pc[r] \in ExecutedLabels
  BY <1>1, <1>3 DEF OutputKnown
<1> QED
  BY <1>2, <1>3, OutputKept

-----------------------------------------------------------------------------
(* Theorems.                                                               *)

\* A third party only ever changes the kind of a free place.
LEMMA ForeignFrame ==
    ASSUME TypeOK, NEW i \in RunIds, ForeignCreate(i)
    PROVE  /\ UNCHANGED <<pc, id, plan, life, runRec, attRec, output, phase, staging, faults>>
           /\ final[i].kind = "none"
           /\ \E kind \in {"empty", "foreign"} : final'[i] = [final[i] EXCEPT !.kind = kind]
           /\ \A j \in RunIds \ {i} : final'[j] = final[j]
           /\ final' \in [RunIds -> Dirs]
<1>1. final \in [RunIds -> Dirs] /\ final[i] \in Dirs
  BY DEF TypeOK
<1>2. PICK kind \in {"empty", "foreign"} : final' = [final EXCEPT ![i].kind = kind]
  BY DEF ForeignCreate
<1>3. [final[i] EXCEPT !.kind = kind] \in Dirs
  BY <1>1, <1>2 DEF Dirs
<1>4. final' \in [RunIds -> Dirs]
  BY <1>1, <1>2, <1>3
<1> QED
  BY <1>1, <1>2, <1>4 DEF ForeignCreate, memory

\* Type correctness of the run pipeline: every value the pipeline keeps in
\* memory or on disk has its declared type, however its operations fail; the
\* statuses it writes to attempt.json, summary.json and manifest.json are
\* terminal ones because the attempt's outcome is known by then.
THEOREM TypeCorrect == Spec => [](TypeOK /\ OutputKnown)
<1>1. Init => TypeOK /\ OutputKnown
  <2> SUFFICES ASSUME Init PROVE TypeOK /\ OutputKnown
    OBVIOUS
  <2>1. NewLifecycle \in [state : RunStates, next : Nat]
    BY DEF NewLifecycle, RunStates
  <2>2. [status |-> "created", failure |-> "none"] \in
          [status : RunStates \cap AttemptStatuses, failure : FailureCodes]
    BY DEF RunStates, AttemptStatuses, FailureCodes
  <2>3. NoOutput \in OutputSet
    BY DEF NoOutput, OutputSet
  <2>4. NoDir \in Dirs
    BY NoDirType
  <2>5. MaxFaults \in Nat
    BY ConstantsAssumption
  <2>6. TypeOK
    BY <2>1, <2>2, <2>3, <2>4, <2>5 DEF Init, TypeOK, Phases
  <2>7. OutputKnown
    BY DEF Init, OutputKnown, ExecutedLabels
  <2> QED
    BY <2>6, <2>7
<1>2. TypeOK /\ OutputKnown /\ [Next]_vars => TypeOK' /\ OutputKnown'
  <2> SUFFICES ASSUME TypeOK, OutputKnown, [Next]_vars PROVE TypeOK' /\ OutputKnown'
    OBVIOUS
  <2>1. ASSUME NEW r \in Runs, Step(r) PROVE TypeOK' /\ OutputKnown'
    BY <2>1, InitializingType, RunningType, FinishingType, OutputKnownStep DEF Step
  <2>2. ASSUME NEW i \in RunIds, ForeignCreate(i) PROVE TypeOK' /\ OutputKnown'
    BY <2>2, ForeignFrame DEF TypeOK, OutputKnown
  <2>3. CASE UNCHANGED vars
    BY <2>3 DEF vars, TypeOK, OutputKnown
  <2> QED
    BY <2>1, <2>2, <2>3 DEF Next, Terminated
<1> QED
  BY <1>1, <1>2, PTL DEF Spec

-----------------------------------------------------------------------------
(* The two directories.                                                    *)

\* A run that reached publication holds a staging directory that verifies.
VerifiedFirst ==
    \A r \in Runs : pc[r] \in {"checkDestination", "publish"} =>
        verify_evidence_bundle(staging[id[r]])

\* A bundle under runs/ verifies where it stands.
PublishedVerifies ==
    \A i \in RunIds : final[i].kind = "bundle" => verify_evidence_bundle(final[i])

\* A place that holds no bundle has no manifest and no owner.
FreePlaces ==
    \A i \in RunIds : final[i].kind # "bundle" =>
        final[i].owner = {} /\ final[i].payload = EmptyPayload

DirInv == StagingIsExclusive /\ VerifiedFirst /\ PublishedVerifies /\ FreePlaces

\* The directory invariant is preserved by every step of a run: exclusivity
\* keeps the others out of the directory between its verification and its
\* rename.
LEMMA DirInvStep ==
    ASSUME TypeOK, DirInv, NEW r \in Runs, Step(r)
    PROVE  DirInv'
<1>1. StepFrame(r)
  BY StepsAreFramed
<1>2. /\ id' = id /\ id \in [Runs -> RunIds]
      /\ \A q \in Runs \ {r} : pc'[q] = pc[q]
      /\ \A i \in RunIds \ {id[r]} : staging'[i] = staging[i] /\ final'[i] = final[i]
  BY <1>1 DEF StepFrame, Apart, TypeOK
<1> DEFINE Busy(q) == pc[q] \in StagingLabels \cup RecoveryLabels
<1>3. \A q \in Runs : Busy(q) => staging[id[q]].kind = "bundle" /\ staging[id[q]].owner = {q}
  BY DEF DirInv, StagingIsExclusive, Staging, Recovering
<1>4. ASSUME NEW q \in Runs \ {r}, Busy(q), Busy(r) \/ staging[id[r]].kind = "none"
      PROVE  id[q] # id[r]
  BY <1>3, <1>4
<1>5. CASE EndsUnallocated(r)
  <2>1. StagingIsExclusive' /\ VerifiedFirst'
    BY <1>2, <1>5 DEF DirInv, StagingIsExclusive, VerifiedFirst, Staging, Recovering,
       EndsUnallocated, EndLabels, StagingLabels, RecoveryLabels
  <2> QED
    BY <1>5, <2>1 DEF DirInv, PublishedVerifies, FreePlaces, EndsUnallocated
<1>6. CASE Allocates(r)
  <2>1. StagingDir(r).kind = "bundle" /\ StagingDir(r).owner = {r}
    BY DEF StagingDir, NoDir
  <2>2. \A q \in Runs \ {r} : Busy(q) => staging'[id[q]] = staging[id[q]]
    BY <1>2, <1>4, <1>6 DEF Allocates
  <2>3. StagingIsExclusive'
    BY <1>2, <1>6, <2>1, <2>2
       DEF DirInv, StagingIsExclusive, Staging, Recovering, Allocates
  <2>4. VerifiedFirst'
    BY <1>2, <1>6, <2>2 DEF DirInv, VerifiedFirst, Allocates, StagingLabels
  <2> QED
    BY <1>6, <2>3, <2>4 DEF DirInv, PublishedVerifies, FreePlaces, Allocates
<1>7. CASE Works(r)
  <2>1. Busy(r)
    BY <1>7 DEF Works
  <2>2. \A q \in Runs \ {r} : Busy(q) => staging'[id[q]] = staging[id[q]]
    BY <1>2, <1>4, <2>1
  <2>3. StagingIsExclusive'
    BY <1>2, <1>3, <1>7, <2>1, <2>2
       DEF DirInv, StagingIsExclusive, Staging, Recovering, Works
  <2>4. VerifiedFirst'
    BY <1>2, <1>7, <2>2 DEF DirInv, VerifiedFirst, Works, StagingLabels
  <2> QED
    BY <1>7, <2>3, <2>4 DEF DirInv, PublishedVerifies, FreePlaces, Works
<1>8. CASE Publishes(r)
  <2>1. Busy(r) /\ pc[r] = "publish"
    BY <1>8 DEF Publishes, StagingLabels
  <2>2. \A q \in Runs \ {r} : Busy(q) => staging'[id[q]] = staging[id[q]]
    BY <1>2, <1>4, <2>1
  <2>3. StagingIsExclusive' /\ VerifiedFirst'
    BY <1>2, <1>8, <2>2 DEF DirInv, StagingIsExclusive, VerifiedFirst, Staging, Recovering,
       Publishes, StagingLabels, RecoveryLabels
  <2>4. final'[id[r]].kind = "bundle" /\ verify_evidence_bundle(final'[id[r]])
    BY <1>3, <1>8, <2>1 DEF DirInv, VerifiedFirst, Publishes
  <2>5. PublishedVerifies' /\ FreePlaces'
    BY <1>2, <2>4 DEF DirInv, PublishedVerifies, FreePlaces
  <2> QED
    BY <2>3, <2>5 DEF DirInv
<1> QED
  BY <1>1, <1>5, <1>6, <1>7, <1>8 DEF StepFrame

\* The directory invariant is preserved by third parties.
LEMMA DirInvForeign ==
    ASSUME TypeOK, DirInv, NEW i \in RunIds, ForeignCreate(i)
    PROVE  DirInv'
<1>1. StagingIsExclusive' /\ VerifiedFirst'
  BY ForeignFrame DEF DirInv, StagingIsExclusive, VerifiedFirst, Staging, Recovering
<1>2. final[i] \in Dirs
  BY DEF TypeOK
<1>3. /\ final[i].kind = "none"
      /\ \E kind \in {"empty", "foreign"} : final'[i] = [final[i] EXCEPT !.kind = kind]
      /\ \A j \in RunIds \ {i} : final'[j] = final[j]
  BY ForeignFrame
<1>4. /\ final'[i].kind \in {"empty", "foreign"}
      /\ final'[i].owner = final[i].owner /\ final'[i].payload = final[i].payload
  BY <1>2, <1>3 DEF Dirs
<1>5. \A j \in RunIds : \/ final'[j] = final[j]
                          \/ /\ final'[j].kind # "bundle" /\ final[j].kind # "bundle"
                             /\ final'[j].owner = final[j].owner
                             /\ final'[j].payload = final[j].payload
  BY <1>3, <1>4
<1>6. PublishedVerifies'
  BY <1>5 DEF DirInv, PublishedVerifies
<1>7. FreePlaces'
  BY <1>5 DEF DirInv, FreePlaces
<1> QED
  BY <1>1, <1>6, <1>7 DEF DirInv

\* The inductive invariant of the directories, from which the theorems below
\* follow.
THEOREM DirectoriesInvariant == Spec => []DirInv
<1>1. Init => DirInv
  BY DEF Init, DirInv, StagingIsExclusive, VerifiedFirst, PublishedVerifies, FreePlaces,
     Staging, Recovering, StagingLabels, RecoveryLabels, NoDir
<1>2. TypeOK /\ DirInv /\ [Next]_vars => DirInv'
  <2> SUFFICES ASSUME TypeOK, DirInv, [Next]_vars PROVE DirInv'
    OBVIOUS
  <2>1. CASE UNCHANGED vars
    BY <2>1 DEF vars, DirInv, StagingIsExclusive, VerifiedFirst, PublishedVerifies,
       FreePlaces, Staging, Recovering
  <2> QED
    BY <2>1, DirInvStep, DirInvForeign DEF Next, Terminated
<1> QED
  BY <1>1, <1>2, TypeCorrect, PTL DEF Spec

\* Two runs never write into one staging directory, for any number of runs
\* and identities: the exclusive create_dir in run_experiment_with_services is
\* enough, whatever else fails.
THEOREM StagingExclusive == Spec => []StagingIsExclusive
<1>1. DirInv => StagingIsExclusive
  BY DEF DirInv
<1> QED
  BY <1>1, DirectoriesInvariant, PTL

\* Everything under runs/ that is a bundle was verified and still verifies:
\* nothing writes between Verify and the rename, or after it.
THEOREM PublishedVerified == Spec => []PublishedVerifies
<1>1. DirInv => PublishedVerifies
  BY DEF DirInv
<1> QED
  BY <1>1, DirectoriesInvariant, PTL

\* What one step does to the places under runs/.
LEMMA FinalStep ==
    ASSUME TypeOK, DirInv, [Next]_vars, NEW i \in RunIds,
           final[i].kind \in {"bundle", "foreign"}
    PROVE  final'[i] = final[i]
<1>1. ASSUME NEW r \in Runs, Step(r) PROVE final'[i] = final[i]
  BY <1>1, StepsAreFramed
     DEF StepFrame, Apart, EndsUnallocated, Allocates, Works, Publishes
<1>2. ASSUME NEW j \in RunIds, ForeignCreate(j) PROVE final'[i] = final[i]
  BY <1>2, ForeignFrame
<1>3. CASE UNCHANGED vars
  BY <1>3 DEF vars
<1> QED
  BY <1>1, <1>2, <1>3 DEF Next, Terminated

\* Publication never replaces content: rename(2) and the check before it let
\* no run change a bundle or a third party's directory under runs/.
THEOREM NothingReplaced == Spec => ContentNeverReplaced
<1> DEFINE Kept == \A i \in RunIds :
                     final[i].kind \in {"bundle", "foreign"} => final'[i] = final[i]
<1>1. TypeOK /\ DirInv /\ [Next]_vars => Kept
  <2> SUFFICES ASSUME TypeOK, DirInv, [Next]_vars,
                      NEW i \in RunIds, final[i].kind \in {"bundle", "foreign"}
               PROVE  final'[i] = final[i]
    OBVIOUS
  <2> QED
    BY FinalStep
<1>2. ContentNeverReplaced <=> [][Kept]_vars
  BY DEF ContentNeverReplaced
<1> HIDE DEF Kept
<1> QED
  BY <1>1, <1>2, TypeCorrect, DirectoriesInvariant, PTL DEF Spec

-----------------------------------------------------------------------------
(* The pipeline implements Publication.                                    *)

\* A step of a run is, to a reader of runs/, the publication of one finished
\* bundle, the end of the run without one, or nothing.
LEMMA StepRefines ==
    ASSUME TypeOK, DirInv, NEW r \in Runs, Step(r)
    PROVE  \/ \E i \in RunIds : Shelf!Publish(r, i)
           \/ Shelf!GiveUp(r)
           \/ UNCHANGED <<[q \in Runs |-> Ending(q)], [i \in RunIds |-> Shelved(final[i])]>>
<1> DEFINE ending == [q \in Runs |-> Ending(q)]
           shelf == [i \in RunIds |-> Shelved(final[i])]
<1>1. StepFrame(r)
  BY StepsAreFramed
<1>2. /\ id[r] \in RunIds
      /\ \A q \in Runs \ {r} : pc'[q] = pc[q]
      /\ \A i \in RunIds \ {id[r]} : final'[i] = final[i]
  BY <1>1 DEF StepFrame, Apart, TypeOK
<1>3. \A q \in Runs \ {r} : Ending(q)' = Ending(q)
  BY <1>2 DEF Ending
<1>4. ending' = [ending EXCEPT ![r] = Ending(r)']
  BY <1>3
<1>5. ASSUME UNCHANGED final PROVE shelf' = shelf
  BY <1>5
<1>6. CASE EndsUnallocated(r)
  <2>1. Ending(r) = "pending" /\ Ending(r)' = "gone"
    BY <1>6 DEF EndsUnallocated, Ending, EndLabels
  <2>2. UNCHANGED final
    BY <1>6 DEF EndsUnallocated
  <2> QED
    BY <1>4, <1>5, <2>1, <2>2 DEF Shelf!GiveUp
<1>7. CASE Allocates(r) \/ Works(r)
  <2>1. Ending(r) = "pending" /\ Ending(r)' \in {"pending", "gone"}
    BY <1>7 DEF Allocates, Works, Ending, EndLabels, StagingLabels, RecoveryLabels
  <2>2. UNCHANGED final
    BY <1>7 DEF Allocates, Works
  <2>3. ending[r] = "pending"
    BY <2>1
  <2>4. CASE Ending(r)' = "gone"
    BY <1>4, <1>5, <2>2, <2>3, <2>4 DEF Shelf!GiveUp
  <2>5. CASE Ending(r)' = "pending"
    <3>1. ending' = ending
      BY <1>4, <2>3, <2>5
    <3> QED
      BY <1>5, <2>2, <3>1
  <2> QED
    BY <2>1, <2>4, <2>5
<1>8. CASE Publishes(r)
  <2>1. Ending(r) = "pending" /\ Ending(r)' \in {"reported", "gone"}
    BY <1>8 DEF Publishes, Ending, EndLabels
  <2>2. /\ staging[id[r]].kind = "bundle" /\ staging[id[r]].owner = {r}
        /\ verify_evidence_bundle(staging[id[r]])
    BY <1>8 DEF Publishes, DirInv, StagingIsExclusive, VerifiedFirst, Staging, StagingLabels
  <2>3. staging[id[r]].payload.manifest.status \in TerminalStates
    BY <2>2 DEF verify_evidence_bundle
  <2> DEFINE s == staging[id[r]].payload.manifest.status
  <2>4. Shelved(final'[id[r]]) = [kind |-> "bundle", owner |-> {r}, status |-> s]
    BY <1>8, <2>2 DEF Publishes, Shelved
  <2>5. shelf' = [shelf EXCEPT ![id[r]] = [kind |-> "bundle", owner |-> {r}, status |-> s]]
    <3>1. \A i \in RunIds \ {id[r]} : Shelved(final'[i]) = Shelved(final[i])
      BY <1>2
    <3> QED
      BY <1>2, <2>4, <3>1
  <2>6. shelf[id[r]].kind \in {"none", "empty"}
    BY <1>2, <1>8 DEF Publishes, Shelved
  <2>7. ending[r] = "pending"
        /\ \E e \in {"reported", "gone"} : ending' = [ending EXCEPT ![r] = e]
    BY <1>4, <2>1
  <2>8. Shelf!Publish(r, id[r])
    <3> HIDE DEF ending, shelf, s
    <3> QED
      BY <2>3, <2>5, <2>6, <2>7 DEF Shelf!Publish, ending, shelf, s
  <2> QED
    BY <1>2, <2>8
<1> QED
  BY <1>1, <1>6, <1>7, <1>8 DEF StepFrame

\* A directory made by a third party is one that occupies its place.
LEMMA ForeignRefines ==
    ASSUME TypeOK, DirInv, NEW i \in RunIds, ForeignCreate(i)
    PROVE  Shelf!Occupy(i)
<1> DEFINE shelf == [j \in RunIds |-> Shelved(final[j])]
<1>1. /\ final[i].kind = "none" /\ final[i] \in Dirs /\ pc' = pc
      /\ \A j \in RunIds \ {i} : final'[j] = final[j]
  BY ForeignFrame DEF TypeOK
<1>2. PICK kind \in {"empty", "foreign"} : final'[i] = [final[i] EXCEPT !.kind = kind]
  BY ForeignFrame
<1>3. Shelved(final'[i]) = [Shelved(final[i]) EXCEPT !.kind = kind]
  BY <1>1, <1>2 DEF Shelved, Dirs
<1>4. shelf' = [shelf EXCEPT ![i].kind = kind]
  <2>1. \A j \in RunIds \ {i} : Shelved(final'[j]) = Shelved(final[j])
    BY <1>1
  <2> QED
    BY <1>3, <2>1
<1>5. shelf[i].kind = "none"
  BY <1>1 DEF Shelved
<1>6. [q \in Runs |-> Ending(q)]' = [q \in Runs |-> Ending(q)]
  BY <1>1 DEF Ending
<1> QED
  BY <1>4, <1>5, <1>6 DEF Shelf!Occupy

\* The pipeline implements its abstract specification: whatever I/O operation
\* fails and wherever a process dies, a reader of runs/ sees each run publish
\* one finished bundle in one step or none at all.
THEOREM Implementation == Spec => ImplementsPublication
<1> DEFINE view == <<[r \in Runs |-> Ending(r)], [i \in RunIds |-> Shelved(final[i])]>>
<1>1. Init => Shelf!Init
  <2> SUFFICES ASSUME Init PROVE Shelf!Init
    OBVIOUS
  <2>1. \A r \in Runs : Ending(r) = "pending"
    BY DEF Init, Ending, EndLabels
  <2>2. Shelved(NoDir) = [kind |-> "none", owner |-> {}, status |-> "absent"]
    BY DEF Shelved, NoDir, EmptyPayload, NoVerdict
  <2>3. \A i \in RunIds : Shelved(final[i]) = [kind |-> "none", owner |-> {}, status |-> "absent"]
    BY <2>2 DEF Init
  <2> QED
    BY <2>1, <2>3 DEF Shelf!Init, Shelf!Empty
<1>2. TypeOK /\ DirInv /\ [Next]_vars => [Shelf!Next]_view
  <2> SUFFICES ASSUME TypeOK, DirInv, [Next]_vars PROVE [Shelf!Next]_view
    OBVIOUS
  <2>1. ASSUME NEW r \in Runs, Step(r) PROVE [Shelf!Next]_view
    BY <2>1, StepRefines DEF Shelf!Next, Shelf!Finish
  <2>2. ASSUME NEW i \in RunIds, ForeignCreate(i) PROVE [Shelf!Next]_view
    BY <2>2, ForeignRefines DEF Shelf!Next
  <2>3. CASE UNCHANGED vars
    <3>1. UNCHANGED view
      BY <2>3 DEF vars, Ending
    <3> QED
      BY <3>1
  <2> QED
    BY <2>1, <2>2, <2>3 DEF Next, Terminated
<1> QED
  BY <1>1, <1>2, TypeCorrect, DirectoriesInvariant, PTL
     DEF Spec, ImplementsPublication, Shelf!Spec

-----------------------------------------------------------------------------
(* The invariant, as predicates on what one run keeps.                     *)

\* JournalIsOrdered, of one journal.
Ordered(lines) ==
    \A j, k \in 1..Len(lines) : j < k /\ lines[j].whole /\ lines[k].whole =>
        /\ lines[j].value.seq < lines[k].value.seq
        /\ lines[j].value.to \notin TerminalStates

\* The next event of the lifecycle comes after every event on disk, and no
\* terminal event is there before the lifecycle is terminal.
Behind(lines, lifecycle) ==
    \A k \in 1..Len(lines) : lines[k].whole =>
        /\ lines[k].value.seq < lifecycle.next
        /\ lines[k].value.to \in TerminalStates => lifecycle.state \in TerminalStates

\* RunJsonBackedByJournal, of one status; an event on a line that is still open
\* is not safe, since the next append would spoil it.
Backed(journal, status) ==
    status \notin {"absent", "created"} =>
        \E k \in 1..Len(journal.lines) :
            \/ /\ journal.lines[k].whole
               /\ journal.lines[k].value.to = status
               /\ journal.open => k # Len(journal.lines)
            \/ \E event \in journal.lines[k].joined : event.to = status

\* AttemptNeverRewritten, of one attempt.json.
Forward(now, then) ==
    /\ AttemptRank(now.status) <= AttemptRank(then.status)
    /\ now.status \in TerminalStates => then = now

\* What holds of a staging directory and its run's memory whatever failed.
Sane(payload, lifecycle, run, attempt) ==
    /\ Ordered(payload.journal.lines)
    /\ Behind(payload.journal.lines, lifecycle)
    /\ payload.journal.open => payload.journal.lines # <<>>
    /\ Backed(payload.journal, payload.run.status)
    /\ Backed(payload.journal, run.status)
    /\ Forward(payload.attempt, attempt)

\* The labels of a run that nothing has disturbed, by what was written before.
BeforeJournal == {"makeAttemptDir", "writeExperiment", "writePlan", "createEvents", "appendCreated"}
BeforeRunJson == BeforeJournal \cup {"createMeasurements", "snapshotRun"}
BeforeAttemptJson == BeforeRunJson \cup {"snapshotAttempt"}
AttemptCreated == BeforeAttemptJson \cup {"toPreparing", "attemptPreparing"}
AttemptPrepared == {"writeProvenance", "toRunning", "attemptRunning"}
AttemptRuns == {"execute", "enrichProvenance", "attemptTerminal"}
Closed == {"checksum", "verify", "checkDestination", "publish"}
RunOver == {"writeValidity", "writeSummary", "writeManifest"} \cup Closed
AttemptOver == {"writeResources", "appendMeasurements", "toCollecting", "toFinalizing", "toTerminal"}
               \cup RunOver

Fresh == [status |-> "created", failure |-> "none"]

\* The attempt record at a label.
AttemptAt(label, result) ==
    IF label \in AttemptCreated THEN Fresh
    ELSE IF label \in AttemptPrepared THEN [status |-> "preparing", failure |-> "none"]
    ELSE IF label \in AttemptRuns THEN [status |-> "running", failure |-> "none"]
    ELSE [status |-> result.terminal, failure |-> result.failure]

\* The journal of an undisturbed run: a chain up to the present state.
JournalAt(label, journal, lifecycle, failure) ==
    /\ ~journal.open
    /\ label \in BeforeJournal => journal.lines = <<>> /\ lifecycle = NewLifecycle
    /\ label \notin BeforeJournal =>
          /\ journal.lines # <<>> /\ Chained(journal.lines)
          /\ lifecycle.next = Len(journal.lines) + 1
          /\ LastEvent(journal.lines).to = lifecycle.state
          /\ LastEvent(journal.lines).failure = failure

\* What an undisturbed run has on disk and in memory at a label.
OnCourse(label, payload, lifecycle, run, attempt, result, verdict) ==
    /\ payload.tmp = {}
    /\ JournalAt(label, payload.journal, lifecycle, run.failure)
    /\ run = [status |-> lifecycle.state,
              failure |-> IF label \in RunOver THEN result.failure ELSE "none"]
    /\ payload.run = IF label \in BeforeRunJson THEN NoRecord ELSE run
    /\ attempt = AttemptAt(label, result)
    /\ payload.attempt = IF label \in BeforeAttemptJson THEN NoRecord ELSE attempt
    /\ label \in Closed => payload.manifest = verdict

Verdict(r) == [status |-> output[r].terminal, validity |-> Validity(r)]

SaneRun(r) == Sane(Payload(r), life[r], runRec[r], attRec[r])

RunOnCourse(r) ==
    OnCourse(pc[r], Payload(r), life[r], runRec[r], attRec[r], output[r], Verdict(r))

\* The part of PublishedIsComplete that the verifier does not look at.
Complete(payload) ==
    /\ payload.tmp = {}
    /\ payload.journal.lines # <<>>
    /\ Chained(payload.journal.lines)
    /\ LastEvent(payload.journal.lines).to = payload.manifest.status
    /\ LastEvent(payload.journal.lines).failure = payload.run.failure
    /\ payload.run.failure = payload.attempt.failure

Shown(payload) ==
    Ordered(payload.journal.lines) /\ Backed(payload.journal, payload.run.status)

RecordInv ==
    /\ \A r \in Runs : pc[r] = "start" =>
          life[r] = NewLifecycle /\ runRec[r] = Fresh /\ attRec[r] = Fresh
    /\ \A r \in Runs : Staging(r) => RunOnCourse(r)
    /\ \A r \in Runs : Recovering(r) => SaneRun(r)
    /\ \A i \in RunIds : Shown(staging[i].payload) /\ Shown(final[i].payload)
    /\ \A i \in RunIds : final[i].kind = "bundle" => Complete(final[i].payload)

\* Who owns what, by how the run ended.
OwnerInv ==
    /\ \A r \in Runs : pc[r] = "returned" =>
          OwnedBy(r, final[id[r]]) /\ final[id[r]].payload.manifest = Verdict(r)
    /\ \A r \in Runs : pc[r] = "allocatedError" => OwnedBy(r, staging[id[r]])
    /\ \A r \in Runs, i \in RunIds : OwnedBy(r, final[i]) =>
          i = id[r] /\ pc[r] \in {"returned", "crashed"}
    /\ \A r \in Runs, i \in RunIds : OwnedBy(r, staging[i]) =>
          i = id[r] /\ pc[r] \in StagingLabels \cup RecoveryLabels \cup {"allocatedError", "crashed"}

-----------------------------------------------------------------------------
(* Journals.                                                               *)

\* The lines that append_json_line leaves, finished or torn.
LEMMA AppendedLines ==
    ASSUME NEW j \in Lines(Events), NEW v \in Events, j.open => j.lines # <<>>,
           NEW t \in TornLine(j, v) \cup {AppendLine(j, v)}
    PROVE  /\ \/ t = j
              \/ j.open /\ \E records : t.lines = Spoiled(j.lines, records)
              \/ /\ ~j.open
                 /\ \E w \in BOOLEAN :
                       t.lines = Append(j.lines, [whole |-> w, value |-> v, joined |-> {}])
           /\ t.open => t.lines # <<>>
           /\ t = AppendLine(j, v) =>
                 /\ ~t.open
                 /\ t.lines = IF j.open THEN Spoiled(j.lines, {v})
                              ELSE Append(j.lines, [whole |-> TRUE, value |-> v, joined |-> {}])
<1> DEFINE L == [whole : BOOLEAN, value : Events, joined : SUBSET Events]
           line(w) == [whole |-> w, value |-> v, joined |-> {}]
<1>1. j.lines \in Seq(L) /\ DOMAIN j = {"exists", "lines", "open"} /\ j.open \in BOOLEAN
  BY DEF Lines
<1>2. LET u == AppendLine(j, v)
      IN  ~u.open /\ u.lines = IF j.open THEN Spoiled(j.lines, {v}) ELSE Append(j.lines, line(TRUE))
  BY <1>1 DEF AppendLine, LinesWith
<1>3. CASE t = j
  BY <1>2, <1>3
<1>4. CASE t = AppendLine(j, v)
  BY <1>2, <1>4
<1>5. CASE \E w \in BOOLEAN : t = [j EXCEPT !.lines = LinesWith(j, v, w), !.open = TRUE]
  <2>1. PICK w \in BOOLEAN : t = [j EXCEPT !.lines = LinesWith(j, v, w), !.open = TRUE]
    BY <1>5
  <2>2. t.open /\ t.lines = LinesWith(j, v, w)
    BY <1>1, <2>1
  <2>3. t # AppendLine(j, v)
    BY <1>2, <2>2
  <2>4. t.lines # <<>>
    <3>1. CASE j.open
      <4>1. Len(j.lines) \in Nat \ {0} /\ DOMAIN j.lines = 1..Len(j.lines)
        <5> HIDE DEF L
        <5> QED
          BY <1>1, <3>1
      <4>2. 1 \in DOMAIN t.lines
        BY <2>2, <3>1, <4>1 DEF LinesWith, Spoiled
      <4> QED
        BY <4>2
    <3>2. CASE ~j.open
      <4>1. t.lines = Append(j.lines, line(w)) /\ line(w) \in L
        BY <2>2, <3>2 DEF LinesWith
      <4> HIDE DEF L, line
      <4> QED
        BY <1>1, <4>1
    <3> QED
      BY <3>1, <3>2
  <2>5. CASE j.open
    BY <2>2, <2>3, <2>4, <2>5 DEF LinesWith
  <2>6. CASE ~j.open
    BY <2>2, <2>3, <2>4, <2>6 DEF LinesWith
  <2> QED
    BY <2>5, <2>6
<1> QED
  BY <1>3, <1>4, <1>5 DEF TornLine

\* A spoiled journal has the same events, the last of them unreadable, and its
\* last line also holds what was joined to it.
LEMMA SpoiledLines ==
    ASSUME NEW j \in Lines(Events), NEW records
    PROVE  LET lines == Spoiled(j.lines, records)
           IN  /\ Len(lines) = Len(j.lines)
               /\ \A k \in 1..Len(j.lines) :
                     /\ lines[k].value = j.lines[k].value
                     /\ lines[k].whole => j.lines[k].whole /\ k # Len(j.lines)
                     /\ k # Len(j.lines) => lines[k] = j.lines[k]
                     /\ j.lines[k].joined \subseteq lines[k].joined
                     /\ k = Len(j.lines) => records \subseteq lines[k].joined
<1> DEFINE L == [whole : BOOLEAN, value : Events, joined : SUBSET Events]
           old == j.lines
           lines == Spoiled(old, records)
           n == Len(old)
<1>1. old \in Seq(L)
  BY DEF Lines
<1>2. n \in Nat /\ DOMAIN old = 1..n /\ \A k \in 1..n : old[k] \in L
  <2> HIDE DEF L
  <2> QED
    BY <1>1
<1>3. DOMAIN lines = 1..n /\ \A k \in 1..n :
         lines[k] = IF k = n THEN Ruined(old[k], records) ELSE old[k]
  BY <1>2 DEF Spoiled
<1>4. Len(lines) = n
  <2> HIDE DEF L, lines, n, old
  <2> QED
    BY <1>2, <1>3
<1>5. ASSUME NEW k \in 1..n
      PROVE  /\ lines[k].value = old[k].value
             /\ lines[k].whole => old[k].whole /\ k # n
             /\ k # n => lines[k] = old[k]
             /\ old[k].joined \subseteq lines[k].joined
             /\ k = n => records \subseteq lines[k].joined
  <2>1. old[k] \in L
    BY <1>2
  <2>2. lines[k] = IF k = n THEN Ruined(old[k], records) ELSE old[k]
    BY <1>3
  <2> HIDE DEF lines, n, old
  <2>3. CASE k = n
    BY <2>1, <2>2, <2>3 DEF Ruined
  <2>4. CASE k # n
    BY <2>2, <2>4
  <2> QED
    BY <2>3, <2>4
<1> QED
  BY <1>4, <1>5

\* Appending an event, finished or torn, keeps a journal in order when the
\* event comes after all that is there, and loses nothing that backs run.json.
LEMMA JournalAppended ==
    ASSUME NEW j \in Lines(Events), NEW event \in Events, j.open => j.lines # <<>>, Ordered(j.lines),
           \A k \in 1..Len(j.lines) : j.lines[k].whole =>
              j.lines[k].value.seq < event.seq /\ j.lines[k].value.to \notin TerminalStates,
           NEW lifecycle \in [state : RunStates, next : Nat], event.seq < lifecycle.next,
           event.to \in TerminalStates => lifecycle.state \in TerminalStates,
           NEW t \in TornLine(j, event) \cup {AppendLine(j, event)}
    PROVE  /\ Ordered(t.lines) /\ Behind(t.lines, lifecycle) /\ (t.open => t.lines # <<>>)
           /\ \A status : Backed(j, status) => Backed(t, status)
           /\ t = AppendLine(j, event) => Backed(t, event.to)
<1> DEFINE L == [whole : BOOLEAN, value : Events, joined : SUBSET Events]
           line(w) == [whole |-> w, value |-> event, joined |-> {}]
           n == Len(j.lines)
<1>1. j.lines \in Seq(L) /\ j.open \in BOOLEAN
  BY DEF Lines
<1>2. n \in Nat /\ (j.open => n # 0) /\ \A k \in 1..n : j.lines[k] \in L
  <2> HIDE DEF L
  <2> QED
    BY <1>1
<1>3. /\ event.seq \in Nat /\ lifecycle.next \in Nat
      /\ \A k \in 1..n : j.lines[k].value.seq \in Nat
  BY <1>2 DEF Events
<1>4. t.open => t.lines # <<>>
  BY AppendedLines
<1>5. Behind(j.lines, lifecycle)
  BY <1>3 DEF Behind
<1>6. t = AppendLine(j, event) => ~t.open /\ t.lines = IF j.open THEN Spoiled(j.lines, {event})
                                                        ELSE Append(j.lines, line(TRUE))
  BY AppendedLines
<1>7. \/ t = j /\ t # AppendLine(j, event)
      \/ j.open /\ \E records : /\ t.lines = Spoiled(j.lines, records)
                                /\ t = AppendLine(j, event) => event \in records
      \/ ~j.open /\ \E w \in BOOLEAN : t.lines = Append(j.lines, line(w))
  <2>1. \/ t = j
        \/ j.open /\ \E records : t.lines = Spoiled(j.lines, records)
        \/ ~j.open /\ \E w \in BOOLEAN : t.lines = Append(j.lines, line(w))
    BY AppendedLines
  <2>2. CASE t = AppendLine(j, event) /\ j.open
    BY <1>6, <2>2
  <2>3. CASE t = AppendLine(j, event) /\ ~j.open
    BY <1>6, <2>3
  <2>4. CASE t # AppendLine(j, event)
    BY <2>1, <2>4
  <2> QED
    BY <2>2, <2>3, <2>4
<1>8. CASE t = j /\ t # AppendLine(j, event)
  BY <1>4, <1>5, <1>8
<1>9. ASSUME j.open, NEW records, t.lines = Spoiled(j.lines, records),
             t = AppendLine(j, event) => event \in records
      PROVE  /\ Ordered(t.lines) /\ Behind(t.lines, lifecycle)
             /\ \A status : Backed(j, status) => Backed(t, status)
             /\ t = AppendLine(j, event) => Backed(t, event.to)
  <2> DEFINE q == t.lines
  <2>1. /\ Len(q) = n
        /\ \A k \in 1..n : /\ q[k].value = j.lines[k].value
                           /\ q[k].whole => j.lines[k].whole /\ k # n
                           /\ k # n => q[k] = j.lines[k]
                           /\ j.lines[k].joined \subseteq q[k].joined
                           /\ k = n => records \subseteq q[k].joined
    <3>1. q = Spoiled(j.lines, records)
      BY <1>9
    <3>2. LET p == Spoiled(j.lines, records)
          IN  /\ Len(p) = Len(j.lines)
              /\ \A k \in 1..Len(j.lines) :
                    /\ p[k].value = j.lines[k].value
                    /\ p[k].whole => j.lines[k].whole /\ k # Len(j.lines)
                    /\ k # Len(j.lines) => p[k] = j.lines[k]
                    /\ j.lines[k].joined \subseteq p[k].joined
                    /\ k = Len(j.lines) => records \subseteq p[k].joined
      BY SpoiledLines
    <3> HIDE DEF q
    <3> QED
      BY <3>1, <3>2
  <2>2. Ordered(q)
    BY <2>1 DEF Ordered
  <2>3. Behind(q, lifecycle)
    BY <1>5, <2>1 DEF Behind
  <2>4. ASSUME NEW status, Backed(j, status) PROVE Backed(t, status)
    <3> SUFFICES ASSUME status \notin {"absent", "created"} PROVE Backed(t, status)
      BY DEF Backed
    <3>1. PICK k \in 1..n :
             \/ j.lines[k].whole /\ j.lines[k].value.to = status /\ k # n
             \/ \E e \in j.lines[k].joined : e.to = status
      BY <1>9, <2>4 DEF Backed
    <3>2. CASE j.lines[k].whole /\ j.lines[k].value.to = status /\ k # n
      BY <2>1, <3>2 DEF Backed
    <3>3. CASE \E e \in j.lines[k].joined : e.to = status
      BY <2>1, <3>3 DEF Backed
    <3> QED
      BY <3>1, <3>2, <3>3
  <2>5. ASSUME t = AppendLine(j, event) PROVE Backed(t, event.to)
    <3>1. n \in 1..n /\ event \in q[n].joined
      BY <1>2, <1>9, <2>1, <2>5
    <3> QED
      BY <2>1, <3>1 DEF Backed
  <2> QED
    BY <2>2, <2>3, <2>4, <2>5
<1>10. ASSUME ~j.open, NEW w \in BOOLEAN, t.lines = Append(j.lines, line(w))
       PROVE  /\ Ordered(t.lines) /\ Behind(t.lines, lifecycle)
              /\ \A status : Backed(j, status) => Backed(t, status)
              /\ t = AppendLine(j, event) => Backed(t, event.to)
  <2> DEFINE q == t.lines
             last == line(w)
  <2>1. last \in L /\ last.value = event /\ last.whole = w
    OBVIOUS
  <2>2. /\ Len(q) = n + 1 /\ q[n + 1] = last
        /\ \A k \in 1..n : q[k] = j.lines[k]
    <3> HIDE DEF L, line
    <3> QED
      BY <1>1, <1>10, <2>1
  <2>3. t = AppendLine(j, event) => ~t.open /\ last.whole
    <3>1. t = AppendLine(j, event) => ~t.open /\ q = Append(j.lines, line(TRUE))
      BY <1>6, <1>10
    <3>2. line(TRUE) \in L /\ line(TRUE).whole
      OBVIOUS
    <3>3. \A x \in L : Append(j.lines, x)[n + 1] = x
      <4> HIDE DEF L
      <4> QED
        BY <1>1
    <3>4. t = AppendLine(j, event) => q[n + 1] = line(TRUE)
      BY <3>1, <3>2, <3>3
    <3> HIDE DEF q, line, last, n
    <3> QED
      BY <2>2, <3>1, <3>2, <3>4
  <2> HIDE DEF line, last, n
  <2>4. \A k \in 1..(n + 1) : k \in 1..n \/ k = n + 1
    BY <1>2
  <2>5. Ordered(q)
    <3> SUFFICES ASSUME NEW a \in 1..(n + 1), NEW b \in 1..(n + 1), a < b, q[a].whole, q[b].whole
                 PROVE  q[a].value.seq < q[b].value.seq /\ q[a].value.to \notin TerminalStates
      BY <2>2 DEF Ordered
    <3>1. a \in 1..n /\ q[a] = j.lines[a]
      BY <1>2, <2>2
    <3>2. CASE b = n + 1
      BY <2>1, <2>2, <3>1, <3>2 DEF n
    <3>3. CASE b \in 1..n
      BY <2>2, <3>1, <3>3 DEF n, Ordered
    <3> QED
      BY <2>4, <3>2, <3>3
  <2>6. Behind(q, lifecycle)
    BY <1>5, <2>1, <2>2, <2>4 DEF Behind, n
  <2>7. n + 1 \in 1..Len(q) /\ \A k \in 1..n : k \in 1..Len(q) /\ k # Len(q)
    BY <1>2, <2>2
  <2>8. ASSUME NEW status, Backed(j, status) PROVE Backed(t, status)
    <3> SUFFICES ASSUME status \notin {"absent", "created"} PROVE Backed(t, status)
      BY DEF Backed
    <3>1. PICK k \in 1..n :
             \/ j.lines[k].whole /\ j.lines[k].value.to = status
             \/ \E e \in j.lines[k].joined : e.to = status
      BY <2>8 DEF Backed, n
    <3> QED
      BY <2>2, <2>7, <3>1 DEF Backed
  <2>9. t = AppendLine(j, event) => Backed(t, event.to)
    BY <2>1, <2>2, <2>3, <2>7 DEF Backed
  <2> QED
    BY <2>5, <2>6, <2>8, <2>9
<1> QED
  BY <1>4, <1>7, <1>8, <1>9, <1>10

\* A chain is in order: only its last event may be terminal.
LEMMA ChainOrdered ==
    ASSUME NEW j \in Lines(Events), Chained(j.lines)
    PROVE  /\ Ordered(j.lines)
           /\ \A k \in 1..Len(j.lines) : k < Len(j.lines) => j.lines[k].value.to \notin TerminalStates
<1> DEFINE n == Len(j.lines)
<1>1. n \in Nat
  BY DEF Lines
<1>2. \A k \in 1..n : j.lines[k].value.seq = k
  BY DEF Chained
<1>3. ASSUME NEW k \in 1..n, k < n PROVE j.lines[k].value.to \notin TerminalStates
  <2>1. k + 1 \in 1..n /\ k + 1 # 1 /\ (k + 1) - 1 = k
    BY <1>1, <1>3
  <2>2. is_valid_transition(j.lines[k + 1].value.from, j.lines[k + 1].value.to)
        /\ j.lines[k + 1].value.from = j.lines[k].value.to
    BY <2>1 DEF Chained
  <2> QED
    BY <2>2 DEF is_valid_transition, TerminalStates
<1>4. Ordered(j.lines)
  <2> SUFFICES ASSUME NEW a \in 1..n, NEW b \in 1..n, a < b
               PROVE  /\ j.lines[a].value.seq < j.lines[b].value.seq
                      /\ j.lines[a].value.to \notin TerminalStates
    BY DEF Ordered
  <2>1. a < n
    BY <1>1
  <2> QED
    BY <1>2, <1>3, <2>1
<1> QED
  BY <1>3, <1>4

\* A transition that completes extends the chain by its event.
LEMMA ChainExtended ==
    ASSUME NEW j \in Lines(Events), ~j.open, j.lines # <<>>, Chained(j.lines),
           NEW lifecycle \in [state : RunStates, next : Nat],
           lifecycle.next = Len(j.lines) + 1, LastEvent(j.lines).to = lifecycle.state,
           NEW to \in RunStates, NEW failure \in FailureCodes,
           is_valid_transition(lifecycle.state, to)
    PROVE  LET event == TransitionEvent(lifecycle, to, failure)
               t == AppendLine(j, event)
           IN  /\ ~t.open /\ t.lines # <<>> /\ Chained(t.lines)
               /\ Transitioned(lifecycle, to).next = Len(t.lines) + 1
               /\ Transitioned(lifecycle, to).state = to
               /\ LastEvent(t.lines).to = to /\ LastEvent(t.lines).failure = failure
<1> DEFINE L == [whole : BOOLEAN, value : Events, joined : SUBSET Events]
           event == TransitionEvent(lifecycle, to, failure)
           line == [whole |-> TRUE, value |-> event, joined |-> {}]
           t == AppendLine(j, event)
           n == Len(j.lines)
<1>1. event \in Events /\ line \in L
  BY DEF TransitionEvent, Events
<1>2. event.seq = n + 1 /\ event.from = LastEvent(j.lines).to /\ event.to = to /\ event.failure = failure
  BY DEF TransitionEvent
<1>3. line.whole /\ line.value = event
  OBVIOUS
<1>4. j.lines \in Seq(L)
  BY DEF Lines
<1> HIDE DEF event
<1>5. ~t.open /\ t.lines = Append(j.lines, line)
  BY <1>1, AppendedLines
<1> HIDE DEF t, line, L
<1>6. /\ n \in Nat \ {0} /\ Len(t.lines) = n + 1 /\ t.lines[n + 1] = line
      /\ \A k \in 1..n : t.lines[k] = j.lines[k]
  BY <1>1, <1>4, <1>5
<1> HIDE DEF n
<1>7. \A k \in 1..(n + 1) : k \in 1..n \/ k = n + 1
  BY <1>6
<1>8. Chained(t.lines)
  <2> SUFFICES ASSUME NEW k \in 1..(n + 1)
               PROVE  /\ t.lines[k].whole
                      /\ t.lines[k].value.seq = k
                      /\ IF k = 1 THEN t.lines[k].value = InitialEvent
                         ELSE /\ t.lines[k].value.from = t.lines[k - 1].value.to
                              /\ is_valid_transition(t.lines[k].value.from, t.lines[k].value.to)
    BY <1>6 DEF Chained
  <2>1. CASE k = n + 1
    <3>1. k # 1 /\ k - 1 = n /\ n \in 1..n
      BY <1>6, <2>1
    <3>2. t.lines[k - 1].value = LastEvent(j.lines)
      BY <1>6, <3>1 DEF LastEvent, n
    <3> QED
      BY <1>2, <1>3, <1>6, <2>1, <3>1, <3>2
  <2>2. CASE k \in 1..n
    <3>1. k = 1 \/ k - 1 \in 1..n
      BY <1>6, <2>2
    <3>2. t.lines[k] = j.lines[k] /\ (k # 1 => t.lines[k - 1] = j.lines[k - 1])
      BY <1>6, <2>2, <3>1
    <3>3. k \in 1..Len(j.lines)
      BY <2>2 DEF n
    <3> QED
      BY <3>2, <3>3 DEF Chained
  <2> QED
    BY <1>7, <2>1, <2>2
<1>9. t.lines # <<>> /\ LastEvent(t.lines) = event
  BY <1>3, <1>6 DEF LastEvent
<1>10. Transitioned(lifecycle, to).next = Len(t.lines) + 1 /\ Transitioned(lifecycle, to).state = to
  BY <1>6 DEF Transitioned, n
<1> QED
  BY <1>2, <1>5, <1>8, <1>9, <1>10 DEF t, event

\* The first event starts the chain.
LEMMA ChainStarted ==
    ASSUME NEW j \in Lines(Events), ~j.open, j.lines = <<>>
    PROVE  LET t == AppendLine(j, InitialEvent)
           IN  /\ ~t.open /\ t.lines # <<>> /\ Chained(t.lines) /\ Len(t.lines) = 1
               /\ LastEvent(t.lines) = InitialEvent
<1> DEFINE line == [whole |-> TRUE, value |-> InitialEvent, joined |-> {}]
           t == AppendLine(j, InitialEvent)
<1>1. InitialEvent \in Events /\ InitialEvent.seq = 1
  BY DEF InitialEvent, Events, RunStates, FailureCodes
<1>2. ~t.open /\ t.lines = Append(<<>>, line)
  BY <1>1, AppendedLines
<1>3. line.whole /\ line.value = InitialEvent
  OBVIOUS
<1> HIDE DEF line, t
<1>4. Len(t.lines) = 1 /\ t.lines[1] = line /\ t.lines # <<>>
  <2>1. <<>> \in Seq({line}) /\ Len(<<>>) = 0
    OBVIOUS
  <2> QED
    BY <1>2, <2>1
<1>5. Chained(t.lines)
  BY <1>1, <1>3, <1>4 DEF Chained
<1> QED
  BY <1>2, <1>3, <1>4, <1>5 DEF t, LastEvent

\* The attempt's rank is a number.
LEMMA RankType == \A status : AttemptRank(status) \in Nat
BY DEF AttemptRank

\* Being on course is sane.
LEMMA CourseSane ==
    ASSUME NEW p \in Payloads, NEW lifecycle \in [state : RunStates, next : Nat],
           NEW label \in StagingLabels, NEW run, NEW attempt, NEW result, NEW verdict,
           OnCourse(label, p, lifecycle, run, attempt, result, verdict)
    PROVE  Sane(p, lifecycle, run, attempt)
<1>1. p.journal \in Lines(Events)
  BY DEF Payloads
<1>2. run.status = lifecycle.state /\ p.run.status \in {"absent", run.status} /\ ~p.journal.open
  BY DEF OnCourse, NoRecord, JournalAt
<1>3. Forward(p.attempt, attempt)
  <2>1. p.attempt = NoRecord \/ p.attempt = attempt
    BY DEF OnCourse
  <2>2. AttemptRank(NoRecord.status) = 0 /\ NoRecord.status \notin TerminalStates
    BY DEF NoRecord, AttemptRank, TerminalStates
  <2> QED
    BY <2>1, <2>2, RankType DEF Forward
<1>4. Ordered(p.journal.lines) /\ Behind(p.journal.lines, lifecycle)
      /\ Backed(p.journal, lifecycle.state)
  <2>1. CASE label \in BeforeJournal
    BY <2>1 DEF OnCourse, JournalAt, Ordered, Behind, Backed, NewLifecycle
  <2>2. CASE label \notin BeforeJournal
    <3> DEFINE lines == p.journal.lines
    <3>1. /\ lines # <<>> /\ Chained(lines) /\ lifecycle.next = Len(lines) + 1
          /\ LastEvent(lines).to = lifecycle.state
      BY <2>2 DEF OnCourse, JournalAt
    <3>2. Len(lines) \in Nat \ {0}
      BY <1>1, <3>1 DEF Lines
    <3>3. Ordered(lines) /\ \A k \in 1..Len(lines) :
             k < Len(lines) => lines[k].value.to \notin TerminalStates
      BY <1>1, <3>1, ChainOrdered
    <3> HIDE DEF lines
    <3>4. \A k \in 1..Len(lines) : lines[k].value.seq = k
      BY <3>1 DEF Chained
    <3>5. Behind(lines, lifecycle)
      BY <3>1, <3>2, <3>3, <3>4 DEF Behind, LastEvent
    <3>6. lines[Len(lines)].whole /\ ~p.journal.open /\ lines = p.journal.lines
      BY <1>2, <3>1, <3>2 DEF Chained, lines
    <3>7. Backed(p.journal, lifecycle.state)
      BY <3>1, <3>2, <3>6 DEF Backed, LastEvent
    <3> QED
      BY <3>3, <3>5, <3>7 DEF lines
  <2> QED
    BY <2>1, <2>2
<1>5. Backed(p.journal, p.run.status)
  BY <1>2, <1>4 DEF Backed
<1> QED
  BY <1>2, <1>3, <1>4, <1>5 DEF Sane

-----------------------------------------------------------------------------
(* Payloads.                                                               *)

\* What write_json_atomic, finished or not, does to the records.
LEMMA WrittenRecords ==
    ASSUME NEW p \in Payloads, NEW c
    PROVE  /\ LET q == Written(p, "run", c)
              IN  /\ q.run = c /\ q.attempt = p.attempt /\ q.journal = p.journal
                  /\ q.manifest = p.manifest /\ q.tmp = p.tmp \ {"run"}
           /\ LET q == Written(p, "attempt", c)
              IN  /\ q.run = p.run /\ q.attempt = c /\ q.journal = p.journal
                  /\ q.manifest = p.manifest /\ q.tmp = p.tmp \ {"attempt"}
           /\ LET q == Written(p, "manifest", c)
              IN  /\ q.run = p.run /\ q.attempt = p.attempt /\ q.journal = p.journal
                  /\ q.manifest = c /\ q.tmp = p.tmp \ {"manifest"}
           /\ \A f \in {"plan", "provenance", "resources", "validity", "summary"} :
                 LET q == Written(p, f, c)
                 IN  /\ q.run = p.run /\ q.attempt = p.attempt /\ q.journal = p.journal
                     /\ q.manifest = p.manifest /\ q.tmp = p.tmp \ {f}
           /\ \A f : \A q \in HalfWritten(p, f) :
                 q.run = p.run /\ q.attempt = p.attempt /\ q.journal = p.journal
<1> USE DEF Payloads, Written
<1>1. LET q == Written(p, "run", c)
      IN  /\ q.run = c /\ q.attempt = p.attempt /\ q.journal = p.journal
          /\ q.manifest = p.manifest /\ q.tmp = p.tmp \ {"run"}
  OBVIOUS
<1>2. LET q == Written(p, "attempt", c)
      IN  /\ q.run = p.run /\ q.attempt = c /\ q.journal = p.journal
          /\ q.manifest = p.manifest /\ q.tmp = p.tmp \ {"attempt"}
  OBVIOUS
<1>3. LET q == Written(p, "manifest", c)
      IN  /\ q.run = p.run /\ q.attempt = p.attempt /\ q.journal = p.journal
          /\ q.manifest = c /\ q.tmp = p.tmp \ {"manifest"}
  OBVIOUS
<1>4. ASSUME NEW f \in {"plan", "provenance", "resources", "validity", "summary"}
      PROVE  LET q == Written(p, f, c)
             IN  /\ q.run = p.run /\ q.attempt = p.attempt /\ q.journal = p.journal
                 /\ q.manifest = p.manifest /\ q.tmp = p.tmp \ {f}
  OBVIOUS
<1>5. ASSUME NEW f, NEW q \in HalfWritten(p, f)
      PROVE  q.run = p.run /\ q.attempt = p.attempt /\ q.journal = p.journal
  BY DEF HalfWritten
<1> QED
  BY <1>1, <1>2, <1>3, <1>4, <1>5

\* What the verifier and the journal look at is the same in both payloads.
SameRecords(p, q) ==
    /\ q.journal.lines = p.journal.lines /\ q.journal.open = p.journal.open
    /\ q.run = p.run /\ q.attempt = p.attempt

\* The outcome of a step for the run that takes it.
Good(r) ==
    /\ SaneRun(r)'
    /\ pc'[r] \in StagingLabels => RunOnCourse(r)'
    /\ Forward(Payload(r).attempt, Payload(r)'.attempt)

\* Nothing lost, nothing gained.
LEMMA ForwardRefl == \A record : Forward(record, record)
BY RankType DEF Forward

\* A label past which the run is no longer on course.
LEMMA OffCourse ==
    ASSUME NEW state
    PROVE  RecoveryEntry(state) \notin StagingLabels /\ "crashed" \notin StagingLabels
BY DEF RecoveryEntry, StagingLabels

\* One operation on the staged files that is on course when it is done and
\* touches no record when it is not.
LEMMA FileCourse ==
    ASSUME TypeOK, TypeOK', NEW r \in Runs, NEW label \in StagingLabels, NEW at, NEW done, NEW partial,
           NEW next \in StagingLabels, FileStep(r, label, at, done, partial, next),
           done \in Payloads, partial \subseteq Payloads, RunOnCourse(r),
           OnCourse(next, done, life[r], runRec[r], attRec[r], output[r], Verdict(r)),
           Forward(Payload(r).attempt, done.attempt),
           \A left \in partial : Sane(left, life[r], runRec[r], attRec[r])
                                 /\ left.attempt = Payload(r).attempt
    PROVE  Good(r)
<1>1. /\ pc[r] = label /\ UNCHANGED <<id, plan, life, runRec, attRec, output>>
      /\ pc \in [Runs -> Labels]
  BY DEF FileStep, memory, TypeOK, Labels
<1>2. Verdict(r)' = Verdict(r)
  BY <1>1 DEF Verdict, Validity
<1>3. CASE Store(r, done) /\ Goto(r, next)
  <2>1. Payload(r)' = done /\ pc'[r] = next
    BY <1>1, <1>3 DEF Store, Goto, Payload, TypeOK, Dirs
  <2>2. RunOnCourse(r)'
    BY <1>1, <1>2, <2>1 DEF RunOnCourse
  <2>3. life[r] \in [state : RunStates, next : Nat]
    BY DEF TypeOK
  <2>4. Sane(done, life[r], runRec[r], attRec[r])
    BY <2>3, CourseSane
  <2>5. SaneRun(r)'
    BY <1>1, <2>1, <2>4 DEF SaneRun
  <2> QED
    BY <2>1, <2>2, <2>5 DEF Good
<1>4. CASE \E left \in partial : Store(r, left) /\ Abort(r, at, life[r].state)
  <2>1. PICK left \in partial : Store(r, left) /\ Abort(r, at, life[r].state)
    BY <1>4
  <2>2. Payload(r)' = left
    BY <1>1, <2>1 DEF Store, Payload, TypeOK, Dirs
  <2>3. pc'[r] \notin StagingLabels
    BY <1>1, <2>1, OffCourse DEF Abort, FailAt
  <2>4. SaneRun(r)'
    BY <1>1, <2>1, <2>2 DEF SaneRun
  <2>5. Forward(Payload(r).attempt, left.attempt)
    BY <2>1, ForwardRefl
  <2> QED
    BY <2>2, <2>3, <2>4, <2>5 DEF Good
<1> QED
  BY <1>3, <1>4 DEF FileStep

\* The same records are as sane.
LEMMA SameSane ==
    ASSUME NEW p, NEW q, SameRecords(p, q), NEW lifecycle, NEW run, NEW attempt,
           Sane(p, lifecycle, run, attempt)
    PROVE  Sane(q, lifecycle, run, attempt)
BY DEF SameRecords, Sane, Backed

\* Two labels between which no record is written.
Alongside(label, next) ==
    /\ label \in StagingLabels /\ next \in StagingLabels
    /\ label \in BeforeJournal <=> next \in BeforeJournal
    /\ label \in BeforeRunJson <=> next \in BeforeRunJson
    /\ label \in BeforeAttemptJson <=> next \in BeforeAttemptJson
    /\ label \in RunOver <=> next \in RunOver
    /\ \A result : AttemptAt(label, result) = AttemptAt(next, result)

\* The pairs of labels between which no record moves.
LEMMA LabelsAlongside ==
    /\ Alongside("makeAttemptDir", "writeExperiment") /\ Alongside("writeExperiment", "writePlan")
    /\ Alongside("writePlan", "createEvents") /\ Alongside("createEvents", "appendCreated")
    /\ Alongside("createMeasurements", "snapshotRun") /\ Alongside("writeProvenance", "toRunning")
    /\ Alongside("execute", "enrichProvenance") /\ Alongside("execute", "attemptTerminal")
    /\ Alongside("enrichProvenance", "attemptTerminal")
    /\ Alongside("writeResources", "appendMeasurements")
    /\ Alongside("appendMeasurements", "appendMeasurements")
    /\ Alongside("appendMeasurements", "toCollecting") /\ Alongside("appendMeasurements", "toFinalizing")
    /\ Alongside("writeValidity", "writeSummary") /\ Alongside("writeSummary", "writeManifest")
    /\ Alongside("writeManifest", "checksum") /\ Alongside("checksum", "verify")
    /\ Alongside("verify", "checkDestination") /\ Alongside("checkDestination", "publish")
BY DEF Alongside, StagingLabels, Closed, BeforeJournal, BeforeRunJson, BeforeAttemptJson, RunOver,
   AttemptAt, AttemptCreated, AttemptPrepared, AttemptRuns

\* An operation on some other file: the records stay as they are.
LEMMA FileElsewhere ==
    ASSUME TypeOK, TypeOK', NEW r \in Runs, NEW label, NEW at, NEW done, NEW partial,
           NEW next, FileStep(r, label, at, done, partial, next),
           done \in Payloads, partial \subseteq Payloads, RunOnCourse(r), done.tmp = {},
           \A q \in partial \cup {done} : SameRecords(Payload(r), q),
           Alongside(label, next), next \in Closed => done.manifest = Verdict(r)
    PROVE  Good(r)
<1>1. OnCourse(label, Payload(r), life[r], runRec[r], attRec[r], output[r], Verdict(r))
  BY DEF RunOnCourse, FileStep
<1>2. OnCourse(next, done, life[r], runRec[r], attRec[r], output[r], Verdict(r))
  <2>1. JournalAt(next, done.journal, life[r], runRec[r].failure)
    BY <1>1 DEF OnCourse, JournalAt, SameRecords, Alongside
  <2> QED
    BY <1>1, <2>1 DEF OnCourse, SameRecords, Alongside
<1>3. Sane(Payload(r), life[r], runRec[r], attRec[r])
  BY <1>1, StoreType, CourseSane DEF TypeOK, Alongside
<1>4. \A left \in partial : Sane(left, life[r], runRec[r], attRec[r])
                            /\ left.attempt = Payload(r).attempt
  BY <1>3, SameSane DEF SameRecords
<1>5. Forward(Payload(r).attempt, done.attempt)
  BY ForwardRefl DEF SameRecords
<1>6. label \in StagingLabels /\ next \in StagingLabels
  BY DEF Alongside
<1> QED
  BY <1>2, <1>4, <1>5, <1>6, FileCourse

\* The same for write_json_atomic of a file that is not one of the records.
LEMMA WriteElsewhere ==
    ASSUME TypeOK, TypeOK', NEW r \in Runs, NEW label, NEW at, NEW c,
           NEW f \in {"plan", "provenance", "resources", "validity", "summary", "manifest"},
           NEW next, WriteRecord(r, label, at, f, c, next),
           Written(Payload(r), f, c) \in Payloads, RunOnCourse(r),
           Alongside(label, next), next \in Closed => f = "manifest" /\ c = Verdict(r)
    PROVE  Good(r)
<1> DEFINE done == Written(Payload(r), f, c)
           partial == HalfWritten(Payload(r), f)
<1>1. Payload(r) \in Payloads /\ Payload(r).tmp = {}
  BY StoreType DEF RunOnCourse, OnCourse
<1>2. partial \subseteq Payloads
  BY <1>1, WrittenType DEF AtomicFiles
<1>3. \A q \in partial : SameRecords(Payload(r), q)
  BY <1>1, WrittenRecords DEF SameRecords
<1>4. SameRecords(Payload(r), done) /\ done.tmp = Payload(r).tmp \ {f}
      /\ (f = "manifest" => done.manifest = c)
  BY <1>1, WrittenRecords DEF SameRecords
<1>5. FileStep(r, label, at, done, partial, next)
  BY DEF WriteRecord
<1>6. done.tmp = {} /\ (next \in Closed => done.manifest = Verdict(r))
  BY <1>1, <1>4
<1> HIDE DEF done, partial
<1>7. done \in Payloads
  BY DEF done
<1> QED
  BY <1>2, <1>3, <1>4, <1>5, <1>6, <1>7, FileElsewhere

\* The operations on files other than the journal, run.json and attempt.json.
LEMMA OtherFilesGood ==
    ASSUME TypeOK, TypeOK', OutputKnown, NEW r \in Runs, RunOnCourse(r),
           \/ MakeAttemptDir(r) \/ WriteExperiment(r) \/ WritePlan(r) \/ CreateEvents(r)
           \/ CreateMeasurements(r) \/ WriteProvenance(r) \/ EnrichProvenance(r)
           \/ WriteResources(r) \/ AppendMeasurement(r)
           \/ WriteValidity(r) \/ WriteSummary(r) \/ WriteManifest(r)
    PROVE  Good(r)
<1>0. {"writeExperiment", "writePlan", "createEvents", "appendCreated", "snapshotRun", "toRunning",
       "attemptTerminal", "appendMeasurements", "writeSummary", "writeManifest"} \cap Closed = {}
  BY DEF Closed
<1>1. Payload(r) \in Payloads /\ Payload(r).tmp = {} /\ plan[r] \in Plans
  BY StoreType DEF RunOnCourse, OnCourse, TypeOK
<1>2. CASE MakeAttemptDir(r)
  <2> DEFINE done == [Payload(r) EXCEPT !.attemptDir = TRUE]
  <2>1. done \in Payloads /\ done.tmp = {} /\ SameRecords(Payload(r), done)
    BY <1>1 DEF Payloads, SameRecords
  <2>2. FileStep(r, "makeAttemptDir", "initializing", done, {Payload(r)}, "writeExperiment")
    BY <1>2 DEF MakeAttemptDir
  <2> HIDE DEF done
  <2>3. SameRecords(Payload(r), Payload(r))
    BY DEF SameRecords
  <2> QED
    BY <1>0, <1>1, <2>1, <2>2, <2>3, FileElsewhere, LabelsAlongside
<1>3. CASE WriteExperiment(r)
  <2> DEFINE done == [Payload(r) EXCEPT !.experiment = "written"]
             torn == [Payload(r) EXCEPT !.experiment = "partial"]
  <2>1. done \in Payloads /\ done.tmp = {} /\ SameRecords(Payload(r), done)
    BY <1>1 DEF Payloads, SameRecords
  <2>2. torn \in Payloads /\ SameRecords(Payload(r), torn) /\ SameRecords(Payload(r), Payload(r))
    BY <1>1 DEF Payloads, SameRecords
  <2>3. FileStep(r, "writeExperiment", "initializing", done, {Payload(r), torn}, "writePlan")
    BY <1>3 DEF WriteExperiment
  <2> HIDE DEF done, torn
  <2> QED
    BY <1>0, <1>1, <2>1, <2>2, <2>3, FileElsewhere, LabelsAlongside
<1>4. CASE WritePlan(r)
  BY <1>0, <1>1, <1>4, WrittenType, WriteElsewhere, LabelsAlongside DEF WritePlan
<1>5. CASE CreateEvents(r)
  <2> DEFINE done == [Payload(r) EXCEPT !.journal.exists = TRUE]
  <2>1. done \in Payloads /\ done.tmp = {} /\ SameRecords(Payload(r), done)
    BY <1>1 DEF Payloads, Lines, SameRecords
  <2>2. FileStep(r, "createEvents", "initializing", done, {Payload(r)}, "appendCreated")
    BY <1>5 DEF CreateEvents
  <2> HIDE DEF done
  <2>3. SameRecords(Payload(r), Payload(r))
    BY DEF SameRecords
  <2> QED
    BY <1>0, <1>1, <2>1, <2>2, <2>3, FileElsewhere, LabelsAlongside
<1>6. CASE CreateMeasurements(r)
  <2> DEFINE done == [Payload(r) EXCEPT !.measurements.exists = TRUE]
  <2>1. done \in Payloads /\ done.tmp = {} /\ SameRecords(Payload(r), done)
    BY <1>1 DEF Payloads, Lines, SameRecords
  <2>2. FileStep(r, "createMeasurements", "initializing", done, {Payload(r)}, "snapshotRun")
    BY <1>6 DEF CreateMeasurements
  <2> HIDE DEF done
  <2>3. SameRecords(Payload(r), Payload(r))
    BY DEF SameRecords
  <2> QED
    BY <1>0, <1>1, <2>1, <2>2, <2>3, FileElsewhere, LabelsAlongside
<1>7. CASE WriteProvenance(r)
  BY <1>0, <1>1, <1>7, WrittenType, WriteElsewhere, LabelsAlongside DEF WriteProvenance
<1>8. CASE EnrichProvenance(r)
  BY <1>0, <1>1, <1>8, WrittenType, WriteElsewhere, LabelsAlongside DEF EnrichProvenance
<1>9. CASE WriteResources(r)
  BY <1>0, <1>1, <1>9, WrittenType, WriteElsewhere, LabelsAlongside DEF WriteResources
<1>10. CASE AppendMeasurement(r)
  <2> DEFINE written == Payload(r).measurements
             record == output[r].measurements[Len(written.lines) + 1]
  <2>1. written \in Lines(Measurements) /\ output[r].measurements \in Seq(Measurements)
    BY <1>1 DEF Payloads, TypeOK, OutputSet
  <2>2. Len(written.lines) < Len(output[r].measurements) /\ Len(written.lines) \in Nat
    BY <1>10, <2>1 DEF AppendMeasurement, Lines
  <2>3. record \in Measurements
    BY <2>1, <2>2
  <2>4. AppendLine(written, record) \in Lines(Measurements)
        /\ TornLine(written, record) \subseteq Lines(Measurements)
    BY <2>1, <2>3, AppendType
  <2>5. \A m \in Lines(Measurements) :
          /\ [Payload(r) EXCEPT !.measurements = m] \in Payloads
          /\ [Payload(r) EXCEPT !.measurements = m].tmp = {}
          /\ SameRecords(Payload(r), [Payload(r) EXCEPT !.measurements = m])
    BY <1>1 DEF Payloads, SameRecords
  <2> DEFINE done == [Payload(r) EXCEPT !.measurements = AppendLine(@, record)]
             partial == {[Payload(r) EXCEPT !.measurements = m] : m \in TornLine(written, record)}
  <2>6. done = [Payload(r) EXCEPT !.measurements = AppendLine(written, record)]
    BY <1>1 DEF Payloads
  <2> HIDE DEF record
  <2>7. FileStep(r, "appendMeasurements", "recordingMeasurements", done, partial, "appendMeasurements")
    BY <1>10 DEF AppendMeasurement, record
  <2>8. done \in Payloads /\ done.tmp = {} /\ SameRecords(Payload(r), done)
    BY <2>4, <2>5, <2>6
  <2>9. partial \subseteq Payloads /\ \A q \in partial : SameRecords(Payload(r), q)
    BY <2>4, <2>5
  <2> HIDE DEF done, partial
  <2> QED
    BY <1>0, <2>7, <2>8, <2>9, FileElsewhere, LabelsAlongside
<1>11. CASE WriteValidity(r) \/ WriteSummary(r) \/ WriteManifest(r)
  <2>1. output[r].terminal \in TerminalStates
    BY <1>11 DEF WriteValidity, WriteSummary, WriteManifest, WriteRecord, FileStep, OutputKnown,
       ExecutedLabels
  <2>2. /\ Written(Payload(r), "validity", Validity(r)) \in Payloads
        /\ Written(Payload(r), "summary", summarize(output[r], Validity(r))) \in Payloads
        /\ Written(Payload(r), "manifest", Verdict(r)) \in Payloads
    BY <2>1, VerdictType DEF Verdict
  <2>3. CASE WriteValidity(r)
    BY <1>0, <2>2, <2>3, WriteElsewhere, LabelsAlongside DEF WriteValidity
  <2>4. CASE WriteSummary(r)
    BY <1>0, <2>2, <2>4, WriteElsewhere, LabelsAlongside DEF WriteSummary
  <2>5. CASE WriteManifest(r)
    <3>1. WriteRecord(r, "writeManifest", "finalizing", "manifest", Verdict(r), "checksum")
      BY <2>5 DEF WriteManifest, Verdict
    <3> QED
      BY <1>0, <2>2, <3>1, WriteElsewhere, LabelsAlongside
  <2> QED
    BY <1>11, <2>3, <2>4, <2>5
<1> QED
  BY <1>2, <1>3, <1>4, <1>5, <1>6, <1>7, <1>8, <1>9, <1>10, <1>11

\* The first event and the first snapshots.
LEMMA SnapshotsGood ==
    ASSUME TypeOK, TypeOK', NEW r \in Runs, RunOnCourse(r),
           AppendCreated(r) \/ SnapshotRun(r) \/ SnapshotAttempt(r)
    PROVE  Good(r)
<1> DEFINE P == Payload(r)
<1>1. P \in Payloads /\ P.tmp = {} /\ P.journal \in Lines(Events)
  BY StoreType DEF RunOnCourse, OnCourse, Payloads
<1>2. /\ life[r] \in [state : RunStates, next : Nat]
      /\ runRec[r] \in [status : RunStates, failure : FailureCodes]
      /\ attRec[r] \in [status : AttemptStatuses, failure : FailureCodes]
  BY DEF TypeOK
<1>3. pc[r] \in {"appendCreated", "snapshotRun", "snapshotAttempt"}
  BY DEF AppendCreated, SnapshotRun, SnapshotAttempt, WriteRecord, FileStep
<1>4. Sane(P, life[r], runRec[r], attRec[r])
  BY <1>1, <1>2, <1>3, CourseSane DEF RunOnCourse, StagingLabels
<1>5. {"appendCreated", "createMeasurements", "snapshotRun", "snapshotAttempt", "toPreparing"}
        \subseteq StagingLabels
  BY DEF StagingLabels
<1>6. CASE AppendCreated(r)
  <2> DEFINE done == [P EXCEPT !.journal = AppendLine(@, InitialEvent)]
             partial == {[P EXCEPT !.journal = j] : j \in TornLine(P.journal, InitialEvent)}
  <2>1. FileStep(r, "appendCreated", "initializing", done, partial, "createMeasurements")
    BY <1>6 DEF AppendCreated
  <2>2. /\ OnCourse("appendCreated", P, life[r], runRec[r], attRec[r], output[r], Verdict(r))
        /\ ~P.journal.open /\ P.journal.lines = <<>> /\ life[r] = NewLifecycle
    BY <2>1 DEF FileStep, RunOnCourse, OnCourse, JournalAt, BeforeJournal
  <2>3. InitialEvent \in Events /\ InitialEvent.seq < life[r].next /\ InitialEvent.to \notin TerminalStates
        /\ InitialEvent.to = life[r].state /\ InitialEvent.failure = "none" /\ life[r].next = 2
    BY <2>2 DEF InitialEvent, NewLifecycle, Events, RunStates, FailureCodes, TerminalStates
  <2>4. TornLine(P.journal, InitialEvent) \cup {AppendLine(P.journal, InitialEvent)} \subseteq Lines(Events)
    BY <1>1, <2>3, AppendType
  <2>5. \A j \in Lines(Events) : LET q == [P EXCEPT !.journal = j]
          IN  /\ q \in Payloads /\ q.journal = j /\ q.run = P.run /\ q.attempt = P.attempt
              /\ q.manifest = P.manifest /\ q.tmp = P.tmp
    BY <1>1 DEF Payloads
  <2>6. done = [P EXCEPT !.journal = AppendLine(P.journal, InitialEvent)]
    BY <1>1 DEF Payloads
  <2> HIDE DEF P
  <2>7. ASSUME NEW j \in TornLine(P.journal, InitialEvent)
        PROVE  LET q == [P EXCEPT !.journal = j]
               IN  Sane(q, life[r], runRec[r], attRec[r]) /\ q.attempt = P.attempt
    <3>1. Ordered(P.journal.lines) /\ 1..Len(P.journal.lines) = {}
      BY <1>4, <2>2 DEF Sane
    <3>2. /\ Ordered(j.lines) /\ Behind(j.lines, life[r]) /\ (j.open => j.lines # <<>>)
          /\ \A status : Backed(P.journal, status) => Backed(j, status)
      BY <1>1, <1>2, <2>2, <2>3, <3>1, JournalAppended
    <3> QED
      BY <1>4, <2>4, <2>5, <3>2 DEF Sane
  <2>8. OnCourse("createMeasurements", done, life[r], runRec[r], attRec[r], output[r], Verdict(r))
    <3> DEFINE t == AppendLine(P.journal, InitialEvent)
    <3>1. /\ ~t.open /\ t.lines # <<>> /\ Chained(t.lines) /\ Len(t.lines) = 1
          /\ LastEvent(t.lines) = InitialEvent
      BY <1>1, <2>2, ChainStarted
    <3>2. /\ done.journal = t /\ done.run = P.run /\ done.attempt = P.attempt
          /\ done.tmp = {}
      BY <1>1, <2>4, <2>5, <2>6
    <3> HIDE DEF t, done
    <3>3. runRec[r].failure = "none"
      BY <2>2 DEF OnCourse, RunOver, Closed
    <3>4. "createMeasurements" \notin BeforeJournal
      BY DEF BeforeJournal
    <3>5. life[r].next = Len(t.lines) + 1
      BY <2>3, <3>1
    <3>6. JournalAt("createMeasurements", done.journal, life[r], runRec[r].failure)
      BY <2>3, <3>1, <3>2, <3>3, <3>4, <3>5 DEF JournalAt
    <3> QED
      BY <2>2, <3>2, <3>6 DEF OnCourse, BeforeJournal, BeforeRunJson, BeforeAttemptJson, RunOver, Closed,
         AttemptAt, AttemptCreated
  <2>9. done \in Payloads /\ done.attempt = P.attempt /\ partial \subseteq Payloads
    BY <2>4, <2>5, <2>6
  <2>10. Forward(P.attempt, done.attempt)
    BY <2>9, ForwardRefl
  <2>11. ASSUME NEW left \in partial
         PROVE  Sane(left, life[r], runRec[r], attRec[r]) /\ left.attempt = P.attempt
    <3>1. PICK j \in TornLine(P.journal, InitialEvent) : left = [P EXCEPT !.journal = j]
      OBVIOUS
    <3> HIDE DEF partial
    <3> QED
      BY <2>7, <3>1
  <2> HIDE DEF done, partial
  <2> QED
    BY <1>5, <2>1, <2>8, <2>9, <2>10, <2>11, FileCourse DEF P
<1>7. ASSUME NEW f \in {"run", "attempt"}
      PROVE  /\ HalfWritten(P, f) \subseteq Payloads
             /\ \A left \in HalfWritten(P, f) :
                   Sane(left, life[r], runRec[r], attRec[r]) /\ left.attempt = P.attempt
  <2>1. \A left \in HalfWritten(P, f) : SameRecords(P, left)
    BY <1>1, WrittenRecords DEF SameRecords
  <2>2. HalfWritten(P, f) \subseteq Payloads
    BY <1>1, WrittenType DEF AtomicFiles
  <2> HIDE DEF P
  <2> QED
    BY <1>4, <2>1, <2>2, SameSane DEF SameRecords
<1>8. CASE SnapshotRun(r)
  <2> DEFINE done == Written(P, "run", runRec[r])
  <2>1. FileStep(r, "snapshotRun", "initializing", done, HalfWritten(P, "run"), "snapshotAttempt")
    BY <1>8 DEF SnapshotRun, WriteRecord
  <2>2. OnCourse("snapshotRun", P, life[r], runRec[r], attRec[r], output[r], Verdict(r))
    BY <2>1 DEF FileStep, RunOnCourse
  <2>3. /\ done.run = runRec[r] /\ done.attempt = P.attempt /\ done.journal = P.journal /\ done.tmp = {}
        /\ done \in Payloads
    BY <1>1, <1>2, WrittenType, WrittenRecords
  <2> HIDE DEF done, P
  <2>4. OnCourse("snapshotAttempt", done, life[r], runRec[r], attRec[r], output[r], Verdict(r))
    BY <2>2, <2>3 DEF OnCourse, JournalAt, BeforeJournal, BeforeRunJson, BeforeAttemptJson, RunOver, Closed,
         AttemptAt, AttemptCreated
  <2>5. Forward(P.attempt, done.attempt)
    BY <2>3, ForwardRefl
  <2> QED
    BY <1>5, <1>7, <2>1, <2>3, <2>4, <2>5, FileCourse DEF P
<1>9. CASE SnapshotAttempt(r)
  <2> DEFINE done == Written(P, "attempt", attRec[r])
  <2>1. FileStep(r, "snapshotAttempt", "initializing", done, HalfWritten(P, "attempt"), "toPreparing")
    BY <1>9 DEF SnapshotAttempt, WriteRecord
  <2>2. OnCourse("snapshotAttempt", P, life[r], runRec[r], attRec[r], output[r], Verdict(r))
    BY <2>1 DEF FileStep, RunOnCourse
  <2>3. /\ done.run = P.run /\ done.attempt = attRec[r] /\ done.journal = P.journal /\ done.tmp = {}
        /\ done \in Payloads
    BY <1>1, <1>2, WrittenType, WrittenRecords
  <2> HIDE DEF done, P
  <2>4. OnCourse("toPreparing", done, life[r], runRec[r], attRec[r], output[r], Verdict(r))
    BY <2>2, <2>3 DEF OnCourse, JournalAt, BeforeJournal, BeforeRunJson, BeforeAttemptJson, RunOver, Closed,
         AttemptAt, AttemptCreated
  <2>5. Forward(P.attempt, done.attempt)
    BY <1>4, <2>3 DEF Sane
  <2> QED
    BY <1>5, <1>7, <2>1, <2>3, <2>4, <2>5, FileCourse DEF P
<1> QED
  BY <1>6, <1>8, <1>9

\* A transition keeps the run sane wherever it stops: the lifecycle has moved
\* past the event, and run.json follows only an event that was appended.
LEMMA TransitionSane ==
    ASSUME TypeOK, NEW r \in Runs, SaneRun(r), NEW to \in RunStates, NEW failure \in FailureCodes,
           NEW next, NEW ACTION stop, persist_run_transition(r, to, failure, next, stop)
    PROVE  LET logged == [Payload(r) EXCEPT !.journal = AppendLine(@, TransitionEvent(life[r], to, failure))]
               record == RecordAfter(runRec[r], to, failure)
           IN  /\ SaneRun(r)' /\ Payload(r)'.attempt = Payload(r).attempt
               /\ \/ stop
                  \/ Goto(r, next) /\ Payload(r)' = Written(logged, "run", record) /\ runRec'[r] = record
<1> DEFINE P == Payload(r)
           event == TransitionEvent(life[r], to, failure)
           logged == [P EXCEPT !.journal = AppendLine(@, event)]
           record == RecordAfter(runRec[r], to, failure)
           l == Transitioned(life[r], to)
<1>1. P \in Payloads /\ P.journal \in Lines(Events) /\ id[r] \in RunIds
  BY StoreType DEF Payloads
<1>2. /\ life[r] \in [state : RunStates, next : Nat]
      /\ runRec[r] \in [status : RunStates, failure : FailureCodes]
  BY DEF TypeOK
<1>3. /\ id' = id /\ attRec' = attRec /\ life'[r] = l /\ is_valid_transition(life[r].state, to)
  BY DEF persist_run_transition, TypeOK
<1>4. event \in Events /\ event.seq = life[r].next /\ event.to = to
  BY <1>2 DEF TransitionEvent, Events
<1>5. l \in [state : RunStates, next : Nat] /\ event.seq < l.next /\ l.state = to
  BY <1>2, <1>4 DEF Transitioned
<1>6. life[r].state \notin TerminalStates
  BY <1>3 DEF is_valid_transition, TerminalStates
<1>7. record.status = to
  BY DEF RecordAfter
<1>8. Sane(P, life[r], runRec[r], attRec[r])
  BY DEF SaneRun
<1>9. \A p : Store(r, p) => Payload(r)' = p
  BY <1>1, <1>3 DEF Store, Payload, TypeOK, Dirs
<1>10. TornLine(P.journal, event) \cup {AppendLine(P.journal, event)} \subseteq Lines(Events)
  BY <1>1, <1>4, AppendType
<1>11. \A j \in Lines(Events) : LET q == [P EXCEPT !.journal = j]
         IN  q \in Payloads /\ q.journal = j /\ q.run = P.run /\ q.attempt = P.attempt
  BY <1>1 DEF Payloads
<1>12. logged = [P EXCEPT !.journal = AppendLine(P.journal, event)]
  BY <1>1 DEF Payloads
<1> HIDE DEF P, event, l, record
<1>13. ASSUME NEW j \in TornLine(P.journal, event) \cup {AppendLine(P.journal, event)}
       PROVE  /\ Ordered(j.lines) /\ Behind(j.lines, l) /\ (j.open => j.lines # <<>>)
              /\ \A status : Backed(P.journal, status) => Backed(j, status)
              /\ j = AppendLine(P.journal, event) => Backed(j, to)
  <2>1. /\ Ordered(P.journal.lines) /\ (P.journal.open => P.journal.lines # <<>>)
        /\ \A k \in 1..Len(P.journal.lines) : P.journal.lines[k].whole =>
              P.journal.lines[k].value.seq < event.seq /\ P.journal.lines[k].value.to \notin TerminalStates
    BY <1>4, <1>6, <1>8 DEF Sane, Behind
  <2> QED
    BY <1>1, <1>4, <1>5, <2>1, JournalAppended
<1>14. ASSUME NEW j \in TornLine(P.journal, event)
       PROVE  LET q == [P EXCEPT !.journal = j]
              IN  Sane(q, l, runRec[r], attRec[r]) /\ q.attempt = P.attempt
  BY <1>8, <1>10, <1>11, <1>13 DEF Sane
<1>15. /\ logged \in Payloads /\ logged.journal = AppendLine(P.journal, event)
       /\ logged.run = P.run /\ logged.attempt = P.attempt
  BY <1>10, <1>11, <1>12
<1> HIDE DEF logged
<1>16. ASSUME NEW q, q.journal = logged.journal, q.run = P.run \/ q.run = record, q.attempt = P.attempt
       PROVE  Sane(q, l, record, attRec[r])
  BY <1>7, <1>8, <1>13, <1>15, <1>16 DEF Sane
<1>17. CASE /\ \E j \in TornLine(P.journal, event) : Store(r, [P EXCEPT !.journal = j])
            /\ UNCHANGED runRec
            /\ stop
  <2>1. PICK j \in TornLine(P.journal, event) : Payload(r)' = [P EXCEPT !.journal = j]
    BY <1>9, <1>17
  <2> QED
    BY <1>3, <1>14, <1>17, <2>1 DEF SaneRun, P
<1>18. CASE /\ runRec' = [runRec EXCEPT ![r] = record]
            /\ \/ Store(r, Written(logged, "run", record)) /\ Goto(r, next)
               \/ \E left \in HalfWritten(logged, "run") : Store(r, left) /\ stop
  <2>1. runRec'[r] = record
    BY <1>18 DEF TypeOK
  <2>2. CASE Store(r, Written(logged, "run", record)) /\ Goto(r, next)
    <3>1. Payload(r)' = Written(logged, "run", record)
      BY <1>9, <2>2
    <3>2. /\ Written(logged, "run", record).journal = logged.journal
          /\ Written(logged, "run", record).run = record
          /\ Written(logged, "run", record).attempt = P.attempt
      BY <1>15, WrittenRecords
    <3>3. SaneRun(r)'
      BY <1>3, <1>16, <2>1, <3>1, <3>2 DEF SaneRun
    <3> QED
      BY <2>1, <2>2, <3>1, <3>2, <3>3 DEF P, logged, record, event
  <2>3. CASE \E left \in HalfWritten(logged, "run") : Store(r, left) /\ stop
    <3>1. PICK left \in HalfWritten(logged, "run") : Payload(r)' = left /\ stop
      BY <1>9, <2>3
    <3>2. left.journal = logged.journal /\ left.run = P.run /\ left.attempt = P.attempt
      BY <1>15, <3>1, WrittenRecords
    <3>3. SaneRun(r)'
      BY <1>3, <1>16, <2>1, <3>1, <3>2 DEF SaneRun
    <3> QED
      BY <3>1, <3>2, <3>3 DEF P
  <2> QED
    BY <1>18, <2>2, <2>3
<1> QED
  BY <1>17, <1>18 DEF persist_run_transition, P, logged, record, event

\* A label at which a run has all three records, and one where it goes on to
\* after a transition.
Moves(label, next) ==
    /\ label \in StagingLabels \ (BeforeAttemptJson \cup RunOver)
    /\ next \in StagingLabels \ (BeforeAttemptJson \cup Closed)
    /\ \A result : AttemptAt(label, result) = AttemptAt(next, result)

\* The pairs of labels between which the run moves.
LEMMA LabelsMove ==
    /\ Moves("toPreparing", "attemptPreparing") /\ Moves("toRunning", "attemptRunning")
    /\ Moves("toCollecting", "toFinalizing") /\ Moves("toFinalizing", "toTerminal")
    /\ Moves("toTerminal", "writeValidity")
    /\ {"attemptPreparing", "attemptRunning", "toFinalizing", "toTerminal"} \cap RunOver = {}
    /\ "writeValidity" \in RunOver
BY DEF Moves, StagingLabels, Closed, BeforeJournal, BeforeRunJson, BeforeAttemptJson, RunOver,
   AttemptAt, AttemptCreated, AttemptPrepared, AttemptRuns

\* A transition of an undisturbed run.
LEMMA TransitionCourse ==
    ASSUME TypeOK, TypeOK', NEW r \in Runs, RunOnCourse(r), NEW next, Moves(pc[r], next),
           NEW to \in RunStates, NEW failure \in FailureCodes, NEW at, NEW state,
           to \in TerminalStates <=> next \in RunOver,
           failure = IF next \in RunOver THEN output[r].failure ELSE "none",
           persist_run_transition(r, to, failure, next, Abort(r, at, state))
    PROVE  Good(r)
<1> DEFINE P == Payload(r)
           event == TransitionEvent(life[r], to, failure)
           t == AppendLine(P.journal, event)
           logged == [P EXCEPT !.journal = AppendLine(@, event)]
           record == RecordAfter(runRec[r], to, failure)
           q == Written(logged, "run", record)
<1>1. P \in Payloads /\ P.journal \in Lines(Events)
  BY StoreType DEF Payloads
<1>2. life[r] \in [state : RunStates, next : Nat] /\ pc \in [Runs -> Labels]
  BY DEF TypeOK, Labels
<1>3. OnCourse(pc[r], P, life[r], runRec[r], attRec[r], output[r], Verdict(r))
      /\ pc[r] \in StagingLabels
  BY DEF RunOnCourse, Moves
<1>4. SaneRun(r)
  BY <1>1, <1>2, <1>3, CourseSane DEF SaneRun
<1>5. /\ SaneRun(r)' /\ Payload(r)'.attempt = P.attempt
      /\ \/ Abort(r, at, state)
         \/ Goto(r, next) /\ Payload(r)' = q /\ runRec'[r] = record
  BY <1>4, TransitionSane
<1>6. Forward(P.attempt, Payload(r)'.attempt)
  BY <1>5, ForwardRefl
<1>7. CASE Abort(r, at, state)
  <2>1. pc'[r] \notin StagingLabels
    BY <1>2, <1>7, OffCourse DEF Abort, FailAt
  <2> QED
    BY <1>5, <1>6, <2>1 DEF Good
<1>8. CASE Goto(r, next) /\ Payload(r)' = q /\ runRec'[r] = record
  <2>1. /\ pc'[r] = next /\ UNCHANGED <<id, plan, attRec, output>>
        /\ life'[r] = Transitioned(life[r], to) /\ is_valid_transition(life[r].state, to)
    BY <1>2, <1>8 DEF Goto, persist_run_transition, TypeOK
  <2>2. Verdict(r)' = Verdict(r)
    BY <2>1 DEF Verdict, Validity
  <2>3. /\ ~P.journal.open /\ P.journal.lines # <<>> /\ Chained(P.journal.lines)
        /\ life[r].next = Len(P.journal.lines) + 1 /\ LastEvent(P.journal.lines).to = life[r].state
    BY <1>3 DEF OnCourse, JournalAt, Moves, BeforeAttemptJson, BeforeRunJson
  <2>4. /\ ~t.open /\ t.lines # <<>> /\ Chained(t.lines)
        /\ life'[r].next = Len(t.lines) + 1 /\ life'[r].state = to
        /\ LastEvent(t.lines).to = to /\ LastEvent(t.lines).failure = failure
    BY <1>1, <1>2, <2>1, <2>3, ChainExtended
  <2>5. event \in Events
    BY <1>2 DEF TransitionEvent, Events
  <2>6. t \in Lines(Events)
    BY <1>1, <2>5, AppendType
  <2>7. logged \in Payloads /\ logged.journal = t /\ logged.attempt = P.attempt /\ logged.tmp = P.tmp
    BY <1>1, <2>6 DEF Payloads
  <2> HIDE DEF t, logged
  <2>8. q.journal = t /\ q.run = record /\ q.attempt = P.attempt /\ q.tmp = P.tmp \ {"run"}
    BY <2>7, WrittenRecords
  <2> HIDE DEF q, P
  <2>9. runRec[r].failure = "none" /\ P.tmp = {} /\ attRec[r] = AttemptAt(pc[r], output[r])
        /\ P.attempt = attRec[r]
    BY <1>3 DEF OnCourse, Moves
  <2>10. record = [status |-> to, failure |-> failure]
    BY <2>9 DEF RecordAfter
  <2> HIDE DEF record
  <2>11. JournalAt(next, q.journal, life'[r], record.failure)
    BY <2>4, <2>8, <2>10 DEF JournalAt, Moves, BeforeAttemptJson, BeforeRunJson
  <2>12. attRec[r] = AttemptAt(next, output[r])
    BY <2>9 DEF Moves
  <2>13. next \notin BeforeRunJson /\ next \notin BeforeAttemptJson /\ next \notin Closed
    BY DEF Moves, BeforeAttemptJson
  <2>14. OnCourse(next, q, life'[r], record, attRec[r], output[r], Verdict(r))
    BY <2>4, <2>8, <2>9, <2>10, <2>11, <2>12, <2>13 DEF OnCourse
  <2>15. RunOnCourse(r)'
    BY <1>8, <2>1, <2>2, <2>14 DEF RunOnCourse
  <2> QED
    BY <1>5, <1>6, <2>15 DEF Good, P
<1> QED
  BY <1>5, <1>7, <1>8

\* The five transitions of the pipeline itself.
LEMMA TransitionsGood ==
    ASSUME TypeOK, TypeOK', OutputKnown, NEW r \in Runs, RunOnCourse(r),
           ToPreparing(r) \/ ToRunning(r) \/ ToCollecting(r) \/ ToFinalizing(r) \/ ToTerminal(r)
    PROVE  Good(r)
<1>1. {"preparing", "running", "collecting", "finalizing"} \subseteq RunStates \ TerminalStates
      /\ "none" \in FailureCodes /\ output[r].failure \in FailureCodes
      /\ TerminalStates \subseteq RunStates
  BY DEF RunStates, TerminalStates, FailureCodes, TypeOK, OutputSet
<1>2. CASE ToPreparing(r)
  BY <1>1, <1>2, LabelsMove, TransitionCourse DEF ToPreparing
<1>3. CASE ToRunning(r)
  BY <1>1, <1>3, LabelsMove, TransitionCourse DEF ToRunning
<1>4. CASE ToCollecting(r)
  BY <1>1, <1>4, LabelsMove, TransitionCourse DEF ToCollecting
<1>5. CASE ToFinalizing(r)
  BY <1>1, <1>5, LabelsMove, TransitionCourse DEF ToFinalizing
<1>6. CASE ToTerminal(r)
  <2>1. output[r].terminal \in TerminalStates
    BY <1>6 DEF ToTerminal, OutputKnown, ExecutedLabels
  <2> QED
    BY <1>1, <1>6, <2>1, LabelsMove, TransitionCourse DEF ToTerminal
<1> QED
  BY <1>2, <1>3, <1>4, <1>5, <1>6

\* persist_attempt_status only ever moves attempt.json forward.
LEMMA AttemptsGood ==
    ASSUME TypeOK, TypeOK', OutputKnown, NEW r \in Runs, RunOnCourse(r),
           AttemptPreparing(r) \/ AttemptRunning(r) \/ AttemptTerminal(r)
    PROVE  Good(r)
<1> DEFINE P == Payload(r)
           Three == {"attemptPreparing", "attemptRunning", "attemptTerminal"}
<1>1. P \in Payloads /\ life[r] \in [state : RunStates, next : Nat] /\ pc \in [Runs -> Labels]
  BY StoreType DEF TypeOK, Labels
<1>2. pc[r] \in Three
  BY DEF AttemptPreparing, AttemptRunning, AttemptTerminal
<1>3. OnCourse(pc[r], P, life[r], runRec[r], attRec[r], output[r], Verdict(r)) /\ P.tmp = {}
  BY DEF RunOnCourse, OnCourse
<1>4. Sane(P, life[r], runRec[r], attRec[r])
  BY <1>1, <1>2, <1>3, CourseSane DEF StagingLabels
<1>5. PICK status, failure, at, next :
        /\ status \in AttemptStatuses
        /\ persist_attempt_status(r, at, status, failure, next)
        /\ [status |-> status, failure |-> IF status \in TerminalStates THEN failure ELSE "none"]
             = AttemptAt(next, output[r])
        /\ AttemptRank(AttemptAt(pc[r], output[r]).status) <= AttemptRank(status)
        /\ next \in StagingLabels \ (BeforeAttemptJson \cup RunOver)
  <2>1. CASE AttemptPreparing(r)
    <3>1. persist_attempt_status(r, "preparing", "preparing", "none", "writeProvenance")
          /\ pc[r] = "attemptPreparing"
      BY <2>1 DEF AttemptPreparing
    <3>2. AttemptAt("writeProvenance", output[r]) = [status |-> "preparing", failure |-> "none"]
          /\ AttemptAt("attemptPreparing", output[r]).status = "created"
      BY DEF AttemptAt, AttemptCreated, AttemptPrepared, BeforeAttemptJson, BeforeRunJson, BeforeJournal, Fresh
    <3>3. "writeProvenance" \in StagingLabels \ (BeforeAttemptJson \cup RunOver)
      BY DEF StagingLabels, BeforeAttemptJson, BeforeRunJson, BeforeJournal, RunOver, Closed
    <3>4. "preparing" \in AttemptStatuses \ TerminalStates /\ AttemptRank("created") <= AttemptRank("preparing")
      BY DEF AttemptStatuses, TerminalStates, AttemptRank
    <3> QED
      BY <3>1, <3>2, <3>3, <3>4
  <2>2. CASE AttemptRunning(r)
    <3>1. persist_attempt_status(r, "running", "running", "none", "execute") /\ pc[r] = "attemptRunning"
      BY <2>2 DEF AttemptRunning
    <3>2. AttemptAt("execute", output[r]) = [status |-> "running", failure |-> "none"]
          /\ AttemptAt("attemptRunning", output[r]).status = "preparing"
      BY DEF AttemptAt, AttemptCreated, AttemptPrepared, AttemptRuns, BeforeAttemptJson, BeforeRunJson,
         BeforeJournal
    <3>3. "execute" \in StagingLabels \ (BeforeAttemptJson \cup RunOver)
      BY DEF StagingLabels, BeforeAttemptJson, BeforeRunJson, BeforeJournal, RunOver, Closed
    <3>4. "running" \in AttemptStatuses \ TerminalStates /\ AttemptRank("preparing") <= AttemptRank("running")
      BY DEF AttemptStatuses, TerminalStates, AttemptRank
    <3> QED
      BY <3>1, <3>2, <3>3, <3>4
  <2>3. CASE AttemptTerminal(r)
    <3> DEFINE next == IF output[r].resources THEN "writeResources" ELSE "appendMeasurements"
    <3>1. persist_attempt_status(r, "running", output[r].terminal, output[r].failure, next)
          /\ pc[r] = "attemptTerminal"
      BY <2>3 DEF AttemptTerminal
    <3>2. AttemptAt(next, output[r]) = [status |-> output[r].terminal, failure |-> output[r].failure]
          /\ AttemptAt("attemptTerminal", output[r]).status = "running"
      BY DEF AttemptAt, AttemptCreated, AttemptPrepared, AttemptRuns, BeforeAttemptJson, BeforeRunJson,
         BeforeJournal
    <3>3. next \in StagingLabels \ (BeforeAttemptJson \cup RunOver)
      BY DEF StagingLabels, BeforeAttemptJson, BeforeRunJson, BeforeJournal, RunOver, Closed
    <3>4. output[r].terminal \in TerminalStates
      BY <3>1 DEF OutputKnown, ExecutedLabels
    <3>5. output[r].terminal \in AttemptStatuses
          /\ AttemptRank("running") <= AttemptRank(output[r].terminal)
      BY <3>4 DEF AttemptStatuses, TerminalStates, AttemptRank
    <3> HIDE DEF next
    <3> QED
      BY <3>1, <3>2, <3>3, <3>4, <3>5
  <2> QED
    BY <2>1, <2>2, <2>3
<1> DEFINE record == AttemptAt(next, output[r])
<1>6. /\ P.attempt = attRec[r] /\ attRec[r] = AttemptAt(pc[r], output[r]) /\ attRec[r].failure = "none"
      /\ attRec[r].status \in {"created", "preparing", "running"}
  BY <1>2, <1>3 DEF OnCourse, AttemptAt, AttemptCreated, AttemptPrepared, AttemptRuns, BeforeAttemptJson,
     BeforeRunJson, BeforeJournal, Fresh
<1>7. /\ attRec' = [attRec EXCEPT ![r] = record]
      /\ \/ Store(r, Written(P, "attempt", record)) /\ Goto(r, next)
         \/ \E left \in HalfWritten(P, "attempt") : Store(r, left) /\ Abort(r, at, life[r].state)
      /\ UNCHANGED <<id, plan, life, runRec, output>>
  BY <1>5, <1>6 DEF persist_attempt_status
<1>8. /\ attRec'[r] = record /\ \A p : Store(r, p) => Payload(r)' = p
      /\ Verdict(r)' = Verdict(r)
  BY <1>7 DEF TypeOK, Store, Payload, Dirs, Verdict, Validity
<1>9. Forward(P.attempt, record) /\ Forward(record, record) /\ Forward(P.attempt, P.attempt)
  <2>1. record.status = status
    BY <1>5
  <2> QED
    BY <1>5, <1>6, <2>1, ForwardRefl DEF Forward, TerminalStates
<1> HIDE DEF P, record
<1>10. CASE Store(r, Written(P, "attempt", record)) /\ Goto(r, next)
  <2> DEFINE q == Written(P, "attempt", record)
  <2>1. Payload(r)' = q /\ pc'[r] = next
    BY <1>1, <1>8, <1>10 DEF Goto
  <2>2. q.run = P.run /\ q.attempt = record /\ q.journal = P.journal /\ q.tmp = P.tmp \ {"attempt"}
    BY <1>1, WrittenRecords
  <2> HIDE DEF q
  <2>3. Sane(q, life[r], runRec[r], record)
    BY <1>4, <1>9, <2>2 DEF Sane
  <2>4. pc[r] \notin BeforeAttemptJson \cup RunOver
    BY <1>2 DEF BeforeAttemptJson, BeforeRunJson, BeforeJournal, RunOver, Closed
  <2>5. pc[r] \notin BeforeJournal /\ next \notin BeforeJournal /\ pc[r] \notin BeforeRunJson
        /\ next \notin BeforeRunJson /\ next \notin Closed
    BY <1>5, <2>4 DEF BeforeAttemptJson, BeforeRunJson, RunOver
  <2>6. OnCourse(next, q, life[r], runRec[r], record, output[r], Verdict(r))
    <3>1. JournalAt(next, q.journal, life[r], runRec[r].failure)
      BY <1>3, <2>2, <2>5 DEF OnCourse, JournalAt
    <3> QED
      BY <1>3, <1>5, <2>2, <2>4, <2>5, <3>1 DEF OnCourse, record
  <2>7. RunOnCourse(r)' /\ SaneRun(r)'
    BY <1>7, <1>8, <2>1, <2>3, <2>6 DEF RunOnCourse, SaneRun
  <2> QED
    BY <1>9, <2>1, <2>2, <2>7 DEF Good, P
<1>11. CASE \E left \in HalfWritten(P, "attempt") : Store(r, left) /\ Abort(r, at, life[r].state)
  <2>1. PICK left \in HalfWritten(P, "attempt") : Payload(r)' = left /\ Abort(r, at, life[r].state)
    BY <1>8, <1>11
  <2>2. left.run = P.run /\ left.attempt = P.attempt /\ left.journal = P.journal
    BY <1>1, <2>1, WrittenRecords
  <2>3. pc'[r] \notin StagingLabels
    BY <1>1, <2>1, OffCourse DEF Abort, FailAt
  <2>4. Sane(left, life[r], runRec[r], record)
    BY <1>4, <1>9, <2>2 DEF Sane
  <2>5. SaneRun(r)'
    BY <1>7, <1>8, <2>1, <2>4 DEF SaneRun
  <2> QED
    BY <1>9, <2>1, <2>2, <2>3, <2>5 DEF Good, P
<1> QED
  BY <1>7, <1>10, <1>11

\* A step that leaves the directory's payload alone: it goes on to the next
\* label, or leaves the course.
LEMMA QuietCourse ==
    ASSUME TypeOK, TypeOK', NEW r \in Runs, RunOnCourse(r), pc[r] \in StagingLabels,
           UNCHANGED <<id, plan, life, runRec, attRec>>, Payload(r)' = Payload(r),
           \/ pc'[r] \notin StagingLabels
           \/ output' = output /\ Alongside(pc[r], pc'[r]) /\ (pc'[r] \in Closed => pc[r] \in Closed)
           \/ pc[r] = "execute" /\ pc'[r] \in {"enrichProvenance", "attemptTerminal"}
    PROVE  Good(r)
<1> DEFINE P == Payload(r)
<1>1. P \in Payloads /\ life[r] \in [state : RunStates, next : Nat]
  BY StoreType DEF TypeOK
<1>2. OnCourse(pc[r], P, life[r], runRec[r], attRec[r], output[r], Verdict(r))
  BY DEF RunOnCourse
<1>3. Sane(P, life[r], runRec[r], attRec[r])
  BY <1>1, <1>2, CourseSane
<1>4. SaneRun(r)' /\ Forward(P.attempt, Payload(r)'.attempt)
  BY <1>3, ForwardRefl DEF SaneRun
<1> HIDE DEF P
<1>5. CASE output' = output /\ Alongside(pc[r], pc'[r]) /\ (pc'[r] \in Closed => pc[r] \in Closed)
  <2>1. Verdict(r)' = Verdict(r)
    BY <1>5 DEF Verdict, Validity
  <2>2. JournalAt(pc'[r], P.journal, life[r], runRec[r].failure)
    BY <1>2, <1>5 DEF OnCourse, JournalAt, Alongside
  <2>3. OnCourse(pc'[r], P, life[r], runRec[r], attRec[r], output[r], Verdict(r))
    BY <1>2, <1>5, <2>2 DEF OnCourse, Alongside
  <2>4. RunOnCourse(r)'
    BY <1>5, <2>1, <2>3 DEF RunOnCourse, P
  <2> QED
    BY <1>4, <2>4 DEF Good, P
<1>6. CASE pc[r] = "execute" /\ pc'[r] \in {"enrichProvenance", "attemptTerminal"}
  <2>1. /\ pc[r] \notin BeforeJournal \cup BeforeRunJson \cup BeforeAttemptJson \cup RunOver \cup Closed
        /\ pc'[r] \notin BeforeJournal \cup BeforeRunJson \cup BeforeAttemptJson \cup RunOver \cup Closed
    BY <1>6 DEF BeforeJournal, BeforeRunJson, BeforeAttemptJson, RunOver, Closed
  <2>2. AttemptAt(pc'[r], output'[r]) = AttemptAt(pc[r], output[r])
    BY <1>6 DEF AttemptAt, AttemptCreated, AttemptPrepared, AttemptRuns, BeforeAttemptJson, BeforeRunJson,
       BeforeJournal
  <2>3. JournalAt(pc'[r], P.journal, life[r], runRec[r].failure)
    BY <1>2, <2>1 DEF OnCourse, JournalAt
  <2>4. OnCourse(pc'[r], P, life[r], runRec[r], attRec[r], output'[r], Verdict(r)')
    BY <1>2, <2>1, <2>2, <2>3 DEF OnCourse
  <2>5. RunOnCourse(r)'
    BY <2>4 DEF RunOnCourse, P
  <2> QED
    BY <1>4, <2>5 DEF Good, P
<1> QED
  BY <1>4, <1>5, <1>6 DEF Good, P

\* The steps of an undisturbed run that write no file of the bundle's records.
LEMMA QuietStepsGood ==
    ASSUME TypeOK, TypeOK', NEW r \in Runs, RunOnCourse(r),
           \/ Execute(r) \/ MeasurementsRecorded(r) \/ Checksum(r) \/ Verify(r) \/ CheckDestination(r)
           \/ (Publish(r) /\ staging' = staging)
    PROVE  Good(r)
<1>1. /\ pc \in [Runs -> Labels] /\ id[r] \in RunIds /\ staging[id[r]] \in Dirs
      /\ Payload(r) \in Payloads /\ staging \in [RunIds -> Dirs]
  BY StoreType DEF TypeOK, Labels
<1>2. {"execute", "appendMeasurements", "checksum", "verify", "checkDestination", "publish"}
        \subseteq StagingLabels
  BY DEF StagingLabels
<1>3. CASE Execute(r)
  <2>1. pc[r] = "execute" /\ pc'[r] \in {"enrichProvenance", "attemptTerminal", "crashed"}
        /\ UNCHANGED <<id, plan, life, runRec, attRec, staging>>
    BY <1>1, <1>3 DEF Execute, Goto
  <2>2. Payload(r)' = Payload(r)
    BY <2>1 DEF Payload
  <2> QED
    BY <1>2, <2>1, <2>2, QuietCourse, OffCourse
<1>4. CASE MeasurementsRecorded(r)
  <2>1. /\ pc[r] = "appendMeasurements" /\ pc'[r] \in {"toCollecting", "toFinalizing"}
        /\ UNCHANGED <<id, plan, life, runRec, attRec, output, staging>>
    BY <1>1, <1>4 DEF MeasurementsRecorded, Goto, memory
  <2>2. Payload(r)' = Payload(r) /\ pc'[r] \notin Closed
    BY <2>1 DEF Payload, Closed
  <2> QED
    BY <1>2, <2>1, <2>2, QuietCourse, LabelsAlongside
<1>5. CASE Checksum(r)
  <2>1. /\ pc[r] = "checksum" /\ pc[r] \in Closed
        /\ UNCHANGED <<id, plan, life, runRec, attRec, output>>
    BY <1>5 DEF Checksum, memory, Closed
  <2>2. CASE staging' = [staging EXCEPT ![id[r]] = Checksummed(@)] /\ Goto(r, "verify")
    <3>1. Checksummed(staging[id[r]]).payload = staging[id[r]].payload
      BY <1>1 DEF Checksummed, Dirs
    <3>2. Payload(r)' = Payload(r) /\ pc'[r] = "verify"
      BY <1>1, <2>1, <2>2, <3>1 DEF Payload, Goto
    <3> QED
      BY <1>2, <2>1, <3>2, QuietCourse, LabelsAlongside
  <2>3. CASE /\ \E left \in HalfWritten(Payload(r), "sums") : Store(r, left)
             /\ Abort(r, "checksumming", life[r].state)
    <3>1. PICK left \in HalfWritten(Payload(r), "sums") : Store(r, left)
      BY <2>3
    <3>2. Payload(r)' = left
      BY <1>1, <2>1, <3>1 DEF Store, Payload, Dirs
    <3>3. SameRecords(Payload(r), left)
      BY <1>1, <3>1, WrittenRecords DEF SameRecords
    <3>4. Sane(Payload(r), life[r], runRec[r], attRec[r])
      BY <1>1, <1>2, <2>1, CourseSane DEF RunOnCourse, TypeOK
    <3>5. SaneRun(r)' /\ Forward(Payload(r).attempt, left.attempt)
      BY <2>1, <3>2, <3>3, <3>4, SameSane, ForwardRefl DEF SaneRun, SameRecords
    <3>6. pc'[r] \notin StagingLabels
      BY <1>1, <2>3, OffCourse DEF Abort, FailAt
    <3> QED
      BY <3>2, <3>5, <3>6 DEF Good
  <2> QED
    BY <1>5, <2>2, <2>3 DEF Checksum
<1>6. CASE Verify(r) \/ CheckDestination(r) \/ (Publish(r) /\ staging' = staging)
  <2>1. /\ pc[r] \in {"verify", "checkDestination", "publish"}
        /\ UNCHANGED <<id, plan, life, runRec, attRec, output, staging>>
    BY <1>6 DEF Verify, CheckDestination, Publish, memory
  <2>2. \/ pc'[r] \notin StagingLabels
        \/ pc[r] = "verify" /\ pc'[r] = "checkDestination"
        \/ pc[r] = "checkDestination" /\ pc'[r] = "publish"
    <3>1. "returned" \notin StagingLabels
      BY DEF StagingLabels
    <3> QED
      BY <1>1, <1>6, <3>1, OffCourse DEF Verify, CheckDestination, Publish, Goto, Abort, FailAt
  <2>3. Payload(r)' = Payload(r) /\ pc[r] \in Closed
    BY <2>1 DEF Payload, Closed
  <2> QED
    BY <1>2, <2>1, <2>2, <2>3, QuietCourse, LabelsAlongside
<1> QED
  BY <1>3, <1>4, <1>5, <1>6, Zenon

\* persist_allocated_failure keeps a run sane: its transitions come after all
\* that the journal holds, run.json keeps the status it was given, and
\* attempt.json receives the record the attempt already has.
LEMMA RecoveryGood ==
    ASSUME TypeOK, TypeOK', NEW r \in Runs, SaneRun(r),
           RecoverFinalizing(r) \/ RecoverFailed(r) \/ RecoverRun(r) \/ RecoverAttempt(r)
    PROVE  Good(r)
<1> DEFINE P == Payload(r)
<1>1. /\ pc \in [Runs -> Labels] /\ id[r] \in RunIds /\ staging[id[r]] \in Dirs
      /\ P \in Payloads /\ staging \in [RunIds -> Dirs]
  BY StoreType DEF TypeOK, Labels
<1>2. Sane(P, life[r], runRec[r], attRec[r])
  BY DEF SaneRun
<1>3. {"recoverFailed", "recoverRun", "recoverAttempt", "allocatedError", "crashed"}
        \cap StagingLabels = {}
  BY DEF StagingLabels
<1>4. pc'[r] \in {"recoverFailed", "recoverRun", "recoverAttempt", "allocatedError", "crashed"}
  <2>1. CASE RecoverFinalizing(r)
    BY <1>1, <2>1 DEF RecoverFinalizing, persist_run_transition, Goto, Ignore
  <2>2. CASE RecoverFailed(r)
    BY <1>1, <2>2 DEF RecoverFailed, persist_run_transition, Goto, Ignore
  <2>3. CASE RecoverRun(r)
    BY <1>1, <2>3 DEF RecoverRun, Goto, Ignore
  <2>4. CASE RecoverAttempt(r)
    BY <1>1, <2>4 DEF RecoverAttempt, Goto, Ignore
  <2> QED
    BY <2>1, <2>2, <2>3, <2>4
<1>5. CASE RecoverFinalizing(r)
  <2>1. "finalizing" \in RunStates /\ "none" \in FailureCodes
    BY DEF RunStates, FailureCodes
  <2>2. SaneRun(r)' /\ Payload(r)'.attempt = Payload(r).attempt
    BY <1>5, <2>1, TransitionSane DEF RecoverFinalizing
  <2> QED
    BY <1>3, <1>4, <2>2, ForwardRefl DEF Good
<1>6. CASE RecoverFailed(r)
  <2>1. "failed" \in RunStates /\ AllocatedFailure(r) \in FailureCodes
    BY DEF RunStates, TerminalStates, FailureCodes, AllocatedFailure
  <2>2. SaneRun(r)' /\ Payload(r)'.attempt = Payload(r).attempt
    BY <1>6, <2>1, TransitionSane DEF RecoverFailed
  <2> QED
    BY <1>3, <1>4, <2>2, ForwardRefl DEF Good
<1>7. \A p : Store(r, p) /\ id' = id => Payload(r)' = p
  BY <1>1 DEF Store, Payload, Dirs
<1>8. CASE RecoverRun(r)
  <2> DEFINE record == [runRec[r] EXCEPT !.failure = AllocatedFailure(r)]
  <2>1. UNCHANGED <<id, life, attRec>> /\ runRec'[r] = record
    BY <1>8 DEF RecoverRun, TypeOK
  <2>2. record.status = runRec[r].status
    BY DEF TypeOK
  <2>3. PICK q \in {Written(P, "run", record)} \cup HalfWritten(P, "run") : Payload(r)' = q
    BY <1>7, <1>8, <2>1 DEF RecoverRun
  <2> HIDE DEF record
  <2>4. q.journal = P.journal /\ q.run \in {P.run, record} /\ q.attempt = P.attempt
    BY <1>1, <2>3, WrittenRecords
  <2> HIDE DEF P
  <2>5. Sane(q, life[r], record, attRec[r])
    BY <1>2, <2>2, <2>4 DEF Sane
  <2> QED
    BY <1>3, <1>4, <2>1, <2>3, <2>4, <2>5, ForwardRefl DEF Good, SaneRun, P
<1>9. CASE RecoverAttempt(r)
  <2>1. UNCHANGED <<id, life, runRec, attRec>>
    BY <1>9 DEF RecoverAttempt, memory
  <2>2. PICK q \in {P, Written(P, "attempt", attRec[r])} \cup HalfWritten(P, "attempt") :
          Payload(r)' = q
    BY <1>7, <1>9, <2>1 DEF RecoverAttempt
  <2>3. q.journal = P.journal /\ q.run = P.run /\ q.attempt \in {P.attempt, attRec[r]}
    BY <1>1, <2>2, WrittenRecords
  <2> HIDE DEF P
  <2>4. Forward(P.attempt, q.attempt) /\ Forward(q.attempt, attRec[r])
    BY <1>2, <2>3, ForwardRefl DEF Sane
  <2>5. Sane(q, life[r], runRec[r], attRec[r])
    BY <1>2, <2>3, <2>4 DEF Sane
  <2> QED
    BY <1>3, <1>4, <2>1, <2>2, <2>4, <2>5 DEF Good, SaneRun, P
<1> QED
  BY <1>5, <1>6, <1>8, <1>9

-----------------------------------------------------------------------------
(* The invariant is preserved.                                             *)

\* A step of a run leaves what the others keep in memory alone.
OthersKeep(r) ==
    /\ id' = id /\ plan' = plan
    /\ \A q \in Runs \ {r} : /\ life'[q] = life[q] /\ runRec'[q] = runRec[q]
                             /\ attRec'[q] = attRec[q] /\ output'[q] = output[q]

\* A step of one run leaves what the others hold in memory alone.
LEMMA MemoryFrame ==
    ASSUME TypeOK, NEW r \in Runs, Step(r)
    PROVE  OthersKeep(r)
<1>1. UNCHANGED memory => OthersKeep(r)
  BY DEF memory, OthersKeep
<1>2. CASE \/ Reject(r) \/ Allocate(r) \/ AllocateError(r) \/ AllocateCrash(r)
           \/ MeasurementsRecorded(r) \/ Checksum(r) \/ Verify(r) \/ CheckDestination(r) \/ Publish(r)
           \/ RecoverAttempt(r)
  BY <1>1, <1>2 DEF Reject, Allocate, AllocateError, AllocateCrash, MeasurementsRecorded, Checksum,
     Verify, CheckDestination, Publish, RecoverAttempt
<1>3. CASE \/ MakeAttemptDir(r) \/ WriteExperiment(r) \/ CreateEvents(r) \/ AppendCreated(r)
           \/ CreateMeasurements(r) \/ AppendMeasurement(r)
  BY <1>1, <1>3 DEF MakeAttemptDir, WriteExperiment, CreateEvents, AppendCreated, CreateMeasurements,
     AppendMeasurement, FileStep
<1>4. CASE \/ WritePlan(r) \/ SnapshotRun(r) \/ SnapshotAttempt(r) \/ WriteProvenance(r)
           \/ EnrichProvenance(r) \/ WriteResources(r) \/ WriteValidity(r) \/ WriteSummary(r)
           \/ WriteManifest(r)
  BY <1>1, <1>4 DEF WritePlan, SnapshotRun, SnapshotAttempt, WriteProvenance, EnrichProvenance,
     WriteResources, WriteValidity, WriteSummary, WriteManifest, WriteRecord, FileStep
<1>5. ASSUME NEW to, NEW failure, NEW next, NEW ACTION stop,
             persist_run_transition(r, to, failure, next, stop)
      PROVE  OthersKeep(r)
  <2>1. \A q \in Runs \ {r} : life'[q] = life[q]
    BY <1>5 DEF persist_run_transition, TypeOK
  <2>2. \A q \in Runs \ {r} : runRec'[q] = runRec[q]
    BY <1>5 DEF persist_run_transition, TypeOK
  <2> QED
    BY <1>5, <2>1, <2>2 DEF persist_run_transition, OthersKeep
<1>6. ASSUME NEW at, NEW status, NEW failure, NEW next,
             persist_attempt_status(r, at, status, failure, next)
      PROVE  OthersKeep(r)
  BY <1>6 DEF persist_attempt_status, OthersKeep, TypeOK
<1>7. CASE ToPreparing(r)
  BY <1>5, <1>7 DEF ToPreparing
<1>8. CASE ToRunning(r)
  BY <1>5, <1>8 DEF ToRunning
<1>9. CASE ToCollecting(r)
  BY <1>5, <1>9 DEF ToCollecting
<1>10. CASE ToFinalizing(r)
  BY <1>5, <1>10 DEF ToFinalizing
<1>11. CASE ToTerminal(r)
  BY <1>5, <1>11 DEF ToTerminal
<1>12. CASE RecoverFinalizing(r)
  BY <1>5, <1>12 DEF RecoverFinalizing
<1>13. CASE RecoverFailed(r)
  BY <1>5, <1>13 DEF RecoverFailed
<1>14. CASE AttemptPreparing(r) \/ AttemptRunning(r) \/ AttemptTerminal(r)
  BY <1>6, <1>14 DEF AttemptPreparing, AttemptRunning, AttemptTerminal
<1>15. CASE Execute(r)
  BY <1>15 DEF Execute, OthersKeep, TypeOK
<1>16. CASE RecoverRun(r)
  BY <1>16 DEF RecoverRun, OthersKeep, TypeOK
<1> QED
  BY <1>2, <1>3, <1>4, <1>7, <1>8, <1>9, <1>10, <1>11, <1>12, <1>13, <1>14, <1>15, <1>16 DEF Step

\* Every step inside the staging directory is good for the run that takes it.
LEMMA WorksGood ==
    ASSUME TypeOK, TypeOK', OutputKnown, DirInv, RecordInv, NEW r \in Runs, Step(r), Works(r)
    PROVE  Good(r)
<1>1. pc[r] # "start" /\ pc[r] \in StagingLabels \cup RecoveryLabels
  BY DEF Works, StagingLabels, RecoveryLabels
<1>2. /\ pc[r] \in StagingLabels => RunOnCourse(r)
      /\ pc[r] \in RecoveryLabels => SaneRun(r)
      /\ StagingLabels \cap RecoveryLabels = {}
  BY DEF RecordInv, Staging, Recovering, StagingLabels, RecoveryLabels
<1>3. CASE RecoverFinalizing(r) \/ RecoverFailed(r) \/ RecoverRun(r) \/ RecoverAttempt(r)
  <2>1. pc[r] \in RecoveryLabels
    BY <1>3 DEF RecoverFinalizing, RecoverFailed, RecoverRun, RecoverAttempt, RecoveryLabels
  <2> QED
    BY <1>2, <1>3, <2>1, RecoveryGood
<1>4. CASE ~(RecoverFinalizing(r) \/ RecoverFailed(r) \/ RecoverRun(r) \/ RecoverAttempt(r))
  <2>1. ~(Reject(r) \/ Allocate(r) \/ AllocateError(r) \/ AllocateCrash(r))
    BY <1>1 DEF Reject, Allocate, AllocateError, AllocateCrash
  <2> DEFINE Others == \/ MakeAttemptDir(r) \/ WriteExperiment(r) \/ WritePlan(r) \/ CreateEvents(r)
                       \/ CreateMeasurements(r) \/ WriteProvenance(r) \/ EnrichProvenance(r)
                       \/ WriteResources(r) \/ AppendMeasurement(r)
                       \/ WriteValidity(r) \/ WriteSummary(r) \/ WriteManifest(r)
             Snapshots == AppendCreated(r) \/ SnapshotRun(r) \/ SnapshotAttempt(r)
             Moving == \/ ToPreparing(r) \/ ToRunning(r) \/ ToCollecting(r) \/ ToFinalizing(r)
                       \/ ToTerminal(r)
             Attempts == AttemptPreparing(r) \/ AttemptRunning(r) \/ AttemptTerminal(r)
             Quiet == \/ Execute(r) \/ MeasurementsRecorded(r) \/ Checksum(r) \/ Verify(r)
                      \/ CheckDestination(r) \/ Publish(r)
  <2>2. Others \/ Snapshots \/ Moving \/ Attempts \/ Quiet
    BY <1>4, <2>1 DEF Step
  <2>3. pc[r] \in StagingLabels
    <3>1. CASE Others
      BY <3>1 DEF MakeAttemptDir, WriteExperiment, WritePlan, CreateEvents, CreateMeasurements,
         WriteProvenance, EnrichProvenance, WriteResources, AppendMeasurement, WriteValidity,
         WriteSummary, WriteManifest, WriteRecord, FileStep, StagingLabels
    <3>2. CASE Snapshots
      BY <3>2 DEF AppendCreated, SnapshotRun, SnapshotAttempt, WriteRecord, FileStep, StagingLabels
    <3>3. CASE Moving
      BY <3>3 DEF ToPreparing, ToRunning, ToCollecting, ToFinalizing, ToTerminal, StagingLabels
    <3>4. CASE Attempts
      BY <3>4 DEF AttemptPreparing, AttemptRunning, AttemptTerminal, StagingLabels
    <3>5. CASE Quiet
      BY <3>5 DEF Execute, MeasurementsRecorded, Checksum, Verify, CheckDestination, Publish,
         StagingLabels
    <3> QED
      BY <2>2, <3>1, <3>2, <3>3, <3>4, <3>5
  <2>4. RunOnCourse(r)
    BY <1>2, <2>3
  <2>5. Publish(r) => staging' = staging
    <3>1. staging[id[r]].kind = "bundle" /\ UNCHANGED final /\ id[r] \in RunIds
          /\ final \in [RunIds -> Dirs]
      BY <2>3 DEF DirInv, StagingIsExclusive, Staging, Works, TypeOK
    <3> QED
      BY <3>1 DEF Publish
  <2>6. CASE Others
    BY <2>4, <2>6, OtherFilesGood
  <2>7. CASE Snapshots
    BY <2>4, <2>7, SnapshotsGood
  <2>8. CASE Moving
    BY <2>4, <2>8, TransitionsGood
  <2>9. CASE Attempts
    BY <2>4, <2>9, AttemptsGood
  <2>10. CASE Quiet
    BY <2>4, <2>5, <2>10, QuietStepsGood
  <2> QED
    BY <2>2, <2>6, <2>7, <2>8, <2>9, <2>10
<1> QED
  BY <1>3, <1>4

\* Who is working, what the others see of a step.
Busy(q) == pc[q] \in StagingLabels \cup RecoveryLabels

\* Nor does it touch the staging directory another run works in, which is
\* exclusive.
LEMMA NeighboursKeep ==
    ASSUME TypeOK, DirInv, NEW r \in Runs, Step(r), NEW q \in Runs \ {r}
    PROVE  /\ pc'[q] = pc[q] /\ life'[q] = life[q] /\ runRec'[q] = runRec[q]
           /\ attRec'[q] = attRec[q] /\ output'[q] = output[q] /\ Verdict(q)' = Verdict(q)
           /\ Busy(q) => staging'[id[q]] = staging[id[q]]
<1>1. OthersKeep(r) /\ StepFrame(r)
  BY MemoryFrame, StepsAreFramed
<1>2. /\ pc'[q] = pc[q] /\ life'[q] = life[q] /\ runRec'[q] = runRec[q]
      /\ attRec'[q] = attRec[q] /\ output'[q] = output[q] /\ Verdict(q)' = Verdict(q)
  BY <1>1 DEF OthersKeep, StepFrame, Apart, Verdict, Validity
<1>3. ASSUME Busy(q) PROVE staging'[id[q]] = staging[id[q]]
  <2>1. staging[id[q]].kind = "bundle" /\ staging[id[q]].owner = {q} /\ id[q] \in RunIds
    BY <1>3 DEF Busy, DirInv, StagingIsExclusive, Staging, Recovering, TypeOK
  <2>2. CASE id[q] # id[r]
    BY <1>1, <2>1, <2>2 DEF StepFrame, Apart
  <2>3. CASE id[q] = id[r]
    <3>1. ~Busy(r)
      BY <2>1, <2>3 DEF Busy, DirInv, StagingIsExclusive, Staging, Recovering
    <3>2. EndsUnallocated(r)
      BY <1>1, <2>1, <2>3, <3>1 DEF StepFrame, Allocates, Works, Publishes, Busy, StagingLabels
    <3> QED
      BY <3>2 DEF EndsUnallocated
  <2> QED
    BY <2>2, <2>3
<1> QED
  BY <1>2, <1>3

\* An empty directory shows an ordered journal and no status.
LEMMA EmptyShown == Shown(EmptyPayload)
BY DEF Shown, Ordered, Backed, EmptyPayload, NoLines, NoRecord

\* A run that has just taken its staging directory is on course.
LEMMA AllocatedOnCourse ==
    ASSUME NEW result, NEW verdict
    PROVE  OnCourse("makeAttemptDir", EmptyPayload, NewLifecycle, Fresh, Fresh, result, verdict)
<1>1. JournalAt("makeAttemptDir", EmptyPayload.journal, NewLifecycle, "none")
  BY DEF JournalAt, BeforeJournal, EmptyPayload, NoLines
<1>2. /\ "makeAttemptDir" \in BeforeJournal /\ "makeAttemptDir" \in BeforeRunJson
      /\ "makeAttemptDir" \in BeforeAttemptJson /\ "makeAttemptDir" \in AttemptCreated
      /\ "makeAttemptDir" \notin RunOver /\ "makeAttemptDir" \notin Closed
  BY DEF BeforeJournal, BeforeRunJson, BeforeAttemptJson, AttemptCreated, RunOver, Closed
<1>3. /\ EmptyPayload.tmp = {} /\ EmptyPayload.run = NoRecord /\ EmptyPayload.attempt = NoRecord
      /\ Fresh = [status |-> NewLifecycle.state, failure |-> "none"] /\ Fresh.failure = "none"
  BY DEF EmptyPayload, Fresh, NewLifecycle
<1> QED
  BY <1>1, <1>2, <1>3 DEF OnCourse, AttemptAt

\* The bundle a run is about to rename is complete: what the verifier checked
\* and what an undisturbed run has written add up to the whole story.
LEMMA PublishedComplete ==
    ASSUME TypeOK, DirInv, NEW r \in Runs, pc[r] = "publish", RunOnCourse(r)
    PROVE  Complete(Payload(r)) /\ Payload(r).manifest = Verdict(r)
<1> DEFINE P == Payload(r)
<1>1. OnCourse("publish", P, life[r], runRec[r], attRec[r], output[r], Verdict(r))
  BY DEF RunOnCourse
<1>2. verify_evidence_bundle(staging[id[r]])
  BY DEF DirInv, VerifiedFirst
<1>3. P.run.status = P.manifest.status
  BY <1>2 DEF verify_evidence_bundle, validate_record_consistency, Payload
<1> HIDE DEF P
<1>4. /\ "publish" \notin BeforeJournal /\ "publish" \notin BeforeRunJson
      /\ "publish" \notin BeforeAttemptJson /\ "publish" \in RunOver /\ "publish" \in Closed
  BY DEF BeforeJournal, BeforeRunJson, BeforeAttemptJson, RunOver, Closed
<1>5. AttemptAt("publish", output[r]) = [status |-> output[r].terminal, failure |-> output[r].failure]
  BY DEF AttemptAt, AttemptCreated, AttemptPrepared, AttemptRuns, BeforeAttemptJson, BeforeRunJson,
     BeforeJournal
<1>6. /\ P.tmp = {} /\ P.journal.lines # <<>> /\ Chained(P.journal.lines)
      /\ LastEvent(P.journal.lines).to = life[r].state
      /\ LastEvent(P.journal.lines).failure = runRec[r].failure
      /\ P.manifest = Verdict(r)
  BY <1>1, <1>4 DEF OnCourse, JournalAt
<1>7. /\ P.run = [status |-> life[r].state, failure |-> output[r].failure] /\ P.run = runRec[r]
      /\ P.attempt = [status |-> output[r].terminal, failure |-> output[r].failure]
  BY <1>1, <1>4, <1>5 DEF OnCourse
<1> QED
  BY <1>3, <1>6, <1>7 DEF Complete, P

\* What a run that has not begun may do.
LEMMA StartSteps ==
    ASSUME NEW r \in Runs, Step(r), pc[r] = "start"
    PROVE  Reject(r) \/ Allocate(r) \/ AllocateError(r) \/ AllocateCrash(r)
<1>1. ~(\/ MakeAttemptDir(r) \/ WriteExperiment(r) \/ WritePlan(r) \/ CreateEvents(r)
        \/ AppendCreated(r) \/ CreateMeasurements(r) \/ SnapshotRun(r) \/ SnapshotAttempt(r))
  BY DEF MakeAttemptDir, WriteExperiment, WritePlan, CreateEvents, AppendCreated, CreateMeasurements,
     SnapshotRun, SnapshotAttempt, WriteRecord, FileStep
<1>2. ~(\/ WriteProvenance(r) \/ EnrichProvenance(r) \/ WriteResources(r) \/ AppendMeasurement(r)
        \/ WriteValidity(r) \/ WriteSummary(r) \/ WriteManifest(r))
  BY DEF WriteProvenance, EnrichProvenance, WriteResources, AppendMeasurement, WriteValidity,
     WriteSummary, WriteManifest, WriteRecord, FileStep
<1>3. ~(\/ ToPreparing(r) \/ AttemptPreparing(r) \/ ToRunning(r) \/ AttemptRunning(r) \/ Execute(r)
        \/ AttemptTerminal(r) \/ MeasurementsRecorded(r) \/ ToCollecting(r) \/ ToFinalizing(r)
        \/ ToTerminal(r) \/ Checksum(r) \/ Verify(r) \/ CheckDestination(r) \/ Publish(r)
        \/ RecoverFinalizing(r) \/ RecoverFailed(r) \/ RecoverRun(r) \/ RecoverAttempt(r))
  BY DEF ToPreparing, AttemptPreparing, ToRunning, AttemptRunning, Execute, AttemptTerminal,
     MeasurementsRecorded, ToCollecting, ToFinalizing, ToTerminal, Checksum, Verify,
     CheckDestination, Publish, RecoverFinalizing, RecoverFailed, RecoverRun, RecoverAttempt
<1> QED
  BY <1>1, <1>2, <1>3 DEF Step

\* The records' invariant is preserved by every step of a run.
LEMMA RecordStep ==
    ASSUME TypeOK, TypeOK', OutputKnown, DirInv, RecordInv, NEW r \in Runs, Step(r)
    PROVE  RecordInv'
<1>1. /\ StepFrame(r) /\ id' = id /\ id \in [Runs -> RunIds]
      /\ \A i \in RunIds \ {id[r]} : staging'[i] = staging[i] /\ final'[i] = final[i]
  BY StepsAreFramed DEF StepFrame, Apart, TypeOK
<1>2. ASSUME NEW q \in Runs \ {r}
      PROVE  /\ pc'[q] = "start" => life'[q] = NewLifecycle /\ runRec'[q] = Fresh /\ attRec'[q] = Fresh
             /\ pc'[q] \in StagingLabels => RunOnCourse(q)'
             /\ pc'[q] \in RecoveryLabels => SaneRun(q)'
  <2>1. /\ pc'[q] = pc[q] /\ life'[q] = life[q] /\ runRec'[q] = runRec[q]
        /\ attRec'[q] = attRec[q] /\ output'[q] = output[q] /\ Verdict(q)' = Verdict(q)
        /\ Busy(q) => staging'[id[q]] = staging[id[q]]
    BY NeighboursKeep
  <2>2. Busy(q) => Payload(q)' = Payload(q)
    BY <1>1, <2>1 DEF Payload
  <2>3. pc[q] = "start" => life[q] = NewLifecycle /\ runRec[q] = Fresh /\ attRec[q] = Fresh
    BY DEF RecordInv
  <2>4. pc[q] \in StagingLabels => RunOnCourse(q) /\ Busy(q)
    BY DEF RecordInv, Staging, Busy
  <2>5. pc[q] \in RecoveryLabels => SaneRun(q) /\ Busy(q)
    BY DEF RecordInv, Recovering, Busy
  <2>6. ASSUME pc'[q] \in StagingLabels PROVE RunOnCourse(q)'
    BY <2>1, <2>2, <2>4, <2>6 DEF RunOnCourse
  <2>7. ASSUME pc'[q] \in RecoveryLabels PROVE SaneRun(q)'
    BY <2>1, <2>2, <2>5, <2>7 DEF SaneRun
  <2> QED
    BY <2>1, <2>3, <2>6, <2>7
<1> DEFINE Own == /\ pc'[r] # "start"
                  /\ pc'[r] \in StagingLabels => RunOnCourse(r)'
                  /\ pc'[r] \in RecoveryLabels => SaneRun(r)'
                  /\ Shown(staging'[id[r]].payload) /\ Shown(final'[id[r]].payload)
                  /\ final'[id[r]].kind = "bundle" => Complete(final'[id[r]].payload)
<1>3. ASSUME Own PROVE RecordInv'
  <2>1. \A i \in RunIds : Shown(staging[i].payload) /\ Shown(final[i].payload)
                          /\ (final[i].kind = "bundle" => Complete(final[i].payload))
    BY DEF RecordInv
  <2>2. \A i \in RunIds : Shown(staging'[i].payload) /\ Shown(final'[i].payload)
                          /\ (final'[i].kind = "bundle" => Complete(final'[i].payload))
    BY <1>1, <1>3, <2>1
  <2>3. \A q \in Runs : (pc[q] = "start" =>
          life[q] = NewLifecycle /\ runRec[q] = Fresh /\ attRec[q] = Fresh)'
    BY <1>2, <1>3
  <2>4. \A q \in Runs : (Staging(q) => RunOnCourse(q))'
    BY <1>2, <1>3 DEF Staging
  <2>5. \A q \in Runs : (Recovering(q) => SaneRun(q))'
    BY <1>2, <1>3 DEF Recovering
  <2> QED
    BY <2>2, <2>3, <2>4, <2>5 DEF RecordInv
<1>4. /\ Shown(staging[id[r]].payload) /\ Shown(final[id[r]].payload)
      /\ final[id[r]].kind = "bundle" => Complete(final[id[r]].payload)
      /\ id[r] \in RunIds
  BY <1>1 DEF RecordInv
<1>5. {"rejected", "ioError", "crashed", "returned"} \cap (StagingLabels \cup RecoveryLabels) = {}
      /\ "start" \notin StagingLabels \cup RecoveryLabels /\ "makeAttemptDir" \notin RecoveryLabels
  BY DEF StagingLabels, RecoveryLabels
<1>6. CASE EndsUnallocated(r)
  BY <1>3, <1>4, <1>5, <1>6 DEF EndsUnallocated
<1>7. CASE Allocates(r)
  <2>1. StagingDir(r).payload = EmptyPayload
    BY DEF StagingDir, NoDir
  <2>2. Payload(r)' = EmptyPayload /\ UNCHANGED final
    BY <1>1, <1>7, <2>1 DEF Payload, Allocates
  <2>3. pc'[r] = "makeAttemptDir" => Allocate(r)
    <3>1. pc[r] = "start" /\ pc \in [Runs -> Labels]
      BY <1>7 DEF Allocates, TypeOK, Labels
    <3>2. \/ Reject(r) \/ Allocate(r) \/ AllocateError(r) \/ AllocateCrash(r)
      BY <3>1, StartSteps
    <3> QED
      BY <3>1, <3>2 DEF Reject, AllocateError, AllocateCrash, Goto
  <2>4. ASSUME pc'[r] = "makeAttemptDir" PROVE RunOnCourse(r)'
    <3>1. life' = life /\ runRec' = runRec /\ attRec' = attRec
      BY <2>3, <2>4 DEF Allocate, memory
    <3>2. life[r] = NewLifecycle /\ runRec[r] = Fresh /\ attRec[r] = Fresh
      BY <1>7 DEF Allocates, RecordInv
    <3> QED
      BY <2>2, <2>4, <3>1, <3>2, AllocatedOnCourse DEF RunOnCourse
  <2>5. pc'[r] \in {"makeAttemptDir", "crashed"}
    BY <1>7 DEF Allocates
  <2>6. Shown(staging'[id[r]].payload)
    BY <1>7, <2>1, EmptyShown DEF Allocates
  <2> QED
    BY <1>3, <1>4, <1>5, <2>2, <2>4, <2>5, <2>6
<1>8. CASE Works(r)
  <2>1. Good(r)
    BY <1>8, WorksGood
  <2>2. Payload(r)' = staging'[id[r]].payload
    BY <1>1 DEF Payload
  <2>3. Shown(staging'[id[r]].payload)
    BY <2>1, <2>2 DEF Good, SaneRun, Sane, Shown
  <2>4. pc'[r] # "start" /\ final' = final
    BY <1>5, <1>8 DEF Works
  <2> QED
    BY <1>3, <1>4, <2>1, <2>3, <2>4 DEF Good
<1>9. CASE Publishes(r)
  <2>1. pc[r] = "publish" /\ pc'[r] \in {"returned", "crashed"} /\ final'[id[r]] = staging[id[r]]
        /\ staging'[id[r]] = NoDir
    BY <1>9 DEF Publishes
  <2>2. RunOnCourse(r)
    BY <2>1 DEF RecordInv, Staging, StagingLabels
  <2>3. Complete(final'[id[r]].payload)
    BY <2>1, <2>2, PublishedComplete DEF Payload
  <2>4. NoDir.payload = EmptyPayload
    BY DEF NoDir
  <2> QED
    BY <1>3, <1>4, <1>5, <2>1, <2>3, <2>4, EmptyShown
<1> QED
  BY <1>1, <1>6, <1>7, <1>8, <1>9 DEF StepFrame

\* And by third parties, who only ever change the kind of a free place.
LEMMA RecordForeign ==
    ASSUME TypeOK, RecordInv, NEW i \in RunIds, ForeignCreate(i)
    PROVE  RecordInv'
<1>1. /\ UNCHANGED <<pc, id, plan, life, runRec, attRec, output, staging>>
      /\ \A j \in RunIds \ {i} : final'[j] = final[j]
  BY ForeignFrame
<1>2. final'[i].payload = final[i].payload /\ final'[i].kind # "bundle"
  <2>1. final[i] \in Dirs /\ \E kind \in {"empty", "foreign"} : final'[i] = [final[i] EXCEPT !.kind = kind]
    BY ForeignFrame DEF TypeOK
  <2> QED
    BY <2>1 DEF Dirs
<1>3. \A q \in Runs : /\ (RunOnCourse(q)' <=> RunOnCourse(q)) /\ (SaneRun(q)' <=> SaneRun(q))
                      /\ (Staging(q)' <=> Staging(q)) /\ (Recovering(q)' <=> Recovering(q))
  BY <1>1 DEF RunOnCourse, SaneRun, Payload, Verdict, Validity, Staging, Recovering
<1>4. \A j \in RunIds : /\ Shown(staging[j].payload) /\ Shown(final[j].payload)
                        /\ final[j].kind = "bundle" => Complete(final[j].payload)
  BY DEF RecordInv
<1>5. \A j \in RunIds : /\ Shown(staging'[j].payload) /\ Shown(final'[j].payload)
                        /\ final'[j].kind = "bundle" => Complete(final'[j].payload)
  BY <1>1, <1>2, <1>4
<1> QED
  BY <1>1, <1>3, <1>5 DEF RecordInv

-----------------------------------------------------------------------------
(* Theorems about the records.                                             *)

\* The inductive invariant of the records: a run that nothing has disturbed
\* has exactly the records of its label on disk and in memory, a run that
\* failed is still sane, and what other readers see of either is in order.
THEOREM RecordsInvariant == Spec => []RecordInv
<1>1. Init => RecordInv
  <2> SUFFICES ASSUME Init PROVE RecordInv
    OBVIOUS
  <2>1. \A r \in Runs : /\ pc[r] = "start" /\ ~Staging(r) /\ ~Recovering(r)
                        /\ life[r] = NewLifecycle /\ runRec[r] = Fresh /\ attRec[r] = Fresh
    BY DEF Init, Staging, Recovering, StagingLabels, RecoveryLabels, Fresh
  <2>2. \A i \in RunIds : /\ staging[i].payload = EmptyPayload /\ final[i].payload = EmptyPayload
                          /\ final[i].kind # "bundle"
    BY DEF Init, NoDir
  <2> QED
    BY <2>1, <2>2, EmptyShown DEF RecordInv
<1>2. /\ TypeOK /\ OutputKnown /\ DirInv /\ RecordInv /\ [Next]_vars /\ TypeOK'
      => RecordInv'
  <2> SUFFICES ASSUME TypeOK, OutputKnown, DirInv, RecordInv, [Next]_vars, TypeOK' PROVE RecordInv'
    OBVIOUS
  <2>1. CASE UNCHANGED vars
    <3>1. \A q \in Runs : /\ (RunOnCourse(q)' <=> RunOnCourse(q)) /\ (SaneRun(q)' <=> SaneRun(q))
                          /\ (Staging(q)' <=> Staging(q)) /\ (Recovering(q)' <=> Recovering(q))
      BY <2>1 DEF vars, RunOnCourse, SaneRun, Payload, Verdict, Validity, Staging, Recovering
    <3> QED
      BY <2>1, <3>1 DEF vars, RecordInv
  <2> QED
    BY <2>1, RecordStep, RecordForeign DEF Next, Terminated
<1> QED
  BY <1>1, <1>2, TypeCorrect, DirectoriesInvariant, PTL DEF Spec

\* Whatever append_json_line left behind when it failed, and whatever
\* persist_allocated_failure wrote after it, the readable events of a journal
\* are numbered in increasing order and none follows a terminal one.
THEOREM OrderedJournals == Spec => []JournalIsOrdered
<1>1. RecordInv => JournalIsOrdered
  BY DEF RecordInv, Shown, Ordered, JournalIsOrdered
<1> QED
  BY <1>1, RecordsInvariant, PTL

\* run.json never runs ahead of the journal: persist_run_transition replaces it
\* only after the event was appended, in the closure and in the recovery.  The
\* event has a line of its own, unless the append before it had failed and left
\* a line open; then it stands in that line and can no longer be read back.
THEOREM BackedRunJson == Spec => []RunJsonBackedByJournal
<1>1. RecordInv => RunJsonBackedByJournal
  BY DEF RecordInv, Shown, Backed, Records, RunJsonBackedByJournal
<1> QED
  BY <1>1, RecordsInvariant, PTL

\* Every bundle under runs/ is complete and tells one consistent story, the
\* parts verify_evidence_bundle does not read included: no failed write, crash
\* or competing run gets anything else past the rename.
THEOREM CompletePublications == Spec => []PublishedIsComplete
<1>1. RecordInv /\ PublishedVerifies => PublishedIsComplete
  BY DEF RecordInv, Complete, PublishedVerifies, PublishedIsComplete
<1> QED
  BY <1>1, RecordsInvariant, PublishedVerified, PTL

\* attempt.json only moves forward and never changes once it is terminal:
\* persist_allocated_failure writes back the record the attempt already had.
THEOREM AttemptsOnlyAdvance == Spec => AttemptNeverRewritten
<1> DEFINE Kept == \A i \in RunIds :
                     LET now == staging[i].payload.attempt
                         then == staging'[i].payload.attempt
                     IN  staging[i].kind = "bundle" /\ staging'[i].kind = "bundle" =>
                           /\ AttemptRank(now.status) <= AttemptRank(then.status)
                           /\ now.status \in TerminalStates => then = now
<1>1. TypeOK /\ OutputKnown /\ DirInv /\ RecordInv /\ [Next]_vars /\ TypeOK' => Kept
  <2> SUFFICES ASSUME TypeOK, OutputKnown, DirInv, RecordInv, [Next]_vars, TypeOK', NEW i \in RunIds,
                      staging[i].kind = "bundle", staging'[i].kind = "bundle"
               PROVE  Forward(staging[i].payload.attempt, staging'[i].payload.attempt)
    BY DEF Forward
  <2>1. CASE UNCHANGED staging
    BY <2>1, ForwardRefl
  <2>2. ASSUME NEW r \in Runs, Step(r)
        PROVE  Forward(staging[i].payload.attempt, staging'[i].payload.attempt)
    <3>1. StepFrame(r)
      BY <2>2, StepsAreFramed
    <3>2. CASE i # id[r] \/ EndsUnallocated(r)
      BY <3>1, <3>2, ForwardRefl DEF StepFrame, Apart, EndsUnallocated
    <3>3. CASE i = id[r] /\ (Allocates(r) \/ Publishes(r))
      BY <3>3 DEF Allocates, Publishes, NoDir
    <3>4. CASE i = id[r] /\ Works(r)
      <4>1. Good(r)
        BY <2>2, <3>4, WorksGood
      <4>2. Payload(r)' = staging'[i].payload /\ Payload(r) = staging[i].payload
        BY <3>1, <3>4 DEF Payload, StepFrame, Apart
      <4> QED
        BY <4>1, <4>2 DEF Good
    <3> QED
      BY <3>1, <3>2, <3>3, <3>4 DEF StepFrame
  <2>3. ASSUME NEW j \in RunIds, ForeignCreate(j) PROVE UNCHANGED staging
    BY <2>3 DEF ForeignCreate
  <2> QED
    BY <2>1, <2>2, <2>3 DEF Next, Terminated, vars
<1>2. AttemptNeverRewritten <=> [][Kept]_vars
  BY DEF AttemptNeverRewritten
<1> HIDE DEF Kept
<1> QED
  BY <1>1, <1>2, TypeCorrect, DirectoriesInvariant, RecordsInvariant, PTL DEF Spec

-----------------------------------------------------------------------------
(* The exit status.                                                        *)

\* A step changes the owner of a place only by taking it in staging/ or by
\* moving it to runs/.
LEMMA OwnerStep ==
    ASSUME TypeOK, DirInv, RecordInv, OwnerInv, NEW r \in Runs, Step(r)
    PROVE  OwnerInv'
<1>1. /\ StepFrame(r) /\ id' = id /\ id \in [Runs -> RunIds]
      /\ \A q \in Runs \ {r} : pc'[q] = pc[q]
      /\ \A i \in RunIds \ {id[r]} : staging'[i] = staging[i] /\ final'[i] = final[i]
  BY StepsAreFramed DEF StepFrame, Apart, TypeOK
<1>2. \A q \in Runs \ {r} : Verdict(q)' = Verdict(q)
  BY NeighboursKeep
<1>3. pc[r] \in {"start"} \cup StagingLabels \cup RecoveryLabels
      /\ pc[r] \notin {"returned", "crashed", "allocatedError"}
  BY <1>1 DEF StepFrame, EndsUnallocated, Allocates, Works, Publishes, StagingLabels, RecoveryLabels
<1>4. pc[r] # "start" => OwnedBy(r, staging[id[r]])
  BY <1>3 DEF DirInv, StagingIsExclusive, Staging, Recovering, OwnedBy
<1>5. "start" \notin StagingLabels \cup RecoveryLabels
      /\ {"returned", "allocatedError"} \cap (StagingLabels \cup RecoveryLabels) = {}
  BY DEF StagingLabels, RecoveryLabels
<1>6. \A i \in RunIds : ~OwnedBy(r, final[i])
  BY <1>3 DEF OwnerInv
<1>7. ~OwnedBy(r, NoDir) /\ OwnedBy(r, StagingDir(r)) /\ StagingDir(r).owner = {r} /\ NoDir.kind = "none"
  BY DEF OwnedBy, NoDir, StagingDir
<1>8. \A q \in Runs \ {r}, i \in RunIds :
        /\ OwnedBy(q, staging[i]) => staging'[i] = staging[i]
        /\ OwnedBy(q, staging'[i]) => staging'[i] = staging[i] \/ OwnedBy(q, staging[i])
  <2> SUFFICES ASSUME NEW q \in Runs \ {r}, NEW i \in RunIds, i = id[r]
               PROVE  /\ OwnedBy(q, staging[i]) => staging'[i] = staging[i]
                      /\ OwnedBy(q, staging'[i]) => staging'[i] = staging[i] \/ OwnedBy(q, staging[i])
    BY <1>1
  <2>1. CASE EndsUnallocated(r)
    BY <2>1 DEF EndsUnallocated
  <2>2. CASE Allocates(r)
    BY <1>7, <2>2 DEF Allocates, OwnedBy
  <2>3. CASE Works(r)
    BY <1>3, <1>4, <1>5, <2>3 DEF Works, OwnedBy
  <2>4. CASE Publishes(r)
    BY <1>3, <1>4, <1>5, <1>7, <2>4 DEF Publishes, OwnedBy, StagingLabels
  <2> QED
    BY <1>1, <2>1, <2>2, <2>3, <2>4 DEF StepFrame
<1>9. ASSUME NEW q \in Runs, pc'[q] = "returned"
      PROVE  OwnedBy(q, final'[id'[q]]) /\ final'[id'[q]].payload.manifest = Verdict(q)'
  <2>1. CASE q = r
    <3>1. Publishes(r)
      BY <1>1, <1>5, <1>9, <2>1 DEF StepFrame, EndsUnallocated, Allocates, Works
    <3>2. pc[r] = "publish" /\ final'[id[r]] = staging[id[r]]
      BY <3>1 DEF Publishes
    <3>3. RunOnCourse(r) /\ OwnedBy(r, staging[id[r]])
      BY <1>4, <3>2 DEF RecordInv, Staging, StagingLabels
    <3>4. staging[id[r]].payload.manifest = Verdict(r)
      BY <3>2, <3>3, PublishedComplete DEF Payload
    <3>5. Verdict(r)' = Verdict(r)
      <4>1. ~Execute(r)
        BY <3>2 DEF Execute
      <4>2. output' = output /\ plan' = plan
        BY <4>1, OutputKept, MemoryFrame DEF OthersKeep
      <4> QED
        BY <4>2 DEF Verdict, Validity
    <3> QED
      BY <1>1, <2>1, <3>2, <3>3, <3>4, <3>5
  <2>2. CASE q # r
    <3>1. OwnedBy(q, final[id[q]]) /\ final[id[q]].payload.manifest = Verdict(q) /\ id[q] \in RunIds
      BY <1>1, <1>9, <2>2 DEF OwnerInv
    <3>2. final'[id[q]] = final[id[q]]
      BY <3>1, FinalStep DEF OwnedBy, Next
    <3> QED
      BY <1>1, <1>2, <2>2, <3>1, <3>2
  <2> QED
    BY <2>1, <2>2
<1>10. ASSUME NEW q \in Runs, pc'[q] = "allocatedError" PROVE OwnedBy(q, staging'[id'[q]])
  <2>1. CASE q = r
    <3>1. Works(r)
      BY <1>1, <1>10, <2>1 DEF StepFrame, EndsUnallocated, Allocates, Publishes
    <3> QED
      BY <1>1, <1>3, <1>4, <1>5, <2>1, <3>1 DEF Works, OwnedBy
  <2>2. CASE q # r
    BY <1>1, <1>8, <1>10, <2>2 DEF OwnerInv
  <2> QED
    BY <2>1, <2>2
<1>11. ASSUME NEW q \in Runs, NEW i \in RunIds, OwnedBy(q, final'[i])
       PROVE  i = id'[q] /\ pc'[q] \in {"returned", "crashed"}
  <2>1. CASE final'[i] = final[i]
    BY <1>1, <1>6, <1>11, <2>1 DEF OwnerInv
  <2>2. CASE final'[i] # final[i]
    <3>1. i = id[r] /\ Publishes(r)
      BY <1>1, <2>2 DEF StepFrame, EndsUnallocated, Allocates, Works
    <3>2. OwnedBy(r, final'[i]) /\ pc'[r] \in {"returned", "crashed"}
      BY <1>3, <1>4, <1>5, <3>1 DEF Publishes, StagingLabels
    <3>3. q = r
      BY <1>11, <3>2 DEF OwnedBy
    <3> QED
      BY <1>1, <3>1, <3>2, <3>3
  <2> QED
    BY <2>1, <2>2
<1>12. ASSUME NEW q \in Runs, NEW i \in RunIds, OwnedBy(q, staging'[i])
       PROVE  /\ i = id'[q]
              /\ pc'[q] \in StagingLabels \cup RecoveryLabels \cup {"allocatedError", "crashed"}
  <2>1. CASE q # r
    BY <1>1, <1>8, <1>12, <2>1 DEF OwnerInv
  <2>2. CASE q = r
    <3>1. CASE i # id[r] \/ EndsUnallocated(r)
      <4>1. OwnedBy(r, staging[i])
        BY <1>1, <1>12, <2>2, <3>1 DEF EndsUnallocated
      <4>2. i = id[r] /\ pc[r] # "start"
        BY <1>5, <4>1 DEF OwnerInv
      <4> QED
        BY <3>1, <4>2 DEF EndsUnallocated
    <3>2. CASE i = id[r] /\ (Allocates(r) \/ Works(r))
      <4>1. "makeAttemptDir" \in StagingLabels
        BY DEF StagingLabels
      <4> QED
        BY <1>1, <2>2, <3>2, <4>1 DEF Allocates, Works
    <3>3. CASE i = id[r] /\ Publishes(r)
      BY <1>7, <1>12, <2>2, <3>3 DEF Publishes
    <3> QED
      BY <1>1, <3>1, <3>2, <3>3 DEF StepFrame
  <2> QED
    BY <2>1, <2>2
<1> QED
  BY <1>9, <1>10, <1>11, <1>12 DEF OwnerInv

\* Who owns which directory when a run has ended.
THEOREM OwnersInvariant == Spec => []OwnerInv
<1>1. Init => OwnerInv
  BY DEF Init, OwnerInv, OwnedBy, NoDir
<1>2. TypeOK /\ DirInv /\ RecordInv /\ OwnerInv /\ [Next]_vars => OwnerInv'
  <2> SUFFICES ASSUME TypeOK, DirInv, RecordInv, OwnerInv, [Next]_vars PROVE OwnerInv'
    OBVIOUS
  <2>1. ASSUME NEW i \in RunIds, ForeignCreate(i) PROVE OwnerInv'
    <3>1. /\ UNCHANGED <<pc, id, plan, output, staging>> /\ final[i].kind = "none"
          /\ \A j \in RunIds \ {i} : final'[j] = final[j]
      BY <2>1, ForeignFrame
    <3>2. final'[i].kind # "bundle"
      <4>1. final[i] \in Dirs /\ \E kind \in {"empty", "foreign"} : final'[i] = [final[i] EXCEPT !.kind = kind]
        BY <2>1, ForeignFrame DEF TypeOK
      <4> QED
        BY <4>1 DEF Dirs
    <3>3. \A q \in Runs : Verdict(q)' = Verdict(q) /\ id[q] \in RunIds
      BY <3>1 DEF Verdict, Validity, TypeOK
    <3> QED
      BY <3>1, <3>2, <3>3 DEF OwnerInv, OwnedBy
  <2>2. CASE UNCHANGED vars
    BY <2>2 DEF vars, OwnerInv, OwnedBy, Verdict, Validity
  <2> QED
    BY <2>1, <2>2, OwnerStep DEF Next, Terminated
<1> QED
  BY <1>1, <1>2, TypeCorrect, DirectoriesInvariant, RecordsInvariant, PTL DEF Spec

\* The exit status that run_command derives tells where the evidence is,
\* however many runs share the output root and whatever failed before.
THEOREM ExitCodeIsTrue == Spec => []ExitCodeTellsOutcome
<1>1. TypeOK /\ OwnerInv => ExitCodeTellsOutcome
  <2> SUFFICES ASSUME TypeOK, OwnerInv, NEW r \in Runs, pc[r] \in EndLabels \ {"crashed"}
               PROVE  LET code == ExitCode(r)
                          published == {i \in RunIds : OwnedBy(r, final[i])}
                          staged == {i \in RunIds : OwnedBy(r, staging[i])}
                      IN  CASE code \in {0, 3, 4} ->
                                 /\ published = {id[r]} /\ staged = {}
                                 /\ code = 0 <=> final[id[r]].payload.manifest =
                                                   [status |-> "succeeded", validity |-> "valid"]
                                 /\ code = 4 <=> final[id[r]].payload.manifest.status # "succeeded"
                            [] code = 5 -> published = {} /\ staged = {id[r]}
                            [] OTHER -> published = {} /\ staged = {}
    BY DEF ExitCodeTellsOutcome
  <2> DEFINE published == {i \in RunIds : OwnedBy(r, final[i])}
             staged == {i \in RunIds : OwnedBy(r, staging[i])}
             manifest == final[id[r]].payload.manifest
  <2>1. id[r] \in RunIds
    BY DEF TypeOK
  <2>2. pc[r] \notin {"returned", "crashed"} => published = {}
    BY DEF OwnerInv
  <2>3. pc[r] \notin StagingLabels \cup RecoveryLabels \cup {"allocatedError", "crashed"} => staged = {}
    BY DEF OwnerInv
  <2>4. CASE pc[r] = "returned"
    <3>1. published = {id[r]} /\ manifest = Verdict(r)
      BY <2>1, <2>4 DEF OwnerInv
    <3>2. staged = {}
      BY <2>3, <2>4 DEF StagingLabels, RecoveryLabels
    <3>3. /\ ExitCode(r) \in {0, 3, 4}
          /\ ExitCode(r) = 0 <=> output[r].terminal = "succeeded" /\ Validity(r) = "valid"
          /\ ExitCode(r) = 4 <=> output[r].terminal # "succeeded"
      BY <2>4 DEF ExitCode
    <3>4. /\ manifest = [status |-> "succeeded", validity |-> "valid"]
               <=> output[r].terminal = "succeeded" /\ Validity(r) = "valid"
          /\ manifest.status = output[r].terminal
      BY <3>1 DEF Verdict
    <3> HIDE DEF manifest
    <3> QED
      BY <3>1, <3>2, <3>3, <3>4 DEF manifest
  <2>5. CASE pc[r] = "allocatedError"
    <3>1. staged = {id[r]}
      BY <2>1, <2>5 DEF OwnerInv
    <3>2. ExitCode(r) = 5
      BY <2>5 DEF ExitCode
    <3> QED
      BY <2>2, <2>5, <3>1, <3>2
  <2>6. CASE pc[r] \in {"rejected", "ioError"}
    <3>1. staged = {}
      BY <2>3, <2>6 DEF StagingLabels, RecoveryLabels
    <3>2. ExitCode(r) \in {1, 2}
      BY <2>6 DEF ExitCode
    <3> QED
      BY <2>2, <2>6, <3>1, <3>2
  <2> QED
    BY <2>4, <2>5, <2>6 DEF EndLabels
<1> QED
  BY <1>1, TypeCorrect, OwnersInvariant, PTL

-----------------------------------------------------------------------------
(* A run that nothing disturbed is accepted: what it has staged.           *)

\* The labels of a run by what it has not done yet.
BeforeExperiment == {"makeAttemptDir", "writeExperiment"}
BeforePlan == BeforeExperiment \cup {"writePlan"}
BeforeEvents == BeforePlan \cup {"createEvents"}
BeforeMeasurements == BeforeEvents \cup {"appendCreated", "createMeasurements"}
BeforeProvenance == BeforeMeasurements \cup
    {"snapshotRun", "snapshotAttempt", "toPreparing", "attemptPreparing", "writeProvenance"}
BeforeOutput == BeforeProvenance \cup {"toRunning", "attemptRunning", "execute"}
BeforeResources == BeforeOutput \cup {"enrichProvenance", "attemptTerminal", "writeResources"}

\* The files that are there whatever the attempt returns.
InputsAt(label, p, chosen) ==
    /\ label \notin BeforeExperiment => p.experiment = "written"
    /\ label \notin BeforePlan => p.plan = chosen
    /\ label \notin BeforeEvents => p.journal.exists
    /\ label \notin BeforeMeasurements => p.measurements.exists

\* The measurements: one whole line for each that was appended so far.
LinesAt(label, file, values) ==
    /\ ~file.open
    /\ label \in BeforeResources => file.lines = <<>>
    /\ label \notin BeforeResources =>
          /\ Len(file.lines) <= Len(values)
          /\ \A k \in 1..Len(file.lines) : file.lines[k] = [whole |-> TRUE, value |-> values[k], joined |-> {}]
          /\ label # "appendMeasurements" => Len(file.lines) = Len(values)

\* Provenance and resources, as far as the attempt had any to add.
FactsAt(label, p, result) ==
    /\ p.provenance = IF label \in BeforeProvenance THEN "absent"
                      ELSE IF label \in BeforeOutput \cup {"enrichProvenance"} \/ ~result.nvidia
                           THEN "host" ELSE "nvidia"
    /\ label = "enrichProvenance" => result.nvidia
    /\ label = "writeResources" => result.resources
    /\ p.resources # "absent" => label \notin BeforeResources /\ result.resources

\* The outcome and what is derived from it.
OutcomeAt(label, p, chosen, result, state) ==
    /\ label \notin BeforeOutput => result \in Outputs(chosen)
    /\ label \in RunOver => state = result.terminal
    /\ label \in RunOver \ {"writeValidity"} => p.validity = evaluate_validity(chosen, result)
    /\ label \in Closed \cup {"writeManifest"} =>
          p.summary = summarize(result, evaluate_validity(chosen, result))

FilesAt(label, p, chosen, result, state) ==
    /\ InputsAt(label, p, chosen)
    /\ LinesAt(label, p.measurements, result.measurements)
    /\ FactsAt(label, p, result)
    /\ OutcomeAt(label, p, chosen, result, state)

\* What a run has staged, and at "verify" the list of it.
RunFiles(r) ==
    /\ FilesAt(pc[r], Payload(r), plan[r], output[r], life[r].state)
    /\ pc[r] = "verify" => staging[id[r]].sums = [listed |-> TRUE, payload |-> Payload(r)]

\* The three reasons to refuse a run on which no operation failed.
Excused(r) ==
    \/ final[id[r]].kind # "none"
    \/ \E k \in DOMAIN output[r].measurements : ~output[r].measurements[k].sound
    \/ plan[r].oversized # {}

Refusing == RecoveryLabels \cup {"allocatedError"}

AcceptInv ==
    /\ \A r \in Runs : pc[r] \in StagingLabels => RunFiles(r)
    /\ \A r \in Runs : pc[r] \in Refusing /\ faults = 0 => Excused(r)

-----------------------------------------------------------------------------
(* The verifier accepts what every output amounts to.                      *)

\* The protocol has as many measured records as there are after the warmups.
LEMMA ProtocolMeasured ==
    ASSUME NEW chosen \in PlanSet, NEW m \in Nat, NEW sound
    PROVE  /\ Len(Protocol(chosen, chosen.warmups + m, sound)) = chosen.warmups + m
           /\ \A k \in 1..Len(Protocol(chosen, chosen.warmups + m, sound)) :
                 Protocol(chosen, chosen.warmups + m, sound)[k] = RecordAt(chosen, k, sound)
           /\ Measured(Protocol(chosen, chosen.warmups + m, sound)) = m
<1> DEFINE w == chosen.warmups
           records == Protocol(chosen, chosen.warmups + m, sound)
<1>1. w \in Nat /\ w + m \in Nat
  BY DEF PlanSet
<1>2. Len(records) = w + m /\ \A k \in 1..(w + m) : records[k] = RecordAt(chosen, k, sound)
  BY <1>1 DEF Protocol
<1> HIDE DEF records
<1>3. ASSUME NEW k \in 1..(w + m) PROVE records[k].phase = "measured" <=> k > w
  <2>1. RecordAt(chosen, k, sound).phase = IF k <= w THEN "warmup" ELSE "measured"
    BY DEF RecordAt
  <2>2. records[k].phase = IF k <= w THEN "warmup" ELSE "measured"
    BY <1>2, <2>1
  <2> HIDE DEF w
  <2> QED
    BY <1>1, <2>2
<1> HIDE DEF w
<1>4. {k \in 1..Len(records) : records[k].phase = "measured"} = (w + 1)..(w + m)
  BY <1>1, <1>2, <1>3
<1>5. Cardinality((w + 1)..(w + m)) = m
  BY <1>1, FS_Interval
<1>6. Measured(records) = m
  BY <1>4, <1>5 DEF Measured
<1> QED
  BY <1>2, <1>6 DEF records, w

\* Every output whose records agree with themselves is one of those that
\* expected_measurement_counts has in mind for its status.
LEMMA OutputExpected ==
    ASSUME NEW chosen \in PlanSet, NEW result \in Outputs(chosen),
           \A k \in DOMAIN result.measurements : result.measurements[k].sound
    PROVE  /\ result.terminal \in TerminalStates
           /\ \E expected \in expected_measurement_counts(chosen, result.terminal) :
                 /\ expected.warmups \in Nat /\ expected.measured \in Nat
                 /\ Len(result.measurements) = expected.warmups + expected.measured
                 /\ \A k \in 1..Len(result.measurements) :
                       result.measurements[k] = RecordAt(chosen, k, TRUE)
                 /\ Measured(result.measurements) = expected.measured
<1> DEFINE Expect(scenario, terminal, warmups, measured) ==
               [scenario |-> scenario, status |-> terminal, warmups |-> warmups, measured |-> measured]
           prefix == LesserOf(chosen.repetitions - 1, 1)
<1>1. /\ chosen.warmups \in Nat /\ chosen.repetitions \in Nat /\ chosen.repetitions - 1 \in Nat
      /\ prefix \in Nat
  BY DEF PlanSet, LesserOf
<1>2. CASE chosen.runtime = "localFake"
  <2> DEFINE m == LocalFakeMeasured(chosen)
             e == Expect(chosen.scenario, result.terminal, chosen.warmups, m)
  <2>1. result = LocalFakeOutput(chosen) /\ chosen.scenario \in Scenarios
    BY <1>2 DEF Outputs, PlanSet, HelperRuntimes
  <2>2. m \in Nat
    BY <1>1, <2>1 DEF LocalFakeMeasured, Scenarios
  <2>3. /\ result.measurements = Protocol(chosen, chosen.warmups + m, TRUE)
        /\ result.terminal = LocalFakeTerminal(chosen)
    BY <2>1 DEF LocalFakeOutput
  <2>4. e \in expected_measurement_counts(chosen, result.terminal)
    BY <2>1, <2>3 DEF expected_measurement_counts, LocalFakeMeasured, LocalFakeTerminal, Scenarios
  <2>5. result.terminal \in TerminalStates
    BY <2>3 DEF LocalFakeTerminal, TerminalStates
  <2>6. e.warmups = chosen.warmups /\ e.measured = m
    OBVIOUS
  <2> HIDE DEF e, m
  <2>7. /\ Len(result.measurements) = chosen.warmups + m
        /\ \A k \in 1..Len(result.measurements) : result.measurements[k] = RecordAt(chosen, k, TRUE)
        /\ Measured(result.measurements) = m
    <3> DEFINE records == Protocol(chosen, chosen.warmups + m, TRUE)
    <3>1. /\ Len(records) = chosen.warmups + m
          /\ \A k \in 1..Len(records) : records[k] = RecordAt(chosen, k, TRUE)
          /\ Measured(records) = m
      BY <2>2, ProtocolMeasured, Zenon
    <3> HIDE DEF records
    <3>2. result.measurements = records
      BY <2>3, Zenon DEF records
    <3> QED
      BY <3>1, <3>2, Zenon
  <2> QED
    BY <1>1, <2>2, <2>4, <2>5, <2>6, <2>7
<1>3. CASE chosen.runtime # "localFake"
  <2>1. result \in HelperOutputs(chosen) /\ chosen.scenario = "none"
    BY <1>3 DEF Outputs, PlanSet
  <2>2. CASE result.terminal = "succeeded"
    <3> DEFINE e == Expect("none", "succeeded", chosen.warmups, chosen.repetitions)
    <3>1. \/ result.measurements = Protocol(chosen, chosen.warmups + chosen.repetitions, TRUE)
          \/ result.measurements = Protocol(chosen, chosen.warmups + chosen.repetitions, FALSE)
      <4>1. PICK sound \in BOOLEAN :
              result.measurements = Protocol(chosen, chosen.warmups + chosen.repetitions, sound)
        BY <2>1, <2>2 DEF HelperOutputs
      <4>2. CASE sound = TRUE
        BY <4>1, <4>2, Zenon
      <4>3. CASE sound = FALSE
        BY <4>1, <4>3, Zenon
      <4> QED
        BY <4>2, <4>3
    <3>2. result.measurements # Protocol(chosen, chosen.warmups + chosen.repetitions, FALSE)
      <4> SUFFICES ASSUME result.measurements = Protocol(chosen, chosen.warmups + chosen.repetitions, FALSE)
                   PROVE  FALSE
        OBVIOUS
      <4>1. 1 \in 1..(chosen.warmups + chosen.repetitions)
        BY <1>1
      <4>2. 1 \in DOMAIN result.measurements /\ result.measurements[1] = RecordAt(chosen, 1, FALSE)
        BY <4>1 DEF Protocol
      <4>3. ~RecordAt(chosen, 1, FALSE).sound
        BY DEF RecordAt
      <4> QED
        BY <4>2, <4>3
    <3>3. /\ Len(result.measurements) = chosen.warmups + chosen.repetitions
          /\ \A k \in 1..Len(result.measurements) :
                result.measurements[k] = RecordAt(chosen, k, TRUE)
          /\ Measured(result.measurements) = chosen.repetitions
      <4> DEFINE m == chosen.repetitions
                 records == Protocol(chosen, chosen.warmups + m, TRUE)
      <4>1. m \in Nat
        BY <1>1
      <4>2. result.measurements = records
        BY <3>1, <3>2, Zenon
      <4> HIDE DEF m
      <4>3. /\ Len(records) = chosen.warmups + m
            /\ \A k \in 1..Len(records) : records[k] = RecordAt(chosen, k, TRUE)
            /\ Measured(records) = m
        BY <4>1, ProtocolMeasured, Zenon
      <4> HIDE DEF records
      <4> QED
        BY <4>2, <4>3, Zenon DEF m
    <3>4. e \in expected_measurement_counts(chosen, result.terminal)
      BY <2>1, <2>2 DEF expected_measurement_counts
    <3>5. e.warmups = chosen.warmups /\ e.measured = chosen.repetitions
      OBVIOUS
    <3>6. result.terminal \in TerminalStates
      BY <2>2 DEF TerminalStates
    <3> HIDE DEF e
    <3> QED
      BY <1>1, <3>3, <3>4, <3>5, <3>6
  <2>3. CASE result.terminal # "succeeded"
    <3> DEFINE e == Expect("none", "failed", 0, 0)
    <3>1. result.measurements = <<>> /\ result.terminal = "failed"
      BY <2>1, <2>3 DEF HelperOutputs
    <3>2. e \in expected_measurement_counts(chosen, result.terminal)
      BY <2>1, <3>1 DEF expected_measurement_counts
    <3>3. Measured(result.measurements) = 0 /\ Len(result.measurements) = 0
      <4>1. {k \in 1..Len(<<>>) : <<>>[k].phase = "measured"} = {}
        OBVIOUS
      <4> QED
        BY <3>1, <4>1, FS_EmptySet DEF Measured
    <3>4. e.warmups = 0 /\ e.measured = 0 /\ result.terminal \in TerminalStates
      BY <3>1 DEF TerminalStates
    <3> HIDE DEF e
    <3> QED
      BY <3>2, <3>3, <3>4
  <2> QED
    BY <2>2, <2>3
<1> QED
  BY <1>2, <1>3

\* Which runtimes have facts of a device or of a child process, and when.
LEMMA OutputFacts ==
    ASSUME NEW chosen \in PlanSet, NEW result \in Outputs(chosen)
    PROVE  /\ result.nvidia => chosen.runtime = "llamaCppCuda"
           /\ chosen.runtime = "llamaCppCuda" /\ result.terminal = "succeeded" => result.nvidia
           /\ result.resources => chosen.runtime \in HelperRuntimes
           /\ chosen.runtime # "absent"
<1>1. CASE chosen.runtime = "localFake"
  BY <1>1 DEF Outputs, LocalFakeOutput
<1>2. CASE chosen.runtime # "localFake"
  <2>1. chosen.runtime \in HelperRuntimes /\ result \in HelperOutputs(chosen)
    BY <1>2 DEF PlanSet, Outputs
  <2>2. chosen.runtime # "absent"
    BY <2>1 DEF HelperRuntimes
  <2>3. \/ result.nvidia = (chosen.runtime = "llamaCppCuda")
        \/ result.nvidia = FALSE /\ result.terminal = "failed"
    BY <2>1 DEF HelperOutputs
  <2> QED
    BY <2>1, <2>2, <2>3
<1> QED
  BY <1>1, <1>2

\* verify_evidence_bundle accepts what an undisturbed run has staged, unless
\* the records of the helper contradict themselves or a file of the request is
\* longer than the verifier reads.
LEMMA UndisturbedVerifies ==
    ASSUME TypeOK, NEW r \in Runs, pc[r] = "verify", RunOnCourse(r), RunFiles(r),
           \A k \in DOMAIN output[r].measurements : output[r].measurements[k].sound,
           plan[r].oversized = {}
    PROVE  verify_evidence_bundle(staging[id[r]])
<1> DEFINE P == Payload(r)
           chosen == plan[r]
           result == output[r]
           verdict == evaluate_validity(chosen, result)
<1>1. chosen \in PlanSet /\ P \in Payloads
  BY ConstantsAssumption, StoreType DEF TypeOK
<1>2. /\ "verify" \in RunOver /\ "verify" \in Closed /\ "verify" # "writeValidity"
      /\ "verify" # "appendMeasurements" /\ "verify" # "enrichProvenance"
      /\ "verify" \notin BeforeResources /\ "verify" \notin BeforeOutput
      /\ "verify" \notin BeforeProvenance /\ "verify" \notin BeforeMeasurements
      /\ "verify" \notin BeforeEvents /\ "verify" \notin BeforePlan /\ "verify" \notin BeforeExperiment
      /\ "verify" \notin BeforeJournal /\ "verify" \notin BeforeRunJson
      /\ "verify" \notin BeforeAttemptJson /\ "verify" \notin AttemptCreated
      /\ "verify" \notin AttemptPrepared /\ "verify" \notin AttemptRuns
  BY DEF RunOver, Closed, BeforeResources, BeforeOutput, BeforeProvenance, BeforeMeasurements,
     BeforeEvents, BeforePlan, BeforeExperiment, BeforeJournal, BeforeRunJson, BeforeAttemptJson,
     AttemptCreated, AttemptPrepared, AttemptRuns
<1>3. FilesAt("verify", P, chosen, result, life[r].state)
      /\ staging[id[r]].sums = [listed |-> TRUE, payload |-> P]
  BY DEF RunFiles
<1>4. OnCourse("verify", P, life[r], runRec[r], attRec[r], result, Verdict(r))
  BY DEF RunOnCourse
<1> HIDE DEF P
<1>5. /\ P.experiment = "written" /\ P.plan = chosen /\ P.journal.exists /\ P.measurements.exists
      /\ result \in Outputs(chosen) /\ life[r].state = result.terminal /\ P.validity = verdict
      /\ P.summary = summarize(result, verdict)
  BY <1>2, <1>3 DEF FilesAt, InputsAt, OutcomeAt
<1>6. /\ ~P.measurements.open /\ Len(P.measurements.lines) = Len(result.measurements)
      /\ \A k \in 1..Len(P.measurements.lines) :
            P.measurements.lines[k] = [whole |-> TRUE, value |-> result.measurements[k], joined |-> {}]
  BY <1>2, <1>3 DEF FilesAt, LinesAt
<1>7. /\ P.provenance = IF result.nvidia THEN "nvidia" ELSE "host"
      /\ P.resources # "absent" => result.resources
  BY <1>2, <1>3 DEF FilesAt, FactsAt
<1>8. /\ P.manifest = [status |-> result.terminal, validity |-> verdict]
      /\ P.run.status = result.terminal /\ P.attempt.status = result.terminal
      /\ Chained(P.journal.lines)
  BY <1>2, <1>4, <1>5 DEF OnCourse, JournalAt, AttemptAt, Verdict, Validity
<1>9. /\ result.terminal \in TerminalStates
      /\ \E expected \in expected_measurement_counts(chosen, result.terminal) :
            /\ expected.warmups \in Nat /\ expected.measured \in Nat
            /\ Len(result.measurements) = expected.warmups + expected.measured
            /\ \A k \in 1..Len(result.measurements) :
                  result.measurements[k] = RecordAt(chosen, k, TRUE)
            /\ Measured(result.measurements) = expected.measured
  BY <1>1, <1>5, OutputExpected
<1>10. PICK expected \in expected_measurement_counts(chosen, result.terminal) :
            /\ expected.warmups \in Nat /\ expected.measured \in Nat
            /\ Len(result.measurements) = expected.warmups + expected.measured
            /\ \A k \in 1..Len(result.measurements) :
                  result.measurements[k] = RecordAt(chosen, k, TRUE)
            /\ Measured(result.measurements) = expected.measured
  BY <1>9
<1>11. P.manifest.status = result.terminal /\ P.manifest.validity = verdict
  BY <1>8
<1>12. validate_measurements(P, expected)
  BY <1>5, <1>6, <1>10 DEF validate_measurements
<1>13. validate_attempt_facts(P)
  BY <1>1, <1>5, <1>7, <1>11, OutputFacts DEF validate_attempt_facts
<1>14. verdict = IF result.terminal # "succeeded" THEN "indeterminate"
                 ELSE IF expected.measured >= chosen.repetitions THEN "valid" ELSE "invalid"
  BY <1>10 DEF evaluate_validity
<1>15. \A k \in 1..Len(P.journal.lines) : P.journal.lines[k].whole
  BY <1>8 DEF Chained
<1>16. P.summary = [status |-> result.terminal, validity |-> verdict, samples |-> expected.measured,
                    described |-> expected.measured > 0 /\ verdict # "indeterminate"]
  BY <1>5, <1>10 DEF summarize
<1>17. validate_required_payloads(P)
  <2>1. "absent" \notin TerminalStates /\ chosen.runtime # "absent"
    BY <1>1, <1>5, OutputFacts DEF TerminalStates
  <2>2. verdict # "absent" /\ P.summary.status = result.terminal
    BY <1>14, <1>16
  <2> HIDE DEF verdict
  <2> QED
    BY <1>5, <1>8, <1>9, <1>11, <2>1, <2>2 DEF validate_required_payloads
<1> HIDE DEF verdict
<1>18. validate_record_consistency(P)
  BY <1>5, <1>8, <1>10, <1>11, <1>12, <1>13, <1>14, <1>15, <1>16 DEF validate_record_consistency
<1>19. retained_within_limits(P)
  BY <1>5 DEF retained_within_limits
<1> QED
  BY <1>3, <1>9, <1>11, <1>17, <1>18, <1>19 DEF verify_evidence_bundle, P, Payload

-----------------------------------------------------------------------------
(* How the files of a run grow from label to label.                        *)

\* The files that FilesAt speaks of are the same in both payloads, but for one.
SameBut(file, p, q) ==
    /\ file # "experiment" => q.experiment = p.experiment
    /\ file # "plan" => q.plan = p.plan
    /\ file # "journal" => q.journal.exists = p.journal.exists
    /\ file # "measurements" => q.measurements = p.measurements
    /\ file # "provenance" => q.provenance = p.provenance
    /\ file # "resources" => q.resources = p.resources
    /\ file # "validity" => q.validity = p.validity
    /\ file # "summary" => q.summary = p.summary

\* What write_json_atomic does to the files: it writes one of them.
LEMMA WrittenFiles ==
    ASSUME NEW p \in Payloads, NEW c,
           NEW f \in {"plan", "run", "attempt", "provenance", "resources", "validity", "summary",
                      "manifest"}
    PROVE  LET q == Written(p, f, c)
           IN  /\ SameBut(f, p, q)
               /\ f = "plan" => q.plan = c
               /\ f = "provenance" => q.provenance = c
               /\ f = "resources" => q.resources = c
               /\ f = "validity" => q.validity = c
               /\ f = "summary" => q.summary = c
BY DEF Written, Payloads, SameBut

\* The steps that write none of these files.
LEMMA SameFilesLead ==
    ASSUME NEW p, NEW q, SameBut("none", p, q), NEW c, NEW o, NEW s, NEW t
    PROVE  /\ FilesAt("makeAttemptDir", p, c, o, s) => FilesAt("writeExperiment", q, c, o, s)
           /\ FilesAt("appendCreated", p, c, o, s) => FilesAt("createMeasurements", q, c, o, s)
           /\ FilesAt("snapshotRun", p, c, o, s) => FilesAt("snapshotAttempt", q, c, o, s)
           /\ FilesAt("snapshotAttempt", p, c, o, s) => FilesAt("toPreparing", q, c, o, s)
           /\ FilesAt("toPreparing", p, c, o, s) => FilesAt("attemptPreparing", q, c, o, t)
           /\ FilesAt("attemptPreparing", p, c, o, s) => FilesAt("writeProvenance", q, c, o, s)
           /\ FilesAt("toRunning", p, c, o, s) => FilesAt("attemptRunning", q, c, o, t)
           /\ FilesAt("attemptRunning", p, c, o, s) => FilesAt("execute", q, c, o, s)
           /\ FilesAt("toCollecting", p, c, o, s) => FilesAt("toFinalizing", q, c, o, t)
           /\ FilesAt("toFinalizing", p, c, o, s) => FilesAt("toTerminal", q, c, o, t)
           /\ FilesAt("toTerminal", p, c, o, s) => FilesAt("writeValidity", q, c, o, o.terminal)
           /\ FilesAt("writeManifest", p, c, o, s) => FilesAt("checksum", q, c, o, s)
           /\ FilesAt("checksum", p, c, o, s) => FilesAt("verify", q, c, o, s)
           /\ FilesAt("verify", p, c, o, s) => FilesAt("checkDestination", q, c, o, s)
           /\ FilesAt("checkDestination", p, c, o, s) => FilesAt("publish", q, c, o, s)
<1> USE DEF FilesAt, InputsAt, LinesAt, FactsAt, OutcomeAt, SameBut, BeforeExperiment, BeforePlan,
        BeforeEvents, BeforeMeasurements, BeforeProvenance, BeforeOutput, BeforeResources, RunOver, Closed
<1>1. /\ FilesAt("makeAttemptDir", p, c, o, s) => FilesAt("writeExperiment", q, c, o, s)
      /\ FilesAt("appendCreated", p, c, o, s) => FilesAt("createMeasurements", q, c, o, s)
      /\ FilesAt("snapshotRun", p, c, o, s) => FilesAt("snapshotAttempt", q, c, o, s)
  OBVIOUS
<1>2. /\ FilesAt("snapshotAttempt", p, c, o, s) => FilesAt("toPreparing", q, c, o, s)
      /\ FilesAt("toPreparing", p, c, o, s) => FilesAt("attemptPreparing", q, c, o, t)
      /\ FilesAt("attemptPreparing", p, c, o, s) => FilesAt("writeProvenance", q, c, o, s)
  OBVIOUS
<1>3. /\ FilesAt("toRunning", p, c, o, s) => FilesAt("attemptRunning", q, c, o, t)
      /\ FilesAt("attemptRunning", p, c, o, s) => FilesAt("execute", q, c, o, s)
  OBVIOUS
<1>4. /\ FilesAt("toCollecting", p, c, o, s) => FilesAt("toFinalizing", q, c, o, t)
      /\ FilesAt("toFinalizing", p, c, o, s) => FilesAt("toTerminal", q, c, o, t)
      /\ FilesAt("toTerminal", p, c, o, s) => FilesAt("writeValidity", q, c, o, o.terminal)
  OBVIOUS
<1>5. /\ FilesAt("writeManifest", p, c, o, s) => FilesAt("checksum", q, c, o, s)
      /\ FilesAt("checksum", p, c, o, s) => FilesAt("verify", q, c, o, s)
  OBVIOUS
<1>6. /\ FilesAt("verify", p, c, o, s) => FilesAt("checkDestination", q, c, o, s)
      /\ FilesAt("checkDestination", p, c, o, s) => FilesAt("publish", q, c, o, s)
  OBVIOUS
<1> HIDE DEF FilesAt
<1> QED
  BY <1>1, <1>2, <1>3, <1>4, <1>5, <1>6, Zenon

\* The steps that write one of them, and the attempt, which decides the rest.
LEMMA OneFileLeads ==
    ASSUME NEW p, NEW q, NEW c, NEW o, NEW s
    PROVE  /\ FilesAt("writeExperiment", p, c, o, s) /\ SameBut("experiment", p, q)
              /\ q.experiment = "written" => FilesAt("writePlan", q, c, o, s)
           /\ FilesAt("writePlan", p, c, o, s) /\ SameBut("plan", p, q) /\ q.plan = c =>
                 FilesAt("createEvents", q, c, o, s)
           /\ FilesAt("createEvents", p, c, o, s) /\ SameBut("journal", p, q) /\ q.journal.exists =>
                 FilesAt("appendCreated", q, c, o, s)
           /\ FilesAt("createMeasurements", p, c, o, s) /\ SameBut("measurements", p, q)
              /\ q.measurements.exists /\ q.measurements.lines = p.measurements.lines
              /\ q.measurements.open = p.measurements.open => FilesAt("snapshotRun", q, c, o, s)
           /\ FilesAt("writeProvenance", p, c, o, s) /\ SameBut("provenance", p, q)
              /\ q.provenance = "host" => FilesAt("toRunning", q, c, o, s)
           /\ FilesAt("enrichProvenance", p, c, o, s) /\ SameBut("provenance", p, q)
              /\ q.provenance = "nvidia" => FilesAt("attemptTerminal", q, c, o, s)
           /\ FilesAt("writeValidity", p, c, o, s) /\ SameBut("validity", p, q)
              /\ q.validity = evaluate_validity(c, o) => FilesAt("writeSummary", q, c, o, s)
           /\ FilesAt("writeSummary", p, c, o, s) /\ SameBut("summary", p, q)
              /\ q.summary = summarize(o, evaluate_validity(c, o)) => FilesAt("writeManifest", q, c, o, s)
<1> USE DEF FilesAt, InputsAt, LinesAt, FactsAt, OutcomeAt, SameBut, BeforeExperiment, BeforePlan,
        BeforeEvents, BeforeMeasurements, BeforeProvenance, BeforeOutput, BeforeResources, RunOver, Closed
<1>1. /\ FilesAt("writeExperiment", p, c, o, s) /\ SameBut("experiment", p, q)
         /\ q.experiment = "written" => FilesAt("writePlan", q, c, o, s)
      /\ FilesAt("writePlan", p, c, o, s) /\ SameBut("plan", p, q) /\ q.plan = c =>
            FilesAt("createEvents", q, c, o, s)
  OBVIOUS
<1>2. /\ FilesAt("createEvents", p, c, o, s) /\ SameBut("journal", p, q) /\ q.journal.exists =>
            FilesAt("appendCreated", q, c, o, s)
      /\ FilesAt("createMeasurements", p, c, o, s) /\ SameBut("measurements", p, q)
         /\ q.measurements.exists /\ q.measurements.lines = p.measurements.lines
         /\ q.measurements.open = p.measurements.open => FilesAt("snapshotRun", q, c, o, s)
  OBVIOUS
<1>3. /\ FilesAt("writeProvenance", p, c, o, s) /\ SameBut("provenance", p, q)
         /\ q.provenance = "host" => FilesAt("toRunning", q, c, o, s)
      /\ FilesAt("enrichProvenance", p, c, o, s) /\ SameBut("provenance", p, q)
         /\ q.provenance = "nvidia" => FilesAt("attemptTerminal", q, c, o, s)
  OBVIOUS
<1>4. /\ FilesAt("writeValidity", p, c, o, s) /\ SameBut("validity", p, q)
         /\ q.validity = evaluate_validity(c, o) => FilesAt("writeSummary", q, c, o, s)
      /\ FilesAt("writeSummary", p, c, o, s) /\ SameBut("summary", p, q)
         /\ q.summary = summarize(o, evaluate_validity(c, o)) => FilesAt("writeManifest", q, c, o, s)
  OBVIOUS
<1> HIDE DEF FilesAt, SameBut
<1> QED
  BY <1>1, <1>2, <1>3, <1>4, Zenon

\* From the attempt's return to the last of its measurements.
LEMMA OutputLeads ==
    ASSUME NEW p, NEW q, NEW c, NEW o, NEW s, NEW n, n = Len(p.measurements.lines),
           o.measurements \in Seq(Measurements),
           p.measurements.lines \in Seq([whole : BOOLEAN, value : Measurements, joined : SUBSET Measurements])
    PROVE  /\ \A old : FilesAt("execute", p, c, old, s) /\ o \in Outputs(c) =>
                 /\ o.nvidia => FilesAt("enrichProvenance", p, c, o, s)
                 /\ ~o.nvidia => FilesAt("attemptTerminal", p, c, o, s)
           /\ FilesAt("attemptTerminal", p, c, o, s) /\ SameBut("none", p, q) =>
                 /\ o.resources => FilesAt("writeResources", q, c, o, s)
                 /\ FilesAt("appendMeasurements", q, c, o, s)
           /\ FilesAt("writeResources", p, c, o, s) /\ SameBut("resources", p, q) =>
                 FilesAt("appendMeasurements", q, c, o, s)
           /\ FilesAt("appendMeasurements", p, c, o, s) /\ SameBut("measurements", p, q)
              /\ q.measurements.exists = p.measurements.exists /\ ~q.measurements.open
              /\ n < Len(o.measurements)
              /\ q.measurements.lines =
                    Append(p.measurements.lines, [whole |-> TRUE, value |-> o.measurements[n + 1], joined |-> {}]) =>
                 FilesAt("appendMeasurements", q, c, o, s)
           /\ FilesAt("appendMeasurements", p, c, o, s) /\ n = Len(o.measurements) =>
                 FilesAt("toCollecting", p, c, o, s) /\ FilesAt("toFinalizing", p, c, o, s)
<1> USE DEF FilesAt, InputsAt, LinesAt, FactsAt, OutcomeAt, SameBut, BeforeExperiment, BeforePlan,
        BeforeEvents, BeforeMeasurements, BeforeProvenance, BeforeOutput, BeforeResources, RunOver, Closed
<1> DEFINE L == [whole : BOOLEAN, value : Measurements, joined : SUBSET Measurements]
           lines == p.measurements.lines
<1>0. lines \in Seq(L) /\ n = Len(lines)
  OBVIOUS
<1> HIDE DEF L
<1>1. Len(o.measurements) \in Nat /\ n \in Nat /\ (lines = <<>> => n = 0)
  BY <1>0
<1>2. ASSUME NEW old, FilesAt("execute", p, c, old, s), o \in Outputs(c)
      PROVE  /\ o.nvidia => FilesAt("enrichProvenance", p, c, o, s)
             /\ ~o.nvidia => FilesAt("attemptTerminal", p, c, o, s)
  BY <1>2
<1>3. ASSUME FilesAt("attemptTerminal", p, c, o, s), SameBut("none", p, q)
      PROVE  /\ o.resources => FilesAt("writeResources", q, c, o, s)
             /\ FilesAt("appendMeasurements", q, c, o, s)
  BY <1>1, <1>3
<1>4. ASSUME FilesAt("writeResources", p, c, o, s), SameBut("resources", p, q)
      PROVE  FilesAt("appendMeasurements", q, c, o, s)
  BY <1>1, <1>4
<1>5. ASSUME FilesAt("appendMeasurements", p, c, o, s), SameBut("measurements", p, q),
             q.measurements.exists = p.measurements.exists, ~q.measurements.open,
             n < Len(o.measurements),
             q.measurements.lines = Append(lines, [whole |-> TRUE, value |-> o.measurements[n + 1], joined |-> {}])
      PROVE  FilesAt("appendMeasurements", q, c, o, s)
  <2> DEFINE line == [whole |-> TRUE, value |-> o.measurements[n + 1], joined |-> {}]
  <2>1. o.measurements[n + 1] \in Measurements
    BY <1>1, <1>5
  <2>2. line \in L
    BY <2>1 DEF L
  <2> HIDE DEF line, lines
  <2>3. /\ Len(q.measurements.lines) = n + 1 /\ q.measurements.lines[n + 1] = line
        /\ \A k \in 1..n : q.measurements.lines[k] = lines[k]
    BY <1>0, <1>5, <2>2 DEF line, lines
  <2>4. \A k \in 1..n : lines[k] = [whole |-> TRUE, value |-> o.measurements[k], joined |-> {}]
    BY <1>5 DEF lines
  <2>5. \A k \in 1..(n + 1) : q.measurements.lines[k] = [whole |-> TRUE, value |-> o.measurements[k], joined |-> {}]
    <3> SUFFICES ASSUME NEW k \in 1..(n + 1)
                 PROVE  q.measurements.lines[k] = [whole |-> TRUE, value |-> o.measurements[k], joined |-> {}]
      OBVIOUS
    <3>1. CASE k = n + 1
      BY <2>3, <3>1 DEF line
    <3>2. CASE k \in 1..n
      BY <2>3, <2>4, <3>2
    <3>3. k = n + 1 \/ k \in 1..n
      BY <1>1
    <3> QED
      BY <3>1, <3>2, <3>3
  <2>6. LinesAt("appendMeasurements", q.measurements, o.measurements)
    BY <1>1, <1>5, <2>3, <2>5
  <2> HIDE DEF LinesAt
  <2> QED
    BY <1>5, <2>6
<1>6. ASSUME FilesAt("appendMeasurements", p, c, o, s), n = Len(o.measurements)
      PROVE  FilesAt("toCollecting", p, c, o, s) /\ FilesAt("toFinalizing", p, c, o, s)
  BY <1>6
<1> HIDE DEF FilesAt, SameBut
<1> QED
  BY <1>2, <1>3, <1>4, <1>5, <1>6

-----------------------------------------------------------------------------
(* Every step is fine for the run that takes it.                           *)

\* The outcome of a step for the run that takes it.
Fine(r) ==
    /\ pc'[r] \in StagingLabels => RunFiles(r)'
    /\ pc'[r] \in Refusing /\ faults' = 0 => Excused(r)'

\* An operation that fails uses up a fault, and a run that dies reports nothing.
LEMMA AbortFine ==
    ASSUME TypeOK, NEW r \in Runs, NEW at, NEW state, Abort(r, at, state)
    PROVE  Fine(r)
<1>1. pc'[r] = "crashed" \/ (pc'[r] = RecoveryEntry(state) /\ faults' = faults + 1)
  BY DEF Abort, FailAt, TypeOK
<1>2. faults + 1 # 0
  BY DEF TypeOK
<1>3. "crashed" \notin Refusing
  BY DEF Refusing, RecoveryLabels
<1> QED
  BY <1>1, <1>2, <1>3, OffCourse DEF Fine

\* A run that goes on with the files of its next label.
LEMMA OnwardFine ==
    ASSUME NEW r \in Runs, NEW next \in StagingLabels \ {"verify"}, pc'[r] = next,
           FilesAt(next, Payload(r)', plan'[r], output'[r], life'[r].state)
    PROVE  Fine(r)
<1>1. next \notin Refusing
  BY DEF Refusing, RecoveryLabels, StagingLabels
<1> QED
  BY <1>1 DEF Fine, RunFiles

\* One operation on the staged files.
LEMMA FileFine ==
    ASSUME TypeOK, NEW r \in Runs, NEW label, NEW at, NEW done, NEW partial,
           NEW next \in StagingLabels \ {"verify"}, FileStep(r, label, at, done, partial, next),
           FilesAt(next, done, plan[r], output[r], life[r].state)
    PROVE  Fine(r)
<1>1. UNCHANGED <<id, plan, life, output>>
  BY DEF FileStep, memory
<1>2. CASE Store(r, done) /\ Goto(r, next)
  <2>1. Payload(r)' = done /\ pc'[r] = next
    BY <1>1, <1>2 DEF Store, Goto, Payload, TypeOK, Dirs
  <2> QED
    BY <1>1, <2>1, OnwardFine
<1>3. CASE \E left \in partial : Store(r, left) /\ Abort(r, at, life[r].state)
  BY <1>3, AbortFine
<1> QED
  BY <1>2, <1>3 DEF FileStep

\* The operations on files, of a run that nothing has disturbed.
LEMMA FilesFine ==
    ASSUME TypeOK, NEW r \in Runs, RunFiles(r),
           \/ MakeAttemptDir(r) \/ WriteExperiment(r) \/ WritePlan(r) \/ CreateEvents(r)
           \/ AppendCreated(r) \/ CreateMeasurements(r) \/ SnapshotRun(r) \/ SnapshotAttempt(r)
           \/ WriteProvenance(r) \/ EnrichProvenance(r) \/ WriteResources(r)
           \/ WriteValidity(r) \/ WriteSummary(r) \/ WriteManifest(r)
    PROVE  Fine(r)
<1> DEFINE P == Payload(r)
           At(label, p) == FilesAt(label, p, plan[r], output[r], life[r].state)
<1>1. P \in Payloads
  BY StoreType
<1>2. At(pc[r], P)
  BY DEF RunFiles
<1>3. {"writeExperiment", "writePlan", "createEvents", "appendCreated", "createMeasurements",
       "snapshotRun", "snapshotAttempt", "toPreparing", "toRunning", "attemptTerminal",
       "appendMeasurements", "writeSummary", "writeManifest", "checksum"} \subseteq StagingLabels \ {"verify"}
  BY DEF StagingLabels
<1>4. CASE MakeAttemptDir(r)
  <2> DEFINE done == [P EXCEPT !.attemptDir = TRUE]
  <2>1. FileStep(r, "makeAttemptDir", "initializing", done, {P}, "writeExperiment")
    BY <1>4 DEF MakeAttemptDir
  <2>2. SameBut("none", P, done)
    BY <1>1 DEF SameBut, Payloads
  <2>3. At("makeAttemptDir", P)
    BY <1>2, <2>1 DEF FileStep
  <2> HIDE DEF P, done
  <2>4. At("writeExperiment", done)
    BY <2>2, <2>3, SameFilesLead
  <2> QED
    BY <1>3, <2>1, <2>4, FileFine
<1>5. CASE WriteExperiment(r)
  <2> DEFINE done == [P EXCEPT !.experiment = "written"]
  <2>1. PICK partial : FileStep(r, "writeExperiment", "initializing", done, partial, "writePlan")
    BY <1>5 DEF WriteExperiment
  <2>2. SameBut("experiment", P, done) /\ done.experiment = "written"
    BY <1>1 DEF SameBut, Payloads
  <2>3. At("writeExperiment", P)
    BY <1>2, <2>1 DEF FileStep
  <2> HIDE DEF P, done
  <2>4. At("writePlan", done)
    BY <2>2, <2>3, OneFileLeads
  <2> QED
    BY <1>3, <2>1, <2>4, FileFine
<1>6. CASE CreateEvents(r)
  <2> DEFINE done == [P EXCEPT !.journal.exists = TRUE]
  <2>1. FileStep(r, "createEvents", "initializing", done, {P}, "appendCreated")
    BY <1>6 DEF CreateEvents
  <2>2. SameBut("journal", P, done) /\ done.journal.exists
    BY <1>1 DEF SameBut, Payloads, Lines
  <2>3. At("createEvents", P)
    BY <1>2, <2>1 DEF FileStep
  <2> HIDE DEF P, done
  <2>4. At("appendCreated", done)
    BY <2>2, <2>3, OneFileLeads
  <2> QED
    BY <1>3, <2>1, <2>4, FileFine
<1>7. CASE AppendCreated(r)
  <2> DEFINE done == [P EXCEPT !.journal = AppendLine(@, InitialEvent)]
  <2>1. PICK partial : FileStep(r, "appendCreated", "initializing", done, partial, "createMeasurements")
    BY <1>7 DEF AppendCreated
  <2>2. AppendLine(P.journal, InitialEvent).exists = P.journal.exists
    BY <1>1 DEF AppendLine, Payloads, Lines
  <2>3. SameBut("none", P, done)
    BY <1>1, <2>2 DEF SameBut, Payloads
  <2>4. At("appendCreated", P)
    BY <1>2, <2>1 DEF FileStep
  <2> HIDE DEF P, done
  <2>5. At("createMeasurements", done)
    BY <2>3, <2>4, SameFilesLead
  <2> QED
    BY <1>3, <2>1, <2>5, FileFine
<1>8. CASE CreateMeasurements(r)
  <2> DEFINE done == [P EXCEPT !.measurements.exists = TRUE]
  <2>1. FileStep(r, "createMeasurements", "initializing", done, {P}, "snapshotRun")
    BY <1>8 DEF CreateMeasurements
  <2>2. /\ SameBut("measurements", P, done) /\ done.measurements.exists
        /\ done.measurements.lines = P.measurements.lines /\ done.measurements.open = P.measurements.open
    BY <1>1 DEF SameBut, Payloads, Lines
  <2>3. At("createMeasurements", P)
    BY <1>2, <2>1 DEF FileStep
  <2> HIDE DEF P, done
  <2>4. At("snapshotRun", done)
    BY <2>2, <2>3, OneFileLeads
  <2> QED
    BY <1>3, <2>1, <2>4, FileFine
<1>9. ASSUME NEW label, NEW at, NEW c, NEW next \in StagingLabels \ {"verify"},
             NEW f \in {"plan", "run", "attempt", "provenance", "resources", "validity", "summary",
                        "manifest"},
             WriteRecord(r, label, at, f, c, next),
             At(label, P) /\ SameBut(f, P, Written(P, f, c)) => At(next, Written(P, f, c))
      PROVE  Fine(r)
  <2>1. FileStep(r, label, at, Written(P, f, c), HalfWritten(P, f), next)
    BY <1>9 DEF WriteRecord
  <2>2. SameBut(f, P, Written(P, f, c))
    BY <1>1, WrittenFiles
  <2>3. At(label, P)
    BY <1>2, <2>1 DEF FileStep
  <2> QED
    BY <1>9, <2>1, <2>2, <2>3, FileFine
<1>10. ASSUME NEW f \in {"run", "attempt", "manifest"}, NEW c
       PROVE  SameBut(f, P, Written(P, f, c)) => SameBut("none", P, Written(P, f, c))
  BY DEF SameBut
<1>11. ASSUME NEW c
       PROVE  /\ Written(P, "plan", c).plan = c /\ Written(P, "provenance", c).provenance = c
              /\ Written(P, "resources", c).resources = c /\ Written(P, "validity", c).validity = c
              /\ Written(P, "summary", c).summary = c
  BY <1>1, WrittenFiles
<1> HIDE DEF P, At
<1>12. CASE WritePlan(r)
  <2>1. At("writePlan", P) /\ SameBut("plan", P, Written(P, "plan", plan[r])) =>
          At("createEvents", Written(P, "plan", plan[r]))
    BY <1>11, OneFileLeads DEF At
  <2> QED
    BY <1>3, <1>9, <1>12, <2>1 DEF WritePlan
<1>13. CASE SnapshotRun(r)
  <2>1. At("snapshotRun", P) /\ SameBut("run", P, Written(P, "run", runRec[r])) =>
          At("snapshotAttempt", Written(P, "run", runRec[r]))
    BY <1>10, SameFilesLead DEF At
  <2> QED
    BY <1>3, <1>9, <1>13, <2>1 DEF SnapshotRun
<1>14. CASE SnapshotAttempt(r)
  <2>1. At("snapshotAttempt", P) /\ SameBut("attempt", P, Written(P, "attempt", attRec[r])) =>
          At("toPreparing", Written(P, "attempt", attRec[r]))
    BY <1>10, SameFilesLead DEF At
  <2> QED
    BY <1>3, <1>9, <1>14, <2>1 DEF SnapshotAttempt
<1>15. CASE WriteProvenance(r)
  <2>1. At("writeProvenance", P) /\ SameBut("provenance", P, Written(P, "provenance", "host")) =>
          At("toRunning", Written(P, "provenance", "host"))
    BY <1>11, OneFileLeads DEF At
  <2> QED
    BY <1>3, <1>9, <1>15, <2>1 DEF WriteProvenance
<1>16. CASE EnrichProvenance(r)
  <2>1. At("enrichProvenance", P) /\ SameBut("provenance", P, Written(P, "provenance", "nvidia")) =>
          At("attemptTerminal", Written(P, "provenance", "nvidia"))
    BY <1>11, OneFileLeads DEF At
  <2> QED
    BY <1>3, <1>9, <1>16, <2>1 DEF EnrichProvenance
<1>17. CASE WriteResources(r)
  <2>1. /\ output[r].measurements \in Seq(Measurements)
        /\ P.measurements.lines \in Seq([whole : BOOLEAN, value : Measurements, joined : SUBSET Measurements])
    BY <1>1 DEF TypeOK, OutputSet, Payloads, Lines
  <2>2. At("writeResources", P) /\ SameBut("resources", P, Written(P, "resources", "written")) =>
          At("appendMeasurements", Written(P, "resources", "written"))
    BY <2>1, OutputLeads DEF At
  <2> QED
    BY <1>3, <1>9, <1>17, <2>2 DEF WriteResources
<1>18. CASE WriteValidity(r)
  <2>1. At("writeValidity", P) /\ SameBut("validity", P, Written(P, "validity", Validity(r))) =>
          At("writeSummary", Written(P, "validity", Validity(r)))
    BY <1>11, OneFileLeads DEF At, Validity
  <2> QED
    BY <1>3, <1>9, <1>18, <2>1 DEF WriteValidity
<1>19. CASE WriteSummary(r)
  <2> DEFINE c == summarize(output[r], Validity(r))
  <2>1. At("writeSummary", P) /\ SameBut("summary", P, Written(P, "summary", c)) =>
          At("writeManifest", Written(P, "summary", c))
    BY <1>11, OneFileLeads DEF At, Validity
  <2>2. WriteRecord(r, "writeSummary", "finalizing", "summary", c, "writeManifest")
    BY <1>19 DEF WriteSummary
  <2> HIDE DEF c
  <2> QED
    BY <1>3, <1>9, <2>1, <2>2
<1>20. CASE WriteManifest(r)
  <2> DEFINE c == [status |-> output[r].terminal, validity |-> Validity(r)]
  <2>1. WriteRecord(r, "writeManifest", "finalizing", "manifest", c, "checksum")
    BY <1>20 DEF WriteManifest
  <2> HIDE DEF c
  <2>2. At("writeManifest", P) /\ SameBut("manifest", P, Written(P, "manifest", c)) =>
          At("checksum", Written(P, "manifest", c))
    BY <1>10, SameFilesLead DEF At
  <2> QED
    BY <1>3, <1>9, <2>1, <2>2
<1> QED
  BY <1>4, <1>5, <1>6, <1>7, <1>8, <1>12, <1>13, <1>14, <1>15, <1>16, <1>17, <1>18, <1>19, <1>20

\* The transitions of the run.
LEMMA TransitionsFine ==
    ASSUME TypeOK, OutputKnown, NEW r \in Runs, RunFiles(r),
           \/ ToPreparing(r) \/ ToRunning(r) \/ ToCollecting(r) \/ ToFinalizing(r) \/ ToTerminal(r)
    PROVE  Fine(r)
<1> DEFINE P == Payload(r)
           At(label, p, state) == FilesAt(label, p, plan[r], output[r], state)
<1>1. P \in Payloads /\ P.journal \in Lines(Events)
  BY StoreType DEF Payloads
<1>2. At(pc[r], P, life[r].state)
  BY DEF RunFiles
<1>3. {"attemptPreparing", "attemptRunning", "toFinalizing", "toTerminal", "writeValidity"}
        \subseteq StagingLabels \ {"verify"}
  BY DEF StagingLabels
<1>4. ASSUME NEW to \in RunStates, NEW failure \in FailureCodes, NEW at, NEW state,
             NEW next \in StagingLabels \ {"verify"},
             persist_run_transition(r, to, failure, next, Abort(r, at, state)),
             \A q : SameBut("none", P, q) => At(next, q, to)
      PROVE  Fine(r)
  <2> DEFINE event == TransitionEvent(life[r], to, failure)
             logged == [P EXCEPT !.journal = AppendLine(@, event)]
             record == RecordAfter(runRec[r], to, failure)
             q == Written(logged, "run", record)
  <2>1. \/ Abort(r, at, state)
        \/ Store(r, q) /\ Goto(r, next)
    BY <1>4 DEF persist_run_transition
  <2>2. /\ UNCHANGED <<id, plan, output>> /\ life'[r] = Transitioned(life[r], to)
    BY <1>4 DEF persist_run_transition, TypeOK
  <2>3. life'[r].state = to
    BY <2>2 DEF Transitioned
  <2>4. life[r] \in [state : RunStates, next : Nat]
    BY DEF TypeOK
  <2>5. event \in Events
    BY <2>4 DEF TransitionEvent, Events
  <2> HIDE DEF event
  <2>6. AppendLine(P.journal, event) \in Lines(Events)
        /\ AppendLine(P.journal, event).exists = P.journal.exists
    <3>1. AppendLine(P.journal, event) \in Lines(Events)
      BY <1>1, <2>5, AppendType
    <3>2. AppendLine(P.journal, event).exists = P.journal.exists
      BY <1>1 DEF AppendLine, Lines
    <3> QED
      BY <3>1, <3>2
  <2>7. logged \in Payloads /\ SameBut("none", P, logged)
    BY <1>1, <2>6 DEF Payloads, SameBut
  <2> HIDE DEF logged, P
  <2>8. SameBut("run", logged, q)
    BY <2>7, WrittenFiles
  <2> HIDE DEF q
  <2>9. SameBut("none", P, q)
    BY <2>7, <2>8 DEF SameBut
  <2>10. CASE Store(r, q) /\ Goto(r, next)
    <3>1. Payload(r)' = q /\ pc'[r] = next
      BY <2>2, <2>10 DEF Store, Goto, Payload, TypeOK, Dirs
    <3>2. FilesAt(next, Payload(r)', plan'[r], output'[r], life'[r].state)
      BY <1>4, <2>2, <2>3, <2>9, <3>1
    <3> QED
      BY <3>1, <3>2, OnwardFine
  <2> QED
    BY <2>1, <2>10, AbortFine
<1>5. {"preparing", "running", "collecting", "finalizing"} \subseteq RunStates
      /\ TerminalStates \subseteq RunStates /\ {"none", "runtime"} \subseteq FailureCodes
  BY DEF RunStates, FailureCodes
<1> HIDE DEF P
<1>6. CASE ToPreparing(r)
  <2>1. \A q : SameBut("none", P, q) => At("attemptPreparing", q, "preparing")
    BY <1>2, <1>6, SameFilesLead DEF ToPreparing
  <2> HIDE DEF At
  <2> QED
    BY <1>3, <1>4, <1>5, <1>6, <2>1 DEF ToPreparing
<1>7. CASE ToRunning(r)
  <2>1. \A q : SameBut("none", P, q) => At("attemptRunning", q, "running")
    BY <1>2, <1>7, SameFilesLead DEF ToRunning
  <2> HIDE DEF At
  <2> QED
    BY <1>3, <1>4, <1>5, <1>7, <2>1 DEF ToRunning
<1>8. CASE ToCollecting(r)
  <2>1. \A q : SameBut("none", P, q) => At("toFinalizing", q, "collecting")
    BY <1>2, <1>8, SameFilesLead DEF ToCollecting
  <2> HIDE DEF At
  <2> QED
    BY <1>3, <1>4, <1>5, <1>8, <2>1 DEF ToCollecting
<1>9. CASE ToFinalizing(r)
  <2>1. \A q : SameBut("none", P, q) => At("toTerminal", q, "finalizing")
    BY <1>2, <1>9, SameFilesLead DEF ToFinalizing
  <2> HIDE DEF At
  <2> QED
    BY <1>3, <1>4, <1>5, <1>9, <2>1 DEF ToFinalizing
<1>10. CASE ToTerminal(r)
  <2>1. \A q : SameBut("none", P, q) => At("writeValidity", q, output[r].terminal)
    BY <1>2, <1>10, SameFilesLead DEF ToTerminal
  <2>2. output[r].terminal \in TerminalStates
    BY <1>10 DEF ToTerminal, OutputKnown, ExecutedLabels
  <2>3. output[r].failure \in FailureCodes
    BY <1>5 DEF TypeOK, OutputSet
  <2> HIDE DEF At
  <2> QED
    BY <1>3, <1>4, <1>5, <1>10, <2>1, <2>2, <2>3 DEF ToTerminal
<1> QED
  BY <1>6, <1>7, <1>8, <1>9, <1>10

\* The states of the attempt.
LEMMA AttemptsFine ==
    ASSUME TypeOK, NEW r \in Runs, RunFiles(r),
           AttemptPreparing(r) \/ AttemptRunning(r) \/ AttemptTerminal(r)
    PROVE  Fine(r)
<1> DEFINE P == Payload(r)
           At(label, p) == FilesAt(label, p, plan[r], output[r], life[r].state)
<1>1. P \in Payloads
  BY StoreType
<1>2. At(pc[r], P)
  BY DEF RunFiles
<1>3. {"writeProvenance", "execute", "writeResources", "appendMeasurements"}
        \subseteq StagingLabels \ {"verify"}
  BY DEF StagingLabels
<1>4. ASSUME NEW at, NEW status, NEW failure, NEW next \in StagingLabels \ {"verify"},
             persist_attempt_status(r, at, status, failure, next),
             \A q : SameBut("none", P, q) => At(next, q)
      PROVE  Fine(r)
  <2> DEFINE record == [status |-> status,
                        failure |-> IF status \in TerminalStates THEN failure ELSE attRec[r].failure]
             q == Written(P, "attempt", record)
  <2>1. (Store(r, q) /\ Goto(r, next)) \/ Abort(r, at, life[r].state)
    BY <1>4 DEF persist_attempt_status
  <2>2. UNCHANGED <<id, plan, life, output>>
    BY <1>4 DEF persist_attempt_status
  <2> HIDE DEF record
  <2>3. SameBut("attempt", P, q)
    BY <1>1, WrittenFiles
  <2> HIDE DEF P, q
  <2>4. SameBut("none", P, q)
    BY <2>3 DEF SameBut
  <2>5. CASE Store(r, q) /\ Goto(r, next)
    <3>1. Payload(r)' = q /\ pc'[r] = next
      BY <2>2, <2>5 DEF Store, Goto, Payload, TypeOK, Dirs
    <3>2. FilesAt(next, Payload(r)', plan'[r], output'[r], life'[r].state)
      BY <1>4, <2>2, <2>4, <3>1
    <3> QED
      BY <3>1, <3>2, OnwardFine
  <2> QED
    BY <2>1, <2>5, AbortFine
<1>5. /\ output[r].measurements \in Seq(Measurements) /\ output[r].resources \in BOOLEAN
      /\ P.measurements.lines \in Seq([whole : BOOLEAN, value : Measurements, joined : SUBSET Measurements])
  BY <1>1 DEF TypeOK, OutputSet, Payloads, Lines
<1> HIDE DEF P
<1>6. CASE AttemptPreparing(r)
  <2>1. \A q : SameBut("none", P, q) => At("writeProvenance", q)
    BY <1>2, <1>6, SameFilesLead DEF AttemptPreparing
  <2> HIDE DEF At
  <2> QED
    BY <1>3, <1>4, <1>6, <2>1 DEF AttemptPreparing
<1>7. CASE AttemptRunning(r)
  <2>1. \A q : SameBut("none", P, q) => At("execute", q)
    BY <1>2, <1>7, SameFilesLead DEF AttemptRunning
  <2> HIDE DEF At
  <2> QED
    BY <1>3, <1>4, <1>7, <2>1 DEF AttemptRunning
<1>8. CASE AttemptTerminal(r)
  <2> DEFINE next == IF output[r].resources THEN "writeResources" ELSE "appendMeasurements"
  <2>1. At("attemptTerminal", P)
    BY <1>2, <1>8 DEF AttemptTerminal
  <2>2. ASSUME NEW q, SameBut("none", P, q) PROVE At(next, q)
    <3>1. /\ output[r].resources => At("writeResources", q)
          /\ At("appendMeasurements", q)
      BY <1>5, <2>1, <2>2, OutputLeads
    <3> HIDE DEF At
    <3> QED
      BY <3>1
  <2>3. next \in StagingLabels \ {"verify"}
    BY <1>3
  <2>4. persist_attempt_status(r, "running", output[r].terminal, output[r].failure, next)
    BY <1>8 DEF AttemptTerminal
  <2> HIDE DEF At, next
  <2> QED
    BY <1>4, <2>2, <2>3, <2>4
<1> QED
  BY <1>6, <1>7, <1>8

\* The attempt itself and the measurements it returned.
LEMMA ExecutionFine ==
    ASSUME TypeOK, NEW r \in Runs, RunFiles(r),
           Execute(r) \/ AppendMeasurement(r) \/ MeasurementsRecorded(r)
    PROVE  Fine(r)
<1> DEFINE P == Payload(r)
           At(label, p) == FilesAt(label, p, plan[r], output[r], life[r].state)
<1>1. /\ P \in Payloads /\ P.measurements \in Lines(Measurements) /\ pc \in [Runs -> Labels]
      /\ P.measurements.lines \in Seq([whole : BOOLEAN, value : Measurements, joined : SUBSET Measurements])
      /\ output \in [Runs -> OutputSet] /\ output[r].measurements \in Seq(Measurements)
  BY StoreType DEF Payloads, Lines, TypeOK, OutputSet, Labels
<1>2. At(pc[r], P)
  BY DEF RunFiles
<1>3. {"enrichProvenance", "attemptTerminal", "appendMeasurements", "toCollecting", "toFinalizing"}
        \subseteq StagingLabels \ {"verify"}
  BY DEF StagingLabels
<1>4. CASE Execute(r)
  <2>1. UNCHANGED <<id, plan, life, staging>> /\ pc[r] = "execute"
    BY <1>4 DEF Execute
  <2>2. Payload(r)' = P
    BY <2>1 DEF Payload
  <2>3. CASE Goto(r, "crashed")
    <3>1. pc'[r] = "crashed" /\ "crashed" \notin StagingLabels \cup Refusing
      BY <1>1, <2>3 DEF Goto, StagingLabels, Refusing, RecoveryLabels
    <3> QED
      BY <3>1 DEF Fine
  <2>4. ASSUME NEW o \in Outputs(plan[r]), output' = [output EXCEPT ![r] = o],
               Goto(r, IF o.nvidia THEN "enrichProvenance" ELSE "attemptTerminal")
        PROVE  Fine(r)
    <3> DEFINE next == IF o.nvidia THEN "enrichProvenance" ELSE "attemptTerminal"
    <3>1. output'[r] = o /\ pc'[r] = next
      BY <1>1, <2>4 DEF Goto
    <3>2. plan[r] \in PlanSet
      BY ConstantsAssumption DEF TypeOK
    <3>3. o.measurements \in Seq(Measurements)
      <4>1. o \in OutputSet
        BY <3>2, OutputsType
      <4> QED
        BY <4>1 DEF OutputSet
    <3>4. FilesAt("execute", P, plan[r], output[r], life[r].state)
      BY <1>2, <2>1
    <3> HIDE DEF P
    <3>5. /\ o.nvidia => FilesAt("enrichProvenance", P, plan[r], o, life[r].state)
          /\ ~o.nvidia => FilesAt("attemptTerminal", P, plan[r], o, life[r].state)
      BY <1>1, <3>3, <3>4, OutputLeads
    <3>6. FilesAt(next, Payload(r)', plan'[r], output'[r], life'[r].state)
      BY <2>1, <2>2, <3>1, <3>5
    <3>7. next \in StagingLabels \ {"verify"}
      BY <1>3
    <3> HIDE DEF next
    <3> QED
      BY <3>1, <3>6, <3>7, OnwardFine
  <2> QED
    BY <1>4, <2>3, <2>4 DEF Execute
<1>5. CASE AppendMeasurement(r)
  <2> DEFINE lines == P.measurements.lines
             n == Len(lines)
             record == output[r].measurements[n + 1]
             done == [P EXCEPT !.measurements = AppendLine(@, record)]
  <2>1. PICK partial : FileStep(r, "appendMeasurements", "recordingMeasurements", done, partial,
                                "appendMeasurements")
    BY <1>5 DEF AppendMeasurement
  <2>2. n < Len(output[r].measurements)
    BY <1>5 DEF AppendMeasurement
  <2>3. At("appendMeasurements", P) /\ ~P.measurements.open
    BY <1>2, <2>1 DEF FileStep, FilesAt, LinesAt
  <2> HIDE DEF record
  <2>4. LET t == AppendLine(P.measurements, record)
        IN  /\ t.exists = P.measurements.exists /\ ~t.open
            /\ t.lines = Append(lines, [whole |-> TRUE, value |-> record, joined |-> {}])
    BY <1>1, <2>3 DEF AppendLine, LinesWith, Lines
  <2>5. SameBut("measurements", P, done) /\ done.measurements = AppendLine(P.measurements, record)
    BY <1>1 DEF SameBut, Payloads
  <2> HIDE DEF P, done
  <2>6. /\ done.measurements.exists = P.measurements.exists /\ ~done.measurements.open
        /\ done.measurements.lines =
              Append(P.measurements.lines, [whole |-> TRUE, value |-> output[r].measurements[n + 1],
                                               joined |-> {}])
    BY <2>4, <2>5 DEF record
  <2>7. At("appendMeasurements", done)
    BY <1>1, <2>2, <2>3, <2>5, <2>6, OutputLeads
  <2> QED
    BY <1>3, <2>1, <2>7, FileFine
<1>6. CASE MeasurementsRecorded(r)
  <2>1. /\ UNCHANGED <<id, plan, life, output, staging>> /\ pc[r] = "appendMeasurements"
        /\ Len(P.measurements.lines) = Len(output[r].measurements)
    BY <1>6 DEF MeasurementsRecorded, memory
  <2>2. PICK next \in {"toCollecting", "toFinalizing"} : pc'[r] = next
    BY <1>1, <1>6 DEF MeasurementsRecorded, Goto
  <2>3. At("appendMeasurements", P)
    BY <1>2, <2>1
  <2>4. Payload(r)' = P
    BY <2>1 DEF Payload
  <2> HIDE DEF P
  <2>5. At("toCollecting", P) /\ At("toFinalizing", P)
    BY <1>1, <2>1, <2>3, OutputLeads
  <2>6. FilesAt(next, Payload(r)', plan'[r], output'[r], life'[r].state)
    BY <2>1, <2>2, <2>4, <2>5
  <2> QED
    BY <1>3, <2>2, <2>6, OnwardFine
<1> QED
  BY <1>4, <1>5, <1>6

\* From the checksums to publication: the verifier and the destination are
\* the only ones to refuse a run on which nothing failed.
LEMMA ClosingFine ==
    ASSUME TypeOK, NEW r \in Runs, RunFiles(r), RunOnCourse(r),
           Checksum(r) \/ Verify(r) \/ CheckDestination(r) \/ Publish(r)
    PROVE  Fine(r)
<1> DEFINE P == Payload(r)
           At(label, p) == FilesAt(label, p, plan[r], output[r], life[r].state)
<1>1. /\ P \in Payloads /\ pc \in [Runs -> Labels] /\ id[r] \in RunIds
      /\ staging \in [RunIds -> Dirs] /\ staging[id[r]] \in Dirs
  BY StoreType DEF TypeOK, Labels
<1>2. At(pc[r], P)
  BY DEF RunFiles
<1>3. UNCHANGED <<id, plan, life, output>>
  BY DEF Checksum, Verify, CheckDestination, Publish, memory
<1>4. SameBut("none", P, P)
  BY DEF SameBut
<1>5. {"checkDestination", "publish"} \subseteq StagingLabels \ {"verify"}
      /\ {"returned", "crashed"} \cap (StagingLabels \cup Refusing) = {}
  BY DEF StagingLabels, Refusing, RecoveryLabels
<1>6. ASSUME NEW at, NEW state, FailAt(r, at, state), Excused(r)' PROVE Fine(r)
  <2>1. pc'[r] = RecoveryEntry(state)
    BY <1>1, <1>6 DEF FailAt
  <2> QED
    BY <1>6, <2>1, OffCourse DEF Fine
<1>7. ASSUME NEW l \in {"returned", "crashed"}, Goto(r, l) PROVE Fine(r)
  <2>1. pc'[r] = l
    BY <1>1, <1>7 DEF Goto
  <2> QED
    BY <1>5, <2>1 DEF Fine
<1>8. CASE Checksum(r)
  <2>1. pc[r] = "checksum"
    BY <1>8 DEF Checksum
  <2>2. CASE staging' = [staging EXCEPT ![id[r]] = Checksummed(@)] /\ Goto(r, "verify")
    <3>1. /\ Checksummed(staging[id[r]]).payload = P
          /\ Checksummed(staging[id[r]]).sums = [listed |-> TRUE, payload |-> P]
      BY <1>1 DEF Checksummed, Dirs, Payload
    <3>2. /\ pc'[r] = "verify" /\ staging'[id[r]] = Checksummed(staging[id[r]])
      BY <1>1, <2>2 DEF Goto
    <3>3. Payload(r)' = P /\ staging'[id'[r]].sums = [listed |-> TRUE, payload |-> P]
      BY <1>3, <3>1, <3>2 DEF Payload
    <3> HIDE DEF P
    <3>4. At("verify", P)
      BY <1>2, <1>4, <2>1, SameFilesLead
    <3>5. RunFiles(r)'
      BY <1>3, <3>2, <3>3, <3>4 DEF RunFiles
    <3>6. "verify" \notin Refusing
      BY DEF Refusing, RecoveryLabels
    <3> QED
      BY <3>2, <3>5, <3>6 DEF Fine
  <2> QED
    BY <1>8, <2>2, AbortFine DEF Checksum
<1>9. CASE Verify(r)
  <2>1. pc[r] = "verify" /\ staging' = staging /\ final' = final
    BY <1>9 DEF Verify
  <2>2. Payload(r)' = P
    BY <1>3, <2>1 DEF Payload
  <2>3. CASE Goto(r, "checkDestination")
    <3>1. pc'[r] = "checkDestination"
      BY <1>1, <2>3 DEF Goto
    <3> HIDE DEF P
    <3>2. At("checkDestination", P)
      BY <1>2, <1>4, <2>1, SameFilesLead
    <3>3. FilesAt("checkDestination", Payload(r)', plan'[r], output'[r], life'[r].state)
      BY <1>3, <2>2, <3>2
    <3> QED
      BY <1>5, <3>1, <3>3, OnwardFine
  <2>4. CASE ~verify_evidence_bundle(staging[id[r]]) /\ FailAt(r, "verifying", life[r].state)
    <3>1. \/ \E k \in DOMAIN output[r].measurements : ~output[r].measurements[k].sound
          \/ plan[r].oversized # {}
      BY <2>1, <2>4, UndisturbedVerifies
    <3>2. Excused(r)'
      BY <1>3, <3>1 DEF Excused
    <3> QED
      BY <1>6, <2>4, <3>2
  <2> QED
    BY <1>9, <2>3, <2>4, AbortFine DEF Verify
<1>10. CASE CheckDestination(r)
  <2>1. pc[r] = "checkDestination" /\ staging' = staging /\ final' = final
    BY <1>10 DEF CheckDestination
  <2>2. Payload(r)' = P
    BY <1>3, <2>1 DEF Payload
  <2>3. CASE Goto(r, "publish")
    <3>1. pc'[r] = "publish"
      BY <1>1, <2>3 DEF Goto
    <3> HIDE DEF P
    <3>2. At("publish", P)
      BY <1>2, <1>4, <2>1, SameFilesLead
    <3>3. FilesAt("publish", Payload(r)', plan'[r], output'[r], life'[r].state)
      BY <1>3, <2>2, <3>2
    <3> QED
      BY <1>5, <3>1, <3>3, OnwardFine
  <2>4. CASE final[id[r]].kind # "none" /\ FailAt(r, "publishing", life[r].state)
    <3>1. Excused(r)'
      BY <1>3, <2>1, <2>4 DEF Excused
    <3> QED
      BY <1>6, <2>4, <3>1
  <2> QED
    BY <1>7, <1>10, <2>3, <2>4 DEF CheckDestination
<1>11. CASE Publish(r)
  <2>1. CASE /\ final[id[r]].kind \notin {"none", "empty"}
             /\ FailAt(r, "publishing", life[r].state)
             /\ UNCHANGED <<faults, staging, final>>
    <3>1. Excused(r)'
      BY <1>3, <2>1 DEF Excused
    <3> QED
      BY <1>6, <2>1, <3>1
  <2> QED
    BY <1>7, <1>11, <2>1, AbortFine DEF Publish
<1> QED
  BY <1>8, <1>9, <1>10, <1>11

\* persist_allocated_failure changes nothing of why it was entered.
LEMMA RecoveryFine ==
    ASSUME TypeOK, AcceptInv, NEW r \in Runs,
           RecoverFinalizing(r) \/ RecoverFailed(r) \/ RecoverRun(r) \/ RecoverAttempt(r)
    PROVE  Fine(r) /\ (faults' = 0 => faults = 0)
<1>1. pc \in [Runs -> Labels] /\ faults \in Nat
  BY DEF TypeOK, Labels
<1>2. pc[r] \in Refusing
  BY DEF RecoverFinalizing, RecoverFailed, RecoverRun, RecoverAttempt, Refusing, RecoveryLabels
<1>3. UNCHANGED <<id, plan, output, final>>
  BY DEF RecoverFinalizing, RecoverFailed, RecoverRun, RecoverAttempt, persist_run_transition, memory
<1>4. PICK next \in {"recoverFailed", "recoverRun", "recoverAttempt", "allocatedError"} :
        Goto(r, next) \/ Ignore(r, next)
  BY DEF RecoverFinalizing, RecoverFailed, RecoverRun, RecoverAttempt, persist_run_transition
<1>5. faults' = 0 => faults = 0
  BY <1>1, <1>4 DEF Goto, Ignore
<1>6. pc'[r] \in {next, "crashed"}
  BY <1>1, <1>4 DEF Goto, Ignore
<1>7. pc'[r] \notin StagingLabels
  BY <1>4, <1>6 DEF StagingLabels
<1>8. faults' = 0 => Excused(r)
  BY <1>2, <1>5 DEF AcceptInv
<1>9. Excused(r)' <=> Excused(r)
  BY <1>3 DEF Excused
<1> QED
  BY <1>5, <1>7, <1>8, <1>9 DEF Fine

\* A run that has just taken its staging directory has no file in it.
LEMMA StartFine ==
    ASSUME TypeOK, NEW r \in Runs,
           Reject(r) \/ Allocate(r) \/ AllocateError(r) \/ AllocateCrash(r)
    PROVE  Fine(r)
<1>1. pc \in [Runs -> Labels] /\ id[r] \in RunIds /\ staging \in [RunIds -> Dirs]
  BY DEF TypeOK, Labels
<1>2. CASE Allocate(r)
  <2>1. pc'[r] = "makeAttemptDir" /\ staging'[id[r]] = StagingDir(r) /\ id' = id
    BY <1>1, <1>2 DEF Allocate, Goto, memory
  <2>2. Payload(r)' = EmptyPayload
    BY <2>1 DEF Payload, StagingDir, NoDir
  <2>3. FilesAt("makeAttemptDir", EmptyPayload, plan'[r], output'[r], life'[r].state)
    BY DEF FilesAt, InputsAt, LinesAt, FactsAt, OutcomeAt, BeforeExperiment, BeforePlan, BeforeEvents,
       BeforeMeasurements, BeforeProvenance, BeforeOutput, BeforeResources, RunOver, Closed,
       EmptyPayload, NoLines
  <2>4. "makeAttemptDir" \in StagingLabels \ {"verify"}
    BY DEF StagingLabels
  <2> QED
    BY <2>1, <2>2, <2>3, <2>4, OnwardFine
<1>3. CASE Reject(r) \/ AllocateError(r) \/ AllocateCrash(r)
  <2>1. pc'[r] \in {"rejected", "ioError", "crashed"}
    BY <1>1, <1>3 DEF Reject, AllocateError, AllocateCrash, Goto
  <2>2. pc'[r] \notin StagingLabels \cup Refusing
    BY <2>1 DEF StagingLabels, Refusing, RecoveryLabels
  <2> QED
    BY <2>2 DEF Fine
<1> QED
  BY <1>2, <1>3

\* Faults are only ever counted up.
LEMMA FaultsGrow ==
    ASSUME TypeOK, AcceptInv, NEW r \in Runs, Step(r)
    PROVE  faults' = 0 => faults = 0
<1> DEFINE Grows == faults' = 0 => faults = 0
<1>1. faults \in Nat
  BY DEF TypeOK
<1>2. /\ faults' = faults => Grows
      /\ \A label : Goto(r, label) => Grows
      /\ \A at, state : Abort(r, at, state) => Grows
  BY <1>1 DEF Goto, Abort
<1> SUFFICES Grows
  OBVIOUS
<1> HIDE DEF Grows
<1>3. CASE Reject(r) \/ Allocate(r) \/ AllocateError(r) \/ AllocateCrash(r)
  BY <1>1, <1>2, <1>3 DEF Reject, Allocate, AllocateError, AllocateCrash, Grows
<1>4. CASE \/ MakeAttemptDir(r) \/ WriteExperiment(r) \/ CreateEvents(r) \/ AppendCreated(r)
           \/ CreateMeasurements(r) \/ AppendMeasurement(r)
  BY <1>2, <1>4 DEF MakeAttemptDir, WriteExperiment, CreateEvents, AppendCreated, CreateMeasurements,
     AppendMeasurement, FileStep
<1>5. CASE \/ WritePlan(r) \/ SnapshotRun(r) \/ SnapshotAttempt(r) \/ WriteProvenance(r)
           \/ EnrichProvenance(r) \/ WriteResources(r) \/ WriteValidity(r) \/ WriteSummary(r)
           \/ WriteManifest(r)
  BY <1>2, <1>5 DEF WritePlan, SnapshotRun, SnapshotAttempt, WriteProvenance, EnrichProvenance,
     WriteResources, WriteValidity, WriteSummary, WriteManifest, WriteRecord, FileStep
<1>6. CASE ToPreparing(r) \/ ToRunning(r) \/ ToCollecting(r) \/ ToFinalizing(r) \/ ToTerminal(r)
  BY <1>2, <1>6 DEF ToPreparing, ToRunning, ToCollecting, ToFinalizing, ToTerminal,
     persist_run_transition
<1>7. CASE AttemptPreparing(r) \/ AttemptRunning(r) \/ AttemptTerminal(r)
  BY <1>2, <1>7 DEF AttemptPreparing, AttemptRunning, AttemptTerminal, persist_attempt_status
<1>8. CASE \/ Execute(r) \/ MeasurementsRecorded(r) \/ Checksum(r) \/ Verify(r)
           \/ CheckDestination(r) \/ Publish(r)
  BY <1>2, <1>8 DEF Execute, MeasurementsRecorded, Checksum, Verify, CheckDestination, Publish
<1>9. CASE RecoverFinalizing(r) \/ RecoverFailed(r) \/ RecoverRun(r) \/ RecoverAttempt(r)
  BY <1>9, RecoveryFine DEF Grows
<1> QED
  BY <1>3, <1>4, <1>5, <1>6, <1>7, <1>8, <1>9 DEF Step

\* A place that is taken is never free again.
LEMMA TakenStaysTaken ==
    ASSUME TypeOK, DirInv, NEW r \in Runs, Step(r), NEW i \in RunIds, final[i].kind # "none"
    PROVE  final'[i].kind # "none"
<1>1. StepFrame(r)
  BY StepsAreFramed
<1>2. CASE Publishes(r) /\ i = id[r]
  <2>1. staging[id[r]].kind = "bundle"
    BY <1>2 DEF Publishes, DirInv, StagingIsExclusive, Staging, StagingLabels
  <2> QED
    BY <1>2, <2>1 DEF Publishes
<1>3. CASE ~(Publishes(r) /\ i = id[r])
  BY <1>1, <1>3 DEF StepFrame, Apart, EndsUnallocated, Allocates, Works
<1> QED
  BY <1>2, <1>3

\* Every step of a run is fine for that run.
LEMMA StepFine ==
    ASSUME TypeOK, OutputKnown, RecordInv, AcceptInv, NEW r \in Runs, Step(r)
    PROVE  Fine(r)
<1>1. pc[r] \in StagingLabels => RunOnCourse(r) /\ RunFiles(r)
  BY DEF RecordInv, Staging, AcceptInv
<1>2. CASE Reject(r) \/ Allocate(r) \/ AllocateError(r) \/ AllocateCrash(r)
  BY <1>2, StartFine
<1>3. CASE \/ MakeAttemptDir(r) \/ WriteExperiment(r) \/ WritePlan(r) \/ CreateEvents(r)
           \/ AppendCreated(r) \/ CreateMeasurements(r) \/ SnapshotRun(r) \/ SnapshotAttempt(r)
           \/ WriteProvenance(r) \/ EnrichProvenance(r) \/ WriteResources(r)
           \/ WriteValidity(r) \/ WriteSummary(r) \/ WriteManifest(r)
  <2>1. pc[r] \in StagingLabels
    BY <1>3 DEF MakeAttemptDir, WriteExperiment, WritePlan, CreateEvents, AppendCreated,
       CreateMeasurements, SnapshotRun, SnapshotAttempt, WriteProvenance, EnrichProvenance,
       WriteResources, WriteValidity, WriteSummary, WriteManifest, WriteRecord, FileStep, StagingLabels
  <2> QED
    BY <1>1, <1>3, <2>1, FilesFine
<1>4. CASE ToPreparing(r) \/ ToRunning(r) \/ ToCollecting(r) \/ ToFinalizing(r) \/ ToTerminal(r)
  <2>1. pc[r] \in StagingLabels
    BY <1>4 DEF ToPreparing, ToRunning, ToCollecting, ToFinalizing, ToTerminal, StagingLabels
  <2> QED
    BY <1>1, <1>4, <2>1, TransitionsFine
<1>5. CASE AttemptPreparing(r) \/ AttemptRunning(r) \/ AttemptTerminal(r)
  <2>1. pc[r] \in StagingLabels
    BY <1>5 DEF AttemptPreparing, AttemptRunning, AttemptTerminal, StagingLabels
  <2> QED
    BY <1>1, <1>5, <2>1, AttemptsFine
<1>6. CASE Execute(r) \/ AppendMeasurement(r) \/ MeasurementsRecorded(r)
  <2>1. pc[r] \in StagingLabels
    BY <1>6 DEF Execute, AppendMeasurement, MeasurementsRecorded, FileStep, StagingLabels
  <2> QED
    BY <1>1, <1>6, <2>1, ExecutionFine
<1>7. CASE Checksum(r) \/ Verify(r) \/ CheckDestination(r) \/ Publish(r)
  <2>1. pc[r] \in StagingLabels
    BY <1>7 DEF Checksum, Verify, CheckDestination, Publish, StagingLabels
  <2> QED
    BY <1>1, <1>7, <2>1, ClosingFine
<1>8. CASE RecoverFinalizing(r) \/ RecoverFailed(r) \/ RecoverRun(r) \/ RecoverAttempt(r)
  BY <1>8, RecoveryFine
<1> QED
  BY <1>2, <1>3, <1>4, <1>5, <1>6, <1>7, <1>8 DEF Step

\* The acceptance invariant is preserved by every step of a run.
LEMMA AcceptStep ==
    ASSUME TypeOK, OutputKnown, DirInv, RecordInv, AcceptInv, NEW r \in Runs, Step(r)
    PROVE  AcceptInv'
<1>1. id' = id /\ plan' = plan /\ id \in [Runs -> RunIds] /\ (faults' = 0 => faults = 0)
  BY MemoryFrame, FaultsGrow DEF OthersKeep, TypeOK
<1>2. ASSUME NEW q \in Runs \ {r}
      PROVE  /\ pc'[q] \in StagingLabels => RunFiles(q)'
             /\ pc'[q] \in Refusing /\ faults' = 0 => Excused(q)'
  <2>1. /\ pc'[q] = pc[q] /\ life'[q] = life[q] /\ output'[q] = output[q]
        /\ Busy(q) => staging'[id[q]] = staging[id[q]]
    BY NeighboursKeep
  <2>2. /\ pc[q] \in StagingLabels => RunFiles(q)
        /\ pc[q] \in Refusing /\ faults = 0 => Excused(q)
    BY DEF AcceptInv
  <2>3. ASSUME pc'[q] \in StagingLabels PROVE RunFiles(q)'
    <3>1. staging'[id[q]] = staging[id[q]] /\ RunFiles(q)
      BY <2>1, <2>2, <2>3 DEF Busy
    <3>2. Payload(q)' = Payload(q)
      BY <1>1, <3>1 DEF Payload
    <3> QED
      BY <1>1, <2>1, <3>1, <3>2 DEF RunFiles
  <2>4. ASSUME pc'[q] \in Refusing, faults' = 0 PROVE Excused(q)'
    <3>1. Excused(q) /\ id[q] \in RunIds
      BY <1>1, <2>1, <2>2, <2>4
    <3>2. final[id[q]].kind # "none" => final'[id[q]].kind # "none"
      BY <3>1, TakenStaysTaken
    <3> QED
      BY <1>1, <2>1, <3>1, <3>2 DEF Excused
  <2> QED
    BY <2>3, <2>4
<1>3. Fine(r)
  BY StepFine
<1>4. \A q \in Runs : /\ pc'[q] \in StagingLabels => RunFiles(q)'
                      /\ pc'[q] \in Refusing /\ faults' = 0 => Excused(q)'
  BY <1>2, <1>3 DEF Fine
<1> QED
  BY <1>4 DEF AcceptInv

\* And by third parties, who only ever take places.
LEMMA AcceptForeign ==
    ASSUME TypeOK, AcceptInv, NEW i \in RunIds, ForeignCreate(i)
    PROVE  AcceptInv'
<1>1. /\ UNCHANGED <<pc, id, plan, life, output, staging, faults>>
      /\ \A j \in RunIds \ {i} : final'[j] = final[j]
  BY ForeignFrame
<1>2. final'[i].kind # "none"
  <2>1. final[i] \in Dirs /\ \E kind \in {"empty", "foreign"} : final'[i] = [final[i] EXCEPT !.kind = kind]
    BY ForeignFrame DEF TypeOK
  <2> QED
    BY <2>1 DEF Dirs
<1>3. \A q \in Runs : RunFiles(q)' <=> RunFiles(q)
  BY <1>1 DEF RunFiles, Payload
<1>4. \A q \in Runs : Excused(q) => Excused(q)'
  BY <1>1, <1>2 DEF Excused, TypeOK
<1> QED
  BY <1>1, <1>3, <1>4 DEF AcceptInv

-----------------------------------------------------------------------------
(* Theorems about acceptance.                                              *)

\* The inductive invariant of acceptance: a run that nothing has disturbed has
\* staged exactly the files of its label, and a run that is being refused while
\* no operation has failed is refused for one of the three admitted reasons: its
\* destination, its helper's records or the length of its request.
THEOREM AcceptInvariant == Spec => []AcceptInv
<1>1. Init => AcceptInv
  BY DEF Init, AcceptInv, StagingLabels, Refusing, RecoveryLabels
<1>2. /\ TypeOK /\ OutputKnown /\ DirInv /\ RecordInv /\ AcceptInv /\ [Next]_vars
      => AcceptInv'
  <2> SUFFICES ASSUME TypeOK, OutputKnown, DirInv, RecordInv, AcceptInv, [Next]_vars PROVE AcceptInv'
    OBVIOUS
  <2>1. CASE UNCHANGED vars
    <3>1. \A q \in Runs : (RunFiles(q)' <=> RunFiles(q)) /\ (Excused(q)' <=> Excused(q))
      BY <2>1 DEF vars, RunFiles, Payload, Excused
    <3> QED
      BY <2>1, <3>1 DEF vars, AcceptInv
  <2> QED
    BY <2>1, AcceptStep, AcceptForeign DEF Next, Terminated
<1> QED
  BY <1>1, <1>2, TypeCorrect, DirectoriesInvariant, RecordsInvariant, PTL DEF Spec

\* Every output an adapter can return makes a bundle that verify_evidence_bundle
\* accepts: without an I/O failure a run ends with RunError::Allocated only
\* because its destination was taken, because its helper's records contradict
\* themselves, or because a file of its request is longer than the verifier
\* retains, which `run` finds out only after it executed the request; for every
\* plan and however the runs interleave.
THEOREM FaultFreeAccepted == Spec => []FaultFreeRunIsAccepted
<1>1. AcceptInv => FaultFreeRunIsAccepted
  BY DEF AcceptInv, FaultFreeRunIsAccepted, Refusing, Excused
<1> QED
  BY <1>1, AcceptInvariant, PTL

-----------------------------------------------------------------------------
(* Why a run that goes on ends: no operation finds the state unready for   *)
(* it, and each one is later than the one before.                          *)

\* The operations in the order of the code, those of the recovery after them.
Order ==
    [start |-> 0, makeAttemptDir |-> 1, writeExperiment |-> 2, writePlan |-> 3,
     createEvents |-> 4, appendCreated |-> 5, createMeasurements |-> 6, snapshotRun |-> 7,
     snapshotAttempt |-> 8, toPreparing |-> 9, attemptPreparing |-> 10, writeProvenance |-> 11,
     toRunning |-> 12, attemptRunning |-> 13, execute |-> 14, enrichProvenance |-> 15,
     attemptTerminal |-> 16, writeResources |-> 17, appendMeasurements |-> 18,
     toCollecting |-> 19, toFinalizing |-> 20, toTerminal |-> 21, writeValidity |-> 22,
     writeSummary |-> 23, writeManifest |-> 24, checksum |-> 25, verify |-> 26,
     checkDestination |-> 27, publish |-> 28, recoverFinalizing |-> 29, recoverFailed |-> 30,
     recoverRun |-> 31, recoverAttempt |-> 32, returned |-> 33, allocatedError |-> 33,
     rejected |-> 33, ioError |-> 33, crashed |-> 33]

Later(label, next) == Order[label] < Order[next]

\* The state the lifecycle is in at a label.
StateAt(label, state) ==
    /\ label \in BeforeAttemptJson \cup {"toPreparing"} => state = "created"
    /\ label \in {"attemptPreparing", "writeProvenance", "toRunning"} => state = "preparing"
    /\ label \in {"attemptRunning", "execute", "enrichProvenance", "attemptTerminal",
                  "writeResources", "appendMeasurements", "toCollecting"} => state = "running"
    /\ label = "toFinalizing" => state \in {"running", "collecting"}
    /\ label = "toTerminal" => state = "finalizing"
    /\ label = "recoverFinalizing" => state \in {"preparing", "running", "collecting"}
    /\ label = "recoverFailed" => state = "finalizing"

\* The labels of a run that has not listed its files yet.
Unlisted == StagingLabels \ {"verify", "checkDestination", "publish"}

ReadyInv ==
    \A r \in Runs : /\ StateAt(pc[r], life[r].state)
                    /\ pc[r] \in Unlisted => ~staging[id[r]].sums.listed

\* How many measurements a run has left to append.
Remaining(r) == Len(output[r].measurements) - Len(Payload(r).measurements.lines)

\* The run goes on to a later operation, or appends one more of its measurements.
Advances(r) ==
    \/ Later(pc[r], pc'[r])
    \/ /\ pc[r] = "appendMeasurements" /\ pc'[r] = "appendMeasurements"
       /\ output'[r] = output[r]
       /\ Remaining(r) > 0 /\ Remaining(r)' = Remaining(r) - 1

\* What a step leaves the run that takes it.
Progress(r) ==
    /\ StateAt(pc'[r], life'[r].state)
    /\ pc'[r] \in Unlisted => ~staging'[id[r]].sums.listed
    /\ Advances(r)

\* From one label to another, whatever fails on the way.
Passes(label, next) ==
    /\ label \in StagingLabels \cup RecoveryLabels
    /\ next \in StagingLabels \cup RecoveryLabels \cup EndLabels
    /\ next \in Unlisted => label \in Unlisted
    /\ Later(label, next) /\ Later(label, "crashed")
    /\ label \in StagingLabels =>
          \A entry \in {"recoverFinalizing", "recoverFailed", "recoverRun"} : Later(label, entry)

\* The same while the lifecycle stays where it is.
PassesIn(label, next) ==
    /\ Passes(label, next)
    /\ \A state : StateAt(label, state) => StateAt(next, state)

\* An error finds the recovery where the lifecycle is.
LEMMA EntryReady ==
    ASSUME NEW state
    PROVE  /\ RecoveryEntry(state) \in {"recoverFinalizing", "recoverFailed", "recoverRun"}
           /\ StateAt(RecoveryEntry(state), state) /\ StateAt("crashed", state)
           /\ {RecoveryEntry(state), "crashed"} \cap Unlisted = {}
BY DEF RecoveryEntry, StateAt, BeforeAttemptJson, BeforeRunJson, BeforeJournal, Unlisted,
   StagingLabels

\* A step of one run with a payload stored, an error, or the death of the process.
LEMMA StoreProgress ==
    ASSUME TypeOK, ReadyInv, NEW r \in Runs, NEW next, Passes(pc[r], next),
           NEW p, Store(r, p), NEW at, NEW state,
           \/ Goto(r, next)
           \/ Abort(r, at, state) /\ pc[r] \in StagingLabels
           \/ Ignore(r, next),
           life'[r].state = state, StateAt(next, state)
    PROVE  Progress(r)
<1>1. pc \in [Runs -> Labels] /\ id[r] \in RunIds /\ staging \in [RunIds -> Dirs]
  BY DEF TypeOK, Labels
<1>2. PICK l \in {next, RecoveryEntry(state), "crashed"} :
        /\ pc' = [pc EXCEPT ![r] = l]
        /\ l = RecoveryEntry(state) => pc[r] \in StagingLabels \/ l = next
  <2>1. CASE Goto(r, next) \/ Ignore(r, next)
    <3>1. PICK l \in {next, "crashed"} : pc' = [pc EXCEPT ![r] = l]
      BY <2>1 DEF Goto, Ignore
    <3>2. "crashed" # RecoveryEntry(state)
      BY EntryReady
    <3> QED
      BY <3>1, <3>2
  <2>2. CASE Abort(r, at, state) /\ pc[r] \in StagingLabels
    BY <2>2 DEF Abort, FailAt
  <2> QED
    BY <2>1, <2>2
<1>3. pc'[r] = l
  BY <1>1, <1>2
<1>4. StateAt(l, state)
  BY <1>2, EntryReady
<1>5. staging'[id[r]].sums = staging[id[r]].sums
  BY <1>1 DEF Store, Dirs
<1>6. l \in Unlisted => pc[r] \in Unlisted
  BY <1>2, EntryReady DEF Passes
<1>7. Later(pc[r], l)
  BY <1>2, EntryReady DEF Passes
<1> QED
  BY <1>3, <1>4, <1>5, <1>6, <1>7 DEF Progress, Advances, ReadyInv

\* One operation on the staged files.
LEMMA FileProgress ==
    ASSUME TypeOK, ReadyInv, NEW r \in Runs, NEW label \in StagingLabels, NEW next,
           PassesIn(label, next), NEW at, NEW done, NEW partial,
           FileStep(r, label, at, done, partial, next)
    PROVE  Progress(r)
<1>1. pc[r] = label /\ life' = life
  BY DEF FileStep, memory
<1>2. Passes(pc[r], next) /\ StateAt(next, life[r].state)
  BY <1>1 DEF PassesIn, ReadyInv
<1>3. PICK p : Store(r, p) /\ (Goto(r, next) \/ Abort(r, at, life[r].state))
  BY DEF FileStep
<1> QED
  BY <1>1, <1>2, <1>3, StoreProgress

\* persist_attempt_status.
LEMMA AttemptProgress ==
    ASSUME TypeOK, ReadyInv, NEW r \in Runs, pc[r] \in StagingLabels, NEW next,
           PassesIn(pc[r], next), NEW at, NEW status, NEW failure,
           persist_attempt_status(r, at, status, failure, next)
    PROVE  Progress(r)
<1>1. life' = life
  BY DEF persist_attempt_status
<1>2. Passes(pc[r], next) /\ StateAt(next, life[r].state)
  BY DEF PassesIn, ReadyInv
<1>3. PICK p : Store(r, p) /\ (Goto(r, next) \/ Abort(r, at, life[r].state))
  BY DEF persist_attempt_status
<1> QED
  BY <1>1, <1>2, <1>3, StoreProgress

\* persist_run_transition, which takes the lifecycle to the state of the next
\* label.
LEMMA TransitionProgress ==
    ASSUME TypeOK, ReadyInv, NEW r \in Runs, NEW next, Passes(pc[r], next),
           NEW to, NEW failure, NEW at, StateAt(next, to),
           \/ /\ persist_run_transition(r, to, failure, next, Abort(r, at, to))
              /\ pc[r] \in StagingLabels
           \/ persist_run_transition(r, to, failure, next, Ignore(r, next))
    PROVE  Progress(r)
<1>1. life'[r].state = to
  BY DEF persist_run_transition, Transitioned, TypeOK
<1>2. PICK p : /\ Store(r, p)
               /\ \/ Goto(r, next)
                  \/ Abort(r, at, to) /\ pc[r] \in StagingLabels
                  \/ Ignore(r, next)
  BY DEF persist_run_transition
<1> QED
  BY <1>1, <1>2, StoreProgress

\* The operations that leave the lifecycle alone, in the order of the code.
LEMMA LabelsPassIn ==
    /\ PassesIn("makeAttemptDir", "writeExperiment") /\ PassesIn("writeExperiment", "writePlan")
    /\ PassesIn("writePlan", "createEvents") /\ PassesIn("createEvents", "appendCreated")
    /\ PassesIn("appendCreated", "createMeasurements") /\ PassesIn("createMeasurements", "snapshotRun")
    /\ PassesIn("snapshotRun", "snapshotAttempt") /\ PassesIn("snapshotAttempt", "toPreparing")
    /\ PassesIn("attemptPreparing", "writeProvenance") /\ PassesIn("writeProvenance", "toRunning")
    /\ PassesIn("attemptRunning", "execute") /\ PassesIn("enrichProvenance", "attemptTerminal")
    /\ PassesIn("attemptTerminal", "writeResources") /\ PassesIn("attemptTerminal", "appendMeasurements")
    /\ PassesIn("writeResources", "appendMeasurements") /\ PassesIn("writeValidity", "writeSummary")
    /\ PassesIn("writeSummary", "writeManifest") /\ PassesIn("writeManifest", "checksum")
    /\ PassesIn("verify", "checkDestination") /\ PassesIn("checkDestination", "publish")
<1>1. PassesIn("makeAttemptDir", "writeExperiment")
  BY DEF PassesIn, Passes, Later, Order, StateAt, StagingLabels, RecoveryLabels, EndLabels, Unlisted,
     BeforeAttemptJson, BeforeRunJson, BeforeJournal
<1>2. PassesIn("writeExperiment", "writePlan")
  BY DEF PassesIn, Passes, Later, Order, StateAt, StagingLabels, RecoveryLabels, EndLabels, Unlisted,
     BeforeAttemptJson, BeforeRunJson, BeforeJournal
<1>3. PassesIn("writePlan", "createEvents")
  BY DEF PassesIn, Passes, Later, Order, StateAt, StagingLabels, RecoveryLabels, EndLabels, Unlisted,
     BeforeAttemptJson, BeforeRunJson, BeforeJournal
<1>4. PassesIn("createEvents", "appendCreated")
  BY DEF PassesIn, Passes, Later, Order, StateAt, StagingLabels, RecoveryLabels, EndLabels, Unlisted,
     BeforeAttemptJson, BeforeRunJson, BeforeJournal
<1>5. PassesIn("appendCreated", "createMeasurements")
  BY DEF PassesIn, Passes, Later, Order, StateAt, StagingLabels, RecoveryLabels, EndLabels, Unlisted,
     BeforeAttemptJson, BeforeRunJson, BeforeJournal
<1>6. PassesIn("createMeasurements", "snapshotRun")
  BY DEF PassesIn, Passes, Later, Order, StateAt, StagingLabels, RecoveryLabels, EndLabels, Unlisted,
     BeforeAttemptJson, BeforeRunJson, BeforeJournal
<1>7. PassesIn("snapshotRun", "snapshotAttempt")
  BY DEF PassesIn, Passes, Later, Order, StateAt, StagingLabels, RecoveryLabels, EndLabels, Unlisted,
     BeforeAttemptJson, BeforeRunJson, BeforeJournal
<1>8. PassesIn("snapshotAttempt", "toPreparing")
  BY DEF PassesIn, Passes, Later, Order, StateAt, StagingLabels, RecoveryLabels, EndLabels, Unlisted,
     BeforeAttemptJson, BeforeRunJson, BeforeJournal
<1>9. PassesIn("attemptPreparing", "writeProvenance")
  BY DEF PassesIn, Passes, Later, Order, StateAt, StagingLabels, RecoveryLabels, EndLabels, Unlisted,
     BeforeAttemptJson, BeforeRunJson, BeforeJournal
<1>10. PassesIn("writeProvenance", "toRunning")
  BY DEF PassesIn, Passes, Later, Order, StateAt, StagingLabels, RecoveryLabels, EndLabels, Unlisted,
     BeforeAttemptJson, BeforeRunJson, BeforeJournal
<1>11. PassesIn("attemptRunning", "execute")
  BY DEF PassesIn, Passes, Later, Order, StateAt, StagingLabels, RecoveryLabels, EndLabels, Unlisted,
     BeforeAttemptJson, BeforeRunJson, BeforeJournal
<1>12. PassesIn("enrichProvenance", "attemptTerminal")
  BY DEF PassesIn, Passes, Later, Order, StateAt, StagingLabels, RecoveryLabels, EndLabels, Unlisted,
     BeforeAttemptJson, BeforeRunJson, BeforeJournal
<1>13. PassesIn("attemptTerminal", "writeResources")
  BY DEF PassesIn, Passes, Later, Order, StateAt, StagingLabels, RecoveryLabels, EndLabels, Unlisted,
     BeforeAttemptJson, BeforeRunJson, BeforeJournal
<1>14. PassesIn("attemptTerminal", "appendMeasurements")
  BY DEF PassesIn, Passes, Later, Order, StateAt, StagingLabels, RecoveryLabels, EndLabels, Unlisted,
     BeforeAttemptJson, BeforeRunJson, BeforeJournal
<1>15. PassesIn("writeResources", "appendMeasurements")
  BY DEF PassesIn, Passes, Later, Order, StateAt, StagingLabels, RecoveryLabels, EndLabels, Unlisted,
     BeforeAttemptJson, BeforeRunJson, BeforeJournal
<1>16. PassesIn("writeValidity", "writeSummary")
  BY DEF PassesIn, Passes, Later, Order, StateAt, StagingLabels, RecoveryLabels, EndLabels, Unlisted,
     BeforeAttemptJson, BeforeRunJson, BeforeJournal
<1>17. PassesIn("writeSummary", "writeManifest")
  BY DEF PassesIn, Passes, Later, Order, StateAt, StagingLabels, RecoveryLabels, EndLabels, Unlisted,
     BeforeAttemptJson, BeforeRunJson, BeforeJournal
<1>18. PassesIn("writeManifest", "checksum")
  BY DEF PassesIn, Passes, Later, Order, StateAt, StagingLabels, RecoveryLabels, EndLabels, Unlisted,
     BeforeAttemptJson, BeforeRunJson, BeforeJournal
<1>19. PassesIn("verify", "checkDestination")
  BY DEF PassesIn, Passes, Later, Order, StateAt, StagingLabels, RecoveryLabels, EndLabels, Unlisted,
     BeforeAttemptJson, BeforeRunJson, BeforeJournal
<1>20. PassesIn("checkDestination", "publish")
  BY DEF PassesIn, Passes, Later, Order, StateAt, StagingLabels, RecoveryLabels, EndLabels, Unlisted,
     BeforeAttemptJson, BeforeRunJson, BeforeJournal
<1> QED
  BY <1>1, <1>2, <1>3, <1>4, <1>5, <1>6, <1>7, <1>8, <1>9, <1>10, <1>11, <1>12, <1>13, <1>14, <1>15, <1>16, <1>17, <1>18, <1>19, <1>20

\* The transitions, and the recovery.
LEMMA LabelsPass ==
    /\ Passes("toPreparing", "attemptPreparing") /\ Passes("toRunning", "attemptRunning")
    /\ Passes("toCollecting", "toFinalizing") /\ Passes("toFinalizing", "toTerminal")
    /\ Passes("toTerminal", "writeValidity") /\ Passes("recoverFinalizing", "recoverFailed")
    /\ Passes("recoverFailed", "recoverRun") /\ Passes("recoverRun", "recoverAttempt")
    /\ Passes("recoverAttempt", "allocatedError")
    /\ StateAt("attemptPreparing", "preparing") /\ StateAt("attemptRunning", "running")
    /\ StateAt("toFinalizing", "collecting") /\ StateAt("toTerminal", "finalizing")
    /\ StateAt("recoverFailed", "finalizing")
    /\ \A state : \A label \in {"writeValidity", "recoverRun", "recoverAttempt", "allocatedError"} :
          StateAt(label, state)
BY DEF Passes, Later, Order, StateAt, StagingLabels, RecoveryLabels, EndLabels, Unlisted,
   BeforeAttemptJson, BeforeRunJson, BeforeJournal

\* The operations on single files.
LEMMA FilesProgress ==
    ASSUME TypeOK, ReadyInv, NEW r \in Runs,
           \/ MakeAttemptDir(r) \/ WriteExperiment(r) \/ WritePlan(r) \/ CreateEvents(r)
           \/ AppendCreated(r) \/ CreateMeasurements(r) \/ SnapshotRun(r) \/ SnapshotAttempt(r)
           \/ WriteProvenance(r) \/ EnrichProvenance(r) \/ WriteResources(r)
           \/ WriteValidity(r) \/ WriteSummary(r) \/ WriteManifest(r)
    PROVE  Progress(r)
<1>1. CASE MakeAttemptDir(r)
  BY <1>1, FileProgress, LabelsPassIn DEF MakeAttemptDir, StagingLabels
<1>2. CASE WriteExperiment(r)
  BY <1>2, FileProgress, LabelsPassIn DEF WriteExperiment, StagingLabels
<1>3. CASE CreateEvents(r)
  BY <1>3, FileProgress, LabelsPassIn DEF CreateEvents, StagingLabels
<1>4. CASE AppendCreated(r)
  BY <1>4, FileProgress, LabelsPassIn DEF AppendCreated, StagingLabels
<1>5. CASE CreateMeasurements(r)
  BY <1>5, FileProgress, LabelsPassIn DEF CreateMeasurements, StagingLabels
<1>6. CASE WritePlan(r)
  BY <1>6, FileProgress, LabelsPassIn DEF WritePlan, WriteRecord, StagingLabels
<1>7. CASE SnapshotRun(r)
  BY <1>7, FileProgress, LabelsPassIn DEF SnapshotRun, WriteRecord, StagingLabels
<1>8. CASE SnapshotAttempt(r)
  BY <1>8, FileProgress, LabelsPassIn DEF SnapshotAttempt, WriteRecord, StagingLabels
<1>9. CASE WriteProvenance(r)
  BY <1>9, FileProgress, LabelsPassIn DEF WriteProvenance, WriteRecord, StagingLabels
<1>10. CASE EnrichProvenance(r)
  BY <1>10, FileProgress, LabelsPassIn DEF EnrichProvenance, WriteRecord, StagingLabels
<1>11. CASE WriteResources(r)
  BY <1>11, FileProgress, LabelsPassIn DEF WriteResources, WriteRecord, StagingLabels
<1>12. CASE WriteValidity(r)
  BY <1>12, FileProgress, LabelsPassIn DEF WriteValidity, WriteRecord, StagingLabels
<1>13. CASE WriteSummary(r)
  BY <1>13, FileProgress, LabelsPassIn DEF WriteSummary, WriteRecord, StagingLabels
<1>14. CASE WriteManifest(r)
  BY <1>14, FileProgress, LabelsPassIn DEF WriteManifest, WriteRecord, StagingLabels
<1> QED
  BY <1>1, <1>2, <1>3, <1>4, <1>5, <1>6, <1>7, <1>8, <1>9, <1>10, <1>11, <1>12, <1>13, <1>14

\* The attempt's own state.
LEMMA AttemptsProgress ==
    ASSUME TypeOK, ReadyInv, NEW r \in Runs,
           AttemptPreparing(r) \/ AttemptRunning(r) \/ AttemptTerminal(r)
    PROVE  Progress(r)
<1>1. CASE AttemptPreparing(r)
  BY <1>1, AttemptProgress, LabelsPassIn DEF AttemptPreparing, StagingLabels
<1>2. CASE AttemptRunning(r)
  BY <1>2, AttemptProgress, LabelsPassIn DEF AttemptRunning, StagingLabels
<1>3. CASE AttemptTerminal(r)
  <2>1. PICK next \in {"writeResources", "appendMeasurements"} :
          persist_attempt_status(r, "running", output[r].terminal, output[r].failure, next)
    BY <1>3 DEF AttemptTerminal
  <2>2. pc[r] = "attemptTerminal" /\ PassesIn(pc[r], next)
    BY <1>3, <2>1, LabelsPassIn DEF AttemptTerminal
  <2> QED
    BY <2>1, <2>2, AttemptProgress DEF StagingLabels
<1> QED
  BY <1>1, <1>2, <1>3

\* The state of the run, in the pipeline and in the recovery.
LEMMA TransitionsProgress ==
    ASSUME TypeOK, ReadyInv, NEW r \in Runs,
           \/ ToPreparing(r) \/ ToRunning(r) \/ ToCollecting(r) \/ ToFinalizing(r) \/ ToTerminal(r)
           \/ RecoverFinalizing(r) \/ RecoverFailed(r)
    PROVE  Progress(r)
<1>1. CASE ToPreparing(r)
  BY <1>1, TransitionProgress, LabelsPass DEF ToPreparing, StagingLabels
<1>2. CASE ToRunning(r)
  BY <1>2, TransitionProgress, LabelsPass DEF ToRunning, StagingLabels
<1>3. CASE ToCollecting(r)
  BY <1>3, TransitionProgress, LabelsPass DEF ToCollecting, StagingLabels
<1>4. CASE ToFinalizing(r)
  BY <1>4, TransitionProgress, LabelsPass DEF ToFinalizing, StagingLabels
<1>5. CASE ToTerminal(r)
  BY <1>5, TransitionProgress, LabelsPass DEF ToTerminal, StagingLabels
<1>6. CASE RecoverFinalizing(r)
  BY <1>6, TransitionProgress, LabelsPass DEF RecoverFinalizing
<1>7. CASE RecoverFailed(r)
  BY <1>7, TransitionProgress, LabelsPass DEF RecoverFailed
<1> QED
  BY <1>1, <1>2, <1>3, <1>4, <1>5, <1>6, <1>7

\* The rest of the recovery.
LEMMA RecoveryProgress ==
    ASSUME TypeOK, ReadyInv, NEW r \in Runs, RecoverRun(r) \/ RecoverAttempt(r)
    PROVE  Progress(r)
<1>1. life' = life
  BY DEF RecoverRun, RecoverAttempt, memory
<1>2. CASE RecoverRun(r)
  <2>1. PICK p : Store(r, p) /\ (Goto(r, "recoverAttempt") \/ Ignore(r, "recoverAttempt"))
    BY <1>2 DEF RecoverRun
  <2>2. Passes(pc[r], "recoverAttempt") /\ StateAt("recoverAttempt", life[r].state)
    BY <1>2, LabelsPass DEF RecoverRun
  <2> QED
    BY <1>1, <2>1, <2>2, StoreProgress
<1>3. CASE RecoverAttempt(r)
  <2>1. PICK p : Store(r, p) /\ (Goto(r, "allocatedError") \/ Ignore(r, "allocatedError"))
    BY <1>3 DEF RecoverAttempt
  <2>2. Passes(pc[r], "allocatedError") /\ StateAt("allocatedError", life[r].state)
    BY <1>3, LabelsPass DEF RecoverAttempt
  <2> QED
    BY <1>1, <2>1, <2>2, StoreProgress
<1> QED
  BY <1>2, <1>3

\* An operation that leaves the staging directory and the lifecycle alone.
LEMMA QuietProgress ==
    ASSUME TypeOK, ReadyInv, NEW r \in Runs, pc[r] \in StagingLabels, NEW next,
           PassesIn(pc[r], next), UNCHANGED <<life, staging>>,
           NEW l \in {next, RecoveryEntry(life[r].state), "crashed"}, pc' = [pc EXCEPT ![r] = l]
    PROVE  Progress(r)
<1>1. pc'[r] = l
  BY DEF TypeOK
<1>2. StateAt(next, life[r].state) /\ (pc[r] \in Unlisted => ~staging[id[r]].sums.listed)
  BY DEF PassesIn, ReadyInv
<1>3. StateAt(l, life[r].state) /\ (l \in Unlisted => pc[r] \in Unlisted) /\ Later(pc[r], l)
  BY <1>2, EntryReady DEF PassesIn, Passes
<1> QED
  BY <1>1, <1>2, <1>3 DEF Progress, Advances

\* What happens before there is a staging directory, and its creation.
LEMMA StartProgress ==
    ASSUME TypeOK, NEW r \in Runs, pc[r] = "start" => life[r] = NewLifecycle,
           Reject(r) \/ Allocate(r) \/ AllocateError(r) \/ AllocateCrash(r)
    PROVE  Progress(r)
<1>1. pc \in [Runs -> Labels] /\ id[r] \in RunIds /\ staging \in [RunIds -> Dirs]
  BY DEF TypeOK, Labels
<1>2. pc[r] = "start" /\ UNCHANGED <<id, life>>
  BY DEF Reject, Allocate, AllocateError, AllocateCrash, memory
<1>3. /\ pc'[r] \in {"makeAttemptDir", "rejected", "ioError", "crashed"}
      /\ pc'[r] = "makeAttemptDir" => staging'[id[r]] = StagingDir(r)
  BY <1>1 DEF Reject, Allocate, AllocateError, AllocateCrash, Goto
<1>4. life[r].state = "created"
  BY <1>2 DEF NewLifecycle
<1>5. ~StagingDir(r).sums.listed
  BY DEF StagingDir, NoDir, NoSums
<1>6. /\ StateAt(pc'[r], "created") /\ Later("start", pc'[r])
      /\ pc'[r] \in Unlisted => pc'[r] = "makeAttemptDir"
  BY <1>3 DEF StateAt, Later, Order, Unlisted, StagingLabels, BeforeAttemptJson, BeforeRunJson,
     BeforeJournal
<1> QED
  BY <1>2, <1>3, <1>4, <1>5, <1>6 DEF Progress, Advances

\* The attempt itself starts in running and stays there.
LEMMA ExecuteProgress ==
    ASSUME TypeOK, ReadyInv, NEW r \in Runs, Execute(r)
    PROVE  Progress(r)
<1>1. /\ PassesIn("execute", "enrichProvenance") /\ PassesIn("execute", "attemptTerminal")
  BY DEF PassesIn, Passes, Later, Order, StateAt, StagingLabels, RecoveryLabels, EndLabels, Unlisted,
     BeforeAttemptJson, BeforeRunJson, BeforeJournal
<1>2. pc[r] = "execute" /\ pc[r] \in StagingLabels /\ UNCHANGED <<life, staging>>
  BY DEF Execute, StagingLabels
<1>3. PICK next, l : /\ next \in {"enrichProvenance", "attemptTerminal"} /\ l \in {next, "crashed"}
                     /\ pc' = [pc EXCEPT ![r] = l]
  BY DEF Execute, Goto
<1> QED
  BY <1>1, <1>2, <1>3, QuietProgress

\* The measurements: one more line, and when all are there, on to the next label.
LEMMA MeasurementsProgress ==
    ASSUME TypeOK, ReadyInv, AcceptInv, NEW r \in Runs,
           AppendMeasurement(r) \/ MeasurementsRecorded(r)
    PROVE  Progress(r)
<1> DEFINE file == Payload(r).measurements
           record == output[r].measurements[Len(file.lines) + 1]
<1>1. pc[r] = "appendMeasurements" /\ pc[r] \in StagingLabels /\ UNCHANGED <<id, life>>
  BY DEF AppendMeasurement, MeasurementsRecorded, FileStep, memory, StagingLabels
<1>2. pc \in [Runs -> Labels] /\ id[r] \in RunIds /\ staging \in [RunIds -> Dirs]
  BY DEF TypeOK, Labels
<1>3. /\ PassesIn(pc[r], "toCollecting") /\ PassesIn(pc[r], "toFinalizing")
  BY <1>1 DEF PassesIn, Passes, Later, Order, StateAt, StagingLabels, RecoveryLabels, EndLabels,
     Unlisted, BeforeAttemptJson, BeforeRunJson, BeforeJournal
<1>4. CASE MeasurementsRecorded(r)
  <2>1. PICK next \in {"toCollecting", "toFinalizing"} : pc' = [pc EXCEPT ![r] = next]
    BY <1>4 DEF MeasurementsRecorded, Goto
  <2> QED
    BY <1>1, <1>3, <1>4, <2>1, QuietProgress DEF MeasurementsRecorded
<1>5. CASE AppendMeasurement(r)
  <2>1. /\ Len(file.lines) < Len(output[r].measurements)
        /\ FileStep(r, "appendMeasurements", "recordingMeasurements",
                    [Payload(r) EXCEPT !.measurements = AppendLine(@, record)],
                    {[Payload(r) EXCEPT !.measurements = m] : m \in TornLine(file, record)},
                    "appendMeasurements")
    BY <1>5 DEF AppendMeasurement
  <2>2. CASE Goto(r, "appendMeasurements")
             /\ Store(r, [Payload(r) EXCEPT !.measurements = AppendLine(@, record)])
    <3>1. pc'[r] = "appendMeasurements"
      BY <1>2, <2>2 DEF Goto
    <3>2. Payload(r) \in Payloads
      BY <1>2 DEF Payload, Dirs
    <3>3. file \in Lines(Measurements) /\ ~file.open
      <4>1. LinesAt("appendMeasurements", file, output[r].measurements)
        BY <1>1 DEF AcceptInv, RunFiles, FilesAt
      <4> QED
        BY <3>2, <4>1 DEF LinesAt, Payloads
    <3>4. Payload(r)'.measurements = AppendLine(file, record)
          /\ staging'[id[r]].sums = staging[id[r]].sums
      BY <1>1, <1>2, <2>2, <3>2 DEF Store, Payload, Dirs, Payloads
    <3>5. Len(Payload(r)'.measurements.lines) = Len(file.lines) + 1 /\ Len(file.lines) \in Nat
      <4>1. Payload(r)'.measurements.lines = Append(file.lines, [whole |-> TRUE, value |-> record, joined |-> {}])
        BY <3>3, <3>4 DEF AppendLine, LinesWith, Lines
      <4> QED
        BY <3>3, <4>1 DEF Lines
    <3>6. output' = output /\ Len(output[r].measurements) \in Nat
      BY <2>1 DEF FileStep, memory, TypeOK, OutputSet
    <3>7. Remaining(r) > 0 /\ Remaining(r)' = Remaining(r) - 1
      <4>1. Len(file.lines) < Len(output[r].measurements)
        BY <2>1
      <4>2. Remaining(r)' = Len(output[r].measurements) - Len(Payload(r)'.measurements.lines)
        BY <3>6 DEF Remaining
      <4>3. Remaining(r) = Len(output[r].measurements) - Len(file.lines)
        BY DEF Remaining
      <4> DEFINE all == Len(output[r].measurements)
                 now == Len(file.lines)
                 then == Len(Payload(r)'.measurements.lines)
      <4>4. all \in Nat /\ now \in Nat /\ now < all /\ then = now + 1
        BY <3>5, <3>6, <4>1
      <4>5. Remaining(r) = all - now /\ Remaining(r)' = all - then
        BY <4>2, <4>3
      <4> HIDE DEF all, now, then
      <4>6. all - now > 0 /\ all - then = (all - now) - 1
        BY <4>4
      <4> QED
        BY <4>5, <4>6
    <3>8. StateAt("appendMeasurements", life[r].state) /\ "appendMeasurements" \in Unlisted
          /\ ~staging[id[r]].sums.listed
      BY <1>1 DEF ReadyInv, Unlisted, StagingLabels
    <3>9. Advances(r)
      BY <1>1, <3>1, <3>6, <3>7 DEF Advances
    <3> QED
      BY <1>1, <3>1, <3>4, <3>8, <3>9 DEF Progress
  <2>3. CASE /\ Abort(r, "recordingMeasurements", life[r].state)
             /\ \E left : Store(r, left)
    <3>1. Passes(pc[r], "toCollecting") /\ StateAt("toCollecting", life[r].state)
      BY <1>3 DEF PassesIn, ReadyInv
    <3> QED
      BY <1>1, <2>3, <3>1, StoreProgress
  <2> QED
    BY <2>1, <2>2, <2>3 DEF FileStep
<1> QED
  BY <1>4, <1>5

\* From the checksum list to the rename.
LEMMA ClosingProgress ==
    ASSUME TypeOK, ReadyInv, NEW r \in Runs,
           Checksum(r) \/ Verify(r) \/ CheckDestination(r) \/ Publish(r)
    PROVE  Progress(r)
<1>1. pc \in [Runs -> Labels] /\ id[r] \in RunIds /\ staging \in [RunIds -> Dirs]
  BY DEF TypeOK, Labels
<1>2. /\ UNCHANGED <<id, life>> /\ pc[r] \in {"checksum", "verify", "checkDestination", "publish"}
      /\ pc[r] \in StagingLabels
  BY DEF Checksum, Verify, CheckDestination, Publish, memory, StagingLabels
<1>3. /\ PassesIn("checksum", "verify") /\ PassesIn("publish", "returned")
      /\ PassesIn("verify", "checkDestination") /\ PassesIn("checkDestination", "publish")
  BY DEF PassesIn, Passes, Later, Order, StateAt, StagingLabels, RecoveryLabels, EndLabels, Unlisted,
     BeforeAttemptJson, BeforeRunJson, BeforeJournal
<1>4. CASE Checksum(r)
  <2>1. Passes(pc[r], "verify") /\ StateAt("verify", life[r].state)
    BY <1>3, <1>4 DEF Checksum, PassesIn, StateAt, BeforeAttemptJson, BeforeRunJson, BeforeJournal
  <2>2. CASE Goto(r, "verify")
    <3>1. pc'[r] = "verify" /\ "verify" \notin Unlisted
      BY <1>1, <2>2 DEF Goto, Unlisted
    <3> QED
      BY <1>2, <2>1, <3>1 DEF Progress, Advances, Passes
  <2>3. CASE /\ \E left \in HalfWritten(Payload(r), "sums") : Store(r, left)
             /\ Abort(r, "checksumming", life[r].state)
    BY <1>2, <2>1, <2>3, StoreProgress
  <2> QED
    BY <1>4, <2>2, <2>3 DEF Checksum
<1>5. CASE Verify(r)
  <2>1. pc[r] = "verify" /\ UNCHANGED staging
    BY <1>5 DEF Verify
  <2>2. PICK l \in {"checkDestination", RecoveryEntry(life[r].state), "crashed"} :
          pc' = [pc EXCEPT ![r] = l]
    BY <1>5 DEF Verify, Goto, FailAt, Abort
  <2> QED
    BY <1>2, <1>3, <2>1, <2>2, QuietProgress
<1>6. CASE CheckDestination(r)
  <2>1. pc[r] = "checkDestination" /\ UNCHANGED staging
    BY <1>6 DEF CheckDestination
  <2>2. PICK l \in {"publish", RecoveryEntry(life[r].state), "crashed"} : pc' = [pc EXCEPT ![r] = l]
    BY <1>6 DEF CheckDestination, Goto, FailAt
  <2> QED
    BY <1>2, <1>3, <2>1, <2>2, QuietProgress
<1>7. CASE Publish(r)
  <2>1. pc[r] = "publish"
    BY <1>7 DEF Publish
  <2>2. PICK l \in {"returned", RecoveryEntry(life[r].state), "crashed"} :
          pc' = [pc EXCEPT ![r] = l]
    BY <1>7 DEF Publish, Goto, FailAt, Abort
  <2>3. pc'[r] = l
    BY <1>1, <2>2
  <2>4. StateAt(l, life[r].state) /\ Later("publish", l)
    BY <1>2, <1>3, <2>1, EntryReady DEF PassesIn, Passes, ReadyInv
  <2>5. l \notin Unlisted
    BY EntryReady DEF Unlisted, StagingLabels
  <2> QED
    BY <1>2, <2>1, <2>3, <2>4, <2>5 DEF Progress, Advances
<1> QED
  BY <1>4, <1>5, <1>6, <1>7

\* Every step of a run is progress of that run.
LEMMA StepProgress ==
    ASSUME TypeOK, RecordInv, AcceptInv, ReadyInv, NEW r \in Runs, Step(r)
    PROVE  Progress(r)
<1>1. pc[r] = "start" => life[r] = NewLifecycle
  BY DEF RecordInv
<1> QED
  BY <1>1, StartProgress, FilesProgress, AttemptsProgress, TransitionsProgress, RecoveryProgress,
     ExecuteProgress, MeasurementsProgress, ClosingProgress DEF Step

\* What a step leaves alone of a run that does not take it.
Stays(q) ==
    /\ pc'[q] = pc[q] /\ life'[q] = life[q] /\ output'[q] = output[q]
    /\ Busy(q) => staging'[id[q]] = staging[id[q]]

\* The inductive invariant of readiness.
THEOREM ReadyInvariant == Spec => []ReadyInv
<1>1. Init => ReadyInv
  BY DEF Init, ReadyInv, StateAt, Unlisted, StagingLabels, BeforeAttemptJson, BeforeRunJson,
     BeforeJournal
<1>2. /\ TypeOK /\ DirInv /\ RecordInv /\ AcceptInv /\ ReadyInv /\ [Next]_vars => ReadyInv'
  <2> SUFFICES ASSUME TypeOK, DirInv, RecordInv, AcceptInv, ReadyInv, [Next]_vars PROVE ReadyInv'
    OBVIOUS
  <2>1. CASE UNCHANGED vars
    BY <2>1 DEF vars, ReadyInv
  <2>2. ASSUME NEW r \in Runs, Step(r) PROVE ReadyInv'
    <3>1. Progress(r) /\ \A q \in Runs \ {r} : Stays(q)
      BY <2>2, StepProgress, NeighboursKeep DEF Stays
    <3>2. id' = id
      BY <2>2, MemoryFrame DEF OthersKeep
    <3>3. \A q \in Runs : q # r => /\ StateAt(pc'[q], life'[q].state)
                                   /\ pc'[q] \in Unlisted => ~staging'[id[q]].sums.listed
      BY <3>1 DEF Stays, ReadyInv, Busy, Unlisted
    <3> QED
      BY <3>1, <3>2, <3>3 DEF ReadyInv, Progress
  <2>3. ASSUME NEW i \in RunIds, ForeignCreate(i) PROVE ReadyInv'
    BY <2>3, ForeignFrame DEF ReadyInv
  <2> QED
    BY <2>1, <2>2, <2>3 DEF Next, Terminated
<1> QED
  BY <1>1, <1>2, TypeCorrect, DirectoriesInvariant, RecordsInvariant, AcceptInvariant, PTL DEF Spec

\* What the model asks of the state, beyond the label, before an operation.
Ready(r) ==
    /\ \A move \in {<<"toPreparing", "preparing">>, <<"toRunning", "running">>,
                    <<"toCollecting", "collecting">>, <<"toFinalizing", "finalizing">>,
                    <<"toTerminal", output[r].terminal>>,
                    <<"recoverFinalizing", "finalizing">>, <<"recoverFailed", "failed">>} :
          pc[r] = move[1] => is_valid_transition(life[r].state, move[2])
    /\ pc[r] = "execute" => Outputs(plan[r]) # {}
    /\ pc[r] = "appendMeasurements" =>
          Len(Payload(r).measurements.lines) <= Len(output[r].measurements)
    /\ pc[r] = "checksum" => ~staging[id[r]].sums.listed

\* No transition the pipeline or its recovery asks for is refused by the
\* lifecycle, SHA256SUMS is never there before it is written, and there are never
\* more lines than measurements: the operation a run has come to can always be
\* performed, whatever failed before.
THEOREM AlwaysReady == Spec => [](\A r \in Runs : Ready(r))
<1>1. ASSUME TypeOK, OutputKnown, AcceptInv, ReadyInv, NEW r \in Runs PROVE Ready(r)
  <2>1. StateAt(pc[r], life[r].state)
    BY <1>1 DEF ReadyInv
  <2>2. pc[r] = "toTerminal" => output[r].terminal \in TerminalStates
    BY <1>1 DEF OutputKnown, ExecutedLabels
  <2>3. Outputs(plan[r]) # {}
    BY DEF Outputs, HelperOutputs
  <2>4. pc[r] = "appendMeasurements" =>
          Len(Payload(r).measurements.lines) <= Len(output[r].measurements)
    <3>1. SUFFICES ASSUME pc[r] = "appendMeasurements"
                   PROVE  Len(Payload(r).measurements.lines) <= Len(output[r].measurements)
      OBVIOUS
    <3>2. LinesAt("appendMeasurements", Payload(r).measurements, output[r].measurements)
      BY <1>1, <3>1 DEF AcceptInv, RunFiles, FilesAt, StagingLabels
    <3> QED
      BY <3>2 DEF LinesAt, BeforeResources, BeforeOutput, BeforeProvenance, BeforeMeasurements,
         BeforeEvents, BeforePlan, BeforeExperiment
  <2>5. pc[r] = "checksum" => ~staging[id[r]].sums.listed
    BY <1>1 DEF ReadyInv, Unlisted, StagingLabels
  <2>6. ASSUME NEW move \in {<<"toPreparing", "preparing">>, <<"toRunning", "running">>,
                    <<"toCollecting", "collecting">>, <<"toFinalizing", "finalizing">>,
                    <<"toTerminal", output[r].terminal>>,
                    <<"recoverFinalizing", "finalizing">>, <<"recoverFailed", "failed">>},
               pc[r] = move[1]
        PROVE  is_valid_transition(life[r].state, move[2])
    BY <2>1, <2>2, <2>6 DEF StateAt, is_valid_transition, BeforeAttemptJson, TerminalStates
  <2> QED
    BY <2>3, <2>4, <2>5, <2>6 DEF Ready
<1>2. TypeOK /\ OutputKnown /\ AcceptInv /\ ReadyInv => \A r \in Runs : Ready(r)
  BY <1>1
<1> QED
  BY <1>2, TypeCorrect, AcceptInvariant, ReadyInvariant, PTL

\* Every step takes exactly one run to a later operation, or appends one of
\* the measurements it has left, and leaves the others where they are; or it is a
\* third party's, which takes a free place and leaves every run where it is.  No
\* run ever returns to an operation, so none can go on for ever.
RunsAdvance ==
    [][\/ \E r \in Runs : Advances(r) /\ \A q \in Runs \ {r} : Stays(q)
       \/ /\ \E i \in RunIds : final[i].kind = "none" /\ final'[i].kind # "none"
          /\ \A q \in Runs : Stays(q)]_vars

\* The operations of run_experiment_with_services and of persist_allocated_failure
\* follow each other in one direction only, whatever fails.
THEOREM AdvanceOnly == Spec => RunsAdvance
<1> DEFINE One == \E r \in Runs : Advances(r) /\ \A q \in Runs \ {r} : Stays(q)
           Third == /\ \E i \in RunIds : final[i].kind = "none" /\ final'[i].kind # "none"
                    /\ \A q \in Runs : Stays(q)
<1>1. TypeOK /\ DirInv /\ RecordInv /\ AcceptInv /\ ReadyInv /\ [Next]_vars => [One \/ Third]_vars
  <2> SUFFICES ASSUME TypeOK, DirInv, RecordInv, AcceptInv, ReadyInv, [Next]_vars
               PROVE  [One \/ Third]_vars
    OBVIOUS
  <2>1. ASSUME NEW r \in Runs, Step(r) PROVE One
    BY <2>1, StepProgress, NeighboursKeep DEF Stays, Progress
  <2>2. ASSUME NEW i \in RunIds, ForeignCreate(i) PROVE Third
    <3>1. \A q \in Runs : Stays(q)
      BY <2>2, ForeignFrame DEF Stays
    <3>2. final[i].kind = "none" /\ final'[i].kind # "none"
      <4>1. final[i] \in Dirs
        BY DEF TypeOK
      <4>2. /\ final[i].kind = "none"
            /\ \E kind \in {"empty", "foreign"} : final'[i] = [final[i] EXCEPT !.kind = kind]
        BY <2>2, ForeignFrame
      <4> QED
        BY <4>1, <4>2 DEF Dirs
    <3> QED
      BY <3>1, <3>2
  <2>3. CASE UNCHANGED vars
    BY <2>3
  <2> QED
    BY <2>1, <2>2, <2>3 DEF Next, Terminated
<1> QED
  BY <1>1, TypeCorrect, DirectoriesInvariant, RecordsInvariant, AcceptInvariant, ReadyInvariant,
     PTL DEF Spec, RunsAdvance
=============================================================================
