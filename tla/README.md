# benchplane: a TLA+ verification project

Benchplane runs one declarative benchmark experiment at a time and leaves an
evidence bundle behind: a directory of records, checksummed and verified, that
appears under `<output-root>/runs/<run-id>` in one rename. This directory holds
TLA+ models of the parts of it that are hard to test, the TLC configurations
that check them on small instances, and proofs, checked by TLAPS, of what holds
for every instance.

Paths below are relative to the repository (`src/` here); `run.rs`,
`evidence.rs`, `child_supervisor.rs` and so on are in
`crates/benchplane-core/src`.

## 1. Inventory

| Part | State it keeps | Operations | Modelled in |
|---|---|---|---|
| Run pipeline (`run.rs`) | staging and final directories, in-memory run and attempt records, lifecycle | allocate, stage some thirty files and events, execute, checksum, verify, publish; recover from any failure | `RunPipeline`, `Publication` |
| Lifecycle (`lifecycle.rs`) | state, next event number | `new`, `transition` | `Lifecycle` |
| Execution (`execution.rs`, `local_fake.rs`, `cpu_probe.rs`, `llama_cpp.rs`) | none (values) | run an attempt, judge validity, summarize | `Execution`; the numbers in `Measurement`, `Statistics` |
| Evidence (`evidence.rs`) | files of a bundle | write the checksum list, verify a bundle | contents in `Evidence`, calls in `BundleVerifier` |
| Child supervisor (`child_supervisor.rs`) | child, two pipes, two reader threads, a channel, a deadline | spawn, read, poll, kill, reap, classify | `ChildSupervisor` |
| Parsing, admission, resolution (`parsing.rs`, `resolution.rs`, schema crate) | none (pure) | YAML to a resolved plan with digests | `Admission` |
| Comparison (`comparison.rs`) | none (pure) | compare two verified bundles | `Comparison`, `Statistics` |
| Provenance (`provenance.rs`) | `provenance.json`, written twice | read host facts, attach NVIDIA facts | `Provenance` |
| Command line (`crates/benchplane/src/main.rs`) | none | `run`, `validate`, `resolve`, `evidence verify` and `compare`, `schema export` | `RunPipeline`, `Admission`, `Comparison` |
| CPU probe and llama.cpp helpers | separate processes | check arguments, measure, round, emit JSON lines | arguments in `Admission`, numbers in `Measurement`, driver and device in `Provenance`; any behaviour at all in `ChildSupervisor` |
| NixOS runner, OpenTofu | configuration | start the command with an outer timeout | the timeout is a process death |

How the parts interact. `main.rs` calls the pipeline, which parses and resolves
the experiment, draws a random run ID, creates `staging/<run-id>` exclusively
and then works alone in it. The attempt runs in process (local fake) or through
the child supervisor, which owns the only threads of the program: one reads the
helper's stdout into an unbounded channel, one drains its stderr, the caller
polls channel, child and clock. Back in the pipeline, every result is written
to the staging directory in a fixed order; the last three steps hash the
directory, run the same verifier users run on it, and rename it. Any error
after allocation goes to `persist_allocated_failure`, whose up to four writes
are best effort. Two `benchplane run` processes share nothing but the file
system.

What is hard, and what makes each part correct:

- *Pipeline.* Failure or death at every file operation, including inside the
  recovery of an earlier failure; two processes with one run ID; a destination
  that appears between check and rename. Correct when what is published is
  complete and never replaced, when what is retained is consistent, when the
  exit status tells which of the two happened, and when every run ends.
- *Lifecycle.* Events must be numbered, legal and closed by at most one
  terminal event even when an append failed half-way.
- *Evidence.* The pipeline publishes only what its own verifier accepts, so
  every output of every runtime has to satisfy it. The verifier reads a
  directory it does not own, and one file of it twice: correct when what it
  accepts is what the checksum list declares, whatever happens meanwhile, and
  when on a quiet directory it accepts exactly the intact bundles.
- *Supervisor.* Exit, last bytes, end of file, deadline and errors of `wait4`
  arrive in any order. Correct when success means the complete protocol from a
  child that exited with status zero and was accounted exactly, when no
  process is signalled after its reap or left unreaped, and when the call
  returns whatever the helper does.

- *Measurement and statistics.* Three runtimes round times by their own rules,
  two adapters and the verifier check the results by theirs. Correct when an
  honest measurement is never refused and every derived number is exact.
- *Admission.* `validate`, `execution_kind`, the adapters, the helpers and the
  verifier repeat limits in different formulas and widths. Correct when a plan
  that is admitted is never refused later, fits every transport bound, and
  resolves to itself when read back.
- *Provenance.* Facts of an unknown host, captured by one set of rules and
  verified by another. Correct when no host makes a run unverifiable and when a
  succeeded CUDA run carries the proof of its device.
- *Comparison.* A dozen values are unwrapped on the strength of checks in other
  files. Correct when none of them is missing, and when the report relates its
  numbers as a reader assumes.

`PROJECT.json` lists the hazards line by line with the properties that cover
them, and those that no property covers yet with the reason.

## 2. Modules and how they correspond to the code

```
Lifecycle <- Execution <- Evidence <- RunPipeline <- MCRunPipeline
                                          |     \<- RunPipelineProofs
                                          +-- refines --> Publication
ChildSupervisor <- MCChildSupervisor
             \<- ChildSupervisorProofs
BundleVerifier <- MCBundleVerifier
             \<- BundleVerifierProofs
Statistics <- Measurement <- MCMeasurement
         |          \<- MeasurementProofs --> StatisticsProofs
         \<- Comparison <- MCComparison
         |          \<- ComparisonProofs --> StatisticsProofs
         \<- StatisticsProofs
Admission <- MCAdmission
         \<- AdmissionProofs
Provenance <- MCProvenance
         \<- ProvenanceProofs
```

**Lifecycle** has `is_valid_transition`, `TransitionEvent` and `Transitioned`
(`Lifecycle::transition`): a state and the number of the next event. An event
is its number, its two states and its failure code; timestamps are left out.

**Execution** says what an attempt can return. A plan is runtime, scenario,
warmups and repetitions, and which of the two files that hold the request itself
are longer than the verifier retains; a measurement is its place in the protocol and one bit,
`sound`: whether it passes the checks that only the verifier makes (llama.cpp
aggregates within the bounds of their request observations, observations only
on llama.cpp records). The fake's outputs are computed from the scenario; a
helper's are any complete protocol or any failure, with or without resources.
`evaluate_validity` and `summarize` follow `execution.rs`.

**Evidence** is one directory: each file with the content somebody branches on,
a JSON-lines file with its lines, whether each parses and whether the last
newline is there, the set of temporary siblings, and what the checksum list was
computed from. Each file operation is given by what it leaves when it succeeds
(`Written`, `AppendLine`) and by the set of states it may leave when it fails or
is cut short (`HalfWritten`, `TornLine`). An append that reaches a line without
newline joins it and spoils it, as in the code; `joined` keeps what such a line
holds besides its own record. `verify_evidence_bundle` is the verifier over these
contents. Of its size limits (`retained_limit`) it has those of `experiment.yaml`
and `resolved-plan.json`, whose length the request decides: names and labels are not
bounded, and the plan as indented JSON may be longer than its YAML. The other retained
files hold a few records of bounded fields (messages are cut at 1024 characters
or quote at most one metadata line of 16 KiB, provenance values have at most 256 or 512
bytes, and the compute capability, which the adapter does not bound, is two integers
of the packaged helper) and stay below their limits;
that measurements fit is `OutputFits` of `Admission`.

**RunPipeline** is `run_experiment_with_services`, one action per file
operation, with `persist_run_transition` and `persist_attempt_status` as the two
that change memory and disk together; the program counter of each process is
the next operation. `FailAt`, `Abort` and `Ignore` are the three ways an
operation ends badly: an error carried out by `at(.., phase)`, an I/O error or
the death of the process, and the same inside the recovery, where errors are
ignored. An event append followed by the `run.json` rewrite is one action with
all the intermediate states reachable through its failures, since no other
process looks into a staging directory it does not own (this is what
`StagingIsExclusive` shows). The third party under `runs/` is external.

**Publication** is the abstract specification: a run ends with one finished
bundle put in a free place in one step, or with nothing.

**ChildSupervisor** is one call of `execute` with the three threads as separate
processes, the pipes as byte sequences, and the helper as an external process
that may write any byte, close stdout, exit with any status or hang. Bytes are
`x` (part of a record that parses and validates), `b` (part of one that does
not) and newline. `wait4` answers as the kernel does, or fails.

**BundleVerifier** is `write_checksum_file` followed by
`verify_evidence_bundle_data`, one action per directory entry, path check, open,
read, checksum line and measurement line, so that another program (external) can
overwrite, grow, cut, remove or replace a file, put a link in its place, or edit
`SHA256SUMS` between any two of them. A file is a sequence of chunks, one per
`read`; an open handle sees changes made in place and keeps a file whose path was
replaced. A checksum line is an entry, a blank line, or one of the malformed lines
the parser tells apart. What the records say to each other is in `Evidence`; here
each names a run.

**Statistics** has the integer arithmetic that `execution.rs`, `evidence.rs` and
`comparison.rs` share: integer mean, nearest rank, the bounds of a rounded mean,
truncated percentages. `Option` is a set with at most one element, and a value
that does not fit `u64` is none.

**Measurement** follows the numbers of one attempt: raw nanoseconds, the
records each runtime rounds them into, the adapter's checks, the conversion of
`rusage`, the summary, and everything the verifier recomputes.

**Comparison** is `benchplane evidence compare`. The verifier's record checks are
restated over the few fields that matter here, and each `expect` of the code is a
step to exit status 101 when its value is missing.

**Admission** takes a document, with fields given or left to their defaults,
through `validate`, `resolve` and `run`: `Experiment::validate` with all its
errors, `resolve_experiment`, `execution_kind`, `expected_record_count` of both
adapters, and the argument checks of both helpers. Integers have a width:
`checked_add` and `checked_mul` yield nothing beyond it.

**Provenance** takes a host and a GPU through `capture` (the cpuinfo scan line by
line), the CUDA helper's checks and its metadata line, `parse_nvidia_metadata`,
`attach_nvidia` and the second write, to `validate_attempt_provenance`. A text is
its trimmed size, its padding and its control characters.

Definitions with a suffix such as `Publish_Replaces` are deliberate
mistakes. Each stands before the definition it distorts and is used only to
confirm that a property would notice it (`mutants` in `PROJECT.json`).

## 3. Runs

| Run | Instance | What it shows |
|---|---|---|
| `run_faults` | one run, all runtimes and scenarios, 3 I/O faults, death anywhere, third party; two of the plans are requests too long for the verifier (221 000 states) | `PublishedIsComplete`: a published bundle verifies, has an unbroken journal from `created` to the manifest's status (which the verifier itself does not check), no temporary files and one failure throughout. `FaultFreeRunIsAccepted`: the verifier turns down no output an adapter returns, except contradictory helper records, and no request that fits its limits. `JournalIsOrdered`: what recovery leaves after torn appends. `RunJsonBackedByJournal`: the event behind `run.json` has a line of its own, or is inside the very line a torn append had left open; a torn line elsewhere excuses nothing. `AttemptNeverRewritten`, `RunsEnd`. |
| `run_race` | two runs with one identity, two plans, 1 fault, third party (153 000 states) | `StagingIsExclusive`, `ExitCodeTellsOutcome`, `ContentNeverReplaced`, and that the pair implements `Publication` with its fairness. |
| `supervise` | four protocols, 5 bytes, pipe of 2, one failing `wait4` (4.7 million states) | `SuccessMeansCompleteProtocol` and its converse `ConformingHelperIsAccepted`, `AccountingNeverMasksFailure`, `NoSignalAfterReap`, `ChildReapedOnReturn`, `ResourcesOnlyFromReap`. |
| `supervise_ends` | one protocol with metadata, 3 bytes, both pipes of 1, two failing `wait4` | `ExecuteReturns` and `HelperNeverBlockedForEver` under fairness. |
| `verify` | five names, two optional, one file that may be over its limit, 2 changes at any moment of writing or verifying (5.1 million states) | `AcceptedIsDeclared`: what was parsed has the declared digests, the second read of the measurements included. `QuietVerdictIsExact`: unless the directory changes under the verifier, it accepts exactly the bundles a declarative definition calls intact. `FinalizedIsAccepted`: a bundle nobody touched is accepted unless a file is above its parsing limit or the directory is full. `RetainedWithinLimit`: also for files that grow after their size was checked. |
| `measure` | six plans of three runtimes, every duration up to two microseconds, edges of `rusage` (40 000 states) | `HonestRunIsAccepted`, `AggregateBoundsAreTight` (against all raw times behind the rounded ones), `SummaryIsExact` (against a definition of nearest rank), `AccountingIsExact`. |
| `compare` | all pairs of 136 bundles | `NeverPanics`, `OnlyPlanAndTargetDiffer`, `MirrorImage` (swapping the bundles negates every delta, percentages are truncated toward zero), `ScopesAgree`. |
| `admit` | some 4 250 documents around every limit | `AdmittedIsExecuted`, `WorkIsBounded`, `OutputFits`, `JudgesAgree` (`CommandsAgree`, `HelpersAgree` and `ResolutionIsStable`: one verdict from every place that judges a plan, also when it is read back). |
| `capture` | hosts with each kind of flawed source, GPUs with each kind of driver version and device (142 000 states) | `EveryOutcomeVerifies`, `CpuModelIsFirst`, `DriverChecksAgree`, `ProofGoesWithSuccess`. |
| `attempt_first`, `failure_event`, `invalid_output` | see the findings | three sentences of the lifecycle document that the code does not keep. |

`TypeOK` of `RunPipeline` is checked in `run_faults`, that of `ChildSupervisor` in
`supervise`; the other specifications state none, since their values are records
built in one place.

### Bounds, and why they are enough

- `MaxFaults`: three faults in `run_faults` let the first failure and two of the
  at most four writes of its recovery fail, which is what it takes to tear a
  journal line and then append to it twice. In `run_race` one fault is left to
  either run, because that run is about interleaving.
- Plans: one warmup and two repetitions for the fake, so that each scenario's
  prefix (0, 1 or 2 measured records) differs from the others; one and one for
  helpers, which keep all or nothing.
- Two runs and one identity in `run_race`: exclusivity is about pairs, and
  different identities never touch one directory. The theorems have no bound.
- Protocols: `(0,1,3,3)` has room for one record of exactly the limit,
  `(1,1,2,4)` and `(0,2,2,5)` put metadata or a second record in front, the
  first two fill their transport exactly, the last, `(1,2,2,5)`, does not fit and
  is refused before the spawn. Five bytes overrun each by at least one; a pipe of
  two lets a read split a record anywhere.
- `StderrCapacity` is 0 in `supervise` (stderr only reaches messages) and 1 in
  `supervise_ends`, where it matters.

- `verify`: limits of one or two chunks, so that one appended chunk crosses them;
  `MaxEntries` of 5 is reached when both optional files are there and `SHA256SUMS` is
  counted; with one of them there is room for a file that the list omits. Two changes are what it takes to alter a file and make the list agree,
  or to change a file and change it back.
- `measure`: 3 nanoseconds to the microsecond give every remainder; up to three
  requests. `u64` is scaled to 99999, so that a product and a sum can each cross
  it. Percentiles of up to 41 samples are checked by the assumption
  `NearestRankOfMany`, since p95 is not the maximum only from 20 samples on.
- `compare`: one bundle per field that may differ, so that every pair differs in
  at most two; slopes and offsets of the aggregates include both ends of what
  the verifier allows and one value beyond.
- `admit`: 4-bit and 8-bit integers stand for `u32` and `u64`, with limits such that
  sums and products fall below, on and above both the limit and the width.
  `LimitsAssumption` names the relations between limits that the properties rest
  on, `RealLimits` in `MCAdmission` checks them for the numbers in the code (a
  llama.cpp line of at most 400 bytes and 110 per observation; a fake's line of at
  most 400).
- `capture`: values of two bytes, files of eight, a scan of six; driver components
  of one digit around a minimum of 5.7.8, with 10 beyond the scaled `u32`.

### Fairness

`RunPipeline!FairSpec` asks that a process that is not dead takes its next
step (other than dying, which is never owed): each is sequential and waits for nothing but the file system and its
helper, whose supervision is shown to return in the other model.
`ChildSupervisor!FairSpec` asks the same of the three threads, that the
monotonic clock reaches the deadline and that a SIGKILL sent arrives. The helper
owes nothing: it may never write, close or exit.
Nothing is owed by third parties either. Only weak fairness is used.
The other specifications state no fairness: each is one sequential program that
waits for nobody, its proper ends are the states of `Terminated`, and TLC checks
that it stops nowhere else (deadlock).

## 4. Findings

1. `attempt_first`. `docs/experiment-lifecycle.md:22`: "Run-level `collecting`
   and `finalizing` therefore occur only after the attempt is terminal". After an
   I/O failure in `preparing` or `running`, `persist_allocated_failure`
   (`run.rs:757`) moves the run to `finalizing` and rewrites `attempt.json`
   with its earlier status.
2. `failure_event`. `docs/experiment-lifecycle.md:35`: "Failures use stable codes
   and are recorded on the terminal event and snapshots." A failure in
   checksumming, verifying or publishing comes after the terminal event was
   appended; only `run.json` gets it (`run.rs:783`), so the retained journal ends
   in `succeeded` without a failure.
3. `invalid_output`. `docs/experiment-lifecycle.md:39` says invalid llama.cpp
   output is `llamaCpp.outputInvalid` and proceeds through finalization.
   `validate_record` (`llama_cpp.rs:205`) does not compare aggregates with their
   observations, the verifier does (`evidence.rs:979`): such a run ends in
   `RunError::Allocated` with storage working and its destination free.

Met on the way, without a document that says otherwise:

- An experiment file above `MAX_EXPERIMENT_BYTES` (`evidence.rs:32`) is accepted
  by `run`, executed, and refused by its own verification at the end; so is a
  shorter one whose `resolved-plan.json` exceeds `MAX_RESOLVED_PLAN_BYTES`. The
  request is known before a run identity is drawn, the refusal comes after the
  work. `FaultFreeRunIsAccepted` and `FinalizedIsAccepted` state this exception.
- The verifier counts `SHA256SUMS` among the entries of a bundle, the writer runs
  before it exists: a directory of exactly `MAX_CHECKSUM_ENTRIES` payloads is
  finalized and then refused. No run leaves that many files.
- Once stdout is done while the child lives on, `recv_timeout` returns
  `Disconnected` at once, so that `supervise` polls without pause until the exit or
  the deadline.
- A device name that is padded, or holds a two-byte control character, passes the
  CUDA helper's `json_string` and fails the finished run in
  `parse_nvidia_metadata`; the bundle still verifies.

## 5. Proofs

Every theorem holds for all values of the constants that satisfy the named
assumptions: any number of runs, plans, files, records, bytes, requests or
documents, where TLC has a few. The assumptions are stated beside the constants
and evaluated by TLC on the instances above. Theorems of one component are in one
module, with the lemmas they rest on. Every invariant and every action property
that a run checks is the subject of a theorem; what is left to the runs alone is
liveness.

### RunPipelineProofs

Assumption: `ConstantsAssumption` (plans that `execution_kind` accepts, a natural
fault bound, at least one identity). Any number of runs, identities, plans and
faults.

- `TypeCorrect`. `TypeOK` alone is not inductive: `ToTerminal` and the
  records after it use the attempt's outcome, which has to be terminal by then.
  `OutputKnown` adds exactly that: from the return of the attempt on, its outcome
  is a terminal state. The proof has one lemma per kind of file operation
  (`FileStepType`, `WriteRecordType`, `RunTransitionType`, `AttemptStatusType`)
  and one per phase.
- `DirectoriesInvariant`, with `DirInv` the conjunction of
  `StagingIsExclusive`, `VerifiedFirst` (a run past verification still has a
  staging directory that verifies), `PublishedVerifies` and `FreePlaces`.
  `StagingIsExclusive` carries the others: a directory verified by one run
  cannot change before its rename because no other run works in it. Every action
  is first reduced to one of four effects on the directories (`StepsAreFramed`:
  it ends before allocation, allocates, works in its own staging directory, or
  publishes), and the invariant is proved from those.
- `StagingExclusive`, `PublishedVerified`, `NothingReplaced`: no two runs share
  a staging directory; what is under `runs/` verifies; no step changes a bundle
  or a third party's directory there.
- `Implementation`: `Spec => ImplementsPublication`. Publishing maps to
  `Publication!Publish`, with a terminal status since the bundle verified; every
  other end of a run to `GiveUp`; a third party's step to `Occupy`; the rest
  stutters.

The second half of the module is about what the pipeline leaves in its files when
any operation may fail half-way.

- `RecordsInvariant`, with `RecordInv` in three parts. A run that nothing has
  disturbed is `OnCourse`: at every label its journal is a gapless chain from
  `created` to the lifecycle's state, and `run.json`, `attempt.json` and the
  manifest are what memory holds. A recovering run is `Sane`: its journal is
  ordered as far as its lines parse, every event on disk is older than the next
  one of the lifecycle, no terminal event is there before the lifecycle is
  terminal, both copies of the run's status are `Backed` by the journal, and
  `attempt.json` is never ahead of memory. What any reader finds is `Shown`, and
  what is published is `Complete`. `JournalIsOrdered` is not inductive without
  the middle part: a torn line that a later append joins is only harmless because
  the event it spoils was never counted twice. `Backed` is stronger than
  `RunJsonBackedByJournal` in one point, without which it is not inductive: the line
  that backs a status is not the one still open, which the next append would spoil.
- The proof has one lemma per kind of operation (files that are no records,
  snapshots, transitions, attempt updates, steps without files, recovery), each
  showing that the run stays `Good`; `NeighboursKeep` then uses
  `StagingIsExclusive` to show that it disturbs nobody else.
- `OrderedJournals`, `BackedRunJson`, `CompletePublications` (all of
  `PublishedIsComplete`), and the action property `AttemptsOnlyAdvance`
  (`AttemptNeverRewritten`).
- `ExitCodeIsTrue`, from `OwnersInvariant`: which run owns which directory by how it ended.
- `FaultFreeAccepted` (`FaultFreeRunIsAccepted`), from `AcceptInvariant`. The
  records alone do not say that the verifier accepts, so `AcceptInv` adds the other
  files: at each label an undisturbed run has staged exactly the inputs, the
  measurement lines, provenance and resources, validity, summary and checksums
  written so far, with the contents its output gives them. `UndisturbedVerifies`
  then shows that the verifier accepts such a directory, since a complete
  protocol has the counts the plan asks for. A run that is refused while
  `faults = 0` is `Excused`: its destination was taken, or its helper's records
  contradict themselves, or a file of its request is too long. This stays true
  because faults only grow and a place taken under `runs/` never becomes free again.
- `AlwaysReady`, from `ReadyInvariant`: which state the lifecycle is in at each label, recovery
  included, and that nothing is listed before `checksum`. Three guards of the model
  stand for error paths it leaves out: a transition that `Lifecycle::transition` refuses,
  a `SHA256SUMS` that already exists, and more lines than measurements. The theorem
  shows that the code never takes them, so that leaving them out loses nothing.
- `AdvanceOnly` (`RunsAdvance`): every step takes one run to a later operation in `Order`, or
  appends one of the measurements it has `Remaining`. With `AlwaysReady` this is all of
  `RunsEnd` that can be said without fairness: a run can always go on, and it
  cannot go on for ever.

### ChildSupervisorProofs

Assumption: `SupervisorAssumption` (natural bounds, a pipe that holds a byte). Any
set of protocols, any number of bytes and of failing waits.

- `TypeCorrect`.
- `ReapInvariant`. `NoSignalAfterReap` is not inductive: it needs that the
  caller's `exit_status` and the kernel agree. `KnowsReap` says that until the
  join the caller holds a reap result exactly when the child is reaped, and
  holds none on the whole path through `terminate_and_reap`; `KnowsSpawn` that
  there is a child from the spawn on; `CountsWaitErrors` how many waits failed on
  the way to each point of that path.
- `NoStraySignal`, `NoChildLeft`, `ExactResources` follow: no signal after the
  reap, no child left unless two waits failed, resources only from the exact reap.
- `NobodyWaitsInVain` (`WaitsAreAnswered`): `wait4` and `Child::wait` only ever block on a child that
  was killed, and at the join each thread has ended, has bytes to read, or is at the end
  of its pipe (or will be with the killed helper). `WaitInv` ties the pipes to the helper's life
  and each blocking call to the SIGKILL before it. With the deadline this is what
  `ExecuteReturns` rests on; that the owed steps are taken is fairness.
- `ProtocolInvariant`, with `ProtocolInv` = `ReapInv`, `CallerOK` (what the caller
  knows at each label) and `StreamVerdict` (`StreamOK` as long as nothing failed, a
  reason for every output failure). `StreamOK` follows every byte: `Conserved` (what the helper
  wrote is what the reader looked at, its chunk and the pipe, in this order, and its
  line is the rest since the last newline), `Closing` (what the end of the stream means for reader, channel and
  caller), `Matching` (the events in the channel are the next lines of the output)
  and `Counted` (the lines received so far were all accepted). `Hopeless` says of
  the output alone that no complete protocol can come of it any more; a run that
  failed is `Blamed` on that, on a read error or on a failing wait.
- `CompleteSuccess` and its converse `ConformingAccepted`: the call succeeds only
  with the complete protocol, and a helper that conforms is never called invalid.
  `AccountingLast`: an accounting error is reported only when nothing else failed.
  The converse needs that the lines of an output which is not hopeless fit the
  transport (`EndsWithinRecords`), shown by a least counterexample.

### BundleVerifierProofs

Assumptions: `BundleAssumption` (natural limits, required files among the names)
and, for the last theorem, `CapacityAssumption` (the checksum list of a run and its
measurements fit the limits of those two files, which `Admission` shows for the
measurements). Any files, limits, number of changes by another program.

- `WithinLimits` (`RetainedWithinLimit`): no buffer outgrows its limit, also when
  the file grows after its size was checked.
- `DeclaredAccepted` (`AcceptedIsDeclared`), whatever changes meanwhile.
  `DeclaredInv` says that every entry of the list already processed is unique and
  `Matched` (its digest is that of the bytes retained), that at most one entry is
  `Pending`, and that both reads of the measurements had the same digest.
- `QuietVerdict` (`QuietVerdictIsExact`): the verdict on a directory at rest is
  exactly `Intact`. `QuietInv` says that a `Steady` verification is `Undisturbed`:
  what has been walked, read, listed and counted by each label is a prefix
  of what is there. Both directions are needed: nothing refuses an intact bundle
  (`...Accepts` lemmas) and what survived every check is intact (`AcceptedIsIntact`).
- `FinalizedAccepted` (`FinalizedIsAccepted`): the same with the list as
  `write_checksum_file` writes it (`Staged`, `ListWritten`, `ListComplete`).

### AdmissionProofs

Assumptions: `AdmissionAssumption` (limits are naturals, a product of two `u32` fits
`u64`), `LimitsAssumption` (the relations between limits the code relies on) and
`DocumentsAssumption` (a document is one the schema types can hold). Any
documents, widths and limits.

- `AdmissionInvariant`: `PlanInv` (a plan is the document's experiment, admitted and executable),
  `StageInv` (which stage knows which verdict) and `ExitInv`.
- `AdmittedExecuted`, `WorkBounded`, `OutputFitsBounds`, `OneJudgement`. The lemmas
  bound work, records and observations by monotonicity of products and quotients
  and show for each place that judges a plan that its formula gives the verdict
  of `validate` (`GeneralVerdict`, `CpuProbeVerdict`, `LlamaCppVerdict`,
  `AdapterAccepts`, `CpuProbeAgrees`, `LlamaCppAgrees`), and that reading back a
  resolved plan changes nothing (`RoundTrip`).

### ProvenanceProofs

Assumptions: `ProvenanceAssumption` (limits), `AttemptsAssumption` (what the sources of
a host can hold at all) and `PackagingAssumption` (section 6).

- `OutcomesVerify`, `DriverChecksAreOne`, `ProofWithSuccess` from `CaptureInv`: each
  fact is clean when captured, and the record passes its verification at every
  stage it can be written in, before and after the NVIDIA facts are attached.
- `FirstCpuModel` from `ScanInv`: the scan of `/proc/cpuinfo` has passed no line
  it recognizes, for files of any number of lines; the bytes consumed are a sum
  over the lines (`BytesOf`), unfolded by a least counterexample.

### StatisticsProofs

The facts about `Statistics` that the proofs about measurement and comparison share.
Assumption: `WidthAssumption`.

- Sums over finite sets of positions can be split, reindexed along a bijection
  and bounded pointwise (`SumSplit`, `SumReindexed`, `SumBounded`), also
  between raw and rounded times (`SumBelow`, `SumAbove`, `SumTakesAny`).
- The ranks of a list are a bijection of its positions (`Ranks`), so `Sorted` is a
  rearrangement in ascending order (`SortedSorts`), with the same sum (`SumOfSorted`).
- `NearestRank`: the value at the nearest rank is one of the list, at least
  that percentage of the values is not above it, and no smaller number does that.

`Statistics` writes `Sorted` by ranks and `Filtered` by counting kept positions.
`SortSeq` and `SelectSeq` are opaque to the prover; that the definitions agree with
them is the assumption `SortedAndFiltered` of `MCMeasurement`, which TLC evaluates on
every list of up to four values.

### MeasurementProofs

Assumptions: `WidthAssumption`, `MeasurementAssumption` (positive units, natural clock
readings) and `ClockAssumption` (clock readings fit `u64`; the bound on them is a
whole number of microseconds). Any number of requests, warmups and repetitions,
any durations.

- `MeasurementInvariant`, with `MeasureInv` = `Typed`, `Timed` (first token not after
  the end), `Judged` (every record passes every judge), `Counted`,
  `Recomputable` and the property itself.
- `HonestAccepted` (`HonestRunIsAccepted`). The hard part is the llama.cpp
  record: the mean is rounded once, each observation on its own, and the verifier
  only has the rounded ones. A rounded time is within one unit above its raw time;
  pointwise linear bounds carry over to sums (`SumBelow`, `SumAbove`), so that the
  ceiling of the mean is within `rounded_request_mean_bounds` (`MeanWithinBounds`).
- `TightBounds` (`AggregateBoundsAreTight`): the bounds allow nothing else. Every
  sum between the least and the greatest is the sum of some raw times that round
  to the observations (`SumReached`: starting at the least, one time can be
  raised by one nanosecond as long as the sum is not the greatest), and so every
  mean between the bounds is reached.
- `ExactAccounting` (`AccountingIsExact`).
- `ExactSummary` (`SummaryIsExact`). `SummaryInv` says that the
  summary is empty before `summarize` and afterwards `SummaryOfRecords` of a complete
  protocol. `MeasureInv` places the
  measured records last (`MeasuredAreLast`), so filtering them is dropping the
  warmups, and `NearestRank` gives the percentiles (`PercentileIsLeast`).

### ComparisonProofs

Assumptions: `ComparisonAssumption` (a plan has a request and a repetition),
`ReportAssumption` (distinct field names in the report, a target is one of the two) and
`BundleAssumption` (the widths of the schema: times, rates and resources are `u64`). Any
bundles, intact or not.

- `ReportsAreOfAdmitted`: `CompareInv` hands on, from label to label, what the two
  verifications, the identity check and eligibility established.
- `PlanAndTargetOnly` (`OnlyPlanAndTargetDiffer`): what the verifier pins cannot
  appear as a difference.
- `PanicsNever` (`NeverPanics`), from `PanicFree`: at each label the values that the next
  steps unwrap are there. `AdmittedRepetitions` says what the two checks leave of the records (the
  measured ones are the last, as many as the plan asks for, each with as many
  observations), `ScopesOfReport` that every list that is averaged is then non-empty
  and of words, so that its mean is a word (`WordsDescribed`).
- `SwappedIsMirrored` (`MirrorImage`). `MetricTruncated` is the arithmetic: cut off
  toward zero, which `\div` is not for a negative change, a percentage has the sign of the
  change and is less than one step below it in size. The rest follows the report part
  by part (`ScopesMirror`, `EnvironmentMirrors`, `ResourcesMirror`, `DifferencesMirror`).
- `ScopesAreOneStory` (`ScopesAgree`). `AggregateIsClose`: an aggregate within
  `rounded_request_mean_bounds` is less than one unit from the mean of its observations, on
  either side. Summed over the repetitions (`TotalsAreClose`) and with the observations
  of all repetitions joined into one list (`Flattened`), the two integer means differ by
  at most one (`MeansAreClose`).

### Induction

The induction theorems of the proof library take an operator as a parameter and
cannot be instantiated. Where a proof goes over data it takes another way: a
least counterexample, from the well-foundedness of `<` on the naturals
(`LeastNatural`), or induction along the subsets of a finite set with the set of
good subsets as a first-order parameter (`SubsetInduction`). This also unfolds
recursive functions and the folds behind `SumFunction` (`SumExists`, `SumUnfolds`), and
shows that a list of lists can be joined into one (`FlatteningExists`).

### Only model-checked

- Liveness and `ENABLED` are outside the prover's reach: `RunsEnd`, `ExecuteReturns`,
  `HelperNeverBlockedForEver`, the fairness part of `ImplementsFairPublication`. For
  `RunsEnd`, `AlwaysReady` and `AdvanceOnly` prove everything but the last step, from a
  guard that holds to an action that is enabled and taken; for `ExecuteReturns`,
  `NobodyWaitsInVain` proves that no wait is in vain, while the deadline is model-checked.
- That `Sorted` and `Filtered` are what `SortSeq` and `SelectSeq` compute (`SortedAndFiltered`).

## 6. Not modelled, and assumptions

- The death of the process is modelled, the loss of the page cache is not: the
  code syncs nothing and promises nothing after a power loss.
- The pipes close with the helper. A descendant that inherited them would hold
  both reader threads, and with them the join, beyond the deadline; the packaged
  helpers start no process.
- A read error on stderr, which ends its thread early, is left out; a read error
  on stdout is modelled.
- Hashing is ideal: equal digests mean equal contents.
- I/O errors of the verifier's own reads, and of `write_checksum_file`'s writes,
  end it with an error; `RunPipeline` has them as failures of `Checksum` and
  `Verify`, `BundleVerifier` only has the errors that follow from the directory.
- `PackagingAssumption`: an executable built by Nix lies in a well-formed store
  object, and the compiled paths of engine and model are both there or both absent.
  Without it `nix_store_object` can keep a path that `optional_nix_store_path`
  refuses.
- YAML and JSON syntax, and the text inside a value: a document parses or does not.
  `u128` and `i128` intermediates are exact (the largest stays below 2^127).
- What the helpers compute while the clock runs, llama.cpp and CUDA.
- Printing, `schema export`, Nix and OpenTofu configuration: I/O or declarative,
  without state of their own.

## 7. Plan

Done: a module for every part with program logic of its own (the pipeline and its
publication, the supervisor, the verifier call by call, the numbers, comparison,
admission, provenance), and for each of them an inductive invariant and the
theorems that follow from it.

Next: a composition in which the supervisor's result is the pipeline's output, so
that `HelperOutputs` is derived rather than stated.
