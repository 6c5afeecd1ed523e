------------------------------ MODULE Evidence ------------------------------
(***************************************************************************)
(* A bundle directory on disk, the file operations of run.rs that change   *)
(* it with every state a failed or killed operation may leave, and the two *)
(* operations of evidence.rs that close it: write_checksum_file and        *)
(* verify_evidence_bundle.                                                 *)
(*                                                                         *)
(* A payload is the set of files of one bundle, each reduced to the        *)
(* content the pipeline or the verifier branches on; run identity, digests *)
(* and timestamps agree by construction of the directory and are left out. *)
(***************************************************************************)
EXTENDS Naturals, Sequences, Lifecycle, Execution

AttemptStatuses == {"created", "preparing", "running"} \cup TerminalStates

AtomicFiles == {"plan", "run", "attempt", "provenance", "resources",
                "validity", "summary", "manifest", "sums"}

\* A JSON-lines file.  A line is begun for one record, its value, and is whole
\* when it parses as that record; the last line is open until its newline is on
\* disk.  "joined" is the records that were appended to a line left open.
NoLines == [exists |-> FALSE, lines |-> <<>>, open |-> FALSE]

NoRecord == [status |-> "absent", failure |-> "none"]

NoVerdict == [status |-> "absent", validity |-> "absent"]

EmptyPayload ==
    [attemptDir |-> FALSE, experiment |-> "absent", plan |-> NoPlan,
     journal |-> NoLines, measurements |-> NoLines,
     run |-> NoRecord, attempt |-> NoRecord,
     provenance |-> "absent", resources |-> "absent", validity |-> "absent",
     summary |-> [status |-> "absent", validity |-> "absent", samples |-> 0, described |-> FALSE],
     manifest |-> NoVerdict, tmp |-> {}]

\* A directory entry of staging/ or runs/.  "owner" is the run that created
\* it; "sums" is what SHA256SUMS says: the payload as it was when hashed.
NoSums == [listed |-> FALSE, payload |-> EmptyPayload]

NoDir == [kind |-> "none", owner |-> {}, payload |-> EmptyPayload, sums |-> NoSums]

StagingDir(run) == [NoDir EXCEPT !.kind = "bundle", !.owner = {run}]

-----------------------------------------------------------------------------
(* File operations: what each leaves when it succeeds, and the set of      *)
(* states it may leave when it fails or the process dies inside it.        *)

\* write_json_atomic - the temporary sibling is written, then renamed.
Written(payload, file, content) ==
    [payload EXCEPT ![file] = content, !.tmp = @ \ {file}]

HalfWritten(payload, file) == {payload, [payload EXCEPT !.tmp = @ \cup {file}]}

\* append_json_line - write_all(record) then write_all("\n") on a file opened
\* for appending: after a line left open the new record joins that line.
Ruined(line, records) == [line EXCEPT !.whole = FALSE, !.joined = @ \cup records]

Spoiled(lines, records) == [lines EXCEPT ![Len(lines)] = Ruined(@, records)]

\* The lines once `record` has reached the disk, or only a part of it.
LinesWith(file, record, entire) ==
    IF file.open THEN Spoiled(file.lines, IF entire THEN {record} ELSE {})
    ELSE Append(file.lines, [whole |-> entire, value |-> record, joined |-> {}])

AppendLine(file, record) ==
    [file EXCEPT !.lines = LinesWith(file, record, TRUE), !.open = FALSE]

TornLine(file, record) ==
    {file}
    \cup {[file EXCEPT !.lines = LinesWith(file, record, entire), !.open = TRUE] :
              entire \in BOOLEAN}

-----------------------------------------------------------------------------
(* write_checksum_file and verify_evidence_bundle                          *)

\* write_checksum_file hashes every regular file it finds, temporaries too.
Checksummed(dir) == [dir EXCEPT !.sums = [listed |-> TRUE, payload |-> dir.payload]]

\* expected_measurement_counts, as the set of counts it accepts: none when the
\* terminal status is one the runtime cannot produce.
expected_measurement_counts(plan, status) ==
    LET Expect(scenario, terminal, warmups, measured) ==
            [scenario |-> scenario, status |-> terminal,
             warmups |-> warmups, measured |-> measured]
        Prefix == LesserOf(plan.repetitions - 1, 1)
    IN  {c \in {Expect("success", "succeeded", plan.warmups, plan.repetitions),
                Expect("insufficientMeasurements", "succeeded",
                       plan.warmups, plan.repetitions - 1),
                Expect("runtimeFailure", "failed", plan.warmups, Prefix),
                Expect("interrupted", "interrupted", plan.warmups, Prefix),
                Expect("none", "succeeded", plan.warmups, plan.repetitions),
                Expect("none", "failed", 0, 0)} :
            c.scenario = plan.scenario /\ c.status = status}

\* validate_measurements and validate_measurement_record: as many records as
\* the plan and status call for, each in its place, the last newline written.
validate_measurements(payload, expected) ==
    LET lines == payload.measurements.lines
    IN  /\ payload.measurements.exists
        /\ ~payload.measurements.open
        /\ Len(lines) = expected.warmups + expected.measured
        /\ \A k \in 1..Len(lines) :
              lines[k] = [whole |-> TRUE, value |-> RecordAt(payload.plan, k, TRUE),
                          joined |-> {}]

validate_required_payloads(payload) ==
    /\ payload.experiment # "absent"
    /\ payload.plan.runtime # "absent"
    /\ payload.run.status # "absent"
    /\ payload.journal.exists
    /\ payload.validity # "absent"
    /\ payload.summary.status # "absent"
    /\ payload.manifest.status # "absent"
    /\ payload.attempt.status # "absent"
    /\ payload.measurements.exists

\* read_checked_regular_file with retained_limit, of the two files whose length
\* the request decides: every other retained file holds a bounded number of
\* records of bounded length.
retained_within_limits(payload) == payload.plan.oversized = {}

\* validate_attempt_provenance and validate_attempt_resources on the optional files.
validate_attempt_facts(payload) ==
    /\ payload.provenance = "nvidia" => payload.plan.runtime = "llamaCppCuda"
    /\ (payload.provenance = "host" /\ payload.plan.runtime = "llamaCppCuda")
          => payload.manifest.status # "succeeded"
    /\ payload.resources = "written" => payload.plan.runtime \in HelperRuntimes

validate_record_consistency(payload) ==
    LET status == payload.manifest.status
        plan == payload.plan
    IN  \E expected \in expected_measurement_counts(plan, status) :
          LET validity == IF status # "succeeded" THEN "indeterminate"
                          ELSE IF expected.measured >= plan.repetitions THEN "valid"
                          ELSE "invalid"
          IN  /\ payload.experiment = "written"
              /\ validate_measurements(payload, expected)
              /\ payload.run.status = status
              /\ payload.attempt.status = status
              /\ validate_attempt_facts(payload)
              /\ payload.validity = payload.manifest.validity
              /\ payload.validity = validity
              /\ payload.summary =
                   [status |-> status, validity |-> payload.manifest.validity,
                    samples |-> expected.measured,
                    described |-> expected.measured > 0 /\ validity # "indeterminate"]
              /\ \A k \in 1..Len(payload.journal.lines) : payload.journal.lines[k].whole

verify_evidence_bundle(dir) ==
    /\ dir.sums.listed
    /\ dir.sums.payload = dir.payload
    /\ dir.payload.manifest.status \in TerminalStates
    /\ validate_required_payloads(dir.payload)
    /\ retained_within_limits(dir.payload)
    /\ validate_record_consistency(dir.payload)
=============================================================================
