--------------------------- MODULE BundleVerifier ---------------------------
(***************************************************************************)
(* evidence.rs step by step: write_checksum_file lists the files of a      *)
(* staged bundle, and verify_evidence_bundle_data later reads the list and *)
(* the files one system call at a time, while another program may change   *)
(* the directory between any two calls.  measurements.jsonl is read twice: *)
(* once to hash it and once, line by line, to parse it.                    *)
(*                                                                         *)
(* A file is a sequence of chunks, one per read: chunk 0 does not parse,   *)
(* chunk v > 0 belongs to records that name run v.  SHA-256 is a           *)
(* constructor, so equal digests mean equal contents.  Module Evidence     *)
(* holds what the records themselves must say.                             *)
(***************************************************************************)
EXTENDS Naturals, Sequences, FiniteSets

CONSTANTS
    NameOrder,          \* the payload names, in the order a BTreeMap keeps them
    Required,           \* validate_required_payloads
    Limit,              \* retained_limit, in chunks: only these names are kept in memory
    MeasurementsLimit,  \* MAX_MEASUREMENTS_BYTES, in chunks
    MeasurementLines,   \* the records expected_measurement_counts calls for
    MaxEntries,         \* MAX_CHECKSUM_ENTRIES
    MaxSumsLines,       \* MAX_CHECKSUM_FILE_BYTES, in lines
    Growable,           \* staged files that may be above their limit by one chunk
    MaxChanges          \* bound: changes another program makes

Names == {NameOrder[k] : k \in DOMAIN NameOrder}

Manifest == "manifest.json"
Measurements == "attempts/0001/measurements.jsonl"

Retained == DOMAIN Limit

ASSUME BundleAssumption ==
    /\ NameOrder \in Seq(Names) /\ "SHA256SUMS" \notin Names
    /\ Manifest \in Retained
    /\ Retained \subseteq Names \ {Measurements}
    /\ Required \subseteq Names
    /\ {Manifest, Measurements} \subseteq Required
    /\ Limit \in [Retained -> Nat \ {0}]
    /\ MeasurementsLimit \in Nat /\ MeasurementLines \in Nat
    /\ MaxEntries \in Nat /\ MaxSumsLines \in Nat /\ MaxChanges \in Nat
    /\ Growable \subseteq Retained

\* What a run stages fits: SHA256SUMS holds 4 MiB and the names are a dozen short
\* ones; measurements.jsonl holds 8 MiB, above what the largest admitted
\* experiment of any workload writes.
ASSUME CapacityAssumption ==
    /\ Len(NameOrder) <= MaxSumsLines
    /\ MeasurementLines <= MeasurementsLimit

VARIABLES
    disk,      \* what each payload path holds
    sums,      \* SHA256SUMS
    changes,   \* changes made so far by the other program
    dirty,     \* one of them fell inside the verification
    pc,        \* the next step of the reader
    role,      \* "finalize" in write_checksum_file, "verify" in the verifier
    listing,   \* directory entries gather_directory has still to visit
    visited,   \* entries_seen
    payloads,  \* gather_payload_paths
    lines,     \* finalize: the lines of SHA256SUMS.tmp; verify: those read so far
    handle,    \* the payload being hashed and what was read of it
    digests,   \* verified_digests
    retained,  \* retained_records
    records,   \* the measurements parsed by the second read
    verdict    \* "none", "accepted", or the EvidenceError

vars == <<disk, sums, changes, dirty, pc, role, listing, visited, payloads, lines,
          handle, digests, retained, records, verdict>>

world == <<disk, sums, changes, dirty>>

gathered == <<role, listing, visited, payloads>>

results == <<digests, retained, records>>

Sha256(content) == [sha256 |-> content]

Unread == <<999>>

\* A path holds nothing, a regular file, a symbolic link, or a regular file
\* that is reached through a linked parent directory and so lies elsewhere.
Entry(kind, content) == [kind |-> kind, content |-> content]

Absent == Entry("absent", <<>>)

Present == {n \in Names : disk[n].kind # "absent"}

\* A line of SHA256SUMS: an entry, a blank line, or one of the malformed lines
\* the parser tells apart before it looks at the name.
Line(fault, name, digest) == [fault |-> fault, name |-> name, digest |-> digest]

LineFaults == {"InvalidChecksumFileEncoding", "ChecksumLineTooLong", "InvalidChecksumLine",
               "InvalidChecksum", "UnsafePath"}

BlankLine == Line("blank", Manifest, Sha256(<<>>))

NoHandle == [name |-> Manifest, live |-> FALSE, content |-> <<>>, got |-> <<>>]

\* What read() sees through the handle: the file in place as long as the path
\* still leads to it, its last content once the path was replaced.
Visible == IF handle.live THEN disk[handle.name].content ELSE handle.content

\* What the run staged: no limit is applied to the experiment it was given or
\* to the plan resolved from it.
StagedContent(n, oversized) ==
    [k \in 1..(IF n = Measurements THEN MeasurementLines
               ELSE IF n \in oversized THEN Limit[n] + 1 ELSE 1) |-> 1]

Init ==
    /\ \E optional \in SUBSET (Names \ Required), oversized \in SUBSET Growable :
          disk = [n \in Names |-> IF n \in Required \cup optional
                                  THEN Entry("file", StagedContent(n, oversized)) ELSE Absent]
    /\ sums = [exists |-> FALSE, lines |-> <<>>]
    /\ changes = 0
    /\ dirty = FALSE
    /\ pc = "start"
    /\ role = "finalize"
    /\ listing = {}
    /\ visited = 0
    /\ payloads = {}
    /\ lines = <<>>
    /\ handle = NoHandle
    /\ digests = [n \in Names |-> Sha256(Unread)]
    /\ retained = [n \in Retained |-> Unread]
    /\ records = <<>>
    /\ verdict = "none"

Refuse(error) ==
    /\ verdict' = error
    /\ pc' = "done"
    /\ UNCHANGED <<world, gathered, lines, handle, results>>

Goto(label) == pc' = label /\ UNCHANGED <<world, verdict>>

-----------------------------------------------------------------------------
(* canonical_bundle_root and gather_payload_paths, for both roles          *)

\* write_checksum_file refuses a finalized bundle; read_dir then lists it.
Start ==
    /\ pc = "start"
    /\ \/ role = "finalize" /\ sums.exists /\ Refuse("AlreadyFinalized")
       \/ /\ role = "verify" \/ ~sums.exists
          /\ listing' = Present \cup (IF sums.exists THEN {"SHA256SUMS"} ELSE {})
          /\ visited' = 0
          /\ payloads' = {}
          /\ lines' = <<>>
          /\ Goto("gather")
          /\ UNCHANGED <<role, handle, results>>

\* Mutant: a directory of exactly the limit is refused.
GatherEntry_LimitExclusive(e) ==
    /\ pc = "gather"
    /\ e \in listing
    /\ IF visited + 1 >= MaxEntries THEN Refuse("TooManyChecksumEntries")
       ELSE IF e # "SHA256SUMS" /\ disk[e].kind = "absent" THEN Refuse("Read")
       ELSE IF e # "SHA256SUMS" /\ disk[e].kind # "file" THEN Refuse("NonRegularFile")
       ELSE /\ listing' = listing \ {e}
            /\ visited' = visited + 1
            /\ payloads' = payloads \cup ({e} \ {"SHA256SUMS"})
            /\ Goto("gather")
            /\ UNCHANGED <<role, lines, handle, results>>

\* One turn of gather_directory: count the entry, skip SHA256SUMS itself,
\* refuse what is not a regular file or is gone by now.
GatherEntry(e) ==
    /\ pc = "gather"
    /\ e \in listing
    /\ IF visited + 1 > MaxEntries THEN Refuse("TooManyChecksumEntries")
       ELSE IF e # "SHA256SUMS" /\ disk[e].kind = "absent" THEN Refuse("Read")
       ELSE IF e # "SHA256SUMS" /\ disk[e].kind # "file" THEN Refuse("NonRegularFile")
       ELSE /\ listing' = listing \ {e}
            /\ visited' = visited + 1
            /\ payloads' = payloads \cup ({e} \ {"SHA256SUMS"})
            /\ Goto("gather")
            /\ UNCHANGED <<role, lines, handle, results>>

Gathered ==
    /\ pc = "gather"
    /\ listing = {}
    /\ Goto(IF role = "finalize" THEN "hashNext" ELSE "openSums")
    /\ UNCHANGED <<gathered, lines, handle, results>>

-----------------------------------------------------------------------------
(* hash_regular_file, for both roles                                       *)

\* checked_regular_path: the type of the path itself, then where it leads.
\* Without links two names never share a canonical path, so checked_targets
\* adds nothing here to the check on checked_names.
PathError(n) ==
    CASE disk[n].kind = "absent" -> "Read"
      [] disk[n].kind = "link" -> "NonRegularFile"
      [] disk[n].kind = "elsewhere" -> "PathEscape"
      [] OTHER -> "none"

CheckPath ==
    /\ pc = "checkPath"
    /\ IF PathError(handle.name) # "none" THEN Refuse(PathError(handle.name))
       ELSE /\ Goto("open")
            /\ UNCHANGED <<gathered, lines, handle, results>>

LimitError(n) == IF n = Manifest THEN "ManifestTooLarge" ELSE "InconsistentRecord"

\* Mutant: a file of exactly its limit is refused.
OpenFile_LimitExclusive ==
    LET n == handle.name
    IN  /\ pc = "open"
        /\ IF disk[n].kind = "absent" THEN Refuse("Read")
           ELSE IF role = "verify" /\ n \in Retained /\ Len(disk[n].content) >= Limit[n]
                THEN Refuse(LimitError(n))
           ELSE /\ handle' = [handle EXCEPT !.live = TRUE, !.got = <<>>]
                /\ Goto("read")
                /\ UNCHANGED <<gathered, lines, results>>

\* fs::metadata and File::open follow whatever the path has become since it
\* was checked; only retained files have a limit.
OpenFile ==
    LET n == handle.name
    IN  /\ pc = "open"
        /\ IF disk[n].kind = "absent" THEN Refuse("Read")
           ELSE IF role = "verify" /\ n \in Retained /\ Len(disk[n].content) > Limit[n]
                THEN Refuse(LimitError(n))
           ELSE /\ handle' = [handle EXCEPT !.live = TRUE, !.got = <<>>]
                /\ Goto("read")
                /\ UNCHANGED <<gathered, lines, results>>

\* Mutant: only the size reported by metadata is checked, not what is read.
ReadChunk_Unbounded ==
    /\ pc = "read"
    /\ Len(handle.got) < Len(Visible)
    /\ handle' = [handle EXCEPT !.got = Append(@, Visible[Len(@) + 1])]
    /\ Goto("read")
    /\ UNCHANGED <<gathered, lines, results>>

\* One turn of the read loop: hash the chunk and keep it if the file is one
\* that is retained, unless it has grown past its limit since metadata.
ReadChunk ==
    LET n == handle.name
    IN  /\ pc = "read"
        /\ Len(handle.got) < Len(Visible)
        /\ IF role = "verify" /\ n \in Retained /\ Len(handle.got) + 1 > Limit[n]
           THEN Refuse(LimitError(n))
           ELSE /\ handle' = [handle EXCEPT !.got = Append(@, Visible[Len(@) + 1])]
                /\ Goto("read")
                /\ UNCHANGED <<gathered, lines, results>>

EndOfFile == pc = "read" /\ Len(handle.got) >= Len(Visible)

-----------------------------------------------------------------------------
(* write_checksum_file                                                     *)

\* The payloads that have no line yet, by their places in the BTreeMap.
Unlisted ==
    {k \in DOMAIN NameOrder :
        NameOrder[k] \in payloads /\ \A j \in DOMAIN lines : lines[j].name # NameOrder[k]}

HashNext ==
    /\ pc = "hashNext"
    /\ \E k \in Unlisted :
          /\ \A j \in Unlisted : k <= j
          /\ handle' = [NoHandle EXCEPT !.name = NameOrder[k]]
    /\ Goto("checkPath")
    /\ UNCHANGED <<gathered, lines, results>>

WriteLine ==
    /\ role = "finalize"
    /\ EndOfFile
    /\ lines' = Append(lines, Line("none", handle.name, Sha256(handle.got)))
    /\ handle' = NoHandle
    /\ Goto("hashNext")
    /\ UNCHANGED <<gathered, results>>

\* SHA256SUMS.tmp is flushed and renamed; the verifier runs on it later.
RenameSums ==
    /\ pc = "hashNext"
    /\ Unlisted = {}
    /\ sums' = [exists |-> TRUE, lines |-> lines]
    /\ role' = "verify"
    /\ pc' = "start"
    /\ UNCHANGED <<disk, changes, dirty, listing, visited, payloads, lines, handle, results, verdict>>

-----------------------------------------------------------------------------
(* verify_evidence_bundle_data                                             *)

OpenSums ==
    /\ pc = "openSums"
    /\ IF ~sums.exists THEN Refuse("Read")
       ELSE IF Len(sums.lines) > MaxSumsLines THEN Refuse("ChecksumFileTooLarge")
       ELSE Goto("line") /\ UNCHANGED <<gathered, lines, handle, results>>

\* checked_names: the names of the lines read so far, blank lines aside.
Entries(read) == {k \in DOMAIN read : read[k].fault = "none"}

CheckedNames == {lines[k].name : k \in Entries(lines)}

\* What is refused of an entry before its file is opened.
EntryError(line) ==
    IF line.fault # "none" THEN line.fault
    ELSE IF line.name \in CheckedNames THEN "DuplicatePath"
    ELSE IF line.name \notin payloads THEN "DeclaredPayloadMissing"
    ELSE "none"

\* What is refused of the k-th line before it is looked into.
LineError(line, k) ==
    IF line.fault = "InvalidChecksumFileEncoding" THEN line.fault
    ELSE IF k > MaxSumsLines THEN "ChecksumFileTooLarge"
    ELSE IF line.fault = "ChecksumLineTooLong" THEN line.fault
    ELSE "none"

\* read_line, the bounds on the list, and one entry of it.
ReadLine ==
    LET k == Len(lines) + 1
    IN  /\ pc = "line"
        /\ k <= Len(sums.lines)
        /\ LET line == sums.lines[k]
           IN  IF LineError(line, k) # "none" THEN Refuse(LineError(line, k))
               ELSE IF line.fault = "blank"
                    THEN /\ lines' = Append(lines, line)
                         /\ Goto("line")
                         /\ UNCHANGED <<gathered, handle, results>>
               ELSE IF Cardinality(Entries(lines)) >= MaxEntries
                    THEN Refuse("TooManyChecksumEntries")
               ELSE IF EntryError(line) # "none" THEN Refuse(EntryError(line))
               ELSE /\ lines' = Append(lines, line)
                    /\ handle' = [NoHandle EXCEPT !.name = line.name]
                    /\ Goto("checkPath")
                    /\ UNCHANGED <<gathered, results>>

\* The digest of what was read against the line, then the two maps.
FinishEntry ==
    LET n == handle.name
        actual == Sha256(handle.got)
    IN  /\ role = "verify"
        /\ EndOfFile
        /\ IF actual # lines[Len(lines)].digest THEN Refuse("ChecksumMismatch")
           ELSE /\ digests' = [digests EXCEPT ![n] = actual]
                /\ retained' = IF n \in Retained THEN [retained EXCEPT ![n] = handle.got]
                               ELSE retained
                /\ handle' = NoHandle
                /\ Goto("line")
                /\ UNCHANGED <<gathered, lines, records>>

Parses(content) == Len(content) > 0 /\ \A k \in 1..Len(content) : content[k] > 0

\* After the last line: the manifest, the files no line lists, validate_manifest
\* and validate_required_payloads.
CloseError ==
    IF Manifest \notin CheckedNames THEN "MissingManifestChecksum"
    ELSE IF ~(payloads \subseteq CheckedNames) THEN "MissingPayloadChecksum"
    ELSE IF ~Parses(retained[Manifest]) THEN "Manifest"
    ELSE IF ~(Required \subseteq CheckedNames) THEN "MissingRequiredPayload"
    ELSE "none"

EndOfSums ==
    /\ pc = "line"
    /\ Len(lines) >= Len(sums.lines)
    /\ IF CloseError # "none" THEN Refuse(CloseError)
       ELSE /\ handle' = [NoHandle EXCEPT !.name = Measurements]
            /\ Goto("checkMeasurements")
            /\ UNCHANGED <<gathered, lines, results>>

\* validate_measurements opens the file a second time.
CheckMeasurements ==
    /\ pc = "checkMeasurements"
    /\ IF PathError(Measurements) # "none" THEN Refuse(PathError(Measurements))
       ELSE /\ Goto("openMeasurements")
            /\ UNCHANGED <<gathered, lines, handle, results>>

OpenMeasurements ==
    /\ pc = "openMeasurements"
    /\ IF disk[Measurements].kind = "absent" THEN Refuse("Read")
       ELSE IF Len(disk[Measurements].content) > MeasurementsLimit
            THEN Refuse("InvalidMeasurements")
       ELSE /\ handle' = [handle EXCEPT !.live = TRUE]
            /\ Goto("measure")
            /\ UNCHANGED <<gathered, lines, results>>

MeasureLine ==
    LET k == Len(records) + 1
    IN  /\ pc = "measure"
        /\ k <= Len(Visible)
        /\ IF k > MeasurementsLimit \/ k > MeasurementLines THEN Refuse("InvalidMeasurements")
           ELSE IF ~Parses(<<Visible[k]>>) THEN Refuse("InvalidRecord")
           ELSE /\ records' = Append(records, Visible[k])
                /\ Goto("measure")
                /\ UNCHANGED <<gathered, lines, handle, digests, retained>>

\* Mutant: the second read is not compared with the digest of the first.
MeasurementsError_Unhashed ==
    IF Len(records) # MeasurementLines THEN "InvalidMeasurements" ELSE "none"

MeasurementsError ==
    IF Sha256(records) # digests[Measurements] THEN "ChecksumMismatch"
    ELSE IF Len(records) # MeasurementLines THEN "InvalidMeasurements"
    ELSE "none"

\* validate_record_consistency on the retained records: each parses and they
\* all name the run of the manifest.  The code looks at the plan and the
\* experiment before the measurements and at the rest after them; a bundle with
\* both kinds of error is refused all the same.
ConsistentRecords(kept) ==
    \A n \in Retained :
        n \in CheckedNames => Parses(kept[n]) /\ \A k \in 1..Len(kept[n]) : kept[n][k] = kept[Manifest][1]

Conclude ==
    /\ pc = "measure"
    /\ Len(records) >= Len(Visible)
    /\ IF MeasurementsError # "none" THEN Refuse(MeasurementsError)
       ELSE IF ~ConsistentRecords(retained) THEN Refuse("InconsistentRecord")
       ELSE /\ verdict' = "accepted"
            /\ pc' = "done"
            /\ UNCHANGED <<world, gathered, lines, handle, results>>

-----------------------------------------------------------------------------
(* Another program at work in the directory                                *)

MayChange ==
    /\ changes < MaxChanges
    /\ pc # "done"

Changed ==
    /\ changes' = changes + 1
    /\ dirty' = (dirty \/ (role = "verify" /\ pc # "start"))
    /\ UNCHANGED <<pc, role, listing, visited, payloads, lines, results, verdict>>

\* In place: the first chunk is overwritten, a chunk is added, or the last one
\* is cut.  An open handle sees it.
ChangeInPlace(n) ==
    LET old == disk[n].content
    IN  /\ MayChange
        /\ disk[n].kind # "absent"
        /\ \E new \in {Append(old, 1)}
                      \cup (IF old = <<>> THEN {}
                            ELSE {[old EXCEPT ![1] = v] : v \in {0, 1, 2}} \ {old})
                      \cup (IF old = <<>> THEN {} ELSE {SubSeq(old, 1, Len(old) - 1)}) :
              disk' = [disk EXCEPT ![n].content = new]
        /\ Changed
        /\ UNCHANGED <<sums, handle>>

Replacements ==
    {Absent} \cup {Entry(kind, <<v>>) : kind \in {"file", "link", "elsewhere"}, v \in {1, 2}}

\* The path is removed or comes to lead to something else.  An open handle
\* keeps the file it was opened on.
Replace(n) ==
    /\ MayChange
    /\ \E new \in Replacements : new # disk[n] /\ disk' = [disk EXCEPT ![n] = new]
    /\ handle' = IF handle.live /\ handle.name = n
                 THEN [handle EXCEPT !.live = FALSE, !.content = disk[n].content]
                 ELSE handle
    /\ Changed
    /\ UNCHANGED sums

\* SHA256SUMS loses a line, repeats one, gains one, or has one corrupted.
ChangeSums ==
    LET old == sums.lines
    IN  /\ MayChange
        /\ sums.exists
        /\ \/ \E k \in 1..Len(old) :
                 \E new \in {SubSeq(old, 1, k - 1) \o SubSeq(old, k + 1, Len(old)),
                             Append(old, old[k]), Append(old, BlankLine),
                             [old EXCEPT ![k].digest = Sha256(<<2>>)]}
                            \cup {[old EXCEPT ![k].fault = f] : f \in LineFaults} :
                    sums' = [sums EXCEPT !.lines = new]
           \/ sums' = [exists |-> FALSE, lines |-> <<>>]
        /\ Changed
        /\ UNCHANGED <<disk, handle>>

-----------------------------------------------------------------------------
Verifier ==
    \/ Start \/ Gathered
    \/ \E e \in Names \cup {"SHA256SUMS"} : GatherEntry(e)
    \/ CheckPath \/ OpenFile \/ ReadChunk
    \/ HashNext \/ WriteLine \/ RenameSums
    \/ OpenSums \/ ReadLine \/ FinishEntry \/ EndOfSums
    \/ CheckMeasurements \/ OpenMeasurements \/ MeasureLine \/ Conclude

OtherProgram == ChangeSums \/ \E n \in Names : ChangeInPlace(n) \/ Replace(n)

Terminated == pc = "done" /\ UNCHANGED vars

Next == Verifier \/ OtherProgram \/ Terminated

Spec == Init /\ [][Next]_vars

-----------------------------------------------------------------------------
(* Properties                                                              *)

\* Whatever happens to the directory meanwhile, an accepted bundle is exactly
\* what SHA256SUMS declares: every file found is listed once, and the bytes
\* that were parsed - the retained records and the second read of the
\* measurements - are bytes whose digest is the listed one (evidence.rs
\* verify_evidence_bundle_data and validate_measurements).
AcceptedIsDeclared ==
    verdict = "accepted" =>
        /\ payloads = CheckedNames
        /\ \A j, k \in Entries(lines) : lines[j].name = lines[k].name => j = k
        /\ \A k \in Entries(lines) :
              LET n == lines[k].name
              IN  /\ n \in Retained => lines[k].digest = Sha256(retained[n])
                  /\ n = Measurements => lines[k].digest = Sha256(records)

\* The reference: what it is for a bundle at rest to be intact.
Intact ==
    /\ sums.exists
    /\ Required \subseteq Present
    /\ disk[Manifest].content # <<>>
    /\ Len(sums.lines) <= MaxSumsLines
    /\ \A k \in DOMAIN sums.lines : sums.lines[k].fault \in {"none", "blank"}
    /\ Cardinality(Entries(sums.lines)) = Cardinality(Present)
    /\ Cardinality(Present) < MaxEntries
    /\ \A n \in Present :
          /\ disk[n].kind = "file"
          /\ \E k \in Entries(sums.lines) :
                sums.lines[k].name = n /\ sums.lines[k].digest = Sha256(disk[n].content)
          /\ n \in Retained => /\ Len(disk[n].content) <= Limit[n]
                               /\ Parses(disk[n].content)
                               /\ \A k \in 1..Len(disk[n].content) :
                                     disk[n].content[k] = disk[Manifest].content[1]
    /\ Len(disk[Measurements].content) = MeasurementLines
    /\ MeasurementLines <= MeasurementsLimit
    /\ \A k \in 1..MeasurementLines : disk[Measurements].content[k] > 0

\* On a directory that nobody changes meanwhile, the verifier accepts exactly
\* the intact bundles: nothing missing, added, repeated, replaced or altered
\* passes, and nothing else is refused.
QuietVerdictIsExact ==
    (role = "verify" /\ pc = "done" /\ ~dirty) => (verdict = "accepted" <=> Intact)

\* A bundle that write_checksum_file listed and nobody changed is accepted,
\* except for a file above its parsing limit or a directory that is full: the
\* list itself is one more entry for the verifier than for the writer.
FinalizedIsAccepted ==
    (changes = 0 /\ pc = "done") =>
        (verdict = "accepted" <=>
            /\ \A n \in Retained : Len(disk[n].content) <= Limit[n]
            /\ Cardinality(Present) < MaxEntries)

\* No file is kept in memory beyond its limit, not even one that grows after
\* its size was checked (the second comparison, inside the read loop), and no
\* more entries are counted than the limit allows.
RetainedWithinLimit ==
    /\ \A n \in Retained : retained[n] # Unread => Len(retained[n]) <= Limit[n]
    /\ role = "verify" /\ pc = "read" /\ handle.name \in Retained
          => Len(handle.got) <= Limit[handle.name]
    /\ Len(records) <= MeasurementsLimit
    /\ visited <= MaxEntries

=============================================================================
