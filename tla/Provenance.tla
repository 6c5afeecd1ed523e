----------------------------- MODULE Provenance -----------------------------
(***************************************************************************)
(* Attempt provenance from the host to the verifier: what provenance.rs    *)
(* captures while the attempt is prepared, what the CUDA helper observes   *)
(* and emits, what llama_cpp.rs accepts of it and run.rs attaches, and     *)
(* what evidence.rs insists on in the end.                                 *)
(*                                                                         *)
(* A text is a record: its size in bytes once trimmed, whether white space *)
(* surrounds it, and the controls inside it ("none", "ascii" below 0x20    *)
(* and 0x7f, "c1" for the ones that take two bytes in UTF-8).  A Rust      *)
(* Option is a set with at most one element.                               *)
(***************************************************************************)
EXTENDS Integers, Sequences, FiniteSets

CONSTANTS
    Attempts,  \* [plan, host, gpu]: the runtime and target of a plan, what the fixed
               \* sources of a host hold, what driver, CUDA and llama.cpp report
    MAX_OS_RELEASE_BYTES, MAX_CPUINFO_SCAN_BYTES, MAX_KERNEL_FILE_BYTES,
    MAX_PLATFORM_VALUE_BYTES, MAX_NIX_STORE_PATH_BYTES,
    MAX_PROVENANCE_VALUE_BYTES,  \* the verifier's limit on a value
    MIN_NVIDIA_DRIVER_VERSION,   \* <<major, minor, patch>>
    U32Max

\* provenance.rs may only keep what evidence.rs accepts; the file limits are
\* larger than any value.
ASSUME ProvenanceAssumption ==
    /\ {MAX_OS_RELEASE_BYTES, MAX_CPUINFO_SCAN_BYTES, MAX_KERNEL_FILE_BYTES,
        MAX_PLATFORM_VALUE_BYTES, MAX_NIX_STORE_PATH_BYTES, U32Max} \subseteq Nat
    /\ MAX_PROVENANCE_VALUE_BYTES \in Nat
    /\ MAX_PLATFORM_VALUE_BYTES \in 1..MAX_PROVENANCE_VALUE_BYTES
    /\ MIN_NVIDIA_DRIVER_VERSION \in Seq(0..U32Max) /\ Len(MIN_NVIDIA_DRIVER_VERSION) = 3

\* A text, a file of one text, and what a line of /etc/os-release or
\* /proc/cpuinfo amounts to.
AnyText == [id : STRING, size : Nat, padded : BOOLEAN, control : {"none", "ascii", "c1"}]

ValueFile == [size : Nat, utf8 : BOOLEAN, value : AnyText]

ReleaseFile == [size : Nat, utf8 : BOOLEAN, lines : Seq([key : STRING, value : AnyText])]

CpuLines == [key : STRING, bytes : Nat, utf8 : BOOLEAN, fails : BOOLEAN, value : AnyText]

\* What the sources can hold: there is one cpuinfo or none, and
\* available_parallelism is a NonZero.
ASSUME AttemptsAssumption ==
    \A a \in Attempts :
        /\ a.plan \in [runtime : {"localFake", "llamaCpp"}, target : {"cpu", "nvidiaCuda"}]
        /\ a.host.osRelease \subseteq ReleaseFile
        /\ a.host.ostype \cup a.host.kernelRelease \subseteq ValueFile
        /\ a.host.cpuinfo \subseteq Seq(CpuLines)
        /\ \A l, m \in a.host.cpuinfo : l = m
        /\ a.host.cpus \subseteq Nat \ {0}
        /\ a.gpu.name \in AnyText /\ a.gpu.driver \in Seq(Int) /\ a.gpu.layers \in Nat

\* How the executable was built and installed: the compiled store paths are
\* there for the engines and the model or for none (packages.nix), and a path
\* under /nix/store is a store object.
ASSUME PackagingAssumption ==
    \A h \in {a.host : a \in Attempts} :
        /\ \A p \in h.exe \cup h.engine \cup h.model : p.inStore => p.wellFormed
        /\ {p.inStore : p \in h.engine} = {p.inStore : p \in h.model}
        /\ \A p \in h.engine \cup h.model : p.size \in 1..MAX_NIX_STORE_PATH_BYTES /\ ~p.control

VARIABLES
    plan, host, gpu,
    pc,
    scan,        \* cpuinfo: the next line and the bytes scanned
    facts,       \* the captured platform facts
    provenance,  \* the AttemptProvenance in memory
    stored,      \* provenance.json
    metadata,    \* the metadata line of the helper
    status,      \* the terminal state of the execution
    verdict

vars == <<plan, host, gpu, pc, scan, facts, provenance, stored, metadata, status, verdict>>

Init ==
    /\ \E a \in Attempts : plan = a.plan /\ host = a.host /\ gpu = a.gpu
    /\ pc = "files"
    /\ scan = [line |-> 1, bytes |-> 0]
    /\ facts = [distribution |-> {}, version |-> {}, kernel |-> {}, release |-> {},
                cpuModel |-> {}, cpus |-> {}]
    /\ provenance = {}
    /\ stored = {}
    /\ metadata = {}
    /\ status = "none"
    /\ verdict = "none"

-----------------------------------------------------------------------------
(* capture                                                                 *)

\* Mutant: control characters are kept.
bounded_value_Controls(text) ==
    {[t EXCEPT !.padded = FALSE] :
        t \in {u \in {text} : u.size \in 1..MAX_PLATFORM_VALUE_BYTES}}

bounded_value(text) ==
    {[t EXCEPT !.padded = FALSE] :
        t \in {u \in {text} : u.size \in 1..MAX_PLATFORM_VALUE_BYTES /\ u.control = "none"}}

\* A missing, oversized or undecodable file reads as nothing.
read_bounded(file, limit) == {f \in file : f.size <= limit /\ f.utf8}

read_single_value(file, limit) == UNION {bounded_value(f.value) : f \in read_bounded(file, limit)}

\* find_map: the first line of the key that holds a usable value; quotes around
\* a value are not part of it.
release_value(lines, key) ==
    LET Usable(k) == lines[k].key = key /\ bounded_value(lines[k].value) # {}
    IN  UNION {bounded_value(lines[k].value) :
                 k \in {j \in DOMAIN lines : Usable(j) /\ \A i \in 1..(j - 1) : ~Usable(i)}}

os_release_identity(key) ==
    UNION {release_value(f.lines, key) : f \in read_bounded(host.osRelease, MAX_OS_RELEASE_BYTES)}

\* std::env::consts::OS, where /proc does not tell the kernel's name
OS == [id |-> "linux", size |-> 1, padded |-> FALSE, control |-> "none"]

CaptureFiles ==
    /\ pc = "files"
    /\ LET name == read_single_value(host.ostype, MAX_KERNEL_FILE_BYTES)
       IN  facts' = [facts EXCEPT
                       !.distribution = os_release_identity("ID"),
                       !.version = os_release_identity("VERSION_ID"),
                       !.kernel = IF name = {} THEN {OS} ELSE name,
                       !.release = read_single_value(host.kernelRelease, MAX_KERNEL_FILE_BYTES)]
    /\ pc' = IF host.cpuinfo = {} THEN "software" ELSE "cpuinfo"
    /\ UNCHANGED <<plan, host, gpu, scan, provenance, stored, metadata, status, verdict>>

CpuKeys == {"model name", "Processor", "Hardware"}

\* Mutant: lines that are not text end the scan.
ScanStops_AtBytes(line, bytes) ==
    \/ line.fails
    \/ bytes > MAX_CPUINFO_SCAN_BYTES
    \/ ~line.utf8
    \/ line.key \in CpuKeys

\* The scan ends at a read error, beyond the limit, or at a recognized key.
ScanStops(line, bytes) ==
    \/ line.fails
    \/ bytes > MAX_CPUINFO_SCAN_BYTES
    \/ line.utf8 /\ line.key \in CpuKeys

\* One turn of the loop of cpu_model_from_reader.
ScanCpuLine ==
    /\ pc = "cpuinfo"
    /\ \E lines \in host.cpuinfo :
          IF scan.line > Len(lines)
          THEN pc' = "software" /\ UNCHANGED <<scan, facts>>
          ELSE LET line == lines[scan.line]
                   bytes == scan.bytes + line.bytes
               IN  /\ scan' = [line |-> scan.line + 1, bytes |-> bytes]
                   /\ pc' = IF ScanStops(line, bytes) THEN "software" ELSE "cpuinfo"
                   /\ facts' = [facts EXCEPT !.cpuModel =
                        IF ~line.fails /\ bytes <= MAX_CPUINFO_SCAN_BYTES /\ line.utf8
                           /\ line.key \in CpuKeys
                        THEN bounded_value(line.value) ELSE {}]
    /\ UNCHANGED <<plan, host, gpu, provenance, stored, metadata, status, verdict>>

nix_store_object(path) ==
    {p \in path : p.inStore /\ p.size \in 1..MAX_NIX_STORE_PATH_BYTES /\ ~p.control}

\* The rest of capture, and the first write of provenance.json.
CaptureSoftware ==
    /\ pc = "software"
    /\ LET captured == [facts EXCEPT !.cpus = {n \in host.cpus : n <= U32Max}]
       IN  /\ facts' = captured
           /\ provenance' =
                {[platform |-> captured, runtime |-> plan.runtime, device |-> plan.target,
                  benchplane |-> nix_store_object(host.exe),
                  engine |-> IF plan.runtime = "llamaCpp" THEN nix_store_object(host.engine) ELSE {},
                  model |-> IF plan.runtime = "llamaCpp" THEN nix_store_object(host.model) ELSE {},
                  nvidia |-> {}]}
    /\ stored' = provenance'
    /\ pc' = "execute"
    /\ UNCHANGED <<plan, host, gpu, scan, metadata, status, verdict>>

-----------------------------------------------------------------------------
(* The CUDA helper                                                         *)

\* A version is its components between dots; one is a number of ASCII digits,
\* or -1 where it is empty.
IsNumber(component) == component \in 0..U32Max

\* nvidia_driver_version_supported of the helper, by cases
helper_driver_version_supported(version) ==
    LET patch == IF Len(version) = 3 THEN version[3] ELSE 0
        min == MIN_NVIDIA_DRIVER_VERSION
    IN  /\ Len(version) \in 2..3
        /\ \A k \in DOMAIN version : IsNumber(version[k])
        /\ \/ version[1] > min[1]
           \/ version[1] = min[1] /\ version[2] > min[2]
           \/ version[1] = min[1] /\ version[2] = min[2] /\ patch >= min[3]

\* Mutant: every component must reach its own minimum.
nvidia_driver_version_supported_Each(version) ==
    LET padded == IF Len(version) = 2 THEN Append(version, 0) ELSE version
    IN  /\ Len(version) \in 2..3
        /\ \A k \in DOMAIN version : IsNumber(version[k])
        /\ \A k \in 1..3 : padded[k] >= MIN_NVIDIA_DRIVER_VERSION[k]

\* The one of provenance.rs, which compares tuples: the first component that
\* differs decides.
nvidia_driver_version_supported(version) ==
    LET padded == IF Len(version) = 2 THEN Append(version, 0) ELSE version
    IN  /\ Len(version) \in 2..3
        /\ \A k \in DOMAIN version : IsNumber(version[k])
        /\ \/ padded = MIN_NVIDIA_DRIVER_VERSION
           \/ \E k \in 1..3 : /\ padded[k] > MIN_NVIDIA_DRIVER_VERSION[k]
                              /\ \A j \in 1..(k - 1) : padded[j] = MIN_NVIDIA_DRIVER_VERSION[j]

\* json_string refuses what it cannot write: nothing, more than the 256 bytes
\* the other side takes, or ASCII controls.  It does not trim, and a C1 control
\* is two ordinary bytes to it.
json_string(text) == text.size \in 1..MAX_PROVENANCE_VALUE_BYTES /\ text.control # "ascii"

\* emit_nvidia_metadata; a CUDA version that is not positive has no text.
emit_nvidia_metadata(g) ==
    IF /\ json_string(g.name)
       /\ g.cudaDriver > 0 /\ g.cudaRuntime > 0
       /\ g.vram # 0
       /\ g.offloaded # 0 /\ g.offloaded = g.total
    THEN {[name |-> g.name, driver |-> g.driver, vram |-> g.vram, major |-> g.major,
           offloaded |-> g.offloaded, total |-> g.total]}
    ELSE {}

\* The helper of the CUDA target: it gives up on an unsupported driver, when
\* CUDA or the model do not initialize, and when not all layers are on the
\* device; otherwise it emits its metadata line and the measured work succeeds
\* or fails.  Other runtimes have no metadata.
Execute ==
    /\ pc = "execute"
    /\ IF plan.target = "nvidiaCuda"
       THEN /\ metadata' \in {{}, IF /\ helper_driver_version_supported(gpu.driver)
                                      /\ gpu.offloaded = gpu.layers + 1
                                      /\ gpu.total = gpu.layers + 1
                                   THEN emit_nvidia_metadata(gpu) ELSE {}}
            /\ status' \in IF metadata' = {} THEN {"failed"} ELSE {"failed", "succeeded"}
       ELSE /\ status' \in {"failed", "succeeded"}
            /\ UNCHANGED metadata
    /\ pc' = "adapter"
    /\ UNCHANGED <<plan, host, gpu, scan, facts, provenance, stored, verdict>>

-----------------------------------------------------------------------------
(* The adapter and the run                                                 *)

\* "bounded" of parse_nvidia_metadata and require_provenance_value are one test.
Clean(text) ==
    /\ text.size \in 1..MAX_PROVENANCE_VALUE_BYTES
    /\ ~text.padded
    /\ text.control = "none"

\* Mutant: the name of the device is taken as it is.
parse_nvidia_metadata_AnyName(m) ==
    /\ m.vram # 0
    /\ nvidia_driver_version_supported(m.driver)
    /\ m.major >= 0
    /\ m.total # 0 /\ m.offloaded = m.total

parse_nvidia_metadata(m) ==
    /\ Clean(m.name)
    /\ m.vram # 0
    /\ nvidia_driver_version_supported(m.driver)
    /\ m.major >= 0    \* "-1.0" is no compute capability
    /\ m.total # 0 /\ m.offloaded = m.total

attach_nvidia(p, m) == [p EXCEPT !.nvidia = {m}]

\* into_execution_output, then attach_nvidia and the second write in run.rs;
\* metadata the adapter refuses fails the run.
Adapter ==
    /\ pc = "adapter"
    /\ IF status = "succeeded" /\ plan.target = "nvidiaCuda"
       THEN IF \E m \in metadata : parse_nvidia_metadata(m)
            THEN /\ provenance' = {attach_nvidia(p, m) : p \in provenance, m \in metadata}
                 /\ stored' = provenance'
                 /\ UNCHANGED status
            ELSE status' = "failed" /\ UNCHANGED <<provenance, stored>>
       ELSE UNCHANGED <<provenance, stored, status>>
    /\ pc' = "verify"
    /\ UNCHANGED <<plan, host, gpu, scan, facts, metadata, verdict>>

-----------------------------------------------------------------------------
(* The verifier                                                            *)

\* The verifier's own copy of the adapter's conditions.
validate_nvidia_provenance(m) ==
    /\ m.vram # 0
    /\ nvidia_driver_version_supported(m.driver)
    /\ m.total # 0 /\ m.offloaded = m.total
    /\ Clean(m.name)
    /\ m.major >= 0

optional_nix_store_path(path) ==
    \A p \in path : p.wellFormed /\ p.size <= MAX_NIX_STORE_PATH_BYTES

\* The platform, software and device parts of validate_attempt_provenance.
validate_attempt_provenance(p) ==
    /\ \A f \in {"distribution", "version", "kernel", "release", "cpuModel"} :
          \A text \in p.platform[f] : Clean(text)
    /\ p.platform.kernel # {}
    /\ 0 \notin p.platform.cpus
    /\ \A path \in {p.benchplane, p.engine, p.model} : optional_nix_store_path(path)
    /\ p.runtime = plan.runtime
    /\ plan.runtime = "llamaCpp" =>
          /\ p.device = plan.target
          /\ IF plan.target = "cpu" THEN p.nvidia = {}
             ELSE /\ \A m \in p.nvidia : validate_nvidia_provenance(m)
                  /\ status = "succeeded" => p.nvidia # {}
          /\ p.engine = {} <=> p.model = {}

Verify ==
    /\ pc = "verify"
    /\ verdict' = IF \A p \in stored : validate_attempt_provenance(p) THEN "accepted" ELSE "refused"
    /\ pc' = "done"
    /\ UNCHANGED <<plan, host, gpu, scan, facts, provenance, stored, metadata, status>>

Terminated == pc = "done" /\ UNCHANGED vars

Next ==
    \/ CaptureFiles \/ ScanCpuLine \/ CaptureSoftware \/ Execute \/ Adapter \/ Verify
    \/ Terminated

Spec == Init /\ [][Next]_vars

-----------------------------------------------------------------------------
(* Properties                                                              *)

\* Whatever the host's files hold, whatever the driver and the device report
\* and however the execution ends, the record the run leaves is one its own
\* verifier accepts.
EveryOutcomeVerifies == verdict # "refused"

\* The bytes of the first k lines.
BytesOf(lines) ==
    LET Total[k \in 0..Len(lines)] == IF k = 0 THEN 0 ELSE Total[k - 1] + lines[k].bytes
    IN  Total

\* The model recorded is the value of the first recognized line of cpuinfo,
\* and only if that line ends within the scan limit and nothing before it
\* failed to read.
CpuModelIsFirst ==
    pc \notin {"files", "cpuinfo"} =>
        LET lines == IF host.cpuinfo = {} THEN <<>> ELSE CHOOSE l \in host.cpuinfo : TRUE
            Recognized(k) == lines[k].utf8 /\ lines[k].key \in CpuKeys
            First == {k \in DOMAIN lines : Recognized(k) /\ \A j \in 1..(k - 1) : ~Recognized(j)}
        IN  facts.cpuModel =
              UNION {bounded_value(lines[k].value) :
                       k \in {j \in First : /\ BytesOf(lines)[j] <= MAX_CPUINFO_SCAN_BYTES
                                            /\ \A i \in 1..j : ~lines[i].fails}}

\* The two implementations of the driver check agree, so a driver the helper
\* runs on is never refused afterwards by the adapter or the verifier.  The versions
\* are texts of digits and dots, all that the helper's bounded_driver_version
\* lets through: a leading plus, which only parse::<u32> accepts, reaches
\* neither check.
DriverChecksAgree ==
    helper_driver_version_supported(gpu.driver) <=> nvidia_driver_version_supported(gpu.driver)

\* A succeeded CUDA run has the proof on disk that the supported device took
\* all layers; a CPU run and a failed one have none.
ProofGoesWithSuccess ==
    pc \in {"verify", "done"} =>
        \A p \in stored :
            IF status = "succeeded" /\ plan.target = "nvidiaCuda"
            THEN \E m \in p.nvidia : /\ m.offloaded = gpu.layers + 1
                                     /\ helper_driver_version_supported(m.driver)
                                     /\ Clean(m.name)
            ELSE p.nvidia = {}
=============================================================================
