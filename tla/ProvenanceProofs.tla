-------------------------- MODULE ProvenanceProofs --------------------------
(***************************************************************************)
(* Theorems about Provenance for every host, every device and every limit: *)
(* what a run records of its host its own verifier accepts, a succeeded    *)
(* CUDA run carries its proof, the two driver checks are one, and the scan *)
(* of cpuinfo finds the first recognized line.                             *)
(***************************************************************************)
EXTENDS Provenance, SequenceTheorems, NaturalsInduction, WellFoundedInduction, TLAPS

-----------------------------------------------------------------------------
(* Values                                                                  *)

\* What bounded_value keeps is what require_provenance_value accepts.
LEMMA BoundedIsClean ==
    ASSUME NEW text \in AnyText
    PROVE  \A t \in bounded_value(text) : t \in AnyText /\ Clean(t)
<1> SUFFICES ASSUME NEW t \in bounded_value(text) PROVE t \in AnyText /\ Clean(t)
  OBVIOUS
<1>1. /\ t = [text EXCEPT !.padded = FALSE] /\ text.size \in 1..MAX_PLATFORM_VALUE_BYTES
      /\ text.control = "none"
  BY DEF bounded_value
<1>2. t \in AnyText /\ t.size = text.size /\ t.control = text.control /\ t.padded = FALSE
  BY <1>1 DEF AnyText
<1>3. text.size \in 1..MAX_PROVENANCE_VALUE_BYTES
  BY <1>1, ProvenanceAssumption
<1> QED
  BY <1>1, <1>2, <1>3 DEF Clean

\* The values that may be recorded.
CleanTexts == {t \in AnyText \cup {OS} : Clean(t)}

\* A file of one value yields a clean one or nothing.
LEMMA SingleValueIsClean ==
    ASSUME NEW file \in SUBSET ValueFile, NEW limit
    PROVE  read_single_value(file, limit) \subseteq CleanTexts
<1>1. \A f \in file : f.value \in AnyText
  BY DEF ValueFile
<1>2. \A f \in file : bounded_value(f.value) \subseteq CleanTexts
  BY <1>1, BoundedIsClean DEF CleanTexts
<1> QED
  BY <1>2 DEF read_single_value, read_bounded

\* So does a key of os-release.
LEMMA ReleaseIsClean ==
    ASSUME host.osRelease \in SUBSET ReleaseFile, NEW key
    PROVE  os_release_identity(key) \subseteq CleanTexts
<1>1. ASSUME NEW f \in host.osRelease PROVE release_value(f.lines, key) \subseteq CleanTexts
  <2>1. f.lines \in Seq([key : STRING, value : AnyText])
    BY DEF ReleaseFile
  <2>2. \A k \in DOMAIN f.lines : f.lines[k].value \in AnyText
    <3>1. \A k \in DOMAIN f.lines : f.lines[k] \in [key : STRING, value : AnyText]
      BY <2>1, ElementOfSeq, LenProperties
    <3> QED
      BY <3>1
  <2>3. \A k \in DOMAIN f.lines : bounded_value(f.lines[k].value) \subseteq CleanTexts
    BY <2>2, BoundedIsClean DEF CleanTexts
  <2> QED
    BY <2>3 DEF release_value
<1> QED
  BY <1>1 DEF os_release_identity, read_bounded

-----------------------------------------------------------------------------
(* The two driver checks                                                   *)

\* Comparing by cases and comparing tuples is the same.
LEMMA DriverChecks ==
    ASSUME NEW version \in Seq(Int)
    PROVE  helper_driver_version_supported(version) <=> nvidia_driver_version_supported(version)
<1> DEFINE min == MIN_NVIDIA_DRIVER_VERSION
           Shape == Len(version) \in 2..3 /\ \A k \in DOMAIN version : IsNumber(version[k])
<1>1. min \in Seq(0..U32Max) /\ Len(min) = 3 /\ U32Max \in Nat
  BY ProvenanceAssumption
<1>2. min[1] \in Nat /\ min[2] \in Nat /\ min[3] \in Nat
  <2>1. min[1] \in 0..U32Max /\ min[2] \in 0..U32Max /\ min[3] \in 0..U32Max
    <3>1. 1 \in 1..Len(min) /\ 2 \in 1..Len(min) /\ 3 \in 1..Len(min)
      BY <1>1
    <3> HIDE DEF min
    <3> QED
      BY <1>1, <3>1, ElementOfSeq, Zenon
  <2> QED
    BY <1>1, <2>1
<1>0. CASE ~Shape
  BY <1>0 DEF helper_driver_version_supported, nvidia_driver_version_supported
<1> SUFFICES ASSUME Shape
             PROVE  helper_driver_version_supported(version) <=> nvidia_driver_version_supported(version)
  BY <1>0
<1> DEFINE patch == IF Len(version) = 3 THEN version[3] ELSE 0
           padded == IF Len(version) = 2 THEN Append(version, 0) ELSE version
<1>3. padded \in Seq(Int) /\ Len(padded) = 3
      /\ padded[1] = version[1] /\ padded[2] = version[2] /\ padded[3] = patch
      /\ version[1] \in Int /\ version[2] \in Int /\ patch \in Int
  <2>1. version[1] \in Int /\ version[2] \in Int /\ (Len(version) = 3 => version[3] \in Int)
    BY ElementOfSeq
  <2>2. CASE Len(version) = 2
    <3>1. Append(version, 0) \in Seq(Int) /\ Len(Append(version, 0)) = 3
          /\ Append(version, 0)[1] = version[1] /\ Append(version, 0)[2] = version[2]
          /\ Append(version, 0)[3] = 0
      <4>1. \A z \in Int : /\ Append(version, z) \in Seq(Int)
                           /\ Len(Append(version, z)) = Len(version) + 1
                           /\ \A i \in 1..Len(version) : Append(version, z)[i] = version[i]
                           /\ Append(version, z)[Len(version) + 1] = z
        BY AppendProperties
      <4> QED
        BY <2>2, <4>1
    <3> QED
      BY <2>1, <2>2, <3>1
  <2>3. CASE Len(version) = 3
    BY <2>1, <2>3
  <2> QED
    BY <2>2, <2>3
<1>4. helper_driver_version_supported(version) <=>
         \/ version[1] > min[1]
         \/ version[1] = min[1] /\ version[2] > min[2]
         \/ version[1] = min[1] /\ version[2] = min[2] /\ patch >= min[3]
  BY DEF helper_driver_version_supported
<1>5. nvidia_driver_version_supported(version) <=>
         \/ padded = min
         \/ \E k \in 1..3 : padded[k] > min[k] /\ \A j \in 1..(k - 1) : padded[j] = min[j]
  BY DEF nvidia_driver_version_supported
<1> HIDE DEF padded, patch, min, Shape
<1>6. padded = min <=> padded[1] = min[1] /\ padded[2] = min[2] /\ padded[3] = min[3]
  <2> SUFFICES ASSUME padded[1] = min[1], padded[2] = min[2], padded[3] = min[3] PROVE padded = min
    OBVIOUS
  <2>1. \A k \in 1..3 : padded[k] = min[k]
    <3>1. \A k \in 1..3 : k = 1 \/ k = 2 \/ k = 3
      OBVIOUS
    <3> QED
      BY <3>1
  <2>2. min \in Seq(Int)
    BY <1>1
  <2> QED
    BY <1>1, <1>3, <2>1, <2>2, SeqEqual
<1>7. (\E k \in 1..3 : padded[k] > min[k] /\ \A j \in 1..(k - 1) : padded[j] = min[j]) <=>
         \/ padded[1] > min[1]
         \/ padded[2] > min[2] /\ padded[1] = min[1]
         \/ padded[3] > min[3] /\ padded[1] = min[1] /\ padded[2] = min[2]
  <2>1. (1..(1 - 1)) = {} /\ (1..(2 - 1)) = {1} /\ (1..(3 - 1)) = {1, 2}
    OBVIOUS
  <2>2. \A k \in 1..3 : k = 1 \/ k = 2 \/ k = 3
    OBVIOUS
  <2> QED
    BY <2>1, <2>2
<1> QED
  BY <1>2, <1>3, <1>4, <1>5, <1>6, <1>7

-----------------------------------------------------------------------------
(* The bytes of the first lines of cpuinfo                                 *)

\* Every set of naturals that is not empty has a least element.
LEMMA LeastNatural ==
    ASSUME NEW T \in SUBSET Nat, T # {}
    PROVE  \E x \in T : \A y \in T : x <= y
<1> DEFINE R == OpToRel(<, Nat)
<1>1. IsWellFoundedOn(R, Nat)
  BY NatLessThanWellFounded
<1>2. \A y, x \in Nat : y < x => <<y, x>> \in R
  BY DEF OpToRel
<1> HIDE DEF R
<1>3. PICK x \in T : \A y \in T : ~(<<y, x>> \in R)
  BY <1>1, WFMin
<1>4. ASSUME NEW y \in T PROVE x <= y
  <2>1. x \in Nat /\ y \in Nat
    OBVIOUS
  <2>2. ~(y < x)
    BY <2>1, <1>2, <1>3, Zenon
  <2> QED
    BY <2>1, <2>2
<1> QED
  BY <1>4

\* f sums the lines up to the m-th.
Sums(lines, m, f) ==
    /\ f \in [0..m -> Nat]
    /\ f[0] = 0
    /\ \A k \in 1..m : f[k] = f[k - 1] + lines[k].bytes

\* There are such sums for every number of lines: otherwise there were a least
\* one without, and it would only lack the last line.
LEMMA SumsExist ==
    ASSUME NEW lines \in Seq(CpuLines), NEW n \in 0..Len(lines)
    PROVE  \E f : Sums(lines, n, f)
<1> SUFFICES ASSUME ~\E f : Sums(lines, n, f) PROVE FALSE
  OBVIOUS
<1>1. Len(lines) \in Nat /\ \A k \in 1..Len(lines) : lines[k].bytes \in Nat
  <2>1. \A k \in 1..Len(lines) : lines[k] \in CpuLines
    BY ElementOfSeq
  <2> QED
    BY <2>1 DEF CpuLines
<1> DEFINE T == {m \in 0..Len(lines) : ~\E f : Sums(lines, m, f)}
<1>2. T \in SUBSET Nat /\ n \in T
  OBVIOUS
<1> HIDE DEF T
<1>3. PICK m \in T : \A y \in T : m <= y
  BY <1>2, LeastNatural
<1>4. m \in 0..Len(lines) /\ ~\E f : Sums(lines, m, f)
  BY <1>3 DEF T
<1>5. CASE m = 0
  <2> DEFINE f == [k \in 0..0 |-> 0]
  <2>1. Sums(lines, 0, f)
    BY DEF Sums
  <2> QED
    BY <1>4, <1>5, <2>1
<1>6. CASE m # 0
  <2>1. PICK i \in Nat : m = i + 1
    BY <1>4, <1>6
  <2>2. i \in 0..Len(lines) /\ ~(m <= i) /\ m \in 1..Len(lines)
    BY <1>1, <1>4, <2>1
  <2>3. i \notin T
    BY <1>3, <2>2
  <2>4. PICK f : Sums(lines, i, f)
    BY <2>2, <2>3 DEF T
  <2> DEFINE last == f[i] + lines[m].bytes
             g == [k \in 0..m |-> IF k = m THEN last ELSE f[k]]
  <2>5. last \in Nat /\ \A k \in 0..i : f[k] \in Nat
    BY <1>1, <2>2, <2>4 DEF Sums
  <2>6. \A k \in 0..m : k = m \/ k \in 0..i
    BY <2>1
  <2>7. g \in [0..m -> Nat] /\ g[m] = last /\ \A k \in 0..i : g[k] = f[k]
    <3> HIDE DEF last
    <3>1. \A k \in 0..m : (IF k = m THEN last ELSE f[k]) \in Nat
      BY <2>5, <2>6
    <3>2. m \in 0..m /\ \A k \in 0..i : k \in 0..m /\ k # m
      BY <2>1
    <3> QED
      BY <3>1, <3>2
  <2> HIDE DEF g
  <2>8. g[0] = 0
    BY <2>4, <2>7 DEF Sums
  <2>9. ASSUME NEW k \in 1..m PROVE g[k] = g[k - 1] + lines[k].bytes
    <3>1. CASE k = m
      <4>1. k - 1 = i /\ i \in 0..i
        BY <2>1, <3>1
      <4> QED
        BY <2>7, <3>1, <4>1
    <3>2. CASE k # m
      <4>1. k \in 1..i /\ k \in 0..i /\ k - 1 \in 0..i
        BY <2>1, <3>2
      <4>2. f[k] = f[k - 1] + lines[k].bytes
        BY <2>4, <4>1 DEF Sums
      <4> QED
        BY <2>7, <4>1, <4>2
    <3> QED
      BY <3>1, <3>2
  <2>10. Sums(lines, m, g)
    BY <2>7, <2>8, <2>9 DEF Sums
  <2> QED
    BY <1>4, <2>10
<1> QED
  BY <1>5, <1>6

\* BytesOf is the sum it is defined to be.
LEMMA BytesOfFacts ==
    ASSUME NEW lines \in Seq(CpuLines)
    PROVE  Sums(lines, Len(lines), BytesOf(lines))
<1>1. Len(lines) \in Nat
  OBVIOUS
<1>2. PICK f : Sums(lines, Len(lines), f)
  BY <1>1, SumsExist
<1> DEFINE Body(h) == [k \in 0..Len(lines) |-> IF k = 0 THEN 0 ELSE h[k - 1] + lines[k].bytes]
<1>3. f = Body(f)
  <2>1. \A k \in 0..Len(lines) : k = 0 \/ k \in 1..Len(lines)
    BY <1>1
  <2>2. \A k \in 0..Len(lines) : f[k] = IF k = 0 THEN 0 ELSE f[k - 1] + lines[k].bytes
    BY <1>2, <2>1 DEF Sums
  <2> QED
    BY <1>2, <2>2 DEF Sums
<1>4. BytesOf(lines) = CHOOSE h : h = Body(h)
  BY DEF BytesOf
<1> DEFINE b == BytesOf(lines)
<1> HIDE DEF Body
<1>5. b = Body(b)
  BY <1>3, <1>4
<1> HIDE DEF b
<1>6. \A k \in 0..Len(lines) : b[k] = IF k = 0 THEN 0 ELSE b[k - 1] + lines[k].bytes
  BY <1>5 DEF Body
<1>7. b[0] = 0 /\ \A k \in 1..Len(lines) : b[k] = b[k - 1] + lines[k].bytes
  BY <1>1, <1>6
<1>8. \A k \in 0..Len(lines) : b[k] = f[k]
  <2> SUFFICES ASSUME NEW n \in 0..Len(lines), b[n] # f[n] PROVE FALSE
    OBVIOUS
  <2> DEFINE T == {k \in 0..Len(lines) : b[k] # f[k]}
  <2>1. T \in SUBSET Nat /\ n \in T
    BY <1>1
  <2> HIDE DEF T
  <2>2. PICK m \in T : \A y \in T : m <= y
    BY <2>1, LeastNatural
  <2>3. m \in 0..Len(lines) /\ b[m] # f[m]
    BY <2>2 DEF T
  <2>4. m # 0
    BY <1>2, <1>7, <2>3 DEF Sums
  <2>5. PICK i \in Nat : m = i + 1
    BY <2>3, <2>4
  <2>6. i \in 0..Len(lines) /\ ~(m <= i) /\ m \in 1..Len(lines) /\ m - 1 = i
    BY <1>1, <2>3, <2>5
  <2>7. b[i] = f[i]
    BY <2>2, <2>6 DEF T
  <2> QED
    BY <1>2, <1>7, <2>3, <2>6, <2>7 DEF Sums
<1>9. b = f
  <2>1. DOMAIN b = 0..Len(lines) /\ b = [k \in 0..Len(lines) |-> b[k]]
    BY <1>5 DEF Body
  <2>2. f = [k \in 0..Len(lines) |-> f[k]]
    BY <1>2 DEF Sums
  <2> QED
    BY <1>8, <2>1, <2>2
<1> QED
  BY <1>2, <1>9 DEF b

\* More lines are not fewer bytes.
LEMMA BytesGrow ==
    ASSUME NEW lines \in Seq(CpuLines), NEW i \in 0..Len(lines), NEW j \in 0..Len(lines), i <= j
    PROVE  BytesOf(lines)[i] <= BytesOf(lines)[j]
<1> DEFINE b == BytesOf(lines)
<1>1. Sums(lines, Len(lines), b) /\ Len(lines) \in Nat
  BY BytesOfFacts
<1>2. \A k \in 1..Len(lines) : lines[k].bytes \in Nat
  <2>1. \A k \in 1..Len(lines) : lines[k] \in CpuLines
    BY ElementOfSeq
  <2> QED
    BY <2>1 DEF CpuLines
<1> HIDE DEF b
<1>3. /\ \A k \in 0..Len(lines) : b[k] \in Nat
      /\ \A k \in 1..Len(lines) : b[k] = b[k - 1] + lines[k].bytes
  BY <1>1 DEF Sums
<1> DEFINE T == {k \in i..Len(lines) : b[k] < b[i]}
<1> SUFFICES ASSUME b[j] < b[i] PROVE FALSE
  BY <1>3 DEF b
<1>4. T \in SUBSET Nat /\ j \in T
  BY <1>1
<1> HIDE DEF T
<1>5. PICK m \in T : \A y \in T : m <= y
  BY <1>4, LeastNatural
<1>6. m \in i..Len(lines) /\ b[m] < b[i]
  BY <1>5 DEF T
<1>7. m # i
  BY <1>3, <1>6
<1>8. PICK p \in Nat : m = p + 1
  BY <1>6, <1>7
<1>9. p \in i..Len(lines) /\ p \in 0..Len(lines) /\ m \in 1..Len(lines) /\ m - 1 = p /\ ~(m <= p)
  BY <1>1, <1>6, <1>7, <1>8
<1>10. ~(b[p] < b[i])
  BY <1>5, <1>9 DEF T
<1>11. b[m] = b[p] + lines[m].bytes
  BY <1>3, <1>9
<1> QED
  BY <1>2, <1>3, <1>6, <1>9, <1>10, <1>11

-----------------------------------------------------------------------------
(* What is captured, attached and verified                                 *)

Inputs == \E a \in Attempts : plan = a.plan /\ host = a.host /\ gpu = a.gpu

Facts == [distribution : SUBSET CleanTexts, version : SUBSET CleanTexts, kernel : SUBSET CleanTexts,
          release : SUBSET CleanTexts, cpuModel : SUBSET CleanTexts, cpus : SUBSET (Nat \ {0})]

\* The record of the attempt, by what is known of the device.
Record(nvidia) ==
    [platform |-> facts, runtime |-> plan.runtime, device |-> plan.target,
     benchplane |-> nix_store_object(host.exe),
     engine |-> IF plan.runtime = "llamaCpp" THEN nix_store_object(host.engine) ELSE {},
     model |-> IF plan.runtime = "llamaCpp" THEN nix_store_object(host.model) ELSE {},
     nvidia |-> nvidia]

\* The metadata the helper may have emitted.
Emitted(m) ==
    /\ m.driver = gpu.driver /\ m.name = gpu.name
    /\ m.offloaded = gpu.layers + 1 /\ m.total = gpu.layers + 1

Supported == helper_driver_version_supported(gpu.driver)

\* A CUDA run that succeeded.
Proven == status = "succeeded" /\ plan.target = "nvidiaCuda"

CaptureInv ==
    /\ Inputs
    /\ pc \in {"files", "cpuinfo", "software", "execute", "adapter", "verify", "done"}
    /\ facts \in Facts
    /\ pc # "files" => facts.kernel # {}
    /\ pc \in {"files", "cpuinfo", "software", "execute"} => metadata = {}
    /\ metadata # {} => Supported /\ \E m : metadata = {m} /\ Emitted(m)
    /\ pc \in {"execute", "adapter"} => provenance = {Record({})}
    /\ pc \in {"execute", "adapter", "verify", "done"} => stored = provenance
    /\ pc \in {"verify", "done"} =>
          IF Proven THEN \E m \in metadata : parse_nvidia_metadata(m) /\ provenance = {Record({m})}
          ELSE provenance = {Record({})}
    /\ verdict # "refused"

\* What is assumed of the attempt at hand.
LEMMA InputFacts ==
    ASSUME Inputs
    PROVE  /\ plan.runtime \in {"localFake", "llamaCpp"} /\ plan.target \in {"cpu", "nvidiaCuda"}
           /\ host.osRelease \in SUBSET ReleaseFile
           /\ host.ostype \in SUBSET ValueFile /\ host.kernelRelease \in SUBSET ValueFile
           /\ host.cpuinfo \in SUBSET Seq(CpuLines) /\ (\A l, m \in host.cpuinfo : l = m)
           /\ host.cpus \in SUBSET (Nat \ {0})
           /\ gpu.driver \in Seq(Int) /\ gpu.name \in AnyText /\ gpu.layers \in Nat
           /\ \A p \in host.exe \cup host.engine \cup host.model : p.inStore => p.wellFormed
           /\ {p.inStore : p \in host.engine} = {p.inStore : p \in host.model}
           /\ \A p \in host.engine \cup host.model : p.size \in 1..MAX_NIX_STORE_PATH_BYTES /\ ~p.control
<1>1. PICK a \in Attempts : plan = a.plan /\ host = a.host /\ gpu = a.gpu
  BY DEF Inputs
<1>2. /\ plan \in [runtime : {"localFake", "llamaCpp"}, target : {"cpu", "nvidiaCuda"}]
      /\ host.osRelease \in SUBSET ReleaseFile
      /\ host.ostype \in SUBSET ValueFile /\ host.kernelRelease \in SUBSET ValueFile
      /\ host.cpuinfo \in SUBSET Seq(CpuLines) /\ (\A l, m \in host.cpuinfo : l = m)
      /\ host.cpus \in SUBSET (Nat \ {0})
      /\ gpu.driver \in Seq(Int) /\ gpu.name \in AnyText /\ gpu.layers \in Nat
  BY <1>1, AttemptsAssumption
<1>3. host \in {b.host : b \in Attempts}
  BY <1>1
<1>4. /\ \A p \in host.exe \cup host.engine \cup host.model : p.inStore => p.wellFormed
      /\ {p.inStore : p \in host.engine} = {p.inStore : p \in host.model}
      /\ \A p \in host.engine \cup host.model : p.size \in 1..MAX_NIX_STORE_PATH_BYTES /\ ~p.control
  BY <1>3, PackagingAssumption
<1>5. plan.runtime \in {"localFake", "llamaCpp"} /\ plan.target \in {"cpu", "nvidiaCuda"}
  BY <1>2
<1> QED
  BY <1>2, <1>4, <1>5

\* The compiled store paths are recorded together or not at all.
LEMMA StorePaths ==
    ASSUME Inputs
    PROVE  /\ \A path \in {nix_store_object(host.exe), nix_store_object(host.engine),
                           nix_store_object(host.model), {}} : optional_nix_store_path(path)
           /\ nix_store_object(host.engine) = {} <=> nix_store_object(host.model) = {}
<1>1. /\ \A p \in host.exe \cup host.engine \cup host.model : p.inStore => p.wellFormed
      /\ {p.inStore : p \in host.engine} = {p.inStore : p \in host.model}
      /\ \A p \in host.engine \cup host.model : p.size \in 1..MAX_NIX_STORE_PATH_BYTES /\ ~p.control
  BY InputFacts
<1>2. \A path \in {host.exe, host.engine, host.model} : optional_nix_store_path(nix_store_object(path))
  <2> SUFFICES ASSUME NEW path \in {host.exe, host.engine, host.model}, NEW p \in nix_store_object(path)
               PROVE  p.wellFormed /\ p.size <= MAX_NIX_STORE_PATH_BYTES
    BY DEF optional_nix_store_path
  <2>1. p \in path /\ p.inStore /\ p.size \in 1..MAX_NIX_STORE_PATH_BYTES
    BY DEF nix_store_object
  <2>2. p \in host.exe \cup host.engine \cup host.model
    BY <2>1
  <2> QED
    BY <1>1, <2>1, <2>2, ProvenanceAssumption
<1>3. optional_nix_store_path({})
  BY DEF optional_nix_store_path
<1>4. /\ nix_store_object(host.engine) = {p \in host.engine : p.inStore}
      /\ nix_store_object(host.model) = {p \in host.model : p.inStore}
  BY <1>1 DEF nix_store_object
<1>5. /\ {p \in host.engine : p.inStore} = {} => \A b \in {p.inStore : p \in host.engine} : ~b
      /\ (\A b \in {p.inStore : p \in host.model} : ~b) => {p \in host.model : p.inStore} = {}
      /\ {p \in host.model : p.inStore} = {} => \A b \in {p.inStore : p \in host.model} : ~b
      /\ (\A b \in {p.inStore : p \in host.engine} : ~b) => {p \in host.engine : p.inStore} = {}
  OBVIOUS
<1>6. nix_store_object(host.engine) = {} <=> nix_store_object(host.model) = {}
  BY <1>1, <1>4, <1>5
<1> QED
  BY <1>2, <1>3, <1>6

\* What the adapter takes of the metadata, the verifier takes of the record.
LEMMA ParsedIsValid ==
    ASSUME NEW m
    PROVE  parse_nvidia_metadata(m) => validate_nvidia_provenance(m)
BY DEF parse_nvidia_metadata, validate_nvidia_provenance

\* The verifier accepts the record of the attempt.
LEMMA RecordIsValid ==
    ASSUME CaptureInv, pc = "verify", NEW p \in stored
    PROVE  validate_attempt_provenance(p)
<1>1. Inputs /\ facts \in Facts /\ facts.kernel # {} /\ stored = provenance
  BY DEF CaptureInv
<1>2. PICK nvidia : /\ p = Record(nvidia)
                    /\ IF Proven THEN \E m \in metadata : parse_nvidia_metadata(m) /\ nvidia = {m}
                       ELSE nvidia = {}
  BY <1>1 DEF CaptureInv
<1>3. /\ p.platform = facts /\ p.runtime = plan.runtime /\ p.device = plan.target
      /\ p.benchplane = nix_store_object(host.exe) /\ p.nvidia = nvidia
      /\ p.engine = IF plan.runtime = "llamaCpp" THEN nix_store_object(host.engine) ELSE {}
      /\ p.model = IF plan.runtime = "llamaCpp" THEN nix_store_object(host.model) ELSE {}
  BY <1>2 DEF Record
<1>4. \A f \in {"distribution", "version", "kernel", "release", "cpuModel"} :
         \A text \in facts[f] : Clean(text)
  BY <1>1 DEF Facts, CleanTexts
<1>5. 0 \notin facts.cpus
  BY <1>1 DEF Facts
<1>6. \A path \in {p.benchplane, p.engine, p.model} : optional_nix_store_path(path)
  BY <1>1, <1>3, StorePaths
<1>7. p.engine = {} <=> p.model = {}
  BY <1>1, <1>3, StorePaths
<1>8. plan.target \in {"cpu", "nvidiaCuda"}
  BY <1>1, InputFacts
<1>9. IF plan.target = "cpu" THEN p.nvidia = {}
      ELSE /\ \A m \in p.nvidia : validate_nvidia_provenance(m)
           /\ status = "succeeded" => p.nvidia # {}
  BY <1>2, <1>3, <1>8, ParsedIsValid DEF Proven
<1> QED
  BY <1>1, <1>3, <1>4, <1>5, <1>6, <1>7, <1>9 DEF validate_attempt_provenance

-----------------------------------------------------------------------------
(* The scan of cpuinfo                                                     *)

CpuInfo == IF host.cpuinfo = {} THEN <<>> ELSE CHOOSE l \in host.cpuinfo : TRUE

Recognized(k) == CpuInfo[k].utf8 /\ CpuInfo[k].key \in CpuKeys

\* A line the scan went past.
Passed(k) ==
    /\ ~CpuInfo[k].fails
    /\ BytesOf(CpuInfo)[k] <= MAX_CPUINFO_SCAN_BYTES
    /\ ~Recognized(k)

\* The value of the first recognized line, if the scan gets there.
FirstModel ==
    UNION {bounded_value(CpuInfo[k].value) :
             k \in {j \in DOMAIN CpuInfo :
                      /\ Recognized(j) /\ \A i \in 1..(j - 1) : ~Recognized(i)
                      /\ BytesOf(CpuInfo)[j] <= MAX_CPUINFO_SCAN_BYTES
                      /\ \A i \in 1..j : ~CpuInfo[i].fails}}

ScanInv ==
    /\ pc = "files" => scan = [line |-> 1, bytes |-> 0] /\ facts.cpuModel = {}
    /\ pc = "cpuinfo" =>
          /\ host.cpuinfo # {} /\ facts.cpuModel = {}
          /\ scan.line \in 1..(Len(CpuInfo) + 1)
          /\ scan.bytes = BytesOf(CpuInfo)[scan.line - 1]
          /\ \A k \in 1..(scan.line - 1) : Passed(k)
    /\ pc \notin {"files", "cpuinfo"} => facts.cpuModel = FirstModel

\* The lines there are to scan.
LEMMA CpuInfoFacts ==
    ASSUME Inputs
    PROVE  /\ CpuInfo \in Seq(CpuLines) /\ Len(CpuInfo) \in Nat /\ DOMAIN CpuInfo = 1..Len(CpuInfo)
           /\ \A k \in 1..Len(CpuInfo) : CpuInfo[k] \in CpuLines
           /\ Sums(CpuInfo, Len(CpuInfo), BytesOf(CpuInfo))
           /\ \A lines \in host.cpuinfo : lines = CpuInfo
<1>1. host.cpuinfo \in SUBSET Seq(CpuLines) /\ \A l, m \in host.cpuinfo : l = m
  BY InputFacts
<1>2. CpuInfo \in Seq(CpuLines) /\ \A lines \in host.cpuinfo : lines = CpuInfo
  <2>1. CASE host.cpuinfo = {}
    BY <2>1 DEF CpuInfo
  <2>2. CASE host.cpuinfo # {}
    <3>1. CpuInfo \in host.cpuinfo
      BY <2>2 DEF CpuInfo
    <3> QED
      BY <1>1, <3>1
  <2> QED
    BY <2>1, <2>2
<1> QED
  BY <1>2, ElementOfSeq, LenProperties, BytesOfFacts

\* The scan passed all the lines.
LEMMA NothingRecognized ==
    ASSUME Inputs, \A k \in 1..Len(CpuInfo) : ~Recognized(k)
    PROVE  FirstModel = {}
BY CpuInfoFacts DEF FirstModel

\* The scan stops at the n-th line: its value is the model, if the line was
\* read whole within the limit and is a recognized one.
LEMMA ScanEnds ==
    ASSUME Inputs, NEW n \in 1..Len(CpuInfo), \A k \in 1..(n - 1) : Passed(k),
           ~Passed(n)
    PROVE  FirstModel = IF /\ ~CpuInfo[n].fails /\ BytesOf(CpuInfo)[n] <= MAX_CPUINFO_SCAN_BYTES
                           /\ Recognized(n)
                        THEN bounded_value(CpuInfo[n].value) ELSE {}
<1> DEFINE b == BytesOf(CpuInfo)
           First(j) == /\ Recognized(j) /\ \A i \in 1..(j - 1) : ~Recognized(i)
                       /\ b[j] <= MAX_CPUINFO_SCAN_BYTES /\ \A i \in 1..j : ~CpuInfo[i].fails
           Good == ~CpuInfo[n].fails /\ b[n] <= MAX_CPUINFO_SCAN_BYTES /\ Recognized(n)
<1>1. CpuInfo \in Seq(CpuLines) /\ Len(CpuInfo) \in Nat /\ DOMAIN CpuInfo = 1..Len(CpuInfo)
  BY CpuInfoFacts
<1>2. ASSUME NEW j \in 1..Len(CpuInfo), First(j) PROVE j = n /\ Good
  <2>1. ~(j < n)
    <3> SUFFICES ASSUME j < n PROVE FALSE
      OBVIOUS
    <3>1. j \in 1..(n - 1)
      OBVIOUS
    <3> QED
      BY <1>2, <3>1 DEF Passed
  <2>2. n \in 1..j /\ n <= j /\ n \in 0..Len(CpuInfo) /\ j \in 0..Len(CpuInfo)
    BY <1>1, <2>1
  <2>3. ~CpuInfo[n].fails
    BY <1>2, <2>2
  <2>4. b[n] <= MAX_CPUINFO_SCAN_BYTES
    <3>1. b[n] <= b[j]
      BY <1>1, <2>2, BytesGrow
    <3>2. b[n] \in Nat /\ b[j] \in Nat
      BY <2>2, CpuInfoFacts DEF Sums
    <3> HIDE DEF b
    <3> QED
      BY <1>2, <3>1, <3>2, ProvenanceAssumption DEF b
  <2>5. Recognized(n)
    BY <2>3, <2>4 DEF Passed
  <2>6. ~(n < j)
    <3> SUFFICES ASSUME n < j PROVE FALSE
      OBVIOUS
    <3>1. n \in 1..(j - 1)
      OBVIOUS
    <3> QED
      BY <1>2, <2>5, <3>1
  <2> QED
    BY <2>1, <2>3, <2>4, <2>5, <2>6
<1>3. ASSUME Good PROVE First(n)
  <2>1. \A i \in 1..n : i = n \/ i \in 1..(n - 1)
    OBVIOUS
  <2> QED
    BY <1>3, <2>1 DEF Passed
<1>4. FirstModel = UNION {bounded_value(CpuInfo[k].value) : k \in {j \in 1..Len(CpuInfo) : First(j)}}
  BY <1>1 DEF FirstModel
<1> HIDE DEF First, Good, b
<1>5. CASE Good
  <2>1. {j \in 1..Len(CpuInfo) : First(j)} = {n}
    BY <1>2, <1>3, <1>5
  <2> QED
    BY <1>4, <1>5, <2>1 DEF Good, b
<1>6. CASE ~Good
  <2>1. {j \in 1..Len(CpuInfo) : First(j)} = {}
    BY <1>2, <1>6
  <2> QED
    BY <1>4, <1>6, <2>1 DEF Good, b
<1> QED
  BY <1>5, <1>6

\* One line of the scan, and the scan as a whole.
LEMMA ScanStep ==
    ASSUME Inputs, ScanInv, facts \in Facts, ScanCpuLine
    PROVE  ScanInv' /\ facts' \in Facts /\ facts'.kernel = facts.kernel
<1> USE CpuInfoFacts
<1>1. /\ pc = "cpuinfo" /\ facts.cpuModel = {}
      /\ scan.line \in 1..(Len(CpuInfo) + 1) /\ scan.bytes = BytesOf(CpuInfo)[scan.line - 1]
      /\ \A k \in 1..(scan.line - 1) : Passed(k)
      /\ UNCHANGED host
  BY DEF ScanInv, ScanCpuLine
<1>2. CpuInfo' = CpuInfo
  BY <1>1 DEF CpuInfo
<1>3. FirstModel' = FirstModel /\ \A k : Passed(k)' <=> Passed(k)
  BY <1>2 DEF FirstModel, Passed, Recognized
<1> DEFINE n == scan.line
           line == CpuInfo[n]
           bytes == scan.bytes + line.bytes
           model == IF ~line.fails /\ bytes <= MAX_CPUINFO_SCAN_BYTES /\ line.utf8
                       /\ line.key \in CpuKeys
                    THEN bounded_value(line.value) ELSE {}
<1>4. IF n > Len(CpuInfo) THEN pc' = "software" /\ UNCHANGED <<scan, facts>>
      ELSE /\ scan' = [line |-> n + 1, bytes |-> bytes]
           /\ pc' = IF ScanStops(line, bytes) THEN "software" ELSE "cpuinfo"
           /\ facts' = [facts EXCEPT !.cpuModel = model]
  BY DEF ScanCpuLine
<1>5. Len(CpuInfo) \in Nat /\ n \in Nat /\ n \in 1..(Len(CpuInfo) + 1)
  BY <1>1
<1> HIDE DEF model
<1>6. CASE n > Len(CpuInfo)
  <2>1. \A k \in 1..Len(CpuInfo) : ~Recognized(k)
    BY <1>1, <1>5, <1>6 DEF Passed
  <2>2. FirstModel = {}
    BY <2>1, NothingRecognized
  <2> QED
    BY <1>1, <1>3, <1>4, <1>6, <2>2 DEF ScanInv
<1>7. CASE ~(n > Len(CpuInfo))
  <2>1. n \in 1..Len(CpuInfo) /\ line \in CpuLines
    BY <1>5, <1>7
  <2>2. bytes = BytesOf(CpuInfo)[n]
    BY <1>1, <2>1 DEF Sums
  <2>3. model \subseteq CleanTexts
    <3>1. line.value \in AnyText
      BY <2>1 DEF CpuLines
    <3>2. bounded_value(line.value) \subseteq CleanTexts
      BY <3>1, BoundedIsClean DEF CleanTexts
    <3> QED
      BY <3>2 DEF model
  <2>4. facts' \in Facts /\ facts'.kernel = facts.kernel /\ facts'.cpuModel = model
    BY <1>4, <1>7, <2>3 DEF Facts
  <2>5. bytes \in Nat /\ MAX_CPUINFO_SCAN_BYTES \in Nat
    BY <2>1, <2>2, ProvenanceAssumption DEF Sums
  <2>6. /\ ScanStops(line, bytes) <=> ~Passed(n)
        /\ model = IF /\ ~line.fails /\ BytesOf(CpuInfo)[n] <= MAX_CPUINFO_SCAN_BYTES /\ Recognized(n)
                   THEN bounded_value(line.value) ELSE {}
    BY <2>2, <2>5 DEF ScanStops, Passed, Recognized, model
  <2>7. CASE ~Passed(n)
    <3>1. FirstModel = model
      BY <1>1, <2>1, <2>6, <2>7, ScanEnds
    <3> QED
      BY <1>3, <1>4, <1>7, <2>4, <2>6, <2>7, <3>1 DEF ScanInv
  <2>8. CASE Passed(n)
    <3>1. pc' = "cpuinfo" /\ scan'.line = n + 1 /\ scan'.bytes = bytes
      BY <1>4, <1>7, <2>6, <2>8
    <3>2. model = {}
      BY <2>6, <2>8 DEF Passed
    <3>3. \A k \in 1..((n + 1) - 1) : Passed(k)
      <4>1. \A k \in 1..((n + 1) - 1) : k = n \/ k \in 1..(n - 1)
        BY <1>5
      <4> QED
        BY <1>1, <2>8, <4>1
    <3>4. n + 1 \in 1..(Len(CpuInfo) + 1) /\ (n + 1) - 1 = n
      BY <1>5, <2>1
    <3>5. host'.cpuinfo # {}
      BY <1>1 DEF ScanInv
    <3> QED
      BY <1>2, <1>3, <2>2, <2>4, <3>1, <3>2, <3>3, <3>4, <3>5 DEF ScanInv
  <2> QED
    BY <2>7, <2>8
<1> QED
  BY <1>6, <1>7

-----------------------------------------------------------------------------
(* Every step                                                              *)

ProvenanceInv == CaptureInv /\ ScanInv

\* What stays while the host, the plan and the device do.
LEMMA SameInputs ==
    ASSUME Inputs, UNCHANGED <<plan, host, gpu>>
    PROVE  /\ Inputs' /\ CpuInfo' = CpuInfo /\ FirstModel' = FirstModel
           /\ (Supported' <=> Supported) /\ \A m : Emitted(m)' <=> Emitted(m)
<1>1. CpuInfo' = CpuInfo
  BY DEF CpuInfo
<1>2. FirstModel' = FirstModel
  BY <1>1 DEF FirstModel, Recognized
<1> QED
  BY <1>1, <1>2 DEF Inputs, Supported, Emitted

\* The fixed sources.
LEMMA FilesStep ==
    ASSUME ProvenanceInv, CaptureFiles
    PROVE  ProvenanceInv'
<1>1. /\ Inputs /\ facts \in Facts /\ pc = "files" /\ metadata = {} /\ verdict # "refused"
      /\ scan = [line |-> 1, bytes |-> 0] /\ facts.cpuModel = {}
  BY DEF ProvenanceInv, CaptureInv, ScanInv, CaptureFiles
<1> DEFINE name == read_single_value(host.ostype, MAX_KERNEL_FILE_BYTES)
           kernel == IF name = {} THEN {OS} ELSE name
           release == read_single_value(host.kernelRelease, MAX_KERNEL_FILE_BYTES)
           distribution == os_release_identity("ID")
           version == os_release_identity("VERSION_ID")
<1>2. /\ facts' = [facts EXCEPT !.distribution = distribution, !.version = version,
                                !.kernel = kernel, !.release = release]
      /\ pc' = IF host.cpuinfo = {} THEN "software" ELSE "cpuinfo"
      /\ UNCHANGED <<plan, host, gpu, scan, provenance, stored, metadata, status, verdict>>
  BY DEF CaptureFiles
<1>3. OS \in CleanTexts
  <2>1. 1 \in 1..MAX_PROVENANCE_VALUE_BYTES
    BY ProvenanceAssumption
  <2>2. OS.size = 1 /\ ~OS.padded /\ OS.control = "none"
    BY DEF OS
  <2>3. Clean(OS)
    BY <2>1, <2>2 DEF Clean
  <2> QED
    BY <2>3 DEF CleanTexts
<1>4. name \subseteq CleanTexts /\ release \subseteq CleanTexts
  BY <1>1, InputFacts, SingleValueIsClean
<1>5. distribution \subseteq CleanTexts /\ version \subseteq CleanTexts
  BY <1>1, InputFacts, ReleaseIsClean
<1>6. kernel \subseteq CleanTexts /\ kernel # {}
  BY <1>3, <1>4
<1> HIDE DEF name, kernel, release, distribution, version
<1>7. facts' \in Facts /\ facts'.kernel = kernel /\ facts'.cpuModel = {}
  BY <1>1, <1>2, <1>4, <1>5, <1>6 DEF Facts
<1>8. Inputs' /\ CpuInfo' = CpuInfo /\ FirstModel' = FirstModel
  BY <1>1, <1>2, SameInputs
<1>9. CaptureInv'
  BY <1>1, <1>2, <1>6, <1>7, <1>8 DEF CaptureInv
<1>10. ScanInv'
  <2>1. CASE host.cpuinfo = {}
    <3>1. CpuInfo = <<>>
      BY <2>1 DEF CpuInfo
    <3>2. FirstModel = {}
      BY <3>1 DEF FirstModel
    <3> QED
      BY <1>2, <1>7, <1>8, <2>1, <3>2 DEF ScanInv
  <2>2. CASE host.cpuinfo # {}
    <3>1. Len(CpuInfo) \in Nat /\ BytesOf(CpuInfo)[0] = 0
      BY <1>1, CpuInfoFacts DEF Sums
    <3>2. /\ pc' = "cpuinfo" /\ scan'.line = 1 /\ scan'.bytes = 0 /\ host' = host
      BY <1>1, <1>2, <2>2
    <3>3. 1 \in 1..(Len(CpuInfo) + 1) /\ 1 - 1 = 0 /\ (1..(1 - 1)) = {}
      BY <3>1
    <3> QED
      BY <1>7, <1>8, <2>2, <3>1, <3>2, <3>3 DEF ScanInv
  <2> QED
    BY <2>1, <2>2
<1> QED
  BY <1>9, <1>10 DEF ProvenanceInv

\* A line of cpuinfo.
LEMMA CpuLineStep ==
    ASSUME ProvenanceInv, ScanCpuLine
    PROVE  ProvenanceInv'
<1>1. /\ Inputs /\ facts \in Facts /\ pc = "cpuinfo" /\ metadata = {} /\ facts.kernel # {}
      /\ verdict # "refused" /\ ScanInv
  BY DEF ProvenanceInv, CaptureInv, ScanCpuLine
<1>2. UNCHANGED <<plan, host, gpu, provenance, stored, metadata, status, verdict>>
      /\ pc' \in {"software", "cpuinfo"}
  BY DEF ScanCpuLine
<1>3. ScanInv' /\ facts' \in Facts /\ facts'.kernel = facts.kernel
  BY <1>1, ScanStep
<1>4. Inputs'
  BY <1>1, <1>2, SameInputs
<1> QED
  BY <1>1, <1>2, <1>3, <1>4 DEF CaptureInv, ProvenanceInv

\* The rest of capture.
LEMMA SoftwareStep ==
    ASSUME ProvenanceInv, CaptureSoftware
    PROVE  ProvenanceInv'
<1>1. /\ Inputs /\ facts \in Facts /\ pc = "software" /\ metadata = {} /\ facts.kernel # {}
      /\ verdict # "refused" /\ facts.cpuModel = FirstModel
  BY DEF ProvenanceInv, CaptureInv, ScanInv, CaptureSoftware
<1> DEFINE cpus == {n \in host.cpus : n <= U32Max}
<1>2. /\ facts' = [facts EXCEPT !.cpus = cpus] /\ stored' = provenance' /\ pc' = "execute"
      /\ UNCHANGED <<plan, host, gpu, scan, metadata, status, verdict>>
  BY DEF CaptureSoftware
<1>3. cpus \in SUBSET (Nat \ {0})
  BY <1>1, InputFacts
<1> HIDE DEF cpus
<1>4. facts' \in Facts /\ facts'.kernel = facts.kernel /\ facts'.cpuModel = facts.cpuModel
  BY <1>1, <1>2, <1>3 DEF Facts
<1>5. provenance' = {Record({})'}
  BY <1>2 DEF CaptureSoftware, Record
<1>6. Inputs' /\ FirstModel' = FirstModel
  BY <1>1, <1>2, SameInputs
<1>7. ScanInv'
  BY <1>1, <1>2, <1>4, <1>6 DEF ScanInv
<1> QED
  BY <1>1, <1>2, <1>4, <1>5, <1>6, <1>7 DEF CaptureInv, ProvenanceInv

\* The helper.
LEMMA ExecuteStep ==
    ASSUME ProvenanceInv, Execute
    PROVE  ProvenanceInv'
<1>1. /\ Inputs /\ facts \in Facts /\ pc = "execute" /\ metadata = {} /\ facts.kernel # {}
      /\ verdict # "refused" /\ facts.cpuModel = FirstModel
      /\ provenance = {Record({})} /\ stored = provenance
  BY DEF ProvenanceInv, CaptureInv, ScanInv, Execute
<1>2. /\ pc' = "adapter"
      /\ UNCHANGED <<plan, host, gpu, scan, facts, provenance, stored, verdict>>
  BY DEF Execute
<1>3. metadata' # {} => Supported /\ \E m : metadata' = {m} /\ Emitted(m)
  <2> SUFFICES ASSUME metadata' # {} PROVE Supported /\ \E m : metadata' = {m} /\ Emitted(m)
    OBVIOUS
  <2>1. /\ helper_driver_version_supported(gpu.driver) /\ gpu.offloaded = gpu.layers + 1
        /\ gpu.total = gpu.layers + 1 /\ metadata' = emit_nvidia_metadata(gpu)
    BY <1>1 DEF Execute
  <2> DEFINE m == [name |-> gpu.name, driver |-> gpu.driver, vram |-> gpu.vram, major |-> gpu.major,
                   offloaded |-> gpu.offloaded, total |-> gpu.total]
  <2>2. metadata' = {m}
    BY <2>1 DEF emit_nvidia_metadata
  <2>3. Emitted(m)
    BY <2>1 DEF Emitted
  <2> QED
    BY <2>1, <2>2, <2>3 DEF Supported
<1>4. /\ Inputs' /\ FirstModel' = FirstModel /\ Record({})' = Record({})
      /\ (Supported' <=> Supported) /\ \A m : Emitted(m)' <=> Emitted(m)
  BY <1>1, <1>2, SameInputs DEF Record
<1>5. ScanInv'
  BY <1>1, <1>2, <1>4 DEF ScanInv
<1> QED
  BY <1>1, <1>2, <1>3, <1>4, <1>5 DEF CaptureInv, ProvenanceInv

\* The adapter and the second write of provenance.json.
LEMMA AdapterStep ==
    ASSUME ProvenanceInv, Adapter
    PROVE  ProvenanceInv'
<1>1. /\ Inputs /\ facts \in Facts /\ pc = "adapter" /\ facts.kernel # {}
      /\ verdict # "refused" /\ facts.cpuModel = FirstModel
      /\ provenance = {Record({})} /\ stored = provenance
      /\ metadata # {} => Supported /\ \E m : metadata = {m} /\ Emitted(m)
  BY DEF ProvenanceInv, CaptureInv, ScanInv, Adapter
<1>2. /\ pc' = "verify"
      /\ UNCHANGED <<plan, host, gpu, scan, facts, metadata, verdict>>
  BY DEF Adapter
<1>3. /\ Inputs' /\ FirstModel' = FirstModel /\ \A nvidia : Record(nvidia)' = Record(nvidia)
      /\ (Supported' <=> Supported) /\ \A m : Emitted(m)' <=> Emitted(m)
  BY <1>1, <1>2, SameInputs DEF Record
<1>4. stored' = provenance'
  BY <1>1 DEF Adapter
<1>5. IF Proven' THEN \E m \in metadata' : parse_nvidia_metadata(m) /\ provenance' = {Record({m})}
      ELSE provenance' = {Record({})}
  <2>1. CASE status = "succeeded" /\ plan.target = "nvidiaCuda" /\ \E m \in metadata : parse_nvidia_metadata(m)
    <3>1. PICK m \in metadata : parse_nvidia_metadata(m)
      BY <2>1
    <3>2. metadata = {m}
      BY <1>1, <3>1
    <3>3. provenance' = {attach_nvidia(p, k) : p \in provenance, k \in metadata} /\ status' = status
      BY <2>1 DEF Adapter
    <3>4. provenance' = {attach_nvidia(Record({}), m)}
      BY <1>1, <3>2, <3>3
    <3>5. attach_nvidia(Record({}), m) = Record({m})
      BY DEF attach_nvidia, Record
    <3> QED
      BY <1>2, <2>1, <3>1, <3>3, <3>4, <3>5 DEF Proven
  <2>2. CASE ~(status = "succeeded" /\ plan.target = "nvidiaCuda" /\ \E m \in metadata : parse_nvidia_metadata(m))
    BY <1>1, <1>2, <2>2 DEF Adapter, Proven
  <2> QED
    BY <2>1, <2>2
<1>6. ScanInv'
  BY <1>1, <1>2, <1>3 DEF ScanInv
<1> QED
  BY <1>1, <1>2, <1>3, <1>4, <1>5, <1>6 DEF CaptureInv, ProvenanceInv

\* The verifier.
LEMMA VerifyStep ==
    ASSUME ProvenanceInv, Verify
    PROVE  ProvenanceInv'
<1>1. /\ CaptureInv /\ pc = "verify" /\ pc' = "done"
      /\ UNCHANGED <<plan, host, gpu, scan, facts, provenance, stored, metadata, status>>
      /\ facts.cpuModel = FirstModel
  BY DEF ProvenanceInv, ScanInv, Verify
<1>2. verdict' = "accepted"
  BY <1>1, RecordIsValid DEF Verify
<1>3. /\ Inputs' /\ FirstModel' = FirstModel /\ \A nvidia : Record(nvidia)' = Record(nvidia)
      /\ (Supported' <=> Supported) /\ \A m : Emitted(m)' <=> Emitted(m)
  BY <1>1, SameInputs DEF Record, CaptureInv
<1>4. Proven' <=> Proven
  BY <1>1 DEF Proven
<1>5. ScanInv'
  BY <1>1, <1>3 DEF ScanInv
<1> QED
  BY <1>1, <1>2, <1>3, <1>4, <1>5 DEF CaptureInv, ProvenanceInv

\* The invariant of the capture: the facts recorded are clean ones, the scan of
\* cpuinfo went past every line before the one it stopped at, and the record on
\* disk is the captured one, with the proof of the device exactly when a CUDA
\* run succeeded (provenance.rs, run.rs).
THEOREM ProvenanceInvariant == Spec => []ProvenanceInv
<1>1. Init => ProvenanceInv
  <2> SUFFICES ASSUME Init PROVE ProvenanceInv
    OBVIOUS
  <2>1. /\ Inputs /\ pc = "files" /\ scan = [line |-> 1, bytes |-> 0] /\ metadata = {}
        /\ verdict = "none"
    BY DEF Init, Inputs
  <2>2. facts \in Facts /\ facts.cpuModel = {}
    BY DEF Init, Facts
  <2> QED
    BY <2>1, <2>2 DEF ProvenanceInv, CaptureInv, ScanInv
<1>2. ProvenanceInv /\ [Next]_vars => ProvenanceInv'
  <2> SUFFICES ASSUME ProvenanceInv, [Next]_vars PROVE ProvenanceInv'
    OBVIOUS
  <2>1. CASE UNCHANGED vars
    <3>1. UNCHANGED <<plan, host, gpu, pc, scan, facts, provenance, stored, metadata, status, verdict>>
      BY <2>1 DEF vars
    <3>2. /\ Inputs' /\ FirstModel' = FirstModel /\ CpuInfo' = CpuInfo
          /\ (\A nvidia : Record(nvidia)' = Record(nvidia)) /\ (Proven' <=> Proven)
          /\ (Supported' <=> Supported) /\ \A m : Emitted(m)' <=> Emitted(m)
      BY <3>1, SameInputs DEF Record, CaptureInv, ProvenanceInv, Proven
    <3>3. CaptureInv'
      BY <3>1, <3>2 DEF CaptureInv, ProvenanceInv
    <3>4. ScanInv'
      BY <3>1, <3>2 DEF ScanInv, ProvenanceInv, Passed, Recognized
    <3> QED
      BY <3>3, <3>4 DEF ProvenanceInv
  <2> QED
    BY <2>1, FilesStep, CpuLineStep, SoftwareStep, ExecuteStep, AdapterStep, VerifyStep
       DEF Next, Terminated
<1> QED
  BY <1>1, <1>2, PTL DEF Spec

\* Whatever a host holds and a device reports, and however the execution ends,
\* the verifier accepts the provenance the run left (provenance.rs against
\* evidence.rs validate_attempt_provenance).
THEOREM OutcomesVerify == Spec => []EveryOutcomeVerifies
<1>1. ProvenanceInv => EveryOutcomeVerifies
  BY DEF ProvenanceInv, CaptureInv, EveryOutcomeVerifies
<1> QED
  BY <1>1, ProvenanceInvariant, PTL

\* The model recorded is that of the first recognized line of cpuinfo, however
\* many lines there are (provenance.rs cpu_model_from_reader).
THEOREM FirstCpuModel == Spec => []CpuModelIsFirst
<1>1. ProvenanceInv => CpuModelIsFirst
  <2> SUFFICES ASSUME ProvenanceInv, pc \notin {"files", "cpuinfo"} PROVE CpuModelIsFirst
    BY DEF CpuModelIsFirst
  <2>1. facts.cpuModel = FirstModel
    BY DEF ProvenanceInv, ScanInv
  <2> QED
    BY <2>1 DEF CpuModelIsFirst, FirstModel, CpuInfo, Recognized
<1> QED
  BY <1>1, ProvenanceInvariant, PTL

\* The helper and the adapter agree on every driver version (main.cpp and
\* provenance.rs nvidia_driver_version_supported).
THEOREM DriverChecksAreOne == Spec => []DriverChecksAgree
<1>1. ProvenanceInv => DriverChecksAgree
  <2> SUFFICES ASSUME ProvenanceInv PROVE DriverChecksAgree
    OBVIOUS
  <2>1. gpu.driver \in Seq(Int)
    BY InputFacts DEF ProvenanceInv, CaptureInv
  <2> QED
    BY <2>1, DriverChecks DEF DriverChecksAgree
<1> QED
  BY <1>1, ProvenanceInvariant, PTL

\* A succeeded CUDA run, and no other, has its proof on disk (run.rs around
\* attach_nvidia).
THEOREM ProofWithSuccess == Spec => []ProofGoesWithSuccess
<1>1. ProvenanceInv => ProofGoesWithSuccess
  <2> SUFFICES ASSUME ProvenanceInv, pc \in {"verify", "done"}, NEW p \in stored
               PROVE  IF Proven
                      THEN \E m \in p.nvidia : /\ m.offloaded = gpu.layers + 1
                                               /\ helper_driver_version_supported(m.driver)
                                               /\ Clean(m.name)
                      ELSE p.nvidia = {}
    BY DEF ProofGoesWithSuccess, Proven
  <2>1. stored = provenance
    BY DEF ProvenanceInv, CaptureInv
  <2>2. CASE ~Proven
    <3>1. p = Record({})
      BY <2>1, <2>2 DEF ProvenanceInv, CaptureInv
    <3> QED
      BY <2>2, <3>1 DEF Record
  <2>3. CASE Proven
    <3>1. PICK m \in metadata : parse_nvidia_metadata(m) /\ p = Record({m})
      BY <2>1, <2>3 DEF ProvenanceInv, CaptureInv
    <3>2. Supported /\ Emitted(m)
      BY <3>1 DEF ProvenanceInv, CaptureInv
    <3>3. m \in p.nvidia
      BY <3>1 DEF Record
    <3> QED
      BY <2>3, <3>1, <3>2, <3>3 DEF Supported, Emitted, parse_nvidia_metadata
  <2> QED
    BY <2>2, <2>3
<1> QED
  BY <1>1, ProvenanceInvariant, PTL

=============================================================================
