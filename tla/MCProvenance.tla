---------------------------- MODULE MCProvenance ----------------------------
(***************************************************************************)
(* Hosts that differ from a plain one in one or two sources, for values of *)
(* at most two bytes and a cpuinfo scan of six.                            *)
(***************************************************************************)
EXTENDS Provenance

Text(id, size, padded, control) == [id |-> id, size |-> size, padded |-> padded, control |-> control]

Texts == {Text("t", 1, FALSE, "none"), Text("p", 2, TRUE, "none"), Text("e", 0, TRUE, "none"),
          Text("l", 3, FALSE, "none"), Text("a", 1, FALSE, "ascii"), Text("c", 1, FALSE, "c1")}

Plain == Text("t", 1, FALSE, "none")

\* A file of one value: absent, fitting, oversized or not UTF-8.
ValueFiles ==
    {{}, {[size |-> 9, utf8 |-> TRUE, value |-> Plain]}, {[size |-> 1, utf8 |-> FALSE, value |-> Plain]}}
    \cup {{[size |-> 4, utf8 |-> TRUE, value |-> t]} : t \in Texts}

ReleaseFiles ==
    {{}} \cup {{[size |-> size, utf8 |-> TRUE, lines |-> lines]} :
        size \in {4, 9},
        lines \in {<<>>} \cup
            {<<[key |-> "ID", value |-> t], [key |-> "VERSION_ID", value |-> u],
               [key |-> "ID", value |-> Text("s", 2, FALSE, "none")]>> : t \in Texts, u \in {Plain}}}

CpuLine(key, bytes, utf8, fails, value) ==
    [key |-> key, bytes |-> bytes, utf8 |-> utf8, fails |-> fails, value |-> value]

CpuLineSet ==
    {CpuLine("flags", 2, TRUE, FALSE, Plain), CpuLine("flags", 2, TRUE, TRUE, Plain),
     CpuLine("Processor", 2, FALSE, FALSE, Plain), CpuLine("flags", 5, TRUE, FALSE, Plain)}
    \cup {CpuLine("model name", 2, TRUE, FALSE, t) : t \in Texts}

CpuInfos == {{}, {<<>>}} \cup {{<<a, b, c>>} : a, b \in CpuLineSet,
                                  c \in {CpuLine("Hardware", 2, TRUE, FALSE, Text("h", 2, TRUE, "none"))}}

Path(inStore, size) == [inStore |-> inStore, wellFormed |-> inStore, size |-> size, control |-> FALSE]

Host(osRelease, ostype, release, cpuinfo, cpus, exe, engine, model) ==
    [osRelease |-> osRelease, ostype |-> ostype, kernelRelease |-> release, cpuinfo |-> cpuinfo,
     cpus |-> cpus, exe |-> exe, engine |-> engine, model |-> model]

PlainFile == {[size |-> 4, utf8 |-> TRUE, value |-> Plain]}

MCHosts ==
    {Host({}, PlainFile, PlainFile, cpuinfo, {4}, {}, {}, {}) : cpuinfo \in CpuInfos}
    \cup {Host(r, o, k, {}, {4}, {}, {}, {}) : r \in ReleaseFiles, o \in ValueFiles, k \in ValueFiles}
    \cup {Host({}, {}, {}, {}, cpus, exe, built, built) :
            cpus \in {{}, {1}, {9}}, exe \in {{}, {Path(TRUE, 3)}, {Path(TRUE, 5)}, {Path(FALSE, 3)}},
            built \in {{}, {Path(TRUE, 3)}, {Path(FALSE, 3)}}}

Gpu(driver, name) ==
    [driver |-> driver, name |-> name, cudaDriver |-> 12, cudaRuntime |-> 12, vram |-> 1,
     major |-> 8, offloaded |-> 3, total |-> 3, layers |-> 2]

Good == Gpu(<<5, 7, 8>>, Plain)

MCMinimum == <<5, 7, 8>>

Components == {-1, 0, 4, 5, 6, 7, 8, 9, 10}

MCGpus ==
    {Gpu(<<5, 7, 8>>, t) : t \in Texts}
    \cup {Gpu(<<a, b>>, Plain) : a, b \in Components}
    \cup {Gpu(<<a, b, c>>, Plain) : a \in {4, 5, 6}, b \in Components, c \in Components}
    \cup {Gpu(<<>>, Plain), Gpu(<<5>>, Plain), Gpu(<<5, 7, 8, 1>>, Plain),
          [Good EXCEPT !.cudaDriver = 0], [Good EXCEPT !.cudaRuntime = -1], [Good EXCEPT !.vram = 0],
          [Good EXCEPT !.major = -1], [Good EXCEPT !.offloaded = 2], [Good EXCEPT !.total = 2],
          [Good EXCEPT !.offloaded = 0, !.total = 0]}

MCPlans == [runtime : {"localFake", "llamaCpp"}, target : {"cpu"}]
           \cup {[runtime |-> "llamaCpp", target |-> "nvidiaCuda"]}

\* Every host runs without a GPU; the bare hosts, with every GPU.
MCAttempts ==
    [plan : {p \in MCPlans : p.target = "cpu"}, host : MCHosts, gpu : {Good}]
    \cup [plan : {p \in MCPlans : p.target = "nvidiaCuda"},
          host : {h \in MCHosts : h.cpuinfo = {} /\ h.osRelease = {} /\ h.ostype = {}},
          gpu : MCGpus]
=============================================================================
