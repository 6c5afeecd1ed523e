CONSTANTS
    Documents <- MCDocuments
    U32Max = 15
    U64Max = 255
    MAX_LOCAL_FAKE_RECORDS = 6
    MAX_CPU_PROBE_RECORDS = 5
    MAX_CPU_PROBE_OUTPUT_TOKENS = 4
    MAX_CPU_PROBE_WORK_UNITS_PER_TOKEN = 3
    MAX_CPU_PROBE_TOTAL_WORK_UNITS = 24
    MAX_LLAMA_CPP_RECORDS = 4
    MAX_LLAMA_CPP_OUTPUT_TOKENS = 4
    MAX_LLAMA_CPP_PROMPT_TOKENS = 2
    MAX_LLAMA_CPP_TOTAL_TOKENS = 24
    MAX_RUNTIME_SECONDS = 3600
    CPU_RECORD_BYTES = 3
    CPU_STDOUT_BYTES = 16
    LLAMA_RECORD_BYTES = 10
    FakeRecordBytes = 2
    HeaderBytes = 2
    ObservationBytes = 1
    MAX_MEASUREMENTS_BYTES = 50
SPECIFICATION Spec
INVARIANTS
    AdmittedIsExecuted
    WorkIsBounded
    OutputFits
    JudgesAgree
