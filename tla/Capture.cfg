CONSTANTS
    Attempts <- MCAttempts
    MAX_OS_RELEASE_BYTES = 8
    MAX_CPUINFO_SCAN_BYTES = 6
    MAX_KERNEL_FILE_BYTES = 8
    MAX_PLATFORM_VALUE_BYTES = 2
    MAX_PROVENANCE_VALUE_BYTES = 2
    MAX_NIX_STORE_PATH_BYTES = 4
    MIN_NVIDIA_DRIVER_VERSION <- MCMinimum
    U32Max = 9
SPECIFICATION Spec
INVARIANTS
    EveryOutcomeVerifies
    CpuModelIsFirst
    DriverChecksAgree
    ProofGoesWithSuccess
