CONSTANTS
    U64Max = 1000
    Unit = 4
    LineageFacts = {"engine", "model", "backend"}
    PlatformFacts <- MCPlatformFacts
    NvidiaFacts <- MCNvidiaFacts
    Bundles <- MCBundles
SPECIFICATION Spec
INVARIANTS
    NeverPanics
    OnlyPlanAndTargetDiffer
    MirrorImage
    ScopesAgree
