CONSTANTS
    Paths <- Mixed
    InitSize = 2
    InitTarget = 0
    WorldSizeLimit = 2
    LaunchLimit = 2
    RankValues = {0, 1}
    DataValues = {0}
    WildValues <- Wild
    Warmup = 1
    MaxIters = 3
    Restarts = "clearing"
    Failures = TRUE
    Cuts = {"inputs", "indices", "branches"}
    LeftoverInputs <- SmallJobInput
    LeftoverExecutions <- FreshDirectory
SPECIFICATION Spec
CHECK_DEADLOCK FALSE
INVARIANTS
    FocusInJob
    CacheCoherent
    TagsDifferentiate
    IndicesInRange
VIEW WithoutReports
