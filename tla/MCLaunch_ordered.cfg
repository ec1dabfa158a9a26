CONSTANTS
    Paths <- RankFirst
    InitSize = 2
    InitTarget = 1
    WorldSizeLimit = 3
    LaunchLimit = 3
    RankValues = {0, 1, 2, 3}
    DataValues = {0}
    WildValues <- Wild
    Warmup = 3
    MaxIters = 3
    Restarts = "none"
    Failures = TRUE
    Cuts = {"branches"}
    LeftoverInputs <- NoLeftover
    LeftoverExecutions <- FreshDirectory
SPECIFICATION Spec
CHECK_DEADLOCK FALSE
INVARIANTS
    ProcessesMatchWorldSize
    AllReportsRead
    InputRankBelowSize
