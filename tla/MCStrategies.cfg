CONSTANTS
    Inputs <- MCInputs
    Programs <- MCPrograms
    Names = {"dfs", "random_input", "random", "uniform_random", "hybrid", "cfg_baseline", "cfg"}
    Depths = {1, 9}
    MaxIters = 5
    Tries = 2
    StepSize = 2
    LocalSteps = 2
    ScoredIters = 2
    kInfiniteDistance = 5
    UintSize = 16
    Failures = {"job", "tail"}
SPECIFICATION Spec
CHECK_DEADLOCK FALSE
INVARIANTS
    AssertsHold
    PredictionsHold
    DfsComplete
    WalkBounded
PROPERTIES
    ReachesCap
