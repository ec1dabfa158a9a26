CONSTANTS
    Branches <- MCBranches
    MaxBranch <- MCMaxBranch
    branch_function_ <- MCFunction
    ResetsCovered = TRUE
    KillPoints = {"search", "running", "opening", "writing"}
    MaxIters = 2
    MaxSessions = 3
SPECIFICATION Spec
CHECK_DEADLOCK FALSE
INVARIANTS
    FileCurrent
    CountersExact
    CoverageIsReal
PROPERTIES
    LedgerSpec
