CONSTANTS
    Nodes = {0, 1, 2, 3, 4}
    Branches = {1, 2, 3}
    Cfgs <- SmallCfgs
    kInfiniteDistance = 3
    Graphs <- NoEdges
    MaxCalls = 2
SPECIFICATION PipelineSpec
CHECK_DEADLOCK FALSE
INVARIANTS
    ThinnedExact
    DistancesInCfg
    Shortest
    EnqueuedOnce
PROPERTY
    PipelineReturns
