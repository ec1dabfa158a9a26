CONSTANTS
    Shapes <- SmallShapes
    Uninitialized = {0, 2}
    MaxJobs = 3
SPECIFICATION Spec
CHECK_DEADLOCK FALSE
INVARIANTS
    WholeFilesRead
    ConstraintsOfOneJob
    ConstraintsUsable
    SameTagSameIndices
