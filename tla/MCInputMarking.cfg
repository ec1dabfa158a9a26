CONSTANTS
    NumProcs = 3
    Focus = 2
    Programs <- Uniform
    Files <- MCFiles
    Comms <- MCComms
SPECIFICATION Spec
INVARIANTS
    ValuesSynchronized
    FocusKnowsItself
    NobodyStuck
PROPERTY
    AllFinish
