CONSTANTS
    Values = {0, 1, 2}
    Consts = {0, 1}
    Addrs = {1, 2}
    Marked = 1
    Moduli = {2}
    Features = {"nested"}
    MaxStack = 3
    MaxFrames = 1
    MaxAbs = 3
    MaxUsed = 1
    MaxSteps = 5
SPECIFICATION Spec
CHECK_DEADLOCK FALSE
INVARIANTS
    PredicateOnTop
