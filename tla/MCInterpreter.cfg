CONSTANTS
    Values = {0, 1, 2}
    Consts = {0, 1}
    Addrs = {1, 2}
    Marked = 1
    Moduli = {2}
    Features = {"nested", "pointer", "cast", "overflow", "variadic", "callback", "overwrite"}
    MaxStack = 3
    MaxFrames = 3
    MaxAbs = 3
    MaxUsed = 1
    MaxSteps = 8
SPECIFICATION Spec
CHECK_DEADLOCK FALSE
INVARIANTS
    ConcolicAgree
    PlainPredicateOnTop
    ConstraintsHold
    StackIsOwn
    NeverAborts
