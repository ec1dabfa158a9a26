CONSTANTS
    Bids = {1, 2}
    MaxLen = 7
SPECIFICATION PathSpec
CHECK_DEADLOCK FALSE
INVARIANTS
    CollectedAsDocumented
    FindAgreesWithMin
