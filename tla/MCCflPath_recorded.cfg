CONSTANTS
    Bids = {1, 2}
    MaxLen = 5
SPECIFICATION PathSpec
CHECK_DEADLOCK FALSE
INVARIANTS
    NextBranchesDocumented
