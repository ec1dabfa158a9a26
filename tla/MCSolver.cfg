CONSTANTS
    Vars = {0, 1, 2}
    Values = {0, 1}
    Executions <- SmallExecutions
    Earlier <- SomeEarlier
    MaxCalls = 2
SPECIFICATION Spec
CHECK_DEADLOCK FALSE
INVARIANTS
    SliceClosed
    UnconnectedKept
PROPERTIES
    AnswersForPath
    Returns
