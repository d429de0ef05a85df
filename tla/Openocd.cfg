SPECIFICATION FairSpec
CONSTANTS
    Value = {1, 2}
    TableLen = 3
    Cap = 4
    Room = 2
    ServerErrors = TRUE
    CanExit = TRUE
    MaxTimeouts = 1
    MaxCalls = 3
INVARIANTS
    InStepUnlessLate
    LagBounded
PROPERTIES
    ReadReturnsMemory
    
    CallsReturn
CHECK_DEADLOCK FALSE
