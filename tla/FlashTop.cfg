SPECIFICATION FairSpec
CONSTANTS
    Base = 0
    Size = 6
    Bits = {0}
    SectorStart <- StepStart
    SectorEnd <- StepEnd
    Word = 6
    WriteAlign = 2
    DevAlign = 2
    HasHaltOp = TRUE
    SilentFaults = TRUE
    MaxFaults = 1
    MaxCalls = 1
    CallAddr = {1, 3, 5}
    CallLen = {1, 2}
    NoImage = NoImage
INVARIANTS
    SuccessMeansImage
    SucceedsWithoutFaults
PROPERTIES
    CallsReturn
CHECK_DEADLOCK FALSE
