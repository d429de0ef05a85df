SPECIFICATION Spec
CONSTANTS
    Base = 1
    Size = 5
    Bits = {0}
    SectorStart <- MixedStart
    SectorEnd <- MixedEnd
    Word = 8
    WriteAlign = 1
    DevAlign = 1
    HasHaltOp = FALSE
    SilentFaults = FALSE
    MaxFaults = 0
    MaxCalls = 1
    CallAddr = {2}
    CallLen = {1}
    NoImage = NoImage
INVARIANTS
    HaltedForProgramming
CHECK_DEADLOCK FALSE
