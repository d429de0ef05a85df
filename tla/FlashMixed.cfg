SPECIFICATION Spec
CONSTANTS
    Base = 1
    Size = 5
    Bits = {0}
    SectorStart <- MixedStart
    SectorEnd <- MixedEnd
    Word = 8
    WriteAlign = 2
    DevAlign = 1
    HasHaltOp = TRUE
    SilentFaults = FALSE
    MaxFaults = 2
    MaxCalls = 1
    CallAddr = {0, 2, 4}
    CallLen = {0, 1, 3}
    NoImage = NoImage
INVARIANTS
    SuccessKeepsTheRest
    DamageInOneBlock
    UpdatedUpToPos
    IdenticalBlocksUntouched
    ClearOnlyBlockNeverErased
    StatsExact
    HaltedForProgramming
PROPERTIES
    ImplementsContract
CHECK_DEADLOCK FALSE
