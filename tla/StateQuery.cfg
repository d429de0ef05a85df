SPECIFICATION FairSpec
CONSTANTS
    Desc <- OneOfEachKind
    RegSel = {0, 20}
    MaxSpin = 3
    NullFeatures = TRUE
    IdFaults = TRUE
    MaxFaults = 1
    MaxCalls = 3
INVARIANTS
    VerdictsAreTrue
PROPERTIES
    DeniedUnlessUnread
    ValueIsState
    CallsReturn
CHECK_DEADLOCK FALSE
