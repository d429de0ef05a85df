SPECIFICATION FairSpec
CONSTANTS
    Obj = {hw1, hw2}
    States <- OneOfEachKind
    Value = {0, 1}
    HasHaltOp = TRUE
    Live <- OneOfEachAccess
    MaxFaults = 1
    MaxCalls = 3
INVARIANTS
    ContextsOwned
    SnapshotIsTrue
PROPERTIES
    SnapshotIsComplete
    CallsReturn
CHECK_DEADLOCK FALSE
