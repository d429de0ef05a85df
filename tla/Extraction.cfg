SPECIFICATION Spec
CONSTANTS
    Manuals <- AllManuals
    Members = 3
    Headers <- AllHeaders
INVARIANTS
    TableIsRead
    EveryLossIsReported
CHECK_DEADLOCK FALSE
