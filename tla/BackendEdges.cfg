SPECIFICATION EdgesSpec
CONSTANTS
    Space = 64
    Chunk = 8
    Addrs <- LowAndHigh
    Lens <- UpTo20
    Parts <- StmParts
    Probes <- Ends
    Base = 4
    Size = 4
    Bits = {0}
    SectorStart <- UniformStart
    SectorEnd <- UniformEnd
    MemEnd = 12
    PageSize = 2
    MaxPages = 2
    FlashPage = 2
    Align = 1
    Width = 2
    MaxCalls = 3
INVARIANTS
    ReadIsExact
    LookupIsAPartition
PROPERTIES
    WritesAreExact
CHECK_DEADLOCK FALSE
