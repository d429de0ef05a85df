SPECIFICATION Spec
CONSTANTS
    Tables <- Sorted
    Rule <- Rules
    Override <- Overrides
    Declares <- DeclaredNames
    Files <- FpFiles
    Manuals <- AllManuals
    MaxCommands = 3
INVARIANTS
    DiffOfUnchangedIsEmpty
CHECK_DEADLOCK FALSE
