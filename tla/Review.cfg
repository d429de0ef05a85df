SPECIFICATION Spec
CONSTANTS
    Manuals <- Issues
    FirstManual <- IssueA
    Limit = 4
    MaxRaw = 4
    Decisions <- MayDecide
    Entries <- Written
INVARIANTS
    GatesAccountForManual
    CheckedMeansDecided
    SweepSeesTornManifest
PROPERTY
    CommandsKeepDecisions
