SPECIFICATION Spec
CONSTANTS
    Threads = {t1, t2, t3}
    Symbols <- TwoSymbols
    Disks <- AllDisks
    None = None
    MaxListed = 4
SYMMETRY Alike
INVARIANTS
    UnboundHasACause
    LoadsWhatCan
    ReadsWhatIsThere
