SPECIFICATION Spec
CONSTANTS
    Cpu = {c1, c2}
    Liodn = {d1, d2}
    Page = {p1, p2}
    NoPage = NoPage
    Counts = {0, 2, 3}
    NSpaace = 2
    MaxCalls = 4
SYMMETRY Symmetry
INVARIANTS ConfiguredOnce EntriesSound OnlyGrantedPages ReturnedIsInForce
CHECK_DEADLOCK FALSE
