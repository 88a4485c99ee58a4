SPECIFICATION Spec
CONSTANTS
    Cpu = {c1, c2}
    Liodn = {d1, d2}
    Page = {p1, p2}
    NoPage = NoPage
    Counts = {0, 2, 3}
    NSpaace = 2
    MaxCalls = 3
SYMMETRY Symmetry
INVARIANTS ValidIsConfigured
CHECK_DEADLOCK FALSE
