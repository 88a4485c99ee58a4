SPECIFICATION Spec
CONSTANTS
    Cpu = {c1, c2}
    Dest = c1
    Sub = {s1, s2}
    MaxCalls = 3
    MaxRaised = 2
INVARIANTS NoRecursiveLock
CHECK_DEADLOCK FALSE
