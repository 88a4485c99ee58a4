SPECIFICATION PlatformSpec
CONSTANTS
    Cpu = {c1, c2}
    Dest = c1
    Sub = {s1, s2}
    MaxCalls = 3
    MaxRaised = 2
    NCores = 2
    MaxPauses = 2
    MpCpu = {a, b}
    Source = {s}
    MaxOps = 3
    MaxTraps = 3
    NumStamps = 4
    Rounds = 2
INVARIANTS MaskSound NoRecursiveLockElsewhere  MpicSound TrapsReturn LatencySound
PROPERTIES ErrorsHandled BootGoesOn LatencyEnds
CHECK_DEADLOCK FALSE
