SPECIFICATION Spec
CONSTANTS
    Cpu = {c1, c2}
    Size = 4
    MsgLen = 2
    MaxEvents = 3
INVARIANTS  CrashesApart 
CHECK_DEADLOCK FALSE
