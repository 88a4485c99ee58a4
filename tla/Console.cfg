SPECIFICATION Spec
CONSTANTS
    Cpu = {c1, c2}
    Size = 4
    MsgLen = 2
    MaxEvents = 3
INVARIANTS MessagesWhole CountsSound CrashesApartAlone ReportLostOnlyToThreads
PROPERTIES CrashEnds
CHECK_DEADLOCK FALSE
