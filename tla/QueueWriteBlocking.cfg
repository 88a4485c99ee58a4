CONSTANTS
    Capacity = 1
    Byte = {0, 1}
    Calls = {"write"}
    MaxLen = 3
    MaxSent = 5
SPECIFICATION Spec
CHECK_DEADLOCK FALSE
INVARIANT StreamInOrder
