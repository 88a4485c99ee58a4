CONSTANTS
    Size = 4
    TxFifo = 2
    RxFifo = 1
    RxCapacity = 1
    MaxSent = 3
    MaxPrinted = 0
    MaxArrived = 0
    DetachSync = FALSE
SPECIFICATION Spec
CHECK_DEADLOCK FALSE
INVARIANT WireInOrder
