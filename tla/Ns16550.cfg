CONSTANTS
    Size = 2
    TxFifo = 2
    RxFifo = 2
    RxCapacity = 1
    MaxSent = 2
    MaxPrinted = 1
    MaxArrived = 2
    DetachSync = TRUE
SPECIFICATION Spec
CHECK_DEADLOCK FALSE
INVARIANTS AttachedAsUsed  NotStranded 
PROPERTIES Quiesces
