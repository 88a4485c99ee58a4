CONSTANTS
    Size = 4
    Byte = {0, 1}
    MaxLen = 3
SPECIFICATION Spec
INVARIANTS
    IndInv
    NoSlotConflict
PROPERTY ImplementsFifo
