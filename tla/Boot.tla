--------------------------------- MODULE Boot ---------------------------------
(* What the boot core does, part by part: the MMU is set up (BootMmu), the  *)
(* core's capabilities are found and pages mapped (Tlb1), the device tree   *)
(* is read (DeviceTree), devices are given to drivers (Driver), addresses   *)
(* are handed out (SimpleAlloc) and the heap is made and used (Memory).     *)
(* The parts share no state: a behaviour explores one of them.              *)
EXTENDS Memory, BootMmu, Tlb1, DeviceTree, Driver, SimpleAlloc

VARIABLE part

bootVars == <<memVars, mmuVars, tlbVars, dtVars, drvVars, allocVars, part>>

BootInit ==
    /\ Init /\ MmuInit /\ TlbInit /\ DtInit /\ DrvInit /\ AllocInit
    /\ part \in {"memory", "mmu", "tlb1", "tree", "drivers", "virtual"}

MemoryPart ==
    part = "memory" /\ Next /\ UNCHANGED <<mmuVars, tlbVars, dtVars, drvVars, allocVars, part>>
MmuPart ==
    part = "mmu" /\ MmuNext /\ UNCHANGED <<memVars, tlbVars, dtVars, drvVars, allocVars, part>>
Tlb1Part ==
    part = "tlb1" /\ TlbNext /\ UNCHANGED <<memVars, mmuVars, dtVars, drvVars, allocVars, part>>
TreePart ==
    part = "tree" /\ ReadReg /\ UNCHANGED <<memVars, mmuVars, tlbVars, drvVars, allocVars, part>>
DriverPart ==
    part = "drivers" /\ DrvNext /\ UNCHANGED <<memVars, mmuVars, tlbVars, dtVars, allocVars, part>>
VirtualPart ==
    part = "virtual" /\ AllocNext /\ UNCHANGED <<memVars, mmuVars, tlbVars, dtVars, drvVars, part>>

BootNext == MemoryPart \/ MmuPart \/ Tlb1Part \/ TreePart \/ DriverPart \/ VirtualPart

BootSpec == BootInit /\ [][BootNext]_bootVars
=============================================================================
