------------------------------- MODULE BootMmu --------------------------------
(* lib/head.S from _start or secondary_start to the C entry: the code finds *)
(* the TLB1 entry it runs under, clears the others, moves to a copy in the  *)
(* other address space, builds the final mapping and moves to that.         *)
(* Addresses are in KB: an entry of TSIZE t maps 2^t of them.               *)
EXTENDS Integers, FiniteSets

CONSTANTS
    NEntries,       \* the entries of TLB1, numbered from 0
    BaseTlbEntry,   \* BASE_TLB_ENTRY
    PhysMapSize,    \* PHYSMAPSIZE, a TSIZE
    PhysBase,       \* PHYSBASE, a multiple of its size
    LoadedAt,       \* bound: where the image may be, multiples of its size
    CodeAt,         \* bound: where the code may be in the image
    Loader          \* bound: the entries the loader may leave

(* The largest page, 1 TB, is all of the memory; an entry's addresses are   *)
(* multiples of its size.                                                   *)
PageSizes == 0 .. 30
ASSUME PowerAssumption == \A t \in PageSizes : 2 ^ t \in Nat \ {0}
ASSUME MapAssumption ==
    /\ NEntries \in Nat /\ BaseTlbEntry \in 0 .. NEntries - 1
    /\ PhysMapSize \in PageSizes /\ PhysBase \in Nat
TlbEntry == [valid : BOOLEAN, ts : {0, 1}, tid : Nat, ea : Nat, tsize : PageSizes, pa : Int]
ASSUME LoaderAssumption ==
    /\ Loader \subseteq TlbEntry
    /\ \A e \in Loader : e.valid /\ e.ea % 2 ^ e.tsize = 0
    /\ LoadedAt \subseteq Nat /\ CodeAt \subseteq Nat

VARIABLES
    mmuPc,          \* the step to come
    secondary,      \* entered at secondary_start
    tlb1,           \* the entries
    addrSpace,      \* MSR[IS]: the address space
    pid,            \* SPR_PID
    codeEa, codePa, \* the effective and the physical address of the code
    r10, r16, r30,  \* the entry it runs under; loop; physical - effective
    physbase_phys,  \* in .data
    cacheBlock,     \* cache_block_size, in the BSS
    oddSize         \* history: the loader's entry has an odd TSIZE

mmuVars == <<mmuPc, secondary, tlb1, addrSpace, pid, codeEa, codePa, r10, r16, r30,
             physbase_phys, cacheBlock, oddSize>>
entered == <<secondary, pid, codePa, oddSize>>

Entry == 0 .. NEntries - 1
Invalid == [valid |-> FALSE, ts |-> 0, tid |-> 0, ea |-> 0, tsize |-> 2, pa |-> 0]
Pages(e) == e.ea .. e.ea + 2 ^ e.tsize - 1
Collide(e, f) == e.ts = f.ts /\ (0 \in {e.tid, f.tid} \/ e.tid = f.tid) /\ Pages(e) \cap Pages(f) # {}

(* An entry translates when its TID is the PID or it is global.             *)
Hits(as, ea) ==
    {i \in Entry : LET e == tlb1[i]
                   IN e.valid /\ e.ts = as /\ e.tid \in {0, pid} /\ ea \in Pages(e)}

MmuInit ==
    /\ mmuPc = "reset" /\ secondary = FALSE /\ tlb1 = [i \in Entry |-> Invalid]
    /\ addrSpace = 0 /\ pid = 0 /\ codeEa = 0 /\ codePa = 0
    /\ r10 = 0 /\ r16 = 0 /\ r30 = 0
    /\ physbase_phys = -1 /\ cacheBlock = "dirty" /\ oddSize = FALSE

(* The loader enters in address space 0 under an entry of its choice; it    *)
(* may leave another that does not collide with it.                         *)
EnterFromLoader ==
    /\ mmuPc = "reset"
    /\ secondary' \in BOOLEAN /\ pid' \in {0, 1}
    /\ \E base \in LoadedAt, off \in CodeAt, e \in Loader, other \in Loader, i, j \in Entry :
         LET inPage == (base + off) % 2 ^ e.tsize
         IN /\ e.ts = 0 /\ e.tid \in {0, pid'} /\ i # j /\ ~Collide(e, other)
            /\ codePa' = base + off /\ codeEa' = e.ea + inPage
            /\ tlb1' = [[tlb1 EXCEPT ![i] = [e EXCEPT !.pa = base + off - inPage]]
                          EXCEPT ![j] = other]
            /\ oddSize' = (e.tsize % 2 = 1)
    /\ mmuPc' = "calc_off"
    /\ UNCHANGED <<addrSpace, r10, r16, r30, physbase_phys, cacheBlock>>

(* calc_ea_phys_off: the lowest bit of TSIZE is dropped, as where it only   *)
(* goes up in fours.                                                        *)
CalcEaPhysOff ==
    /\ mmuPc = "calc_off"
    /\ \E i \in Hits(addrSpace, codeEa) :
         LET size == 2 ^ (2 * (tlb1[i].tsize \div 2))
         IN r30' = tlb1[i].pa + (codeEa % size) - codeEa
    /\ mmuPc' = "find"
    /\ UNCHANGED <<tlb1, addrSpace, entered, codeEa, r10, r16, physbase_phys, cacheBlock>>

(* fixup_mmu: tlbsx with SAS = 0 and the current PID.                       *)
FindEntry ==
    /\ mmuPc = "find"
    /\ r10' \in Hits(0, codeEa) /\ r16' = 0
    /\ mmuPc' = "clear"
    /\ UNCHANGED <<tlb1, addrSpace, entered, codeEa, r30, physbase_phys, cacheBlock>>

(* What an index past the last entry writes is up to the core.              *)
WriteTlb(i, e) ==
    IF i \in Entry THEN tlb1' = [tlb1 EXCEPT ![i] = e]
    ELSE tlb1' \in {tlb1} \cup {[tlb1 EXCEPT ![k] = e] : k \in Entry}

(* Mutant: the loop ends one entry early.                                   *)
ClearAllButLast ==
    /\ mmuPc = "clear"
    /\ tlb1' = IF r16 = r10 \/ r16 = NEntries - 1 THEN tlb1 ELSE [tlb1 EXCEPT ![r16].valid = FALSE]
    /\ r16' = r16 + 1
    /\ mmuPc' = IF r16' = NEntries THEN "copy" ELSE "clear"
    /\ UNCHANGED <<addrSpace, entered, codeEa, r10, r30, physbase_phys, cacheBlock>>

ClearOthers ==
    /\ mmuPc = "clear"
    /\ tlb1' = IF r16 = r10 THEN tlb1 ELSE [tlb1 EXCEPT ![r16].valid = FALSE]
    /\ r16' = r16 + 1
    /\ mmuPc' = IF r16' = NEntries THEN "copy" ELSE "clear"
    /\ UNCHANGED <<addrSpace, entered, codeEa, r10, r30, physbase_phys, cacheBlock>>

(* The TID is cleared in r16 only after r16 went to MAS1: the copy keeps it.*)
CopyToOtherSpace ==
    /\ mmuPc = "copy"
    /\ WriteTlb(r10 + 1, [tlb1[r10] EXCEPT !.ts = 1])
    /\ mmuPc' = "switch"
    /\ UNCHANGED <<addrSpace, entered, codeEa, r10, r16, r30, physbase_phys, cacheBlock>>

SwitchSpace ==
    /\ mmuPc = "switch"
    /\ addrSpace' = 1
    /\ mmuPc' = "inval_boot"
    /\ UNCHANGED <<tlb1, entered, codeEa, r10, r16, r30, physbase_phys, cacheBlock>>

(* tlb1_inval_entry                                                         *)
InvalBoot ==
    /\ mmuPc = "inval_boot"
    /\ WriteTlb(r10, Invalid)
    /\ mmuPc' = "final"
    /\ UNCHANGED <<addrSpace, entered, codeEa, r10, r16, r30, physbase_phys, cacheBlock>>

FinalPhys == ((codeEa + r30) \div 2 ^ PhysMapSize) * 2 ^ PhysMapSize

WriteFinal ==
    /\ mmuPc = "final"
    /\ WriteTlb(BaseTlbEntry, [Invalid EXCEPT !.valid = TRUE, !.ea = PhysBase,
                                              !.tsize = PhysMapSize, !.pa = FinalPhys])
    /\ mmuPc' = "jump"
    /\ UNCHANGED <<addrSpace, entered, codeEa, r10, r16, r30, physbase_phys, cacheBlock>>

(* To where the code is linked, in address space 0; the base is stored.     *)
JumpToLinked ==
    /\ mmuPc = "jump"
    /\ addrSpace' = 0
    /\ codeEa' = PhysBase + (codePa % 2 ^ PhysMapSize)
    /\ physbase_phys' = FinalPhys
    /\ mmuPc' = "inval_temp"
    /\ UNCHANGED <<tlb1, entered, r10, r16, r30, cacheBlock>>

InvalTemp ==
    /\ mmuPc = "inval_temp"
    /\ WriteTlb(r10 + 1, Invalid)
    /\ mmuPc' = IF secondary THEN "done" ELSE "bss"
    /\ UNCHANGED <<addrSpace, entered, codeEa, r10, r16, r30, physbase_phys, cacheBlock>>

(* The boot core clears the BSS and sets cache_block_size in it.            *)
ClearBss ==
    /\ mmuPc = "bss"
    /\ cacheBlock' = "zero"
    /\ mmuPc' = "block_size"
    /\ UNCHANGED <<tlb1, addrSpace, entered, codeEa, r10, r16, r30, physbase_phys>>

SetCacheBlock ==
    /\ mmuPc = "block_size"
    /\ cacheBlock' = "set"
    /\ mmuPc' = "done"
    /\ UNCHANGED <<tlb1, addrSpace, entered, codeEa, r10, r16, r30, physbase_phys>>

MmuNext ==
    \/ EnterFromLoader \/ CalcEaPhysOff \/ FindEntry \/ ClearOthers \/ CopyToOtherSpace \/ SwitchSpace
    \/ InvalBoot \/ WriteFinal \/ JumpToLinked \/ InvalTemp \/ ClearBss \/ SetCacheBlock

MmuSpec == MmuInit /\ [][MmuNext]_mmuVars

-----------------------------------------------------------------------------

(* The temporary entry, the one after the loader's, is the final one or     *)
(* past the last.                                                           *)
Cramped == r10 + 1 \in {BaseTlbEntry, NEntries}

(* Until the C entry the code never loses its mapping nor gets a second     *)
(* one: its address hits one entry, which leads to where the code is.  In   *)
(* the end only the final mapping is left and physbase_phys tells where it  *)
(* leads.  Not so when the loader's entry is next to BASE_TLB_ENTRY or the  *)
(* last (head.S:252) or when its TSIZE is odd (head.S:186).                 *)
CodeMapped ==
    Cramped \/ oddSize \/ mmuPc = "reset" \/
      /\ \E i \in Entry : /\ Hits(addrSpace, codeEa) = {i}
                          /\ tlb1[i].pa + codeEa - tlb1[i].ea = codePa
      /\ mmuPc = "done" =>
           /\ {i \in Entry : tlb1[i].valid} = {BaseTlbEntry}
           /\ physbase_phys = tlb1[BaseTlbEntry].pa
           /\ secondary \/ cacheBlock = "set"
=============================================================================
