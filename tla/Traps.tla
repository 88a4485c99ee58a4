--------------------------------- MODULE Traps --------------------------------
(* The exception entry and return of lib/exceptions.S on one core: four     *)
(* levels, each with its save area, its save/restore registers and, above   *)
(* the normal one, its one stack.  A trap comes between any two steps that  *)
(* its enable bit allows.  What the core clears on taking one is external.  *)
(* A context is named by a number: 0 is the thread, k the k-th trap.        *)
EXTENDS Integers, Sequences, SequencesExt, FiniteSetsExt

CONSTANT MaxTraps   \* bound: the traps, in all

ASSUME TrapAssumption == MaxTraps \in Nat

Normal == 1
Crit == 2
Mcheck == 3
Debug == 4
Level == {Normal, Crit, Mcheck, Debug}

VARIABLES
    traps,      \* the traps under way, the last one runs
    msr,        \* the enable bits that are set
    regs,       \* whose values are in the general registers
    savearea,   \* per level: whose r0, r1 and SPRG0 register are saved
    srr,        \* per level: where to return to, and with which bits
    frame,      \* per frame: what the trap saved of the interrupted context
    traplevel,  \* cpu->traplevel
    taken,      \* traps so far
    refault     \* history: a fault in a handler above the normal level, with a
                \* normal trap not yet, or no more, in its frame

trapVars == <<traps, msr, regs, savearea, srr, frame, traplevel, taken, refault>>

NoFrame == [gpr |-> 0, pc |-> 0, msr |-> {}, tl |-> 0]
EnableBit == <<"EE", "CE", "ME", "DE">>
Cleared == <<{"EE"}, {"EE", "CE"}, {"EE", "CE", "ME", "DE"}, {"EE", "CE", "DE"}>>

TrapInit ==
    /\ traps = <<>> /\ msr = {"EE", "CE", "ME", "DE"} /\ regs = 0
    /\ savearea = [l \in Level |-> 0]
    /\ srr = [l \in Level |-> [pc |-> 0, msr |-> {}]]
    /\ frame = [k \in 2 .. Debug + MaxTraps |-> NoFrame]
    /\ traplevel = 0 /\ taken = 0 /\ refault = FALSE

Running == IF traps = <<>> THEN 0 ELSE Last(traps).id

(* The steps at which a trap's state is in its level's registers only.      *)
Exposed == {"save", "frame", "relevel", "rfi"}

Take(level, sync) ==
    /\ taken < MaxTraps
    /\ taken' = taken + 1
    /\ traps' = Append(traps, [id |-> taken', level |-> level, sync |-> sync,
                               step |-> "save", from |-> Running, bits |-> msr,
                               owner |-> regs])
    /\ srr' = [srr EXCEPT ![level] = [pc |-> Running, msr |-> msr]]
    /\ msr' = msr \ Cleared[level]
    /\ UNCHANGED <<regs, savearea, frame, traplevel>>

Interrupt == \E l \in Level : EnableBit[l] \in msr /\ Take(l, FALSE) /\ UNCHANGED refault

(* A fault of the thread or of a handler: a storage exception, a program    *)
(* check, a system call.  The entry and return code do not fault.           *)
Fault ==
    /\ traps # <<>> => Last(traps).step = "body"
    /\ Take(Normal, TRUE)
    /\ refault' = (refault \/ \E i \in DOMAIN traps : traps[i].level = Normal /\ traps[i].step \in Exposed)

(* One step of the running trap, which then has step l to do.               *)
InStep(l) == traps # <<>> /\ Last(traps).step = l
Me == Last(traps)
ToStep(l) == traps' = [traps EXCEPT ![Len(traps)].step = l]

(* Each trap above the normal level has the one frame on its level's stack, *)
(* normal ones are on the stack they interrupt.                             *)
MyFrame == IF Me.level = Normal THEN Debug + Me.id ELSE Me.level

SaveRegs ==
    /\ InStep("save")
    /\ savearea' = [savearea EXCEPT ![Me.level] = regs]
    /\ regs' = Me.id
    /\ ToStep("frame")
    /\ UNCHANGED <<msr, srr, frame, traplevel, taken, refault>>

FillFrame ==
    /\ InStep("frame")
    /\ frame' = [frame EXCEPT ![MyFrame] = [gpr |-> savearea[Me.level], pc |-> srr[Me.level].pc,
                                            msr |-> srr[Me.level].msr, tl |-> traplevel]]
    /\ ToStep("level")
    /\ UNCHANGED <<msr, regs, savearea, srr, traplevel, taken, refault>>

(* Mutant: the level is set although a higher one is under way.             *)
SetTrapLevelAlways ==
    /\ InStep("level")
    /\ traplevel' = Me.level
    /\ ToStep("keepee")
    /\ UNCHANGED <<msr, regs, savearea, srr, frame, taken, refault>>

(* The level only goes up.                                                  *)
SetTrapLevel ==
    /\ InStep("level")
    /\ traplevel' = IF frame[MyFrame].tl > Me.level THEN traplevel ELSE Me.level
    /\ ToStep("keepee")
    /\ UNCHANGED <<msr, regs, savearea, srr, frame, taken, refault>>

(* keepee: a fault leaves external interrupts as they were.                 *)
KeepEE ==
    /\ InStep("keepee")
    /\ msr' = IF Me.sync THEN msr \cup ({"EE"} \cap frame[MyFrame].msr) ELSE msr
    /\ ToStep("body")
    /\ UNCHANGED <<regs, savearea, srr, frame, traplevel, taken, refault>>

HandlerReturns ==
    /\ InStep("body")
    /\ ToStep("disable")
    /\ UNCHANGED <<msr, regs, savearea, srr, frame, traplevel, taken, refault>>

(* basedisable, critdisable, mcdisable, debugdisable                        *)
Disabled == <<{"EE"}, {"EE", "CE"}, {"EE", "CE", "ME", "DE"}, {"EE", "CE", "DE"}>>

DisableBits ==
    /\ InStep("disable")
    /\ msr' = msr \ Disabled[Me.level]
    /\ ToStep("load")
    /\ UNCHANGED <<regs, savearea, srr, frame, traplevel, taken, refault>>

LoadSrr ==
    /\ InStep("load")
    /\ srr' = [srr EXCEPT ![Me.level] = [pc |-> frame[MyFrame].pc, msr |-> frame[MyFrame].msr]]
    /\ ToStep("relevel")
    /\ UNCHANGED <<msr, regs, savearea, frame, traplevel, taken, refault>>

RestoreTrapLevel ==
    /\ InStep("relevel")
    /\ traplevel' = frame[MyFrame].tl
    /\ regs' = frame[MyFrame].gpr
    /\ ToStep("rfi")
    /\ UNCHANGED <<msr, savearea, srr, frame, taken, refault>>

ReturnFromTrap ==
    /\ InStep("rfi")
    /\ msr' = srr[Me.level].msr
    /\ traps' = Front(traps)
    /\ UNCHANGED <<regs, savearea, srr, frame, traplevel, taken, refault>>

TrapNext ==
    \/ Interrupt \/ Fault
    \/ SaveRegs \/ FillFrame \/ SetTrapLevel \/ KeepEE \/ HandlerReturns
    \/ DisableBits \/ LoadSrr \/ RestoreTrapLevel \/ ReturnFromTrap

-----------------------------------------------------------------------------

(* However traps of the four levels nest, each returns to the context that  *)
(* it interrupted, with the registers and enable bits it had, and traplevel *)
(* is the highest level under way; unless a handler above the normal level  *)
(* faults while it interrupts a normal trap's entry or return (exceptions.S:*)
(* 104), whose save area and registers the fault takes.                     *)
TrapsReturn ==
    refault \/
      /\ InStep("rfi") => /\ srr[Me.level] = [pc |-> Me.from, msr |-> Me.bits]
                      /\ regs = Me.owner
      /\ traplevel = Max({0} \cup {traps[i].level : i \in
                            {j \in DOMAIN traps : traps[j].step \in
                               {"keepee", "body", "disable", "load", "relevel"}}})
=============================================================================
