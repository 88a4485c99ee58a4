--------------------------------- MODULE Mpic ---------------------------------
(* lib/mpic.c: the vector/priority register of each source, which every     *)
(* operation reads, changes and writes back under mpic_lock, the handlers   *)
(* linked to it and the mask count that interrupts.c keeps beside it.       *)
(* Cores call the operations of int_ops_t at the same time.                 *)
EXTENDS Integers, FiniteSets

CONSTANTS
    MpCpu,      \* the cores
    Source,     \* the sources that mpic_init reaches
    MaxOps      \* bound: the calls, in all

ASSUME MpCpuAssumption == IsFiniteSet(MpCpu) /\ "unlocked" \notin MpCpu

VARIABLES
    vecpri,         \* per source: msk, config, priority, vector
    intlevel, destcpu,
    active,         \* the sources requested or in service
    ctpr,           \* MPIC_CTPR of the boot core
    mpic_lock,
    irqLock, maskCount, linked,     \* irq->lock, ->maskcnt, length of ->actions
    config_done,
    mpPc, mpCall,   \* per core: the step to come, the call
    mpTmp,          \* per core: vecpri as read
    mpOps,          \* the calls so far
    want,           \* history: per source, what was last written to vecpri
    bypassed        \* history: sources unmasked past their mask count

irqVars == <<irqLock, maskCount, linked, config_done>>
regVars == <<vecpri, intlevel, destcpu, active, ctpr>>
histVars == <<want, bypassed>>
mpicVars == <<regVars, mpic_lock, irqVars, mpPc, mpCall, mpTmp, mpOps, histVars>>

Unlocked == "unlocked"
Field == {"msk", "config", "priority", "vector"}
Undefined == [f \in Field |-> 0]
NoOp == [fn |-> "none", src |-> "none", field |-> "none", value |-> 0]

MpicInit ==
    /\ vecpri = [s \in Source |-> Undefined] /\ want = vecpri
    /\ intlevel = [s \in Source |-> 0] /\ destcpu = [s \in Source |-> 0]
    /\ active = {} /\ ctpr = -1 /\ mpic_lock = Unlocked
    /\ irqLock = [s \in Source |-> Unlocked]
    /\ maskCount = [s \in Source |-> 0] /\ linked = maskCount
    /\ config_done = {}
    /\ mpPc = [c \in MpCpu |-> "idle"] /\ mpCall = [c \in MpCpu |-> NoOp]
    /\ mpTmp = [c \in MpCpu |-> Undefined] /\ mpOps = 0
    /\ bypassed = {}

MpGoto(c, l) == mpPc' = [mpPc EXCEPT ![c] = l]
Src(c) == mpCall[c].src

(* Every source is masked, once by its count, low in priority and sent to   *)
(* the boot core; what was in service is acknowledged and ended.            *)
mpic_init ==
    /\ ctpr = -1
    /\ vecpri' = [s \in Source |-> [f \in Field |-> IF f = "priority" THEN 0 ELSE 1]]
    /\ want' = vecpri'
    /\ destcpu' = [s \in Source |-> 1]
    /\ maskCount' = [s \in Source |-> 1]
    /\ active' = {} /\ ctpr' = 0
    /\ UNCHANGED <<intlevel, mpic_lock, irqLock, linked, config_done, mpPc, mpCall, mpTmp,
                   mpOps, bypassed>>

(* A device asks for service; the handlers have served it.                  *)
RaiseSource(s) ==
    /\ ctpr = 0 /\ s \notin active
    /\ active' = active \cup {s}
    /\ UNCHANGED <<vecpri, intlevel, destcpu, ctpr, mpic_lock, irqVars, mpPc, mpCall,
                   mpTmp, mpOps, histVars>>

(* do_mpic_critint and the external interrupt: call_irq_handler asserts an  *)
(* action.                                                                  *)
Serviced(s) ==
    /\ s \in active /\ vecpri[s]["msk"] = 0 /\ linked[s] > 0
    /\ active' = active \ {s}
    /\ UNCHANGED <<vecpri, intlevel, destcpu, ctpr, mpic_lock, irqVars, mpPc, mpCall,
                   mpTmp, mpOps, histVars>>

CallOf(c, op, start) ==
    /\ mpPc[c] = "idle" /\ ctpr = 0 /\ mpOps < MaxOps
    /\ mpOps' = mpOps + 1
    /\ mpCall' = [mpCall EXCEPT ![c] = op]
    /\ MpGoto(c, start)
    /\ UNCHANGED <<regVars, mpic_lock, irqVars, mpTmp, histVars>>

-----------------------------------------------------------------------------
(* The change of one field, under mpic_lock with interrupts off; callers    *)
(* wait at "read".                                                          *)

(* Mutant: the register is read before the lock is taken.                   *)
ReadVprUnlocked(c) ==
    /\ mpPc[c] = "read"
    /\ mpTmp' = [mpTmp EXCEPT ![c] = vecpri[Src(c)]]
    /\ MpGoto(c, "write")
    /\ UNCHANGED <<regVars, mpic_lock, irqVars, mpCall, mpOps, histVars>>

ReadVpr(c) ==
    /\ mpPc[c] = "read" /\ mpic_lock = Unlocked
    /\ mpic_lock' = c
    /\ mpTmp' = [mpTmp EXCEPT ![c] = vecpri[Src(c)]]
    /\ MpGoto(c, "write")
    /\ UNCHANGED <<regVars, irqVars, mpCall, mpOps, histVars>>

Changed(v, op) == [v EXCEPT ![op.field] = op.value]

(* Where the caller goes on.                                                *)
AfterWrite(c) == IF mpCall[c].fn \in {"mask", "unmask"} THEN "uncount" ELSE "idle"

WriteVpr(c) ==
    LET s == Src(c)
        op == mpCall[c]
    IN /\ mpPc[c] = "write"
       /\ vecpri' = [vecpri EXCEPT ![s] = Changed(mpTmp[c], op)]
       /\ want' = [want EXCEPT ![s] = Changed(want[s], op)]
       /\ config_done' = IF op.fn = "get" THEN config_done \cup {s} ELSE config_done
       /\ bypassed' = IF op.fn = "register" /\ maskCount[s] > 0 THEN bypassed \cup {s}
                      ELSE bypassed
       /\ mpic_lock' = Unlocked
       /\ MpGoto(c, AfterWrite(c))
       /\ UNCHANGED <<intlevel, destcpu, active, ctpr, irqLock, maskCount, linked, mpCall,
                      mpTmp, mpOps>>

(* mpic_irq_set_priority and mpic_irq_set_config refuse an active source,   *)
(* which they look at before they take the lock; mpic_irq_set_vector does   *)
(* not.                                                                     *)
SetField(c, s, field, value) ==
    /\ field = "vector" \/ s \notin active
    /\ CallOf(c, [fn |-> "set", src |-> s, field |-> field, value |-> value], "read")

(* mpic_irq_set_destcpu: one store, to a source that is not active.         *)
set_destcpu(c, s) ==
    /\ mpPc[c] = "idle" /\ ctpr = 0 /\ mpOps < MaxOps /\ s \notin active
    /\ destcpu' = [destcpu EXCEPT ![s] = 2]
    /\ mpOps' = mpOps + 1
    /\ UNCHANGED <<vecpri, intlevel, active, ctpr, mpic_lock, irqVars, mpPc, mpCall, mpTmp, histVars>>

-----------------------------------------------------------------------------
(* get_mpic_irq                                                             *)

(* The source is configured by whoever asks for it, or for one of its error *)
(* interrupts, first.                                                       *)
get_mpic_irq(c, s, config) ==
    CallOf(c, [fn |-> "get", src |-> s, field |-> "config", value |-> config], "config")

(* It looks at config_done under mpic_lock.                                 *)
FirstConfig(c) ==
    /\ mpPc[c] = "config" /\ mpic_lock = Unlocked
    /\ IF Src(c) \in config_done
       THEN MpGoto(c, "idle") /\ UNCHANGED <<mpic_lock, mpTmp>>
       ELSE /\ mpic_lock' = c
            /\ mpTmp' = [mpTmp EXCEPT ![c] = vecpri[Src(c)]]
            /\ MpGoto(c, "write")
    /\ UNCHANGED <<regVars, irqVars, mpCall, mpOps, histVars>>

-----------------------------------------------------------------------------
(* mpic_register                                                            *)

mpic_register(c, s, type) ==
    /\ linked[s] < 2
    /\ CallOf(c, [fn |-> "register", src |-> s, field |-> "msk", value |-> type], "link")

(* The action is linked under mpic_lock, or there was no memory for it.     *)
LinkHandler(c) ==
    /\ mpPc[c] = "link"
    /\ \/ /\ mpic_lock = Unlocked
          /\ linked' = [linked EXCEPT ![Src(c)] = @ + 1]
          /\ MpGoto(c, "deliver")
       \/ MpGoto(c, "idle") /\ UNCHANGED linked
    /\ UNCHANGED <<regVars, mpic_lock, irqLock, maskCount, config_done, mpCall,
                   mpTmp, mpOps, histVars>>

(* Nobody looks at the ERR_INVALID of mpic_irq_set_delivery_type; then the  *)
(* source is unmasked, whatever its count.                                  *)
SetDelivery(c) ==
    /\ mpPc[c] = "deliver"
    /\ intlevel' = IF Src(c) \in active THEN intlevel
                   ELSE [intlevel EXCEPT ![Src(c)] = mpCall[c].value]
    /\ mpCall' = [mpCall EXCEPT ![c].value = 0]
    /\ MpGoto(c, "read")
    /\ UNCHANGED <<vecpri, destcpu, active, ctpr, mpic_lock, irqVars, mpTmp, mpOps,
                   histVars>>

-----------------------------------------------------------------------------
(* interrupt_mask and interrupt_unmask on a source with a handler           *)

MaskOrUnmask(c, s, fn) ==
    /\ linked[s] > 0
    /\ fn = "unmask" => maskCount[s] > Cardinality({d \in MpCpu : mpCall[d].fn = "unmask" /\ mpPc[d] # "idle"})
    /\ CallOf(c, [fn |-> fn, src |-> s, field |-> "msk", value |-> IF fn = "mask" THEN 1 ELSE 0], "count")

(* The first mask and the last unmask reach the register.                   *)
CountMask(c) ==
    LET s == Src(c)
    IN /\ mpPc[c] = "count" /\ irqLock[s] = Unlocked
       /\ irqLock' = [irqLock EXCEPT ![s] = c]
       /\ maskCount' = [maskCount EXCEPT ![s] = IF mpCall[c].fn = "mask" THEN @ + 1 ELSE @ - 1]
       /\ bypassed' = IF maskCount'[s] = 0 THEN bypassed \ {s} ELSE bypassed
       /\ MpGoto(c, IF 0 \in {maskCount[s], maskCount'[s]} THEN "read" ELSE "uncount")
       /\ UNCHANGED <<regVars, mpic_lock, linked, config_done, mpCall, mpTmp,
                      mpOps, want>>

UncountMask(c) ==
    /\ mpPc[c] = "uncount"
    /\ irqLock' = [irqLock EXCEPT ![Src(c)] = Unlocked]
    /\ MpGoto(c, "idle")
    /\ UNCHANGED <<regVars, mpic_lock, maskCount, linked, config_done, mpCall,
                   mpTmp, mpOps, histVars>>

-----------------------------------------------------------------------------

MpicStep(c) ==
    \/ ReadVpr(c) \/ WriteVpr(c) \/ FirstConfig(c) \/ LinkHandler(c) \/ SetDelivery(c)
    \/ CountMask(c) \/ UncountMask(c)

MpicCalls(c) ==
    \E s \in Source :
      \/ SetField(c, s, "priority", 7) \/ SetField(c, s, "vector", 9) \/ SetField(c, s, "config", 2)
      \/ set_destcpu(c, s)
      \/ \E config \in {0, 3} : get_mpic_irq(c, s, config)
      \/ \E type \in {0, 1} : mpic_register(c, s, type)
      \/ \E fn \in {"mask", "unmask"} : MaskOrUnmask(c, s, fn)

MpicNext ==
    \/ mpic_init
    \/ \E s \in Source : RaiseSource(s) \/ Serviced(s)
    \/ \E c \in MpCpu : MpicStep(c) \/ MpicCalls(c)

-----------------------------------------------------------------------------

(* No change of a field is undone by a concurrent change of another; a      *)
(* source is unmasked only while a handler is linked; and it is masked      *)
(* exactly when its count is positive, except that mpic_register unmasks it *)
(* past the count until that is next 0 (mpic.c:344).                        *)
MpicSound ==
    ctpr = 0 => \A s \in Source :
      /\ vecpri[s] = want[s]
      /\ vecpri[s]["msk"] = 0 => linked[s] > 0
      /\ irqLock[s] = Unlocked => (vecpri[s]["msk"] = 1 <=> maskCount[s] > 0) \/ s \in bypassed
=============================================================================
