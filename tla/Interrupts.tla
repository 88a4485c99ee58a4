----------------------------- MODULE Interrupts ------------------------------
(***************************************************************************)
(* lib/interrupts.c and the error interrupts of lib/mpic.c: devices that   *)
(* share one interrupt source, their parent, delivered as a machine check, *)
(* and have a bit each in its summary register (EISR0) and its mask        *)
(* register (EIMR0).  Threads register handlers, mask and unmask; the      *)
(* machine check comes to one core, Dest, between any two steps of its     *)
(* thread unless that has machine checks disabled.                         *)
(*                                                                         *)
(* The device's handler is the client's.  It does what mpic.c asks of it:  *)
(* it masks its interrupt; a thread serves the device later and unmasks.   *)
(***************************************************************************)
EXTENDS Integers, FiniteSets

CONSTANTS
    Cpu,        \* the cores
    Dest,       \* the core that the parent interrupts
    Sub,        \* the error interrupts
    MaxCalls,   \* bound: the calls threads make, in all
    MaxRaised   \* bound: the errors raised, in all

Free == "free"

ASSUME CpuAssumption == IsFiniteSet(Cpu) /\ Free \notin Cpu
ASSUME DestAssumption == Dest \in Cpu
ASSUME SubAssumption == Sub # {}

Context == (Cpu \X {"thread"}) \cup {<<Dest, "mchk">>}

VARIABLES
    pc,             \* per context: where it is
    fn,             \* per context: the call it makes
    sub,            \* per context: the interrupt it is about
    first,          \* per context: error_int_register: no action was there
    tmp,            \* per context: the value of EIMR0 read
    val,            \* error_int_handler: val
    lock,           \* per interrupt: irq->lock
    error_int_lock,
    maskcnt,        \* per interrupt: irq->maskcnt
    eimr,           \* EIMR0: the interrupts masked
    actions,        \* per interrupt: how many handlers are linked
    parent_actions, \* the parent has a handler
    parent_on,      \* the parent is unmasked in its vector/priority register
    raised,         \* the devices in error
    held, owed,     \* the client's masks: of threads, of handlers
    calls, errors,  \* calls made, errors raised
    nomem,          \* history: the parent's registration found no memory
    crossed         \* history: a machine check came while the interrupted
                    \* thread held error_int_lock

callVars == <<fn, sub, first, tmp>>
device == <<raised, errors>>
client == <<held, owed, calls>>
parent == <<parent_actions, parent_on, nomem>>
locks == <<lock, error_int_lock>>
vars == <<pc, callVars, val, locks, maskcnt, eimr, actions, parent, device, client, crossed>>

(* Every interrupt is masked once, by error_int_init.                      *)
Init ==
    /\ pc = [x \in Context |-> "idle"]
    /\ fn = [x \in Context |-> "none"]
    /\ sub \in [Context -> {CHOOSE s \in Sub : TRUE}]
    /\ first = [x \in Context |-> FALSE]
    /\ tmp = [x \in Context |-> {}]
    /\ val = {}
    /\ lock = [s \in Sub |-> Free] /\ error_int_lock = Free
    /\ maskcnt = [s \in Sub |-> 1] /\ eimr = Sub
    /\ actions = [s \in Sub |-> 0]
    /\ parent_actions = FALSE /\ parent_on = FALSE /\ nomem = FALSE
    /\ raised = {} /\ errors = 0
    /\ held = {} /\ owed = {} /\ calls = 0
    /\ crossed = FALSE

(* A thread is stopped while its core handles a machine check.             *)
At(x, l) == pc[x] = l /\ (x = <<Dest, "thread">> => pc[<<Dest, "mchk">>] = "idle")
Goto(x, l) == pc' = [pc EXCEPT ![x] = l]

-----------------------------------------------------------------------------
(* Devices and the threads' calls                                          *)

Raise(s) ==
    /\ s \notin raised /\ errors < MaxRaised
    /\ raised' = raised \cup {s} /\ errors' = errors + 1
    /\ UNCHANGED <<pc, callVars, val, locks, maskcnt, eimr, actions, parent, client, crossed>>

Called(x, f, s, l) ==
    /\ At(x, "idle") /\ x[2] = "thread" /\ calls < MaxCalls
    /\ calls' = calls + 1
    /\ fn' = [fn EXCEPT ![x] = f] /\ sub' = [sub EXCEPT ![x] = s]
    /\ Goto(x, l)
    /\ UNCHANGED <<first, tmp, val, locks, maskcnt, eimr, actions, parent, errors, crossed>>

Register(x, s) ==
    /\ actions[s] < 2
    /\ Called(x, "register", s, "r_lock")
    /\ UNCHANGED <<raised, held, owed>>

(* One thread at a time keeps an interrupt masked: it is held once the     *)
(* call is done.                                                           *)
Mask(x, s) ==
    /\ actions[s] > 0 /\ s \notin held
    /\ \A y \in Context : ~(pc[y] # "idle" /\ y[2] = "thread" /\ fn[y] = "mask" /\ sub[y] = s)
    /\ Called(x, "mask", s, "m_lock")
    /\ UNCHANGED <<raised, held, owed>>

Unmask(x, s) ==
    /\ s \in held
    /\ held' = held \ {s}
    /\ Called(x, "unmask", s, "m_lock")
    /\ UNCHANGED <<raised, owed>>

(* The device is served and its interrupt unmasked.                        *)
Serve(x, s) ==
    /\ s \in owed
    /\ owed' = owed \ {s} /\ raised' = raised \ {s}
    /\ Called(x, "unmask", s, "m_lock")
    /\ UNCHANGED held

Call(x) == \E s \in Sub : Register(x, s) \/ Mask(x, s) \/ Unmask(x, s) \/ Serve(x, s)

-----------------------------------------------------------------------------
(* interrupt_mask and interrupt_unmask, with error_int_mask and            *)
(* error_int_unmask.  From m_lock to m_unlock machine checks are disabled. *)

(* Mutant: interrupt_mask and interrupt_unmask with intsave for mchksave.  *)
MchkDisabledInErrorOps == {"e_lock", "e_read", "e_write", "e_unlock"}

MchkDisabled == {"m_lock", "m_body", "e_lock", "e_read", "e_write", "e_unlock", "m_unlock"}

IrqLock(x) ==
    /\ At(x, "m_lock") /\ lock[sub[x]] = Free
    /\ lock' = [lock EXCEPT ![sub[x]] = x[1]]
    /\ Goto(x, "m_body")
    /\ UNCHANGED <<callVars, val, error_int_lock, maskcnt, eimr, actions, parent, device, client, crossed>>

(* The first mask and the last unmask reach the register.                  *)
Count(x) ==
    /\ At(x, "m_body")
    /\ maskcnt' = [maskcnt EXCEPT ![sub[x]] = IF fn[x] = "mask" THEN @ + 1 ELSE @ - 1]
    /\ Goto(x, IF 0 \in {maskcnt[sub[x]], maskcnt'[sub[x]]} THEN "e_lock" ELSE "m_unlock")
    /\ UNCHANGED <<callVars, val, locks, eimr, actions, parent, device, client, crossed>>

(* Mutant: error_int_mask without error_int_lock.                          *)
ErrorLockNever(x) ==
    /\ At(x, "e_lock")
    /\ Goto(x, "e_read")
    /\ UNCHANGED <<callVars, val, locks, maskcnt, eimr, actions, parent, device, client, crossed>>

ErrorLock(x) ==
    /\ At(x, "e_lock") /\ error_int_lock = Free
    /\ error_int_lock' = x[1]
    /\ Goto(x, "e_read")
    /\ UNCHANGED <<callVars, val, lock, maskcnt, eimr, actions, parent, device, client, crossed>>

ReadEIMR(x) ==
    /\ At(x, "e_read")
    /\ tmp' = [tmp EXCEPT ![x] = eimr]
    /\ Goto(x, "e_write")
    /\ UNCHANGED <<fn, sub, first, val, locks, maskcnt, eimr, actions, parent, device, client, crossed>>

WriteEIMR(x) ==
    /\ At(x, "e_write")
    /\ eimr' = IF fn[x] = "mask" THEN tmp[x] \cup {sub[x]} ELSE tmp[x] \ {sub[x]}
    /\ Goto(x, "e_unlock")
    /\ UNCHANGED <<callVars, val, locks, maskcnt, actions, parent, device, client, crossed>>

ErrorUnlock(x) ==
    /\ At(x, "e_unlock")
    /\ error_int_lock' = Free
    /\ Goto(x, "m_unlock")
    /\ UNCHANGED <<callVars, val, lock, maskcnt, eimr, actions, parent, device, client, crossed>>

(* The thread's call, or the handler's, is done.                           *)
IrqUnlock(x) ==
    /\ At(x, "m_unlock")
    /\ lock' = [lock EXCEPT ![sub[x]] = Free]
    /\ Goto(x, IF x[2] = "mchk" THEN "h_next" ELSE "idle")
    /\ owed' = IF x[2] = "mchk" THEN owed \cup {sub[x]} ELSE owed
    /\ held' = IF x[2] = "thread" /\ fn[x] = "mask" THEN held \cup {sub[x]} ELSE held
    /\ UNCHANGED <<callVars, val, error_int_lock, maskcnt, eimr, actions, parent, device,
                   calls, crossed>>

-----------------------------------------------------------------------------
(* error_int_register: under error_int_lock, machine checks enabled        *)

RegisterLock(x) ==
    /\ At(x, "r_lock") /\ error_int_lock = Free
    /\ error_int_lock' = x[1]
    /\ Goto(x, "r_parent")
    /\ UNCHANGED <<callVars, val, lock, maskcnt, eimr, actions, parent, device, client, crossed>>

(* mpic_register of the parent, whose ERR_NOMEM nobody looks at, ...       *)
RegisterParent(x) ==
    /\ At(x, "r_parent")
    /\ \/ parent_actions /\ Goto(x, "r_link") /\ UNCHANGED <<parent_actions, nomem>>
       \/ ~parent_actions /\ nomem' = TRUE /\ Goto(x, "r_link") /\ UNCHANGED parent_actions
       \/ ~parent_actions /\ parent_actions' = TRUE /\ Goto(x, "r_enable") /\ UNCHANGED nomem
    /\ UNCHANGED <<callVars, val, locks, maskcnt, eimr, actions, parent_on, device, client, crossed>>

(* ... which unmasks the source after its handler is linked.               *)
EnableParent(x) ==
    /\ At(x, "r_enable")
    /\ parent_on' = TRUE
    /\ Goto(x, "r_link")
    /\ UNCHANGED <<callVars, val, locks, maskcnt, eimr, actions, parent_actions, nomem,
                   device, client, crossed>>

(* The action is linked, or there is no memory for one.                    *)
LinkAction(x) ==
    /\ At(x, "r_link")
    /\ \/ /\ actions' = [actions EXCEPT ![sub[x]] = @ + 1]
          /\ first' = [first EXCEPT ![x] = actions[sub[x]] = 0]
       \/ first' = [first EXCEPT ![x] = FALSE] /\ UNCHANGED actions
    /\ Goto(x, "r_unlock")
    /\ UNCHANGED <<fn, sub, tmp, val, locks, maskcnt, eimr, parent, device, client, crossed>>

(* Mutant: no handler unmasks it.                                          *)
RegisterLeavesMasked(x) ==
    /\ At(x, "r_unlock")
    /\ error_int_lock' = Free
    /\ Goto(x, "idle")
    /\ UNCHANGED <<callVars, val, lock, maskcnt, eimr, actions, parent, device, client, crossed>>

(* Only the first handler of an interrupt unmasks it.                      *)
RegisterUnlock(x) ==
    /\ At(x, "r_unlock")
    /\ error_int_lock' = Free
    /\ fn' = [fn EXCEPT ![x] = IF first[x] THEN "unmask" ELSE @]
    /\ Goto(x, IF first[x] THEN "m_lock" ELSE "idle")
    /\ UNCHANGED <<sub, first, tmp, val, lock, maskcnt, eimr, actions, parent, device,
                   client, crossed>>

-----------------------------------------------------------------------------
(* The machine check: do_mpic_mcheck and error_int_handler                 *)

mchk == <<Dest, "mchk">>
Pending == IF parent_on THEN raised \ eimr ELSE {}

Deliver ==
    /\ pc[mchk] = "idle" /\ Pending # {}
    /\ pc[<<Dest, "thread">>] \notin MchkDisabled
    /\ Goto(mchk, "h_loop")
    /\ crossed' = (crossed \/ error_int_lock = Dest)
    /\ UNCHANGED <<callVars, val, locks, maskcnt, eimr, actions, parent, device, client>>

(* Nothing is pending any more: the handler returns.                       *)
HandlerReturn ==
    /\ pc[mchk] = "h_loop" /\ Pending = {}
    /\ Goto(mchk, "idle")
    /\ UNCHANGED <<callVars, val, locks, maskcnt, eimr, actions, parent, device, client, crossed>>

ReadEISR ==
    /\ pc[mchk] = "h_loop" /\ Pending # {}
    /\ val' = Pending
    /\ Goto(mchk, "h_next")
    /\ UNCHANGED <<callVars, locks, maskcnt, eimr, actions, parent, device, client, crossed>>

(* The device's handler is called; it masks the device's interrupt.        *)
CallHandler ==
    /\ pc[mchk] = "h_next"
    /\ \/ \E s \in val :
             /\ val' = val \ {s}
             /\ fn' = [fn EXCEPT ![mchk] = "mask"] /\ sub' = [sub EXCEPT ![mchk] = s]
             /\ Goto(mchk, "m_lock")
       \/ val = {} /\ Goto(mchk, "h_loop") /\ UNCHANGED <<val, fn, sub>>
    /\ UNCHANGED <<first, tmp, locks, maskcnt, eimr, actions, parent, device, client, crossed>>

Handler == Deliver \/ HandlerReturn \/ ReadEISR \/ CallHandler

Step(x) ==
    \/ IrqLock(x) \/ Count(x) \/ ErrorLock(x) \/ ReadEIMR(x) \/ WriteEIMR(x)
    \/ ErrorUnlock(x) \/ IrqUnlock(x)
    \/ RegisterLock(x) \/ RegisterParent(x) \/ EnableParent(x) \/ LinkAction(x)
    \/ RegisterUnlock(x)

Next ==
    \/ \E s \in Sub : Raise(s)
    \/ \E x \in Context : Call(x) \/ Step(x)
    \/ Handler

Spec == Init /\ [][Next]_vars /\ (\A x \in Context : WF_vars(Step(x))) /\ WF_vars(Handler)

-----------------------------------------------------------------------------
(* Properties                                                              *)

(* The count never goes below zero, which interrupt_unmask asserts.        *)
TypeOK ==
    /\ maskcnt \in [Sub -> Nat] /\ actions \in [Sub -> Nat]
    /\ eimr \subseteq Sub /\ raised \subseteq Sub /\ val \subseteq Sub
    /\ lock \in [Sub -> Cpu \cup {Free}] /\ error_int_lock \in Cpu \cup {Free}
    /\ sub \in [Context -> Sub]
    /\ {parent_actions, parent_on} \subseteq BOOLEAN

(* An interrupt nobody is changing is masked in EIMR0 exactly when its     *)
(* count is positive: neither a mask on one core and an unmask on another, *)
(* nor changes of two devices' bits, get lost.                             *)
MaskExact == \A s \in Sub : lock[s] = Free => (s \in eimr <=> maskcnt[s] > 0)

(* A device's interrupt is dispatched only when it has a handler: the      *)
(* assertion of call_irq_handler.  The first handler is linked before the  *)
(* interrupt is unmasked, and the parent's before its source is.           *)
HandlerThere ==
    /\ \A s \in val : actions[s] > 0
    /\ pc[mchk] # "idle" => parent_actions

WaitsForItself(x) ==
    \/ At(x, "m_lock") /\ lock[sub[x]] = x[1]
    \/ (At(x, "e_lock") \/ At(x, "r_lock")) /\ error_int_lock = x[1]

(* A core never takes a lock that it holds.                                *)
NoRecursiveLock == \A x \in Context : ~WaitsForItself(x)

(* It is so as long as no machine check interrupts error_int_register.     *)
NoRecursiveLockElsewhere == crossed \/ NoRecursiveLock

(* A device in error whose handler is registered is masked by it or served *)
(* by a thread, unless the parent's registration failed or a machine check *)
(* interrupted error_int_register.                                         *)
ErrorsHandled ==
    \A s \in Sub : (s \in raised /\ actions[s] > 0 /\ s \notin held)
                      ~> (s \in owed \cup held \/ s \notin raised \/ nomem \/ crossed)

(* An interrupt is masked as its count says, and unmasked only once there   *)
(* is a handler for it (interrupts.c:36-54, mpic.c:541-572).                *)
MaskSound == TypeOK /\ MaskExact /\ HandlerThere
=============================================================================
