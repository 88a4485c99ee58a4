-------------------------- MODULE InterruptsProofs ---------------------------
(***************************************************************************)
(* Proofs about Interrupts, for every finite set of cores, every set of    *)
(* error interrupts and any number of calls and errors.                    *)
(***************************************************************************)
EXTENDS Interrupts, FiniteSetTheorems, TLAPS

-----------------------------------------------------------------------------
(* The inductive invariant                                                 *)

Writing == {"e_lock", "e_read", "e_write"}
Inside == Writing \cup {"m_body", "e_unlock", "m_unlock"}
Masking == Inside \cup {"m_lock"}
InError == {"e_read", "e_write", "e_unlock", "r_parent", "r_enable", "r_link", "r_unlock"}
Registering == {"r_lock", "r_parent", "r_enable", "r_link", "r_unlock"}
InHandler == {"h_loop", "h_next"}
thr == <<Dest, "thread">>

Typed ==
    /\ pc \in [Context -> {"idle"} \cup Masking \cup Registering \cup InHandler]
    /\ fn \in [Context -> {"none", "register", "mask", "unmask"}]
    /\ sub \in [Context -> Sub] /\ first \in [Context -> BOOLEAN]
    /\ tmp \in [Context -> SUBSET Sub]
    /\ maskcnt \in [Sub -> Int] /\ actions \in [Sub -> Nat]
    /\ eimr \subseteq Sub /\ raised \subseteq Sub /\ val \subseteq Sub
    /\ held \subseteq Sub /\ owed \subseteq Sub
    /\ lock \in [Sub -> Cpu \cup {Free}] /\ error_int_lock \in Cpu \cup {Free}
    /\ parent_actions \in BOOLEAN /\ parent_on \in BOOLEAN /\ crossed \in BOOLEAN

(* Which call a context is in follows from where it is.                    *)
InCalls ==
    /\ \A x \in Context : pc[x] \in Masking => fn[x] \in {"mask", "unmask"}
    /\ \A x \in Context : pc[x] \in Registering => fn[x] = "register" /\ x # mchk
    /\ \A x \in Context : pc[x] \in InHandler => x = mchk
    /\ pc[mchk] \in Masking => fn[mchk] = "mask"

(* Each lock has the one holder whose core it names, or is free.           *)
IrqLocks ==
    /\ \A x \in Context : pc[x] \in Inside => lock[sub[x]] = x[1]
    /\ \A x, y \in Context :
         pc[x] \in Inside /\ pc[y] \in Inside /\ sub[x] = sub[y] => x = y
    /\ \A s \in Sub : lock[s] # Free => \E x \in Context : pc[x] \in Inside /\ sub[x] = s

ErrorLocks ==
    /\ \A x \in Context : pc[x] \in InError => error_int_lock = x[1]
    /\ \A x, y \in Context : pc[x] \in InError /\ pc[y] \in InError => x = y
    /\ error_int_lock # Free => \E x \in Context : pc[x] \in InError

(* EIMR0 says of an interrupt what its count says, except while the first  *)
(* mask or the last unmask is on its way there.                            *)
Behind(x) == IF fn[x] = "mask" THEN maskcnt[sub[x]] = 1 /\ sub[x] \notin eimr
             ELSE maskcnt[sub[x]] = 0 /\ sub[x] \in eimr

Registers ==
    /\ \A x \in Context : pc[x] = "e_write" => tmp[x] = eimr
    /\ \A x \in Context : pc[x] \in Writing => Behind(x)
    /\ \A s \in Sub : (\A x \in Context : pc[x] \in Writing => sub[x] # s)
                        => (s \in eimr <=> maskcnt[s] > 0)

(* The count of an interrupt is the number of those who are to unmask it:  *)
(* the first registration, the client that holds it or owes it, a context  *)
(* that has counted its mask or not yet its unmask.                        *)
Owes(x, s) ==
    /\ sub[x] = s
    /\ \/ pc[x] \in {"m_lock", "m_body"} /\ fn[x] = "unmask"
       \/ pc[x] \in Writing \cup {"e_unlock", "m_unlock"} /\ fn[x] = "mask"
       \/ pc[x] = "r_unlock" /\ first[x]

Token == {"init", "held", "owed", "at"} \X Context

Counts(t, s) ==
    \/ t = <<"init", mchk>> /\ actions[s] = 0
    \/ t = <<"held", mchk>> /\ s \in held
    \/ t = <<"owed", mchk>> /\ s \in owed
    \/ t[1] = "at" /\ Owes(t[2], s)

Tokens(s) == {t \in Token : Counts(t, s)}

Counted == \A s \in Sub : maskcnt[s] = Cardinality(Tokens(s))

(* The client's discipline; the handler's list of interrupts stays valid.  *)
Client ==
    /\ \A x \in Context : pc[x] \in Masking /\ fn[x] = "mask" /\ x # mchk => sub[x] \notin held
    /\ \A x, y \in Context :
         /\ pc[x] \in Masking /\ fn[x] = "mask" /\ x # mchk
         /\ pc[y] \in Masking /\ fn[y] = "mask" /\ y # mchk
         /\ sub[x] = sub[y]
         => x = y
    /\ pc[mchk] \in Masking => sub[mchk] \notin owed /\ sub[mchk] \notin val
    /\ \A s \in val : s \notin owed /\ actions[s] > 0

(* The parent has a handler before it can interrupt, and it interrupts its *)
(* core's thread where that lets it.                                       *)
Parent ==
    /\ parent_on => parent_actions
    /\ \A x \in Context : pc[x] = "r_enable" => parent_actions
    /\ pc[mchk] # "idle" => parent_actions
    /\ pc[mchk] # "idle" => pc[thr] \notin MchkDisabled /\ (pc[thr] \in InError => crossed)

IInv == /\ Typed /\ InCalls /\ IrqLocks /\ ErrorLocks
        /\ Registers /\ Counted /\ Client /\ Parent

-----------------------------------------------------------------------------
(* Facts about contexts                                                    *)

LEMMA Contexts ==
    /\ mchk \in Context /\ thr \in Context /\ thr # mchk
    /\ \A x \in Context :
         /\ x[1] \in Cpu /\ x[1] # Free
         /\ x[2] \in {"thread", "mchk"}
         /\ x[2] = "mchk" <=> x = mchk
         /\ x # mchk /\ x[1] = Dest => x = thr
    /\ mchk[1] = Dest /\ thr[1] = Dest
<1>1. mchk \in Context /\ thr \in Context /\ thr # mchk
  BY DestAssumption DEF Context, mchk, thr
<1>2. mchk[1] = Dest /\ thr[1] = Dest /\ mchk[2] = "mchk"
  BY DEF mchk, thr
<1>3. ASSUME NEW c \in Cpu
      PROVE  c # Free
  BY CpuAssumption
<1>4. ASSUME NEW x \in Context
      PROVE  /\ x[1] \in Cpu /\ x[1] # Free
             /\ x[2] \in {"thread", "mchk"}
             /\ x[2] = "mchk" <=> x = mchk
             /\ x # mchk /\ x[1] = Dest => x = thr
  <2>1. CASE x = mchk
    BY <2>1, <1>2, <1>3, DestAssumption
  <2>2. ASSUME NEW c \in Cpu, x = <<c, "thread">>
        PROVE  x[1] = c /\ x[2] = "thread" /\ x # mchk
    BY <2>2 DEF mchk
  <2>3. x = mchk \/ \E c \in Cpu : x = <<c, "thread">>
    BY DEF Context, mchk
  <2> QED BY <2>1, <2>2, <2>3, <1>3 DEF thr
<1> QED BY <1>1, <1>2, <1>4

LEMMA OneThread ==
    ASSUME NEW x \in Context, NEW y \in Context, x # mchk, y # mchk, x[1] = y[1]
    PROVE  x = y
<1>1. PICK c \in Cpu : x = <<c, "thread">>
  BY DEF Context, mchk
<1>2. PICK d \in Cpu : y = <<d, "thread">>
  BY DEF Context, mchk
<1> QED BY <1>1, <1>2

LEMMA TokenFinite == IsFiniteSet(Token) /\ \A s : IsFiniteSet(Tokens(s))
<1>1. IsFiniteSet(Cpu \X {"thread"})
  BY CpuAssumption, FS_Singleton, FS_Product
<1>2. IsFiniteSet(Context)
  BY <1>1, FS_AddElement DEF Context
<1>3. IsFiniteSet({"init", "held", "owed", "at"})
  <2>1. IsFiniteSet({"init"}) BY FS_Singleton
  <2>2. IsFiniteSet({"init"} \cup {"held"}) BY <2>1, FS_AddElement
  <2>3. IsFiniteSet(({"init"} \cup {"held"}) \cup {"owed"}) BY <2>2, FS_AddElement
  <2>4. IsFiniteSet((({"init"} \cup {"held"}) \cup {"owed"}) \cup {"at"}) BY <2>3, FS_AddElement
  <2>5. {"init", "held", "owed", "at"} = (({"init"} \cup {"held"}) \cup {"owed"}) \cup {"at"}
    OBVIOUS
  <2> QED BY <2>4, <2>5
<1>4. IsFiniteSet(Token)
  BY <1>2, <1>3, FS_Product DEF Token
<1>5. ASSUME NEW s PROVE IsFiniteSet(Tokens(s))
  <2>1. Tokens(s) \in SUBSET Token BY DEF Tokens
  <2> QED BY <1>4, <2>1, FS_Subset
<1> QED BY <1>4, <1>5

LEMMA InitHolds == Init => IInv
<1> SUFFICES ASSUME Init PROVE IInv
  OBVIOUS
<1> USE Contexts
<1>1. Typed
  <2>1. (CHOOSE s \in Sub : TRUE) \in Sub
    BY SubAssumption
  <2>2. first \in [Context -> BOOLEAN]
    BY Zenon DEF Init
  <2>3. lock \in [Sub -> Cpu \cup {Free}] /\ error_int_lock \in Cpu \cup {Free}
    BY DEF Init
  <2>4. sub \in [Context -> Sub]
    BY <2>1 DEF Init
  <2>5. tmp \in [Context -> SUBSET Sub] /\ fn \in [Context -> {"none", "register", "mask", "unmask"}]
    BY DEF Init
  <2>6. pc \in [Context -> {"idle"} \cup Masking \cup Registering \cup InHandler]
    BY DEF Init
  <2>7. maskcnt \in [Sub -> Int] /\ actions \in [Sub -> Nat]
    BY DEF Init
  <2> QED BY <2>2, <2>3, <2>4, <2>5, <2>6, <2>7 DEF Init, Typed
<1>2. InCalls /\ IrqLocks /\ ErrorLocks /\ Client /\ Parent
  BY SubAssumption DEF Init, InCalls, IrqLocks, ErrorLocks, Client, Parent, Masking, Inside, Writing,
     Registering, InHandler, InError, Free
<1>3. Registers
  BY DEF Init, Registers, Writing
<1>4. Counted
  <2> SUFFICES ASSUME NEW s \in Sub PROVE maskcnt[s] = Cardinality(Tokens(s))
    BY DEF Counted
  <2>1. Tokens(s) = {<<"init", mchk>>}
    BY DEF Init, Tokens, Token, Counts, Owes, Writing
  <2> QED BY <2>1, FS_Singleton DEF Init
<1> QED BY <1>1, <1>2, <1>3, <1>4 DEF IInv

-----------------------------------------------------------------------------
(* Every step preserves the invariant                                      *)

LEMMA StepTyped == IInv /\ [Next]_vars => Typed'
<1> SUFFICES ASSUME IInv, [Next]_vars PROVE Typed'
  OBVIOUS
<1> USE Contexts DEF IInv, Typed, Masking, Inside, Writing, Registering, InHandler, Goto, At,
      callVars, device, client, parent, locks
<1>1. CASE UNCHANGED vars
  BY <1>1 DEF vars
<1>2. ASSUME NEW s \in Sub, Raise(s) PROVE Typed'
  BY <1>2 DEF Raise
<1>3. ASSUME NEW x \in Context, Call(x) PROVE Typed'
  BY <1>3 DEF Call, Called, Register, Mask, Unmask, Serve
<1>4. ASSUME NEW x \in Context, Step(x) PROVE Typed'
  <2>1. CASE IrqLock(x) \/ ErrorLock(x) \/ ErrorUnlock(x) \/ IrqUnlock(x)
    BY <2>1 DEF IrqLock, ErrorLock, ErrorUnlock, IrqUnlock
  <2>2. CASE Count(x) \/ ReadEIMR(x) \/ WriteEIMR(x)
    BY <2>2 DEF Count, ReadEIMR, WriteEIMR
  <2>3. CASE RegisterLock(x) \/ EnableParent(x)
    BY <2>3 DEF RegisterLock, EnableParent
  <2>4. CASE RegisterParent(x)
    BY <2>4 DEF RegisterParent
  <2>5. CASE LinkAction(x)
    <3>1. first' \in [Context -> BOOLEAN]
      <4>1. first' = [first EXCEPT ![x] = FALSE]
              \/ first' = [first EXCEPT ![x] = (actions[sub[x]] = 0)]
        BY <2>5, Zenon DEF LinkAction
      <4>2. (actions[sub[x]] = 0) \in BOOLEAN
        OBVIOUS
      <4> QED BY <4>1, <4>2, Zenon
    <3>2. actions' \in [Sub -> Nat]
      BY <2>5 DEF LinkAction
    <3>3. pc' \in [Context -> {"idle"} \cup Masking \cup Registering \cup InHandler]
      BY <2>5 DEF LinkAction
    <3> QED BY <2>5, <3>1, <3>2, <3>3 DEF LinkAction
  <2>6. CASE RegisterUnlock(x)
    BY <2>6 DEF RegisterUnlock
  <2> QED BY <1>4, <2>1, <2>2, <2>3, <2>4, <2>5, <2>6 DEF Step
<1>5. CASE Handler
  BY <1>5 DEF Handler, Deliver, HandlerReturn, ReadEISR, CallHandler, Pending
<1> QED BY <1>1, <1>2, <1>3, <1>4, <1>5 DEF Next

LEMMA StepInCalls == IInv /\ [Next]_vars => InCalls'
<1> SUFFICES ASSUME IInv, [Next]_vars PROVE InCalls'
  OBVIOUS
<1> USE Contexts DEF IInv, Typed, InCalls, Masking, Inside, Writing, Registering, InHandler,
      Goto, At
<1>1. CASE UNCHANGED vars
  BY <1>1 DEF vars, callVars
<1>2. ASSUME NEW s \in Sub, Raise(s) PROVE InCalls'
  BY <1>2 DEF Raise, callVars
<1>3. ASSUME NEW x \in Context, Call(x) PROVE InCalls'
  BY <1>3 DEF Call, Called, Register, Mask, Unmask, Serve
<1>4. ASSUME NEW x \in Context, Step(x) PROVE InCalls'
  <2>1. CASE IrqLock(x) \/ ErrorLock(x) \/ ErrorUnlock(x) \/ IrqUnlock(x)
    BY <2>1 DEF IrqLock, ErrorLock, ErrorUnlock, IrqUnlock, callVars
  <2>2. CASE Count(x) \/ ReadEIMR(x) \/ WriteEIMR(x)
    BY <2>2 DEF Count, ReadEIMR, WriteEIMR, callVars
  <2>3. CASE RegisterLock(x) \/ EnableParent(x) \/ RegisterParent(x) \/ LinkAction(x)
    BY <2>3 DEF RegisterLock, EnableParent, RegisterParent, LinkAction, callVars
  <2>4. CASE RegisterUnlock(x)
    BY <2>4 DEF RegisterUnlock
  <2> QED BY <1>4, <2>1, <2>2, <2>3, <2>4 DEF Step
<1>5. CASE Handler
  BY <1>5 DEF Handler, Deliver, HandlerReturn, ReadEISR, CallHandler, callVars
<1> QED BY <1>1, <1>2, <1>3, <1>4, <1>5 DEF Next

(* IrqLock and IrqUnlock move a context in and out; everything else leaves *)
(* the locks, and who is inside them, alone.                               *)
LEMMA StepIrqLocks == IInv /\ [Next]_vars => IrqLocks'
<1> SUFFICES ASSUME IInv, [Next]_vars PROVE IrqLocks'
  OBVIOUS
<1> USE Contexts DEF IInv, Typed, IrqLocks, Masking, Inside, Writing, Registering, InHandler,
      Goto, At
<1>1. ASSUME UNCHANGED <<lock, sub>>,
             \A x \in Context : pc'[x] \in Inside <=> pc[x] \in Inside
      PROVE  IrqLocks'
  BY <1>1
<1>2. CASE UNCHANGED vars
  BY <1>2 DEF vars, callVars, locks
<1>3. ASSUME NEW s \in Sub, Raise(s) PROVE IrqLocks'
  BY <1>3 DEF Raise, callVars, locks
<1>4. ASSUME NEW x \in Context, Call(x) PROVE IrqLocks'
  BY <1>4 DEF Call, Called, Register, Mask, Unmask, Serve, locks
<1>5. ASSUME NEW x \in Context, Step(x) PROVE IrqLocks'
  <2>1. CASE IrqLock(x)
    BY <2>1 DEF IrqLock, callVars
  <2>2. CASE IrqUnlock(x)
    BY <2>2 DEF IrqUnlock, callVars
  <2>3. CASE Count(x) \/ ErrorLock(x) \/ ReadEIMR(x) \/ WriteEIMR(x) \/ ErrorUnlock(x)
    BY <2>3, <1>1 DEF Count, ErrorLock, ReadEIMR, WriteEIMR, ErrorUnlock, callVars, locks
  <2>4. CASE \/ RegisterLock(x) \/ EnableParent(x) \/ RegisterParent(x)
             \/ LinkAction(x) \/ RegisterUnlock(x)
    BY <2>4, <1>1
    DEF RegisterLock, EnableParent, RegisterParent, LinkAction, RegisterUnlock, callVars, locks
  <2> QED BY <1>5, <2>1, <2>2, <2>3, <2>4 DEF Step
<1>6. CASE Deliver \/ HandlerReturn \/ ReadEISR
  BY <1>6, <1>1 DEF Deliver, HandlerReturn, ReadEISR, callVars, locks
<1>7. CASE CallHandler
  BY <1>7 DEF CallHandler, locks
<1> QED BY <1>2, <1>3, <1>4, <1>5, <1>6, <1>7 DEF Next, Handler

LEMMA StepErrorLocks == IInv /\ [Next]_vars => ErrorLocks'
<1> SUFFICES ASSUME IInv, [Next]_vars PROVE ErrorLocks'
  OBVIOUS
<1> USE Contexts DEF IInv, Typed, ErrorLocks, InError, Masking, Inside, Writing, Registering,
      InHandler, Goto, At
<1>1. ASSUME UNCHANGED error_int_lock,
             \A x \in Context : pc'[x] \in InError <=> pc[x] \in InError
      PROVE  ErrorLocks'
  BY <1>1
<1>2. CASE UNCHANGED vars
  BY <1>2 DEF vars, locks
<1>3. ASSUME NEW s \in Sub, Raise(s) PROVE ErrorLocks'
  BY <1>3 DEF Raise, locks
<1>4. ASSUME NEW x \in Context, Call(x) PROVE ErrorLocks'
  BY <1>4 DEF Call, Called, Register, Mask, Unmask, Serve, locks
<1>5. ASSUME NEW x \in Context, Step(x) PROVE ErrorLocks'
  <2>1. CASE ErrorLock(x) \/ RegisterLock(x)
    BY <2>1 DEF ErrorLock, RegisterLock
  <2>2. CASE ErrorUnlock(x) \/ RegisterUnlock(x)
    BY <2>2 DEF ErrorUnlock, RegisterUnlock
  <2>3. CASE IrqLock(x) \/ IrqUnlock(x) \/ Count(x) \/ ReadEIMR(x) \/ WriteEIMR(x)
    BY <2>3, <1>1 DEF IrqLock, IrqUnlock, Count, ReadEIMR, WriteEIMR, locks
  <2>4. CASE EnableParent(x) \/ RegisterParent(x) \/ LinkAction(x)
    BY <2>4, <1>1 DEF EnableParent, RegisterParent, LinkAction, locks
  <2> QED BY <1>5, <2>1, <2>2, <2>3, <2>4 DEF Step
<1>6. CASE Handler
  BY <1>6, <1>1 DEF Handler, Deliver, HandlerReturn, ReadEISR, CallHandler, locks
<1> QED BY <1>2, <1>3, <1>4, <1>5, <1>6 DEF Next

LEMMA TokenOf ==
    ASSUME Typed, Counted, NEW s \in Sub
    PROVE  /\ maskcnt[s] \in Nat
           /\ \A t \in Token : Counts(t, s) => maskcnt[s] > 0
           /\ \A t, u \in Token : Counts(t, s) /\ Counts(u, s) /\ t # u => maskcnt[s] > 1
<1>1. maskcnt[s] = Cardinality(Tokens(s)) /\ IsFiniteSet(Tokens(s))
  BY TokenFinite DEF Counted
<1>2. maskcnt[s] \in Nat
  BY <1>1, FS_CardinalityType
<1>3. ASSUME NEW t \in Token, Counts(t, s) PROVE maskcnt[s] > 0
  <2>1. t \in Tokens(s)
    BY <1>3 DEF Tokens
  <2>2. Cardinality(Tokens(s)) # 0
    BY <1>1, <2>1, FS_EmptySet
  <2> QED BY <1>1, <1>2, <2>2
<1>4. ASSUME NEW t \in Token, NEW u \in Token, Counts(t, s), Counts(u, s), t # u
      PROVE  maskcnt[s] > 1
  <2>1. t \in Tokens(s) /\ u \in Tokens(s)
    BY <1>4 DEF Tokens
  <2>2. Cardinality(Tokens(s)) # 1
    <3>1. SUFFICES ASSUME Cardinality(Tokens(s)) = 1 PROVE FALSE
      OBVIOUS
    <3>2. PICK w : Tokens(s) = {w}
      BY <1>1, <3>1, FS_Singleton
    <3> QED BY <2>1, <3>2, <1>4
  <2> QED BY <1>1, <1>2, <1>3, <1>4, <2>2
<1> QED BY <1>2, <1>3, <1>4

(* Count finds its interrupt's bit as the count says, and the count         *)
(* positive when it takes one off.                                          *)
LEMMA CountFinds ==
    ASSUME IInv, NEW x \in Context, pc[x] = "m_body"
    PROVE  /\ maskcnt[sub[x]] \in Nat
           /\ sub[x] \in eimr <=> maskcnt[sub[x]] > 0
           /\ fn[x] = "unmask" => maskcnt[sub[x]] > 0
<1>1. sub[x] \in Sub
  BY DEF IInv, Typed
<1>2. \A y \in Context : pc[y] \in Writing => sub[y] # sub[x]
  BY DEF IInv, IrqLocks, Inside, Writing
<1>3. sub[x] \in eimr <=> maskcnt[sub[x]] > 0
  BY <1>1, <1>2 DEF IInv, Registers
<1>4. ASSUME fn[x] = "unmask" PROVE maskcnt[sub[x]] > 0
  <2>1. <<"at", x>> \in Token /\ Counts(<<"at", x>>, sub[x])
    BY <1>4 DEF Token, Counts, Owes
  <2> QED BY <1>1, <2>1, TokenOf DEF IInv
<1> QED BY <1>1, <1>3, <1>4, TokenOf DEF IInv

(* The read and the write of EIMR0 are under error_int_lock, so what was    *)
(* read is still there.                                                     *)
LEMMA StepRegisters == IInv /\ [Next]_vars => Registers'
<1> SUFFICES ASSUME IInv, [Next]_vars PROVE Registers'
  OBVIOUS
<1> USE Contexts DEF Writing, Goto, At
<1>t. Typed /\ InCalls /\ Registers
  BY DEF IInv
<1>1. ASSUME UNCHANGED <<fn, sub, tmp, maskcnt, eimr>>,
             \A x \in Context : /\ pc'[x] \in Writing <=> pc[x] \in Writing
                                /\ pc'[x] = "e_write" <=> pc[x] = "e_write"
      PROVE  Registers'
  BY <1>1, <1>t DEF Registers, Behind
<1>2. CASE UNCHANGED vars
  BY <1>1, <1>2 DEF vars, callVars
<1>3. ASSUME NEW s \in Sub, Raise(s) PROVE Registers'
  BY <1>1, <1>3 DEF Raise, callVars
<1>4. ASSUME NEW x \in Context, Call(x) PROVE Registers'
  <2>1. pc[x] = "idle" /\ pc' = [pc EXCEPT ![x] = pc'[x]] /\ pc'[x] \in {"m_lock", "r_lock"}
    BY <1>4, <1>t DEF Call, Called, Register, Mask, Unmask, Serve, Typed
  <2>2. /\ UNCHANGED <<tmp, maskcnt, eimr>>
        /\ \A y \in Context : y # x => fn'[y] = fn[y] /\ sub'[y] = sub[y]
    BY <1>4, <1>t DEF Call, Called, Register, Mask, Unmask, Serve, Typed
  <2> QED BY <2>1, <2>2, <1>t DEF Registers, Behind, Typed
<1>5. ASSUME NEW x \in Context, Step(x) PROVE Registers'
  <2>1. CASE IrqLock(x) \/ IrqUnlock(x) \/ ErrorUnlock(x)
    BY <2>1, <1>1, <1>t DEF IrqLock, IrqUnlock, ErrorUnlock, callVars, Typed
  <2>2. CASE ErrorLock(x)
    BY <2>2, <1>t DEF ErrorLock, callVars, Typed, Registers, Behind
  <2>3. CASE Count(x)
    <3>1. /\ maskcnt[sub[x]] \in Nat
          /\ sub[x] \in eimr <=> maskcnt[sub[x]] > 0
          /\ fn[x] = "unmask" => maskcnt[sub[x]] > 0
      BY <2>3, CountFinds DEF Count
    <3>2. \A y \in Context : pc[y] \in Writing => sub[y] # sub[x]
      BY <2>3 DEF Count, IInv, IrqLocks, Inside
    <3>3. fn[x] \in {"mask", "unmask"} /\ sub[x] \in Sub
      BY <2>3, <1>t DEF Count, InCalls, Masking, Inside, Typed
    <3>4. /\ UNCHANGED <<fn, sub, tmp, eimr>>
          /\ \A y \in Context : y # x => pc'[y] = pc[y]
          /\ \A s \in Sub : s # sub[x] => maskcnt'[s] = maskcnt[s]
          /\ maskcnt'[sub[x]] = IF fn[x] = "mask" THEN maskcnt[sub[x]] + 1 ELSE maskcnt[sub[x]] - 1
          /\ pc'[x] = IF 0 \in {maskcnt[sub[x]], maskcnt'[sub[x]]} THEN "e_lock" ELSE "m_unlock"
      BY <2>3, <3>3, <1>t DEF Count, callVars, Typed
    <3> QED BY <3>1, <3>2, <3>3, <3>4, <1>t DEF Registers, Behind, Typed
  <2>4. CASE ReadEIMR(x)
    BY <2>4, <1>t DEF ReadEIMR, Typed, Registers, Behind
  <2>5. CASE WriteEIMR(x)
    <3>1. tmp[x] = eimr /\ Behind(x) /\ sub[x] \in Sub /\ fn[x] \in {"mask", "unmask"}
      BY <2>5, <1>t DEF WriteEIMR, Registers, Typed, InCalls, Masking, Inside
    <3>2. \A y \in Context : y # x => pc[y] # "e_write"
      BY <2>5 DEF WriteEIMR, IInv, ErrorLocks, InError
    <3>3. \A y \in Context : y # x /\ pc[y] \in Writing => sub[y] # sub[x]
      BY <2>5 DEF WriteEIMR, IInv, IrqLocks, Inside
    <3>4. /\ UNCHANGED <<fn, sub, tmp, maskcnt>>
          /\ eimr' = IF fn[x] = "mask" THEN eimr \cup {sub[x]} ELSE eimr \ {sub[x]}
          /\ pc'[x] = "e_unlock" /\ \A y \in Context : y # x => pc'[y] = pc[y]
      BY <2>5, <3>1, <1>t DEF WriteEIMR, callVars, Typed
    <3> QED BY <3>1, <3>2, <3>3, <3>4, <1>t DEF Registers, Behind, Typed
  <2>6. CASE RegisterLock(x) \/ EnableParent(x) \/ RegisterParent(x) \/ LinkAction(x)
    BY <2>6, <1>1, <1>t DEF RegisterLock, EnableParent, RegisterParent, LinkAction, callVars, Typed
  <2>7. CASE RegisterUnlock(x)
    BY <2>7, <1>t DEF RegisterUnlock, Typed, Registers, Behind
  <2> QED BY <1>5, <2>1, <2>2, <2>3, <2>4, <2>5, <2>6, <2>7 DEF Step
<1>6. CASE Deliver \/ HandlerReturn \/ ReadEISR
  BY <1>6, <1>1, <1>t DEF Deliver, HandlerReturn, ReadEISR, callVars, Typed
<1>7. CASE CallHandler
  BY <1>7, <1>t DEF CallHandler, Typed, Registers, Behind
<1> QED BY <1>2, <1>3, <1>4, <1>5, <1>6, <1>7 DEF Next, Handler

(* What the handler finds pending is owed by nobody and has a handler: an   *)
(* interrupt that is owed, or that nobody has registered, is masked.        *)
LEMMA PendingFresh ==
    ASSUME IInv, NEW s \in Sub, s \notin eimr
    PROVE  s \notin owed /\ actions[s] > 0
<1> USE Contexts
<1>1. ASSUME NEW t \in Token, Counts(t, s), t[1] # "at" PROVE FALSE
  <2>1. maskcnt[s] > 0
    BY <1>1, TokenOf DEF IInv
  <2>2. PICK x \in Context : pc[x] \in Writing /\ sub[x] = s
    BY <2>1 DEF IInv, Registers
  <2>3. Behind(x) /\ fn[x] \in {"mask", "unmask"}
    BY <2>2 DEF IInv, Registers, InCalls, Masking, Inside
  <2>4. fn[x] = "mask" /\ maskcnt[s] = 1
    BY <2>1, <2>2, <2>3 DEF Behind
  <2>5. <<"at", x>> \in Token /\ Counts(<<"at", x>>, s) /\ <<"at", x>> # t
    BY <1>1, <2>2, <2>4 DEF Token, Counts, Owes
  <2>6. maskcnt[s] > 1
    BY <1>1, <2>5, TokenOf DEF IInv
  <2> QED BY <2>4, <2>6
<1>2. s \notin owed
  <2>1. <<"owed", mchk>> \in Token
    BY DEF Token
  <2> QED BY <2>1, <1>1 DEF Counts
<1>3. actions[s] # 0
  <2>1. <<"init", mchk>> \in Token
    BY DEF Token
  <2> QED BY <2>1, <1>1 DEF Counts
<1> QED BY <1>2, <1>3 DEF IInv, Typed

LEMMA StepClient == IInv /\ [Next]_vars => Client'
<1> SUFFICES ASSUME IInv, [Next]_vars PROVE Client'
  OBVIOUS
<1> USE Contexts DEF Masking, Inside, Writing, Goto, At
<1>t. Typed /\ InCalls /\ Client
  BY DEF IInv
<1>1. ASSUME UNCHANGED <<fn, sub, held, owed, val>>,
             \A s \in Sub : actions[s] > 0 => actions'[s] > 0,
             \A x \in Context : pc'[x] \in Masking => pc[x] \in Masking
      PROVE  Client'
  BY <1>1, <1>t DEF Client, Typed
<1>2. CASE UNCHANGED vars
  BY <1>1, <1>2 DEF vars, callVars, client
<1>3. ASSUME NEW s \in Sub, Raise(s) PROVE Client'
  BY <1>1, <1>3 DEF Raise, callVars, client
<1>4. ASSUME NEW x \in Context, Call(x) PROVE Client'
  <2>1. PICK s \in Sub : Register(x, s) \/ Mask(x, s) \/ Unmask(x, s) \/ Serve(x, s)
    BY <1>4 DEF Call
  <2>2. x # mchk /\ pc[x] = "idle" /\ pc[mchk] = pc'[mchk] /\ sub[mchk] = sub'[mchk]
    BY <2>1, <1>t DEF Called, Register, Mask, Unmask, Serve, Typed
  <2>3. CASE Register(x, s)
    BY <2>2, <2>3, <1>t DEF Register, Called, Client, Typed
  <2>4. CASE Mask(x, s)
    <3>1. \A y \in Context : y # mchk => y[2] = "thread"
      OBVIOUS
    <3>2. \A y \in Context : ~(pc[y] \in Masking /\ y # mchk /\ fn[y] = "mask" /\ sub[y] = s)
      BY <2>4, <3>1 DEF Mask
    <3> QED BY <2>2, <2>4, <3>2, <1>t DEF Mask, Called, Client, Typed
  <2>5. CASE Unmask(x, s)
    BY <2>2, <2>5, <1>t DEF Unmask, Called, Client, Typed
  <2>6. CASE Serve(x, s)
    BY <2>2, <2>6, <1>t DEF Serve, Called, Client, Typed
  <2> QED BY <2>1, <2>3, <2>4, <2>5, <2>6
<1>5. ASSUME NEW x \in Context, Step(x) PROVE Client'
  <2>1. CASE IrqLock(x) \/ ErrorLock(x) \/ ErrorUnlock(x) \/ Count(x) \/ ReadEIMR(x) \/ WriteEIMR(x)
    BY <2>1, <1>1, <1>t
    DEF IrqLock, ErrorLock, ErrorUnlock, Count, ReadEIMR, WriteEIMR, callVars, client, Typed
  <2>2. CASE IrqUnlock(x)
    BY <2>2, <1>t DEF IrqUnlock, callVars, Client, Typed
  <2>3. CASE RegisterLock(x) \/ EnableParent(x) \/ RegisterParent(x)
    BY <2>3, <1>1, <1>t DEF RegisterLock, EnableParent, RegisterParent, callVars, client, Typed
  <2>4. CASE LinkAction(x)
    <3>1. \A s \in Sub : actions[s] > 0 => actions'[s] > 0
      BY <2>4, <1>t DEF LinkAction, Typed
    <3> QED BY <2>4, <3>1, <1>1, <1>t DEF LinkAction, client, Typed
  <2>5. CASE RegisterUnlock(x)
    BY <2>5, <1>t DEF RegisterUnlock, client, Client, Typed, InCalls, Registering
  <2> QED BY <1>5, <2>1, <2>2, <2>3, <2>4, <2>5 DEF Step
<1>6. CASE Deliver \/ HandlerReturn
  BY <1>6, <1>1, <1>t DEF Deliver, HandlerReturn, callVars, client, Typed
<1>7. CASE ReadEISR
  <2>1. \A s \in Pending : s \notin owed /\ actions[s] > 0
    BY PendingFresh, <1>t DEF Pending, Typed
  <2> QED BY <1>7, <2>1, <1>t DEF ReadEISR, callVars, client, Client, Typed
<1>8. CASE CallHandler
  BY <1>8, <1>t DEF CallHandler, client, Client, Typed
<1> QED BY <1>2, <1>3, <1>4, <1>5, <1>6, <1>7, <1>8 DEF Next, Handler

LEMMA StepParent == IInv /\ [Next]_vars => Parent'
<1> SUFFICES ASSUME IInv, [Next]_vars PROVE Parent'
  OBVIOUS
<1> USE Contexts DEF Goto, At, MchkDisabled
<1>t. Typed /\ InCalls /\ Parent /\ ErrorLocks
  BY DEF IInv
<1>1. ASSUME UNCHANGED <<parent_actions, parent_on, crossed>>,
             \A x \in Context : pc'[x] = "r_enable" => pc[x] = "r_enable",
             pc'[mchk] # "idle" => pc[mchk] # "idle" /\ pc'[thr] = pc[thr]
      PROVE  Parent'
  BY <1>1, <1>t DEF Parent
<1>2. CASE UNCHANGED vars
  BY <1>1, <1>2 DEF vars, parent
<1>3. ASSUME NEW s \in Sub, Raise(s) PROVE Parent'
  BY <1>1, <1>3 DEF Raise, parent
<1>4. ASSUME NEW x \in Context, Call(x) PROVE Parent'
  BY <1>1, <1>4, <1>t DEF Call, Called, Register, Mask, Unmask, Serve, parent, Typed, thr, mchk
<1>5. ASSUME NEW x \in Context, Step(x) PROVE Parent'
  <2>1. x = thr => pc[mchk] = "idle"
    BY <1>5 DEF Step, IrqLock, Count, ErrorLock, ReadEIMR, WriteEIMR, ErrorUnlock, IrqUnlock,
       RegisterLock, RegisterParent, EnableParent, LinkAction, RegisterUnlock, thr, mchk
  <2>2. pc[x] \in Masking \cup Registering
    BY <1>5 DEF Step, IrqLock, Count, ErrorLock, ReadEIMR, WriteEIMR, ErrorUnlock, IrqUnlock,
       RegisterLock, RegisterParent, EnableParent, LinkAction, RegisterUnlock, Masking, Inside,
       Writing, Registering
  <2>3. ASSUME NEW y \in Context, y # x PROVE pc'[y] = pc[y]
    BY <1>5, <1>t, <2>3 DEF Step, IrqLock, Count, ErrorLock, ReadEIMR, WriteEIMR, ErrorUnlock,
       IrqUnlock, RegisterLock, RegisterParent, EnableParent, LinkAction, RegisterUnlock, Typed
  <2>4. pc[x] # "idle"
    BY <2>2 DEF Masking, Inside, Writing, Registering
  <2>5. pc'[mchk] # "idle" => pc[mchk] # "idle" /\ pc'[thr] = pc[thr]
    BY <2>1, <2>3, <2>4
  <2>6. CASE RegisterParent(x)
    <3>1. parent_actions => parent_actions'
      BY <2>6, <1>t DEF RegisterParent, Typed
    <3>2. pc'[x] = "r_enable" => parent_actions'
      BY <2>6, <1>t DEF RegisterParent, Typed
    <3>3. UNCHANGED <<parent_on, crossed>>
      BY <2>6 DEF RegisterParent
    <3> QED BY <2>3, <2>5, <3>1, <3>2, <3>3, <1>t DEF Parent
  <2>7. CASE EnableParent(x)
    <3>1. parent_actions /\ parent_actions' = parent_actions /\ pc'[x] = "r_link" /\ crossed' = crossed
      BY <2>7, <1>t DEF EnableParent, Parent, Typed
    <3> QED BY <2>3, <2>5, <3>1, <1>t DEF Parent
  <2>8. CASE ~RegisterParent(x) /\ ~EnableParent(x)
    <3>1. UNCHANGED <<parent_actions, parent_on, crossed>> /\ pc'[x] # "r_enable"
      BY <1>5, <2>8, <1>t DEF Step, IrqLock, Count, ErrorLock, ReadEIMR, WriteEIMR, ErrorUnlock,
         IrqUnlock, RegisterLock, LinkAction, RegisterUnlock, parent, Typed
    <3> QED BY <2>3, <2>5, <3>1, <1>1
  <2> QED BY <2>6, <2>7, <2>8
<1>6. CASE Deliver
  <2>1. pc[thr] \notin MchkDisabled /\ parent_on
    BY <1>6 DEF Deliver, Pending, thr
  <2>2. pc[thr] \in InError => error_int_lock = Dest
    BY <1>t DEF ErrorLocks
  <2>3. crossed' = (crossed \/ error_int_lock = Dest) /\ UNCHANGED <<parent_actions, parent_on>>
    BY <1>6 DEF Deliver, parent
  <2>4. pc'[thr] = pc[thr] /\ \A x \in Context : pc'[x] = "r_enable" => pc[x] = "r_enable"
    BY <1>6, <1>t DEF Deliver, Typed
  <2> QED BY <2>1, <2>2, <2>3, <2>4, <1>t DEF Parent
<1>7. CASE HandlerReturn \/ ReadEISR \/ CallHandler
  BY <1>7, <1>1, <1>t DEF HandlerReturn, ReadEISR, CallHandler, parent, Typed
<1> QED BY <1>2, <1>3, <1>4, <1>5, <1>6, <1>7 DEF Next, Handler

LEMMA Swap ==
    ASSUME NEW T, NEW t \in T, NEW u, u \notin T, IsFiniteSet(T)
    PROVE  Cardinality((T \ {t}) \cup {u}) = Cardinality(T)
<1>1. IsFiniteSet(T \ {t}) /\ Cardinality(T \ {t}) = Cardinality(T) - 1
  BY FS_RemoveElement
<1>2. Cardinality((T \ {t}) \cup {u}) = Cardinality(T \ {t}) + 1
  BY <1>1, FS_AddElement
<1>3. Cardinality(T) \in Nat
  BY FS_CardinalityType
<1> QED BY <1>1, <1>2, <1>3

(* A step of x changes at most x's own token and the one it trades with.    *)
LEMMA TokenMoves ==
    ASSUME IInv, NEW s \in Sub, NEW t \in Token, NEW u \in Token,
           Counts(t, s), ~Counts(u, s), ~Counts(t, s)', Counts(u, s)',
           \A v \in Token : v # t /\ v # u => (Counts(v, s)' <=> Counts(v, s))
    PROVE  Cardinality(Tokens(s)') = Cardinality(Tokens(s))
<1>1. Tokens(s)' = (Tokens(s) \ {t}) \cup {u}
  BY DEF Tokens
<1>2. t \in Tokens(s) /\ u \notin Tokens(s) /\ IsFiniteSet(Tokens(s))
  BY TokenFinite DEF Tokens
<1> QED BY <1>1, <1>2, Swap

LEMMA TokenStays ==
    ASSUME NEW s \in Sub, \A v \in Token : Counts(v, s)' <=> Counts(v, s)
    PROVE  Cardinality(Tokens(s)') = Cardinality(Tokens(s))
  BY DEF Tokens

LEMMA StepCounted == IInv /\ [Next]_vars => Counted'
<1> SUFFICES ASSUME IInv, [Next]_vars, NEW s \in Sub
             PROVE  maskcnt'[s] = Cardinality(Tokens(s)')
  BY DEF Counted
<1> USE Contexts
<1>t. Typed /\ InCalls /\ Client /\ maskcnt[s] = Cardinality(Tokens(s))
  BY DEF IInv, Counted
<1>w. ASSUME NEW x \in Context PROVE <<"at", x>> \in Token
  BY DEF Token
<1>i. <<"init", mchk>> \in Token /\ <<"held", mchk>> \in Token /\ <<"owed", mchk>> \in Token
  BY DEF Token
<1>a. ASSUME NEW v \in Token, v[1] = "at"
      PROVE  v[2] \in Context /\ v = <<"at", v[2]>> /\ (Counts(v, s) <=> Owes(v[2], s))
             /\ (Counts(v, s)' <=> Owes(v[2], s)')
  BY <1>a DEF Token, Counts
<1>b. ASSUME NEW v \in Token, v[1] # "at"
      PROVE  /\ Counts(v, s) <=> \/ v = <<"init", mchk>> /\ actions[s] = 0
                                 \/ v = <<"held", mchk>> /\ s \in held
                                 \/ v = <<"owed", mchk>> /\ s \in owed
             /\ Counts(v, s)' <=> \/ v = <<"init", mchk>> /\ actions'[s] = 0
                                  \/ v = <<"held", mchk>> /\ s \in held'
                                  \/ v = <<"owed", mchk>> /\ s \in owed'
  BY <1>b DEF Counts
<1>1. ASSUME maskcnt'[s] = maskcnt[s], actions'[s] = 0 <=> actions[s] = 0,
             s \in held' <=> s \in held, s \in owed' <=> s \in owed,
             \A x \in Context : Owes(x, s)' <=> Owes(x, s)
      PROVE  maskcnt'[s] = Cardinality(Tokens(s)')
  <2>1. \A v \in Token : Counts(v, s)' <=> Counts(v, s)
    BY <1>1, <1>a, <1>b
  <2> QED BY <2>1, <1>1, <1>t, TokenStays
<1>2. CASE UNCHANGED vars
  BY <1>1, <1>2 DEF vars, callVars, client, Owes
<1>3. ASSUME NEW r \in Sub, Raise(r) PROVE maskcnt'[s] = Cardinality(Tokens(s)')
  BY <1>1, <1>3 DEF Raise, callVars, client, Owes
<1>4. ASSUME NEW x \in Context, Call(x) PROVE maskcnt'[s] = Cardinality(Tokens(s)')
  <2>1. PICK r \in Sub : Register(x, r) \/ Mask(x, r) \/ Unmask(x, r) \/ Serve(x, r)
    BY <1>4 DEF Call
  <2>2. /\ pc[x] = "idle" /\ UNCHANGED <<first, maskcnt, actions>>
        /\ \A y \in Context : y # x => pc'[y] = pc[y] /\ fn'[y] = fn[y] /\ sub'[y] = sub[y]
    BY <2>1, <1>t DEF Called, At, Goto, Register, Mask, Unmask, Serve, Typed
  <2>3. ~Owes(x, s) /\ \A y \in Context : y # x => (Owes(y, s)' <=> Owes(y, s))
    BY <2>2, Zenon DEF Owes, Writing
  <2>4. CASE Register(x, r) \/ Mask(x, r)
    <3>1. pc'[x] \in {"m_lock", "r_lock"} /\ fn'[x] # "unmask" /\ UNCHANGED <<held, owed>>
      BY <2>4, <1>t DEF Called, Goto, Register, Mask, Typed
    <3>2. ~Owes(x, s)'
      BY <3>1 DEF Owes, Writing
    <3> QED BY <2>2, <2>3, <3>2, <3>1, <1>1
  <2>5. CASE Unmask(x, r) \/ Serve(x, r)
    <3>1. pc'[x] = "m_lock" /\ fn'[x] = "unmask" /\ sub'[x] = r
      BY <2>5, <1>t DEF Called, Goto, Unmask, Serve, Typed
    <3>2. Owes(x, s)' <=> s = r
      BY <3>1 DEF Owes, Writing
    <3>3. CASE s # r
      BY <2>2, <2>3, <3>2, <3>3, <2>5, <1>1 DEF Unmask, Serve
    <3>4. CASE s = r /\ Unmask(x, r)
      <4>1. s \in held /\ s \notin held' /\ owed' = owed
        BY <3>4 DEF Unmask
      <4>2. \A v \in Token : v # <<"held", mchk>> /\ v # <<"at", x>> => (Counts(v, s)' <=> Counts(v, s))
        BY <4>1, <2>2, <2>3, <1>a, <1>b
      <4>3. Counts(<<"held", mchk>>, s) /\ ~Counts(<<"held", mchk>>, s)'
        BY <4>1, <1>i, <1>b
      <4>4. ~Counts(<<"at", x>>, s) /\ Counts(<<"at", x>>, s)'
        BY <2>3, <3>2, <3>4, <1>a, <1>w
      <4> QED BY <4>2, <4>3, <4>4, <1>w, <1>i, <1>t, <2>2, TokenMoves
    <3>5. CASE s = r /\ Serve(x, r)
      <4>1. s \in owed /\ s \notin owed' /\ held' = held
        BY <3>5 DEF Serve
      <4>2. \A v \in Token : v # <<"owed", mchk>> /\ v # <<"at", x>> => (Counts(v, s)' <=> Counts(v, s))
        BY <4>1, <2>2, <2>3, <1>a, <1>b
      <4>3. Counts(<<"owed", mchk>>, s) /\ ~Counts(<<"owed", mchk>>, s)'
        BY <4>1, <1>i, <1>b
      <4>4. ~Counts(<<"at", x>>, s) /\ Counts(<<"at", x>>, s)'
        BY <2>3, <3>2, <3>5, <1>a, <1>w
      <4> QED BY <4>2, <4>3, <4>4, <1>w, <1>i, <1>t, <2>2, TokenMoves
    <3> QED BY <2>5, <3>3, <3>4, <3>5
  <2> QED BY <2>1, <2>4, <2>5
<1>5. ASSUME NEW x \in Context, Step(x) PROVE maskcnt'[s] = Cardinality(Tokens(s)')
  <2>1. CASE \/ IrqLock(x) \/ ErrorLock(x) \/ ErrorUnlock(x) \/ ReadEIMR(x) \/ WriteEIMR(x)
             \/ RegisterLock(x) \/ EnableParent(x) \/ RegisterParent(x)
    <3>1. UNCHANGED <<fn, sub, first, maskcnt, actions, held, owed>>
      BY <2>1 DEF IrqLock, ErrorLock, ErrorUnlock, ReadEIMR, WriteEIMR, RegisterLock,
         EnableParent, RegisterParent, callVars, client
    <3>2. /\ \A y \in Context : y # x => pc'[y] = pc[y]
          /\ \/ pc[x] = "m_lock" /\ pc'[x] = "m_body"
             \/ pc[x] \in Writing \cup {"e_unlock"} /\ pc'[x] \in Writing \cup {"e_unlock", "m_unlock"}
             \/ pc[x] \in Registering \ {"r_unlock"} /\ pc'[x] \in Registering \ {"r_unlock"}
      BY <2>1, <1>t DEF IrqLock, ErrorLock, ErrorUnlock, ReadEIMR, WriteEIMR, RegisterLock,
         EnableParent, RegisterParent, At, Goto, Typed, Writing, Registering
    <3>3. \A y \in Context : Owes(y, s)' <=> Owes(y, s)
      <4>1. \A y \in Context : y # x => (Owes(y, s)' <=> Owes(y, s))
        BY <3>1, <3>2, Zenon DEF Owes
      <4>2. Owes(x, s)' <=> Owes(x, s)
        BY <3>1, <3>2 DEF Owes, Writing, Registering
      <4> QED BY <4>1, <4>2
    <3> QED BY <3>1, <3>3, <1>1
  <2>2. CASE Count(x)
    <3>1. /\ pc[x] = "m_body" /\ pc'[x] \in {"e_lock", "m_unlock"} /\ fn[x] \in {"mask", "unmask"}
          /\ \A y \in Context : y # x => pc'[y] = pc[y]
          /\ UNCHANGED <<fn, sub, first, actions, held, owed>>
      BY <2>2, <1>t DEF Count, callVars, client, At, Goto, InCalls, Masking, Inside, Typed
    <3>2. maskcnt'[s] = IF s # sub[x] THEN maskcnt[s]
                        ELSE IF fn[x] = "mask" THEN maskcnt[s] + 1 ELSE maskcnt[s] - 1
      BY <2>2, <1>t DEF Count, Typed
    <3>3. \A y \in Context : y # x => (Owes(y, s)' <=> Owes(y, s))
      BY <3>1, Zenon DEF Owes
    <3>4. /\ Owes(x, s) <=> sub[x] = s /\ fn[x] = "unmask"
          /\ Owes(x, s)' <=> sub[x] = s /\ fn[x] = "mask"
      BY <3>1 DEF Owes, Writing
    <3>5. CASE s # sub[x]
      BY <3>1, <3>2, <3>3, <3>4, <3>5, <1>1
    <3>6. CASE s = sub[x]
      <4>1. \A v \in Token : v # <<"at", x>> => (Counts(v, s)' <=> Counts(v, s))
        BY <3>1, <3>3, <1>a, <1>b
      <4>2. /\ Counts(<<"at", x>>, s) <=> fn[x] = "unmask"
            /\ Counts(<<"at", x>>, s)' <=> fn[x] = "mask"
        BY <3>4, <3>6, <1>a, <1>w
      <4>3. IsFiniteSet(Tokens(s)) /\ Cardinality(Tokens(s)) \in Nat
        BY TokenFinite, FS_CardinalityType
      <4>4. CASE fn[x] = "mask"
        <5>1. Tokens(s)' = Tokens(s) \cup {<<"at", x>>} /\ <<"at", x>> \notin Tokens(s)
          BY <4>1, <4>2, <4>4, <1>w DEF Tokens
        <5> QED BY <5>1, <4>3, <4>4, <3>2, <3>6, <1>t, FS_AddElement
      <4>5. CASE fn[x] = "unmask"
        <5>1. Tokens(s)' = Tokens(s) \ {<<"at", x>>} /\ <<"at", x>> \in Tokens(s)
          BY <4>1, <4>2, <4>5, <1>w DEF Tokens
        <5> QED BY <5>1, <4>3, <4>5, <3>2, <3>6, <1>t, FS_RemoveElement
      <4> QED BY <3>1, <4>4, <4>5
    <3> QED BY <3>5, <3>6
  <2>3. CASE IrqUnlock(x)
    <3>1. /\ pc[x] = "m_unlock" /\ pc'[x] \in {"h_next", "idle"} /\ fn[x] \in {"mask", "unmask"}
          /\ \A y \in Context : y # x => pc'[y] = pc[y]
          /\ UNCHANGED <<fn, sub, first, actions, maskcnt>>
      BY <2>3, <1>t DEF IrqUnlock, callVars, At, Goto, InCalls, Masking, Inside, Typed
    <3>2. /\ owed' = IF x = mchk THEN owed \cup {sub[x]} ELSE owed
          /\ held' = IF x # mchk /\ fn[x] = "mask" THEN held \cup {sub[x]} ELSE held
      BY <2>3 DEF IrqUnlock
    <3>3. \A y \in Context : y # x => (Owes(y, s)' <=> Owes(y, s))
      BY <3>1, Zenon DEF Owes
    <3>4. ~Owes(x, s)' /\ (Owes(x, s) <=> sub[x] = s /\ fn[x] = "mask")
      BY <3>1 DEF Owes, Writing
    <3>5. CASE s # sub[x] \/ fn[x] = "unmask"
      <4>1. x # mchk \/ s # sub[x]
        BY <3>1, <3>5, <1>t DEF InCalls, Masking, Inside
      <4> QED BY <3>1, <3>2, <3>3, <3>4, <3>5, <4>1, <1>1
    <3>6. CASE s = sub[x] /\ fn[x] = "mask" /\ x = mchk
      <4>1. s \notin owed /\ s \in owed' /\ held' = held
        BY <3>1, <3>2, <3>6, <1>t DEF Client, Masking, Inside
      <4>2. \A v \in Token : v # <<"owed", mchk>> /\ v # <<"at", x>> => (Counts(v, s)' <=> Counts(v, s))
        BY <4>1, <3>1, <3>3, <3>2, <3>6, <1>a, <1>b
      <4>3. ~Counts(<<"owed", mchk>>, s) /\ Counts(<<"owed", mchk>>, s)'
        BY <4>1, <1>i, <1>b
      <4>4. Counts(<<"at", x>>, s) /\ ~Counts(<<"at", x>>, s)'
        BY <3>4, <3>6, <1>a, <1>w
      <4> QED BY <4>2, <4>3, <4>4, <1>w, <1>i, <1>t, <3>1, TokenMoves
    <3>7. CASE s = sub[x] /\ fn[x] = "mask" /\ x # mchk
      <4>1. s \notin held /\ s \in held' /\ owed' = owed
        BY <3>1, <3>2, <3>7, <1>t DEF Client, Masking, Inside
      <4>2. \A v \in Token : v # <<"held", mchk>> /\ v # <<"at", x>> => (Counts(v, s)' <=> Counts(v, s))
        BY <4>1, <3>1, <3>3, <3>2, <3>7, <1>a, <1>b
      <4>3. ~Counts(<<"held", mchk>>, s) /\ Counts(<<"held", mchk>>, s)'
        BY <4>1, <1>i, <1>b
      <4>4. Counts(<<"at", x>>, s) /\ ~Counts(<<"at", x>>, s)'
        BY <3>4, <3>7, <1>a, <1>w
      <4> QED BY <4>2, <4>3, <4>4, <1>w, <1>i, <1>t, <3>1, TokenMoves
    <3> QED BY <3>1, <3>5, <3>6, <3>7
  <2>4. CASE LinkAction(x)
    <3>1. /\ pc[x] = "r_link" /\ pc'[x] = "r_unlock"
          /\ \A y \in Context : y # x => pc'[y] = pc[y]
          /\ UNCHANGED <<fn, sub, maskcnt, held, owed>>
      BY <2>4, <1>t DEF LinkAction, client, At, Goto, Typed
    <3>2. \A y \in Context : y # x => first'[y] = first[y]
      BY <2>4, <1>t DEF LinkAction, Typed
    <3>3. \A y \in Context : y # x => (Owes(y, s)' <=> Owes(y, s))
      BY <3>1, <3>2, Zenon DEF Owes
    <3>4. ~Owes(x, s) /\ (Owes(x, s)' <=> sub[x] = s /\ first'[x])
      BY <3>1 DEF Owes, Writing
    <3>5. CASE actions' = actions /\ first' = [first EXCEPT ![x] = FALSE]
      <4>1. ~first'[x]
        BY <3>5, <1>t DEF Typed
      <4> QED BY <3>1, <3>3, <3>4, <3>5, <4>1, <1>1
    <3>6. CASE /\ actions' = [actions EXCEPT ![sub[x]] = @ + 1]
               /\ first' = [first EXCEPT ![x] = (actions[sub[x]] = 0)]
      <4>1. /\ sub[x] \in Sub /\ actions[s] \in Nat
            /\ actions'[s] = IF s = sub[x] THEN actions[s] + 1 ELSE actions[s]
        BY <3>6, <1>t DEF Typed
      <4>2. first'[x] <=> actions[sub[x]] = 0
        BY <3>6, <1>t, Zenon DEF Typed
      <4>3. CASE s # sub[x] \/ actions[s] # 0
        <5>1. ~Owes(x, s)'
          BY <3>4, <4>2, <4>3
        <5>2. actions'[s] = 0 <=> actions[s] = 0
          BY <4>1, <4>3
        <5> QED BY <3>1, <3>3, <3>4, <5>1, <5>2, <1>1
      <4>4. CASE s = sub[x] /\ actions[s] = 0
        <5>1. actions'[s] # 0
          BY <4>1, <4>4
        <5>2. \A v \in Token : v # <<"init", mchk>> /\ v # <<"at", x>> => (Counts(v, s)' <=> Counts(v, s))
          BY <3>1, <3>3, <1>a, <1>b
        <5>3. Counts(<<"init", mchk>>, s) /\ ~Counts(<<"init", mchk>>, s)'
          BY <4>4, <5>1, <1>i, <1>b
        <5>4. ~Counts(<<"at", x>>, s) /\ Counts(<<"at", x>>, s)'
          BY <3>4, <4>2, <4>4, <1>a, <1>w
        <5> QED BY <5>2, <5>3, <5>4, <1>w, <1>i, <1>t, <3>1, TokenMoves
      <4> QED BY <4>3, <4>4
    <3> QED BY <2>4, <3>5, <3>6, Zenon DEF LinkAction
  <2>5. CASE RegisterUnlock(x)
    <3>1. /\ pc[x] = "r_unlock" /\ \A y \in Context : y # x => pc'[y] = pc[y] /\ fn'[y] = fn[y]
          /\ UNCHANGED <<sub, first, maskcnt, actions, held, owed>>
      BY <2>5, <1>t DEF RegisterUnlock, client, At, Goto, Typed
    <3>2. /\ first[x] => pc'[x] = "m_lock" /\ fn'[x] = "unmask"
          /\ ~first[x] => pc'[x] = "idle"
      BY <2>5, <1>t DEF RegisterUnlock, Goto, Typed
    <3>3. \A y \in Context : y # x => (Owes(y, s)' <=> Owes(y, s))
      BY <3>1, Zenon DEF Owes
    <3>4. Owes(x, s)' <=> Owes(x, s)
      BY <3>1, <3>2 DEF Owes, Writing
    <3> QED BY <3>1, <3>3, <3>4, <1>1
  <2> QED BY <1>5, <2>1, <2>2, <2>3, <2>4, <2>5 DEF Step
<1>6. CASE Handler
  <2>1. /\ pc[mchk] \in {"idle"} \cup InHandler
        /\ \A y \in Context : y # mchk => pc'[y] = pc[y] /\ fn'[y] = fn[y] /\ sub'[y] = sub[y]
        /\ UNCHANGED <<first, maskcnt, actions, held, owed>>
    BY <1>6, <1>t DEF Handler, Deliver, HandlerReturn, ReadEISR, CallHandler, Goto, callVars,
       client, Typed, InHandler
  <2>2. pc'[mchk] \in {"idle"} \cup InHandler \/ (pc'[mchk] = "m_lock" /\ fn'[mchk] = "mask")
    BY <1>6, <1>t DEF Handler, Deliver, HandlerReturn, ReadEISR, CallHandler, Goto, Typed, InHandler
  <2>3. ~Owes(mchk, s) /\ ~Owes(mchk, s)'
    BY <2>1, <2>2 DEF Owes, Writing, InHandler
  <2>4. \A y \in Context : y # mchk => (Owes(y, s)' <=> Owes(y, s))
    BY <2>1, Zenon DEF Owes
  <2> QED BY <2>1, <2>3, <2>4, <1>1
<1> QED BY <1>2, <1>3, <1>4, <1>5, <1>6 DEF Next

-----------------------------------------------------------------------------
(* The theorems                                                            *)

LEMMA NextHolds == IInv /\ [Next]_vars => IInv'
  BY StepTyped, StepInCalls, StepIrqLocks, StepErrorLocks, StepRegisters, StepCounted,
     StepClient, StepParent DEF IInv

THEOREM InterruptsInvariance == Spec => []IInv
  BY InitHolds, NextHolds, PTL DEF Spec

LEMMA InvMaskSound == IInv => MaskSound
<1> SUFFICES ASSUME IInv PROVE MaskSound
  OBVIOUS
<1>1. TypeOK
  <2>1. \A s \in Sub : maskcnt[s] \in Nat
    BY TokenOf DEF IInv
  <2>2. maskcnt \in [Sub -> Nat]
    BY <2>1 DEF IInv, Typed
  <2> QED BY <2>2 DEF IInv, Typed, TypeOK
<1>2. MaskExact
  <2> SUFFICES ASSUME NEW s \in Sub, lock[s] = Free PROVE s \in eimr <=> maskcnt[s] > 0
    BY DEF MaskExact
  <2>1. \A x \in Context : pc[x] \in Writing => sub[x] # s
    BY Contexts DEF IInv, IrqLocks, Inside
  <2> QED BY <2>1 DEF IInv, Registers
<1>3. HandlerThere
  BY DEF IInv, Client, Parent, HandlerThere
<1> QED BY <1>1, <1>2, <1>3 DEF MaskSound

LEMMA InvNoRecursion == IInv => NoRecursiveLockElsewhere
<1> SUFFICES ASSUME IInv, ~crossed, NEW x \in Context, WaitsForItself(x) PROVE FALSE
  BY DEF NoRecursiveLockElsewhere, NoRecursiveLock
<1> USE Contexts
<1>1. x # mchk => pc[mchk] = "idle" \/ x[1] # Dest
  BY DEF WaitsForItself, At, mchk, thr
<1>2. ASSUME NEW y \in Context, y[1] = x[1], y # x, pc[y] # "idle"
      PROVE  x = mchk /\ y = thr
  BY <1>1, <1>2, OneThread
<1>3. CASE At(x, "m_lock") /\ lock[sub[x]] = x[1]
  <2>1. PICK y \in Context : pc[y] \in Inside /\ sub[y] = sub[x]
    BY <1>3 DEF IInv, Typed, IrqLocks
  <2>2. y[1] = x[1] /\ y # x /\ pc[y] # "idle"
    BY <1>3, <2>1 DEF IInv, IrqLocks, At, Inside, Writing
  <2>3. pc[mchk] # "idle" /\ pc[thr] \in MchkDisabled
    BY <1>2, <1>3, <2>1, <2>2 DEF At, Inside, Writing, MchkDisabled
  <2> QED BY <2>3 DEF IInv, Parent
<1>4. CASE (At(x, "e_lock") \/ At(x, "r_lock")) /\ error_int_lock = x[1]
  <2>1. PICK y \in Context : pc[y] \in InError
    BY <1>4 DEF IInv, ErrorLocks
  <2>2. y[1] = x[1] /\ y # x /\ pc[y] # "idle"
    BY <1>4, <2>1 DEF IInv, ErrorLocks, At, InError
  <2>3. pc[mchk] # "idle" /\ pc[thr] \in InError
    BY <1>2, <1>4, <2>1, <2>2 DEF At
  <2> QED BY <2>3 DEF IInv, Parent
<1> QED BY <1>3, <1>4 DEF WaitsForItself

(* Whatever cores register, mask, unmask and serve, and whenever machine    *)
(* checks come, no count goes below zero, every interrupt that nobody is    *)
(* changing is masked as its count says, and none is dispatched without a   *)
(* handler (interrupts.c:36-54, mpic.c:541-572).                            *)
THEOREM MaskingSound == Spec => []MaskSound
  BY InvMaskSound, InterruptsInvariance, PTL

(* No core waits for a lock that it holds, unless a machine check came      *)
(* while its thread held error_int_lock with machine checks enabled         *)
(* (bitops.h:119, mpic.c:547).                                              *)
THEOREM NoCoreWaitsForItself == Spec => []NoRecursiveLockElsewhere
  BY InvNoRecursion, InterruptsInvariance, PTL
=============================================================================
