---------------------------- MODULE PlatformProofs ----------------------------
(***************************************************************************)
(* What is proved of error interrupts, of the MPIC, of the hardware        *)
(* threads, of exceptions and of the latency client holds of the whole     *)
(* platform: a step of one part leaves the others' state alone.            *)
(***************************************************************************)
EXTENDS Platform, InterruptsProofs, FiniteSetTheorems, SequenceTheorems, TLAPS

-----------------------------------------------------------------------------
(* The MPIC: the inductive invariant of the cores' calls.                   *)

MpicStages == {"idle", "config", "link", "deliver", "count", "read", "write", "uncount"}
Changing == {"read", "write"}
Counter(c) == mpCall[c].fn \in {"mask", "unmask"}

MpicTyped ==
    /\ vecpri \in [Source -> [Field -> Nat]]
    /\ \A s \in Source : vecpri[s]["msk"] \in {0, 1}
    /\ maskCount \in [Source -> Int] /\ linked \in [Source -> Nat]
    /\ mpic_lock \in MpCpu \cup {Unlocked}
    /\ irqLock \in [Source -> MpCpu \cup {Unlocked}]
    /\ mpPc \in [MpCpu -> MpicStages]
    /\ mpCall \in [MpCpu -> [fn : {"none", "set", "get", "register", "mask", "unmask"},
                             src : Source \cup {"none"},
                             field : Field \cup {"none"}, value : Nat]]
    /\ mpTmp \in [MpCpu -> [Field -> Nat]]
    /\ want \in [Source -> [Field -> Nat]]

(* What a call is about follows from where it is.                          *)
MpicCallsInv ==
    \A c \in MpCpu : mpPc[c] # "idle" =>
      /\ ctpr = 0 /\ Src(c) \in Source /\ mpCall[c].field \in Field
      /\ Counter(c) \/ mpCall[c].fn = "register" <=> mpCall[c].field = "msk"
      /\ mpCall[c].field = "msk" => mpCall[c].value \in {0, 1}
      /\ mpPc[c] \in {"count", "uncount"} => Counter(c)
      /\ mpPc[c] \in {"link", "deliver"} => mpCall[c].fn = "register"
      /\ mpPc[c] = "config" => mpCall[c].fn = "get"
      /\ Counter(c) => mpCall[c].value = IF mpCall[c].fn = "mask" THEN 1 ELSE 0
      /\ mpCall[c].fn = "register" /\ mpPc[c] \in Changing => mpCall[c].value = 0

(* mpic_lock and the lock of a source have one holder; what was read under *)
(* mpic_lock is still in the register.                                     *)
MpicLocks ==
    /\ \A c \in MpCpu : mpPc[c] = "write" => mpic_lock = c /\ mpTmp[c] = vecpri[Src(c)]
    /\ \A c \in MpCpu : mpPc[c] \in Changing \cup {"uncount"} /\ Counter(c) => irqLock[Src(c)] = c

(* Nothing can be unmasked before a handler is linked.                     *)
MpicLinked ==
    /\ \A c \in MpCpu :
         mpPc[c] \in {"deliver", "count", "read", "write", "uncount"} /\ mpCall[c].field = "msk"
           => linked[Src(c)] > 0
    /\ ctpr = 0 => \A s \in Source : vecpri[s]["msk"] = 0 => linked[s] > 0

(* An unmask that has not counted yet has a mask to take back.             *)
Unmasking(s) == {c \in MpCpu : mpPc[c] = "count" /\ mpCall[c].fn = "unmask" /\ Src(c) = s}
MpicCounts == \A s \in Source : maskCount[s] >= Cardinality(Unmasking(s))

(* The register says what the count says, unless the first mask or the     *)
(* last unmask is on its way there.                                        *)
OnItsWay(c, s) == mpPc[c] \in Changing /\ Counter(c) /\ Src(c) = s

MpicMasks ==
    /\ \A c \in MpCpu, s \in Source :
         OnItsWay(c, s) => maskCount[s] = IF mpCall[c].fn = "mask" THEN 1 ELSE 0
    /\ \A s \in Source :
         \/ \E c \in MpCpu : OnItsWay(c, s)
         \/ vecpri[s]["msk"] = 1 <=> maskCount[s] > 0
         \/ s \in bypassed

MpicInv ==
    /\ MpicTyped /\ MpicCallsInv /\ MpicLocks /\ MpicLinked /\ MpicCounts /\ MpicMasks
    /\ want = vecpri

MpicSpec == MpicInit /\ [][MpicNext]_mpicVars

-----------------------------------------------------------------------------
(* The invariant holds at first, and every step preserves it               *)

LEMMA MpicInitHolds == MpicInit => MpicInv
<1> SUFFICES ASSUME MpicInit PROVE MpicInv
  OBVIOUS
<1> USE DEF MpicInit, Undefined, Field, NoOp, Unlocked
<1>1. MpicTyped
  BY DEF MpicTyped, MpicStages
<1>2. MpicCallsInv /\ MpicLocks /\ MpicLinked /\ want = vecpri
  BY DEF MpicCallsInv, MpicLocks, MpicLinked, Changing
<1>3. MpicMasks
  BY DEF MpicMasks, OnItsWay, Changing
<1>4. MpicCounts
  <2>1. \A s \in Source : Unmasking(s) = {}
    BY DEF Unmasking
  <2>2. Cardinality({}) = 0
    BY FS_EmptySet
  <2>3. \A s \in Source : maskCount[s] = 0
    OBVIOUS
  <2> SUFFICES ASSUME NEW s \in Source PROVE maskCount[s] >= Cardinality(Unmasking(s))
    BY DEF MpicCounts
  <2>4. Cardinality(Unmasking(s)) = 0 /\ maskCount[s] = 0
    BY <2>1, <2>2, <2>3
  <2> QED BY <2>4
<1> QED BY <1>1, <1>2, <1>3, <1>4 DEF MpicInv

LEMMA UnmaskingFinite == \A s : IsFiniteSet(Unmasking(s)) /\ Cardinality(Unmasking(s)) \in Nat
<1> SUFFICES ASSUME NEW s PROVE IsFiniteSet(Unmasking(s))
  BY FS_CardinalityType
<1>1. Unmasking(s) \in SUBSET MpCpu
  BY DEF Unmasking
<1> QED BY <1>1, MpCpuAssumption, FS_Subset

(* A call begins: nobody else moves.                                       *)
LEMMA CallBegins ==
    ASSUME MpicInv, NEW c \in MpCpu, MpicCalls(c)
    PROVE  MpicInv'
<1> USE MpCpuAssumption DEF Unlocked
<1>t. MpicTyped /\ MpicCallsInv /\ MpicLocks /\ MpicLinked /\ MpicCounts /\ MpicMasks /\ want = vecpri
  BY DEF MpicInv
<1>1. CASE \E s \in Source : set_destcpu(c, s)
  <2>1. UNCHANGED <<vecpri, ctpr, mpic_lock, irqVars, mpPc, mpCall, mpTmp, histVars>>
    BY <1>1 DEF set_destcpu
  <2>2. MpicTyped' /\ MpicCallsInv' /\ MpicLocks' /\ MpicLinked' /\ MpicMasks' /\ want' = vecpri'
    BY <1>t, <2>1 DEF MpicTyped, MpicCallsInv, MpicLocks, MpicLinked, MpicMasks, OnItsWay,
       Counter, Src, irqVars, histVars
  <2>3. MpicCounts'
    BY <1>t, <2>1 DEF MpicCounts, Unmasking, Src, irqVars
  <2> QED BY <2>2, <2>3 DEF MpicInv
<1>2. ASSUME NEW op, NEW start, CallOf(c, op, start),
             op \in [fn : {"set", "get", "register", "mask", "unmask"}, src : Source,
                     field : Field, value : Nat],
             op.fn \in {"mask", "unmask", "register"} <=> op.field = "msk",
             op.field = "msk" => op.value \in {0, 1},
             op.fn = "mask" => op.value = 1, op.fn = "unmask" => op.value = 0,
             start = CASE op.fn = "set" -> "read" [] op.fn = "get" -> "config"
                       [] op.fn = "register" -> "link" [] OTHER -> "count",
             op.fn \in {"mask", "unmask"} => linked[op.src] > 0,
             op.fn = "unmask" => maskCount[op.src] > Cardinality(Unmasking(op.src))
      PROVE  MpicInv'
  <2>1. /\ mpPc[c] = "idle" /\ ctpr = 0
        /\ mpCall' = [mpCall EXCEPT ![c] = op] /\ mpPc' = [mpPc EXCEPT ![c] = start]
        /\ UNCHANGED <<vecpri, ctpr, mpic_lock, irqLock, maskCount, linked, mpTmp, want, bypassed>>
    BY <1>2 DEF CallOf, MpGoto, regVars, irqVars, histVars
  <2>2. /\ mpPc'[c] = start /\ mpCall'[c] = op
        /\ \A d \in MpCpu : d # c => mpPc'[d] = mpPc[d] /\ mpCall'[d] = mpCall[d]
    BY <2>1, <1>t DEF MpicTyped
  <2>3. start \in {"read", "config", "link", "count"} /\ (start = "count" <=> op.fn \in {"mask", "unmask"})
        /\ (start = "link" <=> op.fn = "register") /\ (start = "config" <=> op.fn = "get")
    BY <1>2
  <2>4. MpicTyped'
    BY <1>t, <2>1, <2>3, <1>2 DEF MpicTyped, MpicStages
  <2>5. MpicCallsInv'
    BY <1>t, <1>2, <2>1, <2>2, <2>3 DEF MpicCallsInv, Counter, Src, Changing
  <2>6. MpicLocks'
    BY <1>t, <1>2, <2>1, <2>2, <2>3 DEF MpicLocks, Counter, Src, Changing
  <2>7. MpicLinked'
    BY <1>t, <1>2, <2>1, <2>2, <2>3 DEF MpicLinked, Src
  <2>8. MpicMasks'
    <3>1. \A d \in MpCpu, s \in Source : OnItsWay(d, s)' <=> OnItsWay(d, s)
      BY <2>1, <2>2, <2>3, <1>2 DEF OnItsWay, Counter, Src, Changing
    <3> QED BY <1>t, <2>1, <2>2, <3>1 DEF MpicMasks, OnItsWay, Changing
  <2>9. MpicCounts'
    <3> SUFFICES ASSUME NEW s \in Source PROVE maskCount'[s] >= Cardinality(Unmasking(s)')
      BY DEF MpicCounts
    <3>0. maskCount'[s] = maskCount[s] /\ maskCount[s] >= Cardinality(Unmasking(s))
          /\ maskCount[s] \in Int
      BY <1>t, <2>1 DEF MpicCounts, MpicTyped
    <3>1. CASE op.fn = "unmask" /\ op.src = s
      <4>1. Unmasking(s)' = Unmasking(s) \cup {c} /\ c \notin Unmasking(s)
        BY <2>1, <2>2, <2>3, <3>1 DEF Unmasking, Src
      <4>2. Cardinality(Unmasking(s) \cup {c}) = Cardinality(Unmasking(s)) + 1
        BY <4>1, UnmaskingFinite, FS_AddElement
      <4>3. maskCount[s] > Cardinality(Unmasking(s)) /\ Cardinality(Unmasking(s)) \in Nat
        BY <3>1, <1>2, UnmaskingFinite
      <4>4. maskCount[s] >= Cardinality(Unmasking(s)) + 1
        BY <4>3, <3>0
      <4> QED BY <4>1, <4>2, <4>4, <3>0
    <3>2. CASE ~(op.fn = "unmask" /\ op.src = s)
      <4>1. Unmasking(s)' = Unmasking(s)
        BY <2>1, <2>2, <2>3, <3>2 DEF Unmasking, Src
      <4> QED BY <4>1, <3>0
    <3> QED BY <3>1, <3>2
  <2> QED BY <1>t, <2>1, <2>4, <2>5, <2>6, <2>7, <2>8, <2>9 DEF MpicInv
<1>3. ASSUME NEW s \in Source, NEW f, NEW v \in Nat, f \in {"priority", "vector", "config"},
             SetField(c, s, f, v)
      PROVE  MpicInv'
  BY <1>2, <1>3 DEF SetField, Field
<1>4. ASSUME NEW s \in Source, NEW v \in Nat, get_mpic_irq(c, s, v)
      PROVE  MpicInv'
  BY <1>2, <1>4 DEF get_mpic_irq, Field
<1>5. ASSUME NEW s \in Source, NEW v \in {0, 1}, mpic_register(c, s, v)
      PROVE  MpicInv'
  BY <1>2, <1>5 DEF mpic_register, Field
<1>6. ASSUME NEW s \in Source, NEW call \in {"mask", "unmask"}, MaskOrUnmask(c, s, call)
      PROVE  MpicInv'
  <2>1. call = "unmask" => maskCount[s] > Cardinality(Unmasking(s))
    <3> SUFFICES ASSUME call = "unmask" PROVE maskCount[s] > Cardinality(Unmasking(s))
      OBVIOUS
    <3> DEFINE All == {d \in MpCpu : mpCall[d].fn = "unmask" /\ mpPc[d] # "idle"}
    <3>1. maskCount[s] > Cardinality(All) /\ maskCount[s] \in Int
      BY <1>6, <1>t DEF MaskOrUnmask, MpicTyped
    <3>2. IsFiniteSet(All)
      BY FS_Subset
    <3>3. Unmasking(s) \in SUBSET All
      BY DEF Unmasking
    <3>4. Cardinality(Unmasking(s)) <= Cardinality(All) /\ Cardinality(All) \in Nat
      BY <3>2, <3>3, FS_Subset, FS_CardinalityType
    <3> QED BY <3>1, <3>4, UnmaskingFinite
  <2> DEFINE op == [fn |-> call, src |-> s, field |-> "msk", value |-> IF call = "mask" THEN 1 ELSE 0]
  <2>2. CallOf(c, op, "count") /\ linked[s] > 0
    BY <1>6 DEF MaskOrUnmask
  <2> QED BY <1>2, <2>1, <2>2 DEF Field
<1> QED BY <1>1, <1>3, <1>4, <1>5, <1>6 DEF MpicCalls

(* A step that writes no register and takes no lock of a source, and after  *)
(* which as many unmasks are still to be counted.                           *)
LEMMA MpicQuiet ==
    ASSUME MpicInv, NEW c \in MpCpu, MpicTyped', MpicCallsInv', MpicLinked',
           UNCHANGED <<vecpri, want, bypassed, irqLock, maskCount>>,
           \A d \in MpCpu : d # c => mpPc'[d] = mpPc[d] /\ mpCall'[d] = mpCall[d] /\ mpTmp'[d] = mpTmp[d],
           mpPc[c] # "write" /\ mpPc[c] # "count" /\ mpPc'[c] # "count",
           Src(c)' = Src(c), mpCall'[c].fn = mpCall[c].fn,
           mpPc[c] = "read" <=> mpPc'[c] \in Changing,
           mpPc[c] # "uncount" /\ mpPc'[c] # "uncount",
           mpPc'[c] = "write" => mpic_lock = Unlocked /\ mpic_lock' = c /\ mpTmp'[c] = vecpri[Src(c)],
           mpPc'[c] # "write" => mpic_lock' = mpic_lock
    PROVE  MpicInv'
<1> USE MpCpuAssumption DEF Unlocked
<1>t. MpicTyped /\ MpicLocks /\ MpicCounts /\ MpicMasks /\ want = vecpri
  BY DEF MpicInv
<1>1. \A d \in MpCpu : Src(d)' = Src(d) /\ (Counter(d)' <=> Counter(d)) /\ mpCall'[d].fn = mpCall[d].fn
  BY DEF Src, Counter
<1>2. MpicLocks'
  BY <1>t, <1>1 DEF MpicLocks, Changing
<1>3. MpicMasks'
  <2>1. \A d \in MpCpu, s \in Source : OnItsWay(d, s)' <=> OnItsWay(d, s)
    BY <1>1 DEF OnItsWay, Changing
  <2> QED BY <1>t, <1>1, <2>1 DEF MpicMasks
<1>4. MpicCounts'
  <2>1. \A s : Unmasking(s)' = Unmasking(s)
    BY <1>1 DEF Unmasking
  <2> QED BY <1>t, <2>1 DEF MpicCounts
<1> QED BY <1>t, <1>2, <1>3, <1>4 DEF MpicInv

(* The write of a field under mpic_lock.                                    *)
LEMMA MpicWrites ==
    ASSUME MpicInv, NEW c \in MpCpu, WriteVpr(c)
    PROVE  MpicInv'
<1> USE MpCpuAssumption DEF Unlocked
<1>t. MpicTyped /\ MpicCallsInv /\ MpicLocks /\ MpicLinked /\ MpicCounts /\ MpicMasks /\ want = vecpri
  BY DEF MpicInv
<1> DEFINE s == Src(c)
           op == mpCall[c]
           after == AfterWrite(c)
<1>1. /\ mpPc[c] = "write" /\ mpPc' = [mpPc EXCEPT ![c] = after]
      /\ vecpri' = [vecpri EXCEPT ![s] = Changed(mpTmp[c], op)]
      /\ want' = [want EXCEPT ![s] = Changed(want[s], op)]
      /\ bypassed' = IF op.fn = "register" /\ maskCount[s] > 0 THEN bypassed \cup {s} ELSE bypassed
      /\ mpic_lock' = Unlocked
      /\ UNCHANGED <<ctpr, irqLock, maskCount, linked, mpCall, mpTmp>>
  BY DEF WriteVpr, MpGoto
<1>2. /\ s \in Source /\ op.field \in Field /\ ctpr = 0 /\ mpic_lock = c
      /\ mpTmp[c] = vecpri[s] /\ op.value \in Nat
      /\ op.field = "msk" <=> Counter(c) \/ op.fn = "register"
      /\ op.field = "msk" => op.value \in {0, 1} /\ linked[s] > 0
      /\ Counter(c) => op.value = IF op.fn = "mask" THEN 1 ELSE 0
      /\ op.fn = "register" => op.value = 0
  BY <1>t, <1>1 DEF MpicTyped, MpicCallsInv, MpicLocks, MpicLinked, Changing, Field
<1>3. /\ vecpri'[s] \in [Field -> Nat] /\ want' = vecpri'
      /\ vecpri'[s]["msk"] = IF op.field = "msk" THEN op.value ELSE vecpri[s]["msk"]
      /\ \A r \in Source : r # s => vecpri'[r] = vecpri[r]
  BY <1>t, <1>1, <1>2 DEF Changed, MpicTyped, Field
<1>4. after \in {"idle", "uncount"} /\ (after = "uncount" <=> Counter(c))
  BY DEF AfterWrite, Counter
<1>5. mpPc'[c] = after /\ \A d \in MpCpu : d # c => mpPc'[d] = mpPc[d] /\ mpPc[d] # "write"
  BY <1>t, <1>1, <1>2 DEF MpicTyped, MpicLocks
<1>6. \A d \in MpCpu : (Counter(d)' <=> Counter(d)) /\ Src(d)' = Src(d)
  BY <1>1 DEF Counter, Src
<1>7. MpicTyped'
  <2>1. vecpri' \in [Source -> [Field -> Nat]]
    BY <1>t, <1>1, <1>3 DEF MpicTyped
  <2>2. \A r \in Source : vecpri'[r]["msk"] \in {0, 1}
    BY <1>t, <1>2, <1>3 DEF MpicTyped
  <2>3. mpPc' \in [MpCpu -> MpicStages]
    BY <1>t, <1>1, <1>4 DEF MpicTyped, MpicStages
  <2> QED BY <1>t, <1>1, <1>3, <2>1, <2>2, <2>3 DEF MpicTyped
<1>8. MpicCallsInv'
  BY <1>t, <1>1, <1>4, <1>5, <1>6 DEF MpicCallsInv, Changing
<1>9. MpicLocks'
  BY <1>t, <1>1, <1>4, <1>5, <1>6 DEF MpicLocks, Changing
<1>10. MpicLinked'
  BY <1>t, <1>1, <1>2, <1>3, <1>4, <1>5, <1>6 DEF MpicLinked
<1>11. MpicCounts'
  <2>1. \A r : Unmasking(r)' = Unmasking(r)
    BY <1>1, <1>4, <1>5, <1>6 DEF Unmasking
  <2> QED BY <1>t, <1>1, <2>1 DEF MpicCounts
<1>12. MpicMasks'
  <2>1. \A d \in MpCpu, r \in Source : d # c => (OnItsWay(d, r)' <=> OnItsWay(d, r))
    BY <1>5, <1>6 DEF OnItsWay
  <2>2. \A r \in Source : ~OnItsWay(c, r)'
    BY <1>4, <1>5 DEF OnItsWay, Changing
  <2>3. ASSUME NEW r \in Source
        PROVE  \/ \E d \in MpCpu : OnItsWay(d, r)'
               \/ vecpri'[r]["msk"] = 1 <=> maskCount[r] > 0
               \/ r \in bypassed'
    <3>1. CASE r # s
      <4>1. ~OnItsWay(c, r)
        BY <3>1 DEF OnItsWay
      <4> QED BY <1>t, <1>1, <1>3, <2>1, <3>1, <4>1 DEF MpicMasks
    <3>2. CASE r = s /\ Counter(c)
      <4>1. OnItsWay(c, s)
        BY <1>1, <3>2 DEF OnItsWay, Changing
      <4>2. maskCount[s] = IF op.fn = "mask" THEN 1 ELSE 0
        BY <1>t, <1>2, <4>1 DEF MpicMasks
      <4> QED BY <1>2, <1>3, <3>2, <4>2
    <3>3. CASE r = s /\ op.fn = "register" /\ ~Counter(c)
      <4>1. maskCount[s] \in Int
        BY <1>t, <1>2 DEF MpicTyped
      <4> QED BY <1>1, <1>2, <1>3, <3>3, <4>1
    <3>4. CASE r = s /\ op.fn # "register" /\ ~Counter(c)
      <4>1. vecpri'[s]["msk"] = vecpri[s]["msk"] /\ ~OnItsWay(c, s) /\ bypassed' = bypassed
        BY <1>1, <1>2, <1>3, <3>4 DEF OnItsWay
      <4> QED BY <1>t, <1>1, <2>1, <3>4, <4>1 DEF MpicMasks
    <3> QED BY <3>1, <3>2, <3>3, <3>4
  <2>4. ASSUME NEW d \in MpCpu, NEW r \in Source, OnItsWay(d, r)'
        PROVE  maskCount'[r] = IF mpCall'[d].fn = "mask" THEN 1 ELSE 0
    BY <1>t, <1>1, <2>1, <2>2, <2>4 DEF MpicMasks
  <2> QED BY <1>1, <2>3, <2>4 DEF MpicMasks
<1> QED BY <1>3, <1>7, <1>8, <1>9, <1>10, <1>11, <1>12 DEF MpicInv

LEMMA MpicSteps ==
    ASSUME MpicInv, NEW c \in MpCpu, MpicStep(c)
    PROVE  MpicInv'
<1> USE MpCpuAssumption DEF Unlocked
<1>t. MpicTyped /\ MpicCallsInv /\ MpicLocks /\ MpicLinked /\ MpicCounts /\ MpicMasks /\ want = vecpri
  BY DEF MpicInv
<1>1. CASE ReadVpr(c)
  <2>1. /\ mpPc[c] = "read" /\ mpic_lock = Unlocked /\ mpic_lock' = c
        /\ mpTmp' = [mpTmp EXCEPT ![c] = vecpri[Src(c)]] /\ mpPc' = [mpPc EXCEPT ![c] = "write"]
        /\ UNCHANGED <<vecpri, want, bypassed, irqLock, maskCount, linked, ctpr, mpCall>>
    BY <1>1 DEF ReadVpr, MpGoto, regVars, irqVars, histVars
  <2>2. MpicTyped' /\ MpicCallsInv' /\ MpicLinked'
    <3>1. Src(c) \in Source
      BY <1>t, <2>1 DEF MpicCallsInv
    <3> QED BY <1>t, <2>1, <3>1
        DEF MpicTyped, MpicCallsInv, MpicLinked, MpicStages, Counter, Src, Changing
  <2> QED BY <1>t, <2>1, <2>2, MpicQuiet DEF MpicTyped, Src, Changing
<1>2. CASE FirstConfig(c)
  <2>1. /\ mpPc[c] = "config" /\ mpic_lock = Unlocked
        /\ UNCHANGED <<vecpri, want, bypassed, irqLock, maskCount, linked, ctpr, mpCall>>
        /\ \/ mpPc' = [mpPc EXCEPT ![c] = "idle"] /\ UNCHANGED <<mpic_lock, mpTmp>>
           \/ /\ mpPc' = [mpPc EXCEPT ![c] = "write"] /\ mpic_lock' = c
              /\ mpTmp' = [mpTmp EXCEPT ![c] = vecpri[Src(c)]]
    BY <1>2 DEF FirstConfig, MpGoto, regVars, irqVars, histVars
  <2>2. Src(c) \in Source /\ mpCall[c].fn = "get" /\ mpCall[c].field # "msk"
    BY <1>t, <2>1 DEF MpicCallsInv, Counter
  <2>3. MpicTyped' /\ MpicCallsInv' /\ MpicLinked'
    <3>1. mpTmp' \in [MpCpu -> [Field -> Nat]]
      BY <1>t, <2>1, <2>2 DEF MpicTyped
    <3>2. mpPc' \in [MpCpu -> MpicStages] /\ mpic_lock' \in MpCpu \cup {Unlocked}
      BY <1>t, <2>1 DEF MpicTyped, MpicStages
    <3>3. mpPc'[c] \in {"idle", "write"} /\ \A d \in MpCpu : d # c => mpPc'[d] = mpPc[d]
      BY <1>t, <2>1 DEF MpicTyped
    <3>4. MpicTyped'
      BY <1>t, <2>1, <3>1, <3>2 DEF MpicTyped
    <3>5. MpicCallsInv'
      BY <1>t, <2>1, <2>2, <3>3 DEF MpicCallsInv, Counter, Src, Changing
    <3>6. MpicLinked'
      BY <1>t, <2>1, <2>2, <3>3 DEF MpicLinked, Src
    <3> QED BY <3>4, <3>5, <3>6
  <2>4. MpicLocks'
    BY <1>t, <2>1, <2>2 DEF MpicTyped, MpicLocks, Counter, Src, Changing
  <2>5. MpicMasks'
    <3>1. \A d \in MpCpu, s \in Source : OnItsWay(d, s)' <=> OnItsWay(d, s)
      BY <1>t, <2>1, <2>2 DEF OnItsWay, Counter, Src, Changing, MpicTyped
    <3> QED BY <1>t, <2>1, <3>1 DEF MpicMasks
  <2>6. MpicCounts'
    <3>1. \A s : Unmasking(s)' = Unmasking(s)
      BY <1>t, <2>1, <2>2 DEF Unmasking, Src, MpicTyped
    <3> QED BY <1>t, <2>1, <3>1 DEF MpicCounts
  <2> QED BY <1>t, <2>1, <2>3, <2>4, <2>5, <2>6 DEF MpicInv
<1>3. CASE LinkHandler(c)
  <2>1. /\ mpPc[c] = "link" /\ UNCHANGED <<vecpri, want, bypassed, irqLock, maskCount, ctpr, mpCall, mpTmp, mpic_lock>>
        /\ \/ linked' = [linked EXCEPT ![Src(c)] = @ + 1] /\ mpPc' = [mpPc EXCEPT ![c] = "deliver"]
           \/ UNCHANGED linked /\ mpPc' = [mpPc EXCEPT ![c] = "idle"]
    BY <1>3 DEF LinkHandler, MpGoto, regVars, irqVars, histVars
  <2>2. Src(c) \in Source /\ mpCall[c].fn = "register"
    BY <1>t, <2>1 DEF MpicCallsInv
  <2>3. \A s \in Source : linked[s] > 0 => linked'[s] > 0
    <3>1. linked' = linked \/ linked' = [linked EXCEPT ![Src(c)] = linked[Src(c)] + 1]
      BY <2>1
    <3>2. linked \in [Source -> Nat]
      BY <1>t DEF MpicTyped
    <3> HIDE DEF Src
    <3> QED BY <2>2, <3>1, <3>2
  <2>4. mpPc'[c] = "deliver" => linked'[Src(c)] > 0
    BY <1>t, <2>1, <2>2 DEF MpicTyped
  <2>5. /\ \A d \in MpCpu : d # c => mpPc'[d] = mpPc[d]
        /\ mpPc'[c] \in {"deliver", "idle"} /\ mpPc' \in [MpCpu -> MpicStages]
        /\ linked' \in [Source -> Nat]
    <3>1. CASE linked' = [linked EXCEPT ![Src(c)] = @ + 1] /\ mpPc' = [mpPc EXCEPT ![c] = "deliver"]
      BY <1>t, <2>2, <3>1 DEF MpicTyped, MpicStages
    <3>2. CASE linked' = linked /\ mpPc' = [mpPc EXCEPT ![c] = "idle"]
      BY <1>t, <3>2 DEF MpicTyped, MpicStages
    <3> QED BY <2>1, <3>1, <3>2
  <2>6. MpicTyped'
    BY <1>t, <2>1, <2>5 DEF MpicTyped
  <2>7. MpicCallsInv'
    BY <1>t, <2>1, <2>2, <2>5 DEF MpicCallsInv, Counter, Src, Changing
  <2>8. MpicLinked'
    BY <1>t, <2>1, <2>3, <2>4, <2>5 DEF MpicLinked, MpicCallsInv, Src
  <2> QED BY <1>t, <2>1, <2>5, <2>6, <2>7, <2>8, MpicQuiet DEF Src, Changing
<1>4. CASE SetDelivery(c)
  <2>1. /\ mpPc[c] = "deliver" /\ mpPc' = [mpPc EXCEPT ![c] = "read"]
        /\ mpCall' = [mpCall EXCEPT ![c].value = 0]
        /\ UNCHANGED <<vecpri, want, bypassed, irqLock, maskCount, linked, ctpr, mpTmp, mpic_lock>>
    BY <1>4 DEF SetDelivery, MpGoto, irqVars, histVars
  <2>2. Src(c) \in Source /\ mpCall[c].fn = "register"
    BY <1>t, <2>1 DEF MpicCallsInv
  <2>3. /\ \A d \in MpCpu : d # c => mpPc'[d] = mpPc[d] /\ mpCall'[d] = mpCall[d]
        /\ mpPc'[c] = "read" /\ mpCall'[c].fn = mpCall[c].fn /\ mpCall'[c].src = mpCall[c].src
        /\ mpCall'[c].field = mpCall[c].field /\ mpCall'[c].value = 0
    BY <1>t, <2>1 DEF MpicTyped
  <2>4. MpicTyped'
    BY <1>t, <2>1 DEF MpicTyped, MpicStages
  <2>5. MpicCallsInv'
    BY <1>t, <2>1, <2>2, <2>3 DEF MpicCallsInv, Counter, Src, Changing
  <2>6. MpicLinked'
    BY <1>t, <2>1, <2>3 DEF MpicLinked, Src
  <2>7. MpicLocks'
    BY <1>t, <2>1, <2>2, <2>3 DEF MpicLocks, Counter, Src, Changing
  <2>8. MpicMasks'
    <3>1. \A d \in MpCpu, s \in Source : OnItsWay(d, s)' <=> OnItsWay(d, s)
      BY <2>1, <2>2, <2>3 DEF OnItsWay, Counter, Src, Changing
    <3> QED BY <1>t, <2>1, <2>3, <3>1 DEF MpicMasks, OnItsWay, Counter
  <2>9. MpicCounts'
    <3>1. \A s : Unmasking(s)' = Unmasking(s)
      BY <2>1, <2>2, <2>3 DEF Unmasking, Src
    <3> QED BY <1>t, <2>1, <3>1 DEF MpicCounts
  <2> QED BY <1>t, <2>1, <2>4, <2>5, <2>6, <2>7, <2>8, <2>9 DEF MpicInv
<1>5. CASE CountMask(c)
  <2> DEFINE s == Src(c)
             mask == mpCall[c].fn = "mask"
  <2>1. /\ mpPc[c] = "count" /\ irqLock[s] = Unlocked
        /\ irqLock' = [irqLock EXCEPT ![s] = c]
        /\ maskCount' = [maskCount EXCEPT ![s] = IF mask THEN @ + 1 ELSE @ - 1]
        /\ bypassed' = IF maskCount'[s] = 0 THEN bypassed \ {s} ELSE bypassed
        /\ mpPc' = [mpPc EXCEPT ![c] = IF 0 \in {maskCount[s], maskCount'[s]} THEN "read" ELSE "uncount"]
        /\ UNCHANGED <<vecpri, want, ctpr, mpic_lock, linked, mpCall, mpTmp>>
    BY <1>5 DEF CountMask, MpGoto, regVars
  <2>2. s \in Source /\ Counter(c) /\ mpCall[c].field = "msk"
    BY <1>t, <2>1 DEF MpicCallsInv
  <2>3. maskCount[s] \in Nat /\ (~mask => maskCount[s] > 0)
    <3>0. maskCount[s] \in Int /\ maskCount[s] >= Cardinality(Unmasking(s)) /\ Cardinality(Unmasking(s)) \in Nat
      BY <1>t, <2>2, UnmaskingFinite DEF MpicTyped, MpicCounts
    <3>1. ASSUME ~mask PROVE Cardinality(Unmasking(s)) # 0
      <4>1. c \in Unmasking(s)
        BY <2>1, <2>2, <3>1 DEF Unmasking, Counter
      <4> QED BY <4>1, UnmaskingFinite, FS_EmptySet
    <3> QED BY <3>0, <3>1
  <2>4. /\ maskCount'[s] = IF mask THEN maskCount[s] + 1 ELSE maskCount[s] - 1
        /\ \A r \in Source : r # s => maskCount'[r] = maskCount[r] /\ irqLock'[r] = irqLock[r]
        /\ irqLock'[s] = c
    BY <1>t, <2>1, <2>2 DEF MpicTyped
  <2>5. /\ mpPc'[c] = IF 0 \in {maskCount[s], maskCount'[s]} THEN "read" ELSE "uncount"
        /\ \A d \in MpCpu : d # c => mpPc'[d] = mpPc[d]
        /\ \A d \in MpCpu : Src(d)' = Src(d) /\ (Counter(d)' <=> Counter(d))
    BY <1>t, <2>1 DEF MpicTyped, Src, Counter
  <2>6. MpicTyped'
    <3>1. maskCount' \in [Source -> Int] /\ irqLock' \in [Source -> MpCpu \cup {Unlocked}]
          /\ mpPc' \in [MpCpu -> MpicStages]
      BY <1>t, <2>1, <2>2 DEF MpicTyped, MpicStages
    <3> QED BY <1>t, <2>1, <3>1 DEF MpicTyped
  <2>7. MpicCallsInv'
    BY <1>t, <2>1, <2>2, <2>5 DEF MpicCallsInv, Changing
  <2>8. MpicLinked'
    BY <1>t, <2>1, <2>5 DEF MpicLinked
  <2>9. \A d \in MpCpu : ~OnItsWay(d, s)
    BY <1>t, <2>1 DEF MpicLocks, OnItsWay
  <2>10. MpicLocks'
    BY <1>t, <2>1, <2>2, <2>4, <2>5 DEF MpicLocks, Changing
  <2>11. MpicMasks'
    <3>1. \A d \in MpCpu, r \in Source : d # c => (OnItsWay(d, r)' <=> OnItsWay(d, r))
      BY <2>5 DEF OnItsWay
    <3>2. \A r \in Source : OnItsWay(c, r)' <=> r = s /\ 0 \in {maskCount[s], maskCount'[s]}
      BY <2>2, <2>5 DEF OnItsWay, Changing
    <3>3. 0 \in {maskCount[s], maskCount'[s]} => maskCount'[s] = IF mask THEN 1 ELSE 0
      BY <2>3, <2>4
    <3>4. ASSUME NEW d \in MpCpu, NEW r \in Source, OnItsWay(d, r)'
          PROVE  maskCount'[r] = IF mpCall'[d].fn = "mask" THEN 1 ELSE 0
      <4>1. CASE d = c
        BY <2>1, <3>2, <3>3, <3>4, <4>1
      <4>2. CASE d # c
        BY <1>t, <2>1, <2>4, <2>9, <3>1, <3>4, <4>2 DEF MpicMasks
      <4> QED BY <4>1, <4>2
    <3>5. ASSUME NEW r \in Source
          PROVE  \/ \E d \in MpCpu : OnItsWay(d, r)'
                 \/ vecpri'[r]["msk"] = 1 <=> maskCount'[r] > 0
                 \/ r \in bypassed'
      <4>1. CASE r # s
        <5>1. ~OnItsWay(c, r)
          BY <2>1 DEF OnItsWay, Changing
        <5>2. r \in bypassed' <=> r \in bypassed
          BY <2>1, <4>1
        <5>3. vecpri'[r]["msk"] = 1 <=> vecpri[r]["msk"] = 1
          BY <2>1
        <5>4. maskCount'[r] = maskCount[r]
          BY <2>4, <4>1
        <5>5. CASE \E d \in MpCpu : OnItsWay(d, r)
          BY <3>1, <5>1, <5>5
        <5>6. CASE ~\E d \in MpCpu : OnItsWay(d, r)
          BY <1>t, <5>2, <5>3, <5>4, <5>6 DEF MpicMasks
        <5> QED BY <5>5, <5>6
      <4>2. CASE r = s /\ 0 \in {maskCount[s], maskCount'[s]}
        BY <3>2, <4>2
      <4>3. CASE r = s /\ 0 \notin {maskCount[s], maskCount'[s]}
        <5>1. maskCount[s] > 0 /\ maskCount'[s] > 0 /\ bypassed' = bypassed /\ vecpri' = vecpri
          BY <2>1, <2>3, <2>4, <4>3
        <5>2. vecpri[s]["msk"] = 1 \/ s \in bypassed
          BY <1>t, <2>2, <2>9, <5>1 DEF MpicMasks
        <5> QED BY <4>3, <5>1, <5>2
      <4> QED BY <4>1, <4>2, <4>3
    <3> QED BY <3>4, <3>5 DEF MpicMasks
  <2>12. MpicCounts'
    <3> SUFFICES ASSUME NEW r \in Source PROVE maskCount'[r] >= Cardinality(Unmasking(r)')
      BY DEF MpicCounts
    <3>0. maskCount[r] \in Int /\ maskCount[r] >= Cardinality(Unmasking(r)) /\ Cardinality(Unmasking(r)) \in Nat
      BY <1>t, UnmaskingFinite DEF MpicTyped, MpicCounts
    <3>1. mpPc'[c] # "count"
      BY <2>5
    <3>2. CASE r # s \/ mask
      <4>1. Unmasking(r)' = Unmasking(r)
        BY <2>1, <2>5, <3>1, <3>2 DEF Unmasking
      <4>2. maskCount'[r] >= maskCount[r]
        BY <2>3, <2>4, <3>2, <3>0
      <4>3. maskCount'[r] \in Int
        BY <2>6 DEF MpicTyped
      <4> QED BY <3>0, <4>1, <4>2, <4>3
    <3>3. CASE r = s /\ ~mask
      <4>1. Unmasking(s)' = Unmasking(s) \ {c} /\ c \in Unmasking(s)
        BY <2>1, <2>2, <2>5, <3>1, <3>3 DEF Unmasking, Counter
      <4>2. Cardinality(Unmasking(s) \ {c}) = Cardinality(Unmasking(s)) - 1
        BY <4>1, UnmaskingFinite, FS_RemoveElement
      <4>3. maskCount'[s] = maskCount[s] - 1
        BY <2>4, <3>3
      <4>4. maskCount[s] - 1 >= Cardinality(Unmasking(s)) - 1
        BY <3>0, <3>3
      <4>5. maskCount'[s] >= Cardinality(Unmasking(s)')
        BY <4>1, <4>2, <4>3, <4>4
      <4> QED BY <2>5, <3>3, <4>5
    <3> QED BY <3>2, <3>3
  <2> QED BY <1>t, <2>1, <2>6, <2>7, <2>8, <2>10, <2>11, <2>12 DEF MpicInv
<1>6. CASE UncountMask(c)
  <2>1. /\ mpPc[c] = "uncount" /\ mpPc' = [mpPc EXCEPT ![c] = "idle"]
        /\ irqLock' = [irqLock EXCEPT ![Src(c)] = Unlocked]
        /\ UNCHANGED <<vecpri, want, bypassed, maskCount, linked, ctpr, mpCall, mpTmp, mpic_lock>>
    BY <1>6 DEF UncountMask, MpGoto, regVars, histVars
  <2>2. Src(c) \in Source /\ Counter(c) /\ irqLock[Src(c)] = c
    BY <1>t, <2>1 DEF MpicCallsInv, MpicLocks
  <2>3. /\ mpPc'[c] = "idle" /\ \A d \in MpCpu : d # c => mpPc'[d] = mpPc[d]
        /\ \A d \in MpCpu : Src(d)' = Src(d) /\ (Counter(d)' <=> Counter(d))
        /\ \A r \in Source : r # Src(c) => irqLock'[r] = irqLock[r]
    BY <1>t, <2>1 DEF MpicTyped, Src, Counter
  <2>4. MpicTyped'
    <3>1. irqLock' \in [Source -> MpCpu \cup {Unlocked}] /\ mpPc' \in [MpCpu -> MpicStages]
      BY <1>t, <2>1, <2>2 DEF MpicTyped, MpicStages
    <3> QED BY <1>t, <2>1, <3>1 DEF MpicTyped
  <2>5. MpicCallsInv' /\ MpicLinked'
    BY <1>t, <2>1, <2>3 DEF MpicCallsInv, MpicLinked, Changing
  <2>6. MpicLocks'
    BY <1>t, <2>1, <2>2, <2>3 DEF MpicLocks, Changing
  <2>7. MpicMasks'
    <3>1. \A d \in MpCpu, s \in Source : OnItsWay(d, s)' <=> OnItsWay(d, s)
      BY <2>1, <2>3 DEF OnItsWay, Changing
    <3> QED BY <1>t, <2>1, <3>1 DEF MpicMasks
  <2>8. MpicCounts'
    <3>1. \A s : Unmasking(s)' = Unmasking(s)
      BY <2>1, <2>3 DEF Unmasking
    <3> QED BY <1>t, <2>1, <3>1 DEF MpicCounts
  <2> QED BY <1>t, <2>1, <2>4, <2>5, <2>6, <2>7, <2>8 DEF MpicInv
<1> QED BY MpicWrites, <1>1, <1>2, <1>3, <1>4, <1>5, <1>6 DEF MpicStep

-----------------------------------------------------------------------------
(* The theorems                                                            *)

LEMMA MpicNextHolds == MpicInv /\ [MpicNext]_mpicVars => MpicInv'
<1> SUFFICES ASSUME MpicInv, [MpicNext]_mpicVars PROVE MpicInv'
  OBVIOUS
<1>1. ASSUME UNCHANGED <<vecpri, ctpr, mpic_lock, irqVars, mpPc, mpCall, mpTmp, histVars>>
      PROVE  MpicInv'
  <2>1. \A s : Unmasking(s)' = Unmasking(s)
    BY <1>1 DEF Unmasking, Src
  <2>2. MpicCounts'
    BY <1>1, <2>1 DEF MpicInv, MpicCounts, irqVars
  <2> QED BY <1>1, <2>2 DEF MpicInv, MpicTyped, MpicCallsInv, MpicLocks, MpicLinked, MpicMasks,
      OnItsWay, Counter, Src, irqVars, histVars
<1>2. CASE UNCHANGED mpicVars
  BY <1>1, <1>2 DEF mpicVars, regVars
<1>3. ASSUME NEW s \in Source, RaiseSource(s) \/ Serviced(s) PROVE MpicInv'
  BY <1>1, <1>3 DEF RaiseSource, Serviced
<1>4. CASE mpic_init
  <2>1. /\ ctpr = -1 /\ ctpr' = 0 /\ want' = vecpri'
        /\ vecpri' = [s \in Source |-> [f \in Field |-> IF f = "priority" THEN 0 ELSE 1]]
        /\ maskCount' = [s \in Source |-> 1]
        /\ UNCHANGED <<mpic_lock, irqLock, linked, mpPc, mpCall, mpTmp, bypassed>>
    BY <1>4 DEF mpic_init
  <2>2. \A c \in MpCpu : mpPc[c] = "idle"
    BY <2>1 DEF MpicInv, MpicCallsInv
  <2>3. \A s \in Source : vecpri'[s] \in [Field -> Nat] /\ vecpri'[s]["msk"] = 1
    BY <2>1 DEF Field
  <2>4. MpicTyped'
    BY <2>1, <2>3 DEF MpicInv, MpicTyped
  <2>5. MpicCallsInv' /\ MpicLocks' /\ MpicLinked'
    BY <2>1, <2>2, <2>3 DEF MpicCallsInv, MpicLocks, MpicLinked, Changing
  <2>6. MpicMasks'
    BY <2>1, <2>2, <2>3 DEF MpicMasks, OnItsWay, Changing
  <2>7. MpicCounts'
    <3> SUFFICES ASSUME NEW s \in Source PROVE maskCount'[s] >= Cardinality(Unmasking(s)')
      BY DEF MpicCounts
    <3>1. Unmasking(s)' = {}
      BY <2>1, <2>2 DEF Unmasking
    <3>2. Cardinality({}) = 0
      BY FS_EmptySet
    <3> QED BY <2>1, <3>1, <3>2
  <2> QED BY <2>1, <2>4, <2>5, <2>6, <2>7 DEF MpicInv
<1> QED BY <1>2, <1>3, <1>4, CallBegins, MpicSteps DEF MpicNext

LEMMA MpicInvSound == MpicInv => MpicSound
<1> SUFFICES ASSUME MpicInv, ctpr = 0, NEW s \in Source
             PROVE  /\ vecpri[s] = want[s]
                    /\ vecpri[s]["msk"] = 0 => linked[s] > 0
                    /\ irqLock[s] = Unlocked =>
                         (vecpri[s]["msk"] = 1 <=> maskCount[s] > 0) \/ s \in bypassed
  BY DEF MpicSound
<1>1. vecpri[s] = want[s] /\ (vecpri[s]["msk"] = 0 => linked[s] > 0)
  BY DEF MpicInv, MpicLinked
<1>2. irqLock[s] = Unlocked => \A c \in MpCpu : ~OnItsWay(c, s)
  BY MpCpuAssumption DEF MpicInv, MpicLocks, OnItsWay, Unlocked
<1> QED BY <1>1, <1>2 DEF MpicInv, MpicMasks

(* Whichever cores change fields of the registers, register handlers, mask  *)
(* and unmask at the same time: no change undoes another, no source is      *)
(* unmasked without a handler, and it is masked as its count says unless a  *)
(* registration unmasked it past the count (mpic.c:330-352).                *)
THEOREM MpicAlwaysSound == MpicSpec => []MpicSound
  BY MpicInvSound, MpicInitHolds, MpicNextHolds, PTL DEF MpicSpec

-----------------------------------------------------------------------------
(* The threads of a core: the lead, thread 0, which starts the other.       *)

Lead(x) == x % tpc = 0
Second(x) == tpc = 2 /\ x % 2 = 1

Starting == {"begin", "tenc", "percpu", "tens"}
Releasing == {"node", "r3", "pir", "hi", "lo", "flush"}
Filling == {"r3", "pir", "hi", "lo", "flush"}
Holding == {"p_tenc", "p_wait", "paused", "p_unlock"}
Stopping == {"p_wait", "paused"}
UpNow == {"up", "p_lock"} \cup Holding
Places == {"off", "spin", "hw_start", "count", "wait"} \cup Starting \cup Releasing \cup UpNow

ThreadTypes ==
    /\ tpc \in {1, 2} /\ cpuNodes \in [1 .. NCores -> NodeKind] /\ nodeAt \in 1 .. NCores + 1
    /\ hwPc \in [HwThread -> Places] /\ enabled \in [HwThread -> BOOLEAN] /\ running \in [HwThread -> BOOLEAN]
    /\ table \in [HwThread -> [r3 : Int, pir : Int, hi : BOOLEAN, lo : BOOLEAN]]
    /\ percpus \in [HwThread -> Int] /\ hwPir \in [HwThread -> Int] /\ hwCpu \in [HwThread -> Int]
    /\ pauseLock \in [0 .. NCores -> HwThread \cup {None}] /\ timedOut \in BOOLEAN
    /\ startedThreads \in Nat /\ releasedCnt \in Int

(* Where a thread can be.                                                   *)
ThreadPlaces ==
    /\ hwPc[0] \in Starting \cup Releasing \cup {"wait"} \cup UpNow
    /\ \A x \in HwThread \ {0} :
          /\ ~Present(x) => hwPc[x] = "off" /\ ~enabled[x]
          /\ Present(x) /\ Lead(x) => hwPc[x] \in {"spin", "count"} \cup Starting \cup UpNow
          /\ Second(x) => hwPc[x] \in {"off", "hw_start", "count"} \cup UpNow
    /\ tpc = 1 => \A x \in HwThread : hwPc[x] \notin {"tenc", "percpu", "tens", "p_lock"} \cup Holding
    /\ \A x \in HwThread : hwPc[x] = "off" => ~running[x]
    /\ \A x \in HwThread : Second(x) /\ (enabled[x] \/ hwPc[x] # "off") => hwPc[x - 1] \notin {"spin"} \cup Starting

(* What is handed to it.                                                    *)
ThreadData ==
    /\ hwPir[0] = 0
    /\ \A x \in HwThread \ {0} : hwPc[x] \notin {"off", "spin", "hw_start"} => hwCpu[x] = x - 1 /\ hwPir[x] = x
    /\ \A x \in HwThread : Second(x) /\ hwPc[x] \in {"off", "hw_start"} => hwPir[x] = 8 * (x \div 2) + 1
    /\ \A x \in HwThread : Second(x) /\ hwPc[x - 1] \notin {"spin", "begin", "tenc", "percpu"} => percpus[x] = x - 1
    /\ \A x \in HwThread : table[x].lo =>
          table[x].r3 = x - 1 /\ table[x].pir = x /\ x # 0 /\ Present(x) /\ Lead(x) /\ cpuNodes[CoreOf(x)] = "ready"
    /\ hwPc[0] \in Filling => nodeAt <= NCores /\ Released
    /\ hwPc[0] \in {"pir", "hi", "lo"} => table[NodePir].r3 = NodePir - 1
    /\ hwPc[0] \in {"hi", "lo"} => table[NodePir].pir = NodePir

(* The threads that take part, and those that counted themselves.           *)
TakesPart(x) == x # 0 /\ Present(x) /\ (CoreOf(x) = 0 \/ cpuNodes[CoreOf(x)] = "ready")
PartTakers == {x \in HwThread : TakesPart(x)}
Counters == {x \in HwThread \ {0} : hwPc[x] \in UpNow}
ToRelease(n) == {c \in 1 .. NCores : c < n /\ cpuNodes[c] = "ready"}
ThreadCounts ==
    /\ \A x \in HwThread \ {0} : hwPc[x] \notin {"off", "spin", "hw_start"} => TakesPart(x)
    /\ startedThreads = Cardinality(Counters) + 1
    /\ hwPc[0] \in Starting \cup Releasing => releasedCnt = Cardinality(ToRelease(nodeAt))
    /\ hwPc[0] \in {"wait"} \cup UpNow => releasedCnt < 0 \/ releasedCnt = Cardinality(ToRelease(NCores + 1))
    /\ hwPc[0] \in UpNow /\ releasedCnt >= 0 => PartTakers \subseteq Counters

(* Who holds the lock of a core's pauses, and who is stopped.               *)
ThreadPauses ==
    /\ \A x \in HwThread : Present(x) => (pauseLock[CoreOf(x)] = x <=> hwPc[x] \in Holding)
    /\ \A x \in HwThread : hwPc[x] \in Stopping => \A y \in Siblings(x) : ~enabled[y]
    /\ \A x \in HwThread : hwPc[x] = "paused" => \A y \in Siblings(x) : ~running[y]
    /\ \A x \in HwThread : ~enabled[x] /\ hwPc[x] # "off" =>
          timedOut \/ \E y \in Siblings(x) : hwPc[y] \in Stopping

Powered == ThreadTypes /\ ThreadPlaces /\ ThreadData /\ ThreadCounts /\ ThreadPauses
SmpInv == SmpInit \/ Powered

LEMMA Threads ==
    ASSUME tpc \in {1, 2}, NEW x \in HwThread
    PROVE  /\ x \in Nat /\ 0 \in HwThread
           /\ Lead(0) /\ Present(0) /\ CoreOf(0) = 0
           /\ Lead(x) <=> ~Second(x)
           /\ Second(x) => /\ tpc = 2 /\ x - 1 \in HwThread /\ Lead(x - 1) /\ x # 0 /\ Present(x) /\ Present(x - 1)
                           /\ CoreOf(x - 1) = CoreOf(x)
           /\ Lead(x) /\ tpc = 2 => x + 1 \in HwThread /\ Second(x + 1) /\ Present(x)
           /\ Present(x) => CoreOf(x) \in 0 .. NCores
<1>1. x \in Nat /\ 0 \in HwThread /\ x <= 2 * NCores + 1
  BY SmpAssumption DEF HwThread
<1>2. CASE tpc = 1
  <2>1. CoreOf(x) = x /\ CoreOf(0) = 0
    BY <1>1, <1>2 DEF CoreOf
  <2>2. Lead(x) /\ Lead(0)
    BY <1>1, <1>2 DEF Lead
  <2> QED BY <1>1, <1>2, <2>1, <2>2, SmpAssumption DEF Second, Present
<1>3. CASE tpc = 2
  <2>1. CoreOf(x) = x \div 2 /\ CoreOf(0) = 0 /\ Lead(0)
    BY <1>3 DEF CoreOf, Lead
  <2>2. Lead(x) <=> x % 2 = 0
    BY <1>3 DEF Lead
  <2>3. Second(x) <=> x % 2 = 1
    BY <1>3 DEF Second
  <2>4. x % 2 \in {0, 1} /\ x \div 2 \in 0 .. NCores
    BY <1>1, SmpAssumption
  <2>5. Present(x) /\ Present(0)
    BY <2>1, <2>4, SmpAssumption DEF Present
  <2>6. x % 2 = 1 => /\ x - 1 \in HwThread /\ (x - 1) % 2 = 0 /\ x # 0 /\ (x - 1) \div 2 = x \div 2
    BY <1>1, SmpAssumption DEF HwThread
  <2>7. x % 2 = 0 => x + 1 \in HwThread /\ (x + 1) % 2 = 1
    BY <1>1, SmpAssumption DEF HwThread
  <2>8. Second(x) => /\ x - 1 \in HwThread /\ Lead(x - 1) /\ x # 0 /\ Present(x - 1) /\ CoreOf(x - 1) = CoreOf(x)
    <3> SUFFICES ASSUME Second(x) PROVE x - 1 \in HwThread /\ Lead(x - 1) /\ x # 0 /\ Present(x - 1) /\ CoreOf(x - 1) = CoreOf(x)
      OBVIOUS
    <3>1. x - 1 \in HwThread /\ (x - 1) % 2 = 0 /\ x # 0 /\ (x - 1) \div 2 = x \div 2
      BY <2>3, <2>6
    <3>2. CoreOf(x - 1) = CoreOf(x) /\ Lead(x - 1)
      BY <1>3, <3>1 DEF CoreOf, Lead
    <3> QED BY <2>5, <3>1, <3>2 DEF Present
  <2>9. Lead(x) => x + 1 \in HwThread /\ Second(x + 1)
    BY <1>3, <2>2, <2>7 DEF Second
  <2> QED BY <1>1, <1>3, <2>1, <2>2, <2>3, <2>4, <2>5, <2>8, <2>9
<1> QED BY <1>2, <1>3

(* The other thread of a core.                                              *)
LEMMA Others ==
    ASSUME tpc \in {1, 2}, NEW x \in HwThread, NEW y \in Siblings(x)
    PROVE  /\ tpc = 2 /\ y \in HwThread /\ y # x /\ CoreOf(y) = CoreOf(x) /\ Present(y) /\ Present(x) /\ x \in Siblings(y)
           /\ Lead(x) => y = x + 1 /\ Second(y)
           /\ Second(x) => y = x - 1 /\ Lead(y)
           /\ \A z \in Siblings(x) : z = y
<1>1. y \in HwThread /\ y # x /\ Present(y) /\ CoreOf(y) = CoreOf(x)
  BY DEF Siblings
<1>2. x \in Nat /\ y \in Nat /\ \A z \in HwThread : z \in Nat
  BY <1>1 DEF HwThread
<1>3. tpc = 2
  BY <1>1, <1>2 DEF CoreOf
<1>4. \A z \in HwThread : CoreOf(z) = z \div 2 /\ (Lead(z) <=> z % 2 = 0) /\ (Second(z) <=> z % 2 = 1)
  BY <1>3 DEF CoreOf, Lead, Second
<1>5. x \div 2 = y \div 2
  BY <1>1, <1>4
<1>6. /\ x % 2 = 0 => y = x + 1 /\ y % 2 = 1
      /\ x % 2 = 1 => y = x - 1 /\ y % 2 = 0
      /\ x % 2 \in {0, 1}
  BY <1>1, <1>2, <1>5
<1>7. ASSUME NEW z \in Siblings(x) PROVE z = y
  <2>1. z \in HwThread /\ z # x /\ z \div 2 = x \div 2 /\ z \in Nat
    BY <1>2, <1>4, <1>7 DEF Siblings
  <2>2. (x % 2 = 0 => z = x + 1) /\ (x % 2 = 1 => z = x - 1)
    BY <1>2, <2>1
  <2> QED BY <1>6, <2>2
<1>8. Present(x) /\ x \in Siblings(y)
  BY <1>1 DEF Present, Siblings
<1> QED BY <1>1, <1>3, <1>4, <1>6, <1>7, <1>8

(* What a step after power on leaves alone.                                 *)
LEMMA Same ==
    ASSUME tpc' = tpc, cpuNodes' = cpuNodes
    PROVE  /\ \A x : Lead(x)' <=> Lead(x)
           /\ \A x : Second(x)' <=> Second(x)
           /\ \A x : Present(x)' <=> Present(x)
           /\ \A x : CoreOf(x)' = CoreOf(x)
           /\ \A x : Siblings(x)' = Siblings(x)
           /\ \A x : TakesPart(x)' <=> TakesPart(x)
           /\ PartTakers' = PartTakers /\ \A n : ToRelease(n)' = ToRelease(n)
  BY DEF Lead, Second, Present, CoreOf, Siblings, TakesPart, PartTakers, ToRelease

(* A thread that starts by itself finds its own cpu_t.                      *)
LEMMA StartsItself ==
    ASSUME Powered, NEW x \in HwThread, hwPc[x] = "hw_start"
    PROVE  Second(x) /\ FixedPir(hwPir[x]) = x /\ percpus[x] = x - 1 /\ x # 0
<1>1. tpc \in {1, 2} /\ ThreadPlaces /\ ThreadData
  BY DEF Powered, ThreadTypes
<1>2. x # 0
  BY <1>1 DEF ThreadPlaces, Starting, Releasing, UpNow, Holding
<1>3. Second(x)
  <2>1. Present(x)
    BY <1>1, <1>2 DEF ThreadPlaces
  <2>2. ~Lead(x)
    BY <1>1, <1>2, <2>1 DEF ThreadPlaces, Starting, UpNow, Holding
  <2> QED BY <1>1, <2>2, Threads
<1>4. hwPir[x] = 8 * (x \div 2) + 1
  BY <1>1, <1>3 DEF ThreadData
<1>5. x \in Nat /\ x % 2 = 1
  BY <1>1, <1>3, Threads DEF Second
<1>6. PICK k \in Nat : k = x \div 2 /\ x = 2 * k + 1
  BY <1>5
<1>7. (8 * k + 1) \div 8 = k /\ (8 * k + 1) % 2 = 1
  BY <1>6
<1>8. FixedPir(hwPir[x]) = x
  BY <1>4, <1>6, <1>7 DEF FixedPir
<1>9. hwPc[x - 1] \notin {"spin", "begin", "tenc", "percpu"}
  BY <1>1, <1>3 DEF ThreadPlaces, Starting
<1> QED BY <1>1, <1>2, <1>3, <1>8, <1>9 DEF ThreadData

(* The node whose table is being filled.                                    *)
LEMMA NodeOf ==
    ASSUME Powered, hwPc[0] \in Filling
    PROVE  /\ nodeAt \in 1 .. NCores /\ cpuNodes[nodeAt] = "ready"
           /\ NodePir \in HwThread /\ NodePir # 0 /\ Lead(NodePir) /\ Present(NodePir) /\ CoreOf(NodePir) = nodeAt
<1>1. tpc \in {1, 2} /\ nodeAt \in 1 .. NCores + 1 /\ nodeAt <= NCores /\ cpuNodes[nodeAt] = "ready"
  BY DEF Powered, ThreadTypes, ThreadData, Released
<1>2. nodeAt \in 1 .. NCores
  BY <1>1, SmpAssumption
<1>3. CASE tpc = 1
  <2>1. NodePir = nodeAt /\ CoreOf(nodeAt) = nodeAt /\ Lead(nodeAt)
    BY <1>2, <1>3 DEF NodePir, CoreOf, Lead
  <2> QED BY <1>1, <1>2, <2>1, SmpAssumption DEF HwThread, Present
<1>4. CASE tpc = 2
  <2>1. NodePir = 2 * nodeAt
    BY <1>2, <1>4 DEF NodePir
  <2>2. PICK p \in Nat : p = 2 * nodeAt
    BY <1>2
  <2>3. p % 2 = 0 /\ p \div 2 = nodeAt
    BY <1>2, <2>2
  <2>4. CoreOf(p) = nodeAt /\ Lead(p)
    BY <1>4, <2>3 DEF CoreOf, Lead
  <2> QED BY <1>1, <1>2, <2>1, <2>2, <2>4, SmpAssumption DEF HwThread, Present
<1> QED BY <1>1, <1>3, <1>4

LEMMA TableRecord ==
    ASSUME NEW t \in [r3 : Int, pir : Int, hi : BOOLEAN, lo : BOOLEAN], NEW v \in Int
    PROVE  [t EXCEPT !.r3 = v] \in [r3 : Int, pir : Int, hi : BOOLEAN, lo : BOOLEAN]
  OBVIOUS

-----------------------------------------------------------------------------
(* A step of a thread, after power on                                       *)

ThreadStep(x) == BootStep(x) \/ Pause(x) \/ PauseStep(x)

LEMMA StepKeeps ==
    ASSUME NEW x, ThreadStep(x)
    PROVE  tpc' = tpc /\ cpuNodes' = cpuNodes
  BY DEF ThreadStep, BootStep, PauseStep, Begin, StopThread, HandOver, StartThread, hw_thread_start,
       secondary_start, CountStarted, SwitchThread, NextNode, EndOfNodes, FillTable, CountReleased,
       WaitStarted, Pause, PauseLock, DisableOthers, Paused, PauseTimeout, ResumeOthers, PauseUnlock, Store,
       startVars

LEMMA StepTypes ==
    ASSUME Powered, NEW x \in HwThread, ThreadStep(x)
    PROVE  ThreadTypes'
<1>a. hwPc[x] = "hw_start" => FixedPir(hwPir[x]) = x /\ percpus[x] = x - 1
  BY StartsItself
<1>b. hwPc[0] \in Filling => NodePir \in HwThread /\ nodeAt \in 1 .. NCores
  BY NodeOf
<1> USE DEF ThreadTypes, Powered, Places, Starting, Releasing, UpNow, Holding, On, HwGoto, startVars,
     handVars, pauseVars
<1>1. CASE Begin(x)
  BY <1>1 DEF Begin, AfterStart
<1>2. CASE StopThread(x)
  BY <1>2 DEF StopThread
<1>3. CASE HandOver(x)
  BY <1>3 DEF HandOver
<1>4. CASE StartThread(x)
  BY <1>4 DEF StartThread, AfterStart
<1>5. CASE hw_thread_start(x)
  <2>1. hwPir' = [hwPir EXCEPT ![x] = x] /\ hwCpu' = [hwCpu EXCEPT ![x] = x - 1] /\ x \in Int
    BY <1>5, <1>a DEF hw_thread_start, HwThread
  <2>2. hwPir' \in [HwThread -> Int] /\ hwCpu' \in [HwThread -> Int]
    BY <2>1
  <2> QED BY <1>5, <2>2 DEF hw_thread_start
<1>6. CASE secondary_start(x)
  BY <1>6 DEF secondary_start
<1>7. CASE CountStarted(x)
  BY <1>7 DEF CountStarted
<1>8. CASE SwitchThread(x)
  BY <1>8 DEF SwitchThread
<1>9. CASE NextNode
  <2>1. nodeAt' \in 1 .. NCores + 1 /\ hwPc' \in [HwThread -> Places]
    <3>1. CASE Released
      BY <1>9, <3>1 DEF NextNode
    <3>2. CASE ~Released
      <4>1. nodeAt' = nodeAt + 1 /\ nodeAt <= NCores /\ nodeAt \in 1 .. NCores + 1 /\ hwPc' = hwPc
        BY <1>9, <3>2 DEF NextNode
      <4> QED BY <4>1, SmpAssumption
    <3> QED BY <3>1, <3>2
  <2> QED BY <1>9, <2>1 DEF NextNode
<1>10. CASE EndOfNodes
  <2>1. releasedCnt' \in Int
    <3>1. CASE nodeAt > NCores /\ releasedCnt' = IF cpusLast THEN -1 ELSE releasedCnt
      BY <3>1
    <3>2. CASE releasedCnt' = -256
      BY <3>2
    <3> QED BY <1>10, <3>1, <3>2 DEF EndOfNodes
  <2> QED BY <1>10, <2>1 DEF EndOfNodes
<1>11. CASE FillTable
  <2>1. hwPc[0] \in Filling
    BY <1>11 DEF FillTable, Store, Filling
  <2>2. NodePir \in HwThread /\ NodePir \in Int
    BY <2>1, <1>b DEF HwThread
  <2>3. table' \in [HwThread -> [r3 : Int, pir : Int, hi : BOOLEAN, lo : BOOLEAN]]
    <3> DEFINE p == NodePir
               t == table[p]
    <3>0. p \in HwThread /\ p \in Int /\ t \in [r3 : Int, pir : Int, hi : BOOLEAN, lo : BOOLEAN]
      BY <2>2
    <3>1. table' \in {[table EXCEPT ![p].r3 = p - 1], [table EXCEPT ![p].pir = p],
                     [table EXCEPT ![p].hi = TRUE], [table EXCEPT ![p].lo = TRUE]}
      BY <1>11 DEF FillTable, Store
    <3> HIDE DEF p, t
    <3>2. CASE table' = [table EXCEPT ![p].r3 = p - 1]
      <4>1. [t EXCEPT !.r3 = p - 1] \in [r3 : Int, pir : Int, hi : BOOLEAN, lo : BOOLEAN]
        <5>1. PICK v \in Int : v = p - 1
          BY <3>0
        <5>2. [t EXCEPT !.r3 = v] \in [r3 : Int, pir : Int, hi : BOOLEAN, lo : BOOLEAN]
          BY <3>0, TableRecord
        <5> QED BY <5>1, <5>2
      <4> QED BY <3>0, <3>2, <4>1 DEF t
    <3>3. CASE table' = [table EXCEPT ![p].pir = p]
      BY <3>0, <3>3 DEF t
    <3>4. CASE table' = [table EXCEPT ![p].hi = TRUE]
      BY <3>0, <3>4 DEF t
    <3>5. CASE table' = [table EXCEPT ![p].lo = TRUE]
      BY <3>0, <3>5 DEF t
    <3> QED BY <3>1, <3>2, <3>3, <3>4, <3>5
  <2> QED BY <1>11, <2>3 DEF FillTable, Store
<1>12. CASE CountReleased
  <2>1. hwPc[0] \in Filling
    BY <1>12 DEF CountReleased, Filling
  <2>2. nodeAt' \in 1 .. NCores + 1
    BY <1>12, <2>1, <1>b, SmpAssumption DEF CountReleased
  <2>3. releasedCnt' \in Int
    BY <1>12 DEF CountReleased
  <2>5. hwPc' \in [HwThread -> Places]
    BY <1>12 DEF CountReleased
  <2>4. UNCHANGED <<tpc, cpuNodes, startedThreads, enabled, running, table, percpus, hwPir, hwCpu, pauseLock, timedOut>>
    BY <1>12 DEF CountReleased
  <2> QED BY <2>2, <2>3, <2>4, <2>5
<1>13. CASE WaitStarted
  BY <1>13 DEF WaitStarted
<1>14. CASE Pause(x)
  BY <1>14 DEF Pause
<1>15. CASE PauseLock(x)
  BY <1>15 DEF PauseLock
<1>16. CASE DisableOthers(x)
  BY <1>16 DEF DisableOthers
<1>17. CASE Paused(x)
  BY <1>17 DEF Paused
<1>18. CASE PauseTimeout(x)
  BY <1>18 DEF PauseTimeout
<1>19. CASE ResumeOthers(x)
  BY <1>19 DEF ResumeOthers
<1>20. CASE PauseUnlock(x)
  BY <1>20 DEF PauseUnlock
<1> QED BY <1>1, <1>2, <1>3, <1>4, <1>5, <1>6, <1>7, <1>8, <1>9, <1>10, <1>11, <1>12, <1>13, <1>14, <1>15,
     <1>16, <1>17, <1>18, <1>19, <1>20 DEF ThreadStep, BootStep, PauseStep

LEMMA StepPlaces ==
    ASSUME Powered, NEW x \in HwThread, ThreadStep(x)
    PROVE  ThreadPlaces'
<1>a. /\ tpc' = tpc /\ tpc \in {1, 2} /\ hwPc \in [HwThread -> Places] /\ enabled \in [HwThread -> BOOLEAN]
      /\ running \in [HwThread -> BOOLEAN] /\ ThreadPlaces
  BY StepKeeps DEF Powered, ThreadTypes
<1>b. /\ \A y : Lead(y)' <=> Lead(y)
      /\ \A y : Second(y)' <=> Second(y)
      /\ \A y : Present(y)' <=> Present(y)
  BY StepKeeps, Same
<1>c. \A y \in HwThread : /\ Lead(y) <=> ~Second(y)
                          /\ Second(y) => Present(y) /\ y - 1 \in HwThread /\ y # 0 /\ Lead(y - 1) /\ y \in Nat
  BY <1>a, Threads
<1>d. 0 \in HwThread /\ \A y \in HwThread : y \in Nat /\ (y # 0 => hwPc[y] # "wait" /\ hwPc[y] \notin Releasing)
  <2>1. 0 \in HwThread /\ \A y \in HwThread : y \in Nat
    BY SmpAssumption DEF HwThread
  <2>2. ASSUME NEW y \in HwThread, y # 0 PROVE hwPc[y] # "wait" /\ hwPc[y] \notin Releasing
    <3>1. hwPc[y] \in {"off", "hw_start", "spin", "count"} \cup Starting \cup UpNow
      <4>1. CASE ~Present(y)
        BY <1>a, <2>2, <4>1 DEF ThreadPlaces
      <4>2. CASE Present(y) /\ Lead(y)
        BY <1>a, <2>2, <4>2 DEF ThreadPlaces
      <4>3. CASE Second(y)
        BY <1>a, <2>2, <4>3 DEF ThreadPlaces
      <4> QED BY <1>c, <2>2, <4>1, <4>2, <4>3
    <3> QED BY <3>1 DEF Releasing, Starting, UpNow, Holding
  <2> QED BY <2>1, <2>2
<1>e. Siblings(x) = {} \/ /\ tpc = 2 /\ Siblings(x) \subseteq HwThread
                          /\ \A y \in Siblings(x) : Present(y) /\ (Second(y) => x = y - 1)
  <2>1. ASSUME NEW y \in Siblings(x) PROVE tpc = 2 /\ y \in HwThread /\ Present(y) /\ (Second(y) => x = y - 1)
    <3>1. tpc = 2 /\ y \in HwThread /\ Present(y) /\ x \in Siblings(y)
      BY <1>a, Others
    <3>2. Second(y) => x = y - 1
      BY <1>a, <3>1, Others
    <3> QED BY <3>1, <3>2
  <2> QED BY <2>1
<1>f. tpc = 2 /\ Lead(x) => x + 1 \in HwThread /\ Second(x + 1)
  BY <1>a, Threads
<1>g. Lead(0) /\ Present(0)
  BY <1>a, <1>d, Threads
<1> USE DEF ThreadPlaces, Places, Starting, Releasing, UpNow, Holding, On, HwGoto, startVars, handVars,
     pauseVars
<1>1. CASE Begin(x)
  BY <1>a, <1>b, <1>c, <1>d, <1>1 DEF Begin, AfterStart
<1>2. CASE StopThread(x)
  BY <1>a, <1>b, <1>c, <1>d, <1>f, <1>2 DEF StopThread
<1>3. CASE HandOver(x)
  BY <1>a, <1>b, <1>c, <1>d, <1>3 DEF HandOver
<1>4. CASE StartThread(x)
  <2>1. hwPc[x] = "tens" /\ tpc = 2 /\ Lead(x) /\ hwPc' = [hwPc EXCEPT ![x] = IF x = 0 THEN "node" ELSE "count"]
    <3>1. hwPc[x] = "tens" /\ hwPc' = [hwPc EXCEPT ![x] = IF x = 0 THEN "node" ELSE "count"]
      BY <1>4 DEF StartThread, AfterStart
    <3>2. tpc = 2
      BY <1>a, <3>1
    <3>3. ASSUME Second(x) PROVE FALSE
      <4>1. x # 0
        BY <1>c, <3>3
      <4> QED BY <1>a, <3>1, <3>3, <4>1
    <3> QED BY <1>c, <3>1, <3>2, <3>3
  <2>2. enabled' = [enabled EXCEPT ![x + 1] = TRUE] /\ running' = running
    BY <1>4 DEF StartThread
  <2>3. x + 1 \in HwThread /\ Second(x + 1) /\ Present(x + 1) /\ x + 1 # x /\ Present(x)
    BY <1>c, <1>d, <1>f, <2>1, Threads, <1>a
  <2>4. \A y \in HwThread : y # x => hwPc'[y] = hwPc[y]
    BY <2>1
  <2>5. hwPc'[x] = IF x = 0 THEN "node" ELSE "count"
    BY <1>a, <2>1
  <2>6. \A y \in HwThread : y # x + 1 => enabled'[y] = enabled[y]
    BY <2>2
  <2>7. \A y \in HwThread : Second(y) /\ (enabled'[y] \/ hwPc'[y] # "off") => hwPc'[y - 1] \notin {"spin"} \cup Starting
    <3> TAKE y \in HwThread
    <3>1. CASE y = x + 1
      BY <1>d, <2>5, <3>1
    <3>2. CASE y # x + 1 /\ Second(y)
      <4>1. y # x /\ y - 1 # x /\ y - 1 \in HwThread
        <5>1. y # x /\ y - 1 \in HwThread
          <6>1. Second(y) /\ Lead(x)
            BY <2>1, <3>2
          <6> HIDE DEF ThreadPlaces
          <6>2. y \in HwThread /\ x \in HwThread
            OBVIOUS
          <6>3. ~Second(x) /\ y - 1 \in HwThread
            BY <1>c, <6>1, <6>2
          <6> QED BY <6>1, <6>3
        <5>2. y \in Nat /\ x \in Nat
          BY <1>d
        <5> QED BY <3>2, <5>1, <5>2
      <4> QED BY <1>a, <2>4, <2>6, <3>2, <4>1
    <3> QED BY <3>1, <3>2
  <2>8. \A y \in HwThread \ {0} : /\ ~Present(y) => hwPc'[y] = "off" /\ ~enabled'[y]
                                  /\ Present(y) /\ Lead(y) => hwPc'[y] \in {"spin", "count"} \cup Starting \cup UpNow
                                  /\ Second(y) => hwPc'[y] \in {"off", "hw_start", "count"} \cup UpNow
    BY <1>a, <1>c, <2>1, <2>3, <2>4, <2>5, <2>6
  <2>9. hwPc'[0] \in Starting \cup Releasing \cup {"wait"} \cup UpNow
    BY <1>a, <1>d, <2>4, <2>5
  <2>10. \A y \in HwThread : hwPc'[y] = "off" => ~running'[y]
    BY <1>a, <2>2, <2>4, <2>5
  <2>11. ThreadPlaces'
    <3>1. tpc' # 1
      BY <1>a, <2>1
    <3>2. \A y \in HwThread : Second(y)' /\ (enabled'[y] \/ hwPc'[y] # "off") => hwPc'[y - 1] \notin {"spin"} \cup Starting
      BY <1>b, <2>7
    <3>3. \A y \in HwThread \ {0} : /\ ~Present(y)' => hwPc'[y] = "off" /\ ~enabled'[y]
                                    /\ Present(y)' /\ Lead(y)' => hwPc'[y] \in {"spin", "count"} \cup Starting \cup UpNow
                                    /\ Second(y)' => hwPc'[y] \in {"off", "hw_start", "count"} \cup UpNow
      BY <1>b, <2>8
    <3> HIDE DEF Places, Starting, Releasing, UpNow, Holding, On, HwGoto, startVars, handVars, pauseVars
    <3> QED BY <2>9, <2>10, <3>1, <3>2, <3>3
  <2> QED BY <2>11
<1>5. CASE hw_thread_start(x)
  BY <1>a, <1>b, <1>c, <1>d, <1>5 DEF hw_thread_start
<1>6. CASE secondary_start(x)
  BY <1>a, <1>b, <1>c, <1>d, <1>6 DEF secondary_start
<1>7. CASE CountStarted(x)
  BY <1>a, <1>b, <1>c, <1>d, <1>7 DEF CountStarted
<1>8. CASE SwitchThread(x)
  BY <1>a, <1>b, <1>c, <1>d, <1>8 DEF SwitchThread
<1>9. CASE NextNode
  <2>1. CASE Released
    <3>1. hwPc[0] = "node" /\ hwPc' = [hwPc EXCEPT ![0] = "r3"] /\ enabled' = enabled /\ running' = running
      BY <1>9, <2>1 DEF NextNode
    <3> QED BY <1>a, <1>b, <1>c, <1>d, <3>1
  <2>2. CASE ~Released
    BY <1>a, <1>b, <1>c, <1>d, <1>9, <2>2 DEF NextNode
  <2> QED BY <2>1, <2>2
<1>10. CASE EndOfNodes
  BY <1>a, <1>b, <1>c, <1>d, <1>10 DEF EndOfNodes
<1>11. CASE FillTable
  <2>1. hwPc[0] \in Filling /\ \E l \in Filling : hwPc' = [hwPc EXCEPT ![0] = l]
    BY <1>11 DEF FillTable, Store, Filling
  <2>2. enabled' = enabled /\ running' = running
    BY <1>11 DEF FillTable, Store
  <2> QED BY <1>a, <1>b, <1>c, <1>d, <2>1, <2>2 DEF Filling
<1>12. CASE CountReleased
  BY <1>a, <1>b, <1>c, <1>d, <1>12 DEF CountReleased
<1>13. CASE WaitStarted
  BY <1>a, <1>b, <1>c, <1>d, <1>13 DEF WaitStarted
<1>14. CASE Pause(x)
  BY <1>a, <1>b, <1>c, <1>d, <1>14 DEF Pause
<1>15. CASE PauseLock(x)
  BY <1>a, <1>b, <1>c, <1>d, <1>15 DEF PauseLock
<1>16. CASE DisableOthers(x)
  BY <1>a, <1>b, <1>c, <1>d, <1>16 DEF DisableOthers
<1>17. CASE Paused(x)
  BY <1>a, <1>b, <1>c, <1>d, <1>17 DEF Paused
<1>18. CASE PauseTimeout(x)
  BY <1>a, <1>b, <1>c, <1>d, <1>18 DEF PauseTimeout
<1>19. CASE ResumeOthers(x)
  BY <1>a, <1>b, <1>c, <1>d, <1>e, <1>19 DEF ResumeOthers
<1>20. CASE PauseUnlock(x)
  BY <1>a, <1>b, <1>c, <1>d, <1>20 DEF PauseUnlock
<1> QED BY <1>1, <1>2, <1>3, <1>4, <1>5, <1>6, <1>7, <1>8, <1>9, <1>10, <1>11, <1>12, <1>13, <1>14, <1>15,
     <1>16, <1>17, <1>18, <1>19, <1>20 DEF ThreadStep, BootStep, PauseStep

LEMMA StepData ==
    ASSUME Powered, NEW x \in HwThread, ThreadStep(x)
    PROVE  ThreadData'
<1>a. /\ tpc' = tpc /\ cpuNodes' = cpuNodes /\ tpc \in {1, 2}
      /\ hwPc \in [HwThread -> Places] /\ percpus \in [HwThread -> Int]
      /\ hwPir \in [HwThread -> Int] /\ hwCpu \in [HwThread -> Int]
      /\ table \in [HwThread -> [r3 : Int, pir : Int, hi : BOOLEAN, lo : BOOLEAN]]
      /\ nodeAt \in 1 .. NCores + 1
      /\ ThreadPlaces /\ ThreadData
  BY StepKeeps DEF Powered, ThreadTypes
<1>b. /\ \A y : Lead(y)' <=> Lead(y)
      /\ \A y : Second(y)' <=> Second(y)
      /\ \A y : Present(y)' <=> Present(y)
      /\ \A y : CoreOf(y)' = CoreOf(y)
  BY StepKeeps, Same
<1>c. \A y \in HwThread : /\ Lead(y) <=> ~Second(y)
                          /\ Second(y) => Present(y) /\ y - 1 \in HwThread /\ y # 0 /\ Lead(y - 1) /\ y \in Nat
  BY <1>a, Threads
<1>d. /\ hwPc[0] \in Starting \cup Releasing \cup {"wait"} \cup UpNow
      /\ 0 \in HwThread /\ \A y \in HwThread : y \in Nat /\ (y # 0 => hwPc[y] # "wait" /\ hwPc[y] \notin Releasing)
  <2>1. 0 \in HwThread /\ \A y \in HwThread : y \in Nat
    BY SmpAssumption DEF HwThread
  <2>2. ASSUME NEW y \in HwThread, y # 0 PROVE hwPc[y] # "wait" /\ hwPc[y] \notin Releasing
    <3>1. hwPc[y] \in {"off", "hw_start", "spin", "count"} \cup Starting \cup UpNow
      <4>1. CASE ~Present(y)
        BY <1>a, <2>2, <4>1 DEF ThreadPlaces
      <4>2. CASE Present(y) /\ Lead(y)
        BY <1>a, <2>2, <4>2 DEF ThreadPlaces
      <4>3. CASE Second(y)
        BY <1>a, <2>2, <4>3 DEF ThreadPlaces
      <4> QED BY <1>c, <2>2, <4>1, <4>2, <4>3
    <3> QED BY <3>1 DEF Releasing, Starting, UpNow, Holding
  <2> QED BY <1>a, <2>1, <2>2 DEF ThreadPlaces
<1>e. tpc = 2 /\ Lead(x) => x + 1 \in HwThread /\ Second(x + 1)
  BY <1>a, Threads
<1>f. Lead(0) /\ Present(0)
  BY <1>a, <1>d, Threads
<1>g. hwPc[0] \in Filling => /\ nodeAt \in 1 .. NCores /\ Released
                             /\ NodePir \in HwThread /\ NodePir # 0 /\ Lead(NodePir) /\ Present(NodePir)
                             /\ CoreOf(NodePir) = nodeAt
  BY NodeOf DEF Released
<1>h. hwPc[x] = "hw_start" => Second(x) /\ FixedPir(hwPir[x]) = x /\ percpus[x] = x - 1 /\ x # 0
  BY StartsItself
<1> USE DEF ThreadData, Places, Starting, Releasing, Filling, UpNow, Holding, On, HwGoto, startVars, handVars,
     pauseVars
<1>1. CASE Begin(x)
  <2>1. CASE tpc = 1
    <3>1. hwPc' = [hwPc EXCEPT ![x] = IF x = 0 THEN "node" ELSE "count"] /\ hwPc[x] = "begin"
      BY <1>1, <2>1 DEF Begin, AfterStart
    <3>2. \A y : ~Second(y)
      BY <2>1 DEF Second
    <3> QED BY <1>a, <1>b, <1>c, <1>d, <1>1, <3>1, <3>2 DEF Begin, Released, NodePir
  <2>2. CASE tpc = 2
    <3>1. hwPc' = [hwPc EXCEPT ![x] = "tenc"] /\ hwPc[x] = "begin"
      BY <1>1, <2>2 DEF Begin
    <3> QED BY <1>a, <1>b, <1>c, <1>d, <1>1, <3>1 DEF Begin, Released, NodePir
  <2> QED BY <1>a, <2>1, <2>2
<1>2. CASE StopThread(x)
  BY <1>a, <1>b, <1>c, <1>d, <1>2 DEF StopThread, Released, NodePir
<1>3. CASE HandOver(x)
  BY <1>a, <1>b, <1>c, <1>d, <1>3 DEF HandOver, Released, NodePir
<1>4. CASE StartThread(x)
  BY <1>a, <1>b, <1>c, <1>d, <1>4 DEF StartThread, AfterStart, Released, NodePir
<1>5. CASE hw_thread_start(x)
  <2>1. /\ hwPc[x] = "hw_start" /\ hwPc' = [hwPc EXCEPT ![x] = "count"]
        /\ hwPir' = [hwPir EXCEPT ![x] = x] /\ hwCpu' = [hwCpu EXCEPT ![x] = x - 1]
        /\ table' = table /\ percpus' = percpus /\ nodeAt' = nodeAt
    BY <1>5, <1>h DEF hw_thread_start
  <2>2. x # 0 /\ Second(x)
    BY <1>h, <2>1
  <2> QED BY <1>a, <1>b, <1>c, <1>d, <2>1, <2>2 DEF Released, NodePir
<1>6. CASE secondary_start(x)
  BY <1>a, <1>b, <1>c, <1>d, <1>6 DEF secondary_start, Released, NodePir
<1>7. CASE CountStarted(x)
  BY <1>a, <1>b, <1>c, <1>d, <1>7 DEF CountStarted, Released, NodePir
<1>8. CASE SwitchThread(x)
  BY <1>a, <1>b, <1>c, <1>d, <1>8 DEF SwitchThread, Released, NodePir
<1>9. CASE NextNode
  BY <1>a, <1>b, <1>c, <1>d, <1>9 DEF NextNode, Released, NodePir
<1>10. CASE EndOfNodes
  BY <1>a, <1>b, <1>c, <1>d, <1>10 DEF EndOfNodes, Released, NodePir
<1>11. CASE FillTable
  <2>1. hwPc[0] \in Filling /\ hwPir' = hwPir /\ hwCpu' = hwCpu /\ percpus' = percpus /\ nodeAt' = nodeAt
    BY <1>11 DEF FillTable, Store
  <2>2. NodePir' = NodePir /\ (Released' <=> Released)
    BY <1>a, <2>1 DEF NodePir, Released
  <2>3. PICK p \in HwThread : p = NodePir /\ p # 0 /\ Lead(p) /\ Present(p) /\ CoreOf(p) = nodeAt /\ cpuNodes[nodeAt] = "ready"
    BY <1>g, <2>1 DEF Released
  <2>4. /\ nodeAt <= NCores /\ Released /\ (hwPc[0] \in {"pir", "hi", "lo"} => table[p].r3 = p - 1)
        /\ (hwPc[0] \in {"hi", "lo"} => table[p].pir = p)
    BY <1>a, <2>1, <2>3
  <2>5. PICK l \in Filling : hwPc' = [hwPc EXCEPT ![0] = l]
    BY <1>11 DEF FillTable, Store
  <2>6. /\ hwPir'[0] = 0
        /\ \A y \in HwThread \ {0} : hwPc'[y] \notin {"off", "spin", "hw_start"} => hwCpu'[y] = y - 1 /\ hwPir'[y] = y
        /\ \A y \in HwThread : Second(y) /\ hwPc'[y] \in {"off", "hw_start"} => hwPir'[y] = 8 * (y \div 2) + 1
        /\ \A y \in HwThread : Second(y) /\ hwPc'[y - 1] \notin {"spin", "begin", "tenc", "percpu"} => percpus'[y] = y - 1
    BY <1>a, <1>c, <1>d, <2>1, <2>5
  <2>7. /\ \A y \in HwThread : table'[y].lo => table'[y].r3 = y - 1 /\ table'[y].pir = y /\ y # 0 /\ Present(y) /\ Lead(y) /\ cpuNodes[CoreOf(y)] = "ready"
        /\ l \in {"pir", "hi", "lo"} => table'[p].r3 = p - 1
        /\ l \in {"hi", "lo"} => table'[p].pir = p
    <3>1. CASE hwPc[0] = "r3" /\ hwPc' = [hwPc EXCEPT ![0] = "pir"] /\ table' = [table EXCEPT ![p].r3 = p - 1]
      BY <1>a, <1>d, <2>3, <2>4, <2>5, <3>1
    <3>2. CASE hwPc[0] = "pir" /\ table' = [table EXCEPT ![p].pir = p]
      BY <1>a, <1>d, <2>3, <2>4, <2>5, <3>2
    <3>3. CASE hwPc[0] = "hi" /\ table' = [table EXCEPT ![p].hi = TRUE]
      BY <1>a, <1>d, <2>3, <2>4, <2>5, <3>3
    <3>4. CASE hwPc[0] = "lo" /\ table' = [table EXCEPT ![p].lo = TRUE]
      BY <1>a, <1>d, <2>3, <2>4, <2>5, <3>4
    <3> QED BY <1>11, <2>3, <3>1, <3>2, <3>3, <3>4 DEF FillTable, Store
  <2>8. l = hwPc'[0]
    BY <1>a, <1>d, <2>5
  <2> QED BY <1>a, <1>b, <2>1, <2>2, <2>3, <2>4, <2>6, <2>7, <2>8
<1>12. CASE CountReleased
  BY <1>a, <1>b, <1>c, <1>d, <1>12 DEF CountReleased, Released, NodePir
<1>13. CASE WaitStarted
  BY <1>a, <1>b, <1>c, <1>d, <1>13 DEF WaitStarted, Released, NodePir
<1>14. CASE Pause(x)
  BY <1>a, <1>b, <1>c, <1>d, <1>14 DEF Pause, Released, NodePir
<1>15. CASE PauseLock(x)
  BY <1>a, <1>b, <1>c, <1>d, <1>15 DEF PauseLock, Released, NodePir
<1>16. CASE DisableOthers(x)
  BY <1>a, <1>b, <1>c, <1>d, <1>16 DEF DisableOthers, Released, NodePir
<1>17. CASE Paused(x)
  BY <1>a, <1>b, <1>c, <1>d, <1>17 DEF Paused, Released, NodePir
<1>18. CASE PauseTimeout(x)
  BY <1>a, <1>b, <1>c, <1>d, <1>18 DEF PauseTimeout, Released, NodePir
<1>19. CASE ResumeOthers(x)
  BY <1>a, <1>b, <1>c, <1>d, <1>19 DEF ResumeOthers, Released, NodePir
<1>20. CASE PauseUnlock(x)
  BY <1>a, <1>b, <1>c, <1>d, <1>20 DEF PauseUnlock, Released, NodePir
<1> QED BY <1>1, <1>2, <1>3, <1>4, <1>5, <1>6, <1>7, <1>8, <1>9, <1>10, <1>11, <1>12, <1>13, <1>14, <1>15,
     <1>16, <1>17, <1>18, <1>19, <1>20 DEF ThreadStep, BootStep, PauseStep

LEMMA StepPauses ==
    ASSUME Powered, NEW x \in HwThread, ThreadStep(x)
    PROVE  ThreadPauses'
<1>a. /\ tpc' = tpc /\ tpc \in {1, 2}
      /\ hwPc \in [HwThread -> Places] /\ enabled \in [HwThread -> BOOLEAN] /\ running \in [HwThread -> BOOLEAN]
      /\ pauseLock \in [0 .. NCores -> HwThread \cup {None}]
      /\ ThreadPlaces /\ ThreadPauses
  BY StepKeeps DEF Powered, ThreadTypes
<1>b. /\ \A y : Present(y)' <=> Present(y)
      /\ \A y : CoreOf(y)' = CoreOf(y)
      /\ \A y : Siblings(y)' = Siblings(y)
  BY StepKeeps, Same
<1>c. \A y \in HwThread : /\ Lead(y) <=> ~Second(y)
                          /\ Second(y) => Present(y) /\ y - 1 \in HwThread /\ y # 0 /\ Lead(y - 1) /\ y \in Nat
  BY <1>a, Threads
<1>d. /\ hwPc[0] \in Starting \cup Releasing \cup {"wait"} \cup UpNow
      /\ 0 \in HwThread /\ \A y \in HwThread : y \in Nat /\ (y # 0 => hwPc[y] # "wait" /\ hwPc[y] \notin Releasing)
  <2>1. 0 \in HwThread /\ \A y \in HwThread : y \in Nat
    BY SmpAssumption DEF HwThread
  <2>2. ASSUME NEW y \in HwThread, y # 0 PROVE hwPc[y] # "wait" /\ hwPc[y] \notin Releasing
    <3>1. hwPc[y] \in {"off", "hw_start", "spin", "count"} \cup Starting \cup UpNow
      <4>1. CASE ~Present(y)
        BY <1>a, <2>2, <4>1 DEF ThreadPlaces
      <4>2. CASE Present(y) /\ Lead(y)
        BY <1>a, <2>2, <4>2 DEF ThreadPlaces
      <4>3. CASE Second(y)
        BY <1>a, <2>2, <4>3 DEF ThreadPlaces
      <4> QED BY <1>c, <2>2, <4>1, <4>2, <4>3
    <3> QED BY <3>1 DEF Releasing, Starting, UpNow, Holding
  <2> QED BY <1>a, <2>1, <2>2 DEF ThreadPlaces
<1>e. \A z \in HwThread : \A y \in Siblings(z) : /\ y \in HwThread /\ y # z /\ z \in Siblings(y) /\ Present(y) /\ Present(z)
                                                 /\ CoreOf(y) = CoreOf(z) /\ \A w \in Siblings(z) : w = y
  BY <1>a, Others
<1>f. \A z \in HwThread : Present(z) => /\ CoreOf(z) \in 0 .. NCores
                                        /\ \A y \in HwThread : CoreOf(y) = CoreOf(z) /\ y # z => y \in Siblings(z)
  <2>1. \A z \in HwThread : Present(z) => CoreOf(z) \in 0 .. NCores
    BY <1>a, Threads
  <2> QED BY <2>1 DEF Siblings, Present
<1>g. None \notin HwThread
  BY DEF None, HwThread
<1>h. \A z \in HwThread : hwPc[z] \in Holding => Present(z)
  <2> SUFFICES ASSUME NEW z \in HwThread, hwPc[z] \in Holding, ~Present(z) PROVE FALSE
    OBVIOUS
  <2>1. z # 0
    BY <1>a, Threads
  <2> QED BY <1>a, <2>1 DEF ThreadPlaces, Holding
<1> USE DEF ThreadPauses, Places, Starting, Releasing, Filling, UpNow, Holding, Stopping, On, HwGoto,
     startVars, handVars, pauseVars
<1>1. CASE Begin(x)
  BY <1>a, <1>b, <1>d, <1>e, <1>f, <1>g, <1>h, <1>1 DEF Begin, AfterStart
<1>2. CASE StopThread(x)
  <2>1. /\ hwPc[x] = "tenc" /\ hwPc' = [hwPc EXCEPT ![x] = "percpu"] /\ enabled' = [enabled EXCEPT ![x + 1] = FALSE]
        /\ running' = running /\ pauseLock' = pauseLock /\ timedOut' = timedOut
    BY <1>2 DEF StopThread
  <2>2. tpc = 2 /\ Lead(x)
    <3>1. tpc = 2
      BY <1>a, <2>1 DEF ThreadPlaces
    <3>2. ASSUME Second(x) PROVE FALSE
      <4>1. x # 0
        BY <1>c, <3>2
      <4> QED BY <1>a, <2>1, <3>2, <4>1 DEF ThreadPlaces
    <3> QED BY <1>c, <3>1, <3>2
  <2>3. PICK w \in HwThread : w = x + 1 /\ Second(w) /\ w - 1 = x
    BY <1>a, <1>d, <2>2, Threads
  <2>4. hwPc[w] = "off"
    BY <1>a, <2>1, <2>3 DEF ThreadPlaces
  <2>5. enabled' = [enabled EXCEPT ![w] = FALSE]
    BY <2>1, <2>3
  <2> QED BY <1>a, <1>b, <1>e, <2>1, <2>4, <2>5
<1>3. CASE HandOver(x)
  BY <1>a, <1>b, <1>d, <1>e, <1>f, <1>g, <1>h, <1>3 DEF HandOver
<1>4. CASE StartThread(x)
  <2>1. /\ hwPc[x] = "tens" /\ hwPc' = [hwPc EXCEPT ![x] = IF x = 0 THEN "node" ELSE "count"]
        /\ enabled' = [enabled EXCEPT ![x + 1] = TRUE]
        /\ running' = running /\ pauseLock' = pauseLock /\ timedOut' = timedOut
    BY <1>4 DEF StartThread, AfterStart
  <2>2. tpc = 2 /\ Lead(x)
    <3>1. tpc = 2
      BY <1>a, <2>1 DEF ThreadPlaces
    <3>2. ASSUME Second(x) PROVE FALSE
      <4>1. x # 0
        BY <1>c, <3>2
      <4> QED BY <1>a, <2>1, <3>2, <4>1 DEF ThreadPlaces
    <3> QED BY <1>c, <3>1, <3>2
  <2>3. PICK w \in HwThread : w = x + 1 /\ Second(w) /\ w # x /\ CoreOf(w) = CoreOf(x) /\ Present(x)
    <3>1. x + 1 \in HwThread /\ Second(x + 1) /\ x + 1 # x
      BY <1>a, <1>d, <2>2, Threads
    <3>2. (x + 1) - 1 = x /\ CoreOf((x + 1) - 1) = CoreOf(x + 1) /\ Present((x + 1) - 1)
      BY <1>a, <1>d, <3>1, Threads
    <3> QED BY <3>1, <3>2
  <2>4. w \in Siblings(x)
    BY <1>f, <2>3
  <2>5. enabled' = [enabled EXCEPT ![w] = TRUE]
    BY <2>1, <2>3
  <2>6. \A z \in HwThread : w \in Siblings(z) => z = x
    BY <1>e, <2>4
  <2>7. PICK l \in {"node", "count"} : hwPc' = [hwPc EXCEPT ![x] = l]
    BY <2>1
  <2>8. \A z \in HwThread : hwPc'[z] \in Stopping => z # x /\ hwPc[z] = hwPc'[z]
    BY <1>a, <2>7
  <2>9. \A z \in HwThread : z # w => enabled'[z] = enabled[z]
    BY <1>a, <2>5
  <2>10. \A z \in HwThread : Present(z) => (pauseLock'[CoreOf(z)] = z <=> hwPc'[z] \in Holding)
    BY <1>a, <1>e, <1>f, <2>1, <2>7
  <2>11. \A z \in HwThread : hwPc'[z] \in Stopping => \A y \in Siblings(z) : ~enabled'[y]
    BY <1>a, <1>e, <2>6, <2>8, <2>9
  <2>12. \A z \in HwThread : hwPc'[z] = "paused" => \A y \in Siblings(z) : ~running'[y]
    BY <1>a, <1>e, <2>1, <2>8
  <2>13. enabled'[w]
    BY <1>a, <2>3, <2>5
  <2>14. \A z \in HwThread : hwPc[z] \in Stopping => z # x /\ hwPc'[z] = hwPc[z]
    BY <1>a, <2>1, <2>7
  <2>15. \A z \in HwThread : ~enabled'[z] /\ hwPc'[z] # "off" => timedOut \/ \E y \in Siblings(z) : hwPc'[y] \in Stopping
    <3> TAKE z \in HwThread
    <3> HAVE ~enabled'[z] /\ hwPc'[z] # "off"
    <3>1. ~enabled[z] /\ hwPc[z] # "off"
      BY <1>a, <2>1, <2>7, <2>9, <2>13
    <3> QED BY <1>a, <1>e, <2>14, <3>1
  <2> QED BY <1>b, <2>1, <2>10, <2>11, <2>12, <2>15
<1>5. CASE hw_thread_start(x)
  BY <1>a, <1>b, <1>d, <1>e, <1>f, <1>g, <1>h, <1>5 DEF hw_thread_start
<1>6. CASE secondary_start(x)
  BY <1>a, <1>b, <1>d, <1>e, <1>f, <1>g, <1>h, <1>6 DEF secondary_start
<1>7. CASE CountStarted(x)
  BY <1>a, <1>b, <1>d, <1>e, <1>f, <1>g, <1>h, <1>7 DEF CountStarted
<1>8. CASE SwitchThread(x)
  <2>1. /\ hwPc' = [hwPc EXCEPT ![x] = IF hwPc[x] = "off" THEN "hw_start" ELSE hwPc[x]]
        /\ running[x] # enabled[x] /\ running' = [running EXCEPT ![x] = enabled[x]]
        /\ enabled' = enabled /\ pauseLock' = pauseLock /\ timedOut' = timedOut
    BY <1>8 DEF SwitchThread
  <2>2. \A z \in HwThread : hwPc'[z] = hwPc[z] \/ (z = x /\ hwPc[z] = "off" /\ hwPc'[z] = "hw_start")
    BY <1>a, <2>1
  <2>3. hwPc[x] = "off" => enabled[x]
    <3>1. hwPc[x] = "off" => running[x] = FALSE
      BY <1>a DEF ThreadPlaces
    <3>2. enabled[x] \in BOOLEAN
      BY <1>a
    <3> QED BY <2>1, <3>1, <3>2
  <2>4. \A z \in HwThread : z # x => running'[z] = running[z]
    BY <1>a, <2>1
  <2>5. running'[x] = enabled[x]
    BY <1>a, <2>1
  <2>6. \A z \in HwThread : Present(z) => (pauseLock'[CoreOf(z)] = z <=> hwPc'[z] \in Holding)
    BY <1>a, <2>1, <2>2
  <2>7. \A z \in HwThread : hwPc'[z] \in Stopping => \A y \in Siblings(z) : ~enabled'[y]
    BY <1>a, <2>1, <2>2
  <2>8. \A z \in HwThread : hwPc'[z] = "paused" => \A y \in Siblings(z) : ~running'[y]
    <3> TAKE z \in HwThread
    <3> HAVE hwPc'[z] = "paused"
    <3> TAKE y \in Siblings(z)
    <3>1. hwPc[z] = "paused" /\ y \in HwThread
      BY <1>e, <2>2
    <3>2. ~running[y] /\ ~enabled[y]
      BY <1>a, <3>1
    <3> QED BY <2>4, <2>5, <3>1, <3>2
  <2>9. \A z \in HwThread : ~enabled'[z] /\ hwPc'[z] # "off" => timedOut' \/ \E y \in Siblings(z) : hwPc'[y] \in Stopping
    <3> TAKE z \in HwThread
    <3> HAVE ~enabled'[z] /\ hwPc'[z] # "off"
    <3>1. ~enabled[z] /\ hwPc[z] # "off"
      BY <2>1, <2>2, <2>3
    <3>2. timedOut \/ \E y \in Siblings(z) : hwPc[y] \in Stopping
      BY <1>a, <3>1
    <3>3. \A y \in Siblings(z) : hwPc[y] \in Stopping => hwPc'[y] \in Stopping
      BY <1>e, <2>2
    <3> QED BY <2>1, <3>2, <3>3
  <2> QED BY <1>b, <2>6, <2>7, <2>8, <2>9
<1>9. CASE NextNode
  <2>1. CASE Released
    BY <1>a, <1>b, <1>e, <1>f, <1>9, <2>1 DEF NextNode
  <2>2. CASE ~Released
    <3>1. hwPc' = hwPc /\ enabled' = enabled /\ running' = running /\ pauseLock' = pauseLock /\ timedOut' = timedOut
      BY <1>9, <2>2 DEF NextNode
    <3> QED BY <1>a, <1>b, <3>1
  <2> QED BY <2>1, <2>2
<1>10. CASE EndOfNodes
  BY <1>a, <1>b, <1>d, <1>e, <1>f, <1>g, <1>h, <1>10 DEF EndOfNodes
<1>11. CASE FillTable
  <2>1. hwPc[0] \in Filling /\ enabled' = enabled /\ running' = running /\ pauseLock' = pauseLock /\ timedOut' = timedOut
    BY <1>11 DEF FillTable, Store
  <2>2. PICK l \in Filling : hwPc' = [hwPc EXCEPT ![0] = l]
    BY <1>11 DEF FillTable, Store
  <2> QED BY <1>a, <1>b, <1>d, <1>e, <1>f, <2>1, <2>2
<1>12. CASE CountReleased
  BY <1>a, <1>b, <1>d, <1>e, <1>f, <1>g, <1>h, <1>12 DEF CountReleased
<1>13. CASE WaitStarted
  BY <1>a, <1>b, <1>d, <1>e, <1>f, <1>g, <1>h, <1>13 DEF WaitStarted
<1>14. CASE Pause(x)
  BY <1>a, <1>b, <1>d, <1>e, <1>f, <1>g, <1>h, <1>14 DEF Pause
<1>15. CASE PauseLock(x)
  BY <1>a, <1>b, <1>d, <1>e, <1>f, <1>g, <1>h, <1>15 DEF PauseLock
<1>16. CASE DisableOthers(x)
  <2>1. /\ hwPc[x] = "p_tenc" /\ hwPc' = [hwPc EXCEPT ![x] = "p_wait"]
        /\ enabled' = [y \in HwThread |-> enabled[y] /\ y \notin Siblings(x)]
        /\ running' = running /\ pauseLock' = pauseLock /\ timedOut' = timedOut
    BY <1>16 DEF DisableOthers
  <2>2. \A z \in HwThread : (enabled'[z] <=> enabled[z] /\ z \notin Siblings(x)) /\ (z # x => hwPc'[z] = hwPc[z])
    BY <1>a, <2>1
  <2>3. hwPc'[x] = "p_wait"
    BY <1>a, <2>1
  <2>4. \A z \in HwThread : Present(z) => (pauseLock'[CoreOf(z)] = z <=> hwPc'[z] \in Holding)
    BY <1>a, <2>1, <2>2, <2>3
  <2>5. \A z \in HwThread : hwPc'[z] \in Stopping => \A y \in Siblings(z) : ~enabled'[y]
    BY <1>a, <1>e, <2>2
  <2>6. \A z \in HwThread : hwPc'[z] = "paused" => \A y \in Siblings(z) : ~running'[y]
    BY <1>a, <2>1, <2>2, <2>3
  <2>7. \A z \in HwThread : ~enabled'[z] /\ hwPc'[z] # "off" => timedOut' \/ \E y \in Siblings(z) : hwPc'[y] \in Stopping
    <3> TAKE z \in HwThread
    <3> HAVE ~enabled'[z] /\ hwPc'[z] # "off"
    <3>1. CASE z \in Siblings(x)
      <4>1. x \in Siblings(z)
        BY <1>e, <3>1
      <4> QED BY <2>3, <4>1
    <3>2. CASE z \notin Siblings(x)
      <4>1. ~enabled[z] /\ hwPc[z] # "off"
        BY <2>1, <2>2, <3>2
      <4>2. timedOut \/ \E y \in Siblings(z) : hwPc[y] \in Stopping
        BY <1>a, <4>1
      <4>3. \A y \in Siblings(z) : hwPc[y] \in Stopping => hwPc'[y] \in Stopping
        BY <1>e, <2>1, <2>2
      <4> QED BY <2>1, <4>2, <4>3
    <3> QED BY <3>1, <3>2
  <2> QED BY <1>b, <2>4, <2>5, <2>6, <2>7
<1>17. CASE Paused(x)
  BY <1>a, <1>b, <1>d, <1>e, <1>f, <1>g, <1>h, <1>17 DEF Paused
<1>18. CASE PauseTimeout(x)
  BY <1>a, <1>b, <1>d, <1>e, <1>f, <1>g, <1>h, <1>18 DEF PauseTimeout
<1>19. CASE ResumeOthers(x)
  BY <1>a, <1>b, <1>d, <1>e, <1>f, <1>g, <1>h, <1>19 DEF ResumeOthers
<1>20. CASE PauseUnlock(x)
  BY <1>a, <1>b, <1>d, <1>e, <1>f, <1>g, <1>h, <1>20 DEF PauseUnlock
<1> QED BY <1>1, <1>2, <1>3, <1>4, <1>5, <1>6, <1>7, <1>8, <1>9, <1>10, <1>11, <1>12, <1>13, <1>14, <1>15,
     <1>16, <1>17, <1>18, <1>19, <1>20 DEF ThreadStep, BootStep, PauseStep

(* The nodes that are to be released, and the threads that come of them.    *)
LEMMA ToReleaseGrows ==
    ASSUME NEW n \in 1 .. NCores
    PROVE  /\ IsFiniteSet(ToRelease(n)) /\ Cardinality(ToRelease(n)) \in Nat
           /\ Cardinality(ToRelease(n + 1)) = Cardinality(ToRelease(n)) + IF cpuNodes[n] = "ready" THEN 1 ELSE 0
<1>1. IsFiniteSet(1 .. NCores)
  BY SmpAssumption, FS_Interval
<1>2. IsFiniteSet(ToRelease(n)) /\ Cardinality(ToRelease(n)) \in Nat
  <2>1. ToRelease(n) \in SUBSET (1 .. NCores)
    BY DEF ToRelease
  <2>2. IsFiniteSet(ToRelease(n))
    BY <1>1, <2>1, FS_Subset
  <2> QED BY <2>2, FS_CardinalityType
<1>3. CASE cpuNodes[n] = "ready"
  <2>1. ToRelease(n + 1) = ToRelease(n) \cup {n}
    BY <1>3, SmpAssumption DEF ToRelease
  <2>2. n \notin ToRelease(n)
    BY SmpAssumption DEF ToRelease
  <2> QED BY <1>2, <1>3, <2>1, <2>2, FS_AddElement
<1>4. CASE cpuNodes[n] # "ready"
  <2>1. ToRelease(n + 1) = ToRelease(n)
    BY <1>4, SmpAssumption DEF ToRelease
  <2> QED BY <1>2, <1>4, <2>1
<1> QED BY <1>2, <1>3, <1>4

LEMMA CalledCount ==
    ASSUME tpc \in {1, 2}
    PROVE  /\ IsFiniteSet(PartTakers) /\ IsFiniteSet(Counters) /\ Cardinality(Counters) \in Nat
           /\ Cardinality(ToRelease(NCores + 1)) \in Nat
           /\ Cardinality(PartTakers) \in Nat /\ Cardinality(PartTakers) <= (Cardinality(ToRelease(NCores + 1)) + 1) * tpc - 1
<1> DEFINE R == ToRelease(NCores + 1)
           N == Cardinality(R)
<1>1. IsFiniteSet(HwThread) /\ IsFiniteSet(1 .. NCores)
  BY SmpAssumption, FS_Interval DEF HwThread
<1>2. IsFiniteSet(R) /\ N \in Nat
  <2>1. R \in SUBSET (1 .. NCores)
    BY DEF ToRelease
  <2>2. IsFiniteSet(R)
    BY <1>1, <2>1, FS_Subset
  <2> QED BY <2>2, FS_CardinalityType
<1>3. IsFiniteSet(PartTakers) /\ Cardinality(PartTakers) \in Nat
  <2>1. PartTakers \in SUBSET HwThread
    BY DEF PartTakers
  <2>2. IsFiniteSet(PartTakers)
    BY <1>1, <2>1, FS_Subset
  <2> QED BY <2>2, FS_CardinalityType
<1>4. IsFiniteSet(Counters) /\ Cardinality(Counters) \in Nat
  <2>1. Counters \in SUBSET HwThread
    BY DEF Counters
  <2>2. IsFiniteSet(Counters)
    BY <1>1, <2>1, FS_Subset
  <2> QED BY <2>2, FS_CardinalityType
<1>5. \A c : c \in R <=> c \in 1 .. NCores /\ cpuNodes[c] = "ready"
  BY SmpAssumption DEF ToRelease
<1> HIDE DEF R
<1>6. CASE tpc = 1
  <2>1. PartTakers \in SUBSET R
    <3> SUFFICES ASSUME NEW x \in PartTakers PROVE x \in R
      OBVIOUS
    <3>1. x \in HwThread /\ TakesPart(x) /\ x \in Nat
      BY DEF PartTakers, HwThread
    <3>2. CoreOf(x) = x
      BY <1>6, <3>1 DEF CoreOf
    <3> QED BY <1>5, <3>1, <3>2, SmpAssumption DEF TakesPart, Present
  <2>2. Cardinality(PartTakers) <= N
    BY <1>2, <2>1, FS_Subset
  <2> QED BY <1>2, <1>3, <1>4, <1>6, <2>2 DEF R
<1>7. CASE tpc = 2
  <2> DEFINE L == {2 * c : c \in R}
             S == {2 * c + 1 : c \in R}
             f == [c \in R |-> 2 * c]
             g == [c \in R |-> 2 * c + 1]
  <2>1. IsFiniteSet(L) /\ Cardinality(L) <= N /\ Cardinality(L) \in Nat
    <3>1. f \in Surjection(R, L)
      BY DEF Surjection
    <3> HIDE DEF f, L
    <3>2. IsFiniteSet(L) /\ Cardinality(L) <= N
      BY <1>2, <3>1, FS_Surjection
    <3> QED BY <3>2, FS_CardinalityType
  <2>2. IsFiniteSet(S) /\ Cardinality(S) <= N /\ Cardinality(S) \in Nat
    <3>1. g \in Surjection(R, S)
      BY DEF Surjection
    <3> HIDE DEF g, S
    <3>2. IsFiniteSet(S) /\ Cardinality(S) <= N
      BY <1>2, <3>1, FS_Surjection
    <3> QED BY <3>2, FS_CardinalityType
  <2>3. PartTakers \in SUBSET (L \cup S \cup {1})
    <3> SUFFICES ASSUME NEW x \in PartTakers PROVE x \in L \cup S \cup {1}
      OBVIOUS
    <3>1. x \in HwThread /\ TakesPart(x) /\ x \in Nat /\ x # 0 /\ Present(x)
      BY DEF PartTakers, HwThread, TakesPart
    <3>2. CoreOf(x) = x \div 2
      BY <1>7 DEF CoreOf
    <3>3. PICK c \in Nat : c = x \div 2 /\ (x = 2 * c \/ x = 2 * c + 1)
      BY <3>1
    <3>4. c = 0 \/ c \in R
      BY <1>5, <3>1, <3>2, <3>3, SmpAssumption DEF TakesPart, Present
    <3> QED BY <3>1, <3>3, <3>4
  <2> HIDE DEF L, S
  <2>4. IsFiniteSet(L \cup S) /\ Cardinality(L \cup S) <= 2 * N /\ Cardinality(L \cup S) \in Nat
    <3>1. IsFiniteSet(L \cap S)
      BY <2>1, FS_Intersection
    <3>2. Cardinality(L \cap S) \in Nat
      BY <3>1, FS_CardinalityType
    <3>3. IsFiniteSet(L \cup S) /\ Cardinality(L \cup S) = Cardinality(L) + Cardinality(S) - Cardinality(L \cap S)
      BY <2>1, <2>2, FS_Union
    <3>4. Cardinality(L \cup S) \in Nat
      BY <3>3, FS_CardinalityType
    <3> QED BY <1>2, <2>1, <2>2, <3>2, <3>3, <3>4
  <2>5. IsFiniteSet(L \cup S \cup {1}) /\ Cardinality(L \cup S \cup {1}) <= 2 * N + 1 /\ Cardinality(L \cup S \cup {1}) \in Nat
    <3>1. /\ IsFiniteSet((L \cup S) \cup {1})
          /\ Cardinality((L \cup S) \cup {1}) = IF 1 \in (L \cup S) THEN Cardinality(L \cup S) ELSE Cardinality(L \cup S) + 1
      BY <2>4, FS_AddElement
    <3> QED BY <1>2, <2>4, <3>1
  <2>6. Cardinality(PartTakers) <= 2 * N + 1
    <3>1. Cardinality(PartTakers) <= Cardinality(L \cup S \cup {1})
      BY <2>3, <2>5, FS_Subset
    <3> QED BY <1>2, <1>3, <2>5, <3>1
  <2>7. (N + 1) * tpc - 1 = 2 * N + 1
    BY <1>2, <1>7
  <2> QED BY <1>2, <1>3, <1>4, <2>6, <2>7 DEF R
<1> QED BY <1>6, <1>7

(* A step after which nobody has counted itself who had not before.         *)
LEMMA CountsStay ==
    ASSUME ThreadCounts, tpc' = tpc, cpuNodes' = cpuNodes,
           startedThreads' = startedThreads, releasedCnt' = releasedCnt, nodeAt' = nodeAt,
           \A y \in HwThread \ {0} : hwPc'[y] \in UpNow <=> hwPc[y] \in UpNow,
           \A y \in HwThread \ {0} : hwPc'[y] \notin {"off", "spin", "hw_start"} => TakesPart(y),
           hwPc'[0] \in Starting \cup Releasing => hwPc[0] \in Starting \cup Releasing,
           hwPc'[0] \in {"wait"} \cup UpNow => hwPc[0] \in {"wait"} \cup UpNow,
           hwPc'[0] \in UpNow => hwPc[0] \in UpNow
    PROVE  ThreadCounts'
<1>1. Counters' = Counters
  BY DEF Counters
<1>2. /\ PartTakers' = PartTakers /\ \A n : ToRelease(n)' = ToRelease(n)
      /\ \A y : TakesPart(y)' <=> TakesPart(y)
  BY Same
<1>3. ToRelease(nodeAt)' = ToRelease(nodeAt) /\ ToRelease(NCores + 1)' = ToRelease(NCores + 1)
  BY DEF ToRelease
<1> QED BY <1>1, <1>2, <1>3 DEF ThreadCounts

LEMMA StepCounts ==
    ASSUME Powered, NEW x \in HwThread, ThreadStep(x)
    PROVE  ThreadCounts'
<1>a. /\ tpc' = tpc /\ cpuNodes' = cpuNodes /\ tpc \in {1, 2} /\ hwPc \in [HwThread -> Places]
      /\ startedThreads \in Nat /\ releasedCnt \in Int /\ nodeAt \in 1 .. NCores + 1
      /\ ThreadPlaces /\ ThreadCounts
  BY StepKeeps DEF Powered, ThreadTypes
<1>b. /\ \A y : TakesPart(y)' <=> TakesPart(y)
      /\ PartTakers' = PartTakers /\ \A n : ToRelease(n)' = ToRelease(n)
  BY StepKeeps, Same
<1>c. \A y \in HwThread : /\ Lead(y) <=> ~Second(y)
                          /\ Second(y) => /\ Present(y) /\ y - 1 \in HwThread /\ y # 0 /\ Lead(y - 1) /\ y \in Nat
                                          /\ CoreOf(y - 1) = CoreOf(y)
  BY <1>a, Threads
<1>d. /\ hwPc[0] \in Starting \cup Releasing \cup {"wait"} \cup UpNow
      /\ 0 \in HwThread /\ \A y \in HwThread : y \in Nat /\ (y # 0 => hwPc[y] # "wait" /\ hwPc[y] \notin Releasing)
  <2>1. 0 \in HwThread /\ \A y \in HwThread : y \in Nat
    BY SmpAssumption DEF HwThread
  <2>2. ASSUME NEW y \in HwThread, y # 0 PROVE hwPc[y] # "wait" /\ hwPc[y] \notin Releasing
    <3>1. hwPc[y] \in {"off", "hw_start", "spin", "count"} \cup Starting \cup UpNow
      <4>1. CASE ~Present(y)
        BY <1>a, <2>2, <4>1 DEF ThreadPlaces
      <4>2. CASE Present(y) /\ Lead(y)
        BY <1>a, <2>2, <4>2 DEF ThreadPlaces
      <4>3. CASE Second(y)
        BY <1>a, <2>2, <4>3 DEF ThreadPlaces
      <4> QED BY <1>c, <2>2, <4>1, <4>2, <4>3
    <3> QED BY <3>1 DEF Releasing, Starting, UpNow, Holding
  <2> QED BY <1>a, <2>1, <2>2 DEF ThreadPlaces
<1>e. /\ \A y \in HwThread \ {0} : hwPc[y] \notin {"off", "spin", "hw_start"} => TakesPart(y)
      /\ startedThreads = Cardinality(Counters) + 1
      /\ hwPc[0] \in Starting \cup Releasing => releasedCnt = Cardinality(ToRelease(nodeAt))
      /\ hwPc[0] \in {"wait"} \cup UpNow => releasedCnt < 0 \/ releasedCnt = Cardinality(ToRelease(NCores + 1))
      /\ hwPc[0] \in UpNow /\ releasedCnt >= 0 => PartTakers \subseteq Counters
  BY <1>a DEF ThreadCounts
<1>f. hwPc[x] = "hw_start" => TakesPart(x)
  <2> SUFFICES ASSUME hwPc[x] = "hw_start" PROVE TakesPart(x)
    OBVIOUS
  <2>1. Second(x) /\ x # 0 /\ tpc = 2
    BY StartsItself DEF Second
  <2>2. Present(x) /\ x - 1 \in HwThread /\ Lead(x - 1) /\ CoreOf(x - 1) = CoreOf(x)
    BY <1>c, <2>1
  <2>3. hwPc[x - 1] # "spin" /\ hwPc[x - 1] \notin Starting
    BY <1>a, <2>1 DEF ThreadPlaces
  <2>4. CASE x - 1 = 0
    <3>1. CoreOf(x - 1) = 0
      BY <1>a, <1>d, <2>4, Threads
    <3> QED BY <2>1, <2>2, <3>1 DEF TakesPart
  <2>5. CASE x - 1 # 0
    <3>1. Present(x - 1)
      BY <2>2 DEF Present
    <3>2. hwPc[x - 1] \in {"spin", "count"} \cup Starting \cup UpNow
      BY <1>a, <2>2, <2>5, <3>1 DEF ThreadPlaces
    <3>3. hwPc[x - 1] \notin {"off", "spin", "hw_start"}
      BY <2>3, <3>2 DEF UpNow, Holding
    <3>4. TakesPart(x - 1)
      BY <1>e, <2>2, <2>5, <3>3
    <3> QED BY <2>1, <2>2, <3>4 DEF TakesPart
  <2> QED BY <2>4, <2>5
<1>g. hwPc[x] = "spin" /\ table[x].lo => TakesPart(x)
  <2>1. ThreadData
    BY DEF Powered
  <2> QED BY <2>1 DEF ThreadData, TakesPart
<1> HIDE DEF ThreadPlaces, ThreadCounts
<1> USE DEF Places, Starting, Releasing, Filling, UpNow, Holding, On, HwGoto, startVars
<1>1. CASE Begin(x)
  <2>1. PICK l \in {"tenc", "node", "count"} :
          hwPc' = [hwPc EXCEPT ![x] = l] /\ (x = 0 => l # "count") /\ (x # 0 => l # "node") /\ hwPc[x] = "begin"
    BY <1>1 DEF Begin, AfterStart
  <2> QED BY <1>a, <1>d, <1>e, <1>1, <2>1, CountsStay DEF Begin
<1>2. CASE StopThread(x)
  BY <1>a, <1>d, <1>e, <1>2, CountsStay DEF StopThread
<1>3. CASE HandOver(x)
  BY <1>a, <1>d, <1>e, <1>3, CountsStay DEF HandOver
<1>4. CASE StartThread(x)
  <2>1. PICK l \in {"node", "count"} :
          hwPc' = [hwPc EXCEPT ![x] = l] /\ (x = 0 => l # "count") /\ (x # 0 => l # "node") /\ hwPc[x] = "tens"
    BY <1>4 DEF StartThread, AfterStart
  <2> QED BY <1>a, <1>d, <1>e, <1>4, <2>1, CountsStay DEF StartThread
<1>5. CASE hw_thread_start(x)
  BY <1>a, <1>d, <1>e, <1>f, <1>5, CountsStay DEF hw_thread_start
<1>6. CASE secondary_start(x)
  BY <1>a, <1>d, <1>e, <1>g, <1>6, CountsStay DEF secondary_start
<1>7. CASE CountStarted(x)
  <2>1. /\ hwPc[x] = "count" /\ hwPc' = [hwPc EXCEPT ![x] = "up"]
        /\ startedThreads' = startedThreads + 1 /\ nodeAt' = nodeAt /\ releasedCnt' = releasedCnt
    BY <1>7 DEF CountStarted
  <2>2. x # 0
    BY <1>d, <2>1
  <2>3. Counters' = Counters \cup {x} /\ x \notin Counters
    BY <1>a, <2>1, <2>2 DEF Counters
  <2>4. /\ IsFiniteSet(Counters) /\ Cardinality(Counters) \in Nat
    BY <1>a, CalledCount
  <2>5. Cardinality(Counters') = Cardinality(Counters) + 1
    BY <2>3, <2>4, FS_AddElement
  <2>6. hwPc'[0] = hwPc[0]
    BY <1>a, <1>d, <2>1, <2>2
  <2>7. startedThreads' = Cardinality(Counters') + 1
    BY <1>e, <2>1, <2>4, <2>5
  <2>8. \A y \in HwThread \ {0} : hwPc'[y] \notin {"off", "spin", "hw_start"} => TakesPart(y)
    BY <1>a, <1>e, <2>1
  <2>9. ToRelease(nodeAt)' = ToRelease(nodeAt) /\ ToRelease(NCores + 1)' = ToRelease(NCores + 1)
    BY <1>a, <2>1 DEF ToRelease
  <2>10. PartTakers \subseteq Counters => PartTakers' \subseteq Counters'
    BY <1>b, <2>3
  <2> HIDE DEF Places, Starting, Releasing, Filling, UpNow, Holding, On, HwGoto, startVars
  <2> QED BY <1>b, <1>e, <2>1, <2>6, <2>7, <2>8, <2>9, <2>10 DEF ThreadCounts
<1>8. CASE SwitchThread(x)
  <2>1. hwPc' = [hwPc EXCEPT ![x] = IF hwPc[x] = "off" THEN "hw_start" ELSE hwPc[x]]
    BY <1>8 DEF SwitchThread
  <2>2. \A y \in HwThread : hwPc'[y] = hwPc[y] \/ (y # 0 /\ hwPc[y] = "off" /\ hwPc'[y] = "hw_start")
    BY <1>a, <1>d, <2>1
  <2> QED BY <1>a, <1>d, <1>e, <1>8, <2>2, CountsStay DEF SwitchThread
<1>9. CASE NextNode
  <2>1. CASE Released
    <3>1. hwPc[0] = "node" /\ hwPc' = [hwPc EXCEPT ![0] = "r3"]
      BY <1>9, <2>1 DEF NextNode
    <3> QED BY <1>a, <1>d, <1>e, <1>9, <2>1, <3>1, CountsStay DEF NextNode
  <2>2. CASE ~Released
    <3>1. /\ hwPc[0] = "node" /\ hwPc' = hwPc /\ nodeAt' = nodeAt + 1 /\ nodeAt <= NCores
          /\ startedThreads' = startedThreads /\ releasedCnt' = releasedCnt
      BY <1>9, <2>2 DEF NextNode
    <3>2. nodeAt \in 1 .. NCores
      BY <1>a, <3>1, SmpAssumption
    <3>3. Cardinality(ToRelease(nodeAt + 1)) = Cardinality(ToRelease(nodeAt))
      BY <2>2, <3>2, ToReleaseGrows DEF Released
    <3>4. ToRelease(nodeAt)' = ToRelease(nodeAt + 1)
      BY <1>a, <3>1 DEF ToRelease
    <3>5. Counters' = Counters
      BY <3>1 DEF Counters
    <3> QED BY <1>b, <1>e, <3>1, <3>3, <3>4, <3>5 DEF ThreadCounts
  <2> QED BY <2>1, <2>2
<1>10. CASE EndOfNodes
  <2>1. hwPc[0] = "node" /\ hwPc' = [hwPc EXCEPT ![0] = "wait"] /\ startedThreads' = startedThreads
    BY <1>10 DEF EndOfNodes
  <2>2. hwPc'[0] = "wait" /\ \A y \in HwThread \ {0} : hwPc'[y] = hwPc[y]
    BY <1>a, <1>d, <2>1
  <2>3. Counters' = Counters
    BY <2>2 DEF Counters
  <2>4. releasedCnt' < 0 \/ releasedCnt' = Cardinality(ToRelease(NCores + 1))
    <3>1. CASE nodeAt > NCores /\ releasedCnt' = IF cpusLast THEN -1 ELSE releasedCnt
      <4>1. nodeAt = NCores + 1
        BY <1>a, <3>1, SmpAssumption
      <4>2. releasedCnt = Cardinality(ToRelease(NCores + 1))
        BY <1>e, <2>1, <4>1
      <4> QED BY <3>1, <4>2
    <3>2. CASE releasedCnt' = -256
      BY <3>2
    <3> QED BY <1>10, <3>1, <3>2 DEF EndOfNodes
  <2>5. ToRelease(NCores + 1)' = ToRelease(NCores + 1)
    BY <1>a DEF ToRelease
  <2> QED BY <1>b, <1>e, <2>1, <2>2, <2>3, <2>4, <2>5 DEF ThreadCounts
<1>11. CASE FillTable
  <2>1. hwPc[0] \in Filling
    BY <1>11 DEF FillTable, Store
  <2>2. PICK l \in Filling : hwPc' = [hwPc EXCEPT ![0] = l]
    BY <1>11 DEF FillTable, Store
  <2> QED BY <1>a, <1>d, <1>e, <1>11, <2>1, <2>2, CountsStay DEF FillTable
<1>12. CASE CountReleased
  <2>1. /\ hwPc[0] = "flush" /\ hwPc' = [hwPc EXCEPT ![0] = "node"]
        /\ nodeAt' = nodeAt + 1 /\ releasedCnt' = releasedCnt + 1 /\ startedThreads' = startedThreads
    BY <1>12 DEF CountReleased
  <2>2. hwPc'[0] = "node" /\ \A y \in HwThread \ {0} : hwPc'[y] = hwPc[y]
    BY <1>a, <1>d, <2>1
  <2>3. Counters' = Counters
    BY <2>2 DEF Counters
  <2>4. nodeAt \in 1 .. NCores /\ cpuNodes[nodeAt] = "ready"
    BY <2>1, NodeOf
  <2>5. Cardinality(ToRelease(nodeAt + 1)) = Cardinality(ToRelease(nodeAt)) + 1
    BY <2>4, ToReleaseGrows
  <2>6. ToRelease(nodeAt)' = ToRelease(nodeAt + 1)
    BY <1>a, <2>1 DEF ToRelease
  <2>7. releasedCnt' = Cardinality(ToRelease(nodeAt)')
    BY <1>e, <2>1, <2>5, <2>6
  <2> QED BY <1>b, <1>e, <2>1, <2>2, <2>3, <2>7 DEF ThreadCounts
<1>13. CASE WaitStarted
  <2>1. /\ hwPc[0] = "wait" /\ hwPc' = [hwPc EXCEPT ![0] = "up"]
        /\ releasedCnt >= -1 /\ startedThreads >= (releasedCnt + 1) * tpc
        /\ startedThreads' = startedThreads /\ releasedCnt' = releasedCnt /\ nodeAt' = nodeAt
    BY <1>13 DEF WaitStarted
  <2>2. hwPc'[0] = "up" /\ \A y \in HwThread \ {0} : hwPc'[y] = hwPc[y]
    BY <1>a, <1>d, <2>1
  <2>3. Counters' = Counters
    BY <2>2 DEF Counters
  <2>4. releasedCnt < 0 \/ releasedCnt = Cardinality(ToRelease(NCores + 1))
    BY <1>e, <2>1
  <2>5. Counters \in SUBSET PartTakers
    BY <1>e DEF Counters, PartTakers
  <2>6. ASSUME releasedCnt >= 0 PROVE PartTakers \subseteq Counters
    <3> DEFINE N == Cardinality(ToRelease(NCores + 1))
               C == Cardinality(PartTakers)
               D == Cardinality(Counters)
    <3>1. /\ IsFiniteSet(PartTakers) /\ N \in Nat /\ C \in Nat /\ D \in Nat /\ C <= (N + 1) * tpc - 1
      BY <1>a, CalledCount
    <3>2. D <= C /\ (C = D => PartTakers = Counters)
      BY <2>5, <3>1, FS_Subset
    <3>3. D + 1 >= (N + 1) * tpc
      BY <1>a, <1>e, <2>1, <2>4, <2>6, <3>1
    <3> HIDE DEF N, C, D
    <3>4. CASE tpc = 1
      BY <3>1, <3>2, <3>3, <3>4
    <3>5. CASE tpc = 2
      BY <3>1, <3>2, <3>3, <3>5
    <3> QED BY <1>a, <3>4, <3>5
  <2>7. ToRelease(NCores + 1)' = ToRelease(NCores + 1)
    BY <1>a DEF ToRelease
  <2> QED BY <1>b, <1>e, <2>1, <2>2, <2>3, <2>4, <2>6, <2>7 DEF ThreadCounts
<1>14. CASE Pause(x)
  BY <1>a, <1>d, <1>e, <1>14, CountsStay DEF Pause
<1>15. CASE PauseLock(x)
  BY <1>a, <1>d, <1>e, <1>15, CountsStay DEF PauseLock
<1>16. CASE DisableOthers(x)
  BY <1>a, <1>d, <1>e, <1>16, CountsStay DEF DisableOthers
<1>17. CASE Paused(x)
  BY <1>a, <1>d, <1>e, <1>17, CountsStay DEF Paused
<1>18. CASE PauseTimeout(x)
  BY <1>a, <1>d, <1>e, <1>18, CountsStay DEF PauseTimeout
<1>19. CASE ResumeOthers(x)
  BY <1>a, <1>d, <1>e, <1>19, CountsStay DEF ResumeOthers
<1>20. CASE PauseUnlock(x)
  BY <1>a, <1>d, <1>e, <1>20, CountsStay DEF PauseUnlock
<1> QED BY <1>1, <1>2, <1>3, <1>4, <1>5, <1>6, <1>7, <1>8, <1>9, <1>10, <1>11, <1>12, <1>13, <1>14, <1>15,
     <1>16, <1>17, <1>18, <1>19, <1>20 DEF ThreadStep, BootStep, PauseStep

(* Power on                                                                 *)
LEMMA FirstThreads ==
    ASSUME NEW t \in {1, 2}, NEW x \in HwThread
    PROVE  /\ x \in {c * t : c \in 1 .. NCores} <=> x # 0 /\ x \div t <= NCores /\ x % t = 0
           /\ x \in Nat /\ x \div t \in Nat
           /\ x % 2 = 1 => x # 0 /\ x - 1 \in HwThread /\ (x - 1) % 2 = 0 /\ (x - 1) \div 2 <= NCores /\ x % 2 # 0
<1>1. x \in Nat /\ x <= 2 * NCores + 1
  BY SmpAssumption DEF HwThread
<1>2. CASE t = 1
  <2>1. x \div t = x /\ x % t = 0
    BY <1>1, <1>2
  <2>2. x \in {c * t : c \in 1 .. NCores} <=> x \in 1 .. NCores
    BY <1>1, <1>2
  <2>3. x % 2 = 1 => x # 0 /\ x - 1 \in HwThread /\ (x - 1) % 2 = 0 /\ (x - 1) \div 2 <= NCores /\ x % 2 # 0
    BY <1>1, SmpAssumption DEF HwThread
  <2> QED BY <1>1, <2>1, <2>2, <2>3, SmpAssumption
<1>3. CASE t = 2
  <2>1. PICK k \in Nat : k = x \div 2 /\ (x = 2 * k \/ x = 2 * k + 1) /\ (x % 2 = 0 <=> x = 2 * k)
    BY <1>1
  <2>2. x \in {c * 2 : c \in 1 .. NCores} => x # 0 /\ k <= NCores /\ x = 2 * k
    BY <1>1, <2>1, SmpAssumption
  <2>3. x # 0 /\ k <= NCores /\ x = 2 * k => k \in 1 .. NCores /\ x = k * 2
    BY <1>1, <2>1, SmpAssumption
  <2>4. x % 2 = 1 => x # 0 /\ x - 1 \in HwThread /\ (x - 1) % 2 = 0 /\ (x - 1) \div 2 <= NCores /\ x % 2 # 0
    BY <1>1, SmpAssumption DEF HwThread
  <2> QED BY <1>1, <1>3, <2>1, <2>2, <2>3, <2>4
<1> QED BY <1>2, <1>3

LEMMA PowerOnHolds == SmpInit /\ PowerOn => Powered'
<1> SUFFICES ASSUME SmpInit, PowerOn PROVE Powered'
  OBVIOUS
<1>1. PICK t \in {1, 2} : tpc' = t
  BY DEF PowerOn
<1>2. 0 \in HwThread /\ NCores \in Nat
  BY SmpAssumption DEF HwThread
<1>3. \A x \in HwThread : /\ Present(x)' <=> x \div t <= NCores
                          /\ Lead(x)' <=> x % t = 0
                          /\ Second(x)' <=> t = 2 /\ x % 2 = 1
                          /\ CoreOf(x)' = x \div t
  BY <1>1 DEF Present, Lead, Second, CoreOf
<1>4. \A x \in HwThread : hwPc'[x] = IF x = 0 THEN "begin" ELSE IF x \div t <= NCores /\ x % t = 0 THEN "spin" ELSE "off"
  BY <1>1, FirstThreads DEF PowerOn
<1>5. \A x \in HwThread : (enabled'[x] <=> hwPc'[x] # "off") /\ (running'[x] <=> hwPc'[x] # "off")
  BY DEF PowerOn
<1>6. /\ \A x \in HwThread : hwPir'[x] = IF t > 1 /\ x % 2 = 1 THEN 8 * (x \div 2) + 1 ELSE x
      /\ hwPir' \in [HwThread -> Int] /\ hwPir'[0] = 0
  <2>1. hwPir' = [x \in HwThread |-> IF t > 1 /\ x % 2 = 1 THEN 8 * (x \div 2) + 1 ELSE x]
    BY <1>1 DEF PowerOn
  <2>2. \A x \in HwThread : x \in Int /\ 8 * (x \div 2) + 1 \in Int
    BY DEF HwThread
  <2>3. 0 % 2 = 0
    OBVIOUS
  <2> QED BY <1>2, <2>1, <2>2, <2>3
<1>7. /\ nodeAt' = 1 /\ releasedCnt' = 0 /\ startedThreads' = 1 /\ timedOut' = FALSE
      /\ table' = [x \in HwThread |-> EmptyTable] /\ percpus' = [x \in HwThread |-> None]
      /\ hwCpu' = [x \in HwThread |-> None] /\ pauseLock' = [c \in 0 .. NCores |-> None]
      /\ cpuNodes' \in [1 .. NCores -> NodeKind]
  BY DEF PowerOn, SmpInit, pauseVars
<1>8. ThreadTypes'
  <2>1. hwPc' \in [HwThread -> Places]
    <3>1. hwPc' = [x \in HwThread |-> hwPc'[x]]
      BY DEF PowerOn
    <3>2. \A x \in HwThread : hwPc'[x] \in Places
      BY <1>4 DEF Places, Starting
    <3> QED BY <3>1, <3>2
  <2>2. enabled' \in [HwThread -> BOOLEAN] /\ running' \in [HwThread -> BOOLEAN]
    BY DEF PowerOn
  <2>3. table' \in [HwThread -> [r3 : Int, pir : Int, hi : BOOLEAN, lo : BOOLEAN]]
    BY <1>7 DEF EmptyTable, None
  <2>4. percpus' \in [HwThread -> Int] /\ hwCpu' \in [HwThread -> Int] /\ pauseLock' \in [0 .. NCores -> HwThread \cup {None}]
    BY <1>7 DEF None
  <2>5. nodeAt' \in 1 .. NCores + 1 /\ timedOut' \in BOOLEAN /\ startedThreads' \in Nat /\ releasedCnt' \in Int
    <3>1. nodeAt' = 1 /\ releasedCnt' = 0 /\ startedThreads' = 1
      BY <1>7
    <3>2. timedOut' \in BOOLEAN
      BY <1>7
    <3> QED BY <1>2, <3>1, <3>2
  <2> QED BY <1>1, <1>6, <1>7, <2>1, <2>2, <2>3, <2>4, <2>5 DEF ThreadTypes
<1>9. ThreadPlaces'
  <2>1. \A x \in HwThread : Second(x)' => hwPc'[x] = "off" /\ x # 0
    BY <1>3, <1>4, FirstThreads
  <2>2. hwPc'[0] = "begin"
    BY <1>2, <1>4
  <2>3. \A x \in HwThread : hwPc'[x] \in {"begin", "spin", "off"}
    BY <1>4
  <2>4. \A x \in HwThread \ {0} : (~Present(x)' => hwPc'[x] = "off") /\ (Present(x)' /\ Lead(x)' => hwPc'[x] = "spin")
    BY <1>3, <1>4
  <2> QED BY <1>5, <2>1, <2>2, <2>3, <2>4 DEF ThreadPlaces, Starting, UpNow, Holding
<1>10. ThreadData'
  <2>1. hwPc'[0] = "begin"
    BY <1>2, <1>4
  <2>2. \A x \in HwThread \ {0} : hwPc'[x] \in {"spin", "off"}
    BY <1>4
  <2>3. \A x \in HwThread : Second(x)' => hwPir'[x] = 8 * (x \div 2) + 1
    BY <1>3, <1>6
  <2>4. \A x \in HwThread : Second(x)' => hwPc'[x - 1] \in {"begin", "spin"}
    <3> SUFFICES ASSUME NEW x \in HwThread, Second(x)' PROVE hwPc'[x - 1] \in {"begin", "spin"}
      OBVIOUS
    <3>1. t = 2 /\ x - 1 \in HwThread /\ (x - 1) % 2 = 0 /\ (x - 1) \div 2 <= NCores
      BY <1>3, FirstThreads
    <3> QED BY <1>4, <3>1
  <2>5. \A x \in HwThread : ~table'[x].lo
    BY <1>7 DEF EmptyTable
  <2> QED BY <1>6, <2>1, <2>2, <2>3, <2>4, <2>5 DEF ThreadData, Filling
<1>11. ThreadCounts'
  <2>1. hwPc'[0] = "begin"
    BY <1>2, <1>4
  <2>2. \A x \in HwThread \ {0} : hwPc'[x] \in {"spin", "off"}
    BY <1>4
  <2>3. Counters' = {} /\ ToRelease(nodeAt)' = {}
    BY <1>2, <1>7, <2>2 DEF Counters, ToRelease, UpNow, Holding
  <2>4. startedThreads' = Cardinality(Counters') + 1 /\ releasedCnt' = Cardinality(ToRelease(nodeAt)')
    BY <1>7, <2>3, FS_EmptySet
  <2> QED BY <2>1, <2>2, <2>4 DEF ThreadCounts, Starting, Releasing, UpNow, Holding
<1>12. ThreadPauses'
  <2>1. \A x \in HwThread : Present(x)' => pauseLock'[CoreOf(x)'] # x
    <3> SUFFICES ASSUME NEW x \in HwThread, Present(x)' PROVE pauseLock'[CoreOf(x)'] # x
      OBVIOUS
    <3>1. CoreOf(x)' \in 0 .. NCores /\ x \in Nat
      BY <1>2, <1>3, FirstThreads
    <3> QED BY <1>7, <3>1 DEF None
  <2>2. \A x \in HwThread : hwPc'[x] \in {"begin", "spin", "off"}
    BY <1>4
  <2> QED BY <1>5, <2>1, <2>2 DEF ThreadPauses, Stopping, Holding
<1> QED BY <1>8, <1>9, <1>10, <1>11, <1>12 DEF Powered

(* Before it nothing runs.                                                  *)
LEMMA NothingRuns ==
    ASSUME SmpInit, NEW x \in HwThread
    PROVE  ~ThreadStep(x)
<1>1. ~running[x] /\ ~enabled[x] /\ (x = 0 => ~running[0])
  BY DEF SmpInit
<1>2. running[x] = enabled[x]
  BY DEF SmpInit
<1> QED
  BY <1>1, <1>2 DEF ThreadStep, BootStep, PauseStep, On, Begin, StopThread, HandOver, StartThread,
       hw_thread_start,
     secondary_start, CountStarted, SwitchThread, NextNode, EndOfNodes, FillTable, Store, CountReleased, WaitStarted,
     Pause, PauseLock, DisableOthers, Paused, PauseTimeout, ResumeOthers, PauseUnlock

LEMMA SmpNextHolds == SmpInv /\ [SmpNext]_smpVars => SmpInv'
<1> SUFFICES ASSUME SmpInv, [SmpNext]_smpVars PROVE SmpInv'
  OBVIOUS
<1>1. CASE UNCHANGED smpVars
  <2>1. SmpInit => SmpInit'
    BY <1>1 DEF smpVars, startVars, handVars, pauseVars, SmpInit
  <2>2. Powered => Powered'
    <3>1. /\ tpc' = tpc /\ cpuNodes' = cpuNodes /\ nodeAt' = nodeAt /\ releasedCnt' = releasedCnt
          /\ startedThreads' = startedThreads /\ table' = table /\ percpus' = percpus /\ hwPir' = hwPir /\ hwCpu' = hwCpu
          /\ pauseLock' = pauseLock /\ timedOut' = timedOut /\ hwPc' = hwPc /\ enabled' = enabled /\ running' = running
      BY <1>1 DEF smpVars, startVars, handVars, pauseVars
    <3>2. ThreadTypes' <=> ThreadTypes
      BY <3>1 DEF ThreadTypes
    <3>3. ThreadPlaces' <=> ThreadPlaces
      BY <3>1 DEF ThreadPlaces, Present, CoreOf, Lead, Second
    <3>4. ThreadData' <=> ThreadData
      BY <3>1 DEF ThreadData, Present, CoreOf, Lead, Second, Released, NodePir
    <3>5. ThreadCounts' <=> ThreadCounts
      BY <3>1 DEF ThreadCounts, PartTakers, Counters, TakesPart, ToRelease, Present, CoreOf
    <3>6. ThreadPauses' <=> ThreadPauses
      BY <3>1 DEF ThreadPauses, Siblings, Present, CoreOf
    <3> QED BY <3>2, <3>3, <3>4, <3>5, <3>6 DEF Powered
  <2> QED BY <2>1, <2>2 DEF SmpInv
<1>2. CASE PowerOn
  <2>1. CASE SmpInit
    BY <1>2, <2>1, PowerOnHolds DEF SmpInv
  <2>2. CASE Powered
    <3>1. hwPc[0] # "off"
      BY <2>2 DEF Powered, ThreadPlaces, Starting, Releasing, UpNow, Holding
    <3> QED BY <1>2, <3>1 DEF PowerOn
  <2> QED BY <2>1, <2>2 DEF SmpInv
<1>3. CASE \E x \in HwThread : ThreadStep(x)
  <2>1. PICK x \in HwThread : ThreadStep(x)
    BY <1>3
  <2>2. Powered
    BY <2>1, NothingRuns DEF SmpInv
  <2>3. Powered'
    BY <2>1, <2>2, StepTypes, StepPlaces, StepData, StepCounts, StepPauses DEF Powered
  <2> QED BY <2>3 DEF SmpInv
<1> QED BY <1>1, <1>2, <1>3 DEF SmpNext, ThreadStep

-----------------------------------------------------------------------------
(* What it implies                                                          *)

LEMMA SmpInvSound == SmpInv => SmpSound
<1>1. CASE SmpInit
  <2>1. Begun = {} /\ hwPc[0] = "off"
    BY <1>1, SmpAssumption DEF SmpInit, Begun, HwThread
  <2> QED BY <2>1 DEF SmpSound, OwnPerCpu, AllStarted, PauseExclusive
<1>2. CASE Powered
  <2>1. tpc \in {1, 2} /\ ThreadPlaces /\ ThreadData /\ ThreadCounts /\ ThreadPauses
    BY <1>2 DEF Powered, ThreadTypes
  <2>2. OwnPerCpu
    BY <2>1 DEF OwnPerCpu, Begun, ThreadData
  <2>3. AllStarted
    <3> SUFFICES ASSUME hwPc[0] = "up", releasedCnt >= 0, NEW x \in HwThread \ {0}
                 PROVE  TakesPart(x) <=> x \in Begun /\ hwPc[x] # "count"
      BY DEF AllStarted, TakesPart
    <3>1. PartTakers \subseteq Counters
      BY <2>1 DEF ThreadCounts, UpNow
    <3>2. TakesPart(x) => x \in Begun /\ hwPc[x] # "count"
      BY <3>1 DEF PartTakers, Counters, Begun, UpNow, Holding
    <3>3. x \in Begun => TakesPart(x)
      BY <2>1 DEF Begun, ThreadCounts
    <3> QED BY <3>2, <3>3
  <2>4. PauseExclusive
    <3> SUFFICES ASSUME NEW x \in Begun \cup {0}
                 PROVE  /\ hwPc[x] = "paused" => \A y \in Siblings(x) : ~running[y]
                        /\ ~enabled[x] /\ hwPc[x] # "off" => timedOut \/ \E y \in Siblings(x) : pauseLock[CoreOf(x)] = y
      BY DEF PauseExclusive
    <3>1. x \in HwThread
      BY SmpAssumption DEF Begun, HwThread
    <3>2. ASSUME NEW y \in Siblings(x), hwPc[y] \in Stopping PROVE pauseLock[CoreOf(x)] = y
      <4>1. y \in HwThread /\ Present(y) /\ CoreOf(y) = CoreOf(x)
        BY DEF Siblings
      <4> QED BY <2>1, <3>2, <4>1 DEF ThreadPauses, Stopping, Holding
    <3> QED BY <2>1, <3>1, <3>2 DEF ThreadPauses
  <2> QED BY <2>2, <2>3, <2>4 DEF SmpSound
<1> QED BY <1>1, <1>2 DEF SmpInv


-----------------------------------------------------------------------------
(* Exceptions: what each trap under way has saved, and where                *)

TrapSteps == {"save", "frame", "level", "keepee", "body", "disable", "load", "relevel", "rfi"}
InFrame == {"level", "keepee", "body", "disable", "load", "relevel"}
Levelled == {"keepee", "body", "disable", "load", "relevel"}
EEMayBeOn == {"body", "disable"}
Bits == {"EE", "CE", "ME", "DE"}
SavedRegs == [pc : Nat, msr : SUBSET Bits]
TrapRecord == [id : 1 .. MaxTraps, level : Level, sync : BOOLEAN, step : TrapSteps, from : Nat,
               bits : SUBSET Bits, owner : Nat]

TrapTypes ==
    /\ traps \in Seq(TrapRecord) /\ msr \in SUBSET Bits /\ regs \in Nat
    /\ savearea \in [Level -> Nat] /\ srr \in [Level -> SavedRegs]
    /\ frame \in [2 .. Debug + MaxTraps -> [gpr : Nat, pc : Nat, msr : SUBSET Bits, tl : 0 .. Debug]]
    /\ traplevel \in 0 .. Debug /\ taken \in 0 .. MaxTraps

(* Traps are numbered in the order they came, and only normal ones nest in  *)
(* one of their own level.                                                  *)
TrapStack ==
    /\ \A i \in 1 .. Len(traps) : /\ traps[i].id <= taken
                                  /\ traps[i].sync => traps[i].level = Normal
    /\ \A i \in 1 .. Len(traps), j \in 1 .. Len(traps) :
          i < j => /\ traps[i].id < traps[j].id
                   /\ traps[i].level = traps[j].level => traps[i].level = Normal /\ traps[i].step \notin Exposed

(* The enable bits and the registers' owner as the i-th trap left them.     *)
BitsAt(i) == IF i = Len(traps) THEN msr ELSE traps[i + 1].bits
OwnerAt(i) == IF i = Len(traps) THEN regs ELSE traps[i + 1].owner

(* A trap keeps off what would take the registers of its level from it.     *)
TrapBits ==
    \A i \in 1 .. Len(traps) :
      /\ \A j \in 1 .. Len(traps) : i <= j => BitsAt(j) \subseteq traps[i].bits
      /\ traps[i].level # Normal => EnableBit[traps[i].level] \notin BitsAt(i) /\ "EE" \notin BitsAt(i)
      /\ traps[i].step \notin EEMayBeOn => "EE" \notin BitsAt(i)

FrameOf(t) == IF t.level = Normal THEN Debug + t.id ELSE t.level

(* t is the highest level of the first n traps.                             *)
Highest(t, n) ==
    /\ t = 0 \/ \E i \in 1 .. Len(traps) : i <= n /\ traps[i].step \in Levelled /\ t = traps[i].level
    /\ \A i \in 1 .. Len(traps) : i <= n /\ traps[i].step \in Levelled => traps[i].level <= t

(* What a trap is to go back to is in its save/restore registers or in its  *)
(* frame, and the registers in the save area or in the frame, or they have  *)
(* not been touched.                                                        *)
SavedOf(i) ==
    /\ traps[i].step \in Exposed => srr[traps[i].level] = [pc |-> traps[i].from, msr |-> traps[i].bits]
    /\ traps[i].step = "frame" => savearea[traps[i].level] = traps[i].owner
    /\ traps[i].step \in {"save", "rfi"} => OwnerAt(i) = traps[i].owner
    /\ traps[i].step \in InFrame =>
          /\ frame[FrameOf(traps[i])].gpr = traps[i].owner
          /\ frame[FrameOf(traps[i])].pc = traps[i].from
          /\ frame[FrameOf(traps[i])].msr = traps[i].bits
          /\ Highest(frame[FrameOf(traps[i])].tl, i - 1)

TrapSaved == Highest(traplevel, Len(traps)) /\ \A i \in 1 .. Len(traps) : SavedOf(i)

TrapsKept == TrapTypes /\ TrapStack /\ TrapBits /\ TrapSaved
TrapInv == refault \/ TrapsKept

LEMMA TrapTables ==
    /\ EnableBit[Normal] = "EE" /\ EnableBit[Crit] = "CE" /\ EnableBit[Mcheck] = "ME" /\ EnableBit[Debug] = "DE"
    /\ \A l \in Level : EnableBit[l] \in Bits /\ EnableBit[l] \in Cleared[l] /\ "EE" \in Cleared[l] /\ "EE" \in Disabled[l]
<1>1. /\ EnableBit[Normal] = "EE" /\ EnableBit[Crit] = "CE" /\ EnableBit[Mcheck] = "ME" /\ EnableBit[Debug] = "DE"
  BY DEF EnableBit, Normal, Crit, Mcheck, Debug
<1>2. /\ Cleared[Normal] = {"EE"} /\ Cleared[Crit] = {"EE", "CE"}
      /\ Cleared[Mcheck] = {"EE", "CE", "ME", "DE"} /\ Cleared[Debug] = {"EE", "CE", "DE"}
  BY DEF Cleared, Normal, Crit, Mcheck, Debug
<1>3. /\ Disabled[Normal] = {"EE"} /\ Disabled[Crit] = {"EE", "CE"}
      /\ Disabled[Mcheck] = {"EE", "CE", "ME", "DE"} /\ Disabled[Debug] = {"EE", "CE", "DE"}
  BY DEF Disabled, Normal, Crit, Mcheck, Debug
<1> QED BY <1>1, <1>2, <1>3 DEF Level, Bits

LEMMA TrapOf ==
    ASSUME TrapTypes, NEW i \in 1 .. Len(traps)
    PROVE  /\ Len(traps) \in Nat /\ i \in Nat /\ traps[i] \in TrapRecord
           /\ traps[i].id \in 1 .. MaxTraps /\ traps[i].level \in Level /\ traps[i].sync \in BOOLEAN
           /\ traps[i].step \in TrapSteps /\ traps[i].from \in Nat /\ traps[i].bits \in SUBSET Bits /\ traps[i].owner \in Nat
           /\ FrameOf(traps[i]) \in 2 .. Debug + MaxTraps
<1>1. traps \in Seq(TrapRecord)
  BY DEF TrapTypes
<1>2. Len(traps) \in Nat /\ i \in Nat /\ traps[i] \in TrapRecord
  BY <1>1
<1>3. /\ traps[i].id \in 1 .. MaxTraps /\ traps[i].level \in Level /\ traps[i].sync \in BOOLEAN
      /\ traps[i].step \in TrapSteps /\ traps[i].from \in Nat /\ traps[i].bits \in SUBSET Bits /\ traps[i].owner \in Nat
  BY <1>2 DEF TrapRecord
<1>4. FrameOf(traps[i]) \in 2 .. Debug + MaxTraps
  BY <1>3, TrapAssumption DEF FrameOf, Level, Normal, Crit, Mcheck, Debug
<1> QED BY <1>2, <1>3, <1>4

LEMMA FramesApart ==
    ASSUME TrapTypes, TrapStack, NEW i \in 1 .. Len(traps), NEW j \in 1 .. Len(traps), i < j
    PROVE  FrameOf(traps[i]) # FrameOf(traps[j])
<1>1. traps[i].id < traps[j].id /\ (traps[i].level = traps[j].level => traps[i].level = Normal)
  BY DEF TrapStack
<1>2. /\ traps[i].id \in 1 .. MaxTraps /\ traps[i].level \in Level
      /\ traps[j].id \in 1 .. MaxTraps /\ traps[j].level \in Level
  BY TrapOf
<1> QED BY <1>1, <1>2, TrapAssumption DEF FrameOf, Level, Normal, Crit, Mcheck, Debug

(* The trap that runs, and a step of it.                                    *)
LEMMA TopTrap ==
    ASSUME TrapTypes, NEW l, InStep(l)
    PROVE  /\ Len(traps) \in Nat /\ Len(traps) \in 1 .. Len(traps) /\ Me = traps[Len(traps)] /\ traps[Len(traps)].step = l
           /\ MyFrame = FrameOf(traps[Len(traps)])
<1>1. traps \in Seq(TrapRecord) /\ traps # <<>> /\ Last(traps).step = l
  BY DEF TrapTypes, InStep
<1>2. Len(traps) \in Nat /\ Len(traps) # 0
  BY <1>1, EmptySeq, LenProperties
<1>3. Me = traps[Len(traps)]
  BY DEF Me, Last
<1>4. MyFrame = FrameOf(traps[Len(traps)])
  BY <1>3 DEF MyFrame, FrameOf
<1> QED BY <1>1, <1>2, <1>3, <1>4 DEF Me

LEMMA TopMoves ==
    ASSUME TrapTypes, NEW k, InStep(k), NEW l \in TrapSteps, ToStep(l)
    PROVE  /\ traps' \in Seq(TrapRecord) /\ Len(traps') = Len(traps)
           /\ \A i \in 1 .. Len(traps) :
                 /\ i # Len(traps) => traps'[i] = traps[i]
                 /\ traps'[i].id = traps[i].id /\ traps'[i].level = traps[i].level /\ traps'[i].sync = traps[i].sync
                 /\ traps'[i].from = traps[i].from /\ traps'[i].bits = traps[i].bits /\ traps'[i].owner = traps[i].owner
                 /\ FrameOf(traps'[i]) = FrameOf(traps[i])
           /\ traps'[Len(traps)].step = l
<1>1. PICK n \in Nat : n = Len(traps) /\ n \in 1 .. n /\ traps[n] \in TrapRecord
  BY TopTrap, TrapOf
<1>2. traps' = [traps EXCEPT ![n] = [traps[n] EXCEPT !.step = l]]
  BY <1>1 DEF ToStep
<1>3. [traps[n] EXCEPT !.step = l] \in TrapRecord
  BY <1>1 DEF TrapRecord
<1>4. traps \in Seq(TrapRecord)
  BY DEF TrapTypes
<1>5. traps' \in Seq(TrapRecord) /\ Len(traps') = n
  BY <1>1, <1>2, <1>3, <1>4, ExceptSeq
<1>6. \A i \in 1 .. n : traps'[i] = IF i = n THEN [traps[n] EXCEPT !.step = l] ELSE traps[i]
  BY <1>1, <1>2, <1>4, ExceptSeq
<1>7. LET t == [traps[n] EXCEPT !.step = l]
      IN  /\ t.id = traps[n].id /\ t.level = traps[n].level /\ t.sync = traps[n].sync
          /\ t.from = traps[n].from /\ t.bits = traps[n].bits /\ t.owner = traps[n].owner /\ t.step = l
  BY <1>1 DEF TrapRecord
<1>8. \A i \in 1 .. n : /\ traps'[i].id = traps[i].id /\ traps'[i].level = traps[i].level /\ traps'[i].sync = traps[i].sync
                        /\ traps'[i].from = traps[i].from /\ traps'[i].bits = traps[i].bits /\ traps'[i].owner = traps[i].owner
  BY <1>6, <1>7
<1> QED BY <1>1, <1>5, <1>6, <1>7, <1>8 DEF FrameOf

(* What a step of the running trap leaves as it was.                        *)
LEMMA StackStays ==
    ASSUME TrapsKept, NEW k, InStep(k), NEW l \in TrapSteps, ToStep(l), taken' = taken
    PROVE  TrapStack'
<1>1. TrapTypes /\ TrapStack
  BY DEF TrapsKept
<1>2. PICK n \in Nat : n = Len(traps) /\ n \in 1 .. n
  BY <1>1, TopTrap
<1>3. /\ Len(traps') = n
      /\ \A i \in 1 .. n : /\ i # n => traps'[i] = traps[i]
                           /\ traps'[i].id = traps[i].id /\ traps'[i].level = traps[i].level /\ traps'[i].sync = traps[i].sync
  BY <1>1, <1>2, TopMoves
<1>4. \A i \in 1 .. n : traps'[i].id <= taken' /\ (traps'[i].sync => traps'[i].level = Normal)
  BY <1>1, <1>2, <1>3 DEF TrapStack
<1>5. ASSUME NEW i \in 1 .. n, NEW j \in 1 .. n, i < j
      PROVE  /\ traps'[i].id < traps'[j].id
             /\ traps'[i].level = traps'[j].level => traps'[i].level = Normal /\ traps'[i].step \notin Exposed
  <2>1. i # n
    BY <1>2, <1>5
  <2>2. traps'[i] = traps[i] /\ traps'[j].id = traps[j].id /\ traps'[j].level = traps[j].level
    BY <1>3, <2>1
  <2> QED BY <1>1, <1>2, <1>5, <2>2 DEF TrapStack
<1> QED BY <1>3, <1>4, <1>5 DEF TrapStack

LEMMA BitsStay ==
    ASSUME TrapsKept, NEW k, InStep(k), NEW l \in TrapSteps, ToStep(l),
           \A i \in 1 .. Len(traps) : msr' \subseteq traps[i].bits,
           Me.level # Normal => EnableBit[Me.level] \notin msr' /\ "EE" \notin msr',
           l \notin EEMayBeOn => "EE" \notin msr'
    PROVE  TrapBits'
<1>1. TrapTypes /\ TrapBits
  BY DEF TrapsKept
<1>2. PICK n \in Nat : n = Len(traps) /\ n \in 1 .. n /\ Me = traps[n]
  BY <1>1, TopTrap
<1>3. /\ Len(traps') = n /\ traps'[n].step = l
      /\ \A i \in 1 .. n : /\ i # n => traps'[i] = traps[i]
                           /\ traps'[i].level = traps[i].level /\ traps'[i].bits = traps[i].bits
  BY <1>1, <1>2, TopMoves
<1>4. \A i \in 1 .. n : BitsAt(i)' = IF i = n THEN msr' ELSE BitsAt(i)
  <2> TAKE i \in 1 .. n
  <2>1. CASE i = n
    BY <1>3, <2>1 DEF BitsAt
  <2>2. CASE i # n
    <3>1. i + 1 \in 1 .. n
      BY <1>2, <2>2
    <3> QED BY <1>2, <1>3, <2>2, <3>1 DEF BitsAt
  <2> QED BY <2>1, <2>2
<1>5. ASSUME NEW i \in 1 .. n
      PROVE  /\ \A j \in 1 .. n : i <= j => BitsAt(j)' \subseteq traps'[i].bits
             /\ traps'[i].level # Normal => EnableBit[traps'[i].level] \notin BitsAt(i)' /\ "EE" \notin BitsAt(i)'
             /\ traps'[i].step \notin EEMayBeOn => "EE" \notin BitsAt(i)'
  <2>1. ASSUME NEW j \in 1 .. n, i <= j PROVE BitsAt(j)' \subseteq traps'[i].bits
    BY <1>1, <1>2, <1>3, <1>4, <2>1 DEF TrapBits
  <2>2. traps'[i].level # Normal => EnableBit[traps'[i].level] \notin BitsAt(i)' /\ "EE" \notin BitsAt(i)'
    BY <1>1, <1>2, <1>3, <1>4 DEF TrapBits
  <2>3. traps'[i].step \notin EEMayBeOn => "EE" \notin BitsAt(i)'
    BY <1>1, <1>2, <1>3, <1>4 DEF TrapBits
  <2> QED BY <2>1, <2>2, <2>3
<1> QED BY <1>3, <1>5 DEF TrapBits

(* The highest level of the traps below the one that runs.                  *)
LEMMA HighestStays ==
    ASSUME TrapTypes, NEW k, InStep(k), NEW l \in TrapSteps, ToStep(l),
           NEW t, NEW m, m \in Nat, m < Len(traps)
    PROVE  Highest(t, m)' <=> Highest(t, m)
<1>1. PICK n \in Nat : n = Len(traps) /\ n \in 1 .. n
  BY TopTrap
<1>2. Len(traps') = n /\ \A i \in 1 .. n : i # n => traps'[i] = traps[i]
  BY <1>1, TopMoves
<1>3. \A i \in 1 .. n : i <= m => i # n
  BY <1>1
<1> QED BY <1>1, <1>2, <1>3 DEF Highest

LEMMA SavedBelow ==
    ASSUME TrapsKept, NEW k, InStep(k), NEW l \in TrapSteps, ToStep(l),
           srr' = srr \/ \E v : srr' = [srr EXCEPT ![Me.level] = v],
           savearea' = savearea \/ \E v : savearea' = [savearea EXCEPT ![Me.level] = v],
           frame' = frame \/ \E v : frame' = [frame EXCEPT ![MyFrame] = v],
           NEW i \in 1 .. Len(traps), i # Len(traps)
    PROVE  SavedOf(i)'
<1>1. TrapTypes /\ TrapStack /\ SavedOf(i)
  BY DEF TrapsKept, TrapSaved
<1>2. PICK n \in Nat : n = Len(traps) /\ n \in 1 .. n /\ Me = traps[n] /\ MyFrame = FrameOf(traps[n])
  BY <1>1, TopTrap
<1>3. /\ Len(traps') = n /\ traps'[i] = traps[i] /\ i \in 1 .. n /\ i < n
      /\ \A j \in 1 .. n : traps'[j].owner = traps[j].owner
  BY <1>1, <1>2, TopMoves
<1>4. /\ traps[i].level \in Level /\ traps[n].level \in Level /\ FrameOf(traps[i]) \in 2 .. Debug + MaxTraps
      /\ FrameOf(traps[i]) # FrameOf(traps[n])
      /\ traps[i].step \in Exposed => traps[i].level # traps[n].level
  BY <1>1, <1>2, <1>3, TrapOf, FramesApart DEF TrapStack
<1>5. srr' [traps[i].level] = srr[traps[i].level] \/ traps[i].level = traps[n].level
  BY <1>1, <1>2, <1>4 DEF TrapTypes
<1>6. savearea'[traps[i].level] = savearea[traps[i].level] \/ traps[i].level = traps[n].level
  BY <1>1, <1>2, <1>4 DEF TrapTypes
<1>7. frame'[FrameOf(traps[i])] = frame[FrameOf(traps[i])]
  BY <1>1, <1>2, <1>4 DEF TrapTypes
<1>8. OwnerAt(i)' = OwnerAt(i)
  <2>1. i + 1 \in 1 .. n
    BY <1>2, <1>3
  <2> QED BY <1>2, <1>3, <2>1 DEF OwnerAt
<1>9. Highest(frame[FrameOf(traps[i])].tl, i - 1) => Highest(frame[FrameOf(traps[i])].tl, i - 1)'
  <2>1. i - 1 \in Nat /\ i - 1 < Len(traps)
    BY <1>2, <1>3
  <2>2. PICK t : t = frame[FrameOf(traps[i])].tl
    OBVIOUS
  <2>3. (frame[FrameOf(traps[i])].tl)' = t
    BY <1>3, <1>7, <2>2 DEF FrameOf
  <2>4. Highest(t, i - 1)' <=> Highest(t, i - 1)
    BY <1>1, <2>1, HighestStays
  <2>5. Highest(frame[FrameOf(traps[i])].tl, i - 1) => Highest(t, i - 1)
    BY <2>2
  <2>6. Highest(t, i - 1)' => Highest(frame[FrameOf(traps[i])].tl, i - 1)'
    BY <2>3 DEF Highest
  <2> QED BY <2>4, <2>5, <2>6
<1>10. FrameOf(traps'[i]) = FrameOf(traps[i]) /\ (traps[i].step = "frame" => traps[i].step \in Exposed)
  BY <1>3 DEF Exposed
<1> QED BY <1>1, <1>3, <1>4, <1>5, <1>6, <1>7, <1>8, <1>9, <1>10 DEF SavedOf

LEMMA HighestOff ==
    ASSUME TrapTypes, NEW k, InStep(k), k \notin Levelled, NEW t
    PROVE  Highest(t, Len(traps)) <=> Highest(t, Len(traps) - 1)
<1>1. PICK n \in Nat : n = Len(traps) /\ n \in 1 .. n /\ traps[n].step = k
  BY TopTrap
<1>2. \A i \in 1 .. n : traps[i].step \in Levelled => (i <= n <=> i <= n - 1)
  BY <1>1
<1> QED BY <1>1, <1>2 DEF Highest

LEMMA HighestTop ==
    ASSUME TrapTypes, NEW k, InStep(k), NEW l \in TrapSteps, ToStep(l), NEW t
    PROVE  /\ l \notin Levelled => (Highest(t, Len(traps))' <=> Highest(t, Len(traps) - 1))
           /\ k \in Levelled /\ l \in Levelled => (Highest(t, Len(traps))' <=> Highest(t, Len(traps)))
<1>1. PICK n \in Nat : n = Len(traps) /\ n \in 1 .. n /\ traps[n].step = k
  BY TopTrap
<1>2. /\ Len(traps') = n /\ traps'[n].step = l
      /\ \A i \in 1 .. n : (i # n => traps'[i] = traps[i]) /\ traps'[i].level = traps[i].level
  BY <1>1, TopMoves
<1>3. ASSUME l \notin Levelled PROVE Highest(t, Len(traps))' <=> Highest(t, Len(traps) - 1)
  <2>1. \A i \in 1 .. n : traps'[i].step \in Levelled /\ i <= n <=> i <= n - 1 /\ traps[i].step \in Levelled
    BY <1>1, <1>2, <1>3
  <2> QED BY <1>1, <1>2, <2>1 DEF Highest
<1>4. ASSUME k \in Levelled, l \in Levelled PROVE Highest(t, Len(traps))' <=> Highest(t, Len(traps))
  <2>1. \A i \in 1 .. n : traps'[i].step \in Levelled <=> traps[i].step \in Levelled
    BY <1>1, <1>2, <1>4
  <2> QED BY <1>1, <1>2, <2>1 DEF Highest
<1> QED BY <1>3, <1>4

LEMMA TopStep ==
    ASSUME TrapsKept, NEW k, InStep(k), NEW l \in TrapSteps, ToStep(l), taken' = taken,
           TrapTypes',
           srr' = srr \/ \E v : srr' = [srr EXCEPT ![Me.level] = v],
           savearea' = savearea \/ \E v : savearea' = [savearea EXCEPT ![Me.level] = v],
           frame' = frame \/ \E v : frame' = [frame EXCEPT ![MyFrame] = v],
           \A i \in 1 .. Len(traps) : msr' \subseteq traps[i].bits,
           Me.level # Normal => EnableBit[Me.level] \notin msr' /\ "EE" \notin msr',
           l \notin EEMayBeOn => "EE" \notin msr',
           Highest(traplevel, Len(traps))',
           SavedOf(Len(traps))'
    PROVE  TrapsKept'
<1>1. TrapTypes
  BY DEF TrapsKept
<1>2. PICK n \in Nat : n = Len(traps) /\ n \in 1 .. n
  BY <1>1, TopTrap
<1>3. Len(traps') = n
  BY <1>1, <1>2, TopMoves
<1>4. TrapStack'
  BY StackStays
<1>5. TrapBits'
  BY BitsStay
<1>6. \A i \in 1 .. n : SavedOf(i)'
  <2> TAKE i \in 1 .. n
  <2>1. CASE i = n
    <3>1. SavedOf(n)'
      BY <1>2, <1>3 DEF SavedOf, Highest, OwnerAt
    <3> QED BY <2>1, <3>1
  <2>2. CASE i # n
    BY <1>2, <2>2, SavedBelow
  <2> QED BY <2>1, <2>2
<1>7. TrapSaved'
  BY <1>2, <1>3, <1>6 DEF TrapSaved
<1> QED BY <1>4, <1>5, <1>7 DEF TrapsKept

(* What holds of the running trap.                                          *)
LEMMA TopKept ==
    ASSUME TrapsKept, NEW k, InStep(k), NEW n, n = Len(traps)
    PROVE  /\ TrapTypes /\ n \in Nat /\ n \in 1 .. n /\ Me = traps[n] /\ MyFrame = FrameOf(traps[n]) /\ traps[n].step = k
           /\ Me.level \in Level /\ Me.id \in Nat /\ MyFrame \in 2 .. Debug + MaxTraps /\ (Me.sync => Me.level = Normal)
           /\ \A i \in 1 .. n : msr \subseteq traps[i].bits /\ Me.bits \subseteq traps[i].bits
           /\ Me.level # Normal => EnableBit[Me.level] \notin msr /\ "EE" \notin msr
           /\ k \notin EEMayBeOn => "EE" \notin msr
           /\ Highest(traplevel, n)
           /\ k \in Exposed => srr[Me.level].pc = Me.from /\ srr[Me.level].msr = Me.bits
           /\ k \in Exposed => srr[Me.level] = [pc |-> Me.from, msr |-> Me.bits]
           /\ k = "frame" => savearea[Me.level] = Me.owner
           /\ k \in {"save", "rfi"} => regs = Me.owner
           /\ k \in InFrame => /\ frame[MyFrame].gpr = Me.owner /\ frame[MyFrame].pc = Me.from
                               /\ frame[MyFrame].msr = Me.bits /\ Highest(frame[MyFrame].tl, n - 1)
<1>1. TrapTypes /\ TrapStack /\ TrapBits /\ TrapSaved
  BY DEF TrapsKept
<1>2. n \in Nat /\ n \in 1 .. n /\ Me = traps[n] /\ MyFrame = FrameOf(traps[n]) /\ traps[n].step = k
  BY <1>1, TopTrap
<1>3. Me.level \in Level /\ Me.id \in Nat /\ MyFrame \in 2 .. Debug + MaxTraps /\ (Me.sync => Me.level = Normal)
  <2>1. Me.level \in Level /\ Me.id \in 1 .. MaxTraps /\ MyFrame \in 2 .. Debug + MaxTraps
    BY <1>1, <1>2, TrapOf
  <2>2. Me.sync => Me.level = Normal
    BY <1>1, <1>2 DEF TrapStack
  <2> QED BY <2>1, <2>2
<1>4. BitsAt(n) = msr /\ OwnerAt(n) = regs
  BY DEF BitsAt, OwnerAt
<1>5. ASSUME NEW i \in 1 .. n PROVE msr \subseteq traps[i].bits /\ Me.bits \subseteq traps[i].bits
  <2>1. msr \subseteq traps[i].bits
    BY <1>1, <1>2, <1>4 DEF TrapBits
  <2>2. CASE i = n
    BY <1>2, <2>1, <2>2
  <2>3. CASE i # n
    <3>1. n - 1 \in 1 .. n /\ i <= n - 1 /\ (n - 1) + 1 = n /\ n - 1 # n
      BY <1>2, <2>3
    <3>2. BitsAt(n - 1) = traps[n].bits
      BY <3>1 DEF BitsAt
    <3>3. BitsAt(n - 1) \subseteq traps[i].bits
      BY <1>1, <3>1 DEF TrapBits
    <3> QED BY <1>2, <2>1, <3>2, <3>3
  <2> QED BY <2>2, <2>3
<1>6. /\ Me.level # Normal => EnableBit[Me.level] \notin msr /\ "EE" \notin msr
      /\ k \notin EEMayBeOn => "EE" \notin msr
  BY <1>1, <1>2, <1>4 DEF TrapBits
<1>7. SavedOf(n) /\ Highest(traplevel, n)
  BY <1>1, <1>2 DEF TrapSaved
<1>8. /\ k \in Exposed => srr[Me.level] = [pc |-> Me.from, msr |-> Me.bits]
      /\ k = "frame" => savearea[Me.level] = Me.owner
      /\ k \in {"save", "rfi"} => regs = Me.owner
      /\ k \in InFrame => /\ frame[MyFrame].gpr = Me.owner /\ frame[MyFrame].pc = Me.from
                          /\ frame[MyFrame].msr = Me.bits /\ Highest(frame[MyFrame].tl, n - 1)
  BY <1>2, <1>4, <1>7 DEF SavedOf
<1>9. k \in Exposed => srr[Me.level].pc = Me.from /\ srr[Me.level].msr = Me.bits
  BY <1>8
<1> QED BY <1>1, <1>2, <1>3, <1>5, <1>6, <1>7, <1>8, <1>9

(* Entry and return, a step of the running trap at a time.                  *)
LEMMA EntryKept ==
    ASSUME TrapsKept, SaveRegs \/ FillFrame \/ SetTrapLevel \/ KeepEE
    PROVE  TrapsKept'
<1>1. PICK n : n = Len(traps)
  OBVIOUS
<1>a. {"save", "frame", "level", "keepee", "body"} \subseteq TrapSteps
  BY DEF TrapSteps
<1>2. CASE SaveRegs
  <2>1. InStep("save") /\ ToStep("frame")
    BY <1>2 DEF SaveRegs
  <2>2. /\ msr' = msr /\ srr' = srr /\ frame' = frame /\ traplevel' = traplevel /\ taken' = taken
        /\ savearea' = [savearea EXCEPT ![Me.level] = regs] /\ regs' = Me.id
    BY <1>2 DEF SaveRegs
  <2>3. /\ TrapTypes /\ n \in Nat /\ n \in 1 .. n /\ Me = traps[n] /\ Me.level \in Level /\ Me.id \in Nat
        /\ \A i \in 1 .. n : msr \subseteq traps[i].bits
        /\ Me.level # Normal => EnableBit[Me.level] \notin msr /\ "EE" \notin msr
        /\ "EE" \notin msr /\ Highest(traplevel, n) /\ regs = Me.owner
        /\ srr[Me.level] = [pc |-> Me.from, msr |-> Me.bits]
    BY <1>1, <2>1, TopKept DEF Exposed, EEMayBeOn
  <2>4. /\ traps' \in Seq(TrapRecord) /\ Len(traps') = n /\ traps'[n].step = "frame" /\ traps'[n].level = Me.level
        /\ traps'[n].from = Me.from /\ traps'[n].bits = Me.bits /\ traps'[n].owner = Me.owner
    BY <1>a, <1>1, <2>1, <2>3, TopMoves
  <2>5. TrapTypes'
    BY <2>2, <2>3, <2>4 DEF TrapTypes
  <2>6. Highest(traplevel, Len(traps))'
    <3>1. Highest(traplevel, n - 1)
      BY <1>1, <2>1, <2>3, HighestOff DEF Levelled
    <3>2. PICK t : t = traplevel
      OBVIOUS
    <3>3. Highest(t, Len(traps))'
      BY <1>a, <1>1, <2>1, <2>3, <3>1, <3>2, HighestTop DEF Levelled
    <3> QED BY <2>2, <3>2, <3>3 DEF Highest
  <2>7. SavedOf(Len(traps))'
    <3>1. savearea'[Me.level] = Me.owner
      BY <2>2, <2>3 DEF TrapTypes
    <3> QED BY <2>2, <2>3, <2>4, <3>1 DEF SavedOf, InFrame
  <2> QED BY <1>a, <1>1, <2>1, <2>2, <2>3, <2>5, <2>6, <2>7, TopStep
<1>3. CASE FillFrame
  <2>1. InStep("frame") /\ ToStep("level")
    BY <1>3 DEF FillFrame
  <2>2. /\ msr' = msr /\ srr' = srr /\ savearea' = savearea /\ traplevel' = traplevel /\ taken' = taken /\ regs' = regs
        /\ frame' = [frame EXCEPT ![MyFrame] = [gpr |-> savearea[Me.level], pc |-> srr[Me.level].pc,
                                                msr |-> srr[Me.level].msr, tl |-> traplevel]]
    BY <1>3 DEF FillFrame
  <2>3. /\ TrapTypes /\ n \in Nat /\ n \in 1 .. n /\ Me = traps[n] /\ Me.level \in Level /\ MyFrame \in 2 .. Debug + MaxTraps
        /\ MyFrame = FrameOf(traps[n])
        /\ \A i \in 1 .. n : msr \subseteq traps[i].bits
        /\ Me.level # Normal => EnableBit[Me.level] \notin msr /\ "EE" \notin msr
        /\ "EE" \notin msr /\ Highest(traplevel, n) /\ savearea[Me.level] = Me.owner
        /\ srr[Me.level].pc = Me.from /\ srr[Me.level].msr = Me.bits
    BY <1>1, <2>1, TopKept DEF Exposed, EEMayBeOn
  <2>4. /\ traps' \in Seq(TrapRecord) /\ Len(traps') = n /\ traps'[n].step = "level" /\ traps'[n].level = Me.level
        /\ traps'[n].from = Me.from /\ traps'[n].bits = Me.bits /\ traps'[n].owner = Me.owner
        /\ FrameOf(traps'[n]) = MyFrame
    BY <1>a, <1>1, <2>1, <2>3, TopMoves
  <2>5. TrapTypes'
    <3>1. [gpr |-> savearea[Me.level], pc |-> srr[Me.level].pc, msr |-> srr[Me.level].msr, tl |-> traplevel]
             \in [gpr : Nat, pc : Nat, msr : SUBSET Bits, tl : 0 .. Debug]
      <4>1. savearea[Me.level] \in Nat /\ srr[Me.level] \in SavedRegs /\ traplevel \in 0 .. Debug
        BY <2>3 DEF TrapTypes
      <4> QED BY <4>1 DEF SavedRegs
    <3>2. frame' \in [2 .. Debug + MaxTraps -> [gpr : Nat, pc : Nat, msr : SUBSET Bits, tl : 0 .. Debug]]
      BY <2>2, <2>3, <3>1 DEF TrapTypes
    <3> QED BY <2>2, <2>3, <2>4, <3>2 DEF TrapTypes
  <2>6. Highest(traplevel, n - 1)
    BY <1>1, <2>1, <2>3, HighestOff DEF Levelled
  <2>7. PICK t : t = traplevel
    OBVIOUS
  <2>8. Highest(traplevel, Len(traps))'
    <3>1. Highest(t, Len(traps))'
      BY <1>a, <1>1, <2>1, <2>3, <2>6, <2>7, HighestTop DEF Levelled
    <3> QED BY <2>2, <2>7, <3>1 DEF Highest
  <2>9. SavedOf(Len(traps))'
    <3>1. /\ frame'[MyFrame].gpr = Me.owner /\ frame'[MyFrame].pc = Me.from
          /\ frame'[MyFrame].msr = Me.bits /\ frame'[MyFrame].tl = t
      BY <2>2, <2>3, <2>7 DEF TrapTypes
    <3>2. Highest(t, n - 1)'
      <4>1. n - 1 \in Nat /\ n - 1 < Len(traps)
        BY <1>1, <2>3
      <4>2. Highest(t, n - 1)
        BY <2>6, <2>7
      <4> QED BY <1>a, <2>1, <2>3, <4>1, <4>2, HighestStays
    <3>3. Highest(frame[FrameOf(traps[n])].tl, n - 1)'
      BY <2>4, <3>1, <3>2 DEF Highest, FrameOf
    <3>4. "level" \notin Exposed
      BY DEF Exposed
    <3> QED BY <2>4, <3>1, <3>3, <3>4 DEF SavedOf
  <2> QED BY <1>a, <1>1, <2>1, <2>2, <2>3, <2>5, <2>8, <2>9, TopStep
<1>4. CASE SetTrapLevel
  <2>1. InStep("level") /\ ToStep("keepee")
    BY <1>4 DEF SetTrapLevel
  <2>2. /\ msr' = msr /\ srr' = srr /\ savearea' = savearea /\ frame' = frame /\ taken' = taken /\ regs' = regs
        /\ traplevel' = IF frame[MyFrame].tl > Me.level THEN traplevel ELSE Me.level
    BY <1>4 DEF SetTrapLevel
  <2>3. /\ TrapTypes /\ n \in Nat /\ n \in 1 .. n /\ Me = traps[n] /\ Me.level \in Level /\ MyFrame \in 2 .. Debug + MaxTraps
        /\ MyFrame = FrameOf(traps[n])
        /\ \A i \in 1 .. n : msr \subseteq traps[i].bits
        /\ Me.level # Normal => EnableBit[Me.level] \notin msr /\ "EE" \notin msr
        /\ "EE" \notin msr /\ Highest(traplevel, n)
        /\ frame[MyFrame].gpr = Me.owner /\ frame[MyFrame].pc = Me.from
        /\ frame[MyFrame].msr = Me.bits /\ Highest(frame[MyFrame].tl, n - 1)
    BY <1>1, <2>1, TopKept DEF InFrame, EEMayBeOn
  <2>4. /\ traps' \in Seq(TrapRecord) /\ Len(traps') = n /\ traps'[n].step = "keepee" /\ traps'[n].level = Me.level
        /\ traps'[n].from = Me.from /\ traps'[n].bits = Me.bits /\ traps'[n].owner = Me.owner
        /\ FrameOf(traps'[n]) = MyFrame
        /\ \A i \in 1 .. n : (i # n => traps'[i] = traps[i]) /\ traps'[i].level = traps[i].level
    BY <1>a, <1>1, <2>1, <2>3, TopMoves
  <2>5. PICK t \in 0 .. Debug, u \in 0 .. Debug : t = traplevel /\ u = frame[MyFrame].tl
    BY <2>3 DEF TrapTypes
  <2>6. Me.level \in 1 .. Debug
    BY <2>3 DEF Level, Normal, Crit, Mcheck, Debug
  <2>7. PICK w \in 0 .. Debug : w = traplevel' /\ w = (IF u > Me.level THEN t ELSE Me.level)
    BY <2>2, <2>5, <2>6
  <2>8. TrapTypes'
    BY <2>2, <2>3, <2>4, <2>7 DEF TrapTypes
  <2>9. Highest(t, n - 1) /\ Highest(u, n - 1)
    BY <1>1, <2>1, <2>3, <2>5, HighestOff DEF Levelled
  <2>10. /\ w = Me.level \/ (w = t /\ t >= Me.level)
         /\ t <= w
    <3>1. u <= t
      BY <2>5, <2>9 DEF Highest
    <3>2. t <= u
      BY <2>5, <2>9 DEF Highest
    <3> QED BY <2>5, <2>6, <2>7, <3>1, <3>2 DEF Debug
  <2>11. Highest(traplevel, Len(traps))'
    <3>1. n \in 1 .. n /\ traps'[n].step \in Levelled /\ traps'[n].level = Me.level
      BY <2>3, <2>4 DEF Levelled
    <3>2. \A i \in 1 .. n : i <= n - 1 => traps'[i] = traps[i] /\ i <= n
      BY <2>3, <2>4
    <3>3. w = 0 \/ \E i \in 1 .. n : i <= n /\ traps'[i].step \in Levelled /\ w = traps'[i].level
      <4>1. CASE w = Me.level
        BY <2>3, <3>1, <4>1
      <4>2. CASE w = t
        BY <1>1, <2>9, <3>2, <4>2 DEF Highest
      <4> QED BY <2>10, <4>1, <4>2
    <3>4. ASSUME NEW i \in 1 .. n, traps'[i].step \in Levelled PROVE traps'[i].level <= w
      <4>1. CASE i = n
        <5>1. Me.level <= w
          BY <2>5, <2>6, <2>7, <2>10 DEF Debug
        <5> QED BY <3>1, <4>1, <5>1
      <4>2. CASE i # n
        <5>1. i <= n - 1 /\ traps'[i] = traps[i]
          BY <2>3, <2>4, <4>2
        <5>2. traps[i].level <= t /\ traps[i].level \in Level
          BY <1>1, <2>3, <2>9, <3>4, <5>1, TrapOf DEF Highest
        <5> QED BY <2>5, <2>7, <2>10, <5>1, <5>2 DEF Level, Normal, Crit, Mcheck, Debug
      <4> QED BY <4>1, <4>2
    <3>5. \A i \in 1 .. n : i <= n
      BY <2>3
    <3> QED BY <2>4, <2>7, <3>3, <3>4, <3>5 DEF Highest
  <2>12. SavedOf(Len(traps))'
    <3>1. Highest(u, n - 1)'
      <4>1. n - 1 \in Nat /\ n - 1 < Len(traps)
        BY <1>1, <2>3
      <4> QED BY <1>a, <2>1, <2>3, <2>9, <4>1, HighestStays
    <3>2. Highest(frame[FrameOf(traps[n])].tl, n - 1)'
      BY <2>2, <2>4, <2>5, <3>1 DEF Highest, FrameOf
    <3>3. "keepee" \notin Exposed
      BY DEF Exposed
    <3> QED BY <2>2, <2>3, <2>4, <3>2, <3>3 DEF SavedOf
  <2> QED BY <1>a, <1>1, <2>1, <2>2, <2>3, <2>8, <2>11, <2>12, TopStep
<1>5. CASE KeepEE
  <2>1. InStep("keepee") /\ ToStep("body")
    BY <1>5 DEF KeepEE
  <2>2. /\ srr' = srr /\ savearea' = savearea /\ frame' = frame /\ taken' = taken /\ regs' = regs /\ traplevel' = traplevel
        /\ msr' = IF Me.sync THEN msr \cup ({"EE"} \cap frame[MyFrame].msr) ELSE msr
    BY <1>5 DEF KeepEE
  <2>3. /\ TrapTypes /\ n \in Nat /\ n \in 1 .. n /\ Me = traps[n] /\ Me.level \in Level /\ MyFrame \in 2 .. Debug + MaxTraps
        /\ MyFrame = FrameOf(traps[n]) /\ (Me.sync => Me.level = Normal)
        /\ \A i \in 1 .. n : msr \subseteq traps[i].bits /\ Me.bits \subseteq traps[i].bits
        /\ Me.level # Normal => EnableBit[Me.level] \notin msr /\ "EE" \notin msr
        /\ Highest(traplevel, n)
        /\ frame[MyFrame].gpr = Me.owner /\ frame[MyFrame].pc = Me.from
        /\ frame[MyFrame].msr = Me.bits /\ Highest(frame[MyFrame].tl, n - 1)
    BY <1>1, <2>1, TopKept DEF InFrame
  <2>4. /\ traps' \in Seq(TrapRecord) /\ Len(traps') = n /\ traps'[n].step = "body" /\ traps'[n].level = Me.level
        /\ traps'[n].from = Me.from /\ traps'[n].bits = Me.bits /\ traps'[n].owner = Me.owner
        /\ FrameOf(traps'[n]) = MyFrame
    BY <1>a, <1>1, <2>1, <2>3, TopMoves
  <2>5. /\ \A i \in 1 .. n : msr' \subseteq traps[i].bits
        /\ Me.level # Normal => EnableBit[Me.level] \notin msr' /\ "EE" \notin msr'
        /\ msr' \in SUBSET Bits
    <3>1. msr \in SUBSET Bits
      BY <2>3 DEF TrapTypes
    <3>2. msr' = msr \/ (Me.level = Normal /\ msr' = msr \cup ({"EE"} \cap Me.bits))
      BY <2>2, <2>3
    <3> QED BY <2>3, <3>1, <3>2 DEF Bits
  <2>6. TrapTypes'
    BY <2>2, <2>3, <2>4, <2>5 DEF TrapTypes
  <2>7. PICK t, u : t = traplevel /\ u = frame[MyFrame].tl
    OBVIOUS
  <2>8. Highest(traplevel, Len(traps))'
    <3>1. Highest(t, Len(traps))'
      BY <1>a, <1>1, <2>1, <2>3, <2>7, HighestTop DEF Levelled
    <3> QED BY <2>2, <2>7, <3>1 DEF Highest
  <2>9. SavedOf(Len(traps))'
    <3>1. Highest(u, n - 1)'
      <4>1. n - 1 \in Nat /\ n - 1 < Len(traps)
        BY <1>1, <2>3
      <4> QED BY <1>a, <2>1, <2>3, <2>7, <4>1, HighestStays
    <3>2. Highest(frame[FrameOf(traps[n])].tl, n - 1)'
      BY <2>2, <2>4, <2>7, <3>1 DEF Highest, FrameOf
    <3>3. "body" \notin Exposed
      BY DEF Exposed
    <3> QED BY <2>2, <2>3, <2>4, <3>2, <3>3 DEF SavedOf
  <2>10. "body" \in EEMayBeOn
    BY DEF EEMayBeOn
  <2> QED BY <1>a, <1>1, <2>1, <2>2, <2>5, <2>6, <2>8, <2>9, <2>10, TopStep
<1> QED BY <1>2, <1>3, <1>4, <1>5

LEMMA ReturnKept ==
    ASSUME TrapsKept, HandlerReturns \/ DisableBits \/ LoadSrr \/ RestoreTrapLevel
    PROVE  TrapsKept'
<1>1. PICK n : n = Len(traps)
  OBVIOUS
<1>a. {"disable", "load", "relevel", "rfi"} \subseteq TrapSteps
  BY DEF TrapSteps
<1>2. CASE HandlerReturns
  <2>1. InStep("body") /\ ToStep("disable")
    BY <1>2 DEF HandlerReturns
  <2>2. /\ savearea' = savearea /\ frame' = frame /\ taken' = taken
        /\ srr' = srr /\ regs' = regs /\ traplevel' = traplevel /\ msr' = msr
    BY <1>2 DEF HandlerReturns
  <2>3. /\ TrapTypes /\ n \in Nat /\ n \in 1 .. n /\ Me = traps[n] /\ Me.level \in Level /\ MyFrame \in 2 .. Debug + MaxTraps
        /\ MyFrame = FrameOf(traps[n])
        /\ \A i \in 1 .. n : msr \subseteq traps[i].bits
        /\ Me.level # Normal => EnableBit[Me.level] \notin msr /\ "EE" \notin msr
        /\ Highest(traplevel, n)
        /\ frame[MyFrame].gpr = Me.owner /\ frame[MyFrame].pc = Me.from
        /\ frame[MyFrame].msr = Me.bits /\ Highest(frame[MyFrame].tl, n - 1)
        /\ "body" \in EEMayBeOn \/ "EE" \notin msr
    BY <1>1, <2>1, TopKept DEF InFrame, EEMayBeOn
  <2>4. /\ traps' \in Seq(TrapRecord) /\ Len(traps') = n /\ traps'[n].step = "disable" /\ traps'[n].level = Me.level
        /\ traps'[n].from = Me.from /\ traps'[n].bits = Me.bits /\ traps'[n].owner = Me.owner
        /\ FrameOf(traps'[n]) = MyFrame
    BY <1>a, <1>1, <2>1, <2>3, TopMoves
  <2>5. /\ msr' \subseteq msr /\ msr' \in SUBSET Bits
        /\ "disable" \notin EEMayBeOn => "EE" \notin msr'
    BY <2>2, <2>3 DEF TrapTypes, EEMayBeOn
  <2>7. PICK t, u : t = traplevel /\ u = frame[MyFrame].tl
    OBVIOUS
  <2>6. TrapTypes'
    BY <2>2, <2>3, <2>4, <2>5 DEF TrapTypes
  <2>8. Highest(traplevel, Len(traps))'
    <3>1. Highest(t, Len(traps))'
      BY <1>a, <1>1, <2>1, <2>3, <2>7, HighestTop DEF Levelled
    <3> QED BY <2>2, <2>7, <3>1 DEF Highest
  <2>9. SavedOf(Len(traps))'
    <3>1. Highest(u, n - 1)'
      <4>1. n - 1 \in Nat /\ n - 1 < Len(traps)
        BY <1>1, <2>3
      <4> QED BY <1>a, <2>1, <2>3, <2>7, <4>1, HighestStays
    <3>2. Highest(frame[FrameOf(traps[n])].tl, n - 1)'
      BY <2>2, <2>4, <2>7, <3>1 DEF Highest, FrameOf
    <3>3. "disable" \notin Exposed
      BY DEF Exposed
    <3> QED BY <2>2, <2>3, <2>4, <3>2, <3>3 DEF SavedOf
  <2> QED BY <1>a, <1>1, <2>1, <2>2, <2>3, <2>5, <2>6, <2>8, <2>9, TopStep
<1>3. CASE DisableBits
  <2>1. InStep("disable") /\ ToStep("load")
    BY <1>3 DEF DisableBits
  <2>2. /\ savearea' = savearea /\ frame' = frame /\ taken' = taken
        /\ srr' = srr /\ regs' = regs /\ traplevel' = traplevel /\ msr' = msr \ Disabled[Me.level]
    BY <1>3 DEF DisableBits
  <2>3. /\ TrapTypes /\ n \in Nat /\ n \in 1 .. n /\ Me = traps[n] /\ Me.level \in Level /\ MyFrame \in 2 .. Debug + MaxTraps
        /\ MyFrame = FrameOf(traps[n])
        /\ \A i \in 1 .. n : msr \subseteq traps[i].bits
        /\ Me.level # Normal => EnableBit[Me.level] \notin msr /\ "EE" \notin msr
        /\ Highest(traplevel, n)
        /\ frame[MyFrame].gpr = Me.owner /\ frame[MyFrame].pc = Me.from
        /\ frame[MyFrame].msr = Me.bits /\ Highest(frame[MyFrame].tl, n - 1)
        /\ "disable" \in EEMayBeOn \/ "EE" \notin msr
    BY <1>1, <2>1, TopKept DEF InFrame, EEMayBeOn
  <2>4. /\ traps' \in Seq(TrapRecord) /\ Len(traps') = n /\ traps'[n].step = "load" /\ traps'[n].level = Me.level
        /\ traps'[n].from = Me.from /\ traps'[n].bits = Me.bits /\ traps'[n].owner = Me.owner
        /\ FrameOf(traps'[n]) = MyFrame
    BY <1>a, <1>1, <2>1, <2>3, TopMoves
  <2>5. /\ msr' \subseteq msr /\ msr' \in SUBSET Bits
        /\ "load" \notin EEMayBeOn => "EE" \notin msr'
    BY <2>2, <2>3, TrapTables DEF TrapTypes, EEMayBeOn
  <2>7. PICK t, u : t = traplevel /\ u = frame[MyFrame].tl
    OBVIOUS
  <2>6. TrapTypes'
    BY <2>2, <2>3, <2>4, <2>5 DEF TrapTypes
  <2>8. Highest(traplevel, Len(traps))'
    <3>1. Highest(t, Len(traps))'
      BY <1>a, <1>1, <2>1, <2>3, <2>7, HighestTop DEF Levelled
    <3> QED BY <2>2, <2>7, <3>1 DEF Highest
  <2>9. SavedOf(Len(traps))'
    <3>1. Highest(u, n - 1)'
      <4>1. n - 1 \in Nat /\ n - 1 < Len(traps)
        BY <1>1, <2>3
      <4> QED BY <1>a, <2>1, <2>3, <2>7, <4>1, HighestStays
    <3>2. Highest(frame[FrameOf(traps[n])].tl, n - 1)'
      BY <2>2, <2>4, <2>7, <3>1 DEF Highest, FrameOf
    <3>3. "load" \notin Exposed
      BY DEF Exposed
    <3> QED BY <2>2, <2>3, <2>4, <3>2, <3>3 DEF SavedOf
  <2> QED BY <1>a, <1>1, <2>1, <2>2, <2>3, <2>5, <2>6, <2>8, <2>9, TopStep
<1>4. CASE LoadSrr
  <2>1. InStep("load") /\ ToStep("relevel")
    BY <1>4 DEF LoadSrr
  <2>2. /\ savearea' = savearea /\ frame' = frame /\ taken' = taken
        /\ regs' = regs /\ traplevel' = traplevel /\ msr' = msr
        /\ srr' = [srr EXCEPT ![Me.level] = [pc |-> frame[MyFrame].pc, msr |-> frame[MyFrame].msr]]
    BY <1>4 DEF LoadSrr
  <2>3. /\ TrapTypes /\ n \in Nat /\ n \in 1 .. n /\ Me = traps[n] /\ Me.level \in Level /\ MyFrame \in 2 .. Debug + MaxTraps
        /\ MyFrame = FrameOf(traps[n])
        /\ \A i \in 1 .. n : msr \subseteq traps[i].bits
        /\ Me.level # Normal => EnableBit[Me.level] \notin msr /\ "EE" \notin msr
        /\ Highest(traplevel, n)
        /\ frame[MyFrame].gpr = Me.owner /\ frame[MyFrame].pc = Me.from
        /\ frame[MyFrame].msr = Me.bits /\ Highest(frame[MyFrame].tl, n - 1)
        /\ "load" \in EEMayBeOn \/ "EE" \notin msr
    BY <1>1, <2>1, TopKept DEF InFrame, EEMayBeOn
  <2>4. /\ traps' \in Seq(TrapRecord) /\ Len(traps') = n /\ traps'[n].step = "relevel" /\ traps'[n].level = Me.level
        /\ traps'[n].from = Me.from /\ traps'[n].bits = Me.bits /\ traps'[n].owner = Me.owner
        /\ FrameOf(traps'[n]) = MyFrame
    BY <1>a, <1>1, <2>1, <2>3, TopMoves
  <2>5. /\ msr' \subseteq msr /\ msr' \in SUBSET Bits
        /\ "relevel" \notin EEMayBeOn => "EE" \notin msr'
    BY <2>2, <2>3 DEF TrapTypes, EEMayBeOn
  <2>7. PICK t, u : t = traplevel /\ u = frame[MyFrame].tl
    OBVIOUS
  <2>6. TrapTypes'
    <3>1. [pc |-> frame[MyFrame].pc, msr |-> frame[MyFrame].msr] \in SavedRegs
      <4>1. frame[MyFrame] \in [gpr : Nat, pc : Nat, msr : SUBSET Bits, tl : 0 .. Debug]
        BY <2>3 DEF TrapTypes
      <4> QED BY <4>1 DEF SavedRegs
    <3>2. srr' \in [Level -> SavedRegs]
      BY <2>2, <2>3, <3>1 DEF TrapTypes
    <3> QED BY <2>2, <2>3, <2>4, <2>5, <3>2 DEF TrapTypes
  <2>8. Highest(traplevel, Len(traps))'
    <3>1. Highest(t, Len(traps))'
      BY <1>a, <1>1, <2>1, <2>3, <2>7, HighestTop DEF Levelled
    <3> QED BY <2>2, <2>7, <3>1 DEF Highest
  <2>9. SavedOf(Len(traps))'
    <3>1. Highest(u, n - 1)'
      <4>1. n - 1 \in Nat /\ n - 1 < Len(traps)
        BY <1>1, <2>3
      <4> QED BY <1>a, <2>1, <2>3, <2>7, <4>1, HighestStays
    <3>2. Highest(frame[FrameOf(traps[n])].tl, n - 1)'
      BY <2>2, <2>4, <2>7, <3>1 DEF Highest, FrameOf
    <3>3. srr'[Me.level] = [pc |-> Me.from, msr |-> Me.bits]
      BY <2>2, <2>3 DEF TrapTypes
    <3> QED BY <2>2, <2>3, <2>4, <3>2, <3>3 DEF SavedOf
  <2> QED BY <1>a, <1>1, <2>1, <2>2, <2>3, <2>5, <2>6, <2>8, <2>9, TopStep
<1>5. CASE RestoreTrapLevel
  <2>1. InStep("relevel") /\ ToStep("rfi")
    BY <1>5 DEF RestoreTrapLevel
  <2>2. /\ savearea' = savearea /\ frame' = frame /\ taken' = taken
        /\ srr' = srr /\ regs' = frame[MyFrame].gpr /\ traplevel' = frame[MyFrame].tl /\ msr' = msr
    BY <1>5 DEF RestoreTrapLevel
  <2>3. /\ TrapTypes /\ n \in Nat /\ n \in 1 .. n /\ Me = traps[n] /\ Me.level \in Level /\ MyFrame \in 2 .. Debug + MaxTraps
        /\ MyFrame = FrameOf(traps[n])
        /\ \A i \in 1 .. n : msr \subseteq traps[i].bits
        /\ Me.level # Normal => EnableBit[Me.level] \notin msr /\ "EE" \notin msr
        /\ Highest(traplevel, n)
        /\ frame[MyFrame].gpr = Me.owner /\ frame[MyFrame].pc = Me.from
        /\ frame[MyFrame].msr = Me.bits /\ Highest(frame[MyFrame].tl, n - 1)
        /\ "relevel" \in EEMayBeOn \/ "EE" \notin msr
    BY <1>1, <2>1, TopKept DEF InFrame, EEMayBeOn
  <2>4. /\ traps' \in Seq(TrapRecord) /\ Len(traps') = n /\ traps'[n].step = "rfi" /\ traps'[n].level = Me.level
        /\ traps'[n].from = Me.from /\ traps'[n].bits = Me.bits /\ traps'[n].owner = Me.owner
        /\ FrameOf(traps'[n]) = MyFrame
    BY <1>a, <1>1, <2>1, <2>3, TopMoves
  <2>5. /\ msr' \subseteq msr /\ msr' \in SUBSET Bits
        /\ "rfi" \notin EEMayBeOn => "EE" \notin msr'
    BY <2>2, <2>3 DEF TrapTypes, EEMayBeOn
  <2>7. PICK t, u : t = traplevel /\ u = frame[MyFrame].tl
    OBVIOUS
  <2>6. TrapTypes'
    <3>1. regs' \in Nat /\ traplevel' \in 0 .. Debug
      <4>1. frame[MyFrame] \in [gpr : Nat, pc : Nat, msr : SUBSET Bits, tl : 0 .. Debug]
        BY <2>3 DEF TrapTypes
      <4> QED BY <2>2, <4>1
    <3> QED BY <2>2, <2>3, <2>4, <2>5, <3>1 DEF TrapTypes
  <2>8. Highest(traplevel, Len(traps))'
    <3>1. Highest(u, Len(traps))'
      BY <1>a, <1>1, <2>1, <2>3, <2>7, HighestTop DEF Levelled
    <3> QED BY <2>2, <2>7, <3>1 DEF Highest
  <2>9. SavedOf(Len(traps))'
    <3>1. OwnerAt(Len(traps))' = regs'
      BY DEF OwnerAt
    <3>2. srr[Me.level] = [pc |-> Me.from, msr |-> Me.bits]
      BY <1>1, <2>1, TopKept DEF Exposed
    <3>3. "rfi" \notin InFrame
      BY DEF InFrame
    <3> QED BY <2>2, <2>3, <2>4, <3>1, <3>2, <3>3 DEF SavedOf
  <2> QED BY <1>a, <1>1, <2>1, <2>2, <2>3, <2>5, <2>6, <2>8, <2>9, TopStep
<1> QED BY <1>2, <1>3, <1>4, <1>5

(* Below a trap the bits only get fewer.                                    *)
LEMMA BitsBelow ==
    ASSUME TrapTypes, TrapBits, NEW i \in 1 .. Len(traps)
    PROVE  msr \subseteq BitsAt(i) /\ msr \subseteq traps[i].bits
<1>1. PICK n \in Nat : n = Len(traps) /\ n \in 1 .. n /\ i \in 1 .. n
  BY TrapOf
<1>2. BitsAt(n) = msr
  BY <1>1 DEF BitsAt
<1>3. msr \subseteq traps[i].bits
  BY <1>1, <1>2 DEF TrapBits
<1>4. msr \subseteq BitsAt(i)
  <2>1. CASE i = n
    BY <1>2, <2>1
  <2>2. CASE i # n
    <3>1. i + 1 \in 1 .. n /\ i + 1 <= n
      BY <1>1, <2>2
    <3>2. BitsAt(n) \subseteq traps[i + 1].bits
      BY <1>1, <3>1 DEF TrapBits
    <3> QED BY <1>1, <1>2, <2>2, <3>2 DEF BitsAt
  <2> QED BY <2>1, <2>2
<1> QED BY <1>3, <1>4

(* A trap that takes no registers in use leaves what the others kept.       *)
LEMMA TakeKept ==
    ASSUME TrapsKept, NEW level \in Level, NEW sync \in BOOLEAN, Take(level, sync), sync => level = Normal,
           \A i \in 1 .. Len(traps) : traps[i].level = level => level = Normal /\ traps[i].step \notin Exposed
    PROVE  TrapsKept'
<1> DEFINE r == [id |-> taken + 1, level |-> level, sync |-> sync, step |-> "save", from |-> Running,
                 bits |-> msr, owner |-> regs]
<1>1. TrapTypes /\ TrapStack /\ TrapBits /\ TrapSaved
  BY DEF TrapsKept
<1>2. PICK n \in Nat : n = Len(traps)
  BY <1>1 DEF TrapTypes
<1>3. /\ taken < MaxTraps /\ taken' = taken + 1 /\ traps' = Append(traps, r) /\ msr' = msr \ Cleared[level]
      /\ srr' = [srr EXCEPT ![level] = [pc |-> Running, msr |-> msr]]
      /\ regs' = regs /\ savearea' = savearea /\ frame' = frame /\ traplevel' = traplevel
  BY DEF Take
<1>4. Running \in Nat
  <2>1. CASE traps = <<>>
    BY <2>1 DEF Running
  <2>2. CASE traps # <<>>
    <3>1. n \in 1 .. n
      <4>1. Len(traps) \in Nat \ {0}
        BY <1>1, <2>2, EmptySeq DEF TrapTypes
      <4> QED BY <1>2, <4>1
    <3>2. traps[n].id \in 1 .. MaxTraps
      BY <1>1, <1>2, <3>1, TrapOf
    <3> QED BY <1>2, <2>2, <3>2 DEF Running, Last
  <2> QED BY <2>1, <2>2
<1>5. taken \in 0 .. MaxTraps /\ taken + 1 \in 1 .. MaxTraps /\ msr \in SUBSET Bits /\ regs \in Nat
  BY <1>1, <1>3, TrapAssumption DEF TrapTypes
<1>6. r \in TrapRecord
  BY <1>4, <1>5 DEF TrapRecord, TrapSteps
<1>7. /\ r.id = taken + 1 /\ r.level = level /\ r.sync = sync /\ r.step = "save" /\ r.from = Running
      /\ r.bits = msr /\ r.owner = regs
  OBVIOUS
<1> HIDE DEF r
<1>8. /\ traps' \in Seq(TrapRecord) /\ Len(traps') = n + 1 /\ traps'[n + 1] = r
      /\ \A i \in 1 .. n : traps'[i] = traps[i]
  BY <1>1, <1>2, <1>3, <1>6, AppendProperties DEF TrapTypes
<1>9. \A i \in 1 .. n + 1 : i \in Nat /\ (i \in 1 .. n \/ i = n + 1)
  BY <1>2
<1>10. TrapTypes'
  <2>1. [pc |-> Running, msr |-> msr] \in SavedRegs
    BY <1>4, <1>5 DEF SavedRegs
  <2>2. srr' \in [Level -> SavedRegs]
    BY <1>1, <1>3, <2>1 DEF TrapTypes
  <2>3. msr' \in SUBSET Bits /\ taken' \in 0 .. MaxTraps
    BY <1>3, <1>5
  <2> QED BY <1>1, <1>3, <1>8, <2>2, <2>3 DEF TrapTypes
<1>11. TrapStack'
  <2>1. \A i \in 1 .. n : /\ traps[i].id \in 1 .. MaxTraps /\ traps[i].id <= taken
                          /\ traps[i].sync => traps[i].level = Normal
    BY <1>1, <1>2, TrapOf DEF TrapStack
  <2>2. \A i \in 1 .. n + 1 : traps'[i].id <= taken' /\ (traps'[i].sync => traps'[i].level = Normal)
    <3> TAKE i \in 1 .. n + 1
    <3>1. CASE i \in 1 .. n
      <4>1. traps[i].id <= taken + 1
        BY <1>5, <2>1, <3>1
      <4> QED BY <1>3, <1>8, <2>1, <3>1, <4>1
    <3>2. CASE i = n + 1
      BY <1>3, <1>5, <1>7, <1>8, <3>2
    <3> QED BY <1>9, <3>1, <3>2
  <2>3. ASSUME NEW i \in 1 .. n + 1, NEW j \in 1 .. n + 1, i < j
        PROVE  /\ traps'[i].id < traps'[j].id
               /\ traps'[i].level = traps'[j].level => traps'[i].level = Normal /\ traps'[i].step \notin Exposed
    <3>1. i \in 1 .. n
      BY <1>2, <2>3
    <3>2. CASE j \in 1 .. n
      BY <1>1, <1>2, <1>8, <2>3, <3>1, <3>2 DEF TrapStack
    <3>3. CASE j = n + 1
      <4>1. traps[i].id < taken + 1
        BY <1>5, <2>1, <3>1
      <4> QED BY <1>2, <1>7, <1>8, <3>1, <3>3, <4>1
    <3> QED BY <1>9, <3>2, <3>3
  <2> QED BY <1>8, <2>2, <2>3 DEF TrapStack
<1>12. /\ \A i \in 1 .. n : BitsAt(i)' = BitsAt(i) /\ OwnerAt(i)' = OwnerAt(i)
       /\ BitsAt(n + 1)' = msr' /\ OwnerAt(n + 1)' = regs
  <2>1. BitsAt(n + 1)' = msr' /\ OwnerAt(n + 1)' = regs
    BY <1>3, <1>8 DEF BitsAt, OwnerAt
  <2>2. ASSUME NEW i \in 1 .. n PROVE BitsAt(i)' = BitsAt(i) /\ OwnerAt(i)' = OwnerAt(i)
    <3>1. i # n + 1
      BY <1>2
    <3>2. CASE i = n
      BY <1>2, <1>7, <1>8, <3>1, <3>2 DEF BitsAt, OwnerAt
    <3>3. CASE i # n
      <4>1. i + 1 \in 1 .. n
        BY <1>2, <3>3
      <4> QED BY <1>2, <1>8, <3>1, <3>3, <4>1 DEF BitsAt, OwnerAt
    <3> QED BY <3>2, <3>3
  <2> QED BY <2>1, <2>2
<1>13. TrapBits'
  <2>1. msr' \subseteq msr /\ EnableBit[level] \notin msr' /\ "EE" \notin msr'
    BY <1>3, TrapTables
  <2>2. ASSUME NEW i \in 1 .. n + 1, NEW j \in 1 .. n + 1, i <= j PROVE BitsAt(j)' \subseteq traps'[i].bits
    <3>1. CASE i = n + 1
      <4>1. j = n + 1
        BY <1>2, <2>2, <3>1
      <4> QED BY <1>7, <1>8, <1>12, <2>1, <3>1, <4>1
    <3>2. CASE i \in 1 .. n /\ j \in 1 .. n
      BY <1>1, <1>2, <1>8, <1>12, <2>2, <3>2 DEF TrapBits
    <3>3. CASE i \in 1 .. n /\ j = n + 1
      <4>1. msr \subseteq traps[i].bits
        BY <1>1, <1>2, <3>3, BitsBelow
      <4> QED BY <1>8, <1>12, <2>1, <3>3, <4>1
    <3> QED BY <1>9, <3>1, <3>2, <3>3
  <2>3. ASSUME NEW i \in 1 .. n + 1
        PROVE  /\ traps'[i].level # Normal => EnableBit[traps'[i].level] \notin BitsAt(i)' /\ "EE" \notin BitsAt(i)'
               /\ traps'[i].step \notin EEMayBeOn => "EE" \notin BitsAt(i)'
    <3>1. CASE i \in 1 .. n
      BY <1>1, <1>2, <1>8, <1>12, <3>1 DEF TrapBits
    <3>2. CASE i = n + 1
      BY <1>7, <1>8, <1>12, <2>1, <3>2
    <3> QED BY <1>9, <3>1, <3>2
  <2> QED BY <1>8, <2>2, <2>3 DEF TrapBits
<1>14. \A t, m : Highest(t, m)' <=> Highest(t, m)
  <2>1. "save" \notin Levelled
    BY DEF Levelled
  <2>2. \A i \in 1 .. n + 1 : traps'[i].step \in Levelled => i \in 1 .. n
    BY <1>7, <1>8, <1>9, <2>1
  <2>3. \A i \in 1 .. n : i \in 1 .. n + 1
    BY <1>2
  <2> QED BY <1>2, <1>8, <2>2, <2>3 DEF Highest
<1>15. Highest(traplevel, Len(traps))'
  <2>1. PICK t : t = traplevel /\ Highest(t, n)
    BY <1>1, <1>2 DEF TrapSaved
  <2>2. Highest(t, n)'
    BY <1>14, <2>1
  <2>3. \A i \in 1 .. n + 1 : traps'[i].step \in Levelled => (i <= n <=> i <= n + 1)
    BY <1>2, <1>7, <1>8, <1>9 DEF Levelled
  <2> QED BY <1>2, <1>3, <1>8, <2>1, <2>2, <2>3 DEF Highest
<1>16. ASSUME NEW i \in 1 .. n PROVE SavedOf(i)'
  <2>1. SavedOf(i) /\ traps[i].level \in Level
    BY <1>1, <1>2, TrapOf DEF TrapSaved
  <2>2. traps[i].step \in Exposed => srr'[traps[i].level] = srr[traps[i].level]
    BY <1>1, <1>2, <1>3, <2>1 DEF TrapTypes
  <2>3. PICK t : t = frame[FrameOf(traps[i])].tl
    OBVIOUS
  <2>4. (frame[FrameOf(traps[i])].tl)' = t /\ FrameOf(traps[i])' = FrameOf(traps[i])
    BY <1>3, <1>8, <2>3 DEF FrameOf
  <2>5. Highest(frame[FrameOf(traps[i])].tl, i - 1) => Highest(frame[FrameOf(traps[i])].tl, i - 1)'
    <3>1. Highest(t, i - 1)' <=> Highest(t, i - 1)
      BY <1>14
    <3>2. Highest(t, i - 1)' => Highest(frame[FrameOf(traps[i])].tl, i - 1)'
      BY <2>4 DEF Highest
    <3>3. Highest(frame[FrameOf(traps[i])].tl, i - 1) => Highest(t, i - 1)
      BY <2>3
    <3> QED BY <3>1, <3>2, <3>3
  <2> QED BY <1>3, <1>8, <1>12, <2>1, <2>2, <2>4, <2>5 DEF SavedOf
<1>17. SavedOf(n + 1)'
  <2>1. srr'[level] = [pc |-> Running, msr |-> msr]
    BY <1>1, <1>3 DEF TrapTypes
  <2>2. "save" \notin InFrame
    BY DEF InFrame
  <2> QED BY <1>3, <1>7, <1>8, <1>12, <2>1, <2>2 DEF SavedOf
<1>18. TrapSaved'
  <2>1. \A i \in 1 .. n + 1 : SavedOf(i)'
    <3> TAKE i \in 1 .. n + 1
    <3>1. CASE i = n + 1
      <4>1. SavedOf(i)' <=> SavedOf(n + 1)'
        BY <3>1 DEF SavedOf, OwnerAt, Highest
      <4> QED BY <1>17, <4>1
    <3> QED BY <1>9, <1>16, <3>1
  <2> QED BY <1>8, <1>15, <2>1 DEF TrapSaved
<1> QED BY <1>10, <1>11, <1>13, <1>18 DEF TrapsKept

LEMMA ReturnFromKept ==
    ASSUME TrapsKept, ReturnFromTrap
    PROVE  TrapsKept'
<1>1. PICK n : n = Len(traps)
  OBVIOUS
<1>2. /\ InStep("rfi") /\ msr' = srr[Me.level].msr /\ traps' = Front(traps) /\ regs' = regs /\ savearea' = savearea
      /\ srr' = srr /\ frame' = frame /\ traplevel' = traplevel /\ taken' = taken
  BY DEF ReturnFromTrap
<1>3. /\ TrapTypes /\ n \in Nat /\ n \in 1 .. n /\ Me = traps[n] /\ traps[n].step = "rfi" /\ Me.level \in Level
      /\ Highest(traplevel, n) /\ srr[Me.level].msr = Me.bits /\ regs = Me.owner
  BY <1>1, <1>2, TopKept DEF Exposed
<1>4. TrapStack /\ TrapBits /\ TrapSaved
  BY DEF TrapsKept
<1>5. /\ traps' \in Seq(TrapRecord) /\ Len(traps') = n - 1 /\ \A i \in 1 .. n - 1 : traps'[i] = traps[i] /\ i \in 1 .. n
  <2>1. traps' = SubSeq(traps, 1, n - 1)
    BY <1>1, <1>2 DEF Front
  <2>2. traps \in Seq(TrapRecord)
    BY <1>3 DEF TrapTypes
  <2> QED BY <1>1, <1>3, <2>1, <2>2
<1>6. TrapTypes'
  <2>1. msr' \in SUBSET Bits
    <3>1. srr[Me.level] \in SavedRegs
      BY <1>3 DEF TrapTypes
    <3> QED BY <1>2, <3>1 DEF SavedRegs
  <2> QED BY <1>2, <1>3, <1>5, <2>1 DEF TrapTypes
<1>7. TrapStack'
  <2>1. \A i \in 1 .. n - 1 : traps'[i].id <= taken' /\ (traps'[i].sync => traps'[i].level = Normal)
    BY <1>1, <1>2, <1>4, <1>5 DEF TrapStack
  <2>2. \A i \in 1 .. n - 1, j \in 1 .. n - 1 : i < j =>
          /\ traps'[i].id < traps'[j].id
          /\ traps'[i].level = traps'[j].level => traps'[i].level = Normal /\ traps'[i].step \notin Exposed
    <3>1. \A i \in 1 .. n, j \in 1 .. n : i < j =>
            /\ traps[i].id < traps[j].id
            /\ traps[i].level = traps[j].level => traps[i].level = Normal /\ traps[i].step \notin Exposed
      BY <1>1, <1>4 DEF TrapStack
    <3> TAKE i \in 1 .. n - 1, j \in 1 .. n - 1
    <3>2. traps'[i] = traps[i] /\ traps'[j] = traps[j] /\ i \in 1 .. n /\ j \in 1 .. n
      BY <1>5
    <3> QED BY <3>1, <3>2
  <2> QED BY <1>5, <2>1, <2>2 DEF TrapStack
<1>8. \A i \in 1 .. n - 1 : BitsAt(i)' = BitsAt(i) /\ OwnerAt(i)' = OwnerAt(i)
  <2> TAKE i \in 1 .. n - 1
  <2>1. i # n /\ i \in Nat
    BY <1>3
  <2>2. CASE i = n - 1
    <3>1. i + 1 = n
      BY <1>3, <2>2
    <3> QED BY <1>1, <1>2, <1>3, <1>5, <2>1, <2>2, <3>1 DEF BitsAt, OwnerAt
  <2>3. CASE i # n - 1
    <3>1. i + 1 \in 1 .. n - 1
      BY <1>3, <2>3
    <3> QED BY <1>1, <1>3, <1>5, <2>1, <2>3, <3>1 DEF BitsAt, OwnerAt
  <2> QED BY <2>2, <2>3
<1>9. TrapBits'
  BY <1>1, <1>4, <1>5, <1>8 DEF TrapBits
<1>10. \A t : \A m : m <= n - 1 => (Highest(t, m)' <=> Highest(t, m)) \/ m \notin Int
  <2> SUFFICES ASSUME NEW t, NEW m \in Int, m <= n - 1 PROVE Highest(t, m)' <=> Highest(t, m)
    OBVIOUS
  <2>1. \A i \in 1 .. n : i <= m => i \in 1 .. n - 1
    BY <1>3
  <2> QED BY <1>1, <1>5, <2>1 DEF Highest
<1>11. Highest(traplevel, Len(traps))'
  <2>1. PICK t : t = traplevel
    OBVIOUS
  <2>2. Highest(t, n - 1)
    BY <1>1, <1>2, <1>3, <2>1, HighestOff DEF Levelled
  <2>3. n - 1 \in Int /\ n - 1 <= n - 1
    BY <1>3
  <2>4. Highest(t, n - 1)'
    BY <1>10, <2>2, <2>3
  <2> QED BY <1>2, <1>5, <2>1, <2>4 DEF Highest
<1>12. ASSUME NEW i \in 1 .. n - 1 PROVE SavedOf(i)'
  <2>1. SavedOf(i)
    BY <1>1, <1>4, <1>5 DEF TrapSaved
  <2>2. PICK t : t = frame[FrameOf(traps[i])].tl
    OBVIOUS
  <2>3. (frame[FrameOf(traps[i])].tl)' = t /\ FrameOf(traps[i])' = FrameOf(traps[i])
    BY <1>2, <1>5, <2>2 DEF FrameOf
  <2>4. Highest(frame[FrameOf(traps[i])].tl, i - 1) => Highest(frame[FrameOf(traps[i])].tl, i - 1)'
    <3>0. i - 1 \in Int /\ i - 1 <= n - 1
      BY <1>3
    <3>1. Highest(t, i - 1)' <=> Highest(t, i - 1)
      BY <1>10, <3>0
    <3>2. Highest(t, i - 1)' => Highest(frame[FrameOf(traps[i])].tl, i - 1)'
      BY <2>3 DEF Highest
    <3>3. Highest(frame[FrameOf(traps[i])].tl, i - 1) => Highest(t, i - 1)
      BY <2>2
    <3> QED BY <3>1, <3>2, <3>3
  <2> QED BY <1>2, <1>5, <1>8, <2>1, <2>3, <2>4 DEF SavedOf
<1>13. TrapSaved'
  BY <1>5, <1>11, <1>12 DEF TrapSaved
<1> QED BY <1>6, <1>7, <1>9, <1>13 DEF TrapsKept

LEMMA InterruptKept ==
    ASSUME TrapsKept, NEW l \in Level, EnableBit[l] \in msr, Take(l, FALSE)
    PROVE  TrapsKept'
<1>1. TrapTypes /\ TrapBits
  BY DEF TrapsKept
<1>2. ASSUME NEW i \in 1 .. Len(traps), traps[i].level = l PROVE l = Normal /\ traps[i].step \notin Exposed
  <2>1. EnableBit[l] \in BitsAt(i)
    BY <1>1, BitsBelow
  <2>2. l = Normal
    BY <1>1, <1>2, <2>1 DEF TrapBits
  <2>3. "EE" \in BitsAt(i)
    BY <2>1, <2>2, TrapTables
  <2>4. traps[i].step \in EEMayBeOn
    BY <1>1, <2>3 DEF TrapBits
  <2> QED BY <2>2, <2>4 DEF EEMayBeOn, Exposed
<1> QED BY <1>2, TakeKept

(* A fault that finds a normal trap exposed is what refault records.        *)
LEMMA FaultKept ==
    ASSUME TrapsKept, Fault, ~refault'
    PROVE  TrapsKept'
<1>1. TrapTypes
  BY DEF TrapsKept
<1>2. Take(Normal, TRUE) /\ refault' = (refault \/ \E i \in DOMAIN traps : traps[i].level = Normal /\ traps[i].step \in Exposed)
  BY DEF Fault
<1>3. DOMAIN traps = 1 .. Len(traps)
  BY <1>1, LenProperties DEF TrapTypes
<1>4. \A i \in 1 .. Len(traps) : traps[i].level = Normal => traps[i].step \notin Exposed
  BY <1>2, <1>3
<1>5. Normal \in Level
  BY DEF Level
<1> QED BY <1>2, <1>4, <1>5, TakeKept

LEMMA TrapNextHolds == TrapInv /\ [TrapNext]_trapVars => TrapInv'
<1> SUFFICES ASSUME TrapInv, [TrapNext]_trapVars PROVE TrapInv'
  OBVIOUS
<1>1. CASE refault
  <2>1. refault'
    BY <1>1 DEF TrapNext, trapVars, Interrupt, Fault, SaveRegs, FillFrame, SetTrapLevel, KeepEE, HandlerReturns,
       DisableBits, LoadSrr, RestoreTrapLevel, ReturnFromTrap
  <2> QED BY <2>1 DEF TrapInv
<1>2. CASE TrapsKept
  <2>1. CASE UNCHANGED trapVars
    <3>1. /\ traps' = traps /\ msr' = msr /\ regs' = regs /\ savearea' = savearea /\ srr' = srr /\ frame' = frame
          /\ traplevel' = traplevel /\ taken' = taken
      BY <2>1 DEF trapVars
    <3>2. TrapTypes' /\ TrapStack'
      BY <1>2, <3>1 DEF TrapsKept, TrapTypes, TrapStack
    <3>3. TrapBits'
      BY <1>2, <3>1 DEF TrapsKept, TrapBits, BitsAt
    <3>4. TrapSaved'
      BY <1>2, <3>1 DEF TrapsKept, TrapSaved, SavedOf, OwnerAt, Highest, FrameOf
    <3> QED BY <3>2, <3>3, <3>4 DEF TrapInv, TrapsKept
  <2>2. CASE Interrupt
    BY <1>2, <2>2, InterruptKept DEF Interrupt, TrapInv
  <2>3. CASE Fault
    BY <1>2, <2>3, FaultKept DEF TrapInv
  <2>4. CASE SaveRegs \/ FillFrame \/ SetTrapLevel \/ KeepEE
    BY <1>2, <2>4, EntryKept DEF TrapInv
  <2>5. CASE HandlerReturns \/ DisableBits \/ LoadSrr \/ RestoreTrapLevel
    BY <1>2, <2>5, ReturnKept DEF TrapInv
  <2>6. CASE ReturnFromTrap
    BY <1>2, <2>6, ReturnFromKept DEF TrapInv
  <2> QED BY <2>1, <2>2, <2>3, <2>4, <2>5, <2>6 DEF TrapNext
<1> QED BY <1>1, <1>2 DEF TrapInv

LEMMA TrapInitHolds == TrapInit => TrapInv
<1> SUFFICES ASSUME TrapInit PROVE TrapsKept
  BY DEF TrapInv
<1>1. /\ traps = <<>> /\ msr = {"EE", "CE", "ME", "DE"} /\ regs = 0 /\ traplevel = 0 /\ taken = 0
      /\ savearea = [l \in Level |-> 0] /\ srr = [l \in Level |-> [pc |-> 0, msr |-> {}]]
      /\ frame = [k \in 2 .. Debug + MaxTraps |-> NoFrame]
  BY DEF TrapInit
<1>2. Len(traps) = 0 /\ 1 .. Len(traps) = {}
  BY <1>1
<1>3. TrapTypes
  <2>1. NoFrame \in [gpr : Nat, pc : Nat, msr : SUBSET Bits, tl : 0 .. Debug]
    BY DEF NoFrame, Debug
  <2>2. [pc |-> 0, msr |-> {}] \in SavedRegs
    BY DEF SavedRegs
  <2>3. traps \in Seq(TrapRecord) /\ 0 \in 0 .. Debug /\ 0 \in 0 .. MaxTraps
    BY <1>1, TrapAssumption DEF Debug
  <2> QED BY <1>1, <2>1, <2>2, <2>3 DEF TrapTypes, Bits
<1>4. TrapStack /\ TrapBits
  BY <1>2 DEF TrapStack, TrapBits
<1>5. TrapSaved
  BY <1>1, <1>2 DEF TrapSaved, Highest
<1> QED BY <1>3, <1>4, <1>5 DEF TrapsKept

LEMMA TrapInvReturns == TrapInv => TrapsReturn
<1> SUFFICES ASSUME TrapsKept PROVE TrapsReturn
  BY DEF TrapInv, TrapsReturn
<1>1. PICK n : n = Len(traps)
  OBVIOUS
<1>2. TrapTypes /\ Highest(traplevel, n)
  BY <1>1 DEF TrapsKept, TrapSaved
<1>3. InStep("rfi") => srr[Me.level] = [pc |-> Me.from, msr |-> Me.bits] /\ regs = Me.owner
  BY <1>1, TopKept DEF Exposed
<1> DEFINE S == {0} \cup {traps[i].level : i \in {j \in DOMAIN traps : traps[j].step \in
                                                {"keepee", "body", "disable", "load", "relevel"}}}
<1>4. DOMAIN traps = 1 .. n /\ n \in Nat /\ \A i \in 1 .. n : traps[i].level \in 1 .. Debug
  <2>1. \A i \in 1 .. n : traps[i].level \in 1 .. Debug
    BY <1>1, <1>2, TrapOf DEF Level, Normal, Crit, Mcheck, Debug
  <2> QED BY <1>1, <1>2, <2>1, LenProperties DEF TrapTypes
<1>5. PICK t \in 0 .. Debug : t = traplevel
  BY <1>2 DEF TrapTypes
<1>6. t \in S
  BY <1>1, <1>2, <1>4, <1>5 DEF Highest, Levelled
<1>7. \A y \in S : t >= y /\ y \in 0 .. Debug
  <2> SUFFICES ASSUME NEW y \in S PROVE t >= y /\ y \in 0 .. Debug
    OBVIOUS
  <2>1. CASE y = 0
    BY <1>5, <2>1 DEF Debug
  <2>2. CASE \E i \in 1 .. n : traps[i].step \in Levelled /\ y = traps[i].level
    <3>1. PICK i \in 1 .. n : traps[i].step \in Levelled /\ y = traps[i].level
      BY <2>2
    <3>2. i <= n /\ y \in 1 .. Debug
      BY <1>4, <3>1
    <3>3. y <= t
      BY <1>1, <1>2, <1>5, <3>1, <3>2 DEF Highest
    <3> QED BY <1>5, <3>2, <3>3 DEF Debug
  <2> QED BY <1>4, <2>1, <2>2 DEF Levelled
<1> HIDE DEF S
<1>8. \A x \in S : (\A y \in S : x >= y) => x = t
  BY <1>6, <1>7 DEF Debug
<1>9. Max(S) = t
  BY <1>6, <1>7, <1>8 DEF Max
<1> QED BY <1>3, <1>5, <1>9 DEF TrapsReturn, S

-----------------------------------------------------------------------------
(* The latency client: where its thread is, a call of write_ctpr being      *)
(* where it returns to.                                                     *)

InCall == {"wc", "wc_sync", "wc_pend"}
ReturnsTo == {"a_start", "c_start", "c_wait", "c_begin", "c_low", "c_end", "d_enable", "d_wait"}
AfterRaise == {"c_start", "c_begin", "c_low", "d_enable"}
LtPlaces ==
    {"off", "a_start", "a_begin", "a_trig", "a_wait", "a_end", "j_start", "j_test", "j_i", "j_wait",
     "c_index", "c_start", "c_begin", "c_trig", "c_check", "c_wait", "c_low", "c_end", "d_start",
     "d_begin", "d_trig", "d_check", "d_enable", "d_again", "d_wait", "d_end", "done"} \cup InCall
LtAt == IF ltPc \in InCall THEN ltCall.ret ELSE ltPc
Counting == {"j_test", "j_i", "j_wait"}
Waiting == {"a_wait", "c_wait", "d_wait"}
Keeping == {"c_trig", "c_check", "d_trig", "d_check", "d_enable", "d_again"}
Triggered == (Waiting \cup Keeping) \ {"c_trig", "d_trig"}
Raised == {"c_start", "c_begin", "c_trig", "c_check", "d_enable", "d_again"}
LtDisabled == {"off", "d_begin", "d_trig", "d_check", "d_enable"}

LtTypes ==
    /\ ltPc \in LtPlaces
    /\ stamps \in [0 .. NumStamps - 1 -> [src : {"ipi", "timer", NoSource}, round : Int]]
    /\ ltIndex \in 0 .. NumStamps - 1 /\ ltI \in 0 .. NumStamps - 1 /\ ltRound \in Int
    /\ isr \in {"off", "iack", "vec", "index", "eoi"} /\ vec \in {"ipi", "timer", Spurious, NoSource}
    /\ requested \subseteq IpiOrTimer

(* CTPR is what write_ctpr was asked for when it returns.                   *)
CtprInForce == IF kvmCtpr THEN pageCtpr ELSE prioMask
LtCalls ==
    /\ ltPc \in InCall => ltCall.ret \in ReturnsTo /\ ltCall.val = IF ltCall.ret \in AfterRaise THEN 15 ELSE 0
    /\ ltPc \in {"wc_sync", "wc_pend"} => kvmCtpr
    /\ ctprStore # -1 => ltPc = "wc_sync" /\ ctprStore = ltCall.val /\ ltCall.val # -1
    /\ ltPc = "wc_pend" \/ (ltPc = "wc_sync" /\ ctprStore = -1) => pageCtpr = ltCall.val
    /\ ltPc \in Raised => CtprInForce = 15

(* What the handler acts for.                                               *)
LtTakes ==
    /\ LtAt \in LtDisabled => ~ltEE
    /\ ~ltEE => isr = "off"
    /\ ltPc \in Raised => vec \notin IpiOrTimer
    /\ isr \in {"off", "iack"} <=> vec = NoSource
    /\ isr \in {"index", "eoi"} /\ vec = "timer" => ltPc \in Counting
    /\ isr \in {"index", "eoi"} => vec \in IpiOrTimer
    /\ vec = "ipi" => "ipi" \notin requested /\ LtAt \in Waiting

(* The slot of this round is empty until the interrupt of this round fills  *)
(* it, and there is no other.                                               *)
LtRounds ==
    /\ ~failed
    /\ "ipi" \in requested => LtAt \in Triggered
    /\ LtAt \in Keeping \cup {"a_trig"} \/ "ipi" \in requested \/ (vec = "ipi" /\ isr = "vec") =>
          ltIndex = ltI /\ stamps[ltI] = NoStamp
    /\ LtAt \in Waiting => stamps[ltI] \in {NoStamp, [src |-> "ipi", round |-> ltRound]}

LtGood == LtTypes /\ LtCalls /\ LtTakes /\ LtRounds
LtInv == late \/ LtGood

(* A step of the MPIC, the timer or the hypervisor.                         *)
LEMMA OutsideKept ==
    ASSUME LtGood, LtOutside \/ TimerFires
    PROVE  LtGood'
<1>1. /\ ltPc' = ltPc /\ ltCall' = ltCall /\ ltI' = ltI /\ ltRound' = ltRound /\ ltIndex' = ltIndex
      /\ stamps' = stamps /\ ltEE' = ltEE /\ isr' = isr /\ vec' = vec /\ (failed' <=> failed)
      /\ (kvmCtpr' <=> kvmCtpr) /\ prioMask' = prioMask
      /\ requested' = requested \/ requested' = requested \cup {"timer"}
  BY DEF LtOutside, TimerFires, OutputFollows, HvPublish, HvCheck, StorePerformed, ltThread, ltConfig, ltIsr,
         ltCtpr, ltPic
<1>2. \/ ctprStore' = ctprStore /\ pageCtpr' = pageCtpr
      \/ ctprStore # -1 /\ pageCtpr' = ctprStore /\ ctprStore' = -1
  BY DEF LtOutside, TimerFires, OutputFollows, HvPublish, HvCheck, StorePerformed, ltCtpr
<1>3. LtTypes'
  BY <1>1 DEF LtGood, LtTypes, IpiOrTimer
<1>4. LtCalls'
  BY <1>1, <1>2 DEF LtGood, LtCalls, CtprInForce, Raised
<1>5. LtAt' = LtAt
  BY <1>1 DEF LtAt
<1>6. LtTakes'
  BY <1>1, <1>5 DEF LtGood, LtTakes
<1>7. LtRounds'
  BY <1>1, <1>5 DEF LtGood, LtRounds
<1> QED BY <1>3, <1>4, <1>6, <1>7 DEF LtGood

(* A step of write_ctpr.                                                    *)
LEMMA WriteKept ==
    ASSUME LtGood, mpic_write_ctpr \/ KvmStoreCtpr \/ KvmSync \/ KvmTellIfPending
    PROVE  LtGood'
<1>1. /\ isr = "off" /\ isr' = isr /\ vec' = vec /\ ltI' = ltI /\ ltRound' = ltRound /\ ltIndex' = ltIndex
      /\ stamps' = stamps /\ (ltEE' <=> ltEE) /\ (failed' <=> failed) /\ requested' = requested
      /\ (kvmCtpr' <=> kvmCtpr) /\ ltCall' = ltCall /\ pageCtpr' = pageCtpr
  BY DEF mpic_write_ctpr, KvmStoreCtpr, KvmSync, KvmTellIfPending, ThreadAt, WriteTrap, ltConfig, ltIsr,
       ltCtpr, ltPic
<1>2. \/ ltPc = "wc" /\ ~kvmCtpr /\ ltPc' = ltCall.ret /\ prioMask' = ltCall.val /\ ctprStore' = ctprStore
      \/ ltPc = "wc" /\ kvmCtpr /\ ltPc' = "wc_sync" /\ ctprStore' = ltCall.val
      \/ ltPc = "wc_sync" /\ ctprStore = -1 /\ ltPc' = "wc_pend" /\ ctprStore' = ctprStore
      \/ ltPc = "wc_pend" /\ ltPc' = ltCall.ret /\ ctprStore' = ctprStore
  BY DEF mpic_write_ctpr, KvmStoreCtpr, KvmSync, KvmTellIfPending, ThreadAt, LtGoto, WriteTrap, ltCtpr
<1>3. /\ ltPc \in InCall /\ ltCall.ret \in ReturnsTo /\ vec = NoSource
      /\ ltCall.val = IF ltCall.ret \in AfterRaise THEN 15 ELSE 0
  BY <1>1, <1>2 DEF LtGood, LtCalls, LtTakes, InCall
<1>4. LtAt' = LtAt
  BY <1>1, <1>2, <1>3 DEF LtAt, InCall, ReturnsTo
<1>5. LtTypes'
  BY <1>1, <1>2, <1>3 DEF LtGood, LtTypes, LtPlaces, InCall, ReturnsTo
<1>6. LtCalls'
  BY <1>1, <1>2, <1>3 DEF LtGood, LtCalls, CtprInForce, Raised, InCall, ReturnsTo, AfterRaise
<1>7. LtTakes'
  BY <1>1, <1>2, <1>3, <1>4 DEF LtGood, LtTakes, LtDisabled, InCall, ReturnsTo, IpiOrTimer, NoSource
<1>8. LtRounds'
  BY <1>1, <1>3, <1>4 DEF LtGood, LtRounds
<1> QED BY <1>5, <1>6, <1>7, <1>8 DEF LtGood

(* An interrupt is acknowledged; the IPI only where the thread waits for it.*)
LEMMA AcknowledgeKept ==
    ASSUME LtGood, TakeInterrupt \/ ReadIack
    PROVE  LtGood'
<1>1. /\ ltPc' = ltPc /\ ltCall' = ltCall /\ ltI' = ltI /\ ltRound' = ltRound /\ ltIndex' = ltIndex
      /\ stamps' = stamps /\ (ltEE' <=> ltEE) /\ (failed' <=> failed) /\ (kvmCtpr' <=> kvmCtpr)
      /\ ctprStore' = ctprStore /\ pageCtpr' = pageCtpr /\ prioMask' = prioMask
  BY DEF TakeInterrupt, ReadIack, ltThread, ltConfig, ltCtpr
<1>2. ltEE /\ isr \in {"off", "iack"} /\ vec = NoSource
  BY DEF TakeInterrupt, ReadIack, LtGood, LtTakes
<1>3. \/ isr' = "iack" /\ vec' = NoSource /\ requested' = requested
      \/ isr' = "vec" /\ vec' = Spurious /\ requested' = requested
      \/ /\ isr' = "vec" /\ vec' \in requested /\ requested' = requested \ {vec'}
         /\ CtprInForce < 15
  BY <1>2 DEF TakeInterrupt, ReadIack, Acknowledge, Deliverable, Ready, CtprInForce
<1>4. LtAt' = LtAt
  BY <1>1 DEF LtAt
<1>5. vec' \in requested => ltPc \notin Raised
  BY <1>3 DEF LtGood, LtCalls, LtTypes, IpiOrTimer, NoSource, Spurious
<1>6. vec' = "ipi" => LtAt \in Waiting /\ "ipi" \in requested /\ "ipi" \notin requested'
  <2>1. vec' = "ipi" => "ipi" \in requested /\ "ipi" \notin requested' /\ LtAt \in Triggered
    BY <1>3 DEF LtGood, LtRounds, NoSource, Spurious
  <2>2. LtAt \in {"c_check", "d_check", "d_enable", "d_again"} => ltPc \in Raised
    BY <1>2 DEF LtAt, LtGood, LtTakes, LtCalls, ReturnsTo, Raised, LtDisabled, InCall
  <2> QED BY <1>5, <2>1, <2>2 DEF Triggered, Waiting, Keeping
<1>7. LtTypes'
  BY <1>1, <1>3 DEF LtGood, LtTypes, IpiOrTimer
<1>8. LtCalls'
  BY <1>1 DEF LtGood, LtCalls, CtprInForce
<1>9. LtTakes'
  BY <1>1, <1>2, <1>3, <1>4, <1>5, <1>6 DEF LtGood, LtTakes, LtTypes, IpiOrTimer, NoSource, Spurious
<1>10. LtRounds'
  BY <1>1, <1>3, <1>4, <1>6 DEF LtGood, LtRounds, NoSource, Spurious
<1> QED BY <1>7, <1>8, <1>9, <1>10 DEF LtGood

(* The index moves on and the handler ends.                                 *)
LEMMA HandlerKept ==
    ASSUME LtGood, NextStamp \/ EndOfInterrupt
    PROVE  LtGood'
<1>1. /\ ltPc' = ltPc /\ ltCall' = ltCall /\ ltI' = ltI /\ ltRound' = ltRound /\ stamps' = stamps
      /\ (ltEE' <=> ltEE) /\ (failed' <=> failed) /\ (kvmCtpr' <=> kvmCtpr) /\ requested' = requested
      /\ ctprStore' = ctprStore /\ pageCtpr' = pageCtpr /\ prioMask' = prioMask
  BY DEF NextStamp, EndOfInterrupt, ltThread, ltConfig, ltCtpr, ltPic
<1>2. \/ isr = "index" /\ isr' = "eoi" /\ vec' = vec /\ ltIndex' = (ltIndex + 1) % NumStamps
      \/ isr = "eoi" /\ isr' = "off" /\ vec' = NoSource /\ ltIndex' = ltIndex
  BY DEF NextStamp, EndOfInterrupt
<1>3. LtAt' = LtAt
  BY <1>1 DEF LtAt
<1>4. isr \in {"index", "eoi"} => /\ "ipi" \notin requested /\ LtAt \notin Keeping \cup {"a_trig"}
                                 /\ vec # Spurious /\ vec # NoSource
  <2>1. CASE isr \in {"index", "eoi"} /\ vec = "ipi"
    BY <2>1 DEF LtGood, LtTakes, Waiting, Keeping, NoSource, Spurious
  <2>2. CASE isr \in {"index", "eoi"} /\ vec = "timer"
    <3>1. LtAt \in Counting
      BY <2>2 DEF LtGood, LtTakes, LtAt, Counting, InCall
    <3> QED BY <2>2, <3>1 DEF LtGood, LtRounds, Counting, Triggered, Waiting, Keeping, NoSource, Spurious
  <2> QED BY <2>1, <2>2 DEF LtGood, LtTakes, IpiOrTimer
<1>5. LtTypes'
  <2>1. ltIndex' \in 0 .. NumStamps - 1
    BY <1>2, LatencyAssumption DEF LtGood, LtTypes
  <2> QED BY <1>1, <1>2, <2>1 DEF LtGood, LtTypes, NoSource
<1>6. LtCalls'
  BY <1>1 DEF LtGood, LtCalls, CtprInForce
<1>7. LtTakes'
  BY <1>1, <1>2, <1>3 DEF LtGood, LtTakes, IpiOrTimer, NoSource
<1>8. LtRounds'
  BY <1>1, <1>2, <1>3, <1>4 DEF LtGood, LtRounds
<1> QED BY <1>5, <1>6, <1>7, <1>8 DEF LtGood

(* A slot is stamped: this round's, by the IPI, or one that the timer's     *)
(* test counts.                                                             *)
LEMMA StampKept ==
    ASSUME LtGood, StampOrReturn, ~late'
    PROVE  LtGood'
<1>1. /\ ltPc' = ltPc /\ ltCall' = ltCall /\ ltI' = ltI /\ ltRound' = ltRound /\ ltIndex' = ltIndex
      /\ (ltEE' <=> ltEE) /\ (failed' <=> failed) /\ (kvmCtpr' <=> kvmCtpr) /\ requested' = requested
      /\ ctprStore' = ctprStore /\ pageCtpr' = pageCtpr /\ prioMask' = prioMask /\ isr = "vec"
  BY DEF StampOrReturn, ltThread, ltConfig, ltCtpr, ltPic
<1>2. vec = "timer" => ltPc \in Counting
  BY DEF StampOrReturn, Counting
<1>3. LtAt' = LtAt
  BY <1>1 DEF LtAt
<1>4. LtCalls'
  BY <1>1 DEF LtGood, LtCalls, CtprInForce
<1>5. CASE vec \in IpiOrTimer
  <2>1. isr' = "index" /\ vec' = vec
    BY <1>5 DEF StampOrReturn, IsOurs, IpiOrTimer, Spurious
  <2>2. PICK v \in {NoStamp, [src |-> vec, round |-> ltRound]} : stamps' = [stamps EXCEPT ![ltIndex] = v]
    BY <1>5 DEF StampOrReturn, IsOurs, IpiOrTimer, Spurious
  <2>3. v \in [src : {"ipi", "timer", NoSource}, round : Int]
    BY <1>5 DEF LtGood, LtTypes, IpiOrTimer, NoStamp
  <2>4. LtTypes'
    BY <1>1, <2>1, <2>2, <2>3 DEF LtGood, LtTypes
  <2>5. LtTakes'
    BY <1>1, <1>2, <1>3, <1>5, <2>1 DEF LtGood, LtTakes, IpiOrTimer
  <2>6. LtRounds'
    <3>1. CASE vec = "ipi"
      <4>1. ltIndex = ltI /\ LtAt \in Waiting /\ "ipi" \notin requested
        BY <1>1, <3>1 DEF LtGood, LtTakes, LtRounds
      <4>2. stamps'[ltI] \in {NoStamp, [src |-> "ipi", round |-> ltRound]}
        BY <2>2, <3>1, <4>1 DEF LtGood, LtTypes
      <4>3. LtAt \notin Keeping \cup {"a_trig"}
        BY <4>1 DEF Waiting, Keeping
      <4>4. /\ ~failed' /\ "ipi" \notin requested' /\ isr' # "vec" /\ LtAt' \notin Keeping \cup {"a_trig"}
            /\ (stamps[ltI])' = stamps'[ltI] /\ ltRound' = ltRound
        BY <1>1, <1>3, <2>1, <4>1, <4>3 DEF LtGood, LtRounds
      <4> QED BY <4>2, <4>4 DEF LtRounds
    <3>2. CASE vec = "timer"
      <4>1. LtAt \notin Waiting \cup Keeping \cup Triggered \cup {"a_trig"}
        BY <1>2, <3>2 DEF LtAt, Waiting, Keeping, Triggered, InCall, Counting
      <4>2. /\ ~failed' /\ "ipi" \notin requested' /\ vec' # "ipi"
            /\ LtAt' \notin Waiting \cup Keeping \cup {"a_trig"}
        BY <1>1, <1>3, <2>1, <3>2, <4>1 DEF LtGood, LtRounds
      <4> QED BY <4>2 DEF LtRounds
    <3> QED BY <1>5, <3>1, <3>2 DEF IpiOrTimer
  <2> QED BY <1>4, <2>4, <2>5, <2>6 DEF LtGood
<1>6. CASE vec \notin IpiOrTimer
  <2>1. isr' = "off" /\ vec' = NoSource /\ stamps' = stamps
    BY <1>1, <1>6 DEF LtGood, LtTypes, LtTakes, StampOrReturn, IsOurs, IpiOrTimer, Spurious, NoSource
  <2>2. LtTypes'
    BY <1>1, <2>1 DEF LtGood, LtTypes, NoSource
  <2>3. LtTakes'
    BY <1>1, <1>3, <2>1 DEF LtGood, LtTakes, IpiOrTimer, NoSource
  <2>4. LtRounds'
    BY <1>1, <1>3, <2>1 DEF LtGood, LtRounds, NoSource
  <2> QED BY <1>4, <2>2, <2>3, <2>4 DEF LtGood
<1> QED BY <1>5, <1>6

(* A step of the thread, between two interrupts.                            *)
Between ==
    /\ isr = "off" /\ isr' = isr /\ vec' = vec /\ (kvmCtpr' <=> kvmCtpr)
    /\ prioMask' = prioMask /\ pageCtpr' = pageCtpr /\ ctprStore' = ctprStore
MovesTo ==
    \/ ltPc' \in LtPlaces \ InCall /\ ltCall' = ltCall
    \/ /\ ltPc' = "wc" /\ ltCall'.ret \in ReturnsTo
       /\ ltCall'.val = IF ltCall'.ret \in AfterRaise THEN 15 ELSE 0

LEMMA MoveKept ==
    ASSUME LtGood, Between, MovesTo, ltPc \notin InCall, ltPc' \in Raised => ltPc \in Raised,
           LtAt' \in LtDisabled => ~ltEE', LtTypes', LtRounds'
    PROVE  LtGood'
<1>1. LtCalls'
  BY DEF LtGood, LtCalls, Between, MovesTo, CtprInForce, InCall
<1>2. LtTakes'
  BY DEF LtGood, LtTakes, Between, IpiOrTimer, NoSource
<1> QED BY <1>1, <1>2 DEF LtGood

LEMMA StartKept ==
    ASSUME LtGood,
           \/ StartTest("a_start", "a_begin", "ipi", TRUE, 0) \/ StartTest("j_start", "j_test", "timer", TRUE, 0)
           \/ StartTest("c_start", "c_begin", "ipi", TRUE, ltIndex) \/ StartTest("d_start", "d_begin", "ipi", FALSE, 0)
    PROVE  LtGood'
<1>1. /\ \/ ltPc = "a_start" /\ ltPc' = "a_begin"
         \/ ltPc = "j_start" /\ ltPc' = "j_test"
         \/ ltPc = "c_start" /\ ltPc' = "c_begin"
         \/ ltPc = "d_start" /\ ltPc' = "d_begin" /\ ltEE' = FALSE
      /\ ltIndex' \in {0, ltIndex} /\ ltCall' = ltCall /\ ltI' = ltI /\ ltRound' = ltRound /\ stamps' = stamps
      /\ (failed' <=> failed) /\ requested' = requested /\ isr' = isr /\ vec' = vec /\ isr = "off"
  BY DEF StartTest, ThreadAt, LtGoto, ltIsr
<1>2. Between
  BY DEF StartTest, ThreadAt, ltIsr, ltConfig, ltCtpr, Between
<1>3. /\ MovesTo /\ ltPc \notin InCall /\ (ltPc' \in Raised => ltPc \in Raised)
      /\ LtAt = ltPc /\ LtAt' = ltPc' /\ (LtAt' \in LtDisabled => ~ltEE')
      /\ LtAt \notin Triggered /\ LtAt' \notin Keeping \cup Waiting \cup {"a_trig"}
  BY <1>1 DEF MovesTo, LtPlaces, InCall, Raised, LtDisabled, LtAt, Triggered, Keeping, Waiting
<1>4. LtTypes'
  BY <1>1, <1>3, LatencyAssumption DEF LtGood, LtTypes, MovesTo
<1>5. LtRounds'
  BY <1>1, <1>2, <1>3 DEF LtGood, LtRounds, LtTakes, Between, NoSource
<1> QED BY <1>2, <1>3, <1>4, <1>5, MoveKept

LEMMA BeginKept ==
    ASSUME LtGood,
           \/ BeginRound("a_begin", "a_trig") \/ BeginRound("c_begin", "c_trig") \/ BeginRound("d_begin", "d_trig")
    PROVE  LtGood'
<1>1. /\ \/ ltPc = "a_begin" /\ ltPc' = "a_trig"
         \/ ltPc = "c_begin" /\ ltPc' = "c_trig"
         \/ ltPc = "d_begin" /\ ltPc' = "d_trig"
      /\ ltIndex' = ltIndex /\ ltI' = ltIndex /\ ltCall' = ltCall /\ ltRound' = ltRound + 1
      /\ stamps' = [stamps EXCEPT ![ltIndex] = NoStamp]
      /\ (failed' <=> failed) /\ requested' = requested /\ (ltEE' <=> ltEE)
  BY DEF BeginRound, ThreadAt, LtGoto, ltPic
<1>2. Between
  BY DEF BeginRound, ThreadAt, ltIsr, ltConfig, ltCtpr, Between
<1>3. /\ MovesTo /\ ltPc \notin InCall /\ (ltPc' \in Raised => ltPc \in Raised)
      /\ LtAt = ltPc /\ LtAt' = ltPc' /\ (LtAt' \in LtDisabled => LtAt \in LtDisabled)
      /\ LtAt \notin Triggered /\ LtAt' \notin Waiting
  BY <1>1 DEF MovesTo, LtPlaces, InCall, Raised, LtDisabled, LtAt, Triggered, Keeping, Waiting
<1>4. ltEE' => LtAt' \notin LtDisabled
  BY <1>1, <1>3 DEF LtGood, LtTakes
<1>5. NoStamp \in [src : {"ipi", "timer", NoSource}, round : Int]
  BY DEF NoStamp
<1>6. LtTypes'
  BY <1>1, <1>2, <1>3, <1>5 DEF LtGood, LtTypes, MovesTo, Between, InCall
<1>7. stamps'[ltI'] = NoStamp
  BY <1>1 DEF LtGood, LtTypes
<1>8. LtRounds'
  BY <1>1, <1>2, <1>3, <1>7 DEF LtGood, LtRounds, LtTakes, Between, NoSource
<1> QED BY <1>2, <1>3, <1>4, <1>6, <1>8, MoveKept

LEMMA TriggerKept ==
    ASSUME LtGood,
           \/ Trigger("a_trig", "a_wait") \/ Trigger("c_trig", "c_check") \/ Trigger("d_trig", "d_check")
    PROVE  LtGood'
<1>1. /\ \/ ltPc = "a_trig" /\ ltPc' = "a_wait"
         \/ ltPc = "c_trig" /\ ltPc' = "c_check"
         \/ ltPc = "d_trig" /\ ltPc' = "d_check"
      /\ ltIndex' = ltIndex /\ ltI' = ltI /\ ltCall' = ltCall /\ ltRound' = ltRound /\ stamps' = stamps
      /\ (failed' <=> failed) /\ requested' = requested \cup {"ipi"} /\ (ltEE' <=> ltEE)
  BY DEF Trigger, ThreadAt, LtGoto
<1>2. Between
  BY DEF Trigger, ThreadAt, ltIsr, ltConfig, ltCtpr, Between
<1>3. /\ MovesTo /\ ltPc \notin InCall /\ (ltPc' \in Raised => ltPc \in Raised)
      /\ LtAt = ltPc /\ LtAt' = ltPc' /\ (LtAt' \in LtDisabled => LtAt \in LtDisabled)
      /\ LtAt \in Keeping \cup {"a_trig"} /\ LtAt' \in Triggered
  BY <1>1 DEF MovesTo, LtPlaces, InCall, Raised, LtDisabled, LtAt, Triggered, Keeping, Waiting
<1>4. ltEE' => LtAt' \notin LtDisabled
  BY <1>1, <1>3 DEF LtGood, LtTakes
<1>5. LtTypes'
  BY <1>1, <1>2, <1>3 DEF LtGood, LtTypes, MovesTo, Between, InCall, IpiOrTimer
<1>6. LtRounds'
  BY <1>1, <1>2, <1>3 DEF LtGood, LtRounds, LtTakes, Between, NoSource
<1> QED BY <1>2, <1>3, <1>4, <1>5, <1>6, MoveKept

(* No interrupt came: the index is still the round's.                       *)
LEMMA CheckKept ==
    ASSUME LtGood,
           \/ CheckThenCtpr("c_check", 0, "c_wait") \/ CheckThenCtpr("d_check", 15, "d_enable")
           \/ CheckThenCtpr("d_again", 0, "d_wait")
    PROVE  LtGood'
<1>1. /\ \/ ltPc = "c_check" /\ ltCall' = [val |-> 0, ret |-> "c_wait"]
         \/ ltPc = "d_check" /\ ltCall' = [val |-> 15, ret |-> "d_enable"]
         \/ ltPc = "d_again" /\ ltCall' = [val |-> 0, ret |-> "d_wait"]
      /\ ltPc' = "wc" /\ ltIndex' = ltIndex /\ ltI' = ltI /\ ltRound' = ltRound /\ stamps' = stamps
      /\ requested' = requested /\ (ltEE' <=> ltEE)
  BY DEF CheckThenCtpr, CallWriteCtpr, ThreadAt, LtGoto, ltPic
<1>2. Between
  BY DEF CheckThenCtpr, CallWriteCtpr, ThreadAt, ltIsr, ltConfig, ltCtpr, Between
<1>3. /\ MovesTo /\ ltPc \notin InCall /\ ltPc' \notin Raised
      /\ LtAt = ltPc /\ LtAt' = ltCall'.ret /\ LtAt \in Keeping /\ LtAt' \in Triggered /\ (LtAt' \in LtDisabled => LtAt \in LtDisabled)
  BY <1>1 DEF MovesTo, LtPlaces, InCall, ReturnsTo, AfterRaise, Raised, LtDisabled, LtAt, Triggered, Keeping,
       Waiting
<1>4. ltIndex = ltI /\ stamps[ltI] = NoStamp /\ ltIndex \in Int
  BY <1>3 DEF LtGood, LtRounds, LtTypes
<1>5. ~failed'
  <2>1. ~(ltIndex > ltI)
    BY <1>4
  <2> QED BY <2>1 DEF CheckThenCtpr, LtGood, LtRounds
<1>6. LtTypes'
  BY <1>1, <1>2 DEF LtGood, LtTypes, Between, LtPlaces, InCall
<1>7. LtRounds'
  BY <1>1, <1>2, <1>3, <1>4, <1>5 DEF LtGood, LtRounds, LtTakes, Between, NoSource
<1> QED BY <1>1, <1>2, <1>3, <1>6, <1>7, MoveKept DEF LtGood, LtTakes

(* The slot is stamped: the round's interrupt came and is handled.          *)
LEMMA WaitKept ==
    ASSUME LtGood,
           \/ WaitStamp("a_wait", "a_begin", "a_end") \/ WaitThenRaise("c_wait", "c_begin", "c_low")
           \/ WaitThenDisable("d_wait", "d_begin", "d_end")
    PROVE  LtGood'
<1>1. /\ \/ ltPc = "a_wait" /\ ltPc' \in {"a_begin", "a_end"} /\ ltCall' = ltCall
         \/ ltPc = "c_wait" /\ ltPc' = "wc" /\ ltCall'.ret \in {"c_begin", "c_low"} /\ ltCall'.val = 15
         \/ ltPc = "d_wait" /\ ltPc' \in {"d_begin", "d_end"} /\ ltCall' = ltCall /\ ltEE' = FALSE
      /\ ltIndex' = ltIndex /\ ltI' = ltI /\ ltRound' = ltRound /\ stamps' = stamps /\ stamps[ltI] # NoStamp
      /\ (failed' <=> failed) /\ requested' = requested
  BY DEF WaitStamp, WaitThenRaise, WaitThenDisable, Stamped, Again, CallWriteCtpr, ThreadAt, LtGoto, ltPic
<1>2. Between
  BY DEF WaitStamp, WaitThenRaise, WaitThenDisable, Stamped, CallWriteCtpr, ThreadAt, ltIsr, ltConfig, ltCtpr,
       Between
<1>3. /\ MovesTo /\ ltPc \notin InCall /\ ltPc' \notin Raised /\ (LtAt' \in LtDisabled => ~ltEE')
      /\ LtAt' \notin Waiting \cup Keeping \cup {"a_trig"}
  BY <1>1 DEF MovesTo, LtPlaces, InCall, ReturnsTo, AfterRaise, Raised, LtDisabled, LtAt, Waiting, Keeping
<1>4. LtTypes'
  BY <1>1, <1>2 DEF LtGood, LtTypes, Between, LtPlaces, InCall
<1>5. LtRounds'
  BY <1>1, <1>2, <1>3 DEF LtGood, LtRounds, LtTakes, Between, NoSource
<1> QED BY <1>2, <1>3, <1>4, <1>5, MoveKept

(* The other steps of the IPI tests.                                        *)
LEMMA OtherStepKept ==
    ASSUME LtGood,
           \/ EndTest("a_end", "j_start") \/ EndTest("c_end", "d_start") \/ EndTest("d_end", "done")
           \/ EnableInt("d_enable", "d_again") \/ ResetIndex("c_index", 15, "c_start")
           \/ ThreadAt("c_low") /\ CallWriteCtpr(0, "c_end")
                /\ UNCHANGED <<ltRound, ltI, stamps, ltIndex, ltConfig, ltEE, ltIsr, ltCtpr, ltPic, failed, ltHist>>
    PROVE  LtGood'
<1>1. /\ \/ ltPc = "a_end" /\ ltPc' = "j_start" /\ ltCall' = ltCall /\ ltIndex' = ltIndex
         \/ ltPc = "c_end" /\ ltPc' = "d_start" /\ ltCall' = ltCall /\ ltIndex' = ltIndex
         \/ ltPc = "d_end" /\ ltPc' = "done" /\ ltCall' = ltCall /\ ltIndex' = ltIndex
         \/ ltPc = "d_enable" /\ ltPc' = "d_again" /\ ltCall' = ltCall /\ ltIndex' = ltIndex
         \/ ltPc = "c_index" /\ ltPc' = "wc" /\ ltCall' = [val |-> 15, ret |-> "c_start"] /\ ltIndex' = 0
         \/ ltPc = "c_low" /\ ltPc' = "wc" /\ ltCall' = [val |-> 0, ret |-> "c_end"] /\ ltIndex' = ltIndex
      /\ ltI' = ltI /\ ltRound' = ltRound /\ stamps' = stamps /\ (failed' <=> failed) /\ requested' = requested
  BY DEF EndTest, EnableInt, ResetIndex, CallWriteCtpr, ThreadAt, LtGoto, ltPic
<1>2. Between
  BY DEF EndTest, EnableInt, ResetIndex, CallWriteCtpr, ThreadAt, ltIsr, ltConfig, ltCtpr, Between
<1>3. /\ MovesTo /\ ltPc \notin InCall /\ (ltPc' \in Raised => ltPc \in Raised) /\ LtAt' \notin LtDisabled \cup Waiting
      /\ LtAt = ltPc /\ (ltPc # "d_enable" => LtAt \notin Triggered /\ LtAt' \notin Keeping \cup {"a_trig"})
      /\ (ltPc = "d_enable" => LtAt \in Keeping /\ LtAt' \in Triggered /\ ltIndex' = ltIndex)
  BY <1>1 DEF MovesTo, LtPlaces, InCall, ReturnsTo, AfterRaise, Raised, LtDisabled, LtAt, Waiting, Keeping,
       Triggered
<1>4. LtTypes'
  BY <1>1, <1>2, LatencyAssumption DEF LtGood, LtTypes, Between, LtPlaces, InCall
<1>5. LtRounds'
  BY <1>1, <1>2, <1>3 DEF LtGood, LtRounds, LtTakes, Between, NoSource
<1> QED BY <1>2, <1>3, <1>4, <1>5, MoveKept

(* The timer's test looks at the index only.                                *)
LEMMA CountKept ==
    ASSUME LtGood,
           \/ (JitterMove("j_test", "j_i") \/ JitterMove("j_wait", "j_test") \/ JitterMove("j_test", "c_index")) /\ ltI' = ltI
           \/ JitterMove("j_i", "j_wait") /\ ltI' = ltIndex
    PROVE  LtGood'
<1>1. /\ ltPc \in Counting /\ ltPc' \in Counting \cup {"c_index"} /\ ltI' \in {ltI, ltIndex}
      /\ ltIndex' = ltIndex /\ ltRound' = ltRound /\ stamps' = stamps /\ ltCall' = ltCall
      /\ (failed' <=> failed) /\ requested' = requested
  BY DEF JitterMove, ThreadAt, LtGoto, Counting
<1>2. Between
  BY DEF JitterMove, ThreadAt, ltIsr, ltConfig, ltCtpr, Between
<1>3. /\ MovesTo /\ ltPc \notin InCall /\ ltPc' \notin Raised /\ LtAt = ltPc /\ LtAt \notin Triggered
      /\ LtAt' \notin LtDisabled \cup Waiting \cup Keeping \cup {"a_trig"}
  BY <1>1 DEF MovesTo, LtPlaces, InCall, Raised, LtDisabled, LtAt, Waiting, Keeping, Triggered, Counting
<1>4. LtTypes'
  <2>1. ltPc' \in LtPlaces /\ ltI' \in 0 .. NumStamps - 1
    BY <1>1, <1>3 DEF LtGood, LtTypes, MovesTo, LtPlaces, Counting
  <2> QED BY <1>1, <1>2, <2>1 DEF LtGood, LtTypes, Between
<1>5. LtRounds'
  BY <1>1, <1>2, <1>3 DEF LtGood, LtRounds, LtTakes, Between, NoSource
<1> QED BY <1>2, <1>3, <1>4, <1>5, MoveKept

LEMMA InitHvKept ==
    ASSUME LtGood, init_hv
    PROVE  LtGood'
<1>1. /\ ltPc = "off" /\ ltPc' = "wc" /\ ltCall' = [val |-> 0, ret |-> "a_start"] /\ ltIndex' = ltIndex /\ ltI' = ltI
      /\ ltRound' = ltRound /\ stamps' = stamps /\ (failed' <=> failed) /\ requested' = requested
      /\ isr' = isr /\ vec' = vec /\ ctprStore' = ctprStore /\ pageCtpr' = pageCtpr
  BY DEF init_hv, CallWriteCtpr, LtGoto, ltIsr, ltCtpr, ltPic
<1>2. /\ LtAt = "off" /\ LtAt' = "a_start" /\ isr = "off" /\ vec = NoSource /\ ctprStore = -1
  BY <1>1 DEF LtAt, InCall, LtGood, LtTakes, LtCalls, LtDisabled
<1>3. LtTypes'
  BY <1>1 DEF LtGood, LtTypes, LtPlaces, InCall
<1>4. LtCalls'
  BY <1>1, <1>2 DEF LtCalls, InCall, ReturnsTo, AfterRaise, Raised
<1>5. LtTakes'
  BY <1>1, <1>2 DEF LtTakes, LtDisabled, Raised, IpiOrTimer, NoSource
<1>6. LtRounds'
  BY <1>1, <1>2 DEF LtGood, LtRounds, Triggered, Waiting, Keeping, NoSource
<1> QED BY <1>3, <1>4, <1>5, <1>6 DEF LtGood

LEMMA LateStays == LatencyNext /\ late => late'
<1> SUFFICES ASSUME LatencyNext, late PROVE late'
  OBVIOUS
<1>1. CASE init_hv \/ LtHandler \/ LtOutside \/ TimerFires
  BY <1>1 DEF init_hv, LtHandler, LtOutside, TimerFires, TakeInterrupt, ReadIack, StampOrReturn, NextStamp,
     EndOfInterrupt, OutputFollows, HvPublish, HvCheck, StorePerformed, ltHist
<1>2. CASE LtThreadStep
  BY <1>2 DEF LtThreadStep, mpic_write_ctpr, KvmStoreCtpr, KvmSync, KvmTellIfPending, Latencies, Jitter,
     RaiseOnPending, LowerOnPending, StartTest, BeginRound, Trigger, CheckThenCtpr, EnableInt, WaitStamp,
     WaitThenRaise, WaitThenDisable, EndTest, JitterMove, ResetIndex, CallWriteCtpr, ltHist
<1> QED BY <1>1, <1>2 DEF LatencyNext

LEMMA LatencyNextHolds == LtInv /\ [LatencyNext]_ltVars => LtInv'
<1> SUFFICES ASSUME LtInv, [LatencyNext]_ltVars, ~late' PROVE LtGood'
  BY DEF LtInv
<1>1. LatencyNext => ~late
  BY LateStays
<1>2. LtGood
  BY <1>1 DEF LtInv, ltVars, ltHist
<1>3. CASE init_hv
  BY <1>2, <1>3, InitHvKept
<1>4. CASE LtHandler
  BY <1>2, <1>4, AcknowledgeKept, StampKept, HandlerKept DEF LtHandler
<1>5. CASE LtOutside \/ TimerFires
  BY <1>2, <1>5, OutsideKept
<1>6. CASE mpic_write_ctpr \/ KvmStoreCtpr \/ KvmSync \/ KvmTellIfPending
  BY <1>2, <1>6, WriteKept
<1>7. CASE Latencies
  BY <1>2, <1>7, StartKept, BeginKept, TriggerKept, WaitKept, OtherStepKept DEF Latencies
<1>8. CASE Jitter
  BY <1>2, <1>8, StartKept, CountKept DEF Jitter
<1>9. CASE RaiseOnPending
  BY <1>2, <1>9, OtherStepKept, StartKept, BeginKept, TriggerKept, CheckKept, WaitKept DEF RaiseOnPending
<1>10. CASE LowerOnPending
  BY <1>2, <1>10, OtherStepKept, StartKept, BeginKept, TriggerKept, CheckKept, WaitKept DEF LowerOnPending
<1>11. CASE UNCHANGED ltVars
  <2>1. LtTypes' /\ LtCalls'
    BY <1>2, <1>11 DEF LtGood, LtTypes, LtCalls, CtprInForce, ltVars, ltThread, ltConfig, ltIsr, ltCtpr, ltPic
  <2>2. LtTakes' /\ LtRounds'
    BY <1>2, <1>11 DEF LtGood, LtTakes, LtRounds, LtAt, ltVars, ltThread, ltIsr, ltPic
  <2> QED BY <2>1, <2>2 DEF LtGood
<1> QED BY <1>3, <1>4, <1>5, <1>6, <1>7, <1>8, <1>9, <1>10, <1>11 DEF LatencyNext, LtThreadStep

LEMMA LatencyInitHolds == LtInit => LtInv
<1> SUFFICES ASSUME LtInit PROVE LtGood
  BY DEF LtInv
<1>1. LtAt = "off"
  BY DEF LtInit, LtAt, InCall
<1>2. LtTypes
  <2>1. NoStamp \in [src : {"ipi", "timer", NoSource}, round : Int]
    BY DEF NoStamp
  <2> QED BY <2>1, LatencyAssumption DEF LtInit, LtTypes, LtPlaces, NoSource
<1>3. LtCalls
  BY DEF LtInit, LtCalls, InCall, Raised
<1>4. LtTakes
  BY <1>1 DEF LtInit, LtTakes, Raised, IpiOrTimer, NoSource
<1>5. LtRounds
  BY <1>1 DEF LtInit, LtRounds, Keeping, Waiting, NoSource
<1> QED BY <1>2, <1>3, <1>4, <1>5 DEF LtGood

LEMMA LtInvSound == LtInv => LatencySound
  BY DEF LtInv, LtGood, LtRounds, LatencySound, LtAt, Waiting, InCall
-----------------------------------------------------------------------------
(* The parts together                                                       *)

LEMMA PartSteps ==
    [PlatformNext]_platformVars => [Next]_vars /\ [MpicNext]_mpicVars /\ [SmpNext]_smpVars
                                      /\ [TrapNext]_trapVars /\ [LatencyNext]_ltVars
  BY DEF PlatformNext, platformVars, InterruptsPart, ThreadsPart, MpicPart, TrapsPart, LatencyPart

(* Interrupt masking and the MPIC's registers stay sound, and no core waits *)
(* for itself, in the specification that the platform run checks.           *)
THEOREM PlatformSound ==
    PlatformSpec => [](MaskSound /\ NoRecursiveLockElsewhere /\ MpicSound)
<1>1. PlatformInit => IInv /\ MpicInv
  BY InitHolds, MpicInitHolds DEF PlatformInit
<1>2. IInv /\ MpicInv /\ [PlatformNext]_platformVars => IInv' /\ MpicInv'
  BY PartSteps, NextHolds, MpicNextHolds
<1>3. IInv /\ MpicInv => MaskSound /\ NoRecursiveLockElsewhere /\ MpicSound
  BY InvMaskSound, InvNoRecursion, MpicInvSound
<1> QED BY <1>1, <1>2, <1>3, PTL DEF PlatformSpec

(* Each hardware thread runs on its own cpu_t, all that are called have     *)
(* counted themselves when the boot thread goes on, and pauses exclude the  *)
(* other thread of the core, for any number of cores and of pauses.         *)
THEOREM ThreadsSound == PlatformSpec => []SmpSound
<1>1. PlatformInit => SmpInv
  BY DEF PlatformInit, SmpInv
<1>2. SmpInv /\ [PlatformNext]_platformVars => SmpInv'
  BY PartSteps, SmpNextHolds
<1> QED BY <1>1, <1>2, SmpInvSound, PTL DEF PlatformSpec

(* A trap returns to where it came, with the registers and the enable bits  *)
(* it found there, and no trap overwrites what another saved: unless a      *)
(* handler faults with a normal trap not in its frame (refault), which the  *)
(* code does not provide for.  For any number of traps.                     *)
THEOREM TrapsAlwaysReturn == PlatformSpec => []TrapsReturn
<1>1. PlatformInit => TrapInv
  BY TrapInitHolds DEF PlatformInit
<1>2. TrapInv /\ [PlatformNext]_platformVars => TrapInv'
  BY PartSteps, TrapNextHolds
<1> QED BY <1>1, <1>2, TrapInvReturns, PTL DEF PlatformSpec

(* What a round of the latency client's IPI tests measures is the interrupt *)
(* of that round, on the MPIC and on KVM, for any number of stamps and      *)
(* rounds, unless an interrupt of the timer's test comes after it (late).   *)
THEOREM RoundsMeasureTheirOwn == PlatformSpec => []LatencySound
<1>1. PlatformInit => LtInv
  BY LatencyInitHolds DEF PlatformInit
<1>2. LtInv /\ [PlatformNext]_platformVars => LtInv'
  BY PartSteps, LatencyNextHolds
<1> QED BY <1>1, <1>2, LtInvSound, PTL DEF PlatformSpec
=============================================================================
