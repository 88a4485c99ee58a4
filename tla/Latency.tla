-------------------------------- MODULE Latency -------------------------------
(* The latency client (latency/src/init.c): its thread triggers interrupts, *)
(* or lets a timer, raises and lowers the current task priority (CTPR) and  *)
(* waits for the stamps of its interrupt handler, on the MPIC or on KVM,    *)
(* whose magic page holds CTPR and the priority pending.  The MPIC, the     *)
(* timer and the hypervisor are external.                                   *)
EXTENDS Integers

CONSTANTS
    NumStamps,  \* NUM_TIMESTAMPS, a power of two
    Rounds      \* the rounds of each test

ASSUME LatencyAssumption == NumStamps \in Nat \ {0}

IpiOrTimer == {"ipi", "timer"}
Spurious == "0xffff"
NoSource == "none"
NoStamp == [src |-> NoSource, round |-> 0]

VARIABLES
    ltPc, ltRound, ltI,     \* the thread: where it is, rounds so far, i
    ltCall,                 \* write_ctpr: its argument, where it returns to
    stamps, ltIndex,        \* t[], index
    coreint, kvmCtpr,       \* the interrupt's vector is in EPR; CTPR is in the page
    ltEE,                   \* MSR[EE]
    isr, vec,               \* ext_int_handler: where it is, vec
    prioMask,               \* the MPIC's CTPR
    pageCtpr, ctprStore,    \* the page's CTPR; the value on its way there, or -1
    prioPend,               \* the page's PRIO_PEND
    hvChecks,               \* the hypervisor is about to look at the page's CTPR
    requested, unmasked, inService, queued,  \* sources; the core's input is up
    timerRuns,
    failed,                 \* FAIL has been printed
    zeroRead, overrun, late \* history: a stamp read as 0; the timer was faster
                            \* than the thread; it interrupted a later test

ltThread == <<ltPc, ltRound, ltI, ltCall>>
ltConfig == <<coreint, kvmCtpr>>
ltIsr == <<isr, vec>>
ltCtpr == <<prioMask, pageCtpr, ctprStore>>
ltPic == <<prioPend, hvChecks, requested, unmasked, inService, queued, timerRuns>>
ltHist == <<zeroRead, overrun, late>>
ltVars == <<ltThread, stamps, ltIndex, ltConfig, ltEE, ltIsr, ltCtpr, ltPic, failed, ltHist>>

LtInit ==
    /\ ltPc = "off" /\ ltRound = 0 /\ ltI = 0 /\ ltCall = [val |-> 0, ret |-> "off"]
    /\ stamps = [i \in 0 .. NumStamps - 1 |-> NoStamp] /\ ltIndex = 0
    /\ coreint = FALSE /\ kvmCtpr = FALSE /\ ltEE = FALSE
    /\ isr = "off" /\ vec = NoSource
    /\ prioMask = 15 /\ pageCtpr = 15 /\ ctprStore = -1
    /\ prioPend = 0 /\ hvChecks = FALSE
    /\ requested = {} /\ unmasked = {} /\ inService = NoSource /\ queued = FALSE
    /\ timerRuns = FALSE /\ failed = FALSE
    /\ zeroRead = FALSE /\ overrun = FALSE /\ late = FALSE

(* The thread runs while its handler does not.  Bound: it stops once a      *)
(* timer interrupt came late.                                               *)
ThreadAt(l) == ltPc = l /\ isr = "off" /\ ~late
LtGoto(l) == ltPc' = l

(* write_ctpr(val), then to ret.                                            *)
CallWriteCtpr(val, ret) == LtGoto("wc") /\ ltCall' = [val |-> val, ret |-> ret]

-----------------------------------------------------------------------------
(* External: the MPIC, the timer, the hypervisor                            *)

Ready == requested \cap unmasked
Deliverable(ctpr0) == Ready # {} /\ inService = NoSource /\ ctpr0 < 15

(* Bound: the timer is faster than the thread once.                         *)
TimerFires ==
    /\ timerRuns /\ "timer" \notin requested /\ ~overrun
    /\ requested' = requested \cup {"timer"}
    /\ UNCHANGED <<ltThread, stamps, ltIndex, ltConfig, ltEE, ltIsr, ltCtpr, prioPend, hvChecks,
                   unmasked, inService, queued, timerRuns, failed, ltHist>>

(* The MPIC's output follows its state.                                     *)
OutputFollows ==
    /\ ~kvmCtpr /\ queued # Deliverable(prioMask)
    /\ queued' = ~queued
    /\ UNCHANGED <<ltThread, stamps, ltIndex, ltConfig, ltEE, ltIsr, ltCtpr, prioPend, hvChecks,
                   requested, unmasked, inService, timerRuns, failed, ltHist>>

(* KVM publishes the priority and then looks at CTPR.                       *)
HvPublish ==
    /\ kvmCtpr /\ Ready # {} /\ prioPend = 0
    /\ prioPend' = 15 /\ hvChecks' = TRUE
    /\ UNCHANGED <<ltThread, stamps, ltIndex, ltConfig, ltEE, ltIsr, ltCtpr, requested, unmasked,
                   inService, queued, timerRuns, failed, ltHist>>

HvCheck ==
    /\ hvChecks
    /\ hvChecks' = FALSE
    /\ queued' = (queued \/ Deliverable(pageCtpr))
    /\ UNCHANGED <<ltThread, stamps, ltIndex, ltConfig, ltEE, ltIsr, ltCtpr, prioPend, requested,
                   unmasked, inService, timerRuns, failed, ltHist>>

(* The store to the page is performed.                                      *)
StorePerformed ==
    /\ ctprStore >= 0
    /\ pageCtpr' = ctprStore /\ ctprStore' = -1
    /\ UNCHANGED <<ltThread, stamps, ltIndex, ltConfig, ltEE, ltIsr, prioMask, ltPic, failed, ltHist>>

(* Acknowledging takes a source, or is spurious when CTPR was raised since. *)
Acknowledge ==
    \/ /\ Deliverable(IF kvmCtpr THEN pageCtpr ELSE prioMask)
       /\ \E s \in Ready :
            /\ vec' = s /\ inService' = s /\ requested' = requested \ {s}
            /\ prioPend' = IF Ready = {s} THEN 0 ELSE prioPend
    \/ /\ ~Deliverable(IF kvmCtpr THEN pageCtpr ELSE prioMask)
       /\ vec' = Spurious /\ UNCHANGED <<inService, requested, prioPend>>

-----------------------------------------------------------------------------
(* ext_int_handler: the vector is in EPR, acknowledged by the delivery, or  *)
(* read from IACK.                                                          *)

TakeInterrupt ==
    /\ isr = "off" /\ ltEE /\ queued
    /\ queued' = FALSE
    /\ IF coreint THEN Acknowledge /\ isr' = "vec"
       ELSE isr' = "iack" /\ UNCHANGED <<vec, inService, requested, prioPend>>
    /\ UNCHANGED <<ltThread, stamps, ltIndex, ltConfig, ltEE, ltCtpr, hvChecks, unmasked, timerRuns,
                   failed, ltHist>>

ReadIack ==
    /\ isr = "iack" /\ Acknowledge /\ isr' = "vec"
    /\ UNCHANGED <<ltThread, stamps, ltIndex, ltConfig, ltEE, ltCtpr, hvChecks, unmasked, queued,
                   timerRuns, failed, ltHist>>

(* Mutant: a spurious interrupt is stamped as well.                         *)
AnyVector == TRUE

IsOurs == vec # Spurious

(* Both sources have vector 0: the handler does not tell them apart.  The   *)
(* time base may read as 0; bound: once.                                    *)
StampOrReturn ==
    /\ isr = "vec"
    /\ IF IsOurs
       THEN /\ isr' = "index" /\ UNCHANGED vec
            /\ \/ /\ stamps' = [stamps EXCEPT ![ltIndex] = [src |-> vec, round |-> ltRound]]
                  /\ UNCHANGED zeroRead
               \/ stamps' = [stamps EXCEPT ![ltIndex] = NoStamp] /\ ~zeroRead /\ zeroRead' = TRUE
       ELSE isr' = "off" /\ vec' = NoSource /\ UNCHANGED <<stamps, zeroRead>>
    /\ late' = (late \/ (vec = "timer" /\ ltPc \notin {"j_test", "j_i", "j_wait"}))
    /\ UNCHANGED <<ltThread, ltIndex, ltConfig, ltEE, ltCtpr, ltPic, failed, overrun>>

NextStamp ==
    /\ isr = "index"
    /\ ltIndex' = (ltIndex + 1) % NumStamps
    /\ isr' = "eoi"
    /\ overrun' = (overrun \/ (vec = "timer" /\ ~(ltPc = "j_wait" /\ ltIndex = ltI)))
    /\ UNCHANGED <<ltThread, stamps, ltConfig, ltEE, vec, ltCtpr, ltPic, failed, zeroRead, late>>

EndOfInterrupt ==
    /\ isr = "eoi"
    /\ inService' = NoSource /\ hvChecks' = kvmCtpr
    /\ isr' = "off" /\ vec' = NoSource
    /\ UNCHANGED <<ltThread, stamps, ltIndex, ltConfig, ltEE, ltCtpr, prioPend, requested,
                   unmasked, queued, timerRuns, failed, ltHist>>

-----------------------------------------------------------------------------
(* write_ctpr                                                               *)

WriteTrap(val) == prioMask' = val /\ hvChecks' = kvmCtpr

mpic_write_ctpr ==
    /\ ThreadAt("wc") /\ ~kvmCtpr
    /\ WriteTrap(ltCall.val) /\ LtGoto(ltCall.ret)
    /\ UNCHANGED <<ltRound, ltI, ltCall, stamps, ltIndex, ltConfig, ltEE, ltIsr, pageCtpr, ctprStore,
                   prioPend, requested, unmasked, inService, queued, timerRuns, failed, ltHist>>

(* The store to the page, ...                                               *)
KvmStoreCtpr ==
    /\ ThreadAt("wc") /\ kvmCtpr
    /\ ctprStore' = ltCall.val /\ LtGoto("wc_sync")
    /\ UNCHANGED <<ltRound, ltI, ltCall, stamps, ltIndex, ltConfig, ltEE, ltIsr, prioMask, pageCtpr,
                   ltPic, failed, ltHist>>

(* ... smp_sync, ...                                                        *)
KvmSync ==
    /\ ThreadAt("wc_sync") /\ ctprStore = -1
    /\ LtGoto("wc_pend")
    /\ UNCHANGED <<ltRound, ltI, ltCall, stamps, ltIndex, ltConfig, ltEE, ltIsr, ltCtpr, ltPic,
                   failed, ltHist>>

(* Mutant: the hypervisor is only told of a CTPR that is raised.            *)
KvmNeverTells ==
    /\ ThreadAt("wc_pend")
    /\ LtGoto(ltCall.ret)
    /\ UNCHANGED <<ltRound, ltI, ltCall, stamps, ltIndex, ltConfig, ltEE, ltIsr, ltCtpr, ltPic,
                   failed, ltHist>>

(* ... and the hypervisor is told only if something more urgent is pending. *)
KvmTellIfPending ==
    /\ ThreadAt("wc_pend")
    /\ IF prioPend > ltCall.val THEN WriteTrap(ltCall.val) ELSE UNCHANGED <<prioMask, hvChecks>>
    /\ LtGoto(ltCall.ret)
    /\ UNCHANGED <<ltRound, ltI, ltCall, stamps, ltIndex, ltConfig, ltEE, ltIsr, pageCtpr, ctprStore,
                   prioPend, requested, unmasked, inService, queued, timerRuns, failed, ltHist>>

-----------------------------------------------------------------------------
(* The tests of libos_client_entry.  Each ends by masking what it unmasked, *)
(* except for the timer.                                                    *)

(* init_hv, init_kvm, init_kvm_magic: what the hypervisor, if there is one, *)
(* says that it can do.  Then interrupts are enabled and CTPR is lowered.   *)
init_hv ==
    /\ ltPc = "off"
    /\ coreint' \in BOOLEAN /\ kvmCtpr' \in BOOLEAN
    /\ ltEE' = TRUE
    /\ CallWriteCtpr(0, "a_start")
    /\ UNCHANGED <<ltRound, ltI, stamps, ltIndex, ltIsr, ltCtpr, ltPic, failed, ltHist>>

StartTest(at, then, src, ee, ix) ==
    /\ ThreadAt(at)
    /\ ltIndex' = ix
    /\ unmasked' = unmasked \cup {src}
    /\ timerRuns' = (timerRuns \/ src = "timer")
    /\ ltEE' = ee
    /\ LtGoto(then)
    /\ UNCHANGED <<ltRound, ltI, ltCall, stamps, ltConfig, ltIsr, ltCtpr, prioPend, hvChecks,
                   requested, inService, queued, failed, ltHist>>

(* i = index, t[i] = 0.                                                     *)
BeginRound(at, then) ==
    /\ ThreadAt(at)
    /\ ltI' = ltIndex /\ stamps' = [stamps EXCEPT ![ltIndex] = NoStamp]
    /\ ltRound' = ltRound + 1
    /\ LtGoto(then)
    /\ UNCHANGED <<ltCall, ltIndex, ltConfig, ltEE, ltIsr, ltCtpr, ltPic, failed, ltHist>>

Trigger(at, then) ==
    /\ ThreadAt(at)
    /\ requested' = requested \cup {"ipi"}
    /\ LtGoto(then)
    /\ UNCHANGED <<ltRound, ltI, ltCall, stamps, ltIndex, ltConfig, ltEE, ltIsr, ltCtpr, prioPend,
                   hvChecks, unmasked, inService, queued, timerRuns, failed, ltHist>>

(* FAIL when an interrupt came, then write_ctpr(val).                       *)
CheckThenCtpr(at, val, then) ==
    /\ ThreadAt(at)
    /\ failed' = (failed \/ ltIndex > ltI)
    /\ CallWriteCtpr(val, then)
    /\ UNCHANGED <<ltRound, ltI, stamps, ltIndex, ltConfig, ltEE, ltIsr, ltCtpr, ltPic, ltHist>>

EnableInt(at, then) ==
    /\ ThreadAt(at)
    /\ ltEE' = TRUE /\ LtGoto(then)
    /\ UNCHANGED <<ltRound, ltI, ltCall, stamps, ltIndex, ltConfig, ltIsr, ltCtpr, ltPic, failed, ltHist>>

(* while (t[i] == 0), then another round or the end of the test.            *)
Stamped(at) == ThreadAt(at) /\ stamps[ltI] # NoStamp
Again(loop, end) == IF ltRound % Rounds # 0 THEN loop ELSE end

WaitStamp(at, loop, end) ==
    /\ Stamped(at)
    /\ LtGoto(Again(loop, end))
    /\ UNCHANGED <<ltRound, ltI, ltCall, stamps, ltIndex, ltConfig, ltEE, ltIsr, ltCtpr, ltPic,
                   failed, ltHist>>

WaitThenRaise(at, loop, end) ==
    /\ Stamped(at)
    /\ CallWriteCtpr(15, Again(loop, end))
    /\ UNCHANGED <<ltRound, ltI, stamps, ltIndex, ltConfig, ltEE, ltIsr, ltCtpr, ltPic, failed, ltHist>>

WaitThenDisable(at, loop, end) ==
    /\ Stamped(at)
    /\ ltEE' = FALSE /\ LtGoto(Again(loop, end))
    /\ UNCHANGED <<ltRound, ltI, ltCall, stamps, ltIndex, ltConfig, ltIsr, ltCtpr, ltPic, failed, ltHist>>

EndTest(at, then) ==
    /\ ThreadAt(at)
    /\ unmasked' = unmasked \ {"ipi"}
    /\ LtGoto(then)
    /\ UNCHANGED <<ltRound, ltI, ltCall, stamps, ltIndex, ltConfig, ltEE, ltIsr, ltCtpr, prioPend,
                   hvChecks, requested, inService, queued, timerRuns, failed, ltHist>>

Latencies ==
    \/ StartTest("a_start", "a_begin", "ipi", TRUE, 0) \/ BeginRound("a_begin", "a_trig")
    \/ Trigger("a_trig", "a_wait") \/ WaitStamp("a_wait", "a_begin", "a_end")
    \/ EndTest("a_end", "j_start")

(* while (index < NUM_TIMESTAMPS - 1) { i = index; while (i == index); }    *)
JitterMove(at, then) ==
    /\ ThreadAt(at) /\ LtGoto(then)
    /\ UNCHANGED <<ltRound, ltCall, stamps, ltIndex, ltConfig, ltEE, ltIsr, ltCtpr, prioPend,
                   hvChecks, requested, unmasked, inService, queued, failed, ltHist>>

Jitter ==
    \/ StartTest("j_start", "j_test", "timer", TRUE, 0)
    \/ ltIndex < NumStamps - 1 /\ JitterMove("j_test", "j_i") /\ UNCHANGED <<ltI, timerRuns>>
    \/ JitterMove("j_i", "j_wait") /\ ltI' = ltIndex /\ UNCHANGED timerRuns
    \/ ltIndex # ltI /\ JitterMove("j_wait", "j_test") /\ UNCHANGED <<ltI, timerRuns>>
    \/ ltIndex >= NumStamps - 1 /\ JitterMove("j_test", "c_index") /\ timerRuns' = FALSE /\ UNCHANGED ltI

(* The index is reset before CTPR is raised.                                *)
ResetIndex(at, val, then) ==
    /\ ThreadAt(at)
    /\ ltIndex' = 0
    /\ CallWriteCtpr(val, then)
    /\ UNCHANGED <<ltRound, ltI, stamps, ltConfig, ltEE, ltIsr, ltCtpr, ltPic, failed, ltHist>>

RaiseOnPending ==
    \/ ResetIndex("c_index", 15, "c_start")
    \/ StartTest("c_start", "c_begin", "ipi", TRUE, ltIndex)
    \/ BeginRound("c_begin", "c_trig") \/ Trigger("c_trig", "c_check")
    \/ CheckThenCtpr("c_check", 0, "c_wait") \/ WaitThenRaise("c_wait", "c_begin", "c_low")
    \/ ThreadAt("c_low") /\ CallWriteCtpr(0, "c_end")
         /\ UNCHANGED <<ltRound, ltI, stamps, ltIndex, ltConfig, ltEE, ltIsr, ltCtpr, ltPic, failed, ltHist>>
    \/ EndTest("c_end", "d_start")

LowerOnPending ==
    \/ StartTest("d_start", "d_begin", "ipi", FALSE, 0)
    \/ BeginRound("d_begin", "d_trig") \/ Trigger("d_trig", "d_check")
    \/ CheckThenCtpr("d_check", 15, "d_enable") \/ EnableInt("d_enable", "d_again")
    \/ CheckThenCtpr("d_again", 0, "d_wait") \/ WaitThenDisable("d_wait", "d_begin", "d_end")
    \/ EndTest("d_end", "done")

LtThreadStep ==
    \/ mpic_write_ctpr \/ KvmStoreCtpr \/ KvmSync \/ KvmTellIfPending
    \/ Latencies \/ Jitter \/ RaiseOnPending \/ LowerOnPending

LtHandler == TakeInterrupt \/ ReadIack \/ StampOrReturn \/ NextStamp \/ EndOfInterrupt
LtOutside == OutputFollows \/ HvPublish \/ HvCheck \/ StorePerformed

LatencyNext == init_hv \/ LtThreadStep \/ LtHandler \/ LtOutside \/ TimerFires

-----------------------------------------------------------------------------

(* What a round of the IPI tests measures is the interrupt of that round:   *)
(* none comes while CTPR is up or interrupts are off, a spurious one leaves *)
(* no stamp, and none is left over for a later round, unless a late timer   *)
(* interrupt (init.c:941) takes its place.                                  *)
LatencySound ==
    late \/
      /\ ~failed
      /\ ltPc \in {"a_wait", "c_wait", "d_wait"} =>
           stamps[ltI] \in {NoStamp, [src |-> "ipi", round |-> ltRound]}

(* The tests end: no interrupt is lost between a store to CTPR and what KVM *)
(* publishes (init.c:723), unless a stamp reads as 0, or the timer's        *)
(* interrupt comes between two steps of the loop that counts them.          *)
LatencyEnds == ltPc # "off" ~> ltPc = "done" \/ zeroRead \/ overrun \/ late
=============================================================================
