------------------------------- MODULE Platform -------------------------------
(* Cores and interrupts: error interrupts behind a machine check            *)
(* (Interrupts), the sources of the MPIC (Mpic), the entry and return of    *)
(* exceptions (Traps), the start and pause of hardware threads (Smp), and   *)
(* the latency client (Latency).  The parts share no state: a behaviour     *)
(* explores one of them, under the fairness of that one.                    *)
EXTENDS Interrupts, Smp, Mpic, Traps, Latency

VARIABLE part

platformVars == <<vars, smpVars, mpicVars, trapVars, ltVars, part>>

PlatformInit ==
    /\ Init /\ SmpInit /\ MpicInit /\ TrapInit /\ LtInit
    /\ part \in {"interrupts", "threads", "mpic", "traps", "latency"}

InterruptsPart ==
    part = "interrupts" /\ Next /\ UNCHANGED <<smpVars, mpicVars, trapVars, ltVars, part>>
ThreadsPart ==
    part = "threads" /\ SmpNext /\ UNCHANGED <<vars, mpicVars, trapVars, ltVars, part>>
MpicPart == part = "mpic" /\ MpicNext /\ UNCHANGED <<vars, smpVars, trapVars, ltVars, part>>
TrapsPart == part = "traps" /\ TrapNext /\ UNCHANGED <<vars, smpVars, mpicVars, ltVars, part>>
LatencyPart ==
    part = "latency" /\ LatencyNext /\ UNCHANGED <<vars, smpVars, mpicVars, trapVars, part>>

PlatformNext == InterruptsPart \/ ThreadsPart \/ MpicPart \/ TrapsPart \/ LatencyPart

(* A core that can take its next step takes it, a machine check or an       *)
(* interrupt that is pending is delivered, a hardware thread's spin loops   *)
(* go round, a timer that runs fires.                                       *)
PlatformFairness ==
    /\ \A x \in Context : WF_vars(part = "interrupts" /\ Step(x))
    /\ WF_vars(part = "interrupts" /\ Handler)
    /\ \A x \in HwThread : /\ WF_smpVars(part = "threads" /\ BootStep(x))
                           /\ WF_smpVars(part = "threads" /\ PauseStep(x))
    /\ WF_ltVars(part = "latency" /\ LtThreadStep)
    /\ WF_ltVars(part = "latency" /\ LtHandler)
    /\ WF_ltVars(part = "latency" /\ LtOutside)
    /\ WF_ltVars(part = "latency" /\ TimerFires)

PlatformSpec == PlatformInit /\ [][PlatformNext]_platformVars /\ PlatformFairness
=============================================================================
