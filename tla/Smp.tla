--------------------------------- MODULE Smp ---------------------------------
(* How the threads client brings up the other cores and hardware threads    *)
(* (threads/src/init.c, lib/mp.c, lib/head.S), and how a thread of a core   *)
(* then pauses the others (include/libos/mp.h).  A hardware thread is named *)
(* by its PIR; the boot thread is 0.  The loader's spin loop is external:   *)
(* it leaves when it sees the entry address.                                *)
EXTENDS Integers, FiniteSets

CONSTANTS
    NCores,     \* the cores besides the boot core
    MaxPauses   \* bound: the calls of pause_other_hw_threads, one less for
                \* each core that is to be released

ASSUME SmpAssumption == NCores \in Nat

HwThread == 0 .. 2 * NCores + 1
None == -1

(* What a core's node in the tree makes of release_secondary_cores: release *)
(* it, leave it out (it is not disabled, its method is not the spin table,  *)
(* a property is missing), or give up.                                      *)
NodeKind == {"ready", "left_out", "short_reg"}

VARIABLES
    tpc,            \* cpu_caps.threads_per_core
    cpuNodes,       \* the core nodes, in the order of the tree
    cpusLast,       \* libfdt finds no node after /cpus
    nodeAt,         \* release_secondary_cores: the node looked at
    releasedCnt,    \* its result so far
    table,          \* per thread: its boot_spin_table
    percpus,        \* hw_thread_percpus
    hwPc,           \* per thread: where it is
    hwPir, hwCpu,   \* per thread: SPR_PIR; index of its cpu_t in secondary_cpus
    enabled,        \* per thread: its bit in TENS/TENC
    running,        \* per thread: its bit in TENSR
    startedThreads,
    pauseLock,      \* per core: the lock of its threads' pauses
    pauses,
    timedOut        \* history: a pause has timed out

startVars == <<tpc, cpuNodes, cpusLast, nodeAt, releasedCnt, startedThreads>>
handVars == <<table, percpus, hwPir, hwCpu>>
pauseVars == <<pauseLock, pauses, timedOut>>
smpVars == <<startVars, handVars, pauseVars, hwPc, enabled, running>>

EmptyTable == [r3 |-> None, pir |-> None, hi |-> FALSE, lo |-> FALSE]

SmpInit ==
    /\ tpc = 1 /\ cpuNodes = <<>> /\ cpusLast = FALSE
    /\ nodeAt = 1 /\ releasedCnt = 0 /\ startedThreads = 1
    /\ table = [x \in HwThread |-> EmptyTable]
    /\ percpus = [x \in HwThread |-> None]
    /\ hwPc = [x \in HwThread |-> "off"]
    /\ hwPir = [x \in HwThread |-> x] /\ hwCpu = [x \in HwThread |-> None]
    /\ enabled = [x \in HwThread |-> FALSE] /\ running = enabled
    /\ pauseLock = [c \in 0 .. NCores |-> None] /\ pauses = 0 /\ timedOut = FALSE

CoreOf(x) == x \div tpc
Present(x) == CoreOf(x) <= NCores
Siblings(x) == {y \in HwThread : Present(y) /\ CoreOf(y) = CoreOf(x)} \ {x}

On(x, l) == hwPc[x] = l /\ running[x]
HwGoto(x, l) == hwPc' = [hwPc EXCEPT ![x] = l]

(* The boot thread is at libos_client_entry, thread 0 of each other core in *)
(* the loader's spin loop.  Until its table is written its PIR is unknown.  *)
PowerOn ==
    /\ hwPc[0] = "off"
    /\ tpc' \in 1 .. 2
    /\ cpuNodes' \in [1 .. NCores -> NodeKind]
    /\ cpusLast' \in BOOLEAN
    /\ hwPc' = [x \in HwThread |->
                  CASE x = 0 -> "begin"
                    [] x \in {c * tpc' : c \in 1 .. NCores} -> "spin"
                    [] OTHER -> "off"]
    /\ enabled' = [x \in HwThread |-> hwPc'[x] # "off"]
    /\ running' = enabled'
    /\ hwPir' = [x \in HwThread |-> IF tpc' > 1 /\ x % 2 = 1 THEN 8 * (x \div 2) + 1 ELSE x]
    /\ UNCHANGED <<nodeAt, releasedCnt, startedThreads, table, percpus, hwCpu, pauseVars>>

(* The core follows TENS and TENC with a delay of its own.  A thread that   *)
(* never ran begins at hw_thread_start.                                     *)
SwitchThread(x) ==
    /\ running[x] # enabled[x]
    /\ running' = [running EXCEPT ![x] = enabled[x]]
    /\ HwGoto(x, IF hwPc[x] = "off" THEN "hw_start" ELSE hwPc[x])
    /\ UNCHANGED <<startVars, handVars, pauseVars, enabled>>

-----------------------------------------------------------------------------
(* start_hw_thread, called by thread 0 of each core for its thread 1        *)

AfterStart(x) == IF x = 0 THEN "node" ELSE "count"

Begin(x) ==
    /\ On(x, "begin")
    /\ HwGoto(x, IF tpc > 1 THEN "tenc" ELSE AfterStart(x))
    /\ UNCHANGED <<startVars, handVars, pauseVars, enabled, running>>

StopThread(x) ==
    /\ On(x, "tenc")
    /\ enabled' = [enabled EXCEPT ![x + 1] = FALSE]
    /\ HwGoto(x, "percpu")
    /\ UNCHANGED <<startVars, handVars, pauseVars, running>>

(* Once TENSR says that it is off: its cpu_t is handed over in the entry of *)
(* its PIR, ...                                                             *)
HandOver(x) ==
    /\ On(x, "percpu") /\ ~running[x + 1]
    /\ percpus' = [percpus EXCEPT ![hwPir[x] + 1] = hwPir[x]]
    /\ HwGoto(x, "tens")
    /\ UNCHANGED <<startVars, table, hwPir, hwCpu, pauseVars, enabled, running>>

(* ... and after the sync the thread is started.                            *)
StartThread(x) ==
    /\ On(x, "tens")
    /\ enabled' = [enabled EXCEPT ![x + 1] = TRUE]
    /\ HwGoto(x, AfterStart(x))
    /\ UNCHANGED <<startVars, handVars, pauseVars, running>>

(* A thread comes out of reset with its core's number eight times in its    *)
(* PIR; the loader has replaced that of thread 0 of a core.                 *)
FixedPir(pir) == 2 * (pir \div 8) + (pir % 2)

hw_thread_start(x) ==
    /\ On(x, "hw_start")
    /\ hwPir' = [hwPir EXCEPT ![x] = FixedPir(hwPir[x])]
    /\ hwCpu' = [hwCpu EXCEPT ![x] = percpus[FixedPir(hwPir[x])]]
    /\ HwGoto(x, "count")
    /\ UNCHANGED <<startVars, table, percpus, pauseVars, enabled, running>>

-----------------------------------------------------------------------------
(* release_secondary_cores, with start_secondary_spin_table                 *)

Released == cpuNodes[nodeAt] = "ready"
NodePir == nodeAt * tpc

NextNode ==
    /\ On(0, "node") /\ nodeAt <= NCores
    /\ cpuNodes[nodeAt] # "short_reg"
    /\ IF Released THEN HwGoto(0, "r3") /\ UNCHANGED nodeAt
       ELSE nodeAt' = nodeAt + 1 /\ UNCHANGED hwPc
    /\ UNCHANGED <<tpc, cpuNodes, cpusLast, releasedCnt, startedThreads, handVars,
                   pauseVars, enabled, running>>

(* The result is ERR_BADTREE, or -FDT_ERR_NOTFOUND when the search for the  *)
(* next node runs off the end of the tree.                                  *)
EndOfNodes ==
    /\ On(0, "node")
    /\ \/ nodeAt > NCores /\ releasedCnt' = IF cpusLast THEN -1 ELSE releasedCnt
       \/ nodeAt <= NCores /\ cpuNodes[nodeAt] = "short_reg" /\ releasedCnt' = -256
    /\ HwGoto(0, "wait")
    /\ UNCHANGED <<tpc, cpuNodes, cpusLast, nodeAt, startedThreads, handVars, pauseVars,
                   enabled, running>>

Store(at, field, value, then) ==
    /\ On(0, at)
    /\ table' = [table EXCEPT ![NodePir][field] = value]
    /\ HwGoto(0, then)
    /\ UNCHANGED <<percpus, hwPir, hwCpu, pauseVars, enabled, running>>

(* Mutant: the entry address is written before the rest of the table.       *)
FillTableAddressFirst ==
    /\ \/ Store("r3", "lo", TRUE, "pir")
       \/ Store("pir", "pir", NodePir, "hi")
       \/ Store("hi", "hi", TRUE, "lo")
       \/ Store("lo", "r3", NodePir - 1, "flush")
    /\ UNCHANGED startVars

FillTable ==
    /\ \/ Store("r3", "r3", NodePir - 1, "pir")
       \/ Store("pir", "pir", NodePir, "hi")
       \/ Store("hi", "hi", TRUE, "lo")
       \/ Store("lo", "lo", TRUE, "flush")
    /\ UNCHANGED startVars

CountReleased ==
    /\ On(0, "flush")
    /\ nodeAt' = nodeAt + 1 /\ releasedCnt' = releasedCnt + 1
    /\ HwGoto(0, "node")
    /\ UNCHANGED <<tpc, cpuNodes, cpusLast, startedThreads, handVars, pauseVars, enabled, running>>

(* secondary_start: the loader passes on what the table holds by then.      *)
secondary_start(x) ==
    /\ On(x, "spin") /\ table[x].lo
    /\ hwPir' = [hwPir EXCEPT ![x] = table[x].pir]
    /\ hwCpu' = [hwCpu EXCEPT ![x] = table[x].r3]
    /\ HwGoto(x, "begin")
    /\ UNCHANGED <<startVars, table, percpus, pauseVars, enabled, running>>

(* The end of secondary_init.                                               *)
CountStarted(x) ==
    /\ On(x, "count")
    /\ startedThreads' = startedThreads + 1
    /\ HwGoto(x, "up")
    /\ UNCHANGED <<tpc, cpuNodes, cpusLast, nodeAt, releasedCnt, handVars, pauseVars, enabled, running>>

(* Mutant: the cores that were left out are waited for too.                 *)
WaitForAllCores ==
    /\ On(0, "wait")
    /\ startedThreads = (NCores + 1) * tpc
    /\ HwGoto(0, "up")
    /\ UNCHANGED <<startVars, handVars, pauseVars, enabled, running>>

(* The comparison is unsigned: for ERR_BADTREE it never comes true.         *)
WaitStarted ==
    /\ On(0, "wait")
    /\ releasedCnt >= -1 /\ startedThreads >= (releasedCnt + 1) * tpc
    /\ HwGoto(0, "up")
    /\ UNCHANGED <<startVars, handVars, pauseVars, enabled, running>>

-----------------------------------------------------------------------------
(* pause_other_hw_threads and resume_other_hw_threads, called by a client   *)
(* with a lock per core                                                     *)

Pause(x) ==
    /\ On(x, "up") /\ tpc > 1
    /\ pauses + Cardinality({c \in 1 .. NCores : cpuNodes[c] = "ready"}) < MaxPauses
    /\ pauses' = pauses + 1
    /\ HwGoto(x, "p_lock")
    /\ UNCHANGED <<startVars, handVars, pauseLock, timedOut, enabled, running>>

PauseLock(x) ==
    /\ On(x, "p_lock") /\ pauseLock[CoreOf(x)] = None
    /\ pauseLock' = [pauseLock EXCEPT ![CoreOf(x)] = x]
    /\ HwGoto(x, "p_tenc")
    /\ UNCHANGED <<startVars, handVars, pauses, timedOut, enabled, running>>

DisableOthers(x) ==
    /\ On(x, "p_tenc")
    /\ enabled' = [y \in HwThread |-> enabled[y] /\ y \notin Siblings(x)]
    /\ HwGoto(x, "p_wait")
    /\ UNCHANGED <<startVars, handVars, pauseVars, running>>

Paused(x) ==
    /\ On(x, "p_wait") /\ \A y \in Siblings(x) : ~running[y]
    /\ HwGoto(x, "paused")
    /\ UNCHANGED <<startVars, handVars, pauseVars, enabled, running>>

(* The time is taken before the lock is: any wait may be too long.  The     *)
(* others stay disabled.                                                    *)
PauseTimeout(x) ==
    /\ On(x, "p_wait") /\ \E y \in Siblings(x) : running[y]
    /\ pauseLock' = [pauseLock EXCEPT ![CoreOf(x)] = None]
    /\ timedOut' = TRUE
    /\ HwGoto(x, "up")
    /\ UNCHANGED <<startVars, handVars, pauses, enabled, running>>

ResumeOthers(x) ==
    /\ On(x, "paused")
    /\ enabled' = [y \in HwThread |-> enabled[y] \/ y \in Siblings(x)]
    /\ HwGoto(x, "p_unlock")
    /\ UNCHANGED <<startVars, handVars, pauseVars, running>>

PauseUnlock(x) ==
    /\ On(x, "p_unlock")
    /\ pauseLock' = [pauseLock EXCEPT ![CoreOf(x)] = None]
    /\ HwGoto(x, "up")
    /\ UNCHANGED <<startVars, handVars, pauses, timedOut, enabled, running>>

-----------------------------------------------------------------------------

BootStep(x) ==
    \/ Begin(x) \/ StopThread(x) \/ HandOver(x) \/ StartThread(x) \/ hw_thread_start(x)
    \/ secondary_start(x) \/ CountStarted(x) \/ SwitchThread(x)
    \/ x = 0 /\ (NextNode \/ EndOfNodes \/ FillTable \/ CountReleased \/ WaitStarted)

PauseStep(x) ==
    \/ PauseLock(x) \/ DisableOthers(x) \/ Paused(x) \/ PauseTimeout(x)
    \/ ResumeOthers(x) \/ PauseUnlock(x)

SmpNext == PowerOn \/ \E x \in HwThread : BootStep(x) \/ Pause(x) \/ PauseStep(x)

-----------------------------------------------------------------------------

Begun == {x \in HwThread \ {0} : hwPc[x] \notin {"off", "spin", "hw_start"}}

(* A hardware thread runs on the cpu_t, and the stack, that was meant for   *)
(* its PIR, and so on no other's, whichever of the two ways it was started  *)
(* and however the two cores' steps interleave (mp.h:101, mp.c:61).         *)
OwnPerCpu == \A x \in Begun : hwCpu[x] = x - 1 /\ hwPir[x] = x

(* "threads up & running": when the boot thread goes on, all threads of its *)
(* core and of the cores it released have counted themselves, and no other  *)
(* core has left the loader, unless the search for nodes failed.            *)
AllStarted ==
    hwPc[0] = "up" /\ releasedCnt >= 0 =>
      \A x \in HwThread \ {0} :
        Present(x) /\ (CoreOf(x) = 0 \/ cpuNodes[CoreOf(x)] = "ready") <=> x \in Begun /\ hwPc[x] # "count"

(* Between a pause and its resume no other thread of the core runs, and a   *)
(* thread is only stopped while another holds the lock of the pause, unless *)
(* one has timed out (mp.h:136).                                            *)
PauseExclusive ==
    \A x \in Begun \cup {0} :
      /\ hwPc[x] = "paused" => \A y \in Siblings(x) : ~running[y]
      /\ ~enabled[x] /\ hwPc[x] # "off" =>
           timedOut \/ \E y \in Siblings(x) : pauseLock[CoreOf(x)] = y

SmpSound == OwnPerCpu /\ AllStarted /\ PauseExclusive

(* The boot thread does not wait for ever, unless a core's reg property is  *)
(* malformed (init.c:444) or a thread was left disabled by a timeout.       *)
BootGoesOn == hwPc[0] = "begin" ~> hwPc[0] = "up" \/ releasedCnt = -256 \/ timedOut
=============================================================================
