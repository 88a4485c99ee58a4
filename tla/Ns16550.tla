------------------------------- MODULE Ns16550 -------------------------------
(***************************************************************************)
(* The NS16550 UART driver of lib/dev/ns16550.c between its clients and    *)
(* the hardware: the transmit queue's producer, who calls the driver back  *)
(* when there is data, a client that prints through chardev tx, the client *)
(* that attaches and detaches the queues, and the interrupt handler.       *)
(*                                                                         *)
(* The bytes of a stream are named by their place in it.  The transmit     *)
(* queue is kept at the level of its indexes, because the driver has more  *)
(* than one consumer for it; the receive queue has one producer, the       *)
(* handler, and is the FIFO that SpscQueue implements.  A CPU that holds   *)
(* priv->lock has its interrupts off, so the contexts below may be taken   *)
(* to run on CPUs of their own.                                            *)
(***************************************************************************)
EXTENDS Integers, Sequences

CONSTANTS
    Size,        \* the size of the transmit queue
    TxFifo,      \* priv->txfifo: the depth of the transmit FIFO
    RxFifo,      \* the depth of the receive FIFO
    RxCapacity,  \* the bytes the receive queue holds
    MaxSent,     \* bound: the bytes the producer writes
    MaxPrinted,  \* bound: the bytes printed through chardev tx
    MaxArrived,  \* bound: the bytes that arrive on the line
    DetachSync   \* the client detaches a queue only while no callback and no
                 \*   handler runs: the driver leaves that open ("FIXME: sync
                 \*   with IRQ handlers/callbacks")

ASSUME SizeAssumption == Size \in Nat \ {0}
ASSUME TxFifoAssumption == TxFifo \in Nat \ {0}
ASSUME BoundAssumption == {RxCapacity, MaxSent, MaxPrinted, MaxArrived} \subseteq Nat
ASSUME DetachAssumption == DetachSync \in BOOLEAN

VARIABLES
    buf, head, tail, sentN,     \* the transmit queue, and how much was written
    thr, threPending, wire,     \* the transmit FIFO, its interrupt, the line
    rbr, arrived,               \* the receive FIFO, and how much has arrived
    ETHREI, ERDAI,              \* the two bits of IER the driver sets
    lock,                       \* priv->lock: who holds it, or "free"
    cdtx, data_avail,           \* cd->tx is set; q->data_avail is set
    cdrx, rxq, delivered,       \* cd->rx is set; the receive queue; what its
                                \*   consumer read
    rx_counter, err_counter,
    pc,                         \* per context: where it is
    n, c,                       \* per context: i and c of __ns16550_tx_callback
    snap,                       \* queue_to_chardev: the head and tail it loaded
    printed,                    \* how many bytes were printed
    notify,                     \* ns16550_isr: rx_notify and tx_notify
    unexpected,                 \* history: the "should never happen" branch
    overlap                     \* history: two consumers were at the queue

txq == <<buf, head, tail, sentN>>
uart == <<thr, threPending, wire>>
rx == <<rbr, arrived, rxq, delivered, rx_counter, err_counter, unexpected>>
client == <<cdtx, data_avail, cdrx, printed>>
locals == <<n, c, snap, notify>>
vars == <<txq, uart, rx, ETHREI, ERDAI, lock, client, pc, locals, overlap>>

Context == {"producer", "isr", "printer", "admin"}
Slot == 0 .. Size - 1

\* The byte of a print, which is not part of the producer's stream.
PrintByte == 0

queue_wrap(i) == i % Size
queue_empty == head = tail

Init ==
    /\ buf = [s \in Slot |-> PrintByte] /\ head = 0 /\ tail = 0 /\ sentN = 0
    /\ thr = <<>> /\ threPending = FALSE /\ wire = <<>>
    /\ rbr = <<>> /\ arrived = 0
    /\ ETHREI = FALSE /\ ERDAI = FALSE
    /\ lock = "free"
    /\ cdtx = FALSE /\ data_avail = FALSE /\ cdrx = FALSE
    /\ rxq = <<>> /\ delivered = <<>> /\ rx_counter = 0 /\ err_counter = 0
    /\ pc = [x \in Context |-> "idle"]
    /\ n = [x \in Context |-> 0] /\ c = [x \in Context |-> PrintByte]
    /\ snap = <<0, 0>>
    /\ printed = 0 /\ notify = {}
    /\ unexpected = FALSE /\ overlap = FALSE

Goto(x, l) == pc' = [pc EXCEPT ![x] = l]

-----------------------------------------------------------------------------
(* The hardware                                                            *)

THRE == thr = <<>>   \* LSR: the transmit FIFO is empty
DR == rbr # <<>>     \* LSR: there is a received byte

IIR == IF ERDAI /\ DR THEN "RDAI"
       ELSE IF ETHREI /\ threPending THEN "THREI"
       ELSE "NOIRQ"

(* A byte leaves for the line; the last one raises the THRE interrupt.     *)
Transmit ==
    /\ ~THRE
    /\ wire' = Append(wire, Head(thr))
    /\ thr' = Tail(thr)
    /\ threPending' = (threPending \/ Len(thr) = 1)
    /\ UNCHANGED <<txq, rx, ETHREI, ERDAI, lock, client, pc, locals, overlap>>

(* A byte arrives, while the receive FIFO has room.                        *)
Arrive ==
    /\ arrived < MaxArrived /\ Len(rbr) < RxFifo
    /\ arrived' = arrived + 1
    /\ rbr' = Append(rbr, arrived + 1)
    /\ UNCHANGED <<txq, uart, rxq, delivered, rx_counter, err_counter,
                   unexpected, ETHREI, ERDAI, lock, client, pc, locals, overlap>>

(* A store to THR withdraws the interrupt; enabling the interrupt raises   *)
(* it when the FIFO is empty already.                                      *)
StoreTHR(bytes) ==
    /\ thr' = thr \o bytes
    /\ threPending' = FALSE
    /\ UNCHANGED wire

EnableETHREI ==
    /\ ETHREI' = TRUE
    /\ threPending' = (threPending \/ (~ETHREI /\ THRE))
    /\ UNCHANGED <<thr, wire>>

-----------------------------------------------------------------------------
(* __ns16550_tx_callback, run by x while it holds the lock                 *)

Lock(x, from, to) ==
    /\ pc[x] = from /\ lock = "free"
    /\ lock' = x
    /\ Goto(x, to)

Unlock(x, from, to) ==
    /\ pc[x] = from
    /\ lock' = "free"
    /\ Goto(x, to)

(* LSR says whether there is room for a FIFO full of bytes.                *)
CheckTHRE(x) ==
    /\ pc[x] = "thre"
    /\ n' = [n EXCEPT ![x] = 0]
    /\ Goto(x, IF THRE THEN "readchar" ELSE "enable")
    /\ UNCHANGED <<txq, uart, rx, ETHREI, ERDAI, lock, client, c, snap, notify,
                   overlap>>

(* queue_readchar loads a byte, until the queue or the FIFO is through.    *)
ReadChar(x) ==
    /\ pc[x] = "readchar"
    /\ \/ n[x] = TxFifo /\ Goto(x, "enable") /\ UNCHANGED c
       \/ n[x] < TxFifo /\ queue_empty /\ Goto(x, "disable") /\ UNCHANGED c
       \/ /\ n[x] < TxFifo /\ ~queue_empty
          /\ c' = [c EXCEPT ![x] = buf[head]]
          /\ Goto(x, "pop")
    /\ overlap' = (overlap \/ pc["producer"] \in {"chunk", "tx", "sethead"})
    /\ UNCHANGED <<txq, uart, rx, ETHREI, ERDAI, lock, client, n, snap, notify>>

(* It stores head, and the byte goes to THR.                               *)
PopChar(x) ==
    /\ pc[x] = "pop"
    /\ head' = queue_wrap(head + 1)
    /\ StoreTHR(<<c[x]>>)
    /\ n' = [n EXCEPT ![x] = @ + 1]
    /\ Goto(x, "readchar")
    /\ UNCHANGED <<buf, tail, sentN, rx, ETHREI, ERDAI, lock, client, c, snap,
                   notify, overlap>>

(* Mutant: the interrupt is left as it is when there may be more.          *)
SetIEROnlyOff(x) ==
    /\ \/ pc[x] = "enable" /\ UNCHANGED <<uart, ETHREI>>
       \/ pc[x] = "disable" /\ ETHREI' = FALSE /\ UNCHANGED uart
    /\ Goto(x, "unlock")
    /\ UNCHANGED <<txq, rx, ERDAI, lock, client, locals, overlap>>

(* The interrupt stays on while there may be more to send.                 *)
SetIER(x) ==
    /\ \/ pc[x] = "enable" /\ EnableETHREI
       \/ pc[x] = "disable" /\ ETHREI' = FALSE /\ UNCHANGED uart
    /\ Goto(x, "unlock")
    /\ UNCHANGED <<txq, rx, ERDAI, lock, client, locals, overlap>>

TxCallback(x) == CheckTHRE(x) \/ ReadChar(x) \/ PopChar(x) \/ SetIER(x)

-----------------------------------------------------------------------------
(* The producer of the transmit queue                                      *)

(* queue_writechar stores a byte, or finds the queue full.                 *)
Write ==
    /\ pc["producer"] = "idle" /\ sentN < MaxSent
    /\ tail # queue_wrap(head - 1)
    /\ buf' = [buf EXCEPT ![tail] = sentN + 1]
    /\ tail' = queue_wrap(tail + 1)
    /\ sentN' = sentN + 1
    /\ Goto("producer", "notify")
    /\ UNCHANGED <<head, uart, rx, ETHREI, ERDAI, lock, client, locals, overlap>>

(* queue_notify_consumer loads the callback; a blocking one is asked to    *)
(* send all that is there, and does so outside the lock.                   *)
NotifyConsumer ==
    /\ pc["producer"] = "notify"
    /\ \/ ~data_avail /\ Goto("producer", "idle")
       \/ data_avail /\ \E l \in {"lock", "drain"} : Goto("producer", l)
    /\ UNCHANGED <<txq, uart, rx, ETHREI, ERDAI, lock, client, locals, overlap>>

(* Mutant: the callback does without the lock.                             *)
CallbackNoLock ==
    /\ pc["producer"] = "lock" /\ Goto("producer", "thre")
    /\ UNCHANGED <<txq, uart, rx, ETHREI, ERDAI, lock, client, locals, overlap>>

(* ns16550_tx_callback, not blocking                                       *)
CallbackLock ==
    /\ Lock("producer", "lock", "thre")
    /\ UNCHANGED <<txq, uart, rx, ETHREI, ERDAI, client, locals, overlap>>

CallbackUnlock ==
    /\ Unlock("producer", "unlock", "idle")
    /\ UNCHANGED <<txq, uart, rx, ETHREI, ERDAI, client, locals, overlap>>

(* ns16550_tx_callback, blocking: queue_to_chardev loads both indexes.     *)
DrainStart ==
    /\ pc["producer"] = "drain"
    /\ snap' = <<head, tail>>
    /\ Goto("producer", IF queue_empty THEN "idle" ELSE "chunk")
    /\ overlap' = (overlap \/ (~queue_empty /\ pc["isr"] = "pop"))
    /\ UNCHANGED <<txq, uart, rx, ETHREI, ERDAI, lock, client, n, c, notify>>

(* The chunk runs to tail or to the end of the buffer; n counts it.        *)
ChunkEnd == IF snap[2] < snap[1] THEN Size ELSE snap[2]

DrainChunk ==
    /\ pc["producer"] = "chunk"
    /\ n' = [n EXCEPT !["producer"] = snap[1]]
    /\ Goto("producer", "tx")
    /\ UNCHANGED <<txq, uart, rx, ETHREI, ERDAI, lock, client, c, snap, notify,
                   overlap>>

(* ns16550_tx waits for THRE and stores up to a FIFO of bytes under the    *)
(* lock; the pointer it was given is read as it goes.                      *)
DrainTx ==
    /\ pc["producer"] = "tx"
    /\ LET from == n["producer"]
           to == IF from + TxFifo < ChunkEnd THEN from + TxFifo ELSE ChunkEnd
       IN  \/ /\ from < ChunkEnd /\ THRE /\ lock = "free"
              /\ StoreTHR([i \in 1 .. to - from |-> buf[from + i - 1]])
              /\ n' = [n EXCEPT !["producer"] = to]
              /\ UNCHANGED pc
           \/ /\ from = ChunkEnd
              /\ Goto("producer", "sethead")
              /\ UNCHANGED <<uart, n>>
    /\ UNCHANGED <<txq, rx, ETHREI, ERDAI, lock, client, c, snap, notify, overlap>>

(* head is stored from the one loaded before the bytes were sent.          *)
DrainSetHead ==
    /\ pc["producer"] = "sethead"
    /\ head' = queue_wrap(ChunkEnd)
    /\ snap' = <<queue_wrap(ChunkEnd), snap[2]>>
    /\ Goto("producer", IF ChunkEnd = Size /\ snap[2] > 0 THEN "chunk" ELSE "idle")
    /\ UNCHANGED <<buf, tail, sentN, uart, rx, ETHREI, ERDAI, lock, client, n, c,
                   notify, overlap>>

Producer ==
    \/ NotifyConsumer \/ CallbackLock \/ TxCallback("producer") \/ CallbackUnlock
    \/ DrainStart \/ DrainChunk \/ DrainTx \/ DrainSetHead

(* A client prints through ns16550_tx: one FIFO of bytes per turn of its   *)
(* loop, stored under the lock if LSR still says so.                       *)
PolledTx ==
    /\ printed < MaxPrinted
    /\ THRE /\ lock = "free"
    /\ \E k \in 1 .. TxFifo :
          /\ printed + k <= MaxPrinted
          /\ StoreTHR([i \in 1 .. k |-> PrintByte])
          /\ printed' = printed + k
    /\ UNCHANGED <<txq, rx, ETHREI, ERDAI, lock, cdtx, data_avail, cdrx, pc, locals,
                   overlap>>

-----------------------------------------------------------------------------
(* The interrupt handler                                                   *)

Interrupt ==
    /\ pc["isr"] = "idle" /\ IIR # "NOIRQ"
    /\ Goto("isr", "lock")
    /\ UNCHANGED <<txq, uart, rx, ETHREI, ERDAI, lock, client, locals, overlap>>

IsrLock ==
    /\ Lock("isr", "lock", "iir")
    /\ UNCHANGED <<txq, uart, rx, ETHREI, ERDAI, client, locals, overlap>>

(* Reading IIR withdraws the transmit interrupt it reports.                *)
IsrReadIIR ==
    /\ pc["isr"] = "iir"
    /\ notify' = IF IIR = "THREI" /\ cdtx THEN {"tx"} ELSE {}
    /\ threPending' = (threPending /\ IIR # "THREI")
    /\ Goto("isr", CASE IIR = "RDAI" -> "rbr"
                     [] IIR = "THREI" /\ cdtx -> "thre"
                     [] OTHER -> "unlock")
    /\ UNCHANGED <<txq, thr, wire, rx, ETHREI, ERDAI, lock, client, n, c, snap,
                   overlap>>

(* Mutant: a byte for which the queue has no room is not counted.          *)
IsrReadRBRUncounted ==
    /\ pc["isr"] = "rbr" /\ DR
    /\ rbr' = Tail(rbr)
    /\ rx_counter' = rx_counter + 1
    /\ IF cdrx /\ Len(rxq) < RxCapacity
         THEN rxq' = Append(rxq, Head(rbr)) /\ notify' = notify \union {"rx"}
         ELSE UNCHANGED <<rxq, notify>>
    /\ UNCHANGED <<txq, uart, arrived, delivered, err_counter, unexpected, ETHREI,
                   ERDAI, lock, client, pc, n, c, snap, overlap>>

(* Each received byte goes to the queue, or is counted as an error.        *)
IsrReadRBR ==
    /\ pc["isr"] = "rbr" /\ DR
    /\ rbr' = Tail(rbr)
    /\ rx_counter' = rx_counter + 1
    /\ IF cdrx /\ Len(rxq) < RxCapacity
         THEN /\ rxq' = Append(rxq, Head(rbr))
              /\ notify' = notify \union {"rx"}
              /\ UNCHANGED err_counter
         ELSE /\ err_counter' = err_counter + 1
              /\ UNCHANGED <<rxq, notify>>
    /\ unexpected' = (unexpected \/ ~cdrx)
    /\ UNCHANGED <<txq, uart, arrived, delivered, ETHREI, ERDAI, lock, client, pc,
                   n, c, snap, overlap>>

IsrRxDone ==
    /\ pc["isr"] = "rbr" /\ ~DR
    /\ Goto("isr", "unlock")
    /\ UNCHANGED <<txq, uart, rx, ETHREI, ERDAI, lock, client, locals, overlap>>

IsrUnlock ==
    /\ Unlock("isr", "unlock", IF notify = {} THEN "idle" ELSE "notify")
    /\ UNCHANGED <<txq, uart, rx, ETHREI, ERDAI, client, locals, overlap>>

(* Both sides' callbacks are called outside the lock; what they do to the  *)
(* queues is the producer's and the receiver's own next step.              *)
IsrNotify ==
    /\ pc["isr"] = "notify"
    /\ Goto("isr", IF "tx" \in notify /\ ~queue_empty THEN "relock" ELSE "idle")
    /\ notify' = {}
    /\ UNCHANGED <<txq, uart, rx, ETHREI, ERDAI, lock, client, n, c, snap, overlap>>

(* The handler turns the interrupt on again for what came in meanwhile.    *)
IsrReenable ==
    /\ pc["isr"] = "relock" /\ lock = "free"
    /\ EnableETHREI
    /\ Goto("isr", "idle")
    /\ UNCHANGED <<txq, rx, ERDAI, lock, client, locals, overlap>>

Isr ==
    \/ IsrLock \/ IsrReadIIR \/ IsrReadRBR \/ IsrRxDone \/ TxCallback("isr")
    \/ IsrUnlock \/ IsrNotify \/ IsrReenable

(* The consumer of the receive queue takes a byte.                         *)
Receive ==
    /\ rxq # <<>>
    /\ delivered' = Append(delivered, Head(rxq))
    /\ rxq' = Tail(rxq)
    /\ UNCHANGED <<txq, uart, rbr, arrived, rx_counter, err_counter, unexpected,
                   ETHREI, ERDAI, lock, client, pc, locals, overlap>>

-----------------------------------------------------------------------------
(* Attaching and detaching the queues                                      *)

(* ns16550_set_tx_queue: the callback is visible before the queue is       *)
(* looked at, so that a byte written meanwhile is seen by one of the two.  *)
SetTxQueue ==
    /\ ~cdtx
    /\ Lock("admin", "idle", "attach")
    /\ cdtx' = TRUE /\ data_avail' = TRUE
    /\ UNCHANGED <<txq, uart, rx, ETHREI, ERDAI, cdrx, printed, locals, overlap>>

(* Mutant: what is in the queue already is not looked at.                  *)
SetTxQueueNoCheck ==
    /\ Unlock("admin", "attach", "idle")
    /\ UNCHANGED <<txq, uart, rx, ETHREI, ERDAI, client, locals, overlap>>

SetTxQueueCheck ==
    /\ Unlock("admin", "attach", "idle")
    /\ IF queue_empty THEN UNCHANGED <<uart, ETHREI>> ELSE EnableETHREI
    /\ UNCHANGED <<txq, rx, ERDAI, client, locals, overlap>>

NobodyInside == pc["isr"] = "idle" /\ pc["producer"] \in {"idle", "notify"}

(* Mutant: the callback stays when the queue goes.                         *)
ClearTxQueueKeepsCallback ==
    /\ cdtx /\ pc["admin"] = "idle" /\ lock = "free"
    /\ DetachSync => NobodyInside
    /\ cdtx' = FALSE /\ ETHREI' = FALSE
    /\ UNCHANGED <<txq, uart, rx, ERDAI, lock, data_avail, cdrx, printed, pc, locals,
                   overlap>>

ClearTxQueue ==
    /\ cdtx /\ pc["admin"] = "idle" /\ lock = "free"
    /\ DetachSync => NobodyInside
    /\ cdtx' = FALSE /\ data_avail' = FALSE
    /\ ETHREI' = FALSE
    /\ UNCHANGED <<txq, uart, rx, ERDAI, lock, cdrx, printed, pc, locals, overlap>>

SetRxQueue ==
    /\ ~cdrx /\ pc["admin"] = "idle" /\ lock = "free"
    /\ cdrx' = TRUE /\ ERDAI' = TRUE
    /\ UNCHANGED <<txq, uart, rx, ETHREI, lock, cdtx, data_avail, printed, pc, locals,
                   overlap>>

ClearRxQueue ==
    /\ cdrx /\ pc["admin"] = "idle" /\ lock = "free"
    /\ DetachSync => pc["isr"] # "notify"
    /\ cdrx' = FALSE /\ ERDAI' = FALSE
    /\ UNCHANGED <<txq, uart, rx, ETHREI, lock, cdtx, data_avail, printed, pc, locals,
                   overlap>>

-----------------------------------------------------------------------------

Next ==
    \/ Transmit \/ Arrive
    \/ Write \/ Producer \/ PolledTx
    \/ Interrupt \/ Isr \/ Receive
    \/ SetTxQueue \/ SetTxQueueCheck \/ ClearTxQueue \/ SetRxQueue \/ ClearRxQueue

(* The hardware sends and interrupts, and code that runs goes on running;  *)
(* a lock that is free again and again is taken in the end.                *)
Fairness ==
    /\ WF_vars(Transmit) /\ WF_vars(Interrupt) /\ WF_vars(Receive)
    /\ SF_vars(Producer) /\ SF_vars(Isr) /\ WF_vars(SetTxQueueCheck)

Spec == Init /\ [][Next]_vars /\ Fairness

-----------------------------------------------------------------------------

TypeOK ==
    /\ buf \in [Slot -> 0..MaxSent] /\ head \in Slot /\ tail \in Slot
    /\ sentN \in 0..MaxSent /\ printed \in 0..MaxPrinted
    /\ thr \in Seq(0..MaxSent) /\ wire \in Seq(0..MaxSent)
    /\ rbr \in Seq(1..MaxArrived) /\ rxq \in Seq(1..MaxArrived)
    /\ delivered \in Seq(1..MaxArrived) /\ Len(rxq) <= RxCapacity
    /\ lock \in Context \union {"free"}
    /\ {threPending, ETHREI, ERDAI, cdtx, data_avail, cdrx, unexpected, overlap}
          \subseteq BOOLEAN
    /\ notify \subseteq {"rx", "tx"}

(* The transmit FIFO is never given more bytes than it has room for: every *)
(* path fills it only when LSR, read under the lock, says it is empty      *)
(* (ns16550.c:65-86, 269-301).                                             *)
NoFifoOverrun == Len(thr) <= TxFifo

(* A byte in an attached queue is never left behind: when no callback and  *)
(* no handler is on its way, the interrupt is on and will come (ns16550.c: *)
(* 65-86, 186-195, 216-224).                                               *)
NotStranded ==
    cdtx /\ ~queue_empty /\ lock = "free"
         /\ pc["producer"] = "idle" /\ pc["isr"] = "idle"
      => ETHREI /\ (threPending \/ ~THRE)

(* Every byte read from the UART is queued once, in order, or counted as   *)
(* an error (ns16550.c:155-172).                                           *)
RxAccounted ==
    /\ Len(delivered) + Len(rxq) + err_counter = rx_counter
    /\ \A i, j \in 1 .. Len(delivered \o rxq) :
          i < j => (delivered \o rxq)[i] < (delivered \o rxq)[j]

(* "Should never happen...": a received byte without a receive queue       *)
(* (ns16550.c:167-170).                                                    *)
ShouldNeverHappen == ~unexpected

(* The producer's bytes go out once, in order, without a gap: a queue of   *)
(* libos is "single-producer, single-consumer" (queue.h:1-2, 36).          *)
WireInOrder ==
    LET sent == wire \o thr
    IN  /\ \A i, j \in DOMAIN sent : i < j /\ sent[j] # PrintByte => sent[i] < sent[j]
        /\ \A i \in DOMAIN sent : \A b \in 1 .. sent[i] : \E j \in 1 .. i : sent[j] = b

(* The same, as long as no two contexts have consumed the queue at once.   *)
WireInOrderAlone == ~overlap => WireInOrder

(* A queue that is notified, or whose callback runs, is still attached:    *)
(* assert(q == priv->cd.tx) (ns16550.c:91, 183-187).                       *)
NotifiesAQueue ==
    /\ pc["isr"] = "notify" /\ "rx" \in notify => cdrx
    /\ pc["isr"] = "notify" /\ "tx" \in notify => cdtx
    /\ pc["producer"] \in {"lock", "drain"} => cdtx

(* With the queues attached for good, all that was written goes out and    *)
(* all that arrived is read.                                               *)
Quiesces ==
    /\ <>[]cdtx => <>[](queue_empty /\ THRE)
    /\ <>[]cdrx => <>[](~DR /\ rxq = <<>>)

(* The interrupt handler and the callbacks act for queues that are attached *)
(* (ns16550.c:91, 167-170, 183-187).                                        *)
AttachedAsUsed == TypeOK /\ ShouldNeverHappen /\ NotifiesAQueue

(* Neither FIFO loses a byte unseen: the transmitter's is never overfilled, *)
(* what the receiver's queue cannot take is counted (ns16550.c:65-86, 162). *)
FifosAccounted == NoFifoOverrun /\ RxAccounted
=============================================================================
