---------------------------- MODULE Ns16550Proofs ----------------------------
(***************************************************************************)
(* Proofs about the UART driver, for any size of its queue and depth of    *)
(* its FIFOs, and any number of bytes.                                     *)
(***************************************************************************)
EXTENDS Ns16550, SequenceTheorems, TLAPS

(* Where each context may be, and where it holds priv->lock.                *)
TxPlaces == {"thre", "readchar", "pop", "enable", "disable"}
IsrPlaces == {"idle", "lock", "iir", "rbr", "unlock", "notify", "relock"} \cup TxPlaces
Draining == {"chunk", "tx", "sethead"}
ProducerPlaces == {"idle", "notify", "lock", "unlock", "drain"} \cup TxPlaces \cup Draining
Inside == {"iir", "rbr", "unlock", "attach"} \cup TxPlaces

Places ==
    /\ pc \in [Context -> IsrPlaces \cup ProducerPlaces \cup {"attach"}]
    /\ pc["isr"] \in IsrPlaces /\ pc["producer"] \in ProducerPlaces
    /\ pc["admin"] \in {"idle", "attach"} /\ pc["printer"] = "idle"

Types ==
    /\ TypeOK /\ Places
    /\ n \in [Context -> Nat] /\ c \in [Context -> 0 .. MaxSent]
    /\ snap \in Slot \X Slot
    /\ arrived \in 0 .. MaxArrived /\ rx_counter \in Nat /\ err_counter \in Nat

Locked == \A x \in Context : pc[x] \in Inside => lock = x

(* The transmit FIFO: who fills it byte by byte has counted what is in it. *)
FillsCounted ==
    /\ Len(thr) <= TxFifo
    /\ \A x \in Context : pc[x] \in {"readchar", "pop"} =>
          /\ n[x] <= TxFifo /\ Len(thr) <= n[x]
          /\ pc[x] = "pop" => n[x] < TxFifo

(* The received bytes: those read, then those in the UART, in order.       *)
Rising(s) == \A i, j \in 1 .. Len(s) : i < j => s[i] < s[j]
Below(s, t) == \A i \in 1 .. Len(s), j \in 1 .. Len(t) : s[i] < t[j]

ReceivedInOrder ==
    /\ Len(delivered) + Len(rxq) + err_counter = rx_counter
    /\ Rising(delivered \o rxq) /\ Rising(rbr) /\ Below(delivered \o rxq, rbr)
    /\ \A i \in 1 .. Len(delivered \o rxq) : (delivered \o rxq)[i] <= arrived
    /\ \A i \in 1 .. Len(rbr) : rbr[i] <= arrived

(* The receive interrupt is on only while the receive queue is attached.   *)
RxAttached == (ERDAI => cdrx) /\ (pc["isr"] = "rbr" => cdrx) /\ ~unexpected

(* With detaching in step, who acts for a queue acts for an attached one.  *)
TxAttached ==
    /\ "rx" \in notify => cdrx /\ pc["isr"] \in {"rbr", "unlock", "notify"}
    /\ "tx" \in notify => cdtx /\ pc["isr"] \in TxPlaces \cup {"unlock", "notify"}
    /\ pc["isr"] \in TxPlaces => "tx" \in notify
    /\ data_avail <=> cdtx
    /\ pc["producer"] \notin {"idle", "notify"} => cdtx
    /\ pc["isr"] = "relock" \/ pc["admin"] = "attach" \/ ETHREI => cdtx
    /\ pc["admin"] = "attach" => ~ETHREI

(* An enabled transmit interrupt is pending or will be, unless the handler *)
(* is about to fill the FIFO or to turn it off.                            *)
Coming == threPending \/ ~THRE
InterruptComing ==
    /\ \A x \in Context : /\ pc[x] = "enable" => Coming
                          /\ pc[x] \in {"readchar", "pop"} /\ n[x] > 0 => Coming
    /\ ETHREI => Coming \/ pc["isr"] \in {"thre", "readchar", "pop", "disable"}

(* Of a queue that is not empty, someone is on the way to know.            *)
SnapOfTail == pc["producer"] \in Draining => snap[2] = tail
Watched ==
    /\ pc["producer"] = "disable" => queue_empty
    /\ pc["producer"] = "unlock" => queue_empty \/ ETHREI
    /\ cdtx /\ ~queue_empty =>
          \/ ETHREI \/ pc["admin"] = "attach"
          \/ pc["producer"] \notin {"idle", "disable", "unlock"}
          \/ pc["isr"] \in TxPlaces \cup {"relock"}
          \/ pc["isr"] \in {"unlock", "notify"} /\ "tx" \in notify

-----------------------------------------------------------------------------
(* The transmit queue: a slot holds the byte written so many slots before  *)
(* tail; Left(p) bytes are in it from slot p on.                           *)
Dist(s) == IF s < tail THEN tail - s ELSE tail - s + Size
Left(p) == IF p <= tail THEN tail - p ELSE tail - p + Size
Kept == \A s \in Slot : Dist(s) <= sentN => buf[s] = sentN + 1 - Dist(s)

(* The slot of the producer's next byte to go to the UART.                 *)
Position == IF pc["producer"] \in {"tx", "sethead"} THEN n["producer"] ELSE head

(* A sequence of the bytes 1 to d in order, between bytes that are printed. *)
InOrderTo(s, d) ==
    /\ \A i \in 1 .. Len(s) : s[i] \in 0 .. d
    /\ \A b \in 1 .. d : \E i \in 1 .. Len(s) : s[i] = b
    /\ \A i, j \in 1 .. Len(s) : i < j /\ s[j] # 0 => s[i] < s[j]

OneConsumer ==
    /\ pc["producer"] \in Draining => pc["isr"] # "pop" /\ snap[1] = head
    /\ pc["producer"] \in {"tx", "sethead"} => n["producer"] \in head .. ChunkEnd
    /\ pc["producer"] = "sethead" => n["producer"] = ChunkEnd
    /\ \A x \in Context : pc[x] = "pop" => ~queue_empty /\ c[x] = buf[head]
    /\ Left(head) <= sentN
    /\ InOrderTo(wire \o thr, sentN - Left(Position))

-----------------------------------------------------------------------------

UartInv ==
    /\ Types /\ Locked /\ FillsCounted /\ ReceivedInOrder /\ RxAttached
    /\ SnapOfTail /\ Kept
    /\ ~overlap => OneConsumer
    /\ DetachSync => TxAttached /\ InterruptComing /\ Watched

-----------------------------------------------------------------------------
(* The steps                                                               *)

LEMMA Steps ==
    ASSUME [Next]_vars
    PROVE  \/ Transmit \/ Arrive \/ Write \/ NotifyConsumer \/ CallbackLock \/ CallbackUnlock
           \/ DrainStart \/ DrainChunk \/ DrainTx \/ DrainSetHead \/ PolledTx
           \/ Interrupt \/ IsrLock \/ IsrReadIIR \/ IsrReadRBR \/ IsrRxDone \/ IsrUnlock
           \/ IsrNotify \/ IsrReenable \/ Receive
           \/ SetTxQueue \/ SetTxQueueCheck \/ ClearTxQueue \/ SetRxQueue \/ ClearRxQueue
           \/ \E x \in {"producer", "isr"} :
                 CheckTHRE(x) \/ ReadChar(x) \/ PopChar(x) \/ SetIER(x)
           \/ UNCHANGED vars
  BY DEF Next, Producer, Isr, TxCallback

LEMMA PlacesHold == UartInv /\ [Next]_vars => Places'
<1> SUFFICES ASSUME UartInv, [Next]_vars PROVE Places'
  OBVIOUS
<1> USE DEF UartInv, Types, txq, uart, rx, client, locals, Places, Goto, NobodyInside, TxPlaces,
           IsrPlaces, Draining, ProducerPlaces, Context
<1>1. CASE Transmit
  BY <1>1 DEF Transmit
<1>2. CASE Arrive
  BY <1>2 DEF Arrive
<1>3. CASE Write
  BY <1>3 DEF Write
<1>4. CASE NotifyConsumer
  BY <1>4 DEF NotifyConsumer
<1>5. CASE CallbackLock
  BY <1>5 DEF CallbackLock, Lock
<1>6. CASE CallbackUnlock
  BY <1>6 DEF CallbackUnlock, Unlock
<1>7. CASE DrainStart
  BY <1>7 DEF DrainStart
<1>8. CASE DrainChunk
  BY <1>8 DEF DrainChunk
<1>9. CASE DrainTx
  BY <1>9 DEF DrainTx, StoreTHR
<1>10. CASE DrainSetHead
  BY <1>10 DEF DrainSetHead
<1>11. CASE PolledTx
  BY <1>11 DEF PolledTx, StoreTHR
<1>12. CASE Interrupt
  BY <1>12 DEF Interrupt
<1>13. CASE IsrLock
  BY <1>13 DEF IsrLock, Lock
<1>14. CASE IsrReadIIR
  BY <1>14 DEF IsrReadIIR
<1>15. CASE IsrReadRBR
  BY <1>15 DEF IsrReadRBR
<1>16. CASE IsrRxDone
  BY <1>16 DEF IsrRxDone
<1>17. CASE IsrUnlock
  BY <1>17 DEF IsrUnlock, Unlock
<1>18. CASE IsrNotify
  BY <1>18 DEF IsrNotify
<1>19. CASE IsrReenable
  BY <1>19 DEF IsrReenable, EnableETHREI
<1>20. CASE Receive
  BY <1>20 DEF Receive
<1>21. CASE SetTxQueue
  BY <1>21 DEF SetTxQueue, Lock
<1>22. CASE SetTxQueueCheck
  BY <1>22 DEF SetTxQueueCheck, Unlock, EnableETHREI
<1>23. CASE ClearTxQueue
  BY <1>23 DEF ClearTxQueue
<1>24. CASE SetRxQueue
  BY <1>24 DEF SetRxQueue
<1>25. CASE ClearRxQueue
  BY <1>25 DEF ClearRxQueue
<1>26. ASSUME NEW x \in {"producer", "isr"}, CheckTHRE(x) PROVE Places'
  BY <1>26 DEF CheckTHRE
<1>27. ASSUME NEW x \in {"producer", "isr"}, ReadChar(x) PROVE Places'
  BY <1>27 DEF ReadChar
<1>28. ASSUME NEW x \in {"producer", "isr"}, PopChar(x) PROVE Places'
  BY <1>28 DEF PopChar, StoreTHR
<1>29. ASSUME NEW x \in {"producer", "isr"}, SetIER(x) PROVE Places'
  BY <1>29 DEF SetIER, EnableETHREI
<1>30. CASE UNCHANGED vars
  BY <1>30 DEF vars
<1> QED BY <1>1, <1>2, <1>3, <1>4, <1>5, <1>6, <1>7, <1>8, <1>9, <1>10, <1>11, <1>12, <1>13,
          <1>14, <1>15, <1>16, <1>17, <1>18, <1>19, <1>20, <1>21, <1>22, <1>23, <1>24, <1>25,
          <1>26, <1>27, <1>28, <1>29, <1>30, Steps

LEMMA LockedHolds == UartInv /\ [Next]_vars => Locked'
<1> SUFFICES ASSUME UartInv, [Next]_vars PROVE Locked'
  OBVIOUS
<1> USE DEF UartInv, Types, txq, uart, rx, client, locals, Places, Locked, Inside, Goto,
           TxPlaces, IsrPlaces, Draining, ProducerPlaces, Context
<1>1. CASE Transmit
  BY <1>1 DEF Transmit
<1>2. CASE Arrive
  BY <1>2 DEF Arrive
<1>3. CASE Write
  BY <1>3 DEF Write
<1>4. CASE NotifyConsumer
  BY <1>4 DEF NotifyConsumer
<1>5. CASE CallbackLock
  BY <1>5 DEF CallbackLock, Lock
<1>6. CASE CallbackUnlock
  BY <1>6 DEF CallbackUnlock, Unlock
<1>7. CASE DrainStart
  BY <1>7 DEF DrainStart
<1>8. CASE DrainChunk
  BY <1>8 DEF DrainChunk
<1>9. CASE DrainTx
  BY <1>9 DEF DrainTx, StoreTHR
<1>10. CASE DrainSetHead
  BY <1>10 DEF DrainSetHead
<1>11. CASE PolledTx
  BY <1>11 DEF PolledTx, StoreTHR
<1>12. CASE Interrupt
  BY <1>12 DEF Interrupt
<1>13. CASE IsrLock
  BY <1>13 DEF IsrLock, Lock
<1>14. CASE IsrReadIIR
  BY <1>14 DEF IsrReadIIR
<1>15. CASE IsrReadRBR
  BY <1>15 DEF IsrReadRBR
<1>16. CASE IsrRxDone
  BY <1>16 DEF IsrRxDone
<1>17. CASE IsrUnlock
  BY <1>17 DEF IsrUnlock, Unlock
<1>18. CASE IsrNotify
  BY <1>18 DEF IsrNotify
<1>19. CASE IsrReenable
  BY <1>19 DEF IsrReenable, EnableETHREI
<1>20. CASE Receive
  BY <1>20 DEF Receive
<1>21. CASE SetTxQueue
  BY <1>21 DEF SetTxQueue, Lock
<1>22. CASE SetTxQueueCheck
  BY <1>22 DEF SetTxQueueCheck, Unlock, EnableETHREI
<1>23. CASE ClearTxQueue
  BY <1>23 DEF ClearTxQueue
<1>24. CASE SetRxQueue
  BY <1>24 DEF SetRxQueue
<1>25. CASE ClearRxQueue
  BY <1>25 DEF ClearRxQueue
<1>26. ASSUME NEW x \in {"producer", "isr"}, CheckTHRE(x) PROVE Locked'
  BY <1>26 DEF CheckTHRE
<1>27. ASSUME NEW x \in {"producer", "isr"}, ReadChar(x) PROVE Locked'
  BY <1>27 DEF ReadChar
<1>28. ASSUME NEW x \in {"producer", "isr"}, PopChar(x) PROVE Locked'
  BY <1>28 DEF PopChar, StoreTHR
<1>29. ASSUME NEW x \in {"producer", "isr"}, SetIER(x) PROVE Locked'
  BY <1>29 DEF SetIER, EnableETHREI
<1>30. CASE UNCHANGED vars
  BY <1>30 DEF vars
<1> QED BY <1>1, <1>2, <1>3, <1>4, <1>5, <1>6, <1>7, <1>8, <1>9, <1>10, <1>11, <1>12, <1>13,
          <1>14, <1>15, <1>16, <1>17, <1>18, <1>19, <1>20, <1>21, <1>22, <1>23, <1>24, <1>25,
          <1>26, <1>27, <1>28, <1>29, <1>30, Steps


LEMMA Stores ==
    ASSUME NEW S, NEW s \in Seq(S), NEW t \in Seq(S)
    PROVE  /\ s \o t \in Seq(S) /\ Len(s \o t) = Len(s) + Len(t)
           /\ s \o t = <<>> <=> s = <<>> /\ t = <<>>
           /\ Len(s) \in Nat /\ (s = <<>> <=> Len(s) = 0)
           /\ s # <<>> => Tail(s) \in Seq(S) /\ Len(Tail(s)) = Len(s) - 1
<1>1. s \o t \in Seq(S) /\ Len(s \o t) = Len(s) + Len(t)
  BY ConcatProperties
<1>2. s \o t = <<>> <=> s = <<>> /\ t = <<>>
  BY ConcatEqualIffEmpty
<1>3. Len(s) \in Nat /\ (s = <<>> <=> Len(s) = 0)
  BY EmptySeq
<1>4. s # <<>> => Tail(s) \in Seq(S) /\ Len(Tail(s)) = Len(s) - 1
  BY HeadTailProperties
<1> QED BY <1>1, <1>2, <1>3, <1>4

LEMMA Associative ==
    ASSUME NEW S, NEW s \in Seq(S), NEW t \in Seq(S), NEW u \in Seq(S)
    PROVE  s \o (t \o u) = (s \o t) \o u
  BY ConcatAssociative

LEMMA FunctionSeq ==
    ASSUME NEW S, NEW k \in Nat, NEW f \in [1 .. k -> S]
    PROVE  f \in Seq(S) /\ Len(f) = k
<1>1. f \in Seq(S)
  BY SeqDef
<1> QED BY <1>1, LenProperties

(* What is known of the FIFO and the contexts in every state.              *)
LEMMA Known ==
    ASSUME UartInv
    PROVE  /\ n \in [Context -> Nat] /\ pc \in [Context -> IsrPlaces \cup ProducerPlaces \cup {"attach"}]
           /\ thr \in Seq(0 .. MaxSent) /\ Len(thr) \in Nat /\ (thr = <<>> <=> Len(thr) = 0)
           /\ FillsCounted /\ (DetachSync => InterruptComing /\ TxAttached /\ Watched)
           /\ TxFifo \in Nat \ {0} /\ Locked
<1>1. /\ n \in [Context -> Nat] /\ pc \in [Context -> IsrPlaces \cup ProducerPlaces \cup {"attach"}]
      /\ FillsCounted /\ (DetachSync => InterruptComing /\ TxAttached /\ Watched)
      /\ TxFifo \in Nat \ {0} /\ Locked
  BY TxFifoAssumption DEF UartInv, Types, Places
<1>2. thr \in Seq(0 .. MaxSent)
  BY DEF UartInv, Types, TypeOK
<1> QED BY <1>1, <1>2, Stores

LEMMA Wraps ==
    /\ 0 \in Slot /\ queue_wrap(Size) = 0
    /\ \A i \in Slot : queue_wrap(i) = i
    /\ \A i \in Slot : queue_wrap(i + 1) = IF i = Size - 1 THEN 0 ELSE i + 1
    /\ \A i \in Slot : queue_wrap(i - 1) = IF i = 0 THEN Size - 1 ELSE i - 1
<1>1. 0 \in Slot /\ queue_wrap(Size) = 0
  BY SizeAssumption DEF queue_wrap, Slot
<1>2. \A i \in Slot : queue_wrap(i) = i
  BY SizeAssumption DEF queue_wrap, Slot
<1>3. \A i \in Slot : queue_wrap(i + 1) = IF i = Size - 1 THEN 0 ELSE i + 1
  BY SizeAssumption DEF queue_wrap, Slot
<1>4. \A i \in Slot : queue_wrap(i - 1) = IF i = 0 THEN Size - 1 ELSE i - 1
  <2> TAKE i \in Slot
  <2>1. CASE i = 0
    BY <2>1, SizeAssumption DEF queue_wrap, Slot
  <2>2. CASE i # 0
    BY <2>2, SizeAssumption DEF queue_wrap, Slot
  <2> QED BY <2>1, <2>2
<1> QED BY <1>1, <1>2, <1>3, <1>4

LEMMA WrapInSlot == \A i \in Int : queue_wrap(i) \in Slot
  BY SizeAssumption DEF queue_wrap, Slot

(* The FIFO after each of the steps that change it.                        *)
LEMMA Transmitted ==
    ASSUME UartInv, Transmit
    PROVE  thr \in Seq(0 .. MaxSent) /\ thr # <<>> /\ thr' = Tail(thr) /\ Len(thr') = Len(thr) - 1
<1>1. thr \in Seq(0 .. MaxSent) /\ thr # <<>> /\ thr' = Tail(thr)
  BY DEF UartInv, Types, TypeOK, Transmit, THRE
<1> QED BY <1>1, Stores

LEMMA Popped ==
    ASSUME UartInv, NEW x \in Context, PopChar(x)
    PROVE  /\ thr \in Seq(0 .. MaxSent) /\ <<c[x]>> \in Seq(0 .. MaxSent)
           /\ thr' = thr \o <<c[x]>> /\ Len(thr') = Len(thr) + 1 /\ thr' # <<>>
<1>1. thr \in Seq(0 .. MaxSent) /\ c[x] \in 0 .. MaxSent /\ thr' = thr \o <<c[x]>>
  BY DEF UartInv, Types, TypeOK, PopChar, StoreTHR
<1>2. <<c[x]>> \in Seq(0 .. MaxSent) /\ Len(<<c[x]>>) = 1 /\ <<c[x]>> # <<>>
  BY <1>1
<1> QED BY <1>1, <1>2, Stores

LEMMA FilledEmpty ==
    ASSUME UartInv, THRE, NEW k \in Nat \ {0}, NEW f \in [1 .. k -> 0 .. MaxSent], StoreTHR(f)
    PROVE  f \in Seq(0 .. MaxSent) /\ thr' = f /\ Len(thr') = k /\ thr' # <<>> /\ threPending' = FALSE
<1>1. f \in Seq(0 .. MaxSent) /\ Len(f) = k
  BY FunctionSeq
<1>2. thr = <<>> /\ thr' = thr \o f /\ threPending' = FALSE
  BY DEF StoreTHR, THRE
<1>3. thr' = f
  BY <1>1, <1>2, ConcatEmptySeq
<1> QED BY <1>1, <1>2, <1>3, EmptySeq

LEMMA Printed ==
    ASSUME UartInv, PolledTx
    PROVE  \E k \in 1 .. TxFifo :
             /\ thr = <<>> /\ thr' = [i \in 1 .. k |-> 0] /\ printed' = printed + k /\ printed' <= MaxPrinted
             /\ thr' \in Seq(0 .. MaxSent) /\ Len(thr') = k /\ thr' # <<>> /\ threPending' = FALSE
<1>1. THRE /\ 0 \in 0 .. MaxSent /\ TxFifo \in Nat
  BY BoundAssumption, TxFifoAssumption DEF PolledTx
<1>2. PICK k \in 1 .. TxFifo :
          printed + k <= MaxPrinted /\ StoreTHR([i \in 1 .. k |-> PrintByte]) /\ printed' = printed + k
  BY DEF PolledTx
<1> DEFINE f == [i \in 1 .. k |-> 0]
<1>3. k \in Nat \ {0} /\ f \in [1 .. k -> 0 .. MaxSent] /\ StoreTHR(f)
  BY <1>1, <1>2 DEF PrintByte
<1> HIDE DEF f
<1>4. f \in Seq(0 .. MaxSent) /\ thr' = f /\ Len(thr') = k /\ thr' # <<>> /\ threPending' = FALSE
  BY <1>1, <1>3, FilledEmpty
<1> QED BY <1>1, <1>2, <1>4 DEF f, THRE

(* A turn of the loop of a blocking callback: it stores bytes, or is done. *)
LEMMA Drained ==
    ASSUME UartInv, DrainTx
    PROVE  /\ n["producer"] \in Nat /\ ChunkEnd \in 0 .. Size
           /\ \/ /\ n["producer"] = ChunkEnd /\ pc' = [pc EXCEPT !["producer"] = "sethead"]
                 /\ UNCHANGED <<uart, n>>
              \/ \E k \in 1 .. TxFifo :
                   /\ n["producer"] + k <= ChunkEnd
                   /\ thr = <<>> /\ thr' = [i \in 1 .. k |-> buf[n["producer"] + i - 1]]
                   /\ n' = [n EXCEPT !["producer"] = n["producer"] + k]
                   /\ thr' \in Seq(0 .. MaxSent) /\ Len(thr') = k /\ thr' # <<>> /\ threPending' = FALSE
                   /\ UNCHANGED <<pc, wire>>
<1> DEFINE from == n["producer"]
<1>1. from \in Nat /\ ChunkEnd \in 0 .. Size /\ Size \in Nat /\ TxFifo \in Nat \ {0}
  BY SizeAssumption, TxFifoAssumption DEF UartInv, Types, Context, ChunkEnd, Slot
<1>2. CASE from = ChunkEnd
  BY <1>1, <1>2 DEF DrainTx, Goto
<1>3. CASE from < ChunkEnd
  <2> DEFINE k == IF from + TxFifo < ChunkEnd THEN TxFifo ELSE ChunkEnd - from
             f == [i \in 1 .. k |-> buf[from + i - 1]]
  <2>1. k \in 1 .. TxFifo /\ from + k <= ChunkEnd
    BY <1>1, <1>3
  <2>2. THRE /\ StoreTHR(f) /\ n' = [n EXCEPT !["producer"] = from + k] /\ UNCHANGED <<pc, wire>>
    <3>1. (IF from + TxFifo < ChunkEnd THEN from + TxFifo ELSE ChunkEnd) = from + k
      BY <1>1, <1>3
    <3>2. from + k - from = k
      BY <1>1, <2>1
    <3> DEFINE to == IF from + TxFifo < ChunkEnd THEN from + TxFifo ELSE ChunkEnd
    <3>4. /\ THRE /\ StoreTHR([i \in 1 .. to - from |-> buf[from + i - 1]])
          /\ n' = [n EXCEPT !["producer"] = to] /\ UNCHANGED pc
      BY <1>1, <1>3 DEF DrainTx
    <3>5. to = from + k
      BY <3>1
    <3> HIDE DEF k, to
    <3>6. to - from = k
      BY <1>1, <2>1, <3>5
    <3> QED BY <3>4, <3>5, <3>6 DEF StoreTHR
  <2> HIDE DEF k
  <2>3. f \in [1 .. k -> 0 .. MaxSent]
    <3> SUFFICES ASSUME NEW i \in 1 .. k PROVE buf[from + i - 1] \in 0 .. MaxSent
      OBVIOUS
    <3>1. from + i - 1 \in Slot
      BY <1>1, <2>1 DEF Slot
    <3> QED BY <3>1 DEF UartInv, Types, TypeOK
  <2> HIDE DEF f
  <2>4. f \in Seq(0 .. MaxSent) /\ thr' = f /\ Len(thr') = k /\ thr' # <<>> /\ threPending' = FALSE
    <3>1. k \in Nat \ {0} /\ THRE /\ StoreTHR(f)
      BY <1>1, <2>1, <2>2
    <3> QED BY <3>1, <2>3, FilledEmpty
  <2> QED BY <1>1, <2>1, <2>2, <2>4 DEF f, THRE
<1> QED BY <1>1, <1>2, <1>3 DEF DrainTx


(* Sequences of received bytes.                                            *)
LEMMA RisingAppend ==
    ASSUME NEW s \in Seq(Int), NEW e \in Int, Rising(s), \A i \in 1 .. Len(s) : s[i] < e
    PROVE  /\ Append(s, e) \in Seq(Int) /\ Rising(Append(s, e)) /\ Len(Append(s, e)) = Len(s) + 1
           /\ \A i \in 1 .. Len(Append(s, e)) : Append(s, e)[i] = e \/ (i \in 1 .. Len(s) /\ Append(s, e)[i] = s[i])
<1> DEFINE t == Append(s, e)
<1>1. /\ t \in Seq(Int) /\ Len(t) = Len(s) + 1 /\ Len(s) \in Nat
      /\ \A i \in 1 .. Len(s) : t[i] = s[i]
      /\ t[Len(s) + 1] = e
  BY AppendProperties, LenProperties
<1> HIDE DEF t
<1>2. \A i \in 1 .. Len(t) : i \in 1 .. Len(s) \/ i = Len(s) + 1
  BY <1>1
<1>3. \A i \in 1 .. Len(s) : s[i] \in Int
  BY ElementOfSeq
<1>4. Rising(t)
  <2> SUFFICES ASSUME NEW i \in 1 .. Len(t), NEW j \in 1 .. Len(t), i < j PROVE t[i] < t[j]
    BY DEF Rising
  <2>1. i \in 1 .. Len(s)
    BY <1>1
  <2>2. CASE j = Len(s) + 1
    BY <1>1, <2>1, <2>2
  <2>3. CASE j \in 1 .. Len(s)
    BY <1>1, <2>1, <2>3 DEF Rising
  <2> QED BY <1>2, <2>2, <2>3
<1>5. \A i \in 1 .. Len(t) : t[i] = e \/ (i \in 1 .. Len(s) /\ t[i] = s[i])
  BY <1>1, <1>2
<1> QED BY <1>1, <1>4, <1>5 DEF t

LEMMA RisingTail ==
    ASSUME NEW s \in Seq(Int), s # <<>>, Rising(s)
    PROVE  /\ Tail(s) \in Seq(Int) /\ Rising(Tail(s)) /\ 1 \in 1 .. Len(s) /\ Head(s) = s[1]
           /\ \A i \in 1 .. Len(Tail(s)) : /\ i + 1 \in 1 .. Len(s) /\ Tail(s)[i] = s[i + 1]
                                           /\ Head(s) < Tail(s)[i]
<1> DEFINE t == Tail(s)
<1>1. /\ t \in Seq(Int) /\ Len(t) = Len(s) - 1 /\ Len(s) \in Nat /\ Len(s) # 0 /\ Head(s) = s[1]
      /\ \A i \in 1 .. Len(t) : t[i] = s[i + 1]
  BY HeadTailProperties, LenProperties, EmptySeq
<1> HIDE DEF t
<1>2. \A i \in 1 .. Len(t) : i + 1 \in 1 .. Len(s) /\ 1 < i + 1
  BY <1>1
<1>3. 1 \in 1 .. Len(s)
  BY <1>1
<1>4. \A i \in 1 .. Len(t) : Head(s) < t[i]
  BY <1>1, <1>2, <1>3 DEF Rising
<1>5. Rising(t)
  <2> SUFFICES ASSUME NEW i \in 1 .. Len(t), NEW j \in 1 .. Len(t), i < j PROVE t[i] < t[j]
    BY DEF Rising
  <2>1. i + 1 \in 1 .. Len(s) /\ j + 1 \in 1 .. Len(s) /\ i + 1 < j + 1
    BY <1>2, <1>1
  <2> QED BY <1>1, <2>1 DEF Rising
<1> QED BY <1>1, <1>2, <1>3, <1>4, <1>5 DEF t

LEMMA HeadMoves ==
    ASSUME NEW S, NEW d \in Seq(S), NEW q \in Seq(S), q # <<>>
    PROVE  /\ Append(d, Head(q)) \o Tail(q) = d \o q
           /\ Len(Append(d, Head(q))) + Len(Tail(q)) = Len(d) + Len(q)
<1>1. /\ Head(q) \in S /\ Tail(q) \in Seq(S) /\ <<Head(q)>> \in Seq(S)
      /\ Len(Tail(q)) = Len(q) - 1 /\ Len(d) \in Nat /\ Len(q) \in Nat
  BY HeadTailProperties, LenProperties
<1>2. Append(d, Head(q)) = d \o <<Head(q)>> /\ Len(Append(d, Head(q))) = Len(d) + 1
  BY <1>1, AppendIsConcat, AppendProperties
<1>3. <<Head(q)>> \o Tail(q) = q
  BY <1>1
<1>4. (d \o <<Head(q)>>) \o Tail(q) = d \o (<<Head(q)>> \o Tail(q))
  BY <1>1, ConcatAssociative
<1> QED BY <1>1, <1>2, <1>3, <1>4

LEMMA AppendMoves ==
    ASSUME NEW S, NEW d \in Seq(S), NEW q \in Seq(S), NEW e \in S
    PROVE  d \o Append(q, e) = Append(d \o q, e) /\ Len(Append(q, e)) = Len(q) + 1
<1>1. Append(q, e) = q \o <<e>> /\ <<e>> \in Seq(S) /\ Len(Append(q, e)) = Len(q) + 1
  BY AppendIsConcat, AppendProperties
<1>2. d \o q \in Seq(S) /\ Append(d \o q, e) = (d \o q) \o <<e>>
  BY AppendIsConcat, ConcatProperties
<1> QED BY <1>1, <1>2, ConcatAssociative

(* A stream in order stays so with its next bytes, or printed ones, added. *)
LEMMA InOrderConcat ==
    ASSUME NEW s \in Seq(Nat), NEW f \in Seq(Nat), NEW d \in Nat, NEW e \in Nat, d <= e,
           InOrderTo(s, d),
           \A i \in 1 .. Len(f) : f[i] = 0 \/ f[i] \in d + 1 .. e,
           \A b \in d + 1 .. e : \E i \in 1 .. Len(f) : f[i] = b,
           \A i, j \in 1 .. Len(f) : i < j /\ f[j] # 0 => f[i] < f[j]
    PROVE  InOrderTo(s \o f, e)
<1> DEFINE t == s \o f
<1>1. /\ Len(t) = Len(s) + Len(f) /\ Len(s) \in Nat /\ Len(f) \in Nat
      /\ \A i \in 1 .. Len(s) : t[i] = s[i]
      /\ \A i \in 1 .. Len(f) : t[Len(s) + i] = f[i]
  <2>1. Len(t) = Len(s) + Len(f) /\ Len(s) \in Nat /\ Len(f) \in Nat
    BY ConcatProperties, LenProperties
  <2>2. \A i \in 1 .. Len(t) : t[i] = IF i <= Len(s) THEN s[i] ELSE f[i - Len(s)]
    BY ConcatProperties
  <2> HIDE DEF t
  <2>3. \A i \in 1 .. Len(s) : t[i] = s[i]
    BY <2>1, <2>2
  <2>4. ASSUME NEW i \in 1 .. Len(f) PROVE t[Len(s) + i] = f[i]
    <3>1. Len(s) + i \in 1 .. Len(t) /\ ~(Len(s) + i <= Len(s)) /\ Len(s) + i - Len(s) = i
      BY <2>1
    <3> QED BY <2>2, <3>1
  <2> QED BY <2>1, <2>3, <2>4
<1> HIDE DEF t
<1>2. ASSUME NEW i \in 1 .. Len(t)
      PROVE  \/ i \in 1 .. Len(s) /\ t[i] = s[i] /\ s[i] \in 0 .. d
             \/ /\ i - Len(s) \in 1 .. Len(f) /\ t[i] = f[i - Len(s)]
                /\ t[i] = 0 \/ t[i] \in d + 1 .. e
  <2>1. CASE i <= Len(s)
    BY <1>1, <2>1 DEF InOrderTo
  <2>2. CASE i > Len(s)
    <3>1. i - Len(s) \in 1 .. Len(f) /\ Len(s) + (i - Len(s)) = i
      BY <1>1, <2>2
    <3> QED BY <1>1, <3>1
  <2> QED BY <1>1, <2>1, <2>2
<1>3. ASSUME NEW i \in 1 .. Len(t) PROVE t[i] \in 0 .. e
  <2>1. t[i] \in 0 .. d \/ t[i] = 0 \/ t[i] \in d + 1 .. e
    BY <1>2
  <2> QED BY <2>1
<1>4. ASSUME NEW b \in 1 .. e PROVE \E i \in 1 .. Len(t) : t[i] = b
  <2>1. CASE b <= d
    <3>1. PICK i \in 1 .. Len(s) : s[i] = b
      BY <2>1 DEF InOrderTo
    <3> QED BY <1>1, <3>1
  <2>2. CASE b > d
    <3>1. PICK i \in 1 .. Len(f) : f[i] = b
      BY <2>2
    <3>2. Len(s) + i \in 1 .. Len(t) /\ t[Len(s) + i] = b
      BY <1>1, <3>1
    <3> QED BY <3>2
  <2> QED BY <2>1, <2>2
<1>5. ASSUME NEW i \in 1 .. Len(t), NEW j \in 1 .. Len(t), i < j, t[j] # 0 PROVE t[i] < t[j]
  <2>1. CASE j \in 1 .. Len(s)
    <3>1. i \in 1 .. Len(s) /\ t[i] = s[i] /\ t[j] = s[j]
      BY <1>1, <1>5, <2>1
    <3> QED BY <1>5, <2>1, <3>1 DEF InOrderTo
  <2>2. CASE j \notin 1 .. Len(s)
    <3>1. j - Len(s) \in 1 .. Len(f) /\ t[j] = f[j - Len(s)] /\ t[j] \in d + 1 .. e
      BY <1>2, <1>5, <2>2
    <3>2. CASE i \in 1 .. Len(s)
      <4>1. t[i] \in 0 .. d
        BY <1>1, <3>2 DEF InOrderTo
      <4>2. \A u \in 0 .. d, v \in d + 1 .. e : u < v
        OBVIOUS
      <4> QED BY <3>1, <4>1, <4>2
    <3>3. CASE i \notin 1 .. Len(s)
      <4>1. i - Len(s) \in 1 .. Len(f) /\ t[i] = f[i - Len(s)]
        BY <1>2, <3>3
      <4>2. i - Len(s) < j - Len(s)
        BY <1>1, <1>5
      <4> QED BY <1>5, <3>1, <4>1, <4>2
    <3> QED BY <3>2, <3>3
  <2> QED BY <2>1, <2>2
<1> QED BY <1>3, <1>4, <1>5 DEF InOrderTo, t

(* What a consumer at p, between head and the end of its chunk, has left.  *)
LEMMA InChunk ==
    ASSUME head \in Slot, tail \in Slot, snap[1] = head, snap[2] = tail,
           NEW p \in head .. ChunkEnd
    PROVE  /\ Left(p) \in 0 .. Left(head) /\ Left(head) \in Nat /\ Left(head) <= Size
           /\ \A k \in 0 .. ChunkEnd - p : Left(p + k) = Left(p) - k
           /\ \A k \in 0 .. ChunkEnd - p - 1 : p + k \in Slot /\ Dist(p + k) = Left(p) - k
           /\ Left(queue_wrap(ChunkEnd)) = Left(ChunkEnd) /\ head <= ChunkEnd /\ ChunkEnd \in Nat
<1>1. /\ Size \in Nat \ {0} /\ head \in 0 .. Size - 1 /\ tail \in 0 .. Size - 1
      /\ ChunkEnd = IF tail < head THEN Size ELSE tail
  BY SizeAssumption DEF Slot, ChunkEnd
<1>2. Left(p) \in 0 .. Left(head) /\ Left(head) \in Nat /\ Left(head) <= Size
  BY <1>1 DEF Left
<1>3. \A k \in 0 .. ChunkEnd - p : Left(p + k) = Left(p) - k
  BY <1>1 DEF Left
<1>4. \A k \in 0 .. ChunkEnd - p - 1 : p + k \in Slot /\ Dist(p + k) = Left(p) - k
  BY <1>1 DEF Left, Dist, Slot
<1>5. Left(queue_wrap(ChunkEnd)) = Left(ChunkEnd)
  <2>1. queue_wrap(Size) = 0 /\ queue_wrap(tail) = tail
    BY Wraps
  <2> QED BY <1>1, <2>1 DEF Left
<1> QED BY <1>1, <1>2, <1>3, <1>4, <1>5

LEMMA OneLess ==
    ASSUME head \in Slot, tail \in Slot, head # tail
    PROVE  Left(queue_wrap(head + 1)) = Left(head) - 1 /\ Dist(head) = Left(head) /\ Left(head) \in Nat
<1>1. Size \in Nat \ {0} /\ head \in 0 .. Size - 1 /\ tail \in 0 .. Size - 1
  BY SizeAssumption DEF Slot
<1>2. queue_wrap(head + 1) = IF head = Size - 1 THEN 0 ELSE head + 1
  BY Wraps
<1> QED BY <1>1, <1>2 DEF Left, Dist

LEMMA StreamGrows ==
    ASSUME UartInv, NEW f \in Seq(0 .. MaxSent), NEW d \in Nat, NEW e \in Nat, d <= e,
           InOrderTo(wire \o thr, d),
           \A i \in 1 .. Len(f) : f[i] = 0 \/ f[i] \in d + 1 .. e,
           \A b \in d + 1 .. e : \E i \in 1 .. Len(f) : f[i] = b,
           \A i, j \in 1 .. Len(f) : i < j /\ f[j] # 0 => f[i] < f[j],
           thr' = thr \o f, wire' = wire
    PROVE  InOrderTo(wire' \o thr', e)
<1>1. wire \in Seq(0 .. MaxSent) /\ thr \in Seq(0 .. MaxSent)
  BY DEF UartInv, Types, TypeOK
<1>2. 0 .. MaxSent \subseteq Nat
  BY BoundAssumption
<1>3. wire \in Seq(Nat) /\ thr \in Seq(Nat) /\ f \in Seq(Nat)
  BY <1>1, <1>2, SeqMonotonic
<1>4. wire \o thr \in Seq(Nat) /\ wire \o (thr \o f) = (wire \o thr) \o f
  <2>1. wire \o thr \in Seq(Nat)
    BY <1>3, ConcatProperties
  <2>2. wire \o (thr \o f) = (wire \o thr) \o f
    BY <1>1, Associative
  <2> QED BY <2>1, <2>2
<1>5. InOrderTo((wire \o thr) \o f, e)
  BY <1>3, <1>4, InOrderConcat
<1> QED BY <1>4, <1>5

(* How much of the stream has gone out, when there was one consumer.       *)
LEMMA GoneOut ==
    ASSUME UartInv, ~overlap
    PROVE  /\ OneConsumer /\ Left(head) \in Nat /\ Left(head) <= sentN /\ sentN \in Nat
           /\ sentN - Left(Position) \in Nat /\ Left(Position) \in 0 .. Left(head)
           /\ pc["producer"] \in Draining => snap[1] = head /\ snap[2] = tail
           /\ head \in Slot /\ tail \in Slot
<1>1. /\ OneConsumer /\ head \in Slot /\ tail \in Slot /\ sentN \in Nat /\ SnapOfTail
      /\ Size \in Nat \ {0}
  BY SizeAssumption, BoundAssumption DEF UartInv, Types, TypeOK
<1>2. Left(head) \in Nat
  BY <1>1 DEF Left, Slot
<1>3. pc["producer"] \in Draining => snap[1] = head /\ snap[2] = tail
  BY <1>1 DEF OneConsumer, SnapOfTail
<1>4. Left(Position) \in 0 .. Left(head)
  <2>1. CASE pc["producer"] \in {"tx", "sethead"}
    <3>1. Position = n["producer"] /\ n["producer"] \in head .. ChunkEnd
      BY <1>1, <2>1 DEF OneConsumer, Position
    <3> QED BY <1>1, <1>3, <2>1, <3>1, InChunk DEF Draining
  <2>2. CASE pc["producer"] \notin {"tx", "sethead"}
    BY <1>2, <2>2 DEF Position
  <2> QED BY <2>1, <2>2
<1>5. Left(head) <= sentN
  BY <1>1 DEF OneConsumer
<1> QED BY <1>1, <1>2, <1>3, <1>4, <1>5

LEMMA PopsNext ==
    ASSUME UartInv, ~overlap, NEW x \in {"producer", "isr"}, PopChar(x)
    PROVE  /\ InOrderTo(wire' \o thr', sentN - Left(head')) /\ Left(head') <= Left(head)
           /\ pc["producer"] \notin Draining
<1>1. /\ OneConsumer /\ sentN \in Nat /\ Left(head) <= sentN /\ sentN - Left(Position) \in Nat
      /\ head \in Slot /\ tail \in Slot
  BY GoneOut
<1>2. pc[x] = "pop" /\ x \in Context /\ head' = queue_wrap(head + 1) /\ wire' = wire
  BY DEF PopChar, StoreTHR, Context
<1>3. pc["producer"] \notin Draining /\ Position = head /\ ~queue_empty /\ c[x] = buf[head]
  BY <1>1, <1>2 DEF OneConsumer, Draining, Position
<1>4. Left(head') = Left(head) - 1 /\ Dist(head) = Left(head) /\ Left(head) \in Nat
  BY <1>1, <1>2, <1>3, OneLess DEF queue_empty
<1> DEFINE d == sentN - Left(head)
           e == d + 1
           f == <<c[x]>>
<1>5. f[1] = e
  <2>1. Kept
    BY DEF UartInv
  <2> QED BY <1>1, <1>3, <1>4, <2>1 DEF Kept
<1>6. d \in Nat /\ InOrderTo(wire \o thr, d)
  BY <1>1, <1>3 DEF OneConsumer
<1>7. f \in Seq(0 .. MaxSent) /\ thr' = thr \o f /\ Len(f) = 1
  BY <1>2, Popped
<1>8. d + 1 .. e = {e} /\ 1 .. Len(f) = {1} /\ e \in Nat /\ d <= e
  BY <1>6, <1>7
<1>9. e = sentN - Left(head')
  BY <1>1, <1>4
<1> HIDE DEF d, e, f
<1>10. /\ \A i \in 1 .. Len(f) : f[i] = 0 \/ f[i] \in d + 1 .. e
       /\ \A b \in d + 1 .. e : \E i \in 1 .. Len(f) : f[i] = b
       /\ \A i, j \in 1 .. Len(f) : i < j /\ f[j] # 0 => f[i] < f[j]
  BY <1>5, <1>8
<1>11. InOrderTo(wire' \o thr', e)
  BY <1>2, <1>6, <1>7, <1>8, <1>10, StreamGrows
<1> QED BY <1>1, <1>3, <1>4, <1>9, <1>11

LEMMA DrainsNext ==
    ASSUME UartInv, ~overlap, DrainTx, UNCHANGED pc
    PROVE  /\ InOrderTo(wire' \o thr', sentN - Left(n'["producer"])) /\ n'["producer"] \in head .. ChunkEnd
<1> DEFINE from == n["producer"]
<1>1. /\ OneConsumer /\ sentN \in Nat /\ Left(head) <= sentN /\ sentN - Left(Position) \in Nat
      /\ pc["producer"] = "tx" /\ snap[1] = head /\ snap[2] = tail /\ head \in Slot /\ tail \in Slot
  BY GoneOut DEF DrainTx, Draining
<1>2. Position = from /\ from \in head .. ChunkEnd
  BY <1>1 DEF OneConsumer, Position
<1>3. /\ Left(from) \in 0 .. Left(head) /\ Left(head) \in Nat
      /\ \A i \in 0 .. ChunkEnd - from : Left(from + i) = Left(from) - i
      /\ \A i \in 0 .. ChunkEnd - from - 1 : from + i \in Slot /\ Dist(from + i) = Left(from) - i
  BY <1>1, <1>2, InChunk
<1>4. PICK k \in 1 .. TxFifo :
        /\ from + k <= ChunkEnd
        /\ thr = <<>> /\ thr' = [i \in 1 .. k |-> buf[from + i - 1]]
        /\ n' = [n EXCEPT !["producer"] = from + k]
        /\ thr' \in Seq(0 .. MaxSent) /\ Len(thr') = k /\ wire' = wire
  <2>1. pc' # [pc EXCEPT !["producer"] = "sethead"]
    BY <1>1 DEF UartInv, Types, Places, Context
  <2> QED BY <2>1, Drained
<1> DEFINE d == sentN - Left(from)
           e == d + k
           f == thr'
<1>5. d \in Nat /\ InOrderTo(wire \o thr, d)
  BY <1>1, <1>2 DEF OneConsumer
<1>6. ChunkEnd \in Nat /\ from \in Nat /\ k \in Nat /\ TxFifo \in Nat /\ k <= ChunkEnd - from
  BY <1>1, <1>2, <1>4, Drained, TxFifoAssumption
<1>7. ASSUME NEW i \in 1 .. k PROVE f[i] = d + i
  <2>1. i - 1 \in 0 .. ChunkEnd - from - 1 /\ from + (i - 1) = from + i - 1
    BY <1>6
  <2>2. from + i - 1 \in Slot /\ Dist(from + i - 1) = Left(from) - (i - 1)
    BY <1>3, <2>1
  <2>3. Dist(from + i - 1) <= sentN
    BY <1>1, <1>3, <2>2
  <2>4. buf[from + i - 1] = sentN + 1 - Dist(from + i - 1)
    BY <2>2, <2>3 DEF UartInv, Kept
  <2> HIDE DEF Dist
  <2>5. sentN + 1 - (Left(from) - (i - 1)) = sentN - Left(from) + i
    BY <1>1, <1>3
  <2> QED BY <1>4, <2>2, <2>4, <2>5
<1>8. thr' = thr \o f
  BY <1>4, ConcatEmptySeq
<1>9. e = sentN - Left(from + k) /\ e \in Nat /\ d <= e
  <2>1. Left(from + k) = Left(from) - k
    BY <1>3, <1>6
  <2> QED BY <1>1, <1>3, <1>5, <1>6, <2>1
<1>10. e = d + k
  OBVIOUS
<1>11. f \in Seq(0 .. MaxSent) /\ Len(f) = k
  BY <1>4
<1> HIDE DEF d, e, f
<1>12. /\ \A i \in 1 .. Len(f) : f[i] = 0 \/ f[i] \in d + 1 .. e
       /\ \A i, j \in 1 .. Len(f) : i < j /\ f[j] # 0 => f[i] < f[j]
  BY <1>5, <1>6, <1>7, <1>10, <1>11
<1>13. ASSUME NEW b \in d + 1 .. e PROVE \E i \in 1 .. Len(f) : f[i] = b
  <2>1. b - d \in 1 .. k /\ d + (b - d) = b
    BY <1>5, <1>6, <1>10
  <2> QED BY <1>7, <1>11, <2>1
<1>14. InOrderTo(wire' \o thr', e)
  BY <1>4, <1>5, <1>8, <1>9, <1>11, <1>12, <1>13, StreamGrows
<1>15. n'["producer"] = from + k
  BY <1>4 DEF UartInv, Types, Context
<1>16. from + k \in head .. ChunkEnd
  BY <1>1, <1>2, <1>4, <1>6 DEF Slot
<1> QED BY <1>9, <1>14, <1>15, <1>16

LEMMA PrintsBetween ==
    ASSUME UartInv, ~overlap, PolledTx
    PROVE  InOrderTo(wire' \o thr', sentN - Left(Position))
<1> DEFINE d == sentN - Left(Position)
           f == thr'
<1>1. d \in Nat /\ InOrderTo(wire \o thr, d)
  BY GoneOut DEF OneConsumer
<1>2. PICK k \in 1 .. TxFifo :
        /\ thr = <<>> /\ thr' = [i \in 1 .. k |-> 0] /\ thr' \in Seq(0 .. MaxSent) /\ Len(thr') = k
  BY Printed
<1>3. f \in Seq(0 .. MaxSent) /\ thr' = thr \o f /\ Len(f) = k /\ \A i \in 1 .. k : f[i] = 0
  BY <1>2, ConcatEmptySeq
<1>4. wire' = wire
  BY DEF PolledTx, StoreTHR
<1> HIDE DEF d, f
<1>5. /\ \A i \in 1 .. Len(f) : f[i] = 0 \/ f[i] \in d + 1 .. d
      /\ \A b \in d + 1 .. d : \E i \in 1 .. Len(f) : f[i] = b
      /\ \A i, j \in 1 .. Len(f) : i < j /\ f[j] # 0 => f[i] < f[j]
  BY <1>1, <1>3
<1>6. d <= d
  BY <1>1
<1>7. InOrderTo(wire' \o thr', d)
  BY <1>1, <1>3, <1>4, <1>5, <1>6, StreamGrows
<1> QED BY <1>7 DEF d

LEMMA RxAttachedHolds == UartInv /\ [Next]_vars => RxAttached'
<1> SUFFICES ASSUME UartInv, [Next]_vars PROVE RxAttached'
  OBVIOUS
<1> USE DEF UartInv, Types, txq, uart, rx, client, locals, Places, Locked, Inside, Goto,
           TxPlaces, IsrPlaces, Draining, ProducerPlaces, Context, RxAttached, TypeOK,
           queue_empty, THRE, DR, IIR
<1>1. CASE Transmit
  BY <1>1 DEF Transmit
<1>2. CASE Arrive
  BY <1>2 DEF Arrive
<1>3. CASE Write
  BY <1>3 DEF Write
<1>4. CASE NotifyConsumer
  BY <1>4 DEF NotifyConsumer
<1>5. CASE CallbackLock
  BY <1>5 DEF CallbackLock, Lock
<1>6. CASE CallbackUnlock
  BY <1>6 DEF CallbackUnlock, Unlock
<1>7. CASE DrainStart
  BY <1>7 DEF DrainStart
<1>8. CASE DrainChunk
  BY <1>8 DEF DrainChunk
<1>9. CASE DrainTx
  BY <1>9 DEF DrainTx, StoreTHR
<1>10. CASE DrainSetHead
  BY <1>10 DEF DrainSetHead
<1>11. CASE PolledTx
  BY <1>11 DEF PolledTx, StoreTHR
<1>12. CASE Interrupt
  BY <1>12 DEF Interrupt
<1>13. CASE IsrLock
  BY <1>13 DEF IsrLock, Lock
<1>14. CASE IsrReadIIR
  BY <1>14 DEF IsrReadIIR
<1>15. CASE IsrReadRBR
  BY <1>15 DEF IsrReadRBR
<1>16. CASE IsrRxDone
  BY <1>16 DEF IsrRxDone
<1>17. CASE IsrUnlock
  BY <1>17 DEF IsrUnlock, Unlock
<1>18. CASE IsrNotify
  BY <1>18 DEF IsrNotify
<1>19. CASE IsrReenable
  BY <1>19 DEF IsrReenable, EnableETHREI
<1>20. CASE Receive
  BY <1>20 DEF Receive
<1>21. CASE SetTxQueue
  BY <1>21 DEF SetTxQueue, Lock
<1>22. CASE SetTxQueueCheck
  BY <1>22 DEF SetTxQueueCheck, Unlock, EnableETHREI
<1>23. CASE ClearTxQueue
  BY <1>23 DEF ClearTxQueue
<1>24. CASE SetRxQueue
  BY <1>24 DEF SetRxQueue
<1>25. CASE ClearRxQueue
  BY <1>25 DEF ClearRxQueue
<1>26. ASSUME NEW x \in {"producer", "isr"}, CheckTHRE(x) PROVE RxAttached'
  BY <1>26 DEF CheckTHRE
<1>27. ASSUME NEW x \in {"producer", "isr"}, ReadChar(x) PROVE RxAttached'
  BY <1>27 DEF ReadChar
<1>28. ASSUME NEW x \in {"producer", "isr"}, PopChar(x) PROVE RxAttached'
  BY <1>28 DEF PopChar, StoreTHR
<1>29. ASSUME NEW x \in {"producer", "isr"}, SetIER(x) PROVE RxAttached'
  BY <1>29 DEF SetIER, EnableETHREI
<1>30. CASE UNCHANGED vars
  BY <1>30 DEF vars
<1> QED BY <1>1, <1>2, <1>3, <1>4, <1>5, <1>6, <1>7, <1>8, <1>9, <1>10, <1>11, <1>12, <1>13,
          <1>14, <1>15, <1>16, <1>17, <1>18, <1>19, <1>20, <1>21, <1>22, <1>23, <1>24, <1>25,
          <1>26, <1>27, <1>28, <1>29, <1>30, Steps

LEMMA SnapOfTailHolds == UartInv /\ [Next]_vars => SnapOfTail'
<1> SUFFICES ASSUME UartInv, [Next]_vars PROVE SnapOfTail'
  OBVIOUS
<1> USE DEF UartInv, Types, txq, uart, rx, client, locals, Places, Locked, Inside, Goto,
           TxPlaces, IsrPlaces, Draining, ProducerPlaces, Context, SnapOfTail
<1>1. CASE Transmit
  BY <1>1 DEF Transmit
<1>2. CASE Arrive
  BY <1>2 DEF Arrive
<1>3. CASE Write
  BY <1>3 DEF Write
<1>4. CASE NotifyConsumer
  BY <1>4 DEF NotifyConsumer
<1>5. CASE CallbackLock
  BY <1>5 DEF CallbackLock, Lock
<1>6. CASE CallbackUnlock
  BY <1>6 DEF CallbackUnlock, Unlock
<1>7. CASE DrainStart
  BY <1>7 DEF DrainStart
<1>8. CASE DrainChunk
  BY <1>8 DEF DrainChunk
<1>9. CASE DrainTx
  BY <1>9 DEF DrainTx, StoreTHR
<1>10. CASE DrainSetHead
  BY <1>10 DEF DrainSetHead
<1>11. CASE PolledTx
  BY <1>11 DEF PolledTx, StoreTHR
<1>12. CASE Interrupt
  BY <1>12 DEF Interrupt
<1>13. CASE IsrLock
  BY <1>13 DEF IsrLock, Lock
<1>14. CASE IsrReadIIR
  BY <1>14 DEF IsrReadIIR
<1>15. CASE IsrReadRBR
  BY <1>15 DEF IsrReadRBR
<1>16. CASE IsrRxDone
  BY <1>16 DEF IsrRxDone
<1>17. CASE IsrUnlock
  BY <1>17 DEF IsrUnlock, Unlock
<1>18. CASE IsrNotify
  BY <1>18 DEF IsrNotify
<1>19. CASE IsrReenable
  BY <1>19 DEF IsrReenable, EnableETHREI
<1>20. CASE Receive
  BY <1>20 DEF Receive
<1>21. CASE SetTxQueue
  BY <1>21 DEF SetTxQueue, Lock
<1>22. CASE SetTxQueueCheck
  BY <1>22 DEF SetTxQueueCheck, Unlock, EnableETHREI
<1>23. CASE ClearTxQueue
  BY <1>23 DEF ClearTxQueue
<1>24. CASE SetRxQueue
  BY <1>24 DEF SetRxQueue
<1>25. CASE ClearRxQueue
  BY <1>25 DEF ClearRxQueue
<1>26. ASSUME NEW x \in {"producer", "isr"}, CheckTHRE(x) PROVE SnapOfTail'
  BY <1>26 DEF CheckTHRE
<1>27. ASSUME NEW x \in {"producer", "isr"}, ReadChar(x) PROVE SnapOfTail'
  BY <1>27 DEF ReadChar
<1>28. ASSUME NEW x \in {"producer", "isr"}, PopChar(x) PROVE SnapOfTail'
  BY <1>28 DEF PopChar, StoreTHR
<1>29. ASSUME NEW x \in {"producer", "isr"}, SetIER(x) PROVE SnapOfTail'
  BY <1>29 DEF SetIER, EnableETHREI
<1>30. CASE UNCHANGED vars
  BY <1>30 DEF vars
<1> QED BY <1>1, <1>2, <1>3, <1>4, <1>5, <1>6, <1>7, <1>8, <1>9, <1>10, <1>11, <1>12, <1>13,
          <1>14, <1>15, <1>16, <1>17, <1>18, <1>19, <1>20, <1>21, <1>22, <1>23, <1>24, <1>25,
          <1>26, <1>27, <1>28, <1>29, <1>30, Steps

LEMMA FillsCountedHolds == UartInv /\ [Next]_vars => FillsCounted'
<1> SUFFICES ASSUME UartInv, [Next]_vars PROVE FillsCounted'
  OBVIOUS
<1> USE DEF UartInv, Types, txq, uart, rx, client, locals, Places, Locked, Inside, Goto,
           TxPlaces, IsrPlaces, Draining, ProducerPlaces, Context, FillsCounted, TypeOK,
           queue_empty, THRE, DR, IIR
<1>1. CASE Transmit
  <2>1. UNCHANGED <<pc, n>>
    BY <1>1 DEF Transmit
  <2> HIDE DEF UartInv, Types, TypeOK, Places, TxPlaces, IsrPlaces, ProducerPlaces, Locked
  <2> QED BY <1>1, <2>1, Known, Transmitted
<1>2. CASE Arrive
  BY <1>2 DEF Arrive
<1>3. CASE Write
  BY <1>3 DEF Write
<1>4. CASE NotifyConsumer
  BY <1>4 DEF NotifyConsumer
<1>5. CASE CallbackLock
  BY <1>5 DEF CallbackLock, Lock
<1>6. CASE CallbackUnlock
  BY <1>6 DEF CallbackUnlock, Unlock
<1>7. CASE DrainStart
  BY <1>7 DEF DrainStart
<1>8. CASE DrainChunk
  BY <1>8 DEF DrainChunk
<1>9. CASE DrainTx
  <2>1. pc["producer"] = "tx" /\ (lock = "free" \/ UNCHANGED <<thr, n>>)
    BY <1>9 DEF DrainTx, StoreTHR
  <2>2. lock = "free" => \A x \in Context : pc[x] \notin {"readchar", "pop"}
    BY DEF DrainTx, StoreTHR
  <2> HIDE DEF UartInv, Types, TypeOK, Places, TxPlaces, IsrPlaces, ProducerPlaces, Locked
  <2>3. CASE pc' = [pc EXCEPT !["producer"] = "sethead"] /\ UNCHANGED <<thr, n>>
    BY <2>3, Known DEF FillsCounted
  <2>4. CASE UNCHANGED pc /\ \E k \in 1 .. TxFifo : Len(thr') = k /\ thr = <<>> /\ thr' # <<>>
    BY <2>1, <2>2, <2>4, Known DEF FillsCounted
  <2> QED BY <1>9, <2>3, <2>4, Drained DEF uart
<1>10. CASE DrainSetHead
  BY <1>10 DEF DrainSetHead
<1>11. CASE PolledTx
  BY <1>11, Printed DEF PolledTx, StoreTHR
<1>12. CASE Interrupt
  BY <1>12 DEF Interrupt
<1>13. CASE IsrLock
  BY <1>13 DEF IsrLock, Lock
<1>14. CASE IsrReadIIR
  BY <1>14 DEF IsrReadIIR
<1>15. CASE IsrReadRBR
  BY <1>15 DEF IsrReadRBR
<1>16. CASE IsrRxDone
  BY <1>16 DEF IsrRxDone
<1>17. CASE IsrUnlock
  BY <1>17 DEF IsrUnlock, Unlock
<1>18. CASE IsrNotify
  BY <1>18 DEF IsrNotify
<1>19. CASE IsrReenable
  BY <1>19 DEF IsrReenable, EnableETHREI
<1>20. CASE Receive
  BY <1>20 DEF Receive
<1>21. CASE SetTxQueue
  BY <1>21 DEF SetTxQueue, Lock
<1>22. CASE SetTxQueueCheck
  BY <1>22 DEF SetTxQueueCheck, Unlock, EnableETHREI
<1>23. CASE ClearTxQueue
  BY <1>23 DEF ClearTxQueue
<1>24. CASE SetRxQueue
  BY <1>24 DEF SetRxQueue
<1>25. CASE ClearRxQueue
  BY <1>25 DEF ClearRxQueue
<1>26. ASSUME NEW x \in {"producer", "isr"}, CheckTHRE(x) PROVE FillsCounted'
  <2>1. n' = [n EXCEPT ![x] = 0] /\ UNCHANGED thr /\ pc' = [pc EXCEPT ![x] = IF THRE THEN "readchar" ELSE "enable"]
    BY <1>26 DEF CheckTHRE
  <2> HIDE DEF UartInv, Types, TypeOK, Places, TxPlaces, IsrPlaces, ProducerPlaces, Locked
  <2> QED BY <1>26, <2>1, Known
<1>27. ASSUME NEW x \in {"producer", "isr"}, ReadChar(x) PROVE FillsCounted'
  BY <1>27 DEF ReadChar
<1>28. ASSUME NEW x \in {"producer", "isr"}, PopChar(x) PROVE FillsCounted'
  <2>1. n' = [n EXCEPT ![x] = @ + 1] /\ pc' = [pc EXCEPT ![x] = "readchar"] /\ pc[x] = "pop" /\ x \in Context
    BY <1>28 DEF PopChar, StoreTHR
  <2>2. \A y \in Context : pc[y] \in {"readchar", "pop"} => y = x
    BY <1>28, <2>1 DEF PopChar, StoreTHR
  <2>3. Len(thr') = Len(thr) + 1
    BY <1>28, <2>1, Popped
  <2> HIDE DEF UartInv, Types, TypeOK, Places, TxPlaces, IsrPlaces, ProducerPlaces, Locked
  <2> QED BY <2>1, <2>2, <2>3, Known
<1>29. ASSUME NEW x \in {"producer", "isr"}, SetIER(x) PROVE FillsCounted'
  BY <1>29 DEF SetIER, EnableETHREI
<1>30. CASE UNCHANGED vars
  BY <1>30 DEF vars
<1> QED BY <1>1, <1>2, <1>3, <1>4, <1>5, <1>6, <1>7, <1>8, <1>9, <1>10, <1>11, <1>12, <1>13,
          <1>14, <1>15, <1>16, <1>17, <1>18, <1>19, <1>20, <1>21, <1>22, <1>23, <1>24, <1>25,
          <1>26, <1>27, <1>28, <1>29, <1>30, Steps

LEMMA TxAttachedHolds == UartInv /\ [Next]_vars => (DetachSync => TxAttached)'
<1> SUFFICES ASSUME UartInv, [Next]_vars PROVE (DetachSync => TxAttached)'
  OBVIOUS
<1> USE DEF UartInv, Types, txq, uart, rx, client, locals, Places, Locked, Inside, Goto,
           TxPlaces, IsrPlaces, Draining, ProducerPlaces, Context, TxAttached, NobodyInside,
           TypeOK, queue_empty, THRE, DR, IIR
<1>1. CASE Transmit
  BY <1>1 DEF Transmit
<1>2. CASE Arrive
  BY <1>2 DEF Arrive
<1>3. CASE Write
  BY <1>3 DEF Write
<1>4. CASE NotifyConsumer
  BY <1>4 DEF NotifyConsumer
<1>5. CASE CallbackLock
  BY <1>5 DEF CallbackLock, Lock
<1>6. CASE CallbackUnlock
  BY <1>6 DEF CallbackUnlock, Unlock
<1>7. CASE DrainStart
  BY <1>7 DEF DrainStart
<1>8. CASE DrainChunk
  BY <1>8 DEF DrainChunk
<1>9. CASE DrainTx
  BY <1>9 DEF DrainTx, StoreTHR
<1>10. CASE DrainSetHead
  BY <1>10 DEF DrainSetHead
<1>11. CASE PolledTx
  BY <1>11 DEF PolledTx, StoreTHR
<1>12. CASE Interrupt
  BY <1>12 DEF Interrupt
<1>13. CASE IsrLock
  BY <1>13 DEF IsrLock, Lock
<1>14. CASE IsrReadIIR
  BY <1>14 DEF IsrReadIIR
<1>15. CASE IsrReadRBR
  <2>1. notify' \in {notify, notify \union {"rx"}} /\ (notify' # notify => cdrx) /\ pc["isr"] = "rbr"
    BY <1>15 DEF IsrReadRBR
  <2>2. UNCHANGED <<cdrx, cdtx, data_avail, pc, ETHREI>>
    BY <1>15 DEF IsrReadRBR
  <2> QED BY <2>1, <2>2
<1>16. CASE IsrRxDone
  BY <1>16 DEF IsrRxDone
<1>17. CASE IsrUnlock
  BY <1>17 DEF IsrUnlock, Unlock
<1>18. CASE IsrNotify
  BY <1>18 DEF IsrNotify
<1>19. CASE IsrReenable
  BY <1>19 DEF IsrReenable, EnableETHREI
<1>20. CASE Receive
  BY <1>20 DEF Receive
<1>21. CASE SetTxQueue
  BY <1>21 DEF SetTxQueue, Lock
<1>22. CASE SetTxQueueCheck
  BY <1>22 DEF SetTxQueueCheck, Unlock, EnableETHREI
<1>23. CASE ClearTxQueue
  BY <1>23 DEF ClearTxQueue
<1>24. CASE SetRxQueue
  BY <1>24 DEF SetRxQueue
<1>25. CASE ClearRxQueue
  BY <1>25 DEF ClearRxQueue
<1>26. ASSUME NEW x \in {"producer", "isr"}, CheckTHRE(x) PROVE (DetachSync => TxAttached)'
  BY <1>26 DEF CheckTHRE
<1>27. ASSUME NEW x \in {"producer", "isr"}, ReadChar(x) PROVE (DetachSync => TxAttached)'
  BY <1>27 DEF ReadChar
<1>28. ASSUME NEW x \in {"producer", "isr"}, PopChar(x) PROVE (DetachSync => TxAttached)'
  BY <1>28 DEF PopChar, StoreTHR
<1>29. ASSUME NEW x \in {"producer", "isr"}, SetIER(x) PROVE (DetachSync => TxAttached)'
  BY <1>29 DEF SetIER, EnableETHREI
<1>30. CASE UNCHANGED vars
  BY <1>30 DEF vars
<1> QED BY <1>1, <1>2, <1>3, <1>4, <1>5, <1>6, <1>7, <1>8, <1>9, <1>10, <1>11, <1>12, <1>13,
          <1>14, <1>15, <1>16, <1>17, <1>18, <1>19, <1>20, <1>21, <1>22, <1>23, <1>24, <1>25,
          <1>26, <1>27, <1>28, <1>29, <1>30, Steps

LEMMA InterruptComingHolds == UartInv /\ [Next]_vars => (DetachSync => InterruptComing)'
<1> SUFFICES ASSUME UartInv, [Next]_vars PROVE (DetachSync => InterruptComing)'
  OBVIOUS
<1> USE DEF UartInv, Types, txq, uart, rx, client, locals, Places, Locked, Inside, Goto,
           TxPlaces, IsrPlaces, Draining, ProducerPlaces, Context, TxAttached, InterruptComing,
           NobodyInside, Coming, TypeOK, queue_empty, THRE, DR, IIR
<1>1. CASE Transmit
  <2>1. UNCHANGED <<pc, n, ETHREI>> /\ (threPending' <=> threPending \/ Len(thr) = 1)
    BY <1>1 DEF Transmit
  <2> HIDE DEF UartInv, Types, TypeOK, Places, TxPlaces, IsrPlaces, ProducerPlaces, Locked
  <2> QED BY <1>1, <2>1, Known, Transmitted, EmptySeq
<1>2. CASE Arrive
  BY <1>2 DEF Arrive
<1>3. CASE Write
  BY <1>3 DEF Write
<1>4. CASE NotifyConsumer
  BY <1>4 DEF NotifyConsumer
<1>5. CASE CallbackLock
  BY <1>5 DEF CallbackLock, Lock
<1>6. CASE CallbackUnlock
  BY <1>6 DEF CallbackUnlock, Unlock
<1>7. CASE DrainStart
  BY <1>7 DEF DrainStart
<1>8. CASE DrainChunk
  BY <1>8 DEF DrainChunk
<1>9. CASE DrainTx
  BY <1>9, Drained DEF DrainTx, StoreTHR
<1>10. CASE DrainSetHead
  BY <1>10 DEF DrainSetHead
<1>11. CASE PolledTx
  BY <1>11, Printed DEF PolledTx, StoreTHR
<1>12. CASE Interrupt
  BY <1>12 DEF Interrupt
<1>13. CASE IsrLock
  BY <1>13 DEF IsrLock, Lock
<1>14. CASE IsrReadIIR
  BY <1>14 DEF IsrReadIIR
<1>15. CASE IsrReadRBR
  BY <1>15 DEF IsrReadRBR
<1>16. CASE IsrRxDone
  BY <1>16 DEF IsrRxDone
<1>17. CASE IsrUnlock
  BY <1>17 DEF IsrUnlock, Unlock
<1>18. CASE IsrNotify
  BY <1>18 DEF IsrNotify
<1>19. CASE IsrReenable
  BY <1>19 DEF IsrReenable, EnableETHREI
<1>20. CASE Receive
  BY <1>20 DEF Receive
<1>21. CASE SetTxQueue
  BY <1>21 DEF SetTxQueue, Lock
<1>22. CASE SetTxQueueCheck
  BY <1>22 DEF SetTxQueueCheck, Unlock, EnableETHREI
<1>23. CASE ClearTxQueue
  BY <1>23 DEF ClearTxQueue
<1>24. CASE SetRxQueue
  BY <1>24 DEF SetRxQueue
<1>25. CASE ClearRxQueue
  BY <1>25 DEF ClearRxQueue
<1>26. ASSUME NEW x \in {"producer", "isr"}, CheckTHRE(x) PROVE (DetachSync => InterruptComing)'
  <2>1. n' = [n EXCEPT ![x] = 0] /\ UNCHANGED <<thr, threPending, ETHREI>> /\ x \in Context
        /\ pc[x] = "thre" /\ pc' = [pc EXCEPT ![x] = IF THRE THEN "readchar" ELSE "enable"]
    BY <1>26 DEF CheckTHRE
  <2>2. x = "producer" \/ x = "isr"
    BY <1>26
  <2> HIDE DEF UartInv, Types, TypeOK, Places, TxPlaces, IsrPlaces, ProducerPlaces, Locked
  <2> QED BY <2>1, <2>2, Known
<1>27. ASSUME NEW x \in {"producer", "isr"}, ReadChar(x) PROVE (DetachSync => InterruptComing)'
  <2>1. UNCHANGED <<thr, threPending, ETHREI, n>> /\ x \in Context /\ pc[x] = "readchar"
        /\ \/ n[x] = TxFifo /\ pc' = [pc EXCEPT ![x] = "enable"]
           \/ pc' = [pc EXCEPT ![x] = "disable"] \/ pc' = [pc EXCEPT ![x] = "pop"]
    BY <1>27 DEF ReadChar
  <2>2. x = "producer" \/ x = "isr"
    BY <1>27
  <2> HIDE DEF UartInv, Types, TypeOK, Places, TxPlaces, IsrPlaces, ProducerPlaces, Locked
  <2> QED BY <2>1, <2>2, Known
<1>28. ASSUME NEW x \in {"producer", "isr"}, PopChar(x) PROVE (DetachSync => InterruptComing)'
  BY <1>28 DEF PopChar, StoreTHR
<1>29. ASSUME NEW x \in {"producer", "isr"}, SetIER(x) PROVE (DetachSync => InterruptComing)'
  BY <1>29 DEF SetIER, EnableETHREI
<1>30. CASE UNCHANGED vars
  BY <1>30 DEF vars
<1> QED BY <1>1, <1>2, <1>3, <1>4, <1>5, <1>6, <1>7, <1>8, <1>9, <1>10, <1>11, <1>12, <1>13,
          <1>14, <1>15, <1>16, <1>17, <1>18, <1>19, <1>20, <1>21, <1>22, <1>23, <1>24, <1>25,
          <1>26, <1>27, <1>28, <1>29, <1>30, Steps

LEMMA WatchedHolds == UartInv /\ [Next]_vars => (DetachSync => Watched)'
<1> SUFFICES ASSUME UartInv, [Next]_vars PROVE (DetachSync => Watched)'
  OBVIOUS
<1> USE DEF UartInv, Types, txq, uart, rx, client, locals, Places, Locked, Inside, Goto,
           TxPlaces, IsrPlaces, Draining, ProducerPlaces, Context, TxAttached, InterruptComing,
           NobodyInside, Coming, TypeOK, queue_empty, THRE, DR, IIR, Watched
<1>1. CASE Transmit
  BY <1>1 DEF Transmit
<1>2. CASE Arrive
  BY <1>2 DEF Arrive
<1>3. CASE Write
  BY <1>3 DEF Write
<1>4. CASE NotifyConsumer
  BY <1>4 DEF NotifyConsumer
<1>5. CASE CallbackLock
  BY <1>5 DEF CallbackLock, Lock
<1>6. CASE CallbackUnlock
  BY <1>6 DEF CallbackUnlock, Unlock
<1>7. CASE DrainStart
  BY <1>7 DEF DrainStart
<1>8. CASE DrainChunk
  BY <1>8 DEF DrainChunk
<1>9. CASE DrainTx
  BY <1>9 DEF DrainTx, StoreTHR
<1>10. CASE DrainSetHead
  <2>1. pc'["producer"] = "chunk" \/ (pc'["producer"] = "idle" /\ ~(ChunkEnd = Size /\ snap[2] > 0))
    BY <1>10 DEF DrainSetHead
  <2>2. queue_wrap(ChunkEnd) = snap[2] \/ (ChunkEnd = Size /\ snap[2] > 0)
    <3>1. snap[1] \in 0 .. Size - 1 /\ snap[2] \in 0 .. Size - 1
      BY DEF Slot
    <3> HIDE DEF UartInv
    <3>2. queue_wrap(snap[2]) = snap[2] /\ queue_wrap(Size) = 0
      BY <3>1, Wraps DEF Slot
    <3>3. snap[2] = 0 \/ snap[2] > 0
      BY <3>1, SizeAssumption
    <3> QED BY <3>1, <3>2, <3>3, SizeAssumption DEF ChunkEnd
  <2>3. snap[2] = tail /\ tail' = tail /\ head' = queue_wrap(ChunkEnd)
    BY <1>10 DEF DrainSetHead, SnapOfTail
  <2> QED BY <1>10, <2>1, <2>2, <2>3 DEF DrainSetHead
<1>11. CASE PolledTx
  BY <1>11 DEF PolledTx, StoreTHR
<1>12. CASE Interrupt
  BY <1>12 DEF Interrupt
<1>13. CASE IsrLock
  BY <1>13 DEF IsrLock, Lock
<1>14. CASE IsrReadIIR
  BY <1>14 DEF IsrReadIIR
<1>15. CASE IsrReadRBR
  BY <1>15 DEF IsrReadRBR
<1>16. CASE IsrRxDone
  BY <1>16 DEF IsrRxDone
<1>17. CASE IsrUnlock
  BY <1>17 DEF IsrUnlock, Unlock
<1>18. CASE IsrNotify
  BY <1>18 DEF IsrNotify
<1>19. CASE IsrReenable
  BY <1>19 DEF IsrReenable, EnableETHREI
<1>20. CASE Receive
  BY <1>20 DEF Receive
<1>21. CASE SetTxQueue
  BY <1>21 DEF SetTxQueue, Lock
<1>22. CASE SetTxQueueCheck
  BY <1>22 DEF SetTxQueueCheck, Unlock, EnableETHREI
<1>23. CASE ClearTxQueue
  BY <1>23 DEF ClearTxQueue
<1>24. CASE SetRxQueue
  BY <1>24 DEF SetRxQueue
<1>25. CASE ClearRxQueue
  BY <1>25 DEF ClearRxQueue
<1>26. ASSUME NEW x \in {"producer", "isr"}, CheckTHRE(x) PROVE (DetachSync => Watched)'
  BY <1>26 DEF CheckTHRE
<1>27. ASSUME NEW x \in {"producer", "isr"}, ReadChar(x) PROVE (DetachSync => Watched)'
  BY <1>27 DEF ReadChar
<1>28. ASSUME NEW x \in {"producer", "isr"}, PopChar(x) PROVE (DetachSync => Watched)'
  BY <1>28 DEF PopChar, StoreTHR
<1>29. ASSUME NEW x \in {"producer", "isr"}, SetIER(x) PROVE (DetachSync => Watched)'
  BY <1>29 DEF SetIER, EnableETHREI
<1>30. CASE UNCHANGED vars
  BY <1>30 DEF vars
<1> QED BY <1>1, <1>2, <1>3, <1>4, <1>5, <1>6, <1>7, <1>8, <1>9, <1>10, <1>11, <1>12, <1>13,
          <1>14, <1>15, <1>16, <1>17, <1>18, <1>19, <1>20, <1>21, <1>22, <1>23, <1>24, <1>25,
          <1>26, <1>27, <1>28, <1>29, <1>30, Steps

LEMMA TypesHold == UartInv /\ [Next]_vars => Types'
<1> SUFFICES ASSUME UartInv, [Next]_vars PROVE Types'
  OBVIOUS
<1> USE DEF Types, txq, uart, rx, client, locals, TypeOK, PrintByte
<1>a. Types
  BY DEF UartInv
<1>b. Places'
  BY PlacesHold
<1>c. /\ Size \in Nat \ {0} /\ TxFifo \in Nat \ {0}
      /\ RxCapacity \in Nat /\ MaxSent \in Nat /\ MaxPrinted \in Nat /\ MaxArrived \in Nat
  BY SizeAssumption, TxFifoAssumption, BoundAssumption
<1>1. CASE Transmit
  <2>1. wire \in Seq(0 .. MaxSent)
    BY <1>a
  <2>2. thr \in Seq(0 .. MaxSent) /\ thr # <<>> /\ thr' = Tail(thr)
    BY <1>1, Transmitted
  <2>3. Head(thr) \in 0 .. MaxSent /\ thr' \in Seq(0 .. MaxSent)
    BY <2>2, HeadTailProperties
  <2>4. wire' \in Seq(0 .. MaxSent)
    BY <1>1, <2>1, <2>3, AppendProperties DEF Transmit
  <2> QED BY <1>1, <1>a, <1>b, <1>c, <2>3, <2>4 DEF Transmit
<1>2. CASE Arrive
  <2>1. arrived' \in 1 .. MaxArrived /\ rbr' = Append(rbr, arrived') /\ rbr \in Seq(1 .. MaxArrived)
    BY <1>2, <1>a, <1>b, <1>c DEF Arrive
  <2>2. rbr' \in Seq(1 .. MaxArrived)
    BY <2>1, AppendProperties
  <2>3. arrived' \in 0 .. MaxArrived
    BY <2>1
  <2> QED BY <1>2, <1>a, <1>b, <1>c, <2>2, <2>3 DEF Arrive
<1>3. CASE Write
  <2>0. /\ sentN \in 0 .. MaxSent /\ sentN < MaxSent /\ sentN' = sentN + 1
        /\ buf \in [Slot -> 0 .. MaxSent] /\ buf' = [buf EXCEPT ![tail] = sentN + 1]
    BY <1>3, <1>a DEF Write
  <2>3. sentN + 1 \in 0 .. MaxSent
    BY <2>0, <1>c
  <2>1. sentN' \in 0 .. MaxSent /\ buf' \in [Slot -> 0 .. MaxSent]
    BY <2>0, <2>3
  <2>2. tail' \in Slot
    BY <1>3, <1>a, <1>b, <1>c, WrapInSlot DEF Write, Slot
  <2> QED BY <1>3, <1>a, <1>b, <1>c, <2>1, <2>2 DEF Write
<1>4. CASE NotifyConsumer
  BY <1>4, <1>a, <1>b, <1>c DEF NotifyConsumer
<1>5. CASE CallbackLock
  BY <1>5, <1>a, <1>b, <1>c DEF CallbackLock, Lock, Context
<1>6. CASE CallbackUnlock
  BY <1>6, <1>a, <1>b, <1>c DEF CallbackUnlock, Unlock
<1>7. CASE DrainStart
  BY <1>7, <1>a, <1>b, <1>c DEF DrainStart
<1>8. CASE DrainChunk
  <2>1. snap[1] \in Nat
    BY <1>a DEF Slot
  <2> QED BY <1>8, <1>a, <1>b, <1>c, <2>1 DEF DrainChunk
<1>9. CASE DrainTx
  <2>1. n \in [Context -> Nat] /\ wire \in Seq(0 .. MaxSent) /\ thr \in Seq(0 .. MaxSent) /\ threPending \in BOOLEAN
    BY <1>a
  <2>4. thr' \in Seq(0 .. MaxSent) /\ UNCHANGED wire
    BY <1>9, <2>1, Drained
  <2>5. threPending' \in BOOLEAN
    BY <1>9, <2>1, Drained
  <2>6. n' = n \/ \E k \in 1 .. TxFifo : n' = [n EXCEPT !["producer"] = n["producer"] + k]
    BY <1>9, Drained
  <2>7. n' \in [Context -> Nat]
    BY <2>1, <2>6, <1>c DEF Context
  <2>3. UNCHANGED <<txq, rx, ETHREI, ERDAI, lock, client, c, snap, notify, overlap>>
    BY <1>9 DEF DrainTx, StoreTHR
  <2> QED BY <2>3, <2>4, <2>5, <2>7, <1>a, <1>b
<1>10. CASE DrainSetHead
  <2>1. ChunkEnd \in Int /\ snap[2] \in Slot
    BY <1>a, <1>c DEF ChunkEnd, Slot
  <2>2. queue_wrap(ChunkEnd) \in Slot
    BY <2>1, WrapInSlot
  <2> QED BY <1>10, <1>a, <1>b, <1>c, <2>1, <2>2 DEF DrainSetHead
<1>11. CASE PolledTx
  <2>1. printed \in Nat
    BY <1>a
  <2>4. thr' \in Seq(0 .. MaxSent) /\ threPending' \in BOOLEAN
    BY <1>11, Printed
  <2>2. printed' \in 0 .. MaxPrinted
    <3>1. PICK k \in 1 .. TxFifo : printed' = printed + k /\ printed' <= MaxPrinted
      BY <1>11, Printed
    <3> QED BY <3>1, <2>1, <1>c
  <2>3. UNCHANGED <<txq, rx, ETHREI, ERDAI, lock, cdtx, data_avail, cdrx, pc, locals, overlap, wire>>
    BY <1>11 DEF PolledTx, StoreTHR
  <2> QED BY <1>a, <1>b, <2>4, <2>2, <2>3
<1>12. CASE Interrupt
  BY <1>12, <1>a, <1>b, <1>c DEF Interrupt
<1>13. CASE IsrLock
  BY <1>13, <1>a, <1>b, <1>c DEF IsrLock, Lock, Context
<1>14. CASE IsrReadIIR
  BY <1>14, <1>a, <1>b, <1>c DEF IsrReadIIR
<1>15. CASE IsrReadRBR
  <2>1. /\ rbr \in Seq(1 .. MaxArrived) /\ rbr # <<>> /\ rbr' = Tail(rbr)
        /\ rxq \in Seq(1 .. MaxArrived) /\ Len(rxq) <= RxCapacity
        /\ rxq' = rxq \/ (rxq' = Append(rxq, Head(rbr)) /\ Len(rxq) < RxCapacity)
    BY <1>15, <1>a, <1>b, <1>c DEF IsrReadRBR, DR
  <2>2. rbr' \in Seq(1 .. MaxArrived) /\ Head(rbr) \in 1 .. MaxArrived
    BY <2>1, HeadTailProperties
  <2>3. rxq' \in Seq(1 .. MaxArrived) /\ Len(rxq') <= RxCapacity
    <3>1. Append(rxq, Head(rbr)) \in Seq(1 .. MaxArrived) /\ Len(Append(rxq, Head(rbr))) = Len(rxq) + 1
      BY <2>1, <2>2, AppendProperties
    <3>2. Len(rxq) \in Nat
      BY <2>1, LenProperties
    <3>3. RxCapacity \in Nat
      BY <1>c
    <3> QED BY <2>1, <3>1, <3>2, <3>3
  <2>7. rx_counter \in Nat /\ err_counter \in Nat /\ notify \subseteq {"rx", "tx"}
    BY <1>a
  <2>8. /\ rx_counter' = rx_counter + 1 /\ err_counter' \in {err_counter, err_counter + 1}
        /\ notify' \in {notify, notify \union {"rx"}}
    BY <1>15 DEF IsrReadRBR
  <2>4. rx_counter' \in Nat /\ err_counter' \in Nat /\ notify' \subseteq {"rx", "tx"}
    BY <2>7, <2>8
  <2>5. unexpected' \in BOOLEAN
    BY <1>15 DEF IsrReadRBR
  <2>6. UNCHANGED <<txq, uart, arrived, delivered, ETHREI, ERDAI, lock, client, pc, n, c, snap, overlap>>
    BY <1>15 DEF IsrReadRBR
  <2> QED BY <1>a, <1>b, <2>2, <2>3, <2>4, <2>5, <2>6
<1>16. CASE IsrRxDone
  BY <1>16, <1>a, <1>b, <1>c DEF IsrRxDone
<1>17. CASE IsrUnlock
  BY <1>17, <1>a, <1>b, <1>c DEF IsrUnlock, Unlock
<1>18. CASE IsrNotify
  BY <1>18, <1>a, <1>b, <1>c DEF IsrNotify
<1>19. CASE IsrReenable
  BY <1>19, <1>a, <1>b, <1>c DEF IsrReenable, EnableETHREI
<1>20. CASE Receive
  <2>1. /\ rxq \in Seq(1 .. MaxArrived) /\ rxq # <<>> /\ rxq' = Tail(rxq) /\ Len(rxq) <= RxCapacity
        /\ delivered \in Seq(1 .. MaxArrived) /\ delivered' = Append(delivered, Head(rxq))
    BY <1>20, <1>a, <1>b, <1>c DEF Receive
  <2>2. /\ Head(rxq) \in 1 .. MaxArrived /\ rxq' \in Seq(1 .. MaxArrived)
        /\ Len(rxq') = Len(rxq) - 1 /\ Len(rxq) \in Nat
    BY <2>1, HeadTailProperties, LenProperties
  <2>3. delivered' \in Seq(1 .. MaxArrived) /\ Len(rxq') <= RxCapacity
    BY <2>1, <2>2, <1>c, AppendProperties
  <2> QED BY <1>20, <1>a, <1>b, <1>c, <2>2, <2>3 DEF Receive
<1>21. CASE SetTxQueue
  BY <1>21, <1>a, <1>b, <1>c DEF SetTxQueue, Lock, Context
<1>22. CASE SetTxQueueCheck
  BY <1>22, <1>a, <1>b, <1>c DEF SetTxQueueCheck, Unlock, EnableETHREI
<1>23. CASE ClearTxQueue
  BY <1>23, <1>a, <1>b, <1>c DEF ClearTxQueue
<1>24. CASE SetRxQueue
  BY <1>24, <1>a, <1>b, <1>c DEF SetRxQueue
<1>25. CASE ClearRxQueue
  BY <1>25, <1>a, <1>b, <1>c DEF ClearRxQueue
<1>26. ASSUME NEW x \in {"producer", "isr"}, CheckTHRE(x) PROVE Types'
  BY <1>26, <1>a, <1>b, <1>c DEF CheckTHRE, Context
<1>27. ASSUME NEW x \in {"producer", "isr"}, ReadChar(x) PROVE Types'
  BY <1>27, <1>a, <1>b, <1>c DEF ReadChar, Context
<1>28. ASSUME NEW x \in {"producer", "isr"}, PopChar(x) PROVE Types'
  <2>1. x \in Context /\ n \in [Context -> Nat]
    BY <1>a DEF Context
  <2>2. thr' \in Seq(0 .. MaxSent)
    BY <1>28, <2>1, Popped, ConcatProperties
  <2>3. n' \in [Context -> Nat]
    BY <1>28, <2>1 DEF PopChar
  <2>6. threPending' \in BOOLEAN
    BY <1>28 DEF PopChar, StoreTHR
  <2>7. head + 1 \in Int
    BY <1>a, <1>c DEF Slot
  <2>4. head' \in Slot
    BY <1>28, <2>7, WrapInSlot DEF PopChar
  <2>5. UNCHANGED <<buf, tail, sentN, wire, rx, ETHREI, ERDAI, lock, client, c, snap, notify, overlap>>
    BY <1>28 DEF PopChar, StoreTHR
  <2> QED BY <1>a, <1>b, <2>2, <2>3, <2>4, <2>5, <2>6
<1>29. ASSUME NEW x \in {"producer", "isr"}, SetIER(x) PROVE Types'
  BY <1>29, <1>a, <1>b, <1>c DEF SetIER, EnableETHREI
<1>30. CASE UNCHANGED vars
  BY <1>30, <1>a, <1>b, <1>c DEF vars
<1> QED BY <1>1, <1>2, <1>3, <1>4, <1>5, <1>6, <1>7, <1>8, <1>9, <1>10, <1>11, <1>12, <1>13,
          <1>14, <1>15, <1>16, <1>17, <1>18, <1>19, <1>20, <1>21, <1>22, <1>23, <1>24, <1>25,
          <1>26, <1>27, <1>28, <1>29, <1>30, Steps

LEMMA KeptHolds == UartInv /\ [Next]_vars => Kept'
<1> SUFFICES ASSUME UartInv, [Next]_vars PROVE Kept'
  OBVIOUS
<1> USE DEF txq, uart, rx, client, locals, Kept, Dist
<1>a. Kept /\ Types
  BY DEF UartInv
<1>1. CASE Transmit
  BY <1>1, <1>a DEF Transmit
<1>2. CASE Arrive
  BY <1>2, <1>a DEF Arrive
<1>3. CASE Write
  <2>1. tail' = queue_wrap(tail + 1) /\ sentN' = sentN + 1 /\ buf' = [buf EXCEPT ![tail] = sentN + 1]
    BY <1>3 DEF Write
  <2>a. tail \in Slot /\ sentN \in Nat /\ buf \in [Slot -> 0 .. MaxSent]
    BY <1>a, BoundAssumption DEF TypeOK, Types
  <2>b. Size \in Nat \ {0} /\ tail \in 0 .. Size - 1 /\ buf \in [0 .. Size - 1 -> 0 .. MaxSent]
    BY <2>a, SizeAssumption DEF Slot
  <2>2. tail' = IF tail = Size - 1 THEN 0 ELSE tail + 1
    BY <2>1, <2>a, Wraps
  <2> SUFFICES ASSUME NEW s \in 0 .. Size - 1, (Dist(s) <= sentN)' PROVE (buf[s] = sentN + 1 - Dist(s))'
    BY DEF Slot
  <2>3. CASE s = tail
    <3>1. Dist(s)' = 1
      BY <2>b, <2>2, <2>3
    <3> QED BY <2>1, <2>a, <2>b, <2>3, <3>1
  <2>4. CASE s # tail
    <3>1. Dist(s)' = Dist(s) + 1 /\ Dist(s) \in Int
      BY <2>b, <2>2, <2>4
    <3>2. Dist(s) <= sentN => buf[s] = sentN + 1 - Dist(s)
      BY <1>a DEF Slot
    <3>3. (Dist(s) <= sentN)' <=> Dist(s) <= sentN
      BY <3>1, <2>1, <2>a
    <3>4. buf'[s] = buf[s]
      BY <2>1, <2>b, <2>4
    <3>5. buf'[s] = sentN + 1 - Dist(s)
      BY <3>2, <3>3, <3>4
    <3> HIDE DEF Dist
    <3> QED BY <3>5, <2>1, <2>a, <3>1
  <2> QED BY <2>3, <2>4
<1>4. CASE NotifyConsumer
  BY <1>4, <1>a DEF NotifyConsumer
<1>5. CASE CallbackLock
  BY <1>5, <1>a DEF CallbackLock, Lock
<1>6. CASE CallbackUnlock
  BY <1>6, <1>a DEF CallbackUnlock, Unlock
<1>7. CASE DrainStart
  BY <1>7, <1>a DEF DrainStart
<1>8. CASE DrainChunk
  BY <1>8, <1>a DEF DrainChunk
<1>9. CASE DrainTx
  BY <1>9, <1>a DEF DrainTx, StoreTHR
<1>10. CASE DrainSetHead
  BY <1>10, <1>a DEF DrainSetHead
<1>11. CASE PolledTx
  BY <1>11, <1>a DEF PolledTx, StoreTHR
<1>12. CASE Interrupt
  BY <1>12, <1>a DEF Interrupt
<1>13. CASE IsrLock
  BY <1>13, <1>a DEF IsrLock, Lock
<1>14. CASE IsrReadIIR
  BY <1>14, <1>a DEF IsrReadIIR
<1>15. CASE IsrReadRBR
  BY <1>15, <1>a DEF IsrReadRBR
<1>16. CASE IsrRxDone
  BY <1>16, <1>a DEF IsrRxDone
<1>17. CASE IsrUnlock
  BY <1>17, <1>a DEF IsrUnlock, Unlock
<1>18. CASE IsrNotify
  BY <1>18, <1>a DEF IsrNotify
<1>19. CASE IsrReenable
  BY <1>19, <1>a DEF IsrReenable, EnableETHREI
<1>20. CASE Receive
  BY <1>20, <1>a DEF Receive
<1>21. CASE SetTxQueue
  BY <1>21, <1>a DEF SetTxQueue, Lock
<1>22. CASE SetTxQueueCheck
  BY <1>22, <1>a DEF SetTxQueueCheck, Unlock, EnableETHREI
<1>23. CASE ClearTxQueue
  BY <1>23, <1>a DEF ClearTxQueue
<1>24. CASE SetRxQueue
  BY <1>24, <1>a DEF SetRxQueue
<1>25. CASE ClearRxQueue
  BY <1>25, <1>a DEF ClearRxQueue
<1>26. ASSUME NEW x \in {"producer", "isr"}, CheckTHRE(x) PROVE Kept'
  BY <1>26, <1>a DEF CheckTHRE
<1>27. ASSUME NEW x \in {"producer", "isr"}, ReadChar(x) PROVE Kept'
  BY <1>27, <1>a DEF ReadChar
<1>28. ASSUME NEW x \in {"producer", "isr"}, PopChar(x) PROVE Kept'
  BY <1>28, <1>a DEF PopChar, StoreTHR
<1>29. ASSUME NEW x \in {"producer", "isr"}, SetIER(x) PROVE Kept'
  BY <1>29, <1>a DEF SetIER, EnableETHREI
<1>30. CASE UNCHANGED vars
  BY <1>30, <1>a DEF vars
<1> QED BY <1>1, <1>2, <1>3, <1>4, <1>5, <1>6, <1>7, <1>8, <1>9, <1>10, <1>11, <1>12, <1>13,
          <1>14, <1>15, <1>16, <1>17, <1>18, <1>19, <1>20, <1>21, <1>22, <1>23, <1>24, <1>25,
          <1>26, <1>27, <1>28, <1>29, <1>30, Steps

LEMMA ReceivedInOrderHolds == UartInv /\ [Next]_vars => ReceivedInOrder'
<1> SUFFICES ASSUME UartInv, [Next]_vars PROVE ReceivedInOrder'
  OBVIOUS
<1> USE DEF txq, uart, rx, client, locals
<1> DEFINE y == delivered \o rxq
<1>a. /\ ReceivedInOrder /\ rbr \in Seq(Int) /\ y \in Seq(Int) /\ arrived \in Int
      /\ delivered \in Seq(1 .. MaxArrived) /\ rxq \in Seq(1 .. MaxArrived) /\ rbr \in Seq(1 .. MaxArrived)
      /\ rx_counter \in Nat /\ err_counter \in Nat
  <2>1. /\ delivered \in Seq(1 .. MaxArrived) /\ rxq \in Seq(1 .. MaxArrived) /\ rbr \in Seq(1 .. MaxArrived)
        /\ arrived \in 0 .. MaxArrived /\ ReceivedInOrder /\ rx_counter \in Nat /\ err_counter \in Nat
    BY DEF UartInv, Types, TypeOK
  <2>2. 1 .. MaxArrived \subseteq Int /\ arrived \in Int
    BY <2>1, BoundAssumption
  <2>3. rbr \in Seq(Int) /\ delivered \in Seq(Int) /\ rxq \in Seq(Int)
    BY <2>1, <2>2, SeqMonotonic
  <2> QED BY <2>1, <2>2, <2>3, ConcatProperties
<1>b. Len(delivered) \in Nat /\ Len(rxq) \in Nat
  BY <1>a, LenProperties
<1>1. CASE Transmit
  BY <1>1, <1>a DEF Transmit, ReceivedInOrder
<1>2. CASE Arrive
  <2> DEFINE b == arrived + 1
  <2>1. UNCHANGED <<delivered, rxq, err_counter, rx_counter>> /\ arrived' = b /\ rbr' = Append(rbr, b)
    BY <1>2 DEF Arrive
  <2>2. b \in Int /\ \A i \in 1 .. Len(rbr) : rbr[i] < b
    <3>1. \A i \in 1 .. Len(rbr) : rbr[i] \in Int
      BY <1>a, ElementOfSeq
    <3> QED BY <1>a, <3>1 DEF ReceivedInOrder
  <2>3. Rising(rbr') /\ \A i \in 1 .. Len(rbr') : rbr'[i] = b \/ (i \in 1 .. Len(rbr) /\ rbr'[i] = rbr[i])
    BY <2>1, <2>2, <1>a, RisingAppend DEF ReceivedInOrder
  <2>4. \A i \in 1 .. Len(y) : y[i] \in Int /\ y[i] <= arrived
    BY <1>a, ElementOfSeq DEF ReceivedInOrder
  <2>5. \A i \in 1 .. Len(y) : y[i] < b /\ y[i] <= b
    BY <2>4, <1>a
  <2>6. \A i \in 1 .. Len(rbr') : rbr'[i] <= b
    BY <2>2, <2>3, <1>a, ElementOfSeq
  <2>7. Below(y, rbr')
    BY <2>3, <2>5, <1>a DEF Below, ReceivedInOrder
  <2>8. y' = y
    BY <2>1
  <2> HIDE DEF y, b
  <2>9. Rising(y) /\ Len(delivered) + Len(rxq) + err_counter = rx_counter
    BY <1>a DEF ReceivedInOrder, y
  <2> QED BY <2>1, <2>3, <2>5, <2>6, <2>7, <2>8, <2>9 DEF ReceivedInOrder, y
<1>3. CASE Write
  BY <1>3, <1>a DEF Write, ReceivedInOrder
<1>4. CASE NotifyConsumer
  BY <1>4, <1>a DEF NotifyConsumer, ReceivedInOrder
<1>5. CASE CallbackLock
  BY <1>5, <1>a DEF CallbackLock, Lock, ReceivedInOrder
<1>6. CASE CallbackUnlock
  BY <1>6, <1>a DEF CallbackUnlock, Unlock, ReceivedInOrder
<1>7. CASE DrainStart
  BY <1>7, <1>a DEF DrainStart, ReceivedInOrder
<1>8. CASE DrainChunk
  BY <1>8, <1>a DEF DrainChunk, ReceivedInOrder
<1>9. CASE DrainTx
  BY <1>9, <1>a DEF DrainTx, StoreTHR, ReceivedInOrder
<1>10. CASE DrainSetHead
  BY <1>10, <1>a DEF DrainSetHead, ReceivedInOrder
<1>11. CASE PolledTx
  BY <1>11, <1>a DEF PolledTx, StoreTHR, ReceivedInOrder
<1>12. CASE Interrupt
  BY <1>12, <1>a DEF Interrupt, ReceivedInOrder
<1>13. CASE IsrLock
  BY <1>13, <1>a DEF IsrLock, Lock, ReceivedInOrder
<1>14. CASE IsrReadIIR
  BY <1>14, <1>a DEF IsrReadIIR, ReceivedInOrder
<1>15. CASE IsrReadRBR
  <2>1. rbr # <<>> /\ rbr' = Tail(rbr) /\ UNCHANGED <<delivered, arrived>> /\ rx_counter' = rx_counter + 1
    BY <1>15 DEF IsrReadRBR, DR
  <2>2. /\ rbr' \in Seq(Int) /\ Rising(rbr') /\ 1 \in 1 .. Len(rbr) /\ Head(rbr) = rbr[1]
        /\ \A i \in 1 .. Len(rbr') : i + 1 \in 1 .. Len(rbr) /\ rbr'[i] = rbr[i + 1] /\ Head(rbr) < rbr'[i]
    BY <1>a, <2>1, RisingTail DEF ReceivedInOrder
  <2>3. Below(y, rbr') /\ \A i \in 1 .. Len(rbr') : rbr'[i] <= arrived
    BY <1>a, <2>2 DEF Below, ReceivedInOrder
  <2>4. CASE UNCHANGED rxq /\ err_counter' = err_counter + 1
    <3>1. Len(delivered') + Len(rxq') + err_counter' = rx_counter'
      BY <1>a, <1>b, <2>1, <2>4 DEF ReceivedInOrder
    <3> QED BY <1>a, <2>1, <2>2, <2>3, <2>4, <3>1 DEF ReceivedInOrder
  <2>5. CASE rxq' = Append(rxq, Head(rbr)) /\ UNCHANGED err_counter
    <3> DEFINE h == Head(rbr)
    <3>1. h \in 1 .. MaxArrived /\ h \in Int /\ h <= arrived /\ \A i \in 1 .. Len(y) : y[i] < h
      <4>1. h = rbr[1] /\ h \in 1 .. MaxArrived
        BY <1>a, <2>1, <2>2, HeadTailProperties
      <4> QED BY <1>a, <2>2, <4>1 DEF ReceivedInOrder, Below
    <3>2. y' = Append(y, h) /\ Len(rxq') = Len(rxq) + 1
      <4>1. delivered \in Seq(1 .. MaxArrived) /\ rxq \in Seq(1 .. MaxArrived) /\ h \in 1 .. MaxArrived
        BY <1>a, <3>1
      <4>2. rxq' = Append(rxq, h) /\ delivered' = delivered
        BY <2>1, <2>5
      <4> HIDE DEF h
      <4>3. delivered \o Append(rxq, h) = Append(delivered \o rxq, h) /\ Len(Append(rxq, h)) = Len(rxq) + 1
        BY <4>1, AppendMoves
      <4> QED BY <4>2, <4>3
    <3> HIDE DEF h
    <3>3. /\ Rising(y') /\ Len(y') = Len(y) + 1
          /\ \A i \in 1 .. Len(y') : y'[i] = h \/ (i \in 1 .. Len(y) /\ y'[i] = y[i])
      <4> HIDE DEF y
      <4>1. Rising(y)
        BY <1>a DEF ReceivedInOrder, y
      <4> QED BY <1>a, <3>1, <3>2, <4>1, RisingAppend
    <3>4. Below(y', rbr') /\ \A i \in 1 .. Len(y') : y'[i] <= arrived
      BY <1>a, <2>2, <2>3, <3>1, <3>3 DEF Below, ReceivedInOrder, h
    <3>5. Len(delivered') + Len(rxq') + err_counter' = rx_counter'
      BY <1>a, <1>b, <2>1, <2>5, <3>2 DEF ReceivedInOrder
    <3> QED BY <2>1, <2>2, <2>3, <3>3, <3>4, <3>5 DEF ReceivedInOrder
  <2> QED BY <1>15, <2>4, <2>5 DEF IsrReadRBR
<1>16. CASE IsrRxDone
  BY <1>16, <1>a DEF IsrRxDone, ReceivedInOrder
<1>17. CASE IsrUnlock
  BY <1>17, <1>a DEF IsrUnlock, Unlock, ReceivedInOrder
<1>18. CASE IsrNotify
  BY <1>18, <1>a DEF IsrNotify, ReceivedInOrder
<1>19. CASE IsrReenable
  BY <1>19, <1>a DEF IsrReenable, EnableETHREI, ReceivedInOrder
<1>20. CASE Receive
  <2>1. /\ rxq # <<>> /\ delivered' = Append(delivered, Head(rxq)) /\ rxq' = Tail(rxq)
        /\ UNCHANGED <<rbr, arrived, err_counter, rx_counter>>
    BY <1>20 DEF Receive
  <2>2. y' = y /\ Len(delivered') + Len(rxq') = Len(delivered) + Len(rxq)
    BY <1>a, <2>1, HeadMoves
  <2> QED BY <1>a, <2>1, <2>2 DEF ReceivedInOrder
<1>21. CASE SetTxQueue
  BY <1>21, <1>a DEF SetTxQueue, Lock, ReceivedInOrder
<1>22. CASE SetTxQueueCheck
  BY <1>22, <1>a DEF SetTxQueueCheck, Unlock, EnableETHREI, ReceivedInOrder
<1>23. CASE ClearTxQueue
  BY <1>23, <1>a DEF ClearTxQueue, ReceivedInOrder
<1>24. CASE SetRxQueue
  BY <1>24, <1>a DEF SetRxQueue, ReceivedInOrder
<1>25. CASE ClearRxQueue
  BY <1>25, <1>a DEF ClearRxQueue, ReceivedInOrder
<1>26. ASSUME NEW x \in {"producer", "isr"}, CheckTHRE(x) PROVE ReceivedInOrder'
  BY <1>26, <1>a DEF CheckTHRE, ReceivedInOrder
<1>27. ASSUME NEW x \in {"producer", "isr"}, ReadChar(x) PROVE ReceivedInOrder'
  BY <1>27, <1>a DEF ReadChar, ReceivedInOrder
<1>28. ASSUME NEW x \in {"producer", "isr"}, PopChar(x) PROVE ReceivedInOrder'
  BY <1>28, <1>a DEF PopChar, StoreTHR, ReceivedInOrder
<1>29. ASSUME NEW x \in {"producer", "isr"}, SetIER(x) PROVE ReceivedInOrder'
  BY <1>29, <1>a DEF SetIER, EnableETHREI, ReceivedInOrder
<1>30. CASE UNCHANGED vars
  BY <1>30, <1>a DEF vars, ReceivedInOrder
<1> QED BY <1>1, <1>2, <1>3, <1>4, <1>5, <1>6, <1>7, <1>8, <1>9, <1>10, <1>11, <1>12, <1>13,
          <1>14, <1>15, <1>16, <1>17, <1>18, <1>19, <1>20, <1>21, <1>22, <1>23, <1>24, <1>25,
          <1>26, <1>27, <1>28, <1>29, <1>30, Steps

LEMMA OneConsumerHolds == UartInv /\ [Next]_vars => (~overlap => OneConsumer)'
<1> SUFFICES ASSUME UartInv, [Next]_vars PROVE (~overlap => OneConsumer)'
  OBVIOUS
<1> USE DEF txq, uart, client, locals, Places, TxPlaces, IsrPlaces, Draining, ProducerPlaces,
           Context, Goto
<1>a. ~overlap => OneConsumer
  BY DEF UartInv
<1>b. /\ Locked /\ SnapOfTail /\ Kept /\ Places
      /\ n \in [Context -> Nat] /\ c \in [Context -> 0 .. MaxSent] /\ snap \in Slot \X Slot
      /\ head \in Slot /\ tail \in Slot /\ sentN \in Nat /\ overlap \in BOOLEAN
      /\ wire \in Seq(0 .. MaxSent) /\ thr \in Seq(0 .. MaxSent)
  BY BoundAssumption DEF UartInv, Types, TypeOK
<1>c. Places'
  BY PlacesHold
<1>1. CASE Transmit
  <2>1. UNCHANGED <<txq, pc, n, c, snap, overlap>> /\ wire' = Append(wire, Head(thr)) /\ thr' = Tail(thr) /\ thr # <<>>
    BY <1>1 DEF Transmit, THRE
  <2>2. wire' \o thr' = wire \o thr
    BY <1>b, <2>1, HeadMoves
  <2> QED BY <1>a, <2>1, <2>2 DEF OneConsumer, Position, Left, ChunkEnd, queue_empty
<1>2. CASE Arrive
  BY <1>2, <1>a, <1>b, <1>c DEF Arrive, OneConsumer, Position, Left, ChunkEnd, queue_empty
<1>3. CASE Write
  <2> SUFFICES ASSUME ~overlap PROVE OneConsumer'
    BY <1>3 DEF Write
  <2>1. /\ tail' = queue_wrap(tail + 1) /\ tail # queue_wrap(head - 1) /\ sentN' = sentN + 1
        /\ buf' = [buf EXCEPT ![tail] = sentN + 1] /\ UNCHANGED <<head, wire, thr, n, c, snap>>
        /\ pc["producer"] = "idle" /\ pc' = [pc EXCEPT !["producer"] = "notify"]
    BY <1>3 DEF Write
  <2>2. OneConsumer /\ buf \in [Slot -> 0 .. MaxSent] /\ Left(head) \in Nat
    BY <1>a, GoneOut DEF UartInv, Types, TypeOK
  <2>3. Left(head)' = Left(head) + 1 /\ head' # tail'
    <3>1. /\ tail' = IF tail = Size - 1 THEN 0 ELSE tail + 1
          /\ tail # IF head = 0 THEN Size - 1 ELSE head - 1
      BY <1>b, <2>1, Wraps
    <3>2. Size \in Nat \ {0} /\ head \in 0 .. Size - 1 /\ tail \in 0 .. Size - 1 /\ head' = head
      BY <1>b, <2>1, SizeAssumption DEF Slot
    <3>3. Left(head)' = IF head <= tail' THEN tail' - head ELSE tail' - head + Size
      BY <3>2 DEF Left
    <3> QED BY <3>1, <3>2, <3>3 DEF Left
  <2>4. Position = head /\ Position' = head
    BY <1>b, <2>1 DEF Position
  <2>5. \A x \in Context : pc'[x] = "pop" => head # tail /\ c[x] = buf'[head]
    <3>1. \A x \in Context : pc'[x] = "pop" => pc[x] = "pop"
      BY <1>b, <2>1
    <3>2. head # tail => buf'[head] = buf[head]
      BY <1>b, <2>1, <2>2
    <3> QED BY <2>2, <3>1, <3>2 DEF OneConsumer, queue_empty
  <2>6. InOrderTo(wire \o thr, sentN + 1 - (Left(head) + 1))
    BY <1>b, <2>2, <2>4 DEF OneConsumer
  <2>7. Left(head) <= sentN /\ Left(Position)' = Left(head) + 1
    BY <2>1, <2>2, <2>3, <2>4 DEF OneConsumer
  <2>8. pc'["producer"] = "notify"
    BY <1>b, <2>1
  <2>9. sentN + 1 - (Left(head) + 1) = sentN' - Left(Position)' /\ Left(head)' <= sentN'
    <3>1. sentN \in Nat /\ Left(head) \in Nat /\ sentN' = sentN + 1
      BY <1>b, <2>1, <2>2
    <3>2. Left(head)' = Left(head) + 1 /\ Left(Position)' = Left(head) + 1 /\ Left(head) <= sentN
      BY <2>3, <2>7
    <3> QED BY <3>1, <3>2
  <2>10. pc'["producer"] \notin Draining /\ UNCHANGED <<head, c, wire, thr>>
    BY <2>1, <2>8
  <2>11. InOrderTo(wire' \o thr', sentN' - Left(Position)')
    BY <2>6, <2>9, <2>10
  <2> HIDE DEF Left, Position
  <2> QED BY <2>3, <2>5, <2>9, <2>10, <2>11 DEF OneConsumer, queue_empty
<1>4. CASE NotifyConsumer
  BY <1>4, <1>a, <1>b, <1>c DEF NotifyConsumer, OneConsumer, Position, Left, ChunkEnd, queue_empty
<1>5. CASE CallbackLock
  BY <1>5, <1>a, <1>b, <1>c DEF CallbackLock, Lock, OneConsumer, Position, Left, ChunkEnd, queue_empty
<1>6. CASE CallbackUnlock
  BY <1>6, <1>a, <1>b, <1>c DEF CallbackUnlock, Unlock, OneConsumer, Position, Left, ChunkEnd, queue_empty
<1>7. CASE DrainStart
  BY <1>7, <1>a, <1>b, <1>c DEF DrainStart, OneConsumer, Position, Left, ChunkEnd, queue_empty
<1>8. CASE DrainChunk
  <2> SUFFICES ASSUME ~overlap PROVE OneConsumer'
    BY <1>8 DEF DrainChunk
  <2>1. /\ UNCHANGED <<txq, wire, thr, c, snap>> /\ n' = [n EXCEPT !["producer"] = head]
        /\ pc["producer"] = "chunk" /\ pc' = [pc EXCEPT !["producer"] = "tx"]
    BY <1>8, GoneOut DEF DrainChunk
  <2>2. head \in head .. ChunkEnd
    BY <1>b, <2>1, GoneOut, SizeAssumption DEF ChunkEnd, Slot
  <2>3. Position = head /\ Position' = head
    BY <1>b, <2>1 DEF Position
  <2>4. UNCHANGED <<Left(head), ChunkEnd>> /\ Left(Position)' = Left(Position)
    BY <2>1, <2>3 DEF Left, ChunkEnd
  <2>5. n'["producer"] = head
    BY <1>b, <2>1
  <2>6. \A x \in Context : pc'[x] = "pop" => pc[x] = "pop"
    BY <1>b, <2>1
  <2>7. pc'["isr"] = pc["isr"] /\ pc'["producer"] = "tx"
    BY <1>b, <2>1
  <2> HIDE DEF Left, Position, ChunkEnd
  <2> QED BY <1>a, <2>1, <2>2, <2>4, <2>5, <2>6, <2>7 DEF OneConsumer, queue_empty
<1>9. CASE DrainTx
  <2> SUFFICES ASSUME ~overlap PROVE OneConsumer'
    BY <1>9 DEF DrainTx, StoreTHR
  <2>1. UNCHANGED <<txq, c, snap>> /\ pc["producer"] = "tx" /\ OneConsumer
    BY <1>9, <1>a DEF DrainTx, StoreTHR
  <2>2. UNCHANGED <<Left(head), ChunkEnd>>
    BY <2>1 DEF Left, ChunkEnd
  <2>3. CASE n["producer"] = ChunkEnd /\ pc' = [pc EXCEPT !["producer"] = "sethead"] /\ UNCHANGED <<uart, n>>
    <3>1. UNCHANGED <<Position, Left(Position)>>
      BY <1>b, <2>1, <2>3 DEF Position, Left
    <3>2. \A x \in Context : pc'[x] = "pop" => pc[x] = "pop"
      BY <1>b, <2>3
    <3>3. pc'["isr"] = pc["isr"] /\ pc'["producer"] = "sethead"
      BY <1>b, <2>3
    <3> HIDE DEF Left, Position, ChunkEnd
    <3> QED BY <2>1, <2>2, <2>3, <3>1, <3>2, <3>3 DEF OneConsumer, queue_empty
  <2>4. CASE UNCHANGED <<pc, wire>>
    <3>1. InOrderTo(wire' \o thr', sentN - Left(n'["producer"])) /\ n'["producer"] \in head .. ChunkEnd
      BY <1>9, <2>4, DrainsNext
    <3>2. Left(Position)' = Left(n'["producer"])
      BY <1>b, <2>1, <2>4 DEF Position, Left
    <3> HIDE DEF Left, Position, ChunkEnd
    <3> QED BY <2>1, <2>2, <2>4, <3>1, <3>2 DEF OneConsumer, queue_empty
  <2> QED BY <1>9, <2>3, <2>4, Drained
<1>10. CASE DrainSetHead
  <2> SUFFICES ASSUME ~overlap PROVE OneConsumer'
    BY <1>10 DEF DrainSetHead
  <2>1. /\ UNCHANGED <<buf, tail, sentN, wire, thr, c, n>> /\ head' = queue_wrap(ChunkEnd)
        /\ snap' = <<queue_wrap(ChunkEnd), snap[2]>> /\ pc["producer"] = "sethead"
        /\ \E l \in {"chunk", "idle"} : pc' = [pc EXCEPT !["producer"] = l]
    BY <1>10 DEF DrainSetHead
  <2>2. /\ OneConsumer /\ n["producer"] = ChunkEnd /\ n["producer"] \in head .. ChunkEnd
        /\ pc["isr"] # "pop" /\ Position = ChunkEnd
    BY <1>a, <2>1 DEF OneConsumer, Position
  <2>3. Left(ChunkEnd) <= Left(head) /\ Left(head') = Left(ChunkEnd) /\ Left(head) <= sentN
    /\ Left(ChunkEnd) \in Nat /\ Left(head) \in Nat /\ sentN \in Nat
    BY <2>1, <2>2, GoneOut, InChunk
  <2>4. \A x \in Context : pc'[x] # "pop"
    BY <1>b, <1>c, <2>1, <2>2
  <2>5. pc'["producer"] \in {"chunk", "idle"} /\ snap'[1] = head'
    BY <1>b, <2>1
  <2>6. Left(head)' = Left(head') /\ Left(Position)' = Left(head')
    BY <2>1, <2>5 DEF Left, Position
  <2>7. InOrderTo(wire' \o thr', sentN' - Left(Position)')
    BY <2>1, <2>2, <2>3, <2>6 DEF OneConsumer
  <2>8. Left(head)' <= sentN'
    BY <2>1, <2>3, <2>6
  <2>9. pc'["isr"] # "pop"
    BY <2>4
  <2> HIDE DEF Left, Position, ChunkEnd
  <2> QED BY <2>4, <2>5, <2>7, <2>8, <2>9 DEF OneConsumer
<1>11. CASE PolledTx
  <2> SUFFICES ASSUME ~overlap PROVE OneConsumer'
    BY <1>11 DEF PolledTx, StoreTHR
  <2>1. UNCHANGED <<txq, wire, n, c, snap, pc>>
    BY <1>11 DEF PolledTx, StoreTHR
  <2>2. InOrderTo(wire' \o thr', sentN - Left(Position))
    BY <1>11, PrintsBetween
  <2>3. UNCHANGED <<Left(head), Left(Position), ChunkEnd>>
    BY <2>1 DEF Left, Position, ChunkEnd
  <2> HIDE DEF Left, Position, ChunkEnd
  <2> QED BY <1>a, <2>1, <2>2, <2>3 DEF OneConsumer, queue_empty
<1>12. CASE Interrupt
  BY <1>12, <1>a, <1>b, <1>c DEF Interrupt, OneConsumer, Position, Left, ChunkEnd, queue_empty
<1>13. CASE IsrLock
  BY <1>13, <1>a, <1>b, <1>c DEF IsrLock, Lock, OneConsumer, Position, Left, ChunkEnd, queue_empty
<1>14. CASE IsrReadIIR
  BY <1>14, <1>a, <1>b, <1>c DEF IsrReadIIR, OneConsumer, Position, Left, ChunkEnd, queue_empty
<1>15. CASE IsrReadRBR
  BY <1>15, <1>a, <1>b, <1>c DEF IsrReadRBR, OneConsumer, Position, Left, ChunkEnd, queue_empty
<1>16. CASE IsrRxDone
  BY <1>16, <1>a, <1>b, <1>c DEF IsrRxDone, OneConsumer, Position, Left, ChunkEnd, queue_empty
<1>17. CASE IsrUnlock
  BY <1>17, <1>a, <1>b, <1>c DEF IsrUnlock, Unlock, OneConsumer, Position, Left, ChunkEnd, queue_empty
<1>18. CASE IsrNotify
  BY <1>18, <1>a, <1>b, <1>c DEF IsrNotify, OneConsumer, Position, Left, ChunkEnd, queue_empty
<1>19. CASE IsrReenable
  BY <1>19, <1>a, <1>b, <1>c DEF IsrReenable, EnableETHREI, OneConsumer, Position, Left, ChunkEnd, queue_empty
<1>20. CASE Receive
  BY <1>20, <1>a, <1>b, <1>c DEF Receive, OneConsumer, Position, Left, ChunkEnd, queue_empty
<1>21. CASE SetTxQueue
  BY <1>21, <1>a, <1>b, <1>c DEF SetTxQueue, Lock, OneConsumer, Position, Left, ChunkEnd, queue_empty
<1>22. CASE SetTxQueueCheck
  BY <1>22, <1>a, <1>b, <1>c DEF SetTxQueueCheck, Unlock, EnableETHREI, OneConsumer, Position, Left, ChunkEnd, queue_empty
<1>23. CASE ClearTxQueue
  BY <1>23, <1>a, <1>b, <1>c DEF ClearTxQueue, OneConsumer, Position, Left, ChunkEnd, queue_empty
<1>24. CASE SetRxQueue
  BY <1>24, <1>a, <1>b, <1>c DEF SetRxQueue, OneConsumer, Position, Left, ChunkEnd, queue_empty
<1>25. CASE ClearRxQueue
  BY <1>25, <1>a, <1>b, <1>c DEF ClearRxQueue, OneConsumer, Position, Left, ChunkEnd, queue_empty
<1>26. ASSUME NEW x \in {"producer", "isr"}, CheckTHRE(x) PROVE (~overlap => OneConsumer)'
  BY <1>26, <1>a, <1>b, <1>c DEF CheckTHRE, OneConsumer, Position, Left, ChunkEnd, queue_empty
<1>27. ASSUME NEW x \in {"producer", "isr"}, ReadChar(x) PROVE (~overlap => OneConsumer)'
  <2> SUFFICES ASSUME ~overlap' PROVE OneConsumer'
    OBVIOUS
  <2>1. /\ UNCHANGED <<txq, wire, thr, n, snap>> /\ ~overlap /\ pc["producer"] \notin Draining /\ pc[x] = "readchar"
        /\ \/ UNCHANGED c /\ \E l \in {"enable", "disable"} : pc' = [pc EXCEPT ![x] = l]
           \/ head # tail /\ c' = [c EXCEPT ![x] = buf[head]] /\ pc' = [pc EXCEPT ![x] = "pop"]
    BY <1>27, <1>b DEF ReadChar, queue_empty
  <2>2. x \in Context /\ pc'["producer"] \notin Draining /\ Position = head /\ Position' = head
    BY <1>27, <1>b, <2>1 DEF Position
  <2>3. UNCHANGED <<Left(head), Left(Position)>>
    BY <2>1, <2>2 DEF Left
  <2>4. \A y \in Context : pc'[y] = "pop" => head # tail /\ c'[y] = buf[head]
    BY <1>a, <1>b, <2>1, <2>2 DEF OneConsumer, queue_empty
  <2> HIDE DEF Left, Position
  <2> QED BY <1>a, <2>1, <2>2, <2>3, <2>4 DEF OneConsumer, queue_empty
<1>28. ASSUME NEW x \in {"producer", "isr"}, PopChar(x) PROVE (~overlap => OneConsumer)'
  <2> SUFFICES ASSUME ~overlap PROVE OneConsumer'
    BY <1>28 DEF PopChar, StoreTHR
  <2>1. /\ UNCHANGED <<buf, tail, sentN, c, snap>> /\ x \in Context /\ pc[x] = "pop"
        /\ pc' = [pc EXCEPT ![x] = "readchar"]
    BY <1>28 DEF PopChar, StoreTHR
  <2>2. /\ InOrderTo(wire' \o thr', sentN - Left(head')) /\ Left(head') <= Left(head)
        /\ pc["producer"] \notin Draining
    BY <1>28, PopsNext
  <2>3. \A y \in Context : pc'[y] # "pop"
    BY <1>b, <2>1 DEF Locked, Inside
  <2>4. pc'["producer"] \notin Draining
    BY <1>b, <2>1, <2>2
  <2>5. Left(head)' = Left(head') /\ Left(Position)' = Left(head')
    BY <2>1, <2>4 DEF Left, Position
  <2>6. Left(head)' <= sentN'
    <3>1. Left(head) \in Nat /\ sentN \in Nat /\ Left(head) <= sentN /\ head' \in Slot
      BY <1>28, GoneOut, WrapInSlot, SizeAssumption DEF PopChar, Slot
    <3>2. Left(head') \in Int
      <4>1. head' \in Int /\ tail \in Int /\ Size \in Int
        BY <1>b, <3>1, SizeAssumption DEF Slot
      <4> QED BY <4>1 DEF Left
    <3> QED BY <2>1, <2>2, <2>5, <3>1, <3>2
  <2> HIDE DEF Left, Position
  <2> QED BY <2>1, <2>2, <2>3, <2>4, <2>5, <2>6 DEF OneConsumer
<1>29. ASSUME NEW x \in {"producer", "isr"}, SetIER(x) PROVE (~overlap => OneConsumer)'
  BY <1>29, <1>a, <1>b, <1>c DEF SetIER, EnableETHREI, OneConsumer, Position, Left, ChunkEnd, queue_empty
<1>30. CASE UNCHANGED vars
  BY <1>30, <1>a DEF vars, OneConsumer, Position, Left, ChunkEnd, queue_empty
<1> QED BY <1>1, <1>2, <1>3, <1>4, <1>5, <1>6, <1>7, <1>8, <1>9, <1>10, <1>11, <1>12, <1>13,
          <1>14, <1>15, <1>16, <1>17, <1>18, <1>19, <1>20, <1>21, <1>22, <1>23, <1>24, <1>25,
          <1>26, <1>27, <1>28, <1>29, <1>30, Steps

-----------------------------------------------------------------------------
(* The theorems                                                            *)

LEMMA InitHolds == Init => UartInv
<1> SUFFICES ASSUME Init PROVE UartInv
  OBVIOUS
<1>1. /\ Size \in Nat \ {0} /\ TxFifo \in Nat \ {0}
      /\ RxCapacity \in Nat /\ MaxSent \in Nat /\ MaxPrinted \in Nat /\ MaxArrived \in Nat
  BY SizeAssumption, TxFifoAssumption, BoundAssumption
<1>2. /\ wire \o thr = <<>> /\ delivered \o rxq = <<>> /\ Len(wire \o thr) = 0
      /\ Len(delivered \o rxq) = 0 /\ Len(thr) = 0 /\ Len(rbr) = 0 /\ Len(rxq) = 0 /\ Len(delivered) = 0
  BY DEF Init
<1>3. Types
  <2>1. Places
    BY DEF Init, Places, IsrPlaces, TxPlaces, ProducerPlaces, Draining, Context
  <2>2. 0 \in Slot /\ 0 \in 0 .. MaxSent /\ 0 \in 0 .. MaxPrinted /\ 0 \in 0 .. MaxArrived /\ 0 \in Nat
    BY <1>1 DEF Slot
  <2>3. <<>> \in Seq(0 .. MaxSent) /\ <<>> \in Seq(1 .. MaxArrived)
    OBVIOUS
  <2>4. TypeOK
    <3>1. /\ buf \in [Slot -> 0 .. MaxSent] /\ head \in Slot /\ tail \in Slot
          /\ sentN \in 0 .. MaxSent /\ printed \in 0 .. MaxPrinted
      BY <2>2 DEF Init, PrintByte
    <3>2. /\ thr \in Seq(0 .. MaxSent) /\ wire \in Seq(0 .. MaxSent)
          /\ rbr \in Seq(1 .. MaxArrived) /\ rxq \in Seq(1 .. MaxArrived)
          /\ delivered \in Seq(1 .. MaxArrived) /\ Len(rxq) <= RxCapacity
      BY <1>1, <1>2, <2>3 DEF Init
    <3>3. /\ lock \in Context \union {"free"} /\ notify \subseteq {"rx", "tx"}
          /\ {threPending, ETHREI, ERDAI, cdtx, data_avail, cdrx, unexpected, overlap} \subseteq BOOLEAN
      BY DEF Init
    <3> QED BY <3>1, <3>2, <3>3 DEF TypeOK
  <2> QED BY <2>1, <2>2, <2>4 DEF Init, Types, PrintByte
<1>4. Locked /\ RxAttached /\ SnapOfTail /\ TxAttached
  BY DEF Init, Locked, Inside, TxPlaces, RxAttached, SnapOfTail, Draining, TxAttached, Context
<1>5. FillsCounted /\ InterruptComing /\ Watched
  BY <1>1, <1>2 DEF Init, FillsCounted, InterruptComing, Watched, Context, queue_empty
<1>6. ReceivedInOrder
  BY <1>1, <1>2 DEF Init, ReceivedInOrder, Rising, Below
<1>7. Kept
  BY <1>1 DEF Init, Kept, Dist, Slot
<1>8. OneConsumer
  <2>1. Position = 0 /\ Left(0) = 0 /\ head = 0 /\ sentN = 0 /\ \A x \in Context : pc[x] = "idle"
    BY <1>1 DEF Init, Position, Left, Context
  <2>2. InOrderTo(wire \o thr, sentN - Left(Position))
    BY <1>2, <2>1 DEF InOrderTo
  <2> QED BY <2>1, <2>2 DEF OneConsumer, Draining, Context
<1> QED BY <1>3, <1>4, <1>5, <1>6, <1>7, <1>8 DEF UartInv

LEMMA NextHolds == UartInv /\ [Next]_vars => UartInv'
  BY PlacesHold, TypesHold, LockedHolds, FillsCountedHolds, ReceivedInOrderHolds, RxAttachedHolds,
     SnapOfTailHolds, KeptHolds, OneConsumerHolds, TxAttachedHolds, InterruptComingHolds, WatchedHolds
     DEF UartInv

LEMMA UartInvariance == Spec => []UartInv
<1>1. Init => UartInv
  BY InitHolds
<1>2. UartInv /\ [Next]_vars => UartInv'
  BY NextHolds
<1> QED BY <1>1, <1>2, PTL DEF Spec

(* A received byte never meets the "should never happen" branch, and both  *)
(* FIFOs are accounted for, whether or not a client detaches in step       *)
(* (ns16550.c:65-86, 155-172, 269-301).                                    *)
THEOREM FifosAreAccounted == Spec => [](FifosAccounted /\ ShouldNeverHappen)
<1>1. UartInv => FifosAccounted /\ ShouldNeverHappen
  BY DEF UartInv, FifosAccounted, NoFifoOverrun, RxAccounted, ShouldNeverHappen, RxAttached,
         FillsCounted, ReceivedInOrder, Rising
<1> QED BY <1>1, UartInvariance, PTL

(* When a client detaches a queue only while no callback and no handler    *)
(* runs, both act for attached queues alone (ns16550.c:91, 167-187).       *)
THEOREM QueuesAreAttachedAsUsed ==
    ASSUME DetachSync = TRUE
    PROVE  Spec => []AttachedAsUsed
<1>1. UartInv => AttachedAsUsed
  BY DEF UartInv, Types, AttachedAsUsed, ShouldNeverHappen, NotifiesAQueue, RxAttached, TxAttached
<1> QED BY <1>1, UartInvariance, PTL

(* Under the same condition no byte is left behind in an attached queue:   *)
(* when nobody is on the way, the interrupt is enabled and will come       *)
(* (ns16550.c:65-86, 186-195, 216-224).                                    *)
THEOREM NothingIsStranded ==
    ASSUME DetachSync = TRUE
    PROVE  Spec => []NotStranded
<1>1. UartInv => NotStranded
  <2> SUFFICES ASSUME UartInv, cdtx, ~queue_empty, lock = "free", pc["producer"] = "idle", pc["isr"] = "idle"
               PROVE  ETHREI /\ (threPending \/ ~THRE)
    BY DEF NotStranded
  <2>1. Locked /\ InterruptComing /\ Watched
    BY DEF UartInv
  <2>2. pc["admin"] # "attach"
    BY <2>1 DEF Locked, Inside, Context
  <2>3. ETHREI
    BY <2>1, <2>2 DEF Watched, TxPlaces
  <2> QED BY <2>1, <2>3 DEF InterruptComing, Coming
<1> QED BY <1>1, UartInvariance, PTL

(* As long as no two contexts have consumed the queue at once, the bytes   *)
(* of its producer go out once, in order and without a gap, whoever else   *)
(* prints, detaches and attaches meanwhile (ns16550.c:65-86, queue.c:115). *)
THEOREM TheWireIsInOrder == Spec => []WireInOrderAlone
<1>1. UartInv => WireInOrderAlone
  <2> SUFFICES ASSUME UartInv, ~overlap PROVE WireInOrder
    BY DEF WireInOrderAlone
  <2> DEFINE sent == wire \o thr
             d == sentN - Left(Position)
  <2>1. d \in Nat /\ InOrderTo(sent, d)
    BY GoneOut DEF OneConsumer
  <2>2. DOMAIN sent = 1 .. Len(sent) /\ Len(sent) \in Nat
    <3>1. sent \in Seq(0 .. MaxSent)
      BY ConcatProperties DEF UartInv, Types, TypeOK
    <3> QED BY <3>1, LenProperties
  <2> HIDE DEF sent, d
  <2>3. \A i, j \in DOMAIN sent : i < j /\ sent[j] # 0 => sent[i] < sent[j]
    BY <2>1, <2>2 DEF InOrderTo
  <2>4. ASSUME NEW i \in DOMAIN sent, NEW b \in 1 .. sent[i] PROVE \E j \in 1 .. i : sent[j] = b
    <3>1. sent[i] \in 0 .. d
      BY <2>1, <2>2 DEF InOrderTo
    <3>2. b \in 1 .. d
      BY <2>1, <3>1
    <3>3. PICK j \in 1 .. Len(sent) : sent[j] = b
      BY <2>1, <3>2 DEF InOrderTo
    <3>4. ~(i < j)
      BY <2>1, <2>2, <2>3, <3>1, <3>2, <3>3
    <3>5. j \in 1 .. i
      BY <2>2, <3>3, <3>4
    <3> QED BY <3>3, <3>5
  <2> QED BY <2>3, <2>4 DEF WireInOrder, sent, PrintByte
<1> QED BY <1>1, UartInvariance, PTL

=============================================================================
