------------------------------ MODULE ByteChan ------------------------------
(***************************************************************************)
(* The ePAPR byte channel driver, lib/byte-chan.c: its transmit and        *)
(* receive functions move a buffer through a channel of the hypervisor,    *)
(* a few bytes per hypercall.  The hypervisor is external.  Its receive    *)
(* call writes a whole chunk to the buffer whatever it received            *)
(* (include/libos/epapr_hcalls.h), so the model's buffer has room beyond   *)
(* what the caller asked for.                                              *)
(***************************************************************************)
LOCAL INSTANCE Integers
LOCAL INSTANCE Sequences

CONSTANTS
    Chunk,       \* bytes a hypercall moves at most: 16
    ChanSize,    \* bytes the channel holds
    MaxCount,    \* bound: the bytes of a call
    MaxBytes     \* bound: the bytes sent in all

ASSUME ChunkAssumption == Chunk \in Nat \ {0}
ASSUME ChanAssumption == ChanSize \in Nat /\ MaxCount \in Nat /\ MaxBytes \in Nat

(* Error codes of hypercalls (include/libos/hcall-errors.h).  They are      *)
(* numbers like the counts.                                                *)
EV_EIO == 3
EV_EAGAIN == 4

VARIABLES
    chan,        \* the bytes in the channel
    tx,          \* byte_chan_tx: what is left of buf, total, flags, the last ret
    rx,          \* byte_chan_rx: buf, total, what is left of count, flags
    txResult,    \* what the last byte_chan_tx returned
    rxResult,
    taken,       \* history: what the receiver's calls returned, in order
    first,       \* history: the number of the byte the current transmit began with
    next         \* history: the number of the next byte to send

chanVars == <<chan, tx, rx, txResult, rxResult, taken, first, next>>

Smaller(a, b) == IF a <= b THEN a ELSE b

Idle == -1          \* no call is under way, or none has returned yet

-----------------------------------------------------------------------------
(* The hypervisor (external)                                               *)

(* EV_BYTE_CHANNEL_SEND: what fits is taken; nothing and EAGAIN when full. *)
SendOutcomes(bytes) ==
    LET n == Smaller(Len(bytes), ChanSize - Len(chan))
    IN  {[sent |-> n, ret |-> IF n = 0 THEN EV_EAGAIN ELSE 0],
         [sent |-> 0, ret |-> EV_EIO]}

(* EV_BYTE_CHANNEL_RECEIVE: what there is, at most count.                  *)
ReceiveOutcomes(count) ==
    {[n |-> Smaller(count, Len(chan)), ret |-> 0], [n |-> 0, ret |-> EV_EIO]}

-----------------------------------------------------------------------------
(* byte_chan_tx.  The bytes are numbered as they are sent; a byte that did  *)
(* not get into the channel is sent again by the next call.                *)

StartTx(count, blocking) ==
    /\ tx.left = Idle /\ next + count <= MaxBytes
    /\ tx' = [buf |-> [i \in 1..count |-> next + i], left |-> count, total |-> 0,
              blocking |-> blocking, ret |-> 0]
    /\ first' = next
    /\ UNCHANGED <<chan, rx, txResult, rxResult, taken, next>>

(* Mutant: the buffer does not move on after a short send.                 *)
SendFromStart(sent) == tx.buf

Rest(sent) == SubSeq(tx.buf, sent + 1, Len(tx.buf))

TxStep ==
    /\ tx.left > 0
    /\ LET this == SubSeq(tx.buf, 1, Smaller(tx.left, Chunk))
       IN  \E o \in SendOutcomes(this) :
             /\ chan' = chan \o SubSeq(this, 1, o.sent)
             /\ tx' = [tx EXCEPT !.buf = Rest(o.sent), !.ret = o.ret,
                          !.total = @ + o.sent,
                          !.left = IF o.sent = 0 /\ ~(o.ret = EV_EAGAIN /\ tx.blocking)
                                   THEN 0 ELSE @ - o.sent]
    /\ UNCHANGED <<rx, txResult, rxResult, taken, first, next>>

TxReturn ==
    /\ tx.left = 0
    /\ txResult' = IF tx.ret # 0 /\ tx.total = 0 THEN tx.ret ELSE tx.total
    /\ next' = next + tx.total
    /\ tx' = [tx EXCEPT !.left = Idle]
    /\ UNCHANGED <<chan, rx, rxResult, taken, first>>

-----------------------------------------------------------------------------
(* byte_chan_rx.  With nothing received it goes round again, whether or    *)
(* not it may block.                                                       *)

StartRx(count) ==
    /\ rx.left = Idle
    /\ rx' = [buf |-> [i \in 1 .. MaxCount + Chunk |-> 0], left |-> count, total |-> 0,
              ret |-> 0]
    /\ UNCHANGED <<chan, tx, txResult, rxResult, taken, first, next>>

(* The chunk at buf: the bytes received, and what else the registers held. *)
Stored(n) ==
    [i \in DOMAIN rx.buf |->
        CASE i \in rx.total + 1 .. rx.total + n -> chan[i - rx.total]
          [] i \in rx.total + n + 1 .. rx.total + Chunk -> 0
          [] OTHER -> rx.buf[i]]

RxStep ==
    /\ rx.left > 0
    /\ \E o \in ReceiveOutcomes(Smaller(rx.left, Chunk)) :
         /\ chan' = SubSeq(chan, o.n + 1, Len(chan))
         /\ rx' = [rx EXCEPT !.buf = Stored(o.n), !.total = @ + o.n, !.ret = o.ret,
                      !.left = IF o.ret # 0 THEN 0 ELSE @ - o.n]
    /\ UNCHANGED <<tx, txResult, rxResult, taken, first, next>>

RxReturn ==
    /\ rx.left = 0
    /\ rxResult' = IF rx.ret # 0 /\ rx.total = 0 THEN rx.ret ELSE rx.total
    /\ taken' = taken \o SubSeq(rx.buf, 1, rx.total)
    /\ rx' = [rx EXCEPT !.left = Idle]
    /\ UNCHANGED <<chan, tx, txResult, first, next>>

ChanInit ==
    /\ chan = <<>> /\ taken = <<>> /\ first = 0 /\ next = 0
    /\ tx = [buf |-> <<>>, left |-> Idle, total |-> 0, blocking |-> FALSE, ret |-> 0]
    /\ rx = [buf |-> <<>>, left |-> Idle, total |-> 0, ret |-> 0]
    /\ txResult = Idle /\ rxResult = Idle

ChanNext ==
    \/ TxStep \/ TxReturn \/ RxStep \/ RxReturn
    \/ \E count \in 1..MaxCount, blocking \in BOOLEAN : StartTx(count, blocking)
    \/ \E count \in 1..MaxCount : StartRx(count)

-----------------------------------------------------------------------------

ChanSpec == ChanInit /\ [][ChanNext]_chanVars

(* Every byte goes through once and in order, wherever the hypervisor takes *)
(* or brings a part of a chunk or fails: what the receiver's calls stored,  *)
(* followed by what is in the channel, is what the sender's calls put in    *)
(* (byte-chan.c:49-62, 74-85).  A result is the number of bytes moved,      *)
(* unless none was: then it may be a code, though chardev.h:49 promises -1  *)
(* or 0.                                                                   *)
ChanExact ==
    LET through == taken \o SubSeq(rx.buf, 1, IF rx.left = Idle THEN 0 ELSE rx.total) \o chan
    IN  /\ through = [i \in 1..Len(through) |-> i]
        /\ Len(through) = IF tx.left = Idle THEN next ELSE first + tx.total
        /\ tx.left = Idle /\ txResult # Idle => next - first \in {0, txResult}
        /\ rx.left = Idle /\ rxResult # Idle => rx.total \in {0, rxResult}
=============================================================================
