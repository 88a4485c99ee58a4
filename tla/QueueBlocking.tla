---------------------------- MODULE QueueBlocking ----------------------------
(***************************************************************************)
(* The blocking calls of lib/queue.c: a writer thread and a reader thread  *)
(* that sleep on one queue and wake each other through its callbacks.      *)
(*                                                                         *)
(* The queue itself is the bounded FIFO that SpscQueue implements.  The    *)
(* scheduler is the client's: of it, libos uses three calls, modelled from *)
(* that use.  libos_prepare_to_block announces that the thread is about to *)
(* sleep, libos_block sleeps unless a libos_unblock came in between.  The  *)
(* callbacks are those of a thread that waits for the queue: they unblock  *)
(* it.                                                                     *)
(***************************************************************************)
EXTENDS Integers, Sequences

CONSTANTS
    Capacity,   \* the bytes the queue holds, its size less one
    Byte,       \* the values of a byte
    Calls,      \* the calls the writer makes: "writechar", "write"
    MaxLen,     \* the longest buffer of a call
    MaxSent     \* bound: the bytes the writer is asked to send, in all

ASSUME CapacityAssumption == Capacity \in Nat \ {0}
ASSUME MaxLenAssumption == MaxLen \in Nat \ {0}

Thread == {"writer", "reader"}

VARIABLES
    items,      \* the bytes in the queue, oldest first
    sched,      \* per thread: "running", "preparing" to block or "asleep"
    pc,         \* per thread: where it is in its call
    call,       \* the writer's call
    wbuf, wlen, \* queue_write_blocking: buf and what is left of len
    rlen,       \* queue_read_blocking: what is left of len
    sent,       \* every byte the writer's calls were given, in order
    received,   \* every byte the reader's calls returned, in order
    split       \* history: some queue_write found space for a part only

writerVars == <<call, wbuf, wlen, sent, split>>
readerVars == <<rlen, received>>
vars == <<items, sched, pc, writerVars, readerVars>>

Least(a, b) == IF a <= b THEN a ELSE b

Init ==
    /\ items = <<>>
    /\ sched = [t \in Thread |-> "running"]
    /\ pc = [t \in Thread |-> "idle"]
    /\ call = "none" /\ wbuf = <<>> /\ wlen = 0 /\ sent = <<>> /\ split = FALSE
    /\ rlen = 0 /\ received = <<>>

Goto(t, l) == pc' = [pc EXCEPT ![t] = l]

-----------------------------------------------------------------------------
(* The scheduler                                                           *)

libos_prepare_to_block(t) == sched' = [sched EXCEPT ![t] = "preparing"]

libos_unblock(t) == sched' = [sched EXCEPT ![t] = "running"]

(* libos_block sleeps, or returns at once when it was unblocked meanwhile. *)
libos_block(t) ==
    sched' = [sched EXCEPT ![t] = IF @ = "preparing" THEN "asleep" ELSE @]

(* The head of each loop: the thread announces that it may block.          *)
Prepare(t) ==
    /\ pc[t] = "prepare" /\ sched[t] # "asleep"
    /\ libos_prepare_to_block(t)
    /\ Goto(t, "try")
    /\ UNCHANGED <<items, writerVars, readerVars>>

Block(t) ==
    /\ pc[t] = "block"
    /\ libos_block(t)
    /\ Goto(t, "prepare")
    /\ UNCHANGED <<items, writerVars, readerVars>>

-----------------------------------------------------------------------------
(* The writer                                                              *)

Buffers == UNION {[1..n -> Byte] : n \in 1..MaxLen}

queue_writechar_blocking(c) ==
    /\ "writechar" \in Calls
    /\ call' = "writechar" /\ wbuf' = <<c>> /\ wlen' = 1
    /\ sent' = Append(sent, c)

queue_write_blocking(data) ==
    /\ "write" \in Calls
    /\ call' = "write" /\ wbuf' = data /\ wlen' = Len(data)
    /\ sent' = sent \o data

WriteCall ==
    /\ pc["writer"] = "idle"
    /\ \/ \E c \in Byte : queue_writechar_blocking(c)
       \/ \E data \in Buffers : queue_write_blocking(data)
    /\ Len(sent') <= MaxSent
    /\ Goto("writer", "prepare")
    /\ UNCHANGED <<items, sched, split, readerVars>>

(* queue_writechar, or queue_write of the first wlen bytes of wbuf: the    *)
(* loop takes what was written off the length, and passes the same buffer. *)
TryWrite ==
    /\ pc["writer"] = "try"
    /\ LET n == Least(Capacity - Len(items), wlen) IN
       /\ items' = items \o SubSeq(wbuf, 1, n)
       /\ wlen' = wlen - n
       /\ split' = (split \/ n \in 1 .. wlen - 1)
       /\ Goto("writer", IF n > 0 THEN "notify" ELSE "block")
    /\ UNCHANGED <<sched, call, wbuf, sent, readerVars>>

(* queue_notify_consumer, and the loop's condition.                        *)
NotifyConsumer ==
    /\ pc["writer"] = "notify"
    /\ libos_unblock("reader")
    /\ Goto("writer", IF wlen > 0 THEN "prepare" ELSE "unblock")
    /\ UNCHANGED <<items, writerVars, readerVars>>

(* The writer is no longer about to block.                                 *)
WriteReturn ==
    /\ pc["writer"] = "unblock"
    /\ libos_unblock("writer")
    /\ Goto("writer", "idle")
    /\ call' = "none" /\ wbuf' = <<>>
    /\ UNCHANGED <<items, wlen, sent, split, readerVars>>

-----------------------------------------------------------------------------
(* The reader                                                              *)

(* queue_readchar_blocking is the case len = 1.                            *)
queue_read_blocking(len) ==
    /\ pc["reader"] = "idle"
    /\ rlen' = len
    /\ Goto("reader", "prepare")
    /\ UNCHANGED <<items, sched, writerVars, received>>

(* Mutant: the bytes are copied and stay in the queue.                     *)
TryReadPeeking ==
    /\ pc["reader"] = "try"
    /\ LET n == Least(Len(items), rlen) IN
       /\ received' = received \o SubSeq(items, 1, n)
       /\ rlen' = rlen - n
       /\ Goto("reader", IF n > 0 THEN "notify" ELSE "block")
    /\ UNCHANGED <<items, sched, writerVars>>

TryRead ==
    /\ pc["reader"] = "try"
    /\ LET n == Least(Len(items), rlen) IN
       /\ items' = SubSeq(items, n + 1, Len(items))
       /\ received' = received \o SubSeq(items, 1, n)
       /\ rlen' = rlen - n
       /\ Goto("reader", IF n > 0 THEN "notify" ELSE "block")
    /\ UNCHANGED <<sched, writerVars>>

(* Mutant: the writer is not told of the space.                            *)
NotifyNobody ==
    /\ pc["reader"] = "notify"
    /\ Goto("reader", IF rlen > 0 THEN "prepare" ELSE "idle")
    /\ UNCHANGED <<items, sched, writerVars, readerVars>>

(* queue_notify_producer, and the loop's condition.  The reader returns    *)
(* without unblocking itself.                                              *)
NotifyProducer ==
    /\ pc["reader"] = "notify"
    /\ libos_unblock("writer")
    /\ Goto("reader", IF rlen > 0 THEN "prepare" ELSE "idle")
    /\ UNCHANGED <<items, writerVars, readerVars>>

-----------------------------------------------------------------------------

Writer == \/ Prepare("writer") \/ Block("writer")
          \/ TryWrite \/ NotifyConsumer \/ WriteReturn

ReadCall == \E len \in 1..MaxLen : queue_read_blocking(len)

Reader == \/ Prepare("reader") \/ Block("reader")
          \/ TryRead \/ NotifyProducer

Next == WriteCall \/ Writer \/ ReadCall \/ Reader

(* A thread that is awake runs, and the reader's client reads on.          *)
Fairness == WF_vars(Writer) /\ WF_vars(Reader) /\ WF_vars(ReadCall)

Spec == Init /\ [][Next]_vars /\ Fairness

-----------------------------------------------------------------------------

TypeOK ==
    /\ items \in Seq(Byte) /\ Len(items) <= Capacity
    /\ sched \in [Thread -> {"running", "preparing", "asleep"}]
    /\ pc \in [Thread -> {"idle", "prepare", "try", "notify", "block", "unblock"}]
    /\ call \in {"none", "writechar", "write"}
    /\ wbuf \in Seq(Byte) /\ sent \in Seq(Byte) /\ received \in Seq(Byte)
    /\ wlen \in 0..MaxLen /\ rlen \in 0..MaxLen /\ split \in BOOLEAN

(* No lost wakeup: a thread only sleeps on a queue it has something to     *)
(* wait for, unless the other side is just about to wake it (queue.c:94-   *)
(* 106, 112-125, 179-192, 212-224).                                        *)
NoLostWakeup ==
    /\ sched["reader"] = "asleep" /\ items # <<>> => pc["writer"] = "notify"
    /\ sched["writer"] = "asleep" /\ Len(items) < Capacity => pc["reader"] = "notify"

(* Every byte a write was given is read, queued or still to be written.    *)
BytesConserved ==
    Len(received) + Len(items) + wlen = Len(sent)

(* What has been read, followed by what is in the queue, is the beginning  *)
(* of what the writer's calls were given: "Writes len bytes to the queue   *)
(* ... until all requested bytes have been written" (queue.h:145-155).     *)
StreamInOrder ==
    LET through == received \o items
    IN  /\ Len(through) <= Len(sent)
        /\ through = SubSeq(sent, 1, Len(through))

(* The same, as long as no write had to be split.                          *)
WholeWritesInOrder == ~split => StreamInOrder

(* Every write returns, as long as the reader's client reads.              *)
WriteReturns == pc["writer"] # "idle" ~> pc["writer"] = "idle"

(* Every byte given to a write is read in the end.                         *)
AllDelivered ==
    \A n \in 1..MaxSent : Len(sent) >= n ~> Len(received) >= n
=============================================================================
