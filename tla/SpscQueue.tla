------------------------------ MODULE SpscQueue ------------------------------
(***************************************************************************)
(* The lockless single-producer, single-consumer queue of lib/queue.c.     *)
(*                                                                         *)
(* The producer and the consumer run on two CPUs, or in a thread and in an *)
(* interrupt handler, with no lock between them.  A call is modelled as    *)
(* the memory accesses the other side can fall between: the load of the    *)
(* other side's index, the copy of each byte, and the store of its own     *)
(* index (the lwsync before that store orders it after the copies).        *)
(*                                                                         *)
(* A call for no bytes is left out: it changes nothing.                    *)
(***************************************************************************)
EXTENDS Integers, Sequences

CONSTANTS
    Size,    \* q->size: the bytes of the buffer
    Byte,    \* the values of a byte
    MaxLen   \* the longest request a caller makes

ASSUME SizeAssumption == Size \in Nat \ {0}
ASSUME ByteAssumption == Byte # {}
ASSUME MaxLenAssumption == MaxLen \in Nat \ {0}

VARIABLES
    buf, head, tail,        \* q->buf, q->head, q->tail
    todo, done, accepted,   \* producer: bytes to copy (<<>> between calls),
                            \*   how many are copied, the last return value
    op, off, cnt, out, more, reply
                            \* consumer: the call, where its copy starts past
                            \*   head, how many bytes it copies, those it has,
                            \*   the bytes of the second chunk, the last result

prodVars == <<todo, done, accepted>>
consVars == <<op, off, cnt, out, more, reply>>
vars == <<buf, head, tail, prodVars, consVars>>

Slot == 0 .. Size - 1

(* index & (q->size - 1), for the indexes that occur: size is a power of   *)
(* two, so an unsigned underflow wraps to the right slot as well.          *)
queue_wrap(index) == IF index < 0 THEN index + Size
                     ELSE IF index >= Size THEN index - Size
                     ELSE index

(* Mutant: every slot may be filled, so that full looks like empty.        *)
queue_get_spaceAllSlots == Size - queue_wrap(tail - head)

queue_get_avail == queue_wrap(tail - head)
queue_get_space == queue_wrap(head - tail - 1)

Least(a, b) == IF a <= b THEN a ELSE b

(* queue_init: an empty queue over a buffer whose contents are whatever    *)
(* the allocator returned.                                                 *)
queue_init ==
    /\ buf \in [Slot -> Byte]
    /\ head = 0
    /\ tail = 0

Init ==
    /\ queue_init
    /\ todo = <<>> /\ done = 0 /\ accepted = 0
    /\ op = "idle" /\ off = 0 /\ cnt = 0 /\ more = 0
    /\ out = <<>> /\ reply = <<>>

-----------------------------------------------------------------------------
(* The producer                                                            *)

(* queue_write loads head and decides how much of data fits.  With no      *)
(* space it stores tail unchanged and returns 0.                           *)
queue_write(data) ==
    /\ todo = <<>>
    /\ LET len == Least(queue_get_space, Len(data)) IN
       /\ todo' = SubSeq(data, 1, len)
       /\ accepted' = IF len = 0 THEN 0 ELSE accepted
    /\ done' = 0
    /\ UNCHANGED <<buf, head, tail, consVars>>

(* Mutant: no check for a full queue.                                      *)
queue_writecharUnchecked(c) ==
    /\ todo = <<>>
    /\ todo' = <<c>>
    /\ done' = 0
    /\ UNCHANGED <<buf, head, tail, accepted, consVars>>

(* queue_writechar compares tail with the slot before head.                *)
queue_writechar(c) ==
    /\ todo = <<>>
    /\ IF tail = queue_wrap(head - 1)
         THEN todo' = <<>> /\ accepted' = 0           \* ERR_BUSY
         ELSE todo' = <<c>> /\ UNCHANGED accepted
    /\ done' = 0
    /\ UNCHANGED <<buf, head, tail, consVars>>

(* One byte of the copy.                                                   *)
queue_write_at ==
    /\ done < Len(todo)
    /\ buf' = [buf EXCEPT ![queue_wrap(tail + done)] = todo[done + 1]]
    /\ done' = done + 1
    /\ UNCHANGED <<head, tail, todo, accepted, consVars>>

(* The store of tail, and the return.                                      *)
PublishTail ==
    /\ todo # <<>>
    /\ done = Len(todo)
    /\ tail' = queue_wrap(tail + Len(todo))
    /\ accepted' = Len(todo)
    /\ todo' = <<>>
    /\ done' = 0
    /\ UNCHANGED <<buf, head, consVars>>

-----------------------------------------------------------------------------
(* The consumer                                                            *)


Begin(o, from, n, second) ==
    /\ op = "idle"
    /\ op' = o /\ off' = from /\ cnt' = n /\ more' = second
    /\ out' = <<>>
    /\ UNCHANGED <<buf, head, tail, prodVars, reply>>

(* A call that finds the queue empty returns at once.                      *)
ReturnEmpty ==
    /\ op = "idle"
    /\ head = tail
    /\ reply' = <<>>
    /\ UNCHANGED <<buf, head, tail, prodVars, op, off, cnt, out, more>>

TakeOrPeek(peek) == IF peek THEN "peek" ELSE "take"

(* queue_read loads tail; queue_read_at copies from head on.               *)
queue_read(len, peek) ==
    \/ queue_get_avail = 0 /\ ReturnEmpty
    \/ /\ queue_get_avail > 0
       /\ Begin(TakeOrPeek(peek), 0, Least(queue_get_avail, len), 0)

queue_readchar(peek) ==
    \/ head = tail /\ ReturnEmpty                     \* ERR_WOULDBLOCK
    \/ head # tail /\ Begin(TakeOrPeek(peek), 0, 1, 0)

(* The caller of queue_read_at ensures that from + len bytes are there.    *)
queue_read_at(from, len) ==
    /\ from + len <= queue_get_avail
    /\ Begin("peek", from, len, 0)

(* queue_to_chardev hands the bytes up to the end of the buffer to the     *)
(* device, then those that wrapped: one chunk and one store of head each.  *)
queue_to_chardev(len, peek) ==
    \/ head = tail /\ ReturnEmpty
    \/ /\ tail < head
       /\ LET chunk == Least(Size - head, len)
          IN Begin(TakeOrPeek(peek), 0, chunk, Least(tail, len - chunk))
    \/ /\ head < tail
       /\ Begin(TakeOrPeek(peek), 0, Least(tail - head, len), 0)

queue_discard(num) ==
    /\ queue_get_avail > 0
    /\ Begin("drop", 0, Least(queue_get_avail, num), 0)

queue_purge ==
    /\ queue_get_avail > 0
    /\ Begin("drop", 0, queue_get_avail, 0)

(* Mutant: the offset of a peek is forgotten.                              *)
CopyOutFromHead ==
    /\ op \in {"take", "peek"}
    /\ Len(out) < cnt
    /\ out' = Append(out, buf[queue_wrap(head + Len(out))])
    /\ UNCHANGED <<buf, head, tail, prodVars, op, off, cnt, more, reply>>

(* One byte of the copy.                                                   *)
CopyOut ==
    /\ op \in {"take", "peek"}
    /\ Len(out) < cnt
    /\ out' = Append(out, buf[queue_wrap(head + (off + Len(out)))])
    /\ UNCHANGED <<buf, head, tail, prodVars, op, off, cnt, more, reply>>

(* The next chunk of the call, if it has one, or its end.                  *)
NextChunk ==
    /\ op' = IF more > 0 THEN op ELSE "idle"
    /\ off' = IF more > 0 /\ op = "peek" THEN off + cnt ELSE 0
    /\ cnt' = more
    /\ more' = 0
    /\ out' = <<>>

(* The store of head, which a peek leaves out, and the return.             *)
PublishHead ==
    /\ op = "take" /\ Len(out) = cnt
    /\ head' = queue_wrap(head + cnt)
    /\ reply' = out
    /\ NextChunk
    /\ UNCHANGED <<buf, tail, prodVars>>

ReturnPeek ==
    /\ op = "peek" /\ Len(out) = cnt
    /\ reply' = out
    /\ NextChunk
    /\ UNCHANGED <<buf, head, tail, prodVars>>

PublishDrop ==
    /\ op = "drop"
    /\ head' = queue_wrap(head + cnt)
    /\ NextChunk
    /\ UNCHANGED <<buf, tail, prodVars, reply>>

-----------------------------------------------------------------------------

Requests == UNION {[1..n -> Byte] : n \in 1..MaxLen}

Producer ==
    \/ \E data \in Requests : queue_write(data)
    \/ \E c \in Byte : queue_writechar(c)
    \/ queue_write_at
    \/ PublishTail

Consumer ==
    \/ \E len \in 1..MaxLen, peek \in BOOLEAN :
          queue_read(len, peek) \/ queue_to_chardev(len, peek)
    \/ \E peek \in BOOLEAN : queue_readchar(peek)
    \/ \E from \in 0..Size, len \in 1..MaxLen : queue_read_at(from, len)
    \/ \E num \in 1..MaxLen : queue_discard(num)
    \/ queue_purge
    \/ CopyOut
    \/ PublishHead
    \/ ReturnPeek
    \/ PublishDrop

Next == Producer \/ Consumer

Spec == Init /\ [][Next]_vars

-----------------------------------------------------------------------------

(* Type invariant of queue_t and of the locals of the calls in progress.   *)
TypeOK ==
    /\ buf \in [Slot -> Byte]
    /\ head \in Slot /\ tail \in Slot
    /\ todo \in Seq(Byte) /\ done \in Nat /\ accepted \in Nat
    /\ op \in {"idle", "take", "peek", "drop"}
    /\ off \in Nat /\ cnt \in Nat /\ more \in Nat
    /\ out \in Seq(Byte) /\ reply \in Seq(Byte)

(* No byte is copied out of a slot while the producer still has to fill    *)
(* it: without a lock, the slots the two sides touch never meet, however   *)
(* stale the index each side decided on has become (queue.c:60-87,         *)
(* 147-172).                                                               *)
NoSlotConflict ==
    \A i \in done .. Len(todo) - 1, j \in Len(out) .. cnt + more - 1 :
        queue_wrap(tail + i) # queue_wrap(head + (off + j))

(* What the producer relies on between two of its steps: the slots it was  *)
(* promised when it loaded head stay free, and those it has filled keep    *)
(* their bytes until it stores tail (queue.c:147-172).                     *)
ProducerInv ==
    /\ done <= Len(todo)
    /\ Len(todo) <= queue_get_space
    /\ \A i \in 1..done : buf[queue_wrap(tail + (i - 1))] = todo[i]

(* What the consumer relies on: the bytes it saw when it loaded tail stay  *)
(* in the queue, and those it has copied are still the ones there          *)
(* (queue.c:60-87, 271-315).                                               *)
ConsumerInv ==
    /\ off + cnt + more <= queue_get_avail
    /\ Len(out) <= cnt
    /\ op = "idle" <=> cnt = 0
    /\ op = "idle" => more = 0
    /\ op # "peek" => off = 0
    /\ op = "drop" => more = 0 /\ out = <<>>
    /\ \A i \in 1..Len(out) : out[i] = buf[queue_wrap(head + (off + i - 1))]

(* The inductive invariant.                                                *)
IndInv == TypeOK /\ ProducerInv /\ ConsumerInv

(* The bytes in the queue, oldest first.                                   *)
Contents == [k \in 1..queue_get_avail |-> buf[queue_wrap(head + (k - 1))]]

Fifo == INSTANCE BoundedFifo WITH Capacity <- Size - 1, items <- Contents

(* The queue implements the bounded FIFO: bytes come out once, in order    *)
(* and unaltered, a partial or two-chunk copy is never visible early, a    *)
(* write is refused only at a full queue and a read only at an empty one.  *)
ImplementsFifo == Fifo!Spec
=============================================================================
