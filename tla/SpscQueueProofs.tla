--------------------------- MODULE SpscQueueProofs ---------------------------
(***************************************************************************)
(* Proofs about SpscQueue, for every size of the buffer, every set of byte *)
(* values and every length of a request.                                   *)
(***************************************************************************)
EXTENDS SpscQueue, SequenceTheorems, TLAPS

(* queue_wrap yields an index of the buffer for every index the queue      *)
(* forms (queue.h:194-197).                                                *)
LEMMA WrapInSlot ==
    ASSUME NEW i \in Int, -Size <= i, i < 2 * Size
    PROVE  queue_wrap(i) \in Slot
  BY SizeAssumption DEF queue_wrap, Slot

(* Going on from a wrapped index is the same as wrapping at the end.       *)
LEMMA WrapShift ==
    ASSUME NEW a \in Slot, NEW i \in Nat, NEW j \in Nat, i + j < Size
    PROVE  queue_wrap(queue_wrap(a + i) + j) = queue_wrap(a + (i + j))
  BY SizeAssumption DEF queue_wrap, Slot

(* Two offsets less than a buffer apart from one index are two slots.      *)
LEMMA WrapDistinct ==
    ASSUME NEW a \in Slot, NEW i \in 0 .. Size - 1, NEW j \in 0 .. Size - 1,
           i # j
    PROVE  queue_wrap(a + i) # queue_wrap(a + j)
  BY SizeAssumption DEF queue_wrap, Slot

(* What the two counts say of two indexes of the buffer (queue.h:199-207). *)
LEMMA AvailAndSpace ==
    ASSUME head \in Slot, tail \in Slot
    PROVE  /\ queue_get_avail \in 0 .. Size - 1
           /\ tail = queue_wrap(head + queue_get_avail)
           /\ queue_get_space = Size - 1 - queue_get_avail
           /\ queue_get_avail = 0 <=> head = tail
  BY SizeAssumption DEF queue_get_avail, queue_get_space, queue_wrap, Slot

(* Storing tail adds to what is available, storing head takes from it.     *)
LEMMA MoveTail ==
    ASSUME head \in Slot, tail \in Slot, head' = head,
           NEW n \in 0 .. queue_get_space, tail' = queue_wrap(tail + n)
    PROVE  /\ tail' \in Slot
           /\ queue_get_avail' = queue_get_avail + n
           /\ queue_get_space' = queue_get_space - n
  BY SizeAssumption DEF queue_get_avail, queue_get_space, queue_wrap, Slot

LEMMA MoveHead ==
    ASSUME head \in Slot, tail \in Slot, tail' = tail,
           NEW n \in 0 .. queue_get_avail, head' = queue_wrap(head + n)
    PROVE  /\ head' \in Slot
           /\ queue_get_avail' = queue_get_avail - n
           /\ queue_get_space' = queue_get_space + n
  BY SizeAssumption DEF queue_get_avail, queue_get_space, queue_wrap, Slot

(* The slots the producer has been promised are not those of the bytes in  *)
(* the queue.                                                              *)
LEMMA FreeSlots ==
    ASSUME head \in Slot, tail \in Slot,
           NEW i \in Nat, i < queue_get_space,
           NEW j \in Nat, j < queue_get_avail
    PROVE  queue_wrap(tail + i) # queue_wrap(head + j)
<1>1. /\ queue_get_avail \in 0 .. Size - 1
      /\ tail = queue_wrap(head + queue_get_avail)
      /\ queue_get_space = Size - 1 - queue_get_avail
  BY AvailAndSpace
<1>2. queue_wrap(tail + i) = queue_wrap(head + (queue_get_avail + i))
  BY <1>1, WrapShift, SizeAssumption
<1>3. queue_wrap(head + (queue_get_avail + i)) # queue_wrap(head + j)
  BY <1>1, WrapDistinct, SizeAssumption
<1> QED
  BY <1>2, <1>3

-----------------------------------------------------------------------------
(* The invariant holds in every initial state.                             *)
LEMMA InitInv == Init => IndInv
  BY SizeAssumption DEF Init, queue_init, IndInv, TypeOK, ProducerInv,
     ConsumerInv, queue_get_avail, queue_get_space, queue_wrap, Slot

(* A step that leaves what the consumer relies on alone.                   *)
LEMMA ConsumerInvFrame ==
    ASSUME ConsumerInv, UNCHANGED <<buf, head, tail, consVars>>
    PROVE  ConsumerInv'
  BY DEF ConsumerInv, consVars, queue_get_avail, queue_wrap

(* A step that leaves what the producer relies on alone.                   *)
LEMMA ProducerInvFrame ==
    ASSUME ProducerInv, UNCHANGED <<buf, head, tail, prodVars>>
    PROVE  ProducerInv'
  BY DEF ProducerInv, prodVars, queue_get_space, queue_wrap

(* A write in progress has somewhere to put its bytes (queue.c:159-172).   *)
LEMMA WriteInv ==
    ASSUME IndInv, NEW data \in Requests, queue_write(data)
    PROVE  IndInv'
<1> USE DEF IndInv
<1>1. data \in Seq(Byte)
  BY DEF Requests
<1>2. queue_get_space \in 0 .. Size - 1
  BY AvailAndSpace, SizeAssumption DEF TypeOK
<1> DEFINE len == Least(queue_get_space, Len(data))
<1>3. /\ len \in 0 .. Len(data)
      /\ len <= queue_get_space
  BY <1>1, <1>2, SizeAssumption DEF Least
<1>4. /\ todo' = SubSeq(data, 1, len)
      /\ accepted' = IF len = 0 THEN 0 ELSE accepted
      /\ done' = 0
      /\ UNCHANGED <<buf, head, tail, consVars>>
  BY DEF queue_write
<1>5. todo' \in Seq(Byte) /\ Len(todo') = len
  BY <1>1, <1>3, <1>4
<1>6. TypeOK'
  BY <1>4, <1>5 DEF TypeOK, consVars
<1>7. ProducerInv'
  BY <1>2, <1>3, <1>4, <1>5
     DEF ProducerInv, queue_get_space, queue_wrap
<1>8. ConsumerInv'
  BY <1>4, ConsumerInvFrame
<1> QED
  BY <1>6, <1>7, <1>8

(* The same of a single byte, whose guard is written differently           *)
(* (queue.c:197-207).                                                      *)
LEMMA WritecharInv ==
    ASSUME IndInv, NEW c \in Byte, queue_writechar(c)
    PROVE  IndInv'
<1> USE DEF IndInv
<1>1. tail # queue_wrap(head - 1) => queue_get_space >= 1
  BY SizeAssumption DEF TypeOK, queue_get_space, queue_wrap, Slot
<1>2. queue_get_space \in 0 .. Size - 1
  BY AvailAndSpace, SizeAssumption DEF TypeOK
<1>3. /\ UNCHANGED <<buf, head, tail, consVars>>
      /\ done' = 0
      /\ \/ todo' = <<>> /\ accepted' = 0
         \/ todo' = <<c>> /\ accepted' = accepted /\ tail # queue_wrap(head - 1)
  BY DEF queue_writechar
<1>4. TypeOK'
  <2>1. <<>> \in Seq(Byte) /\ <<c>> \in Seq(Byte)
    OBVIOUS
  <2>2. todo' \in Seq(Byte)
    <3>1. todo' = <<>> \/ todo' = <<c>>
      BY <1>3
    <3> QED
      BY <2>1, <3>1
  <2>3. accepted' \in Nat
    BY <1>3 DEF TypeOK
  <2> QED
    BY <1>3, <2>2, <2>3 DEF TypeOK, consVars
<1>5. ProducerInv'
  <2>1. queue_get_space' = queue_get_space
    BY <1>3 DEF queue_get_space, queue_wrap
  <2>2. Len(todo') \in Nat /\ Len(todo') <= queue_get_space
    <3>1. CASE todo' = <<>>
      BY <1>2, <3>1
    <3>2. CASE todo' = <<c>> /\ tail # queue_wrap(head - 1)
      BY <1>1, <1>2, <3>2
    <3> QED
      BY <1>3, <3>1, <3>2
  <2> QED
    BY <1>3, <2>1, <2>2 DEF ProducerInv
<1>6. ConsumerInv'
  BY <1>3, ConsumerInvFrame
<1> QED
  BY <1>4, <1>5, <1>6

(* A byte copied in lands in a free slot, so the bytes the consumer is     *)
(* copying out stay (queue.c:147-157).                                     *)
LEMMA CopyInInv ==
    ASSUME IndInv, queue_write_at
    PROVE  IndInv'
<1> USE DEF IndInv
<1> DEFINE slot == queue_wrap(tail + done)
<1>1. /\ done \in Nat /\ done < Len(todo) /\ Len(todo) \in Nat
      /\ buf' = [buf EXCEPT ![slot] = todo[done + 1]]
      /\ done' = done + 1
      /\ UNCHANGED <<head, tail, todo, accepted, consVars>>
  BY DEF queue_write_at, TypeOK
<1>2. /\ queue_get_space \in 0 .. Size - 1
      /\ queue_get_avail \in 0 .. Size - 1
      /\ Len(todo) <= queue_get_space
  BY AvailAndSpace, SizeAssumption DEF TypeOK, ProducerInv
<1>3. slot \in Slot
  BY <1>1, <1>2, WrapInSlot, SizeAssumption DEF TypeOK, Slot
<1>4. TypeOK'
  BY <1>1, <1>3 DEF TypeOK, consVars
<1>5. ProducerInv'
  <2>1. done' <= Len(todo') /\ Len(todo') <= queue_get_space'
    BY <1>1, <1>2 DEF queue_get_space, queue_wrap
  <2>2. ASSUME NEW i \in 1 .. done'
        PROVE  buf'[queue_wrap(tail + (i - 1))] = todo[i]
    <3>1. CASE i = done + 1
      BY <1>1, <1>3, <3>1 DEF TypeOK
    <3>2. CASE i # done + 1
      <4>1. i \in 1 .. done
        BY <1>1, <3>2
      <4>2. queue_wrap(tail + (i - 1)) # slot
        BY <1>1, <1>2, <4>1, WrapDistinct, SizeAssumption DEF TypeOK
      <4> QED
        BY <1>1, <4>1, <4>2 DEF TypeOK, ProducerInv
    <3> QED
      BY <3>1, <3>2
  <2> QED
    BY <1>1, <2>1, <2>2 DEF ProducerInv, queue_wrap
<1>6. ConsumerInv'
  <2>1. queue_get_avail' = queue_get_avail
    BY <1>1 DEF queue_get_avail, queue_wrap
  <2>2. ASSUME NEW i \in 1 .. Len(out)
        PROVE  out[i] = buf'[queue_wrap(head + (off + i - 1))]
    <3>1. off + i - 1 \in Nat /\ off + i - 1 < queue_get_avail
      BY <1>2 DEF TypeOK, ConsumerInv
    <3>2. queue_wrap(head + (off + i - 1)) # slot
      BY <1>1, <1>2, <3>1, FreeSlots DEF TypeOK
    <3> QED
      BY <1>1, <3>2 DEF TypeOK, ConsumerInv
  <2> QED
    BY <1>1, <2>1, <2>2 DEF ConsumerInv, consVars, queue_wrap
<1> QED
  BY <1>4, <1>5, <1>6

(* Storing tail only adds to what the consumer may read (queue.c:168-169). *)
LEMMA PublishTailInv ==
    ASSUME IndInv, PublishTail
    PROVE  IndInv'
<1> USE DEF IndInv
<1>1. /\ todo # <<>> /\ tail' = queue_wrap(tail + Len(todo))
      /\ accepted' = Len(todo) /\ todo' = <<>> /\ done' = 0
      /\ UNCHANGED <<buf, head, consVars>>
  BY DEF PublishTail
<1>2. Len(todo) \in 0 .. queue_get_space
  BY AvailAndSpace, SizeAssumption DEF TypeOK, ProducerInv
<1>3. /\ tail' \in Slot
      /\ queue_get_avail' = queue_get_avail + Len(todo)
      /\ queue_get_space' = queue_get_space - Len(todo)
  BY <1>1, <1>2, MoveTail DEF TypeOK, consVars
<1>4. TypeOK'
  <2>1. <<>> \in Seq(Byte)
    OBVIOUS
  <2>2. todo' \in Seq(Byte) /\ accepted' \in Nat
    BY <1>1, <1>2, <2>1 DEF TypeOK
  <2> QED
    BY <1>1, <1>3, <2>2 DEF TypeOK, consVars
<1>5. ProducerInv'
  <2>1. queue_get_space \in Nat
    BY AvailAndSpace, SizeAssumption DEF TypeOK
  <2>2. queue_get_space' \in Nat
    BY <1>2, <1>3, <2>1
  <2> QED
    BY <1>1, <2>2 DEF ProducerInv
<1>6. ConsumerInv'
  <2>1. queue_get_avail \in Nat
    BY AvailAndSpace, SizeAssumption DEF TypeOK
  <2>2. off + cnt + more <= queue_get_avail'
    BY <1>2, <1>3, <2>1 DEF TypeOK, ConsumerInv
  <2> QED
    BY <1>1, <2>2 DEF ConsumerInv, consVars, queue_wrap
<1> QED
  BY <1>4, <1>5, <1>6

(* A consumer's call that asks for bytes that are there.                   *)
LEMMA BeginInv ==
    ASSUME IndInv,
           NEW o \in {"take", "peek", "drop"}, NEW from \in Nat,
           NEW n \in Nat \ {0}, NEW second \in Nat,
           from + n + second <= queue_get_avail,
           o # "peek" => from = 0,
           o = "drop" => second = 0,
           Begin(o, from, n, second)
    PROVE  IndInv'
<1> USE DEF IndInv
<1>1. /\ op' = o /\ off' = from /\ cnt' = n /\ more' = second /\ out' = <<>>
      /\ UNCHANGED <<buf, head, tail, prodVars, reply>>
  BY DEF Begin
<1>2. TypeOK'
  <2>1. <<>> \in Seq(Byte)
    OBVIOUS
  <2> QED
    BY <1>1, <2>1 DEF TypeOK, prodVars
<1>3. ProducerInv'
  BY <1>1, ProducerInvFrame
<1>4. ConsumerInv'
  <2>1. queue_get_avail' = queue_get_avail
    BY <1>1 DEF queue_get_avail, queue_wrap
  <2>2. Len(out') = 0
    BY <1>1
  <2> QED
    BY <1>1, <2>1, <2>2 DEF ConsumerInv
<1> QED
  BY <1>2, <1>3, <1>4

(* A call at an empty queue changes nothing but the result.                *)
LEMMA ReturnEmptyInv ==
    ASSUME IndInv, ReturnEmpty
    PROVE  IndInv'
<1> USE DEF IndInv
<1>1. /\ reply' = <<>>
      /\ UNCHANGED <<buf, head, tail, prodVars, op, off, cnt, out, more>>
  BY DEF ReturnEmpty
<1>2. <<>> \in Seq(Byte)
  OBVIOUS
<1>3. TypeOK'
  BY <1>1, <1>2 DEF TypeOK, prodVars
<1>4. ProducerInv'
  BY <1>1, ProducerInvFrame
<1>5. ConsumerInv'
  BY <1>1 DEF ConsumerInv, queue_get_avail, queue_wrap
<1> QED
  BY <1>3, <1>4, <1>5

(* Each of the consumer's calls begins within what it saw available        *)
(* (queue.c:60-87, 131-145, 271-315, 383-392).                             *)
LEMMA CallInv ==
    ASSUME IndInv,
           NEW len \in 1 .. MaxLen, NEW peek \in BOOLEAN, NEW from \in Nat,
           \/ queue_read(len, peek) \/ queue_readchar(peek)
           \/ queue_read_at(from, len) \/ queue_to_chardev(len, peek)
           \/ queue_discard(len) \/ queue_purge
    PROVE  IndInv'
<1>1. /\ queue_get_avail \in 0 .. Size - 1
      /\ queue_get_avail = 0 <=> head = tail
      /\ tail < head => queue_get_avail = Size - head + tail
      /\ head < tail => queue_get_avail = tail - head
      /\ head \in Nat /\ tail \in Nat /\ head < Size
  BY AvailAndSpace, SizeAssumption
     DEF IndInv, TypeOK, queue_get_avail, queue_wrap, Slot
<1>2. /\ len \in Nat \ {0}
      /\ TakeOrPeek(peek) \in {"take", "peek"}
  BY MaxLenAssumption DEF TakeOrPeek
<1>3. CASE ReturnEmpty
  BY <1>3, ReturnEmptyInv
<1>4. CASE /\ queue_get_avail > 0
           /\ Begin(TakeOrPeek(peek), 0, Least(queue_get_avail, len), 0)
  <2>1. /\ Least(queue_get_avail, len) \in Nat \ {0}
        /\ Least(queue_get_avail, len) <= queue_get_avail
    BY <1>1, <1>2, <1>4 DEF Least
  <2> QED
    BY <1>2, <1>4, <2>1, BeginInv
<1>5. CASE head # tail /\ Begin(TakeOrPeek(peek), 0, 1, 0)
  BY <1>1, <1>2, <1>5, BeginInv
<1>6. CASE queue_read_at(from, len)
  BY <1>1, <1>2, <1>6, BeginInv DEF queue_read_at
<1>7. CASE /\ tail < head
           /\ Begin(TakeOrPeek(peek), 0, Least(Size - head, len),
                    Least(tail, len - Least(Size - head, len)))
  <2> DEFINE chunk == Least(Size - head, len)
             second == Least(tail, len - chunk)
  <2>1. /\ chunk \in Nat \ {0} /\ second \in Nat
        /\ chunk <= Size - head /\ second <= tail
    BY <1>1, <1>2, SizeAssumption DEF Least
  <2>2. 0 + chunk + second <= queue_get_avail
    BY <1>1, <1>7, <2>1, SizeAssumption
  <2> QED
    BY <1>2, <1>7, <2>1, <2>2, BeginInv
<1>8. CASE /\ head < tail
           /\ Begin(TakeOrPeek(peek), 0, Least(tail - head, len), 0)
  <2>1. /\ Least(tail - head, len) \in Nat \ {0}
        /\ Least(tail - head, len) <= queue_get_avail
    BY <1>1, <1>2, <1>8 DEF Least
  <2> QED
    BY <1>2, <1>8, <2>1, BeginInv
<1>9. CASE /\ queue_get_avail > 0
           /\ Begin("drop", 0, Least(queue_get_avail, len), 0)
  <2>1. /\ Least(queue_get_avail, len) \in Nat \ {0}
        /\ Least(queue_get_avail, len) <= queue_get_avail
    BY <1>1, <1>2, <1>9 DEF Least
  <2> QED
    BY <1>9, <2>1, BeginInv
<1>10. CASE queue_get_avail > 0 /\ Begin("drop", 0, queue_get_avail, 0)
  BY <1>1, <1>10, BeginInv
<1> QED
  BY <1>3, <1>4, <1>5, <1>6, <1>7, <1>8, <1>9, <1>10
     DEF queue_read, queue_readchar, queue_to_chardev, queue_discard, queue_purge

(* A byte copied out is the one in the queue (queue.c:60-70).              *)
LEMMA CopyOutInv ==
    ASSUME IndInv, CopyOut
    PROVE  IndInv'
<1> USE DEF IndInv
<1> DEFINE slot == queue_wrap(head + (off + Len(out)))
<1>1. /\ op \in {"take", "peek"} /\ Len(out) < cnt
      /\ out' = Append(out, buf[slot])
      /\ UNCHANGED <<buf, head, tail, prodVars, op, off, cnt, more, reply>>
  BY DEF CopyOut
<1>2. /\ Len(out) \in Nat /\ queue_get_avail \in 0 .. Size - 1
      /\ off + Len(out) < queue_get_avail
  BY <1>1, AvailAndSpace, SizeAssumption DEF TypeOK, ConsumerInv
<1>3. slot \in Slot
  BY <1>2, WrapInSlot, SizeAssumption DEF TypeOK, Slot
<1>4. /\ out' \in Seq(Byte) /\ Len(out') = Len(out) + 1
      /\ \A i \in 1 .. Len(out) : out'[i] = out[i]
      /\ out'[Len(out) + 1] = buf[slot]
  BY <1>1, <1>2, <1>3 DEF TypeOK
<1>5. TypeOK'
  BY <1>1, <1>4 DEF TypeOK, prodVars
<1>6. ProducerInv'
  BY <1>1, ProducerInvFrame
<1>7. ConsumerInv'
  <2>1. queue_get_avail' = queue_get_avail
    BY <1>1 DEF queue_get_avail, queue_wrap
  <2>2. ASSUME NEW i \in 1 .. Len(out')
        PROVE  out'[i] = buf[queue_wrap(head + (off + i - 1))]
    <3>1. CASE i = Len(out) + 1
      BY <1>2, <1>4, <3>1 DEF TypeOK
    <3>2. CASE i # Len(out) + 1
      BY <1>2, <1>4, <3>2 DEF ConsumerInv
    <3> QED
      BY <3>1, <3>2
  <2> QED
    BY <1>1, <1>2, <1>4, <2>1, <2>2 DEF TypeOK, ConsumerInv, queue_wrap
<1> QED
  BY <1>5, <1>6, <1>7

(* Storing head only adds to what the producer may fill, and leaves the    *)
(* bytes of a second chunk in the queue (queue.c:81-84, 282-312, 390).     *)
LEMMA PublishHeadInv ==
    ASSUME IndInv, PublishHead \/ PublishDrop
    PROVE  IndInv'
<1> USE DEF IndInv
<1>1. /\ op \in {"take", "drop"}
      /\ head' = queue_wrap(head + cnt)
      /\ UNCHANGED <<buf, tail, prodVars>>
      /\ NextChunk
      /\ reply' = out \/ reply' = reply
  BY DEF PublishHead, PublishDrop
<1>2. /\ cnt \in 0 .. queue_get_avail /\ off = 0
      /\ queue_get_avail \in Nat /\ queue_get_space \in Nat
  BY <1>1, AvailAndSpace, SizeAssumption DEF TypeOK, ConsumerInv
<1>3. /\ head' \in Slot
      /\ queue_get_avail' = queue_get_avail - cnt
      /\ queue_get_space' = queue_get_space + cnt
  BY <1>1, <1>2, MoveHead DEF TypeOK
<1>4. /\ op' = IF more > 0 THEN op ELSE "idle"
      /\ off' = 0 /\ cnt' = more /\ more' = 0 /\ out' = <<>>
  BY <1>1 DEF NextChunk
<1>5. TypeOK'
  <2>1. <<>> \in Seq(Byte)
    OBVIOUS
  <2> QED
    BY <1>1, <1>3, <1>4, <2>1 DEF TypeOK, prodVars
<1>6. ProducerInv'
  BY <1>1, <1>2, <1>3 DEF ProducerInv, TypeOK, prodVars, queue_wrap
<1>7. ConsumerInv'
  <2>1. Len(out') = 0
    BY <1>4
  <2>2. off' + cnt' + more' <= queue_get_avail'
    BY <1>2, <1>3, <1>4 DEF TypeOK, ConsumerInv
  <2> QED
    BY <1>1, <1>4, <2>1, <2>2 DEF TypeOK, ConsumerInv
<1> QED
  BY <1>5, <1>6, <1>7

(* A peek leaves the queue alone and goes on to its second chunk.          *)
LEMMA ReturnPeekInv ==
    ASSUME IndInv, ReturnPeek
    PROVE  IndInv'
<1> USE DEF IndInv
<1>1. /\ op = "peek" /\ reply' = out
      /\ UNCHANGED <<buf, head, tail, prodVars>>
      /\ op' = IF more > 0 THEN op ELSE "idle"
      /\ off' = IF more > 0 THEN off + cnt ELSE 0
      /\ cnt' = more /\ more' = 0 /\ out' = <<>>
  BY DEF ReturnPeek, NextChunk
<1>2. TypeOK'
  <2>1. <<>> \in Seq(Byte)
    OBVIOUS
  <2> QED
    BY <1>1, <2>1 DEF TypeOK, prodVars
<1>3. ProducerInv'
  BY <1>1, ProducerInvFrame
<1>4. ConsumerInv'
  <2>1. /\ Len(out') = 0
        /\ queue_get_avail' = queue_get_avail
    BY <1>1 DEF queue_get_avail, queue_wrap
  <2>2. off' + cnt' + more' <= queue_get_avail'
    BY <1>1, <2>1, AvailAndSpace, SizeAssumption DEF TypeOK, ConsumerInv
  <2> QED
    BY <1>1, <2>1, <2>2 DEF TypeOK, ConsumerInv
<1> QED
  BY <1>2, <1>3, <1>4

-----------------------------------------------------------------------------
(* The invariant is inductive.                                             *)
LEMMA NextInv == IndInv /\ [Next]_vars => IndInv'
<1> SUFFICES ASSUME IndInv, [Next]_vars
             PROVE  IndInv'
  OBVIOUS
<1>1. ASSUME NEW data \in Requests, queue_write(data)
      PROVE  IndInv'
  BY <1>1, WriteInv
<1>2. ASSUME NEW c \in Byte, queue_writechar(c)
      PROVE  IndInv'
  BY <1>2, WritecharInv
<1>3. ASSUME NEW len \in 1 .. MaxLen, NEW peek \in BOOLEAN, NEW from \in 0 .. Size,
             \/ queue_read(len, peek) \/ queue_readchar(peek)
             \/ queue_read_at(from, len) \/ queue_to_chardev(len, peek)
             \/ queue_discard(len) \/ queue_purge
      PROVE  IndInv'
  BY <1>3, CallInv, SizeAssumption
<1>4. 1 \in 1 .. MaxLen /\ 0 \in 0 .. Size /\ TRUE \in BOOLEAN
  BY SizeAssumption, MaxLenAssumption
<1>5. ASSUME NEW peek \in BOOLEAN, queue_readchar(peek)
      PROVE  IndInv'
  BY <1>3, <1>4, <1>5
<1>6. CASE queue_purge
  BY <1>3, <1>4, <1>6
<1>7. CASE UNCHANGED vars
  <2>1. ProducerInv' /\ ConsumerInv'
    BY <1>7, ProducerInvFrame, ConsumerInvFrame DEF IndInv, vars
  <2>2. TypeOK'
    BY <1>7 DEF IndInv, TypeOK, vars, prodVars, consVars
  <2> QED
    BY <2>1, <2>2 DEF IndInv
<1> QED
  BY <1>1, <1>2, <1>3, <1>4, <1>5, <1>6, <1>7, CopyInInv, PublishTailInv,
     CopyOutInv, PublishHeadInv, ReturnPeekInv
     DEF Next, Producer, Consumer

(* In every reachable state the indexes and the calls in progress have     *)
(* their types, and each side has the slots it relies on to itself.        *)
THEOREM Invariance == Spec => []IndInv
  BY InitInv, NextInv, PTL DEF Spec

THEOREM TypeCorrect == Spec => []TypeOK
  BY Invariance, PTL DEF IndInv

(* The producer never fills a slot that the consumer still has to copy     *)
(* out or release (queue.c:60-87, 147-172): the two sides need no lock.    *)
THEOREM SlotsDisjoint == Spec => []NoSlotConflict
<1>1. IndInv => NoSlotConflict
  <2> SUFFICES ASSUME IndInv,
                      NEW i \in done .. Len(todo) - 1,
                      NEW j \in Len(out) .. cnt + more - 1
               PROVE  queue_wrap(tail + i) # queue_wrap(head + (off + j))
    BY DEF NoSlotConflict
  <2>1. /\ i \in Nat /\ i < queue_get_space
        /\ off + j \in Nat /\ off + j < queue_get_avail
    BY AvailAndSpace, SizeAssumption
       DEF IndInv, TypeOK, ProducerInv, ConsumerInv
  <2> QED
    BY <2>1, FreeSlots DEF IndInv, TypeOK
<1> QED
  BY <1>1, Invariance, PTL

-----------------------------------------------------------------------------
(* Refinement: SpscQueue implements BoundedFifo.                           *)

(* Reading n slots on from h gives a sequence of n bytes.                  *)
LEMMA WindowIsSeq ==
    ASSUME NEW b \in [Slot -> Byte], NEW h \in Slot, NEW n \in 0 .. Size
    PROVE  LET w == [k \in 1..n |-> b[queue_wrap(h + (k - 1))]]
           IN  /\ w \in Seq(Byte)
               /\ Len(w) = n
               /\ \A k \in 1..n : w[k] = b[queue_wrap(h + (k - 1))]
<1>1. \A k \in 1..n : b[queue_wrap(h + (k - 1))] \in Byte
  BY WrapInSlot, SizeAssumption DEF Slot
<1> QED
  BY <1>1, SizeAssumption

(* Contents is the bytes from head to tail, now and in the next state.     *)
LEMMA ContentsIsSeq ==
    ASSUME IndInv, IndInv'
    PROVE  /\ Contents \in Seq(Byte) /\ Len(Contents) = queue_get_avail
           /\ \A k \in 1..queue_get_avail :
                 Contents[k] = buf[queue_wrap(head + (k - 1))]
           /\ Contents' \in Seq(Byte) /\ Len(Contents') = queue_get_avail'
           /\ \A k \in 1..queue_get_avail' :
                 Contents'[k] = buf'[queue_wrap(head' + (k - 1))]
<1>1. queue_get_avail \in 0 .. Size /\ queue_get_avail' \in 0 .. Size
  <2>1. \A h, t \in Slot : queue_wrap(t - h) \in 0 .. Size
    BY SizeAssumption DEF queue_wrap, Slot
  <2>2. head \in Slot /\ tail \in Slot /\ head' \in Slot /\ tail' \in Slot
    BY DEF IndInv, TypeOK
  <2>3. queue_get_avail' = queue_wrap(tail' - head')
    BY DEF queue_get_avail, queue_wrap
  <2> QED
    BY <2>1, <2>2, <2>3 DEF queue_get_avail
<1>2. /\ buf \in [Slot -> Byte] /\ head \in Slot
      /\ buf' \in [Slot -> Byte] /\ head' \in Slot
  BY DEF IndInv, TypeOK
<1>3. /\ Contents \in Seq(Byte) /\ Len(Contents) = queue_get_avail
      /\ \A k \in 1..queue_get_avail :
            Contents[k] = buf[queue_wrap(head + (k - 1))]
  BY <1>1, <1>2, WindowIsSeq DEF Contents
<1>4. /\ Contents' \in Seq(Byte) /\ Len(Contents') = queue_get_avail'
      /\ \A k \in 1..queue_get_avail' :
            Contents'[k] = buf'[queue_wrap(head' + (k - 1))]
  BY <1>1, <1>2, WindowIsSeq DEF Contents, queue_wrap
<1> QED
  BY <1>3, <1>4

(* A queue just initialised is an empty FIFO.                              *)
LEMMA InitRefines == Init => Fifo!Init
<1> SUFFICES ASSUME Init
             PROVE  Fifo!Init
  OBVIOUS
<1>1. IndInv /\ queue_get_avail = 0
  BY InitInv, SizeAssumption DEF Init, queue_init, queue_get_avail, queue_wrap
<1>2. Contents \in Seq(Byte) /\ Len(Contents) = 0
  BY <1>1, WindowIsSeq, SizeAssumption DEF Contents, IndInv, TypeOK
<1>3. Contents = <<>>
  BY <1>2, EmptySeq
<1> QED
  BY <1>3 DEF Init, Fifo!Init

(* Steps that leave the buffer and the indexes alone keep the contents.    *)
LEMMA ContentsFrame ==
    ASSUME UNCHANGED <<buf, head, tail>>
    PROVE  Contents' = Contents
  BY DEF Contents, queue_get_avail, queue_wrap

LEMMA CallRefines ==
    ASSUME IndInv, IndInv',
           \/ \E data \in Requests : queue_write(data)
           \/ \E c \in Byte : queue_writechar(c)
           \/ ReturnEmpty
           \/ UNCHANGED <<buf, head, tail, accepted, reply>>
    PROVE  [Fifo!Next]_(Fifo!vars)
<1>1. CASE UNCHANGED <<buf, head, tail, accepted, reply>>
  BY <1>1, ContentsFrame DEF Fifo!vars
<1>2. ASSUME UNCHANGED <<buf, head, tail, reply>>,
             accepted' = 0, queue_get_space = 0
      PROVE  [Fifo!Next]_(Fifo!vars)
  <2>1. Len(Contents) = Size - 1
    BY <1>2, ContentsIsSeq, AvailAndSpace, SizeAssumption DEF IndInv, TypeOK
  <2> QED
    BY <1>2, <2>1, ContentsFrame DEF Fifo!Next, Fifo!PutRefused
<1>3. ASSUME NEW data \in Requests, queue_write(data)
      PROVE  [Fifo!Next]_(Fifo!vars)
  <2>1. Len(data) \in Nat \ {0} /\ queue_get_space \in Nat
    BY AvailAndSpace, SizeAssumption, MaxLenAssumption
       DEF Requests, IndInv, TypeOK
  <2>2. CASE Least(queue_get_space, Len(data)) = 0
    <3>1. queue_get_space = 0
      BY <2>1, <2>2 DEF Least
    <3> QED
      BY <1>2, <1>3, <2>2, <3>1 DEF queue_write, consVars
  <2>3. CASE Least(queue_get_space, Len(data)) # 0
    BY <1>1, <1>3, <2>3 DEF queue_write, consVars
  <2> QED
    BY <2>2, <2>3
<1>4. ASSUME NEW c \in Byte, queue_writechar(c)
      PROVE  [Fifo!Next]_(Fifo!vars)
  <2>1. tail = queue_wrap(head - 1) => queue_get_space = 0
    BY SizeAssumption
       DEF IndInv, TypeOK, queue_get_space, queue_wrap, Slot
  <2> QED
    BY <1>1, <1>2, <1>4, <2>1 DEF queue_writechar, consVars
<1>5. CASE ReturnEmpty
  <2>1. Len(Contents) = 0 /\ Contents \in Seq(Byte)
    BY <1>5, ContentsIsSeq, AvailAndSpace
       DEF ReturnEmpty, IndInv, TypeOK
  <2>2. Contents = <<>>
    BY <2>1, EmptySeq
  <2> QED
    BY <1>5, <2>2, ContentsFrame
       DEF ReturnEmpty, prodVars, Fifo!Next, Fifo!TakeRefused
<1> QED
  BY <1>1, <1>3, <1>4, <1>5

(* A byte copied into a free slot is not yet in the queue.                 *)
LEMMA CopyInRefines ==
    ASSUME IndInv, IndInv', queue_write_at
    PROVE  UNCHANGED Fifo!vars
<1> DEFINE slot == queue_wrap(tail + done)
<1>1. /\ done \in Nat /\ done < queue_get_space
      /\ buf' = [buf EXCEPT ![slot] = todo[done + 1]]
      /\ UNCHANGED <<head, tail, accepted, reply>>
  BY AvailAndSpace, SizeAssumption
     DEF queue_write_at, IndInv, TypeOK, ProducerInv, consVars
<1>2. queue_get_avail' = queue_get_avail /\ queue_get_avail \in Nat
  BY <1>1, AvailAndSpace DEF IndInv, TypeOK, queue_get_avail, queue_wrap
<1>3. ASSUME NEW k \in 1 .. queue_get_avail
      PROVE  Contents'[k] = Contents[k]
  <2>1. queue_wrap(head + (k - 1)) # slot
    BY <1>1, <1>2, FreeSlots DEF IndInv, TypeOK
  <2>2. queue_wrap(head + (k - 1)) \in Slot
    <3>1. queue_get_avail \in 0 .. Size - 1 /\ head \in 0 .. Size - 1
      BY AvailAndSpace DEF IndInv, TypeOK, Slot
    <3>2. /\ head + (k - 1) \in Int /\ -Size <= head + (k - 1)
          /\ head + (k - 1) < 2 * Size
      BY <3>1, SizeAssumption
    <3> QED
      BY <3>2, WrapInSlot
  <2> QED
    BY <1>1, <1>2, <2>1, <2>2, ContentsIsSeq DEF IndInv, TypeOK
<1>4. Contents' = Contents
  BY <1>2, <1>3, ContentsIsSeq, SeqEqual
<1> QED
  BY <1>1, <1>4 DEF Fifo!vars

(* Storing tail puts the copied bytes in the queue, all at once.           *)
LEMMA PublishTailRefines ==
    ASSUME IndInv, IndInv', PublishTail
    PROVE  Fifo!Next
<1>1. /\ todo # <<>> /\ done = Len(todo) /\ accepted' = Len(todo)
      /\ tail' = queue_wrap(tail + Len(todo))
      /\ UNCHANGED <<buf, head, reply>>
  BY DEF PublishTail, consVars
<1>2. /\ todo \in Seq(Byte) /\ Len(todo) \in 1 .. queue_get_space
      /\ queue_get_avail \in 0 .. Size - 1
      /\ queue_get_space = Size - 1 - queue_get_avail
  BY <1>1, AvailAndSpace, EmptySeq, SizeAssumption
     DEF IndInv, TypeOK, ProducerInv
<1>3. queue_get_avail' = queue_get_avail + Len(todo)
  BY <1>1, <1>2, MoveTail, SizeAssumption DEF IndInv, TypeOK
<1>4. Contents' = Contents \o todo
  <2>1. /\ Contents \o todo \in Seq(Byte)
        /\ Len(Contents \o todo) = queue_get_avail + Len(todo)
        /\ \A k \in 1 .. queue_get_avail + Len(todo) :
              (Contents \o todo)[k] = IF k <= queue_get_avail THEN Contents[k]
                                      ELSE todo[k - queue_get_avail]
    <3>1. Contents \in Seq(Byte) /\ Len(Contents) = queue_get_avail
      BY ContentsIsSeq
    <3> QED
      BY <1>2, <3>1, ConcatProperties
  <2>2. ASSUME NEW k \in 1 .. queue_get_avail + Len(todo)
        PROVE  Contents'[k] = (Contents \o todo)[k]
    <3>1. Contents'[k] = buf[queue_wrap(head + (k - 1))]
      BY <1>1, <1>3, ContentsIsSeq
    <3>2. CASE k <= queue_get_avail
      BY <1>2, <2>1, <3>1, <3>2, ContentsIsSeq
    <3>3. CASE k > queue_get_avail
      <4> DEFINE i == k - queue_get_avail
      <4>1. i \in 1 .. Len(todo)
        BY <1>2, <3>3
      <4>2. queue_wrap(tail + (i - 1)) = queue_wrap(head + (queue_get_avail + (i - 1)))
        <5>1. /\ head \in Slot /\ tail = queue_wrap(head + queue_get_avail)
              /\ queue_get_avail \in Nat
          BY <1>2, AvailAndSpace DEF IndInv, TypeOK
        <5>2. i - 1 \in Nat /\ queue_get_avail + (i - 1) < Size
          BY <1>2, <4>1, SizeAssumption
        <5> QED
          BY <5>1, <5>2, WrapShift
      <4>3. queue_get_avail + (i - 1) = k - 1
        BY <1>2
      <4>4. buf[queue_wrap(tail + (i - 1))] = todo[i]
        BY <1>1, <4>1 DEF IndInv, ProducerInv
      <4> QED
        BY <1>2, <2>1, <3>1, <3>3, <4>2, <4>3, <4>4
    <3> QED
      <4>1. queue_get_avail \in Int /\ k \in Int
        BY <1>2, SizeAssumption
      <4>2. k <= queue_get_avail \/ k > queue_get_avail
        BY <4>1
      <4> QED
        BY <3>2, <3>3, <4>2
  <2> QED
    BY <1>3, <2>1, <2>2, ContentsIsSeq, SeqEqual
<1>5. todo \in Fifo!Chunks
  BY <1>2, SizeAssumption DEF Fifo!Chunks
<1>6. Len(Contents) + Len(todo) <= Size - 1
  <2>1. Len(Contents) = queue_get_avail
    BY ContentsIsSeq
  <2> QED
    BY <1>2, <2>1, SizeAssumption
<1>7. Fifo!Put(todo)
  BY <1>1, <1>4, <1>6 DEF Fifo!Put
<1> QED
  BY <1>5, <1>7 DEF Fifo!Next

(* Storing head takes the oldest cnt bytes from the queue, all at once.    *)
LEMMA PublishHeadRefines ==
    ASSUME IndInv, IndInv', PublishHead \/ PublishDrop
    PROVE  Fifo!Next
<1>1. /\ op \in {"take", "drop"}
      /\ head' = queue_wrap(head + cnt)
      /\ UNCHANGED <<buf, tail, accepted>>
  BY DEF PublishHead, PublishDrop, prodVars
<1>2. /\ queue_get_avail \in 0 .. Size - 1
      /\ cnt \in 1 .. queue_get_avail
      /\ off = 0
  <2>1. queue_get_avail \in 0 .. Size - 1
    BY AvailAndSpace DEF IndInv, TypeOK
  <2>2. cnt # 0 /\ off = 0
    BY <1>1 DEF IndInv, ConsumerInv
  <2>3. /\ off + cnt + more <= queue_get_avail
        /\ off \in Nat /\ cnt \in Nat /\ more \in Nat
    BY DEF IndInv, TypeOK, ConsumerInv
  <2> QED
    BY <2>1, <2>2, <2>3, SizeAssumption
<1>3. queue_get_avail' = queue_get_avail - cnt
  BY <1>1, <1>2, MoveHead, SizeAssumption DEF IndInv, TypeOK
<1>4. cnt \in 1 .. Len(Contents) /\ Len(Contents) = queue_get_avail
  BY <1>2, ContentsIsSeq
<1> DEFINE rest == SubSeq(Contents, cnt + 1, Len(Contents))
           front == SubSeq(Contents, 1, cnt)
<1>5. \A k \in 1 .. Len(Contents) : Contents[k] \in Byte
  BY ContentsIsSeq, ElementOfSeq
<1>6. Contents' = rest
  <2>1. /\ rest \in Seq(Byte)
        /\ Len(rest) = queue_get_avail - cnt
        /\ \A k \in 1 .. queue_get_avail - cnt : rest[k] = Contents[cnt + k]
    BY <1>2, <1>4, <1>5, SubSeqProperties
  <2>2. ASSUME NEW k \in 1 .. queue_get_avail - cnt
        PROVE  Contents'[k] = rest[k]
    <3>1. Contents'[k] = buf[queue_wrap(head' + (k - 1))]
      BY <1>1, <1>3, ContentsIsSeq
    <3>2. queue_wrap(head' + (k - 1)) = queue_wrap(head + (cnt + (k - 1)))
      BY <1>1, <1>2, WrapShift, SizeAssumption DEF IndInv, TypeOK
    <3>3. cnt + (k - 1) = (cnt + k) - 1 /\ cnt + k \in 1 .. queue_get_avail
      BY <1>2
    <3> QED
      BY <2>1, <3>1, <3>2, <3>3, ContentsIsSeq
  <2> QED
    BY <1>3, <2>1, <2>2, ContentsIsSeq, SeqEqual
<1>7. CASE PublishDrop
  <2>1. Fifo!Drop(cnt)
    BY <1>1, <1>6, <1>7 DEF PublishDrop, Fifo!Drop
  <2> QED
    BY <1>4, <2>1 DEF Fifo!Next
<1>8. CASE PublishHead
  <2>1. reply' = out /\ Len(out) = cnt /\ out \in Seq(Byte)
    BY <1>8 DEF PublishHead, IndInv, TypeOK
  <2>2. /\ front \in Seq(Byte)
        /\ Len(front) = cnt
        /\ \A k \in 1 .. cnt : front[k] = Contents[k]
    BY <1>2, <1>4, <1>5, SubSeqProperties
  <2>3. ASSUME NEW k \in 1 .. cnt
        PROVE  out[k] = front[k]
    <3>1. out[k] = buf[queue_wrap(head + (off + k - 1))]
      BY <2>1 DEF IndInv, ConsumerInv
    <3>2. off + k - 1 = k - 1 /\ k \in 1 .. queue_get_avail
      BY <1>2
    <3> QED
      BY <2>2, <3>1, <3>2, ContentsIsSeq
  <2>4. out = front
    BY <2>1, <2>2, <2>3, SeqEqual
  <2>5. Fifo!Take(cnt)
    BY <1>1, <1>6, <2>1, <2>4 DEF Fifo!Take
  <2> QED
    BY <1>4, <2>5 DEF Fifo!Next
<1> QED
  BY <1>7, <1>8

(* A peek returns bytes of the queue and leaves them there.                *)
LEMMA ReturnPeekRefines ==
    ASSUME IndInv, IndInv', ReturnPeek
    PROVE  Fifo!Next
<1>1. /\ op = "peek" /\ Len(out) = cnt /\ reply' = out
      /\ UNCHANGED <<buf, head, tail, accepted>>
  BY DEF ReturnPeek, prodVars
<1>2. /\ queue_get_avail \in 0 .. Size - 1
      /\ cnt \in 1 .. queue_get_avail
      /\ off \in 0 .. queue_get_avail
      /\ off + cnt <= queue_get_avail
      /\ out \in Seq(Byte)
  <2>1. queue_get_avail \in 0 .. Size - 1
    BY AvailAndSpace DEF IndInv, TypeOK
  <2>2. cnt # 0 /\ out \in Seq(Byte)
    BY <1>1 DEF IndInv, TypeOK, ConsumerInv
  <2>3. /\ off + cnt + more <= queue_get_avail
        /\ off \in Nat /\ cnt \in Nat /\ more \in Nat
    BY DEF IndInv, TypeOK, ConsumerInv
  <2> QED
    BY <2>1, <2>2, <2>3, SizeAssumption
<1> DEFINE part == SubSeq(Contents, off + 1, off + cnt)
<1>3. /\ Len(Contents) = queue_get_avail
      /\ \A k \in 1 .. Len(Contents) : Contents[k] \in Byte
  BY ContentsIsSeq, ElementOfSeq
<1>4. /\ part \in Seq(Byte)
      /\ Len(part) = cnt
      /\ \A k \in 1 .. cnt : part[k] = Contents[off + k]
  <2>1. \A k \in off + 1 .. off + cnt : Contents[k] \in Byte
    BY <1>2, <1>3
  <2>2. /\ off + 1 \in Int /\ off + cnt \in Int /\ off + 1 <= off + cnt
        /\ (off + cnt) - (off + 1) + 1 = cnt
        /\ \A k \in 1 .. cnt : (off + 1) + k - 1 = off + k
    BY <1>2
  <2>3. /\ part \in Seq(Byte)
        /\ Len(part) = (off + cnt) - (off + 1) + 1
        /\ \A k \in 1 .. (off + cnt) - (off + 1) + 1 :
              part[k] = Contents[(off + 1) + k - 1]
    BY <2>1, <2>2, SubSeqProperties
  <2> QED
    BY <2>2, <2>3
<1>5. ASSUME NEW k \in 1 .. cnt
      PROVE  out[k] = part[k]
  <2>1. out[k] = buf[queue_wrap(head + (off + k - 1))]
    BY <1>1 DEF IndInv, ConsumerInv
  <2>2. off + k - 1 = (off + k) - 1 /\ off + k \in 1 .. queue_get_avail
    BY <1>2
  <2> QED
    BY <1>4, <2>1, <2>2, ContentsIsSeq
<1>6. out = part
  BY <1>1, <1>2, <1>4, <1>5, SeqEqual
<1>7. Fifo!Peek(off, cnt)
  BY <1>1, <1>2, <1>3, <1>6, ContentsFrame DEF Fifo!Peek
<1> QED
  BY <1>2, <1>3, <1>7 DEF Fifo!Next

(* Every step of the queue is a step of the FIFO or changes nothing there. *)
LEMMA NextRefines == IndInv /\ IndInv' /\ [Next]_vars => [Fifo!Next]_(Fifo!vars)
<1> SUFFICES ASSUME IndInv, IndInv', [Next]_vars
             PROVE  [Fifo!Next]_(Fifo!vars)
  OBVIOUS
<1>1. ASSUME NEW o, NEW from, NEW n, NEW second, Begin(o, from, n, second)
      PROVE  UNCHANGED <<buf, head, tail, accepted, reply>>
  BY <1>1 DEF Begin, prodVars
<1>2. CASE CopyOut \/ UNCHANGED vars
  <2>1. UNCHANGED <<buf, head, tail, accepted, reply>>
    BY <1>2 DEF CopyOut, vars, prodVars, consVars
  <2> QED
    BY <2>1, CallRefines
<1>3. ASSUME NEW len, NEW peek, NEW from,
             \/ queue_read(len, peek) \/ queue_readchar(peek)
             \/ queue_read_at(from, len) \/ queue_to_chardev(len, peek)
             \/ queue_discard(len) \/ queue_purge
      PROVE  [Fifo!Next]_(Fifo!vars)
  <2>1. ReturnEmpty \/ UNCHANGED <<buf, head, tail, accepted, reply>>
    BY <1>1, <1>3 DEF queue_read, queue_readchar, queue_read_at,
       queue_to_chardev, queue_discard, queue_purge
  <2> QED
    BY <2>1, CallRefines
<1> QED
  BY <1>2, <1>3, CallRefines, CopyInRefines, PublishTailRefines,
     PublishHeadRefines, ReturnPeekRefines
     DEF Next, Producer, Consumer

(* The lockless queue implements the bounded FIFO: every byte accepted     *)
(* comes out once, in order and unaltered, calls take effect at once, and  *)
(* are refused only at a full or an empty queue.                           *)
THEOREM Refinement == Spec => ImplementsFifo
  BY Invariance, InitRefines, NextRefines, PTL
     DEF Spec, ImplementsFifo, Fifo!Spec
=============================================================================
