---------------------------- MODULE TerminalProofs ----------------------------
(***************************************************************************)
(* Proofs about the parts of Terminal: the queue with its blocking calls,  *)
(* the editor's thread and the printers that share the console, the line   *)
(* editor's list, and the byte channel.  They hold for every capacity,     *)
(* every size of queue, line, console buffer, chunk and channel, every set *)
(* of byte values and printable characters, any number of lines, and any   *)
(* number of calls and keys.                                               *)
(***************************************************************************)
EXTENDS Terminal, FiniteSetTheorems, SequenceTheorems, TLAPS

-----------------------------------------------------------------------------
(* The queue and the threads that block on it.                              *)

(* What the writer's call has yet to write: as long as no write was split,  *)
(* all of its buffer or nothing.                                            *)
Unwritten == IF wlen = 0 THEN <<>> ELSE wbuf

(* Where a thread is, a call that has bytes left, and whether it may sleep. *)
CallPlaces ==
    /\ pc["writer"] \in {"prepare", "try", "block"} => wlen > 0
    /\ pc["writer"] \in {"idle", "unblock"} => wlen = 0
    /\ pc["reader"] \in {"prepare", "try", "block"} => rlen > 0
    /\ pc["reader"] # "unblock"
    /\ \A t \in Thread : sched[t] = "asleep" => pc[t] = "prepare"

(* A thread that found nothing to do and is about to sleep, or asleep,      *)
(* still has nothing to do, or the other is about to wake it.               *)
Sleepy(t) == sched[t] # "running" /\ (pc[t] = "block" \/ sched[t] = "asleep")
WakeComing ==
    /\ Sleepy("reader") /\ items # <<>> => pc["writer"] = "notify"
    /\ Sleepy("writer") /\ Len(items) < Capacity => pc["reader"] = "notify"

BytesOnTheWay ==
    /\ Len(received) + Len(items) + wlen = Len(sent) /\ wlen <= Len(wbuf)
    /\ ~split => (received \o items) \o Unwritten = sent /\ Len(Unwritten) = wlen

BlockingInv == TypeOK /\ CallPlaces /\ WakeComing /\ BytesOnTheWay

(* A sequence cut in two.                                                   *)
LEMMA Parted ==
    ASSUME NEW S, NEW s \in Seq(S), NEW n \in 0 .. Len(s)
    PROVE  /\ SubSeq(s, 1, n) \in Seq(S) /\ Len(SubSeq(s, 1, n)) = n
           /\ SubSeq(s, n + 1, Len(s)) \in Seq(S) /\ Len(SubSeq(s, n + 1, Len(s))) = Len(s) - n
           /\ SubSeq(s, 1, n) \o SubSeq(s, n + 1, Len(s)) = s
<1>1. Len(s) \in Nat /\ n \in Nat /\ n <= Len(s)
  BY LenProperties
<1>2. \A i \in 1 .. Len(s) : s[i] \in S
  BY ElementOfSeq
<1>3. SubSeq(s, 1, n) \in Seq(S) /\ Len(SubSeq(s, 1, n)) = n
  <2>1. \A i \in 1 .. n : s[i] \in S
    BY <1>1, <1>2
  <2> QED BY <1>1, <2>1, SubSeqProperties
<1>4. SubSeq(s, n + 1, Len(s)) \in Seq(S) /\ Len(SubSeq(s, n + 1, Len(s))) = Len(s) - n
  <2>1. \A i \in n + 1 .. Len(s) : s[i] \in S
    BY <1>1, <1>2
  <2> QED BY <1>1, <2>1, SubSeqProperties
<1>5. SubSeq(s, 1, n) \o SubSeq(s, n + 1, Len(s)) = SubSeq(s, 1, Len(s))
  <2>1. 1 \in 1 .. Len(s) + 1 /\ n \in 1 - 1 .. Len(s) /\ Len(s) \in n .. Len(s)
    BY <1>1
  <2> QED BY <2>1, ConcatAdjacentSubSeq
<1>6. SubSeq(s, 1, Len(s)) = s
  BY SubSeqFull
<1> QED BY <1>3, <1>4, <1>5, <1>6

(* Appending the first bytes of a buffer.                                   *)
LEMMA Filled ==
    ASSUME NEW q \in Seq(Byte), NEW b \in Seq(Byte), NEW k \in 0 .. Len(b)
    PROVE  /\ q \o SubSeq(b, 1, k) \in Seq(Byte) /\ Len(q \o SubSeq(b, 1, k)) = Len(q) + k
           /\ k = 0 => q \o SubSeq(b, 1, k) = q
           /\ k = Len(b) => q \o SubSeq(b, 1, k) = q \o b
<1>1. SubSeq(b, 1, k) \in Seq(Byte) /\ Len(SubSeq(b, 1, k)) = k
  BY Parted
<1>2. k = 0 => SubSeq(b, 1, k) = <<>>
  BY <1>1, EmptySeq
<1>3. q \o <<>> = q
  BY ConcatEmptySeq
<1>4. k = Len(b) => SubSeq(b, 1, k) = b
  BY SubSeqFull
<1>5. q \o SubSeq(b, 1, k) \in Seq(Byte) /\ Len(q \o SubSeq(b, 1, k)) = Len(q) + k
  BY <1>1, ConcatProperties
<1> QED BY <1>2, <1>3, <1>4, <1>5

(* Taking the first bytes of a queue moves them to the end of another.      *)
LEMMA Moved ==
    ASSUME NEW r \in Seq(Byte), NEW q \in Seq(Byte), NEW k \in 0 .. Len(q)
    PROVE  /\ SubSeq(q, k + 1, Len(q)) \in Seq(Byte) /\ Len(SubSeq(q, k + 1, Len(q))) = Len(q) - k
           /\ r \o SubSeq(q, 1, k) \in Seq(Byte) /\ Len(r \o SubSeq(q, 1, k)) = Len(r) + k
           /\ (r \o SubSeq(q, 1, k)) \o SubSeq(q, k + 1, Len(q)) = r \o q
<1>1. /\ SubSeq(q, 1, k) \in Seq(Byte) /\ SubSeq(q, k + 1, Len(q)) \in Seq(Byte)
      /\ Len(SubSeq(q, 1, k)) = k /\ Len(SubSeq(q, k + 1, Len(q))) = Len(q) - k
      /\ SubSeq(q, 1, k) \o SubSeq(q, k + 1, Len(q)) = q
  BY Parted
<1>2. r \o SubSeq(q, 1, k) \in Seq(Byte) /\ Len(r \o SubSeq(q, 1, k)) = Len(r) + k
  BY <1>1, ConcatProperties
<1>3. (r \o SubSeq(q, 1, k)) \o SubSeq(q, k + 1, Len(q)) = r \o (SubSeq(q, 1, k) \o SubSeq(q, k + 1, Len(q)))
  <2> DEFINE x == SubSeq(q, 1, k)
             y == SubSeq(q, k + 1, Len(q))
  <2>1. x \in Seq(Byte) /\ y \in Seq(Byte)
    BY <1>1
  <2> HIDE DEF x, y
  <2>2. (r \o x) \o y = r \o (x \o y)
    BY <2>1, ConcatAssociative
  <2> QED BY <2>2 DEF x, y
<1> QED BY <1>1, <1>2, <1>3

LEMMA Blocking_Init == Init => BlockingInv
<1> SUFFICES ASSUME Init PROVE BlockingInv
  OBVIOUS
<1>1. <<>> \in Seq(Byte) /\ Len(<<>>) = 0 /\ (<<>> \o <<>>) \o <<>> = <<>>
  OBVIOUS
<1>2. TypeOK
  <2>1. 0 \in 0 .. MaxLen /\ 0 <= Capacity
    BY CapacityAssumption, MaxLenAssumption
  <2>2. /\ items \in Seq(Byte) /\ Len(items) = 0 /\ wbuf \in Seq(Byte)
        /\ sent \in Seq(Byte) /\ received \in Seq(Byte)
    BY <1>1 DEF Init
  <2>3. /\ sched \in [Thread -> {"running", "preparing", "asleep"}]
        /\ pc \in [Thread -> {"idle", "prepare", "try", "notify", "block", "unblock"}]
    BY DEF Init
  <2>4. /\ wlen \in 0 .. MaxLen /\ rlen \in 0 .. MaxLen /\ split \in BOOLEAN
        /\ call \in {"none", "writechar", "write"}
    BY <2>1 DEF Init
  <2> QED BY <2>1, <2>2, <2>3, <2>4 DEF TypeOK
<1>3. CallPlaces /\ WakeComing
  BY DEF Init, CallPlaces, WakeComing, Sleepy, Thread
<1>4. BytesOnTheWay
  BY <1>1 DEF Init, BytesOnTheWay, Unwritten
<1> QED BY <1>2, <1>3, <1>4 DEF BlockingInv

(* A thread's own step, with the queue and the bytes as they were.          *)
LEMMA Prepare_Keeps ==
    ASSUME BlockingInv, NEW t \in Thread, Prepare(t) \/ Block(t)
    PROVE  BlockingInv'
<1> USE DEF writerVars, readerVars
<1>1. /\ TypeOK /\ CallPlaces /\ WakeComing /\ BytesOnTheWay
      /\ UNCHANGED <<items, call, wbuf, wlen, sent, split, rlen, received>>
  BY DEF BlockingInv, Prepare, Block
<1>2. /\ sched \in [Thread -> {"running", "preparing", "asleep"}]
      /\ pc \in [Thread -> {"idle", "prepare", "try", "notify", "block", "unblock"}]
      /\ t = "writer" \/ t = "reader"
  BY <1>1 DEF TypeOK, Thread
<1>3. CASE Prepare(t)
  <2>1. /\ pc[t] = "prepare" /\ sched' = [sched EXCEPT ![t] = "preparing"] /\ pc' = [pc EXCEPT ![t] = "try"]
    BY <1>3 DEF Prepare, Goto, libos_prepare_to_block
  <2>2. TypeOK'
    BY <1>1, <1>2, <2>1 DEF TypeOK
  <2>3. CallPlaces'
    BY <1>1, <1>2, <2>1 DEF CallPlaces, Thread
  <2>4. WakeComing'
    BY <1>1, <1>2, <2>1 DEF WakeComing, Sleepy, Thread
  <2>5. BytesOnTheWay'
    BY <1>1 DEF BytesOnTheWay, Unwritten
  <2> QED BY <2>2, <2>3, <2>4, <2>5 DEF BlockingInv
<1>4. CASE Block(t)
  <2>1. /\ pc[t] = "block" /\ pc' = [pc EXCEPT ![t] = "prepare"]
        /\ sched' = [sched EXCEPT ![t] = IF sched[t] = "preparing" THEN "asleep" ELSE sched[t]]
    BY <1>4 DEF Block, Goto, libos_block
  <2>2. TypeOK'
    BY <1>1, <1>2, <2>1 DEF TypeOK
  <2>3. CallPlaces'
    BY <1>1, <1>2, <2>1 DEF CallPlaces, Thread
  <2>4. WakeComing'
    BY <1>1, <1>2, <2>1 DEF WakeComing, Sleepy, Thread
  <2>5. BytesOnTheWay'
    BY <1>1 DEF BytesOnTheWay, Unwritten
  <2> QED BY <2>2, <2>3, <2>4, <2>5 DEF BlockingInv
<1> QED BY <1>3, <1>4

LEMMA WriteCall_Keeps == BlockingInv /\ WriteCall => BlockingInv'
<1> SUFFICES ASSUME BlockingInv, WriteCall PROVE BlockingInv'
  OBVIOUS
<1> USE DEF writerVars, readerVars
<1>1. /\ TypeOK /\ CallPlaces /\ WakeComing /\ BytesOnTheWay /\ pc["writer"] = "idle" /\ wlen = 0
      /\ UNCHANGED <<items, sched, split, rlen, received>> /\ pc' = [pc EXCEPT !["writer"] = "prepare"]
  BY DEF BlockingInv, WriteCall, Goto, CallPlaces
<1>2. /\ sched \in [Thread -> {"running", "preparing", "asleep"}]
      /\ pc \in [Thread -> {"idle", "prepare", "try", "notify", "block", "unblock"}]
      /\ items \in Seq(Byte) /\ received \in Seq(Byte) /\ sent \in Seq(Byte)
  BY <1>1 DEF TypeOK
<1>3. /\ wbuf' \in Seq(Byte) /\ wlen' \in 1 .. MaxLen /\ wlen' = Len(wbuf') /\ sent' = sent \o wbuf'
      /\ call' \in {"none", "writechar", "write"}
  <2>1. ASSUME NEW c \in Byte, queue_writechar_blocking(c) PROVE <1>3
    <3>1. <<c>> \in Seq(Byte) /\ Len(<<c>>) = 1 /\ 1 \in 1 .. MaxLen
      BY MaxLenAssumption
    <3>2. Append(sent, c) = sent \o <<c>>
      BY <1>2, AppendIsConcat
    <3> QED BY <2>1, <3>1, <3>2 DEF queue_writechar_blocking
  <2>2. ASSUME NEW data \in Buffers, queue_write_blocking(data) PROVE <1>3
    <3>1. data \in Seq(Byte) /\ Len(data) \in 1 .. MaxLen
      BY MaxLenAssumption DEF Buffers
    <3> QED BY <2>2, <3>1 DEF queue_write_blocking
  <2> QED BY <2>1, <2>2 DEF WriteCall
<1>4. /\ sent' \in Seq(Byte) /\ Len(sent') = Len(sent) + Len(wbuf')
      /\ Len(sent) \in Nat /\ Len(items) \in Nat /\ Len(received) \in Nat
  BY <1>2, <1>3, ConcatProperties, LenProperties
<1>5. TypeOK'
  BY <1>1, <1>2, <1>3, <1>4 DEF TypeOK, Thread
<1>6. CallPlaces'
  BY <1>1, <1>2, <1>3 DEF CallPlaces, Thread
<1>7. WakeComing'
  BY <1>1, <1>2 DEF WakeComing, Sleepy, Thread, CallPlaces
<1>8. BytesOnTheWay'
  <2>1. Unwritten' = wbuf'
    BY <1>3 DEF Unwritten
  <2>2. Unwritten = <<>>
    BY <1>1 DEF Unwritten
  <2>3. (received \o items) \o <<>> = received \o items /\ received \o items \in Seq(Byte)
    BY <1>2, ConcatProperties, ConcatEmptySeq
  <2>4. ~split => received \o items = sent
    BY <1>1, <2>2, <2>3 DEF BytesOnTheWay
  <2>5. ~split' => (received' \o items') \o Unwritten' = sent'
    BY <1>1, <1>3, <2>1, <2>4
  <2>6. Len(received') + Len(items') + wlen' = Len(sent')
    <3>1. Len(received) + Len(items) = Len(sent)
      BY <1>1, <1>4 DEF BytesOnTheWay
    <3>2. wlen' \in Nat /\ received' = received /\ items' = items /\ wlen' = Len(wbuf')
      BY <1>1, <1>3
    <3> QED BY <1>4, <3>1, <3>2
  <2>7. Len(Unwritten') = wlen' /\ wlen' <= Len(wbuf')
    BY <1>3, <2>1
  <2> QED BY <2>5, <2>6, <2>7 DEF BytesOnTheWay
<1> QED BY <1>5, <1>6, <1>7, <1>8 DEF BlockingInv

LEMMA TryWrite_Keeps == BlockingInv /\ TryWrite => BlockingInv'
<1> SUFFICES ASSUME BlockingInv, TryWrite PROVE BlockingInv'
  OBVIOUS
<1> USE DEF writerVars, readerVars
<1>1. /\ TypeOK /\ CallPlaces /\ WakeComing /\ BytesOnTheWay /\ pc["writer"] = "try"
      /\ UNCHANGED <<sched, call, wbuf, sent, rlen, received>>
  BY DEF BlockingInv, TryWrite
<1>2. /\ Len(items) \in Nat /\ Len(items) <= Capacity /\ wlen \in Nat /\ 0 < wlen /\ wlen <= MaxLen
      /\ split \in BOOLEAN
  BY <1>1, LenProperties, MaxLenAssumption DEF TypeOK, CallPlaces
<1>seqs. items \in Seq(Byte) /\ received \in Seq(Byte) /\ sent \in Seq(Byte) /\ wbuf \in Seq(Byte)
  BY <1>1 DEF TypeOK
<1>threads. /\ sched \in [Thread -> {"running", "preparing", "asleep"}]
      /\ pc \in [Thread -> {"idle", "prepare", "try", "notify", "block", "unblock"}]
  BY <1>1 DEF TypeOK
<1>3. PICK n :
        /\ n \in Nat /\ n <= wlen /\ n + Len(items) <= Capacity /\ (n = 0 => Len(items) = Capacity)
        /\ pc' = [pc EXCEPT !["writer"] = IF n > 0 THEN "notify" ELSE "block"]
        /\ items' = items \o SubSeq(wbuf, 1, n) /\ wlen' = wlen - n
        /\ split' = (split \/ n \in 1 .. wlen - 1)
  <2> DEFINE n == Least(Capacity - Len(items), wlen)
  <2>1. /\ n \in Nat /\ n <= wlen /\ n + Len(items) <= Capacity /\ (n = 0 => Len(items) = Capacity)
    BY <1>2, CapacityAssumption, MaxLenAssumption DEF Least
  <2>2. /\ pc' = [pc EXCEPT !["writer"] = IF n > 0 THEN "notify" ELSE "block"]
        /\ items' = items \o SubSeq(wbuf, 1, n) /\ wlen' = wlen - n
        /\ split' = (split \/ n \in 1 .. wlen - 1)
    BY DEF TryWrite, Goto
  <2> QED BY <2>1, <2>2
<1>count. /\ n \in Nat /\ n <= wlen /\ n + Len(items) <= Capacity /\ (n = 0 => Len(items) = Capacity)
      /\ wlen' = wlen - n
  BY <1>3
<1>goes. /\ pc' = [pc EXCEPT !["writer"] = IF n > 0 THEN "notify" ELSE "block"]
      /\ split' = (split \/ n \in 1 .. wlen - 1)
  BY <1>3
<1>4. /\ items' \in Seq(Byte) /\ Len(items') = Len(items) + n
      /\ n = 0 => items' = items
      /\ n = Len(wbuf) => items' = items \o wbuf
  <2>1. n \in 0 .. Len(wbuf)
    BY <1>1, <1>2, <1>seqs, <1>count, LenProperties DEF BytesOnTheWay
  <2>2. items' = items \o SubSeq(wbuf, 1, n)
    BY <1>3
  <2> QED BY <1>seqs, <2>1, <2>2, Filled
<1>5. TypeOK'
  <2>1. wlen' \in 0 .. MaxLen /\ Len(items') <= Capacity /\ split' \in BOOLEAN
    <3>1. wlen' \in 0 .. MaxLen
      BY <1>2, <1>count, MaxLenAssumption
    <3>2. Len(items') = Len(items) + n
      BY <1>4
    <3>3. Len(items') <= Capacity
      BY <1>2, <1>count, <3>2, CapacityAssumption
    <3> QED BY <1>2, <1>goes, <3>1, <3>3
  <2>2. pc' \in [Thread -> {"idle", "prepare", "try", "notify", "block", "unblock"}]
    BY <1>threads, <1>goes
  <2> QED BY <1>1, <1>4, <2>1, <2>2 DEF TypeOK
<1>6. CallPlaces'
  <2>1. n = 0 => wlen' > 0
    BY <1>1, <1>2, <1>count
  <2> QED BY <1>1, <1>2, <1>threads, <1>count, <1>goes, <2>1 DEF CallPlaces, Thread
<1>7. WakeComing'
  <2>1. CASE n = 0
    <3>1. pc' = [pc EXCEPT !["writer"] = "block"] /\ Len(items) = Capacity /\ Len(items') = Capacity
      <4>1. Len(items) = Capacity /\ Len(items') = Capacity /\ ~(n > 0)
        BY <1>count, <1>4, <2>1, CapacityAssumption
      <4> QED BY <1>goes, <4>1
    <3>2. items' = items
      BY <1>4, <2>1
    <3>3. sched["writer"] # "asleep"
      BY <1>1 DEF CallPlaces, Thread
    <3> QED BY <1>1, <1>threads, <3>1, <3>2, <3>3, CapacityAssumption DEF WakeComing, Sleepy, Thread
  <2>2. CASE n # 0
    <3>1. pc' = [pc EXCEPT !["writer"] = "notify"]
      <4>1. n > 0
        BY <1>count, <2>2
      <4> QED BY <1>goes, <4>1
    <3>2. sched["writer"] # "asleep"
      BY <1>1 DEF CallPlaces, Thread
    <3> QED BY <1>1, <1>threads, <3>1, <3>2 DEF WakeComing, Sleepy, Thread
  <2> QED BY <2>1, <2>2
<1>8. BytesOnTheWay'
  <2>1. Len(received') + Len(items') + wlen' = Len(sent') /\ wlen' <= Len(wbuf')
    <3>1. /\ Len(received) + Len(items) + wlen = Len(sent) /\ wlen <= Len(wbuf)
          /\ Len(received) \in Nat /\ Len(wbuf) \in Nat
      BY <1>1, <1>seqs, LenProperties DEF BytesOnTheWay
    <3>2. received' = received /\ wbuf' = wbuf /\ sent' = sent /\ wlen' = wlen - n
      BY <1>1, <1>count
    <3> QED BY <1>2, <1>count, <1>4, <3>1, <3>2
  <2>2. ASSUME ~split' PROVE (received' \o items') \o Unwritten' = sent' /\ Len(Unwritten') = wlen'
    <3>1. /\ ~split /\ n \notin 1 .. wlen - 1 /\ Unwritten = wbuf /\ Len(wbuf) = wlen
          /\ (received \o items) \o wbuf = sent
      <4>1. ~split /\ n \notin 1 .. wlen - 1
        BY <1>2, <1>goes, <2>2
      <4>2. Unwritten = wbuf
        BY <1>2 DEF Unwritten
      <4> QED BY <1>1, <4>1, <4>2 DEF BytesOnTheWay
    <3>2. CASE n = 0
      <4>1. items' = items /\ wlen' = wlen
        BY <1>2, <1>count, <1>4, <3>2
      <4> QED BY <1>1, <3>1, <4>1 DEF Unwritten
    <3>3. CASE n = wlen
      <4>2. wlen' = 0 /\ items' = items \o wbuf /\ Unwritten' = <<>>
        BY <1>2, <1>count, <1>4, <3>1, <3>3 DEF Unwritten
      <4>3. received \o (items \o wbuf) = (received \o items) \o wbuf
        BY <1>seqs, ConcatAssociative
      <4>4. (received' \o items') \o Unwritten' = sent
        <5>1. sent \o <<>> = sent
          BY <1>seqs, ConcatEmptySeq
        <5> QED BY <1>1, <3>1, <4>2, <4>3, <5>1
      <4> QED BY <1>1, <4>2, <4>4
    <3> QED BY <1>2, <1>count, <3>1, <3>2, <3>3
  <2> QED BY <2>1, <2>2 DEF BytesOnTheWay
<1> QED BY <1>5, <1>6, <1>7, <1>8 DEF BlockingInv

LEMMA Notify_Keeps == BlockingInv /\ (NotifyConsumer \/ WriteReturn \/ NotifyProducer) => BlockingInv'
<1> SUFFICES ASSUME BlockingInv, NotifyConsumer \/ WriteReturn \/ NotifyProducer PROVE BlockingInv'
  OBVIOUS
<1> USE DEF writerVars, readerVars
<1>1. /\ TypeOK /\ CallPlaces /\ WakeComing /\ BytesOnTheWay
      /\ UNCHANGED <<items, wlen, sent, split, rlen, received>>
  BY DEF BlockingInv, NotifyConsumer, WriteReturn, NotifyProducer
<1>2. /\ sched \in [Thread -> {"running", "preparing", "asleep"}]
      /\ pc \in [Thread -> {"idle", "prepare", "try", "notify", "block", "unblock"}]
      /\ wlen \in 0 .. MaxLen /\ rlen \in 0 .. MaxLen
  BY <1>1 DEF TypeOK
<1>3. CASE NotifyConsumer
  <2>1. /\ pc["writer"] = "notify" /\ sched' = [sched EXCEPT !["reader"] = "running"]
        /\ pc' = [pc EXCEPT !["writer"] = IF wlen > 0 THEN "prepare" ELSE "unblock"] /\ UNCHANGED <<wbuf, call>>
    BY <1>3 DEF NotifyConsumer, Goto, libos_unblock
  <2>2. TypeOK'
    BY <1>1, <1>2, <2>1 DEF TypeOK
  <2>3. CallPlaces'
    <3>1. wlen = 0 \/ wlen > 0
      BY <1>2, MaxLenAssumption
    <3> QED BY <1>1, <1>2, <2>1, <3>1 DEF CallPlaces, Thread
  <2>4. WakeComing'
    BY <1>1, <1>2, <2>1 DEF WakeComing, Sleepy, CallPlaces, Thread
  <2>5. BytesOnTheWay'
    BY <1>1, <2>1 DEF BytesOnTheWay, Unwritten
  <2> QED BY <2>2, <2>3, <2>4, <2>5 DEF BlockingInv
<1>4. CASE WriteReturn
  <2>1. /\ pc["writer"] = "unblock" /\ sched' = [sched EXCEPT !["writer"] = "running"]
        /\ pc' = [pc EXCEPT !["writer"] = "idle"] /\ call' = "none" /\ wbuf' = <<>> /\ wlen = 0
    BY <1>1, <1>4 DEF WriteReturn, Goto, libos_unblock, CallPlaces
  <2>2. TypeOK'
    <3>1. wbuf' \in Seq(Byte)
      BY <2>1, EmptySeq
    <3> QED BY <1>1, <1>2, <2>1, <3>1 DEF TypeOK
  <2>3. CallPlaces'
    BY <1>1, <1>2, <2>1 DEF CallPlaces, Thread
  <2>4. WakeComing'
    BY <1>1, <1>2, <2>1 DEF WakeComing, Sleepy, CallPlaces, Thread
  <2>5. BytesOnTheWay'
    <3>1. Unwritten' = Unwritten /\ Len(wbuf') = 0
      BY <1>1, <2>1 DEF Unwritten
    <3> QED BY <1>1, <2>1, <3>1 DEF BytesOnTheWay
  <2> QED BY <2>2, <2>3, <2>4, <2>5 DEF BlockingInv
<1>5. CASE NotifyProducer
  <2>1. /\ pc["reader"] = "notify" /\ sched' = [sched EXCEPT !["writer"] = "running"]
        /\ pc' = [pc EXCEPT !["reader"] = IF rlen > 0 THEN "prepare" ELSE "idle"] /\ UNCHANGED <<wbuf, call>>
    BY <1>5 DEF NotifyProducer, Goto, libos_unblock
  <2>2. TypeOK'
    BY <1>1, <1>2, <2>1 DEF TypeOK
  <2>3. CallPlaces'
    BY <1>1, <1>2, <2>1 DEF CallPlaces, Thread
  <2>4. WakeComing'
    BY <1>1, <1>2, <2>1 DEF WakeComing, Sleepy, CallPlaces, Thread
  <2>5. BytesOnTheWay'
    BY <1>1, <2>1 DEF BytesOnTheWay, Unwritten
  <2> QED BY <2>2, <2>3, <2>4, <2>5 DEF BlockingInv
<1> QED BY <1>3, <1>4, <1>5

LEMMA ReadCall_Keeps == BlockingInv /\ ReadCall => BlockingInv'
<1> SUFFICES ASSUME BlockingInv, NEW len \in 1 .. MaxLen, queue_read_blocking(len) PROVE BlockingInv'
  BY DEF ReadCall
<1> USE DEF writerVars, readerVars
<1>1. /\ TypeOK /\ CallPlaces /\ WakeComing /\ BytesOnTheWay /\ pc["reader"] = "idle"
      /\ UNCHANGED <<items, sched, call, wbuf, wlen, sent, split, received>>
      /\ rlen' = len /\ pc' = [pc EXCEPT !["reader"] = "prepare"]
  BY DEF BlockingInv, queue_read_blocking, Goto
<1>2. /\ sched \in [Thread -> {"running", "preparing", "asleep"}]
      /\ pc \in [Thread -> {"idle", "prepare", "try", "notify", "block", "unblock"}]
      /\ len \in 0 .. MaxLen /\ len > 0
  BY <1>1 DEF TypeOK
<1>3. TypeOK'
  BY <1>1, <1>2 DEF TypeOK
<1>4. CallPlaces'
  BY <1>1, <1>2 DEF CallPlaces, Thread
<1>5. WakeComing'
  BY <1>1, <1>2 DEF WakeComing, Sleepy, CallPlaces, Thread
<1>6. BytesOnTheWay'
  BY <1>1 DEF BytesOnTheWay, Unwritten
<1> QED BY <1>3, <1>4, <1>5, <1>6 DEF BlockingInv

LEMMA TryRead_Keeps == BlockingInv /\ TryRead => BlockingInv'
<1> SUFFICES ASSUME BlockingInv, TryRead PROVE BlockingInv'
  OBVIOUS
<1> USE DEF writerVars, readerVars
<1>1. /\ TypeOK /\ CallPlaces /\ WakeComing /\ BytesOnTheWay /\ pc["reader"] = "try"
      /\ UNCHANGED <<sched, call, wbuf, wlen, sent, split>>
  BY DEF BlockingInv, TryRead
<1>2. /\ Len(items) \in Nat /\ Len(items) <= Capacity /\ rlen \in Nat /\ 0 < rlen /\ rlen <= MaxLen
  BY <1>1, LenProperties, MaxLenAssumption DEF TypeOK, CallPlaces
<1>seqs. items \in Seq(Byte) /\ received \in Seq(Byte) /\ sent \in Seq(Byte) /\ wbuf \in Seq(Byte)
  BY <1>1 DEF TypeOK
<1>threads. /\ sched \in [Thread -> {"running", "preparing", "asleep"}]
      /\ pc \in [Thread -> {"idle", "prepare", "try", "notify", "block", "unblock"}]
  BY <1>1 DEF TypeOK
<1>3. PICK n :
        /\ n \in Nat /\ n <= Len(items) /\ n <= rlen /\ (n = 0 => Len(items) = 0)
        /\ pc' = [pc EXCEPT !["reader"] = IF n > 0 THEN "notify" ELSE "block"]
        /\ items' = SubSeq(items, n + 1, Len(items)) /\ received' = received \o SubSeq(items, 1, n)
        /\ rlen' = rlen - n
  <2> DEFINE n == Least(Len(items), rlen)
  <2>1. /\ n \in Nat /\ n <= Len(items) /\ n <= rlen /\ (n = 0 => Len(items) = 0)
    BY <1>2, MaxLenAssumption DEF Least
  <2>2. /\ pc' = [pc EXCEPT !["reader"] = IF n > 0 THEN "notify" ELSE "block"]
        /\ items' = SubSeq(items, n + 1, Len(items)) /\ received' = received \o SubSeq(items, 1, n)
        /\ rlen' = rlen - n
    BY DEF TryRead, Goto
  <2> QED BY <2>1, <2>2
<1>count. /\ n \in Nat /\ n <= Len(items) /\ n <= rlen /\ (n = 0 => Len(items) = 0)
      /\ rlen' = rlen - n
  BY <1>3
<1>goes. pc' = [pc EXCEPT !["reader"] = IF n > 0 THEN "notify" ELSE "block"]
  BY <1>3
<1>4. /\ items' \in Seq(Byte) /\ Len(items') = Len(items) - n
      /\ received' \in Seq(Byte) /\ Len(received') = Len(received) + n
      /\ received' \o items' = received \o items
  <2>1. n \in 0 .. Len(items)
    BY <1>2, <1>count
  <2>2. items' = SubSeq(items, n + 1, Len(items)) /\ received' = received \o SubSeq(items, 1, n)
    BY <1>3
  <2> QED BY <1>seqs, <2>1, <2>2, Moved
<1>5. Len(received) \in Nat
  BY <1>seqs, LenProperties
<1>6. TypeOK'
  <2>1. rlen' \in 0 .. MaxLen /\ Len(items') <= Capacity
    BY <1>2, <1>count, <1>4, CapacityAssumption, MaxLenAssumption
  <2>2. pc' \in [Thread -> {"idle", "prepare", "try", "notify", "block", "unblock"}]
    BY <1>threads, <1>goes
  <2> QED BY <1>1, <1>4, <2>1, <2>2 DEF TypeOK
<1>7. CallPlaces'
  <2>1. n = 0 => rlen' > 0
    BY <1>1, <1>2, <1>count
  <2> QED BY <1>1, <1>2, <1>threads, <1>count, <1>goes, <2>1 DEF CallPlaces, Thread
<1>8. WakeComing'
  <2>0. sched["reader"] # "asleep"
    BY <1>1 DEF CallPlaces, Thread
  <2>1. CASE n = 0
    <3>1. pc' = [pc EXCEPT !["reader"] = "block"] /\ items' = <<>> /\ items = <<>>
      <4>1. pc' = [pc EXCEPT !["reader"] = "block"] /\ Len(items) = 0 /\ Len(items') = 0
        <5>1. Len(items) = 0 /\ Len(items') = 0 /\ ~(n > 0)
          BY <1>count, <1>4, <2>1
        <5> QED BY <1>goes, <5>1
      <4> QED BY <1>seqs, <1>4, <4>1, EmptySeq
    <3> QED BY <1>1, <1>threads, <2>0, <3>1 DEF WakeComing, Sleepy, Thread
  <2>2. CASE n # 0
    <3>1. pc' = [pc EXCEPT !["reader"] = "notify"]
      <4>1. n > 0
        BY <1>count, <2>2
      <4> QED BY <1>goes, <4>1
    <3> QED BY <1>1, <1>threads, <2>0, <3>1 DEF WakeComing, Sleepy, Thread
  <2> QED BY <2>1, <2>2
<1>9. BytesOnTheWay'
  <2>1. Len(received') + Len(items') + wlen' = Len(sent')
    <3>1. Len(received) + Len(items) + wlen = Len(sent) /\ wlen \in Nat
      BY <1>1, MaxLenAssumption DEF BytesOnTheWay, TypeOK
    <3>2. wlen' = wlen /\ sent' = sent
      BY <1>1
    <3>3. Len(items') = Len(items) - n /\ Len(received') = Len(received) + n
      BY <1>4
    <3> QED BY <1>2, <1>count, <1>5, <3>1, <3>2, <3>3
  <2>2. Unwritten' = Unwritten
    BY <1>1 DEF Unwritten
  <2> QED BY <1>1, <1>4, <2>1, <2>2 DEF BytesOnTheWay
<1> QED BY <1>6, <1>7, <1>8, <1>9 DEF BlockingInv

LEMMA Blocking_Next == BlockingInv /\ [Next]_vars => BlockingInv'
<1> SUFFICES ASSUME BlockingInv, [Next]_vars PROVE BlockingInv'
  OBVIOUS
<1>1. CASE UNCHANGED vars
  <2>1. UNCHANGED <<items, sched, pc, call, wbuf, wlen, sent, split, rlen, received>>
    BY <1>1 DEF vars, writerVars, readerVars
  <2>2. TypeOK' /\ CallPlaces' /\ WakeComing'
    BY <2>1 DEF BlockingInv, TypeOK, CallPlaces, WakeComing, Sleepy
  <2>3. BytesOnTheWay'
    BY <2>1 DEF BlockingInv, BytesOnTheWay, Unwritten
  <2> QED BY <2>2, <2>3 DEF BlockingInv
<1>2. CASE Writer \/ Reader
  BY <1>2, Prepare_Keeps, TryWrite_Keeps, Notify_Keeps, TryRead_Keeps DEF Writer, Reader, Thread
<1> QED BY <1>1, <1>2, WriteCall_Keeps, ReadCall_Keeps DEF Next

LEMMA Blocking_Sound == BlockingInv => TypeOK /\ NoLostWakeup /\ BytesConserved /\ WholeWritesInOrder
<1> SUFFICES ASSUME BlockingInv PROVE TypeOK /\ NoLostWakeup /\ BytesConserved /\ WholeWritesInOrder
  OBVIOUS
<1>1. TypeOK /\ NoLostWakeup /\ BytesConserved
  BY DEF BlockingInv, WakeComing, Sleepy, NoLostWakeup, BytesOnTheWay, BytesConserved
<1>2. ASSUME ~split PROVE StreamInOrder
  <2> DEFINE s == received \o items
  <2>1. /\ s \in Seq(Byte) /\ s \o Unwritten = sent /\ Unwritten \in Seq(Byte) /\ sent \in Seq(Byte)
    <3>1. received \in Seq(Byte) /\ items \in Seq(Byte) /\ wbuf \in Seq(Byte) /\ sent \in Seq(Byte)
      BY DEF BlockingInv, TypeOK
    <3>2. Unwritten \in Seq(Byte)
      BY <3>1 DEF Unwritten
    <3> QED BY <1>2, <3>1, <3>2, ConcatProperties DEF BlockingInv, BytesOnTheWay
  <2> HIDE DEF s
  <2>2. Len(sent) = Len(s) + Len(Unwritten) /\ Len(s) \in Nat /\ Len(Unwritten) \in Nat
        /\ \A i \in 1 .. Len(s) : sent[i] = s[i]
    BY <2>1, ConcatProperties, LenProperties
  <2>3. SubSeq(sent, 1, Len(s)) = s
    <3>1. Len(s) \in 0 .. Len(sent)
      BY <2>2
    <3>2. SubSeq(sent, 1, Len(s)) \in Seq(Byte) /\ Len(SubSeq(sent, 1, Len(s))) = Len(s)
      BY <2>1, <3>1, Parted
    <3>3. \A i \in 1 .. Len(s) : SubSeq(sent, 1, Len(s))[i] = s[i]
      <4>1. \A i \in 1 .. Len(s) : sent[i] \in Byte
        BY <2>1, <2>2, ElementOfSeq
      <4>2. \A i \in 1 .. Len(s) - 1 + 1 : SubSeq(sent, 1, Len(s))[i] = sent[1 + i - 1]
        BY <2>2, <4>1, SubSeqProperties
      <4> QED BY <2>2, <4>2
    <3> QED BY <2>1, <3>2, <3>3, SeqEqual
  <2> QED BY <2>2, <2>3 DEF StreamInOrder, s
<1> QED BY <1>1, <1>2 DEF WholeWritesInOrder

-----------------------------------------------------------------------------
(* The byte channel.                                                        *)

(* The bytes with the numbers after a, as many as n.                        *)
Numbered(a, n) == [i \in 1 .. n |-> a + i]

(* What the receiver's call has stored so far.                              *)
Held == IF rx.left = Idle THEN <<>> ELSE SubSeq(rx.buf, 1, rx.total)

ChanTypeOK ==
    /\ chan \in Seq(Nat) /\ Len(chan) <= ChanSize /\ taken \in Seq(Nat)
    /\ first \in Nat /\ next \in Nat
    /\ tx \in [buf : Seq(Nat), left : Nat \cup {Idle}, total : Nat, blocking : BOOLEAN, ret : Nat]
    /\ rx \in [buf : Seq(Nat), left : Nat \cup {Idle}, total : Nat, ret : Nat]

(* A transmit numbers its bytes from first on, and what is left of its      *)
(* buffer are the bytes after those it has sent.                            *)
Sending ==
    /\ next = IF tx.left = Idle THEN first + tx.total ELSE first
    /\ tx.left # Idle /\ tx.left > 0 => tx.buf = Numbered(first + tx.total, tx.left)
    /\ tx.left = Idle /\ txResult # Idle => tx.total \in {0, txResult}

(* A receive has room for a whole chunk behind what it has stored.          *)
Receiving ==
    /\ rx.left # Idle => Len(rx.buf) = MaxCount + Chunk /\ rx.left + rx.total <= MaxCount
    /\ rx.left = Idle /\ rxResult # Idle => rx.total \in {0, rxResult}

Stream == (taken \o Held) \o chan = Numbered(0, first + tx.total)

ChanInv == ChanTypeOK /\ Sending /\ Receiving /\ Stream

LEMMA ConcatNat == \A x, y, z \in Seq(Nat) : (x \o y) \o z = x \o (y \o z)
<1> DEFINE S == Nat
<1> SUFFICES \A x, y, z \in Seq(S) : (x \o y) \o z = x \o (y \o z)
  OBVIOUS
<1> HIDE DEF S
<1> QED BY ConcatAssociative

LEMMA NumberedSeq ==
    ASSUME NEW a \in Nat, NEW n \in Nat
    PROVE  /\ Numbered(a, n) \in Seq(Nat) /\ Len(Numbered(a, n)) = n
           /\ \A i \in 1 .. n : Numbered(a, n)[i] = a + i
BY DEF Numbered

LEMMA NumberedParts ==
    ASSUME NEW a \in Nat, NEW n \in Nat, NEW k \in 0 .. n
    PROVE  /\ SubSeq(Numbered(a, n), 1, k) = Numbered(a, k)
           /\ SubSeq(Numbered(a, n), k + 1, n) = Numbered(a + k, n - k)
<1> DEFINE s == Numbered(a, n)
<1>1. s \in Seq(Nat) /\ Len(s) = n /\ \A i \in 1 .. n : s[i] = a + i
  BY NumberedSeq
<1>2. k \in Nat /\ k <= n /\ n - k \in Nat /\ a + k \in Nat
  OBVIOUS
<1> HIDE DEF s
<1>3. \A i \in 1 .. n : s[i] \in Nat
  BY <1>1
<1>4. /\ SubSeq(s, 1, k) \in Seq(Nat) /\ Len(SubSeq(s, 1, k)) = k
      /\ SubSeq(s, k + 1, n) \in Seq(Nat) /\ Len(SubSeq(s, k + 1, n)) = n - k
  BY <1>1, <1>2, Parted
<1>5. SubSeq(s, 1, k) = Numbered(a, k)
  <2>1. \A i \in 1 .. k - 1 + 1 : SubSeq(s, 1, k)[i] = s[1 + i - 1]
    <3>1. \A i \in 1 .. k : s[i] \in Nat
      BY <1>2, <1>3
    <3> QED BY <1>2, <3>1, SubSeqProperties
  <2>2. \A i \in 1 .. k : SubSeq(s, 1, k)[i] = a + i
    BY <1>1, <1>2, <2>1
  <2>3. Numbered(a, k) \in Seq(Nat) /\ Len(Numbered(a, k)) = k /\ \A i \in 1 .. k : Numbered(a, k)[i] = a + i
    BY <1>2, NumberedSeq
  <2> QED BY <1>4, <2>2, <2>3, SeqEqual
<1>6. SubSeq(s, k + 1, n) = Numbered(a + k, n - k)
  <2>1. \A i \in 1 .. n - (k + 1) + 1 : SubSeq(s, k + 1, n)[i] = s[(k + 1) + i - 1]
    <3>1. \A i \in k + 1 .. n : s[i] \in Nat
      BY <1>2, <1>3
    <3>2. k + 1 \in Int /\ n \in Int
      BY <1>2
    <3> QED BY <3>1, <3>2, SubSeqProperties
  <2>2. \A i \in 1 .. n - k : SubSeq(s, k + 1, n)[i] = (a + k) + i
    <3> SUFFICES ASSUME NEW i \in 1 .. n - k PROVE SubSeq(s, k + 1, n)[i] = (a + k) + i
      OBVIOUS
    <3>1. i \in 1 .. n - (k + 1) + 1 /\ (k + 1) + i - 1 = k + i /\ k + i \in 1 .. n
      BY <1>2
    <3> QED BY <1>1, <1>2, <2>1, <3>1
  <2>3. /\ Numbered(a + k, n - k) \in Seq(Nat) /\ Len(Numbered(a + k, n - k)) = n - k
        /\ \A i \in 1 .. n - k : Numbered(a + k, n - k)[i] = (a + k) + i
    BY <1>2, NumberedSeq
  <2> QED BY <1>4, <2>2, <2>3, SeqEqual
<1> QED BY <1>5, <1>6 DEF s

LEMMA NumberedOn ==
    ASSUME NEW a \in Nat, NEW k \in Nat
    PROVE  Numbered(0, a) \o Numbered(a, k) = Numbered(0, a + k)
<1>1. /\ Numbered(0, a) \in Seq(Nat) /\ Len(Numbered(0, a)) = a
      /\ \A i \in 1 .. a : Numbered(0, a)[i] = 0 + i
  BY NumberedSeq
<1>2. /\ Numbered(a, k) \in Seq(Nat) /\ Len(Numbered(a, k)) = k
      /\ \A i \in 1 .. k : Numbered(a, k)[i] = a + i
  BY NumberedSeq
<1>3. /\ Numbered(0, a + k) \in Seq(Nat) /\ Len(Numbered(0, a + k)) = a + k
      /\ \A i \in 1 .. a + k : Numbered(0, a + k)[i] = 0 + i
  BY NumberedSeq
<1> DEFINE c == Numbered(0, a) \o Numbered(a, k)
<1>4. /\ c \in Seq(Nat) /\ Len(c) = a + k
      /\ \A i \in 1 .. a + k : c[i] = IF i <= a THEN Numbered(0, a)[i] ELSE Numbered(a, k)[i - a]
  <2> DEFINE p == Numbered(0, a)
             q == Numbered(a, k)
  <2>1. p \in Seq(Nat) /\ q \in Seq(Nat) /\ Len(p) = a /\ Len(q) = k
    BY <1>1, <1>2
  <2> HIDE DEF p, q
  <2>2. /\ p \o q \in Seq(Nat) /\ Len(p \o q) = Len(p) + Len(q)
        /\ \A i \in 1 .. Len(p) + Len(q) : (p \o q)[i] = IF i <= Len(p) THEN p[i] ELSE q[i - Len(p)]
    BY <2>1, ConcatProperties
  <2>3. /\ p \o q \in Seq(Nat) /\ Len(p \o q) = a + k
        /\ \A i \in 1 .. a + k : (p \o q)[i] = IF i <= a THEN p[i] ELSE q[i - a]
    BY <2>1, <2>2
  <2> QED BY <2>3 DEF p, q
<1> HIDE DEF c
<1>5. ASSUME NEW i \in 1 .. a + k PROVE c[i] = Numbered(0, a + k)[i]
  <2>1. CASE i <= a
    <3>1. i \in 1 .. a
      BY <2>1
    <3>2. c[i] = Numbered(0, a)[i]
      BY <1>4, <3>1
    <3>3. Numbered(0, a)[i] = 0 + i /\ Numbered(0, a + k)[i] = 0 + i
      BY <1>1, <1>3, <3>1
    <3> QED BY <3>2, <3>3
  <2>2. CASE i > a
    <3>1. i - a \in 1 .. k /\ ~(i <= a) /\ a + (i - a) = i
      BY <2>2
    <3>2. c[i] = Numbered(a, k)[i - a]
      BY <1>4, <3>1
    <3>3. Numbered(a, k)[i - a] = a + (i - a)
      BY <1>2, <3>1
    <3>4. Numbered(0, a + k)[i] = 0 + i
      BY <1>3
    <3> QED BY <3>1, <3>2, <3>3, <3>4
  <2> QED BY <2>1, <2>2
<1>6. c = Numbered(0, a + k)
  BY <1>3, <1>4, <1>5, SeqEqual
<1> QED BY <1>6 DEF c

LEMMA Chan_Init == ChanInit => ChanInv
<1> SUFFICES ASSUME ChanInit PROVE ChanInv
  OBVIOUS
<1>1. <<>> \in Seq(Nat) /\ Len(<<>>) = 0 /\ (<<>> \o <<>>) \o <<>> = <<>>
  OBVIOUS
<1>2. ChanTypeOK /\ Sending /\ Receiving
  BY <1>1, ChanAssumption DEF ChanInit, ChanTypeOK, Sending, Receiving, Idle
<1>3. Stream
  <2>1. Held = <<>> /\ first + tx.total = 0
    BY DEF ChanInit, Held
  <2>2. Numbered(0, 0) = <<>>
    <3>1. Numbered(0, 0) \in Seq(Nat) /\ Len(Numbered(0, 0)) = 0
      BY NumberedSeq
    <3> QED BY <3>1, EmptySeq
  <2> QED BY <1>1, <2>1, <2>2 DEF ChanInit, Stream
<1> QED BY <1>2, <1>3 DEF ChanInv

(* Where nothing of a receive moves, the stream is as long as its parts say.*)
LEMMA HeldKept == UNCHANGED rx => Held' = Held
BY DEF Held

LEMMA HeldSeq == ChanTypeOK /\ Receiving => Held \in Seq(Nat)
<1> SUFFICES ASSUME ChanTypeOK, Receiving, rx.left # Idle PROVE SubSeq(rx.buf, 1, rx.total) \in Seq(Nat)
  BY EmptySeq DEF Held
<1>1. rx.buf \in Seq(Nat) /\ rx.total \in Nat /\ rx.left \in Nat /\ Len(rx.buf) = MaxCount + Chunk
      /\ rx.left + rx.total <= MaxCount
  BY DEF ChanTypeOK, Receiving
<1>2. rx.total \in 0 .. Len(rx.buf)
  BY <1>1, ChanAssumption, ChunkAssumption
<1> QED BY <1>1, <1>2, Parted

LEMMA StartTx_Keeps ==
    ASSUME ChanInv, NEW count \in 1 .. MaxCount, NEW blocking \in BOOLEAN, StartTx(count, blocking)
    PROVE  ChanInv'
<1>1. /\ ChanTypeOK /\ Sending /\ Receiving /\ Stream /\ tx.left = Idle
      /\ UNCHANGED <<chan, rx, txResult, rxResult, taken, next>> /\ first' = next
      /\ tx' = [buf |-> Numbered(next, count), left |-> count, total |-> 0, blocking |-> blocking, ret |-> 0]
  BY DEF ChanInv, StartTx, Numbered
<1>2. count \in Nat /\ next \in Nat /\ first \in Nat /\ tx.total \in Nat /\ next = first + tx.total
  BY <1>1, ChanAssumption DEF ChanTypeOK, Sending
<1>3. ChanTypeOK'
  <2>1. Numbered(next, count) \in Seq(Nat)
    BY <1>2, NumberedSeq
  <2> QED BY <1>1, <1>2, <2>1 DEF ChanTypeOK
<1>4. Sending'
  <2>1. /\ tx'.left = count /\ tx'.total = 0 /\ tx'.buf = Numbered(next, count) /\ count # Idle
        /\ first' = next /\ next' = next /\ next + 0 = next
    BY <1>1, <1>2 DEF Idle
  <2> QED BY <2>1 DEF Sending
<1>5. Receiving'
  BY <1>1 DEF Receiving
<1>6. Stream'
  <2>1. first' + tx'.total = first + tx.total
    <3>1. first' = next /\ tx'.total = 0
      BY <1>1
    <3> QED BY <1>2, <3>1
  <2> QED BY <1>1, <2>1, HeldKept DEF Stream
<1> QED BY <1>3, <1>4, <1>5, <1>6 DEF ChanInv

LEMMA TxStep_Keeps == ChanInv /\ TxStep => ChanInv'
<1> SUFFICES ASSUME ChanInv, TxStep PROVE ChanInv'
  OBVIOUS
<1>1. /\ ChanTypeOK /\ Sending /\ Receiving /\ Stream /\ tx.left > 0
      /\ UNCHANGED <<rx, txResult, rxResult, taken, first, next>>
  BY DEF ChanInv, TxStep
<1>2. /\ tx.left \in Nat /\ tx.left > 0 /\ tx.left # Idle /\ tx.total \in Nat /\ first \in Nat /\ next = first
      /\ Len(chan) \in Nat /\ Len(chan) <= ChanSize /\ first + tx.total \in Nat
  BY <1>1, LenProperties DEF ChanTypeOK, Sending, Idle
<1>3. chan \in Seq(Nat) /\ taken \in Seq(Nat) /\ Held \in Seq(Nat)
  BY <1>1, HeldSeq DEF ChanTypeOK
<1>4. tx.buf = Numbered(first + tx.total, tx.left)
  BY <1>1, <1>2 DEF Sending
<1> DEFINE a == first + tx.total
           k == Smaller(tx.left, Chunk)
           this == SubSeq(tx.buf, 1, k)
<1>5. k \in 1 .. tx.left /\ k \in Nat /\ a \in Nat
  BY <1>2, ChunkAssumption DEF Smaller
<1>6. this = Numbered(a, k) /\ Len(this) = k
  <2>1. k \in 0 .. tx.left
    BY <1>5
  <2>2. SubSeq(Numbered(a, tx.left), 1, k) = Numbered(a, k)
    BY <1>2, <1>5, <2>1, NumberedParts
  <2> QED BY <1>4, <1>5, <2>2, NumberedSeq
<1>7. PICK o \in SendOutcomes(this) :
        /\ chan' = chan \o SubSeq(this, 1, o.sent)
        /\ tx' = [tx EXCEPT !.buf = Rest(o.sent), !.ret = o.ret, !.total = @ + o.sent,
                            !.left = IF o.sent = 0 /\ ~(o.ret = EV_EAGAIN /\ tx.blocking)
                                     THEN 0 ELSE @ - o.sent]
  BY DEF TxStep
<1>8. o.sent \in 0 .. k /\ o.sent + Len(chan) <= ChanSize /\ o.ret \in Nat
  <2> HIDE DEF this, k
  <2>1. Smaller(Len(this), ChanSize - Len(chan)) \in 0 .. k /\ Smaller(Len(this), ChanSize - Len(chan)) + Len(chan) <= ChanSize
    BY <1>2, <1>5, <1>6, ChanAssumption DEF Smaller
  <2>2. \/ o = [sent |-> Smaller(Len(this), ChanSize - Len(chan)),
                ret |-> IF Smaller(Len(this), ChanSize - Len(chan)) = 0 THEN EV_EAGAIN ELSE 0]
        \/ o = [sent |-> 0, ret |-> EV_EIO]
    BY <1>7 DEF SendOutcomes
  <2>3. CASE o = [sent |-> 0, ret |-> EV_EIO]
    BY <1>2, <1>5, <2>3 DEF EV_EIO
  <2>4. CASE o = [sent |-> Smaller(Len(this), ChanSize - Len(chan)),
                  ret |-> IF Smaller(Len(this), ChanSize - Len(chan)) = 0 THEN EV_EAGAIN ELSE 0]
    BY <2>1, <2>4 DEF EV_EAGAIN
  <2> QED BY <2>2, <2>3, <2>4
<1> DEFINE n == o.sent
<1>n. /\ n \in 0 .. k /\ n + Len(chan) <= ChanSize /\ tx.buf = Numbered(a, tx.left)
      /\ k \in 1 .. tx.left /\ k \in Nat /\ a \in Nat /\ this = Numbered(a, k) /\ Len(this) = k
  BY <1>4, <1>5, <1>6, <1>8
<1> HIDE DEF this, k, n, a
<1>9. /\ SubSeq(this, 1, n) = Numbered(a, n) /\ Rest(n) = Numbered(a + n, tx.left - n)
      /\ n \in Nat /\ n <= tx.left
  <2>1. n \in 0 .. tx.left /\ n \in 0 .. k
    <3>1. n \in 0 .. k /\ k \in 1 .. tx.left /\ tx.left \in Nat
      BY <1>2, <1>n
    <3> QED BY <3>1
  <2>2. Len(tx.buf) = tx.left
    <3>1. tx.buf = Numbered(a, tx.left) /\ a \in Nat /\ tx.left \in Nat
      BY <1>2, <1>n
    <3>2. Len(Numbered(a, tx.left)) = tx.left
      BY <3>1, NumberedSeq
    <3> QED BY <3>1, <3>2
  <2>3. SubSeq(Numbered(a, k), 1, n) = Numbered(a, n)
    BY <1>n, <2>1, NumberedParts
  <2>4. SubSeq(Numbered(a, tx.left), n + 1, tx.left) = Numbered(a + n, tx.left - n)
    BY <1>2, <1>n, <2>1, NumberedParts
  <2>5. Rest(n) = Numbered(a + n, tx.left - n)
    BY <1>n, <2>2, <2>4 DEF Rest
  <2>6. SubSeq(this, 1, n) = Numbered(a, n)
    BY <1>n, <2>3
  <2> QED BY <1>2, <2>1, <2>5, <2>6
<1>10. /\ chan' = chan \o Numbered(a, n)
       /\ tx' = [tx EXCEPT !.buf = Numbered(a + n, tx.left - n), !.ret = o.ret, !.total = @ + n,
                           !.left = IF n = 0 /\ ~(o.ret = EV_EAGAIN /\ tx.blocking) THEN 0 ELSE @ - n]
  <2>1. /\ chan' = chan \o SubSeq(this, 1, n)
        /\ tx' = [tx EXCEPT !.buf = Rest(n), !.ret = o.ret, !.total = @ + n,
                            !.left = IF n = 0 /\ ~(o.ret = EV_EAGAIN /\ tx.blocking) THEN 0 ELSE @ - n]
    BY <1>7 DEF n, this, k
  <2> QED BY <1>9, <2>1
<1>11. /\ Numbered(a, n) \in Seq(Nat) /\ Len(Numbered(a, n)) = n
       /\ Numbered(a + n, tx.left - n) \in Seq(Nat) /\ tx.left - n \in Nat
  <2>1. n \in Nat /\ n <= tx.left /\ a \in Nat
    BY <1>n, <1>9
  <2>2. tx.left - n \in Nat /\ a + n \in Nat
    BY <1>2, <2>1
  <2> QED BY <2>1, <2>2, NumberedSeq
<1>12. /\ tx'.buf = Numbered(a + n, tx.left - n) /\ tx'.total = tx.total + n
       /\ tx'.left \in {0, tx.left - n}
       /\ tx' \in [buf : Seq(Nat), left : Nat \cup {Idle}, total : Nat, blocking : BOOLEAN, ret : Nat]
  <2>1. tx \in [buf : Seq(Nat), left : Nat \cup {Idle}, total : Nat, blocking : BOOLEAN, ret : Nat]
    BY <1>1 DEF ChanTypeOK
  <2>2. tx.total + n \in Nat /\ o.ret \in Nat
    BY <1>2, <1>8, <1>9
  <2>3. /\ tx'.buf = Numbered(a + n, tx.left - n) /\ tx'.total = tx.total + n
        /\ tx'.left = IF n = 0 /\ ~(o.ret = EV_EAGAIN /\ tx.blocking) THEN 0 ELSE tx.left - n
    BY <1>10, <2>1
  <2>4. (IF n = 0 /\ ~(o.ret = EV_EAGAIN /\ tx.blocking) THEN 0 ELSE tx.left - n) \in Nat
    BY <1>11
  <2> QED BY <1>10, <1>11, <2>1, <2>2, <2>3, <2>4
<1>13. ChanTypeOK'
  <2>1. chan' \in Seq(Nat) /\ Len(chan') = Len(chan) + n
    BY <1>3, <1>10, <1>11, ConcatProperties
  <2>2. Len(chan') <= ChanSize
    BY <1>2, <1>n, <2>1, ChanAssumption
  <2> QED BY <1>1, <1>12, <2>1, <2>2 DEF ChanTypeOK
<1>14. Sending'
  <2>1. tx'.left \in Nat /\ tx'.left # Idle
    BY <1>11, <1>12 DEF Idle
  <2>2. first' + tx'.total = a + n
    <3>1. first' = first /\ tx'.total = tx.total + n
      BY <1>1, <1>12
    <3> QED BY <1>2, <1>9, <3>1 DEF a
  <2>3. ASSUME tx'.left > 0 PROVE tx'.buf = Numbered(first' + tx'.total, tx'.left)
    <3>1. tx'.left = tx.left - n
      BY <1>12, <2>3
    <3> QED BY <1>12, <2>2, <3>1
  <2>4. next' = first'
    BY <1>1, <1>2
  <2> QED BY <2>1, <2>3, <2>4 DEF Sending
<1>15. Receiving'
  BY <1>1 DEF Receiving
<1>16. Stream'
  <2>1. (taken \o Held) \o chan = Numbered(0, a)
    BY <1>1 DEF Stream, a
  <2>2. Held' = Held /\ taken' = taken
    BY <1>1, HeldKept
  <2>3. taken \o Held \in Seq(Nat)
    BY <1>3, ConcatProperties
  <2>4. (taken \o Held) \o (chan \o Numbered(a, n)) = ((taken \o Held) \o chan) \o Numbered(a, n)
    <3> DEFINE x == taken \o Held
               z == Numbered(a, n)
    <3>1. x \in Seq(Nat) /\ z \in Seq(Nat)
      BY <1>11, <2>3
    <3> HIDE DEF x, z
    <3>2. x \o (chan \o z) = (x \o chan) \o z
      BY <1>3, <3>1, ConcatNat
    <3> QED BY <3>2 DEF x, z
  <2>5. Numbered(0, a) \o Numbered(a, n) = Numbered(0, a + n)
    BY <1>n, <1>9, NumberedOn
  <2>6. first' + tx'.total = a + n
    <3>1. first' = first /\ tx'.total = tx.total + n
      BY <1>1, <1>12
    <3> QED BY <1>2, <1>9, <3>1 DEF a
  <2> QED BY <1>10, <2>1, <2>2, <2>4, <2>5, <2>6 DEF Stream
<1> QED BY <1>13, <1>14, <1>15, <1>16 DEF ChanInv

LEMMA TxReturn_Keeps == ChanInv /\ TxReturn => ChanInv'
<1> SUFFICES ASSUME ChanInv, TxReturn PROVE ChanInv'
  OBVIOUS
<1>1. /\ ChanTypeOK /\ Sending /\ Receiving /\ Stream /\ tx.left = 0
      /\ UNCHANGED <<chan, rx, rxResult, taken, first>> /\ next' = next + tx.total
      /\ tx' = [tx EXCEPT !.left = Idle]
      /\ txResult' = IF tx.ret # 0 /\ tx.total = 0 THEN tx.ret ELSE tx.total
  BY DEF ChanInv, TxReturn
<1>2. /\ first \in Nat /\ next = first /\ tx.total \in Nat
      /\ tx \in [buf : Seq(Nat), left : Nat \cup {Idle}, total : Nat, blocking : BOOLEAN, ret : Nat]
  BY <1>1 DEF ChanTypeOK, Sending, Idle
<1>3. /\ tx'.left = Idle /\ tx'.total = tx.total
      /\ tx' \in [buf : Seq(Nat), left : Nat \cup {Idle}, total : Nat, blocking : BOOLEAN, ret : Nat]
  BY <1>1, <1>2
<1>4. ChanTypeOK'
  <2>1. next' \in Nat
    BY <1>1, <1>2
  <2> QED BY <1>1, <1>3, <2>1 DEF ChanTypeOK
<1>5. Sending'
  <2>1. next' = first' + tx'.total
    BY <1>1, <1>2, <1>3
  <2>2. tx'.total \in {0, txResult'}
    BY <1>1, <1>3
  <2> QED BY <1>3, <2>1, <2>2 DEF Sending
<1>6. Receiving'
  BY <1>1 DEF Receiving
<1>7. Stream'
  BY <1>1, <1>3, HeldKept DEF Stream
<1> QED BY <1>4, <1>5, <1>6, <1>7 DEF ChanInv

LEMMA StartRx_Keeps == ASSUME ChanInv, NEW count \in 1 .. MaxCount, StartRx(count) PROVE ChanInv'
<1> DEFINE empty == [i \in 1 .. MaxCount + Chunk |-> 0]
<1>1. /\ ChanTypeOK /\ Sending /\ Receiving /\ Stream /\ rx.left = Idle
      /\ UNCHANGED <<chan, tx, txResult, rxResult, taken, first, next>>
      /\ rx' = [buf |-> empty, left |-> count, total |-> 0, ret |-> 0]
  BY DEF ChanInv, StartRx
<1>2. MaxCount + Chunk \in Nat /\ count \in Nat /\ count <= MaxCount /\ count # Idle
  BY ChanAssumption, ChunkAssumption DEF Idle
<1>3. empty \in Seq(Nat) /\ Len(empty) = MaxCount + Chunk
  BY <1>2
<1> HIDE DEF empty
<1>4. rx'.buf = empty /\ rx'.left = count /\ rx'.total = 0
  BY <1>1
<1>5. ChanTypeOK'
  BY <1>1, <1>2, <1>3 DEF ChanTypeOK
<1>6. Sending'
  BY <1>1 DEF Sending
<1>7. Receiving'
  <2>1. rx'.left + rx'.total <= MaxCount
    BY <1>2, <1>4
  <2> QED BY <1>2, <1>3, <1>4, <2>1 DEF Receiving
<1>8. Stream'
  <2>1. SubSeq(empty, 1, 0) = <<>>
    BY SubSeqEmpty
  <2>2. Held' = Held
    BY <1>1, <1>2, <1>4, <2>1 DEF Held
  <2> QED BY <1>1, <2>2 DEF Stream
<1> QED BY <1>5, <1>6, <1>7, <1>8 DEF ChanInv

LEMMA FirstOnes ==
    ASSUME NEW s, NEW n \in Nat, \A i \in 1 .. n : s[i] \in Nat
    PROVE  \A i \in 1 .. n : SubSeq(s, 1, n)[i] = s[i]
<1>1. \A i \in 1 .. n - 1 + 1 : SubSeq(s, 1, n)[i] = s[1 + i - 1]
  BY SubSeqProperties
<1>2. ASSUME NEW i \in 1 .. n PROVE i \in 1 .. n - 1 + 1 /\ 1 + i - 1 = i
  OBVIOUS
<1> QED BY <1>1, <1>2

(* What the hypervisor brought is behind what was stored before.            *)
LEMMA StoredBehind ==
    ASSUME ChanTypeOK, NEW n \in 0 .. Len(chan), rx.total + Chunk <= Len(rx.buf), n <= Chunk
    PROVE  /\ Stored(n) \in Seq(Nat) /\ Len(Stored(n)) = Len(rx.buf)
           /\ SubSeq(Stored(n), 1, rx.total + n) = SubSeq(rx.buf, 1, rx.total) \o SubSeq(chan, 1, n)
<1> DEFINE b == rx.buf
           t == rx.total
           s == Stored(n)
<1>1. /\ b \in Seq(Nat) /\ chan \in Seq(Nat) /\ t \in Nat /\ Len(b) \in Nat /\ Len(chan) \in Nat
      /\ DOMAIN b = 1 .. Len(b)
  BY LenProperties DEF ChanTypeOK
<1>2. n \in Nat /\ n <= Len(chan) /\ t + n <= Len(b) /\ t <= Len(b) /\ t + n \in Nat /\ Chunk \in Nat
  <2>1. n \in Nat /\ n <= Len(chan) /\ n <= Chunk /\ Chunk \in Nat /\ t + Chunk <= Len(b)
    BY <1>1, ChunkAssumption
  <2>2. \A a, c, k, m \in Nat : k <= c /\ a + c <= m => a + k <= m /\ a <= m /\ a + k \in Nat
    OBVIOUS
  <2> QED BY <1>1, <2>1, <2>2
<1>3. /\ \A i \in 1 .. Len(b) : b[i] \in Nat
      /\ \A i \in 1 .. Len(chan) : chan[i] \in Nat
  BY <1>1, ElementOfSeq
<1>4. s = [i \in 1 .. Len(b) |-> CASE i \in t + 1 .. t + n -> chan[i - t]
                                   [] i \in t + n + 1 .. t + Chunk -> 0
                                   [] OTHER -> b[i]]
  BY <1>1 DEF Stored
<1> HIDE DEF b, t, s
<1>5. ASSUME NEW i \in 1 .. Len(b)
      PROVE  /\ i \in t + 1 .. t + n => s[i] = chan[i - t]
             /\ i \in 1 .. t => s[i] = b[i]
             /\ s[i] \in Nat
  <2>1. CASE i \in t + 1 .. t + n
    <3>1. s[i] = chan[i - t] /\ i - t \in 1 .. Len(chan) /\ i \notin 1 .. t
      <4>1. s[i] = chan[i - t]
        <5>1. i \notin t + n + 1 .. t + Chunk
          BY <1>1, <1>2, <2>1
        <5> QED BY <1>4, <2>1, <5>1
      <4>2. t \in Nat /\ n \in Nat /\ n <= Len(chan) /\ Len(chan) \in Nat
        BY <1>1, <1>2
      <4>3. i - t \in 1 .. Len(chan) /\ i \notin 1 .. t
        BY <2>1, <4>2
      <4> QED BY <4>1, <4>3
    <3> QED BY <1>3, <2>1, <3>1
  <2>2. CASE i \in t + n + 1 .. t + Chunk
    <3>1. i \notin t + 1 .. t + n /\ i \notin 1 .. t
      BY <1>1, <1>2, <2>2
    <3> QED BY <1>4, <2>2, <3>1
  <2>3. CASE i \notin t + 1 .. t + n /\ i \notin t + n + 1 .. t + Chunk
    BY <1>3, <1>4, <2>3
  <2> QED BY <2>1, <2>2, <2>3
<1>6. s \in Seq(Nat) /\ Len(s) = Len(b)
  <2>1. s \in [1 .. Len(b) -> Nat]
    BY <1>4, <1>5
  <2>2. Len(b) \in Nat
    BY <1>1
  <2> QED BY <2>1, <2>2
<1>7. SubSeq(s, 1, t + n) \in Seq(Nat) /\ Len(SubSeq(s, 1, t + n)) = t + n
      /\ SubSeq(b, 1, t) \in Seq(Nat) /\ Len(SubSeq(b, 1, t)) = t
      /\ SubSeq(chan, 1, n) \in Seq(Nat) /\ Len(SubSeq(chan, 1, n)) = n
  <2>1. t + n \in 0 .. Len(s) /\ t \in 0 .. Len(b)
    BY <1>1, <1>2, <1>6
  <2> QED BY <1>1, <1>6, <2>1, Parted
<1> DEFINE left == SubSeq(s, 1, t + n)
           head == SubSeq(b, 1, t)
           tail == SubSeq(chan, 1, n)
<1>8. /\ \A i \in 1 .. t + n : left[i] = s[i]
      /\ \A i \in 1 .. t : head[i] = b[i]
      /\ \A i \in 1 .. n : tail[i] = chan[i]
  <2>1. \A i \in 1 .. t + n : s[i] \in Nat
    BY <1>1, <1>2, <1>5
  <2>2. \A i \in 1 .. t : b[i] \in Nat
    BY <1>1, <1>2, <1>3
  <2>3. \A i \in 1 .. n : chan[i] \in Nat
    BY <1>1, <1>2, <1>3
  <2>4. t + n \in Nat /\ t \in Nat /\ n \in Nat
    BY <1>1, <1>2
  <2>5. \A i \in 1 .. t + n : left[i] = s[i]
    BY <2>1, <2>4, FirstOnes
  <2>6. \A i \in 1 .. t : head[i] = b[i]
    BY <2>2, <2>4, FirstOnes
  <2>7. \A i \in 1 .. n : tail[i] = chan[i]
    BY <2>3, <2>4, FirstOnes
  <2> QED BY <2>5, <2>6, <2>7
<1>9. /\ left \in Seq(Nat) /\ Len(left) = t + n /\ head \in Seq(Nat) /\ Len(head) = t
      /\ tail \in Seq(Nat) /\ Len(tail) = n
  BY <1>7
<1> HIDE DEF left, head, tail
<1>10. /\ head \o tail \in Seq(Nat) /\ Len(head \o tail) = t + n
       /\ \A i \in 1 .. t + n : (head \o tail)[i] = IF i <= t THEN head[i] ELSE tail[i - t]
  <2>1. /\ head \o tail \in Seq(Nat) /\ Len(head \o tail) = Len(head) + Len(tail)
        /\ \A i \in 1 .. Len(head) + Len(tail) :
              (head \o tail)[i] = IF i <= Len(head) THEN head[i] ELSE tail[i - Len(head)]
    <3>1. head \in Seq(Nat) /\ tail \in Seq(Nat)
      BY <1>9
    <3> QED BY <3>1, ConcatProperties
  <2>2. Len(head) = t /\ Len(tail) = n
    BY <1>9
  <2> QED BY <2>1, <2>2
<1>11. ASSUME NEW i \in 1 .. t + n PROVE left[i] = (head \o tail)[i]
  <2>0. i \in 1 .. Len(b) /\ i \in Int /\ left[i] = s[i]
    BY <1>1, <1>2, <1>8
  <2>1. CASE i <= t
    <3>1. i \in 1 .. t
      BY <1>1, <2>1
    <3>2. (head \o tail)[i] = head[i]
      BY <1>10, <2>1
    <3> QED BY <1>5, <1>8, <2>0, <3>1, <3>2
  <2>2. CASE i > t
    <3>1. i \in t + 1 .. t + n /\ i - t \in 1 .. n /\ ~(i <= t)
      BY <1>1, <1>2, <2>2
    <3>2. (head \o tail)[i] = tail[i - t]
      BY <1>10, <3>1
    <3> QED BY <1>5, <1>8, <2>0, <3>1, <3>2
  <2>3. i <= t \/ i > t
    BY <1>1, <2>0
  <2> QED BY <2>1, <2>2, <2>3
<1>12. left = head \o tail
  BY <1>9, <1>10, <1>11, SeqEqual
<1> QED BY <1>6, <1>12 DEF left, head, tail, s, t, b

LEMMA RxStep_Keeps == ChanInv /\ RxStep => ChanInv'
<1> SUFFICES ASSUME ChanInv, RxStep PROVE ChanInv'
  OBVIOUS
<1>1. /\ ChanTypeOK /\ Sending /\ Receiving /\ Stream /\ rx.left > 0
      /\ UNCHANGED <<tx, txResult, rxResult, taken, first, next>>
  BY DEF ChanInv, RxStep
<1>2. /\ rx.left \in Nat /\ rx.left # Idle /\ rx.total \in Nat /\ Len(rx.buf) = MaxCount + Chunk
      /\ rx.left + rx.total <= MaxCount /\ Len(chan) \in Nat /\ Len(chan) <= ChanSize
      /\ MaxCount \in Nat /\ Chunk \in Nat
  BY <1>1, LenProperties, ChanAssumption, ChunkAssumption DEF ChanTypeOK, Receiving, Idle
<1>3. /\ chan \in Seq(Nat) /\ taken \in Seq(Nat)
      /\ rx \in [buf : Seq(Nat), left : Nat \cup {Idle}, total : Nat, ret : Nat]
  BY <1>1 DEF ChanTypeOK
<1>4. PICK o \in ReceiveOutcomes(Smaller(rx.left, Chunk)) :
        /\ chan' = SubSeq(chan, o.n + 1, Len(chan))
        /\ rx' = [rx EXCEPT !.buf = Stored(o.n), !.total = @ + o.n, !.ret = o.ret,
                            !.left = IF o.ret # 0 THEN 0 ELSE @ - o.n]
  BY DEF RxStep
<1>5. o.n \in 0 .. Len(chan) /\ o.n <= Chunk /\ o.n <= rx.left /\ o.ret \in Nat
  <2>1. \/ o = [n |-> Smaller(Smaller(rx.left, Chunk), Len(chan)), ret |-> 0]
        \/ o = [n |-> 0, ret |-> EV_EIO]
    BY <1>4 DEF ReceiveOutcomes
  <2>2. /\ Smaller(Smaller(rx.left, Chunk), Len(chan)) \in 0 .. Len(chan)
        /\ Smaller(Smaller(rx.left, Chunk), Len(chan)) <= Chunk
        /\ Smaller(Smaller(rx.left, Chunk), Len(chan)) <= rx.left
    BY <1>2 DEF Smaller
  <2>3. CASE o = [n |-> 0, ret |-> EV_EIO]
    BY <1>2, <2>3 DEF EV_EIO
  <2>4. CASE o = [n |-> Smaller(Smaller(rx.left, Chunk), Len(chan)), ret |-> 0]
    BY <2>2, <2>4
  <2> QED BY <2>1, <2>3, <2>4
<1> DEFINE n == o.n
<1>6. /\ n \in 0 .. Len(chan) /\ n <= Chunk /\ n <= rx.left /\ n \in Nat
      /\ chan' = SubSeq(chan, n + 1, Len(chan))
      /\ rx' = [rx EXCEPT !.buf = Stored(n), !.total = @ + n, !.ret = o.ret,
                          !.left = IF o.ret # 0 THEN 0 ELSE @ - n]
  BY <1>4, <1>5
<1> HIDE DEF n
<1>7. /\ Stored(n) \in Seq(Nat) /\ Len(Stored(n)) = MaxCount + Chunk
      /\ SubSeq(Stored(n), 1, rx.total + n) = SubSeq(rx.buf, 1, rx.total) \o SubSeq(chan, 1, n)
  <2>1. rx.total + Chunk <= Len(rx.buf)
    BY <1>2
  <2> QED BY <1>1, <1>2, <1>6, <2>1, StoredBehind
<1>8. /\ SubSeq(chan, 1, n) \in Seq(Nat) /\ chan' \in Seq(Nat) /\ Len(chan') = Len(chan) - n
      /\ SubSeq(chan, 1, n) \o chan' = chan
  BY <1>3, <1>6, Parted
<1>9. /\ rx'.buf = Stored(n) /\ rx'.total = rx.total + n /\ rx'.left \in {0, rx.left - n}
      /\ rx'.left \in Nat /\ rx'.left + rx'.total <= MaxCount
      /\ rx' \in [buf : Seq(Nat), left : Nat \cup {Idle}, total : Nat, ret : Nat]
  <2>1. /\ rx'.buf = Stored(n) /\ rx'.total = rx.total + n
        /\ rx'.left = IF o.ret # 0 THEN 0 ELSE rx.left - n
    BY <1>3, <1>6
  <2>2. rx.total + n \in Nat /\ rx.left - n \in Nat /\ (rx.left - n) + (rx.total + n) <= MaxCount
        /\ 0 + (rx.total + n) <= MaxCount
    <3>1. n \in Nat /\ n <= rx.left /\ rx.left \in Nat /\ rx.total \in Nat /\ MaxCount \in Nat
          /\ rx.left + rx.total <= MaxCount
      BY <1>2, <1>6
    <3>2. \A a, b, m, k \in Nat : k <= a /\ a + b <= m =>
             b + k \in Nat /\ a - k \in Nat /\ (a - k) + (b + k) <= m /\ 0 + (b + k) <= m
      OBVIOUS
    <3> QED BY <3>1, <3>2
  <2>3. (IF o.ret # 0 THEN 0 ELSE rx.left - n) \in Nat
    BY <2>2
  <2>4. rx'.left + rx'.total <= MaxCount
    BY <2>1, <2>2
  <2>5. rx' \in [buf : Seq(Nat), left : Nat \cup {Idle}, total : Nat, ret : Nat]
    BY <1>3, <1>5, <1>6, <1>7, <2>2, <2>3
  <2> QED BY <2>1, <2>3, <2>4, <2>5
<1>10. ChanTypeOK'
  <2>1. Len(chan') <= ChanSize
    <3>1. Len(chan') = Len(chan) - n /\ n \in Nat
      BY <1>6, <1>8
    <3> QED BY <1>2, <3>1, ChanAssumption
  <2> QED BY <1>1, <1>8, <1>9, <2>1 DEF ChanTypeOK
<1>11. Sending'
  BY <1>1 DEF Sending
<1>12. rx'.left # Idle
  BY <1>9 DEF Idle
<1>13. Receiving'
  BY <1>7, <1>9, <1>12 DEF Receiving
<1>14. Stream'
  <2> DEFINE h == SubSeq(rx.buf, 1, rx.total)
             c == SubSeq(chan, 1, n)
  <2>1. Held = h /\ Held' = h \o c
    BY <1>2, <1>7, <1>9, <1>12 DEF Held
  <2>2. h \in Seq(Nat)
    BY <1>1, <2>1, HeldSeq
  <2>3. c \in Seq(Nat) /\ chan' \in Seq(Nat) /\ c \o chan' = chan
    BY <1>8
  <2> HIDE DEF h, c
  <2>4. taken \o h \in Seq(Nat)
    BY <1>3, <2>2, ConcatProperties
  <2>5. taken \o (h \o c) = (taken \o h) \o c
    <3>1. taken \in Seq(Nat) /\ h \in Seq(Nat) /\ c \in Seq(Nat)
      BY <1>3, <2>2, <2>3
    <3> QED BY <3>1, ConcatNat, Zenon
  <2>6. ((taken \o h) \o c) \o chan' = (taken \o h) \o (c \o chan')
    <3> DEFINE x == taken \o h
    <3>1. x \in Seq(Nat)
      BY <2>4
    <3> HIDE DEF x
    <3>2. (x \o c) \o chan' = x \o (c \o chan')
      BY <2>3, <3>1, ConcatNat
    <3> QED BY <3>2 DEF x
  <2>7. (taken \o h) \o chan = Numbered(0, first + tx.total)
    BY <1>1, <2>1 DEF Stream
  <2>8. taken' = taken /\ first' = first /\ tx' = tx
    BY <1>1
  <2> QED BY <2>1, <2>3, <2>5, <2>6, <2>7, <2>8 DEF Stream
<1> QED BY <1>10, <1>11, <1>13, <1>14 DEF ChanInv

LEMMA RxReturn_Keeps == ChanInv /\ RxReturn => ChanInv'
<1> SUFFICES ASSUME ChanInv, RxReturn PROVE ChanInv'
  OBVIOUS
<1>1. /\ ChanTypeOK /\ Sending /\ Receiving /\ Stream /\ rx.left = 0
      /\ UNCHANGED <<chan, tx, txResult, first, next>>
      /\ taken' = taken \o SubSeq(rx.buf, 1, rx.total) /\ rx' = [rx EXCEPT !.left = Idle]
      /\ rxResult' = IF rx.ret # 0 /\ rx.total = 0 THEN rx.ret ELSE rx.total
  BY DEF ChanInv, RxReturn
<1>2. /\ rx \in [buf : Seq(Nat), left : Nat \cup {Idle}, total : Nat, ret : Nat] /\ rx.left # Idle
      /\ taken \in Seq(Nat)
  BY <1>1 DEF ChanTypeOK, Idle
<1>3. /\ rx'.left = Idle /\ rx'.total = rx.total
      /\ rx' \in [buf : Seq(Nat), left : Nat \cup {Idle}, total : Nat, ret : Nat]
  BY <1>1, <1>2
<1>4. taken' = taken \o Held /\ Held \in Seq(Nat) /\ taken' \in Seq(Nat)
  <2>1. taken' = taken \o Held
    BY <1>1, <1>2 DEF Held
  <2>2. Held \in Seq(Nat)
    BY <1>1, HeldSeq
  <2> QED BY <1>2, <2>1, <2>2, ConcatProperties
<1>5. ChanTypeOK'
  BY <1>1, <1>3, <1>4 DEF ChanTypeOK
<1>6. Sending'
  BY <1>1 DEF Sending
<1>7. Receiving'
  <2>1. rx'.total \in {0, rxResult'}
    BY <1>1, <1>3
  <2> QED BY <1>3, <2>1 DEF Receiving
<1>8. Stream'
  <2>1. Held' = <<>>
    BY <1>3 DEF Held
  <2>2. taken' \o <<>> = taken'
    BY <1>4, ConcatEmptySeq
  <2> QED BY <1>1, <1>4, <2>1, <2>2 DEF Stream
<1> QED BY <1>5, <1>6, <1>7, <1>8 DEF ChanInv

LEMMA Chan_Next == ChanInv /\ [ChanNext]_chanVars => ChanInv'
<1> SUFFICES ASSUME ChanInv, [ChanNext]_chanVars PROVE ChanInv'
  OBVIOUS
<1>1. CASE UNCHANGED chanVars
  <2>1. UNCHANGED <<chan, tx, rx, txResult, rxResult, taken, first, next>>
    BY <1>1 DEF chanVars
  <2>2. ChanTypeOK' /\ Sending' /\ Receiving' /\ Stream'
    BY <2>1 DEF ChanInv, ChanTypeOK, Sending, Receiving, Stream, Held
  <2> QED BY <2>2 DEF ChanInv
<1>2. CASE \E count \in 1..MaxCount, blocking \in BOOLEAN : StartTx(count, blocking)
  BY <1>2, StartTx_Keeps
<1>3. CASE \E count \in 1..MaxCount : StartRx(count)
  BY <1>3, StartRx_Keeps
<1> QED BY <1>1, <1>2, <1>3, TxStep_Keeps, TxReturn_Keeps, RxStep_Keeps, RxReturn_Keeps DEF ChanNext

LEMMA Chan_Sound == ChanInv => ChanExact
<1> SUFFICES ASSUME ChanInv PROVE ChanExact
  OBVIOUS
<1> DEFINE held == SubSeq(rx.buf, 1, IF rx.left = Idle THEN 0 ELSE rx.total)
           through == (taken \o held) \o chan
<1>1. ChanTypeOK /\ Sending /\ Receiving /\ Stream
  BY DEF ChanInv
<1>2. first \in Nat /\ tx.total \in Nat /\ first + tx.total \in Nat
  BY <1>1 DEF ChanTypeOK
<1>3. held = Held
  <2>1. SubSeq(rx.buf, 1, 0) = <<>>
    BY SubSeqEmpty
  <2> QED BY <2>1 DEF Held
<1>4. through = Numbered(0, first + tx.total)
  BY <1>1, <1>3 DEF Stream
<1>5. Len(through) = first + tx.total
  <2>1. Len(Numbered(0, first + tx.total)) = first + tx.total
    BY <1>2, NumberedSeq
  <2> QED BY <1>4, <2>1
<1>6. through = [i \in 1 .. Len(through) |-> i]
  <2>1. Numbered(0, first + tx.total) = [i \in 1 .. first + tx.total |-> i]
    BY <1>2 DEF Numbered
  <2> QED BY <1>4, <1>5, <2>1
<1>7. Len(through) = IF tx.left = Idle THEN next ELSE first + tx.total
  BY <1>1, <1>5 DEF Sending
<1>8. tx.left = Idle /\ txResult # Idle => next - first \in {0, txResult}
  <2>1. tx.left = Idle => next - first = tx.total
    BY <1>1, <1>2 DEF Sending
  <2> QED BY <1>1, <2>1 DEF Sending
<1>9. rx.left = Idle /\ rxResult # Idle => rx.total \in {0, rxResult}
  BY <1>1 DEF Receiving
<1> QED BY <1>6, <1>7, <1>8, <1>9 DEF ChanExact

-----------------------------------------------------------------------------
(* The terminal that the editor and the console share.                      *)

Draining == {"suspend", "move", "resume"}
Editing == {"notify", "prepare", "check", "block", "drain", "input", "enter", "prompt"}
Place == Draining \cup Editing \cup {"action", "callback", "over", "idle"}

RlTypes ==
    /\ ReadlineTypeOK
    /\ consolebuf \in Seq(Console) /\ rpc \in [Context -> Place]
    /\ action \in BOOLEAN /\ suspended \in BOOLEAN /\ wasSuspended \in BOOLEAN

(* Who drains holds the lock, a printer drains only while an action runs,   *)
(* and a drain that has begun has suspended the line.                       *)
Drains ==
    /\ \A c \in Context : (lock = c <=> rpc[c] \in Draining)
    /\ rpc["printer"] \in Draining => action
    /\ rpc["thread"] \in Editing => ~action
    /\ \A c \in Context : rpc[c] \in {"move", "resume"} => suspended
    /\ rpc["thread"] = "prompt" => (wasSuspended <=> suspended)

(* Where the output stands: outside a suspension it does not stand in a     *)
(* console line, and where console output may come next, the edited line is *)
(* out of the way.                                                          *)
Apart ==
    /\ mixed \in BOOLEAN /\ dropped \in BOOLEAN
    /\ ~dropped =>
          /\ ~mixed
          /\ ~suspended => last # "x"
          /\ suspended \/ action \/ rpc["thread"] = "enter" => last \in {"x", "n", "hidden", "crlf"}

RlInv == RlTypes /\ Drains /\ Apart

LEMMA Rl_Init == ReadlineInit => RlInv
<1> SUFFICES ASSUME ReadlineInit PROVE RlInv
  OBVIOUS
<1>1. rpc \in [Context -> Place] /\ rpc["thread"] = "notify" /\ rpc["printer"] = "idle"
  BY DEF ReadlineInit, Context, Place, Editing
<1>2. RlTypes
  <2>1. 1 \in 0 .. OutSize /\ 0 <= ConsoleSize
    BY OutputAssumption
  <2>2. consolebuf \in Seq(Console) /\ Len(consolebuf) = 0
    BY EmptySeq DEF ReadlineInit
  <2> QED BY <1>1, <2>1, <2>2 DEF ReadlineInit, RlTypes, ReadlineTypeOK, Context, Console
<1>3. Drains /\ Apart
  BY <1>1 DEF ReadlineInit, Drains, Apart, Context, Draining, Editing
<1> QED BY <1>2, <1>3 DEF RlInv

(* The editor's item goes to the end of a queue that does not stand in a    *)
(* console line, or it is lost.                                             *)
LEMMA EditorPuts ==
    ASSUME NEW item \in {"shown", "hidden", "echo", "crlf"}, Editor(item),
           out \in 0 .. OutSize, last \in Console \cup {"shown", "hidden", "echo", "crlf"},
           mixed \in BOOLEAN, dropped \in BOOLEAN, ~dropped => ~mixed /\ last # "x"
    PROVE  /\ out' \in 0 .. OutSize /\ last' \in Console \cup {"shown", "hidden", "echo", "crlf"}
           /\ mixed' \in BOOLEAN /\ dropped' \in BOOLEAN
           /\ ~dropped' => ~dropped /\ ~mixed' /\ last' = item
<1>1. CASE out < OutSize
  <2>1. /\ out' = out + Len(<<item>>) /\ last' = item
        /\ mixed' = (mixed \/ Mixes(<<item>>)) /\ dropped' = dropped
    BY <1>1 DEF Editor, PutItems
  <2>2. out' \in 0 .. OutSize
    <3>1. out' = out + 1
      BY <2>1
    <3> QED BY <1>1, <3>1, OutputAssumption
  <2>3. ASSUME last # "x" PROVE ~Mixes(<<item>>)
    <3>1. Len(<<item>>) = 1 /\ (<<last>> \o <<item>>)[2] = item /\ (<<last>> \o <<item>>)[1] = last
      OBVIOUS
    <3>2. Follows(last, item)
      BY <2>3 DEF Follows, Console
    <3>3. ASSUME NEW i \in 1 .. Len(<<item>>) PROVE Follows((<<last>> \o <<item>>)[i], (<<last>> \o <<item>>)[i + 1])
      <4>1. i = 1 /\ i + 1 = 2
        BY <3>1
      <4> QED BY <3>1, <3>2, <4>1
    <3> QED BY <3>3 DEF Mixes
  <2> QED BY <2>1, <2>2, <2>3
<1>2. CASE ~(out < OutSize)
  BY <1>2 DEF Editor
<1> QED BY <1>1, <1>2

(* Console output goes behind console output, or where the line is out of   *)
(* the way.                                                                 *)
LEMMA ConsolePuts ==
    ASSUME NEW moved \in Seq(Console), PutItems(moved), Len(moved) <= OutSize - out,
           out \in 0 .. OutSize, last \in Console \cup {"shown", "hidden", "echo", "crlf"}, mixed \in BOOLEAN
    PROVE  /\ out' \in 0 .. OutSize /\ last' \in Console \cup {"shown", "hidden", "echo", "crlf"}
           /\ mixed' \in BOOLEAN /\ last' \in {last} \cup Console
           /\ ~mixed /\ last \in {"x", "n", "hidden", "crlf"} => ~mixed'
<1> DEFINE all == <<last>> \o moved
<1>1. /\ out' = out + Len(moved) /\ last' = (IF moved = <<>> THEN last ELSE moved[Len(moved)])
      /\ mixed' = (mixed \/ Mixes(moved)) /\ Len(moved) \in Nat
  BY LenProperties DEF PutItems
<1>2. out' \in 0 .. OutSize
  BY <1>1, OutputAssumption
<1>3. \A i \in 1 .. Len(moved) : moved[i] \in Console
  BY ElementOfSeq
<1>4. last' \in {last} \cup Console
  <2>1. CASE moved = <<>>
    BY <1>1, <2>1
  <2>2. CASE moved # <<>>
    <3>1. Len(moved) \in Nat \ {0}
      BY <2>2, EmptySeq
    <3>2. Len(moved) \in 1 .. Len(moved)
      BY <3>1
    <3>3. moved[Len(moved)] \in Console
      BY <1>3, <3>2
    <3> QED BY <1>1, <2>2, <3>3
  <2> QED BY <2>1, <2>2
<1>5. ASSUME last \in {"x", "n", "hidden", "crlf"} PROVE ~Mixes(moved)
  <2> SUFFICES ASSUME NEW i \in 1 .. Len(moved) PROVE Follows(all[i], all[i + 1])
    BY DEF Mixes
  <2>1. /\ all[1] = last
        /\ \A j \in 1 .. Len(moved) : all[j + 1] = moved[j]
    <3> DEFINE S == Console \cup {"shown", "hidden", "echo", "crlf"}
    <3>1. <<last>> \in Seq(S) /\ moved \in Seq(S) /\ Len(<<last>>) = 1 /\ <<last>>[1] = last
      OBVIOUS
    <3>2. /\ \A j \in 1 .. 1 + Len(moved) : all[j] = IF j <= 1 THEN <<last>>[j] ELSE moved[j - 1]
      <4> HIDE DEF S
      <4>1. \A j \in 1 .. Len(<<last>>) + Len(moved) :
               all[j] = IF j <= Len(<<last>>) THEN <<last>>[j] ELSE moved[j - Len(<<last>>)]
        BY <3>1, ConcatProperties
      <4> QED BY <3>1, <4>1
    <3> HIDE DEF all
    <3>3. 1 \in 1 .. 1 + Len(moved) /\ \A j \in 1 .. Len(moved) : j + 1 \in 1 .. 1 + Len(moved) /\ ~(j + 1 <= 1) /\ (j + 1) - 1 = j
      BY <1>1
    <3> QED BY <3>1, <3>2, <3>3
  <2> HIDE DEF all
  <2>2. all[i + 1] \in Console
    BY <1>3, <2>1
  <2>3. all[i] \in {"x", "n", "hidden", "crlf"}
    <3>1. CASE i = 1
      BY <1>5, <2>1, <3>1
    <3>2. CASE i # 1
      <4>1. i - 1 \in 1 .. Len(moved) /\ (i - 1) + 1 = i
        BY <1>1, <3>2
      <4> QED BY <1>3, <2>1, <4>1 DEF Console
    <3> QED BY <3>1, <3>2
  <2> QED BY <2>2, <2>3 DEF Follows, Console
<1> QED BY <1>1, <1>2, <1>4, <1>5

LEMMA Suspend_Keeps == ASSUME RlInv, NEW c \in Context, Suspend(c) PROVE RlInv'
<1>1. /\ RlTypes /\ Drains /\ Apart
      /\ rpc[c] = "suspend" /\ rpc' = [rpc EXCEPT ![c] = "move"] /\ suspended' = TRUE
      /\ UNCHANGED <<consolebuf, action, wasSuspended, lock>>
  BY DEF RlInv, Suspend, IsAt, GoesTo
<1>2. /\ rpc \in [Context -> Place] /\ out \in 0 .. OutSize
      /\ last \in Console \cup {"shown", "hidden", "echo", "crlf"}
      /\ action \in BOOLEAN /\ suspended \in BOOLEAN /\ mixed \in BOOLEAN /\ dropped \in BOOLEAN
  BY <1>1 DEF RlTypes, ReadlineTypeOK, Apart
<1>3. /\ out' \in 0 .. OutSize /\ last' \in Console \cup {"shown", "hidden", "echo", "crlf"}
      /\ mixed' \in BOOLEAN /\ dropped' \in BOOLEAN
      /\ ~dropped' => ~mixed' /\ last' \in {"x", "n", "hidden", "crlf"}
  <2>1. CASE suspended \/ action
    <3>1. UNCHANGED <<out, last, mixed, dropped>>
      BY <2>1 DEF Suspend, NoOutput
    <3> QED BY <1>1, <1>2, <2>1, <3>1 DEF Apart
  <2>2. CASE ~(suspended \/ action)
    <3>1. Editor("hidden")
      BY <2>2 DEF Suspend
    <3>2. ~dropped => ~mixed /\ last # "x"
      BY <1>1, <2>2 DEF Apart
    <3> QED BY <1>2, <3>1, <3>2, EditorPuts
  <2> QED BY <2>1, <2>2
<1>4. RlTypes'
  BY <1>1, <1>2, <1>3 DEF RlTypes, ReadlineTypeOK, Place, Draining
<1>5. Drains'
  BY <1>1, <1>2 DEF Drains, Context, Draining, Editing
<1>6. Apart'
  BY <1>1, <1>3 DEF Apart
<1> QED BY <1>4, <1>5, <1>6 DEF RlInv

LEMMA Move_Keeps == ASSUME RlInv, NEW c \in Context, Move(c) PROVE RlInv'
<1>1. /\ RlTypes /\ Drains /\ Apart
      /\ rpc[c] = "move" /\ rpc' = [rpc EXCEPT ![c] = "resume"]
      /\ UNCHANGED <<action, suspended, wasSuspended, lock, dropped>>
  BY DEF RlInv, Move, IsAt, GoesTo
<1>2. /\ rpc \in [Context -> Place] /\ out \in 0 .. OutSize
      /\ last \in Console \cup {"shown", "hidden", "echo", "crlf"}
      /\ action \in BOOLEAN /\ suspended \in BOOLEAN /\ mixed \in BOOLEAN /\ dropped \in BOOLEAN
      /\ suspended
  BY <1>1 DEF RlTypes, ReadlineTypeOK, Apart, Drains
<1>3. consolebuf \in Seq(Console) /\ Len(consolebuf) \in Nat /\ Len(consolebuf) <= ConsoleSize
  BY <1>1, LenProperties DEF RlTypes, ReadlineTypeOK
<1>4. PICK max \in Limits :
        LET n == IF max < OutSize - out THEN max ELSE OutSize - out
        IN  /\ PutItems(SubSeq(consolebuf, 1, n))
            /\ consolebuf' = SubSeq(consolebuf, n + 1, Len(consolebuf))
  BY DEF Move
<1> DEFINE n == IF max < OutSize - out THEN max ELSE OutSize - out
<1>5. max \in 0 .. Len(consolebuf)
  <2>1. max = Len(consolebuf) \/ max \in 1 .. Len(consolebuf)
    BY DEF Limits
  <2> QED BY <1>3, <2>1
<1>6. n \in 0 .. Len(consolebuf) /\ n <= OutSize - out
  BY <1>2, <1>3, <1>5, OutputAssumption
<1>a. PutItems(SubSeq(consolebuf, 1, n)) /\ consolebuf' = SubSeq(consolebuf, n + 1, Len(consolebuf))
  BY <1>4
<1> HIDE DEF n
<1>7. /\ SubSeq(consolebuf, 1, n) \in Seq(Console) /\ Len(SubSeq(consolebuf, 1, n)) = n
      /\ consolebuf' \in Seq(Console) /\ Len(consolebuf') = Len(consolebuf) - n
  BY <1>3, <1>6, <1>a, Parted
<1>8. /\ out' \in 0 .. OutSize /\ last' \in Console \cup {"shown", "hidden", "echo", "crlf"}
      /\ mixed' \in BOOLEAN /\ last' \in {last} \cup Console
      /\ ~mixed /\ last \in {"x", "n", "hidden", "crlf"} => ~mixed'
  BY <1>2, <1>6, <1>7, <1>a, ConsolePuts
<1>9. RlTypes'
  <2>1. Len(consolebuf') <= ConsoleSize
    BY <1>3, <1>6, <1>7, OutputAssumption
  <2> QED BY <1>1, <1>2, <1>7, <1>8, <2>1 DEF RlTypes, ReadlineTypeOK, Place, Draining
<1>10. Drains'
  BY <1>1, <1>2 DEF Drains, Context, Draining, Editing
<1>11. Apart'
  BY <1>1, <1>2, <1>8 DEF Apart, Console
<1> QED BY <1>9, <1>10, <1>11 DEF RlInv

LEMMA Resume_Keeps == ASSUME RlInv, NEW c \in Context, Resume(c) PROVE RlInv'
<1>1. /\ RlTypes /\ Drains /\ Apart
      /\ rpc[c] = "resume" /\ rpc' = [rpc EXCEPT ![c] = AfterDrain[c]] /\ lock' = "free"
      /\ UNCHANGED <<consolebuf, action, wasSuspended>>
  BY DEF RlInv, Resume, IsAt, GoesTo, Release
<1>2. /\ rpc \in [Context -> Place] /\ out \in 0 .. OutSize
      /\ last \in Console \cup {"shown", "hidden", "echo", "crlf"}
      /\ action \in BOOLEAN /\ suspended \in BOOLEAN /\ mixed \in BOOLEAN /\ dropped \in BOOLEAN
      /\ suspended
  BY <1>1 DEF RlTypes, ReadlineTypeOK, Apart, Drains
<1>3. \/ c = "thread" /\ AfterDrain[c] = (IF action THEN "action" ELSE "input")
      \/ c = "printer" /\ AfterDrain[c] = "idle"
  <2>1. AfterDrain["thread"] = (IF action THEN "action" ELSE "input") /\ AfterDrain["printer"] = "idle"
    BY DEF AfterDrain
  <2> QED BY <2>1 DEF Context
<1>4. /\ out' \in 0 .. OutSize /\ last' \in Console \cup {"shown", "hidden", "echo", "crlf"}
      /\ mixed' \in BOOLEAN /\ dropped' \in BOOLEAN /\ suspended' \in BOOLEAN
      /\ ~dropped' => /\ ~mixed' /\ (~suspended' => last' # "x")
                      /\ suspended' \/ action => last' \in {"x", "n", "hidden", "crlf"}
  <2>1. CASE last \in {"n", "crlf"} /\ ~action
    <3>1. Editor("shown") /\ suspended' = FALSE
      BY <2>1 DEF Resume
    <3>2. ~dropped => ~mixed /\ last # "x"
      BY <1>1, <2>1 DEF Apart
    <3> QED BY <1>2, <2>1, <3>1, <3>2, EditorPuts
  <2>2. CASE last \in {"n", "crlf"} /\ action
    <3>1. UNCHANGED <<out, last, mixed, dropped>> /\ suspended' = FALSE
      BY <2>2 DEF Resume, NoOutput
    <3> QED BY <1>1, <1>2, <2>2, <3>1 DEF Apart
  <2>3. CASE last \notin {"n", "crlf"}
    <3>1. UNCHANGED <<out, last, mixed, dropped, suspended>>
      BY <2>3 DEF Resume, NoOutput
    <3> QED BY <1>1, <1>2, <2>3, <3>1 DEF Apart
  <2> QED BY <2>1, <2>2, <2>3
<1>5. RlTypes'
  BY <1>1, <1>2, <1>3, <1>4 DEF RlTypes, ReadlineTypeOK, Place, Editing
<1>6. Drains'
  BY <1>1, <1>2, <1>3 DEF Drains, Context, Draining, Editing
<1>7. rpc'["thread"] # "enter"
  BY <1>1, <1>2, <1>3 DEF Drains, Context, Draining, Editing
<1>8. Apart'
  BY <1>1, <1>4, <1>7 DEF Apart
<1> QED BY <1>5, <1>6, <1>8 DEF RlInv

(* Steps that put nothing into the output queue and leave the line alone.   *)
LEMMA Quiet_Keeps ==
    RlInv /\ ((\E c \in Context : PrintMessage(c) \/ Callback(c)) \/ RlPrepare \/ Check \/ RlBlock \/ Drain
              \/ EndSession \/ Transmit \/ Arrive) => RlInv'
<1> SUFFICES ASSUME RlInv,
                    (\E c \in Context : PrintMessage(c) \/ Callback(c)) \/ RlPrepare \/ Check \/ RlBlock \/ Drain
                    \/ EndSession \/ Transmit \/ Arrive
             PROVE  RlInv'
  OBVIOUS
<1>1. RlTypes /\ Drains /\ Apart
  BY DEF RlInv
<1>2. /\ rpc \in [Context -> Place] /\ action \in BOOLEAN
      /\ consolebuf \in Seq(Console) /\ Len(consolebuf) <= ConsoleSize
  BY <1>1 DEF RlTypes, ReadlineTypeOK
<1>3. ASSUME NEW c \in Context, PrintMessage(c) PROVE RlInv'
  <2>1. /\ rpc[c] = (IF c = "thread" THEN "action" ELSE "idle") /\ rpc' = [rpc EXCEPT ![c] = "callback"]
        /\ UNCHANGED <<out, last, action, suspended, wasSuspended, lock, mixed, dropped>>
    BY <1>3 DEF PrintMessage, IsAt, GoesTo
  <2>2. consolebuf' \in Seq(Console) /\ Len(consolebuf') <= ConsoleSize
    <3>1. PICK m \in Messages :
            consolebuf' = consolebuf \o (IF Len(m) > ConsoleSize - Len(consolebuf)
                                         THEN SubSeq(m, 1, ConsoleSize - Len(consolebuf)) ELSE m)
      BY <1>3 DEF PrintMessage
    <3>2. m \in Seq(Console) /\ Len(m) \in Nat
      <4>1. m = <<"x", "n">> \/ m = <<"x">>
        BY DEF Messages
      <4>2. <<"x", "n">> \in Seq(Console) /\ <<"x">> \in Seq(Console)
        BY DEF Console
      <4> QED BY <4>1, <4>2, LenProperties
    <3> DEFINE room == ConsoleSize - Len(consolebuf)
    <3>3. room \in Nat
      BY <1>2, LenProperties, OutputAssumption
    <3> DEFINE added == IF Len(m) > room THEN SubSeq(m, 1, room) ELSE m
    <3>4. added \in Seq(Console) /\ Len(added) \in Nat /\ Len(added) <= room
      <4> HIDE DEF room
      <4>1. CASE Len(m) > room
        <5>1. room \in 0 .. Len(m)
          BY <3>2, <3>3, <4>1
        <5>2. SubSeq(m, 1, room) \in Seq(Console) /\ Len(SubSeq(m, 1, room)) = room
          BY <3>2, <5>1, Parted
        <5> QED BY <3>3, <4>1, <5>2
      <4>2. CASE ~(Len(m) > room)
        BY <3>2, <3>3, <4>2
      <4> QED BY <4>1, <4>2
    <3>5. consolebuf' = consolebuf \o added
      BY <3>1
    <3> HIDE DEF added
    <3>6. consolebuf' \in Seq(Console) /\ Len(consolebuf') = Len(consolebuf) + Len(added)
      BY <1>2, <3>4, <3>5, ConcatProperties
    <3>7. Len(consolebuf) \in Nat
      BY <1>2, LenProperties
    <3>8. Len(consolebuf') <= ConsoleSize
      BY <3>4, <3>6, <3>7, OutputAssumption
    <3> QED BY <3>6, <3>8
  <2>3. RlTypes'
    BY <1>1, <1>2, <2>1, <2>2 DEF RlTypes, ReadlineTypeOK, Place
  <2>4. Drains'
    BY <1>1, <1>2, <2>1 DEF Drains, Context, Draining, Editing
  <2>5. rpc'["thread"] # "enter" \/ rpc["thread"] = "enter"
    BY <1>2, <2>1 DEF Context
  <2>6. Apart'
    BY <1>1, <2>1, <2>5 DEF Apart
  <2> QED BY <2>3, <2>4, <2>6 DEF RlInv
<1>4. ASSUME NEW c \in Context, Callback(c) PROVE RlInv'
  <2>1. /\ rpc[c] = "callback" /\ lock = "free"
        /\ UNCHANGED <<consolebuf, out, last, action, suspended, wasSuspended, mixed, dropped>>
        /\ \/ action /\ lock' = c /\ rpc' = [rpc EXCEPT ![c] = "suspend"]
           \/ ~action /\ lock' = lock /\ rpc' = [rpc EXCEPT ![c] = AfterDrain[c]]
    BY <1>4 DEF Callback, IsAt, GoesTo
  <2>2. ~action => (c = "thread" /\ AfterDrain[c] = "input") \/ (c = "printer" /\ AfterDrain[c] = "idle")
    <3>1. AfterDrain["thread"] = (IF action THEN "action" ELSE "input") /\ AfterDrain["printer"] = "idle"
      BY DEF AfterDrain
    <3> QED BY <3>1 DEF Context
  <2>3. RlTypes'
    BY <1>1, <1>2, <2>1, <2>2 DEF RlTypes, ReadlineTypeOK, Place, Draining, Editing
  <2>4. Drains'
    BY <1>1, <1>2, <2>1, <2>2 DEF Drains, Context, Draining, Editing
  <2>5. rpc'["thread"] # "enter" \/ rpc["thread"] = "enter"
    BY <1>2, <2>1, <2>2 DEF Context
  <2>6. Apart'
    BY <1>1, <2>1, <2>5 DEF Apart
  <2> QED BY <2>3, <2>4, <2>6 DEF RlInv
<1>5. CASE RlPrepare \/ Check \/ RlBlock \/ EndSession
  <2>1. PICK to \in {"check", "block", "drain", "prepare", "over"} :
          /\ rpc' = [rpc EXCEPT !["thread"] = to]
          /\ rpc["thread"] \in {"notify", "prepare", "check", "block", "action"}
          /\ rpc["thread"] = "action" => to = "over"
          /\ UNCHANGED <<consolebuf, out, last, action, suspended, wasSuspended, lock, mixed, dropped>>
    BY <1>5 DEF RlPrepare, Check, RlBlock, EndSession, LoopStep, IsAt, GoesTo, StateKept
  <2>2. RlTypes'
    BY <1>1, <1>2, <2>1 DEF RlTypes, ReadlineTypeOK, Place, Editing
  <2>3. Drains'
    BY <1>1, <1>2, <2>1 DEF Drains, Context, Draining, Editing
  <2>4. rpc'["thread"] # "enter"
    BY <1>2, <2>1 DEF Context
  <2>5. Apart'
    BY <1>1, <2>1, <2>4 DEF Apart
  <2> QED BY <2>2, <2>3, <2>5 DEF RlInv
<1>6. CASE Drain
  <2>1. /\ rpc["thread"] = "drain" /\ lock = "free"
        /\ UNCHANGED <<consolebuf, out, last, action, suspended, wasSuspended, mixed, dropped>>
        /\ \/ lock' = "thread" /\ rpc' = [rpc EXCEPT !["thread"] = "suspend"]
           \/ lock' = lock /\ rpc' = [rpc EXCEPT !["thread"] = "input"]
    BY <1>6 DEF Drain, IsAt, GoesTo
  <2>2. RlTypes'
    BY <1>1, <1>2, <2>1 DEF RlTypes, ReadlineTypeOK, Place, Editing, Draining, Context
  <2>3. Drains'
    BY <1>1, <1>2, <2>1 DEF Drains, Context, Draining, Editing
  <2>4. rpc'["thread"] # "enter"
    BY <1>2, <2>1 DEF Context
  <2>5. Apart'
    BY <1>1, <2>1, <2>4 DEF Apart
  <2> QED BY <2>2, <2>3, <2>5 DEF RlInv
<1>7. CASE Transmit \/ Arrive
  <2>1. /\ UNCHANGED <<consolebuf, rpc, last, action, suspended, wasSuspended, lock, mixed, dropped>>
        /\ out' = out \/ (out # 0 /\ out' = out - 1)
    <3>1. CASE Transmit
      BY <3>1 DEF Transmit
    <3>2. CASE Arrive
      BY <3>2 DEF Arrive
    <3> QED BY <1>7, <3>1, <3>2
  <2>2. out' \in 0 .. OutSize
    <3>1. out \in 0 .. OutSize
      BY <1>1 DEF RlTypes, ReadlineTypeOK
    <3> QED BY <2>1, <3>1, OutputAssumption
  <2>3. RlTypes' /\ Drains' /\ Apart'
    BY <1>1, <2>1, <2>2 DEF RlTypes, ReadlineTypeOK, Drains, Apart
  <2> QED BY <2>3 DEF RlInv
<1> QED BY <1>3, <1>4, <1>5, <1>6, <1>7

LEMMA Thread_Keeps == RlInv /\ (Input \/ StartAction \/ EndAction \/ ShowPrompt) => RlInv'
<1> SUFFICES ASSUME RlInv, Input \/ StartAction \/ EndAction \/ ShowPrompt PROVE RlInv'
  OBVIOUS
<1>1. RlTypes /\ Drains /\ Apart
  BY DEF RlInv
<1>2. /\ rpc \in [Context -> Place] /\ out \in 0 .. OutSize
      /\ last \in Console \cup {"shown", "hidden", "echo", "crlf"}
      /\ action \in BOOLEAN /\ suspended \in BOOLEAN /\ mixed \in BOOLEAN /\ dropped \in BOOLEAN
  BY <1>1 DEF RlTypes, ReadlineTypeOK, Apart
<1>3. CASE Input
  <2>1. /\ rpc["thread"] = "input" /\ UNCHANGED <<consolebuf, action, suspended, wasSuspended, lock>>
    BY <1>3 DEF Input, IsAt
  <2>2. CASE suspended \/ inq = <<>>
    <3>1. UNCHANGED <<out, last, mixed, dropped>> /\ rpc' = [rpc EXCEPT !["thread"] = "notify"]
      BY <1>3, <2>2 DEF Input, NoOutput, GoesTo
    <3>2. RlTypes'
      BY <1>1, <1>2, <2>1, <3>1 DEF RlTypes, ReadlineTypeOK, Place, Editing
    <3>3. Drains'
      BY <1>1, <1>2, <2>1, <3>1 DEF Drains, Context, Draining, Editing
    <3>4. rpc'["thread"] # "enter"
      BY <1>2, <3>1 DEF Context
    <3>5. Apart'
      BY <1>1, <2>1, <3>1, <3>4 DEF Apart
    <3> QED BY <3>2, <3>3, <3>5 DEF RlInv
  <2>3. CASE ~(suspended \/ inq = <<>>)
    <3>1. PICK item \in {"crlf", "echo"} :
            /\ Editor(item)
            /\ rpc' = [rpc EXCEPT !["thread"] = IF item = "crlf" THEN "enter" ELSE "notify"]
      BY <1>3, <2>3 DEF Input, GoesTo
    <3>2. ~dropped => ~mixed /\ last # "x"
      BY <1>1, <2>3 DEF Apart
    <3>3. /\ out' \in 0 .. OutSize /\ last' \in Console \cup {"shown", "hidden", "echo", "crlf"}
          /\ mixed' \in BOOLEAN /\ dropped' \in BOOLEAN
          /\ ~dropped' => ~dropped /\ ~mixed' /\ last' = item
      BY <1>2, <3>1, <3>2, EditorPuts
    <3>4. RlTypes'
      BY <1>1, <1>2, <2>1, <3>1, <3>3 DEF RlTypes, ReadlineTypeOK, Place, Editing
    <3>5. Drains'
      BY <1>1, <1>2, <2>1, <3>1 DEF Drains, Context, Draining, Editing
    <3>6. ~suspended' /\ ~action' /\ (rpc'["thread"] = "enter" => item = "crlf")
      BY <1>1, <1>2, <2>1, <2>3, <3>1 DEF Drains, Editing, Context
    <3>7. Apart'
      BY <3>1, <3>3, <3>6 DEF Apart
    <3> QED BY <3>4, <3>5, <3>7 DEF RlInv
  <2> QED BY <2>2, <2>3
<1>4. CASE StartAction \/ EndAction
  <2>1. /\ UNCHANGED <<consolebuf, out, last, suspended, lock, mixed, dropped>> /\ lock = "free"
        /\ \/ /\ rpc["thread"] = "enter" /\ rpc' = [rpc EXCEPT !["thread"] = "action"]
              /\ action' = TRUE /\ wasSuspended' = wasSuspended
           \/ /\ rpc["thread"] = "action" /\ rpc' = [rpc EXCEPT !["thread"] = "prompt"]
              /\ action' = FALSE /\ wasSuspended' = suspended
    BY <1>4 DEF StartAction, EndAction, LoopStep, IsAt, GoesTo
  <2>2. RlTypes'
    BY <1>1, <1>2, <2>1 DEF RlTypes, ReadlineTypeOK, Place, Editing
  <2>3. Drains'
    BY <1>1, <1>2, <2>1 DEF Drains, Context, Draining, Editing
  <2>4. rpc'["thread"] # "enter" /\ (action' => rpc["thread"] = "enter")
    BY <1>2, <2>1 DEF Context
  <2>5. Apart'
    BY <1>1, <2>1, <2>4 DEF Apart
  <2> QED BY <2>2, <2>3, <2>5 DEF RlInv
<1>5. CASE ShowPrompt
  <2>1. /\ rpc["thread"] = "prompt" /\ rpc' = [rpc EXCEPT !["thread"] = "notify"]
        /\ UNCHANGED <<consolebuf, action, suspended, wasSuspended, lock>>
        /\ IF wasSuspended THEN UNCHANGED <<out, last, mixed, dropped>> ELSE Editor("shown")
    BY <1>5 DEF ShowPrompt, LoopStep, IsAt, GoesTo, NoOutput
  <2>2. (wasSuspended <=> suspended) /\ ~action
    BY <1>1, <2>1 DEF Drains, Editing
  <2>3. /\ out' \in 0 .. OutSize /\ last' \in Console \cup {"shown", "hidden", "echo", "crlf"}
        /\ mixed' \in BOOLEAN /\ dropped' \in BOOLEAN
        /\ ~dropped' => /\ ~mixed' /\ (~suspended => last' # "x")
                        /\ suspended => last' \in {"x", "n", "hidden", "crlf"}
    <3>1. CASE wasSuspended
      BY <1>1, <1>2, <2>1, <2>2, <3>1 DEF Apart
    <3>2. CASE ~wasSuspended
      <4>1. ~dropped => ~mixed /\ last # "x"
        BY <1>1, <2>2, <3>2 DEF Apart
      <4>2. Editor("shown")
        BY <2>1, <3>2
      <4>3. /\ out' \in 0 .. OutSize /\ last' \in Console \cup {"shown", "hidden", "echo", "crlf"}
            /\ mixed' \in BOOLEAN /\ dropped' \in BOOLEAN
            /\ ~dropped' => ~dropped /\ ~mixed' /\ last' = "shown"
        BY <1>2, <4>1, <4>2, EditorPuts
      <4> QED BY <2>2, <3>2, <4>3
    <3> QED BY <3>1, <3>2
  <2>4. RlTypes'
    BY <1>1, <1>2, <2>1, <2>3 DEF RlTypes, ReadlineTypeOK, Place, Editing
  <2>5. Drains'
    BY <1>1, <1>2, <2>1 DEF Drains, Context, Draining, Editing
  <2>6. rpc'["thread"] # "enter"
    BY <1>2, <2>1 DEF Context
  <2>7. Apart'
    BY <2>1, <2>2, <2>3, <2>6 DEF Apart
  <2> QED BY <2>4, <2>5, <2>7 DEF RlInv
<1> QED BY <1>3, <1>4, <1>5

LEMMA Rl_Next == RlInv /\ [ReadlineNext]_readVars => RlInv'
<1> SUFFICES ASSUME RlInv, [ReadlineNext]_readVars PROVE RlInv'
  OBVIOUS
<1>1. CASE UNCHANGED readVars
  <2>1. UNCHANGED <<out, last, consolebuf, action, suspended, wasSuspended, lock, rpc, mixed, dropped>>
    BY <1>1 DEF readVars
  <2> QED BY <2>1 DEF RlInv, RlTypes, ReadlineTypeOK, Drains, Apart
<1>2. CASE ReadlineNext
  <2>1. ASSUME NEW c \in Context, DoDrain(c) PROVE RlInv'
    BY <2>1, Suspend_Keeps, Move_Keeps, Resume_Keeps, Quiet_Keeps DEF DoDrain
  <2>2. "thread" \in Context /\ "printer" \in Context
    BY DEF Context
  <2> QED BY <1>2, <2>1, <2>2, Quiet_Keeps, Thread_Keeps DEF ReadlineNext, RlThread
<1> QED BY <1>1, <1>2

LEMMA Rl_Sound == RlInv => ConsoleLinesWhole
BY DEF RlInv, RlTypes, Apart, ConsoleLinesWhole

-----------------------------------------------------------------------------
(* The line editor: its list of lines.                                      *)

LEMMA RemovedOne ==
    ASSUME NEW S, NEW s \in Seq(S), NEW i \in 1 .. Len(s)
    PROVE  /\ RemoveAt(s, i) \in Seq(S) /\ Len(RemoveAt(s, i)) = Len(s) - 1
           /\ \A k \in 1 .. Len(s) - 1 : RemoveAt(s, i)[k] = s[IF k < i THEN k ELSE k + 1]
<1> DEFINE n == Len(s)
           a == SubSeq(s, 1, i - 1)
           b == SubSeq(s, i + 1, n)
<1>1. n \in Nat /\ i \in Nat /\ 1 <= i /\ i <= n
  BY LenProperties
<1>2. \A k \in 1 .. n : s[k] \in S
  BY ElementOfSeq
<1>3. RemoveAt(s, i) = a \o b
  BY DEF RemoveAt
<1> HIDE DEF n
<1>4. a \in Seq(S) /\ Len(a) = i - 1 /\ \A k \in 1 .. i - 1 : a[k] = s[k]
  <2>1. i - 1 \in Int /\ 1 \in Int /\ \A k \in 1 .. i - 1 : s[k] \in S
    BY <1>1, <1>2
  <2>2. /\ a \in Seq(S) /\ Len(a) = IF 1 <= i - 1 THEN (i - 1) - 1 + 1 ELSE 0
        /\ \A k \in 1 .. (i - 1) - 1 + 1 : a[k] = s[1 + k - 1]
    BY <2>1, SubSeqProperties
  <2>3. (i - 1) - 1 + 1 = i - 1 /\ \A k \in 1 .. i - 1 : 1 + k - 1 = k
    BY <1>1
  <2>4. (IF 1 <= i - 1 THEN i - 1 ELSE 0) = i - 1
    BY <1>1
  <2> HIDE DEF a
  <2> QED BY <2>2, <2>3, <2>4
<1>5. b \in Seq(S) /\ Len(b) = n - i /\ \A k \in 1 .. n - i : b[k] = s[i + k]
  <2>1. i + 1 \in Int /\ n \in Int /\ \A k \in i + 1 .. n : s[k] \in S
    BY <1>1, <1>2
  <2>2. /\ b \in Seq(S) /\ Len(b) = IF i + 1 <= n THEN n - (i + 1) + 1 ELSE 0
        /\ \A k \in 1 .. n - (i + 1) + 1 : b[k] = s[(i + 1) + k - 1]
    BY <2>1, SubSeqProperties
  <2>3. n - (i + 1) + 1 = n - i /\ \A k \in 1 .. n - i : (i + 1) + k - 1 = i + k
    BY <1>1
  <2>4. (IF i + 1 <= n THEN n - i ELSE 0) = n - i
    BY <1>1
  <2> HIDE DEF b
  <2> QED BY <2>2, <2>3, <2>4
<1> HIDE DEF a, b
<1>6. /\ a \o b \in Seq(S) /\ Len(a \o b) = Len(a) + Len(b)
      /\ \A k \in 1 .. Len(a) + Len(b) : (a \o b)[k] = IF k <= Len(a) THEN a[k] ELSE b[k - Len(a)]
  BY <1>4, <1>5, ConcatProperties
<1>7. Len(a) + Len(b) = n - 1
  BY <1>1, <1>4, <1>5
<1>8. ASSUME NEW k \in 1 .. n - 1 PROVE (a \o b)[k] = s[IF k < i THEN k ELSE k + 1]
  <2>1. (a \o b)[k] = IF k <= i - 1 THEN a[k] ELSE b[k - (i - 1)]
    BY <1>4, <1>6, <1>7
  <2>2. CASE k < i
    <3>1. k \in 1 .. i - 1 /\ k <= i - 1
      BY <1>1, <2>2
    <3> QED BY <1>4, <2>1, <2>2, <3>1
  <2>3. CASE ~(k < i)
    <3>1. k - (i - 1) \in 1 .. n - i /\ ~(k <= i - 1) /\ i + (k - (i - 1)) = k + 1
      BY <1>1, <2>3
    <3> QED BY <1>5, <2>1, <2>3, <3>1
  <2> QED BY <2>2, <2>3
<1> QED BY <1>3, <1>6, <1>7, <1>8 DEF n

LEMMA InsertedOne ==
    ASSUME NEW S, NEW s \in Seq(S), NEW i \in 1 .. Len(s) + 1, NEW e \in S
    PROVE  InsertAt(s, i, e) \in Seq(S) /\ Len(InsertAt(s, i, e)) = Len(s) + 1
<1> DEFINE n == Len(s)
           a == SubSeq(s, 1, i - 1)
           b == SubSeq(s, i, n)
<1>1. n \in Nat /\ i \in Nat /\ 1 <= i /\ i <= n + 1
  BY LenProperties
<1>2. \A k \in 1 .. n : s[k] \in S
  BY ElementOfSeq
<1>3. InsertAt(s, i, e) = (a \o <<e>>) \o b
  BY DEF InsertAt
<1> HIDE DEF n
<1>4. a \in Seq(S) /\ Len(a) = i - 1
  <2>1. i - 1 \in Int /\ 1 \in Int /\ \A k \in 1 .. i - 1 : s[k] \in S
    BY <1>1, <1>2
  <2>2. a \in Seq(S) /\ Len(a) = IF 1 <= i - 1 THEN (i - 1) - 1 + 1 ELSE 0
    BY <2>1, SubSeqProperties
  <2> HIDE DEF a
  <2> QED BY <1>1, <2>2
<1>5. b \in Seq(S) /\ Len(b) = n - i + 1
  <2>1. i \in Int /\ n \in Int /\ \A k \in i .. n : s[k] \in S
    BY <1>1, <1>2
  <2>2. b \in Seq(S) /\ Len(b) = IF i <= n THEN n - i + 1 ELSE 0
    BY <2>1, SubSeqProperties
  <2> HIDE DEF b
  <2> QED BY <1>1, <2>2
<1> HIDE DEF a, b
<1>6. a \o <<e>> \in Seq(S) /\ Len(a \o <<e>>) = Len(a) + 1
  <2>1. a \o <<e>> = Append(a, e)
    BY <1>4, AppendIsConcat
  <2> QED BY <1>4, <2>1, AppendProperties
<1>7. (a \o <<e>>) \o b \in Seq(S) /\ Len((a \o <<e>>) \o b) = Len(a \o <<e>>) + Len(b)
  BY <1>5, <1>6, ConcatProperties
<1>8. Len(a) + 1 + Len(b) = n + 1
  BY <1>1, <1>4, <1>5
<1> QED BY <1>3, <1>6, <1>7, <1>8 DEF n

LEMMA FrontOf ==
    ASSUME NEW S, NEW s \in Seq(S), s # <<>>
    PROVE  /\ Front(s) \in Seq(S) /\ Len(Front(s)) = Len(s) - 1
           /\ \A k \in 1 .. Len(s) - 1 : Front(s)[k] = s[k]
<1> DEFINE n == Len(s)
<1>1. n \in Nat \ {0} /\ \A k \in 1 .. n : s[k] \in S
  BY EmptySeq, ElementOfSeq
<1>2. Front(s) = SubSeq(s, 1, n - 1)
  BY DEF Front
<1> HIDE DEF n
<1>3. n - 1 \in Int /\ 1 \in Int /\ \A k \in 1 .. n - 1 : s[k] \in S
  BY <1>1
<1>4. /\ SubSeq(s, 1, n - 1) \in Seq(S)
      /\ Len(SubSeq(s, 1, n - 1)) = IF 1 <= n - 1 THEN n - 1 - 1 + 1 ELSE 0
      /\ \A k \in 1 .. n - 1 - 1 + 1 : SubSeq(s, 1, n - 1)[k] = s[1 + k - 1]
  BY <1>3, SubSeqProperties
<1>5. n - 1 - 1 + 1 = n - 1 /\ (IF 1 <= n - 1 THEN n - 1 ELSE 0) = n - 1
      /\ \A k \in 1 .. n - 1 : 1 + k - 1 = k
  BY <1>1
<1> QED BY <1>2, <1>4, <1>5 DEF n

EditLine == [text : Seq(Glyph), pos : Nat]
InBuffer(l) == Len(l.text) < LINE_SIZE /\ l.pos <= Len(l.text)
EmptyLine == [text |-> <<>>, pos |-> 0]

(* Lines that fit, of which the last one only may be empty.                 *)
LinesFit(list) ==
    /\ list \in Seq(EditLine) /\ Len(list) \in 1 .. MaxLines
    /\ \A i \in 1 .. Len(list) : InBuffer(list[i]) /\ (list[i].text = <<>> => i = Len(list))

(* The line last kept is older than the one that follows it.                *)
Remembered(list, kept) ==
    kept # <<>> /\ Len(list) < MaxLines => \E i \in 1 .. Len(list) - 1 : list[i].text = kept

ListInv ==
    /\ LinesFit(lines) /\ line \in 1 .. newest /\ submitted \in Seq(Glyph)
    /\ width \in {0, TermWidth} /\ (width = 0 => newest = 1 /\ Pos = Len(Text))
    /\ Remembered(lines, submitted)

LEMMA LineTypes ==
    ASSUME ListInv
    PROVE  /\ newest \in Nat \ {0} /\ newest <= MaxLines /\ line \in Nat
           /\ Text \in Seq(Glyph) /\ Len(Text) \in Nat /\ Pos \in Nat /\ Pos <= Len(Text) /\ Len(Text) < LINE_SIZE
           /\ lines[line] = [text |-> Text, pos |-> Pos] /\ lines[line] \in EditLine
           /\ Text = <<>> <=> Len(Text) = 0
           /\ Text = <<>> => line = newest
           /\ newest > 1 => width # 0
<1>1. /\ lines \in Seq(EditLine) /\ newest \in 1 .. MaxLines /\ line \in 1 .. newest
      /\ \A i \in 1 .. newest : InBuffer(lines[i]) /\ (lines[i].text = <<>> => i = newest)
      /\ width = 0 => newest = 1
  BY DEF ListInv, LinesFit, newest
<1>2. lines[line] \in EditLine
  BY <1>1, ElementOfSeq DEF newest
<1>3. Text \in Seq(Glyph) /\ Pos \in Nat /\ lines[line] = [text |-> Text, pos |-> Pos]
  BY <1>2 DEF EditLine, Text, Pos
<1>4. Pos <= Len(Text) /\ Len(Text) < LINE_SIZE /\ (Text = <<>> => line = newest)
  BY <1>1 DEF InBuffer, Text, Pos
<1>5. Len(Text) \in Nat /\ (Text = <<>> <=> Len(Text) = 0)
  BY <1>3, EmptySeq, LenProperties
<1>6. newest \in Nat \ {0} /\ newest <= MaxLines /\ line \in Nat
  BY <1>1, LinesAssumption
<1> QED BY <1>1, <1>2, <1>3, <1>4, <1>5, <1>6

(* What get_newline leaves in the list: all lines but one, none empty.      *)
LEMMA WhatIsLeft ==
    ASSUME ListInv, Newline # "edited"
    PROVE  /\ Detached \in Seq(EditLine) /\ Len(Detached) + 1 \in 1 .. MaxLines
           /\ \A k \in 1 .. Len(Detached) : InBuffer(Detached[k]) /\ Detached[k].text # <<>>
           /\ \/ Newline = "newest" /\ line < newest /\ Len(Detached) = newest - 1
              \/ Newline = "alloc" /\ Len(Detached) = newest /\ newest < MaxLines
              \/ Newline = "oldest" /\ Len(Detached) = newest - 1 /\ newest = MaxLines
           /\ Newline # "oldest" => \A k \in 1 .. newest - 1 : Detached[k] = lines[k]
           /\ Newline = "alloc" => Detached = lines
           /\ Newline = "oldest" => \A k \in 1 .. newest - 1 : Detached[k] = lines[k + 1]
           /\ width # 0
<1>1. /\ lines \in Seq(EditLine) /\ newest \in Nat \ {0} /\ newest <= MaxLines /\ lines # <<>>
      /\ \A i \in 1 .. newest : InBuffer(lines[i]) /\ (lines[i].text = <<>> => i = newest)
      /\ newest = Len(lines)
  <2>1. lines \in Seq(EditLine) /\ newest = Len(lines)
        /\ \A i \in 1 .. newest : InBuffer(lines[i]) /\ (lines[i].text = <<>> => i = newest)
    BY DEF ListInv, LinesFit, newest
  <2>2. newest \in Nat \ {0} /\ newest <= MaxLines
    BY LineTypes
  <2>3. lines # <<>>
    BY <2>1, <2>2, EmptySeq
  <2> QED BY <2>1, <2>2, <2>3
<1>2. width # 0 /\ Text # <<>>
  BY DEF Newline
<1>3. CASE Newline = "newest"
  <2>1. lines[newest].text = <<>>
    BY <1>2, <1>3 DEF Newline
  <2>2. line # newest
    BY <1>2, <2>1 DEF Text
  <2>3. line \in 1 .. newest
    BY DEF ListInv
  <2>4. line < newest
    BY <1>1, <2>2, <2>3
  <2>5. Detached = Front(lines)
    BY <1>3 DEF Detached
  <2>6. Detached \in Seq(EditLine) /\ Len(Detached) = newest - 1
        /\ \A k \in 1 .. newest - 1 : Detached[k] = lines[k]
    BY <1>1, <2>5, FrontOf
  <2>7. \A k \in 1 .. newest - 1 : k \in 1 .. newest /\ k # newest
    BY <1>1
  <2>8. \A k \in 1 .. Len(Detached) : InBuffer(Detached[k]) /\ Detached[k].text # <<>>
    BY <1>1, <2>6, <2>7
  <2>9. Len(Detached) + 1 \in 1 .. MaxLines
    BY <1>1, <2>6, LinesAssumption
  <2> QED BY <1>2, <1>3, <2>4, <2>6, <2>8, <2>9
<1>4. CASE Newline = "alloc"
  <2>1. lines[newest].text # <<>> /\ newest < MaxLines
    BY <1>2, <1>4 DEF Newline
  <2>2. Detached = lines
    BY <1>4 DEF Detached
  <2>3. \A k \in 1 .. newest : lines[k].text # <<>>
    BY <1>1, <2>1
  <2>4. newest + 1 \in 1 .. MaxLines
    BY <1>1, <2>1, LinesAssumption
  <2> QED BY <1>1, <1>2, <1>4, <2>1, <2>2, <2>3, <2>4
<1>5. CASE Newline = "oldest"
  <2>1. lines[newest].text # <<>> /\ ~(newest < MaxLines)
    BY <1>2, <1>5 DEF Newline
  <2>2. newest = MaxLines
    BY <1>1, <2>1, LinesAssumption
  <2>3. Detached = Tail(lines)
    BY <1>5 DEF Detached
  <2>4. Detached \in Seq(EditLine) /\ Len(Detached) = newest - 1
        /\ \A k \in 1 .. newest - 1 : Detached[k] = lines[k + 1]
    BY <1>1, <2>3, HeadTailProperties
  <2>5. \A k \in 1 .. newest - 1 : k + 1 \in 1 .. newest
    BY <1>1
  <2>6. \A k \in 1 .. newest : lines[k].text # <<>>
    BY <1>1, <2>1
  <2>7. \A k \in 1 .. Len(Detached) : InBuffer(Detached[k]) /\ Detached[k].text # <<>>
    BY <1>1, <2>4, <2>5, <2>6
  <2>8. Len(Detached) + 1 \in 1 .. MaxLines
    BY <1>1, <2>2, <2>4
  <2> QED BY <1>2, <1>5, <2>2, <2>4, <2>7, <2>8
<1>6. Newline \in {"edited", "newest", "alloc", "oldest"}
  BY <1>2 DEF Newline
<1> QED BY <1>3, <1>4, <1>5, <1>6

(* A line after lines none of which is empty.                               *)
LEMMA LineAdded ==
    ASSUME NEW list \in Seq(EditLine), Len(list) + 1 \in 1 .. MaxLines,
           \A k \in 1 .. Len(list) : InBuffer(list[k]) /\ list[k].text # <<>>,
           NEW l \in EditLine, InBuffer(l)
    PROVE  /\ LinesFit(Append(list, l)) /\ Len(Append(list, l)) = Len(list) + 1
           /\ Append(list, l)[Len(list) + 1] = l
           /\ \A k \in 1 .. Len(list) : Append(list, l)[k] = list[k]
<1> DEFINE new == Append(list, l)
           n == Len(list)
<1>1. /\ new \in Seq(EditLine) /\ Len(new) = n + 1
      /\ \A k \in 1 .. n : new[k] = list[k]
      /\ new[n + 1] = l /\ n \in Nat
  BY AppendProperties, LenProperties
<1> HIDE DEF new
<1>2. ASSUME NEW k \in 1 .. n + 1 PROVE InBuffer(new[k]) /\ (new[k].text = <<>> => k = n + 1)
  <2>1. k \in 1 .. n \/ k = n + 1
    BY <1>1
  <2> QED BY <1>1, <2>1
<1>3. Len(new) \in 1 .. MaxLines
  BY <1>1
<1>4. LinesFit(new)
  BY <1>1, <1>2, <1>3 DEF LinesFit
<1> QED BY <1>1, <1>4 DEF new

(* A line changed where it is.                                              *)
LEMMA LineReplaced ==
    ASSUME NEW list, LinesFit(list), NEW i \in 1 .. Len(list), NEW l \in EditLine, InBuffer(l),
           l.text = <<>> => i = Len(list),
           NEW new \in Seq(EditLine), Len(new) = Len(list), new[i] = l,
           \A k \in 1 .. Len(list) : k # i => new[k] = list[k]
    PROVE  LinesFit(new)
<1>1. /\ Len(list) \in 1 .. MaxLines
      /\ \A k \in 1 .. Len(list) : InBuffer(list[k]) /\ (list[k].text = <<>> => k = Len(list))
  BY DEF LinesFit
<1>2. \A k \in 1 .. Len(list) : InBuffer(new[k]) /\ (new[k].text = <<>> => k = Len(list))
  BY <1>1
<1> QED BY <1>1, <1>2 DEF LinesFit

(* The list and the line are what they were, the cursor in it perhaps not.  *)
LEMMA EditedKeeps ==
    ASSUME ListInv, NEW t \in Seq(Glyph), NEW p \in Nat, Len(t) < LINE_SIZE, p <= Len(t),
           width = 0 => p = Len(t), line < newest => Text # <<>> /\ ~TakesEdited,
           Edited(t, p), UNCHANGED <<width, submitted>>
    PROVE  ListInv'
<1> DEFINE l == [text |-> t, pos |-> p]
<1>1. /\ newest \in Nat \ {0} /\ newest <= MaxLines /\ line \in 1 .. newest /\ line \in Nat
      /\ lines \in Seq(EditLine) /\ LinesFit(lines) /\ newest = Len(lines)
      /\ submitted \in Seq(Glyph) /\ width \in {0, TermWidth} /\ (newest > 1 => width # 0)
      /\ Remembered(lines, submitted)
  BY LineTypes DEF ListInv, LinesFit, newest
<1>2. l \in EditLine /\ InBuffer(l) /\ l.text = t /\ l.pos = p
  BY DEF EditLine, InBuffer
<1> HIDE DEF l
<1>3. CASE line < newest
  <2>1. lines' = Append(Detached, l) /\ line' = Len(lines')
    BY <1>3 DEF Edited, l
  <2>2. Newline # "edited" /\ width # 0
    <3>1. width # 0
      BY <1>1, <1>3
    <3> QED BY <1>3, <3>1 DEF Newline
  <2>3. /\ Detached \in Seq(EditLine) /\ Len(Detached) + 1 \in 1 .. MaxLines
        /\ \A k \in 1 .. Len(Detached) : InBuffer(Detached[k]) /\ Detached[k].text # <<>>
        /\ \/ Newline = "newest" /\ Len(Detached) = newest - 1
           \/ Newline = "alloc" /\ Len(Detached) = newest /\ newest < MaxLines
           \/ Newline = "oldest" /\ Len(Detached) = newest - 1 /\ newest = MaxLines
        /\ Newline # "oldest" => \A k \in 1 .. newest - 1 : Detached[k] = lines[k]
    BY <2>2, WhatIsLeft
  <2>4. /\ LinesFit(lines') /\ Len(lines') = Len(Detached) + 1
        /\ \A k \in 1 .. Len(Detached) : lines'[k] = Detached[k]
    BY <1>2, <2>1, <2>3, LineAdded
  <2>5. Len(lines') \in Nat \ {0} /\ line' \in 1 .. Len(lines')
    BY <1>1, <2>1, <2>3, <2>4
  <2>6. Remembered(lines', submitted)
    <3> SUFFICES ASSUME submitted # <<>>, Len(lines') < MaxLines
                 PROVE  \E i \in 1 .. Len(lines') - 1 : lines'[i].text = submitted
      BY DEF Remembered
    <3>1. newest < MaxLines /\ Newline # "oldest" /\ newest - 1 <= Len(Detached)
      BY <1>1, <2>3, <2>4
    <3>2. PICK i \in 1 .. newest - 1 : lines[i].text = submitted
      BY <1>1, <3>1 DEF Remembered
    <3>3. i \in 1 .. Len(Detached) /\ i \in 1 .. Len(lines') - 1
      BY <1>1, <2>3, <2>4, <3>1
    <3>4. lines'[i] = lines[i]
      BY <2>3, <2>4, <3>1, <3>3
    <3> QED BY <3>2, <3>3, <3>4
  <2> QED BY <1>1, <2>2, <2>4, <2>5, <2>6 DEF ListInv, newest
<1>4. CASE ~(line < newest)
  <2>1. line = newest /\ lines' = [lines EXCEPT ![line] = l] /\ line' = line
    BY <1>1, <1>4 DEF Edited, l
  <2>2. /\ LinesFit(lines') /\ Len(lines') = newest /\ lines'[line] = l
        /\ \A k \in 1 .. newest : k # line => lines'[k] = lines[k]
    <3>1. line \in 1 .. Len(lines) /\ line = Len(lines) /\ lines \in Seq(EditLine)
      BY <1>1, <2>1
    <3>2. lines' \in Seq(EditLine) /\ Len(lines') = Len(lines)
      BY <1>2, <2>1, <3>1, ExceptSeq
    <3>3. lines'[line] = l /\ \A k \in 1 .. Len(lines) : k # line => lines'[k] = lines[k]
      <4>1. DOMAIN lines = 1 .. Len(lines)
        BY <3>1, LenProperties
      <4> QED BY <2>1, <3>1, <4>1
    <3>4. LinesFit(lines')
      BY <1>1, <1>2, <3>1, <3>2, <3>3, LineReplaced
    <3> QED BY <1>1, <3>2, <3>3, <3>4
  <2>3. Remembered(lines', submitted)
    <3>1. \A k \in 1 .. newest - 1 : k \in 1 .. newest /\ k # line
      BY <1>1, <2>1
    <3> QED BY <1>1, <2>2, <3>1 DEF Remembered
  <2>4. Text' = t /\ Pos' = p
    BY <1>2, <2>1, <2>2 DEF Text, Pos
  <2>5. width' = 0 => newest' = 1 /\ Pos' = Len(Text')
    <3>1. newest' = newest
      BY <2>2 DEF newest
    <3>2. width = 0 => newest = 1
      BY DEF ListInv
    <3> QED BY <2>4, <3>1, <3>2
  <2>6. line' \in 1 .. newest'
    BY <1>1, <2>1, <2>2 DEF newest
  <2> QED BY <1>1, <2>2, <2>3, <2>5, <2>6 DEF ListInv
<1> QED BY <1>3, <1>4

LEMMA ChangeKeeps ==
    ASSUME ListInv, NEW t \in Seq(Glyph), NEW p \in Nat, Len(t) < LINE_SIZE, p <= Len(t),
           width = 0 => p = Len(t), Change(t, p), UNCHANGED <<width, submitted>>
    PROVE  ListInv'
<1>1. CASE line < newest /\ TakesEdited
  <2>1. UNCHANGED <<lines, line, width, submitted>>
    BY <1>1 DEF Change
  <2> QED BY <2>1 DEF ListInv, newest, Text, Pos
<1>2. CASE ~(line < newest /\ TakesEdited)
  <2>1. Edited(t, p)
    BY <1>2 DEF Change
  <2>2. line < newest => Text # <<>>
    BY LineTypes
  <2> QED BY <1>2, <2>1, <2>2, EditedKeeps
<1> QED BY <1>1, <1>2

LEMMA SameLines ==
    ASSUME ListInv, UNCHANGED <<lines, line, width, submitted>>
    PROVE  ListInv'
  BY DEF ListInv, newest, Text, Pos

LEMMA DeleteKeeps == ListInv /\ delete_char => ListInv'
<1> SUFFICES ASSUME ListInv, delete_char PROVE ListInv'
  OBVIOUS
<1>1. /\ Text \in Seq(Glyph) /\ Len(Text) \in Nat /\ Pos \in Nat /\ Pos <= Len(Text)
      /\ Len(Text) < LINE_SIZE /\ (width = 0 => Pos = Len(Text))
  BY LineTypes DEF ListInv
<1>2. CASE Pos = Len(Text)
  BY <1>2, SameLines DEF delete_char, NoEdit
<1>3. CASE Pos # Len(Text)
  <2> DEFINE t == RemoveAt(Text, Pos + 1)
  <2>1. Change(t, Pos) /\ UNCHANGED <<width, submitted>>
    BY <1>3 DEF delete_char
  <2>2. Pos + 1 \in 1 .. Len(Text)
    BY <1>1, <1>3
  <2>3. t \in Seq(Glyph) /\ Len(t) = Len(Text) - 1
    BY <1>1, <2>2, RemovedOne
  <2> HIDE DEF t
  <2>4. Len(t) < LINE_SIZE /\ Pos <= Len(t) /\ width # 0
    BY <1>1, <1>3, <2>3, LinesAssumption
  <2> QED BY <1>1, <2>1, <2>3, <2>4, ChangeKeeps
<1> QED BY <1>2, <1>3

LEMMA BackspaceKeeps == ListInv /\ backspace => ListInv'
<1> SUFFICES ASSUME ListInv, backspace PROVE ListInv'
  OBVIOUS
<1>1. /\ Text \in Seq(Glyph) /\ Len(Text) \in Nat /\ Pos \in Nat /\ Pos <= Len(Text)
      /\ Len(Text) < LINE_SIZE /\ (width = 0 => Pos = Len(Text))
  BY LineTypes DEF ListInv
<1>2. CASE Pos = 0
  BY <1>2, SameLines DEF backspace, NoEdit
<1>3. CASE Pos # 0
  <2> DEFINE t == RemoveAt(Text, Pos)
  <2>1. Change(t, Pos - 1) /\ UNCHANGED <<width, submitted>>
    BY <1>3 DEF backspace
  <2>2. Pos \in 1 .. Len(Text) /\ Pos - 1 \in Nat
    BY <1>1, <1>3
  <2>3. t \in Seq(Glyph) /\ Len(t) = Len(Text) - 1
    BY <1>1, <2>2, RemovedOne
  <2> HIDE DEF t
  <2>4. Len(t) < LINE_SIZE /\ Pos - 1 <= Len(t) /\ (width = 0 => Pos - 1 = Len(t))
    BY <1>1, <1>3, <2>3, LinesAssumption
  <2> QED BY <2>1, <2>2, <2>3, <2>4, ChangeKeeps
<1> QED BY <1>2, <1>3

LEMMA PrintableKeeps ==
    ASSUME ListInv, NEW c \in Glyph, Printable(c)
    PROVE  ListInv'
<1>1. /\ Text \in Seq(Glyph) /\ Len(Text) \in Nat /\ Pos \in Nat /\ Pos <= Len(Text)
      /\ Len(Text) < LINE_SIZE /\ (width = 0 => Pos = Len(Text))
  BY LineTypes DEF ListInv
<1>2. CASE Len(Text) + 1 = LINE_SIZE
  BY <1>2, SameLines DEF Printable, NoEdit
<1>3. CASE Len(Text) + 1 # LINE_SIZE
  <2> DEFINE t == InsertAt(Text, Pos + 1, c)
  <2>1. Change(t, Pos + 1) /\ UNCHANGED <<width, submitted>>
    BY <1>3 DEF Printable
  <2>2. Pos + 1 \in 1 .. Len(Text) + 1 /\ Pos + 1 \in Nat
    BY <1>1
  <2>3. t \in Seq(Glyph) /\ Len(t) = Len(Text) + 1
    BY <1>1, <2>2, InsertedOne
  <2> HIDE DEF t
  <2>4. Len(t) < LINE_SIZE /\ Pos + 1 <= Len(t) /\ (width = 0 => Pos + 1 = Len(t))
    BY <1>1, <1>3, <2>3, LinesAssumption
  <2> QED BY <2>1, <2>2, <2>3, <2>4, ChangeKeeps
<1> QED BY <1>2, <1>3

LEMMA CursorKeeps ==
    ASSUME ListInv, NEW p \in 0 .. Len(Text), width # 0, set_cursor(p)
    PROVE  ListInv'
<1>1. lines' = [lines EXCEPT ![line].pos = p] /\ UNCHANGED <<line, width, submitted>>
  BY DEF set_cursor, MoveTo
<1>2. /\ newest \in Nat \ {0} /\ line \in 1 .. newest /\ line \in Nat /\ Text \in Seq(Glyph)
      /\ Len(Text) \in Nat /\ Len(Text) < LINE_SIZE /\ LinesFit(lines) /\ newest = Len(lines)
      /\ lines[line] = [text |-> Text, pos |-> Pos] /\ (Text = <<>> => line = newest)
      /\ submitted \in Seq(Glyph) /\ Remembered(lines, submitted) /\ width \in {0, TermWidth}
  BY LineTypes DEF ListInv, newest
<1> DEFINE l == [text |-> Text, pos |-> p]
<1>3. lines' = [lines EXCEPT ![line] = l]
  <2>1. [lines[line] EXCEPT !.pos = p] = l
    BY <1>2
  <2> QED BY <1>1, <2>1
<1>4. l \in EditLine /\ InBuffer(l) /\ l.text = Text
  BY <1>2 DEF EditLine, InBuffer
<1> HIDE DEF l
<1>5. /\ LinesFit(lines') /\ Len(lines') = newest /\ lines'[line] = l
      /\ \A k \in 1 .. newest : k # line => lines'[k] = lines[k]
  <2>1. line \in 1 .. Len(lines) /\ (l.text = <<>> => line = Len(lines)) /\ lines \in Seq(EditLine)
    BY <1>2, <1>4 DEF LinesFit
  <2>2. lines' \in Seq(EditLine) /\ Len(lines') = Len(lines)
    BY <1>3, <1>4, <2>1, ExceptSeq
  <2>3. lines'[line] = l /\ \A k \in 1 .. Len(lines) : k # line => lines'[k] = lines[k]
    <3>1. DOMAIN lines = 1 .. Len(lines)
      BY <2>1, LenProperties
    <3> QED BY <1>3, <2>1, <3>1
  <2>4. LinesFit(lines')
    BY <1>2, <1>4, <2>1, <2>2, <2>3, LineReplaced
  <2> QED BY <1>2, <2>2, <2>3, <2>4
<1>6. \A k \in 1 .. newest : lines'[k].text = lines[k].text
  BY <1>2, <1>4, <1>5 DEF Text
<1>7. Remembered(lines', submitted)
  <2>1. \A k \in 1 .. newest - 1 : k \in 1 .. newest
    BY <1>2
  <2> QED BY <1>2, <1>5, <1>6, <2>1 DEF Remembered
<1> QED BY <1>1, <1>2, <1>5, <1>7 DEF ListInv, newest

LEMMA SwitchKeeps ==
    ASSUME ListInv, NEW other \in Int, SwitchTo(other)
    PROVE  ListInv'
<1>1. CASE other \notin 1 .. newest
  BY <1>1, SameLines DEF SwitchTo, NoEdit
<1>2. CASE other \in 1 .. newest
  <2>1. line' = other /\ UNCHANGED <<lines, width, submitted>>
    BY <1>2 DEF SwitchTo
  <2>2. newest' = newest
    BY <2>1 DEF newest
  <2>3. width = 0 => line' = line
    <3>1. width = 0 => newest = 1 /\ line \in 1 .. newest
      BY DEF ListInv
    <3> QED BY <1>2, <2>1, <3>1
  <2>4. width = 0 => Pos' = Pos /\ Text' = Text
    BY <2>1, <2>3 DEF Pos, Text
  <2> QED BY <1>2, <2>1, <2>2, <2>4 DEF ListInv
<1> QED BY <1>1, <1>2

LEMMA EnterKeeps == ListInv /\ Enter => ListInv'
<1> SUFFICES ASSUME ListInv, Enter PROVE ListInv'
  OBVIOUS
<1>1. /\ newest \in Nat \ {0} /\ line \in 1 .. newest /\ line \in Nat /\ Text \in Seq(Glyph)
      /\ (Text = <<>> => line = newest) /\ LinesFit(lines) /\ lines \in Seq(EditLine)
      /\ newest = Len(lines) /\ width \in {0, TermWidth} /\ lines[line] \in EditLine
      /\ (width = 0 => newest = 1) /\ InBuffer(lines[line])
  BY LineTypes DEF ListInv, LinesFit, newest
<1>2. UNCHANGED width
  BY DEF Enter
<1>3. EmptyLine \in EditLine /\ InBuffer(EmptyLine) /\ EmptyLine.text = <<>> /\ EmptyLine.pos = 0
  <2>1. <<>> \in Seq(Glyph) /\ Len(<<>>) = 0
    BY EmptySeq
  <2> QED BY <2>1, LinesAssumption DEF EmptyLine, EditLine, InBuffer
<1>4. CASE TakesEdited
  <2>1. UNCHANGED <<lines, line, submitted>>
    BY <1>4 DEF Enter
  <2> QED BY <1>2, <2>1, SameLines
<1>5. CASE ~TakesEdited /\ Newline = "edited"
  <2>1. lines' = [lines EXCEPT ![line] = EmptyLine] /\ line' = Len(lines') /\ submitted' = <<>>
    BY <1>5 DEF Enter, Entered, EmptyLine
  <2>2. width = 0 \/ Text = <<>>
    BY <1>5 DEF Newline
  <2>3. line = newest /\ line \in 1 .. Len(lines) /\ line = Len(lines)
    BY <1>1, <2>2
  <2>4. lines' \in Seq(EditLine) /\ Len(lines') = Len(lines)
    BY <1>1, <1>3, <2>1, <2>3, ExceptSeq
  <2>5. lines'[line] = EmptyLine /\ \A k \in 1 .. Len(lines) : k # line => lines'[k] = lines[k]
    <3>1. DOMAIN lines = 1 .. Len(lines)
      BY <1>1, LenProperties
    <3> QED BY <2>1, <2>3, <3>1
  <2>6. LinesFit(lines')
    BY <1>1, <1>3, <2>3, <2>4, <2>5, LineReplaced
  <2>7. line' = line /\ line' \in 1 .. Len(lines') /\ newest' = newest
    BY <1>1, <2>1, <2>3, <2>4 DEF newest
  <2>8. Pos' = 0 /\ Text' = <<>>
    BY <1>3, <2>5, <2>7 DEF Pos, Text
  <2>9. Len(<<>>) = 0 /\ <<>> \in Seq(Glyph)
    BY EmptySeq
  <2>10. width' = 0 => newest' = 1 /\ Pos' = Len(Text')
    BY <1>1, <1>2, <2>7, <2>8, <2>9
  <2>11. Remembered(lines', submitted')
    BY <2>1 DEF Remembered
  <2> QED BY <1>1, <1>2, <2>1, <2>6, <2>7, <2>9, <2>10, <2>11 DEF ListInv, newest
<1>6. CASE ~TakesEdited /\ Newline # "edited"
  <2> DEFINE D == Detached
             i == LineThere
             R == RemoveAt(D, i)
             A == Append(R, lines[line])
  <2>1. lines' = Append(A, EmptyLine) /\ line' = Len(lines') /\ submitted' = Text
    BY <1>6 DEF Enter, Entered, EmptyLine
  <2>2. /\ D \in Seq(EditLine) /\ Len(D) + 1 \in 1 .. MaxLines
        /\ \A k \in 1 .. Len(D) : InBuffer(D[k]) /\ D[k].text # <<>>
        /\ \/ Newline = "newest" /\ line < newest /\ Len(D) = newest - 1
           \/ Newline = "alloc" /\ Len(D) = newest
           \/ Newline = "oldest" /\ Len(D) = newest - 1
        /\ width # 0
    BY <1>6, WhatIsLeft
  <2>3. Len(D) \in Nat
    BY <2>2, LenProperties
  <2>4. i \in 1 .. Len(D)
    <3>1. CASE Newline = "oldest"
      <4>1. i = line - 1 /\ line # 1
        BY <1>6, <3>1 DEF LineThere, TakesEdited
      <4> HIDE DEF D, i
      <4> QED BY <1>1, <2>2, <3>1, <4>1
    <3>2. CASE Newline # "oldest"
      <4>1. i = line
        BY <3>2 DEF LineThere
      <4> HIDE DEF D, i
      <4> QED BY <1>1, <2>2, <3>2, <4>1
    <3> QED BY <3>1, <3>2
  <2>5. Text # <<>>
    BY <1>6 DEF Newline
  <2> HIDE DEF D, i
  <2>6. /\ R \in Seq(EditLine) /\ Len(R) = Len(D) - 1
        /\ \A k \in 1 .. Len(D) - 1 : R[k] = D[IF k < i THEN k ELSE k + 1]
    BY <2>2, <2>4, RemovedOne
  <2> HIDE DEF R
  <2>7. \A k \in 1 .. Len(R) : InBuffer(R[k]) /\ R[k].text # <<>>
    <3> SUFFICES ASSUME NEW k \in 1 .. Len(R) PROVE InBuffer(R[k]) /\ R[k].text # <<>>
      OBVIOUS
    <3> DEFINE j == IF k < i THEN k ELSE k + 1
    <3>1. k \in 1 .. Len(D) - 1 /\ j \in 1 .. Len(D)
      BY <2>3, <2>4, <2>6
    <3>2. R[k] = D[j]
      BY <2>6, <3>1
    <3> HIDE DEF j
    <3> QED BY <2>2, <3>1, <3>2
  <2>8. Len(R) + 1 \in 1 .. MaxLines /\ Len(R) \in Nat
    BY <2>2, <2>3, <2>4, <2>6, LinesAssumption
  <2>9. /\ LinesFit(A) /\ Len(A) = Len(R) + 1 /\ A[Len(R) + 1] = lines[line]
        /\ \A k \in 1 .. Len(R) : A[k] = R[k]
    BY <1>1, <2>6, <2>7, <2>8, LineAdded
  <2> HIDE DEF A
  <2>10. A \in Seq(EditLine) /\ Len(A) = Len(D) /\ Len(A) + 1 \in 1 .. MaxLines
    BY <2>2, <2>3, <2>6, <2>9 DEF LinesFit
  <2>11. \A k \in 1 .. Len(A) : InBuffer(A[k]) /\ A[k].text # <<>>
    <3> SUFFICES ASSUME NEW k \in 1 .. Len(A) PROVE InBuffer(A[k]) /\ A[k].text # <<>>
      OBVIOUS
    <3>1. k \in 1 .. Len(R) \/ k = Len(R) + 1
      BY <2>8, <2>9
    <3>2. lines[line].text # <<>>
      BY <2>5 DEF Text
    <3> QED BY <1>1, <2>7, <2>9, <3>1, <3>2
  <2>12. /\ LinesFit(lines') /\ Len(lines') = Len(A) + 1
         /\ \A k \in 1 .. Len(A) : lines'[k] = A[k]
    BY <1>3, <2>1, <2>10, <2>11, LineAdded
  <2>13. Len(A) \in 1 .. Len(A) /\ Len(A) = Len(lines') - 1 /\ Len(A) \in Nat
    BY <2>8, <2>9, <2>12
  <2>14. lines'[Len(A)].text = Text
    <3>1. lines'[Len(A)] = A[Len(A)] /\ A[Len(A)] = lines[line]
      BY <2>9, <2>12, <2>13
    <3> QED BY <3>1 DEF Text
  <2>15. Remembered(lines', submitted')
    BY <2>1, <2>13, <2>14 DEF Remembered
  <2>16. line' \in 1 .. newest'
    BY <2>1, <2>12, <2>13 DEF newest
  <2> QED BY <1>1, <1>2, <2>1, <2>2, <2>12, <2>15, <2>16 DEF ListInv
<1> QED BY <1>4, <1>5, <1>6

LEMMA ReplyKeeps ==
    ASSUME ListInv, NEW reply, NEW w, Reply(reply, w), w = width \/ w = TermWidth
    PROVE  ListInv'
<1>1. width' = w /\ UNCHANGED <<lines, line, submitted>>
  BY DEF Reply
<1>2. TermWidth # 0
  BY WidthAssumption
<1> QED BY <1>1, <1>2 DEF ListInv, newest, Text, Pos

(* Moves along the line.                                                    *)
LEMMA MovesKeep == ListInv /\ (Home \/ End \/ Left \/ Right) => ListInv'
<1> SUFFICES ASSUME ListInv, Home \/ End \/ Left \/ Right PROVE ListInv'
  OBVIOUS
<1>1. /\ Len(Text) \in Nat /\ Pos \in Nat /\ Pos <= Len(Text) /\ (width = 0 => Pos = Len(Text))
  BY LineTypes DEF ListInv
<1>2. ASSUME NoEdit PROVE ListInv'
  BY <1>2, SameLines DEF NoEdit
<1>3. CASE Home
  <2>1. 0 \in 0 .. Len(Text)
    BY <1>1
  <2> QED BY <1>2, <1>3, <2>1, CursorKeeps DEF Home
<1>4. CASE End
  <2>1. Len(Text) \in 0 .. Len(Text)
    BY <1>1
  <2> QED BY <1>2, <1>4, <2>1, CursorKeeps DEF End
<1>5. CASE Left
  <2>1. Pos # 0 => Pos - 1 \in 0 .. Len(Text)
    BY <1>1
  <2> QED BY <1>2, <1>5, <2>1, CursorKeeps DEF Left
<1>6. CASE Right
  <2>1. Pos # Len(Text) => Pos + 1 \in 0 .. Len(Text) /\ width # 0
    BY <1>1
  <2> QED BY <1>2, <1>6, <2>1, CursorKeeps DEF Right
<1> QED BY <1>3, <1>4, <1>5, <1>6

-----------------------------------------------------------------------------
(* What the line editor reads.                                              *)

Char == Glyph \cup DecimalChar \cup
        {"ESC", "[", ";", "~", "x", "n", "A", "B", "C", "D", "F", "R", "return", "backspace", "^A", "^E"}
Column == Digits[TermWidth + 1]

(* What may still be to read behind ESC [, from the place k on.             *)
Bracketed(k) ==
    \/ Len(in) = k + 1 /\ in[k + 1] \in {"A", "B", "C", "D", "F"}
    \/ Len(in) = k + 2 /\ in[k + 1] \in {"0", "1", "3", "4"} /\ in[k + 2] \in {"~", "n"}
    \/ /\ Len(in) = k + 4 /\ in[k + 1] = "1" /\ in[k + 2] = ";"
       /\ in[k + 3] = Column /\ in[k + 4] = "R"

InNum(idx, second) ==
    \E n : /\ esc = [state |-> "st_num", num |-> n, num_idx |-> idx]
           /\ DOMAIN n = 1 .. 2 /\ n[2] = second

(* Keys and answers are read whole: in which state readline is says what is *)
(* left of one.  The terminal's answer has its width in its second number.  *)
InSequence ==
    \/ /\ esc = NoEscape
       /\ \/ in = <<>>
          \/ Len(in) = 1 /\ in[1] # "ESC"
          \/ Len(in) = 2 /\ in[1] = "ESC" /\ in[2] = "x"
          \/ in[1] = "ESC" /\ in[2] = "[" /\ Bracketed(2)
    \/ /\ esc = [NoEscape EXCEPT !.state = "st_escape"]
       /\ \/ Len(in) = 1 /\ in[1] = "x"
          \/ in[1] = "[" /\ Bracketed(1)
    \/ esc = [NoEscape EXCEPT !.state = "st_bracket"] /\ Bracketed(0)
    \/ InNum(0, 0) /\ Len(in) = 1 /\ in[1] \in {"~", "n"}
    \/ InNum(0, 0) /\ Len(in) = 3 /\ in[1] = ";" /\ in[2] = Column /\ in[3] = "R"
    \/ InNum(1, 0) /\ Len(in) = 2 /\ in[1] = Column /\ in[2] = "R"
    \/ InNum(1, TermWidth) /\ Len(in) = 1 /\ in[1] = "R"

ReadingInv == in \in Seq(Char) /\ InSequence

EditInv == ListInv /\ ReadingInv

LEMMA DigitsAre ==
    /\ DecimalChar = {"0", "1", "2", "3", "4", "5", "6", "7", "8", "9"}
    /\ Column \in DecimalChar /\ DecimalValue(Column) = TermWidth
<1>1. DOMAIN Digits = 1 .. 10
  BY DEF Digits
<1>2. /\ Digits[1] = "0" /\ Digits[2] = "1" /\ Digits[3] = "2" /\ Digits[4] = "3" /\ Digits[5] = "4"
      /\ Digits[6] = "5" /\ Digits[7] = "6" /\ Digits[8] = "7" /\ Digits[9] = "8" /\ Digits[10] = "9"
  BY DEF Digits
<1>3. DecimalChar = {Digits[i] : i \in 1 .. 10}
  BY <1>1 DEF DecimalChar, ToSet
<1>4. \A i \in 1 .. 10 : i = 1 \/ i = 2 \/ i = 3 \/ i = 4 \/ i = 5 \/ i = 6 \/ i = 7 \/ i = 8 \/ i = 9 \/ i = 10
  OBVIOUS
<1>5. DecimalChar = {"0", "1", "2", "3", "4", "5", "6", "7", "8", "9"}
  <2>1. \A c \in DecimalChar : c \in {"0", "1", "2", "3", "4", "5", "6", "7", "8", "9"}
    BY <1>2, <1>3, <1>4
  <2>2. \A c \in {"0", "1", "2", "3", "4", "5", "6", "7", "8", "9"} : c \in DecimalChar
    <3>1. /\ 1 \in 1 .. 10 /\ 2 \in 1 .. 10 /\ 3 \in 1 .. 10 /\ 4 \in 1 .. 10 /\ 5 \in 1 .. 10
          /\ 6 \in 1 .. 10 /\ 7 \in 1 .. 10 /\ 8 \in 1 .. 10 /\ 9 \in 1 .. 10 /\ 10 \in 1 .. 10
      OBVIOUS
    <3>2. \A i \in 1 .. 10 : Digits[i] \in DecimalChar
      BY <1>3
    <3> QED BY <1>2, <3>1, <3>2
  <2> QED BY <2>1, <2>2
<1>6. TermWidth + 1 \in 1 .. 10 /\ TermWidth \in 0 .. 9
  BY WidthAssumption
<1>7. Column \in DecimalChar
  BY <1>3, <1>6 DEF Column
<1>8. \A i, j \in 1 .. 10 : Digits[i] = Digits[j] => i = j
  BY <1>2, <1>4
<1>9. \A d \in 0 .. 9 : Digits[d + 1] = Column => d = TermWidth
  <2>1. \A d \in 0 .. 9 : d + 1 \in 1 .. 10 /\ (d + 1 = TermWidth + 1 => d = TermWidth)
    BY <1>6
  <2> QED BY <1>6, <1>8, <2>1 DEF Column
<1>10. DecimalValue(Column) = TermWidth
  <2>1. Digits[TermWidth + 1] = Column
    BY DEF Column
  <2> QED BY <1>6, <1>9, <2>1 DEF DecimalValue
<1> QED BY <1>5, <1>7, <1>10

LEMMA RestOfInput ==
    ASSUME in \in Seq(Char), in # <<>>, in' = Tail(in)
    PROVE  /\ in' \in Seq(Char) /\ Len(in) \in Nat \ {0} /\ Len(in') = Len(in) - 1
           /\ Head(in) = in[1] /\ Head(in) \in Char
           /\ \A k \in 1 .. Len(in) - 1 : in'[k] = in[k + 1]
           /\ Len(in) = 1 <=> in' = <<>>
<1>1. /\ in' \in Seq(Char) /\ Len(in') = Len(in) - 1 /\ Head(in) \in Char
      /\ \A k \in 1 .. Len(in') : in'[k] = in[k + 1]
  BY HeadTailProperties
<1>2. Len(in) \in Nat \ {0}
  BY EmptySeq
<1>3. Head(in) = in[1]
  OBVIOUS
<1>4. in' = <<>> <=> Len(in') = 0
  BY <1>1, EmptySeq
<1> QED BY <1>1, <1>2, <1>3, <1>4

LEMMA StatesDiffer ==
    /\ NoEscape.state = "st_normal" /\ [NoEscape EXCEPT !.state = "st_escape"].state = "st_escape"
    /\ [NoEscape EXCEPT !.state = "st_bracket"].state = "st_bracket"
    /\ \A idx, second : InNum(idx, second) => esc.state = "st_num" /\ esc.num_idx = idx
                                              /\ esc.num[2] = second
<1>1. /\ NoEscape.state = "st_normal" /\ [NoEscape EXCEPT !.state = "st_escape"].state = "st_escape"
      /\ [NoEscape EXCEPT !.state = "st_bracket"].state = "st_bracket"
  BY DEF NoEscape
<1>2. ASSUME NEW idx, NEW second, InNum(idx, second)
      PROVE  esc.state = "st_num" /\ esc.num_idx = idx /\ esc.num[2] = second
  <2>1. PICK n : esc = [state |-> "st_num", num |-> n, num_idx |-> idx] /\ n[2] = second
    BY <1>2 DEF InNum
  <2> QED BY <2>1
<1> QED BY <1>1, <1>2

LEMMA BracketedRest ==
    ASSUME in \in Seq(Char), in # <<>>, in' = Tail(in), NEW k \in {0, 1}, Bracketed(k + 1)
    PROVE  Bracketed(k)'
<1>1. Len(in) \in Nat /\ Len(in') = Len(in) - 1 /\ \A j \in 1 .. Len(in) - 1 : in'[j] = in[j + 1]
  BY RestOfInput
<1>2. CASE Len(in) = (k + 1) + 1 /\ in[(k + 1) + 1] \in {"A", "B", "C", "D", "F"}
  <2>1. k + 1 \in 1 .. Len(in) - 1 /\ Len(in') = k + 1
    BY <1>1, <1>2
  <2>2. in'[k + 1] = in[(k + 1) + 1]
    BY <1>1, <2>1
  <2> QED BY <1>2, <2>1, <2>2 DEF Bracketed
<1>3. CASE /\ Len(in) = (k + 1) + 2 /\ in[(k + 1) + 1] \in {"0", "1", "3", "4"}
           /\ in[(k + 1) + 2] \in {"~", "n"}
  <2>1. k + 1 \in 1 .. Len(in) - 1 /\ k + 2 \in 1 .. Len(in) - 1 /\ Len(in') = k + 2
        /\ (k + 2) + 1 = (k + 1) + 2
    BY <1>1, <1>3
  <2>2. in'[k + 1] = in[(k + 1) + 1] /\ in'[k + 2] = in[(k + 1) + 2]
    BY <1>1, <2>1
  <2> QED BY <1>3, <2>1, <2>2 DEF Bracketed
<1>4. CASE /\ Len(in) = (k + 1) + 4 /\ in[(k + 1) + 1] = "1" /\ in[(k + 1) + 2] = ";"
           /\ in[(k + 1) + 3] = Column /\ in[(k + 1) + 4] = "R"
  <2>1. /\ k + 1 \in 1 .. Len(in) - 1 /\ k + 2 \in 1 .. Len(in) - 1 /\ k + 3 \in 1 .. Len(in) - 1
        /\ k + 4 \in 1 .. Len(in) - 1 /\ Len(in') = k + 4
        /\ (k + 2) + 1 = (k + 1) + 2 /\ (k + 3) + 1 = (k + 1) + 3 /\ (k + 4) + 1 = (k + 1) + 4
    <3>1. Len(in) \in Nat /\ Len(in') = Len(in) - 1 /\ Len(in) = (k + 1) + 4
      BY <1>1, <1>4
    <3>2. k \in Nat
      OBVIOUS
    <3> QED BY <3>1, <3>2
  <2>2. in'[k + 1] = "1" /\ in'[k + 2] = ";" /\ in'[k + 3] = Column /\ in'[k + 4] = "R"
    BY <1>1, <1>4, <2>1
  <2> QED BY <2>1, <2>2 DEF Bracketed, Column
<1> QED BY <1>2, <1>3, <1>4 DEF Bracketed

LEMMA NormalKeeps ==
    ASSUME EditInv, in # <<>>, in' = Tail(in), InNormal(Head(in))
    PROVE  EditInv'
<1> DEFINE c == Head(in)
<1>1. /\ in' \in Seq(Char) /\ Len(in) \in Nat \ {0} /\ Len(in') = Len(in) - 1 /\ c = in[1]
      /\ \A k \in 1 .. Len(in) - 1 : in'[k] = in[k + 1]
      /\ Len(in) = 1 <=> in' = <<>>
  BY RestOfInput DEF EditInv, ReadingInv
<1>2. /\ esc = NoEscape
      /\ \/ Len(in) = 1 /\ in[1] # "ESC"
         \/ Len(in) = 2 /\ in[1] = "ESC" /\ in[2] = "x"
         \/ in[1] = "ESC" /\ in[2] = "[" /\ Bracketed(2)
  <2>1. esc.state = "st_normal" /\ InSequence
    BY DEF InNormal, EditInv, ReadingInv
  <2> QED BY <2>1, StatesDiffer DEF InSequence
<1>3. ListInv'
  <2>1. Enter \/ backspace \/ Home \/ End \/ (c \in Glyph /\ Printable(c)) \/ NoEdit
    BY DEF InNormal
  <2>2. NoEdit => ListInv'
    BY SameLines DEF EditInv, NoEdit
  <2> QED BY <2>1, <2>2, EnterKeeps, BackspaceKeeps, MovesKeep, PrintableKeeps DEF EditInv
<1>4. InSequence'
  <2>1. CASE c # "ESC"
    <3>1. esc' = NoEscape
      BY <2>1 DEF InNormal, Leave
    <3>2. in' = <<>>
      BY <1>1, <1>2, <2>1
    <3> QED BY <3>1, <3>2 DEF InSequence, NoEscape
  <2>2. CASE c = "ESC"
    <3>1. esc' = [NoEscape EXCEPT !.state = "st_escape"]
      BY <1>2, <2>2 DEF InNormal, Into
    <3>2. CASE Len(in) = 2 /\ in[2] = "x"
      <4>1. Len(in') = 1 /\ in'[1] = "x"
        BY <1>1, <3>2
      <4> QED BY <3>1, <4>1 DEF InSequence, NoEscape
    <3>3. CASE in[2] = "[" /\ Bracketed(2)
      <4>1. Bracketed(1)'
        BY <3>3, BracketedRest DEF EditInv, ReadingInv
      <4>2. in'[1] = "["
        <5>1. Len(in) = 2 + 1 \/ Len(in) = 2 + 2 \/ Len(in) = 2 + 4
          BY <3>3 DEF Bracketed
        <5>2. 1 \in 1 .. Len(in) - 1 /\ 1 + 1 = 2
          <6>1. \A n \in Nat : n = 2 + 1 \/ n = 2 + 2 \/ n = 2 + 4 => 1 \in 1 .. n - 1
            OBVIOUS
          <6>2. Len(in) \in Nat /\ 1 + 1 = 2
            BY <1>1
          <6> QED BY <5>1, <6>1, <6>2
        <5>3. in'[1] = in[1 + 1]
          BY <1>1, <5>2
        <5> QED BY <3>3, <5>2, <5>3
      <4> QED BY <3>1, <4>1, <4>2 DEF InSequence, NoEscape
    <3> QED BY <1>1, <1>2, <2>2, <3>2, <3>3
  <2> QED BY <2>1, <2>2
<1> QED BY <1>1, <1>3, <1>4 DEF EditInv, ReadingInv

LEMMA EscapeKeeps ==
    ASSUME EditInv, in # <<>>, in' = Tail(in), InEscape(Head(in))
    PROVE  EditInv'
<1> DEFINE c == Head(in)
<1>1. /\ in' \in Seq(Char) /\ Len(in) \in Nat \ {0} /\ Len(in') = Len(in) - 1 /\ c = in[1]
      /\ Len(in) = 1 <=> in' = <<>>
  BY RestOfInput DEF EditInv, ReadingInv
<1>2. /\ esc = [NoEscape EXCEPT !.state = "st_escape"]
      /\ \/ Len(in) = 1 /\ in[1] = "x"
         \/ in[1] = "[" /\ Bracketed(1)
  <2>1. esc.state = "st_escape" /\ InSequence
    BY DEF InEscape, EditInv, ReadingInv
  <2> QED BY <2>1, StatesDiffer DEF InSequence
<1>3. ListInv'
  BY SameLines DEF EditInv, InEscape, NoEdit
<1>4. InSequence'
  <2>1. CASE in[1] = "x" /\ Len(in) = 1
    <3>1. esc' = NoEscape /\ in' = <<>>
      BY <1>1, <2>1 DEF InEscape, Leave
    <3> QED BY <3>1 DEF InSequence, NoEscape
  <2>2. CASE in[1] = "[" /\ Bracketed(1)
    <3>1. esc' = [esc EXCEPT !.state = "st_bracket"]
      BY <1>1, <2>2 DEF InEscape, Into
    <3>2. esc' = [NoEscape EXCEPT !.state = "st_bracket"]
      BY <1>2, <3>1 DEF NoEscape
    <3>3. Bracketed(0)'
      <4>1. Bracketed(0 + 1)
        BY <2>2
      <4> QED BY <4>1, BracketedRest DEF EditInv, ReadingInv
    <3> QED BY <3>2, <3>3 DEF InSequence, NoEscape
  <2> QED BY <1>2, <2>1, <2>2
<1> QED BY <1>1, <1>3, <1>4 DEF EditInv, ReadingInv

LEMMA BracketKeeps ==
    ASSUME EditInv, in # <<>>, in' = Tail(in), InBracket(Head(in))
    PROVE  EditInv'
<1> DEFINE c == Head(in)
<1>1. /\ in' \in Seq(Char) /\ Len(in) \in Nat \ {0} /\ Len(in') = Len(in) - 1 /\ c = in[1]
      /\ \A k \in 1 .. Len(in) - 1 : in'[k] = in[k + 1]
      /\ Len(in) = 1 <=> in' = <<>>
  BY RestOfInput DEF EditInv, ReadingInv
<1>2. esc = [NoEscape EXCEPT !.state = "st_bracket"] /\ Bracketed(0)
  <2>1. esc.state = "st_bracket" /\ InSequence
    BY DEF InBracket, EditInv, ReadingInv
  <2> QED BY <2>1, StatesDiffer DEF InSequence
<1>3. ListInv'
  <2>1. SwitchTo(line - 1) \/ SwitchTo(line + 1) \/ Left \/ Right \/ Home \/ End \/ NoEdit
    BY DEF InBracket
  <2>2. line - 1 \in Int /\ line + 1 \in Int
    BY LineTypes DEF EditInv
  <2>3. NoEdit => ListInv'
    BY SameLines DEF EditInv, NoEdit
  <2> QED BY <2>1, <2>2, <2>3, SwitchKeeps, MovesKeep DEF EditInv
<1>4. InSequence'
  <2>1. CASE Len(in) = 1 /\ in[1] \in {"A", "B", "C", "D", "F"}
    <3>1. c \notin DecimalChar
      BY <1>1, <2>1, DigitsAre
    <3>2. esc' = NoEscape /\ in' = <<>>
      BY <1>1, <2>1, <3>1 DEF InBracket, Leave
    <3> QED BY <3>2 DEF InSequence, NoEscape
  <2>2. ASSUME in[1] \in {"0", "1", "3", "4"} PROVE InNum(0, 0)'
    <3>1. c \in DecimalChar
      BY <1>1, <2>2, DigitsAre
    <3>2. ReadDigit(c)
      BY <3>1 DEF InBracket
    <3>3. esc.num = <<0, 0>> /\ esc.num_idx = 0 /\ DOMAIN <<0, 0>> = 1 .. 2
      BY <1>2 DEF NoEscape
    <3>4. esc' = [esc EXCEPT !.state = "st_num", !.num[1] = @ * 10 + DecimalValue(c)]
      BY <3>2, <3>3 DEF ReadDigit
    <3> DEFINE n == [<<0, 0>> EXCEPT ![1] = 0 * 10 + DecimalValue(c)]
    <3>5. esc = [state |-> "st_bracket", num |-> <<0, 0>>, num_idx |-> 0]
      BY <1>2 DEF NoEscape
    <3>6. esc' = [state |-> "st_num", num |-> [<<0, 0>> EXCEPT ![1] = @ * 10 + DecimalValue(c)], num_idx |-> 0]
      BY <3>4, <3>5
    <3>7. <<0, 0>>[1] = 0
      OBVIOUS
    <3>8. esc' = [state |-> "st_num", num |-> n, num_idx |-> 0]
      BY <3>6, <3>7
    <3>9. DOMAIN n = 1 .. 2 /\ n[2] = 0
      BY <3>3
    <3> HIDE DEF n
    <3> QED BY <3>8, <3>9 DEF InNum
  <2>3. CASE Len(in) = 2 /\ in[1] \in {"0", "1", "3", "4"} /\ in[2] \in {"~", "n"}
    <3>1. Len(in') = 1 /\ in'[1] \in {"~", "n"}
      BY <1>1, <2>3
    <3> QED BY <2>2, <2>3, <3>1 DEF InSequence, InNum
  <2>4. CASE Len(in) = 4 /\ in[1] = "1" /\ in[2] = ";" /\ in[3] = Column /\ in[4] = "R"
    <3>1. Len(in') = 3 /\ 1 .. 3 = 1 .. Len(in) - 1
      <4>1. Len(in) = 4 /\ Len(in') = Len(in) - 1
        BY <1>1, <2>4
      <4> QED BY <4>1
    <3>2. in'[1] = in[2] /\ in'[2] = in[3] /\ in'[3] = in[4]
      <4>1. \A k \in 1 .. 3 : in'[k] = in[k + 1]
        BY <1>1, <3>1
      <4>2. 1 \in 1 .. 3 /\ 2 \in 1 .. 3 /\ 3 \in 1 .. 3
        OBVIOUS
      <4>3. in'[1] = in[1 + 1] /\ in'[2] = in[2 + 1] /\ in'[3] = in[3 + 1]
        BY <4>1, <4>2
      <4>4. 1 + 1 = 2 /\ 2 + 1 = 3 /\ 3 + 1 = 4
        OBVIOUS
      <4> QED BY <4>3, <4>4
    <3>3. Column' = Column
      BY DEF Column
    <3> QED BY <2>2, <2>4, <3>1, <3>2, <3>3 DEF InSequence, InNum
  <2>5. \/ Len(in) = 0 + 1 /\ in[0 + 1] \in {"A", "B", "C", "D", "F"}
        \/ Len(in) = 0 + 2 /\ in[0 + 1] \in {"0", "1", "3", "4"} /\ in[0 + 2] \in {"~", "n"}
        \/ Len(in) = 0 + 4 /\ in[0 + 1] = "1" /\ in[0 + 2] = ";" /\ in[0 + 3] = Column /\ in[0 + 4] = "R"
    BY <1>2 DEF Bracketed
  <2>6. 0 + 1 = 1 /\ 0 + 2 = 2 /\ 0 + 3 = 3 /\ 0 + 4 = 4
    OBVIOUS
  <2> QED BY <2>1, <2>3, <2>4, <2>5, <2>6
<1> QED BY <1>1, <1>3, <1>4 DEF EditInv, ReadingInv

LEMMA NumberKeeps ==
    ASSUME EditInv, in # <<>>, in' = Tail(in), InNumber(Head(in))
    PROVE  EditInv'
<1> DEFINE c == Head(in)
<1>1. /\ in' \in Seq(Char) /\ Len(in) \in Nat \ {0} /\ Len(in') = Len(in) - 1 /\ c = in[1]
      /\ \A k \in 1 .. Len(in) - 1 : in'[k] = in[k + 1]
      /\ Len(in) = 1 <=> in' = <<>>
  BY RestOfInput DEF EditInv, ReadingInv
<1>2. \/ InNum(0, 0) /\ Len(in) = 1 /\ in[1] \in {"~", "n"}
      \/ InNum(0, 0) /\ Len(in) = 3 /\ in[1] = ";" /\ in[2] = Column /\ in[3] = "R"
      \/ InNum(1, 0) /\ Len(in) = 2 /\ in[1] = Column /\ in[2] = "R"
      \/ InNum(1, TermWidth) /\ Len(in) = 1 /\ in[1] = "R"
  <2>1. esc.state = "st_num"
    BY DEF InNumber
  <2>2. InSequence
    BY DEF EditInv, ReadingInv
  <2> QED BY <2>1, <2>2, StatesDiffer DEF InSequence
<1>3. Column # "R" /\ "R" \notin DecimalChar /\ "~" \notin DecimalChar /\ "n" \notin DecimalChar
      /\ ";" \notin DecimalChar /\ Column \in DecimalChar /\ Column # ";"
  BY DigitsAre
<1>4. ListInv'
  <2>1. \/ c = "R" /\ esc.num_idx = 1 /\ Reply("restore", esc.num[2])
        \/ Reply("size", width) \/ Home \/ delete_char \/ End \/ NoEdit
    BY DEF InNumber
  <2>2. c = "R" /\ esc.num_idx = 1 => esc.num[2] = TermWidth
    BY <1>1, <1>2, <1>3, StatesDiffer
  <2>3. NoEdit => ListInv'
    BY SameLines DEF EditInv, NoEdit
  <2>4. c = "R" /\ esc.num_idx = 1 /\ Reply("restore", esc.num[2]) => ListInv'
    BY <2>2, ReplyKeeps DEF EditInv
  <2>5. Reply("size", width) => ListInv'
    BY ReplyKeeps DEF EditInv
  <2> QED BY <2>1, <2>3, <2>4, <2>5, MovesKeep, DeleteKeeps DEF EditInv
<1>5. InSequence'
  <2>1. CASE Len(in) = 1 /\ in[1] \in {"~", "n", "R"}
    <3>1. c \notin DecimalChar /\ c # ";"
      BY <1>1, <1>3, <2>1
    <3>2. esc' = NoEscape /\ in' = <<>>
      BY <1>1, <2>1, <3>1 DEF InNumber, Leave
    <3> QED BY <3>2 DEF InSequence, NoEscape
  <2>2. CASE InNum(0, 0) /\ Len(in) = 3 /\ in[1] = ";" /\ in[2] = Column /\ in[3] = "R"
    <3>1. c = ";" /\ c \notin DecimalChar /\ esc.num_idx < 2
      <4>1. esc.num_idx = 0
        BY <2>2, StatesDiffer
      <4>2. esc.num_idx < 2
        BY <4>1
      <4> QED BY <1>1, <1>3, <2>2, <4>2
    <3>2. esc' = [esc EXCEPT !.num_idx = @ + 1]
      BY <3>1 DEF InNumber
    <3>3. InNum(1, 0)'
      <4>1. PICK n : /\ esc = [state |-> "st_num", num |-> n, num_idx |-> 0]
                     /\ DOMAIN n = 1 .. 2 /\ n[2] = 0
        BY <2>2 DEF InNum
      <4>2. esc' = [state |-> "st_num", num |-> n, num_idx |-> 0 + 1] /\ 0 + 1 = 1
        BY <3>2, <4>1
      <4> QED BY <4>1, <4>2 DEF InNum
    <3>4. Len(in') = 2 /\ 1 .. 2 = 1 .. Len(in) - 1
      <4>1. Len(in) = 3 /\ Len(in') = Len(in) - 1
        BY <1>1, <2>2
      <4> QED BY <4>1
    <3>5. in'[1] = in[2] /\ in'[2] = in[3]
      <4>1. \A k \in 1 .. 2 : in'[k] = in[k + 1]
        BY <1>1, <3>4
      <4>2. 1 \in 1 .. 2 /\ 2 \in 1 .. 2 /\ 1 + 1 = 2 /\ 2 + 1 = 3
        OBVIOUS
      <4>3. in'[1] = in[1 + 1] /\ in'[2] = in[2 + 1]
        BY <4>1, <4>2
      <4> QED BY <4>2, <4>3
    <3>6. Column' = Column
      BY DEF Column
    <3> QED BY <2>2, <3>3, <3>4, <3>5, <3>6 DEF InSequence
  <2>3. CASE InNum(1, 0) /\ Len(in) = 2 /\ in[1] = Column /\ in[2] = "R"
    <3>1. ReadDigit(c)
      BY <1>1, <1>3, <2>3 DEF InNumber
    <3>2. DecimalValue(c) = TermWidth /\ esc.num_idx = 1
      BY <1>1, <2>3, DigitsAre, StatesDiffer
    <3>3. PICK n : /\ esc = [state |-> "st_num", num |-> n, num_idx |-> 1]
                   /\ DOMAIN n = 1 .. 2 /\ n[2] = 0
      BY <2>3 DEF InNum
    <3>4. esc' = [esc EXCEPT !.state = "st_num", !.num[2] = @ * 10 + DecimalValue(c)]
      <4>1. esc.num_idx + 1 = 2
        BY <3>2
      <4> QED BY <3>1, <4>1 DEF ReadDigit
    <3> DEFINE m == [n EXCEPT ![2] = n[2] * 10 + DecimalValue(c)]
    <3>5. esc' = [state |-> "st_num", num |-> m, num_idx |-> 1]
      BY <3>3, <3>4
    <3>6. DOMAIN m = 1 .. 2 /\ m[2] = 0 * 10 + TermWidth
      BY <3>2, <3>3
    <3>7. 0 * 10 + TermWidth = TermWidth
      BY WidthAssumption
    <3> HIDE DEF m
    <3>8. InNum(1, TermWidth)'
      BY <3>5, <3>6, <3>7 DEF InNum
    <3>9. Len(in') = 1 /\ in'[1] = in[2]
      BY <1>1, <2>3
    <3> QED BY <2>3, <3>8, <3>9 DEF InSequence
  <2> QED BY <1>2, <2>1, <2>2, <2>3
<1> QED BY <1>1, <1>4, <1>5 DEF EditInv, ReadingInv

LEMMA BetweenKeys == ReadingInv /\ in = <<>> => esc = NoEscape
<1> SUFFICES ASSUME ReadingInv, in = <<>> PROVE esc = NoEscape
  OBVIOUS
<1>1. Len(in) = 0
  BY EmptySeq
<1>2. \A k \in {0, 1, 2} : ~Bracketed(k)
  <2> SUFFICES ASSUME NEW k \in {0, 1, 2}, Bracketed(k) PROVE FALSE
    OBVIOUS
  <2>1. Len(in) = k + 1 \/ Len(in) = k + 2 \/ Len(in) = k + 4
    BY DEF Bracketed
  <2> QED BY <1>1, <2>1
<1> QED BY <1>1, <1>2 DEF ReadingInv, InSequence

LEMMA TuplesAre ==
    /\ \A a \in Char : <<a>> \in Seq(Char) /\ Len(<<a>>) = 1 /\ <<a>>[1] = a
    /\ \A a, b \in Char : <<a, b>> \in Seq(Char) /\ Len(<<a, b>>) = 2 /\ <<a, b>>[1] = a /\ <<a, b>>[2] = b
    /\ \A a, b, c \in Char : /\ <<a, b, c>> \in Seq(Char) /\ Len(<<a, b, c>>) = 3
                             /\ <<a, b, c>>[1] = a /\ <<a, b, c>>[2] = b /\ <<a, b, c>>[3] = c
    /\ \A a, b, c, d \in Char : /\ <<a, b, c, d>> \in Seq(Char) /\ Len(<<a, b, c, d>>) = 4
                                /\ <<a, b, c, d>>[1] = a /\ <<a, b, c, d>>[2] = b
                                /\ <<a, b, c, d>>[3] = c /\ <<a, b, c, d>>[4] = d
    /\ \A a, b, c, d, e, f \in Char :
         /\ <<a, b, c, d, e, f>> \in Seq(Char) /\ Len(<<a, b, c, d, e, f>>) = 6
         /\ <<a, b, c, d, e, f>>[1] = a /\ <<a, b, c, d, e, f>>[2] = b /\ <<a, b, c, d, e, f>>[3] = c
         /\ <<a, b, c, d, e, f>>[4] = d /\ <<a, b, c, d, e, f>>[5] = e /\ <<a, b, c, d, e, f>>[6] = f
  OBVIOUS

LEMMA CharsAre ==
    /\ Glyph \subseteq Char /\ DecimalChar \subseteq Char /\ Column \in Char
    /\ {"ESC", "[", ";", "~", "x", "n", "A", "B", "C", "D", "F", "R", "return", "backspace",
        "^A", "^E", "0", "1", "3", "4"} \subseteq Char
<1>1. {"0", "1", "3", "4"} \subseteq DecimalChar /\ Column \in DecimalChar
  BY DigitsAre
<1> QED BY <1>1 DEF Char

LEMMA PressKeeps == EditInv /\ Press => EditInv'
<1> SUFFICES ASSUME EditInv, Press PROVE EditInv'
  OBVIOUS
<1>1. in = <<>> /\ in' \in Keys /\ UNCHANGED <<lines, line, width, esc, submitted>>
  BY DEF Press
<1>2. ListInv'
  BY <1>1, SameLines DEF EditInv
<1>3. esc' = NoEscape
  BY <1>1, BetweenKeys DEF EditInv
<1>4. \/ \E c \in Glyph \cup {"return", "backspace", "^A", "^E"} : in' = <<c>>
      \/ \E c \in {"A", "B", "C", "D", "F"} : in' = <<"ESC", "[", c>>
      \/ \E c \in {"1", "3", "4"} : in' = <<"ESC", "[", c, "~">>
      \/ in' = <<"ESC", "x">>
  BY <1>1 DEF Keys
<1>5. in' \in Seq(Char) /\ InSequence'
  <2>1. ASSUME NEW c \in Glyph \cup {"return", "backspace", "^A", "^E"}, in' = <<c>>
        PROVE  in' \in Seq(Char) /\ InSequence'
    <3>1. c \in Char /\ c # "ESC"
      BY GlyphAssumption, CharsAre
    <3>2. in' \in Seq(Char) /\ Len(in') = 1 /\ in'[1] # "ESC"
      BY <2>1, <3>1, TuplesAre
    <3> QED BY <1>3, <3>2 DEF InSequence, NoEscape
  <2>2. ASSUME NEW c \in {"A", "B", "C", "D", "F"}, in' = <<"ESC", "[", c>>
        PROVE  in' \in Seq(Char) /\ InSequence'
    <3>1. c \in Char /\ "ESC" \in Char /\ "[" \in Char
      BY CharsAre
    <3>2. in' \in Seq(Char) /\ Len(in') = 3 /\ in'[1] = "ESC" /\ in'[2] = "[" /\ in'[3] = c
      BY <2>2, <3>1, TuplesAre
    <3>3. Bracketed(2)'
      <4>1. Len(in') = 2 + 1 /\ in'[2 + 1] \in {"A", "B", "C", "D", "F"}
        BY <3>2
      <4> QED BY <4>1 DEF Bracketed
    <3> QED BY <1>3, <3>2, <3>3 DEF InSequence, NoEscape
  <2>3. ASSUME NEW c \in {"1", "3", "4"}, in' = <<"ESC", "[", c, "~">>
        PROVE  in' \in Seq(Char) /\ InSequence'
    <3>1. c \in Char /\ "ESC" \in Char /\ "[" \in Char /\ "~" \in Char
      BY CharsAre
    <3>2. in' \in Seq(Char) /\ Len(in') = 4 /\ in'[1] = "ESC" /\ in'[2] = "[" /\ in'[3] = c /\ in'[4] = "~"
      BY <2>3, <3>1, TuplesAre
    <3>3. Bracketed(2)'
      <4>1. Len(in') = 2 + 2 /\ in'[2 + 1] \in {"0", "1", "3", "4"} /\ in'[2 + 2] \in {"~", "n"}
        BY <3>2
      <4> QED BY <4>1 DEF Bracketed
    <3> QED BY <1>3, <3>2, <3>3 DEF InSequence, NoEscape
  <2>4. CASE in' = <<"ESC", "x">>
    <3>1. "ESC" \in Char /\ "x" \in Char
      BY CharsAre
    <3>2. in' \in Seq(Char) /\ Len(in') = 2 /\ in'[1] = "ESC" /\ in'[2] = "x"
      BY <2>4, <3>1, TuplesAre
    <3> QED BY <1>3, <3>2 DEF InSequence, NoEscape
  <2> QED BY <1>4, <2>1, <2>2, <2>3, <2>4
<1> QED BY <1>2, <1>5 DEF EditInv, ReadingInv

LEMMA AnswerKeeps == EditInv /\ Answer => EditInv'
<1> SUFFICES ASSUME EditInv, Answer PROVE EditInv'
  OBVIOUS
<1>1. in = <<>> /\ UNCHANGED <<lines, line, width, esc, submitted>>
      /\ in' = IF term.asked = "status" THEN <<"ESC", "[", "0", "n">>
               ELSE <<"ESC", "[", "1", ";", Column, "R">>
  BY DEF Answer, Column
<1>2. ListInv'
  BY <1>1, SameLines DEF EditInv
<1>3. esc' = NoEscape
  BY <1>1, BetweenKeys DEF EditInv
<1>4. Column' = Column
  BY DEF Column
<1>5. /\ "ESC" \in Char /\ "[" \in Char /\ "0" \in Char /\ "n" \in Char /\ "1" \in Char /\ ";" \in Char
      /\ Column \in Char /\ "R" \in Char
  BY CharsAre
<1>6. in' \in Seq(Char) /\ InSequence'
  <2>1. CASE in' = <<"ESC", "[", "0", "n">>
    <3>1. in' \in Seq(Char) /\ Len(in') = 4 /\ in'[1] = "ESC" /\ in'[2] = "[" /\ in'[3] = "0" /\ in'[4] = "n"
      BY <1>5, <2>1, TuplesAre
    <3>2. Bracketed(2)'
      <4>1. Len(in') = 2 + 2 /\ in'[2 + 1] \in {"0", "1", "3", "4"} /\ in'[2 + 2] \in {"~", "n"}
        BY <3>1
      <4> QED BY <4>1 DEF Bracketed
    <3> QED BY <1>3, <3>1, <3>2 DEF InSequence, NoEscape
  <2>2. CASE in' = <<"ESC", "[", "1", ";", Column, "R">>
    <3>1. /\ in' \in Seq(Char) /\ Len(in') = 6 /\ in'[1] = "ESC" /\ in'[2] = "[" /\ in'[3] = "1"
          /\ in'[4] = ";" /\ in'[5] = Column /\ in'[6] = "R"
      BY <1>5, <2>2, TuplesAre
    <3>2. Bracketed(2)'
      <4>1. 2 + 1 = 3 /\ 2 + 2 = 4 /\ 2 + 3 = 5 /\ 2 + 4 = 6
        OBVIOUS
      <4>2. Len(in') = 2 + 4 /\ in'[2 + 1] = "1"
        BY <3>1, <4>1
      <4>3. in'[2 + 2] = ";" /\ in'[2 + 3] = Column
        BY <3>1, <4>1
      <4>4. in'[2 + 4] = "R"
        BY <3>1, <4>1
      <4> QED BY <1>4, <4>2, <4>3, <4>4 DEF Bracketed
    <3> QED BY <1>3, <3>1, <3>2 DEF InSequence, NoEscape
  <2> QED BY <1>1, <2>1, <2>2
<1> QED BY <1>2, <1>6 DEF EditInv, ReadingInv

LEMMA ReadCharKeeps == EditInv /\ ReadChar => EditInv'
<1> SUFFICES ASSUME EditInv, ReadChar PROVE EditInv'
  OBVIOUS
<1>1. /\ in # <<>> /\ in' = Tail(in)
      /\ InNormal(Head(in)) \/ InEscape(Head(in)) \/ InBracket(Head(in)) \/ InNumber(Head(in))
  BY DEF ReadChar
<1> QED BY <1>1, NormalKeeps, EscapeKeeps, BracketKeeps, NumberKeeps

LEMMA Edit_Init == EditInit => EditInv
<1> SUFFICES ASSUME EditInit PROVE EditInv
  OBVIOUS
<1>1. /\ lines = <<[text |-> <<>>, pos |-> 0]>> /\ line = 1 /\ width = 0 /\ esc = NoEscape /\ in = <<>>
      /\ submitted = <<>>
  BY DEF EditInit
<1>2. <<>> \in Seq(Glyph) /\ Len(<<>>) = 0 /\ <<>> \in Seq(Char)
  BY EmptySeq
<1>3. EmptyLine \in EditLine /\ InBuffer(EmptyLine) /\ EmptyLine.text = <<>> /\ EmptyLine.pos = 0
  BY <1>2, LinesAssumption DEF EmptyLine, EditLine, InBuffer
<1>4. lines = <<EmptyLine>>
  BY <1>1 DEF EmptyLine
<1>5. lines \in Seq(EditLine) /\ Len(lines) = 1 /\ lines[1] = EmptyLine
  BY <1>3, <1>4
<1>6. LinesFit(lines)
  <2>1. 1 \in 1 .. MaxLines /\ \A i \in 1 .. 1 : i = 1
    BY LinesAssumption
  <2> QED BY <1>3, <1>5, <2>1 DEF LinesFit
<1>7. line \in 1 .. newest /\ newest = 1 /\ Pos = 0 /\ Len(Text) = 0
  BY <1>1, <1>2, <1>3, <1>5 DEF newest, Pos, Text
<1>8. Remembered(lines, submitted)
  BY <1>1 DEF Remembered
<1>9. ListInv
  BY <1>1, <1>2, <1>6, <1>7, <1>8 DEF ListInv
<1> QED BY <1>1, <1>2, <1>9 DEF EditInv, ReadingInv, InSequence

LEMMA Edit_Next == EditInv /\ [EditNext]_editVars => EditInv'
<1> SUFFICES ASSUME EditInv, [EditNext]_editVars PROVE EditInv'
  OBVIOUS
<1>1. ASSUME UNCHANGED <<lines, line, width, submitted, in, esc>> PROVE EditInv'
  <2>1. ListInv'
    BY <1>1, SameLines DEF EditInv
  <2>2. ReadingInv'
    BY <1>1 DEF EditInv, ReadingInv, InSequence, Bracketed, InNum, Column
  <2> QED BY <2>1, <2>2 DEF EditInv
<1>2. CASE UNCHANGED editVars
  BY <1>1, <1>2 DEF editVars
<1>3. CASE ConsoleLine
  BY <1>1, <1>3 DEF ConsoleLine
<1> QED BY <1>2, <1>3, ReadCharKeeps, PressKeeps, AnswerKeeps DEF EditNext

LEMMA Edit_Sound == EditInv => LinesKept
<1> SUFFICES ASSUME EditInv PROVE ListSound /\ HistoryKept
  BY DEF LinesKept
<1>1. /\ \A i \in 1 .. newest : InBuffer(lines[i]) /\ (lines[i].text = <<>> => i = newest)
      /\ width = 0 => newest = 1 /\ Pos = Len(Text)
      /\ Remembered(lines, submitted) /\ newest = Len(lines)
  BY DEF EditInv, ListInv, LinesFit, newest
<1>2. \A i \in 1 .. newest - 1 : i \in 1 .. newest
  BY LineTypes DEF EditInv
<1>3. ListSound
  BY <1>1 DEF ListSound, InBuffer
<1>4. HistoryKept
  BY <1>1, <1>2 DEF HistoryKept, Remembered
<1> QED BY <1>3, <1>4

-----------------------------------------------------------------------------
(* The parts take turns in no behaviour: what one part keeps, the steps of  *)
(* the others keep.                                                         *)
TerminalInv == BlockingInv /\ RlInv /\ ChanInv /\ EditInv

LEMMA Terminal_Init == TerminalInit => TerminalInv
BY Blocking_Init, Rl_Init, Chan_Init, Edit_Init DEF TerminalInit, TerminalInv

LEMMA PartSteps ==
    [TerminalNext]_terminalVars =>
        [Next]_vars /\ [ReadlineNext]_readVars /\ [ChanNext]_chanVars /\ [EditNext]_editVars
<1> SUFFICES ASSUME [TerminalNext]_terminalVars
             PROVE  /\ [Next]_vars /\ [ReadlineNext]_readVars
                    /\ [ChanNext]_chanVars /\ [EditNext]_editVars
  OBVIOUS
<1>1. CASE UNCHANGED terminalVars
  BY <1>1 DEF terminalVars, rest
<1>2. CASE QueuePart
  BY <1>2 DEF QueuePart, rest
<1>3. CASE EditPart
  BY <1>3 DEF EditPart
<1>4. CASE ReadlinePart
  BY <1>4 DEF ReadlinePart
<1>5. CASE ChannelPart
  BY <1>5 DEF ChannelPart
<1>6. CASE PrintfPart
  BY <1>6 DEF PrintfPart
<1>7. CASE StringsPart
  BY <1>7 DEF StringsPart
<1> QED BY <1>1, <1>2, <1>3, <1>4, <1>5, <1>6, <1>7 DEF TerminalNext

LEMMA TerminalInvariance == TerminalSpec => []TerminalInv
<1>1. TerminalInv /\ [TerminalNext]_terminalVars => TerminalInv'
  BY PartSteps, Blocking_Next, Rl_Next, Chan_Next, Edit_Next DEF TerminalInv
<1> QED BY <1>1, Terminal_Init, PTL DEF TerminalSpec

(* No wakeup is lost between a thread's try and its sleep, and every byte   *)
(* gets through whole, once and in order (lib/queue.c:87-232), for every    *)
(* capacity, every length of buffer and every set of byte values.           *)
THEOREM BlockingCallsSound == TerminalSpec => []QueueSound
<1>1. TerminalInv => QueueSound
  BY Blocking_Sound DEF TerminalInv, QueueSound
<1> QED BY <1>1, TerminalInvariance, PTL

(* Neither the prompt nor an echo gets into a line of console output, nor   *)
(* console output into the line being edited, unless an item of the editor  *)
(* was lost (lib/readline.c:273-332).                                       *)
THEOREM LinesApart == TerminalSpec => []ConsoleLinesWhole
<1>1. TerminalInv => ConsoleLinesWhole
  BY Rl_Sound DEF TerminalInv
<1> QED BY <1>1, TerminalInvariance, PTL

(* The list has whole lines in it, each with its cursor, only the newest    *)
(* empty, and the line last entered is there as it was until its memory is  *)
(* needed (lib/readline.c:158-224, 383-425), whatever keys are pressed and   *)
(* however many lines there is memory for.                                  *)
THEOREM HistoryIsKept == TerminalSpec => []LinesKept
<1>1. TerminalInv => LinesKept
  BY Edit_Sound DEF TerminalInv
<1> QED BY <1>1, TerminalInvariance, PTL

(* Every byte goes through a channel once and in order, and a result is the *)
(* number of bytes moved unless none was (lib/byte-chan.c:42-92).           *)
THEOREM ChannelExact == TerminalSpec => []ChanExact
<1>1. TerminalInv => ChanExact
  BY Chan_Sound DEF TerminalInv
<1> QED BY <1>1, TerminalInvariance, PTL
=============================================================================
