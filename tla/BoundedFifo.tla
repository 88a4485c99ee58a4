----------------------------- MODULE BoundedFifo -----------------------------
(***************************************************************************)
(* What a libos queue promises its one producer and its one consumer: a    *)
(* bounded FIFO of bytes on which every call takes effect at one instant.  *)
(*                                                                         *)
(*   items     the bytes in the queue, oldest first                        *)
(*   accepted  how many bytes the producer's last call put in the queue    *)
(*   reply     the bytes the consumer's last call, or its last chunk, got  *)
(***************************************************************************)
EXTENDS Naturals, Sequences

CONSTANTS Capacity, Byte

VARIABLES items, accepted, reply

vars == <<items, accepted, reply>>

Init == /\ items = <<>>
        /\ accepted = 0
        /\ reply = <<>>

(* The producer adds the bytes of s, all at once, and is told how many.    *)
Put(s) ==
    /\ s # <<>>
    /\ Len(items) + Len(s) <= Capacity
    /\ items' = items \o s
    /\ accepted' = Len(s)
    /\ UNCHANGED reply

(* The producer is turned away, which happens only at a full queue.        *)
PutRefused ==
    /\ Len(items) = Capacity
    /\ accepted' = 0
    /\ UNCHANGED <<items, reply>>

(* The consumer takes the n oldest bytes.                                  *)
Take(n) ==
    /\ reply' = SubSeq(items, 1, n)
    /\ items' = SubSeq(items, n + 1, Len(items))
    /\ UNCHANGED accepted

(* The consumer copies n bytes, off bytes behind the oldest.               *)
Peek(off, n) ==
    /\ off + n <= Len(items)
    /\ reply' = SubSeq(items, off + 1, off + n)
    /\ UNCHANGED <<items, accepted>>

(* The consumer removes the n oldest bytes without looking at them.        *)
Drop(n) ==
    /\ items' = SubSeq(items, n + 1, Len(items))
    /\ UNCHANGED <<accepted, reply>>

(* The consumer gets nothing, which happens only at an empty queue.        *)
TakeRefused ==
    /\ items = <<>>
    /\ reply' = <<>>
    /\ UNCHANGED <<items, accepted>>

Chunks == UNION {[1..n -> Byte] : n \in 1..Capacity}

Next ==
    \/ \E s \in Chunks : Put(s)
    \/ PutRefused
    \/ \E n \in 1..Len(items) : Take(n) \/ Drop(n)
    \/ \E off \in 0..Len(items), n \in 1..Len(items) : Peek(off, n)
    \/ TakeRefused

Spec == Init /\ [][Next]_vars
=============================================================================
