---------------------------- MODULE MCSpscQueue ----------------------------
(* TLC instance of SpscQueue. *)
EXTENDS SpscQueue, Bitwise

(* queue_wrap agrees with the mask on every index the queue forms, taken   *)
(* as an unsigned number of eight bits.                                    *)
ASSUME WrapIsMask ==
    \A index \in -Size .. 2 * Size - 1 :
        queue_wrap(index) = ((index + 256) % 256) & (Size - 1)
=============================================================================
