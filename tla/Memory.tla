------------------------------- MODULE Memory --------------------------------
(* The memory of a program built on libos: boot code fills the table of     *)
(* segments, malloc_init makes the heap of it, and then the threads use the *)
(* heap while a client may still give it another segment.                   *)
EXTENDS Segments, Heap

CONSTANTS
    Later,      \* ranges a client gives to the heap after malloc_init
    Explored    \* bound: the tables from which the heap's calls are explored

VARIABLES
    phase,      \* "table" | "heap" | "none"
    later       \* history: the units given to the heap after malloc_init

memVars == <<segVars, heapVars, phase, later>>

NoHeap == EmptyState(Null, 0)

Init ==
    /\ SegInit
    /\ ms = NoHeap /\ live = {} /\ op = [t \in Thread |-> Idle] /\ made = 0
    /\ phase = "table" /\ later = {}

TableStep == phase = "table" /\ SegNext /\ UNCHANGED <<heapVars, phase, later>>

(* The first segment that is large enough becomes the mspace, the others    *)
(* are added to it.                                                         *)
malloc_init ==
    LET usable == UsableSegments
        first == Head(usable)
    IN /\ phase = "table" /\ excluding = Nothing
       /\ IF usable = <<>> THEN phase' = "none" /\ UNCHANGED ms
          ELSE /\ phase' = "heap"
               /\ ms' = FoldLeft(LAMBDA M, s : mspace_add_segment(M, s.start, Size(s)),
                                 create_mspace_with_base(first.start, Size(first)), Tail(usable))
       /\ UNCHANGED <<segVars, live, op, made, later>>

(* mspace_add_segment on memory that was never in the table, at any time.   *)
AddLater ==
    \E r \in Later :
      /\ phase = "heap" /\ segments \in Explored
      /\ Units(r) \cap (granted \cup later) = {}
      /\ later' = later \cup Units(r)
      /\ ms' = mspace_add_segment(ms, r.start, Size(r))
      /\ UNCHANGED <<segVars, live, op, made, phase>>

HeapStep == phase = "heap" /\ segments \in Explored /\ HeapNext /\ UNCHANGED <<segVars, phase, later>>

Next == TableStep \/ malloc_init \/ AddLater \/ HeapStep

Spec == Init /\ [][Next]_memVars

(* The heap passes its own checks from the moment malloc_init returns,      *)
(* whatever disjoint segments the table held.                               *)
HeapSound == phase = "heap" /\ ~skipped => ChecksPass

(* See EveryBlockHeld; and the heap's segments are memory it was given,     *)
(* outside all that was excluded or allocated before (malloc-wrapper.c:84). *)
BlocksSound ==
    phase = "heap" /\ ~skipped =>
      /\ EveryBlockHeld
      /\ UNION {Units(Range2(s.base, s.base + s.size - 1)) : s \in Range(ms.seg)}
           \subseteq granted \cup later

(* See FitsAreFound: what malloc refuses could not have been served.        *)
RefusalJust == phase = "heap" /\ ~skipped => FitsAreFound

(* The heap's own structures, the blocks it gave out and the requests it    *)
(* refused, together (lib/malloc.c:2816, 4559, 4673).                       *)
MemorySound == HeapSound /\ BlocksSound /\ RefusalJust
=============================================================================
