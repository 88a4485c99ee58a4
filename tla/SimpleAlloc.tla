------------------------------ MODULE SimpleAlloc -----------------------------
(* lib/simple-alloc.c: the virtual allocator, and the simple heap, cut      *)
(* blocks from the front of a range under alloc_lock.  Addresses have       *)
(* AddrBits bits and wrap.                                                  *)
EXTENDS Integers, FiniteSets

CONSTANTS
    AddrBits,       \* the width of an address
    Caller,         \* the cores that allocate
    ArenaLow, ArenaHigh,    \* bound: the range given to valloc_init
    AllocSizes, AllocAligns,    \* bound: what is asked for
    MaxAllocs       \* bound: the calls

Space == 2 ^ AddrBits
Nobody == "nobody"

ASSUME CallerAssumption == Nobody \notin Caller
ASSUME ArenaAssumption ==
    /\ Space \in Nat /\ {ArenaLow, ArenaHigh} \subseteq Nat
    /\ ArenaLow + 1 < ArenaHigh /\ ArenaHigh < Space
    /\ AllocSizes \subseteq 0 .. Space - 1 /\ AllocAligns \subseteq 1 .. Space

VARIABLES
    allocator,      \* start, end
    alloc_lock,     \* who holds it
    asking,         \* per core: its call, <<size, align, a->start as read>>
    blocks,         \* the blocks returned
    allocs,         \* the calls so far
    wrapped         \* history: a size and its padding went round the address space

allocVars == <<allocator, alloc_lock, asking, blocks, allocs, wrapped>>

NoCall == [step |-> "idle", size |-> 0, align |-> 1, start |-> 0]

AllocInit ==
    /\ allocator = [start |-> 0, end |-> 0] /\ alloc_lock = Nobody
    /\ asking = [c \in Caller |-> NoCall]
    /\ blocks = {} /\ allocs = 0 /\ wrapped = FALSE

(* The heap is given a start and a size and loses its last byte; the        *)
(* virtual allocator is given the end.                                      *)
valloc_init ==
    /\ allocator.end = 0
    /\ \/ allocator' = [start |-> ArenaLow, end |-> ArenaHigh]
       \/ allocator' = [start |-> ArenaLow, end |-> ArenaLow + (ArenaHigh - ArenaLow) - 1]
    /\ UNCHANGED <<alloc_lock, asking, blocks, allocs, wrapped>>

Ask(c, size, align) ==
    /\ asking[c].step = "idle" /\ allocator.end > 0 /\ allocs < MaxAllocs
    /\ asking' = [asking EXCEPT ![c] = [step |-> "lock", size |-> size, align |-> align, start |-> 0]]
    /\ allocs' = allocs + 1
    /\ UNCHANGED <<allocator, alloc_lock, blocks, wrapped>>

LockAllocator(c) ==
    /\ asking[c].step = "lock" /\ alloc_lock = Nobody
    /\ alloc_lock' = c
    /\ asking' = [asking EXCEPT ![c].step = "cut", ![c].start = allocator.start]
    /\ UNCHANGED <<allocator, blocks, allocs, wrapped>>

AlignUp(a, align) == (((a + align - 1) % Space) \div align) * align

(* Mutant: a block that wraps is not refused.                               *)
FitsUnlessPastEnd(new_start, start) == new_start <= allocator.end

CutFits(new_start, start) == new_start <= allocator.end /\ new_start > start

(* __alloc: the block is cut, or NULL returned; the lock is released.       *)
CutBlock(c) ==
    LET q == asking[c]
        ret == AlignUp(q.start, q.align)
        new_start == (ret + q.size) % Space
    IN /\ q.step = "cut"
       /\ IF CutFits(new_start, q.start)
          THEN /\ allocator' = [allocator EXCEPT !.start = new_start]
               /\ blocks' = blocks \cup {[at |-> ret, size |-> q.size, align |-> q.align]}
          ELSE UNCHANGED <<allocator, blocks>>
       /\ wrapped' = (wrapped \/ q.size > Space - q.align)
       /\ asking' = [asking EXCEPT ![c] = NoCall]
       /\ alloc_lock' = Nobody
       /\ UNCHANGED allocs

AllocNext ==
    \/ valloc_init
    \/ \E c \in Caller : \/ LockAllocator(c) \/ CutBlock(c)
                         \/ \E n \in AllocSizes, a \in AllocAligns : Ask(c, n, a)

-----------------------------------------------------------------------------

Bytes(b) == b.at .. b.at + b.size - 1

(* Blocks of all callers are aligned, lie inside the range and apart, and   *)
(* none is cut again; unless the padding of an aligned start wraps with a   *)
(* size (simple-alloc.c:53).                                                *)
BlocksApart ==
    wrapped \/
      /\ \A b \in blocks : b.at % b.align = 0 /\ Bytes(b) \subseteq ArenaLow .. ArenaHigh - 1
      /\ \A b, d \in blocks : b = d \/ Bytes(b) \cap Bytes(d) = {}
      /\ \A b \in blocks : b.at + b.size <= allocator.start
=============================================================================
