-------------------------------- MODULE Heap ---------------------------------
(* The mspace heap of lib/malloc.c as libos configures it: memory comes     *)
(* only from the segments it is given, every call runs under the mspace's   *)
(* lock, and a call that releases the lock between two of its parts         *)
(* (realloc, memalign, independent_calloc) is here several actions.         *)
(*                                                                          *)
(* The heap is a record, one field per field of malloc_state, and each      *)
(* macro of the source is an operator from a heap to a heap.  A header word *)
(* is a record at its address; one that an enclosing chunk has swallowed is *)
(* payload and is forgotten.  A bin is the sequence its links spell, a tree *)
(* node keeps its five pointers.                                            *)
EXTENDS Integers, Sequences, FiniteSets, SequencesExt, FiniteSetsExt

CONSTANTS
    Thread,      \* the threads that call the allocator
    Request,     \* sizes asked for
    Alignment,   \* alignments asked for, powers of two
    Batches,     \* sequences of sizes for independent_comalloc
    Products,    \* pairs (n_elements, elem_size) for calloc
    Word,        \* bytes in a size_t
    Bits,        \* bits in a size_t
    StateBytes,  \* sizeof(struct malloc_state)
    MaxLive,     \* bound: blocks callers hold at a time
    MaxCalls     \* bound: calls into the allocator

VARIABLES
    ms,     \* the mspace
    live,   \* blocks the callers own: [mem, bytes, align]
    op,     \* what each thread has under way between two critical sections
    made    \* calls so far

heapVars == <<ms, live, op, made>>

Null == 0
OwnBin == -1            \* a parent pointer that points to the treebin itself
Align == 8              \* MALLOC_ALIGNMENT
NSmallBins == 32
NTreeBins == 32
TreeShift == 8
Modulus == 2 ^ Bits
Up(a, n) == ((a + n - 1) \div n) * n

(* ---------------------------- Sizes and bins ---------------------------- *)

MinChunk == Up(4 * Word, Align)
chunk2mem(p) == p + 2 * Word
mem2chunk(mem) == mem - 2 * Word
align_as_chunk(a) == Up(a + 2 * Word, Align) - 2 * Word
MaxRequest == Modulus - 4 * MinChunk
pad_request(req) == Up(req + Word, Align)
request2size(req) == IF req < MinChunk - Word - 1 THEN MinChunk ELSE pad_request(req)
TopFoot == Up(2 * Word, Align) - 2 * Word + pad_request(4 * Word) + MinChunk

small_index(s) == s \div 8
small_index2size(i) == i * 8
is_small(s) == small_index(s) < NSmallBins

Log2(x) == CHOOSE k \in 0 .. Bits : 2 ^ k <= x /\ x < 2 ^ (k + 1)
Bit(s, b) == IF b < 0 THEN 0 ELSE (s \div 2 ^ b) % 2

compute_tree_index(s) ==
    LET x == s \div 2 ^ TreeShift
        k == Log2(x) IN
    CASE x = 0 -> 0
      [] x > 65535 -> NTreeBins - 1
      [] OTHER -> 2 * k + Bit(s, k + TreeShift - 1)

bit_for_tree_index(i) == IF i = NTreeBins - 1 THEN Bits - 1 ELSE i \div 2 + TreeShift - 2

minsize_for_tree_index(i) ==
    2 ^ (i \div 2 + TreeShift) + (i % 2) * 2 ^ (i \div 2 + TreeShift - 1)

(* Which child a chunk of size s is under at depth d of bin i: the source   *)
(* shifts the size left one bit per level and looks at the sign bit.        *)
Side(s, i, d) == 1 + Bit(s, bit_for_tree_index(i) - d)

(* ------------------------- Head and foot fields ------------------------- *)

(* The chunk's header becomes h; header words inside it become payload.     *)
Put(M, a, h) ==
    [M EXCEPT !.chunk =
        [x \in (DOMAIN @ \ (a + 1 .. a + h.size - 1)) \cup {a} |-> IF x = a THEN h ELSE @[x]]]

chunksize(M, a) == M.chunk[a].size
cinuse(M, a) == M.chunk[a].c
pinuse(M, a) == M.chunk[a].p
next_chunk(M, a) == a + M.chunk[a].size

(* head |= PINUSE_BIT.  prev_foot then belongs to the chunk before.  A word *)
(* that was payload gets the bit as well, and its size only later.          *)
MarkPinuse(M, n) ==
    IF n \in DOMAIN M.chunk
    THEN [M EXCEPT !.chunk[n].p = TRUE, !.chunk[n].foot = 0]
    ELSE Put(M, n, [size |-> 0, c |-> FALSE, p |-> TRUE, foot |-> 0])

set_inuse(M, p, s) ==
    LET old == IF p \in DOMAIN M.chunk THEN M.chunk[p]
               ELSE [size |-> 0, c |-> FALSE, p |-> FALSE, foot |-> 0]
    IN MarkPinuse(Put(M, p, [old EXCEPT !.size = s, !.c = TRUE]), p + s)

set_size_and_pinuse_of_inuse_chunk(M, p, s) ==
    Put(M, p, [size |-> s, c |-> TRUE, p |-> TRUE, foot |-> 0])

set_inuse_and_pinuse(M, p, s) ==
    MarkPinuse(set_size_and_pinuse_of_inuse_chunk(M, p, s), p + s)

set_size_and_pinuse_of_free_chunk(M, p, s) ==
    LET M1 == Put(M, p, [size |-> s, c |-> FALSE, p |-> TRUE, foot |-> 0])
    IN [M1 EXCEPT !.chunk[p + s].foot = s]

set_free_with_pinuse(M, p, s, n) ==
    set_size_and_pinuse_of_free_chunk([M EXCEPT !.chunk[n].p = FALSE], p, s)

(* ------------------------------- Smallbins ------------------------------ *)

(* A bin's sequence starts at its fd; smallmap is the set of bins that are  *)
(* not empty.                                                               *)
smallmap(M) == {i \in DOMAIN M.small : M.small[i] # <<>>}
treemap(M) == {i \in DOMAIN M.tree : M.tree[i] # Null}

insert_small_chunk(M, p, s) == [M EXCEPT !.small[small_index(s)] = <<p>> \o @]

unlink_small_chunk(M, p, s) == [M EXCEPT !.small[small_index(s)] = Remove(@, p)]

unlink_first_small_chunk(M, i) == [M EXCEPT !.small[i] = Tail(@)]

replace_dv(M, p, s) ==
    LET M1 == IF M.dvsize # 0 THEN insert_small_chunk(M, M.dv, M.dvsize) ELSE M
    IN [M1 EXCEPT !.dv = p, !.dvsize = s]

(* --------------------------------- Trees -------------------------------- *)

Node(i, parent, fd, bk) ==
    [index |-> i, kid |-> <<Null, Null>>, parent |-> parent, fd |-> fd, bk |-> bk]

SetNode(M, a, n) == [M EXCEPT !.node = [x \in DOMAIN @ \cup {a} |-> IF x = a THEN n ELSE @[x]]]

(* The node of size s below t, or the last node on the way to where it      *)
(* would be.                                                                *)
RECURSIVE Descend(_, _, _, _, _)
Descend(M, t, s, i, d) ==
    LET k == M.node[t].kid[Side(s, i, d)] IN
    IF chunksize(M, t) = s \/ k = Null THEN [at |-> t, depth |-> d]
    ELSE Descend(M, k, s, i, d + 1)

(* Below the last node met, or on the ring of the node of the same size.    *)
HangAt(M, x, s, i, t, depth) ==
    LET f == M.node[t].fd IN
    IF chunksize(M, t) # s
    THEN [SetNode(M, x, Node(i, t, x, x)) EXCEPT !.node[t].kid[Side(s, i, depth)] = x]
    ELSE [SetNode(M, x, Node(i, Null, f, t)) EXCEPT !.node[t].fd = x, !.node[f].bk = x]

InsertInBin(M, x, s, i) ==
    LET e == Descend(M, M.tree[i], s, i, 0) IN
    IF M.tree[i] = Null
    THEN [SetNode(M, x, Node(i, OwnBin, x, x)) EXCEPT !.tree[i] = x]
    ELSE HangAt(M, x, s, i, e.at, e.depth)

insert_large_chunk(M, x, s) == InsertInBin(M, x, s, compute_tree_index(s))

leftmost_child(M, t) ==
    IF M.node[t].kid[1] # Null THEN M.node[t].kid[1] ELSE M.node[t].kid[2]

rightmost_child(M, t) ==
    IF M.node[t].kid[2] # Null THEN M.node[t].kid[2] ELSE M.node[t].kid[1]

RECURSIVE Deepest(_, _)
Deepest(M, t) ==
    IF rightmost_child(M, t) = Null THEN t ELSE Deepest(M, rightmost_child(M, t))

Without(f, a) == [x \in DOMAIN f \ {a} |-> f[x]]
Replaced(kid, old, new) == [k \in 1 .. 2 |-> IF kid[k] = old THEN new ELSE kid[k]]

Replacement(M, x) ==
    CASE M.node[x].bk # x -> M.node[x].bk
      [] M.node[x].bk = x /\ rightmost_child(M, x) # Null -> Deepest(M, x)
      [] OTHER -> Null

(* The nodes once the replacement r has left its ring or its parent.        *)
Detached(N, x, r) ==
    CASE N[x].bk # x -> [N EXCEPT ![N[x].fd].bk = r, ![r].fd = N[x].fd]
      [] N[x].bk = x /\ r # Null -> [N EXCEPT ![N[r].parent].kid = Replaced(@, r, Null)]
      [] OTHER -> N

(* r takes x's place under x's parent and over x's children.                *)
Adopted(N, x, r) ==
    LET up == N[x].parent
        child(a) == a \in Range(N[x].kid) \ {Null}
        Below == [N EXCEPT ![up].kid = Replaced(@, x, r)]
        Over(a, n) ==
          IF up = Null \/ r = Null THEN n
          ELSE IF a = r THEN [n EXCEPT !.parent = up, !.kid =
                                [k \in 1 .. 2 |-> IF child(N[x].kid[k]) THEN N[x].kid[k] ELSE @[k]]]
          ELSE IF child(a) THEN [n EXCEPT !.parent = r] ELSE n
    IN IF up \in {Null, OwnBin} THEN [a \in DOMAIN N |-> Over(a, N[a])]
       ELSE [a \in DOMAIN N |-> Over(a, Below[a])]

Unhang(M, x, r) ==
    [M EXCEPT !.node = Without(Adopted(Detached(@, x, r), x, r), x),
              !.tree[M.node[x].index] = IF M.node[x].parent # Null /\ @ = x THEN r ELSE @]

unlink_large_chunk(M, x) == Unhang(M, x, Replacement(M, x))

insert_chunk(M, p, s) ==
    IF is_small(s) THEN insert_small_chunk(M, p, s) ELSE insert_large_chunk(M, p, s)

unlink_chunk(M, p, s) ==
    IF is_small(s) THEN unlink_small_chunk(M, p, s) ELSE unlink_large_chunk(M, p)

(* ------------------------------- Segments ------------------------------- *)

segment_holds(s, a) == s.base <= a /\ a < s.base + s.size

segment_holding(M, a) == SelectInSeq(M.seg, LAMBDA s : segment_holds(s, a))

init_top(M, a, size) ==
    LET p == align_as_chunk(a)
        psize == size - (p - a)
        top == Put(M, p, [size |-> psize, c |-> FALSE, p |-> TRUE, foot |-> 0])
    IN [Put(top, p + psize, [size |-> TopFoot, c |-> FALSE, p |-> FALSE, foot |-> 0])
          EXCEPT !.top = p, !.topsize = psize]

EmptyState(base, size) ==
    [chunk |-> [x \in {} |-> 0], small |-> [i \in 0 .. NSmallBins - 1 |-> <<>>],
     tree |-> [i \in 0 .. NTreeBins - 1 |-> Null], node |-> [x \in {} |-> 0],
     dv |-> Null, dvsize |-> 0, top |-> Null, topsize |-> 0,
     least |-> base, footprint |-> size,
     seg |-> <<[base |-> base, size |-> size]>>, own |-> {base}]

init_user_mstate(tbase, tsize) ==
    LET msp == align_as_chunk(tbase)
        size == ((tsize - (msp - tbase)) \div Align) * Align
        msize == pad_request(StateBytes)
        M == set_size_and_pinuse_of_inuse_chunk(EmptyState(msp, size), msp, msize)
    IN init_top(M, msp + msize, size - msize - TopFoot)

(* The null heap when the capacity does not hold the bookkeeping.           *)
create_mspace_with_base(base, capacity) ==
    IF capacity > pad_request(StateBytes) + TopFoot
    THEN init_user_mstate(base, capacity) ELSE EmptyState(Null, 0)

Fence == [size |-> Word, c |-> TRUE, p |-> TRUE, foot |-> 0]

add_segment(M, tbase, tsize) ==
    LET s == M.seg[segment_holding(M, M.top)]
        oldEnd == s.base + s.size
        ssize == pad_request(4 * Word)
        asp == align_as_chunk(oldEnd - (ssize + 4 * Word + Align - 1))
        csp == IF asp < M.top + MinChunk THEN M.top ELSE asp
        \* the end of the old top: record, then fenceposts
        M1 == set_size_and_pinuse_of_inuse_chunk(M, csp, ssize)
        fences == {f \in csp + ssize .. oldEnd - 2 * Word : (f - csp - ssize) % Word = 0}
        M2 == [M1 EXCEPT !.chunk =
                 [x \in {a \in DOMAIN @ : a < csp + ssize \/ a >= oldEnd} \cup fences |->
                    IF x \in fences THEN Fence ELSE @[x]]]
        M3 == init_top(M2, tbase, tsize - TopFoot)
        M4 == [M3 EXCEPT !.seg = <<[base |-> tbase, size |-> tsize]>> \o @, !.own = @ \cup {csp}]
        psize == csp - M.top
    IN IF csp = M.top THEN M4
       ELSE insert_chunk(set_free_with_pinuse(M4, M.top, psize, csp), M.top, psize)

mspace_add_segment(M, base, size) ==
    LET aligned == align_as_chunk(base)
        usable == ((size - (aligned - base)) \div Align) * Align
    IN add_segment([M EXCEPT !.least = IF aligned < @ THEN aligned ELSE @], aligned, usable)

(* ------------------------- malloc and free ------------------------------ *)

(* trem < rsize with the source's unsigned negation: the chunk is large     *)
(* enough and leaves less than the best so far.                             *)
Better(M, t, v, nb) ==
    chunksize(M, t) >= nb /\ (v = Null \/ chunksize(M, t) < chunksize(M, v))

RECURSIVE LeastBelow(_, _, _, _)
LeastBelow(M, t, nb, v) ==
    IF t = Null THEN v
    ELSE LeastBelow(M, leftmost_child(M, t), nb, IF Better(M, t, v, nb) THEN t ELSE v)

(* The walk down the request's own bin: the best node met, and the subtree  *)
(* that holds the least sizes above the request.                            *)
RECURSIVE OwnBinWalk(_, _, _, _, _, _, _)
OwnBinWalk(M, t, nb, i, d, v, rst) ==
    LET w == IF Better(M, t, v, nb) THEN t ELSE v
        next == M.node[t].kid[Side(nb, i, d)]
        right == M.node[t].kid[2]
        r == IF right # Null /\ right # next THEN right ELSE rst
    IN IF chunksize(M, t) = nb THEN [v |-> t, t |-> t]
       ELSE IF next = Null THEN [v |-> w, t |-> r]
       ELSE OwnBinWalk(M, next, nb, i, d + 1, w, r)

BestFrom(M, nb, own, above) ==
    LeastBelow(M, IF own.t = Null /\ own.v = Null /\ above # {} THEN M.tree[Min(above)] ELSE own.t,
               nb, own.v)

BestInTrees(M, nb, i) ==
    BestFrom(M, nb, IF M.tree[i] = Null THEN [v |-> Null, t |-> Null]
                    ELSE OwnBinWalk(M, M.tree[i], nb, i, 0, Null, Null),
             {j \in treemap(M) : j > i})

(* v leaves its tree; what is left of it becomes dv or goes to a bin.       *)
SplitOff(M, v, nb, rsize, dv) ==
    LET M1 == set_size_and_pinuse_of_free_chunk(
                set_size_and_pinuse_of_inuse_chunk(M, v, nb), v + nb, rsize)
    IN IF rsize < MinChunk THEN set_inuse_and_pinuse(M, v, rsize + nb)
       ELSE IF dv THEN replace_dv(M1, v + nb, rsize)
       ELSE insert_chunk(M1, v + nb, rsize)

SplitFromTree(M, v, nb, dv) ==
    SplitOff(unlink_large_chunk(M, v), v, nb, chunksize(M, v) - nb, dv)

(* Null when nothing fits or dv fits better: the caller goes on to dv.      *)
LargeFrom(M, nb, v) ==
    IF v # Null /\ (M.dvsize < nb \/ chunksize(M, v) - nb < M.dvsize - nb)
    THEN [m |-> SplitFromTree(M, v, nb, FALSE), at |-> v]
    ELSE [m |-> M, at |-> Null]

tmalloc_large(M, nb) == LargeFrom(M, nb, BestInTrees(M, nb, compute_tree_index(nb)))

SmallFrom(M, nb, v) == [m |-> SplitFromTree(M, v, nb, TRUE), at |-> v]

tmalloc_small(M, nb) ==
    LET root == M.tree[Min(treemap(M))]
    IN SmallFrom(M, nb, LeastBelow(M, leftmost_child(M, root), nb, root))

FromSmallbin(M, nb, i) ==
    LET p == M.small[i][1]
        size == small_index2size(i)
        M1 == unlink_first_small_chunk(M, i)
        M2 == set_size_and_pinuse_of_free_chunk(
                  set_size_and_pinuse_of_inuse_chunk(M1, p, nb), p + nb, size - nb)
    IN [at |-> p,
        m |-> IF i <= small_index(nb) + 1 \/ (Word # 4 /\ size - nb < MinChunk)
              THEN set_inuse_and_pinuse(M1, p, size)
              ELSE replace_dv(M2, p + nb, size - nb)]

FromDv(M, nb) ==
    LET p == M.dv
        rsize == M.dvsize - nb
    IN [at |-> p,
        m |-> IF rsize >= MinChunk
              THEN set_size_and_pinuse_of_inuse_chunk(
                     set_size_and_pinuse_of_free_chunk(
                       [M EXCEPT !.dv = p + nb, !.dvsize = rsize], p + nb, rsize), p, nb)
              ELSE set_inuse_and_pinuse([M EXCEPT !.dv = Null, !.dvsize = 0], p, M.dvsize)]

FromTop(M, nb) ==
    LET p == M.top
        rsize == M.topsize - nb
        M1 == Put([M EXCEPT !.top = p + nb, !.topsize = rsize], p + nb,
                  [size |-> rsize, c |-> FALSE, p |-> TRUE, foot |-> 0])
    IN [at |-> p, m |-> set_size_and_pinuse_of_inuse_chunk(M1, p, nb)]

IsSmallRequest(bytes) == bytes <= 2 ^ TreeShift - 1 - (Align - 1) - Word

RequestSize(bytes) ==
    CASE IsSmallRequest(bytes) -> request2size(bytes)
      [] ~IsSmallRequest(bytes) /\ bytes >= MaxRequest -> Modulus - 1
      [] OTHER -> pad_request(bytes)

DvOrTop(M, nb) ==
    CASE nb <= M.dvsize -> FromDv(M, nb)
      [] nb > M.dvsize /\ nb < M.topsize -> FromTop(M, nb)
      [] OTHER -> [m |-> M, at |-> Null]              \* sys_alloc gives none

SmallMalloc(M, nb, i, bins) ==
    CASE {i, i + 1} \cap bins # {} -> FromSmallbin(M, nb, Min({i, i + 1} \cap bins))
      [] {i, i + 1} \cap bins = {} /\ nb > M.dvsize /\ {j \in bins : j > i} # {} ->
           FromSmallbin(M, nb, Min({j \in bins : j > i}))
      [] bins \cap (i .. NSmallBins) = {} /\ nb > M.dvsize /\ treemap(M) # {} -> tmalloc_small(M, nb)
      [] OTHER -> DvOrTop(M, nb)

LargeMalloc(M, nb, fromTree) == IF fromTree.at # Null THEN fromTree ELSE DvOrTop(M, nb)

(* The chunk given out and the heap after it.                               *)
mspace_malloc(M, bytes) ==
    LET nb == RequestSize(bytes) IN
    IF IsSmallRequest(bytes) THEN SmallMalloc(M, nb, small_index(nb), smallmap(M))
    ELSE LargeMalloc(M, nb, IF bytes < MaxRequest /\ treemap(M) # {} THEN tmalloc_large(M, nb)
                            ELSE [m |-> M, at |-> Null])

(* Mutant: merging with the top leaves dv pointing at what was swallowed.   *)
FreeKeepingDv(M, p, psize, next) ==
    LET nsize == chunksize(M, next)
        M1 == set_size_and_pinuse_of_free_chunk(unlink_chunk(M, next, nsize), p, psize + nsize)
    IN IF cinuse(M, next)
       THEN insert_chunk(set_free_with_pinuse(M, p, psize, next), p, psize)
       ELSE IF next = M.top
       THEN [Put(M, p, [size |-> M.topsize + psize, c |-> FALSE, p |-> TRUE, foot |-> 0])
               EXCEPT !.top = p, !.topsize = @ + psize]
       ELSE IF next = M.dv
       THEN [set_size_and_pinuse_of_free_chunk(M, p, M.dvsize + psize)
               EXCEPT !.dv = p, !.dvsize = @ + psize]
       ELSE IF p = M.dv THEN [M1 EXCEPT !.dvsize = psize + nsize]
       ELSE insert_chunk(M1, p, psize + nsize)

(* The chunk p, swollen by a free neighbour in front, meets what follows.   *)
FreeForward(M, p, psize, next) ==
    LET nsize == chunksize(M, next)
        M1 == set_size_and_pinuse_of_free_chunk(unlink_chunk(M, next, nsize), p, psize + nsize)
    IN IF cinuse(M, next)
       THEN insert_chunk(set_free_with_pinuse(M, p, psize, next), p, psize)
       ELSE IF next = M.top
       THEN [Put(M, p, [size |-> M.topsize + psize, c |-> FALSE, p |-> TRUE, foot |-> 0])
               EXCEPT !.top = p, !.topsize = @ + psize,
                      !.dv = IF p = @ THEN Null ELSE @,
                      !.dvsize = IF p = M.dv THEN 0 ELSE @]
       ELSE IF next = M.dv
       THEN [set_size_and_pinuse_of_free_chunk(M, p, M.dvsize + psize)
               EXCEPT !.dv = p, !.dvsize = @ + psize]
       ELSE IF p = M.dv THEN [M1 EXCEPT !.dvsize = psize + nsize]
       ELSE insert_chunk(M1, p, psize + nsize)

mspace_free(M, p) ==
    LET psize == chunksize(M, p)
        next == p + psize
        prevsize == M.chunk[p].foot
        prev == p - prevsize
    IN IF pinuse(M, p) THEN FreeForward(M, p, psize, next)
       ELSE IF prev # M.dv
       THEN FreeForward(unlink_chunk(M, prev, prevsize), prev, psize + prevsize, next)
       ELSE IF cinuse(M, next) /\ pinuse(M, next)
       THEN set_free_with_pinuse([M EXCEPT !.dvsize = psize + prevsize], prev, psize + prevsize, next)
       ELSE FreeForward(M, prev, psize + prevsize, next)

(* ------------------------- The callers' operations ---------------------- *)

Idle == [kind |-> "idle"]
Block(p, bytes, align) == [mem |-> chunk2mem(p), bytes |-> bytes, align |-> align]

(* The call ends with the chunks in todo given back one after the other,    *)
(* and then returns ret.                                                    *)
Freeing(todo, ret) == [kind |-> "free", todo |-> todo, ret |-> ret]

Held(t) == CASE op[t].kind = "idle" -> {}
             [] op[t].kind = "free" -> {mem2chunk(op[t].ret.mem)} \cup Range(op[t].todo)
             [] OTHER -> {op[t].chunk}

Room(n) ==
    Cardinality(live) + Cardinality({t \in Thread : op[t].kind # "idle"}) + n <= MaxLive

(* A thread with nothing under way makes a call.                            *)
Enter(t) == op[t].kind = "idle" /\ made < MaxCalls /\ made' = made + 1

Return(t, blocks) == live' = live \cup blocks /\ op' = [op EXCEPT ![t] = Idle]

(* One locked call: the block is the caller's, or there was no memory.      *)
Take(t, req, bytes) ==
    LET r == mspace_malloc(ms, req) IN
    /\ Enter(t)
    /\ Room(1)
    /\ ms' = r.m
    /\ Return(t, IF r.at = Null THEN {} ELSE {Block(r.at, bytes, Align)})

Malloc(t) == \E bytes \in Request : Take(t, bytes, bytes)

HalfMask == 2 ^ (Bits \div 2) - 1

(* The product modulo the word, or more than there is when it overflowed.   *)
CallocSize(n, elem) ==
    LET req == (n * elem) % Modulus IN
    IF n # 0 /\ (n > HalfMask \/ elem > HalfMask) /\ req \div n # elem
    THEN Modulus - 1 ELSE req

Calloc(t) == \E pr \in Products : Take(t, CallocSize(pr[1], pr[2]), pr[1] * pr[2])

Free(t) ==
    \E b \in live :
      /\ Enter(t)
      /\ ms' = mspace_free(ms, mem2chunk(b.mem))
      /\ live' = live \ {b}
      /\ UNCHANGED op

ShrinkOrStay(t, b, bytes) ==
    LET p == mem2chunk(b.mem)
        nb == request2size(bytes)
        rsize == chunksize(ms, p) - nb
        new == Block(p, bytes, Align)
    IN /\ rsize >= 0
       /\ IF rsize >= MinChunk
          THEN /\ ms' = set_inuse(set_inuse(ms, p, nb), p + nb, rsize)
               /\ live' = live \ {b}
               /\ op' = [op EXCEPT ![t] = Freeing(<<p + nb>>, new)]
          ELSE ms' = ms /\ live' = (live \ {b}) \cup {new} /\ UNCHANGED op

(* Expand into top.                                                         *)
GrowIntoTop(t, b, bytes) ==
    LET p == mem2chunk(b.mem)
        nb == request2size(bytes)
        newsize == chunksize(ms, p) + ms.topsize
        M1 == Put([ms EXCEPT !.top = p + nb, !.topsize = newsize - nb], p + nb,
                  [size |-> newsize - nb, c |-> FALSE, p |-> TRUE, foot |-> 0])
    IN /\ ms' = set_inuse(M1, p, nb)
       /\ live' = (live \ {b}) \cup {Block(p, bytes, Align)}
       /\ UNCHANGED op

Realloc(t) ==
    \E b \in live, bytes \in Request :
      LET p == mem2chunk(b.mem)
          nb == request2size(bytes)
          grows == chunksize(ms, p) < nb
          top == next_chunk(ms, p) = ms.top /\ chunksize(ms, p) + ms.topsize > nb
      IN /\ Enter(t)
         /\ bytes < MaxRequest
         /\ \/ ShrinkOrStay(t, b, bytes)
            \/ grows /\ top /\ GrowIntoTop(t, b, bytes)
            \/ /\ grows /\ ~top
               /\ op' = [op EXCEPT ![t] = [kind |-> "move", chunk |-> p, old |-> b, bytes |-> bytes]]
               /\ live' = live \ {b}
               /\ UNCHANGED ms

(* malloc, copy, free the old block: the lock is not held across them.      *)
ReallocMove(t) ==
    LET r == mspace_malloc(ms, op[t].bytes) IN
    /\ op[t].kind = "move" /\ UNCHANGED made
    /\ ms' = r.m
    /\ IF r.at = Null THEN Return(t, {op[t].old})
       ELSE /\ op' = [op EXCEPT ![t] = Freeing(<<op[t].chunk>>, Block(r.at, op[t].bytes, Align))]
            /\ UNCHANGED live

FreePending(t) ==
    /\ op[t].kind = "free" /\ UNCHANGED made
    /\ ms' = mspace_free(ms, Head(op[t].todo))
    /\ IF Len(op[t].todo) = 1 THEN Return(t, {op[t].ret})
       ELSE op' = [op EXCEPT ![t].todo = Tail(@)] /\ UNCHANGED live

(* An over-sized block first; alloc() comes here for alignments above 8.    *)
Memalign(t) ==
    \E bytes \in Request, a \in Alignment :
      LET align == IF a < MinChunk THEN MinChunk ELSE a
          nb == request2size(bytes)
          r == mspace_malloc(ms, nb + align + MinChunk - Word)
      IN /\ Enter(t)
         /\ Room(1)
         /\ a > Align
         /\ bytes < MaxRequest - align
         /\ r.at # Null
         /\ ms' = r.m
         /\ op' = [op EXCEPT ![t] =
                     [kind |-> "carve", chunk |-> r.at, bytes |-> bytes, align |-> align]]
         /\ UNCHANGED live

(* Give back what is before the aligned place and what is after the block.  *)
Carve(t) ==
    LET p == op[t].chunk
        align == op[t].align
        nb == request2size(op[t].bytes)
        br == mem2chunk(Up(chunk2mem(p), align))
        pos == CASE chunk2mem(p) % align = 0 -> p
                 [] chunk2mem(p) % align # 0 /\ br - p >= MinChunk -> br
                 [] OTHER -> br + align
        M1 == IF pos = p THEN ms
              ELSE set_inuse(set_inuse(ms, pos, chunksize(ms, p) - (pos - p)), p, pos - p)
        spare == chunksize(M1, pos) - nb
        trailing == spare > MinChunk
        todo == (IF pos = p THEN <<>> ELSE <<p>>) \o (IF trailing THEN <<pos + nb>> ELSE <<>>)
        ret == Block(pos, op[t].bytes, align)
    IN /\ op[t].kind = "carve" /\ UNCHANGED made
       /\ ms' = IF trailing THEN set_inuse(set_inuse(M1, pos, nb), pos + nb, spare) ELSE M1
       /\ IF todo = <<>> THEN Return(t, {ret})
          ELSE op' = [op EXCEPT ![t] = Freeing(todo, ret)] /\ UNCHANGED live

Total(sizes) == FoldSeq(LAMBDA x, acc : request2size(x) + acc, 0, sizes)

(* independent_calloc and independent_comalloc: one chunk for all, with the *)
(* array of pointers behind the elements when the caller brings none.       *)
Ialloc(t) ==
    \E sizes \in Batches, array \in BOOLEAN :
      LET words == IF array THEN request2size(Len(sizes) * Word) ELSE 0
          r == mspace_malloc(ms, Total(sizes) + words - Word)
      IN /\ Enter(t)
         /\ Room(Len(sizes) + 1)
         /\ r.at # Null
         /\ ms' = r.m
         /\ op' = [op EXCEPT ![t] = [kind |-> "split", chunk |-> r.at, sizes |-> sizes, array |-> array]]
         /\ UNCHANGED live

SplitElements(t) ==
    LET p == op[t].chunk
        n == Len(op[t].sizes)
        contents == Total(op[t].sizes)
        whole == chunksize(ms, p)
        at(i) == p + Total(SubSeq(op[t].sizes, 1, i - 1))
        \* the array takes what is left over, or else the last element does
        size(i) == CASE i < n -> request2size(op[t].sizes[i])
                     [] i = n /\ ~op[t].array -> whole - (at(n) - p)
                     [] OTHER -> contents - (at(n) - p)
        M1 == IF op[t].array
              THEN set_size_and_pinuse_of_inuse_chunk(ms, p + contents, whole - contents) ELSE ms
        blocks == {Block(at(i), op[t].sizes[i], Align) : i \in 1 .. n}
    IN /\ op[t].kind = "split" /\ UNCHANGED made
       /\ ms' = FoldLeftDomain(LAMBDA M, i : set_size_and_pinuse_of_inuse_chunk(M, at(i), size(i)),
                               M1, op[t].sizes)
       /\ Return(t, blocks \cup (IF op[t].array THEN {Block(p + contents, n * Word, Align)} ELSE {}))

HeapNext ==
    \E t \in Thread :
      \/ Malloc(t) \/ Calloc(t) \/ Free(t) \/ Realloc(t) \/ ReallocMove(t)
      \/ FreePending(t) \/ Memalign(t) \/ Carve(t) \/ Ialloc(t) \/ SplitElements(t)

(* ------------------------- The source's own checks ---------------------- *)

check_any_chunk(M, p) ==
    M.chunk[p] = Fence \/ (chunk2mem(p) % Align = 0 /\ p >= M.least)

check_inuse_chunk(M, p) ==
    /\ check_any_chunk(M, p)
    /\ cinuse(M, p)
    /\ pinuse(M, next_chunk(M, p))
    /\ pinuse(M, p) \/ next_chunk(M, p - M.chunk[p].foot) = p

check_free_chunk(M, p) ==
    LET n == next_chunk(M, p) IN
    /\ check_any_chunk(M, p)
    /\ ~cinuse(M, p) /\ ~pinuse(M, n)
    /\ p # M.dv =>
         /\ chunksize(M, p) >= MinChunk /\ chunksize(M, p) % Align = 0
         /\ M.chunk[n].foot = chunksize(M, p)
         /\ pinuse(M, p)
         /\ n = M.top \/ cinuse(M, n)

check_top_chunk(M) ==
    LET s == M.seg[segment_holding(M, M.top)] IN
    /\ check_any_chunk(M, M.top)
    /\ chunksize(M, M.top) = M.topsize
    /\ M.topsize > 0
    /\ M.topsize = s.base + s.size - M.top - TopFoot
    /\ pinuse(M, M.top) /\ ~pinuse(M, next_chunk(M, M.top))

RECURSIVE Chain(_, _, _)
Chain(M, t, seen) == IF t \in seen THEN seen ELSE Chain(M, M.node[t].fd, seen \cup {t})

RECURSIVE check_tree(_, _)
check_tree(M, t) ==
    LET n == M.node[t]
        i == compute_tree_index(chunksize(M, t))
    IN /\ n.index = i
       /\ chunksize(M, t) >= minsize_for_tree_index(i)
       /\ i = NTreeBins - 1 \/ chunksize(M, t) < minsize_for_tree_index(i + 1)
       /\ \A u \in Chain(M, t, {}) :
            /\ M.node[u].index = i /\ chunksize(M, u) = chunksize(M, t)
            /\ ~cinuse(M, u) /\ ~pinuse(M, next_chunk(M, u))
            /\ M.node[M.node[u].fd].bk = u /\ M.node[M.node[u].bk].fd = u
            /\ u # t => M.node[u].parent = Null /\ M.node[u].kid = <<Null, Null>>
       /\ n.parent # Null
       /\ n.parent = OwnBin => M.tree[i] = t
       /\ n.parent # OwnBin => t \in Range(M.node[n.parent].kid)
       /\ \A k \in Range(n.kid) \ {Null} : M.node[k].parent = t /\ k # t /\ check_tree(M, k)
       /\ Null \notin Range(n.kid) => chunksize(M, n.kid[1]) < chunksize(M, n.kid[2])

check_smallbin(M, i) ==
    \A p \in Range(M.small[i]) :
      small_index(chunksize(M, p)) = i /\ check_free_chunk(M, p)

bin_find(M, x) ==
    LET s == chunksize(M, x)
        i == compute_tree_index(s)
        t == Descend(M, M.tree[i], s, i, 0).at
    IN IF is_small(s) THEN x \in Range(M.small[small_index(s)])
       ELSE M.tree[i] # Null /\ chunksize(M, t) = s /\ x \in Chain(M, t, {})

(* The chunks of a segment from its base to the top or the first fence.     *)
RECURSIVE Chunks(_, _)
Chunks(M, q) ==
    IF q = M.top \/ M.chunk[q] = Fence THEN <<>> ELSE <<q>> \o Chunks(M, next_chunk(M, q))

traverse_and_check(M) ==
    \A s \in Range(M.seg) :
      LET qs == Chunks(M, align_as_chunk(s.base)) IN
      \A j \in DOMAIN qs :
        LET q == qs[j] IN
        /\ segment_holds(s, q)
        /\ j = 1 => pinuse(M, q)
        /\ IF cinuse(M, q) THEN ~bin_find(M, q) /\ check_inuse_chunk(M, q)
           ELSE /\ q = M.dv \/ bin_find(M, q)
                /\ j > 1 => cinuse(M, qs[j - 1])
                /\ check_free_chunk(M, q)

check_malloc_state(M) ==
    /\ \A i \in DOMAIN M.small : check_smallbin(M, i)
    /\ \A i \in treemap(M) : check_tree(M, M.tree[i])
    /\ M.dvsize # 0 =>
         /\ check_any_chunk(M, M.dv) /\ M.dvsize = chunksize(M, M.dv)
         /\ M.dvsize >= MinChunk /\ ~bin_find(M, M.dv)
    /\ check_top_chunk(M) /\ ~bin_find(M, M.top)
    /\ traverse_and_check(M)

(* ------------------------------- Properties ----------------------------- *)

(* The heap passes the checks of do_check_malloc_state (malloc.c:2815)      *)
(* after every step of every caller: chunks tile the segments, no two free  *)
(* ones touch, every free one is in its bin, and the trees are in order.    *)
(* Left out is total <= footprint, which adding a segment falsifies.        *)
ChecksPass == check_malloc_state(ms)

InUse(M) ==
    {q \in UNION {Range(Chunks(M, align_as_chunk(s.base))) : s \in Range(M.seg)} : cinuse(M, q)}

Blocks == live \cup {op[t].ret : t \in {u \in Thread : op[u].kind = "free"}}

(* What callers hold are chunks in use, of the size and alignment they      *)
(* asked for, and no two of them overlap; and every chunk in use is held by *)
(* a caller, by a call under way, or by the heap itself: nothing leaks when *)
(* realloc or memalign let other threads in between their parts.            *)
EveryBlockHeld ==
    LET of(b) == mem2chunk(b.mem)
        held(t) == Held(t)
    IN /\ \A b \in Blocks : /\ of(b) \in InUse(ms)
                            /\ b.bytes <= chunksize(ms, of(b)) - Word
                            /\ b.mem % b.align = 0
       /\ \A b, c \in Blocks : b # c => b.mem + b.bytes <= c.mem \/ c.mem + c.bytes <= b.mem
       /\ InUse(ms) = {of(b) : b \in live} \cup UNION {held(t) : t \in Thread} \cup ms.own
       /\ Cardinality(InUse(ms)) = Cardinality(live) + Cardinality(ms.own)
                                   + FoldSet(LAMBDA t, n : n + Cardinality(held(t)), 0, Thread)

Free1(M) ==
    {q \in UNION {Range(Chunks(M, align_as_chunk(s.base))) : s \in Range(M.seg)} : ~cinuse(M, q)}

(* malloc says no only when no free chunk and not the top could serve the   *)
(* request; it never gives a chunk that is a whole minimal chunk too large; *)
(* and a request the trees serve gets the smallest of their chunks that     *)
(* will do (malloc.c:3707).                                                 *)
FitsAreFound ==
    \A bytes \in Request :
      LET nb == RequestSize(bytes)
          r == mspace_malloc(ms, bytes)
          fits == {q \in Free1(ms) : chunksize(ms, q) >= nb}
      IN /\ r.at = Null <=> fits = {} /\ ms.topsize <= nb
         /\ r.at # Null => chunksize(r.m, r.at) \in nb .. nb + MinChunk - 1
         /\ ~IsSmallRequest(bytes) /\ r.at \in (DOMAIN ms.node \cup {ms.dv}) \ {Null} =>
              chunksize(ms, r.at) = Min({chunksize(ms, q) : q \in fits})
=============================================================================
