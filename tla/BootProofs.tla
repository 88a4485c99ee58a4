----------------------------- MODULE BootProofs ------------------------------
(***************************************************************************)
(* Proofs about what a core does on its way up: SimpleAlloc, for every     *)
(* width of addresses, range, callers and calls of any size and alignment; *)
(* Segments, for every size of the table, any ranges and any number of     *)
(* calls; BootMmu, for every entry the loader runs the code under and every*)
(* place of the image; Driver, for every table of drivers; and Tlb1, for   *)
(* every set of page sizes and every range.                                *)
(***************************************************************************)
EXTENDS SimpleAlloc, Segments, BootMmu, Driver, Tlb1, FiniteSetTheorems, SequenceTheorems,
        NaturalsInduction, WellFoundedInduction, TLAPS

AllocSpec == AllocInit /\ [][AllocNext]_allocVars

Asked == [step : {"idle", "lock", "cut"}, size : 0 .. Space - 1, align : 1 .. Space,
         start : 0 .. Space - 1]

AllocTyped ==
    /\ allocator \in [start : Nat, end : Nat]
    /\ asking \in [Caller -> Asked]
    /\ blocks \subseteq [at : Nat, size : 0 .. Space - 1, align : 1 .. Space]
    /\ wrapped \in BOOLEAN

(* The range shrinks from its front; who is cutting holds the lock, so what *)
(* it read of the start is still true.                                      *)
Arena ==
    /\ allocator.end = 0 => blocks = {} /\ \A c \in Caller : asking[c].step = "idle"
    /\ allocator.end > 0 => /\ ArenaLow <= allocator.start /\ allocator.start <= allocator.end
                            /\ allocator.end <= ArenaHigh
Cutting ==
    \A c \in Caller : asking[c].step = "cut" => alloc_lock = c /\ asking[c].start = allocator.start

AllocInv == AllocTyped /\ Arena /\ Cutting /\ BlocksApart

(* Rounding down to a multiple of the alignment.                            *)
LEMMA RoundDown ==
    ASSUME NEW m \in Nat, NEW a \in Nat \ {0}
    PROVE  /\ (m \div a) * a \in Nat
           /\ (m \div a) * a <= m /\ m < (m \div a) * a + a
           /\ ((m \div a) * a) % a = 0
<1>1. m \div a \in Nat
  OBVIOUS
<1>2. (m \div a) * a <= m /\ m < (m \div a) * a + a /\ (m \div a) * a \in Nat
  BY <1>1
<1>3. ASSUME NEW k \in Nat PROVE (k * a) % a = 0
  OBVIOUS
<1> QED BY <1>1, <1>2, <1>3

LEMMA ModWithin ==
    ASSUME NEW m \in Nat, NEW n \in Nat \ {0}, m < 2 * n
    PROVE  m % n = IF m < n THEN m ELSE m - n
  OBVIOUS

LEMMA SumModWithin ==
    ASSUME NEW a \in Nat, NEW b \in Nat, NEW n \in Nat \ {0}, a + b < 2 * n
    PROVE  (a + b) % n = IF a + b < n THEN a + b ELSE a + b - n
  OBVIOUS

LEMMA AllocInit_AllocInv == AllocInit => AllocInv
<1> SUFFICES ASSUME AllocInit PROVE AllocInv
  OBVIOUS
<1>1. 0 \in 0 .. Space - 1 /\ 1 \in 1 .. Space
  BY ArenaAssumption
<1>2. AllocTyped
  BY <1>1 DEF AllocInit, AllocTyped, Asked, NoCall
<1>3. Arena /\ Cutting /\ BlocksApart
  BY DEF AllocInit, Arena, Cutting, BlocksApart, NoCall
<1> QED BY <1>2, <1>3 DEF AllocInv

(* What the test of __alloc rules out: a block that fits begins at or after *)
(* the old start and ends, in the integers, at the new one.                 *)
LEMMA CutWithin ==
    ASSUME NEW start \in 0 .. Space - 1, NEW size \in 0 .. Space - 1, NEW align \in 1 .. Space,
           size <= Space - align, allocator \in [start : Nat, end : Nat],
           CutFits((AlignUp(start, align) + size) % Space, start)
    PROVE  LET at == AlignUp(start, align)
           IN /\ at \in Nat /\ at >= start /\ at % align = 0
              /\ (at + size) % Space = at + size /\ at + size <= allocator.end
<1> DEFINE at == AlignUp(start, align)
           m == start + align - 1
           new == (at + size) % Space
<1>1. Space \in Nat \ {0} /\ start < Space /\ align <= Space /\ align \in Nat \ {0} /\ m \in Nat /\ size \in Nat
      /\ start \in Nat /\ size < Space /\ size + align <= Space
  <2>1. Space \in Nat
    BY ArenaAssumption
  <2> HIDE DEF m
  <2> QED BY <2>1 DEF m
<1>2. m % Space = IF m < Space THEN m ELSE m - Space
  <2>1. m < 2 * Space
    BY <1>1
  <2> HIDE DEF m
  <2> QED BY <1>1, <2>1, ModWithin
<1>3. m % Space \in Nat
  <2> HIDE DEF m
  <2> QED BY <1>1, <1>2
<1>4. at \in Nat /\ at <= m % Space /\ m % Space < at + align /\ at % align = 0
  BY <1>1, <1>3, RoundDown DEF AlignUp
<1>5. new > start /\ new <= allocator.end
  BY DEF CutFits
<1> HIDE DEF at, m
<1>6. new = IF at + size < Space THEN at + size ELSE at + size - Space
  <2>1. at + size \in Nat /\ at + size < 2 * Space
    BY <1>1, <1>2, <1>4
  <2> HIDE DEF new
  <2>2. new = (at + size) % Space
    BY DEF new
  <2> QED BY <1>1, <1>4, <2>1, <2>2, SumModWithin
<1> HIDE DEF new
<1>7. m < Space
  BY <1>1, <1>2, <1>4, <1>5, <1>6 DEF m
<1>8. at >= start
  BY <1>1, <1>2, <1>4, <1>7 DEF m
<1>9. at + size < Space
  BY <1>1, <1>2, <1>4, <1>5, <1>6, <1>7 DEF m
<1> QED BY <1>4, <1>5, <1>6, <1>8, <1>9, <1>1 DEF at, new

LEMMA valloc_init_AllocInv == AllocInv /\ valloc_init => AllocInv'
<1> SUFFICES ASSUME AllocInv, valloc_init PROVE AllocInv'
  OBVIOUS
<1>1. blocks = {} /\ \A c \in Caller : asking[c].step = "idle"
  BY DEF AllocInv, Arena, valloc_init
<1>2. /\ allocator' \in [start : Nat, end : Nat]
      /\ allocator'.end > 0
      /\ ArenaLow <= allocator'.start /\ allocator'.start <= allocator'.end /\ allocator'.end <= ArenaHigh
  BY ArenaAssumption DEF valloc_init
<1>3. UNCHANGED <<alloc_lock, asking, blocks, allocs, wrapped>>
  BY DEF valloc_init
<1>4. AllocTyped'
  BY <1>2, <1>3 DEF AllocInv, AllocTyped
<1>5. Arena'
  BY <1>2 DEF Arena
<1>6. Cutting'
  BY <1>1, <1>3 DEF Cutting
<1>7. BlocksApart'
  BY <1>1, <1>3 DEF BlocksApart
<1> QED BY <1>4, <1>5, <1>6, <1>7 DEF AllocInv

LEMMA Ask_AllocInv ==
    ASSUME NEW c \in Caller, NEW n \in AllocSizes, NEW a \in AllocAligns, AllocInv, Ask(c, n, a)
    PROVE  AllocInv'
<1>1. UNCHANGED <<allocator, alloc_lock, blocks, wrapped>> /\ allocator.end > 0
  BY DEF Ask
<1>2. asking' = [asking EXCEPT ![c] = [step |-> "lock", size |-> n, align |-> a, start |-> 0]]
  BY DEF Ask
<1>3. n \in 0 .. Space - 1 /\ a \in 1 .. Space /\ 0 \in 0 .. Space - 1
  BY ArenaAssumption
<1>4. AllocTyped'
  BY <1>1, <1>2, <1>3 DEF AllocInv, AllocTyped, Asked
<1>5. Arena'
  <2>1. allocator.end # 0
    BY <1>1
  <2> QED BY <1>1, <2>1 DEF AllocInv, Arena
<1>6. Cutting'
  BY <1>1, <1>2 DEF AllocInv, AllocTyped, Cutting
<1>7. BlocksApart'
  BY <1>1 DEF AllocInv, BlocksApart, Bytes
<1> QED BY <1>4, <1>5, <1>6, <1>7 DEF AllocInv

LEMMA LockAllocator_AllocInv ==
    ASSUME NEW c \in Caller, AllocInv, LockAllocator(c)
    PROVE  AllocInv'
<1>1. UNCHANGED <<allocator, blocks, wrapped>> /\ asking[c].step = "lock" /\ alloc_lock = Nobody
  BY DEF LockAllocator
<1>2. alloc_lock' = c /\ asking' = [asking EXCEPT ![c].step = "cut", ![c].start = allocator.start]
  BY DEF LockAllocator
<1>3. allocator.end # 0 /\ allocator.end \in Nat /\ allocator.start \in Nat
  BY <1>1 DEF AllocInv, AllocTyped, Arena
<1>4. allocator.start \in 0 .. Space - 1
  BY <1>3, ArenaAssumption DEF AllocInv, Arena
<1>5. AllocTyped'
  BY <1>1, <1>2, <1>4 DEF AllocInv, AllocTyped, Asked
<1>6. Arena'
  BY <1>1, <1>3 DEF AllocInv, Arena
<1>7. Cutting'
  <2>1. \A d \in Caller : asking[d].step # "cut"
    BY <1>1, CallerAssumption DEF AllocInv, Cutting
  <2> QED BY <1>1, <1>2, <2>1 DEF AllocInv, AllocTyped, Cutting, Asked
<1>8. BlocksApart'
  BY <1>1 DEF AllocInv, BlocksApart, Bytes
<1> QED BY <1>5, <1>6, <1>7, <1>8 DEF AllocInv

(* The step that matters: what is cut lies beyond every block cut before.   *)
LEMMA CutBlock_AllocInv ==
    ASSUME NEW c \in Caller, AllocInv, CutBlock(c)
    PROVE  AllocInv'
<1> DEFINE q == asking[c]
           ret == AlignUp(q.start, q.align)
           new_start == (ret + q.size) % Space
           b == [at |-> ret, size |-> q.size, align |-> q.align]
<1>1. q \in Asked /\ q.step = "cut" /\ q.start = allocator.start /\ alloc_lock = c
  BY DEF AllocInv, AllocTyped, Cutting, CutBlock
<1>2. /\ q.start \in 0 .. Space - 1 /\ q.size \in 0 .. Space - 1 /\ q.align \in 1 .. Space
      /\ allocator.end # 0 /\ allocator.end > 0 /\ allocator \in [start : Nat, end : Nat]
  BY <1>1 DEF Asked, AllocInv, AllocTyped, Arena
<1>3. /\ asking' = [asking EXCEPT ![c] = NoCall]
      /\ wrapped' = (wrapped \/ q.size > Space - q.align)
  BY DEF CutBlock
<1>4. Space \in Nat \ {0} /\ NoCall \in Asked
  BY <1>2, ArenaAssumption DEF NoCall, Asked
<1>5. AllocTyped' /\ Arena'
  <2>1. asking' \in [Caller -> Asked] /\ wrapped' \in BOOLEAN
    BY <1>3, <1>4 DEF AllocInv, AllocTyped
  <2>2. CASE ~CutFits(new_start, q.start)
    <3>1. UNCHANGED <<allocator, blocks>>
      BY <2>2 DEF CutBlock
    <3> QED BY <1>2, <2>1, <3>1 DEF AllocInv, AllocTyped, Arena
  <2>3. CASE CutFits(new_start, q.start)
    <3>1. /\ allocator' = [allocator EXCEPT !.start = new_start]
          /\ blocks' = blocks \cup {b}
      BY <2>3 DEF CutBlock
    <3>2. ret \in Nat
      <4>1. (q.start + q.align - 1) \in Nat
        BY <1>2
      <4>2. ((q.start + q.align - 1) % Space) \in Nat
        BY <1>4, <4>1
      <4> QED BY <1>2, <4>2, RoundDown DEF AlignUp
    <3>3. new_start \in Nat
      BY <1>2, <1>4, <3>2
    <3>4. allocator'.start = new_start /\ allocator'.end = allocator.end /\ allocator' \in [start : Nat, end : Nat]
      BY <1>2, <3>1, <3>3
    <3>5. new_start > q.start /\ new_start <= allocator.end
      BY <2>3 DEF CutFits
    <3>6. b \in [at : Nat, size : 0 .. Space - 1, align : 1 .. Space]
      BY <1>2, <3>2
    <3>7. AllocTyped'
      BY <2>1, <3>1, <3>4, <3>6 DEF AllocInv, AllocTyped
    <3>8. Arena'
      BY <1>1, <1>2, <3>3, <3>4, <3>5, ArenaAssumption DEF AllocInv, AllocTyped, Arena
    <3> QED BY <3>7, <3>8
  <2> QED BY <2>2, <2>3
<1>6. Cutting'
  <2>1. ASSUME NEW d \in Caller, asking'[d].step = "cut" PROVE FALSE
    <3>1. d # c /\ asking'[d] = asking[d]
      BY <1>3, <2>1 DEF NoCall, AllocInv, AllocTyped
    <3> QED BY <1>1, <2>1, <3>1 DEF AllocInv, Cutting
  <2> QED BY <2>1 DEF Cutting
<1>7. BlocksApart'
  <2> SUFFICES ASSUME ~wrapped' PROVE BlocksApart'
    BY DEF BlocksApart
  <2>1. ~wrapped /\ q.size <= Space - q.align
    <3>1. ~wrapped /\ ~(q.size > Space - q.align)
      BY <1>3, Zenon
    <3> QED BY <1>2, <1>4, <3>1
  <2>2. CASE ~CutFits(new_start, q.start)
    <3>1. UNCHANGED <<allocator, blocks>>
      BY <2>2 DEF CutBlock
    <3> QED BY <2>1, <3>1 DEF AllocInv, BlocksApart, Bytes
  <2>3. CASE CutFits(new_start, q.start)
    <3>1. /\ allocator' = [allocator EXCEPT !.start = new_start]
          /\ blocks' = blocks \cup {b}
      BY <2>3 DEF CutBlock
    <3>2. /\ ret \in Nat /\ ret >= q.start /\ ret % q.align = 0
          /\ new_start = ret + q.size /\ ret + q.size <= allocator.end
      BY <1>2, <2>1, <2>3, CutWithin
    <3> HIDE DEF ret, new_start
    <3>3. allocator'.start = ret + q.size /\ q.size \in Nat /\ q.start = allocator.start
      BY <1>1, <1>2, <3>1, <3>2
    <3>4. ArenaLow <= ret /\ ret + q.size <= ArenaHigh /\ ArenaLow \in Nat /\ ArenaHigh \in Nat
      BY <1>1, <1>2, <3>2, <3>3, ArenaAssumption DEF AllocInv, Arena
    <3>5. \A d \in blocks : d.at \in Nat /\ d.size \in Nat /\ d.at + d.size <= ret
      BY <1>1, <1>2, <2>1, <3>2 DEF AllocInv, AllocTyped, BlocksApart
    <3>6. b.at % b.align = 0 /\ Bytes(b) \subseteq ArenaLow .. ArenaHigh - 1 /\ b.at + b.size = allocator'.start
      BY <3>2, <3>3, <3>4 DEF Bytes
    <3>7. \A d \in blocks : Bytes(d) \cap Bytes(b) = {} /\ Bytes(b) \cap Bytes(d) = {}
      BY <3>2, <3>3, <3>5 DEF Bytes
    <3>8. \A d \in blocks : d.at + d.size <= allocator'.start
      BY <3>2, <3>3, <3>5
    <3>9. /\ \A d \in blocks : d.at % d.align = 0 /\ Bytes(d) \subseteq ArenaLow .. ArenaHigh - 1
          /\ \A d, e \in blocks : d = e \/ Bytes(d) \cap Bytes(e) = {}
      BY <2>1 DEF AllocInv, BlocksApart
    <3>10. b.at + b.size <= allocator'.start
      BY <3>2, <3>3
    <3> HIDE DEF b
    <3>11. \A d, e \in blocks' : d = e \/ Bytes(d) \cap Bytes(e) = {}
      BY <3>1, <3>7, <3>9
    <3>12. \A d \in blocks' : /\ d.at % d.align = 0 /\ Bytes(d) \subseteq ArenaLow .. ArenaHigh - 1
                              /\ d.at + d.size <= allocator'.start
      BY <3>1, <3>6, <3>8, <3>9, <3>10
    <3> QED BY <3>11, <3>12 DEF BlocksApart, Bytes
  <2> QED BY <2>2, <2>3
<1> QED BY <1>5, <1>6, <1>7 DEF AllocInv

LEMMA AllocNext_AllocInv == AllocInv /\ [AllocNext]_allocVars => AllocInv'
<1> SUFFICES ASSUME AllocInv, [AllocNext]_allocVars PROVE AllocInv'
  OBVIOUS
<1>1. CASE valloc_init
  BY <1>1, valloc_init_AllocInv
<1>2. ASSUME NEW c \in Caller, LockAllocator(c) PROVE AllocInv'
  BY <1>2, LockAllocator_AllocInv
<1>3. ASSUME NEW c \in Caller, CutBlock(c) PROVE AllocInv'
  BY <1>3, CutBlock_AllocInv
<1>4. ASSUME NEW c \in Caller, NEW n \in AllocSizes, NEW a \in AllocAligns, Ask(c, n, a)
      PROVE AllocInv'
  BY <1>4, Ask_AllocInv
<1>5. CASE UNCHANGED allocVars
  BY <1>5 DEF allocVars, AllocInv, AllocTyped, Arena, Cutting, BlocksApart, Bytes
<1> QED BY <1>1, <1>2, <1>3, <1>4, <1>5 DEF AllocNext

(* What __alloc of lib/simple-alloc.c returns to any cores, in any order:   *)
(* aligned blocks inside the range, apart from one another and never cut    *)
(* again, as long as no size and alignment together exceed the addresses.   *)
THEOREM BlocksStayApart == AllocSpec => []BlocksApart
<1>1. AllocInv => BlocksApart
  BY DEF AllocInv
<1> QED BY <1>1, AllocInit_AllocInv, AllocNext_AllocInv, PTL DEF AllocSpec

-----------------------------------------------------------------------------
(* The table of segments: ranges of whole units, by the numbers of their    *)
(* units.                                                                   *)

Stretch == [start : Nat, end : Nat]
Lo(r) == r.start \div Unit
Hi(r) == r.end \div Unit

LEMMA UnitTimes ==
    ASSUME NEW a \in Nat, NEW b \in Nat
    PROVE  /\ Unit * a \in Nat /\ Unit * (a + 1) = Unit * a + Unit
           /\ Unit * a <= Unit * b <=> a <= b
<1>1. Unit \in Nat /\ Unit > 0
  BY UnitAssumption
<1>2. Unit * a \in Nat /\ Unit * b \in Nat /\ Unit * (a + 1) = Unit * a + Unit
  BY <1>1
<1>3. ASSUME NEW c \in Nat, NEW d \in Nat PROVE Unit * c <= Unit * (c + d)
  <2>1. Unit * (c + d) = Unit * c + Unit * d /\ Unit * d \in Nat /\ Unit * c \in Nat
    BY <1>1
  <2> QED BY <2>1
<1>4. ASSUME a <= b PROVE Unit * a <= Unit * b
  <2>1. b - a \in Nat /\ b = a + (b - a)
    BY <1>4
  <2> QED BY <1>3, <2>1
<1>5. ASSUME b < a PROVE Unit * b < Unit * a
  <2>1. a - (b + 1) \in Nat /\ a = (b + 1) + (a - (b + 1)) /\ b + 1 \in Nat
    BY <1>5
  <2>2. Unit * (b + 1) <= Unit * a
    BY <1>3, <2>1
  <2>3. Unit * (b + 1) = Unit * b + Unit
    BY <1>1
  <2> QED BY <1>1, <1>2, <2>2, <2>3
<1> QED BY <1>2, <1>4, <1>5

LEMMA Division ==
    ASSUME NEW n \in Nat, NEW m \in Nat \ {0}
    PROVE  n \div m \in Nat /\ n = m * (n \div m) + (n % m)
  OBVIOUS

LEMMA Quotient ==
    ASSUME NEW a \in Nat, NEW m \in Nat \ {0}, NEW b \in 0 .. m - 1
    PROVE  (m * a + b) \div m = a
  OBVIOUS

LEMMA WholeUnits ==
    ASSUME NEW r \in Stretch, Whole(r)
    PROVE  /\ Lo(r) \in Nat /\ Hi(r) \in Nat /\ Lo(r) <= Hi(r)
           /\ r.start = Unit * Lo(r) /\ r.end + 1 = Unit * (Hi(r) + 1)
<1>1. Unit \in Nat /\ Unit > 0 /\ r.start \in Nat /\ r.end \in Nat
  BY UnitAssumption DEF Stretch
<1>2. Lo(r) \in Nat /\ Hi(r) \in Nat /\ r.start = Unit * Lo(r)
  <2>1. r.start = Unit * (r.start \div Unit) + (r.start % Unit)
    BY <1>1, UnitAssumption, Division
  <2>2. r.start \div Unit \in Nat /\ r.end \div Unit \in Nat /\ r.start % Unit = 0
    BY <1>1, UnitAssumption, Division DEF Whole
  <2>3. Unit * (r.start \div Unit) \in Nat
    BY <1>1, <2>2
  <2> QED BY <2>1, <2>2, <2>3 DEF Lo, Hi
<1> DEFINE k == (r.end + 1) \div Unit
<1>3. k \in Nat /\ r.end + 1 = Unit * k
  <2>1. r.end + 1 \in Nat /\ (r.end + 1) % Unit = 0
    BY <1>1 DEF Whole
  <2>2. k \in Nat /\ r.end + 1 = Unit * k + ((r.end + 1) % Unit)
    BY <2>1, UnitAssumption, Division
  <2>3. Unit * k \in Nat
    BY <1>1, <2>2
  <2> QED BY <2>1, <2>2, <2>3
<1> HIDE DEF k
<1>4. k > 0
  BY <1>1, <1>3
<1>5. Hi(r) = k - 1
  <2>1. k - 1 \in Nat /\ Unit - 1 \in 0 .. Unit - 1 /\ (k - 1) + 1 = k
    BY <1>1, <1>3, <1>4
  <2>2. r.end = Unit * (k - 1) + (Unit - 1)
    BY <1>1, <1>3, <2>1, UnitTimes
  <2>3. r.end \div Unit = k - 1
    BY <2>1, <2>2, UnitAssumption, Quotient
  <2> QED BY <2>3 DEF Hi
<1>6. r.end + 1 = Unit * (Hi(r) + 1)
  BY <1>3, <1>4, <1>5
<1>7. Lo(r) <= Hi(r)
  <2>1. Unit * Lo(r) < Unit * (Hi(r) + 1)
    BY <1>1, <1>2, <1>6 DEF Whole
  <2>2. Hi(r) + 1 \in Nat
    BY <1>2
  <2>3. ~(Hi(r) + 1 <= Lo(r))
    <3>1. (Unit * (Hi(r) + 1) <= Unit * Lo(r) <=> Hi(r) + 1 <= Lo(r))
      BY <1>2, <2>2, UnitTimes
    <3>2. Unit * (Hi(r) + 1) \in Nat /\ Unit * Lo(r) \in Nat
      BY <1>2, <2>2, UnitTimes
    <3> QED BY <2>1, <3>1, <3>2
  <2> QED BY <1>2, <2>3
<1> QED BY <1>2, <1>6, <1>7

(* Two ranges compare as their units do.                                    *)
LEMMA WholeCompare ==
    ASSUME NEW r \in Stretch, NEW s \in Stretch, Whole(r), Whole(s)
    PROVE  /\ r.start <= s.end <=> Lo(r) <= Hi(s)
           /\ r.start > s.start <=> Lo(r) > Lo(s)
           /\ r.end < s.end <=> Hi(r) < Hi(s)
<1>1. /\ Lo(r) \in Nat /\ Hi(r) \in Nat /\ r.start = Unit * Lo(r) /\ r.end + 1 = Unit * (Hi(r) + 1)
      /\ Lo(s) \in Nat /\ Hi(s) \in Nat /\ s.start = Unit * Lo(s) /\ s.end + 1 = Unit * (Hi(s) + 1)
  BY WholeUnits
<1>2. Hi(r) + 1 \in Nat /\ Hi(s) + 1 \in Nat
  BY <1>1
<1>3. r.start \in Nat /\ r.end \in Nat /\ s.start \in Nat /\ s.end \in Nat
  BY DEF Stretch
<1>4. r.start > s.start <=> Lo(r) > Lo(s)
  <2>1. Unit * Lo(r) <= Unit * Lo(s) <=> Lo(r) <= Lo(s)
    BY <1>1, UnitTimes
  <2>2. r.start <= s.start <=> Lo(r) <= Lo(s)
    BY <1>1, <2>1
  <2> QED BY <1>1, <1>3, <2>2
<1>5. r.end < s.end <=> Hi(r) < Hi(s)
  <2>1. Unit * (Hi(s) + 1) <= Unit * (Hi(r) + 1) <=> Hi(s) + 1 <= Hi(r) + 1
    BY <1>2, UnitTimes
  <2>2. s.end + 1 <= r.end + 1 <=> Hi(s) + 1 <= Hi(r) + 1
    BY <1>1, <2>1
  <2> QED BY <1>1, <1>3, <2>2
<1>6. r.start <= s.end <=> Lo(r) <= Hi(s)
  <2>1. Unit * (Hi(s) + 1) <= Unit * Lo(r) <=> Hi(s) + 1 <= Lo(r)
    BY <1>1, <1>2, UnitTimes
  <2>2. s.end + 1 <= r.start <=> Hi(s) + 1 <= Lo(r)
    BY <1>1, <2>1
  <2> QED BY <1>1, <1>3, <2>2
<1> QED BY <1>4, <1>5, <1>6

LEMMA OverlapUnits ==
    ASSUME NEW r \in Stretch, NEW s \in Stretch, Whole(r), Whole(s)
    PROVE  Overlaps(r, s) <=> Units(r) \cap Units(s) # {}
<1>1. /\ Lo(r) \in Nat /\ Hi(r) \in Nat /\ Lo(r) <= Hi(r)
      /\ Lo(s) \in Nat /\ Hi(s) \in Nat /\ Lo(s) <= Hi(s)
  BY WholeUnits
<1>2. Overlaps(r, s) <=> Lo(r) <= Hi(s) /\ Lo(s) <= Hi(r)
  BY WholeCompare DEF Overlaps
<1>3. Units(r) = Lo(r) .. Hi(r) /\ Units(s) = Lo(s) .. Hi(s)
  BY DEF Units, Lo, Hi
<1>4. ASSUME Lo(r) <= Hi(s), Lo(s) <= Hi(r) PROVE Units(r) \cap Units(s) # {}
  <2>1. CASE Lo(r) <= Lo(s)
    <3>1. Lo(s) \in Units(r) /\ Lo(s) \in Units(s)
      BY <1>1, <1>3, <1>4, <2>1
    <3> QED BY <3>1
  <2>2. CASE ~(Lo(r) <= Lo(s))
    <3>1. Lo(r) \in Units(r) /\ Lo(r) \in Units(s)
      BY <1>1, <1>3, <1>4, <2>2
    <3> QED BY <3>1
  <2> QED BY <2>1, <2>2
<1>5. ASSUME NEW u \in Units(r) \cap Units(s) PROVE Lo(r) <= Hi(s) /\ Lo(s) <= Hi(r)
  BY <1>1, <1>3
<1> QED BY <1>2, <1>4, <1>5

(* What is left of s on either side of r.                                   *)
LEMMA PartBelow ==
    ASSUME NEW r \in Stretch, NEW s \in Stretch, Whole(r), Whole(s), Overlaps(r, s), r.start > s.start,
           NEW t, t = [start |-> s.start, end |-> r.start - 1]
    PROVE  /\ t \in Stretch /\ Whole(t)
           /\ Units(t) = {u \in Units(s) : u < Lo(r)}
<1>1. /\ Lo(r) \in Nat /\ Hi(r) \in Nat /\ Lo(r) <= Hi(r) /\ r.start = Unit * Lo(r)
      /\ Lo(s) \in Nat /\ Hi(s) \in Nat /\ Lo(s) <= Hi(s) /\ s.start = Unit * Lo(s)
  BY WholeUnits
<1>2. Lo(s) < Lo(r) /\ Lo(r) <= Hi(s)
  BY WholeCompare, <1>1 DEF Overlaps
<1>3. r.start \in Nat /\ s.start \in Nat /\ s.start <= r.start - 1 /\ r.start - 1 \in Nat
  BY DEF Stretch
<1>4. t \in Stretch /\ t.start = s.start /\ t.end = r.start - 1
  BY <1>3 DEF Stretch
<1>5. t.end + 1 = r.start
  BY <1>3, <1>4
<1>6. Whole(t)
  BY <1>3, <1>4, <1>5 DEF Whole
<1>7. t.start = Unit * Lo(t) /\ t.end + 1 = Unit * (Hi(t) + 1) /\ Lo(t) \in Nat /\ Hi(t) \in Nat
  BY <1>4, <1>6, WholeUnits
<1>8. Lo(t) = Lo(s)
  BY <1>4 DEF Lo
<1>9. Hi(t) + 1 = Lo(r)
  <2>1. Hi(t) + 1 \in Nat
    BY <1>7
  <2>2. Unit * (Hi(t) + 1) = Unit * Lo(r)
    BY <1>1, <1>5, <1>7
  <2>3. Unit * (Hi(t) + 1) \in Nat
    BY <2>1, UnitTimes
  <2>4. Unit * (Hi(t) + 1) <= Unit * Lo(r) <=> Hi(t) + 1 <= Lo(r)
    BY <1>1, <2>1, UnitTimes
  <2>5. Unit * Lo(r) <= Unit * (Hi(t) + 1) <=> Lo(r) <= Hi(t) + 1
    BY <1>1, <2>1, UnitTimes
  <2> QED BY <1>1, <2>1, <2>2, <2>3, <2>4, <2>5
<1>10. Units(t) = Lo(t) .. Hi(t) /\ Units(s) = Lo(s) .. Hi(s)
  BY DEF Units, Lo, Hi
<1>11. Units(t) = {u \in Units(s) : u < Lo(r)}
  BY <1>1, <1>2, <1>7, <1>8, <1>9, <1>10
<1> QED BY <1>4, <1>6, <1>11

LEMMA PartAbove ==
    ASSUME NEW r \in Stretch, NEW s \in Stretch, Whole(r), Whole(s), Overlaps(r, s), r.end < s.end,
           NEW t, t = [start |-> r.end + 1, end |-> s.end]
    PROVE  /\ t \in Stretch /\ Whole(t)
           /\ Units(t) = {u \in Units(s) : u > Hi(r)}
<1>1. /\ Lo(r) \in Nat /\ Hi(r) \in Nat /\ Lo(r) <= Hi(r) /\ r.end + 1 = Unit * (Hi(r) + 1)
      /\ Lo(s) \in Nat /\ Hi(s) \in Nat /\ Lo(s) <= Hi(s)
  BY WholeUnits
<1>2. Hi(r) < Hi(s) /\ Lo(s) <= Hi(r)
  BY WholeCompare, <1>1 DEF Overlaps
<1>3. r.end \in Nat /\ s.end \in Nat /\ r.end + 1 <= s.end /\ r.end + 1 \in Nat
  BY DEF Stretch
<1>4. t \in Stretch /\ t.start = r.end + 1 /\ t.end = s.end
  BY <1>3 DEF Stretch
<1>5. Whole(t)
  BY <1>3, <1>4 DEF Whole
<1>6. t.start = Unit * Lo(t) /\ Lo(t) \in Nat /\ Hi(t) \in Nat
  BY <1>4, <1>5, WholeUnits
<1>7. Hi(t) = Hi(s)
  BY <1>4 DEF Hi
<1>8. Lo(t) = Hi(r) + 1
  <2>1. Hi(r) + 1 \in Nat
    BY <1>1
  <2>2. Unit * (Hi(r) + 1) = Unit * Lo(t)
    BY <1>1, <1>4, <1>6
  <2>3. Unit * (Hi(r) + 1) \in Nat
    BY <2>1, UnitTimes
  <2>4. Unit * (Hi(r) + 1) <= Unit * Lo(t) <=> Hi(r) + 1 <= Lo(t)
    BY <1>6, <2>1, UnitTimes
  <2>5. Unit * Lo(t) <= Unit * (Hi(r) + 1) <=> Lo(t) <= Hi(r) + 1
    BY <1>6, <2>1, UnitTimes
  <2> QED BY <1>6, <2>1, <2>2, <2>3, <2>4, <2>5
<1>9. Units(t) = Lo(t) .. Hi(t) /\ Units(s) = Lo(s) .. Hi(s)
  BY DEF Units, Lo, Hi
<1>10. Units(t) = {u \in Units(s) : u > Hi(r)}
  BY <1>1, <1>2, <1>6, <1>7, <1>8, <1>9
<1> QED BY <1>4, <1>5, <1>10

LEMMA PartsOf ==
    ASSUME NEW r \in Stretch, NEW s \in Stretch, Whole(r), Whole(s)
    PROVE  /\ Units(s) \ Units(r) = {u \in Units(s) : u < Lo(r)} \cup {u \in Units(s) : u > Hi(r)}
           /\ ~(r.start > s.start) => {u \in Units(s) : u < Lo(r)} = {}
           /\ ~(r.end < s.end) => {u \in Units(s) : u > Hi(r)} = {}
<1>1. /\ Lo(r) \in Nat /\ Hi(r) \in Nat /\ Lo(s) \in Nat /\ Hi(s) \in Nat
  BY WholeUnits
<1>2. Units(r) = Lo(r) .. Hi(r) /\ Units(s) = Lo(s) .. Hi(s)
  BY DEF Units, Lo, Hi
<1>3. (r.start > s.start <=> Lo(r) > Lo(s)) /\ (r.end < s.end <=> Hi(r) < Hi(s))
  BY WholeCompare
<1> QED BY <1>1, <1>2, <1>3

SegTypes ==
    /\ segments \in Seq(Stretch) /\ Len(segments) <= NumSegments
    /\ \A j \in 1 .. Len(segments) : Whole(segments[j])
    /\ excluding \in [range : Stretch, i : Nat]
    /\ excluding # Nothing => excluding.i > 0 /\ Whole(excluding.range)
    /\ dropped \in BOOLEAN /\ skipped \in BOOLEAN

(* What the exclusion under way has still to take from the segment at j.    *)
ToTake(j) == IF excluding # Nothing /\ excluding.i <= j THEN Units(excluding.range) ELSE {}

Disjoint == \A j, k \in 1 .. Len(segments) : j # k => Units(segments[j]) \cap Units(segments[k]) = {}
NoneKept == \A j \in 1 .. Len(segments) : Units(segments[j]) \ ToTake(j) \subseteq granted
NoneLost == \A u \in granted : \E j \in 1 .. Len(segments) : u \in Units(segments[j])

SegInv ==
    /\ SegTypes
    /\ excluding # Nothing => granted \cap Units(excluding.range) = {}
    /\ ~skipped => Disjoint /\ NoneKept
    /\ ~dropped => NoneLost

LEMMA SegInit_Holds == SegInit => SegInv
<1> SUFFICES ASSUME SegInit PROVE SegInv
  OBVIOUS
<1>1. /\ segments \in Seq(Stretch) /\ Len(segments) = 0 /\ Len(segments) <= NumSegments
      /\ excluding = Nothing /\ granted = {} /\ dropped = FALSE /\ skipped = FALSE
  BY UnitAssumption DEF SegInit
<1>2. Nothing \in [range : Stretch, i : Nat]
  BY DEF Nothing, Stretch
<1>3. SegTypes
  <2>1. \A j \in 1 .. Len(segments) : Whole(segments[j])
    BY <1>1
  <2> QED BY <1>1, <1>2, <2>1 DEF SegTypes
<1>4. Disjoint /\ NoneKept /\ NoneLost
  BY <1>1 DEF Disjoint, NoneKept, NoneLost
<1> QED BY <1>1, <1>3, <1>4 DEF SegInv

LEMMA Add_Keeps ==
    ASSUME SegInv, NEW r \in Ranges, \A u \in Units(r) : u \notin granted, malloc_add_segment(r)
    PROVE  SegInv'
<1>1. /\ excluding = Nothing /\ UNCHANGED <<excluding, dropped, skipped>>
      /\ segments' = AddTo(segments, r)
      /\ granted' = IF Len(segments) < NumSegments THEN granted \cup Units(r) ELSE granted
  BY DEF malloc_add_segment, Call
<1>2. r \in Stretch /\ Whole(r)
  BY RangeAssumption DEF Stretch
<1>3. SegTypes /\ (~skipped => Disjoint /\ NoneKept) /\ (~dropped => NoneLost)
  BY DEF SegInv
<1>4. CASE ~(Len(segments) < NumSegments)
  <2>1. UNCHANGED <<segments, excluding, granted, dropped, skipped>>
    BY <1>1, <1>4 DEF AddTo
  <2>2. SegTypes'
    BY <1>3, <2>1 DEF SegTypes
  <2>3. ~skipped => Disjoint' /\ NoneKept'
    BY <1>3, <2>1 DEF Disjoint, NoneKept, ToTake
  <2>4. ~dropped => NoneLost'
    BY <1>3, <2>1 DEF NoneLost
  <2> QED BY <1>1, <2>1, <2>2, <2>3, <2>4 DEF SegInv
<1>5. CASE Len(segments) < NumSegments
  <2>1. segments' = Append(segments, r) /\ granted' = granted \cup Units(r)
    BY <1>1, <1>5 DEF AddTo
  <2>2. segments \in Seq(Stretch)
    BY <1>3 DEF SegTypes
  <2>3. /\ segments' \in Seq(Stretch) /\ Len(segments') = Len(segments) + 1 /\ Len(segments) \in Nat
        /\ \A j \in 1 .. Len(segments) : segments'[j] = segments[j]
        /\ segments'[Len(segments) + 1] = r
    BY <1>2, <2>1, <2>2, AppendProperties, LenProperties
  <2> DEFINE n == Len(segments)
  <2> HIDE DEF n
  <2>4. n \in Nat /\ Len(segments') = n + 1 /\ n < NumSegments
        /\ (\A j \in 1 .. n : segments'[j] = segments[j]) /\ segments'[n + 1] = r
    BY <1>5, <2>3 DEF n
  <2>5. \A j \in 1 .. Len(segments') : j \in 1 .. n \/ j = n + 1
    BY <2>4
  <2>6. SegTypes'
    <3>1. \A j \in 1 .. Len(segments') : Whole(segments'[j])
      BY <1>2, <1>3, <2>4, <2>5 DEF SegTypes, n
    <3>2. Len(segments') <= NumSegments
      BY <2>4, UnitAssumption
    <3> QED BY <1>1, <1>3, <2>3, <3>1, <3>2 DEF SegTypes
  <2>7. ~skipped => Disjoint'
    <3> SUFFICES ASSUME ~skipped, NEW j \in 1 .. Len(segments'), NEW k \in 1 .. Len(segments'), j # k
                 PROVE  Units(segments'[j]) \cap Units(segments'[k]) = {}
      BY DEF Disjoint
    <3>1. \A l \in 1 .. n : Units(segments[l]) \subseteq granted
      BY <1>1, <1>3 DEF NoneKept, ToTake, n
    <3>2. CASE j \in 1 .. n /\ k \in 1 .. n
      BY <1>3, <2>4, <3>2 DEF Disjoint, n
    <3>3. CASE j = n + 1 /\ k \in 1 .. n
      BY <2>4, <3>1, <3>3
    <3>4. CASE k = n + 1 /\ j \in 1 .. n
      BY <2>4, <3>1, <3>4
    <3> QED BY <2>5, <3>2, <3>3, <3>4
  <2>8. ~skipped => NoneKept'
    <3> SUFFICES ASSUME ~skipped, NEW j \in 1 .. Len(segments')
                 PROVE  Units(segments'[j]) \subseteq granted'
      BY <1>1 DEF NoneKept, ToTake
    <3>1. \A l \in 1 .. n : Units(segments[l]) \subseteq granted
      BY <1>1, <1>3 DEF NoneKept, ToTake, n
    <3> QED BY <2>1, <2>4, <2>5, <3>1
  <2>9. ~dropped => NoneLost'
    <3> SUFFICES ASSUME ~dropped, NEW u \in granted'
                 PROVE  \E j \in 1 .. Len(segments') : u \in Units(segments'[j])
      BY DEF NoneLost
    <3>1. CASE u \in Units(r)
      <4>1. n + 1 \in 1 .. Len(segments')
        BY <2>4
      <4> QED BY <2>4, <3>1, <4>1
    <3>2. CASE u \in granted
      <4>1. PICK j \in 1 .. n : u \in Units(segments[j])
        BY <1>3, <3>2 DEF NoneLost, n
      <4>2. j \in 1 .. Len(segments')
        BY <2>4
      <4> QED BY <2>4, <4>1, <4>2
    <3> QED BY <2>1, <3>1, <3>2
  <2> QED BY <1>1, <2>6, <2>7, <2>8, <2>9 DEF SegInv
<1> QED BY <1>4, <1>5

LEMMA Exclude_Keeps ==
    ASSUME SegInv, NEW r \in Stretch, Whole(r), malloc_exclude_segment(r)
    PROVE  SegInv'
<1>1. /\ excluding = Nothing /\ excluding' = [range |-> r, i |-> 1] /\ granted' = granted \ Units(r)
      /\ UNCHANGED <<segments, dropped, skipped>>
  BY DEF malloc_exclude_segment, Call
<1>2. excluding' # Nothing /\ excluding'.i = 1 /\ excluding'.range = r
  BY <1>1 DEF Nothing
<1>3. SegTypes /\ (~skipped => Disjoint /\ NoneKept) /\ (~dropped => NoneLost)
  BY DEF SegInv
<1>4. SegTypes'
  BY <1>1, <1>2, <1>3 DEF SegTypes
<1>5. granted' \cap Units(excluding'.range) = {}
  BY <1>1, <1>2
<1>6. ~skipped => Disjoint' /\ NoneKept'
  <2>1. ASSUME NEW j \in 1 .. Len(segments) PROVE ToTake(j)' = Units(r)
    BY <1>2 DEF ToTake
  <2>2. ASSUME NEW j \in 1 .. Len(segments) PROVE ToTake(j) = {}
    BY <1>1 DEF ToTake
  <2> QED BY <1>1, <1>3, <2>1, <2>2 DEF Disjoint, NoneKept
<1>7. ~dropped => NoneLost'
  BY <1>1, <1>3 DEF NoneLost
<1> QED BY <1>1, <1>4, <1>5, <1>6, <1>7 DEF SegInv

LEMMA ExcludeEnd_Keeps == SegInv /\ ExcludeEnd => SegInv'
<1> SUFFICES ASSUME SegInv, ExcludeEnd PROVE SegInv'
  OBVIOUS
<1>1. /\ excluding # Nothing /\ excluding.i > Len(segments) /\ excluding' = Nothing
      /\ UNCHANGED <<segments, granted, dropped, skipped>>
  BY DEF ExcludeEnd
<1>2. SegTypes /\ (~skipped => Disjoint /\ NoneKept) /\ (~dropped => NoneLost)
  BY DEF SegInv
<1>3. Nothing \in [range : Stretch, i : Nat]
  BY DEF Nothing, Stretch
<1>4. SegTypes'
  BY <1>1, <1>2, <1>3 DEF SegTypes
<1>5. ASSUME NEW j \in 1 .. Len(segments) PROVE ToTake(j) = {} /\ ToTake(j)' = {}
  <2>1. ~(excluding.i <= j)
    <3>1. Len(segments) \in Nat /\ excluding.i \in Nat
      BY <1>2, LenProperties DEF SegTypes
    <3> QED BY <1>1, <3>1
  <2> QED BY <1>1, <2>1 DEF ToTake
<1> QED BY <1>1, <1>2, <1>4, <1>5 DEF SegInv, Disjoint, NoneKept, NoneLost

(* A turn, when each range of the new table is within one of the old table  *)
(* (of), those within one are apart, and nothing outside the exclusion goes.*)
LEMMA TurnKeeps ==
    ASSUME SegInv, ExcludeTurn, NEW of,
           segments' \in Seq(Stretch), Len(segments') <= NumSegments,
           \A j \in 1 .. Len(segments') :
              /\ Whole(segments'[j])
              /\ of[j] \in 1 .. Len(segments) /\ Units(segments'[j]) \subseteq Units(segments[of[j]]),
           \A j, k \in 1 .. Len(segments') :
              j # k /\ of[j] = of[k] => Units(segments'[j]) \cap Units(segments'[k]) = {},
           ~skipped' => \A j \in 1 .. Len(segments') :
              \/ Units(segments'[j]) \cap Units(excluding.range) = {}
              \/ j < excluding.i /\ of[j] = j
              \/ j > excluding.i,
           ~dropped' => \A j \in 1 .. Len(segments) : \A u \in Units(segments[j]) \ Units(excluding.range) :
              \E k \in 1 .. Len(segments') : u \in Units(segments'[k])
    PROVE  SegInv'
<1> DEFINE r == excluding.range
<1>1. /\ excluding # Nothing /\ excluding' = [excluding EXCEPT !.i = @ + 1] /\ granted' = granted
      /\ (skipped => skipped') /\ (dropped => dropped') /\ skipped' \in BOOLEAN /\ dropped' \in BOOLEAN
  BY DEF ExcludeTurn, SegInv, SegTypes
<1>2. /\ SegTypes /\ granted \cap Units(r) = {} /\ (~skipped => Disjoint /\ NoneKept)
      /\ (~dropped => NoneLost)
  BY <1>1 DEF SegInv
<1>3. excluding \in [range : Stretch, i : Nat] /\ excluding.i > 0 /\ Whole(r)
  BY <1>1, <1>2 DEF SegTypes
<1>4. /\ excluding' \in [range : Stretch, i : Nat] /\ excluding'.i = excluding.i + 1
      /\ excluding'.range = r /\ excluding' # Nothing
  BY <1>1, <1>3 DEF Nothing
<1>5. SegTypes'
  BY <1>1, <1>3, <1>4 DEF SegTypes
<1> HIDE DEF r
<1>6. ~skipped' => Disjoint'
  <2> SUFFICES ASSUME ~skipped', NEW j \in 1 .. Len(segments'), NEW k \in 1 .. Len(segments'), j # k
               PROVE  Units(segments'[j]) \cap Units(segments'[k]) = {}
    BY DEF Disjoint
  <2>1. CASE of[j] = of[k]
    BY <2>1
  <2>2. CASE of[j] # of[k]
    <3>1. Units(segments[of[j]]) \cap Units(segments[of[k]]) = {}
      BY <1>1, <1>2, <2>2 DEF Disjoint
    <3> QED BY <3>1
  <2> QED BY <2>1, <2>2
<1>7. ~skipped' => NoneKept'
  <2> SUFFICES ASSUME ~skipped', NEW j \in 1 .. Len(segments'), NEW u \in Units(segments'[j]),
                      u \notin ToTake(j)'
               PROVE  u \in granted
    BY <1>1 DEF NoneKept
  <2>1. u \in Units(segments[of[j]]) /\ of[j] \in 1 .. Len(segments)
    OBVIOUS
  <2>2. Units(segments[of[j]]) \ ToTake(of[j]) \subseteq granted
    BY <1>1, <1>2, <2>1 DEF NoneKept
  <2>3. CASE u \notin Units(r)
    BY <2>1, <2>2, <2>3 DEF ToTake, r
  <2>4. CASE u \in Units(r)
    <3>1. ~(excluding.i + 1 <= j)
      BY <1>4, <2>4 DEF ToTake
    <3>2. Len(segments') \in Nat
      BY LenProperties
    <3>3. j < excluding.i /\ of[j] = j
      BY <1>3, <2>4, <3>1, <3>2 DEF r
    <3>4. ToTake(of[j]) = {}
      BY <1>3, <3>2, <3>3 DEF ToTake
    <3> QED BY <2>1, <2>2, <3>4
  <2> QED BY <2>3, <2>4
<1>8. ~dropped' => NoneLost'
  <2> SUFFICES ASSUME ~dropped', NEW u \in granted
               PROVE  \E k \in 1 .. Len(segments') : u \in Units(segments'[k])
    BY <1>1 DEF NoneLost
  <2>1. PICK j \in 1 .. Len(segments) : u \in Units(segments[j])
    BY <1>1, <1>2 DEF NoneLost
  <2>2. u \notin Units(excluding.range)
    BY <1>2 DEF r
  <2> QED BY <2>1, <2>2
<1>9. granted' \cap Units(excluding'.range) = {}
  BY <1>1, <1>2, <1>4
<1> QED BY <1>5, <1>6, <1>7, <1>8, <1>9 DEF SegInv

(* One range becomes another.                                               *)
LEMMA TurnReplaces ==
    ASSUME SegInv, ExcludeTurn, NEW t \in Stretch, Whole(t),
           segments' = [segments EXCEPT ![excluding.i] = t],
           Units(t) \subseteq Units(segments[excluding.i]) \ Units(excluding.range),
           ~dropped' => Units(segments[excluding.i]) \ Units(excluding.range) \subseteq Units(t)
    PROVE  SegInv'
<1> DEFINE n == Len(segments)
           i == excluding.i
<1>1. segments \in Seq(Stretch) /\ n \in Nat /\ i \in Nat /\ 0 < i /\ i <= n /\ n <= NumSegments
      /\ \A j \in 1 .. n : Whole(segments[j])
  BY LenProperties DEF SegInv, SegTypes, ExcludeTurn
<1>2. segments' \in Seq(Stretch) /\ Len(segments') = n
  BY <1>1, ExceptSeq
<1>3. segments'[i] = t /\ \A j \in 1 .. n : j # i => segments'[j] = segments[j]
  BY <1>1, ExceptSeq
<1> DEFINE of == [j \in 1 .. n |-> j]
<1>4. \A j \in 1 .. n : of[j] = j
  OBVIOUS
<1> HIDE DEF of, n, i
<1>5. \A j \in 1 .. n : /\ Whole(segments'[j]) /\ of[j] \in 1 .. n
                        /\ Units(segments'[j]) \subseteq Units(segments[of[j]])
  BY <1>1, <1>3, <1>4 DEF i
<1>6. \A j \in 1 .. n : \/ Units(segments'[j]) \cap Units(excluding.range) = {}
                        \/ j < i /\ of[j] = j
                        \/ j > i
  <2> SUFFICES ASSUME NEW j \in 1 .. n, ~(j < i), ~(j > i)
               PROVE  Units(segments'[j]) \cap Units(excluding.range) = {}
    BY <1>4
  <2>1. j = i
    BY <1>1
  <2> QED BY <1>3, <2>1 DEF i
<1>7. ASSUME ~dropped', NEW j \in 1 .. n, NEW u \in Units(segments[j]) \ Units(excluding.range)
      PROVE  \E k \in 1 .. n : u \in Units(segments'[k])
  <2>1. CASE j = i
    BY <1>3, <1>7, <2>1 DEF i
  <2>2. CASE j # i
    BY <1>3, <1>7, <2>2
  <2> QED BY <2>1, <2>2
<1> QED BY <1>1, <1>2, <1>4, <1>5, <1>6, <1>7, TurnKeeps DEF n, i


(* What a turn looks at.                                                    *)
LEMMA TurnLooks ==
    ASSUME SegInv, ExcludeTurn
    PROVE  /\ segments \in Seq(Stretch) /\ Len(segments) \in Nat /\ Len(segments) <= NumSegments
           /\ excluding.i \in 1 .. Len(segments)
           /\ \A j \in 1 .. Len(segments) : segments[j] \in Stretch /\ Whole(segments[j])
           /\ excluding.range \in Stretch /\ Whole(excluding.range)
           /\ segments' = ExcludeAt(segments, excluding.i, excluding.range)
<1>1. excluding # Nothing /\ excluding.i <= Len(segments)
      /\ segments' = ExcludeAt(segments, excluding.i, excluding.range)
  BY DEF ExcludeTurn
<1>2. /\ segments \in Seq(Stretch) /\ Len(segments) \in Nat /\ Len(segments) <= NumSegments
      /\ \A j \in 1 .. Len(segments) : Whole(segments[j])
      /\ excluding \in [range : Stretch, i : Nat] /\ excluding.i > 0 /\ Whole(excluding.range)
  BY <1>1, LenProperties DEF SegInv, SegTypes
<1>3. \A j \in 1 .. Len(segments) : segments[j] \in Stretch
  BY <1>2, ElementOfSeq
<1> QED BY <1>1, <1>2, <1>3

LEMMA TurnMisses ==
    ASSUME SegInv, ExcludeTurn, ~Overlaps(excluding.range, segments[excluding.i])
    PROVE  SegInv'
<1> DEFINE t == segments[excluding.i]
<1>1. t \in Stretch /\ Whole(t) /\ excluding.range \in Stretch /\ Whole(excluding.range)
  BY TurnLooks
<1>2. Units(t) \cap Units(excluding.range) = {}
  BY <1>1, OverlapUnits DEF Overlaps
<1>3. segments' = [segments EXCEPT ![excluding.i] = t]
  <2>1. segments' = segments
    BY TurnLooks DEF ExcludeAt
  <2>2. segments \in [1 .. Len(segments) -> Stretch]
    BY TurnLooks, LenProperties
  <2> QED BY <2>1, <2>2
<1> HIDE DEF t
<1> QED BY <1>1, <1>2, <1>3, TurnReplaces DEF t

LEMMA TurnLowers ==
    ASSUME SegInv, ExcludeTurn, Overlaps(excluding.range, segments[excluding.i]),
           ~(excluding.range.start > segments[excluding.i].start),
           excluding.range.end < segments[excluding.i].end
    PROVE  SegInv'
<1> DEFINE s == segments[excluding.i]
           r == excluding.range
           t == [start |-> r.end + 1, end |-> s.end]
<1>1. s \in Stretch /\ Whole(s) /\ r \in Stretch /\ Whole(r) /\ Overlaps(r, s)
      /\ ~(r.start > s.start) /\ r.end < s.end
  BY TurnLooks
<1>2. segments' = [segments EXCEPT ![excluding.i].start = r.end + 1]
  BY TurnLooks DEF ExcludeAt
<1>3. [s EXCEPT !.start = r.end + 1] = t
  BY <1>1 DEF Stretch
<1>4. segments' = [segments EXCEPT ![excluding.i] = t]
  BY <1>2, <1>3
<1> HIDE DEF t, s, r
<1>5. t \in Stretch /\ Whole(t) /\ Units(t) = {u \in Units(s) : u > Hi(r)}
  BY <1>1, PartAbove DEF t
<1>6. Units(s) \ Units(r) = Units(t)
  BY <1>1, <1>5, PartsOf
<1> QED BY <1>4, <1>5, <1>6, TurnReplaces DEF s, r

LEMMA TurnUppers ==
    ASSUME SegInv, ExcludeTurn, Overlaps(excluding.range, segments[excluding.i]),
           excluding.range.start > segments[excluding.i].start,
           \/ ~(excluding.range.end < segments[excluding.i].end)
           \/ ~(Len(segments) < NumSegments)
    PROVE  SegInv'
<1> DEFINE s == segments[excluding.i]
           r == excluding.range
           t == [start |-> s.start, end |-> r.start - 1]
<1>1. s \in Stretch /\ Whole(s) /\ r \in Stretch /\ Whole(r) /\ Overlaps(r, s)
      /\ r.start > s.start /\ (~(r.end < s.end) \/ ~(Len(segments) < NumSegments))
  BY TurnLooks
<1>2. s.end > r.end <=> r.end < s.end
  BY <1>1 DEF Stretch
<1>3. segments' = [segments EXCEPT ![excluding.i].end = r.start - 1]
  BY <1>1, <1>2, TurnLooks DEF ExcludeAt, AddTo
<1>4. [s EXCEPT !.end = r.start - 1] = t
  BY <1>1 DEF Stretch
<1>5. segments' = [segments EXCEPT ![excluding.i] = t]
  BY <1>3, <1>4
<1>6. r.end < s.end => dropped'
  <2>1. Len(segments) <= NumSegments /\ Len(segments) \in Nat
    BY TurnLooks
  <2>2. dropped' = (dropped \/ (r.start > s.start /\ r.end < s.end /\ Len(segments) = NumSegments))
    BY DEF ExcludeTurn
  <2>3. ~(Len(segments) < NumSegments) => Len(segments) = NumSegments
    BY <2>1, UnitAssumption
  <2> QED BY <1>1, <2>2, <2>3
<1> HIDE DEF t, s, r
<1>7. t \in Stretch /\ Whole(t) /\ Units(t) = {u \in Units(s) : u < Lo(r)}
  BY <1>1, PartBelow DEF t
<1>8. Units(t) \subseteq Units(s) \ Units(r)
  BY <1>1, <1>7, PartsOf
<1>9. ~dropped' => Units(s) \ Units(r) \subseteq Units(t)
  BY <1>1, <1>6, <1>7, PartsOf
<1> QED BY <1>5, <1>7, <1>8, <1>9, TurnReplaces DEF s, r

(* The upper half goes to the end of the table, where the loop will look at *)
(* it again.                                                                *)
LEMMA TurnSplits ==
    ASSUME SegInv, ExcludeTurn, Overlaps(excluding.range, segments[excluding.i]),
           excluding.range.start > segments[excluding.i].start,
           excluding.range.end < segments[excluding.i].end,
           Len(segments) < NumSegments
    PROVE  SegInv'
<1> DEFINE s == segments[excluding.i]
           r == excluding.range
           i == excluding.i
           n == Len(segments)
           t == [start |-> s.start, end |-> r.start - 1]
           up == [start |-> r.end + 1, end |-> s.end]
<1>1. s \in Stretch /\ Whole(s) /\ r \in Stretch /\ Whole(r) /\ Overlaps(r, s)
      /\ r.start > s.start /\ r.end < s.end
  BY TurnLooks
<1>2. segments \in Seq(Stretch) /\ n \in Nat /\ i \in 1 .. n /\ n < NumSegments
      /\ \A j \in 1 .. n : segments[j] \in Stretch /\ Whole(segments[j])
  BY TurnLooks
<1>3. t \in Stretch /\ Whole(t) /\ Units(t) = {u \in Units(s) : u < Lo(r)}
  BY <1>1, PartBelow
<1>4. up \in Stretch /\ Whole(up) /\ Units(up) = {u \in Units(s) : u > Hi(r)}
  BY <1>1, PartAbove
<1> DEFINE Rest == Append(segments, up)
<1>5. segments' = [Rest EXCEPT ![i].end = r.start - 1]
  <2>1. s.end > r.end
    BY <1>1 DEF Stretch
  <2> QED BY <1>1, <1>2, <2>1, TurnLooks DEF ExcludeAt, AddTo, Range2
<1>6. /\ Rest \in Seq(Stretch) /\ Len(Rest) = n + 1 /\ Rest[n + 1] = up
      /\ \A j \in 1 .. n : Rest[j] = segments[j]
  BY <1>2, <1>4, AppendProperties
<1>7. Rest[i] = s
  BY <1>2, <1>6
<1>8. [Rest[i] EXCEPT !.end = r.start - 1] = t
  <2>1. [s EXCEPT !.end = r.start - 1] = t
    BY <1>1 DEF Stretch
  <2> QED BY <1>7, <2>1
<1>9. segments' = [Rest EXCEPT ![i] = t]
  BY <1>5, <1>8
<1> HIDE DEF Rest, t, up, s, r, n, i
<1>10. i \in 1 .. Len(Rest)
  BY <1>2, <1>6
<1>11. /\ segments' \in Seq(Stretch) /\ Len(segments') = n + 1 /\ segments'[i] = t
       /\ \A j \in 1 .. n + 1 : j # i => segments'[j] = Rest[j]
  BY <1>3, <1>6, <1>9, <1>10, ExceptSeq
<1>12. /\ segments'[n + 1] = up
       /\ \A j \in 1 .. n : j # i => segments'[j] = segments[j]
  BY <1>2, <1>6, <1>11
<1> DEFINE of == [j \in 1 .. n + 1 |-> IF j = n + 1 THEN i ELSE j]
<1>13. of[n + 1] = i /\ \A j \in 1 .. n : of[j] = j
  BY <1>2
<1> HIDE DEF of
<1>14. \A j \in 1 .. n + 1 : j \in 1 .. n \/ j = n + 1
  BY <1>2
<1>15. ASSUME NEW j \in 1 .. n + 1
       PROVE  /\ Whole(segments'[j]) /\ of[j] \in 1 .. n
              /\ Units(segments'[j]) \subseteq Units(segments[of[j]])
  <2>1. CASE j = n + 1
    BY <1>2, <1>4, <1>12, <1>13, <2>1 DEF s, i
  <2>2. CASE j \in 1 .. n /\ j = i
    BY <1>2, <1>3, <1>11, <1>13, <2>2 DEF s, i
  <2>3. CASE j \in 1 .. n /\ j # i
    BY <1>2, <1>12, <1>13, <2>3
  <2> QED BY <1>14, <2>1, <2>2, <2>3
<1>16. Units(t) \cap Units(up) = {}
  <2>1. Lo(r) \in Nat /\ Hi(r) \in Nat /\ Lo(r) <= Hi(r)
    BY <1>1, WholeUnits
  <2>2. Units(s) \subseteq Int
    BY <1>1, WholeUnits DEF Units, Lo, Hi
  <2> QED BY <1>3, <1>4, <2>1, <2>2
<1>17. ASSUME NEW j \in 1 .. n + 1, NEW k \in 1 .. n + 1, j # k, of[j] = of[k]
       PROVE  Units(segments'[j]) \cap Units(segments'[k]) = {}
  <2>1. CASE j = n + 1 /\ k \in 1 .. n
    <3>1. k = i
      BY <1>13, <1>17, <2>1
    <3> QED BY <1>11, <1>12, <1>16, <2>1, <3>1
  <2>2. CASE k = n + 1 /\ j \in 1 .. n
    <3>1. j = i
      BY <1>13, <1>17, <2>2
    <3> QED BY <1>11, <1>12, <1>16, <2>2, <3>1
  <2>3. CASE k \in 1 .. n /\ j \in 1 .. n
    BY <1>13, <1>17, <2>3
  <2> QED BY <1>14, <1>17, <2>1, <2>2, <2>3
<1>18. Units(s) \ Units(r) = Units(t) \cup Units(up)
  BY <1>1, <1>3, <1>4, PartsOf
<1>19. ASSUME NEW j \in 1 .. n + 1
       PROVE  \/ Units(segments'[j]) \cap Units(r) = {}
              \/ j < i /\ of[j] = j
              \/ j > i
  <2>1. CASE j = n + 1
    BY <1>2, <2>1
  <2>2. CASE j = i
    BY <1>11, <1>18, <2>2
  <2>3. CASE j \in 1 .. n /\ j # i
    BY <1>2, <1>13, <2>3
  <2> QED BY <1>14, <2>1, <2>2, <2>3
<1>20. ASSUME NEW j \in 1 .. n, NEW u \in Units(segments[j]) \ Units(r)
       PROVE  \E k \in 1 .. n + 1 : u \in Units(segments'[k])
  <2>1. n + 1 \in 1 .. n + 1 /\ i \in 1 .. n + 1 /\ j \in 1 .. n + 1
    BY <1>2
  <2>2. CASE j = i
    <3>1. u \in Units(t) \/ u \in Units(up)
      BY <1>18, <1>20, <2>2 DEF s, i
    <3> QED BY <1>11, <1>12, <2>1, <3>1
  <2>3. CASE j # i
    BY <1>12, <1>20, <2>1, <2>3
  <2> QED BY <2>2, <2>3
<1>21. n + 1 <= NumSegments
  BY <1>2, UnitAssumption
<1> QED BY <1>11, <1>15, <1>17, <1>19, <1>20, <1>21, TurnKeeps DEF n, i, r

(* The last segment takes the place of one that lies within the range.      *)
LEMMA TurnRemoves ==
    ASSUME SegInv, ExcludeTurn, Overlaps(excluding.range, segments[excluding.i]),
           ~(excluding.range.start > segments[excluding.i].start),
           ~(excluding.range.end < segments[excluding.i].end)
    PROVE  SegInv'
<1> DEFINE s == segments[excluding.i]
           r == excluding.range
           i == excluding.i
           n == Len(segments)
           last == segments[Len(segments)]
           Filled == [segments EXCEPT ![i] = last]
<1>1. s \in Stretch /\ Whole(s) /\ r \in Stretch /\ Whole(r) /\ Overlaps(r, s)
      /\ ~(r.start > s.start) /\ ~(r.end < s.end)
  BY TurnLooks
<1>2. segments \in Seq(Stretch) /\ n \in Nat /\ i \in 1 .. n /\ n <= NumSegments
      /\ \A j \in 1 .. n : segments[j] \in Stretch /\ Whole(segments[j])
  BY TurnLooks
<1>3. n \in 1 .. n /\ n - 1 \in 0 .. n
  BY <1>2
<1>4. segments' = SubSeq(Filled, 1, n - 1)
  BY <1>1, TurnLooks DEF ExcludeAt, Last
<1>5. ~skipped' => ~(i < n) \/ ~Overlaps(r, last)
  <2>1. skipped' = (skipped \/ (r.start <= s.start /\ s.end <= r.end /\ i < n /\ Overlaps(r, last)))
    BY DEF ExcludeTurn, Last
  <2>2. r.start <= s.start /\ s.end <= r.end
    BY <1>1 DEF Stretch
  <2> QED BY <2>1, <2>2
<1>6. last \in Stretch /\ Whole(last)
  BY <1>2, <1>3
<1>7. /\ Filled \in Seq(Stretch) /\ Len(Filled) = n /\ Filled[i] = last
      /\ \A j \in 1 .. n : j # i => Filled[j] = segments[j]
  BY <1>2, <1>6, ExceptSeq
<1> HIDE DEF Filled, last, s, r, n, i
<1>8. /\ segments' \in Seq(Stretch) /\ Len(segments') = n - 1
      /\ \A j \in 1 .. n - 1 : segments'[j] = Filled[j]
  <2>1. /\ SubSeq(Filled, 1, n - 1) \in Seq(Stretch)
        /\ Len(SubSeq(Filled, 1, n - 1)) = n - 1
        /\ \A j \in 1 .. n - 1 : SubSeq(Filled, 1, n - 1)[j] = Filled[j]
    <3>1. \A j \in 1 .. n - 1 : Filled[j] \in Stretch
      BY <1>2, <1>7, ElementOfSeq
    <3> QED BY <1>2, <1>7, <3>1, SubSeqProperties
  <2> QED BY <1>4, <2>1
<1> DEFINE of == [j \in 1 .. n |-> IF j = i THEN n ELSE j]
<1>9. of[i] = n /\ \A j \in 1 .. n : j # i => of[j] = j
  BY <1>2
<1> HIDE DEF of
<1>10. \A j \in 1 .. n - 1 : j \in 1 .. n /\ j # n
  BY <1>2
<1>11. last = segments[n]
  BY DEF last, n
<1>12. ASSUME NEW j \in 1 .. n - 1
       PROVE  of[j] \in 1 .. n /\ segments'[j] = segments[of[j]]
  <2>1. CASE j = i
    BY <1>3, <1>7, <1>8, <1>9, <1>11, <2>1
  <2>2. CASE j # i
    BY <1>7, <1>8, <1>9, <1>10, <2>2
  <2> QED BY <2>1, <2>2
<1>13. ASSUME NEW j \in 1 .. n - 1, NEW k \in 1 .. n - 1, j # k PROVE of[j] # of[k]
  BY <1>9, <1>10, <1>13
<1>14. ASSUME ~skipped', NEW j \in 1 .. n - 1
       PROVE  \/ Units(segments'[j]) \cap Units(r) = {}
              \/ j < i /\ of[j] = j
              \/ j > i
  <2>1. CASE j = i
    <3>1. i < n
      BY <1>2, <2>1
    <3>2. Units(last) \cap Units(r) = {}
      BY <1>1, <1>5, <1>6, <1>14, <3>1, OverlapUnits
    <3> QED BY <1>7, <1>8, <2>1, <3>2
  <2>2. CASE j # i
    <3>1. j < i \/ j > i
      BY <1>2, <2>2
    <3> QED BY <1>9, <1>10, <2>2, <3>1
  <2> QED BY <2>1, <2>2
<1>15. Units(s) \ Units(r) = {}
  BY <1>1, PartsOf
<1>16. ASSUME NEW j \in 1 .. n, NEW u \in Units(segments[j]) \ Units(r)
       PROVE  \E k \in 1 .. n - 1 : u \in Units(segments'[k])
  <2>1. j # i
    BY <1>15, <1>16 DEF s, i
  <2>2. CASE j = n
    <3>1. i \in 1 .. n - 1
      BY <1>2, <2>1, <2>2
    <3>2. segments'[i] = last
      BY <1>7, <1>8, <3>1
    <3> QED BY <1>11, <1>16, <2>2, <3>1, <3>2
  <2>3. CASE j # n
    <3>1. j \in 1 .. n - 1
      BY <1>2, <2>3
    <3>2. segments'[j] = segments[j]
      BY <1>7, <1>8, <2>1, <3>1
    <3> QED BY <1>16, <3>1, <3>2
  <2> QED BY <2>2, <2>3
<1>17. n - 1 <= NumSegments
  BY <1>2, UnitAssumption
<1>18. \A j \in 1 .. Len(segments') :
          /\ Whole(segments'[j])
          /\ of[j] \in 1 .. Len(segments) /\ Units(segments'[j]) \subseteq Units(segments[of[j]])
  <2>1. \A j \in 1 .. n - 1 :
          /\ Whole(segments'[j])
          /\ of[j] \in 1 .. n /\ Units(segments'[j]) \subseteq Units(segments[of[j]])
    BY <1>2, <1>12
  <2> QED BY <1>8, <2>1 DEF n
<1>19. \A j, k \in 1 .. Len(segments') :
          j # k /\ of[j] = of[k] => Units(segments'[j]) \cap Units(segments'[k]) = {}
  BY <1>8, <1>13
<1>20. ~skipped' => \A j \in 1 .. Len(segments') :
          \/ Units(segments'[j]) \cap Units(excluding.range) = {}
          \/ j < excluding.i /\ of[j] = j
          \/ j > excluding.i
  <2> SUFFICES ASSUME ~skipped', NEW j \in 1 .. Len(segments')
               PROVE  \/ Units(segments'[j]) \cap Units(excluding.range) = {}
                      \/ j < excluding.i /\ of[j] = j
                      \/ j > excluding.i
    OBVIOUS
  <2>1. j \in 1 .. n - 1
    BY <1>8
  <2> QED BY <1>14, <2>1 DEF r, i
<1>21. \A j \in 1 .. Len(segments) : \A u \in Units(segments[j]) \ Units(excluding.range) :
          \E k \in 1 .. Len(segments') : u \in Units(segments'[k])
  BY <1>8, <1>16 DEF n, r
<1>22. segments' \in Seq(Stretch) /\ Len(segments') <= NumSegments
  BY <1>8, <1>17
<1> QED BY <1>18, <1>19, <1>20, <1>21, <1>22, TurnKeeps

LEMMA ExcludeTurn_Keeps == SegInv /\ ExcludeTurn => SegInv'
  BY TurnMisses, TurnLowers, TurnUppers, TurnSplits, TurnRemoves


(* What malloc_alloc_segment takes is whole units as well.                  *)
LEMMA Multiples ==
    ASSUME NEW a \in Nat, NEW b \in Nat, a % Unit = 0, b % Unit = 0
    PROVE  (a + b) % Unit = 0
<1>1. a = Unit * (a \div Unit) + (a % Unit) /\ a \div Unit \in Nat
  BY UnitAssumption, Division
<1>2. b = Unit * (b \div Unit) + (b % Unit) /\ b \div Unit \in Nat
  BY UnitAssumption, Division
<1> DEFINE p == a \div Unit
           q == b \div Unit
<1> HIDE DEF p, q
<1>3. p \in Nat /\ q \in Nat /\ Unit * p \in Nat /\ Unit * q \in Nat
  BY <1>1, <1>2, UnitAssumption DEF p, q
<1>4. a = Unit * p /\ b = Unit * q
  BY <1>1, <1>2, <1>3 DEF p, q
<1>5. a + b = Unit * (p + q) /\ p + q \in Nat
  BY <1>3, <1>4, UnitAssumption
<1>6. \A m \in Nat \ {0} : \A k \in Nat : (m * k) % m = 0
  OBVIOUS
<1> QED BY <1>5, <1>6, UnitAssumption

LEMMA Alloc_Keeps ==
    ASSUME SegInv, NEW size \in Sizes, NEW align \in Aligns, malloc_alloc_segment(size, align)
    PROVE  SegInv'
<1>1. PICK i \in DOMAIN segments :
         /\ Serves(segments[i], size, align)
         /\ malloc_exclude_segment(Range2(AlignedStart(segments[i], align),
                                          AlignedStart(segments[i], align) + size - 1))
  BY DEF malloc_alloc_segment
<1> DEFINE s == segments[i]
           start == AlignedStart(s, align)
           r == Range2(start, start + size - 1)
<1>2. size \in Nat \ {0} /\ size % Unit = 0 /\ align \in Nat /\ align % Unit = 0
  BY RangeAssumption
<1>3. s \in Stretch /\ Whole(s)
  BY ElementOfSeq, LenProperties DEF SegInv, SegTypes
<1>4. start \in Nat /\ start % Unit = 0
  <2>1. CASE align = 0
    BY <1>3, <2>1 DEF AlignedStart, Whole, Stretch
  <2>2. CASE align # 0
    <3>1. s.start + align - 1 \in Nat
      BY <1>2, <1>3, <2>2 DEF Stretch
    <3>2. (s.start + align - 1) % AddressLimit \in Nat
      BY <3>1, UnitAssumption
    <3> DEFINE q == ((s.start + align - 1) % AddressLimit) \div align
    <3>3. q \in Nat
      BY <1>2, <2>2, <3>2, Division
    <3>4. start = q * align
      BY <2>2 DEF AlignedStart
    <3> HIDE DEF q
    <3>5. (q * align) % Unit = 0 /\ q * align \in Nat
      <4>1. align = Unit * (align \div Unit) + (align % Unit) /\ align \div Unit \in Nat
        BY <1>2, Division, UnitAssumption
      <4> DEFINE k == align \div Unit
      <4> HIDE DEF k
      <4>2. align = Unit * k /\ k \in Nat
        BY <1>2, <4>1, UnitAssumption DEF k
      <4>3. q * align = Unit * (q * k) /\ q * k \in Nat
        BY <3>3, <4>2, UnitAssumption
      <4> DEFINE p == q * k
      <4> HIDE DEF p
      <4>4. p \in Nat /\ q * align = Unit * p
        BY <4>3 DEF p
      <4>5. \A m \in Nat \ {0} : (m * p) % m = 0 /\ m * p \in Nat
        BY <4>4
      <4> QED BY <4>4, <4>5, UnitAssumption
    <3> QED BY <3>4, <3>5
  <2> QED BY <2>1, <2>2
<1> HIDE DEF start
<1>5. r \in Stretch /\ r.start = start /\ r.end = start + size - 1 /\ r.end + 1 = start + size
  BY <1>2, <1>4 DEF Range2, Stretch
<1>6. Whole(r)
  <2>1. (start + size) % Unit = 0
    BY <1>2, <1>4, Multiples
  <2>2. r.start <= r.end
    BY <1>2, <1>4, <1>5
  <2> QED BY <1>4, <1>5, <2>1, <2>2 DEF Whole
<1>7. malloc_exclude_segment(r)
  BY <1>1 DEF start
<1> HIDE DEF r
<1> QED BY <1>5, <1>6, <1>7, Exclude_Keeps

LEMMA SegInv_Stutters == SegInv /\ UNCHANGED segVars => SegInv'
<1> SUFFICES ASSUME SegInv, UNCHANGED <<segments, excluding, granted, dropped, skipped>> PROVE SegInv'
  BY DEF segVars
<1>1. SegTypes'
  BY DEF SegInv, SegTypes
<1>2. (Disjoint => Disjoint') /\ (NoneKept => NoneKept') /\ (NoneLost => NoneLost')
  BY DEF Disjoint, NoneKept, NoneLost, ToTake
<1> QED BY <1>1, <1>2 DEF SegInv

LEMMA SegNext_Keeps == SegInv /\ [SegNext]_segVars => SegInv'
<1> SUFFICES ASSUME SegInv, [SegNext]_segVars PROVE SegInv'
  OBVIOUS
<1>1. ASSUME NEW r \in Ranges, \A u \in Units(r) : u \notin granted, malloc_add_segment(r)
      PROVE  SegInv'
  BY <1>1, Add_Keeps
<1>2. ASSUME NEW r \in Ranges, malloc_exclude_segment(r) PROVE SegInv'
  <2>1. r \in Stretch /\ Whole(r)
    BY RangeAssumption DEF Stretch
  <2> QED BY <1>2, <2>1, Exclude_Keeps
<1>3. ASSUME NEW size \in Sizes, NEW align \in Aligns, malloc_alloc_segment(size, align)
      PROVE  SegInv'
  BY <1>3, Alloc_Keeps
<1> QED BY <1>1, <1>2, <1>3, ExcludeTurn_Keeps, ExcludeEnd_Keeps, SegInv_Stutters DEF SegNext

LEMMA SegInv_Exact == SegInv => TableExact
<1> SUFFICES ASSUME SegInv, excluding = Nothing PROVE TableExact
  BY DEF TableExact
<1>1. /\ DOMAIN segments = 1 .. Len(segments)
      /\ \A j \in 1 .. Len(segments) : segments[j] \in Stretch /\ Whole(segments[j])
  BY ElementOfSeq, LenProperties DEF SegInv, SegTypes
<1>2. (~skipped => Disjoint /\ NoneKept) /\ (~dropped => NoneLost)
  BY DEF SegInv
<1>3. ~skipped => \A i, j \in DOMAIN segments : i # j => ~Overlaps(segments[i], segments[j])
  BY <1>1, <1>2, OverlapUnits DEF Disjoint
<1>4. ~skipped => UNION {Units(segments[i]) : i \in DOMAIN segments} \subseteq granted
  BY <1>1, <1>2 DEF NoneKept, ToTake
<1>5. ~dropped => granted \subseteq UNION {Units(segments[i]) : i \in DOMAIN segments}
  BY <1>1, <1>2 DEF NoneLost
<1>6. \A i \in DOMAIN segments : Size(segments[i]) > 0
  BY <1>1 DEF Size, Whole, Stretch
<1> QED BY <1>3, <1>4, <1>5, <1>6 DEF TableExact

(* For any number of ranges, of any size, added, excluded and allocated in  *)
(* any order before the heap takes over, and for any size of the table:     *)
(* between calls the table holds the memory that was added and is neither   *)
(* excluded nor allocated, each byte once (malloc-wrapper.c:41-120).        *)
THEOREM TableIsExact == SegSpec => []TableExact
<1>1. SegSpec => []SegInv
  BY SegInit_Holds, SegNext_Keeps, PTL DEF SegSpec
<1> QED BY <1>1, SegInv_Exact, PTL

-----------------------------------------------------------------------------
(* The mappings the code runs under: what TLB1 holds at each step.          *)

Maps(e, as, ea) == e.valid /\ e.ts = as /\ e.tid \in {0, pid} /\ ea \in Pages(e)
Leads(e) == e.pa + codeEa - e.ea = codePa
Runs(k, as) == k \in Entry /\ Maps(tlb1[k], as, codeEa) /\ Leads(tlb1[k])
OnlyIn(K) == \A i \in Entry : tlb1[i].valid => i \in K
FinalEntry == [Invalid EXCEPT !.valid = TRUE, !.ea = PhysBase, !.tsize = PhysMapSize, !.pa = FinalPhys]

MmuTyped ==
    /\ tlb1 \in [Entry -> TlbEntry] /\ r10 \in Entry /\ r16 \in Int /\ r30 \in Int
    /\ pid \in Nat /\ codeEa \in Nat /\ codePa \in Nat /\ oddSize \in BOOLEAN

(* The loader's entry, until the code has found it.                         *)
AtEntry ==
    mmuPc \in {"calc_off", "find"} =>
      /\ addrSpace = 0
      /\ \E k \in Entry : /\ Runs(k, 0)
                          /\ \A i \in Entry : Maps(tlb1[i], 0, codeEa) => i = k
                          /\ tlb1[k].ea % 2 ^ tlb1[k].tsize = 0
                          /\ oddSize \/ tlb1[k].tsize % 2 = 0

OffsetKnown == mmuPc \in {"find", "clear", "copy", "switch", "inval_boot", "final", "jump"} =>
                 codeEa + r30 = codePa

Clearing ==
    mmuPc = "clear" =>
      /\ addrSpace = 0 /\ Runs(r10, 0) /\ r16 \in Entry
      /\ \A i \in Entry : Maps(tlb1[i], 0, codeEa) => i = r10
      /\ \A i \in Entry : i < r16 /\ tlb1[i].valid => i = r10

Alone == mmuPc = "copy" => addrSpace = 0 /\ Runs(r10, 0) /\ OnlyIn({r10})

TwoSpaces ==
    mmuPc \in {"switch", "inval_boot"} =>
      /\ addrSpace = IF mmuPc = "switch" THEN 0 ELSE 1
      /\ Runs(r10, 0) /\ Runs(r10 + 1, 1) /\ OnlyIn({r10, r10 + 1})

InTemporary == mmuPc = "final" => addrSpace = 1 /\ Runs(r10 + 1, 1) /\ OnlyIn({r10 + 1})

BothMapped ==
    mmuPc = "jump" => /\ addrSpace = 1 /\ Runs(r10 + 1, 1) /\ OnlyIn({r10 + 1, BaseTlbEntry})
                      /\ tlb1[BaseTlbEntry] = FinalEntry

AtLinked ==
    mmuPc \in {"inval_temp", "bss", "block_size", "done"} =>
      /\ addrSpace = 0 /\ Runs(BaseTlbEntry, 0) /\ physbase_phys = tlb1[BaseTlbEntry].pa
      /\ IF mmuPc = "inval_temp"
           THEN r10 + 1 \in Entry /\ tlb1[r10 + 1].ts = 1 /\ OnlyIn({r10 + 1, BaseTlbEntry})
           ELSE OnlyIn({BaseTlbEntry})

CacheSized == mmuPc = "done" => secondary \/ cacheBlock = "set"

MmuInv ==
    /\ MmuTyped /\ (mmuPc = "reset" => tlb1 = [i \in Entry |-> Invalid] /\ addrSpace = 0)
    /\ AtEntry /\ Clearing /\ Alone /\ CacheSized
    /\ ~oddSize => OffsetKnown
    /\ ~oddSize /\ ~Cramped => TwoSpaces /\ InTemporary /\ BothMapped /\ AtLinked

LEMMA Remainder ==
    ASSUME NEW a \in Nat, NEW m \in Nat \ {0}, NEW b \in 0 .. m - 1, a % m = 0
    PROVE  (a + b) % m = b
<1> DEFINE q == a \div m
<1>1. q \in Nat /\ a = m * q + (a % m)
  BY Division
<1> HIDE DEF q
<1>2. q \in Nat /\ a = m * q
  BY <1>1
<1>3. a + b = m * q + b /\ a + b \in Nat
  BY <1>2
<1>4. (a + b) \div m = q
  BY <1>2, <1>3, Quotient
<1>5. a + b = m * q + ((a + b) % m)
  BY <1>3, <1>4, Division
<1>6. \A x, y, z \in Int : x + y = x + z => y = z
  OBVIOUS
<1>7. (a + b) % m \in Int /\ m * q \in Int
  BY <1>2, <1>3
<1> QED BY <1>3, <1>5, <1>6, <1>7

LEMMA InvalidTyped == Invalid \in TlbEntry /\ ~Invalid.valid
  BY DEF Invalid, TlbEntry, PageSizes

LEMMA BaseIsEntry == BaseTlbEntry \in Entry /\ 0 \in Entry /\ NEntries \in Nat
  BY MapAssumption DEF Entry

LEMMA Written ==
    ASSUME MmuTyped, NEW i \in Int, NEW e \in TlbEntry, WriteTlb(i, e)
    PROVE  /\ tlb1' \in [Entry -> TlbEntry]
           /\ i \in Entry => tlb1'[i] = e /\ \A k \in Entry : k # i => tlb1'[k] = tlb1[k]
<1>1. tlb1 \in [Entry -> TlbEntry]
  BY DEF MmuTyped
<1>2. CASE i \in Entry
  <2>1. tlb1' = [tlb1 EXCEPT ![i] = e]
    BY <1>2 DEF WriteTlb
  <2> QED BY <1>1, <1>2, <2>1
<1>3. CASE i \notin Entry
  <2>1. tlb1' \in {tlb1} \cup {[tlb1 EXCEPT ![k] = e] : k \in Entry}
    BY <1>3 DEF WriteTlb
  <2>2. CASE tlb1' = tlb1
    BY <1>1, <1>3, <2>2
  <2>3. ASSUME NEW k \in Entry, tlb1' = [tlb1 EXCEPT ![k] = e] PROVE tlb1' \in [Entry -> TlbEntry]
    BY <1>1, <2>3
  <2> QED BY <1>3, <2>1, <2>2, <2>3
<1> QED BY <1>2, <1>3


LEMMA MmuInit_Holds == MmuInit => MmuInv
<1> SUFFICES ASSUME MmuInit PROVE MmuInv
  OBVIOUS
<1>1. /\ mmuPc = "reset" /\ tlb1 = [i \in Entry |-> Invalid] /\ addrSpace = 0 /\ pid = 0
      /\ codeEa = 0 /\ codePa = 0 /\ r10 = 0 /\ r16 = 0 /\ r30 = 0 /\ oddSize = FALSE
  BY DEF MmuInit
<1>2. MmuTyped
  <2>1. tlb1 \in [Entry -> TlbEntry]
    BY <1>1, InvalidTyped
  <2>2. oddSize \in BOOLEAN
    BY <1>1
  <2> QED BY <1>1, <2>1, <2>2, BaseIsEntry DEF MmuTyped
<1>3. AtEntry /\ Clearing /\ Alone /\ CacheSized /\ OffsetKnown
  BY <1>1 DEF AtEntry, Clearing, Alone, CacheSized, OffsetKnown
<1>4. TwoSpaces /\ InTemporary /\ BothMapped /\ AtLinked
  BY <1>1 DEF TwoSpaces, InTemporary, BothMapped, AtLinked
<1> QED BY <1>1, <1>2, <1>3, <1>4 DEF MmuInv


LEMMA SumOfNats == \A a, b \in Nat : a + b \in Nat
  OBVIOUS

(* The loader's entry maps the code, and nothing else does: what collides   *)
(* with it is not there.                                                    *)
LEMMA Enter_Keeps == MmuInv /\ EnterFromLoader => MmuInv'
<1> SUFFICES ASSUME MmuInv, EnterFromLoader PROVE MmuInv'
  OBVIOUS
<1>1. /\ mmuPc = "reset" /\ mmuPc' = "calc_off" /\ pid' \in {0, 1} /\ addrSpace = 0
      /\ tlb1 = [i \in Entry |-> Invalid] /\ UNCHANGED <<addrSpace, r10, r16, r30>>
  BY DEF EnterFromLoader, MmuInv
<1>2. PICK base \in LoadedAt, off \in CodeAt, e \in Loader, other \in Loader, i \in Entry, j \in Entry :
         /\ e.ts = 0 /\ e.tid \in {0, pid'} /\ i # j /\ ~Collide(e, other)
         /\ codePa' = base + off /\ codeEa' = e.ea + ((base + off) % 2 ^ e.tsize)
         /\ tlb1' = [[tlb1 EXCEPT ![i] = [e EXCEPT !.pa = base + off - ((base + off) % 2 ^ e.tsize)]]
                       EXCEPT ![j] = other]
         /\ oddSize' = (e.tsize % 2 = 1)
  BY DEF EnterFromLoader
<1> DEFINE size == 2 ^ e.tsize
           at == base + off
           inPage == at % size
           found == [e EXCEPT !.pa = base + off - inPage]
<1>3. /\ e \in TlbEntry /\ other \in TlbEntry /\ e.valid /\ e.ts = 0 /\ e.ea \in Nat
      /\ e.tsize \in PageSizes /\ e.tsize \in Nat /\ e.ea % size = 0
  <2>1. e \in TlbEntry /\ other \in TlbEntry /\ e.valid /\ e.ts = 0 /\ e.ea % size = 0
    BY <1>2, LoaderAssumption
  <2>2. e.ea \in Nat /\ e.tsize \in PageSizes
    BY <2>1 DEF TlbEntry
  <2>3. e.tsize \in Nat
    BY <2>2 DEF PageSizes
  <2> QED BY <2>1, <2>2, <2>3
<1>4. size \in Nat \ {0} /\ at \in Nat
  BY <1>3, LoaderAssumption, PowerAssumption
<1>5. inPage \in 0 .. size - 1 /\ inPage \in Nat
  <2>1. \A a \in Nat, m \in Nat \ {0} : a % m \in 0 .. m - 1 /\ a % m \in Nat
    OBVIOUS
  <2> QED BY <1>4, <2>1
<1>6. tlb1' = [[tlb1 EXCEPT ![i] = found] EXCEPT ![j] = other] /\ codeEa' = e.ea + inPage /\ codePa' = at
  <2>1. codeEa' = e.ea + inPage /\ codePa' = at
    BY <1>2
  <2>3. tlb1' = [[tlb1 EXCEPT ![i] = found] EXCEPT ![j] = other]
    BY <1>2
  <2> QED BY <2>1, <2>3
<1>7. found \in TlbEntry /\ found.valid /\ found.ts = 0 /\ found.tid = e.tid /\ found.ea = e.ea
      /\ found.tsize = e.tsize /\ found.pa = at - inPage
  <2> HIDE DEF at, inPage
  <2>1. at - inPage \in Int
    BY <1>4, <1>5
  <2>2. found = [e EXCEPT !.pa = at - inPage]
    <3>1. base + off - inPage = at - inPage
      BY <1>3, <1>5, LoaderAssumption DEF at
    <3> QED BY <3>1
  <2> HIDE DEF found
  <2> QED BY <1>3, <2>1, <2>2 DEF TlbEntry
<1>8. codeEa' \in Nat /\ codePa' \in Nat /\ codeEa' \in Pages(e)
  <2> HIDE DEF inPage, at
  <2>1. Pages(e) = e.ea .. e.ea + size - 1
    BY DEF Pages
  <2> HIDE DEF size
  <2> QED BY <1>3, <1>4, <1>5, <1>6, <2>1
<1> HIDE DEF found, inPage, at, size
<1>9. /\ tlb1' \in [Entry -> TlbEntry] /\ tlb1'[i] = found /\ tlb1'[j] = other
      /\ \A k \in Entry : k # i /\ k # j => tlb1'[k] = Invalid
  <2>1. tlb1 \in [Entry -> TlbEntry]
    BY DEF MmuInv, MmuTyped
  <2> QED BY <1>1, <1>2, <1>3, <1>6, <1>7, <2>1
<1>10. oddSize' \in BOOLEAN /\ (oddSize' <=> e.tsize % 2 = 1)
  BY <1>2
<1>11. MmuTyped'
  <2>1. pid' \in Nat
    BY <1>1
  <2> QED BY <1>1, <1>8, <1>9, <1>10, <2>1 DEF MmuInv, MmuTyped
<1>12. Maps(found, 0, codeEa)'
  BY <1>2, <1>7, <1>8 DEF Maps, Pages
<1>13. ~Maps(other, 0, codeEa)'
  <2> SUFFICES ASSUME other.ts = 0, other.tid \in {0, pid'}, codeEa' \in Pages(other) PROVE FALSE
    BY DEF Maps, Pages
  <2>1. 0 \in {e.tid, other.tid} \/ e.tid = other.tid
    BY <1>2
  <2>2. Pages(e) \cap Pages(other) = {}
    BY <1>2, <1>3, <2>1 DEF Collide
  <2> QED BY <1>8, <2>2
<1>14. Leads(found)'
  <2>1. found.pa + codeEa' - found.ea = codePa'
    <3>1. found.pa = at - inPage /\ codeEa' = e.ea + inPage /\ found.ea = e.ea /\ codePa' = at
      BY <1>6, <1>7
    <3>2. \A x, y, z \in Nat : (x - z) + (y + z) - y = x
      OBVIOUS
    <3> QED BY <1>3, <1>4, <1>5, <3>1, <3>2
  <2> QED BY <2>1 DEF Leads
<1>15. AtEntry'
  <2>1. Runs(i, 0)'
    BY <1>9, <1>12, <1>14 DEF Runs, Maps, Leads, Pages
  <2>2. ASSUME NEW k \in Entry, Maps(tlb1[k], 0, codeEa)' PROVE k = i
    <3>1. CASE k = j
      BY <1>9, <1>13, <2>2, <3>1 DEF Maps, Pages
    <3>2. CASE k # i /\ k # j
      <4>1. ~tlb1'[k].valid
        BY <1>9, <3>2, InvalidTyped
      <4> QED BY <2>2, <4>1 DEF Maps
    <3> QED BY <3>1, <3>2
  <2>3. tlb1'[i].ea % 2 ^ tlb1'[i].tsize = 0 /\ tlb1'[i].tsize = e.tsize
    BY <1>3, <1>7, <1>9 DEF size
  <2>4. oddSize' \/ tlb1'[i].tsize % 2 = 0
    <3>1. \A n \in Nat : n % 2 = 1 \/ n % 2 = 0
      OBVIOUS
    <3> QED BY <1>3, <1>10, <2>3, <3>1
  <2> QED BY <1>1, <2>1, <2>2, <2>3, <2>4 DEF AtEntry
<1>16. Clearing' /\ Alone' /\ CacheSized' /\ OffsetKnown'
  <2>1. ~OffsetKnown' => FALSE
    BY <1>1 DEF OffsetKnown
  <2> QED BY <1>1, <2>1 DEF Clearing, Alone, CacheSized
<1>17. TwoSpaces' /\ InTemporary' /\ BothMapped' /\ AtLinked'
  BY <1>1 DEF TwoSpaces, InTemporary, BothMapped, AtLinked
<1> QED BY <1>1, <1>11, <1>15, <1>16, <1>17 DEF MmuInv

(* The only entry that maps the code.                                       *)
LEMMA HitsOnly ==
    ASSUME NEW as, NEW k \in Entry, Maps(tlb1[k], as, codeEa),
           \A i \in Entry : Maps(tlb1[i], as, codeEa) => i = k
    PROVE  Hits(as, codeEa) = {k}
<1>1. \A i \in Entry : i \in Hits(as, codeEa) <=> Maps(tlb1[i], as, codeEa)
  BY DEF Hits, Maps
<1>2. Hits(as, codeEa) \subseteq Entry
  BY DEF Hits
<1> QED BY <1>1, <1>2

(* With an even TSIZE the size is right, and the offset is what the entry   *)
(* says.                                                                    *)
LEMMA CalcOff_Keeps == MmuInv /\ CalcEaPhysOff => MmuInv'
<1> SUFFICES ASSUME MmuInv, CalcEaPhysOff PROVE MmuInv'
  OBVIOUS
<1>1. /\ mmuPc = "calc_off" /\ mmuPc' = "find"
      /\ UNCHANGED <<tlb1, addrSpace, secondary, pid, codePa, oddSize, codeEa, r10, r16>>
  BY DEF CalcEaPhysOff, entered
<1>2. PICK i \in Hits(addrSpace, codeEa) :
         r30' = tlb1[i].pa + (codeEa % 2 ^ (2 * (tlb1[i].tsize \div 2))) - codeEa
  BY DEF CalcEaPhysOff
<1>3. MmuTyped /\ AtEntry
  BY DEF MmuInv
<1>4. PICK k \in Entry : /\ Runs(k, 0)
                         /\ \A l \in Entry : Maps(tlb1[l], 0, codeEa) => l = k
                         /\ tlb1[k].ea % 2 ^ tlb1[k].tsize = 0
                         /\ oddSize \/ tlb1[k].tsize % 2 = 0
  BY <1>1, <1>3 DEF AtEntry
<1>5. addrSpace = 0
  BY <1>1, <1>3 DEF AtEntry
<1>6. i = k
  <2>1. Hits(0, codeEa) = {k}
    BY <1>4, HitsOnly DEF Runs
  <2> QED BY <1>2, <1>5, <2>1
<1> DEFINE e == tlb1[k]
           size == 2 ^ e.tsize
<1>7. e.tsize \in PageSizes /\ e.tsize \in Nat /\ e.ea \in Nat /\ e.pa \in Int /\ codeEa \in Nat
  BY <1>3 DEF MmuTyped, TlbEntry, PageSizes
<1>8. size \in Nat \ {0} /\ e.ea % size = 0
  BY <1>4, <1>7, PowerAssumption
<1>9. codeEa \in e.ea .. e.ea + size - 1 /\ e.pa + codeEa - e.ea = codePa
  BY <1>4 DEF Runs, Maps, Pages, Leads
<1> HIDE DEF e
<1>10. (2 ^ (2 * (e.tsize \div 2))) \in Nat \ {0}
  <2>1. 2 * (e.tsize \div 2) \in PageSizes
    <3>1. \A n \in 0 .. 30 : 2 * (n \div 2) \in 0 .. 30
      OBVIOUS
    <3> QED BY <1>7, <3>1 DEF PageSizes
  <2> QED BY <2>1, PowerAssumption
<1>11. r30' = e.pa + (codeEa % 2 ^ (2 * (e.tsize \div 2))) - codeEa
  BY <1>2, <1>6 DEF e
<1>12. r30' \in Int
  <2>1. (codeEa % 2 ^ (2 * (e.tsize \div 2))) \in Int
    BY <1>7, <1>10
  <2> QED BY <1>7, <1>11, <2>1
<1>13. ~oddSize => codeEa + r30' = codePa
  <2> SUFFICES ASSUME ~oddSize PROVE codeEa + r30' = codePa
    OBVIOUS
  <2>1. 2 * (e.tsize \div 2) = e.tsize
    <3>1. e.tsize % 2 = 0
      BY <1>4 DEF e
    <3>2. \A n \in Nat : n % 2 = 0 => 2 * (n \div 2) = n
      OBVIOUS
    <3> QED BY <1>7, <3>1, <3>2
  <2>2. r30' = e.pa + (codeEa % size) - codeEa
    BY <1>11, <2>1
  <2> HIDE DEF size
  <2> DEFINE b == codeEa - e.ea
  <2>3. b \in 0 .. size - 1 /\ e.ea + b = codeEa
    BY <1>7, <1>8, <1>9
  <2> HIDE DEF b
  <2>4. codeEa % size = b
    BY <1>7, <1>8, <2>3, Remainder
  <2> QED BY <1>7, <1>9, <2>2, <2>3, <2>4
<1>14. MmuTyped'
  BY <1>1, <1>3, <1>12 DEF MmuTyped
<1>15. AtEntry'
  <2>1. Runs(k, 0)' /\ \A l \in Entry : Maps(tlb1[l], 0, codeEa)' => l = k
    BY <1>1, <1>4 DEF Runs, Maps, Leads, Pages
  <2>2. addrSpace' = 0 /\ tlb1'[k].ea % 2 ^ tlb1'[k].tsize = 0 /\ (oddSize' \/ tlb1'[k].tsize % 2 = 0)
    BY <1>1, <1>4, <1>5
  <2> QED BY <2>1, <2>2 DEF AtEntry
<1>16. ~oddSize' => OffsetKnown'
  BY <1>1, <1>13 DEF OffsetKnown
<1>17. Clearing' /\ Alone' /\ CacheSized' /\ TwoSpaces' /\ InTemporary' /\ BothMapped' /\ AtLinked'
  BY <1>1 DEF Clearing, Alone, CacheSized, TwoSpaces, InTemporary, BothMapped, AtLinked
<1> QED BY <1>1, <1>14, <1>15, <1>16, <1>17 DEF MmuInv

LEMMA Find_Keeps == MmuInv /\ FindEntry => MmuInv'
<1> SUFFICES ASSUME MmuInv, FindEntry PROVE MmuInv'
  OBVIOUS
<1>1. /\ mmuPc = "find" /\ mmuPc' = "clear" /\ r10' \in Hits(0, codeEa) /\ r16' = 0
      /\ UNCHANGED <<tlb1, addrSpace, secondary, pid, codePa, oddSize, codeEa, r30>>
  BY DEF FindEntry, entered
<1>2. MmuTyped /\ AtEntry /\ (~oddSize => OffsetKnown)
  BY DEF MmuInv
<1>3. PICK k \in Entry : Runs(k, 0) /\ \A l \in Entry : Maps(tlb1[l], 0, codeEa) => l = k
  BY <1>1, <1>2 DEF AtEntry
<1>4. r10' = k
  <2>1. Hits(0, codeEa) = {k}
    BY <1>3, HitsOnly DEF Runs
  <2> QED BY <1>1, <2>1
<1>5. MmuTyped'
  BY <1>1, <1>2, <1>3, <1>4 DEF MmuTyped
<1>6. Clearing'
  <2>1. Runs(k, 0)' /\ \A l \in Entry : Maps(tlb1[l], 0, codeEa)' => l = k
    BY <1>1, <1>3 DEF Runs, Maps, Leads, Pages
  <2>2. addrSpace' = 0 /\ r16' \in Entry
    BY <1>1, <1>2, BaseIsEntry DEF AtEntry
  <2>3. \A l \in Entry : ~(l < r16')
    BY <1>1, BaseIsEntry DEF Entry
  <2>4. Runs(r10, 0)'
    BY <1>4, <2>1 DEF Runs, Maps, Leads, Pages
  <2> QED BY <1>4, <2>1, <2>2, <2>3, <2>4 DEF Clearing
<1>7. ~oddSize' => OffsetKnown'
  BY <1>1, <1>2 DEF OffsetKnown
<1>8. AtEntry' /\ Alone' /\ CacheSized' /\ TwoSpaces' /\ InTemporary' /\ BothMapped' /\ AtLinked'
  BY <1>1 DEF AtEntry, Alone, CacheSized, TwoSpaces, InTemporary, BothMapped, AtLinked
<1> QED BY <1>1, <1>5, <1>6, <1>7, <1>8 DEF MmuInv


LEMMA Clear_Keeps == MmuInv /\ ClearOthers => MmuInv'
<1> SUFFICES ASSUME MmuInv, ClearOthers PROVE MmuInv'
  OBVIOUS
<1>1. /\ mmuPc = "clear" /\ r16' = r16 + 1
      /\ tlb1' = IF r16 = r10 THEN tlb1 ELSE [tlb1 EXCEPT ![r16].valid = FALSE]
      /\ mmuPc' = IF r16' = NEntries THEN "copy" ELSE "clear"
      /\ UNCHANGED <<addrSpace, secondary, pid, codePa, oddSize, codeEa, r10, r30>>
  BY DEF ClearOthers, entered
<1>2. /\ MmuTyped /\ Clearing /\ (~oddSize => OffsetKnown)
  BY DEF MmuInv
<1>3. /\ addrSpace = 0 /\ Runs(r10, 0) /\ r16 \in Entry /\ r10 \in Entry
      /\ \A i \in Entry : Maps(tlb1[i], 0, codeEa) => i = r10
      /\ \A i \in Entry : i < r16 /\ tlb1[i].valid => i = r10
  BY <1>1, <1>2 DEF Clearing, MmuTyped
<1>4. tlb1 \in [Entry -> TlbEntry]
  BY <1>2 DEF MmuTyped
<1>5. [tlb1[r16] EXCEPT !.valid = FALSE] \in TlbEntry /\ ~[tlb1[r16] EXCEPT !.valid = FALSE].valid
  BY <1>3, <1>4 DEF TlbEntry
<1>6. /\ tlb1' \in [Entry -> TlbEntry]
      /\ r16 # r10 => ~tlb1'[r16].valid
      /\ \A i \in Entry : i # r16 \/ i = r10 => tlb1'[i] = tlb1[i]
  <2>1. CASE r16 = r10
    BY <1>1, <1>4, <2>1
  <2>2. CASE r16 # r10
    <3>1. tlb1' = [tlb1 EXCEPT ![r16] = [tlb1[r16] EXCEPT !.valid = FALSE]]
      BY <1>1, <2>2
    <3> QED BY <1>3, <1>4, <1>5, <2>2, <3>1
  <2> QED BY <2>1, <2>2
<1>7. tlb1'[r10] = tlb1[r10] /\ \A i \in Entry : tlb1'[i] = tlb1[i] \/ ~tlb1'[i].valid
  BY <1>3, <1>6
<1>8. Runs(r10, 0)' /\ \A i \in Entry : Maps(tlb1[i], 0, codeEa)' => i = r10'
  <2>1. Runs(r10, 0)'
    BY <1>1, <1>3, <1>7 DEF Runs, Maps, Leads, Pages
  <2>2. ASSUME NEW i \in Entry, Maps(tlb1[i], 0, codeEa)' PROVE i = r10
    <3>1. tlb1'[i] = tlb1[i]
      BY <1>7, <2>2 DEF Maps
    <3>2. Maps(tlb1[i], 0, codeEa)
      BY <1>1, <2>2, <3>1 DEF Maps, Pages
    <3> QED BY <1>3, <3>2
  <2> QED BY <1>1, <2>1, <2>2
<1>9. r16 \in 0 .. NEntries - 1 /\ NEntries \in Nat /\ r16 \in Int
  BY <1>3, BaseIsEntry DEF Entry
<1>10. \A i \in Entry : i < r16' /\ tlb1'[i].valid => i = r10
  <2> SUFFICES ASSUME NEW i \in Entry, i < r16 + 1, tlb1'[i].valid PROVE i = r10
    BY <1>1
  <2>1. CASE i = r16
    BY <1>6, <2>1
  <2>2. CASE i # r16
    <3>1. i < r16
      BY <1>9, <2>2 DEF Entry
    <3> QED BY <1>3, <1>6, <2>2, <3>1
  <2> QED BY <2>1, <2>2
<1>11. MmuTyped'
  BY <1>1, <1>2, <1>6, <1>9 DEF MmuTyped
<1>12. ~oddSize' => OffsetKnown'
  BY <1>1, <1>2 DEF OffsetKnown
<1>13. Clearing'
  <2>1. mmuPc' = "clear" => r16' \in Entry
    BY <1>1, <1>9 DEF Entry
  <2> QED BY <1>1, <1>3, <1>8, <1>10, <2>1 DEF Clearing
<1>14. Alone'
  <2>1. mmuPc' = "copy" => r16' = NEntries
    BY <1>1
  <2>2. mmuPc' = "copy" => \A i \in Entry : tlb1'[i].valid => i = r10
    BY <1>9, <1>10, <2>1 DEF Entry
  <2> QED BY <1>1, <1>3, <1>8, <2>2 DEF Alone, OnlyIn
<1>15. mmuPc' \in {"clear", "copy"}
  BY <1>1
<1>16. AtEntry' /\ CacheSized' /\ TwoSpaces' /\ InTemporary' /\ BothMapped' /\ AtLinked'
  BY <1>15 DEF AtEntry, CacheSized, TwoSpaces, InTemporary, BothMapped, AtLinked
<1> QED BY <1>11, <1>12, <1>13, <1>14, <1>15, <1>16 DEF MmuInv

LEMMA NextEntry == MmuTyped /\ ~Cramped => r10 + 1 \in Entry /\ r10 + 1 # BaseTlbEntry /\ r10 + 1 # r10
  BY BaseIsEntry DEF MmuTyped, Cramped, Entry

LEMMA Copy_Keeps == MmuInv /\ CopyToOtherSpace => MmuInv'
<1> SUFFICES ASSUME MmuInv, CopyToOtherSpace PROVE MmuInv'
  OBVIOUS
<1> DEFINE e == [tlb1[r10] EXCEPT !.ts = 1]
<1>1. /\ mmuPc = "copy" /\ mmuPc' = "switch" /\ WriteTlb(r10 + 1, e)
      /\ UNCHANGED <<addrSpace, secondary, pid, codePa, oddSize, codeEa, r10, r16, r30>>
  BY DEF CopyToOtherSpace, entered
<1>2. /\ MmuTyped /\ Alone /\ (~oddSize => OffsetKnown)
  BY DEF MmuInv
<1>3. addrSpace = 0 /\ Runs(r10, 0) /\ OnlyIn({r10}) /\ r10 \in Entry /\ r10 + 1 \in Int
  BY <1>1, <1>2 DEF Alone, MmuTyped, Entry
<1>4. /\ e \in TlbEntry /\ e.ts = 1 /\ e.valid = tlb1[r10].valid /\ e.tid = tlb1[r10].tid
      /\ e.ea = tlb1[r10].ea /\ e.tsize = tlb1[r10].tsize /\ e.pa = tlb1[r10].pa
  <2>1. tlb1[r10] \in TlbEntry
    BY <1>2, <1>3 DEF MmuTyped
  <2> QED BY <2>1 DEF TlbEntry
<1> HIDE DEF e
<1>5. /\ tlb1' \in [Entry -> TlbEntry]
      /\ r10 + 1 \in Entry => tlb1'[r10 + 1] = e /\ \A k \in Entry : k # r10 + 1 => tlb1'[k] = tlb1[k]
  BY <1>1, <1>2, <1>3, <1>4, Written
<1>6. MmuTyped'
  BY <1>1, <1>2, <1>5 DEF MmuTyped
<1>7. ~oddSize' => OffsetKnown'
  BY <1>1, <1>2 DEF OffsetKnown
<1>8. ~Cramped => TwoSpaces'
  <2> SUFFICES ASSUME ~Cramped PROVE TwoSpaces'
    OBVIOUS
  <2>1. r10 + 1 \in Entry /\ r10 + 1 # r10
    BY <1>2, NextEntry
  <2>2. tlb1'[r10 + 1] = e /\ tlb1'[r10] = tlb1[r10] /\ \A k \in Entry : k # r10 + 1 => tlb1'[k] = tlb1[k]
    BY <1>3, <1>5, <2>1
  <2>3. Runs(r10, 0)'
    BY <1>1, <1>3, <2>2 DEF Runs, Maps, Leads, Pages
  <2>4. Runs(r10 + 1, 1)'
    <3>1. /\ tlb1[r10].valid /\ tlb1[r10].tid \in {0, pid} /\ codeEa \in Pages(tlb1[r10])
          /\ Leads(tlb1[r10])
      BY <1>3 DEF Runs, Maps
    <3>2. Maps(e, 1, codeEa) /\ Leads(e)
      BY <1>4, <3>1 DEF Maps, Leads, Pages
    <3> QED BY <1>1, <2>1, <2>2, <3>2 DEF Runs, Maps, Leads, Pages
  <2>5. OnlyIn({r10, r10 + 1})'
    BY <1>1, <1>3, <2>2 DEF OnlyIn
  <2> QED BY <1>1, <1>3, <2>3, <2>4, <2>5 DEF TwoSpaces
<1>9. Cramped' <=> Cramped
  BY <1>1 DEF Cramped
<1>10. AtEntry' /\ Clearing' /\ Alone' /\ CacheSized' /\ InTemporary' /\ BothMapped' /\ AtLinked'
  BY <1>1 DEF AtEntry, Clearing, Alone, CacheSized, InTemporary, BothMapped, AtLinked
<1> QED BY <1>1, <1>6, <1>7, <1>8, <1>9, <1>10 DEF MmuInv

LEMMA Switch_Keeps == MmuInv /\ SwitchSpace => MmuInv'
<1> SUFFICES ASSUME MmuInv, SwitchSpace PROVE MmuInv'
  OBVIOUS
<1>1. /\ mmuPc = "switch" /\ mmuPc' = "inval_boot" /\ addrSpace' = 1
      /\ UNCHANGED <<tlb1, secondary, pid, codePa, oddSize, codeEa, r10, r16, r30>>
  BY DEF SwitchSpace, entered
<1>2. /\ MmuTyped /\ (~oddSize => OffsetKnown) /\ (~oddSize /\ ~Cramped => TwoSpaces)
  BY DEF MmuInv
<1>3. MmuTyped'
  BY <1>1, <1>2 DEF MmuTyped
<1>4. ~oddSize' => OffsetKnown'
  BY <1>1, <1>2 DEF OffsetKnown
<1>5. TwoSpaces => TwoSpaces'
  <2> SUFFICES ASSUME TwoSpaces PROVE TwoSpaces'
    OBVIOUS
  <2>1. Runs(r10, 0) /\ Runs(r10 + 1, 1) /\ OnlyIn({r10, r10 + 1})
    BY <1>1 DEF TwoSpaces
  <2>2. Runs(r10, 0)'
    BY <1>1, <2>1 DEF Runs, Maps, Leads, Pages
  <2>3. Runs(r10 + 1, 1)'
    BY <1>1, <2>1 DEF Runs, Maps, Leads, Pages
  <2>4. OnlyIn({r10, r10 + 1})'
    BY <1>1, <2>1 DEF OnlyIn
  <2> QED BY <1>1, <2>2, <2>3, <2>4 DEF TwoSpaces
<1>6. Cramped' <=> Cramped
  BY <1>1 DEF Cramped
<1>7. AtEntry' /\ Clearing' /\ Alone' /\ CacheSized' /\ InTemporary' /\ BothMapped' /\ AtLinked'
  BY <1>1 DEF AtEntry, Clearing, Alone, CacheSized, InTemporary, BothMapped, AtLinked
<1> QED BY <1>1, <1>2, <1>3, <1>4, <1>5, <1>6, <1>7 DEF MmuInv

LEMMA InvalBoot_Keeps == MmuInv /\ InvalBoot => MmuInv'
<1> SUFFICES ASSUME MmuInv, InvalBoot PROVE MmuInv'
  OBVIOUS
<1>1. /\ mmuPc = "inval_boot" /\ mmuPc' = "final" /\ WriteTlb(r10, Invalid)
      /\ UNCHANGED <<addrSpace, secondary, pid, codePa, oddSize, codeEa, r10, r16, r30>>
  BY DEF InvalBoot, entered
<1>2. /\ MmuTyped /\ (~oddSize => OffsetKnown) /\ (~oddSize /\ ~Cramped => TwoSpaces)
  BY DEF MmuInv
<1>3. r10 \in Entry /\ r10 \in Int
  BY <1>2 DEF MmuTyped, Entry
<1>4. /\ tlb1' \in [Entry -> TlbEntry] /\ tlb1'[r10] = Invalid
      /\ \A k \in Entry : k # r10 => tlb1'[k] = tlb1[k]
  BY <1>1, <1>2, <1>3, Written, InvalidTyped
<1>5. MmuTyped'
  BY <1>1, <1>2, <1>4 DEF MmuTyped
<1>6. ~oddSize' => OffsetKnown'
  BY <1>1, <1>2 DEF OffsetKnown
<1>7. ~Cramped /\ TwoSpaces => InTemporary'
  <2> SUFFICES ASSUME ~Cramped, TwoSpaces PROVE InTemporary'
    OBVIOUS
  <2>1. Runs(r10 + 1, 1) /\ OnlyIn({r10, r10 + 1}) /\ addrSpace = 1
    BY <1>1 DEF TwoSpaces
  <2>2. r10 + 1 \in Entry /\ r10 + 1 # r10
    BY <1>2, NextEntry
  <2>3. tlb1'[r10 + 1] = tlb1[r10 + 1]
    BY <1>4, <2>2
  <2>4. Runs(r10 + 1, 1)'
    BY <1>1, <2>1, <2>3 DEF Runs, Maps, Leads, Pages
  <2>5. ASSUME NEW i \in Entry, tlb1'[i].valid PROVE i = r10 + 1
    <3>1. i # r10
      BY <1>4, <2>5, InvalidTyped
    <3> QED BY <1>4, <2>1, <2>5, <3>1 DEF OnlyIn
  <2>6. OnlyIn({r10 + 1})'
    BY <1>1, <2>5 DEF OnlyIn
  <2> QED BY <1>1, <2>1, <2>4, <2>6 DEF InTemporary
<1>8. Cramped' <=> Cramped
  BY <1>1 DEF Cramped
<1>9. AtEntry' /\ Clearing' /\ Alone' /\ CacheSized' /\ TwoSpaces' /\ BothMapped' /\ AtLinked'
  BY <1>1 DEF AtEntry, Clearing, Alone, CacheSized, TwoSpaces, BothMapped, AtLinked
<1> QED BY <1>1, <1>2, <1>5, <1>6, <1>7, <1>8, <1>9 DEF MmuInv


(* The physical address the final mapping starts at.                        *)
LEMMA FinalTyped ==
    ASSUME MmuTyped
    PROVE  FinalEntry \in TlbEntry /\ FinalEntry.valid /\ FinalEntry.ts = 0 /\ FinalEntry.tid = 0
           /\ FinalEntry.ea = PhysBase /\ FinalEntry.tsize = PhysMapSize /\ FinalEntry.pa = FinalPhys
<1> DEFINE size == 2 ^ PhysMapSize
<1>1. size \in Nat \ {0} /\ PhysMapSize \in PageSizes /\ PhysBase \in Nat
  BY MapAssumption, PowerAssumption
<1>2. codeEa + r30 \in Int
  BY DEF MmuTyped
<1>3. FinalPhys \in Int
  <2>1. \A a \in Int, m \in Nat \ {0} : (a \div m) * m \in Int
    OBVIOUS
  <2>2. ((codeEa + r30) \div size) * size \in Int
    <3> HIDE DEF size
    <3> QED BY <1>1, <1>2, <2>1
  <2> QED BY <2>2 DEF FinalPhys
<1> HIDE DEF size
<1> QED BY <1>1, <1>3 DEF FinalEntry, Invalid, TlbEntry

LEMMA Final_Keeps == MmuInv /\ WriteFinal => MmuInv'
<1> SUFFICES ASSUME MmuInv, WriteFinal PROVE MmuInv'
  OBVIOUS
<1>1. /\ mmuPc = "final" /\ mmuPc' = "jump" /\ WriteTlb(BaseTlbEntry, FinalEntry)
      /\ UNCHANGED <<addrSpace, secondary, pid, codePa, oddSize, codeEa, r10, r16, r30>>
  BY DEF WriteFinal, entered, FinalEntry
<1>2. /\ MmuTyped /\ (~oddSize => OffsetKnown) /\ (~oddSize /\ ~Cramped => InTemporary)
  BY DEF MmuInv
<1>3. BaseTlbEntry \in Entry /\ BaseTlbEntry \in Int
  BY BaseIsEntry DEF Entry
<1>4. /\ tlb1' \in [Entry -> TlbEntry] /\ tlb1'[BaseTlbEntry] = FinalEntry
      /\ \A k \in Entry : k # BaseTlbEntry => tlb1'[k] = tlb1[k]
  BY <1>1, <1>2, <1>3, Written, FinalTyped
<1>5. MmuTyped'
  BY <1>1, <1>2, <1>4 DEF MmuTyped
<1>6. ~oddSize' => OffsetKnown'
  BY <1>1, <1>2 DEF OffsetKnown
<1>7. ~Cramped /\ InTemporary => BothMapped'
  <2> SUFFICES ASSUME ~Cramped, InTemporary PROVE BothMapped'
    OBVIOUS
  <2>1. Runs(r10 + 1, 1) /\ OnlyIn({r10 + 1}) /\ addrSpace = 1
    BY <1>1 DEF InTemporary
  <2>2. r10 + 1 \in Entry /\ r10 + 1 # BaseTlbEntry
    BY <1>2, NextEntry
  <2>3. tlb1'[r10 + 1] = tlb1[r10 + 1]
    BY <1>4, <2>2
  <2>4. Runs(r10 + 1, 1)'
    BY <1>1, <2>1, <2>3 DEF Runs, Maps, Leads, Pages
  <2>5. OnlyIn({r10 + 1, BaseTlbEntry})'
    BY <1>1, <1>4, <2>1 DEF OnlyIn
  <2>6. FinalEntry' = FinalEntry
    BY <1>1 DEF FinalEntry, FinalPhys
  <2> QED BY <1>1, <1>4, <2>1, <2>4, <2>5, <2>6 DEF BothMapped
<1>8. Cramped' <=> Cramped
  BY <1>1 DEF Cramped
<1>9. AtEntry' /\ Clearing' /\ Alone' /\ CacheSized' /\ TwoSpaces' /\ InTemporary' /\ AtLinked'
  BY <1>1 DEF AtEntry, Clearing, Alone, CacheSized, TwoSpaces, InTemporary, AtLinked
<1> QED BY <1>1, <1>2, <1>5, <1>6, <1>7, <1>8, <1>9 DEF MmuInv

(* To the linked address: the final entry takes it to the same place.       *)
LEMMA Jump_Keeps == MmuInv /\ JumpToLinked => MmuInv'
<1> SUFFICES ASSUME MmuInv, JumpToLinked PROVE MmuInv'
  OBVIOUS
<1> DEFINE size == 2 ^ PhysMapSize
<1>1. /\ mmuPc = "jump" /\ mmuPc' = "inval_temp" /\ addrSpace' = 0
      /\ codeEa' = PhysBase + (codePa % size) /\ physbase_phys' = FinalPhys
      /\ UNCHANGED <<tlb1, secondary, pid, codePa, oddSize, r10, r16, r30>>
  BY DEF JumpToLinked, entered
<1>2. /\ MmuTyped /\ (~oddSize => OffsetKnown) /\ (~oddSize /\ ~Cramped => BothMapped)
  BY DEF MmuInv
<1>3. /\ size \in Nat \ {0} /\ PhysBase \in Nat /\ codePa \in Nat /\ BaseTlbEntry \in Entry
  BY <1>2, MapAssumption, PowerAssumption, BaseIsEntry DEF MmuTyped
<1> HIDE DEF size
<1>4. (codePa % size) \in 0 .. size - 1 /\ codePa = size * (codePa \div size) + (codePa % size)
      /\ codePa \div size \in Nat
  <2>1. \A a \in Nat, m \in Nat \ {0} : a % m \in 0 .. m - 1
    OBVIOUS
  <2> QED BY <1>3, <2>1, Division
<1> DEFINE b == codePa % size
           q == codePa \div size
<1> HIDE DEF b, q
<1>5. b \in 0 .. size - 1 /\ codePa = size * q + b /\ q \in Nat /\ codeEa' = PhysBase + b
  BY <1>1, <1>4 DEF b, q
<1>6. codeEa' \in Nat /\ codeEa' \in PhysBase .. PhysBase + size - 1
  BY <1>3, <1>5
<1>7. MmuTyped'
  BY <1>1, <1>2, <1>6 DEF MmuTyped
<1>8. ~oddSize /\ ~Cramped => AtLinked'
  <2> SUFFICES ASSUME ~oddSize, ~Cramped PROVE AtLinked'
    OBVIOUS
  <2>1. /\ Runs(r10 + 1, 1) /\ OnlyIn({r10 + 1, BaseTlbEntry}) /\ tlb1[BaseTlbEntry] = FinalEntry
        /\ codeEa + r30 = codePa
    BY <1>1, <1>2 DEF BothMapped, OffsetKnown
  <2> DEFINE f == tlb1[BaseTlbEntry]
  <2>2. /\ f.valid /\ f.ts = 0 /\ f.tid = 0 /\ f.ea = PhysBase /\ f.tsize = PhysMapSize /\ f.pa = FinalPhys
    BY <1>2, <2>1, FinalTyped
  <2>3. FinalPhys = q * size
    BY <2>1 DEF FinalPhys, q, size
  <2>4. tlb1' = tlb1 /\ tlb1'[BaseTlbEntry] = f
    BY <1>1
  <2> HIDE DEF f
  <2>5. f.pa + codeEa' - f.ea = codePa
    <3>1. q * size = size * q /\ size * q \in Nat
      BY <1>3, <1>5
    <3>2. \A x, y, z \in Nat : x + (y + z) - y = x + z
      OBVIOUS
    <3>3. b \in Nat
      BY <1>3, <1>5
    <3> QED BY <1>3, <1>5, <2>2, <2>3, <3>1, <3>2, <3>3
  <2>6. codeEa' \in Pages(f)
    BY <1>6, <2>2 DEF Pages, size
  <2>7. Runs(BaseTlbEntry, 0)'
    BY <1>1, <1>3, <2>2, <2>4, <2>5, <2>6 DEF Runs, Maps, Leads, Pages
  <2>8. r10 + 1 \in Entry /\ tlb1[r10 + 1].ts = 1
    BY <2>1 DEF Runs, Maps
  <2>9. OnlyIn({r10 + 1, BaseTlbEntry})'
    BY <1>1, <2>1 DEF OnlyIn
  <2> QED BY <1>1, <2>2, <2>4, <2>7, <2>8, <2>9 DEF AtLinked
<1>9. Cramped' <=> Cramped
  BY <1>1 DEF Cramped
<1>10. /\ AtEntry' /\ Clearing' /\ Alone' /\ CacheSized' /\ OffsetKnown'
       /\ TwoSpaces' /\ InTemporary' /\ BothMapped'
  BY <1>1 DEF AtEntry, Clearing, Alone, CacheSized, OffsetKnown, TwoSpaces, InTemporary, BothMapped
<1> QED BY <1>1, <1>7, <1>8, <1>9, <1>10 DEF MmuInv

LEMMA InvalTemp_Keeps == MmuInv /\ InvalTemp => MmuInv'
<1> SUFFICES ASSUME MmuInv, InvalTemp PROVE MmuInv'
  OBVIOUS
<1>1. /\ mmuPc = "inval_temp" /\ mmuPc' = (IF secondary THEN "done" ELSE "bss")
      /\ WriteTlb(r10 + 1, Invalid)
      /\ UNCHANGED <<addrSpace, secondary, pid, codePa, oddSize, codeEa, r10, r16, r30, physbase_phys>>
  BY DEF InvalTemp, entered
<1>2. MmuTyped /\ (~oddSize /\ ~Cramped => AtLinked)
  BY DEF MmuInv
<1>3. r10 + 1 \in Int
  BY <1>2 DEF MmuTyped, Entry
<1>4. /\ tlb1' \in [Entry -> TlbEntry]
      /\ r10 + 1 \in Entry => tlb1'[r10 + 1] = Invalid /\ \A k \in Entry : k # r10 + 1 => tlb1'[k] = tlb1[k]
  BY <1>1, <1>2, <1>3, Written, InvalidTyped
<1>5. MmuTyped'
  BY <1>1, <1>2, <1>4 DEF MmuTyped
<1>6. mmuPc' \in {"done", "bss"} /\ (mmuPc' = "done" => secondary')
  BY <1>1
<1>7. ~oddSize /\ ~Cramped => AtLinked'
  <2> SUFFICES ASSUME ~oddSize, ~Cramped PROVE AtLinked'
    OBVIOUS
  <2>1. /\ addrSpace = 0 /\ Runs(BaseTlbEntry, 0) /\ physbase_phys = tlb1[BaseTlbEntry].pa
        /\ OnlyIn({r10 + 1, BaseTlbEntry})
    BY <1>1, <1>2 DEF AtLinked
  <2>2. r10 + 1 \in Entry /\ r10 + 1 # BaseTlbEntry
    BY <1>2, NextEntry
  <2>3. tlb1'[BaseTlbEntry] = tlb1[BaseTlbEntry]
    BY <1>4, <2>2, BaseIsEntry
  <2>4. Runs(BaseTlbEntry, 0)'
    BY <1>1, <2>1, <2>3 DEF Runs, Maps, Leads, Pages
  <2>5. ASSUME NEW i \in Entry, tlb1'[i].valid PROVE i = BaseTlbEntry
    <3>1. i # r10 + 1
      BY <1>4, <2>2, <2>5, InvalidTyped
    <3> QED BY <1>4, <2>1, <2>2, <2>5, <3>1 DEF OnlyIn
  <2>6. OnlyIn({BaseTlbEntry})'
    BY <2>5 DEF OnlyIn
  <2> QED BY <1>1, <1>6, <2>1, <2>3, <2>4, <2>6 DEF AtLinked
<1>8. Cramped' <=> Cramped
  BY <1>1 DEF Cramped
<1>9. CacheSized'
  BY <1>6 DEF CacheSized
<1>10. /\ AtEntry' /\ Clearing' /\ Alone' /\ OffsetKnown' /\ TwoSpaces' /\ InTemporary' /\ BothMapped'
  BY <1>6 DEF AtEntry, Clearing, Alone, OffsetKnown, TwoSpaces, InTemporary, BothMapped
<1> QED BY <1>1, <1>5, <1>6, <1>7, <1>8, <1>9, <1>10 DEF MmuInv

LEMMA Cache_Keeps == MmuInv /\ (ClearBss \/ SetCacheBlock) => MmuInv'
<1> SUFFICES ASSUME MmuInv, ClearBss \/ SetCacheBlock PROVE MmuInv'
  OBVIOUS
<1>1. /\ mmuPc \in {"bss", "block_size"} /\ mmuPc' \in {"block_size", "done"}
      /\ mmuPc' = "done" => cacheBlock' = "set"
  BY DEF ClearBss, SetCacheBlock
<1>2. UNCHANGED <<tlb1, addrSpace, secondary, pid, codePa, oddSize, codeEa, r10, r16, r30, physbase_phys>>
  BY DEF ClearBss, SetCacheBlock, entered
<1>3. MmuTyped /\ (~oddSize /\ ~Cramped => AtLinked)
  BY DEF MmuInv
<1>4. MmuTyped'
  BY <1>2, <1>3 DEF MmuTyped
<1>5. AtLinked => AtLinked'
  <2> SUFFICES ASSUME AtLinked PROVE AtLinked'
    OBVIOUS
  <2>1. /\ addrSpace = 0 /\ Runs(BaseTlbEntry, 0) /\ physbase_phys = tlb1[BaseTlbEntry].pa
        /\ OnlyIn({BaseTlbEntry})
    BY <1>1 DEF AtLinked
  <2>2. Runs(BaseTlbEntry, 0)'
    BY <1>2, <2>1 DEF Runs, Maps, Leads, Pages
  <2>3. OnlyIn({BaseTlbEntry})'
    BY <1>2, <2>1 DEF OnlyIn
  <2> QED BY <1>1, <1>2, <2>1, <2>2, <2>3 DEF AtLinked
<1>6. Cramped' <=> Cramped
  BY <1>2 DEF Cramped
<1>7. CacheSized'
  BY <1>1 DEF CacheSized
<1>8. /\ AtEntry' /\ Clearing' /\ Alone' /\ OffsetKnown' /\ TwoSpaces' /\ InTemporary' /\ BothMapped'
  BY <1>1 DEF AtEntry, Clearing, Alone, OffsetKnown, TwoSpaces, InTemporary, BothMapped
<1> QED BY <1>1, <1>2, <1>3, <1>4, <1>5, <1>6, <1>7, <1>8 DEF MmuInv

LEMMA MmuInv_Stutters == MmuInv /\ UNCHANGED mmuVars => MmuInv'
<1> SUFFICES ASSUME MmuInv, UNCHANGED mmuVars PROVE MmuInv'
  OBVIOUS
<1>1. UNCHANGED <<mmuPc, secondary, tlb1, addrSpace, pid, codeEa, codePa, r10, r16, r30,
                  physbase_phys, cacheBlock, oddSize>>
  BY DEF mmuVars
<1>2. MmuTyped' /\ AtEntry' /\ Clearing' /\ Alone' /\ CacheSized'
  BY <1>1 DEF MmuInv, MmuTyped, AtEntry, Clearing, Alone, CacheSized, Runs, Maps, Leads, Pages, OnlyIn
<1>3. ~oddSize' => OffsetKnown'
  BY <1>1 DEF MmuInv, OffsetKnown
<1>4. Cramped' <=> Cramped
  BY <1>1 DEF Cramped
<1>5. (TwoSpaces => TwoSpaces') /\ (InTemporary => InTemporary')
  BY <1>1 DEF TwoSpaces, InTemporary, Runs, Maps, Leads, Pages, OnlyIn
<1>6. (BothMapped => BothMapped') /\ (AtLinked => AtLinked')
  BY <1>1 DEF BothMapped, AtLinked, FinalEntry, FinalPhys, Runs, Maps, Leads, Pages, OnlyIn
<1> QED BY <1>1, <1>2, <1>3, <1>4, <1>5, <1>6 DEF MmuInv

LEMMA MmuNext_Keeps == MmuInv /\ [MmuNext]_mmuVars => MmuInv'
  BY Enter_Keeps, CalcOff_Keeps, Find_Keeps, Clear_Keeps, Copy_Keeps, Switch_Keeps, InvalBoot_Keeps,
     Final_Keeps, Jump_Keeps, InvalTemp_Keeps, Cache_Keeps, MmuInv_Stutters DEF MmuNext

(* Who alone may translate, and does, is who is hit.                        *)
LEMMA HitsValid ==
    ASSUME NEW as, NEW k, Runs(k, as), \A i \in Entry : tlb1[i].valid /\ tlb1[i].ts = as => i = k
    PROVE  Hits(as, codeEa) = {k} /\ tlb1[k].pa + codeEa - tlb1[k].ea = codePa
<1>1. k \in Entry /\ Maps(tlb1[k], as, codeEa) /\ Leads(tlb1[k])
  BY DEF Runs
<1>2. \A i \in Entry : Maps(tlb1[i], as, codeEa) => i = k
  BY DEF Maps
<1> QED BY <1>1, <1>2, HitsOnly DEF Leads

CodePlaces == {"reset", "calc_off", "find", "clear", "copy", "switch", "inval_boot", "final", "jump",
               "inval_temp", "bss", "block_size", "done"}

AtPlace == mmuPc \in CodePlaces

LEMMA MmuPlaces == MmuSpec => []AtPlace
<1>1. MmuInit => AtPlace
  BY DEF MmuInit, CodePlaces, AtPlace
<1>2. AtPlace /\ [MmuNext]_mmuVars => AtPlace'
  BY DEF AtPlace, MmuNext, mmuVars, CodePlaces, EnterFromLoader, CalcEaPhysOff, FindEntry, ClearOthers,
         CopyToOtherSpace, SwitchSpace, InvalBoot, WriteFinal, JumpToLinked, InvalTemp, ClearBss,
         SetCacheBlock
<1> QED BY <1>1, <1>2, PTL DEF MmuSpec

LEMMA MmuInv_Mapped == MmuInv /\ AtPlace => CodeMapped
<1> SUFFICES ASSUME MmuInv, mmuPc \in CodePlaces, ~Cramped, ~oddSize, mmuPc # "reset"
             PROVE  /\ \E i \in Entry : /\ Hits(addrSpace, codeEa) = {i}
                                        /\ tlb1[i].pa + codeEa - tlb1[i].ea = codePa
                    /\ mmuPc = "done" =>
                         /\ {i \in Entry : tlb1[i].valid} = {BaseTlbEntry}
                         /\ physbase_phys = tlb1[BaseTlbEntry].pa
                         /\ secondary \/ cacheBlock = "set"
  BY DEF CodeMapped, AtPlace
<1>1. /\ MmuTyped /\ AtEntry /\ Clearing /\ Alone /\ CacheSized /\ OffsetKnown
      /\ TwoSpaces /\ InTemporary /\ BothMapped /\ AtLinked
  BY DEF MmuInv
<1>2. BaseTlbEntry \in Entry
  BY BaseIsEntry
<1>3. CASE mmuPc \in {"calc_off", "find"}
  <2>1. PICK k \in Entry : Runs(k, 0) /\ \A i \in Entry : Maps(tlb1[i], 0, codeEa) => i = k
    BY <1>1, <1>3 DEF AtEntry
  <2>2. Hits(0, codeEa) = {k} /\ Leads(tlb1[k]) /\ addrSpace = 0
    BY <1>1, <1>3, <2>1, HitsOnly DEF Runs, AtEntry
  <2> QED BY <1>3, <2>2 DEF Leads
<1>4. CASE mmuPc = "clear"
  <2>1. Hits(0, codeEa) = {r10} /\ Leads(tlb1[r10]) /\ addrSpace = 0 /\ r10 \in Entry
    BY <1>1, <1>4, HitsOnly DEF Runs, Clearing
  <2> QED BY <1>4, <2>1 DEF Leads
<1>5. CASE mmuPc = "copy"
  <2>1. Runs(r10, 0) /\ addrSpace = 0 /\ \A i \in Entry : tlb1[i].valid /\ tlb1[i].ts = 0 => i = r10
    BY <1>1, <1>5 DEF Alone, OnlyIn
  <2> QED BY <1>5, <2>1, HitsValid DEF Runs
<1>6. CASE mmuPc = "switch"
  <2>1. Runs(r10, 0) /\ Runs(r10 + 1, 1) /\ addrSpace = 0 /\ OnlyIn({r10, r10 + 1})
    BY <1>1, <1>6 DEF TwoSpaces
  <2>2. \A i \in Entry : tlb1[i].valid /\ tlb1[i].ts = 0 => i = r10
    BY <2>1 DEF OnlyIn, Runs, Maps
  <2> QED BY <1>6, <2>1, <2>2, HitsValid DEF Runs
<1>7. CASE mmuPc = "inval_boot"
  <2>1. Runs(r10, 0) /\ Runs(r10 + 1, 1) /\ addrSpace = 1 /\ OnlyIn({r10, r10 + 1})
    BY <1>1, <1>7 DEF TwoSpaces
  <2>2. \A i \in Entry : tlb1[i].valid /\ tlb1[i].ts = 1 => i = r10 + 1
    BY <2>1 DEF OnlyIn, Runs, Maps
  <2> QED BY <1>7, <2>1, <2>2, HitsValid DEF Runs
<1>8. CASE mmuPc = "final"
  <2>1. Runs(r10 + 1, 1) /\ addrSpace = 1 /\ OnlyIn({r10 + 1})
    BY <1>1, <1>8 DEF InTemporary
  <2>2. \A i \in Entry : tlb1[i].valid /\ tlb1[i].ts = 1 => i = r10 + 1
    BY <2>1 DEF OnlyIn
  <2> QED BY <1>8, <2>1, <2>2, HitsValid DEF Runs
<1>9. CASE mmuPc = "jump"
  <2>1. /\ Runs(r10 + 1, 1) /\ addrSpace = 1 /\ OnlyIn({r10 + 1, BaseTlbEntry})
        /\ tlb1[BaseTlbEntry] = FinalEntry
    BY <1>1, <1>9 DEF BothMapped
  <2>2. tlb1[BaseTlbEntry].ts = 0
    BY <1>1, <2>1, FinalTyped
  <2>3. \A i \in Entry : tlb1[i].valid /\ tlb1[i].ts = 1 => i = r10 + 1
    BY <2>1, <2>2 DEF OnlyIn
  <2> QED BY <1>9, <2>1, <2>3, HitsValid DEF Runs
<1>10. CASE mmuPc \in {"inval_temp", "bss", "block_size", "done"}
  <2>1. Runs(BaseTlbEntry, 0) /\ addrSpace = 0 /\ physbase_phys = tlb1[BaseTlbEntry].pa
    BY <1>1, <1>10 DEF AtLinked
  <2>2. \A i \in Entry : tlb1[i].valid /\ tlb1[i].ts = 0 => i = BaseTlbEntry
    BY <1>1, <1>10 DEF AtLinked, OnlyIn
  <2>3. Hits(0, codeEa) = {BaseTlbEntry}
        /\ tlb1[BaseTlbEntry].pa + codeEa - tlb1[BaseTlbEntry].ea = codePa
    BY <2>1, <2>2, HitsValid
  <2>4. mmuPc = "done" => {i \in Entry : tlb1[i].valid} = {BaseTlbEntry}
    BY <1>1, <1>2, <2>1 DEF AtLinked, OnlyIn, Runs, Maps
  <2>5. mmuPc = "done" => secondary \/ cacheBlock = "set"
    BY <1>1 DEF CacheSized
  <2> QED BY <1>2, <2>1, <2>3, <2>4, <2>5
<1> QED BY <1>3, <1>4, <1>5, <1>6, <1>7, <1>8, <1>9, <1>10 DEF CodePlaces

(* For any number of entries in TLB1, wherever the image is loaded and      *)
(* linked and whatever entries of the right kind the loader leaves: the     *)
(* code is mapped once at every step, and in the end by the final entry     *)
(* alone (head.S:199-365), unless the loader's entry is in the way of the   *)
(* temporary one or has an odd TSIZE.                                       *)
THEOREM CodeStaysMapped == MmuSpec => []CodeMapped
<1>1. MmuSpec => []MmuInv
  BY MmuInit_Holds, MmuNext_Keeps, PTL DEF MmuSpec
<1> QED BY <1>1, MmuPlaces, MmuInv_Mapped, PTL

-----------------------------------------------------------------------------
(* Which driver gets a device.                                              *)

LEMMA LeastOf ==
    ASSUME NEW S \in SUBSET Nat, S # {}
    PROVE  Min(S) \in S /\ \A k \in S : Min(S) <= k
<1>1. PICK m \in S : \A k \in S : ~(<<k, m>> \in OpToRel(<, Nat))
  BY NatLessThanWellFounded, WFMin
<1>2. ASSUME NEW k \in S PROVE m <= k
  <2>1. k \in Nat /\ m \in Nat
    OBVIOUS
  <2>2. k < m => <<k, m>> \in {ss \in Nat \X Nat : ss[1] < ss[2]}
    BY <2>1
  <2>3. ~(k < m)
    BY <1>1, <2>2 DEF OpToRel
  <2> QED BY <2>1, <2>3
<1> QED BY <1>2 DEF Min

LEMMA StringsAre ==
    ASSUME strlist \in Seq(Names), ended \in BOOLEAN
    PROVE  /\ Len(Strings) \in Nat
           /\ \A k \in 1 .. Len(Strings) : Strings[k] = strlist[k]
           /\ 1 .. Len(Strings) = {k \in DOMAIN strlist : k < Len(strlist) \/ ended}
<1>1. Len(strlist) \in Nat /\ DOMAIN strlist = 1 .. Len(strlist)
  BY LenProperties
<1>2. CASE ended
  BY <1>1, <1>2 DEF Strings
<1>3. CASE ~ended /\ Len(strlist) = 0
  <2>1. Strings = <<>>
    BY <1>1, <1>3, SubSeqEmpty DEF Strings
  <2> QED BY <1>1, <1>3, <2>1
<1>4. CASE ~ended /\ Len(strlist) > 0
  <2>1. Strings = SubSeq(strlist, 1, Len(strlist) - 1) /\ Len(strlist) - 1 \in 0 .. Len(strlist)
    BY <1>1, <1>4 DEF Strings
  <2>2. /\ Len(Strings) = Len(strlist) - 1
        /\ \A k \in 1 .. Len(strlist) - 1 : Strings[k] = strlist[k]
    BY <1>1, <1>4, <2>1, SubSeqProperties
  <2>3. \A k \in 1 .. Len(strlist) : k < Len(strlist) <=> k \in 1 .. Len(strlist) - 1
    BY <1>1
  <2> QED BY <1>1, <1>4, <2>2, <2>3
<1> QED BY <1>1, <1>2, <1>3, <1>4

(* The string of the device that decides, and its place in the list.        *)
LEMMA MatchIs ==
    ASSUME strlist \in Seq(Names), ended \in BOOLEAN, NEW list \in Seq(Names)
    PROVE  /\ match_compat(list) = 0 <=>
                ~\E s \in DOMAIN strlist : (s < Len(strlist) \/ ended) /\ Contains(list, strlist[s])
           /\ match_compat(list) # 0 =>
                /\ match_compat(list) \in DOMAIN list
                /\ \E s \in DOMAIN strlist :
                     /\ strlist[s] = list[match_compat(list)]
                     /\ \A r \in 1 .. s - 1 : ~Contains(list, strlist[r])
<1> DEFINE I == {k \in 1 .. Len(Strings) : Contains(list, Strings[k])}
           first == IF I # {} THEN Min(I) ELSE 0
           J == {k \in 1 .. Len(list) : list[k] = Strings[first]}
<1>1. match_compat(list) = IF first = 0 THEN 0 ELSE IF J # {} THEN Min(J) ELSE 0
  BY DEF match_compat, SelectInSeq
<1>2. I \subseteq Nat /\ J \subseteq Nat /\ 0 \notin I /\ 0 \notin J
  OBVIOUS
<1>3. /\ Len(Strings) \in Nat /\ Len(strlist) \in Nat /\ DOMAIN strlist = 1 .. Len(strlist)
      /\ DOMAIN list = 1 .. Len(list)
      /\ \A k \in 1 .. Len(Strings) : Strings[k] = strlist[k]
      /\ 1 .. Len(Strings) = {k \in DOMAIN strlist : k < Len(strlist) \/ ended}
  BY StringsAre, LenProperties
<1>4. I = {k \in DOMAIN strlist : (k < Len(strlist) \/ ended) /\ Contains(list, strlist[k])}
  BY <1>3
<1>5. CASE I = {}
  <2>1. match_compat(list) = 0
    BY <1>1, <1>5
  <2> HIDE DEF I
  <2> QED BY <1>4, <1>5, <2>1
<1>6. CASE I # {}
  <2>1. first \in I /\ (\A k \in I : first <= k) /\ first = Min(I)
    <3>1. first = Min(I)
      BY <1>6
    <3> HIDE DEF first, I
    <3> QED BY <1>2, <1>6, <3>1, LeastOf
  <2>2. first # 0 /\ first \in 1 .. Len(Strings) /\ Contains(list, Strings[first])
    BY <1>2, <2>1
  <2>3. J # {}
    <3> HIDE DEF first, I
    <3> QED BY <2>2 DEF Contains
  <2> HIDE DEF J
  <2>4. match_compat(list) = Min(J)
    BY <1>1, <2>2, <2>3
  <2>5. Min(J) \in J
    BY <1>2, <2>3, LeastOf
  <2> HIDE DEF first
  <2>6. Min(J) \in 1 .. Len(list) /\ list[Min(J)] = Strings[first]
    BY <2>5 DEF J
  <2>7. \A r \in 1 .. first - 1 : ~Contains(list, strlist[r])
    <3> SUFFICES ASSUME NEW r \in 1 .. first - 1, Contains(list, strlist[r]) PROVE FALSE
      OBVIOUS
    <3>1. r \in 1 .. Len(Strings) /\ r < first
      BY <1>3, <2>2
    <3>2. r \in I
      BY <1>3, <3>1
    <3> HIDE DEF I
    <3> QED BY <1>2, <2>1, <3>1, <3>2
  <2>8. Strings[first] = strlist[first] /\ first \in DOMAIN strlist
    BY <1>3, <2>2
  <2> HIDE DEF I
  <2>9. match_compat(list) # 0 /\ match_compat(list) \in DOMAIN list
    BY <1>2, <1>3, <2>4, <2>5, <2>6
  <2>10. \E s \in DOMAIN strlist : (s < Len(strlist) \/ ended) /\ Contains(list, strlist[s])
    BY <1>4, <2>1
  <2>11. /\ strlist[first] = list[match_compat(list)]
         /\ \A r \in 1 .. first - 1 : ~Contains(list, strlist[r])
    BY <2>4, <2>6, <2>7, <2>8
  <2> QED BY <2>8, <2>9, <2>10, <2>11
<1> QED BY <1>5, <1>6


DriverType == [compatibles : Seq(Names), probe : Answers]
Ended == bound \notin {"none", Pending}
Knows(d) == \E s \in DOMAIN strlist : /\ s < Len(strlist) \/ ended
                                      /\ Contains(drivers[d].compatibles, strlist[s])
Takes(d) == Knows(d) /\ drivers[d].probe # Unhandled
Told(p) == \E s \in DOMAIN strlist :
             /\ strlist[s] = p[2]
             /\ \A r \in 1 .. s - 1 : ~Contains(drivers[p[1]].compatibles, strlist[r])

DrvTyped ==
    /\ drivers \in Seq(DriverType) /\ strlist \in Seq(Names) /\ ended \in BOOLEAN
    /\ drv \in 1 .. Len(drivers) + 1 /\ probed \in Seq(Nat \X Names)

(* The drivers passed so far do not take the device.                        *)
DrvInv ==
    /\ DrvTyped
    /\ bound = "none" => drivers = <<>> /\ drv = 1 /\ probed = <<>>
    /\ ~Ended => driver = NoDriver
    /\ \A d \in 1 .. drv - 1 : ~Takes(d)
    /\ \A p \in 1 .. Len(probed) : Told(probed[p])
    /\ Ended => \/ bound = Unhandled /\ driver = NoDriver /\ drv = Len(drivers) + 1
                \/ /\ drv \in 1 .. Len(drivers) /\ Takes(drv) /\ bound = drivers[drv].probe
                   /\ driver = IF bound = "0" THEN drv ELSE NoDriver

LEMMA DrvInit_Holds == DrvInit => DrvInv
<1> SUFFICES ASSUME DrvInit PROVE DrvInv
  OBVIOUS
<1>1. /\ drivers = <<>> /\ strlist = <<>> /\ ended = TRUE /\ drv = 1 /\ driver = NoDriver
      /\ probed = <<>> /\ bound = "none" /\ Len(drivers) = 0 /\ Len(probed) = 0
  BY DEF DrvInit
<1>2. drivers \in Seq(DriverType) /\ strlist \in Seq(Names) /\ probed \in Seq(Nat \X Names)
  BY <1>1, EmptySeq
<1>3. ~Ended
  BY <1>1 DEF Ended
<1>4. ended \in BOOLEAN /\ drv \in 1 .. Len(drivers) + 1
  BY <1>1
<1>5. \A d \in 1 .. drv - 1 : ~Takes(d)
  BY <1>1
<1>6. \A p \in 1 .. Len(probed) : Told(probed[p])
  BY <1>1
<1> QED BY <1>1, <1>2, <1>3, <1>4, <1>5, <1>6 DEF DrvInv, DrvTyped

LEMMA Bind_Keeps == DrvInv /\ libos_bind_driver => DrvInv'
<1> SUFFICES ASSUME DrvInv, libos_bind_driver PROVE DrvInv'
  OBVIOUS
<1>1. /\ bound = "none" /\ bound' = Pending /\ drivers' \in DrvSets
      /\ strlist' \in BoundedSeq(Names, MaxStrings) /\ ended' \in BOOLEAN
      /\ UNCHANGED <<drv, driver, probed>>
  BY DEF libos_bind_driver
<1>2. drv = 1 /\ probed = <<>> /\ driver = NoDriver /\ probed \in Seq(Nat \X Names) /\ Len(probed) = 0
  BY <1>1 DEF DrvInv, DrvTyped, Ended
<1>3. drivers' \in Seq(DriverType) /\ Len(drivers') \in Nat
  BY <1>1, DrvAssumption, LenProperties DEF DriverType
<1>4. strlist' \in Seq(Names)
  <2>1. PICK m \in 0 .. MaxStrings : strlist' \in [1 .. m -> Names]
    BY <1>1 DEF BoundedSeq, SeqOf
  <2>2. m \in Nat
    BY DrvAssumption
  <2> QED BY <2>1, <2>2, SeqDef
<1>5. bound' = Pending /\ bound' # "none" /\ ~Ended'
  BY <1>1 DEF Pending, Ended
<1>6. DrvTyped'
  <2>1. drv' \in 1 .. Len(drivers') + 1
    BY <1>1, <1>2, <1>3
  <2> QED BY <1>1, <1>2, <1>3, <1>4, <2>1 DEF DrvTyped
<1>7. (\A d \in 1 .. drv' - 1 : ~Takes(d)') /\ (\A p \in 1 .. Len(probed') : Told(probed[p])')
  <2>1. \A d \in 1 .. drv' - 1 : FALSE
    BY <1>1, <1>2
  <2>2. \A p \in 1 .. Len(probed') : FALSE
    BY <1>1, <1>2
  <2> QED BY <2>1, <2>2
<1> QED BY <1>1, <1>2, <1>5, <1>6, <1>7 DEF DrvInv

LEMMA Offer_Keeps == DrvInv /\ Offer => DrvInv'
<1> SUFFICES ASSUME DrvInv, Offer PROVE DrvInv'
  OBVIOUS
<1> DEFINE d == drivers[drv]
           id == match_compat(d.compatibles)
<1>1. /\ bound = Pending /\ drv <= Len(drivers) /\ UNCHANGED <<drivers, strlist, ended>>
      /\ IF id = 0 THEN drv' = drv + 1 /\ UNCHANGED <<driver, probed, bound>>
         ELSE /\ probed' = Append(probed, <<drv, d.compatibles[id]>>)
              /\ driver' = IF d.probe = "0" THEN drv ELSE NoDriver
              /\ IF d.probe = Unhandled THEN drv' = drv + 1 /\ UNCHANGED bound
                 ELSE bound' = d.probe /\ UNCHANGED drv
  BY DEF Offer
<1>2. DrvTyped /\ (\A e \in 1 .. drv - 1 : ~Takes(e)) /\ (\A p \in 1 .. Len(probed) : Told(probed[p]))
  BY DEF DrvInv
<1>3. ~Ended /\ driver = NoDriver /\ bound # "none"
  BY <1>1 DEF DrvInv, Ended, Pending
<1>4. /\ Len(drivers) \in Nat /\ drv \in 1 .. Len(drivers) /\ drv \in Nat /\ d \in DriverType
      /\ strlist \in Seq(Names) /\ ended \in BOOLEAN
  BY <1>1, <1>2, LenProperties, ElementOfSeq DEF DrvTyped
<1>5. d.compatibles \in Seq(Names) /\ d.probe \in Answers /\ d.probe \notin {"none", Pending}
  <2>1. d.compatibles \in Seq(Names) /\ d.probe \in Answers
    BY <1>4 DEF DriverType
  <2>2. d.probe \notin {"none", "pending"}
    BY <2>1 DEF Answers
  <2> QED BY <2>1, <2>2 DEF Pending
<1>6. /\ id = 0 <=> ~Knows(drv)
      /\ id # 0 => /\ id \in DOMAIN d.compatibles /\ Told(<<drv, d.compatibles[id]>>)
  <2> HIDE DEF id
  <2>1. id = match_compat(d.compatibles)
    BY DEF id
  <2> QED BY <1>4, <1>5, <2>1, MatchIs DEF Knows, Told
<1> HIDE DEF id
<1>7. \A e : Takes(e)' <=> Takes(e)
  BY <1>1 DEF Takes, Knows
<1>8. \A p : Told(p)' <=> Told(p)
  BY <1>1 DEF Told
<1>9. \A e \in 1 .. drv : e \in 1 .. drv - 1 \/ e = drv
  BY <1>4
<1>10. probed \in Seq(Nat \X Names) /\ Len(probed) \in Nat
  BY <1>2, LenProperties DEF DrvTyped
<1>11. ~Takes(drv) /\ drv' = drv + 1 => \A e \in 1 .. drv' - 1 : ~Takes(e)
  <2> SUFFICES ASSUME ~Takes(drv), drv' = drv + 1, NEW e \in 1 .. drv' - 1 PROVE ~Takes(e)
    OBVIOUS
  <2>1. e \in 1 .. drv
    BY <1>4
  <2> QED BY <1>2, <1>9, <2>1
<1>12. drv' \in {drv, drv + 1} => drv' \in 1 .. Len(drivers') + 1
  BY <1>1, <1>4
<1>13. CASE id = 0
  <2>1. drv' = drv + 1 /\ UNCHANGED <<drivers, strlist, ended, driver, probed, bound>>
    BY <1>1, <1>13
  <2>2. ~Takes(drv)
    BY <1>6, <1>13 DEF Takes
  <2>3. DrvTyped'
    BY <1>2, <1>12, <2>1 DEF DrvTyped
  <2>4. \A e \in 1 .. drv' - 1 : ~Takes(e)'
    BY <1>7, <1>11, <2>1, <2>2
  <2>5. \A p \in 1 .. Len(probed') : Told(probed[p])'
    BY <1>2, <2>1 DEF Told
  <2>6. ~Ended'
    BY <1>3, <2>1 DEF Ended
  <2> QED BY <1>3, <2>1, <2>3, <2>4, <2>5, <2>6 DEF DrvInv
<1>14. CASE id # 0
  <2> DEFINE call == <<drv, d.compatibles[id]>>
  <2>1. /\ probed' = Append(probed, call)
        /\ driver' = IF d.probe = "0" THEN drv ELSE NoDriver
        /\ IF d.probe = Unhandled THEN drv' = drv + 1 /\ UNCHANGED bound
           ELSE bound' = d.probe /\ UNCHANGED drv
    BY <1>1, <1>14
  <2>2. call \in Nat \X Names /\ Told(call)
    <3>1. d.compatibles[id] \in Names
      BY <1>5, <1>6, <1>14, ElementOfSeq, LenProperties
    <3> QED BY <1>4, <1>6, <1>14, <3>1
  <2> HIDE DEF call
  <2>3. /\ probed' \in Seq(Nat \X Names) /\ Len(probed') = Len(probed) + 1
        /\ (\A p \in 1 .. Len(probed) : probed'[p] = probed[p]) /\ probed'[Len(probed) + 1] = call
    BY <1>10, <2>1, <2>2, AppendProperties
  <2>4. \A p \in 1 .. Len(probed') : Told(probed[p])'
    <3> SUFFICES ASSUME NEW p \in 1 .. Len(probed') PROVE Told(probed'[p])
      BY <1>1 DEF Told
    <3>1. p \in 1 .. Len(probed) \/ p = Len(probed) + 1
      BY <1>10, <2>3
    <3> QED BY <1>2, <2>2, <2>3, <3>1
  <2>5. DrvTyped'
    <3>1. drv' \in {drv, drv + 1}
      BY <2>1
    <3> QED BY <1>1, <1>2, <1>12, <2>3, <3>1 DEF DrvTyped
  <2>6. CASE d.probe = Unhandled
    <3>1. drv' = drv + 1 /\ bound' = bound /\ driver' = NoDriver /\ ~Takes(drv)
      BY <2>1, <2>6 DEF Takes, Unhandled
    <3>2. \A e \in 1 .. drv' - 1 : ~Takes(e)'
      BY <1>7, <1>11, <3>1
    <3>3. ~Ended' /\ bound' # "none"
      BY <1>3, <3>1 DEF Ended
    <3> QED BY <2>4, <2>5, <3>1, <3>2, <3>3 DEF DrvInv
  <2>7. CASE d.probe # Unhandled
    <3>1. drv' = drv /\ bound' = d.probe
      BY <2>1, <2>7
    <3>2. Takes(drv)
      BY <1>6, <1>14, <2>7 DEF Takes
    <3>3. Takes(drv)' /\ drivers'[drv'] = d
      BY <1>1, <3>1, <3>2 DEF Takes, Knows
    <3>4. \A e \in 1 .. drv' - 1 : ~Takes(e)'
      BY <1>2, <1>7, <3>1
    <3>5. Ended' /\ bound' # "none"
      BY <1>5, <3>1 DEF Ended
    <3>6. driver' = IF bound' = "0" THEN drv' ELSE NoDriver
      BY <2>1, <3>1
    <3>7. drv' \in 1 .. Len(drivers')
      BY <1>1, <1>4, <3>1
    <3> QED BY <2>4, <2>5, <3>1, <3>3, <3>4, <3>5, <3>6, <3>7 DEF DrvInv
  <2> QED BY <2>6, <2>7
<1> QED BY <1>13, <1>14

LEMMA NoneLeft_Keeps == DrvInv /\ NoneLeft => DrvInv'
<1> SUFFICES ASSUME DrvInv, NoneLeft PROVE DrvInv'
  OBVIOUS
<1>1. /\ bound = Pending /\ drv > Len(drivers) /\ bound' = Unhandled
      /\ UNCHANGED <<drivers, strlist, ended, drv, driver, probed>>
  BY DEF NoneLeft
<1>2. DrvTyped /\ (\A e \in 1 .. drv - 1 : ~Takes(e)) /\ (\A p \in 1 .. Len(probed) : Told(probed[p]))
      /\ driver = NoDriver
  BY <1>1 DEF DrvInv, Ended
<1>3. drv = Len(drivers) + 1
  BY <1>1, <1>2, LenProperties DEF DrvTyped
<1>4. DrvTyped'
  BY <1>1, <1>2 DEF DrvTyped
<1>5. Ended' /\ bound' # "none"
  BY <1>1 DEF Ended, Unhandled, Pending
<1>6. \A e \in 1 .. drv' - 1 : ~Takes(e)'
  BY <1>1, <1>2 DEF Takes, Knows
<1>7. \A p \in 1 .. Len(probed') : Told(probed[p])'
  BY <1>1, <1>2 DEF Told
<1> QED BY <1>1, <1>2, <1>3, <1>4, <1>5, <1>6, <1>7 DEF DrvInv

LEMMA DrvInv_Stutters == DrvInv /\ UNCHANGED drvVars => DrvInv'
<1> SUFFICES ASSUME DrvInv, UNCHANGED <<drivers, strlist, ended, drv, driver, probed, bound>> PROVE DrvInv'
  BY DEF drvVars
<1>1. DrvTyped' /\ (Ended' <=> Ended)
  BY DEF DrvInv, DrvTyped, Ended
<1>2. (\A e \in 1 .. drv' - 1 : ~Takes(e)') /\ (Takes(drv)' <=> Takes(drv))
  BY DEF DrvInv, Takes, Knows
<1>3. \A p \in 1 .. Len(probed') : Told(probed[p])'
  BY DEF DrvInv, Told
<1> QED BY <1>1, <1>2, <1>3 DEF DrvInv

LEMMA DrvInv_First == DrvInv => BoundToFirst
<1> SUFFICES ASSUME DrvInv, Ended PROVE BoundToFirst
  BY DEF BoundToFirst, Ended
<1> DEFINE takers == {d \in DOMAIN drivers : Takes(d)}
<1>1. /\ DrvTyped /\ (\A d \in 1 .. drv - 1 : ~Takes(d)) /\ (\A p \in 1 .. Len(probed) : Told(probed[p]))
      /\ \/ bound = Unhandled /\ driver = NoDriver /\ drv = Len(drivers) + 1
         \/ /\ drv \in 1 .. Len(drivers) /\ Takes(drv) /\ bound = drivers[drv].probe
            /\ driver = IF bound = "0" THEN drv ELSE NoDriver
  BY DEF DrvInv
<1>2. /\ Len(drivers) \in Nat /\ DOMAIN drivers = 1 .. Len(drivers) /\ DOMAIN probed = 1 .. Len(probed)
  BY <1>1, LenProperties DEF DrvTyped
<1>3. IF takers = {} THEN bound = Unhandled /\ driver = NoDriver
      ELSE \E d \in takers : /\ \A e \in takers : d <= e
                             /\ bound = drivers[d].probe
                             /\ driver = IF bound = "0" THEN d ELSE NoDriver
  <2>1. CASE bound = Unhandled /\ driver = NoDriver /\ drv = Len(drivers) + 1
    <3>1. takers = {}
      BY <1>1, <1>2, <2>1
    <3> QED BY <2>1, <3>1
  <2>2. CASE /\ drv \in 1 .. Len(drivers) /\ Takes(drv) /\ bound = drivers[drv].probe
             /\ driver = IF bound = "0" THEN drv ELSE NoDriver
    <3>1. drv \in takers
      BY <1>2, <2>2
    <3>2. \A e \in takers : drv <= e
      <4> SUFFICES ASSUME NEW e \in takers, ~(drv <= e) PROVE FALSE
        OBVIOUS
      <4>1. e \in 1 .. drv - 1
        BY <1>2, <2>2
      <4> QED BY <1>1, <4>1
    <3> HIDE DEF takers
    <3> QED BY <2>2, <3>1, <3>2
  <2> QED BY <1>1, <2>1, <2>2
<1>4. \A p \in DOMAIN probed : \E s \in DOMAIN strlist :
        /\ strlist[s] = probed[p][2]
        /\ \A r \in 1 .. s - 1 : ~Contains(drivers[probed[p][1]].compatibles, strlist[r])
  BY <1>1, <1>2 DEF Told
<1> QED BY <1>3, <1>4 DEF BoundToFirst, Takes, Knows

(* For any drivers in any order and any compatible strings, the last of     *)
(* them cut or not: the device goes to the first driver that knows one of   *)
(* its strings and does not decline it, each one asked is told the most     *)
(* specific string it knows, and the device keeps no driver whose probe     *)
(* failed (driver.c:34-92).                                                 *)
THEOREM DevicesGoToTheFirst == DrvSpec => []BoundToFirst
<1>1. DrvInv /\ [DrvNext]_drvVars => DrvInv'
  BY Bind_Keeps, Offer_Keeps, NoneLeft_Keeps, DrvInv_Stutters DEF DrvNext
<1>2. DrvSpec => []DrvInv
  BY <1>1, DrvInit_Holds, PTL DEF DrvSpec
<1> QED BY <1>2, DrvInv_First, PTL

-----------------------------------------------------------------------------
(* The pages of a range.                                                    *)

LEMMA GreatestOf ==
    ASSUME NEW n \in Nat, NEW S \in SUBSET (0 .. n), S # {}
    PROVE  /\ \E m \in S : \A k \in S : k <= m
           /\ Max(S) \in S /\ \A k \in S : k <= Max(S)
<1> DEFINE T == {n - k : k \in S}
<1>1. T \in SUBSET Nat /\ T # {}
  <2>1. \A k \in S : k \in 0 .. n
    OBVIOUS
  <2>2. \A k \in S : n - k \in Nat
    BY <2>1
  <2> QED BY <2>2
<1> HIDE DEF T
<1>2. Min(T) \in T /\ \A k \in T : Min(T) <= k
  BY <1>1, LeastOf
<1>3. PICK m \in S : Min(T) = n - m
  BY <1>2 DEF T
<1>4. ASSUME NEW k \in S PROVE k <= m
  <2>1. n - k \in T
    BY DEF T
  <2>2. n - m <= n - k /\ m \in 0 .. n /\ k \in 0 .. n
    BY <1>2, <1>3, <2>1
  <2> QED BY <2>2
<1>5. \A k \in S : m >= k
  <2>1. \A k \in S : k \in Int /\ m \in Int
    OBVIOUS
  <2> QED BY <1>4, <2>1
<1>6. Max(S) \in S /\ \A k \in S : Max(S) >= k
  BY <1>5 DEF Max
<1>7. \A k \in S : Max(S) \in Int /\ k \in Int
  <2>1. \A k \in S : k \in Int
    OBVIOUS
  <2> QED BY <1>6, <2>1
<1> QED BY <1>4, <1>6, <1>7

LEMMA Powers ==
    ASSUME NEW i \in 0 .. 30
    PROVE  /\ 2 ^ i \in Nat \ {0}
           /\ \A j \in i .. 30 : \E q \in Nat \ {0} : 2 ^ j = 2 ^ i * q
           /\ \A j \in 0 .. i : 2 ^ j <= 2 ^ i
<1>1. 2 ^ i \in Nat \ {0} /\ \A k \in 0 .. 30 : 2 ^ k \in Nat \ {0}
  <2>1. \A k \in 0 .. 30 : k + 0 <= 30 /\ 0 \in 0 .. 30
    OBVIOUS
  <2> QED BY <2>1, ExponentLaws
<1>2. ASSUME NEW k \in 0 .. 30, NEW j \in k .. 30 PROVE 2 ^ j = 2 ^ k * 2 ^ (j - k) /\ j - k \in 0 .. 30
  <2>1. j - k \in 0 .. 30 /\ k + (j - k) = j /\ k + (j - k) <= 30
    OBVIOUS
  <2>2. 2 ^ (k + (j - k)) = 2 ^ k * 2 ^ (j - k)
    BY <2>1, ExponentLaws
  <2> QED BY <2>1, <2>2
<1>3. ASSUME NEW j \in i .. 30 PROVE \E q \in Nat \ {0} : 2 ^ j = 2 ^ i * q
  <2>1. 2 ^ j = 2 ^ i * 2 ^ (j - i) /\ j - i \in 0 .. 30
    BY <1>2
  <2> QED BY <1>1, <2>1
<1>4. ASSUME NEW j \in 0 .. i PROVE 2 ^ j <= 2 ^ i
  <2>1. j \in 0 .. 30 /\ i \in j .. 30
    OBVIOUS
  <2>2. 2 ^ i = 2 ^ j * 2 ^ (i - j) /\ i - j \in 0 .. 30
    BY <1>2, <2>1
  <2>3. 2 ^ j \in Nat /\ 2 ^ (i - j) \in Nat \ {0}
    BY <1>1, <2>1, <2>2
  <2> DEFINE a == 2 ^ j
             b == 2 ^ (i - j)
  <2>4. a \in Nat /\ b \in Nat \ {0} /\ 2 ^ i = a * b
    BY <2>2, <2>3
  <2> HIDE DEF a, b
  <2>5. a <= a * b
    <3>1. b - 1 \in Nat /\ a * b = a + a * (b - 1) /\ a * (b - 1) \in Nat
      BY <2>4
    <3> QED BY <2>4, <3>1
  <2> QED BY <2>4, <2>5 DEF a
<1> QED BY <1>1, <1>3, <1>4

(* What a power of 2 divides, a smaller one divides.                        *)
LEMMA Divides ==
    ASSUME NEW n \in Nat, NEW i \in 0 .. 30, NEW j \in i .. 30, n % 2 ^ j = 0
    PROVE  n % 2 ^ i = 0
<1>1. 2 ^ i \in Nat \ {0} /\ 2 ^ j \in Nat \ {0} /\ j \in 0 .. 30
  <2>1. j \in 0 .. 30
    OBVIOUS
  <2> QED BY <2>1, Powers
<1>2. PICK q \in Nat \ {0} : 2 ^ j = 2 ^ i * q
  BY Powers
<1>3. n = 2 ^ j * (n \div 2 ^ j) + (n % 2 ^ j) /\ n \div 2 ^ j \in Nat
  BY <1>1, Division
<1> DEFINE a == 2 ^ i
           c == n \div 2 ^ j
<1> HIDE DEF c
<1>4. a \in Nat \ {0} /\ c \in Nat /\ n = (a * q) * c
  <2>1. n = (2 ^ j) * c /\ c \in Nat
    BY <1>1, <1>3 DEF c
  <2> QED BY <1>1, <1>2, <2>1
<1> HIDE DEF a
<1>5. n = a * (q * c) /\ q * c \in Nat
  BY <1>4
<1>6. \A m \in Nat \ {0} : \A k \in Nat : (m * k) % m = 0
  OBVIOUS
<1>7. n % a = 0
  BY <1>4, <1>5, <1>6
<1> QED BY <1>7 DEF a

LEMMA LogIs ==
    ASSUME NEW n \in 1 .. 2 ^ 29 - 1
    PROVE  ilog2(n) \in 0 .. 29 /\ 2 ^ ilog2(n) <= n /\ n < 2 ^ (ilog2(n) + 1)
<1> DEFINE S == {k \in 0 .. 29 : 2 ^ k <= n}
<1>1. n \in Nat /\ n > 0 /\ n < 2 ^ 29 /\ 2 ^ 29 \in Nat
  <2>1. 2 ^ 29 \in Nat
    <3>1. 29 \in 0 .. 30
      OBVIOUS
    <3> QED BY <3>1, Powers
  <2> QED BY <2>1
<1>2. S \in SUBSET (0 .. 29) /\ 0 \in S
  BY <1>1, ExponentLaws
<1> HIDE DEF S
<1>3. PICK m \in S : \A k \in S : k <= m
  BY <1>2, GreatestOf
<1>4. m \in 0 .. 29 /\ 2 ^ m <= n
  BY <1>3 DEF S
<1>5. m # 29
  <2>1. ~(2 ^ 29 <= n)
    BY <1>1
  <2> QED BY <1>4, <2>1
<1>6. m + 1 \in 0 .. 29 /\ m + 1 \in 0 .. 30 /\ ~(m + 1 <= m)
  BY <1>4, <1>5
<1>7. ~(2 ^ (m + 1) <= n)
  BY <1>3, <1>6 DEF S
<1>8. 2 ^ (m + 1) \in Nat
  BY <1>6, Powers
<1>9. n < 2 ^ (m + 1)
  BY <1>1, <1>7, <1>8
<1> QED BY <1>4, <1>9 DEF ilog2

LEMMA ZeroesAre ==
    ASSUME NEW n \in 1 .. 2 ^ 30 - 1
    PROVE  /\ count_lsb_zeroes(n) \in 0 .. 29 /\ n % 2 ^ count_lsb_zeroes(n) = 0
           /\ n % 2 ^ (count_lsb_zeroes(n) + 1) # 0
<1> DEFINE S == {k \in 0 .. 29 : n % 2 ^ k = 0}
<1>1. n \in Nat /\ n > 0 /\ n < 2 ^ 30 /\ 2 ^ 30 \in Nat
  <2>1. 2 ^ 30 \in Nat
    <3>1. 30 \in 0 .. 30
      OBVIOUS
    <3> QED BY <3>1, Powers
  <2> QED BY <2>1
<1>2. S \in SUBSET (0 .. 29) /\ 0 \in S
  BY <1>1, ExponentLaws
<1> HIDE DEF S
<1>3. PICK m \in S : \A k \in S : k <= m
  BY <1>2, GreatestOf
<1>4. m \in 0 .. 29 /\ n % 2 ^ m = 0
  BY <1>3 DEF S
<1>5. n % 2 ^ (m + 1) # 0
  <2>1. CASE m = 29
    <3>1. n % 2 ^ 30 = n
      BY <1>1
    <3>2. m + 1 = 30
      BY <2>1
    <3>3. n % 2 ^ (m + 1) = n % 2 ^ 30
      BY <3>2
    <3> QED BY <1>1, <3>1, <3>3
  <2>2. CASE m # 29
    <3>1. m + 1 \in 0 .. 29 /\ ~(m + 1 <= m)
      BY <1>4, <2>2
    <3> QED BY <1>3, <3>1 DEF S
  <2> QED BY <2>1, <2>2
<1> QED BY <1>4, <1>5 DEF count_lsb_zeroes

LEMMA LargestValid ==
    ASSUME NEW t \in Nat, t >= 2, caps.valid_tsizes \subseteq 0 .. 31, 2 \in caps.valid_tsizes
    PROVE  /\ max_valid_tsize(t) \in caps.valid_tsizes /\ max_valid_tsize(t) \in 2 .. 31
           /\ max_valid_tsize(t) <= t
           /\ \A v \in caps.valid_tsizes : v > max_valid_tsize(t) => v > t
<1> DEFINE S == {v \in caps.valid_tsizes : v <= t}
<1>1. S \in SUBSET (0 .. 31) /\ 2 \in S
  OBVIOUS
<1>2. max_valid_tsize(t) = Max(S)
  BY DEF max_valid_tsize
<1>3. Max(S) \in S /\ \A k \in S : k <= Max(S)
  <2> HIDE DEF S
  <2> QED BY <1>1, GreatestOf
<1>4. 2 <= Max(S)
  BY <1>1, <1>3
<1>5. Max(S) \in 0 .. 31 /\ Max(S) <= t /\ Max(S) \in caps.valid_tsizes
  BY <1>3
<1>6. ASSUME NEW v \in caps.valid_tsizes, v > Max(S) PROVE v > t
  <2> SUFFICES ASSUME ~(v > t) PROVE FALSE
    OBVIOUS
  <2>1. v \in S
    OBVIOUS
  <2>2. v <= Max(S) /\ v \in Int /\ Max(S) \in Int
    BY <1>3, <1>5, <2>1
  <2> HIDE DEF S
  <2> QED BY <1>6, <2>2
<1> HIDE DEF S
<1> QED BY <1>2, <1>4, <1>5, <1>6

(* The page chosen for a range: it fits and no larger one does.             *)
LEMMA ChosenFits ==
    ASSUME NEW r \in MapRanges, NEW q, q.first = r[1], q.pages = r[2],
           caps.valid_tsizes \subseteq 0 .. 31, 2 \in caps.valid_tsizes
    PROVE  /\ max_page_size(r[1], r[2]) \in caps.valid_tsizes
           /\ Fits(max_page_size(r[1], r[2]), q)
           /\ \A t \in caps.valid_tsizes : t > max_page_size(r[1], r[2]) => ~Fits(t, q)
<1> DEFINE epn == r[1]
           num == r[2]
           A == IF epn = 0 THEN 30 ELSE count_lsb_zeroes(epn) + 2
           B == ilog2(num) + 2
           N == max_valid_tsize(A)
           M == max_valid_tsize(B)
           chosen == max_page_size(epn, num)
<1>1. /\ epn \in 0 .. 2 ^ 30 - 1 /\ num \in 1 .. 2 ^ 29 - 1 /\ epn \in Nat /\ num \in Nat
      /\ num > 0 /\ num < 2 ^ 29 /\ 2 ^ 29 \in Nat /\ 2 ^ 30 \in Nat
  <2>1. 29 \in 0 .. 30 /\ 30 \in 0 .. 30
    OBVIOUS
  <2>2. 2 ^ 29 \in Nat /\ 2 ^ 30 \in Nat
    BY <2>1, Powers
  <2>3. r \in (0 .. 2 ^ 30 - 1) \X (1 .. 2 ^ 29 - 1)
    BY MapRangeAssumption
  <2>4. epn \in 0 .. 2 ^ 30 - 1 /\ num \in 1 .. 2 ^ 29 - 1
    BY <2>3
  <2> HIDE DEF epn, num
  <2>5. epn \in Nat /\ num \in Nat /\ num > 0 /\ num < 2 ^ 29
    BY <2>2, <2>4
  <2> QED BY <2>2, <2>4, <2>5
<1>2. epn # 0 => /\ count_lsb_zeroes(epn) \in 0 .. 29 /\ epn % 2 ^ count_lsb_zeroes(epn) = 0
                 /\ epn % 2 ^ (count_lsb_zeroes(epn) + 1) # 0
  <2>1. epn # 0 => epn \in 1 .. 2 ^ 30 - 1
    BY <1>1
  <2> QED BY <2>1, ZeroesAre
<1>3. ilog2(num) \in 0 .. 29 /\ 2 ^ ilog2(num) <= num /\ num < 2 ^ (ilog2(num) + 1)
  BY <1>1, LogIs
<1>4. A \in Nat /\ A >= 2 /\ B \in Nat /\ B >= 2
  BY <1>2, <1>3
<1>5. chosen = Min({N, M})
  <2>1. natural_alignment(epn) = N
    BY DEF natural_alignment, pages_to_tsize_lsb
  <2>2. max_valid_tsize(pages_to_tsize_msb(num)) = M
    BY <1>1 DEF pages_to_tsize_msb
  <2> QED BY <2>1, <2>2 DEF max_page_size
<1> HIDE DEF chosen, epn, num
<1>6. /\ N \in caps.valid_tsizes /\ N \in 2 .. 31 /\ N <= A
      /\ \A v \in caps.valid_tsizes : v > N => v > A
  <2> HIDE DEF A
  <2> QED BY <1>4, LargestValid
<1>7. /\ M \in caps.valid_tsizes /\ M \in 2 .. 31 /\ M <= B
      /\ \A v \in caps.valid_tsizes : v > M => v > B
  <2> HIDE DEF B
  <2> QED BY <1>4, LargestValid
<1>8. chosen \in {N, M} /\ chosen <= N /\ chosen <= M
  <2>1. {N, M} \in SUBSET Nat /\ {N, M} # {}
    BY <1>6, <1>7
  <2> HIDE DEF N, M
  <2> QED BY <1>5, <2>1, LeastOf
<1> HIDE DEF N, M
<1>9. chosen \in caps.valid_tsizes /\ chosen \in 2 .. 31 /\ chosen <= A /\ chosen <= B
      /\ chosen - 2 \in 0 .. 29
  BY <1>4, <1>6, <1>7, <1>8
<1>10. tsize_to_pages(chosen) = 2 ^ (chosen - 2)
  BY <1>9 DEF tsize_to_pages
<1>11. epn % 2 ^ (chosen - 2) = 0
  <2>1. CASE epn = 0
    <3> chosen - 2 \in 0 .. 30
      BY <1>9
    <3>1. 2 ^ (chosen - 2) \in Nat \ {0}
      BY Powers
    <3> QED BY <2>1, <3>1
  <2>2. CASE epn # 0
    <3> DEFINE z == count_lsb_zeroes(epn)
    <3>1. z \in 0 .. 29 /\ epn % 2 ^ z = 0 /\ chosen - 2 \in 0 .. 30 /\ z \in (chosen - 2) .. 30
      BY <1>2, <1>9, <2>2
    <3> HIDE DEF z
    <3> QED BY <1>1, <3>1, Divides
  <2> QED BY <2>1, <2>2
<1>12. 2 ^ (chosen - 2) <= num
  <2>1. chosen - 2 \in 0 .. ilog2(num) /\ chosen - 2 \in 0 .. 30 /\ ilog2(num) \in 0 .. 30
    BY <1>3, <1>9
  <2>2. 2 ^ (chosen - 2) <= 2 ^ ilog2(num) /\ 2 ^ (chosen - 2) \in Nat /\ 2 ^ ilog2(num) \in Nat
    BY <1>3, <1>9, <2>1, Powers
  <2> QED BY <1>1, <1>3, <2>2
<1>13. Fits(chosen, q)
  BY <1>10, <1>11, <1>12 DEF Fits, epn, num
<1>14. ASSUME NEW t \in caps.valid_tsizes, t > chosen, Fits(t, q) PROVE FALSE
  <2>1. t \in 3 .. 31 /\ t - 2 \in 1 .. 29
    BY <1>9, <1>14
  <2>2. epn % 2 ^ (t - 2) = 0 /\ 2 ^ (t - 2) <= num
    <3>1. tsize_to_pages(t) = 2 ^ (t - 2)
      BY <2>1 DEF tsize_to_pages
    <3> QED BY <1>14, <3>1 DEF Fits, epn, num
  <2>3. CASE chosen = M
    <3>1. t > B
      BY <1>7, <1>14, <2>3
    <3> DEFINE g == ilog2(num) + 1
    <3>2. g \in 0 .. t - 2 /\ num < 2 ^ g /\ g \in 0 .. 30 /\ t - 2 \in 0 .. 30
      BY <1>3, <2>1, <3>1
    <3> HIDE DEF g
    <3>3. 2 ^ g <= 2 ^ (t - 2) /\ 2 ^ g \in Nat /\ 2 ^ (t - 2) \in Nat
      BY <2>1, <3>2, Powers
    <3> QED BY <1>1, <2>2, <3>2, <3>3
  <2>4. CASE chosen = N
    <3>1. t > A
      BY <1>6, <1>14, <2>4
    <3>2. CASE epn = 0
      <4>1. t - 2 = 29
        BY <2>1, <3>1, <3>2
      <4> QED BY <1>1, <2>2, <4>1
    <3>3. CASE epn # 0
      <4> DEFINE z == count_lsb_zeroes(epn) + 1
      <4>1. z \in 0 .. 30 /\ t - 2 \in z .. 30 /\ epn % 2 ^ z # 0
        BY <1>2, <2>1, <3>1, <3>3
      <4> HIDE DEF z
      <4> QED BY <1>1, <2>2, <4>1, Divides
    <3> QED BY <3>2, <3>3
  <2> QED BY <1>8, <2>3, <2>4
<1> QED BY <1>9, <1>13, <1>14 DEF chosen, epn, num


-----------------------------------------------------------------------------
(* Entry i of TLB1 is what asked tells of.                                  *)
Entered(i) ==
    LET q == asked[i]
    IN q.tid >= 128 \/
         /\ hard[i].tsize \in SizesOf(core) /\ Fits(hard[i].tsize, q)
         /\ \A t \in SizesOf(core) : t > hard[i].tsize => ~Fits(t, q)

(* The features are those of the core, and before it is known no entry is   *)
(* valid.                                                                   *)
TlbInv ==
    /\ core = Unset \/ (core \in TlbCores /\ caps.valid_tsizes = SizesOf(core))
    /\ DOMAIN soft = TlbIdx /\ DOMAIN hard = TlbIdx /\ DOMAIN asked = TlbIdx
    /\ \A i \in TlbIdx : core = Unset => ~hard[i].valid
    /\ \A i \in TlbIdx : hard[i].valid => Entered(i)

LEMMA SizesBounded ==
    ASSUME NEW c \in TlbCores
    PROVE  /\ ValidTsizes(c, FtrsOf(c)) = SizesOf(c)
           /\ SizesOf(c) \subseteq 0 .. 31 /\ 2 \in SizesOf(c)
<1> DEFINE lo == c.minsize
           hi == c.maxsize
           Even == {2 * k : k \in lo .. hi}
           Picked == {t \in 0 .. 30 : t % 2 = 0 /\ 2 * lo <= t /\ t <= 2 * hi}
<1>1. /\ c.pvr = "e6500" => c.mavn
      /\ c.pvr \in {"e500mc", "e5500"} => ~c.mavn
      /\ c.tlb1ps \subseteq 0 .. 31 /\ lo \in 0 .. 15 /\ hi \in 0 .. 15
      /\ c.mavn \in BOOLEAN /\ 2 \in SizesOf(c)
  BY CoreAssumption
<1>2. "MMUV2" \in FtrsOf(c) <=> c.mavn
  <2>1. CASE c.pvr \in {"e500mc", "e5500"}
    <3>1. FtrsOf(c) = {"L2_CORE_LOCAL"}
      BY <2>1 DEF FtrsOf
    <3> QED BY <1>1, <2>1, <3>1
  <2>2. CASE c.pvr = "e6500"
    <3>1. FtrsOf(c) = {"MMUV2", "THREADS", "TLB0_HES", "TLB1_IND", "LRAT", "ALTIVEC"}
      BY <2>2 DEF FtrsOf
    <3> QED BY <1>1, <2>2, <3>1
  <2>3. CASE c.pvr \notin {"e500mc", "e5500", "e6500"}
    <3>1. FtrsOf(c) = IF c.mavn THEN {"MMUV2"} ELSE {}
      BY <2>3 DEF FtrsOf
    <3> QED BY <3>1
  <2> QED BY <2>1, <2>2, <2>3
<1> HIDE DEF lo, hi
<1>3. Even = Picked
  <2>1. \A k \in lo .. hi : 2 * k \in 0 .. 30 /\ (2 * k) % 2 = 0 /\ 2 * lo <= 2 * k /\ 2 * k <= 2 * hi
    BY <1>1
  <2>2. ASSUME NEW t \in Picked PROVE t \in Even
    <3>1. t \in 0 .. 30 /\ t % 2 = 0 /\ 2 * lo <= t /\ t <= 2 * hi
      OBVIOUS
    <3>2. t = 2 * (t \div 2) /\ t \div 2 \in lo .. hi
      BY <1>1, <3>1
    <3> QED BY <3>2
  <2> QED BY <2>1, <2>2
<1>4. Even \subseteq 0 .. 31
  BY <1>1
<1>5. ValidTsizes(c, FtrsOf(c)) = IF c.mavn THEN c.tlb1ps ELSE Picked
  BY <1>2 DEF ValidTsizes, lo, hi
<1>6. SizesOf(c) = IF c.mavn THEN c.tlb1ps ELSE Even
  BY DEF SizesOf, lo, hi
<1> HIDE DEF Even, Picked
<1> QED BY <1>1, <1>3, <1>4, <1>5, <1>6

LEMMA TlbInitOK == TlbInit => TlbInv
<1> SUFFICES ASSUME TlbInit PROVE TlbInv
  OBVIOUS
<1>1. core = Unset /\ soft = [i \in TlbIdx |-> NoEntry] /\ hard = soft
      /\ asked = [i \in TlbIdx |-> [tid |-> 0, first |-> 0, pages |-> 0]]
  BY DEF TlbInit
<1>2. \A i \in TlbIdx : hard[i] = NoEntry
  BY <1>1
<1>3. ~NoEntry.valid
  BY DEF NoEntry
<1>4. DOMAIN soft = TlbIdx /\ DOMAIN hard = TlbIdx /\ DOMAIN asked = TlbIdx
  BY <1>1
<1> QED BY <1>1, <1>2, <1>3, <1>4 DEF TlbInv

LEMMA CapsOK ==
    ASSUME TlbInv, init_cpu_caps
    PROVE  TlbInv'
<1>1. core = Unset /\ core' \in TlbCores /\ UNCHANGED <<soft, hard, asked>>
      /\ caps'.valid_tsizes = ValidTsizes(core', FtrsOf(core'))
  BY DEF init_cpu_caps
<1>2. caps'.valid_tsizes = SizesOf(core')
  BY <1>1, SizesBounded
<1>3. \A i \in TlbIdx : ~hard'[i].valid
  BY <1>1 DEF TlbInv
<1> QED BY <1>1, <1>2, <1>3 DEF TlbInv

LEMMA ClearOK ==
    ASSUME TlbInv, NEW i \in TlbIdx, tlb1_clear_entry(i)
    PROVE  TlbInv'
<1>1. UNCHANGED <<core, caps, asked>> /\ soft' = [soft EXCEPT ![i] = NoEntry]
      /\ hard' = [hard EXCEPT ![i] = soft'[i]]
  BY DEF tlb1_clear_entry, tlb1_write_entry
<1>2. /\ DOMAIN soft' = TlbIdx /\ DOMAIN hard' = TlbIdx /\ DOMAIN asked' = TlbIdx
      /\ ~hard'[i].valid
      /\ \A j \in TlbIdx : j # i => hard'[j] = hard[j]
  BY <1>1 DEF TlbInv, NoEntry
<1>3. ASSUME NEW j \in TlbIdx, hard'[j].valid PROVE Entered(j)' /\ core' # Unset
  <2>1. j # i /\ hard'[j] = hard[j]
    BY <1>2, <1>3
  <2>2. Entered(j) /\ core # Unset
    BY <1>3, <2>1 DEF TlbInv
  <2>3. Entered(j)' = Entered(j)
    BY <1>1, <2>1 DEF Entered
  <2> QED BY <1>1, <2>2, <2>3
<1>4. core = Unset \/ (core \in TlbCores /\ caps.valid_tsizes = SizesOf(core))
  BY DEF TlbInv
<1> QED BY <1>1, <1>2, <1>3, <1>4 DEF TlbInv

(* The TID lets the size alone unless it reaches bit 7.                     *)
LEMMA SetOK ==
    ASSUME TlbInv, NEW i \in TlbIdx, NEW r \in MapRanges, NEW tid \in Tids, tlb1_set_entry(i, r, tid)
    PROVE  TlbInv'
<1> DEFINE t == max_page_size(r[1], r[2])
           q == [tid |-> tid, first |-> r[1], pages |-> r[2]]
           e == [valid |-> TRUE, tid |-> tid, va |-> r[1], tsize |-> Tsize(t, tid)]
<1>1. /\ core # Unset /\ UNCHANGED <<core, caps>> /\ soft' = [soft EXCEPT ![i] = e]
      /\ hard' = [hard EXCEPT ![i] = soft'[i]] /\ asked' = [asked EXCEPT ![i] = q]
  BY DEF tlb1_set_entry, tlb1_write_entry
<1>2. core \in TlbCores /\ caps.valid_tsizes = SizesOf(core)
  BY <1>1 DEF TlbInv
<1>3. caps.valid_tsizes \subseteq 0 .. 31 /\ 2 \in caps.valid_tsizes
  BY <1>2, SizesBounded
<1>4. q.first = r[1] /\ q.pages = r[2] /\ q.tid = tid /\ e.tsize = Tsize(t, tid)
  OBVIOUS
<1> HIDE DEF q
<1>5. t \in SizesOf(core) /\ Fits(t, q) /\ \A v \in SizesOf(core) : v > t => ~Fits(v, q)
  BY <1>2, <1>3, <1>4, ChosenFits
<1> HIDE DEF t, e
<1>6. /\ DOMAIN soft' = TlbIdx /\ DOMAIN hard' = TlbIdx /\ DOMAIN asked' = TlbIdx
      /\ hard'[i] = e /\ asked'[i] = q
      /\ \A j \in TlbIdx : j # i => hard'[j] = hard[j] /\ asked'[j] = asked[j]
  BY <1>1 DEF TlbInv
<1>7. ASSUME NEW j \in TlbIdx, hard'[j].valid PROVE Entered(j)'
  <2>1. CASE j # i
    <3>1. Entered(j)
      BY <1>6, <1>7, <2>1 DEF TlbInv
    <3>2. Entered(j)' = Entered(j)
      BY <1>1, <1>6, <2>1 DEF Entered
    <3> QED BY <3>1, <3>2
  <2>2. CASE j = i
    <3>1. q.tid >= 128 \/ e.tsize = t
      <4>1. tid \in Nat
        BY TidAssumption
      <4> QED BY <1>4, <4>1 DEF Tsize
    <3> QED BY <1>1, <1>5, <1>6, <2>2, <3>1 DEF Entered, Fits
  <2> QED BY <2>1, <2>2
<1> QED BY <1>1, <1>2, <1>6, <1>7 DEF TlbInv

LEMMA TlbStepOK ==
    ASSUME TlbInv, [TlbNext]_tlbVars
    PROVE  TlbInv'
<1>1. CASE UNCHANGED tlbVars
  BY <1>1 DEF tlbVars, TlbInv, Entered, Fits
<1>2. CASE init_cpu_caps
  BY <1>2, CapsOK
<1>3. CASE \E i \in TlbIdx : tlb1_clear_entry(i)
  BY <1>3, ClearOK
<1>4. CASE \E i \in TlbIdx, r \in MapRanges, tid \in Tids : tlb1_set_entry(i, r, tid)
  BY <1>4, SetOK
<1> QED BY <1>1, <1>2, <1>3, <1>4 DEF TlbNext

(* Every valid entry of TLB1 holds the largest page that the core has and   *)
(* that fits the range it was asked for, whatever the core, the range and   *)
(* the entries written before (lib/fsl-booke-tlb.c, include/libos/          *)
(* fsl-booke-tlb.h), unless the TID spoilt its size.                        *)
THEOREM PagesAreTheLargest == TlbSpec => []LargestPage
<1>1. TlbInv => LargestPage
  BY DEF TlbInv, LargestPage, Entered
<1> QED BY <1>1, TlbInitOK, TlbStepOK, PTL DEF TlbSpec
=============================================================================
