------------------------------ MODULE Segments -------------------------------
(* The table of memory that malloc_init hands to the heap: lib/             *)
(* malloc-wrapper.c.  Ranges are inclusive at both ends.  Only the boot     *)
(* code calls it, from one thread.  A turn of the exclusion's loop is a     *)
(* step.                                                                    *)
EXTENDS Integers, Sequences, FiniteSets, SequencesExt

CONSTANTS
    NumSegments,   \* NUM_SEGMENTS
    MinUsable,     \* the smallest segment malloc_init takes, in bytes
    AddressLimit,  \* one more than the highest address
    Unit,          \* the bounds of all ranges are multiples of this
    Ranges,        \* ranges that boot code adds or excludes
    Sizes,         \* sizes and alignments of malloc_alloc_segment
    Aligns,
    MaxTable       \* bound: calls before malloc_init

(* Boot code adds and excludes whole units, and allocates whole ones.       *)
Whole(r) == r.start % Unit = 0 /\ (r.end + 1) % Unit = 0 /\ r.start <= r.end
ASSUME UnitAssumption == Unit \in Nat \ {0} /\ NumSegments \in Nat /\ AddressLimit \in Nat \ {0}
ASSUME RangeAssumption ==
    /\ Ranges \subseteq [start : Nat, end : Nat] /\ \A r \in Ranges : Whole(r)
    /\ \A size \in Sizes : size \in Nat \ {0} /\ size % Unit = 0
    /\ \A align \in Aligns : align \in Nat /\ align % Unit = 0

VARIABLES
    segments,   \* segments[0 .. nextseg - 1]
    excluding,  \* the range that is being excluded, and i; Nothing between calls
    granted,    \* history: units added, and neither excluded nor allocated since
    dropped,    \* history: a range found no room in the table
    skipped,    \* history: an exclusion met a segment it never looked at
    calls       \* calls so far

segVars == <<segments, excluding, granted, dropped, skipped, calls>>

Nothing == [range |-> [start |-> 0, end |-> 0], i |-> 0]

Range2(a, b) == [start |-> a, end |-> b]
Units(r) == r.start \div Unit .. r.end \div Unit
Overlaps(r, s) == r.start <= s.end /\ s.start <= r.end

AddTo(S, r) == IF Len(S) < NumSegments THEN Append(S, r) ELSE S

(* Mutant: the end is cut before it is looked at for an upper part.         *)
CutBeforeSplit(S, i, r) ==
    LET s == S[i]
    IN IF ~Overlaps(r, s) THEN S
       ELSE IF r.start > s.start THEN [S EXCEPT ![i].end = r.start - 1]
       ELSE IF r.end < s.end THEN [S EXCEPT ![i].start = r.end + 1]
       ELSE SubSeq([S EXCEPT ![i] = Last(S)], 1, Len(S) - 1)

(* One turn of the exclusion's loop.  A segment wholly inside the range is  *)
(* replaced by the last one, and the loop goes on behind it.                *)
ExcludeAt(S, i, r) ==
    LET s == S[i]
        Rest == IF s.end > r.end THEN AddTo(S, Range2(r.end + 1, s.end)) ELSE S
    IN IF ~Overlaps(r, s) THEN S
       ELSE IF r.start > s.start THEN [Rest EXCEPT ![i].end = r.start - 1]
       ELSE IF r.end < s.end THEN [S EXCEPT ![i].start = r.end + 1]
       ELSE SubSeq([S EXCEPT ![i] = Last(S)], 1, Len(S) - 1)

(* The aligned start of a segment; none when rounding up wraps around 0.    *)
AlignedStart(s, align) ==
    IF align = 0 THEN s.start
    ELSE (((s.start + align - 1) % AddressLimit) \div align) * align

(* start + size may not pass end, nor wrap: the last byte stays unused.     *)
Serves(s, size, align) ==
    LET start == AlignedStart(s, align)
    IN /\ align # 0 => start >= s.start
       /\ start + size < AddressLimit
       /\ start + size <= s.end

SegInit ==
    /\ segments = <<>>
    /\ excluding = Nothing
    /\ granted = {}
    /\ dropped = FALSE
    /\ skipped = FALSE
    /\ calls = 0

Call == excluding = Nothing /\ calls < MaxTable /\ calls' = calls + 1

malloc_add_segment(r) ==
    /\ Call
    /\ segments' = AddTo(segments, r)
    /\ granted' = IF Len(segments) < NumSegments THEN granted \cup Units(r) ELSE granted
    /\ UNCHANGED <<excluding, dropped, skipped>>

malloc_exclude_segment(r) ==
    /\ Call
    /\ excluding' = [range |-> r, i |-> 1]
    /\ granted' = granted \ Units(r)
    /\ UNCHANGED <<segments, dropped, skipped>>

(* A turn of the loop, which may want to add an upper half and have no room *)
(* for it, or put the last segment where it is not looked at any more.      *)
ExcludeTurn ==
    /\ excluding # Nothing /\ excluding.i <= Len(segments)
    /\ LET r == excluding.range
           s == segments[excluding.i]
           split == r.start > s.start /\ r.end < s.end
           whole == r.start <= s.start /\ s.end <= r.end
       IN /\ segments' = ExcludeAt(segments, excluding.i, r)
          /\ dropped' = (dropped \/ (split /\ Len(segments) = NumSegments))
          /\ skipped' = (skipped \/ (whole /\ excluding.i < Len(segments)
                                       /\ Overlaps(r, Last(segments))))
    /\ excluding' = [excluding EXCEPT !.i = @ + 1]
    /\ UNCHANGED <<granted, calls>>

ExcludeEnd ==
    /\ excluding # Nothing /\ excluding.i > Len(segments)
    /\ excluding' = Nothing
    /\ UNCHANGED <<segments, granted, dropped, skipped, calls>>

(* The lowest-numbered segment that serves.                                 *)
malloc_alloc_segment(size, align) ==
    \E i \in DOMAIN segments :
      LET start == AlignedStart(segments[i], align) IN
      /\ Serves(segments[i], size, align)
      /\ \A j \in 1 .. i - 1 : ~Serves(segments[j], size, align)
      /\ malloc_exclude_segment(Range2(start, start + size - 1))

Size(s) == s.end - s.start + 1

(* What next_usable_segment yields, one call after the other.               *)
UsableSegments == SelectSeq(segments, LAMBDA s : Size(s) >= MinUsable)

SegNext ==
    \/ \E r \in Ranges :
         \/ (\A u \in Units(r) : u \notin granted) /\ malloc_add_segment(r)
         \/ malloc_exclude_segment(r)
    \/ \E size \in Sizes, align \in Aligns : malloc_alloc_segment(size, align)
    \/ ExcludeTurn \/ ExcludeEnd

SegSpec == SegInit /\ [][SegNext]_segVars

(* Between calls the table holds every byte that was added and is neither   *)
(* excluded nor allocated, no other byte, and none twice: what is excluded  *)
(* stays out of the heap (malloc.h:426) and what is left is not lost, as    *)
(* long as the table has room and no exclusion takes a whole segment and    *)
(* meets another.                                                           *)
TableExact ==
  excluding = Nothing =>
    /\ ~skipped => \A i, j \in DOMAIN segments : i # j => ~Overlaps(segments[i], segments[j])
    /\ ~skipped => UNION {Units(segments[i]) : i \in DOMAIN segments} \subseteq granted
    /\ ~skipped /\ ~dropped =>
         granted = UNION {Units(segments[i]) : i \in DOMAIN segments}
    /\ \A i \in DOMAIN segments : Size(segments[i]) > 0
=============================================================================
