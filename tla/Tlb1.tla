-------------------------------- MODULE Tlb1 ----------------------------------
(* What a core says of itself (lib/cpu_caps.c), the page sizes that follow  *)
(* (include/libos/fsl-booke-tlb.h) and the TLB1 entries written with them   *)
(* (lib/fsl-booke-tlb.c).  Sizes are TSIZEs: an entry of TSIZE t maps       *)
(* 2^(t-2) pages of 4 KB; addresses and lengths are in such pages.          *)
EXTENDS Integers, FiniteSets, FiniteSetsExt

CONSTANTS
    TlbCores,   \* bound: the cores, as their registers describe them
    MapRanges,     \* bound: the ranges to map, <<first page, pages>>
    Tids,       \* bound: the TIDs
    TlbIdx      \* bound: the TLB1 entries written

(* The sizes a core has: those of TLB1PS, or the powers of 4 of TLB1CFG.    *)
SizesOf(c) == IF c.mavn THEN c.tlb1ps ELSE {2 * k : k \in c.minsize .. c.maxsize}
ASSUME CoreAssumption == \A c \in TlbCores :
    /\ c.pvr = "e6500" => c.mavn
    /\ c.pvr \in {"e500mc", "e5500"} => ~c.mavn
    /\ c.tlb1ps \subseteq 0 .. 31 /\ c.minsize \in 0 .. 15 /\ c.maxsize \in 0 .. 15
    /\ c.mavn \in BOOLEAN /\ 2 \in SizesOf(c)
ASSUME TidAssumption == Tids \subseteq Nat
(* Addresses below 4 TB, less than 2 TB at once.                            *)
ASSUME MapRangeAssumption == MapRanges \subseteq (0 .. 2 ^ 30 - 1) \X (1 .. 2 ^ 29 - 1)
ASSUME ExponentLaws ==
    /\ 2 ^ 0 = 1 /\ 2 ^ 1 = 2
    /\ \A i, j \in 0 .. 30 :
         i + j <= 30 => 2 ^ i \in Nat \ {0} /\ 2 ^ (i + j) = 2 ^ i * 2 ^ j

VARIABLES
    core,       \* the core's registers
    ftrs,       \* cpu_ftrs
    caps,       \* cpu_caps: valid_tsizes and threads_per_core
    soft,       \* cpu->tlb1, the table in memory
    hard,       \* the entries of the core
    asked       \* history: per entry, what it was last to be

tlbVars == <<core, ftrs, caps, soft, hard, asked>>

NoEntry == [valid |-> FALSE, tid |-> 0, tsize |-> 0, va |-> 0]
NoCaps == [valid_tsizes |-> {}, threads |-> 0]
Unset == [pvr |-> "none"]

TlbInit ==
    /\ core = Unset /\ ftrs = {} /\ caps = NoCaps
    /\ soft = [i \in TlbIdx |-> NoEntry] /\ hard = soft
    /\ asked = [i \in TlbIdx |-> [tid |-> 0, first |-> 0, pages |-> 0]]

(* A core of the table has its features; another has none, but MMUv2 when   *)
(* MMUCFG tells of it.                                                      *)
FtrsOf(c) ==
    CASE c.pvr \in {"e500mc", "e5500"} -> {"L2_CORE_LOCAL"}
      [] c.pvr = "e6500" -> {"MMUV2", "THREADS", "TLB0_HES", "TLB1_IND", "LRAT", "ALTIVEC"}
      [] OTHER -> IF c.mavn THEN {"MMUV2"} ELSE {}

(* TLB1PS, or the even TSIZEs from MINSIZE to MAXSIZE, powers of 4.         *)
ValidTsizes(c, f) ==
    IF "MMUV2" \in f THEN c.tlb1ps
    ELSE {t \in 0 .. 30 : t % 2 = 0 /\ 2 * c.minsize <= t /\ t <= 2 * c.maxsize}

init_cpu_caps ==
    /\ core = Unset
    /\ core' \in TlbCores
    /\ ftrs' = FtrsOf(core')
    /\ caps' = [valid_tsizes |-> ValidTsizes(core', ftrs'),
                threads |-> IF "THREADS" \in ftrs' THEN core'.nthrd ELSE 1]
    /\ UNCHANGED <<soft, hard, asked>>

-----------------------------------------------------------------------------

tsize_to_pages(t) == IF t = 0 THEN 0 ELSE 2 ^ (t - 2)

ilog2(n) == CHOOSE k \in 0 .. 29 : 2 ^ k <= n /\ n < 2 ^ (k + 1)
count_lsb_zeroes(n) == CHOOSE k \in 0 .. 29 : n % 2 ^ k = 0 /\ n % 2 ^ (k + 1) # 0

pages_to_tsize_msb(epn) == IF epn = 0 THEN 0 ELSE ilog2(epn) + 2
pages_to_tsize_lsb(epn) == IF epn = 0 THEN 0 ELSE count_lsb_zeroes(epn) + 2

(* The count of leading zeros of no size at all is that of the build: it is *)
(* not asked for, a core has pages of 4 KB.                                 *)
max_valid_tsize(t) == Max({v \in caps.valid_tsizes : v <= t})

(* Mutant: page 0 is aligned to 4 KB only.                                  *)
AlignmentOfZero(epn) ==
    IF epn = 0 THEN max_valid_tsize(2) ELSE max_valid_tsize(pages_to_tsize_lsb(epn))

(* TLB_TSIZE_1T is 30.                                                      *)
natural_alignment(epn) == max_valid_tsize(IF epn = 0 THEN 30 ELSE pages_to_tsize_lsb(epn))

max_page_size(start, num) ==
    Min({natural_alignment(start), max_valid_tsize(pages_to_tsize_msb(num))})

-----------------------------------------------------------------------------

tlb1_write_entry(i) == hard' = [hard EXCEPT ![i] = soft'[i]]

(* The TID is ORed into MAS1 as it is, before it is shifted into its field: *)
(* its bit 7 falls on the lowest bit of TSIZE.                              *)
Tsize(tsize, tid) == IF tid >= 128 /\ tsize % 2 = 0 THEN tsize + 1 ELSE tsize

(* A client maps the start of a range with the largest page that fits.      *)
tlb1_set_entry(i, r, tid) ==
    LET tsize == max_page_size(r[1], r[2])
    IN /\ core # Unset /\ tsize \in caps.valid_tsizes
       /\ soft' = [soft EXCEPT ![i] = [valid |-> TRUE, tid |-> tid, va |-> r[1],
                                       tsize |-> Tsize(tsize, tid)]]
       /\ tlb1_write_entry(i)
       /\ asked' = [asked EXCEPT ![i] = [tid |-> tid, first |-> r[1], pages |-> r[2]]]
       /\ UNCHANGED <<core, ftrs, caps>>

tlb1_clear_entry(i) ==
    /\ core # Unset /\ hard[i].valid
    /\ soft' = [soft EXCEPT ![i] = NoEntry]
    /\ tlb1_write_entry(i)
    /\ UNCHANGED <<core, ftrs, caps, asked>>

TlbNext ==
    \/ init_cpu_caps
    \/ \E i \in TlbIdx : \/ tlb1_clear_entry(i)
                         \/ \E r \in MapRanges, tid \in Tids : tlb1_set_entry(i, r, tid)

TlbSpec == TlbInit /\ [][TlbNext]_tlbVars

-----------------------------------------------------------------------------

Fits(t, q) == q.first % tsize_to_pages(t) = 0 /\ tsize_to_pages(t) <= q.pages

(* A page that was mapped is of a size that the core has, whether it says   *)
(* so in TLB1PS or in TLB1CFG; it stays inside the range and is naturally   *)
(* aligned, and no larger one that the core has would fit (fsl-booke-tlb.h: *)
(* 286).  It is not when the TID reaches bit 7 (fsl-booke-tlb.c:84).        *)
LargestPage ==
    \A i \in TlbIdx : hard[i].valid =>
      LET q == asked[i]
          sizes == SizesOf(core)
      IN q.tid >= 128 \/
           /\ hard[i].tsize \in sizes /\ Fits(hard[i].tsize, q)
           /\ \A t \in sizes : t > hard[i].tsize => ~Fits(t, q)
=============================================================================
