----------------------------- MODULE DeviceTree ------------------------------
(* The address translation of threads/src/init.c (example/ and latency/     *)
(* hold copies of it): dt_get_reg reads a device's reg property and carries *)
(* the address through the ranges of the buses above it.  Numbers are rows  *)
(* of MaxAddrCells big-endian cells; libfdt is external and appears as the  *)
(* properties of the nodes from the device up to the root.                  *)
EXTENDS Integers, Sequences, SequencesExt

CONSTANTS
    CellBits,   \* the width of a cell
    NoProp,     \* a property that is not there; no device
    DtDevices   \* bound: the devices looked at: <<reg, nodes above it, res>>

MaxAddrCells == 4
MaxSizeCells == 2
Base == 2 ^ CellBits

VARIABLES dtDevice, dtResult

dtVars == <<dtDevice, dtResult>>

Ok == "ok"
ErrBadTree == "ERR_BADTREE"
ErrNoTrans == "ERR_NOTRANS"
ErrNotFound == "FDT_ERR_NOTFOUND"
Failed(e) == [err |-> e, addr |-> <<>>]

(* "#address-cells" and "#size-cells" of a node, 2 and 1 unless given.      *)
get_addr_format(node) ==
    LET na == IF node.na = NoProp THEN 2 ELSE node.na
        ns == IF node.ns = NoProp THEN 1 ELSE node.ns
    IN [bad |-> na > MaxAddrCells \/ ns > MaxSizeCells, naddr |-> na, nsize |-> ns]

copy_val(src, n) == [i \in 1 .. MaxAddrCells - n |-> 0] \o SubSeq(src, 1, n)

(* Mutant: the borrow into a cell is not taken from it.                     *)
SubForgettingBorrow(r, s) ==
    [fits |-> TRUE, val |-> [i \in 1 .. MaxAddrCells |-> (r[i] - s[i]) % Base]]

(* The subtrahend and the borrow are added in the width of a cell.          *)
sub_reg(r, s) ==
    LET borrow[i \in 1 .. MaxAddrCells + 1] ==
          IF i > MaxAddrCells THEN 0
          ELSE IF r[i] < (s[i] + borrow[i + 1]) % Base THEN 1 ELSE 0
    IN [fits |-> borrow[1] = 0,
        val |-> [i \in 1 .. MaxAddrCells |-> (r[i] - s[i] - borrow[i + 1]) % Base]]

(* The last n cells; what carries out of them is lost and reported.         *)
add_reg(r, s, n) ==
    LET first == MaxAddrCells - n + 1
        carry[i \in first .. MaxAddrCells + 1] ==
          IF i > MaxAddrCells THEN 0 ELSE (r[i] + s[i] + carry[i + 1]) \div Base
    IN [fits |-> carry[first] = 0,
        val |-> [i \in 1 .. MaxAddrCells |->
                   IF i < first THEN r[i] ELSE (r[i] + s[i] + carry[i + 1]) % Base]]

(* Cell by cell from the first: a comes before b.                           *)
Before(a, b) ==
    \E i \in 1 .. MaxAddrCells : a[i] < b[i] /\ \A j \in 1 .. i - 1 : a[j] = b[j]

compare_reg(reg, range, size) ==
    LET end == add_reg(range, size, MaxAddrCells)
    IN ~Before(reg, range) /\ (~end.fits \/ Before(reg, end.val))

(* The index of the range that holds reg, in entries of nreg + naddr +      *)
(* nsize cells; 0 when there is none, -1 when an entry is incomplete.       *)
find_range(reg, ranges, nreg, naddr, nsize) ==
    LET n == nreg + naddr + nsize
        Holds(i) == compare_reg(reg, copy_val(SubSeq(ranges, i, i + nreg - 1), nreg),
                                copy_val(SubSeq(ranges, i + nreg + naddr, i + n - 1), nsize))
        starts == {i \in 1 .. Len(ranges) : (i - 1) % n = 0}
        ends == {i \in starts : i + n - 1 > Len(ranges) \/ Holds(i)}
    IN IF n <= 0 THEN -1
       ELSE IF ends = {} THEN 0
       ELSE LET i == CHOOSE j \in ends : \A k \in ends : j <= k
            IN IF i + n - 1 > Len(ranges) THEN -1 ELSE i

(* One bus up: the offset in the range found is added to its parent base.   *)
(* The size is then read in the parent's number of cells, up to one beyond  *)
(* the property.  No caller asks for the room left in the range.            *)
xlate_one(addr, bus, naddr, nsize, prevNaddr, prevNsize) ==
    LET at == find_range(addr, bus.ranges, prevNaddr, naddr, prevNsize)
        Cells(from, n) == copy_val(SubSeq(Append(bus.ranges, bus.beyond), from, from + n - 1), n)
        offset == sub_reg(addr, Cells(at, prevNaddr))
        parent == Cells(at + prevNaddr, naddr)
        size == Cells(at + prevNaddr + naddr, nsize)
        there == add_reg(offset.val, parent, naddr)
    IN IF at = -1 THEN Failed(ErrBadTree)
       ELSE IF at = 0 THEN Failed(ErrNotFound)
       ELSE IF ~offset.fits \/ ~there.fits THEN Failed(ErrBadTree)
       ELSE IF ~add_reg(parent, size, naddr).fits THEN Failed(ErrNoTrans)
       ELSE [err |-> Ok, addr |-> there.val]

(* From path[i], whose children the address is of, up to the root.          *)
xlate_reg_raw(path, reg, naddr, nsize) ==
    LET format(i) == get_addr_format(path[i])
        At[i \in 1 .. Len(path)] ==
          IF i = 1 THEN [err |-> Ok, addr |-> copy_val(reg, naddr)]
          ELSE IF At[i - 1].err # Ok THEN At[i - 1]
          ELSE IF format(i).bad THEN Failed(ErrBadTree)
          ELSE IF path[i - 1].ranges = NoProp THEN Failed(ErrNoTrans)
          ELSE IF path[i - 1].ranges = <<>> THEN At[i - 1]
          ELSE xlate_one(At[i - 1].addr, path[i - 1], format(i).naddr, format(i).nsize,
                         format(i - 1).naddr, format(i - 1).nsize)
    IN At[Len(path)]

xlate_reg(path, reg, naddr, nsize) ==
    LET r == xlate_reg_raw(path, reg, naddr, nsize)
    IN IF r.err = Ok /\ (r.addr[1] # 0 \/ r.addr[2] # 0) THEN Failed(ErrBadTree) ELSE r

(* The res-th entry of the reg property.                                    *)
dt_get_reg(d) ==
    LET f == get_addr_format(d.path[1])
        n == f.naddr + f.nsize
    IN IF d.reg = NoProp THEN Failed(ErrNotFound)
       ELSE IF f.bad THEN Failed(ErrBadTree)
       ELSE IF f.naddr = 0 \/ f.nsize = 0 THEN Failed(ErrNoTrans)
       ELSE IF Len(d.reg) < n * (d.res + 1) THEN Failed(ErrBadTree)
       ELSE xlate_reg(d.path, SubSeq(d.reg, n * d.res + 1, Len(d.reg)), f.naddr, f.nsize)

-----------------------------------------------------------------------------
Unread == [err |-> "none", addr |-> <<>>]

DtInit == dtDevice = NoProp /\ dtResult = Unread

ReadReg ==
    /\ dtDevice = NoProp
    /\ dtDevice' \in DtDevices
    /\ dtResult' = dt_get_reg(dtDevice')

-----------------------------------------------------------------------------
(* What the tree says, in numbers                                           *)

Number(cells) == FoldLeft(LAMBDA n, c : n * Base + c, 0, cells)

(* The ranges of path[i] that hold the number a.                            *)
Holding(path, i, a) ==
    LET f == get_addr_format(path[i])
        up == get_addr_format(path[i + 1])
        n == f.naddr + up.naddr + f.nsize
        Entry(k) == SubSeq(path[i].ranges, (k - 1) * n + 1, k * n)
        child(k) == Number(SubSeq(Entry(k), 1, f.naddr))
    IN {[k |-> k, offset |-> a - child(k),
         parent |-> Number(SubSeq(Entry(k), f.naddr + 1, f.naddr + up.naddr)),
         size |-> Number(SubSeq(Entry(k), f.naddr + up.naddr + 1, n))] :
          k \in {j \in 1 .. Len(path[i].ranges) \div n :
                   /\ child(j) <= a
                   /\ a < child(j) + Number(SubSeq(Entry(j), f.naddr + up.naddr + 1, n))}}

First(held) == CHOOSE e \in held : \A o \in held : e.k <= o.k

(* The number that the device's address is at each node of its path, as far *)
(* as there is a translation; -1 from there on.                             *)
Meaning(d) ==
    LET f == get_addr_format(d.path[1])
        n == f.naddr + f.nsize
        At[i \in 1 .. Len(d.path)] ==
          IF i = 1 THEN Number(SubSeq(d.reg, n * d.res + 1, n * d.res + f.naddr))
          ELSE IF At[i - 1] < 0 \/ d.path[i - 1].ranges = <<>> THEN At[i - 1]
          ELSE IF Holding(d.path, i - 1, At[i - 1]) = {} THEN -1
          ELSE LET e == First(Holding(d.path, i - 1, At[i - 1])) IN e.parent + e.offset
    IN At

(* A bus whose parent base is met in as many size cells as its own.         *)
SameSizes(path) ==
    \A i \in 1 .. Len(path) - 1 :
      get_addr_format(path[i]).nsize = get_addr_format(path[i + 1]).nsize

(* A range of the device's path that reaches the end of its parent's        *)
(* addresses.                                                               *)
ReachesEnd(d) ==
    \E i \in 2 .. Len(d.path) :
      /\ Meaning(d)[i - 1] >= 0
      /\ d.path[i - 1].ranges # <<>>
      /\ \E e \in Holding(d.path, i - 1, Meaning(d)[i - 1]) :
           e.parent + e.size >= Base ^ get_addr_format(d.path[i]).naddr

(* A cell of all ones is subtracted together with a borrow somewhere: the   *)
(* sum wraps to 0 and the borrow is lost (init.c:146).                      *)
BorrowLost(d) ==
    \E i \in 1 .. Len(d.path) - 1 :
      LET f == get_addr_format(d.path[i])
          n == f.naddr + get_addr_format(d.path[i + 1]).naddr + f.nsize
      IN \E k \in 1 .. Len(d.path[i].ranges) \div n, c \in 1 .. f.naddr - 1 :
           /\ d.path[i].ranges[(k - 1) * n + c] = Base - 1
           /\ d.path[i].ranges[(k - 1) * n + c + 1] # 0

(* No counts to read the reg by, or a bus without ranges.                   *)
Opaque(d) ==
    \/ 0 \in {get_addr_format(d.path[1]).naddr, get_addr_format(d.path[1]).nsize}
    \/ \E i \in 1 .. Len(d.path) - 1 : d.path[i].ranges = NoProp

(* The properties have the lengths that the counts ask for.                 *)
WellFormed(d) ==
    /\ \A i \in 1 .. Len(d.path) : ~get_addr_format(d.path[i]).bad
    /\ Len(d.reg) >= (get_addr_format(d.path[1]).naddr + get_addr_format(d.path[1]).nsize)
                        * (d.res + 1)
    /\ \A i \in 1 .. Len(d.path) - 1 :
         Len(d.path[i].ranges) % (get_addr_format(d.path[i]).naddr +
           get_addr_format(d.path[i]).nsize + get_addr_format(d.path[i + 1]).naddr) = 0

(* An address on the way has more digits than its bus or the result has.    *)
TooLarge(d) ==
    \/ Last(Meaning(d)) >= Base ^ 2
    \/ \E i \in 2 .. Len(d.path) : Meaning(d)[i] >= Base ^ get_addr_format(d.path[i]).naddr

(* An address that dt_get_reg returns is the one the tree means: each bus's *)
(* first range that holds it decides, across cells of different widths, and *)
(* carries and borrows are exact.  One that no range holds is refused, and  *)
(* of those a range holds, only one in a range that reaches the end of the  *)
(* parent's addresses is refused as untranslatable; a well-formed tree is   *)
(* called bad only for an address that is too large, or a borrow lost.      *)
TranslationExact ==
    dtDevice # NoProp =>
      CASE dtResult.err = Ok -> Number(dtResult.addr) = Last(Meaning(dtDevice))
        [] dtResult.err = ErrNotFound -> dtDevice.reg = NoProp \/ Last(Meaning(dtDevice)) = -1
        [] dtResult.err = ErrNoTrans ->
             Opaque(dtDevice) \/ ReachesEnd(dtDevice) \/ ~SameSizes(dtDevice.path)
        [] dtResult.err = ErrBadTree ->
             ~WellFormed(dtDevice) \/ TooLarge(dtDevice) \/ BorrowLost(dtDevice)
=============================================================================
