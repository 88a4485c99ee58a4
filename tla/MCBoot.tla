-------------------------------- MODULE MCBoot --------------------------------
(* The instance of Boot that TLC checks.                                    *)
EXTENDS Boot, TLC

(* Memory: two threads, two tables from which the heap is explored, the     *)
(* real sizes of a 32-bit build except for the length of the table.         *)
KB(a, b) == Range2(256 * a, 256 * b - 1)

BootRanges == {KB(16, 24), KB(32, 36), KB(36, 40), KB(20, 34), KB(48, 49)}
ClientRanges == {KB(64, 69)}
HeapTables == {<<KB(32, 36), KB(16, 24)>>, <<KB(32, 36)>>}
ElementSizes == {<<20, 260>>}
WrappingProduct == {<<2, 32770>>}
Symmetry == Permutations(Thread)

(* BootMmu: the loader's entry in either address space's place, of the size *)
(* of the final mapping or the odd size above it.                           *)
LoaderEntries ==
    [valid : {TRUE}, ts : {0, 1}, tid : {0, 1}, ea : {0, 32}, tsize : {4}, pa : {0}]
      \cup [valid : {TRUE}, ts : {0}, tid : {0}, ea : {0}, tsize : {5}, pa : {0}]

(* Tlb1: cores in the table and not in it, with either kind of MMU.         *)
CoreOfKind(pvr, mavn, tlb1ps, minsize, maxsize, nthrd) ==
    [pvr |-> pvr, mavn |-> mavn, tlb1ps |-> tlb1ps, minsize |-> minsize,
     maxsize |-> maxsize, nthrd |-> nthrd]
Cores == {CoreOfKind("e500mc", FALSE, {}, 1, 9, 0),
          CoreOfKind("e6500", TRUE, {2, 4, 5, 8, 10, 20}, 0, 0, 2),
          CoreOfKind("new", TRUE, 2 .. 31, 0, 0, 2),
          CoreOfKind("new", FALSE, {}, 1, 6, 0)}
RangesToMap == {0, 2, 4, 12, 16} \X {1, 3, 9, 64}

(* DeviceTree: numbers of one-bit cells.                                    *)
Cell == 0 .. Base - 1
Rows(n) == [1 .. n -> Cell]
BusNode(na, ns, ranges) == [na |-> na, ns |-> ns, ranges |-> ranges, beyond |-> 1]
Root(ns) == BusNode(2, ns, NoProp)
Device(path, reg, res) == [path |-> path, reg |-> reg, res |-> res]

(* One bus, of every kind, with every range; two ranges; a bus below a bus; *)
(* counts and lengths that make no sense.                                   *)
OneBus == {Device(<<BusNode(na, ns, r), Root(1)>>, g, 0) :
             na \in {2, 3}, ns \in {1, 2}, r \in {<<>>, NoProp} \cup Rows(6), g \in Rows(4)}
TwoRanges == {Device(<<BusNode(NoProp, NoProp, r \o <<0, 1, 0, 0, 1>> \o s), Root(1)>>, g, 0) :
                r \in Rows(5), s \in {<<>>, <<1, 1, 0, 1, 1>>}, g \in Rows(3)}
TwoBuses == {Device(<<BusNode(2, 1, r), BusNode(3, 2, s), Root(1)>>, <<0, 0>> \o g, 1) :
               r \in {<<>>} \cup {<<1, 0>> \o t \o <<1>> : t \in Rows(3)},
               s \in {<<0>> \o t \o <<1, 0>> : t \in Rows(4)}, g \in Rows(4)}
Malformed == {Device(<<BusNode(na, ns, <<>>), Root(1)>>, g, 0) :
                na \in {0, 2, 5}, ns \in {0, 1, 3}, g \in {NoProp, <<0>>, <<0, 1, 1>>}}
Devices == OneBus \cup TwoRanges \cup TwoBuses \cup Malformed

(* Driver: two drivers that know some of the same devices.                  *)
DriverOf(compatibles, probe) == [compatibles |-> compatibles, probe |-> probe]
Outcomes == {"0", "ERR_UNHANDLED", "ERR_NOMEM"}
Linked == {<<DriverOf(c, p), DriverOf(d, q)>> :
             c \in {<<"uart", "uart16">>, <<"mpic">>},
             d \in {<<"uart16">>, <<"uart", "uart16">>}, p \in Outcomes, q \in Outcomes}
=============================================================================
