SPECIFICATION BootSpec
CONSTANTS
    Thread = {a, b}
    Request = {1, 300}
    Alignment = {32}
    Batches <- ElementSizes
    Products <- WrappingProduct
    Word = 4
    Bits = 16
    StateBytes = 464
    MaxLive = 3
    MaxCalls = 4
    NumSegments = 3
    MinUsable = 1024
    AddressLimit = 65536
    Unit = 256
    Ranges <- BootRanges
    Sizes = {256, 1024}
    Aligns = {0, 512}
    MaxTable = 4
    Later <- ClientRanges
    Explored <- HeapTables
    NEntries = 4
    BaseTlbEntry = 2
    PhysMapSize = 4
    PhysBase = 32
    LoadedAt = {80}
    CodeAt = {1, 9}
    Loader <- LoaderEntries
    TlbCores <- Cores
    MapRanges <- RangesToMap
    Tids = {0, 1, 200}
    TlbIdx = {3}
    CellBits = 1
    NoProp = NoProp
    DtDevices <- Devices
    Names = {"uart", "uart16", "mpic"}
    DrvSets <- Linked
    MaxStrings = 2
    AddrBits = 6
    Caller = {p, q}
    ArenaLow = 12
    ArenaHigh = 40
    AllocSizes = {1, 7, 8, 56, 60}
    AllocAligns = {1, 8}
    MaxAllocs = 3
SYMMETRY Symmetry
INVARIANTS MemorySound TableExact CodeMapped LargestPage TranslationExact BoundToFirst BlocksApart
CHECK_DEADLOCK FALSE
