SPECIFICATION BootSpec
CONSTANTS
    Parts <- MCParts
    WordSize = 2
    HeaderSize = 2
    MaxParts = 3
    KernelLens = {5, 20}
    BootArgs <- MCBootArgs
    LinuxMaxArgs = 4
    UintMax = 65535
    MaxBootm = 2
    Targets <- MCTargets
    OutSizes = {5}
    MaxDistance = 5
    MaxLen = 3
    RangeBits = 8
    TopBits = 5
    ModelBits = 3
    MoveBits = 1
    BitContexts = {"a", "b"}
    MaxBits = 5
    RamSizes = {16777216, 33554432, 67108864}
    SizeIncrement = 16777216
    BootstrapLens = {30000, 49152}
    UbootLens = {131071, 300000, 524288}
    TotalMallocLen = 196608
    BdSize = 44
    GdSize = 40
    BootParamsLen = 131072
    TextBase = 65536
    InitSp = 4096
    StackUse = 4096
    HeapWords = 32
    HeapPage = 8
    SmallMax = 8
    WideBin = 16
    BlockWidth = 2
    TrimThreshold = 20
    Holders = {a, b, c}
    Requests = {1, 7, 10}
    Alignments = {8}
    Unheld = Unheld
    Items = {1, 2, 3}
    MaxItems = 3
    PercentIncrease = 10
    MinIncrease = 1
    Characters = {0, 1, 200}
    Cells = 5
    NullPointer = 99
    WordMax = 127
    Formattings <- MCFormattings
    CrcChunks <- MCChunks
    MaxData = 6
    CrcBits = {0, 1, 2, 4, 5, 7, 8, 10, 11, 12, 16, 22, 23, 26}
    CrcWidth = 32
    HeaderWords = {0, 1, 255, 32768, 65280, 65535}
    OddBytes = {1, 200}
    MaxWords = 2
    VlanNone = 63
    DateStep = 5002081
    MaxDate = 2147483647
    WordWidth = 4
    ByteWidth = 2
    RegionWords = 2
    BitTargets = {0, 3, 6}
    MaxBitOps = 2
PROPERTY GoodImageBoots
CHECK_DEADLOCK FALSE
