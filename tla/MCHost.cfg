SPECIFICATION HostSpec
CONSTANTS
    Names = {ethaddr, bootcmd, ipaddr}
    ReadOnlyNames = {ethaddr}
    Vals = {a, b}
    NoVal = NoVal
    Default <- MCDefault
    bootcmd = bootcmd
    a = a
    Capacity = 2
    Torn = Torn
    NoCrc = NoCrc
    HaveRedundEnv = TRUE
    Image <- GdbImage
    Escaped = {"$", "#"}
    Radix = 4
    PBUFSIZ = 19
    PutTries = 3
    MAX_TRIES = 3
    Blank = "blank"
    MaxFaults = 2
    SectorCount = 2
    SectorSize = 4
    WordSize = 2
    FlashBase = 16
    AddrSpace = 32
    Bits = {0, 7}
    D7 = 7
    ImageAt <- NewBytes
    OldCells <- OldBytes
    MonitorSectors = {0}
INVARIANTS TailKept ImagesArrive
PROPERTIES ImplementsAtomicEnv ReadOnlyOnce ToolsEnd
CHECK_DEADLOCK FALSE
