SPECIFICATION BoardSpec
CONSTANTS
    PageSize = 3
    SectorSize = 6
    Geometry <- MCGeometry
    UnknownCount = 3
    JedecId = "W25Q32"
    MCNames = {"new"}
    Contents <- MCContents
    Erased = Erased
    Mixed = Mixed
    Torn = Torn
    TplinkSector = 1
    MacCells = {4}
    Macs = {m1}
    Typed <- MCTyped
    Sizes = {0, 1, 7, 12, 13}
    MaxLines = 3
    MemSize = 8
    ByteBase = 2
    LineLen = 4
    DefaultLength = 2
    MemoryValues = {1, 5}
    MemoryCounts = {0, 3}
    SizeSuffixes = {"none", ".b", ".x"}
    MemoryStarts = {0, 1, 4}
    MaxMemoryCommands = 3
    AddressLines = 3
    DataLines = 4
    TestRegions <- MCRegions
    TestPatterns = {0, 5, 8, 15}
    MaxPasses = 3
    PortsOf <- TwoUnits
    Speeds = {"100"}
    ResetTries = 2
    ResolveTries = 2
    MaxChanges = 2
    MaxChecks = 2
INVARIANTS LineExact MemoryIsExact SwitchIsExact
PROPERTIES OthersKept ProgramsErased
CHECK_DEADLOCK FALSE
