SPECIFICATION Spec
CONSTANTS
    Ports = {p1, p2}
    None = None
    UIP_CONNS = 2
    Requests <- MCOneUpload
    MaxPosts = 1
    MaxWire = 1
    RamChunks = 6
    UbootSize = 2
    MaxFirmware = 3
    Faults = TRUE
SYMMETRY MCSymmetry
INVARIANTS FlashIsComplete StoredInOrder
PROPERTY ReadyWhenComplete
CHECK_DEADLOCK FALSE
