SPECIFICATION FairSpec
CONSTANTS
    Ports = {p1, p2, p3}
    None = None
    UIP_CONNS = 2
    Requests <- MCServed
    MaxPosts = 1
    MaxWire = 2
    RamChunks = 6
    UbootSize = 2
    MaxFirmware = 3
    Faults = FALSE
PROPERTIES EveryoneServed UploadIsFlashed
CHECK_DEADLOCK FALSE
