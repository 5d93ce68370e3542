SPECIFICATION FairSpec
CONSTANTS
    FileBlocks = 3
    SeqSize = 8
    Ticks = 1
    TIMEOUT_COUNT = 2
    ARP_TIMEOUT_COUNT = 3
    netretry = "once"
    NDev = 4
    Linked = {1, 2, 3}
    NoMac = {3}
    ServerDevs = {2}
    Ports = {1}
    UseOack = FALSE
    ServerErrors = TRUE
    MaxLate = 0
    Faults = {"lose"}
    MaxFaults = 3
    MaxSessions = 8
    MaxStarts = 4
    MaxCommands = 3
INVARIANT OnceTriesAll
PROPERTY TransferCompletes
CHECK_DEADLOCK FALSE
