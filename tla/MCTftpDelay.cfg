SPECIFICATION Spec
CONSTANTS
    FileBlocks = 3
    SeqSize = 8
    Ticks = 1
    TIMEOUT_COUNT = 1
    ARP_TIMEOUT_COUNT = 2
    netretry = "yes"
    NDev = 1
    Linked = {0}
    NoMac = {}
    ServerDevs = {0}
    Ports = {1}
    UseOack = TRUE
    ServerErrors = TRUE
    MaxLate = 1
    Faults = {"duplicate"}
    MaxFaults = 1
    MaxSessions = 2
    MaxStarts = 2
    MaxCommands = 1
INVARIANT ImageCorrect
INVARIANT AckedIsStored
INVARIANT WaitIsBounded
CHECK_DEADLOCK FALSE
