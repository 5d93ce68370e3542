SPECIFICATION NetworkSpec
CONSTANTS
    EthDevices = 2
    RxSlots = 2
    MaxFrames = 3
    MinLinks = 1
    RestartFrom = {"timeout", "packet"}
    LocalHosts = {h1, h2, h3}
    RemoteHosts = {r}
    EthAddrs = {m1, m2}
    ArpSlots = 2
    NoIp = none
    s1 = s1
    s2 = s2
    Servers = {s1, s2}
    PoolOf <- ServersPool
    NoAddr = noaddr
    TimeoutCount = 1
    NetRetry = "once"
    NetDevices = 2
    MaxIds = 3
    Clients = {"bootp", "dhcp", "rarp"}
    ReplyOptions <- MCReplyOptions
    ReplyHeads <- MCReplyHeads
    Strays <- MCStrays
    MaxReplyOptions = 3
    NameMax = 3
    FileMax = 3
    BootpTries = 2
    Dirs = {"d", "e"}
    Chars = {"k", "l", "m"}
    Nul = "nul"
    Names <- FileNames
    PathMax = 4
    Content <- ServerContent
    Asked <- AskedFiles
    Garbled = garbled
    ReadSize = 2
    MaxLoads = 2
    MaxCalls = 15
    Protocols = {"PING", "CDP", "SNTP"}
    ArpTicks = 2
    ArpTries = 5
    PingTicks = 4
    SntpTicks = 4
    CdpTicks = 1
    Announcements <- SwitchPackets
    Vlans = {"v2", "v3", "v4"}
    NoVlan = "none"
    RetryAgain = TRUE
    MaxProbes = 2
INVARIANTS RingsAreSafe AnswerReachesAsker CommandsAreExact
PROPERTY CommandsEnd
CHECK_DEADLOCK FALSE
