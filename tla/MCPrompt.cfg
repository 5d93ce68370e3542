SPECIFICATION PromptSpec
CONSTANTS
    CommandSet <- MCCommandSet
    Scripts = {"bootcmd", "a", "b", "nc"}
    InitialScript <- MCScript
    Lines <- MCLines
    NoLine = NoLine
    MaxCommands = 3
    MaxCalls = 7
    HttpdDelay = 3
    ConsoleDelay = 5
    NetConsoleDelay = 7
    MaxPressing = 8
    BootDelay = 1
    Chars <- MCChars
    CBSIZE = 6
    MAXARGS = 3
    Plen = 2
    TabWidth = 4
    Value <- MCValue
    Commands <- MCCommands
    EnvSize = 28
    Sessions <- MCSessions
    EnvValues <- MCEnvValues
    Devices <- MCDevices
    BaudRates <- MCBaudRates
    DefaultEntries <- MCDefaults
INVARIANTS RepeatIsEarned LineIsExact SettingsAgree
PROPERTIES InterruptStops LineReturns
CHECK_DEADLOCK FALSE
