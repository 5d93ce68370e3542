SPECIFICATION FairSpec
CONSTANTS
    N = 3
    Char = {"a", "etx"}
    Etx = "etx"
    NoChar = "none"
    Packets <- MCPackets
    Broadcast = "no"
PROPERTIES Refinement WaitKeepsInput CallsEnd
