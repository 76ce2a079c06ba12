SPECIFICATION EverySpec
CONSTANTS
    p1 = p1
    p2 = p2
    Process = {p1, p2}
    Inode = {i1, i2}
    NoFile = NoFile
    Waits = {p1, p2}
    Signals = {p1}
    Foreign = TRUE
    MaxPeers = 2
    MaxMessages = 2
    Room = 1
    MaxWrites = 2
    MaxMoves = 1
    Cap = 2
    MaxBuffer = 2
    MaxDelay = 2
INVARIANTS MutualExclusion  ResourcesOwned 
PROPERTIES CallsEnd
CHECK_DEADLOCK FALSE
