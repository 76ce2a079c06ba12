SPECIFICATION Spec
CONSTANTS
    MaxTries = 1
    MaxPhys = 3
    Symbols = {"a", ":", ",", "\"", "'", "\\", "(", " ", "!", "=", "BEL", "/"}
    MaxSymbols = 2
    MaxFD = 8
    MaxName = 2
    LowportMin = 1
    LowportMax = 2
    MaxActions = 3
    MaxPiece = 4
    MaxDials = 6
INVARIANTS  WrapVerdict ReadBack CutAnywhere OptionsFollowed
CHECK_DEADLOCK FALSE
