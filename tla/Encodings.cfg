SPECIFICATION Spec
CONSTANTS
    MaxLength = 130
    WordLimbs = 4
    Pieces = {1, 55, 63, 64, 65}
    DigitBits = 4
    LongPieces = {1, 15, 16, 17, 255, 257, 4095, 65535}
    MaxTotal = 80000
    Alphabets <- MCAlphabets
    MaxLen <- MCMaxLen
    MaxRun <- MCMaxRun
    WIDTH = 2
    Digits = 3
    IntMax = 12
    LongMax = 150
    PortMax = 12
    decimals = 1
    Widths = {2, 3}
    Indents = {0, 1, 4}
    FlagChars = {"#", "0", "-", " ", "+"}
    MaxFlags = 2
    MaxParts = 2
INVARIANTS HashesRight EncodingsInvert TextsParsed PrintsLikeC
CHECK_DEADLOCK FALSE
