SPECIFICATION Spec
CONSTANTS
    x = x
    y = y
    sp = sp
    nl = nl
    Letters <- TwoLetters
    Space = sp
    NewLine = nl
    Pieces <- LongPieces
    MaxFed = 4
    SIZE_T = 1000
    BYTE = 4
    SIZE_LEN = 2
    CallerFits = TRUE
    SafeLengths = FALSE
INVARIANT
    Intact
CHECK_DEADLOCK FALSE
