SPECIFICATION Spec
CONSTANTS
    x = x
    y = y
    sp = sp
    nl = nl
    Letters <- TwoLetters
    Space = sp
    NewLine = nl
    Pieces <- CutPieces
    MaxFed = 4
    SIZE_T = 1000
    BYTE = 4
    SIZE_LEN = 2
    CallerFits = FALSE
    SafeLengths = TRUE
INVARIANT
    Accumulates
CHECK_DEADLOCK FALSE
