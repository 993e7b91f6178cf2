SPECIFICATION Spec
CONSTANTS
    x = x
    y = y
    sp = sp
    nl = nl
    Letters <- TwoLetters
    Space = sp
    NewLine = nl
    Pieces <- SomePieces
    MaxFed = 7
    SIZE_T = 1000
    BYTE = 4
    SIZE_LEN = 2
    CallerFits = TRUE
    SafeLengths = TRUE
INVARIANTS
    CutsDoNotMatter
    Intact
PROPERTY
    AllArrive
CHECK_DEADLOCK FALSE
