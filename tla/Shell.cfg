SPECIFICATION Spec
CONSTANTS
    Inputs <- MCInputs
    Programs <- MCPrograms
    Numbers <- MCNumbers
    Exit <- MCExit
    Cd <- MCCd
    PipeRoom = 1
    All = 9
INVARIANTS
    ParsesWhatIsWritten
    MeansWhatItSays
    NothingLeft
PROPERTIES
    AllEnd
CHECK_DEADLOCK FALSE
