SPECIFICATION Spec
CONSTANTS
    Inputs <- MCBroken
    Programs <- MCPrograms
    Numbers <- MCNumbers
    Exit <- MCExit
    Cd <- MCCd
    PipeRoom = 1
    All = 9
INVARIANTS
    ParsesWhatIsWritten
    ErrorsDoNotCrash
    ExitTerminates
CHECK_DEADLOCK FALSE
