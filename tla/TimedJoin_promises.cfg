SPECIFICATION Spec
CONSTANTS
    NSEC = 4
    Timeouts <- AllTimeouts
    Huge = 10000
    LONG_MIN <- LongMin
    Offsets <- SomeOffsets
    MaxTime = 12
INVARIANTS
    NotTooEarly
    NotTooLate
CHECK_DEADLOCK FALSE
