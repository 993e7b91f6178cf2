SPECIFICATION Spec
CONSTANTS
    num_cor = 3
    MaxSize = 3
    Inputs <- SomeInputs
    Behind <- SomeBehind
INVARIANTS
    SchedulerSound
    RoundRobin
    SortsAll
PROPERTY
    Ends
CHECK_DEADLOCK FALSE
