SPECIFICATION Spec
CONSTANTS
    num_cor = 3
    MaxSize = 3
    Inputs <- SomeInputs
    Behind <- SomeBehind
INVARIANTS
    KeepsNumbers
CHECK_DEADLOCK FALSE
