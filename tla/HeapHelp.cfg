SPECIFICATION Spec
CONSTANTS
    a1 = a1
    a2 = a2
    a3 = a3
    w1 = w1
    Static = Static
    None = None
    Main = Main
    Addrs <- ThreeBlocks
    Others <- OneWorker
    ALLOCATION_BATCH_SIZE = 2

SYMMETRY BlockSymmetry
INVARIANTS
    NeverAborts
    BooksBalance
    ReportExact
    NeverStuck
CHECK_DEADLOCK FALSE
