SPECIFICATION Spec
CONSTANTS
    t1 = t1
    t2 = t2
    u1 = u1
    u2 = u2
    None = None
    Users <- TwoUsers
    Tasks <- TwoTasks
    Handles <- OwnHandles
    TPOOL_MAX_THREADS = 2
    TPOOL_MAX_TASKS = 1
    MaxPush = 2
    GarbageInts <- DirtyHeap
    DetachWhen = "finished"
SYMMETRY OwnerSymmetry
PROPERTY
    RefusesOnlyTasks
