SPECIFICATION FairSpec
CONSTANTS
    t1 = t1
    t2 = t2
    u1 = u1
    u2 = u2
    None = None
    Users <- TwoUsers
    Tasks <- TwoTasks
    Handles <- OwnHandles
    TPOOL_MAX_THREADS = 2
    TPOOL_MAX_TASKS = 2
    MaxPush = 1
    GarbageInts <- ZeroedHeap
    DetachWhen = "never"
PROPERTIES
    PushedTaskFinishes
    CallsReturn
    ImplementsTaskPool
