SPECIFICATION Spec
CONSTANTS
    t1 = t1
    t2 = t2
    u1 = u1
    u2 = u2
    None = None
    Users <- OneUser
    Tasks <- OneTask
    Handles <- AllHandles
    TPOOL_MAX_THREADS = 1
    TPOOL_MAX_TASKS = 1
    MaxPush = 1
    GarbageInts <- ZeroedHeap
    DetachWhen = "any"
INVARIANT NoUseAfterFree
