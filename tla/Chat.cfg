SPECIFICATION Spec
CONSTANTS
    a = a
    b = b
    c3 = c3
    Server = Server
    None = None
    Clients <- Three
    MaxFed <- AFeeds
    Capacity = 4
    MayLeave <- OnlyB
    Programs <- NotB
INVARIANTS
    Attribution
    InOrderOnce
    SameOrder
CHECK_DEADLOCK FALSE
