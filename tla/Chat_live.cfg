SPECIFICATION Spec
CONSTANTS
    a = a
    b = b
    c3 = c3
    Server = Server
    None = None
    Clients <- Two
    MaxFed <- OneEach
    Capacity = 4
    MayLeave <- OnlyB
    Programs <- Two
PROPERTIES
    Delivered
    UpdatesReturn
    ProgramEnds
CHECK_DEADLOCK FALSE
