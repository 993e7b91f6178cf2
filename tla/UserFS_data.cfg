SPECIFICATION Spec
CONSTANTS
    f1 = f1
    f2 = f2
    None = None
    FileIds <- TwoFiles
    Names = {"a"}
    Bytes <- TwoBytes
    BLOCK_SIZE = 2
    MAX_FILE_SIZE = 3
    OpenFlags <- ReadOnlyCreate
    MaxFds = 2
    Buffers <- DataBuffers
    MaxRead = 2
    ResizeSizes = {3}
    GrowOnly = TRUE
SYMMETRY FileSymmetry
INVARIANT
    BlocksSound
PROPERTY
    ImplementsFlatFS
CHECK_DEADLOCK FALSE
