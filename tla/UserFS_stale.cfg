SPECIFICATION Spec
CONSTANTS
    f1 = f1
    f2 = f2
    None = None
    FileIds <- TwoFiles
    Names = {"a"}
    Bytes <- TwoBytes
    BLOCK_SIZE = 2
    MAX_FILE_SIZE = 3
    OpenFlags <- PlainFlags
    MaxFds = 2
    Buffers <- DataBuffers
    MaxRead = 2
    ResizeSizes = {1, 3}
    GrowOnly = FALSE
SYMMETRY FileSymmetry
INVARIANT
    PosWithinFile
CHECK_DEADLOCK FALSE
