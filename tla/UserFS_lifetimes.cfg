SPECIFICATION Spec
CONSTANTS
    f1 = f1
    f2 = f2
    None = None
    FileIds <- TwoFiles
    Names = {"a"}
    Bytes <- OneByte
    BLOCK_SIZE = 3
    MAX_FILE_SIZE = 6
    OpenFlags <- WriteOnlyCreate
    MaxFds = 2
    Buffers <- PlainBuffers
    MaxRead = 2
    ResizeSizes = {0, 1, 7}
    GrowOnly = FALSE
SYMMETRY FileSymmetry
INVARIANTS
    CountsExact
    UniqueLiveName
PROPERTY
    ClampsFullTable
CHECK_DEADLOCK FALSE
