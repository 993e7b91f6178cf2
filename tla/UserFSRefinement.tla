-------------------------- MODULE UserFSRefinement --------------------------
(***************************************************************************)
(* The file system of 3/userfs.c implements FlatFS, except that UFS_CREATE *)
(* replaces a file that exists.                                            *)
(***************************************************************************)
EXTENDS UserFSProps

\* The bytes of a file, block after block.
Flat(blocks) == FoldLeft(LAMBDA s, b : s \o [o \in 1..b.occupied |-> b.memory[o - 1]],
                         <<>>, blocks)

\* The state of FlatFS.
Dir     == [n \in Names |-> find_file(n)]
Content == [f \in FileIds |-> Flat(fs.at[f].blocks)]
Handle(d) == [file |-> d.file, pos |-> d.pos, flag |-> d.flag]
Handles == [fd \in {x \in DOMAIN file_descriptors : Open(x)} |-> Handle(file_descriptors[fd])]
Res     == [op |-> last.op, ret |-> last.ret, out |-> last.out,
            err |-> IF status = "crashed" THEN "crash"
                    ELSE IF last.ret = -1 THEN last.err ELSE "NO_ERR"]

Actual == INSTANCE FlatFS WITH
    Replaces <- TRUE,
    Flags   <- OpenFlags,
    FdArgs  <- FdArgs,
    Bufs    <- Buffers,
    Sizes   <- (0..MaxRead) \cup ResizeSizes,
    dir     <- Dir,
    content <- Content,
    handles <- Handles,
    res     <- Res

\* While files only grow, blocks, reference counts and the descriptor table
\* behave like flat files: no call crashes, every read returns exactly the bytes
\* written, a deleted file lives until its last descriptor is closed.  Only for
\* UFS_CREATE of a file that exists this is not what the header says: the file is
\* replaced (167), as if it were deleted first.
ImplementsFlatFS == Actual!FlatSpec
=============================================================================
