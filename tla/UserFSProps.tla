---------------------------- MODULE UserFSProps ----------------------------
(***************************************************************************)
(* What the file system guarantees.                                        *)
(***************************************************************************)
EXTENDS UserFS

Block == [memory : [0..(BLOCK_SIZE - 1) -> Bytes], occupied : 0..BLOCK_SIZE]
Open(fd) == ~is_valid_file(fd)
Holders(f) == {fd \in DOMAIN file_descriptors : file_descriptors[fd].file = f}

\* Every variable has its type; descriptors are the slots of one array.
TypeOK ==
    /\ Len(fs.list) <= Cardinality(FileIds) /\ Listed \subseteq FileIds
    /\ \A f \in FileIds : /\ fs.at[f].name \in Names \cup {None}
                          /\ fs.at[f].refs \in 0..MaxFds
                          /\ fs.at[f].delete \in BOOLEAN
                          /\ \A i \in 1..Len(fs.at[f].blocks) : fs.at[f].blocks[i] \in Block
    /\ DOMAIN file_descriptors = 0..(file_descriptor_capacity - 1)
    /\ \A fd \in DOMAIN file_descriptors :
          file_descriptors[fd] \in [file : FileIds \cup {None}, pos : 0..MAX_FILE_SIZE,
                                    is_free : BOOLEAN, flag : OpenFlags \cup {{}}]
    /\ last.err \in {"kept", "NO_FILE", "NO_MEM", "NO_PERMISSION"}
    /\ status \in {"up", "destroyed", "crashed"}

\* refs is "How many file descriptors are opened on the file" (userfs.c:36),
\* through every order of open, close, delete and re-creation, and a file
\* that is deleted and closed is gone from the list.
RefsExact ==
    status = "up" => \A f \in FileIds :
        /\ fs.at[f].refs = Cardinality(Holders(f))
        /\ f \in Listed => ~fs.at[f].delete \/ fs.at[f].refs > 0

\* No descriptor points at a file that close_file has freed.
NoDanglingDescriptor ==
    \A fd \in DOMAIN file_descriptors : file_descriptors[fd].file \in Listed \cup {None}

\* What userfs.h:32 says of UFS_CREATE ("and a file does not exist - create it"):
\* an ufs_open does not take the file away that has the name already.  The code
\* breaks it (167).
CreateKeepsFile ==
    [][last'.op = "open" =>
         \A n \in Names : find_file(n) # None => find_file(n)' = find_file(n)]_fsVars

\* "A file has an unique file name" (userfs.h:8): of the files with one name
\* at most one is not deleted, and no file is linked twice.
UniqueLiveName ==
    \A i, j \in 1..Len(fs.list) : i # j =>
        /\ fs.list[i] # fs.list[j]
        /\ Live(fs.list[i]) /\ Live(fs.list[j]) => fs.at[fs.list[i]].name # fs.at[fs.list[j]].name

\* file_descriptor_count is the number of slots in use, which is what makes
\* it the index of a new slot (userfs.c:118): no slot in use is overwritten.
CountExact ==
    status = "up" => file_descriptor_count + Cardinality(FreeSlots) = file_descriptor_capacity

\* Through every order of open, close, delete and re-creation the descriptors
\* and the files agree: counts are exact, no descriptor dangles, no slot is
\* lost or overwritten (find_free_fd, close_file, filedesc_make_free).
CountsExact == RefsExact /\ NoDanglingDescriptor /\ CountExact

\* Every block but the last is full and no block is empty: what the walks of
\* ufs_read and ufs_write from block to block rely on.
Contiguous ==
    \A f \in Listed : \A i \in 1..Len(fs.at[f].blocks) :
        /\ i < Len(fs.at[f].blocks) => fs.at[f].blocks[i].occupied = BLOCK_SIZE
        /\ fs.at[f].blocks[i].occupied > 0

\* userfs.h:149 "Opened file descriptors behind the new file size should
\* proceed from the new file end": no position is behind the end of the file.
PosWithinFile ==
    status = "up" => \A fd \in DOMAIN file_descriptors :
        Open(fd) => file_descriptors[fd].pos <= Size(file_descriptors[fd].file)

\* While files only grow, what the walks through the blocks rely on holds in
\* every state: types, full blocks, positions inside the file (225-238, 258-272).
BlocksSound == TypeOK /\ Contiguous /\ PosWithinFile

\* PosWithinFile as far as the code keeps it: when every slot is in use, a resize
\* leaves no descriptor of the file it changes behind the new end.
ClampsFullTable ==
    [][last'.op = "resize" /\ last'.ret = 0 /\ FreeSlots = {} =>
         \A fd \in DOMAIN file_descriptors :
            LET f == file_descriptors[fd].file
            IN  Open(fd) /\ fs'.at[f] # fs.at[f] => file_descriptors'[fd].pos <= Size(f)']_fsVars
=============================================================================
