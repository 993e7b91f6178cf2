------------------------------- MODULE UserFS -------------------------------
(***************************************************************************)
(* The in-memory file system of 3/userfs.c: files as lists of blocks,      *)
(* reference-counted and unlinked lazily, and a growing table of           *)
(* descriptors.  The library has no threads: one action per API call.      *)
(*                                                                         *)
(* A file is its address (FileIds); addresses are reused after free().     *)
(* The lists are sequences, so next, prev and last_block are implied.  A   *)
(* step that dereferences NULL or copies past the end of a block sets      *)
(* status to "crashed", after which nothing is said.                       *)
(***************************************************************************)
EXTENDS Integers, Sequences, FiniteSets, SequencesExt

CONSTANTS
    FileIds,         \* addresses of struct file
    Names,           \* file names
    Bytes,           \* byte values, 0 among them
    BLOCK_SIZE, MAX_FILE_SIZE,
    OpenFlags,       \* the combinations of open_flags callers pass
    MaxFds,          \* bound: size of the descriptor table
    Buffers,         \* what callers write
    MaxRead,         \* bound: bytes of one read
    ResizeSizes,     \* sizes callers pass to ufs_resize
    GrowOnly,        \* callers only make files bigger
    None             \* NULL

ASSUME BlockAssumption == /\ BLOCK_SIZE \in Nat \ {0}
                          /\ MAX_FILE_SIZE \in Nat /\ MaxRead \in Nat
ASSUME FdAssumption    == /\ MaxFds \in Nat /\ ResizeSizes \subseteq Nat
                          /\ GrowOnly \in BOOLEAN
ASSUME FlagAssumption  == OpenFlags \subseteq SUBSET {"CREATE", "READ_ONLY", "WRITE_ONLY", "READ_WRITE"}
ASSUME ByteAssumption  == 0 \in Bytes /\ Buffers \subseteq Seq(Bytes)
ASSUME FileAssumption  == None \notin FileIds

VARIABLES
    fs,                \* [list: file_list, newest first; at: the struct at an address]
    file_descriptors,  \* the slots 0 .. file_descriptor_capacity - 1
    file_descriptor_count,
    last,              \* the last call: which it was, what it returned, the bytes it
                       \* read, what it stored in ufs_error_code ("kept": nothing)
    status             \* "up", "destroyed" or "crashed"
fsVars == <<fs, file_descriptors, file_descriptor_count, last, status>>

CeilDiv(a, b) == (a + b - 1) \div b
Offset(p) == p % BLOCK_SIZE

Freed == [name |-> None, refs |-> 0, delete |-> FALSE, blocks |-> <<>>]
Listed == {fs.list[i] : i \in 1..Len(fs.list)}
Live(f) == f \in Listed /\ ~fs.at[f].delete
file_descriptor_capacity == Cardinality(DOMAIN file_descriptors)

Init == /\ fs = [list |-> <<>>, at |-> [f \in FileIds |-> Freed]]
        /\ file_descriptors = <<>> /\ file_descriptor_count = 0
        /\ status = "up"
        /\ last = [op |-> "none", ret |-> 0, out |-> <<>>, err |-> "kept"]

-----------------------------------------------------------------------------
(* Files.  An operator maps the file list before a call to the one after.  *)

\* The search of lines 51-61; the callers add the reference it takes.
find_file(filename) ==
    LET hits == {i \in 1..Len(fs.list) : /\ ~fs.at[fs.list[i]].delete
                                         /\ fs.at[fs.list[i]].name = filename}
    IN  IF hits = {} THEN None ELSE fs.list[CHOOSE i \in hits : \A j \in hits : i <= j]

create_file(s, f, filename) ==
    [list |-> <<f>> \o s.list,
     at   |-> [s.at EXCEPT ![f] = [name |-> filename, refs |-> 1, delete |-> FALSE,
                                   blocks |-> <<>>]]]

\* Mutant: a deleted file is freed while descriptors are open on it.
Dies_early(s, f) == s.at[f].delete

\* The test of line 126 after the decrement.
Dies(s, f) == s.at[f].refs = 1 /\ s.at[f].delete

\* The node of a file, and the list after lines 137-139 took it out.
NodeOf(list, f) == CHOOSE i \in 1..Len(list) : list[i] = f
Without(list, f) == RemoveAt(list, NodeOf(list, f))

\* The last reference to a deleted file frees its blocks and unlinks it.
close_file(s, f) ==
    IF Dies(s, f)
    THEN [list |-> Without(s.list, f), at |-> [s.at EXCEPT ![f] = Freed]]
    ELSE [s EXCEPT !.at[f].refs = @ - 1]

\* Mutant: the file is not marked.
Unlink_unmarked(s, f) == s

\* Lines 294-300 for a file that was found: find_file's reference is given
\* back by close_file once the file is marked.
Unlink(s, f) == close_file([s EXCEPT !.at[f].delete = TRUE, !.at[f].refs = @ + 1], f)

-----------------------------------------------------------------------------
(* Descriptors.                                                            *)

\* 1 in C when the descriptor is NOT valid.
is_valid_file(fd) == fd \in DOMAIN file_descriptors =>
    file_descriptors[fd].file = None \/ file_descriptors[fd].is_free

NewSlot == [file |-> None, pos |-> 0, is_free |-> FALSE, flag |-> {}]

FreeSlots == {i \in DOMAIN file_descriptors : file_descriptors[i].is_free}

\* Line 111.
Taken(i) == [file_descriptors EXCEPT ![i].is_free = FALSE]

\* The lowest free slot, or a new one, stored at index file_descriptor_count
\* (lines 118-122).  The pos of a new slot is not assigned, nor read before
\* ufs_open succeeds; 0 stands for it.
find_free_fd ==
    IF file_descriptor_count < file_descriptor_capacity /\ FreeSlots # {}
    THEN [fd |-> Min(FreeSlots), table |-> Taken(Min(FreeSlots))]
    ELSE [fd |-> file_descriptor_count,
          table |-> [i \in 0..file_descriptor_capacity |->
              IF i = file_descriptor_count THEN NewSlot ELSE file_descriptors[i]]]

Return(op, r, bytes, code) == last' = [op |-> op, ret |-> r, out |-> bytes, err |-> code]

\* A call that fails and changes nothing else.
Fail(op, code) == /\ Return(op, -1, <<>>, code)
                  /\ UNCHANGED <<fs, file_descriptors, file_descriptor_count, status>>

Crash(op) == /\ status' = "crashed"
             /\ Return(op, -1, <<>>, "kept")
             /\ UNCHANGED <<fs, file_descriptors, file_descriptor_count>>

\* The checks every call on a descriptor begins with; then Body.
Checked(op, fd, forbidden, Body) ==
    /\ status = "up"
    /\ \/ is_valid_file(fd) /\ Fail(op, "NO_FILE")
       \/ /\ ~is_valid_file(fd) /\ forbidden \in file_descriptors[fd].flag
          /\ Fail(op, "NO_PERMISSION")
       \/ ~is_valid_file(fd) /\ forbidden \notin file_descriptors[fd].flag /\ Body

-----------------------------------------------------------------------------
(* The API.                                                                *)

\* UFS_CREATE unlinks a file of that name and makes a new one; ufs_delete sets
\* ufs_error_code when there is none.
OpenCreate(fd, table, filename, flags) ==
    LET old == find_file(filename)
        s   == IF old = None THEN fs ELSE Unlink(fs, old)
    IN  \E f \in FileIds :
           /\ ~\E i \in 1..Len(s.list) : s.list[i] = f
           /\ fs' = create_file(s, f, filename)
           /\ file_descriptors' = [table EXCEPT ![fd].flag = flags, ![fd].file = f, ![fd].pos = 0]
           /\ Return("open", fd, <<>>, IF old = None THEN "NO_FILE" ELSE "kept")

\* Without it: a file that is not found leaves the slot taken, with no file.
OpenExisting(fd, table, filename, flags) ==
    LET f == find_file(filename)
    IN  \/ /\ f # None
           /\ fs' = [fs EXCEPT !.at[f].refs = @ + 1]
           /\ file_descriptors' = [table EXCEPT ![fd].flag = flags, ![fd].file = f, ![fd].pos = 0]
           /\ Return("open", fd, <<>>, "kept")
        \/ /\ f = None
           /\ file_descriptors' = [table EXCEPT ![fd].flag = flags, ![fd].file = None]
           /\ Return("open", -1, <<>>, "NO_FILE")
           /\ UNCHANGED fs

ufs_open(filename, flags) ==
    /\ status = "up"
    /\ FreeSlots # {} \/ file_descriptor_capacity < MaxFds
    /\ LET slot == find_free_fd
       IN  \/ /\ "CREATE" \in flags
              /\ OpenCreate(slot.fd, slot.table, filename, flags)
           \/ /\ "CREATE" \notin flags
              /\ OpenExisting(slot.fd, slot.table, filename, flags)
    /\ file_descriptor_count' = file_descriptor_count + 1
    /\ UNCHANGED status

new_block == [memory |-> [o \in 0..(BLOCK_SIZE - 1) |-> 0], occupied |-> 0]

BlockAt(blocks, i) == IF i <= Len(blocks) THEN blocks[i] ELSE new_block

\* Lines 233-235.
Filled(old, upto) == Max({old, upto})

\* Lines 218-238 in closed form: the blocks after buf was copied to them from
\* position p on, new ones appended as needed.
Written(blocks, p, buf) ==
    LET end == p + Len(buf)
        n   == IF buf = <<>> THEN Len(blocks) ELSE Max({Len(blocks), CeilDiv(end, BLOCK_SIZE)})
    IN  [i \in 1..n |->
           LET base == (i - 1) * BLOCK_SIZE
               old  == BlockAt(blocks, i)
           IN  [memory   |-> [o \in 0..(BLOCK_SIZE - 1) |->
                                IF base + o \in p..(end - 1) THEN buf[base + o - p + 1]
                                ELSE old.memory[o]],
                occupied |-> IF base < end /\ p < base + BLOCK_SIZE /\ buf # <<>>
                             THEN Filled(old.occupied, Min({end - base, BLOCK_SIZE}))
                             ELSE old.occupied]]

TooLong(p, size) == p + size > MAX_FILE_SIZE

\* The walk of lines 219-221 and 259-261 dereferences NULL when the position is
\* more than one block behind the last one.
WalksOffTheEnd(d) == d.pos \div BLOCK_SIZE > Len(fs.at[d.file].blocks)

DoWrite(fd, d, buf) ==
    \/ TooLong(d.pos, Len(buf)) /\ Fail("write", "NO_MEM")
    \/ ~TooLong(d.pos, Len(buf)) /\ WalksOffTheEnd(d) /\ Crash("write")
    \/ /\ ~TooLong(d.pos, Len(buf)) /\ ~WalksOffTheEnd(d)
       /\ fs' = [fs EXCEPT !.at[d.file].blocks = Written(@, d.pos, buf)]
       /\ file_descriptors' = [file_descriptors EXCEPT ![fd].pos = @ + Len(buf)]
       /\ Return("write", Len(buf), <<>>, "kept")
       /\ UNCHANGED <<file_descriptor_count, status>>

ufs_write(fd, buf) ==
    Checked("write", fd, "READ_ONLY", DoWrite(fd, file_descriptors[fd], buf))

\* Mutant: the position inside the block is not subtracted.
Available_whole(occupied, p, left) == Min({occupied, left})

\* Lines 264-265, in size_t: a position behind `occupied' makes a huge number.
Available(occupied, p, left) ==
    IF occupied < Offset(p) THEN left ELSE Min({occupied - Offset(p), left})

\* Lines 263-272: one block after the other until size bytes are read, a block
\* has nothing at the position, or a copy leaves the block ("overrun").
ReadFrom(blocks, p, size) ==
    LET OneBlock(acc, b) ==
            LET n == Available(b.occupied, acc.pos, size - Len(acc.out))
            IN  IF acc.stop \/ n = 0 THEN [acc EXCEPT !.stop = TRUE]
                ELSE IF Offset(acc.pos) + n > BLOCK_SIZE
                     THEN [acc EXCEPT !.stop = TRUE, !.overrun = TRUE]
                ELSE [acc EXCEPT !.pos = @ + n,
                                 !.out = @ \o [k \in 1..n |-> b.memory[Offset(acc.pos) + k - 1]]]
    IN  FoldLeft(OneBlock, [pos |-> p, out |-> <<>>, stop |-> FALSE, overrun |-> FALSE],
                 SubSeq(blocks, p \div BLOCK_SIZE + 1, Len(blocks)))

DoRead(fd, d, r) ==
    \/ WalksOffTheEnd(d) /\ Crash("read")
    \/ ~WalksOffTheEnd(d) /\ r.overrun /\ Crash("read")
    \/ /\ ~WalksOffTheEnd(d) /\ ~r.overrun
       /\ file_descriptors' = [file_descriptors EXCEPT ![fd].pos = r.pos]
       /\ Return("read", Len(r.out), r.out, "kept")
       /\ UNCHANGED <<fs, file_descriptor_count, status>>

ufs_read(fd, size) ==
    LET d == file_descriptors[fd]
    IN  Checked("read", fd, "WRITE_ONLY",
                DoRead(fd, d, ReadFrom(fs.at[d.file].blocks, d.pos, size)))

filedesc_make_free(fd) ==
    /\ fs' = close_file(fs, file_descriptors[fd].file)
    /\ file_descriptors' = [file_descriptors EXCEPT ![fd].file = None, ![fd].is_free = TRUE,
                                                   ![fd].flag = {}]
    /\ file_descriptor_count' = file_descriptor_count - 1

ufs_close(fd) == Checked("close", fd, "nothing",
    filedesc_make_free(fd) /\ Return("close", 0, <<>>, "kept") /\ UNCHANGED status)

ufs_delete(filename) ==
    /\ status = "up"
    /\ LET f == find_file(filename)
       IN  \/ /\ f = None
              /\ Fail("delete", "NO_FILE")
           \/ /\ f # None
              /\ fs' = Unlink(fs, f)
              /\ Return("delete", 0, <<>>, "kept")
              /\ UNCHANGED <<file_descriptors, file_descriptor_count, status>>

\* The descriptors go; the files and file_descriptor_count stay.  "After the
\* destruction neither of the ufs functions are supposed to be used".
ufs_destroy ==
    /\ status = "up"
    /\ file_descriptors' = <<>>
    /\ status' = "destroyed"
    /\ Return("destroy", 0, <<>>, "kept")
    /\ UNCHANGED <<fs, file_descriptor_count>>

\* Mutant: a new last block keeps occupied = 0.
Resized_unoccupied(blocks, new_size) ==
    [i \in 1..CeilDiv(new_size, BLOCK_SIZE) |-> BlockAt(blocks, i)]

\* Lines 332-361 in closed form, for new_size > 0: missing blocks are appended,
\* superfluous ones freed; the memory of the last block is not cleared.
Resized(blocks, new_size) ==
    [i \in 1..CeilDiv(new_size, BLOCK_SIZE) |->
        [BlockAt(blocks, i) EXCEPT
            !.occupied = Min({BLOCK_SIZE, new_size - (i - 1) * BLOCK_SIZE})]]

\* Mutant: the last slot is not looked at.
Reached_off_by_one(i) == i < file_descriptor_count - 1

\* The bound of the loop of line 362: not the capacity of the table.
Reached(i) == i < file_descriptor_count

\* Lines 362-365: every descriptor the loop reaches on a file of that NAME.
Clamped(d, new_size) ==
    LET Same(e) == e.file # None /\ fs.at[e.file].name = fs.at[d.file].name
    IN  [i \in DOMAIN file_descriptors |->
           IF Reached(i) /\ Same(file_descriptors[i])
           THEN [file_descriptors[i] EXCEPT !.pos = Min({@, new_size})]
           ELSE file_descriptors[i]]

DoResize(fd, d, new_size) ==
    \/ TooLong(0, new_size) /\ Fail("resize", "NO_MEM")
    \/ new_size = 0 /\ Crash("resize")      \* line 351 with tmp = NULL
    \/ /\ ~TooLong(0, new_size) /\ new_size > 0
       /\ fs' = [fs EXCEPT !.at[d.file].blocks = Resized(@, new_size)]
       /\ file_descriptors' = Clamped(d, new_size)
       /\ Return("resize", 0, <<>>, "kept")
       /\ UNCHANGED <<file_descriptor_count, status>>

ufs_resize(fd, new_size) ==
    Checked("resize", fd, "READ_ONLY", DoResize(fd, file_descriptors[fd], new_size))

-----------------------------------------------------------------------------
Size(f) == FoldLeft(LAMBDA n, b : n + b.occupied, 0, fs.at[f].blocks)

\* With GrowOnly callers never make a file smaller, nor smaller than a deleted
\* file of the same name that is still open.
MayResize(fd, new_size) ==
    GrowOnly /\ ~is_valid_file(fd) =>
        \A f \in Listed : fs.at[f].name = fs.at[file_descriptors[fd].file].name
                          => new_size >= Max({Size(f), 1})

\* Callers also pass descriptors that are not open.
FdArgs == -1..(MaxFds - 1)

Next == \/ \E n \in Names : ufs_delete(n) \/ \E flags \in OpenFlags : ufs_open(n, flags)
        \/ \E fd \in FdArgs :
             \/ ufs_close(fd)
             \/ \E buf \in Buffers : ufs_write(fd, buf)
             \/ \E size \in 0..MaxRead : ufs_read(fd, size)
             \/ \E n \in ResizeSizes : MayResize(fd, n) /\ ufs_resize(fd, n)
        \/ ufs_destroy

Spec == Init /\ [][Next]_fsVars
=============================================================================
