------------------------------- MODULE FlatFS -------------------------------
(***************************************************************************)
(* The file system of 3/userfs.h without blocks, reference counts or a     *)
(* descriptor table: a directory of names, every file one sequence of      *)
(* bytes that lives as long as it has a name or an open descriptor, and    *)
(* descriptors with a position.  Files never get smaller.                  *)
(*                                                                         *)
(* The header and the code disagree about UFS_CREATE for a file that       *)
(* exists: "If the flag specified and a file does not exist - create it"   *)
(* (3/userfs.h:32) leaves it, ufs_open (3/userfs.c:167) replaces it.       *)
(* Replaces says which of the two this file system does.                   *)
(***************************************************************************)
EXTENDS Integers, Sequences

CONSTANTS FileIds, Names, MAX_FILE_SIZE, None,
          Replaces,                      \* see above
          Flags, FdArgs, Bufs, Sizes   \* the arguments callers pass

VARIABLES
    dir,       \* dir[n]: the file called n, or None
    content,   \* content[f]: the bytes of f
    handles,   \* handles[fd] for the open descriptors: [file, pos, flag]
    res        \* the last call: [op, ret, out, err]

ffVars == <<dir, content, handles, res>>

FlatInit == /\ dir = [n \in Names |-> None]
            /\ content = [f \in FileIds |-> <<>>]
            /\ handles = <<>>
            /\ res = [op |-> "none", ret |-> 0, out |-> <<>>, err |-> "NO_ERR"]

Result(op, ret, out, err) == res' = [op |-> op, ret |-> ret, out |-> out, err |-> err]
Fails(op, err) == Result(op, -1, <<>>, err) /\ UNCHANGED <<dir, content, handles>>

Reachable(d, h) == {d[n] : n \in Names} \cup {h[fd].file : fd \in DOMAIN h}

\* A file that lost its last name and its last descriptor is gone.
Tidy(c) == content' = [f \in FileIds |-> IF f \in Reachable(dir', handles') THEN c[f] ELSE <<>>]

\* A new descriptor fd, at the start of file f.
Grant(fd, f, flags) ==
    /\ fd \in Nat \ DOMAIN handles
    /\ handles' = [x \in DOMAIN handles \cup {fd} |->
                      IF x = fd THEN [file |-> f, pos |-> 0, flag |-> flags] ELSE handles[x]]
    /\ Result("open", fd, <<>>, "NO_ERR")

\* A new, empty file, which nobody else has; what had the name before loses it.
OpenNew(n, flags) ==
    LET rest == [dir EXCEPT ![n] = None]
        f    == dir'[n]
    IN  /\ "CREATE" \in flags /\ (dir[n] = None \/ Replaces)
        /\ f \in FileIds \ Reachable(rest, handles)
        /\ dir' = [dir EXCEPT ![n] = f]
        /\ Grant(res'.ret, f, flags)
        /\ Tidy([content EXCEPT ![f] = <<>>])

Open(n, flags) ==
    /\ "CREATE" \notin flags \/ (dir[n] # None /\ ~Replaces)
    /\ \/ dir[n] = None /\ Fails("open", "NO_FILE")
       \/ dir[n] # None /\ Grant(res'.ret, dir[n], flags) /\ UNCHANGED <<dir, content>>

Overwrite(c, p, buf) ==
    [i \in 1..(IF p + Len(buf) > Len(c) THEN p + Len(buf) ELSE Len(c)) |->
        IF i \in (p + 1)..(p + Len(buf)) THEN buf[i - p] ELSE c[i]]

Allowed(fd, forbidden) ==
    /\ fd \in DOMAIN handles
    /\ forbidden \notin handles[fd].flag

Refused(op, fd, forbidden) ==
    \/ fd \notin DOMAIN handles /\ Fails(op, "NO_FILE")
    \/ /\ fd \in DOMAIN handles /\ forbidden \in handles[fd].flag
       /\ Fails(op, "NO_PERMISSION")

Write(fd, buf) ==
    LET h == handles[fd]
    IN  /\ Allowed(fd, "READ_ONLY")
        /\ \/ h.pos + Len(buf) > MAX_FILE_SIZE /\ Fails("write", "NO_MEM")
           \/ /\ h.pos + Len(buf) <= MAX_FILE_SIZE
              /\ content' = [content EXCEPT ![h.file] = Overwrite(@, h.pos, buf)]
              /\ handles' = [handles EXCEPT ![fd].pos = @ + Len(buf)]
              /\ Result("write", Len(buf), <<>>, "NO_ERR")
              /\ UNCHANGED dir

\* As many bytes as there are, in order.
Read(fd, size) ==
    LET h == handles[fd]
        out == SubSeq(content[h.file], h.pos + 1,
                      IF h.pos + size > Len(content[h.file]) THEN Len(content[h.file])
                      ELSE h.pos + size)
    IN  /\ Allowed(fd, "WRITE_ONLY")
        /\ handles' = [handles EXCEPT ![fd].pos = @ + Len(out)]
        /\ Result("read", Len(out), out, "NO_ERR")
        /\ UNCHANGED <<dir, content>>

\* "new empty blocks are created and positions ... are not changed"
Grow(fd, size) ==
    LET f == handles[fd].file
    IN  /\ Allowed(fd, "READ_ONLY")
        /\ \/ size > MAX_FILE_SIZE /\ Fails("resize", "NO_MEM")
           \/ /\ size \in Len(content[f])..MAX_FILE_SIZE
              /\ content' = [content EXCEPT ![f] =
                               @ \o [i \in 1..(size - Len(@)) |-> 0]]
              /\ Result("resize", 0, <<>>, "NO_ERR")
              /\ UNCHANGED <<dir, handles>>

Close(fd) == /\ Allowed(fd, "nothing")
             /\ handles' = [x \in DOMAIN handles \ {fd} |-> handles[x]]
             /\ dir' = dir
             /\ Tidy(content)
             /\ Result("close", 0, <<>>, "NO_ERR")

Delete(n) == \/ dir[n] = None /\ Fails("delete", "NO_FILE")
             \/ /\ dir[n] # None
                /\ dir' = [dir EXCEPT ![n] = None]
                /\ handles' = handles
                /\ Tidy(content)
                /\ Result("delete", 0, <<>>, "NO_ERR")

Destroy == /\ handles' = <<>>
           /\ Result("destroy", 0, <<>>, "NO_ERR")
           /\ UNCHANGED <<dir, content>>

\* Which call it was is part of the result.
FlatNext ==
    CASE res'.op = "delete"  -> \E n \in Names : Delete(n)
      [] res'.op = "open"    -> \E n \in Names, flags \in Flags : Open(n, flags) \/ OpenNew(n, flags)
      [] res'.op = "close"   -> \E fd \in FdArgs : Close(fd) \/ Refused("close", fd, "nothing")
      [] res'.op = "write"   -> \E fd \in FdArgs : \/ Refused("write", fd, "READ_ONLY")
                                                  \/ \E buf \in Bufs : Write(fd, buf)
      [] res'.op = "read"    -> \E fd \in FdArgs : \/ Refused("read", fd, "WRITE_ONLY")
                                                  \/ \E size \in Sizes : Read(fd, size)
      [] res'.op = "resize"  -> \E fd \in FdArgs : \/ Refused("resize", fd, "READ_ONLY")
                                                  \/ \E size \in Sizes : Grow(fd, size)
      [] res'.op = "destroy" -> Destroy

FlatSpec == FlatInit /\ [][FlatNext]_ffVars
=============================================================================
